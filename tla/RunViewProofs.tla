----------------------------- MODULE RunViewProofs -----------------------------
(***************************************************************************)
(* What a run sees is what its generation published, for any plugins,      *)
(* scopes, views, preferences and number of runs and generations.          *)
(*                                                                         *)
(* The registries are live: plugins register and withdraw while            *)
(* generations are published and runs execute.  The proofs rest on what    *)
(* stays true of a generation as long as a run or the harness may use it   *)
(* (Served): its instances are open, and of its tools, those that were not *)
(* registered after the publication have one name each and are where their *)
(* scope sees them.  What the publication wrote down itself (Published)    *)
(* never changes.  A run's record (Held) is then related to its generation *)
(* alone.                                                                  *)
(*                                                                         *)
(* The registries and the graph cache are sequences that are filtered, and *)
(* are described by what they are a filter of: the entry of a name is the  *)
(* log of all registrations without those that are gone, and the keys of   *)
(* the cache are the last of all the keys that runs have asked for.        *)
(***************************************************************************)
EXTENDS RunView, FiniteLemmas, SequenceTheorems

Items == UNION {UNION {Range(case.plugin[i].items) : i \in Instances} : case \in Settings}
Registrations == [owner : Instances, item : Items]

(***************************************************************************)
(* The registries: every registration is made once, in the order of its    *)
(* owner's items.                                                          *)
(***************************************************************************)

ItemsOf(i) == plugin(i).items
FirstOf(i, n) == {Registration(i, ItemsOf(i)[k]) : k \in 1 .. n}

Numbered(i) ==
  /\ Cardinality(Registered(i)) \in 0 .. Len(ItemsOf(i))
  /\ Registered(i) = FirstOf(i, Cardinality(Registered(i)))

Stored ==
  /\ setting \in Settings
  /\ scope \in [Instances -> {"new", "open", "closing", "closed"}]
  /\ made \in Seq(Registrations)
  /\ \A m, n \in DOMAIN made : made[m] = made[n] => m = n
  /\ \A i \in Instances : Numbered(i)
  /\ live \subseteq Range(made)

(***************************************************************************)
(* Generations                                                             *)
(***************************************************************************)

Published(g) ==
  /\ g.instances \subseteq Instances
  /\ g.caps \subseteq Registrations /\ IsFiniteSet(g.caps)
  /\ \A p \in g.caps : p.owner \in g.instances
  /\ \A i \in g.instances : \A p \in plugin(i).promises :
       \E reg \in g.caps : reg.owner = i /\ <<reg.item.cap, reg.item.version>> = p
  /\ \A p \in g.caps, s \in Scopes :
       <<p.item.cap, p.owner>> \in g.visible[s] =>
         Place[p.owner] \in Lineage[s] /\ Exposed(CapView, s, p.item.cap)

Punctual(g) == ToolsOf(g.instances) \ late

Served(g) ==
  /\ \A i \in g.instances : scope[i] = "open"
  /\ \A t, u \in Punctual(g) : t.item.name = u.item.name => t = u
  /\ \A t \in Punctual(g), s \in Scopes :
       t.item.name \in g.tools[s] =>
         Place[t.owner] \in Lineage[s] /\ Exposed(ToolView, s, t.item.name)

GenerationsInv ==
  /\ generations \in Seq(Range(generations))
  /\ \A n \in DOMAIN generations : Published(generations[n])
  /\ \A g \in LiveGenerations : Served(g)

(***************************************************************************)
(* Runs                                                                    *)
(***************************************************************************)

Fields == {"pc", "generation", "scope", "runtime", "tools", "pick", "policies", "caps",
           "service", "chain", "heard", "payload", "graph", "called"}

(* The service of a run, by what its generation and its scope offer. *)
FailedClosed(run, g) ==
  LET service == run.service
      rivals == {p \in run.caps : p.item.cap = System /\ p.item.conforms /\ p.item.version = 1}
  IN /\ service = Default => \A p \in g.caps : p.item.cap # System
     /\ service.from = "provider" =>
          /\ service.reg \in rivals
          /\ rivals = {service.reg} \/ \E key \in DOMAIN g.prefs : g.prefs[key] = service.reg.owner

ToolsHeld(run, g) ==
  /\ \A t \in run.tools : t.owner \in g.instances
  /\ \A t, u \in run.tools \ late : t.item.name = u.item.name => t = u
  /\ run.scope \in Scopes =>
       \A t \in run.tools \ late :
         Place[t.owner] \in Lineage[run.scope] /\ Exposed(ToolView, run.scope, t.item.name)
  /\ \A t \in run.tools : t \in DOMAIN frozen /\ run.policies[t] = frozen[t]
  /\ \A name \in DOMAIN run.pick : run.pick[name] \in run.tools
  /\ run.called \subseteq run.tools

CapsHeld(run, g) ==
  /\ \A p \in run.caps : p.owner \in g.instances
  /\ run.scope \in Scopes =>
       \A p \in run.caps :
         Place[p.owner] \in Lineage[run.scope] /\ Exposed(CapView, run.scope, p.item.cap)
  /\ FailedClosed(run, g)

(* Handlers that were heard, and those to come, in their order. *)
ChainHeld(run, g) ==
  /\ run.chain \in Seq(Registrations) /\ run.heard \in Seq(Registrations \X Outcomes)
  /\ \A n \in DOMAIN run.chain :
       run.chain[n] \in Range(made) /\ run.chain[n].owner \in g.instances
  /\ \A n \in DOMAIN run.heard :
       run.heard[n][1] \in Range(made) /\ run.heard[n][1].owner \in g.instances
  /\ \A m, n \in DOMAIN run.chain : m < n => GoesBefore(run.chain[m], run.chain[n])
  /\ \A m, n \in DOMAIN run.heard : m < n => GoesBefore(run.heard[m][1], run.heard[n][1])
  /\ \A m \in DOMAIN run.heard, n \in DOMAIN run.chain :
       GoesBefore(run.heard[m][1], run.chain[n])

Given(run) ==
  {n \in DOMAIN run.heard : run.heard[n][1].item.mode = "transform" /\ run.heard[n][2] = "mapping"}

OutcomesHeld(run) ==
  /\ \A n \in DOMAIN run.heard :
       Refusal(run.heard[n][1], run.heard[n][2]) <=> n = Len(run.heard) /\ run.pc = "refused"
  /\ run.pc \in {"hooks", "running", "refused"}
  /\ \/ Given(run) = {} /\ run.payload = <<>>
     \/ \E m \in Given(run) : /\ \A k \in Given(run) : k <= m
                              /\ run.payload = <<run.heard[m][1]>>

Held(run) ==
  /\ DOMAIN run = Fields
  /\ run.generation \in DOMAIN generations
  /\ run.scope \in Scopes \cup {Everywhere}
  /\ ToolsHeld(run, generations[run.generation])
  /\ CapsHeld(run, generations[run.generation])
  /\ ChainHeld(run, generations[run.generation])
  /\ OutcomesHeld(run)

RunsInv ==
  /\ DOMAIN runs = Runs
  /\ \A r \in Runs : runs[r] = Idle \/ Held(runs[r])

ViewInv == Stored /\ GenerationsInv /\ RunsInv

-----------------------------------------------------------------------------
(* The registries *)

LEMMA ItemsTyped ==
  ASSUME setting \in Settings, NEW i \in Instances
  PROVE  /\ ItemsOf(i) \in Seq(Items) /\ Len(ItemsOf(i)) \in Nat
         /\ \A m, n \in 1 .. Len(ItemsOf(i)) : ItemsOf(i)[m] = ItemsOf(i)[n] => m = n
<1>1. /\ ItemsOf(i) \in Seq(Range(ItemsOf(i)))
      /\ \A m, n \in DOMAIN ItemsOf(i) : ItemsOf(i)[m] = ItemsOf(i)[n] => m = n
  BY ItemsAssumption DEF ItemsOf, plugin
<1>2. Range(ItemsOf(i)) \subseteq Items
  BY DEF Items, ItemsOf, plugin
<1>3. Len(ItemsOf(i)) \in Nat /\ DOMAIN ItemsOf(i) = 1 .. Len(ItemsOf(i))
  BY <1>1, LenProperties
<1>4. ItemsOf(i) \in [1 .. Len(ItemsOf(i)) -> Items]
  BY <1>1, <1>2, <1>3, LenProperties DEF Range
<1>5. ItemsOf(i) \in Seq(Items)
  BY <1>3, <1>4, SeqDef
<1> QED BY <1>1, <1>3, <1>5

(* Priorities are numbers. *)
LEMMA PrioritiesAreNumbers ==
  \A item \in Items : item.kind = "hook" => item.priority \in Int
<1> SUFFICES ASSUME NEW item \in Items, item.kind = "hook" PROVE item.priority \in Int
  OBVIOUS
<1>1. PICK case \in Settings, i \in Instances : item \in Range(case.plugin[i].items)
  BY DEF Items
<1> QED BY <1>1, ItemsAssumption

LEMMA MadeFacts ==
  ASSUME made \in Seq(Registrations)
  PROVE  /\ Len(made) \in Nat /\ DOMAIN made = 1 .. Len(made)
         /\ Range(made) \subseteq Registrations /\ IsFiniteSet(Range(made))
         /\ \A reg \in Range(made) : MadeAt(reg) \in DOMAIN made /\ made[MadeAt(reg)] = reg
<1>1. /\ Len(made) \in Nat /\ DOMAIN made = 1 .. Len(made)
      /\ made \in [1 .. Len(made) -> Registrations]
  BY LenProperties
<1>2. Range(made) \subseteq Registrations
  BY <1>1 DEF Range
<1>3. IsFiniteSet(1 .. Len(made))
  BY <1>1, FS_Interval
<1>4. made \in Surjection(1 .. Len(made), Range(made))
  BY <1>1 DEF Surjection, Range
<1>5. IsFiniteSet(Range(made))
  BY <1>3, <1>4, FS_Surjection
<1>6. ASSUME NEW reg \in Range(made)
      PROVE  MadeAt(reg) \in DOMAIN made /\ made[MadeAt(reg)] = reg
  <2>1. \E n \in DOMAIN made : made[n] = reg
    BY DEF Range
  <2> QED BY <2>1 DEF MadeAt
<1> QED BY <1>1, <1>2, <1>5, <1>6

(* A step of the registries: what it may do to what runs and generations   *)
(* see.                                                                    *)
RegistryMove ==
  /\ Stored'
  /\ UNCHANGED <<setting, frozen, generations, runs>>
  /\ late \subseteq late'
  /\ \A reg \in live' \ live : reg.owner \in Reachable => reg \in late'
  /\ \A i \in Reachable \cap Instances : scope[i] = "open" => scope'[i] = "open"
  /\ \/ made' = made
     \/ \E reg \in Registrations : reg \notin Range(made) /\ made' = Append(made, reg)

(* Registrations go, nothing comes. *)
LEMMA RemovalMoves ==
  ASSUME Stored, UNCHANGED <<setting, frozen, generations, runs, made, late>>,
         live' \subseteq live,
         scope' \in [Instances -> {"new", "open", "closing", "closed"}],
         \A i \in Reachable \cap Instances : scope[i] = "open" => scope'[i] = "open"
  PROVE  RegistryMove
<1>1. ASSUME NEW i \in Instances PROVE Numbered(i)'
  <2>1. Numbered(i)
    BY DEF Stored
  <2>2. Registered(i)' = Registered(i) /\ ItemsOf(i)' = ItemsOf(i)
    BY DEF Registered, ItemsOf, plugin
  <2> QED BY <2>1, <2>2 DEF Numbered, FirstOf
<1>2. Stored'
  BY <1>1 DEF Stored
<1> QED BY <1>2 DEF RegistryMove

LEMMA RegisterMoves ==
  ASSUME Stored, NEW i \in Instances, Registers(i)
  PROVE  RegistryMove
<1> DEFINE n == Cardinality(Registered(i))
           item == NextItem(i)
           reg == Registration(i, item)
<1>1. /\ n < Len(ItemsOf(i)) /\ item = ItemsOf(i)[n + 1]
      /\ made' = Append(made, reg) /\ live' = live \cup {reg}
      /\ UNCHANGED <<setting, scope, frozen, generations, runs>>
      /\ late' = IF i \in Reachable THEN late \cup {Last(made')} ELSE late
  BY DEF Registers, Register, NextItem, ItemsOf
<1>2. /\ setting \in Settings /\ made \in Seq(Registrations) /\ live \subseteq Range(made)
      /\ \A l, m \in DOMAIN made : made[l] = made[m] => l = m
      /\ scope \in [Instances -> {"new", "open", "closing", "closed"}]
  BY DEF Stored
<1>3. n \in 0 .. Len(ItemsOf(i)) /\ Registered(i) = FirstOf(i, n)
  BY DEF Stored, Numbered
<1>4. ItemsOf(i) \in Seq(Items) /\ Len(ItemsOf(i)) \in Nat
  BY <1>2, ItemsTyped
<1>5. n + 1 \in 1 .. Len(ItemsOf(i)) /\ item \in Items
  <2>1. n + 1 \in 1 .. Len(ItemsOf(i))
    BY <1>1, <1>3, <1>4
  <2> QED BY <1>1, <1>4, <2>1, ElementOfSeq
<1>6. reg \in Registrations /\ reg.owner = i /\ reg.item = item
  BY <1>5 DEF Registrations, Registration
<1>7. reg \notin Range(made)
  <2>1. SUFFICES ASSUME reg \in Range(made) PROVE FALSE
    OBVIOUS
  <2>2. reg \in FirstOf(i, n)
    BY <1>3, <1>6, <2>1 DEF Registered
  <2>3. PICK k \in 1 .. n : reg = Registration(i, ItemsOf(i)[k])
    BY <2>2 DEF FirstOf
  <2>4. ItemsOf(i)[k] = ItemsOf(i)[n + 1]
    BY <1>1, <2>3 DEF Registration
  <2>5. k \in 1 .. Len(ItemsOf(i)) /\ k # n + 1
    BY <1>3, <1>4
  <2> QED BY <1>2, <1>5, <2>4, <2>5, ItemsTyped
<1> HIDE DEF reg
<1>8. /\ made' \in Seq(Registrations) /\ Len(made') = Len(made) + 1
      /\ \A m \in 1 .. Len(made) : made'[m] = made[m]
      /\ made'[Len(made) + 1] = reg
  BY <1>1, <1>2, <1>6, AppendProperties
<1>9. DOMAIN made = 1 .. Len(made) /\ DOMAIN made' = 1 .. (Len(made) + 1) /\ Len(made) \in Nat
  BY <1>2, <1>8, LenProperties
<1>10. Range(made') = Range(made) \cup {reg}
  BY <1>8, <1>9 DEF Range
<1>11. \A l, m \in DOMAIN made' : made'[l] = made'[m] => l = m
  <2>1. \A l \in 1 .. Len(made) : made'[l] = made[l] /\ made[l] # reg /\ l \in DOMAIN made
    BY <1>7, <1>8, <1>9 DEF Range
  <2>2. \A l \in DOMAIN made' : l \in 1 .. Len(made) \/ l = Len(made) + 1
    BY <1>9
  <2> QED BY <1>2, <1>8, <2>1, <2>2
<1>12. ASSUME NEW j \in Instances
       PROVE  Numbered(j)'
  <2>1. ItemsOf(j)' = ItemsOf(j)
    BY <1>1 DEF ItemsOf, plugin
  <2>2. CASE j # i
    <3>1. Registered(j)' = Registered(j)
      BY <1>6, <1>10, <2>2 DEF Registered
    <3>2. Numbered(j)
      BY DEF Stored
    <3> QED BY <1>1, <2>1, <3>1, <3>2 DEF Numbered, FirstOf
  <2>3. CASE j = i
    <3>1. Registered(i)' = Registered(i) \cup {reg} /\ reg \notin Registered(i)
      BY <1>6, <1>7, <1>10 DEF Registered
    <3>2. IsFiniteSet(Registered(i))
      <4>1. Registered(i) \in SUBSET Range(made)
        BY DEF Registered
      <4> QED BY <1>2, <4>1, MadeFacts, FS_Subset
    <3>3. Cardinality(Registered(i)') = n + 1
      BY <3>1, <3>2, FS_AddElement
    <3>4. FirstOf(i, n + 1) = FirstOf(i, n) \cup {reg}
      <4>1. 1 .. (n + 1) = 1 .. n \cup {n + 1}
        BY <1>3
      <4>2. reg = Registration(i, ItemsOf(i)[n + 1])
        BY <1>1 DEF reg
      <4> QED BY <4>1, <4>2 DEF FirstOf
    <3>5. Registered(i)' = {Registration(i, ItemsOf(i)'[k]) : k \in 1 .. Cardinality(Registered(i)')}
      <4> HIDE DEF n
      <4> QED BY <1>3, <2>1, <2>3, <3>1, <3>3, <3>4 DEF FirstOf
    <3> QED BY <1>5, <2>1, <2>3, <3>3, <3>5 DEF Numbered, FirstOf
  <2> QED BY <2>2, <2>3
<1>13. Stored'
  BY <1>1, <1>2, <1>8, <1>10, <1>11, <1>12 DEF Stored
<1>14. Last(made') = reg
  BY <1>8 DEF Last
<1>15. \A other \in live' \ live : other.owner \in Reachable => other \in late'
  BY <1>1, <1>6, <1>14
<1> QED BY <1>1, <1>6, <1>7, <1>13, <1>15 DEF RegistryMove

LEMMA RegistryMoves ==
  ASSUME Stored, NEW i \in Instances,
         \/ Mounts(i) \/ Disposes(i) \/ Unwinds(i) \/ Registers(i)
         \/ \E key \in IndexKeys : Unregisters(i, key) \/ UnregistersNewest(key)
         \/ \E reg \in live : UnregistersHook(reg) \/ \E p \in Policies : Rewires(reg, p)
  PROVE  RegistryMove
<1>1. scope \in [Instances -> {"new", "open", "closing", "closed"}]
  BY DEF Stored
<1>2. CASE Mounts(i) \/ Disposes(i)
  <2>1. PICK next \in {"open", "closing"} :
          /\ scope' = [scope EXCEPT ![i] = next]
          /\ next = "open" \/ i \notin Reachable
          /\ UNCHANGED <<setting, frozen, generations, runs, made, late, live>>
    BY <1>2 DEF Mounts, Mount, Disposes, CloseBegin, viewVars
  <2>2. /\ scope' \in [Instances -> {"new", "open", "closing", "closed"}]
        /\ \A j \in Reachable \cap Instances : scope[j] = "open" => scope'[j] = "open"
    BY <1>1, <2>1
  <2> QED BY <2>1, <2>2, RemovalMoves
<1>3. CASE Unwinds(i)
  <2>1. /\ scope[i] = "closing"
        /\ scope' = scope \/ scope' = [scope EXCEPT ![i] = "closed"]
        /\ live' \subseteq live
        /\ UNCHANGED <<setting, frozen, generations, runs, made, late>>
    BY <1>3 DEF Unwinds, CloseStep, Release, viewVars
  <2> QED BY <1>1, <2>1, RemovalMoves
<1>4. ASSUME NEW key \in IndexKeys, Unregisters(i, key) \/ UnregistersNewest(key)
      PROVE  RegistryMove
  <2>1. live' \subseteq live /\ UNCHANGED <<setting, frozen, generations, runs, made, late, scope>>
    BY <1>4 DEF Unregisters, UnregisterOwn, UnregistersNewest, UnregisterNewest, Release, viewVars
  <2> QED BY <1>1, <2>1, RemovalMoves
<1>5. ASSUME NEW reg \in live, UnregistersHook(reg) \/ \E p \in Policies : Rewires(reg, p)
      PROVE  RegistryMove
  <2>1. live' \subseteq live /\ UNCHANGED <<setting, frozen, generations, runs, made, late, scope>>
    BY <1>5 DEF UnregistersHook, UnregisterHook, Rewires, Rewire, Release, viewVars
  <2> QED BY <1>1, <2>1, RemovalMoves
<1> QED BY <1>2, <1>3, <1>4, <1>5, RegisterMoves

-----------------------------------------------------------------------------
(* The order of hooks *)

(* Whoever registered once is found where it was: later registrations      *)
(* change no order.                                                        *)
LEMMA OrderStays ==
  ASSUME made \in Seq(Registrations),
         \A m, n \in DOMAIN made : made[m] = made[n] => m = n,
         \/ made' = made
         \/ \E reg \in Registrations : reg \notin Range(made) /\ made' = Append(made, reg)
  PROVE  /\ Range(made) \subseteq Range(made')
         /\ \A a, b \in Range(made) : GoesBefore(a, b)' <=> GoesBefore(a, b)
<1>1. CASE made' = made
  <2>1. \A a : MadeAt(a)' = MadeAt(a)
    BY <1>1 DEF MadeAt
  <2> QED BY <1>1, <2>1 DEF GoesBefore
<1>2. CASE \E reg \in Registrations : reg \notin Range(made) /\ made' = Append(made, reg)
  <2>1. PICK reg \in Registrations : reg \notin Range(made) /\ made' = Append(made, reg)
    BY <1>2
  <2>2. /\ made' \in Seq(Registrations) /\ Len(made') = Len(made) + 1
        /\ \A m \in 1 .. Len(made) : made'[m] = made[m]
        /\ made'[Len(made) + 1] = reg
    BY <2>1, AppendProperties
  <2>3. DOMAIN made = 1 .. Len(made) /\ DOMAIN made' = 1 .. (Len(made) + 1) /\ Len(made) \in Nat
    BY <2>2, LenProperties
  <2>4. Range(made) \subseteq Range(made')
    <3>1. \A m \in DOMAIN made : m \in DOMAIN made' /\ made'[m] = made[m]
      BY <2>2, <2>3
    <3> QED BY <3>1 DEF Range
  <2>5. ASSUME NEW a \in Range(made) PROVE MadeAt(a)' = MadeAt(a)
    <3>1. MadeAt(a) \in DOMAIN made /\ made[MadeAt(a)] = a
      BY MadeFacts
    <3>2. a # reg
      BY <2>1
    <3>3. \A n \in DOMAIN made' : made'[n] = a <=> n = MadeAt(a)
      <4>1. \A n \in DOMAIN made' : n \in DOMAIN made \/ n = Len(made) + 1
        BY <2>3
      <4>2. MadeAt(a) \in DOMAIN made'
        BY <2>3, <3>1
      <4> QED BY <2>2, <2>3, <3>1, <3>2, <4>1, <4>2
    <3>4. MadeAt(a)' = CHOOSE n \in DOMAIN made' : made'[n] = a
      BY DEF MadeAt
    <3>5. MadeAt(a) \in DOMAIN made'
      BY <2>3, <3>1
    <3> QED BY <3>3, <3>4, <3>5
  <2>6. \A a, b \in Range(made) : GoesBefore(a, b)' <=> GoesBefore(a, b)
    BY <2>5 DEF GoesBefore
  <2> QED BY <2>4, <2>6
<1> QED BY <1>1, <1>2

(* Hooks that are registered have one order, and InOrder lists them in it. *)
LEMMA HooksListed ==
  ASSUME Stored, NEW hooks \in SUBSET OfKind("hook")
  PROVE  /\ InOrder(hooks) \in Seq(Registrations)
         /\ \A n \in DOMAIN InOrder(hooks) : InOrder(hooks)[n] \in hooks
         /\ \A m, n \in DOMAIN InOrder(hooks) :
              m < n => GoesBefore(InOrder(hooks)[m], InOrder(hooks)[n])
<1> DEFINE R == {e \in hooks \X hooks : GoesBefore(e[1], e[2])}
           rank(h) == Cardinality(Precursors(hooks, h))
           list == InOrder(hooks)
<1>1. /\ made \in Seq(Registrations) /\ hooks \subseteq Range(made)
      /\ IsFiniteSet(hooks) /\ Cardinality(hooks) \in Nat /\ hooks \subseteq Registrations
  <2>1. hooks \in SUBSET Range(made) /\ made \in Seq(Registrations)
    BY DEF Stored, OfKind
  <2> QED BY <2>1, MadeFacts, FS_Subset, FS_CardinalityType
<1>2. \A h \in hooks : /\ h.item.priority \in Int
                       /\ MadeAt(h) \in Nat /\ made[MadeAt(h)] = h
  <2>1. \A h \in hooks : h.item \in Items /\ h.item.kind = "hook"
    BY <1>1 DEF Registrations, OfKind
  <2> QED BY <1>1, <2>1, PrioritiesAreNumbers, MadeFacts
<1>3. \A h \in hooks : Precursors(hooks, h) = Lesser(hooks, R, h)
  BY DEF Precursors, Lesser
<1>4. \A a, b \in hooks : <<a, b>> \in R <=> GoesBefore(a, b)
  OBVIOUS
<1>5. StrictOrder(hooks, R)
  <2> HIDE DEF R
  <2>1. \A a, b \in hooks : MadeAt(a) = MadeAt(b) => a = b
    BY <1>2
  <2> QED BY <1>2, <1>4, <2>1 DEF StrictOrder, GoesBefore
<1> HIDE DEF R
<1>6. /\ \A a \in hooks : rank(a) \in 0 .. (Cardinality(hooks) - 1)
      /\ \A a, b \in hooks : GoesBefore(a, b) => rank(a) < rank(b)
      /\ \A n \in 0 .. (Cardinality(hooks) - 1) : \E a \in hooks : rank(a) = n
  <2>1. /\ \A a \in hooks : Cardinality(Lesser(hooks, R, a)) \in 0 .. (Cardinality(hooks) - 1)
        /\ \A a, b \in hooks : <<a, b>> \in R =>
             Cardinality(Lesser(hooks, R, a)) < Cardinality(Lesser(hooks, R, b))
        /\ \A n \in 0 .. (Cardinality(hooks) - 1) :
             \E a \in hooks : Cardinality(Lesser(hooks, R, a)) = n
    BY <1>1, <1>5, RanksOfOrder
  <2> QED BY <1>3, <1>4, <2>1
<1>7. /\ DOMAIN list = 1 .. Cardinality(hooks)
      /\ \A n \in 1 .. Cardinality(hooks) : list[n] = CHOOSE h \in hooks : rank(h) = n - 1
      /\ list = [n \in 1 .. Cardinality(hooks) |-> list[n]]
  BY DEF InOrder
<1>8. ASSUME NEW n \in 1 .. Cardinality(hooks) PROVE list[n] \in hooks /\ rank(list[n]) = n - 1
  <2>1. n - 1 \in 0 .. (Cardinality(hooks) - 1)
    BY <1>1
  <2>2. \E h \in hooks : rank(h) = n - 1
    BY <1>6, <2>1
  <2> HIDE DEF rank, list
  <2> QED BY <1>7, <2>2
<1> HIDE DEF list, rank
<1>9. list \in Seq(Registrations)
  <2>1. list \in [1 .. Cardinality(hooks) -> Registrations]
    BY <1>1, <1>7, <1>8
  <2> QED BY <1>1, <2>1, SeqDef
<1>10. ASSUME NEW m \in DOMAIN list, NEW n \in DOMAIN list, m < n
       PROVE  GoesBefore(list[m], list[n])
  <2>1. list[m] \in hooks /\ list[n] \in hooks /\ rank(list[m]) = m - 1 /\ rank(list[n]) = n - 1
    BY <1>7, <1>8
  <2>2. ~(rank(list[n]) < rank(list[m])) /\ list[m] # list[n]
    BY <1>7, <1>10, <2>1
  <2>3. \/ GoesBefore(list[m], list[n]) \/ list[m] = list[n] \/ GoesBefore(list[n], list[m])
    BY <1>4, <1>5, <2>1 DEF StrictOrder
  <2> QED BY <1>6, <2>1, <2>2, <2>3
<1> QED BY <1>7, <1>8, <1>9, <1>10 DEF list

-----------------------------------------------------------------------------
(* What stays true of generations and runs *)

LEMMA LiveOnes ==
  ASSUME GenerationsInv, RunsInv
  PROVE  /\ Len(generations) \in Nat /\ DOMAIN generations = 1 .. Len(generations)
         /\ \A r \in Working : r \in Runs /\ Held(runs[r]) /\ G(r) \in LiveGenerations
         /\ \A r \in Runs : r \in Working <=> runs[r] # Idle
         /\ \A g \in LiveGenerations : /\ g.instances \subseteq Reachable
                                       /\ \E n \in DOMAIN generations : g = generations[n]
                                       /\ Published(g) /\ Served(g)
<1>1. Len(generations) \in Nat /\ DOMAIN generations = 1 .. Len(generations)
  BY LenProperties DEF GenerationsInv
<1>2. \A r \in Working : r \in Runs /\ Held(runs[r]) /\ G(r) \in LiveGenerations
  BY DEF Working, RunsInv, Idle, LiveGenerations, G
<1>3. \A r \in Runs : r \in Working <=> runs[r] # Idle
  BY DEF Working, RunsInv, Idle, Held, OutcomesHeld
<1>4. ASSUME NEW g \in LiveGenerations PROVE \E n \in DOMAIN generations : g = generations[n]
  <2>1. CASE \E r \in Working : g = generations[runs[r].generation]
    BY <1>2, <2>1 DEF Held
  <2>2. CASE generations # <<>> /\ g = Current
    <3>1. Len(generations) # 0
      BY <2>2, EmptySeq DEF GenerationsInv
    <3> QED BY <1>1, <2>2, <3>1 DEF Current
  <2> QED BY <2>1, <2>2 DEF LiveGenerations
<1>5. \A g \in LiveGenerations : g.instances \subseteq Reachable
  BY DEF Reachable
<1> QED BY <1>1, <1>2, <1>3, <1>4, <1>5 DEF GenerationsInv

(* What holds of a run's record goes on holding while generations and      *)
(* registrations are added, and tools are captured.                        *)
LEMMA HeldStays ==
  ASSUME NEW run, Held(run), Stored, late \subseteq late',
         \A n \in DOMAIN generations : n \in DOMAIN generations' /\ generations'[n] = generations[n],
         \A t \in DOMAIN frozen : t \in DOMAIN frozen' /\ frozen'[t] = frozen[t],
         \/ made' = made
         \/ \E reg \in Registrations : reg \notin Range(made) /\ made' = Append(made, reg)
  PROVE  Held(run)'
<1> DEFINE n == run.generation
<1>1. n \in DOMAIN generations' /\ generations'[n] = generations[n]
  BY DEF Held
<1>2. PICK g : g = generations[n]
  OBVIOUS
<1>3. ToolsHeld(run, g)' /\ CapsHeld(run, g)'
  <2>1. ToolsHeld(run, g) /\ CapsHeld(run, g)
    BY <1>2 DEF Held
  <2> QED BY <2>1 DEF ToolsHeld, CapsHeld, FailedClosed, Scopes, Exposed
<1>4. ChainHeld(run, g)'
  <2>1. ChainHeld(run, g)
    BY <1>2 DEF Held
  <2>2. /\ Range(made) \subseteq Range(made')
        /\ \A a, b \in Range(made) : GoesBefore(a, b)' <=> GoesBefore(a, b)
    BY OrderStays DEF Stored
  <2>3. PICK old : old = Range(made)
    OBVIOUS
  <2>4. /\ old \subseteq Range(made')
        /\ \A a, b \in old : GoesBefore(a, b) => GoesBefore(a, b)'
    BY <2>2, <2>3
  <2>5. /\ \A m \in DOMAIN run.chain : run.chain[m] \in old
        /\ \A m \in DOMAIN run.heard : run.heard[m][1] \in old
    BY <2>1, <2>3 DEF ChainHeld
  <2>6. /\ \A m \in DOMAIN run.chain : run.chain[m] \in Range(made')
        /\ \A m \in DOMAIN run.heard : run.heard[m][1] \in Range(made')
    BY <2>4, <2>5
  <2>7. \A l, m \in DOMAIN run.chain : l < m => GoesBefore(run.chain[l], run.chain[m])'
    BY <2>1, <2>4, <2>5 DEF ChainHeld
  <2>8. \A l, m \in DOMAIN run.heard : l < m => GoesBefore(run.heard[l][1], run.heard[m][1])'
    BY <2>1, <2>4, <2>5 DEF ChainHeld
  <2>9. \A l \in DOMAIN run.heard, m \in DOMAIN run.chain :
          GoesBefore(run.heard[l][1], run.chain[m])'
    BY <2>1, <2>4, <2>5 DEF ChainHeld
  <2> QED BY <2>1, <2>6, <2>7, <2>8, <2>9 DEF ChainHeld
<1>5. OutcomesHeld(run)'
  BY DEF Held, OutcomesHeld, Given
<1>6. run.scope \in (Scopes \cup {Everywhere}) /\ DOMAIN run = Fields
  BY DEF Held
<1> QED BY <1>1, <1>2, <1>3, <1>4, <1>5, <1>6 DEF Held, Scopes

(* Whatever happens in the registries, generations in use are served. *)
LEMMA MoveKeeps ==
  ASSUME ViewInv, RegistryMove
  PROVE  ViewInv'
<1>1. /\ Stored /\ GenerationsInv /\ RunsInv
      /\ Stored' /\ UNCHANGED <<setting, frozen, generations, runs>> /\ late \subseteq late'
      /\ \A reg \in live' \ live : reg.owner \in Reachable => reg \in late'
      /\ \A i \in Reachable \cap Instances : scope[i] = "open" => scope'[i] = "open"
      /\ \/ made' = made
         \/ \E reg \in Registrations : reg \notin Range(made) /\ made' = Append(made, reg)
  BY DEF ViewInv, RegistryMove
<1>2. LiveGenerations' = LiveGenerations
  BY <1>1 DEF LiveGenerations, Working, Current
<1>3. \A n \in DOMAIN generations : Published(generations[n])'
  BY <1>1 DEF GenerationsInv, Published, Scopes, Exposed, plugin
<1>4. ASSUME NEW g \in LiveGenerations PROVE Served(g)'
  <2>1. Served(g) /\ g.instances \subseteq Reachable \cap Instances
    BY <1>1, LiveOnes DEF Published
  <2>2. \A i \in g.instances : scope'[i] = "open"
    BY <1>1, <2>1 DEF Served
  <2>3. Punctual(g)' \subseteq Punctual(g)
    BY <1>1, <2>1 DEF Punctual, ToolsOf, OfKind
  <2>4. PICK old : old = Punctual(g)
    OBVIOUS
  <2>5. /\ \A t, u \in old : t.item.name = u.item.name => t = u
        /\ \A t \in old, s \in Scopes :
             t.item.name \in g.tools[s] =>
               Place[t.owner] \in Lineage[s] /\ Exposed(ToolView, s, t.item.name)
        /\ Punctual(g)' \subseteq old
    BY <2>1, <2>3, <2>4 DEF Served
  <2> QED BY <2>2, <2>5 DEF Served, Scopes, Exposed
<1>5. GenerationsInv'
  BY <1>1, <1>2, <1>3, <1>4 DEF GenerationsInv
<1>6. ASSUME NEW r \in Runs, Held(runs[r]) PROVE Held(runs[r])'
  <2>1. PICK run : run = runs[r] /\ run = runs'[r]
    BY <1>1
  <2>2. Held(run)
    BY <1>6, <2>1
  <2>3. Held(run)'
    BY <1>1, <2>2, HeldStays
  <2> QED BY <2>1, <2>3
<1>7. RunsInv'
  BY <1>1, <1>6 DEF RunsInv, Idle
<1> QED BY <1>1, <1>5, <1>7 DEF ViewInv

(* The registries as they are, with nothing but published copies added. *)
LEMMA StoresStay ==
  ASSUME Stored, UNCHANGED storesVars
  PROVE  Stored'
<1>1. ASSUME NEW i \in Instances PROVE Numbered(i)'
  <2>1. Numbered(i)
    BY DEF Stored
  <2>2. Registered(i)' = Registered(i) /\ ItemsOf(i)' = ItemsOf(i)
    BY DEF Registered, ItemsOf, plugin, storesVars
  <2> QED BY <2>1, <2>2 DEF Numbered, FirstOf
<1> QED BY <1>1 DEF Stored, storesVars

LEMMA CapturedExtends ==
  ASSUME NEW regs, frozen' = Captured(regs)
  PROVE  /\ \A t \in DOMAIN frozen : t \in DOMAIN frozen' /\ frozen'[t] = frozen[t]
         /\ regs \subseteq DOMAIN frozen'
BY DEF Captured

(* A candidate that passes the validation is a generation that can be      *)
(* served.                                                                 *)
LEMMA CandidateIsServed ==
  ASSUME Stored, NEW S \in SUBSET Instances, NEW prefs,
         \A i \in S : scope[i] = "open", Kept(S), Distinct(S)
  PROVE  Published(Composition(S, prefs)) /\ Served(Composition(S, prefs))
<1> DEFINE g == Composition(S, prefs)
<1>1. /\ g.instances = S /\ g.caps = CapsOf(S) /\ g.tools = TreeTools(S)
      /\ g.visible = TreeProviders(S)
  BY DEF Composition
<1> HIDE DEF g
<1>2. /\ CapsOf(S) \subseteq Registrations /\ IsFiniteSet(CapsOf(S))
      /\ \A p \in CapsOf(S) : p.owner \in S
  <2>1. CapsOf(S) \in SUBSET Range(made) /\ made \in Seq(Registrations)
    BY DEF Stored, CapsOf, OfKind
  <2>2. \A p \in CapsOf(S) : p.owner \in S
    BY DEF CapsOf
  <2> QED BY <2>1, <2>2, MadeFacts, FS_Subset
<1>3. ASSUME NEW i \in S, NEW p \in plugin(i).promises
      PROVE  \E reg \in CapsOf(S) : reg.owner = i /\ <<reg.item.cap, reg.item.version>> = p
  <2>1. PICK reg \in CapsOf({i}) : <<reg.item.cap, reg.item.version>> = p
    BY DEF Kept
  <2> QED BY <2>1 DEF CapsOf
<1>4. ASSUME NEW p \in CapsOf(S), NEW s \in Scopes, <<p.item.cap, p.owner>> \in TreeProviders(S)[s]
      PROVE  Place[p.owner] \in Lineage[s] /\ Exposed(CapView, s, p.item.cap)
  <2>1. TreeProviders(S)[s] = {<<reg.item.cap, reg.owner>> : reg \in
          {q \in CapsOf(S) : Place[q.owner] \in Lineage[s] /\ Exposed(CapView, s, q.item.cap)}}
    BY DEF TreeProviders
  <2>2. PICK q \in CapsOf(S) : /\ <<q.item.cap, q.owner>> = <<p.item.cap, p.owner>>
                               /\ Place[q.owner] \in Lineage[s] /\ Exposed(CapView, s, q.item.cap)
    BY <1>4, <2>1
  <2> QED BY <2>2
<1>5. Published(g)
  BY <1>1, <1>2, <1>3, <1>4 DEF Published
<1>6. Punctual(g) \subseteq ToolsOf(S)
  BY <1>1 DEF Punctual
<1>7. ASSUME NEW t \in Punctual(g), NEW s \in Scopes, t.item.name \in TreeTools(S)[s]
      PROVE  Place[t.owner] \in Lineage[s] /\ Exposed(ToolView, s, t.item.name)
  <2>1. TreeTools(S)[s] = {reg.item.name : reg \in
          {u \in ToolsOf(S) : Place[u.owner] \in Lineage[s] /\ Exposed(ToolView, s, u.item.name)}}
    BY DEF TreeTools
  <2>2. PICK u \in ToolsOf(S) : /\ u.item.name = t.item.name
                                /\ Place[u.owner] \in Lineage[s] /\ Exposed(ToolView, s, u.item.name)
    BY <1>7, <2>1
  <2>3. u = t
    BY <1>6, <2>2 DEF Distinct
  <2> QED BY <2>2, <2>3
<1>8. Served(g)
  BY <1>1, <1>6, <1>7 DEF Served, Distinct
<1> QED BY <1>5, <1>8 DEF g

LEMMA PublishesKeeps ==
  ASSUME ViewInv, NEW S \in setting.compositions, NEW prefs, Publishes(S, prefs)
  PROVE  ViewInv'
<1> DEFINE new == Composition(S, prefs)
<1>1. /\ \A i \in S : scope[i] = "open"
      /\ Kept(S)
      /\ generations' = generations \/ (Distinct(S) /\ generations' = Append(generations, new))
      /\ \E T \in Scanned(S) : frozen' = Captured(ToolsOf(T))
      /\ UNCHANGED <<storesVars, runs, late>>
  BY DEF Publishes
<1>2. Stored /\ GenerationsInv /\ RunsInv /\ S \in SUBSET Instances
  BY ViewAssumption DEF ViewInv, Stored
<1>3. UNCHANGED <<setting, scope, made, live>>
  BY <1>1 DEF storesVars
<1>4. Distinct(S) => Published(new) /\ Served(new)
  BY <1>1, <1>2, CandidateIsServed
<1> HIDE DEF new
<1>5. Len(generations) \in Nat /\ DOMAIN generations = 1 .. Len(generations)
  BY <1>2, LiveOnes
<1>6. ASSUME Distinct(S), generations' = Append(generations, new)
      PROVE  /\ generations' \in Seq(Range(generations'))
             /\ \A n \in DOMAIN generations :
                  n \in DOMAIN generations' /\ generations'[n] = generations[n]
             /\ \A n \in DOMAIN generations' : Published(generations'[n])
             /\ \A g \in LiveGenerations' : Served(g)
  <2> DEFINE All == Range(generations) \cup {new}
  <2>1. generations \in Seq(All)
    <3>1. generations \in [1 .. Len(generations) -> All]
      BY <1>2, <1>5, LenProperties DEF GenerationsInv
    <3> QED BY <1>5, <3>1, SeqDef
  <2>2. new \in All
    OBVIOUS
  <2>3. /\ generations' \in Seq(All) /\ Len(generations') = Len(generations) + 1
        /\ \A n \in 1 .. Len(generations) : generations'[n] = generations[n]
        /\ generations'[Len(generations) + 1] = new
    BY <1>6, <2>1, <2>2, AppendProperties
  <2>4. DOMAIN generations' = 1 .. (Len(generations) + 1)
    BY <2>3, LenProperties
  <2>5. generations' \in Seq(Range(generations'))
    <3>1. generations' \in [1 .. Len(generations') -> Range(generations')]
      BY <2>3, <2>4, LenProperties DEF Range
    <3>2. Len(generations') \in Nat
      BY <1>5, <2>3
    <3> QED BY <3>1, <3>2, SeqDef
  <2>6. Current' = new
    BY <1>5, <2>3 DEF Current
  <2>7. \A n \in DOMAIN generations : n \in DOMAIN generations' /\ generations'[n] = generations[n]
    BY <1>5, <2>3, <2>4
  <2>8. \A n \in DOMAIN generations' : n \in DOMAIN generations \/ generations'[n] = new
    BY <1>5, <2>3, <2>4
  <2>9. \A g \in LiveGenerations' : g \in LiveGenerations \/ g = new
    <3>1. Working' = Working
      BY <1>1 DEF Working
    <3>2. \A r \in Working : generations'[runs'[r].generation] = generations[runs[r].generation]
      BY <1>1, <1>2, <2>7, LiveOnes DEF Held
    <3> QED BY <2>6, <3>1, <3>2 DEF LiveGenerations
  <2>10. ASSUME NEW n \in DOMAIN generations' PROVE Published(generations'[n])
    BY <1>2, <1>4, <1>6, <2>7, <2>8 DEF GenerationsInv
  <2>11. ASSUME NEW g \in LiveGenerations' PROVE Served(g)
    BY <1>2, <1>4, <1>6, <2>9 DEF GenerationsInv
  <2> QED BY <2>5, <2>7, <2>10, <2>11
<1>7. /\ generations' \in Seq(Range(generations'))
      /\ \A n \in DOMAIN generations : n \in DOMAIN generations' /\ generations'[n] = generations[n]
      /\ \A n \in DOMAIN generations' : Published(generations'[n])
      /\ \A g \in LiveGenerations' : Served(g)
  <2>1. CASE generations' = generations
    <3>1. LiveGenerations' = LiveGenerations
      BY <1>1, <2>1 DEF LiveGenerations, Working, Current
    <3> QED BY <1>2, <2>1, <3>1 DEF GenerationsInv
  <2>2. CASE Distinct(S) /\ generations' = Append(generations, new)
    BY <1>6, <2>2
  <2> QED BY <1>1, <2>1, <2>2
<1>8. GenerationsInv'
  <2>1. ASSUME NEW g, Published(g) PROVE Published(g)'
    BY <1>3, <2>1 DEF Published, plugin, Scopes, Exposed
  <2>2. ASSUME NEW g, Served(g) PROVE Served(g)'
    BY <1>1, <1>3, <2>2 DEF Served, Punctual, ToolsOf, OfKind, Scopes, Exposed
  <2>3. ASSUME NEW n \in DOMAIN generations' PROVE Published(generations[n])'
    <3>1. PICK g : g = generations'[n]
      OBVIOUS
    <3>2. Published(g)'
      BY <1>7, <2>1, <3>1
    <3> QED BY <3>1, <3>2
  <2> QED BY <1>7, <2>2, <2>3 DEF GenerationsInv
<1>9. RunsInv'
  <2>1. ASSUME NEW run, Held(run) PROVE Held(run)'
    <3>1. \A t \in DOMAIN frozen : t \in DOMAIN frozen' /\ frozen'[t] = frozen[t]
      BY <1>1, CapturedExtends
    <3> QED BY <1>1, <1>2, <1>3, <1>7, <2>1, <3>1, HeldStays
  <2>2. ASSUME NEW r \in Runs, Held(runs[r]) PROVE Held(runs[r])'
    <3>1. PICK run : run = runs[r] /\ run = runs'[r]
      BY <1>1
    <3> QED BY <2>1, <2>2, <3>1
  <2> QED BY <1>1, <1>2, <2>2 DEF RunsInv, Idle
<1>10. Stored'
  BY <1>1, <1>2, StoresStay
<1> QED BY <1>8, <1>9, <1>10 DEF ViewInv

(* One run's record changes, on a generation in use. *)
LEMMA RunSteps ==
  ASSUME ViewInv, NEW r \in Runs, NEW run, runs' = [runs EXCEPT ![r] = run],
         UNCHANGED <<storesVars, generations, late>>,
         \A t \in DOMAIN frozen : t \in DOMAIN frozen' /\ frozen'[t] = frozen[t],
         \/ run = Idle
         \/ Held(run)' /\ generations[run.generation] \in LiveGenerations
  PROVE  ViewInv'
<1>1. Stored /\ GenerationsInv /\ RunsInv /\ DOMAIN runs = Runs
  BY DEF ViewInv, RunsInv
<1>2. /\ DOMAIN runs' = Runs /\ runs'[r] = run
      /\ \A q \in Runs : q # r => runs'[q] = runs[q]
  BY <1>1
<1>3. UNCHANGED <<setting, scope, made, live>>
  BY DEF storesVars
<1>4. LiveGenerations' \subseteq LiveGenerations
  <2>1. \A q \in Working' : \/ q = r /\ run # Idle
                            \/ q # r /\ q \in Working /\ runs'[q] = runs[q]
    BY <1>2 DEF Working, Idle
  <2>2. \A q \in Working' : generations[runs'[q].generation] \in LiveGenerations
    BY <1>2, <2>1 DEF LiveGenerations
  <2>3. Current' = Current
    BY DEF Current
  <2> QED BY <2>2, <2>3 DEF LiveGenerations
<1>5. GenerationsInv'
  <2>1. ASSUME NEW g, Published(g) PROVE Published(g)'
    BY <1>3, <2>1 DEF Published, plugin, Scopes, Exposed
  <2>2. ASSUME NEW g, Served(g) PROVE Served(g)'
    BY <1>3, <2>2 DEF Served, Punctual, ToolsOf, OfKind, Scopes, Exposed
  <2>3. ASSUME NEW n \in DOMAIN generations' PROVE Published(generations[n])'
    <3>1. PICK g : g = generations'[n] /\ g = generations[n]
      OBVIOUS
    <3>2. Published(g)'
      BY <1>1, <2>1, <3>1 DEF GenerationsInv
    <3> QED BY <3>1, <3>2
  <2> QED BY <1>1, <1>4, <2>2, <2>3 DEF GenerationsInv
<1>6. ASSUME NEW q \in Runs PROVE runs'[q] = Idle \/ Held(runs[q])'
  <2>1. CASE q = r
    BY <1>2, <2>1
  <2>2. CASE q # r
    <3>1. PICK other : other = runs[q] /\ other = runs'[q]
      BY <1>2, <2>2
    <3>2. CASE Held(other)
      <4>1. Held(other)'
        BY <1>1, <1>3, <3>2, HeldStays
      <4> QED BY <3>1, <4>1
    <3>3. CASE other = Idle
      BY <3>1, <3>3
    <3> QED BY <1>1, <3>1, <3>2, <3>3 DEF RunsInv
  <2> QED BY <2>1, <2>2
<1>7. RunsInv'
  BY <1>2, <1>6 DEF RunsInv, Idle
<1> QED BY <1>1, <1>5, <1>7, StoresStay DEF ViewInv

(* The service a scope gets is the default only where there is no other,   *)
(* and otherwise one of those that are eligible there.                     *)
LEMMA ServicesFailClosed ==
  ASSUME NEW g, Published(g), NEW s \in Scopes \cup {Everywhere},
         NEW service \in SystemService(g, s)
  PROVE  LET rivals == {p \in CapsSeen(g, s) : p.item.cap = System /\ p.item.conforms
                                                  /\ p.item.version = 1}
         IN /\ service = Default => \A p \in g.caps : p.item.cap # System
            /\ service.from = "provider" =>
                 /\ service.reg \in rivals
                 /\ rivals = {service.reg} \/ \E key \in DOMAIN g.prefs :
                                               g.prefs[key] = service.reg.owner
<1> DEFINE rivals == {p \in CapsSeen(g, s) : p.item.cap = System /\ p.item.conforms
                                                  /\ p.item.version = 1}
           preferred == {p \in rivals : p.owner = Preferred(g, s)}
<1>1. SystemService(g, s) =
        CASE \A p \in g.caps : p.item.cap # System -> {Default}
          [] Cardinality(rivals) = 1 -> {Provided(p) : p \in rivals}
          [] Cardinality(rivals) > 1 /\ preferred # {} -> {Provided(p) : p \in preferred}
          [] OTHER -> {Denied}
  <2>1. {p \in CapsSeen(g, s) : p.item.cap = System /\ p.item.version = 1 /\ p.item.conforms}
          = rivals
    OBVIOUS
  <2> QED BY <2>1 DEF SystemService
<1>2. rivals \subseteq g.caps /\ IsFiniteSet(rivals)
  <2>1. rivals \in SUBSET g.caps
    BY DEF CapsSeen
  <2> QED BY <2>1, FS_Subset DEF Published
<1>3. ASSUME NEW p \in preferred PROVE \E key \in DOMAIN g.prefs : g.prefs[key] = p.owner
  <2>1. p.owner = Preferred(g, s) /\ p.owner \in Instances
    BY <1>2, <1>3 DEF Published, Registrations
  <2>2. Preferred(g, s) # NoOne
    BY <2>1, ViewAssumption
  <2> QED BY <2>1, <2>2 DEF Preferred
<1>4. Cardinality(rivals) = 1 => \A p \in rivals : rivals = {p}
  BY <1>2, FS_Singleton
<1> HIDE DEF rivals
<1>5. \/ service = Default /\ \A p \in g.caps : p.item.cap # System
      \/ \E p \in rivals : service = Provided(p) /\ Cardinality(rivals) = 1
      \/ \E p \in preferred : service = Provided(p)
      \/ service = Denied
  BY <1>1
<1>6. /\ Default.from = "default" /\ Denied.from = "denied"
      /\ \A p : Provided(p).from = "provider" /\ Provided(p).reg = p
  BY DEF Default, Denied, Provided
<1>7. service = Default => \A p \in g.caps : p.item.cap # System
  BY <1>5, <1>6
<1>8. service.from = "provider" =>
        /\ service.reg \in rivals
        /\ rivals = {service.reg} \/ \E key \in DOMAIN g.prefs : g.prefs[key] = service.reg.owner
  BY <1>3, <1>4, <1>5, <1>6
<1> QED BY <1>7, <1>8 DEF rivals

(* What a scope sees of the tools of a generation that is served. *)
LEMMA ToolsSeenFacts ==
  ASSUME NEW g, Served(g), NEW s \in Scopes \cup {Everywhere}
  PROVE  /\ \A t \in ToolsSeen(g, s) : t \in ToolsOf(g.instances) /\ t.owner \in g.instances
         /\ \A t, u \in ToolsSeen(g, s) \ late : t.item.name = u.item.name => t = u
         /\ s \in Scopes => \A t \in ToolsSeen(g, s) \ late :
                              Place[t.owner] \in Lineage[s] /\ Exposed(ToolView, s, t.item.name)
<1>1. \A t \in ToolsSeen(g, s) : t \in ToolsOf(g.instances) /\ t.owner \in g.instances
  BY DEF ToolsSeen, ToolsOf
<1>2. ToolsSeen(g, s) \ late \subseteq Punctual(g)
  BY <1>1 DEF Punctual
<1>3. s \in Scopes => \A t \in ToolsSeen(g, s) : t.item.name \in g.tools[s]
  BY ViewAssumption DEF ToolsSeen
<1> QED BY <1>1, <1>2, <1>3 DEF Served

LEMMA StartsKeeps ==
  ASSUME ViewInv, NEW r \in setting.runs, NEW s \in setting.callers, NEW runtime,
         Starts(r, runtime, s)
  PROVE  ViewInv'
<1> DEFINE g == Current
           seen == ToolsSeen(g, s)
<1>1. /\ generations # <<>>
      /\ frozen' = Captured(ToolsOf(g.instances))
      /\ UNCHANGED <<storesVars, generations, late>>
      /\ \E pick \in [{t.item.name : t \in seen} -> seen], service \in SystemService(g, s) :
           /\ \A n \in DOMAIN pick : pick[n].item.name = n
           /\ runs' = [runs EXCEPT ![r] =
                [pc |-> "hooks", generation |-> Len(generations), scope |-> s,
                 runtime |-> Last(names[<<"runtime", runtime>>]), tools |-> seen, pick |-> pick,
                 policies |-> [t \in seen |-> frozen'[t]], caps |-> CapsSeen(g, s),
                 service |-> service, chain |-> HooksSeen(g), heard |-> <<>>,
                 payload |-> <<>>, graph |-> <<>>, called |-> {}]]
  BY DEF Starts
<1>2. PICK pick, service, run :
        /\ pick \in [{t.item.name : t \in seen} -> seen] /\ service \in SystemService(g, s)
        /\ run = [pc |-> "hooks", generation |-> Len(generations), scope |-> s,
                  runtime |-> Last(names[<<"runtime", runtime>>]), tools |-> seen, pick |-> pick,
                  policies |-> [t \in seen |-> frozen'[t]], caps |-> CapsSeen(g, s),
                  service |-> service, chain |-> HooksSeen(g), heard |-> <<>>,
                  payload |-> <<>>, graph |-> <<>>, called |-> {}]
        /\ runs' = [runs EXCEPT ![r] = run]
  BY <1>1
<1>3. Stored /\ GenerationsInv /\ RunsInv /\ r \in Runs /\ s \in Scopes \cup {Everywhere}
  BY ViewAssumption DEF ViewInv, Stored
<1>4. UNCHANGED <<setting, scope, made, live, names, generations, late>>
  BY <1>1 DEF storesVars
<1>5. g = generations[Len(generations)] /\ g \in LiveGenerations
  BY <1>1 DEF LiveGenerations, Current
<1>6. Published(g) /\ Served(g) /\ Len(generations) \in DOMAIN generations
  <2>1. Len(generations) # 0
    BY <1>1, <1>3, EmptySeq DEF GenerationsInv
  <2> QED BY <1>3, <1>5, <2>1, LiveOnes
<1>7. /\ \A t \in DOMAIN frozen : t \in DOMAIN frozen' /\ frozen'[t] = frozen[t]
      /\ ToolsOf(g.instances) \subseteq DOMAIN frozen'
  BY <1>1, CapturedExtends
<1>8. PICK caps, chain : caps = CapsSeen(g, s) /\ chain = HooksSeen(g)
  OBVIOUS
<1>9. PICK the : the = g
  OBVIOUS
<1>10. PICK tools : tools = seen
  OBVIOUS
<1>11. /\ run.pc = "hooks" /\ run.generation = Len(generations) /\ run.scope = s
       /\ run.tools = tools /\ run.pick = pick /\ run.policies = [t \in tools |-> frozen'[t]]
       /\ run.caps = caps /\ run.service = service /\ run.chain = chain /\ run.heard = <<>>
       /\ run.payload = <<>> /\ run.called = {} /\ DOMAIN run = Fields
  BY <1>2, <1>8, <1>10 DEF Fields
<1>12. generations'[run.generation] = the /\ run.generation \in DOMAIN generations'
  BY <1>4, <1>5, <1>6, <1>9, <1>11
<1> HIDE DEF g, seen
<1>13. ToolsHeld(run, the)'
  <2>1. /\ \A t \in tools : t \in ToolsOf(the.instances) /\ t.owner \in the.instances
        /\ \A t, u \in tools \ late : t.item.name = u.item.name => t = u
        /\ s \in Scopes => \A t \in tools \ late :
                             Place[t.owner] \in Lineage[s] /\ Exposed(ToolView, s, t.item.name)
    BY <1>3, <1>6, <1>9, <1>10, ToolsSeenFacts DEF seen
  <2>2. pick \in [{t.item.name : t \in tools} -> tools]
    BY <1>2, <1>10
  <2>3. \A t \in tools : t \in DOMAIN frozen' /\ run.policies[t] = frozen'[t]
    BY <1>7, <1>9, <1>11, <2>1
  <2>4. \A name \in DOMAIN run.pick : run.pick[name] \in run.tools
    BY <1>11, <2>2
  <2> QED BY <1>4, <1>11, <2>1, <2>3, <2>4 DEF ToolsHeld, Scopes, Exposed
<1>14. CapsHeld(run, the)'
  <2>1. \A p \in caps : p \in the.caps /\ p.owner \in the.instances
    BY <1>6, <1>8, <1>9 DEF CapsSeen, Published
  <2>2. s \in Scopes => \A p \in caps : Place[p.owner] \in Lineage[s] /\ Exposed(CapView, s, p.item.cap)
    BY <1>6, <1>8, <1>9, ViewAssumption DEF CapsSeen, Published
  <2>3. FailedClosed(run, the)
    <3>1. service \in SystemService(the, s) /\ Published(the)
      BY <1>2, <1>6, <1>9
    <3>2. PICK rivals : rivals = {p \in caps : p.item.cap = System /\ p.item.conforms
                                                 /\ p.item.version = 1}
      OBVIOUS
    <3>3. /\ service = Default => \A p \in the.caps : p.item.cap # System
          /\ service.from = "provider" =>
               /\ service.reg \in rivals
               /\ rivals = {service.reg} \/ \E key \in DOMAIN the.prefs :
                                             the.prefs[key] = service.reg.owner
      BY <1>3, <1>8, <1>9, <3>1, <3>2, ServicesFailClosed
    <3> QED BY <1>11, <3>2, <3>3 DEF FailedClosed
  <2> QED BY <1>11, <2>1, <2>2, <2>3 DEF CapsHeld, Scopes, Exposed, FailedClosed
<1>15. ChainHeld(run, the)
  <2>1. chain = InOrder(HooksOf(the.instances)) /\ HooksOf(the.instances) \in SUBSET OfKind("hook")
    BY <1>8, <1>9 DEF HooksSeen, HooksOf
  <2>2. /\ chain \in Seq(Registrations)
        /\ \A n \in DOMAIN chain : chain[n] \in HooksOf(the.instances)
        /\ \A m, n \in DOMAIN chain : m < n => GoesBefore(chain[m], chain[n])
    BY <1>3, <2>1, HooksListed
  <2>3. \A n \in DOMAIN chain : chain[n] \in Range(made) /\ chain[n].owner \in the.instances
    BY <1>3, <2>2 DEF HooksOf, OfKind, Stored
  <2>4. <<>> \in Seq(Registrations \X Outcomes) /\ DOMAIN <<>> = {}
    BY EmptySeq
  <2> QED BY <1>11, <2>2, <2>3, <2>4 DEF ChainHeld
<1>16. ChainHeld(run, the)'
  <2>1. \A a, b : GoesBefore(a, b)' <=> GoesBefore(a, b)
    BY <1>4 DEF GoesBefore, MadeAt
  <2> QED BY <1>4, <1>15, <2>1 DEF ChainHeld
<1>17. OutcomesHeld(run)'
  <2>1. DOMAIN run.heard = {}
    BY <1>11
  <2> QED BY <1>11, <2>1 DEF OutcomesHeld, Given
<1>18. Held(run)'
  BY <1>3, <1>11, <1>12, <1>13, <1>14, <1>16, <1>17 DEF Held, Scopes
<1> QED BY <1>1, <1>2, <1>3, <1>5, <1>7, <1>11, <1>18, RunSteps

LEMMA StopIsRefusal ==
  ASSUME NEW hook, NEW outcome \in Outcomes
  PROVE  Stops(hook, outcome) <=> Refusal(hook, outcome)
BY DEF Stops, Refusal, HandlerFails, Outcomes

LEMMA HandlesKeeps ==
  ASSUME ViewInv, NEW r \in setting.runs, NEW outcome \in Outcomes, Handles(r, outcome)
  PROVE  ViewInv'
<1>1. Stored /\ GenerationsInv /\ RunsInv /\ r \in Runs /\ DOMAIN runs = Runs
  BY ViewAssumption DEF ViewInv, Stored, RunsInv
<1>2. /\ runs[r].pc = "hooks" /\ runs[r].chain # <<>>
      /\ UNCHANGED <<registryVars, generations, late>>
  BY DEF Handles
<1>3. PICK old, hook : old = runs[r] /\ hook = Head(old.chain)
  OBVIOUS
<1>4. Held(old) /\ generations[old.generation] \in LiveGenerations
  <2>1. runs[r] # Idle
    BY <1>2 DEF Idle
  <2> QED BY <1>1, <1>3, <2>1, LiveOnes DEF G
<1>5. PICK run : /\ runs' = [runs EXCEPT ![r] = run]
                 /\ DOMAIN run = Fields
                 /\ \A f \in Fields \ {"chain", "heard", "payload", "pc"} : run[f] = old[f]
                 /\ run.chain = Tail(old.chain)
                 /\ run.heard = Append(old.heard, <<hook, outcome>>)
                 /\ run.payload = IF hook.item.mode = "transform" /\ outcome = "mapping"
                                  THEN <<hook>> ELSE old.payload
                 /\ run.pc = IF Stops(hook, outcome) THEN "refused" ELSE "hooks"
  <2>1. PICK run : run = runs'[r]
    OBVIOUS
  <2>2. runs' = [runs EXCEPT ![r].chain = Tail(@),
                             ![r].heard = Append(@, <<hook, outcome>>),
                             ![r].payload = IF hook.item.mode = "transform" /\ outcome = "mapping"
                                            THEN <<hook>> ELSE @,
                             ![r].pc = IF Stops(hook, outcome) THEN "refused" ELSE @]
    BY <1>3 DEF Handles
  <2>3. DOMAIN old = Fields /\ old = runs[r] /\ old.pc = "hooks"
    BY <1>2, <1>3, <1>4 DEF Held
  <2>4. runs' = [runs EXCEPT ![r] = run]
    BY <1>1, <2>1, <2>2
  <2>5. PICK chain, heard, payload, pc :
          /\ chain = Tail(old.chain) /\ heard = Append(old.heard, <<hook, outcome>>)
          /\ payload = IF hook.item.mode = "transform" /\ outcome = "mapping"
                       THEN <<hook>> ELSE old.payload
          /\ pc = IF Stops(hook, outcome) THEN "refused" ELSE "hooks"
    OBVIOUS
  <2>6. run = [old EXCEPT !.chain = chain, !.heard = heard, !.payload = payload, !.pc = pc]
    BY <1>1, <2>1, <2>2, <2>3, <2>5
  <2>7. /\ DOMAIN run = Fields
        /\ \A f \in Fields \ {"chain", "heard", "payload", "pc"} : run[f] = old[f]
        /\ run.chain = chain /\ run.heard = heard /\ run.payload = payload /\ run.pc = pc
    BY ONLY <2>3, <2>6 DEF Fields
  <2> QED BY ONLY <2>4, <2>5, <2>7
<1>6. PICK g : g = generations[old.generation]
  OBVIOUS
<1>7. /\ run.generation = old.generation /\ run.scope = old.scope /\ run.tools = old.tools
      /\ run.pick = old.pick /\ run.policies = old.policies /\ run.caps = old.caps
      /\ run.service = old.service /\ run.called = old.called
  BY <1>5 DEF Fields
<1>8. ToolsHeld(run, g) /\ CapsHeld(run, g)
  <2>1. ToolsHeld(old, g) /\ CapsHeld(old, g)
    BY <1>4, <1>6 DEF Held
  <2> QED BY <1>7, <2>1 DEF ToolsHeld, CapsHeld, FailedClosed
<1>9. /\ old.chain \in Seq(Registrations) /\ old.heard \in Seq(Registrations \X Outcomes)
      /\ ChainHeld(old, g) /\ OutcomesHeld(old)
  BY <1>4, <1>6 DEF Held, ChainHeld
<1>10. PICK n, k : n = Len(old.heard) /\ k = Len(old.chain)
  OBVIOUS
<1>11. /\ n \in Nat /\ k \in Nat \ {0}
       /\ DOMAIN old.heard = 1 .. n /\ DOMAIN old.chain = 1 .. k
  BY <1>2, <1>3, <1>9, <1>10, LenProperties, EmptySeq
<1>12. /\ hook = old.chain[1] /\ 1 \in DOMAIN old.chain /\ hook \in Registrations
  <2>1. 1 \in 1 .. k
    BY <1>11
  <2> QED BY <1>3, <1>9, <1>10, <1>11, <2>1, ElementOfSeq DEF Head
<1>13. /\ run.chain \in Seq(Registrations) /\ DOMAIN run.chain = 1 .. (k - 1)
       /\ \A m \in DOMAIN run.chain : m + 1 \in DOMAIN old.chain /\ run.chain[m] = old.chain[m + 1]
  <2>1. /\ run.chain \in Seq(Registrations) /\ Len(run.chain) = k - 1
        /\ \A m \in 1 .. (k - 1) : run.chain[m] = old.chain[m + 1]
    BY <1>2, <1>3, <1>5, <1>9, <1>10, HeadTailProperties
  <2>2. DOMAIN run.chain = 1 .. (k - 1)
    BY <2>1, LenProperties
  <2> QED BY <1>11, <2>1, <2>2
<1>14. /\ run.heard \in Seq(Registrations \X Outcomes) /\ Len(run.heard) = n + 1
       /\ DOMAIN run.heard = 1 .. (n + 1)
       /\ \A m \in DOMAIN old.heard : m \in DOMAIN run.heard /\ run.heard[m] = old.heard[m]
       /\ run.heard[n + 1] = <<hook, outcome>>
       /\ \A m \in DOMAIN run.heard : m \in DOMAIN old.heard \/ m = n + 1
  <2>1. /\ run.heard \in Seq(Registrations \X Outcomes) /\ Len(run.heard) = n + 1
        /\ \A m \in 1 .. n : run.heard[m] = old.heard[m]
        /\ run.heard[n + 1] = <<hook, outcome>>
    BY <1>5, <1>9, <1>10, <1>12, AppendProperties
  <2>2. DOMAIN run.heard = 1 .. (n + 1)
    BY <2>1, LenProperties
  <2> QED BY <1>11, <2>1, <2>2
<1>15. ChainHeld(run, g)
  <2>1. \A m \in DOMAIN run.chain :
          run.chain[m] \in Range(made) /\ run.chain[m].owner \in g.instances
    BY <1>9, <1>13 DEF ChainHeld
  <2>2. \A m \in DOMAIN run.heard :
          run.heard[m][1] \in Range(made) /\ run.heard[m][1].owner \in g.instances
    BY <1>9, <1>12, <1>14 DEF ChainHeld
  <2>3. ASSUME NEW l \in DOMAIN run.chain, NEW m \in DOMAIN run.chain, l < m
        PROVE  GoesBefore(run.chain[l], run.chain[m])
    <3>1. l + 1 < m + 1
      BY <1>11, <1>13, <2>3
    <3> QED BY <1>9, <1>13, <3>1 DEF ChainHeld
  <2>4. ASSUME NEW l \in DOMAIN run.heard, NEW m \in DOMAIN run.heard, l < m
        PROVE  GoesBefore(run.heard[l][1], run.heard[m][1])
    <3>1. l \in DOMAIN old.heard
      BY <1>11, <1>14, <2>4
    <3>2. CASE m \in DOMAIN old.heard
      BY <1>9, <1>14, <2>4, <3>1, <3>2 DEF ChainHeld
    <3>3. CASE m = n + 1
      <4>1. run.heard[m][1] = old.chain[1] /\ run.heard[l] = old.heard[l]
        BY <1>12, <1>14, <3>1, <3>3
      <4> QED BY <1>9, <1>12, <3>1, <4>1 DEF ChainHeld
    <3> QED BY <1>14, <3>2, <3>3
  <2>5. ASSUME NEW l \in DOMAIN run.heard, NEW m \in DOMAIN run.chain
        PROVE  GoesBefore(run.heard[l][1], run.chain[m])
    <3>1. m + 1 \in DOMAIN old.chain /\ run.chain[m] = old.chain[m + 1]
      BY <1>13
    <3>2. CASE l \in DOMAIN old.heard
      BY <1>9, <1>14, <3>1, <3>2 DEF ChainHeld
    <3>3. CASE l = n + 1
      <4>1. run.heard[l][1] = old.chain[1] /\ 1 < m + 1
        BY <1>11, <1>12, <1>13, <1>14, <3>3
      <4> QED BY <1>9, <1>12, <3>1, <4>1 DEF ChainHeld
    <3> QED BY <1>14, <3>2, <3>3
  <2> QED BY <1>13, <1>14, <2>1, <2>2, <2>3, <2>4, <2>5 DEF ChainHeld
<1>16. OutcomesHeld(run)
  <2>1. \A m \in DOMAIN old.heard : ~Refusal(old.heard[m][1], old.heard[m][2])
    BY <1>2, <1>3, <1>9 DEF OutcomesHeld
  <2>2. Stops(hook, outcome) <=> Refusal(hook, outcome)
    BY StopIsRefusal
  <2>3. \A m \in DOMAIN run.heard :
          Refusal(run.heard[m][1], run.heard[m][2]) <=> m = Len(run.heard) /\ run.pc = "refused"
    <3>1. ASSUME NEW m \in DOMAIN old.heard PROVE m # Len(run.heard)
      BY <1>11, <1>14
    <3> HIDE DEF Stops, Refusal
    <3> QED BY <1>5, <1>14, <2>1, <2>2, <3>1
  <2>4. run.pc \in {"hooks", "running", "refused"}
    BY <1>5
  <2>5. Given(run) = Given(old) \cup IF hook.item.mode = "transform" /\ outcome = "mapping"
                                     THEN {n + 1} ELSE {}
    <3>1. n + 1 \in DOMAIN run.heard
      BY <1>11, <1>14
    <3> QED BY <1>14, <3>1 DEF Given
  <2>6. \A m \in Given(old) : m \in DOMAIN old.heard
    BY DEF Given
  <2>7. CASE hook.item.mode = "transform" /\ outcome = "mapping"
    <3>1. n + 1 \in Given(run) /\ run.payload = <<run.heard[n + 1][1]>>
      BY <1>5, <1>14, <2>5, <2>7
    <3>2. \A m \in Given(run) : m <= n + 1
      BY <1>11, <2>5, <2>6, <2>7
    <3> QED BY <2>3, <2>4, <3>1, <3>2 DEF OutcomesHeld
  <2>8. CASE ~(hook.item.mode = "transform" /\ outcome = "mapping")
    <3>1. Given(run) = Given(old) /\ run.payload = old.payload
      BY <1>5, <2>5, <2>8
    <3>2. \/ Given(run) = {} /\ run.payload = <<>>
          \/ \E m \in Given(run) : /\ \A l \in Given(run) : l <= m
                                   /\ run.payload = <<run.heard[m][1]>>
      BY <1>9, <1>14, <2>6, <3>1 DEF OutcomesHeld
    <3> QED BY <2>3, <2>4, <3>2 DEF OutcomesHeld
  <2> QED BY <2>7, <2>8
<1>17. Held(run)
  BY <1>4, <1>5, <1>6, <1>7, <1>8, <1>15, <1>16 DEF Held
<1>18. UNCHANGED <<storesVars, frozen, made>>
  BY <1>2 DEF registryVars, storesVars
<1>19. Held(run)'
  BY <1>1, <1>2, <1>17, <1>18, HeldStays
<1> QED BY <1>1, <1>2, <1>4, <1>5, <1>7, <1>18, <1>19, RunSteps

(* A run that changes nothing of what Held relates to its generation.      *)
LEMMA RunGoesOn ==
  ASSUME ViewInv, NEW r \in Runs, runs[r] # Idle, NEW run,
         runs' = [runs EXCEPT ![r] = run], UNCHANGED <<registryVars, generations, late>>,
         DOMAIN run = Fields,
         \A f \in Fields \ {"pc", "graph", "called"} : run[f] = runs[r][f],
         \/ run.pc = runs[r].pc
         \/ runs[r].pc = "hooks" /\ run.pc = "running",
         run.called \subseteq run.tools
  PROVE  ViewInv'
<1>1. Stored /\ GenerationsInv /\ RunsInv
  BY DEF ViewInv
<1>2. PICK old : old = runs[r]
  OBVIOUS
<1>3. Held(old) /\ generations[old.generation] \in LiveGenerations
  BY <1>1, <1>2, LiveOnes DEF G
<1>4. /\ run.generation = old.generation /\ run.scope = old.scope /\ run.tools = old.tools
      /\ run.pick = old.pick /\ run.policies = old.policies /\ run.caps = old.caps
      /\ run.service = old.service /\ run.chain = old.chain /\ run.heard = old.heard
      /\ run.payload = old.payload
  BY <1>2 DEF Fields
<1>5. PICK g : g = generations[old.generation]
  OBVIOUS
<1>6. ToolsHeld(run, g) /\ CapsHeld(run, g) /\ ChainHeld(run, g)
  BY <1>3, <1>4, <1>5 DEF Held, ToolsHeld, CapsHeld, FailedClosed, ChainHeld
<1>7. OutcomesHeld(run)
  <2>1. OutcomesHeld(old)
    BY <1>3 DEF Held
  <2>2. Given(run) = Given(old)
    BY <1>4 DEF Given
  <2>3. /\ run.pc \in {"hooks", "running", "refused"}
        /\ run.pc = "refused" <=> old.pc = "refused"
    BY <1>2, <2>1 DEF OutcomesHeld
  <2> QED BY <1>4, <2>1, <2>2, <2>3 DEF OutcomesHeld
<1>8. Held(run)
  BY <1>3, <1>4, <1>5, <1>6, <1>7 DEF Held
<1>9. UNCHANGED <<storesVars, frozen, made, generations, late>>
  BY DEF registryVars, storesVars
<1>10. Held(run)'
  BY <1>1, <1>8, <1>9, HeldStays
<1> QED BY <1>3, <1>4, <1>9, <1>10, RunSteps

LEMMA CompilesKeeps ==
  ASSUME ViewInv, NEW r \in setting.runs, Compiles(r)
  PROVE  ViewInv'
<1>1. Stored /\ RunsInv /\ r \in Runs /\ DOMAIN runs = Runs
  BY ViewAssumption DEF ViewInv, Stored, RunsInv
<1>2. PICK graph : /\ runs[r].pc = "hooks"
                   /\ runs' = [runs EXCEPT ![r].pc = "running", ![r].graph = graph]
                   /\ UNCHANGED <<registryVars, generations, late>>
  BY DEF Compiles
<1>3. PICK old : old = runs[r]
  OBVIOUS
<1>4. Held(old) /\ old # Idle
  BY <1>1, <1>2, <1>3 DEF RunsInv, Idle
<1>5. DOMAIN old = Fields /\ old.called \subseteq old.tools
  BY <1>4 DEF Held, ToolsHeld
<1>6. PICK run : run = [old EXCEPT !.pc = "running", !.graph = graph]
  OBVIOUS
<1>7. runs' = [runs EXCEPT ![r] = run]
  BY <1>1, <1>2, <1>3, <1>6
<1>8. /\ DOMAIN run = Fields /\ run.pc = "running"
      /\ \A f \in Fields \ {"pc", "graph", "called"} : run[f] = old[f]
      /\ run.called = old.called /\ run.tools = old.tools
  BY ONLY <1>5, <1>6 DEF Fields
<1>9. /\ runs[r] # Idle /\ UNCHANGED <<registryVars, generations, late>>
      /\ \A f \in Fields \ {"pc", "graph", "called"} : run[f] = runs[r][f]
      /\ run.pc = runs[r].pc \/ (runs[r].pc = "hooks" /\ run.pc = "running")
      /\ run.called \subseteq run.tools
  BY ONLY <1>2, <1>3, <1>4, <1>5, <1>8
<1> QED BY <1>1, <1>7, <1>8, <1>9, RunGoesOn

LEMMA CallsKeeps ==
  ASSUME ViewInv, NEW r \in Working, NEW name, Calls(r, name)
  PROVE  ViewInv'
<1>1. Stored /\ RunsInv /\ r \in Runs /\ DOMAIN runs = Runs
  BY DEF ViewInv, Working, RunsInv
<1>2. /\ runs[r].pc = "running" /\ name \in DOMAIN runs[r].pick
      /\ runs' = [runs EXCEPT ![r].called = @ \cup {runs[r].pick[name]}]
      /\ UNCHANGED <<registryVars, generations, late>>
  BY DEF Calls
<1>3. PICK old, called : old = runs[r] /\ called = old.called \cup {old.pick[name]}
  OBVIOUS
<1>4. Held(old) /\ old # Idle
  BY <1>1, <1>2, <1>3 DEF RunsInv, Idle
<1>5. DOMAIN old = Fields /\ called \subseteq old.tools
  BY <1>2, <1>3, <1>4 DEF Held, ToolsHeld
<1>6. PICK run : run = [old EXCEPT !.called = called]
  OBVIOUS
<1>7. runs' = [runs EXCEPT ![r] = run]
  BY <1>1, <1>2, <1>3, <1>6
<1>8. /\ DOMAIN run = Fields /\ run.pc = old.pc
      /\ \A f \in Fields \ {"pc", "graph", "called"} : run[f] = old[f]
      /\ run.called = called /\ run.tools = old.tools
  BY ONLY <1>5, <1>6 DEF Fields
<1>9. /\ runs[r] # Idle /\ UNCHANGED <<registryVars, generations, late>>
      /\ \A f \in Fields \ {"pc", "graph", "called"} : run[f] = runs[r][f]
      /\ run.pc = runs[r].pc \/ (runs[r].pc = "hooks" /\ run.pc = "running")
      /\ run.called \subseteq run.tools
  BY ONLY <1>2, <1>3, <1>4, <1>5, <1>8
<1> QED BY <1>1, <1>7, <1>8, <1>9, RunGoesOn

LEMMA EndsKeeps ==
  ASSUME ViewInv, NEW r \in setting.runs, Ends(r)
  PROVE  ViewInv'
<1>1. r \in Runs
  BY ViewAssumption DEF ViewInv, Stored
<1>2. runs' = [runs EXCEPT ![r] = Idle] /\ UNCHANGED <<storesVars, frozen, generations, late>>
  BY DEF Ends, registryVars, storesVars
<1> QED BY <1>1, <1>2, RunSteps

(* Nothing of the registries, generations and runs changes.                *)
LEMMA StutterKeeps ==
  ASSUME ViewInv, UNCHANGED <<registryVars, generations, runs, late>>
  PROVE  ViewInv'
<1>1. /\ Stored /\ scope \in [Instances -> {"new", "open", "closing", "closed"}]
      /\ UNCHANGED <<setting, frozen, generations, runs, made, late, live, scope>>
  BY DEF ViewInv, Stored, registryVars
<1> QED BY <1>1, RemovalMoves, MoveKeeps

LEMMA InitHolds ==
  ASSUME Init
  PROVE  ViewInv
<1>1. /\ setting \in Settings /\ scope = [i \in Instances |-> "new"]
      /\ made = <<>> /\ live = {} /\ generations = <<>> /\ runs = [r \in Runs |-> Idle]
  BY DEF Init, RegistriesInit
<1>2. Range(made) = {} /\ made \in Seq(Registrations) /\ DOMAIN made = {}
  BY <1>1, EmptySeq DEF Range
<1>3. ASSUME NEW i \in Instances PROVE Numbered(i)
  <2>1. Registered(i) = {} /\ Cardinality(Registered(i)) = 0
    BY <1>2, FS_EmptySet DEF Registered
  <2>2. Len(ItemsOf(i)) \in Nat
    BY <1>1, ItemsTyped
  <2>3. FirstOf(i, 0) = {}
    BY DEF FirstOf
  <2> QED BY <2>1, <2>2, <2>3 DEF Numbered
<1>4. Stored
  BY <1>1, <1>2, <1>3 DEF Stored
<1>5. GenerationsInv
  <2>1. generations \in Seq(Range(generations)) /\ DOMAIN generations = {}
    BY <1>1, EmptySeq
  <2>2. LiveGenerations = {}
    BY <1>1 DEF LiveGenerations, Working, Idle
  <2> QED BY <2>1, <2>2 DEF GenerationsInv
<1>6. RunsInv
  BY <1>1 DEF RunsInv
<1> QED BY <1>4, <1>5, <1>6 DEF ViewInv

LEMMA NextKeeps ==
  ASSUME ViewInv, [Next]_vars
  PROVE  ViewInv'
<1>1. Stored
  BY DEF ViewInv
<1>2. CASE UNCHANGED vars
  <2>1. UNCHANGED <<registryVars, generations, runs, late>>
    BY <1>2 DEF vars, viewVars
  <2> QED BY <2>1, StutterKeeps
<1>3. CASE \E i \in Instances : Mounts(i) \/ Disposes(i) \/ Unwinds(i) \/ Registers(i)
  BY <1>1, <1>3, RegistryMoves, MoveKeeps
<1>4. CASE \E i \in Instances, key \in IndexKeys : Unregisters(i, key)
  BY <1>1, <1>4, RegistryMoves, MoveKeeps
<1>5. CASE \E key \in IndexKeys : UnregistersNewest(key)
  <2>1. PICK key \in IndexKeys : UnregistersNewest(key)
    BY <1>5
  <2>2. \E i \in Instances : TRUE
    <3>1. \E reg \in Range(made) : TRUE
      BY DEF IndexKeys
    <3> QED BY <1>1, <3>1, MadeFacts DEF Stored, Registrations
  <2> QED BY <1>1, <2>1, <2>2, RegistryMoves, MoveKeeps
<1>6. CASE \E reg \in live : UnregistersHook(reg) \/ \E p \in Policies : Rewires(reg, p)
  <2>1. PICK reg \in live : UnregistersHook(reg) \/ \E p \in Policies : Rewires(reg, p)
    BY <1>6
  <2>2. reg.owner \in Instances
    BY <1>1, <2>1, MadeFacts DEF Stored, Registrations
  <2> QED BY <1>1, <2>1, <2>2, RegistryMoves, MoveKeeps
<1>7. CASE \E S \in setting.compositions, prefs \in setting.preferences : Publishes(S, prefs)
  BY <1>7, PublishesKeeps
<1>8. CASE \E r \in setting.runs, s \in setting.callers, key \in DOMAIN names :
             key[1] = "runtime" /\ Starts(r, key[2], s)
  BY <1>8, StartsKeeps
<1>9. CASE \E r \in setting.runs, outcome \in Outcomes : Handles(r, outcome)
  BY <1>9, HandlesKeeps
<1>10. CASE \E r \in setting.runs : Compiles(r) \/ Ends(r)
  BY <1>10, CompilesKeeps, EndsKeeps
<1>11. CASE \E r \in Working : \E t \in runs[r].tools : Calls(r, t.item.name)
  BY <1>11, CallsKeeps
<1>12. CASE \E key \in DOMAIN names : key[1] = "runtime" /\ Invalidates(key[2])
  <2>1. UNCHANGED <<registryVars, generations, runs, late>>
    BY <1>12 DEF Invalidates
  <2> QED BY <2>1, StutterKeeps
<1> QED BY <1>2, <1>3, <1>4, <1>5, <1>6, <1>7, <1>8, <1>9, <1>10, <1>11, <1>12 DEF Next

(***************************************************************************)
(* The theorems                                                            *)
(***************************************************************************)

LEMMA ViewInvariant == Spec => []ViewInv
<1>1. Init => ViewInv
  BY InitHolds
<1>2. ViewInv /\ [Next]_vars => ViewInv'
  BY NextKeeps
<1> QED BY <1>1, <1>2, PTL DEF Spec

(* A run works with what its generation published (run_environment): its   *)
(* tools, hooks and capabilities are of instances of the generation that   *)
(* it leased, which are open, whatever plugins register, withdraw or       *)
(* dispose meanwhile; a name means one tool but for registrations made     *)
(* after the publication; promised capabilities are there; and all runs    *)
(* that see a tool see the policy of the copy that was captured first.     *)
THEOREM RunsAreServedAsPublished == Spec => []ServedAsPublished
<1>1. ViewInv => ServedAsPublished
  <2> SUFFICES ASSUME ViewInv PROVE ServedAsPublished
    OBVIOUS
  <2>1. GenerationsInv /\ RunsInv
    BY DEF ViewInv
  <2>2. ASSUME NEW r \in Working
        PROVE  /\ Held(runs[r]) /\ Published(G(r)) /\ Served(G(r))
               /\ ToolsHeld(runs[r], G(r)) /\ CapsHeld(runs[r], G(r)) /\ ChainHeld(runs[r], G(r))
    <3>1. Held(runs[r]) /\ G(r) \in LiveGenerations
      BY <2>1, LiveOnes
    <3> QED BY <2>1, <3>1, LiveOnes DEF Held, G
  <2>3. ServedByItsGeneration
    <3> SUFFICES ASSUME NEW r \in Working, NEW reg \in Seen(r)
                 PROVE  reg.owner \in G(r).instances /\ scope[reg.owner] = "open"
      BY DEF ServedByItsGeneration
    <3>1. reg.owner \in G(r).instances
      <4>1. CASE reg \in runs[r].tools
        BY <2>2, <4>1 DEF ToolsHeld
      <4>2. CASE reg \in runs[r].caps
        BY <2>2, <4>2 DEF CapsHeld
      <4>3. CASE reg \in Range(runs[r].chain)
        BY <2>2, <4>3 DEF ChainHeld, Range
      <4>4. CASE reg \in {h[1] : h \in Range(runs[r].heard)}
        <5>1. PICK n \in DOMAIN runs[r].heard : reg = runs[r].heard[n][1]
          BY <4>4 DEF Range
        <5> QED BY <2>2, <5>1 DEF ChainHeld
      <4> QED BY <4>1, <4>2, <4>3, <4>4 DEF Seen
    <3> QED BY <2>2, <3>1 DEF Served
  <2>4. OneToolPerName
    BY <2>2 DEF OneToolPerName, ToolsHeld
  <2>5. PromisesKept
    BY <2>1 DEF PromisesKept, GenerationsInv, Published
  <2>6. OnePublishedPolicy
    BY <2>2 DEF OnePublishedPolicy, ToolsHeld
  <2>7. CallsItsOwnTools
    <3> SUFFICES ASSUME NEW r \in Working, NEW t \in runs[r].called
                 PROVE  t \in runs[r].tools /\ scope[t.owner] = "open"
      BY DEF CallsItsOwnTools
    <3>1. t \in runs[r].tools /\ t.owner \in G(r).instances
      BY <2>2 DEF ToolsHeld
    <3> QED BY <2>2, <3>1 DEF Served
  <2> QED BY <2>3, <2>4, <2>5, <2>6, <2>7 DEF ServedAsPublished
<1> QED BY <1>1, ViewInvariant, PTL

(* Narrowing never widens (tool_snapshot, scoped_capabilities,             *)
(* _system_requirement): what a run sees in a composition scope is of that *)
(* scope or one above it and named by every view between, and the default  *)
(* policies and secrets serve it only where the whole generation provides  *)
(* none.                                                                   *)
THEOREM NarrowingFailsClosed == Spec => []NarrowedFailClosed
<1>1. ViewInv => NarrowedFailClosed
  <2> SUFFICES ASSUME ViewInv PROVE NarrowedFailClosed
    OBVIOUS
  <2>1. GenerationsInv /\ RunsInv
    BY DEF ViewInv
  <2>2. ASSUME NEW r \in Working
        PROVE  /\ runs[r].scope \in Scopes \cup {Everywhere}
               /\ ToolsHeld(runs[r], G(r)) /\ CapsHeld(runs[r], G(r))
    BY <2>1, LiveOnes DEF Held, G
  <2>3. WithinTheScope
    BY <2>2 DEF WithinTheScope, ToolsHeld, CapsHeld
  <2>4. FailsClosed
    BY <2>2 DEF FailsClosed, CapsHeld, FailedClosed
  <2> QED BY <2>3, <2>4 DEF NarrowedFailClosed
<1> QED BY <1>1, ViewInvariant, PTL

(* The hook chain of a run (HookRegistry.run): whatever is registered      *)
(* while it goes on, its handlers run by priority and then by              *)
(* registration, each at most once, it goes on past a handler only if that *)
(* did not refuse, and its payload is what the last transform returned.    *)
THEOREM HooksRunInOrder == Spec => []HooksInOrder
<1>1. ViewInv => HooksInOrder
  <2> SUFFICES ASSUME ViewInv, NEW r \in Working
               PROVE  LET heard == runs[r].heard
                          chain == [n \in DOMAIN heard |-> heard[n][1]] \o runs[r].chain
                          given == {n \in DOMAIN heard : heard[n][1].item.mode = "transform"
                                                           /\ heard[n][2] = "mapping"}
                      IN /\ \A m, n \in DOMAIN chain : m < n => GoesBefore(chain[m], chain[n])
                         /\ \A n \in DOMAIN heard :
                              Refusal(heard[n][1], heard[n][2])
                                <=> n = Len(heard) /\ runs[r].pc = "refused"
                         /\ runs[r].payload = IF given = {} THEN <<>> ELSE <<heard[Max(given)][1]>>
    BY DEF HooksInOrder
  <2>1. PICK run, g : run = runs[r] /\ g = G(r)
    OBVIOUS
  <2>2. ChainHeld(run, g) /\ OutcomesHeld(run)
    BY <2>1, LiveOnes DEF ViewInv, Held, G
  <2>3. PICK past, k : past = [n \in DOMAIN run.heard |-> run.heard[n][1]] /\ k = Len(run.heard)
    OBVIOUS
  <2>4. PICK chain, l : chain = past \o run.chain /\ l = Len(run.chain)
    OBVIOUS
  <2>5. /\ run.chain \in Seq(Registrations) /\ run.heard \in Seq(Registrations \X Outcomes)
        /\ k \in Nat /\ DOMAIN run.heard = 1 .. k /\ l \in Nat /\ DOMAIN run.chain = 1 .. l
    BY <2>2, <2>3, <2>4, LenProperties DEF ChainHeld
  <2>6. past \in Seq(Registrations) /\ Len(past) = k
    <3>1. past \in [1 .. k -> Registrations]
      <4>1. \A n \in 1 .. k : run.heard[n] \in Registrations \X Outcomes
        BY <2>3, <2>5, ElementOfSeq
      <4> QED BY <2>3, <2>5, <4>1
    <3>2. past \in Seq(Registrations)
      BY <2>5, <3>1, SeqDef
    <3> QED BY <2>5, <3>1, <3>2, LenProperties
  <2>7. /\ chain \in Seq(Registrations) /\ Len(chain) = k + l
        /\ \A n \in 1 .. (k + l) :
             chain[n] = IF n <= k THEN past[n] ELSE run.chain[n - k]
    <3>1. /\ past \o run.chain \in Seq(Registrations)
          /\ Len(past \o run.chain) = Len(past) + Len(run.chain)
          /\ \A n \in 1 .. (Len(past) + Len(run.chain)) :
               (past \o run.chain)[n] =
                 IF n <= Len(past) THEN past[n] ELSE run.chain[n - Len(past)]
      BY ONLY <2>5, <2>6, ConcatProperties
    <3> QED BY <2>4, <2>6, <3>1
  <2>8. DOMAIN chain = 1 .. (k + l)
    BY <2>7, LenProperties
  <2>9. ASSUME NEW m \in DOMAIN chain, NEW n \in DOMAIN chain, m < n
        PROVE  GoesBefore(chain[m], chain[n])
    <3>1. CASE n <= k
      <4>1. m \in DOMAIN run.heard /\ n \in DOMAIN run.heard
        BY <2>5, <2>8, <2>9, <3>1
      <4>2. chain[m] = run.heard[m][1] /\ chain[n] = run.heard[n][1]
        BY <2>3, <2>5, <2>7, <2>8, <2>9, <3>1, <4>1
      <4> QED BY <2>2, <2>9, <4>1, <4>2 DEF ChainHeld
    <3>2. CASE m <= k /\ k < n
      <4>1. m \in DOMAIN run.heard /\ n - k \in DOMAIN run.chain
        BY <2>5, <2>8, <3>2
      <4>2. chain[m] = run.heard[m][1] /\ chain[n] = run.chain[n - k]
        <5>1. m \in 1 .. (k + l) /\ n \in 1 .. (k + l) /\ ~(n <= k)
          BY <2>5, <2>8, <3>2
        <5> QED BY <2>3, <2>7, <3>2, <4>1, <5>1
      <4> QED BY <2>2, <4>1, <4>2 DEF ChainHeld
    <3>3. CASE k < m
      <4>1. m - k \in DOMAIN run.chain /\ n - k \in DOMAIN run.chain /\ m - k < n - k
        BY <2>5, <2>8, <2>9, <3>3
      <4>2. chain[m] = run.chain[m - k] /\ chain[n] = run.chain[n - k]
        BY <2>5, <2>7, <2>8, <2>9, <3>3
      <4> QED BY <2>2, <4>1, <4>2 DEF ChainHeld
    <3> QED BY <2>5, <2>8, <2>9, <3>1, <3>2, <3>3
  <2>10. \A n \in DOMAIN run.heard :
           Refusal(run.heard[n][1], run.heard[n][2]) <=> n = Len(run.heard) /\ run.pc = "refused"
    BY <2>2 DEF OutcomesHeld
  <2>11. run.payload = IF Given(run) = {} THEN <<>> ELSE <<run.heard[Max(Given(run))][1]>>
    <3>1. CASE Given(run) = {}
      BY <2>2, <3>1 DEF OutcomesHeld
    <3>2. ASSUME NEW m \in Given(run), \A n \in Given(run) : n <= m,
                 run.payload = <<run.heard[m][1]>>
          PROVE  run.payload = <<run.heard[Max(Given(run))][1]>>
      <4>1. Given(run) \subseteq Nat
        BY <2>5 DEF Given
      <4>2. Max(Given(run)) = m
        BY <3>2, <4>1 DEF Max
      <4> QED BY <3>2, <4>2
    <3> QED BY <2>2, <3>1, <3>2 DEF OutcomesHeld
  <2>12. Given(run) = {n \in DOMAIN run.heard : run.heard[n][1].item.mode = "transform"
                                                  /\ run.heard[n][2] = "mapping"}
    BY DEF Given
  <2>13. chain = [n \in DOMAIN run.heard |-> run.heard[n][1]] \o run.chain
    BY <2>3, <2>4
  <2> QED BY <2>1, <2>9, <2>10, <2>11, <2>12, <2>13
<1> QED BY <1>1, ViewInvariant, PTL

(***************************************************************************)
(* The registries and their indexes                                        *)
(***************************************************************************)

Under(key) == {reg \in live : IsNamed(reg) /\ IndexKey(reg) = key}

(* The entry of a name is the live registrations of it, as they were made. *)
Indexes ==
  /\ \A key \in DOMAIN names : names[key] # <<>>
  /\ \A key : Indexed(names, key) = Filtered(made, Under(key))

EffectsOf(i) ==
  /\ effects[i] \in Seq(Registrations)
  /\ \A m, n \in 1 .. Len(effects[i]) : effects[i][m] = effects[i][n] => m = n
  /\ \A reg \in Range(effects[i]) : reg.owner = i /\ reg \in Range(made)

Owned ==
  /\ DOMAIN effects = Instances
  /\ \A i \in Instances : EffectsOf(i)
  /\ withdrawn \subseteq Range(made)
  /\ LivesWithItsOwner

Policed ==
  /\ \A reg \in Range(made) : reg.item.kind = "tool" => reg \in DOMAIN policy
  /\ DOMAIN frozen \subseteq DOMAIN policy

RegistryInv == Indexes /\ Owned /\ Policed

(* Registrations that are released leave the entry of their name, and the  *)
(* last one takes the entry with it.                                       *)
LEMMA ReleaseKeepsIndexes ==
  ASSUME Stored, Indexes, NEW gone, Release(gone), made' = made
  PROVE  Indexes'
<1> DEFINE kept(key) == Filtered(names[key], Range(names[key]) \ gone)
<1>1. names' = [key \in {k \in DOMAIN names : kept(k) # <<>>} |-> kept(key)]
  BY DEF Release, Unindexed
<1>2. made \in Seq(Registrations) /\ live \subseteq Range(made) /\ live' = live \ gone
  BY DEF Stored, Release
<1>3. ASSUME NEW key \in DOMAIN names
      PROVE  kept(key) = Filtered(made, Under(key)')
  <2>1. names[key] = Filtered(made, Under(key))
    BY DEF Indexes, Indexed
  <2>2. PICK f \in Seq(Registrations \cap Under(key)) : f = Filtered(made, Under(key))
    BY <1>2, FilterPlaces
  <2>3. kept(key) = Filtered(made, Under(key) \cap (Range(f) \ gone))
    BY <1>2, <2>1, <2>2, FilterTwice
  <2>4. Under(key)' = Under(key) \ gone
    BY <1>2 DEF Under
  <2>5. \A i \in 1 .. Len(made) : made[i] \in Under(key) => made[i] \in Range(f)
    <3> SUFFICES ASSUME NEW i \in 1 .. Len(made), made[i] \in Under(key)
                 PROVE  made[i] \in Range(f)
      OBVIOUS
    <3>1. \E n \in 1 .. Len(f) : f[n] = made[i]
      BY <1>2, <2>2, FilterMembers
    <3> QED BY <2>2, <3>1, LenProperties DEF Range
  <2>6. \A i \in 1 .. Len(made) : made[i] \in Under(key) \cap (Range(f) \ gone)
                                  <=> made[i] \in Under(key)'
    BY <2>4, <2>5
  <2> HIDE DEF kept
  <2> QED BY <1>2, <2>3, <2>6, FilterSame
<1>4. ASSUME NEW key, key \notin DOMAIN names
      PROVE  Filtered(made, Under(key)') = <<>>
  <2>1. Filtered(made, Under(key)) = <<>>
    BY <1>4 DEF Indexes, Indexed
  <2>2. \A i \in 1 .. Len(made) : made[i] \notin Under(key)
    <3> SUFFICES ASSUME NEW i \in 1 .. Len(made), made[i] \in Under(key) PROVE FALSE
      OBVIOUS
    <3>1. \E n \in 1 .. Len(Filtered(made, Under(key))) : TRUE
      BY <1>2, FilterMembers
    <3> QED BY <2>1, <3>1
  <2>3. \A i \in 1 .. Len(made) : made[i] \in Under(key) <=> made[i] \in Under(key)'
    BY <1>2, <2>2 DEF Under
  <2> QED BY <1>2, <2>1, <2>3, FilterSame
<1> HIDE DEF kept
<1>5. \A key \in DOMAIN names' : names'[key] # <<>>
  BY <1>1
<1>6. ASSUME NEW key PROVE Indexed(names', key) = Filtered(made, Under(key)')
  <2>1. CASE key \in DOMAIN names'
    <3>1. key \in DOMAIN names /\ names'[key] = kept(key)
      BY <1>1, <2>1
    <3> QED BY <1>3, <2>1, <3>1 DEF Indexed
  <2>2. CASE key \notin DOMAIN names' /\ key \in DOMAIN names
    <3>1. kept(key) = <<>>
      BY <1>1, <2>2
    <3> QED BY <1>3, <2>2, <3>1 DEF Indexed
  <2>3. CASE key \notin DOMAIN names' /\ key \notin DOMAIN names
    BY <1>4, <2>3 DEF Indexed
  <2> QED BY <2>1, <2>2, <2>3
<1>7. \A key : Indexed(names, key)' = Filtered(made, Under(key))'
  BY <1>6
<1> QED BY <1>5, <1>7 DEF Indexes

(* A registration is the last of its name.                                 *)
LEMMA RegisterKeepsIndexes ==
  ASSUME Stored, Indexes, NEW i \in Instances, NEW reg \in Registrations, reg \notin Range(made),
         made' = Append(made, reg), live' = live \cup {reg},
         names' = IF IsNamed(reg)
                  THEN With(names, IndexKey(reg), Append(Indexed(names, IndexKey(reg)), reg))
                  ELSE names
  PROVE  Indexes'
<1>1. made \in Seq(Registrations) /\ live \subseteq Range(made)
  BY DEF Stored
<1>2. ASSUME NEW key
      PROVE  Filtered(made', Under(key)') =
               IF IsNamed(reg) /\ IndexKey(reg) = key THEN Append(Indexed(names, key), reg)
               ELSE Indexed(names, key)
  <2>1. Under(key)' = IF IsNamed(reg) /\ IndexKey(reg) = key THEN Under(key) \cup {reg}
                      ELSE Under(key)
    BY DEF Under
  <2>2. reg \in Under(key)' <=> IsNamed(reg) /\ IndexKey(reg) = key
    BY <1>1, <2>1 DEF Under
  <2>3. \A n \in 1 .. Len(made) : made[n] \in Under(key)' <=> made[n] \in Under(key)
    <3>1. \A n \in 1 .. Len(made) : made[n] # reg
      BY <1>1, MadeFacts DEF Range
    <3> QED BY <2>1, <3>1
  <2>4. Filtered(made, Under(key)') = Indexed(names, key)
    <3>1. Filtered(made, Under(key)') = Filtered(made, Under(key))
      BY <1>1, <2>3, FilterSame
    <3> QED BY <3>1 DEF Indexes
  <2>5. Filtered(Append(made, reg), Under(key)') =
          IF reg \in Under(key)' THEN Append(Filtered(made, Under(key)'), reg)
          ELSE Filtered(made, Under(key)')
    BY <1>1, FilterAppend
  <2> QED BY <2>2, <2>4, <2>5
<1>3. ASSUME NEW key \in DOMAIN names'
      PROVE  names'[key] # <<>>
  <2>1. CASE key \in DOMAIN names /\ names'[key] = names[key]
    BY <2>1 DEF Indexes
  <2>2. CASE IsNamed(reg) /\ key = IndexKey(reg)
    <3>1. names'[key] = Append(Indexed(names, key), reg)
      BY <2>2 DEF With
    <3>2. Indexed(names, key) = Filtered(made, Under(key))
      BY DEF Indexes
    <3>3. PICK f \in Seq(Registrations \cap Under(key)) : f = Filtered(made, Under(key))
      BY <1>1, FilterPlaces
    <3>4. f \in Seq(Registrations) /\ Append(f, reg) # <<>>
      <4>1. f \in Seq(Registrations)
        BY SeqMonotonic
      <4> QED BY <4>1, AppendProperties
    <3> QED BY <3>1, <3>2, <3>3, <3>4
  <2> QED BY <1>3, <2>1, <2>2 DEF With
<1>4. ASSUME NEW key PROVE Indexed(names, key)' = Filtered(made, Under(key))'
  <2>1. Indexed(names', key) = IF IsNamed(reg) /\ IndexKey(reg) = key
                               THEN Append(Indexed(names, key), reg) ELSE Indexed(names, key)
    BY DEF Indexed, With
  <2> QED BY <1>2, <2>1
<1> QED BY <1>3, <1>4 DEF Indexes

(* The newest registration of a name is the last of its entry.             *)
Newest(key) ==
  CHOOSE reg \in Range(names[key]) : \A other \in Range(names[key]) : MadeAt(other) <= MadeAt(reg)

LEMMA LastIsNewest ==
  ASSUME Stored, Indexes, NEW key, Indexed(names, key) # <<>>
  PROVE  Newest(key) = Last(names[key]) /\ Last(names[key]) \in live
<1>1. made \in Seq(Registrations) /\ \A m, n \in DOMAIN made : made[m] = made[n] => m = n
  BY DEF Stored
<1>2. names[key] = Filtered(made, Under(key)) /\ names[key] # <<>>
  BY DEF Indexes, Indexed
<1>3. PICK f \in Seq(Registrations \cap Under(key)) : f = names[key]
  BY <1>1, <1>2, FilterPlaces
<1>4. PICK e : Embeds(e, f, made, Under(key))
  BY <1>1, <1>2, <1>3, FilterPlaces
<1>5. /\ e \in [1 .. Len(f) -> 1 .. Len(made)]
      /\ \A m, n \in 1 .. Len(f) : m < n => e[m] < e[n]
      /\ \A n \in 1 .. Len(f) : f[n] = made[e[n]]
  BY <1>4 DEF Embeds
<1>6. Len(f) \in Nat /\ Len(f) # 0 /\ DOMAIN f = 1 .. Len(f) /\ Len(f) \in 1 .. Len(f)
  <2>1. Len(f) \in Nat /\ DOMAIN f = 1 .. Len(f) /\ (Len(f) = 0 => f = <<>>)
    BY EmptySeq, LenProperties
  <2>2. Len(f) # 0
    BY <1>2, <1>3, <2>1
  <2>3. Len(f) \in 1 .. Len(f)
    BY <2>1, <2>2
  <2> QED BY <2>1, <2>2, <2>3
<1>7. DOMAIN made = 1 .. Len(made) /\ Len(made) \in Nat
  BY <1>1, LenProperties
<1>8. ASSUME NEW n \in 1 .. Len(f) PROVE MadeAt(f[n]) = e[n]
  <2>1. e[n] \in DOMAIN made /\ f[n] = made[e[n]]
    BY <1>5, <1>7
  <2>2. \A m \in DOMAIN made : made[m] = f[n] <=> m = e[n]
    BY <1>1, <2>1
  <2> QED BY <2>1, <2>2 DEF MadeAt
<1>9. \A n \in 1 .. Len(f) : n = Len(f) \/ n < Len(f)
  <2>1. PICK l \in Nat : l = Len(f)
    BY <1>6
  <2>2. \A n \in 1 .. l : n = l \/ n < l
    BY ONLY l \in Nat
  <2> QED BY <2>1, <2>2
<1>10. \A n \in 1 .. Len(f) : e[n] \in Int /\ e[Len(f)] \in Int
  BY <1>5, <1>6
<1>11. ASSUME NEW n \in 1 .. Len(f) PROVE e[n] <= e[Len(f)]
  <2>1. n = Len(f) \/ e[n] < e[Len(f)]
    BY <1>5, <1>6, <1>9
  <2> QED BY ONLY <1>10, <2>1, n \in 1 .. Len(f)
<1>12. Last(names[key]) = f[Len(f)]
  BY <1>3 DEF Last
<1>13. Range(names[key]) = {f[n] : n \in 1 .. Len(f)}
  BY <1>3, <1>6 DEF Range
<1>14. ASSUME NEW reg \in Range(names[key])
       PROVE  (\A other \in Range(names[key]) : MadeAt(other) <= MadeAt(reg)) <=> reg = f[Len(f)]
  <2>1. PICK n \in 1 .. Len(f) : reg = f[n]
    BY <1>13
  <2>2. ASSUME reg = f[Len(f)], NEW m \in 1 .. Len(f) PROVE MadeAt(f[m]) <= MadeAt(reg)
    BY <1>6, <1>8, <1>11, <2>2
  <2>3. ASSUME reg # f[Len(f)] PROVE ~ (MadeAt(f[Len(f)]) <= MadeAt(reg))
    <3>1. n < Len(f)
      BY <1>9, <2>1, <2>3
    <3>2. e[n] < e[Len(f)] /\ MadeAt(reg) = e[n] /\ MadeAt(f[Len(f)]) = e[Len(f)]
      BY <1>5, <1>6, <1>8, <2>1, <3>1
    <3> QED BY <1>10, <3>2
  <2> QED BY <1>6, <1>13, <2>2, <2>3
<1>15. Newest(key) = f[Len(f)]
  <2>1. f[Len(f)] \in Range(names[key])
    BY <1>6, <1>13
  <2> QED BY <1>14, <2>1 DEF Newest
<1>16. f[Len(f)] \in Under(key)
  BY <1>6, ElementOfSeq
<1> QED BY <1>12, <1>15, <1>16 DEF Under

LEMMA IndexesStay ==
  ASSUME Indexes, UNCHANGED <<made, live, names>>
  PROVE  Indexes'
<1>1. \A key : Under(key)' = Under(key)
  BY DEF Under
<1> QED BY <1>1 DEF Indexes, Indexed

LEMMA OwnedStays ==
  ASSUME Owned, UNCHANGED <<made, live, effects, withdrawn>>
  PROVE  Owned'
BY DEF Owned, EffectsOf, LivesWithItsOwner

(* What is captured was live, and a live tool has a policy.                *)
LEMMA PolicedStays ==
  ASSUME Stored, Policed, UNCHANGED <<made, policy>>,
         frozen' = frozen \/ \E S : frozen' = Captured(ToolsOf(S))
  PROVE  Policed'
<1>1. live \subseteq Range(made)
  BY DEF Stored
<1> QED BY <1>1 DEF Policed, Captured, ToolsOf, OfKind

(* Registrations that are withdrawn early. *)
LEMMA WithdrawalKeeps ==
  ASSUME Stored, RegistryInv, NEW gone, gone \subseteq live, Release(gone),
         withdrawn' = withdrawn \cup gone, UNCHANGED <<effects, made, policy, frozen>>
  PROVE  RegistryInv'
<1>1. Indexes'
  BY ReleaseKeepsIndexes DEF RegistryInv
<1>2. live' = live \ gone /\ live \subseteq Range(made)
  BY DEF Release, Stored
<1>3. LivesWithItsOwner'
  BY <1>2 DEF RegistryInv, Owned, LivesWithItsOwner
<1>4. Owned'
  BY <1>2, <1>3 DEF RegistryInv, Owned, EffectsOf
<1>5. Policed'
  BY DEF RegistryInv, Policed
<1> QED BY <1>1, <1>4, <1>5 DEF RegistryInv

(* The entry of a name lists live registrations. *)
LEMMA EntriesAreLive ==
  ASSUME Stored, Indexes, NEW key
  PROVE  Range(Indexed(names, key)) \subseteq live
<1>1. Indexed(names, key) = Filtered(made, Under(key)) /\ made \in Seq(Registrations)
  BY DEF Indexes, Stored
<1>2. Indexed(names, key) \in Seq(Registrations \cap Under(key))
  BY <1>1, FilterPlaces
<1>3. Range(Indexed(names, key)) \subseteq Under(key)
  BY <1>2, LenProperties DEF Range
<1> QED BY <1>3 DEF Under

LEMMA WithdrawsKeeps ==
  ASSUME Stored, RegistryInv,
         \/ \E i, key : Unregisters(i, key)
         \/ \E key : UnregistersNewest(key)
         \/ \E reg : UnregistersHook(reg)
  PROVE  RegistryInv'
<1>1. Indexes
  BY DEF RegistryInv
<1>2. CASE \E i, key : Unregisters(i, key)
  <2>1. PICK i, key : Unregisters(i, key)
    BY <1>2
  <2>2. PICK gone : /\ gone = {reg \in Range(Indexed(names, key)) : reg.owner = i}
                    /\ Release(gone) /\ withdrawn' = withdrawn \cup gone
                    /\ UNCHANGED <<effects, made, policy, frozen>>
    BY <2>1 DEF Unregisters, UnregisterOwn
  <2>3. gone \subseteq live
    BY <1>1, <2>2, EntriesAreLive
  <2> QED BY <2>2, <2>3, WithdrawalKeeps
<1>3. CASE \E key : UnregistersNewest(key)
  <2>1. PICK key : UnregistersNewest(key)
    BY <1>3
  <2>2. /\ Indexed(names, key) # <<>> /\ Release({Last(names[key])})
        /\ withdrawn' = withdrawn \cup {Newest(key)}
        /\ UNCHANGED <<effects, made, policy, frozen>>
    BY <2>1 DEF UnregistersNewest, UnregisterNewest, Newest
  <2>3. Newest(key) = Last(names[key]) /\ Last(names[key]) \in live
    BY <1>1, <2>2, LastIsNewest
  <2> QED BY <2>2, <2>3, WithdrawalKeeps
<1>4. CASE \E reg : UnregistersHook(reg)
  <2>1. PICK reg : UnregistersHook(reg)
    BY <1>4
  <2>2. /\ reg \in live /\ Release({reg}) /\ withdrawn' = withdrawn \cup {reg}
        /\ UNCHANGED <<effects, made, policy, frozen>>
    BY <2>1 DEF UnregistersHook, UnregisterHook, OfKind
  <2> QED BY <2>2, WithdrawalKeeps
<1> QED BY <1>2, <1>3, <1>4

(* The last of a scope's registrations is released as it leaves the list.  *)
LEMMA UnwindsKeeps ==
  ASSUME Stored, RegistryInv, NEW i \in Instances, Unwinds(i)
  PROVE  RegistryInv'
<1>1. Indexes /\ Owned /\ Policed /\ EffectsOf(i) /\ live \subseteq Range(made)
  BY DEF RegistryInv, Owned, Stored
<1>2. UNCHANGED <<made, policy, frozen, withdrawn>>
  BY DEF Unwinds, CloseStep
<1>3. Policed'
  BY <1>1, <1>2, PolicedStays
<1>4. CASE effects[i] = <<>>
  <2>1. UNCHANGED <<made, live, names, effects, withdrawn>>
    BY <1>4 DEF Unwinds, CloseStep
  <2> QED BY <1>1, <1>3, <2>1, IndexesStay, OwnedStays DEF RegistryInv
<1>5. CASE effects[i] # <<>>
  <2>1. Release({Last(effects[i])}) /\ effects' = [effects EXCEPT ![i] = Front(effects[i])]
    BY <1>5 DEF Unwinds, CloseStep
  <2>2. Indexes'
    BY <1>1, <1>2, <2>1, ReleaseKeepsIndexes
  <2>3. PICK s \in Seq(Registrations) : s = effects[i]
    BY <1>1 DEF EffectsOf
  <2>4. PICK l \in Nat : l = Len(s) /\ l # 0 /\ DOMAIN s = 1 .. l
    BY <1>5, <2>3, EmptySeq, LenProperties
  <2>5. PICK f \in Seq(Registrations) :
          f = Front(s) /\ Len(f) = l - 1 /\ \A n \in 1 .. (l - 1) : f[n] = s[n]
    <3>1. \A n \in 1 .. (l - 1) : s[n] \in Registrations
      BY <2>3, <2>4, ElementOfSeq
    <3>2. Front(s) = SubSeq(s, 1, l - 1)
      BY <2>4 DEF Front
    <3>3. 1 \in Int /\ l - 1 \in Int /\ (l - 1) - 1 + 1 = l - 1 /\ (1 <= l - 1 \/ l - 1 = 0)
          /\ \A n \in 1 .. (l - 1) : 1 + n - 1 = n
      BY ONLY l \in Nat, <2>4
    <3> QED BY <3>1, <3>2, <3>3, SubSeqProperties
  <2>6. Len(f) = l - 1 /\ \A n \in 1 .. (l - 1) : f[n] = s[n]
    BY <2>5
  <2>7. Last(s) = s[l] /\ DOMAIN f = 1 .. (l - 1)
    BY <2>4, <2>5, <2>6, LenProperties DEF Last
  <2>8. 1 .. l = 1 .. (l - 1) \cup {l} /\ l \notin 1 .. (l - 1)
    BY ONLY l \in Nat, <2>4
  <2>9. \A m, n \in 1 .. l : s[m] = s[n] => m = n
    BY <1>1, <2>3, <2>4 DEF EffectsOf
  <2>10. Range(f) = Range(s) \ {s[l]}
    <3>1. Range(f) = {s[n] : n \in 1 .. (l - 1)}
      BY <2>6, <2>7 DEF Range
    <3>2. Range(s) = {s[n] : n \in 1 .. l}
      BY <2>4 DEF Range
    <3> QED BY <2>8, <2>9, <3>1, <3>2
  <2>11. \A m, n \in 1 .. Len(f) : f[m] = f[n] => m = n
    BY <2>6, <2>8, <2>9
  <2>12. \A reg \in Range(s) : reg.owner = i /\ reg \in Range(made)
    BY <1>1, <2>3 DEF EffectsOf
  <2>13. \A j \in Instances : effects'[j] = IF j = i THEN f ELSE effects[j]
    BY <1>1, <2>1, <2>3, <2>5 DEF Owned
  <2>14. ASSUME NEW j \in Instances PROVE EffectsOf(j)'
    <3>1. CASE j = i
      BY <1>2, <2>5, <2>10, <2>11, <2>12, <2>13, <3>1 DEF EffectsOf
    <3>2. CASE j # i
      BY <1>1, <1>2, <2>13, <3>2 DEF EffectsOf, Owned
    <3> QED BY <3>1, <3>2
  <2>15. \A reg \in Range(made) : reg.owner \in Instances
    BY <1>1, MadeFacts DEF Stored, Registrations
  <2>16. live' = live \ {s[l]} /\ s[l].owner = i
    BY <2>1, <2>3, <2>4, <2>7, <2>8, <2>12 DEF Release, Range
  <2>17. \A reg \in Range(made) : reg \in Range(effects'[reg.owner])
                                  <=> reg # s[l] /\ reg \in Range(effects[reg.owner])
    BY <2>3, <2>10, <2>13, <2>15, <2>16
  <2>18. LivesWithItsOwner'
    BY <1>1, <1>2, <2>16, <2>17 DEF LivesWithItsOwner, Owned
  <2>19. Owned'
    BY <1>1, <1>2, <2>1, <2>14, <2>18 DEF Owned
  <2> QED BY <1>3, <2>2, <2>19 DEF RegistryInv
<1> QED BY <1>4, <1>5

(* A registration comes: in its index, among its owner's and in the store. *)
LEMMA RegistersKeeps ==
  ASSUME Stored, RegistryInv, NEW i \in Instances, Registers(i)
  PROVE  RegistryInv'
<1>1. /\ Indexes /\ Owned /\ Policed /\ EffectsOf(i) /\ live \subseteq Range(made)
      /\ made \in Seq(Registrations) /\ withdrawn \subseteq Range(made)
  BY DEF RegistryInv, Owned, Stored
<1>2. PICK item : item = NextItem(i)
  OBVIOUS
<1>3. PICK reg : reg = Registration(i, item)
  OBVIOUS
<1>4. /\ made' = Append(made, reg) /\ live' = live \cup {reg}
      /\ effects' = [effects EXCEPT ![i] = Append(effects[i], reg)]
      /\ names' = IF IsNamed(reg)
                  THEN With(names, IndexKey(reg), Append(Indexed(names, IndexKey(reg)), reg))
                  ELSE names
      /\ policy' = IF item.kind = "tool" THEN With(policy, reg, item.policy) ELSE policy
      /\ UNCHANGED <<frozen, withdrawn>>
  BY <1>2, <1>3 DEF Registers, Register
<1>5. reg \in Registrations /\ reg \notin Range(made) /\ reg.owner = i /\ reg.item = item
  <2>1. RegistryMove
    BY RegisterMoves
  <2>2. PICK l \in Nat : l = Len(made)
    BY <1>1, LenProperties
  <2>3. Len(Append(made, reg)) = l + 1 /\ Append(made, reg)[l + 1] = reg
    BY <1>1, <2>2
  <2>4. made' # made
    BY <1>4, <2>2, <2>3
  <2>5. PICK other \in Registrations : other \notin Range(made) /\ made' = Append(made, other)
    BY <2>1, <2>4 DEF RegistryMove
  <2>6. Append(made, other)[l + 1] = other
    BY <1>1, <2>2, <2>5
  <2>7. other = reg
    BY <1>4, <2>3, <2>5, <2>6
  <2> QED BY <1>3, <2>5, <2>7 DEF Registration
<1>6. Indexes'
  BY <1>1, <1>4, <1>5, RegisterKeepsIndexes
<1>7. Range(made') = Range(made) \cup {reg}
  <2>1. /\ Len(made) \in Nat /\ Len(made') = Len(made) + 1 /\ made'[Len(made) + 1] = reg
        /\ \A n \in 1 .. Len(made) : made'[n] = made[n]
        /\ DOMAIN made = 1 .. Len(made) /\ DOMAIN made' = 1 .. Len(made) + 1
    BY <1>1, <1>4, <1>5, AppendProperties, LenProperties
  <2>2. 1 .. Len(made) + 1 = 1 .. Len(made) \cup {Len(made) + 1}
    BY <2>1
  <2> QED BY <2>1, <2>2 DEF Range
<1>8. PICK s \in Seq(Registrations) : s = effects[i]
  BY <1>1 DEF EffectsOf
<1>9. PICK t \in Seq(Registrations) : t = Append(s, reg)
  <2>1. Append(s, reg) \in Seq(Registrations)
    BY <1>5, AppendProperties
  <2> QED BY <2>1
<1>10. PICK l \in Nat : l = Len(s) /\ DOMAIN s = 1 .. l
  BY LenProperties
<1>11. Len(t) = l + 1 /\ t[l + 1] = reg /\ DOMAIN t = 1 .. (l + 1) /\ \A n \in 1 .. l : t[n] = s[n]
  BY <1>5, <1>9, <1>10, AppendProperties, LenProperties
<1>12. 1 .. (l + 1) = 1 .. l \cup {l + 1}
  BY ONLY l \in Nat
<1>13. Range(t) = Range(s) \cup {reg} /\ \A n \in 1 .. l : t[n] \in Range(s)
  BY <1>10, <1>11, <1>12 DEF Range
<1>14. /\ reg \notin Range(s)
       /\ \A other \in Range(s) : other.owner = i /\ other \in Range(made)
       /\ \A m, n \in 1 .. l : s[m] = s[n] => m = n
  BY <1>1, <1>5, <1>8, <1>10 DEF EffectsOf
<1>15. \A m, n \in 1 .. Len(t) : t[m] = t[n] => m = n
  BY <1>11, <1>12, <1>13, <1>14
<1>16. \A j \in Instances : effects'[j] = IF j = i THEN t ELSE effects[j]
  BY <1>1, <1>4, <1>8, <1>9 DEF Owned
<1>17. ASSUME NEW j \in Instances PROVE EffectsOf(j)'
  <2>1. CASE j = i
    <3>1. \A other \in Range(t) : other.owner = i /\ other \in Range(made')
      BY <1>5, <1>7, <1>13, <1>14
    <3> QED BY <1>15, <1>16, <2>1, <3>1 DEF EffectsOf
  <2>2. CASE j # i
    BY <1>1, <1>7, <1>16, <2>2 DEF EffectsOf, Owned
  <2> QED BY <2>1, <2>2
<1>18. \A other \in Range(made) : other.owner \in Instances
  BY <1>1, MadeFacts DEF Registrations
<1>19. \A other \in Range(made) : other \in Range(effects'[other.owner])
                                  <=> other \in Range(effects[other.owner])
  BY <1>5, <1>8, <1>13, <1>16, <1>18
<1>20. reg \in Range(effects'[reg.owner]) /\ reg \notin withdrawn
  BY <1>1, <1>5, <1>13, <1>16
<1>21. LivesWithItsOwner'
  BY <1>1, <1>4, <1>7, <1>19, <1>20 DEF LivesWithItsOwner, Owned
<1>22. Owned'
  BY <1>1, <1>4, <1>7, <1>17, <1>21 DEF Owned
<1>23. Policed'
  <2>1. DOMAIN policy \subseteq DOMAIN policy' /\ (item.kind = "tool" => reg \in DOMAIN policy')
    BY <1>4 DEF With
  <2> QED BY <1>1, <1>4, <1>5, <1>7, <2>1 DEF Policed
<1> QED BY <1>6, <1>22, <1>23 DEF RegistryInv

LEMMA RegistryInitHolds ==
  ASSUME Init
  PROVE  RegistryInv
<1>1. /\ effects = [i \in Instances |-> <<>>] /\ made = <<>> /\ live = {} /\ names = <<>>
      /\ policy = <<>> /\ frozen = <<>> /\ withdrawn = {}
  BY DEF Init, RegistriesInit
<1>2. Range(made) = {} /\ DOMAIN names = {} /\ <<>> \in Seq(Registrations)
  BY <1>1, EmptySeq DEF Range
<1>3. Indexes
  BY <1>1, <1>2, FilterEmpty DEF Indexes, Indexed
<1>4. \A i \in Instances : effects[i] = <<>> /\ Len(effects[i]) = 0 /\ Range(effects[i]) = {}
  BY <1>1, EmptySeq DEF Range
<1>5. Owned
  BY <1>1, <1>2, <1>4 DEF Owned, EffectsOf, LivesWithItsOwner
<1>6. Policed
  BY <1>1, <1>2 DEF Policed
<1> QED BY <1>3, <1>5, <1>6 DEF RegistryInv

LEMMA RegistryKeeps ==
  ASSUME Stored, RegistryInv, [Next]_vars
  PROVE  RegistryInv'
<1>1. Indexes /\ Owned /\ Policed
  BY DEF RegistryInv
<1>2. ASSUME UNCHANGED <<made, live, names, effects, withdrawn>>, Policed' PROVE RegistryInv'
  BY <1>1, <1>2, IndexesStay, OwnedStays DEF RegistryInv
<1>3. ASSUME UNCHANGED <<made, live, names, effects, withdrawn, policy, frozen>> PROVE RegistryInv'
  BY <1>1, <1>2, <1>3, PolicedStays
<1>4. ASSUME UNCHANGED storesVars, NEW S, frozen' = Captured(ToolsOf(S)) PROVE RegistryInv'
  <2>1. UNCHANGED <<made, live, names, effects, withdrawn, policy>>
    BY <1>4 DEF storesVars
  <2> QED BY <1>1, <1>2, <1>4, <2>1, PolicedStays
<1>5. CASE UNCHANGED registryVars
  BY <1>3, <1>5 DEF registryVars
<1>6. CASE \E i \in Instances : Mounts(i) \/ Disposes(i)
  BY <1>3, <1>6 DEF Mounts, Mount, Disposes, CloseBegin
<1>7. CASE \E i \in Instances : Unwinds(i) \/ Registers(i)
  BY <1>7, UnwindsKeeps, RegistersKeeps
<1>8. CASE \E i \in Instances, key \in IndexKeys : Unregisters(i, key)
  BY <1>8, WithdrawsKeeps
<1>9. CASE \E key \in IndexKeys : UnregistersNewest(key)
  BY <1>9, WithdrawsKeeps
<1>10. CASE \E reg \in live : UnregistersHook(reg) \/ \E p \in Policies : Rewires(reg, p)
  <2>1. CASE \E reg \in live : UnregistersHook(reg)
    BY <2>1, WithdrawsKeeps
  <2>2. CASE \E reg \in live, p \in Policies : Rewires(reg, p)
    <3>1. /\ UNCHANGED <<made, live, names, effects, withdrawn, frozen>>
          /\ DOMAIN policy' = DOMAIN policy
      BY <2>2 DEF Rewires, Rewire
    <3>2. Policed'
      BY <1>1, <3>1 DEF Policed
    <3> QED BY <1>2, <3>1, <3>2
  <2> QED BY <1>10, <2>1, <2>2
<1>11. CASE \E S \in setting.compositions, prefs \in setting.preferences : Publishes(S, prefs)
  BY <1>4, <1>11 DEF Publishes
<1>12. CASE \E r \in setting.runs, s \in setting.callers, key \in DOMAIN names :
              key[1] = "runtime" /\ Starts(r, key[2], s)
  BY <1>4, <1>12 DEF Starts
<1>13. CASE \/ \E r \in setting.runs, outcome \in Outcomes : Handles(r, outcome)
            \/ \E r \in setting.runs : Compiles(r) \/ Ends(r)
            \/ \E r \in Working : \E t \in runs[r].tools : Calls(r, t.item.name)
            \/ \E key \in DOMAIN names : key[1] = "runtime" /\ Invalidates(key[2])
            \/ UNCHANGED vars
  <2>1. UNCHANGED registryVars
    BY <1>13 DEF Handles, Compiles, Ends, Calls, Invalidates, vars
  <2> QED BY <1>5, <2>1
<1> QED BY <1>5, <1>6, <1>7, <1>8, <1>9, <1>10, <1>11, <1>12, <1>13 DEF Next

(***************************************************************************)
(* The graph cache                                                         *)
(***************************************************************************)

(* The keys of the entries c are the last of the keys asked for, u.        *)
Recent(c, u) ==
  /\ Len(c) <= Len(u)
  /\ \A n \in 1 .. Len(c) : c[n].key = u[Len(u) - Len(c) + n]

LEMMA RecentAppend ==
  ASSUME NEW E, NEW U, NEW c \in Seq(E), NEW u \in Seq(U), NEW x \in E, x.key \in U
  PROVE  Recent(c, u) <=> Recent(Append(c, x), Append(u, x.key))
<1>1. PICK l \in Nat, k \in Nat : l = Len(c) /\ k = Len(u)
  OBVIOUS
<1>2. PICK d : d = Append(c, x) /\ Len(d) = l + 1 /\ d[l + 1] = x /\ \A n \in 1 .. l : d[n] = c[n]
  <2>1. PICK d : d = Append(c, x)
    OBVIOUS
  <2>2. Len(d) = l + 1 /\ d[l + 1] = x /\ \A n \in 1 .. l : d[n] = c[n]
    BY <1>1, <2>1, AppendProperties
  <2> QED BY <2>1, <2>2
<1>3. PICK v : v = Append(u, x.key) /\ Len(v) = k + 1 /\ v[k + 1] = x.key
               /\ \A n \in 1 .. k : v[n] = u[n]
  <2>1. PICK y \in U : y = x.key
    OBVIOUS
  <2>2. PICK v : v = Append(u, y)
    OBVIOUS
  <2>3. Len(v) = k + 1 /\ v[k + 1] = y /\ \A n \in 1 .. k : v[n] = u[n]
    BY <1>1, <2>2, AppendProperties
  <2> QED BY <2>1, <2>2, <2>3
<1>4. (l + 1 <= k + 1 <=> l <= k) /\ (k + 1) - (l + 1) + (l + 1) = k + 1
  BY ONLY l \in Nat, k \in Nat
<1>5. ASSUME l <= k, NEW n \in 1 .. l
      PROVE  k - l + n \in 1 .. k /\ (k + 1) - (l + 1) + n = k - l + n
  BY ONLY l \in Nat, k \in Nat, n \in 1 .. l, l <= k
<1>6. \A n \in 1 .. l + 1 : n \in 1 .. l \/ n = l + 1
  BY ONLY l \in Nat
<1>7. \A n \in 1 .. l : n \in 1 .. l + 1
  BY ONLY l \in Nat
<1>8. l + 1 \in 1 .. l + 1
  BY ONLY l \in Nat
<1>9. CASE l <= k
  <2>1. \A n \in 1 .. l : (d[n].key = v[(k + 1) - (l + 1) + n]) <=> (c[n].key = u[k - l + n])
    BY <1>2, <1>3, <1>5, <1>9
  <2>2. d[l + 1].key = v[(k + 1) - (l + 1) + (l + 1)]
    BY <1>2, <1>3, <1>4
  <2>3. (\A n \in 1 .. l + 1 : d[n].key = v[(k + 1) - (l + 1) + n])
        <=> \A n \in 1 .. l : c[n].key = u[k - l + n]
    BY <1>6, <1>7, <2>1, <2>2
  <2> QED BY <1>1, <1>2, <1>3, <1>4, <1>9, <2>3 DEF Recent
<1>10. CASE ~ (l <= k)
  BY <1>1, <1>2, <1>3, <1>4, <1>10 DEF Recent
<1> QED BY <1>9, <1>10

(* Dropping the same keys from both keeps it so.                           *)
LEMMA RecentFilter ==
  ASSUME NEW E, NEW U, NEW K
  PROVE  \A c \in Seq(E) : \A u \in Seq(U) :
           Recent(c, u) => Recent(Filtered(c, {x \in E : x.key \in K}), Filtered(u, K))
<1>1. PICK F : F = {x \in E : x.key \in K}
  OBVIOUS
<1> DEFINE Good(c) == \A u \in Seq(U) : Recent(c, u) => Recent(Filtered(c, F), Filtered(u, K))
           T == {c \in Seq(E) : Good(c)}
<1>2. <<>> \in T
  <2>1. ASSUME NEW u \in Seq(U) PROVE Recent(<<>>, Filtered(u, K))
    <3>1. PICK v \in Seq(U \cap K) : v = Filtered(u, K)
      BY FilterPlaces
    <3>2. Len(v) \in Nat /\ Len(<<>>) = 0
      BY EmptySeq
    <3>3. 1 .. 0 = {} /\ 0 <= Len(v)
      BY <3>2
    <3> QED BY <3>1, <3>2, <3>3 DEF Recent
  <2> QED BY <2>1, FilterEmpty
<1>3. ASSUME NEW c \in Seq(E), NEW x \in E, c \in T PROVE Append(c, x) \in T
  <2>1. PICK d \in Seq(E) : d = Append(c, x) /\ Len(d) = Len(c) + 1 /\ d[Len(c) + 1] = x
    <3>1. Append(c, x) \in Seq(E) /\ Len(Append(c, x)) = Len(c) + 1
          /\ Append(c, x)[Len(c) + 1] = x
      OBVIOUS
    <3> HIDE DEF T
    <3> QED BY <3>1
  <2>2. SUFFICES ASSUME NEW u \in Seq(U), Recent(d, u)
                 PROVE  Recent(Filtered(d, F), Filtered(u, K))
    BY <2>1
  <2>3. Good(c)
    BY <1>3
  <2> HIDE DEF T, Good
  <2>4. PICK k \in Nat, l \in Nat : k = Len(u) /\ l = Len(c)
    OBVIOUS
  <2>5. l + 1 <= k /\ l + 1 \in 1 .. l + 1 /\ k - (l + 1) + (l + 1) = k
    <3>1. l + 1 <= k
      BY <2>1, <2>2, <2>4 DEF Recent
    <3> QED BY ONLY <3>1, k \in Nat, l \in Nat
  <2>6. k # 0 /\ k \in 1 .. k /\ k - 1 \in Nat /\ (k - 1) + 1 = k
    BY ONLY <2>5, k \in Nat, l \in Nat
  <2>7. x.key = u[k] /\ u[k] \in U
    <3>1. d[l + 1].key = u[k - (l + 1) + (l + 1)]
      BY <2>1, <2>2, <2>4, <2>5 DEF Recent
    <3> QED BY <2>1, <2>4, <2>5, <2>6, <3>1
  <2>8. PICK v \in Seq(U) : u = Append(v, x.key)
    <3>1. \A n \in 1 .. (k - 1) : u[n] \in U
      BY <2>4
    <3>2. 1 \in Int /\ k - 1 \in Int /\ (1 <= k - 1 \/ k - 1 = 0) /\ (k - 1) - 1 + 1 = k - 1
          /\ \A n \in 1 .. (k - 1) : 1 + n - 1 = n
      BY ONLY k \in Nat, <2>6
    <3>3. PICK v \in Seq(U) : v = SubSeq(u, 1, k - 1)
      BY <3>1, <3>2, SubSeqProperties
    <3>4. Len(v) = k - 1 /\ \A n \in 1 .. (k - 1) : v[n] = u[n]
      BY <3>1, <3>2, <3>3, SubSeqProperties
    <3>5. PICK w \in Seq(U) : w = Append(v, u[k])
      <4>1. Append(v, u[k]) \in Seq(U)
        BY <2>7, AppendProperties
      <4> QED BY <4>1
    <3>6. Len(w) = k /\ w[k] = u[k] /\ \A n \in 1 .. (k - 1) : w[n] = u[n]
      BY <2>6, <2>7, <3>4, <3>5, AppendProperties
    <3>7. \A n \in 1 .. k : n = k \/ n \in 1 .. (k - 1)
      BY ONLY k \in Nat
    <3>8. Len(w) = Len(u) /\ \A n \in 1 .. Len(u) : w[n] = u[n]
      BY <2>4, <3>6, <3>7
    <3>9. w = u
      BY <3>8, SeqEqual
    <3> QED BY <2>7, <3>5, <3>9
  <2>9. x.key \in U
    BY <2>7
  <2>10. Recent(Filtered(c, F), Filtered(v, K))
    <3>1. Recent(c, v)
      BY <2>1, <2>2, <2>8, <2>9, RecentAppend
    <3> QED BY <2>3, <3>1 DEF Good
  <2>11. Filtered(d, F) = IF x \in F THEN Append(Filtered(c, F), x) ELSE Filtered(c, F)
    BY <2>1, FilterAppend
  <2>12. Filtered(u, K) = IF x.key \in K THEN Append(Filtered(v, K), x.key) ELSE Filtered(v, K)
    <3>1. PICK y \in U : y = x.key
      BY <2>9
    <3>2. Filtered(Append(v, y), K) = IF y \in K THEN Append(Filtered(v, K), y) ELSE Filtered(v, K)
      BY FilterAppend
    <3> QED BY <2>8, <3>1, <3>2
  <2>13. x \in F <=> x.key \in K
    BY <1>1
  <2>14. PICK a \in Seq(E) : a = Filtered(c, F)
    <3>1. Filtered(c, F) \in Seq(E \cap F) /\ E \cap F \subseteq E
      BY FilterPlaces
    <3>2. Filtered(c, F) \in Seq(E)
      BY <3>1, SeqMonotonic
    <3> QED BY <3>2
  <2>15. PICK b \in Seq(U) : b = Filtered(v, K)
    <3>1. Filtered(v, K) \in Seq(U \cap K) /\ U \cap K \subseteq U
      BY FilterPlaces
    <3>2. Filtered(v, K) \in Seq(U)
      BY <3>1, SeqMonotonic
    <3> QED BY <3>2
  <2>16. Recent(Append(a, x), Append(b, x.key))
    BY <2>9, <2>10, <2>14, <2>15, RecentAppend
  <2> QED BY <2>10, <2>11, <2>12, <2>13, <2>14, <2>15, <2>16
<1>4. Seq(E) \subseteq T
  <2> HIDE DEF T
  <2> QED BY <1>2, <1>3, AppendByAppend
<1> QED BY <1>1, <1>4

Fitting(entry) ==
  entry.graph.contracts = entry.key.contracts /\ entry.graph.versions = entry.key.versions

(* Entries c, by last use, beside all keys asked for, u.                   *)
Ordered(c, u) ==
  /\ c \in Seq(Range(c)) /\ u \in Seq(Range(u))
  /\ \A m, n \in 1 .. Len(u) : u[m] = u[n] => m = n
  /\ Recent(c, u)
  /\ \A entry \in Range(c) : Fitting(entry)

LEMMA InItsRange ==
  ASSUME NEW S, NEW s \in Seq(S)
  PROVE  /\ s \in Seq(Range(s)) /\ Len(s) \in Nat /\ DOMAIN s = 1 .. Len(s)
         /\ \A x : x \in Range(s) <=> \E n \in 1 .. Len(s) : s[n] = x
<1>1. Len(s) \in Nat /\ DOMAIN s = 1 .. Len(s) /\ s \in [1 .. Len(s) -> S]
  BY LenProperties
<1>2. \A n \in 1 .. Len(s) : s[n] \in Range(s)
  BY <1>1 DEF Range
<1>3. s \in [1 .. Len(s) -> Range(s)]
  BY <1>1, <1>2
<1>4. s \in Seq(Range(s))
  BY <1>1, <1>3, SeqDef
<1>5. \A x : x \in Range(s) <=> \E n \in 1 .. Len(s) : s[n] = x
  BY <1>1 DEF Range
<1> QED BY <1>1, <1>4, <1>5

LEMMA EntriesWereUsed ==
  ASSUME NEW c, NEW u, Ordered(c, u), NEW entry \in Range(c)
  PROVE  entry.key \in Range(u)
<1>1. c \in Seq(Range(c)) /\ u \in Seq(Range(u)) /\ Recent(c, u)
  BY DEF Ordered
<1>2. PICK n \in 1 .. Len(c) : c[n] = entry
  BY <1>1, InItsRange
<1>3. PICK k \in Nat, l \in Nat : k = Len(u) /\ l = Len(c)
  BY <1>1
<1>4. l <= k /\ entry.key = u[k - l + n] /\ n \in 1 .. l
  BY <1>1, <1>2, <1>3 DEF Recent
<1>5. k - l + n \in 1 .. k
  BY ONLY <1>4, k \in Nat, l \in Nat
<1> QED BY <1>1, <1>3, <1>4, <1>5, InItsRange

LEMMA FilteredCache ==
  ASSUME NEW c, NEW u, Ordered(c, u), NEW K
  PROVE  Ordered(Filtered(c, {x \in Range(c) : x.key \in K}), Filtered(u, K))
<1>1. PICK E, U : E = Range(c) /\ U = Range(u)
  OBVIOUS
<1>2. /\ c \in Seq(E) /\ u \in Seq(U) /\ Recent(c, u)
      /\ \A m, n \in 1 .. Len(u) : u[m] = u[n] => m = n
      /\ \A entry \in E : Fitting(entry)
  BY <1>1 DEF Ordered
<1>3. PICK d : d = Filtered(c, {x \in E : x.key \in K})
  OBVIOUS
<1>4. PICK v : v = Filtered(u, K)
  OBVIOUS
<1>5. d \in Seq(E \cap {x \in E : x.key \in K}) /\ v \in Seq(U \cap K)
  BY <1>2, <1>3, <1>4, FilterPlaces
<1>6. d \in Seq(Range(d)) /\ v \in Seq(Range(v))
  BY <1>5, InItsRange
<1>7. Recent(d, v)
  BY <1>2, <1>3, <1>4, RecentFilter
<1>8. \A m, n \in 1 .. Len(v) : v[m] = v[n] => m = n
  BY <1>2, <1>4, FilterDistinct
<1>9. \A entry \in Range(d) : entry \in E
  <2>1. \A n \in 1 .. Len(d) : d[n] \in E
    BY <1>5, ElementOfSeq
  <2>2. \A x : x \in Range(d) <=> \E n \in 1 .. Len(d) : d[n] = x
    BY <1>5, InItsRange
  <2> QED BY <2>1, <2>2
<1>10. Ordered(d, v)
  BY <1>2, <1>6, <1>7, <1>8, <1>9 DEF Ordered
<1> QED BY <1>1, <1>3, <1>4, <1>10

LEMMA AskedLast ==
  ASSUME NEW c, NEW u, Ordered(c, u), NEW x, Fitting(x), x.key \notin Range(u)
  PROVE  Ordered(Append(c, x), Append(u, x.key))
<1>1. PICK E, U : E = Range(c) \cup {x} /\ U = Range(u) \cup {x.key}
  OBVIOUS
<1>2. PICK y : y = x.key
  OBVIOUS
<1>3. /\ c \in Seq(Range(c)) /\ u \in Seq(Range(u)) /\ Recent(c, u)
      /\ \A m, n \in 1 .. Len(u) : u[m] = u[n] => m = n
      /\ \A entry \in Range(c) : Fitting(entry)
  BY DEF Ordered
<1>4. c \in Seq(E) /\ u \in Seq(U) /\ x \in E /\ y \in U
  <2>1. Range(c) \subseteq E /\ Range(u) \subseteq U /\ x \in E /\ y \in U
    BY <1>1, <1>2
  <2>2. c \in Seq(E)
    BY <1>3, <2>1, SeqMonotonic
  <2>3. u \in Seq(U)
    BY <1>3, <2>1, SeqMonotonic
  <2> QED BY <2>1, <2>2, <2>3
<1>5. PICK d : d = Append(c, x)
  OBVIOUS
<1>6. PICK v : v = Append(u, y)
  OBVIOUS
<1>7. PICK l \in Nat, k \in Nat : l = Len(c) /\ k = Len(u)
  BY <1>3
<1>8. d \in Seq(E) /\ Len(d) = l + 1 /\ d[l + 1] = x /\ \A n \in 1 .. l : d[n] = c[n]
  BY <1>4, <1>5, <1>7, AppendProperties
<1>9. v \in Seq(U) /\ Len(v) = k + 1 /\ v[k + 1] = y /\ \A n \in 1 .. k : v[n] = u[n]
  BY <1>4, <1>6, <1>7, AppendProperties
<1>10. d \in Seq(Range(d)) /\ v \in Seq(Range(v))
  BY <1>8, <1>9, InItsRange
<1>11. Recent(d, v)
  BY <1>2, <1>3, <1>4, <1>5, <1>6, RecentAppend
<1>12. (\A n \in 1 .. l + 1 : n \in 1 .. l \/ n = l + 1) /\ (\A n \in 1 .. k + 1 : n \in 1 .. k \/ n = k + 1)
  BY ONLY l \in Nat, k \in Nat
<1>13. \A n \in 1 .. k : u[n] # y
  BY <1>2, <1>3, <1>7, InItsRange
<1>14. \A m, n \in 1 .. Len(v) : v[m] = v[n] => m = n
  BY <1>3, <1>7, <1>9, <1>12, <1>13
<1>15. ASSUME NEW entry \in Range(d) PROVE Fitting(entry)
  <2>1. PICK n \in 1 .. l + 1 : entry = d[n]
    BY <1>8, InItsRange
  <2>2. entry = x \/ \E m \in 1 .. l : c[m] = entry
    BY <1>8, <1>12, <2>1
  <2>3. entry = x \/ entry \in Range(c)
    BY <1>3, <1>7, <2>2, InItsRange
  <2> QED BY <1>3, <2>3
<1>16. Ordered(d, v)
  BY <1>10, <1>11, <1>14, <1>15 DEF Ordered
<1> QED BY <1>2, <1>5, <1>6, <1>16

(* Evicting the least recently used.                                       *)
LEMMA Trimmed ==
  ASSUME NEW c, NEW u, Ordered(c, u), NEW max \in Nat, ~ (Len(c) <= max)
  PROVE  /\ Ordered(SubSeq(c, Len(c) - max + 1, Len(c)), u)
         /\ Len(SubSeq(c, Len(c) - max + 1, Len(c))) <= max
<1>1. PICK E : E = Range(c)
  OBVIOUS
<1>2. c \in Seq(E) /\ u \in Seq(Range(u)) /\ Recent(c, u) /\ \A entry \in E : Fitting(entry)
  BY <1>1 DEF Ordered
<1>3. PICK l \in Nat, k \in Nat : l = Len(c) /\ k = Len(u)
  BY <1>2
<1>4. ~ (l <= max)
  BY <1>3
<1>5. PICK d : d = SubSeq(c, l - max + 1, l)
  OBVIOUS
<1>6. /\ l - max + 1 \in Int /\ l \in Int /\ l - (l - max + 1) + 1 = max
      /\ (IF l - max + 1 <= l THEN l - (l - max + 1) + 1 ELSE 0) = max
      /\ \A i \in (l - max + 1) .. l : i \in 1 .. l
      /\ \A n \in 1 .. max : (l - max + 1) + n - 1 = l - max + n /\ l - max + n \in 1 .. l
  BY ONLY <1>4, l \in Nat, max \in Nat
<1>7. \A i \in 1 .. l : c[i] \in E
  BY <1>2, <1>3, ElementOfSeq
<1>8. d \in Seq(E) /\ Len(d) = max /\ \A n \in 1 .. max : d[n] = c[l - max + n]
  <2>1. \A i \in (l - max + 1) .. l : c[i] \in E
    BY <1>6, <1>7
  <2>2. d \in Seq(E)
    BY <1>5, <1>6, <2>1, SubSeqProperties
  <2>3. Len(d) = IF l - max + 1 <= l THEN l - (l - max + 1) + 1 ELSE 0
    BY <1>5, <1>6, <2>1, SubSeqProperties
  <2>4. \A n \in 1 .. l - (l - max + 1) + 1 : d[n] = c[(l - max + 1) + n - 1]
    BY <1>5, <1>6, <2>1, SubSeqProperties
  <2> QED BY <1>6, <2>2, <2>3, <2>4
<1>9. Recent(d, u)
  <2>1. l <= k /\ \A n \in 1 .. l : c[n].key = u[k - l + n]
    BY <1>2, <1>3 DEF Recent
  <2>2. max <= k /\ \A n \in 1 .. max : k - l + (l - max + n) = k - max + n
    BY ONLY <1>4, <2>1, l \in Nat, k \in Nat, max \in Nat
  <2>3. ASSUME NEW n \in 1 .. max PROVE d[n].key = u[k - max + n]
    <3>1. l - max + n \in 1 .. l /\ d[n] = c[l - max + n]
      BY <1>6, <1>8
    <3>2. c[l - max + n].key = u[k - l + (l - max + n)]
      BY <2>1, <3>1
    <3> QED BY <2>2, <3>1, <3>2
  <2> QED BY <1>3, <1>8, <2>2, <2>3 DEF Recent
<1>10. \A entry \in Range(d) : Fitting(entry)
  <2>1. \A n \in 1 .. max : d[n] \in E
    BY <1>6, <1>7, <1>8
  <2>2. \A x : x \in Range(d) <=> \E n \in 1 .. Len(d) : d[n] = x
    BY <1>8, InItsRange
  <2> QED BY <1>2, <1>8, <2>1, <2>2
<1>11. d \in Seq(Range(d))
  BY <1>8, InItsRange
<1>12. Ordered(d, u)
  BY <1>9, <1>10, <1>11 DEF Ordered
<1>13. max <= max
  BY ONLY max \in Nat
<1> QED BY <1>3, <1>5, <1>8, <1>12, <1>13

(***************************************************************************)
(* The cache and its steps                                                 *)
(***************************************************************************)

CacheInv ==
  /\ Ordered(cache, used)
  /\ Len(cache) <= MaxEntries
  /\ GraphFitsTheRun

(* What is kept when keys go, in the words of the cache and of the keys.   *)
LEMMA KeysKept ==
  ASSUME Ordered(cache, used), NEW T
  PROVE  {entry \in Range(cache) : entry.key \in T} =
           {entry \in Range(cache) : entry.key \in Range(used) \cap T}
BY EntriesWereUsed

(* The cache without a key, and what was asked for without it.             *)
LEMMA WithoutKey ==
  ASSUME Ordered(cache, used), NEW key
  PROVE  /\ Ordered(Without(cache, key), Filtered(used, Range(used) \ {key}))
         /\ key \notin Range(Filtered(used, Range(used) \ {key}))
         /\ Len(Without(cache, key)) \in Nat
         /\ Len(Without(cache, key)) <= Len(cache)
         /\ key \in KeysOf(cache) => Len(Without(cache, key)) < Len(cache)
<1>1. PICK K : K = Range(used) \ {key}
  OBVIOUS
<1>2. PICK F : F = {entry \in Range(cache) : entry.key # key}
  OBVIOUS
<1>3. F = {entry \in Range(cache) : entry.key \in K}
  BY <1>1, <1>2, EntriesWereUsed
<1>4. Without(cache, key) = Filtered(cache, F)
  BY <1>2 DEF Without
<1>5. Ordered(Filtered(cache, F), Filtered(used, K))
  BY <1>3, FilteredCache
<1>6. cache \in Seq(Range(cache)) /\ used \in Seq(Range(used))
  BY DEF Ordered
<1>7. key \notin Range(Filtered(used, K))
  <2>1. PICK v \in Seq(Range(used) \cap K) : v = Filtered(used, K)
    BY <1>6, FilterPlaces
  <2>2. \A n \in 1 .. Len(v) : v[n] \in K
    BY <2>1, ElementOfSeq
  <2>3. \A x : x \in Range(v) <=> \E n \in 1 .. Len(v) : v[n] = x
    BY <2>1, InItsRange
  <2> QED BY <1>1, <2>1, <2>2, <2>3
<1>8. Filtered(cache, F) \in Seq(Range(cache) \cap F)
  BY <1>6, FilterPlaces
<1>9. Len(Filtered(cache, F)) \in Nat
  BY <1>8, LenProperties
<1>10. /\ Len(Filtered(cache, F)) <= Len(cache)
       /\ (\E i \in 1 .. Len(cache) : cache[i] \notin F) => Len(Filtered(cache, F)) < Len(cache)
  BY <1>6, FilterShortens
<1>11. key \in KeysOf(cache) => \E i \in 1 .. Len(cache) : cache[i] \notin F
  BY <1>2, <1>6, LenProperties DEF KeysOf
<1> QED BY <1>1, <1>4, <1>5, <1>7, <1>9, <1>10, <1>11

(* An entry is put last, or the one found is.                              *)
LEMMA PutLast ==
  ASSUME Ordered(cache, used), NEW x, Fitting(x)
  PROVE  /\ Ordered(Append(Without(cache, x.key), x), AskedNow(x.key))
         /\ Len(Append(Without(cache, x.key), x)) = Len(Without(cache, x.key)) + 1
<1>1. PICK c : c = Without(cache, x.key)
  OBVIOUS
<1>2. PICK u : u = Filtered(used, Range(used) \ {x.key})
  OBVIOUS
<1>3. Ordered(c, u) /\ x.key \notin Range(u)
  BY <1>1, <1>2, WithoutKey
<1>4. Ordered(Append(c, x), Append(u, x.key))
  BY <1>3, AskedLast
<1>5. c \in Seq(Range(c) \cup {x}) /\ x \in Range(c) \cup {x}
  <2>1. c \in Seq(Range(c)) /\ Range(c) \subseteq Range(c) \cup {x}
    BY <1>3 DEF Ordered
  <2> QED BY <2>1, SeqMonotonic
<1>6. Len(Append(c, x)) = Len(c) + 1
  BY <1>5, AppendProperties
<1> QED BY <1>1, <1>2, <1>4, <1>6 DEF AskedNow

LEMMA AskKeeps ==
  ASSUME CacheInv, NEW key, NEW graph, Fitting([key |-> key, graph |-> graph])
  PROVE  /\ key \in KeysOf(cache) =>
              /\ Ordered(Touched(cache, key), AskedNow(key))
              /\ Len(Touched(cache, key)) <= MaxEntries
              /\ Lookup(cache, key).key = key /\ Fitting(Lookup(cache, key))
         /\ Ordered(Put(cache, key, graph, MaxEntries), AskedNow(key))
         /\ Len(Put(cache, key, graph, MaxEntries)) <= MaxEntries
<1>1. /\ Ordered(cache, used) /\ Len(cache) <= MaxEntries /\ MaxEntries \in Nat
      /\ \A entry \in Range(cache) : Fitting(entry)
      /\ cache \in Seq(Range(cache)) /\ Len(cache) \in Nat
  BY ViewAssumption, LenProperties DEF CacheInv, Ordered
<1>2. ASSUME key \in KeysOf(cache)
      PROVE  /\ Ordered(Touched(cache, key), AskedNow(key))
             /\ Len(Touched(cache, key)) <= MaxEntries
             /\ Lookup(cache, key).key = key /\ Fitting(Lookup(cache, key))
  <2>1. PICK x : x = Lookup(cache, key)
    OBVIOUS
  <2>2. \E entry \in Range(cache) : entry.key = key
    BY <1>2 DEF KeysOf, Range
  <2>3. x \in Range(cache) /\ x.key = key
    BY <2>1, <2>2 DEF Lookup
  <2>4. Touched(cache, key) = Append(Without(cache, x.key), x)
    BY <2>1, <2>3 DEF Touched
  <2>5. Fitting(x)
    BY <1>1, <2>3
  <2>6. PICK k \in Nat : k = Len(Without(cache, key)) /\ k < Len(cache)
    BY <1>1, <1>2, WithoutKey
  <2>7. k + 1 <= MaxEntries
    BY <1>1, <2>6
  <2> QED BY <1>1, <2>1, <2>3, <2>4, <2>5, <2>6, <2>7, PutLast
<1>3. PICK x : x = [key |-> key, graph |-> graph]
  OBVIOUS
<1>4. PICK put : put = Append(Without(cache, key), x)
  OBVIOUS
<1>5. x.key = key /\ Fitting(x)
  BY <1>3
<1>6. Ordered(put, AskedNow(key))
  BY <1>1, <1>4, <1>5, PutLast
<1>7. Put(cache, key, graph, MaxEntries) =
        IF Len(put) <= MaxEntries THEN put ELSE SubSeq(put, Len(put) - MaxEntries + 1, Len(put))
  BY <1>3, <1>4 DEF Put
<1>8. CASE Len(put) <= MaxEntries
  BY <1>2, <1>6, <1>7, <1>8
<1>9. CASE ~ (Len(put) <= MaxEntries)
  BY <1>1, <1>2, <1>6, <1>7, <1>9, Trimmed
<1> QED BY <1>8, <1>9

(* A run that does not change what it has and sees still fits.             *)
LEMMA StillFits ==
  ASSUME CacheInv, UNCHANGED <<cache, used>>,
         \A r \in Runs : \/ runs'[r] = runs[r]
                         \/ runs'[r].pc # "running"
                         \/ /\ runs[r].pc = "running"
                            /\ runs'[r].graph = runs[r].graph
                            /\ runs'[r].tools = runs[r].tools /\ runs'[r].caps = runs[r].caps
  PROVE  CacheInv'
<1>1. Ordered(cache', used') /\ Len(cache') <= MaxEntries
  BY DEF CacheInv
<1>2. ASSUME NEW r \in Runs, runs'[r].pc = "running"
      PROVE  /\ runs'[r].graph.contracts = Contracts(runs'[r])
             /\ runs'[r].graph.versions = Versions(runs'[r])
  <2>1. /\ runs[r].pc = "running" /\ runs'[r].graph = runs[r].graph
        /\ runs'[r].tools = runs[r].tools /\ runs'[r].caps = runs[r].caps
    BY <1>2
  <2>2. Contracts(runs'[r]) = Contracts(runs[r]) /\ Versions(runs'[r]) = Versions(runs[r])
    BY <2>1 DEF Contracts, Versions
  <2>3. r \in Working
    BY <2>1 DEF Working
  <2> QED BY <2>1, <2>2, <2>3 DEF CacheInv, GraphFitsTheRun
<1>3. GraphFitsTheRun'
  BY <1>2 DEF GraphFitsTheRun, Working
<1> QED BY <1>1, <1>3 DEF CacheInv

(* The graphs of one agent go, and its keys with them.                     *)
LEMMA InvalidatesKeeps ==
  ASSUME CacheInv, NEW agent, Invalidates(agent)
  PROVE  CacheInv'
<1>1. Ordered(cache, used) /\ cache \in Seq(Range(cache))
  BY DEF CacheInv, Ordered
<1>2. PICK K : K = {key \in Range(used) : key.agent # agent}
  OBVIOUS
<1>3. PICK F : F = {entry \in Range(cache) : entry.key.agent # agent}
  OBVIOUS
<1>4. F = {entry \in Range(cache) : entry.key \in K}
  BY <1>1, <1>2, <1>3, EntriesWereUsed
<1>5. cache' = Filtered(cache, F) /\ used' = Filtered(used, K) /\ UNCHANGED <<runs, generations>>
  BY <1>2, <1>3 DEF Invalidates, Invalidated, Forgotten
<1>6. Ordered(Filtered(cache, F), Filtered(used, K))
  BY <1>1, <1>4, FilteredCache
<1>7. Len(cache') <= MaxEntries
  <2>1. Filtered(cache, F) \in Seq(Range(cache) \cap F) /\ Len(Filtered(cache, F)) <= Len(cache)
    BY <1>1, FilterPlaces, FilterShortens
  <2>2. PICK k \in Nat, l \in Nat : k = Len(Filtered(cache, F)) /\ l = Len(cache)
    BY <1>1, <2>1, LenProperties
  <2>3. l <= MaxEntries /\ MaxEntries \in Nat
    BY <2>2, ViewAssumption DEF CacheInv
  <2> QED BY <1>5, <2>1, <2>2, <2>3
<1>8. GraphFitsTheRun'
  <2>1. Working' = Working
    BY <1>5 DEF Working
  <2> QED BY <1>5, <2>1 DEF CacheInv, GraphFitsTheRun
<1> QED BY <1>5, <1>6, <1>7, <1>8 DEF CacheInv

(* A run that asks is given a graph of its key, found or built.            *)
LEMMA CompilesKeepsCache ==
  ASSUME RunsInv, CacheInv, NEW r \in Runs, Compiles(r)
  PROVE  CacheInv'
<1>1. PICK key : key = GraphKey(runs[r])
  OBVIOUS
<1>2. PICK built : built = [contracts |-> Contracts(runs[r]), versions |-> Versions(runs[r]),
                            tools |-> runs[r].pick]
  OBVIOUS
<1>3. PICK graph : graph = IF key \in KeysOf(cache) THEN Lookup(cache, key).graph ELSE built
  OBVIOUS
<1>4. /\ runs[r].pc = "hooks" /\ used' = AskedNow(key)
      /\ cache' = IF key \in KeysOf(cache) THEN Touched(cache, key)
                  ELSE Put(cache, key, built, MaxEntries)
      /\ runs' = [runs EXCEPT ![r].pc = "running", ![r].graph = graph]
  BY <1>1, <1>2, <1>3 DEF Compiles
<1>5. key.contracts = Contracts(runs[r]) /\ key.versions = Versions(runs[r])
  BY <1>1 DEF GraphKey
<1>6. Fitting([key |-> key, graph |-> built])
  BY <1>2, <1>5 DEF Fitting
<1>7. Ordered(cache', used') /\ Len(cache') <= MaxEntries
  BY <1>4, <1>6, AskKeeps
<1>8. graph.contracts = key.contracts /\ graph.versions = key.versions
  BY <1>2, <1>3, <1>5, <1>6, AskKeeps DEF Fitting
<1>9. GraphFitsTheRun'
  <2>1. DOMAIN runs = Runs /\ DOMAIN runs[r] = Fields
    BY <1>4 DEF RunsInv, Held, Idle
  <2>2. /\ \A q \in Runs : q # r => runs'[q] = runs[q]
        /\ runs'[r].graph = graph /\ runs'[r].tools = runs[r].tools /\ runs'[r].caps = runs[r].caps
    BY <1>4, <2>1 DEF Fields
  <2>3. Contracts(runs'[r]) = Contracts(runs[r]) /\ Versions(runs'[r]) = Versions(runs[r])
    BY <2>2 DEF Contracts, Versions
  <2> QED BY <1>5, <1>8, <2>2, <2>3 DEF CacheInv, GraphFitsTheRun, Working
<1> QED BY <1>7, <1>9 DEF CacheInv

LEMMA CacheInitHolds ==
  ASSUME Init
  PROVE  CacheInv
<1>1. cache = <<>> /\ used = <<>> /\ runs = [r \in Runs |-> Idle]
  BY DEF Init
<1>2. /\ <<>> \in Seq(Range(<<>>)) /\ Len(<<>>) = 0 /\ Range(<<>>) = {} /\ 1 .. 0 = {}
      /\ 0 <= 0 /\ 0 <= MaxEntries
  BY ViewAssumption, EmptySeq DEF Range
<1>3. Ordered(<<>>, <<>>)
  BY <1>2 DEF Ordered, Recent
<1>4. Working = {}
  BY <1>1 DEF Working, Idle
<1> QED BY <1>1, <1>2, <1>3, <1>4 DEF CacheInv, GraphFitsTheRun

LEMMA CacheKeeps ==
  ASSUME ViewInv, CacheInv, [Next]_vars
  PROVE  CacheInv'
<1>1. RunsInv /\ DOMAIN runs = Runs /\ setting \in Settings
  BY DEF ViewInv, RunsInv, Stored
<1>2. setting.runs \subseteq Runs
  BY <1>1, ViewAssumption
<1>3. CASE UNCHANGED <<runs, cache, used>>
  BY <1>3, StillFits
<1>4. CASE \/ \E i \in Instances : Mounts(i) \/ Disposes(i) \/ Unwinds(i) \/ Registers(i)
           \/ \E i \in Instances, key \in IndexKeys : Unregisters(i, key)
           \/ \E key \in IndexKeys : UnregistersNewest(key)
           \/ \E reg \in live : UnregistersHook(reg) \/ \E p \in Policies : Rewires(reg, p)
           \/ \E S \in setting.compositions, prefs \in setting.preferences : Publishes(S, prefs)
           \/ UNCHANGED vars
  <2>1. UNCHANGED <<runs, cache, used>>
    BY <1>4 DEF Mounts, Disposes, Unwinds, Registers, Unregisters, UnregistersNewest,
                UnregistersHook, Rewires, Publishes, vars, viewVars
  <2> QED BY <1>3, <2>1
<1>5. CASE \E r \in setting.runs, s \in setting.callers, key \in DOMAIN names :
             key[1] = "runtime" /\ Starts(r, key[2], s)
  <2>1. PICK r \in Runs : \E runtime, s : Starts(r, runtime, s)
    BY <1>2, <1>5
  <2>2. PICK run : run.pc = "hooks" /\ runs' = [runs EXCEPT ![r] = run]
    BY <2>1 DEF Starts
  <2>3. UNCHANGED <<cache, used>>
    BY <2>1 DEF Starts
  <2>4. \A q \in Runs : runs'[q] = runs[q] \/ runs'[q].pc # "running"
    BY <1>1, <2>2
  <2> QED BY <2>3, <2>4, StillFits
<1>6. CASE \E r \in setting.runs, outcome \in Outcomes : Handles(r, outcome)
  <2>1. PICK r \in Runs : \E outcome : Handles(r, outcome)
    BY <1>2, <1>6
  <2>2. UNCHANGED <<cache, used>> /\ runs[r].pc = "hooks"
    BY <2>1 DEF Handles
  <2>3. DOMAIN runs[r] = Fields
    BY <1>1, <2>2 DEF RunsInv, Held, Idle
  <2>4. /\ \A q \in Runs : q # r => runs'[q] = runs[q]
        /\ runs'[r].pc \in {"hooks", "refused"}
    BY <1>1, <2>1, <2>2, <2>3 DEF Handles, Fields
  <2> QED BY <2>2, <2>4, StillFits
<1>7. CASE \E r \in setting.runs : Compiles(r)
  BY <1>1, <1>2, <1>7, CompilesKeepsCache
<1>8. CASE \E r \in setting.runs : Ends(r)
  <2>1. PICK r \in Runs : Ends(r)
    BY <1>2, <1>8
  <2>2. UNCHANGED <<cache, used>> /\ runs' = [runs EXCEPT ![r] = Idle] /\ Idle.pc # "running"
    BY <2>1 DEF Ends, Idle
  <2>3. \A q \in Runs : runs'[q] = runs[q] \/ runs'[q].pc # "running"
    BY <1>1, <2>2
  <2> QED BY <2>2, <2>3, StillFits
<1>9. CASE \E r \in Working : \E t \in runs[r].tools : Calls(r, t.item.name)
  <2>1. PICK r \in Runs : \E name : Calls(r, name)
    BY <1>9 DEF Working
  <2>2. UNCHANGED <<cache, used>> /\ runs[r].pc = "running"
    BY <2>1 DEF Calls
  <2>3. DOMAIN runs[r] = Fields
    BY <1>1, <2>2 DEF RunsInv, Held, Idle
  <2>4. /\ \A q \in Runs : q # r => runs'[q] = runs[q]
        /\ runs'[r].graph = runs[r].graph
        /\ runs'[r].tools = runs[r].tools /\ runs'[r].caps = runs[r].caps
    BY <1>1, <2>1, <2>3 DEF Calls, Fields
  <2> QED BY <2>2, <2>4, StillFits
<1>10. CASE \E key \in DOMAIN names : key[1] = "runtime" /\ Invalidates(key[2])
  BY <1>10, InvalidatesKeeps
<1> QED BY <1>4, <1>5, <1>6, <1>7, <1>8, <1>9, <1>10 DEF Next

(* In a sequence without an element twice, an element is where it is.      *)
LEMMA LeastRecentGoes ==
  ASSUME Ordered(cache, used)
  PROVE  EvictsLeastRecent
<1> DEFINE at(key) == CHOOSE n \in DOMAIN used : used[n] = key
<1>1. /\ used \in Seq(Range(used)) /\ cache \in Seq(Range(cache)) /\ Recent(cache, used)
      /\ \A m, n \in 1 .. Len(used) : used[m] = used[n] => m = n
  BY DEF Ordered
<1>2. PICK k \in Nat, l \in Nat : /\ k = Len(used) /\ l = Len(cache)
                                  /\ DOMAIN used = 1 .. k /\ DOMAIN cache = 1 .. l
  BY <1>1, LenProperties
<1>3. l <= k /\ \A n \in 1 .. l : cache[n].key = used[k - l + n]
  BY <1>1, <1>2 DEF Recent
<1>4. \A n \in 1 .. k : at(used[n]) = n
  BY <1>1, <1>2
<1> HIDE DEF at
<1>5. \A n \in 1 .. l : k - l + n \in 1 .. k
  BY ONLY <1>3, k \in Nat, l \in Nat
<1>6. \A n \in 1 .. l : at(cache[n].key) = k - l + n
  BY <1>3, <1>4, <1>5
<1>7. KeysOf(cache) = {used[k - l + n] : n \in 1 .. l}
  BY <1>2, <1>3 DEF KeysOf
<1>8. KeysOf(cache) \subseteq Range(used)
  BY <1>2, <1>5, <1>7 DEF Range
<1>9. ASSUME NEW m \in 1 .. l, NEW n \in 1 .. l, m < n
      PROVE  at(cache[m].key) < at(cache[n].key)
  <2>1. k - l + m < k - l + n
    BY ONLY <1>9, k \in Nat, l \in Nat
  <2> QED BY <1>6, <2>1
<1>10. ASSUME NEW key \in Range(used) \ KeysOf(cache), NEW n \in 1 .. l
       PROVE  at(key) < at(cache[n].key)
  <2>1. PICK i \in 1 .. k : used[i] = key
    BY <1>2 DEF Range
  <2>2. \A m \in 1 .. l : i # k - l + m
    BY <1>7, <2>1
  <2>3. i < k - l + n
    <3>1. SUFFICES ASSUME ~ (i < k - l + n) PROVE FALSE
      OBVIOUS
    <3>2. i - (k - l) \in 1 .. l /\ i = k - l + (i - (k - l))
      BY ONLY <1>3, <3>1, k \in Nat, l \in Nat, i \in 1 .. k, n \in 1 .. l
    <3> QED BY <2>2, <3>2
  <2> QED BY <1>4, <1>6, <2>1, <2>3
<1> QED BY <1>2, <1>8, <1>9, <1>10 DEF EvictsLeastRecent, at

LEMMA CacheInvariant == Spec => []CacheInv
<1>1. Init => CacheInv
  BY CacheInitHolds
<1>2. ViewInv /\ CacheInv /\ [Next]_vars => CacheInv'
  BY CacheKeeps
<1> QED BY <1>1, <1>2, ViewInvariant, PTL DEF Spec

(* The graph cache (GraphCache): whichever run of whichever generation     *)
(* compiled it, a graph serves only runs that see exactly the contracts    *)
(* and capability versions it was built with; and in whatever order runs,  *)
(* evictions and invalidations come, what the cache let go was asked for   *)
(* before everything it still has.                                         *)
THEOREM CachedGraphsFit == Spec => []GraphsFit
<1>1. CacheInv => GraphsFit
  BY LeastRecentGoes DEF CacheInv, GraphsFit
<1> QED BY <1>1, CacheInvariant, PTL

LEMMA RegistryInvariant == Spec => []RegistryInv
<1>1. Init => RegistryInv
  BY RegistryInitHolds
<1>2. ViewInv /\ RegistryInv /\ [Next]_vars => RegistryInv'
  BY RegistryKeeps DEF ViewInv
<1> QED BY <1>1, <1>2, ViewInvariant, PTL DEF Spec

(* The registries (ToolRegistry, HookRegistry, CapabilityRegistry,         *)
(* AgentManager): a registration is there exactly as long as its owner     *)
(* neither withdrew it nor had it unwound, whoever else registered the     *)
(* same name meanwhile, and the entry of a name lists what is there, in    *)
(* the order it was made; a published policy is that of a tool; the cache  *)
(* keeps within its capacity.                                              *)
THEOREM RegistriesStayConsistent == Spec => []RegistriesConsistent
<1>1. ViewInv /\ RegistryInv /\ CacheInv => RegistriesConsistent
  <2> SUFFICES ASSUME ViewInv, RegistryInv, CacheInv PROVE RegistriesConsistent
    OBVIOUS
  <2>1. Stored /\ Indexes /\ Owned /\ Policed
    BY DEF ViewInv, RegistryInv
  <2>2. \A key : Indexed(names, key) =
                   Filtered(made, {reg \in live : IsNamed(reg) /\ IndexKey(reg) = key})
    BY <2>1 DEF Indexes, Under
  <2>3. TypeOK
    BY <2>1, <2>2 DEF TypeOK, Stored, Indexes, Policed, CacheInv
  <2> QED BY <2>1, <2>3 DEF RegistriesConsistent, Owned
<1> QED BY <1>1, ViewInvariant, RegistryInvariant, CacheInvariant, PTL
================================================================================
