----------------------------- MODULE Registries -----------------------------
(***************************************************************************)
(* The live registries of a harness: tools (tools/registry.py), hooks      *)
(* (hooks/registry.py), capabilities (capabilities/registry.py) and agent  *)
(* runtimes (agents.py).  Each holds registrations by identity, owned by   *)
(* the scope of the plugin instance that made them; tools and runtimes     *)
(* have a name index besides.  Closing an instance's scope unwinds its     *)
(* registrations one by one while other instances go on registering.       *)
(***************************************************************************)
EXTENDS Integers, Sequences, FiniteSets, SequencesExt, FiniteSetsExt, TLC, Listings

CONSTANTS Instances,    \* plugin instances
          Policies,     \* execution policies of a tool
          Settings      \* what the instances are, and the bounds: see setting

\* items is the sequence of what a plugin registers, promises the <<capability,
\* version>> pairs its manifest provides.  An item is a record with its kind, and
\*   a tool      name, contract (its schema), policy
\*   a runtime   name, replace (registering over a live name is permitted)
\*   a hook      mode, priority, errors (the error policy)
\*   a cap       cap, version, conforms (implements the expected contract)
Registration(i, item) == [owner |-> i, item |-> item]

\* A registration is its owner and its item: a plugin that registers the same item
\* twice is left out.
ASSUME ItemsAssumption ==
  \A case \in Settings : \A i \in Instances :
    LET items == case.plugin[i].items
    IN /\ items \in Seq(Range(items))
       /\ \A m, n \in DOMAIN items : items[m] = items[n] => m = n
       /\ \A item \in Range(items) : item.kind = "hook" => item.priority \in Int

VARIABLES setting,      \* the case, chosen once: plugin (a function from an instance to
                        \* its [items, promises]), and the bounds withdrawals (on early
                        \* unregistrations) and rewired (the tools that are rewired)
          scope,        \* instance -> "new", "open", "closing", "closed"
          effects,      \* instance -> its registrations, in the order they were made
          made,         \* every registration so far, in order: the sequence numbers
          live,         \* the registrations in the registries
          names,        \* the name indexes: <<kind, name>> -> registrations, oldest first
          policy,       \* tool registration -> the policy of the live object
          frozen,       \* tool registration -> the policy its published copy captured
          withdrawn     \* observation: what was unregistered before its scope closed

\* Everything but the published copies.
storesVars == <<setting, scope, effects, made, live, names, policy, withdrawn>>
registryVars == <<setting, scope, effects, made, live, names, policy, frozen, withdrawn>>

plugin(i) == setting.plugin[i]
MayWithdraw == Cardinality(withdrawn) < setting.withdrawals
IsNamed(reg) == reg.item.kind \in {"tool", "runtime"}
IndexKey(reg) == <<reg.item.kind, reg.item.name>>
With(table, key, entry) ==
  [k \in DOMAIN table \cup {key} |-> IF k = key THEN entry ELSE table[k]]
Indexed(index, key) == IF key \in DOMAIN index THEN index[key] ELSE <<>>
OfKind(kind) == {reg \in live : reg.item.kind = kind}
MadeAt(reg) == CHOOSE n \in DOMAIN made : made[n] = reg

RegistriesInit ==
  /\ setting \in Settings
  /\ scope = [i \in Instances |-> "new"]
  /\ effects = [i \in Instances |-> <<>>]
  /\ made = <<>>
  /\ live = {}
  /\ names = <<>>
  /\ policy = <<>>
  /\ frozen = <<>>
  /\ withdrawn = {}

\* A plugin's setup begins.
Mount(i) ==
  /\ scope[i] = "new"
  /\ scope' = [scope EXCEPT ![i] = "open"]
  /\ UNCHANGED <<setting, effects, made, live, names, policy, frozen, withdrawn>>

\* The plugin's next registration, in setup or later from its own tasks, as long
\* as its scope is open.  A runtime's name must be free unless it may replace.
Registered(i) == {reg \in Range(made) : reg.owner = i}
NextItem(i) == plugin(i).items[Cardinality(Registered(i)) + 1]
Register(i) ==
  LET item == NextItem(i)
      reg == Registration(i, item)
  IN /\ scope[i] = "open"
     /\ Cardinality(Registered(i)) < Len(plugin(i).items)
     /\ item.kind = "runtime" => item.replace \/ Indexed(names, IndexKey(reg)) = <<>>
     /\ effects' = [effects EXCEPT ![i] = Append(@, reg)]
     /\ made' = Append(made, reg)
     /\ live' = live \cup {reg}
     /\ names' = IF IsNamed(reg)
                 THEN With(names, IndexKey(reg), Append(Indexed(names, IndexKey(reg)), reg))
                 ELSE names
     /\ policy' = IF item.kind = "tool" THEN With(policy, reg, item.policy) ELSE policy
     /\ UNCHANGED <<setting, scope, frozen, withdrawn>>

\* The name index without a set of registrations: an entry goes with its last one.
Unindexed(gone) ==
  LET kept(key) == Filtered(names[key], Range(names[key]) \ gone)
  IN [key \in {k \in DOMAIN names : kept(k) # <<>>} |-> kept(key)]

\* Removing a set of registrations by identity, from the store and the index.
Release(gone) == live' = live \ gone /\ names' = Unindexed(gone)

\* Mutant of CloseStep: a closing scope takes the newest registration of a name.
CloseStepByName(i) ==
  /\ scope[i] = "closing"
  /\ IF effects[i] = <<>>
     THEN scope' = [scope EXCEPT ![i] = "closed"] /\ UNCHANGED <<effects, live, names>>
     ELSE /\ effects' = [effects EXCEPT ![i] = Front(@)]
          /\ LET reg == Last(effects[i])
             IN Release(IF IsNamed(reg) /\ Indexed(names, IndexKey(reg)) # <<>>
                        THEN {Last(names[IndexKey(reg)])} ELSE {reg})
          /\ UNCHANGED scope
  /\ UNCHANGED <<setting, made, policy, frozen, withdrawn>>

\* One step of the unwind: the last registration is released, if it is still
\* there; a scope without any left is closed.
CloseStep(i) ==
  /\ scope[i] = "closing"
  /\ IF effects[i] = <<>>
     THEN scope' = [scope EXCEPT ![i] = "closed"] /\ UNCHANGED <<effects, live, names>>
     ELSE /\ effects' = [effects EXCEPT ![i] = Front(@)]
          /\ Release({Last(effects[i])})
          /\ UNCHANGED scope
  /\ UNCHANGED <<setting, made, policy, frozen, withdrawn>>

\* A scope begins to close; what reaches the instance is the harness's concern.
CloseBegin(i) ==
  /\ scope[i] = "open"
  /\ scope' = [scope EXCEPT ![i] = "closing"]
  /\ UNCHANGED <<setting, effects, made, live, names, policy, frozen, withdrawn>>

\* A plugin unregisters a name early: its own registrations of it only.
UnregisterOwn(i, key) ==
  LET own == {reg \in Range(Indexed(names, key)) : reg.owner = i}
  IN /\ scope[i] = "open"
     /\ own # {} /\ MayWithdraw
     /\ Release(own)
     /\ withdrawn' = withdrawn \cup own
     /\ UNCHANGED <<setting, scope, effects, made, policy, frozen>>

\* The application unregisters a name: its newest registration.
UnregisterNewest(key) ==
  /\ Indexed(names, key) # <<>> /\ MayWithdraw
  /\ Release({Last(names[key])})
  /\ withdrawn' = withdrawn \cup {CHOOSE reg \in Range(names[key]) :
                                    \A other \in Range(names[key]) : MadeAt(other) <= MadeAt(reg)}
  /\ UNCHANGED <<setting, scope, effects, made, policy, frozen>>

\* A hook is unregistered early.
UnregisterHook(reg) ==
  /\ reg \in OfKind("hook") /\ MayWithdraw
  /\ scope[reg.owner] = "open"
  /\ Release({reg})
  /\ withdrawn' = withdrawn \cup {reg}
  /\ UNCHANGED <<setting, scope, effects, made, policy, frozen>>

\* The live registration of a tool is a mutable object.
Rewire(reg, p) ==
  /\ reg \in OfKind("tool") /\ reg.owner \in setting.rewired
  /\ policy[reg] # p
  /\ policy' = [policy EXCEPT ![reg] = p]
  /\ UNCHANGED <<setting, scope, effects, made, live, names, frozen, withdrawn>>

\* frozen_copy: captured at the first snapshot, shared by all later ones.
Captured(regs) ==
  [reg \in DOMAIN frozen \cup regs |->
     IF reg \in DOMAIN frozen THEN frozen[reg] ELSE policy[reg]]

ToolsOf(S) == {reg \in OfKind("tool") : reg.owner \in S}
HooksOf(S) == {reg \in OfKind("hook") : reg.owner \in S}
CapsOf(S) == {reg \in OfKind("cap") : reg.owner \in S}
=============================================================================
