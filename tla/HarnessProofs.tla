----------------------------- MODULE HarnessProofs -----------------------------
(***************************************************************************)
(* What the harness guarantees for every set of entries and tasks, however *)
(* many reconciliations, runs and cancellations interleave, not only for   *)
(* the checked instances.                                                  *)
(*                                                                         *)
(* A published generation is whole because _materialize, at each of its    *)
(* awaits, holds instances that are still the newest of their entries and  *)
(* still bound to what their requirements name (Candidate); nothing else   *)
(* touches the registry, since whoever mounts or disposes owns the lock    *)
(* (Locked), and whatever is disposed is reached by no live generation     *)
(* (Disposing). Inv conjoins these with what the registry records.         *)
(***************************************************************************)
EXTENDS Harness, FiniteLemmas, SequenceTheorems

(* The loop of _materialize is suspended at one of its awaits. *)
Materializing == phase \in {"mounting", "retry", "setup", "mounted"}

(* An instance some live generation reaches. *)
Reached(i) == \E g \in Live : i \in contents[g]

(* The composition lock is held while anybody composes or disposes, by the *)
(* shutdown task from begin_shutdown on; after that nothing is mounted.    *)
Locked ==
    /\ owner = Nobody <=> phase = "free"
    /\ owner = Shutdown => phase \in {"locked", "drain", "teardown"}
    /\ phase \in {"drain", "teardown"} => owner = Shutdown /\ terminal
    /\ terminal => Stopped /\ (phase \in {"drain", "teardown"} \/ hstate = "stopped")
    /\ hstate = "stopped" =>
         terminal /\ phase \in {"free", "locked", "reclaim", "drain", "teardown"}

(* One generation is current; a held one is live until the terminal        *)
(* shutdown; after that none is.                                           *)
GenerationsKnown ==
    /\ \A g \in Gen : gstate[g] = "active" <=> g = current
    /\ \A g \in Gen : g > built => gstate[g] = "unbuilt"
    /\ terminal => current = None
    /\ \A t \in Tasks : hold[t] # None => terminal \/ hold[t] \in Live
    /\ phase = "teardown" \/ hstate = "stopped" => Live = {}

(* The registry lists each instance once, under its entry. *)
Listed ==
    /\ \A e \in Entries : \A k \in DOMAIN byEntry[e] :
         inst[byEntry[e][k]].st # "free" /\ inst[byEntry[e][k]].entry = e
    /\ \A e \in Entries : \A k, l \in DOMAIN byEntry[e] : byEntry[e][k] = byEntry[e][l] => k = l
    /\ \A i \in Registered : /\ inst[i].entry \in Entries
                             /\ \E k \in DOMAIN byEntry[inst[i].entry] : byEntry[inst[i].entry][k] = i

(* An instance is wired to those of the providers it was resolved to that  *)
(* were active, and they provide what its entry requires.                  *)
Wired ==
    \A i \in Registered :
        /\ inst[i].deps \subseteq inst[i].ident
        /\ \A d \in inst[i].ident \cap Registered : inst[d].entry \in Requires[inst[i].entry]
        /\ \A d \in inst[i].ident \cap Slot : inst[d].st = "active" => d \in inst[i].deps

(* Only what a live generation reaches is counted as referenced. *)
Counted == \A i \in Slot : inst[i].refs > 0 => Reached(i)

(* A live generation is whole. *)
Whole ==
    \A g \in Live :
        /\ \A i, j \in contents[g] : inst[i].entry = inst[j].entry => i = j
        /\ \A i \in contents[g] : /\ inst[i].st = "active"
                                  /\ inst[i].deps \subseteq contents[g]
                                  /\ {inst[d].entry : d \in inst[i].deps} = Requires[inst[i].entry]

(* An instance is loading only while its setup runs, unloading only while  *)
(* it is disposed, and failed only as the newest of its entry.             *)
InTransit ==
    \A i \in Slot :
        /\ inst[i].st = "loading" => phase = "setup" /\ i = Newest(Entry)
        /\ inst[i].st = "unloading" => i = victim
        /\ inst[i].st = "failed" => i = Newest(inst[i].entry)

(* What the candidate holds so far: the newest instances of entries of the *)
(* plan that come earlier in its order, resolved as they would be now.     *)
Candidate ==
    Materializing =>
        /\ at \in DOMAIN ActivationOrder /\ Entry \in plan
        /\ \A e \in plan : Requires[e] \subseteq plan
        /\ \A i \in ordered :
             /\ inst[i].st = "active"
             /\ \E k \in 1 .. at - 1 : ActivationOrder[k] = inst[i].entry
             /\ inst[i].entry \in plan
             /\ i = Newest(inst[i].entry)
             /\ inst[i].ident = Identity(inst[i].entry)

(* The instance the loop is at. *)
AtHand ==
    LET i == Newest(Entry) IN
    /\ phase = "mounting" => (i # None => inst[i].st # "failed")
    /\ phase = "retry" => i # None /\ inst[i].st = "failed"
    /\ phase = "setup" => /\ inst[i].st = "loading"
                          /\ \A j \in Registered : i \notin inst[j].ident
                          /\ \A d \in inst[i].deps : inst[d].st = "active"
    /\ phase = "mounted" => inst[i].st = "active"
    /\ phase \in {"setup", "mounted"} => /\ i # None /\ ~Reached(i)
                                         /\ inst[i].ident = Identity(Entry)

(* What a rollback would go through, in activation order. *)
Mounted ==
    /\ phase \in {"free", "locked"} => mounted = <<>>
    /\ Materializing => Range(mounted) \subseteq ordered
    /\ Materializing \/ phase = "rollback" =>
         /\ \A k \in DOMAIN mounted : mounted[k] \in Registered /\ ~Reached(mounted[k])
         /\ \A k, l \in DOMAIN mounted : k < l =>
              \E m, n \in DOMAIN ActivationOrder :
                 /\ m < n
                 /\ ActivationOrder[m] = inst[mounted[k]].entry
                 /\ ActivationOrder[n] = inst[mounted[l]].entry

(* What is disposed, and what is still to be, is registered and reached by *)
(* no live generation.                                                     *)
Disposing ==
    /\ phase \in {"reclaim", "teardown"} => \A i \in work : i \in Registered /\ ~Reached(i)
    /\ phase = "teardown" => Registered \subseteq work
    /\ hstate = "stopped" => Registered = {}
    /\ victim # None =>
         /\ inst[victim].st \in {"unloading", "failed"}
         /\ \/ phase = "retry" /\ victim = Newest(Entry)
            \/ phase = "rollback" /\ mounted # <<>> /\ victim = Last(mounted)
            \/ phase \in {"reclaim", "teardown"} /\ victim \in work

Inv ==
    /\ TypeOK
    /\ Locked /\ GenerationsKnown
    /\ Listed /\ Wired /\ Counted /\ Whole
    /\ InTransit /\ Candidate /\ AtHand /\ Mounted /\ Disposing

(* Only a task that waits for the lock is in the line, and once; only one  *)
(* that runs holds a generation.                                           *)
Waiting ==
    /\ \A t \in Tasks : t = owner \/ t \in Range(queue) => pc[t] \in {"reconcile", "ensure", "reclaim"}
    /\ \A k, l \in DOMAIN queue : queue[k] = queue[l] /\ queue[k] \in Tasks => k = l
    /\ owner \in Tasks => owner \notin Range(queue)
    /\ \A t \in Tasks : pc[t] # "run" => hold[t] = None

(* Whoever is to run the shutdown was created by stop(). *)
Announced == stopping \/ owner = Shutdown \/ Shutdown \in Range(queue) => Stopped

(* What accounts for an active instance: a live generation, or the list of *)
(* a loop that publishes or disposes it.                                   *)
Kept(i) ==
    \/ Reached(i)
    \/ (Materializing \/ phase = "rollback") /\ i \in Range(mounted)
    \/ phase = "mounted" /\ i = Newest(Entry)
    \/ phase \in {"reclaim", "teardown"} /\ i \in work

(* As long as no owner of the lock is cancelled: every active instance is  *)
(* accounted for, and its providers are active.                            *)
Accounted ==
    /\ \A i \in Slot : inst[i].st = "active" => Kept(i)
    /\ ProvidersOutliveConsumers

(***************************************************************************)
(* The constants and the operators                                         *)
(***************************************************************************)

(* The activation order names entries, and the entries a planned one       *)
(* requires come before it.                                                *)
LEMMA OrderMeans ==
    /\ DOMAIN ActivationOrder = 1 .. Len(ActivationOrder) /\ Len(ActivationOrder) \in Nat
    /\ \A n \in DOMAIN ActivationOrder : ActivationOrder[n] \in Entries
    /\ \A m, n \in DOMAIN ActivationOrder : ActivationOrder[m] = ActivationOrder[n] => m = n
    /\ \A e \in Entries : \E n \in DOMAIN ActivationOrder : ActivationOrder[n] = e
    /\ \A n \in DOMAIN ActivationOrder : \A r \in Requires[ActivationOrder[n]] :
         r \in Entries /\ \E m \in 1 .. n - 1 : ActivationOrder[m] = r
<1>1. /\ DOMAIN ActivationOrder = 1 .. Len(ActivationOrder) /\ Len(ActivationOrder) \in Nat
      /\ \A n \in DOMAIN ActivationOrder : ActivationOrder[n] \in Entries
  BY HarnessAssumption
<1>2. ASSUME NEW n \in DOMAIN ActivationOrder, NEW r \in Requires[ActivationOrder[n]]
      PROVE  r \in Entries /\ \E m \in 1 .. n - 1 : ActivationOrder[m] = r
  <2>1. ActivationOrder[n] \in Entries
    BY <1>1
  <2>2. PICK k \in DOMAIN ActivationOrder :
          /\ ActivationOrder[k] = ActivationOrder[n]
          /\ \A q \in Requires[ActivationOrder[n]] : \E j \in 1 .. k - 1 : ActivationOrder[j] = q
    BY <2>1, HarnessAssumption
  <2>3. k = n
    BY <2>2, HarnessAssumption
  <2> QED BY <2>1, <2>2, <2>3, HarnessAssumption
<1> QED BY <1>1, <1>2, HarnessAssumption

(* Slots are numbers from 1, so none is None. *)
LEMMA SlotsAreNumbers ==
    /\ Slot \subseteq Nat /\ None \notin Slot /\ IsFiniteSet(Slot)
    /\ Gen \subseteq Nat /\ None \notin Gen /\ IsFiniteSet(Gen)
<1>1. IsFiniteSet(Slot) /\ IsFiniteSet(Gen)
  BY HarnessAssumption, FS_Interval DEF Slot, Gen
<1> QED BY <1>1, HarnessAssumption DEF Slot, Gen, None

(* Taking an element out of a list that holds it once leaves the others,   *)
(* in their order.                                                         *)
LEMMA DroppedMeans ==
    ASSUME NEW S, NEW list \in Seq(S), NEW n \in DOMAIN list,
           \A k \in DOMAIN list : list[k] = list[n] => k = n
    PROVE  /\ Dropped(list, list[n]) \in Seq(S)
           /\ Len(Dropped(list, list[n])) = Len(list) - 1
           /\ \A k \in 1 .. n - 1 : Dropped(list, list[n])[k] = list[k]
           /\ \A k \in n .. Len(list) - 1 : Dropped(list, list[n])[k] = list[k + 1]
<1> DEFINE m == CHOOSE k \in DOMAIN list : list[k] = list[n]
<1>1. m = n
  OBVIOUS
<1>2. Dropped(list, list[n]) = SubSeq(list, 1, n - 1) \o SubSeq(list, n + 1, Len(list))
  BY <1>1 DEF Dropped, RemoveAt
<1>3. n \in 1 .. Len(list) /\ Len(list) \in Nat /\ \A k \in 1 .. Len(list) : list[k] \in S
  OBVIOUS
<1> DEFINE before == SubSeq(list, 1, n - 1)
           after == SubSeq(list, n + 1, Len(list))
<1>4. /\ before \in Seq(S) /\ Len(before) = n - 1
      /\ \A k \in 1 .. n - 1 : before[k] = list[k]
  BY <1>3, SubSeqProperties
<1>5. /\ after \in Seq(S) /\ Len(after) = Len(list) - n
      /\ \A k \in 1 .. Len(list) - n : after[k] = list[n + k]
  BY <1>3, SubSeqProperties
<1> HIDE DEF m, before, after
<1>6. /\ before \o after \in Seq(S) /\ Len(before \o after) = Len(list) - 1
      /\ \A k \in 1 .. n - 1 : (before \o after)[k] = list[k]
      /\ \A k \in n .. Len(list) - 1 : (before \o after)[k] = after[k - (n - 1)]
  BY <1>3, <1>4, <1>5
<1>7. ASSUME NEW k \in n .. Len(list) - 1 PROVE after[k - (n - 1)] = list[k + 1]
  BY <1>3, <1>5
<1> QED BY <1>2, <1>6, <1>7 DEF before, after

(* A list without its last element. *)
LEMMA FrontMeans ==
    ASSUME NEW S, NEW list \in Seq(S), list # <<>>
    PROVE  /\ Front(list) \in Seq(S) /\ Len(Front(list)) = Len(list) - 1
           /\ \A k \in 1 .. Len(list) - 1 : Front(list)[k] = list[k]
<1>1. Front(list) = SubSeq(list, 1, Len(list) - 1)
  BY DEF Front
<1>2. Len(list) \in Nat /\ Len(list) # 0 /\ \A k \in 1 .. Len(list) : list[k] \in S
  OBVIOUS
<1> DEFINE n == Len(list) - 1
<1>3. n \in Int /\ 1 \in Int /\ \A k \in 1 .. n : list[k] \in S
  BY <1>2
<1>4. /\ SubSeq(list, 1, n) \in Seq(S)
      /\ Len(SubSeq(list, 1, n)) = IF 1 <= n THEN n - 1 + 1 ELSE 0
      /\ \A k \in 1 .. n - 1 + 1 : SubSeq(list, 1, n)[k] = list[1 + k - 1]
  <2> HIDE DEF n
  <2> QED BY <1>3, SubSeqProperties
<1>5. n \in Nat /\ n - 1 + 1 = n /\ \A k \in 1 .. n : 1 + k - 1 = k
  BY <1>2
<1> QED BY <1>1, <1>3, <1>4, <1>5

(* A list of which one occurrence is taken out is a list still. *)
LEMMA DroppedTyped ==
    ASSUME NEW S, NEW list \in Seq(S), NEW x \in Range(list)
    PROVE  Dropped(list, x) \in Seq(S)
<1> DEFINE m == CHOOSE k \in DOMAIN list : list[k] = x
<1>1. m \in 1 .. Len(list) /\ Len(list) \in Nat
  BY DEF Range
<1>2. Dropped(list, x) = SubSeq(list, 1, m - 1) \o SubSeq(list, m + 1, Len(list))
  BY DEF Dropped, RemoveAt
<1> HIDE DEF m
<1> QED BY <1>1, <1>2

(***************************************************************************)
(* What the parts of the invariant say together                            *)
(***************************************************************************)

(* The newest instance of an entry is registered under it.                 *)
LEMMA NewestMeans ==
    ASSUME TypeOK, Listed, NEW e \in Entries
    PROVE  /\ Newest(e) \in Slot \cup {None}
           /\ byEntry[e] \in Seq(Slot)
           /\ Newest(e) = None <=> byEntry[e] = <<>>
           /\ Newest(e) # None => /\ Newest(e) \in Registered /\ inst[Newest(e)].entry = e
                                  /\ Newest(e) = byEntry[e][Len(byEntry[e])]
                                  /\ Len(byEntry[e]) \in DOMAIN byEntry[e]
<1>1. byEntry[e] \in Seq(Slot)
  BY DEF TypeOK
<1>2. CASE byEntry[e] = <<>>
  BY <1>1, <1>2 DEF Newest
<1>3. CASE byEntry[e] # <<>>
  <2>1. Newest(e) = byEntry[e][Len(byEntry[e])] /\ Len(byEntry[e]) \in DOMAIN byEntry[e]
    BY <1>1, <1>3 DEF Newest, Last
  <2>2. Newest(e) \in Slot
    BY <1>1, <2>1
  <2> QED BY <1>1, <1>3, <2>1, <2>2, SlotsAreNumbers DEF Listed, Registered
<1> QED BY <1>2, <1>3

(* The same once a step is taken. *)
LEMMA NewestNext ==
    ASSUME byEntry' \in [Entries -> Seq(Slot)], Listed', NEW e \in Entries, Newest(e)' # None
    PROVE  /\ Newest(e)' \in Slot /\ inst'[Newest(e)'].entry = e
           /\ inst'[Newest(e)'].st # "free"
           /\ byEntry'[e] # <<>> /\ Newest(e)' = byEntry'[e][Len(byEntry'[e])]
<1>1. byEntry'[e] \in Seq(Slot) /\ byEntry'[e] # <<>>
  BY DEF Newest
<1>2. Newest(e)' = byEntry'[e][Len(byEntry'[e])] /\ Len(byEntry'[e]) \in DOMAIN byEntry'[e]
  BY <1>1 DEF Newest, Last
<1> QED BY <1>1, <1>2 DEF Listed

(* What is loading, unloading, failed or free is reached by no live        *)
(* generation, and referenced by none.                                     *)
LEMMA OnlyActiveReached ==
    ASSUME TypeOK, Whole, Counted, NEW i \in Slot, inst[i].st # "active"
    PROVE  ~Reached(i) /\ inst[i].refs = 0
<1>1. ~Reached(i)
  BY DEF Whole, Reached
<1>2. inst[i].refs \in Nat
  BY DEF TypeOK
<1> QED BY <1>1, <1>2 DEF Counted

(* What the registry records of an instance. *)
Instance == [entry : Entries \cup {None}, rev : Nat, st : InstanceStates,
             ident : SUBSET (Slot \cup {None}), deps : SUBSET Slot, refs : Nat]

(* Giving an instance another state keeps everything else about it.        *)
LEMMA Restated ==
    ASSUME TypeOK, NEW i \in Slot, NEW s \in InstanceStates,
           inst' = [inst EXCEPT ![i].st = s]
    PROVE  /\ inst' \in [Slot -> Instance]
           /\ inst'[i].st = s
           /\ \A j \in Slot : /\ inst'[j].entry = inst[j].entry /\ inst'[j].ident = inst[j].ident
                              /\ inst'[j].deps = inst[j].deps /\ inst'[j].refs = inst[j].refs
                              /\ j # i => inst'[j] = inst[j]
<1>1. inst \in [Slot -> Instance]
  BY DEF TypeOK, Instance
<1>2. inst[i] \in Instance
  BY <1>1
<1>3. [inst[i] EXCEPT !.st = s] \in Instance
  BY <1>2 DEF Instance
<1>4. inst' = [inst EXCEPT ![i] = [inst[i] EXCEPT !.st = s]]
  OBVIOUS
<1>5. inst' \in [Slot -> Instance]
  BY <1>1, <1>3, <1>4
<1>6. ASSUME NEW j \in Slot
      PROVE  /\ inst'[j].entry = inst[j].entry /\ inst'[j].ident = inst[j].ident
             /\ inst'[j].deps = inst[j].deps /\ inst'[j].refs = inst[j].refs
             /\ j # i => inst'[j] = inst[j]
             /\ j = i => inst'[j].st = s
  <2>1. CASE j = i
    BY <1>1, <1>2, <1>4, <2>1 DEF Instance
  <2>2. CASE j # i
    BY <1>1, <1>4, <2>2
  <2> QED BY <2>1, <2>2
<1> QED BY <1>5, <1>6

(* The registry when instances only change state and reference count: what *)
(* newly becomes active has to be unknown to every consumer.               *)
LEMMA RegistryRelabelled ==
    ASSUME TypeOK, Listed, Wired, UNCHANGED byEntry,
           \A j \in Slot : /\ inst'[j].entry = inst[j].entry /\ inst'[j].ident = inst[j].ident
                           /\ inst'[j].deps = inst[j].deps
                           /\ inst'[j].st = "free" <=> inst[j].st = "free"
                           /\ inst'[j].st = "active" =>
                                inst[j].st = "active" \/ \A i \in Registered : j \notin inst[i].ident
    PROVE  /\ Registered' = Registered
           /\ \A e : Newest(e)' = Newest(e) /\ Identity(e)' = Identity(e)
           /\ Listed' /\ Wired'
<1>1. Registered' = Registered
  BY DEF Registered
<1>2. \A e : Newest(e)' = Newest(e)
  BY DEF Newest
<1>3. \A e : Identity(e)' = Identity(e)
  BY <1>2 DEF Identity
<1>4. Listed'
  <2>1. \A e \in Entries : \A k \in DOMAIN byEntry[e] : byEntry[e][k] \in Slot
    BY DEF TypeOK
  <2>2. Registered \subseteq Slot
    BY DEF Registered
  <2> QED BY <1>1, <2>1, <2>2 DEF Listed
<1>5. Wired'
  <2> SUFFICES ASSUME NEW i \in Registered
               PROVE  /\ inst'[i].deps \subseteq inst'[i].ident
                      /\ \A d \in inst'[i].ident \cap Registered :
                           inst'[d].entry \in Requires[inst'[i].entry]
                      /\ \A d \in inst'[i].ident \cap Slot :
                           inst'[d].st = "active" => d \in inst'[i].deps
    BY <1>1 DEF Wired
  <2> QED BY DEF Wired, Registered
<1> QED BY <1>1, <1>2, <1>3, <1>4, <1>5

(* What only depends on the registry and on the generations does not       *)
(* change while they do not.                                               *)
LEMMA RegistryKept ==
    ASSUME UNCHANGED <<inst, byEntry, gstate, contents>>
    PROVE  /\ Registered' = Registered /\ Live' = Live
           /\ \A e : Newest(e)' = Newest(e) /\ Identity(e)' = Identity(e)
           /\ \A i : Reached(i)' <=> Reached(i)
           /\ Listed' <=> Listed
           /\ Wired' <=> Wired
           /\ Counted' <=> Counted
           /\ Whole' <=> Whole
<1>1. Registered' = Registered /\ Live' = Live /\ \A e : Newest(e)' = Newest(e)
  BY DEF Registered, Live, LiveIn, Newest
<1>2. \A e : Identity(e)' = Identity(e)
  BY <1>1 DEF Identity
<1>3. \A i : Reached(i)' <=> Reached(i)
  BY <1>1 DEF Reached
<1> QED BY <1>1, <1>2, <1>3 DEF Listed, Wired, Counted, Whole

(* A step outside the lock's loops that leaves the registry, the           *)
(* generations and the owner's work alone.                                 *)
LEMMA QuietStep ==
    ASSUME Inv, TypeOK', Locked', GenerationsKnown',
           UNCHANGED <<inst, byEntry, gstate, contents, candidateVars, disposalVars>>,
           phase' = phase \/ (phase = "free" /\ phase' = "locked"),
           hstate' = "stopped" => hstate = "stopped"
    PROVE  Inv'
<1> USE DEF Inv
<1>1. Listed' /\ Wired' /\ Counted' /\ Whole'
  BY RegistryKept
<1>2. /\ \A e : Newest(e)' = Newest(e) /\ Identity(e)' = Identity(e)
      /\ \A i : Reached(i)' <=> Reached(i)
      /\ Registered' = Registered
  BY RegistryKept
<1>3. UNCHANGED <<inst, at, plan, ordered, mounted, work, victim>> /\ Entry' = Entry
  BY DEF candidateVars, disposalVars, Entry
<1>4. /\ Materializing' <=> Materializing
      /\ \A p \in Phases \ {"free", "locked"} : phase' = p <=> phase = p
  BY DEF Materializing, Phases
<1>5. InTransit'
  BY <1>2, <1>3, <1>4 DEF InTransit, Phases
<1>6. Candidate'
  BY <1>2, <1>3, <1>4 DEF Candidate
<1>7. AtHand'
  BY <1>2, <1>3, <1>4 DEF AtHand, Phases
<1>8. Mounted'
  BY <1>2, <1>3, <1>4 DEF Mounted, Phases
<1>9. Disposing'
  BY <1>2, <1>3, <1>4 DEF Disposing, Phases
<1> QED BY <1>1, <1>5, <1>6, <1>7, <1>8, <1>9

(***************************************************************************)
(* Desired state, clients and the lock                                     *)
(***************************************************************************)

(* Asking for the lock keeps the lock's variables in order. *)
LEMMA EnqueueMeans ==
    ASSUME TypeOK, Locked, NEW x \in Tasks \cup {Shutdown}, Enqueue(x)
    PROVE  /\ owner' \in Tasks \cup {Nobody, Shutdown}
           /\ queue' \in Seq(Tasks \cup {Shutdown})
           /\ phase' \in Phases
           /\ owner' = Nobody <=> phase' = "free"
           /\ owner' = Shutdown => phase' \in {"locked", "drain", "teardown"}
           /\ \/ phase' = phase /\ owner' = owner
              \/ phase = "free" /\ phase' = "locked"
<1>1. x # Nobody
  BY HarnessAssumption DEF Nobody, Shutdown
<1>2. CASE owner = Nobody
  BY <1>1, <1>2 DEF Enqueue, TypeOK, Locked, Phases
<1>3. CASE owner # Nobody
  <2>1. queue' = Append(queue, x) /\ owner' = owner /\ phase' = phase
    BY <1>3 DEF Enqueue
  <2>2. queue' \in Seq(Tasks \cup {Shutdown})
    BY <2>1, AppendProperties DEF TypeOK
  <2> QED BY <2>1, <2>2 DEF TypeOK, Locked
<1> QED BY <1>2, <1>3

LEMMA ChangeStep == Inv /\ Change => Inv'
<1> SUFFICES ASSUME Inv, NEW e \in Changing, Install(e) \/ Uninstall(e) PROVE Inv'
  BY DEF Change
<1> USE DEF Inv
<1>1. e \in Entries
  BY HarnessAssumption
<1>2. UNCHANGED <<hstate, owner, queue, phase, inst, byEntry, gstate, contents, current, built, terminal,
                  hold, pc, stopping, planned, cancels, candidateVars, disposalVars>>
  BY DEF Install, Uninstall, lockVars, instVars, genVars, taskVars
<1>3. changes' \in 0 .. MaxChanges /\ desired' \in [Entries -> Nat]
      /\ revision' \in [Entries -> Nat] /\ dirty' \in BOOLEAN
  <2>0. /\ changes \in 0 .. MaxChanges /\ MaxChanges \in Nat
        /\ desired \in [Entries -> Nat] /\ revision \in [Entries -> Nat]
    BY HarnessAssumption DEF TypeOK
  <2>1. CASE Install(e)
    <3>1. revision[e] + 1 \in Nat
      BY <2>0, <1>1
    <3>2. changes' \in 0 .. MaxChanges
      BY <2>0, <2>1 DEF Install
    <3> QED BY <2>0, <2>1, <3>1, <3>2 DEF Install
  <2>2. CASE Uninstall(e)
    <3>1. changes' \in 0 .. MaxChanges
      BY <2>0, <2>2 DEF Uninstall
    <3> QED BY <2>0, <2>2, <3>1 DEF Uninstall, None
  <2> QED BY <2>1, <2>2
<1>4. TypeOK'
  BY <1>2, <1>3 DEF TypeOK, candidateVars, disposalVars
<1>5. Locked'
  BY <1>2 DEF Locked, Stopped
<1>6. GenerationsKnown'
  BY <1>2, RegistryKept DEF GenerationsKnown
<1> QED BY <1>2, <1>4, <1>5, <1>6, QuietStep

(* Every call of a client, and every cancellation in the queue.            *)
LEMMA ClientStep == ASSUME Inv, NEW t \in Tasks, Client(t) \/ CancelQueued(t) PROVE Inv'
<1> USE DEF Inv
<1>1. /\ UNCHANGED <<inst, byEntry, gstate, contents, current, built, terminal,
                     desired, revision, changes, dirty, planned, stopping, cancels,
                     plan, at, entryRev, ordered, mounted, work, victim>>
      /\ hstate' = hstate \/ (~Stopped /\ hstate' = "running")
  BY DEF Client, Start, Reconcile, EnsureReady, Acquire, AcquireRefused, Release, CancelQueued,
         desiredVars, lockVars, instVars, genVars, candidateVars, disposalVars
<1>2. /\ pc' \in [Tasks -> {"idle", "reconcile", "ensure", "ready", "run", "reclaim"}]
      /\ hold' \in [Tasks -> Gen \cup {None}]
      /\ \A s \in Tasks : hold'[s] # None => hold'[s] = hold[s] \/ hold'[s] \in Live
  <2>1. CASE Start(t) \/ Reconcile(t) \/ EnsureReady(t) \/ AcquireRefused(t) \/ CancelQueued(t)
    BY <2>1 DEF Start, Reconcile, EnsureReady, AcquireRefused, CancelQueued, taskVars, TypeOK
  <2>2. CASE Acquire(t)
    <3>1. current \in Live
      BY <2>2 DEF Acquire, Live, LiveIn, TypeOK
    <3> QED BY <2>2, <3>1 DEF Acquire, Live, LiveIn, TypeOK
  <2>3. CASE Release(t)
    BY <2>3 DEF Release, TypeOK
  <2> QED BY <2>1, <2>2, <2>3 DEF Client
<1>3. /\ owner' \in Tasks \cup {Nobody, Shutdown}
      /\ queue' \in Seq(Tasks \cup {Shutdown})
      /\ phase' \in Phases
      /\ owner' = Nobody <=> phase' = "free"
      /\ owner' = Shutdown => phase' \in {"locked", "drain", "teardown"}
      /\ \/ phase' = phase /\ owner' = owner
         \/ phase = "free" /\ phase' = "locked"
  <2>1. CASE Enqueue(t)
    BY <2>1, EnqueueMeans
  <2>2. CASE UNCHANGED <<owner, queue, phase>>
    BY <2>2 DEF TypeOK, Locked
  <2>3. CASE CancelQueued(t)
    <3>1. queue' \in Seq(Tasks \cup {Shutdown})
      BY <2>3, DroppedTyped DEF CancelQueued, TypeOK
    <3> QED BY <2>3, <3>1 DEF CancelQueued, TypeOK, Locked
  <2> QED BY <2>1, <2>2, <2>3
      DEF Client, Start, Reconcile, EnsureReady, Acquire, AcquireRefused, Release, lockVars
<1>4. TypeOK'
  BY <1>1, <1>2, <1>3 DEF TypeOK
<1>5. Locked'
  BY <1>1, <1>3 DEF Locked, Stopped
<1>6. GenerationsKnown'
  <2>1. Live' = Live
    BY <1>1 DEF Live, LiveIn
  <2>2. phase' = "teardown" \/ hstate' = "stopped" => phase = "teardown" \/ hstate = "stopped"
    BY <1>1, <1>3
  <2> QED BY <1>1, <1>2, <2>1, <2>2 DEF GenerationsKnown
<1> QED BY <1>1, <1>3, <1>4, <1>5, <1>6, QuietStep DEF candidateVars, disposalVars

LEMMA StopStep == Inv /\ (Stop \/ ShutdownTask) => Inv'
<1> SUFFICES ASSUME Inv, Stop \/ ShutdownTask PROVE Inv'
  OBVIOUS
<1> USE DEF Inv
<1>1. /\ UNCHANGED <<inst, byEntry, gstate, contents, current, built, terminal, pc, hold,
                     desired, revision, changes, dirty, planned, cancels,
                     plan, at, entryRev, ordered, mounted, work, victim>>
      /\ stopping' \in BOOLEAN
      /\ hstate' = hstate \/ (~Stopped /\ hstate' = "stopping")
  BY DEF Stop, ShutdownTask, desiredVars, lockVars, instVars, genVars, taskVars,
         candidateVars, disposalVars
<1>2. /\ owner' \in Tasks \cup {Nobody, Shutdown}
      /\ queue' \in Seq(Tasks \cup {Shutdown})
      /\ phase' \in Phases
      /\ owner' = Nobody <=> phase' = "free"
      /\ owner' = Shutdown => phase' \in {"locked", "drain", "teardown"}
      /\ \/ phase' = phase /\ owner' = owner
         \/ phase = "free" /\ phase' = "locked"
  <2>1. CASE Stop
    BY <2>1 DEF Stop, lockVars, TypeOK, Locked
  <2>2. CASE ShutdownTask
    BY <2>2, EnqueueMeans DEF ShutdownTask
  <2> QED BY <2>1, <2>2
<1>3. TypeOK'
  BY <1>1, <1>2 DEF TypeOK
<1>4. Locked'
  BY <1>1, <1>2 DEF Locked, Stopped
<1>5. GenerationsKnown'
  <2>1. Live' = Live
    BY <1>1 DEF Live, LiveIn
  <2> QED BY <1>1, <1>2, <2>1 DEF GenerationsKnown, Stopped
<1> QED BY <1>1, <1>2, <1>3, <1>4, <1>5, QuietStep DEF candidateVars, disposalVars

(***************************************************************************)
(* Giving the lock up                                                      *)
(***************************************************************************)

(* The lock goes to its first waiter, or is free; nobody's loop is under   *)
(* way.                                                                    *)
LEMMA UnlockMeans ==
    ASSUME TypeOK, Unlock
    PROVE  /\ owner' \in Tasks \cup {Nobody, Shutdown}
           /\ queue' \in Seq(Tasks \cup {Shutdown})
           /\ phase' \in {"free", "locked"}
           /\ owner' = Nobody <=> phase' = "free"
           /\ plan' = {} /\ at' = 0 /\ entryRev' = 0 /\ ordered' = {} /\ mounted' = <<>>
           /\ work' = {} /\ victim' = None
<1>1. CASE queue = <<>>
  BY <1>1 DEF Unlock, TypeOK
<1>2. CASE queue # <<>>
  <2>1. Head(queue) \in Tasks \cup {Shutdown} /\ Tail(queue) \in Seq(Tasks \cup {Shutdown})
    BY <1>2 DEF TypeOK
  <2>2. Head(queue) # Nobody
    BY <2>1, HarnessAssumption DEF Nobody, Shutdown
  <2>3. owner' = Head(queue) /\ phase' = "locked" /\ queue' = Tail(queue)
    BY <1>2 DEF Unlock
  <2> QED BY <2>1, <2>2, <2>3 DEF Unlock
<1> QED BY <1>1, <1>2

(* Giving the lock up keeps the invariant when the registry and the        *)
(* generations are in order, nothing is in transit, and after the shutdown *)
(* nothing is left.                                                        *)
LEMMA UnlockStep ==
    ASSUME Inv, Unlock, GenerationsKnown', Listed', Wired', Counted', Whole', UNCHANGED terminal,
           hstate' = hstate \/ hstate' = "stopped",
           inst' \in [Slot -> Instance],
           byEntry' \in [Entries -> Seq(Slot)],
           gstate' = gstate, contents' = contents, current' = current, built' = built,
           pc' \in [Tasks -> {"idle", "reconcile", "ensure", "ready", "run", "reclaim"}],
           UNCHANGED <<stopping, desired, revision, changes, hold>>,
           dirty' \in BOOLEAN, planned' \in BOOLEAN, cancels' \in 0 .. MaxCancels,
           \A i \in Slot : inst'[i].st # "free" =>
               /\ inst'[i].st \in {"active", "failed"}
               /\ inst'[i].st = "failed" => i = Newest(inst[i].entry)',
           hstate' = "stopped" => Registered' = {} /\ terminal,
           terminal => hstate' = "stopped"
    PROVE  Inv'
<1> USE DEF Inv
<1>1. /\ owner' \in Tasks \cup {Nobody, Shutdown}
      /\ queue' \in Seq(Tasks \cup {Shutdown})
      /\ phase' \in {"free", "locked"}
      /\ owner' = Nobody <=> phase' = "free"
      /\ plan' = {} /\ at' = 0 /\ entryRev' = 0 /\ ordered' = {} /\ mounted' = <<>>
      /\ work' = {} /\ victim' = None
  BY UnlockMeans
<1>2. TypeOK'
  <2>1. phase' \in Phases /\ at' \in 0 .. Len(ActivationOrder) + 1 /\ entryRev' \in Nat
    BY <1>1, OrderMeans DEF Phases
  <2>2. mounted' \in Seq(Slot) /\ plan' \subseteq Entries /\ ordered' \subseteq Slot
        /\ work' \subseteq Slot /\ victim' \in Slot \cup {None}
    BY <1>1
  <2>3. hstate' \in {"created", "running", "stopping", "stopped"}
    BY DEF TypeOK
  <2> QED BY <1>1, <2>1, <2>2, <2>3 DEF TypeOK, Instance
<1>3. Locked'
  BY <1>1 DEF Locked, Stopped, Nobody, Shutdown
<1>4. ~Materializing'
  BY <1>1 DEF Materializing
<1>5. InTransit'
  BY DEF InTransit
<1>6. Candidate' /\ AtHand' /\ Mounted' /\ Disposing'
  BY <1>1, <1>4 DEF Candidate, AtHand, Mounted, Disposing
<1> QED BY <1>2, <1>3, <1>5, <1>6

(* Unlocking with the registry as it was. *)
LEMMA UnlockOnly ==
    ASSUME Inv, Unlock, UNCHANGED <<inst, byEntry, gstate, contents, current, built, terminal>>,
           hstate' = hstate \/ hstate' = "stopped",
           pc' \in [Tasks -> {"idle", "reconcile", "ensure", "ready", "run", "reclaim"}],
           UNCHANGED <<stopping, desired, revision, changes, dirty, planned, hold>>,
           cancels' \in 0 .. MaxCancels,
           phase # "setup", victim = None,
           hstate' = "stopped" => Registered = {} /\ terminal /\ Live = {},
           terminal => hstate' = "stopped"
    PROVE  Inv'
<1> USE DEF Inv
<1>1. Listed' /\ Wired' /\ Counted' /\ Whole' /\ Registered' = Registered /\ Live' = Live
      /\ \A e : Newest(e)' = Newest(e)
  BY RegistryKept
<1>2. GenerationsKnown'
  <2>1. phase' # "teardown"
    BY UnlockMeans
  <2> QED BY <1>1, <2>1 DEF GenerationsKnown
<1>3. \A i \in Slot : inst'[i].st # "free" =>
               /\ inst'[i].st \in {"active", "failed"}
               /\ inst'[i].st = "failed" => i = Newest(inst[i].entry)'
  <2> SUFFICES ASSUME NEW i \in Slot, inst[i].st # "free"
               PROVE  /\ inst[i].st \in {"active", "failed"}
                      /\ inst[i].st = "failed" => i = Newest(inst[i].entry)
    BY <1>1
  <2>1. inst[i].st \in InstanceStates
    BY DEF TypeOK
  <2>2. i # None
    BY SlotsAreNumbers
  <2> QED BY <2>1, <2>2 DEF InTransit, InstanceStates
<1>4. /\ inst' \in [Slot -> Instance]
      /\ byEntry' \in [Entries -> Seq(Slot)]
      /\ dirty' \in BOOLEAN /\ planned' \in BOOLEAN
  BY DEF TypeOK, Instance
<1>5. hstate' = "stopped" => Registered' = {} /\ terminal
  BY <1>1
<1> QED BY <1>1, <1>2, <1>3, <1>4, <1>5, UnlockStep

(* A refused or a rolled back reconcile(), and one cancelled after its     *)
(* publication.                                                            *)
LEMMA AbortStep ==
    ASSUME Inv, NEW t \in Tasks, ReconcileRefused(t) \/ RollbackEnd(t) \/ CancelPublished(t)
    PROVE  Inv'
<1> USE DEF Inv
<1>1. /\ Unlock /\ pc' = [pc EXCEPT ![t] = "idle"]
      /\ UNCHANGED <<inst, byEntry, gstate, contents, current, built, terminal, hstate,
                     stopping, desired, revision, changes, dirty, planned, hold>>
  BY DEF ReconcileRefused, RollbackEnd, CancelPublished, Abort, desiredVars, instVars, genVars
<1>2. phase \in {"locked", "rollback", "published"} /\ victim = None /\ owner # Shutdown
  <2>1. owner # Shutdown
    BY HarnessAssumption DEF ReconcileRefused, RollbackEnd, CancelPublished, Composing
  <2>2. phase \in {"locked", "published"} => victim = None
    BY DEF Disposing
  <2> QED BY <2>1, <2>2 DEF ReconcileRefused, RollbackEnd, CancelPublished
<1>3. cancels' \in 0 .. MaxCancels
  <2>1. cancels \in 0 .. MaxCancels /\ MaxCancels \in Nat
    BY HarnessAssumption DEF TypeOK
  <2> QED BY <2>1 DEF ReconcileRefused, RollbackEnd, CancelPublished, CountCancel
<1>4. pc' \in [Tasks -> {"idle", "reconcile", "ensure", "ready", "run", "reclaim"}]
  BY <1>1 DEF TypeOK
<1>5. hstate = "stopped" => Registered = {} /\ terminal /\ Live = {}
  BY DEF Locked, Disposing, GenerationsKnown
<1>6. terminal => hstate = "stopped"
  BY <1>2 DEF Locked
<1> QED BY <1>1, <1>2, <1>3, <1>4, <1>5, <1>6, UnlockOnly

LEMMA ShutdownEndStep == Inv /\ ShutdownEnd => Inv'
<1> SUFFICES ASSUME Inv, ShutdownEnd PROVE Inv'
  OBVIOUS
<1> USE DEF Inv
<1>1. /\ Unlock /\ hstate' = "stopped" /\ phase = "teardown" /\ victim = None /\ work = {}
      /\ UNCHANGED <<inst, byEntry, gstate, contents, current, built, terminal,
                     stopping, desired, revision, changes, dirty, planned, hold, pc, cancels>>
  BY DEF ShutdownEnd, desiredVars, instVars, genVars, taskVars
<1>2. Registered = {} /\ terminal /\ Live = {}
  BY <1>1 DEF Disposing, Locked, GenerationsKnown
<1>3. /\ pc \in [Tasks -> {"idle", "reconcile", "ensure", "ready", "run", "reclaim"}]
      /\ cancels \in 0 .. MaxCancels
  BY DEF TypeOK
<1> QED BY <1>1, <1>2, <1>3, UnlockOnly

(***************************************************************************)
(* Disposal                                                                *)
(***************************************************************************)

(* Whatever a loop is about to dispose is registered, active or failed,    *)
(* and reached by no live generation.                                      *)
LEMMA DisposableMeans ==
    ASSUME Inv, NEW i \in Disposable, victim = None
    PROVE  /\ i \in Registered /\ ~Reached(i) /\ inst[i].refs = 0
           /\ inst[i].st \in {"active", "failed"}
           /\ \/ phase = "retry" /\ i = Newest(Entry) /\ inst[i].st = "failed"
              \/ phase = "rollback" /\ mounted # <<>> /\ i = Last(mounted)
              \/ phase \in {"reclaim", "teardown"} /\ i \in work
<1> USE DEF Inv
<1>1. \/ phase = "retry" /\ i = Newest(Entry) /\ inst[i].st = "failed" /\ i # None
      \/ phase = "rollback" /\ mounted # <<>> /\ i = Last(mounted)
      \/ phase \in {"reclaim", "teardown"} /\ i \in work
  BY DEF Disposable, AtHand
<1>2. i \in Registered
  <2>1. CASE phase = "retry"
    <3>1. Materializing
      BY <2>1 DEF Materializing
    <3>2. Entry \in Entries
      BY <3>1, OrderMeans DEF Candidate, Entry
    <3> QED BY <1>1, <2>1, <3>2, NewestMeans
  <2>2. CASE phase = "rollback"
    <3>1. mounted # <<>> /\ i = mounted[Len(mounted)] /\ mounted \in Seq(Slot)
      BY <1>1, <2>2 DEF Last, TypeOK
    <3>2. Len(mounted) \in DOMAIN mounted
      BY <3>1
    <3> QED BY <2>2, <3>1, <3>2 DEF Mounted
  <2>3. CASE phase \in {"reclaim", "teardown"}
    BY <1>1, <2>3 DEF Disposing
  <2> QED BY <1>1, <2>1, <2>2, <2>3
<1>3. i \in Slot /\ inst[i].st \in InstanceStates
  BY <1>2 DEF Registered, TypeOK
<1>4. inst[i].st \in {"active", "failed"}
  <2>1. phase # "setup" /\ i # None
    BY <1>1, <1>3, SlotsAreNumbers
  <2> QED BY <1>2, <1>3, <2>1 DEF InTransit, InstanceStates, Registered
<1>5. ~Reached(i)
  <2>1. CASE phase = "retry"
    BY <1>1, <1>3, <2>1, OnlyActiveReached
  <2>2. CASE phase = "rollback"
    <3>1. mounted # <<>> /\ i = mounted[Len(mounted)] /\ mounted \in Seq(Slot)
      BY <1>1, <2>2 DEF Last, TypeOK
    <3>2. Len(mounted) \in DOMAIN mounted
      BY <3>1
    <3> QED BY <2>2, <3>1, <3>2 DEF Mounted
  <2>3. CASE phase \in {"reclaim", "teardown"}
    BY <1>1, <2>3 DEF Disposing
  <2> QED BY <1>1, <2>1, <2>2, <2>3
<1>6. inst[i].refs = 0
  <2>1. inst[i].refs \in Nat
    BY <1>3 DEF TypeOK
  <2> QED BY <1>3, <1>5, <2>1 DEF Counted
<1> QED BY <1>1, <1>2, <1>4, <1>5, <1>6

LEMMA DisposeBeginStep ==
    ASSUME Inv, NEW x, DisposeBegin(x)
    PROVE  Inv'
<1> USE DEF Inv
<1>1. PICK i \in Disposable :
         IF inst[i].refs > 0
         THEN Handled(i) /\ UNCHANGED inst
         ELSE /\ victim' = i
              /\ inst' = [inst EXCEPT ![i].st = IF @ = "active" THEN "unloading" ELSE @]
              /\ UNCHANGED <<work, mounted, phase>>
  BY DEF DisposeBegin
<1>2. /\ victim = None
      /\ UNCHANGED <<cancels, hstate, stopping, desired, revision, changes, dirty, planned, owner,
                     queue, plan, at, entryRev, ordered, byEntry, gstate, contents, current,
                     built, terminal, pc, hold>>
  BY DEF DisposeBegin, desiredVars, lockVars, genVars, taskVars
<1>3. /\ i \in Registered /\ ~Reached(i) /\ inst[i].refs = 0
      /\ inst[i].st \in {"active", "failed"}
      /\ \/ phase = "retry" /\ i = Newest(Entry) /\ inst[i].st = "failed"
         \/ phase = "rollback" /\ mounted # <<>> /\ i = Last(mounted)
         \/ phase \in {"reclaim", "teardown"} /\ i \in work
  BY <1>2, DisposableMeans
<1>4. /\ victim' = i
      /\ inst' = [inst EXCEPT ![i].st = IF @ = "active" THEN "unloading" ELSE @]
      /\ UNCHANGED <<work, mounted, phase>>
  BY <1>1, <1>3
<1>5. i \in Slot /\ i # None
  BY <1>3, SlotsAreNumbers DEF Registered
<1>6. /\ inst' \in [Slot -> Instance]
      /\ inst'[i].st = IF inst[i].st = "active" THEN "unloading" ELSE inst[i].st
      /\ \A j \in Slot : /\ inst'[j].entry = inst[j].entry /\ inst'[j].ident = inst[j].ident
                         /\ inst'[j].deps = inst[j].deps /\ inst'[j].refs = inst[j].refs
                         /\ j # i => inst'[j] = inst[j]
  <2> DEFINE s == IF inst[i].st = "active" THEN "unloading" ELSE inst[i].st
  <2>1. s \in InstanceStates
    BY <1>3 DEF InstanceStates
  <2>2. inst' = [inst EXCEPT ![i].st = s]
    BY <1>4
  <2> HIDE DEF s
  <2>3. inst'[i].st = s
    BY <1>5, <2>1, <2>2, Restated
  <2>4. /\ inst' \in [Slot -> Instance]
        /\ \A j \in Slot : /\ inst'[j].entry = inst[j].entry /\ inst'[j].ident = inst[j].ident
                           /\ inst'[j].deps = inst[j].deps /\ inst'[j].refs = inst[j].refs
                           /\ j # i => inst'[j] = inst[j]
    BY <1>5, <2>1, <2>2, Restated
  <2> QED BY <2>3, <2>4 DEF s
<1>7. \A j \in Slot : /\ inst'[j].st = "free" <=> inst[j].st = "free"
                      /\ inst'[j].st = "active" => inst[j].st = "active"
                      /\ inst'[j].st = "failed" => inst[j].st = "failed"
                      /\ inst'[j].st = "loading" => inst[j].st = "loading"
  BY <1>3, <1>6
<1>8. /\ Registered' = Registered
      /\ \A e : Newest(e)' = Newest(e) /\ Identity(e)' = Identity(e)
      /\ Listed' /\ Wired'
  BY <1>2, <1>6, <1>7, RegistryRelabelled
<1>9. /\ Live' = Live
      /\ \A j : Reached(j)' <=> Reached(j)
      /\ Entry' = Entry
      /\ Materializing' <=> Materializing
  <2>1. Live' = Live
    BY <1>2 DEF Live, LiveIn
  <2> QED BY <1>2, <1>4, <2>1 DEF Entry, Materializing, Reached
<1>10. TypeOK'
  BY <1>2, <1>4, <1>5, <1>6 DEF TypeOK, Instance
<1>11. Locked' /\ GenerationsKnown'
  BY <1>2, <1>4, <1>9 DEF Locked, Stopped, GenerationsKnown
<1>12. Counted'
  BY <1>6, <1>9 DEF Counted
<1>13. Whole'
  <2>1. \A g \in Live : contents[g] \subseteq Slot /\ i \notin contents[g]
    BY <1>3 DEF Reached, TypeOK, Live, LiveIn
  <2>2. \A g \in Live : \A j \in contents[g] : inst'[j] = inst[j] /\ inst[j].deps \subseteq contents[g]
    BY <1>6, <2>1 DEF Whole
  <2>3. \A g \in Live : \A j \in contents[g] : \A d \in inst[j].deps : inst'[d] = inst[d]
    BY <2>2
  <2> QED BY <1>2, <1>9, <2>2, <2>3 DEF Whole
<1>14. InTransit'
  <2> SUFFICES ASSUME NEW j \in Slot
               PROVE  /\ inst'[j].st = "loading" => phase' = "setup" /\ j = Newest(Entry)'
                      /\ inst'[j].st = "unloading" => j = victim'
                      /\ inst'[j].st = "failed" => j = Newest(inst[j].entry)'
    BY DEF InTransit
  <2>1. inst'[j].st = "loading" => phase' = "setup" /\ j = Newest(Entry)'
    BY <1>4, <1>7, <1>8, <1>9 DEF InTransit
  <2>2. inst'[j].st = "unloading" => j = victim'
    BY SlotsAreNumbers, <1>2, <1>4, <1>5, <1>6 DEF InTransit
  <2>3. inst'[j].st = "failed" => j = Newest(inst[j].entry)'
    BY <1>6, <1>7, <1>8 DEF InTransit
  <2> QED BY <2>1, <2>2, <2>3
<1>15. Candidate'
  <2>1. Materializing => \A j \in ordered : j \in Slot /\ inst'[j] = inst[j]
    BY <1>3, <1>6 DEF Materializing, Candidate, TypeOK
  <2> QED BY <1>2, <1>8, <1>9, <2>1 DEF Candidate
<1>16. AtHand'
  BY <1>3, <1>4, <1>5, <1>6, <1>8, <1>9 DEF AtHand
<1>17. Mounted'
  <2>1. \A k \in DOMAIN mounted : mounted[k] \in Slot
    BY DEF TypeOK
  <2> QED BY <1>2, <1>4, <1>6, <1>8, <1>9, <2>1 DEF Mounted
<1>18. Disposing'
  BY <1>2, <1>3, <1>4, <1>5, <1>6, <1>8, <1>9 DEF Disposing
<1> QED BY <1>8, <1>10, <1>11, <1>12, <1>13, <1>14, <1>15, <1>16, <1>17, <1>18

(* Forgetting the instance under disposal: no other instance changes, no   *)
(* other entry's newest instance does, and no consumer is wired to it      *)
(* later.                                                                  *)
LEMMA ForgetMeans ==
    ASSUME Inv, victim # None, Forget(victim), UNCHANGED <<gstate, contents>>
    PROVE  /\ inst' \in [Slot -> Instance] /\ byEntry' \in [Entries -> Seq(Slot)]
           /\ Registered' = Registered \ {victim}
           /\ \A j \in Slot : j # victim => inst'[j] = inst[j]
           /\ ~Reached(victim)
           /\ Live' = Live /\ \A j : Reached(j)' <=> Reached(j)
           /\ \A e \in Entries : Newest(e) # victim => Newest(e)' = Newest(e)
           /\ \A e \in Entries : Newest(e)' # victim
           /\ Listed' /\ Wired' /\ Counted' /\ Whole'
<1> USE DEF Inv
<1> DEFINE e == inst[victim].entry
<1>1. victim \in Slot /\ victim \in Registered /\ inst[victim].st # "active"
  BY DEF TypeOK, Disposing, Registered
<1>2. e \in Entries /\ byEntry \in [Entries -> Seq(Slot)] /\ inst \in [Slot -> Instance]
  BY <1>1 DEF Listed, TypeOK, Instance
<1>3. PICK n \in DOMAIN byEntry[e] : byEntry[e][n] = victim
  BY <1>1 DEF Listed
<1>4. \A k, l \in DOMAIN byEntry[e] : byEntry[e][k] = byEntry[e][l] => k = l
  BY <1>2 DEF Listed
<1> DEFINE list == byEntry[e]
           rest == Dropped(list, victim)
<1>5. list \in Seq(Slot) /\ DOMAIN list = 1 .. Len(list) /\ Len(list) \in Nat
  BY <1>2
<1>6. /\ rest \in Seq(Slot)
      /\ Len(rest) = Len(list) - 1
      /\ \A k \in 1 .. n - 1 : rest[k] = list[k]
      /\ \A k \in n .. Len(list) - 1 : rest[k] = list[k + 1]
  <2> HIDE DEF e
  <2> HIDE DEF list
  <2>1. \A k, l \in DOMAIN list : list[k] = list[l] => k = l
    BY <1>4 DEF list
  <2>2. list[n] = victim /\ n \in DOMAIN list
    BY <1>3 DEF list
  <2> QED BY <1>5, <2>1, <2>2, DroppedMeans
<1>7. /\ inst' = [inst EXCEPT ![victim] = FreeInstance]
      /\ byEntry' = [byEntry EXCEPT ![e] = rest]
  BY DEF Forget
<1>8. FreeInstance \in Instance
  BY DEF FreeInstance, Instance, InstanceStates
<1>9. inst' \in [Slot -> Instance] /\ inst'[victim] = FreeInstance
      /\ \A j \in Slot : j # victim => inst'[j] = inst[j]
  BY <1>1, <1>2, <1>7, <1>8
<1>10. byEntry' \in [Entries -> Seq(Slot)] /\ byEntry'[e] = rest
       /\ \A f \in Entries : f # e => byEntry'[f] = byEntry[f]
  <2> HIDE DEF rest, e
  <2> QED BY <1>2, <1>6, <1>7
<1> HIDE DEF rest
<1>11. Registered' = Registered \ {victim}
  BY <1>1, <1>9 DEF Registered, FreeInstance
<1>12. ~Reached(victim)
  BY <1>1, OnlyActiveReached
<1>13. Live' = Live /\ \A j : Reached(j)' <=> Reached(j)
  BY DEF Live, LiveIn, Reached
<1>14. \A k \in DOMAIN rest : \E m \in DOMAIN list : rest[k] = list[m] /\ m # n
  <2> SUFFICES ASSUME NEW k \in DOMAIN rest
               PROVE  \E m \in DOMAIN list : rest[k] = list[m] /\ m # n
    OBVIOUS
  <2>0. k \in 1 .. Len(list) - 1 /\ n \in 1 .. Len(list)
    BY <1>5, <1>6, <1>3
  <2> HIDE DEF list
  <2>1. CASE k <= n - 1
    BY <1>5, <1>6, <2>0, <2>1
  <2>2. CASE k >= n
    BY <1>5, <1>6, <2>0, <2>2
  <2> QED BY <2>0, <2>1, <2>2, <1>5
<1>15. \A k \in DOMAIN rest : rest[k] # victim
  BY <1>3, <1>4, <1>14
<1>16. \A m \in DOMAIN list : m # n => \E k \in DOMAIN rest : rest[k] = list[m]
  <2> SUFFICES ASSUME NEW m \in DOMAIN list, m # n
               PROVE  \E k \in DOMAIN rest : rest[k] = list[m]
    OBVIOUS
  <2>0. m \in 1 .. Len(list) /\ n \in 1 .. Len(list) /\ DOMAIN rest = 1 .. Len(list) - 1
    BY <1>5, <1>6, <1>3
  <2> HIDE DEF list
  <2>1. CASE m < n
    BY <1>5, <1>6, <2>0, <2>1
  <2>2. CASE m > n
    <3>1. m - 1 \in n .. Len(list) - 1 /\ m - 1 \in 1 .. Len(list) - 1
      BY <1>5, <2>0, <2>2
    <3>2. rest[m - 1] = list[m]
      BY <1>5, <1>6, <2>0, <3>1
    <3> QED BY <2>0, <3>1, <3>2
  <2> QED BY <2>0, <2>1, <2>2, <1>5
<1>17. \A f \in Entries : Newest(f) # victim => Newest(f)' = Newest(f)
  <2> SUFFICES ASSUME NEW f \in Entries, Newest(f) # victim PROVE Newest(f)' = Newest(f)
    OBVIOUS
  <2>1. CASE f # e
    BY <1>10, <2>1 DEF Newest
  <2>2. CASE f = e
    <3>0. n \in 1 .. Len(list) /\ list # <<>>
      BY <1>3, <1>5
    <3>1. Newest(f) = list[Len(list)]
      BY <2>2, <3>0 DEF Newest, Last
    <3>2. n < Len(list)
      BY <1>3, <1>5, <2>2, <3>0, <3>1
    <3>3. Len(rest) = Len(list) - 1 /\ Len(rest) >= n /\ rest # <<>>
          /\ rest[Len(rest)] = list[Len(list)]
      <4> HIDE DEF list
      <4>1. Len(rest) = Len(list) - 1 /\ Len(list) - 1 \in n .. Len(list) - 1
        BY <1>5, <1>6, <3>0, <3>2
      <4>2. rest[Len(list) - 1] = list[(Len(list) - 1) + 1] /\ (Len(list) - 1) + 1 = Len(list)
        BY <1>5, <1>6, <4>1
      <4> QED BY <4>1, <4>2, <3>0, <1>5
    <3>4. Newest(f)' = rest[Len(rest)]
      BY <1>10, <2>2, <3>3 DEF Newest, Last
    <3> QED BY <3>1, <3>3, <3>4
  <2> QED BY <2>1, <2>2
<1>18. Listed'
  <2>1. ASSUME NEW f \in Entries, NEW k \in DOMAIN byEntry'[f]
        PROVE  inst'[byEntry'[f][k]].st # "free" /\ inst'[byEntry'[f][k]].entry = f
    <3>1. CASE f # e
      <4>1. byEntry'[f][k] = byEntry[f][k] /\ k \in DOMAIN byEntry[f] /\ byEntry[f][k] \in Slot
        BY <1>2, <1>10, <2>1, <3>1
      <4>2. inst[byEntry[f][k]].entry = f /\ inst[byEntry[f][k]].st # "free"
        BY <4>1 DEF Listed
      <4>3. byEntry[f][k] # victim
        BY <3>1, <4>2
      <4> QED BY <1>9, <4>1, <4>2, <4>3
    <3>2. CASE f = e
      <4>1. PICK m \in DOMAIN list : rest[k] = list[m] /\ m # n
        BY <1>10, <1>14, <2>1, <3>2
      <4>2. inst[list[m]].entry = e /\ inst[list[m]].st # "free" /\ list[m] \in Slot
        BY <1>2, <1>5, <4>1 DEF Listed
      <4>3. list[m] # victim
        BY <1>3, <1>4, <4>1
      <4> QED BY <1>9, <1>10, <3>2, <4>1, <4>2, <4>3
    <3> QED BY <3>1, <3>2
  <2>2. ASSUME NEW f \in Entries, NEW k \in DOMAIN byEntry'[f], NEW l \in DOMAIN byEntry'[f],
               byEntry'[f][k] = byEntry'[f][l]
        PROVE  k = l
    <3>1. CASE f # e
      BY <1>10, <2>2, <3>1 DEF Listed
    <3>2. CASE f = e
      <4>1. k \in 1 .. Len(list) - 1 /\ l \in 1 .. Len(list) - 1 /\ n \in 1 .. Len(list)
            /\ rest[k] = rest[l]
        BY <1>3, <1>5, <1>6, <1>10, <2>2, <3>2
      <4>2. rest[k] = (IF k < n THEN list[k] ELSE list[k + 1])
            /\ rest[l] = (IF l < n THEN list[l] ELSE list[l + 1])
        <5> HIDE DEF list
        <5> QED BY <1>5, <1>6, <4>1
      <4> DEFINE a == IF k < n THEN k ELSE k + 1
                 b == IF l < n THEN l ELSE l + 1
      <4>3. a \in 1 .. Len(list) /\ b \in 1 .. Len(list)
        BY <1>5, <4>1
      <4>4. rest[k] = list[a] /\ rest[l] = list[b]
        BY <4>2
      <4>5. a = b
        BY <1>4, <1>5, <4>1, <4>3, <4>4
      <4> QED BY <1>5, <4>1, <4>5
    <3> QED BY <3>1, <3>2
  <2>3. ASSUME NEW i \in Registered'
        PROVE  /\ inst'[i].entry \in Entries
               /\ \E k \in DOMAIN byEntry'[inst'[i].entry] : byEntry'[inst'[i].entry][k] = i
    <3>1. i \in Registered /\ i # victim /\ i \in Slot /\ inst'[i] = inst[i]
      BY <1>9, <1>11, <2>3 DEF Registered
    <3>2. inst[i].entry \in Entries
      BY <3>1 DEF Listed
    <3>3. PICK m \in DOMAIN byEntry[inst[i].entry] : byEntry[inst[i].entry][m] = i
      BY <3>1 DEF Listed
    <3>4. CASE inst[i].entry # e
      BY <1>10, <3>1, <3>2, <3>3, <3>4
    <3>5. CASE inst[i].entry = e
      BY <1>3, <1>10, <1>16, <3>1, <3>2, <3>3, <3>5
    <3> QED BY <3>4, <3>5
  <2> QED BY <2>1, <2>2, <2>3 DEF Listed
<1>19. \A f \in Entries : Newest(f)' # victim
  <2> SUFFICES ASSUME NEW f \in Entries, Newest(f)' = victim PROVE FALSE
    OBVIOUS
  <2>1. byEntry'[f] \in Seq(Slot) /\ byEntry'[f] # <<>> /\ victim = byEntry'[f][Len(byEntry'[f])]
    BY <1>10 DEF Newest, Last
  <2>2. Len(byEntry'[f]) \in DOMAIN byEntry'[f]
    BY <2>1
  <2>3. inst'[victim].st # "free"
    BY <1>18, <2>1, <2>2 DEF Listed
  <2> QED BY <1>9, <2>3 DEF FreeInstance
<1>20. Wired'
  <2> SUFFICES ASSUME NEW i \in Registered'
               PROVE  /\ inst'[i].deps \subseteq inst'[i].ident
                      /\ \A d \in inst'[i].ident \cap Registered' :
                           inst'[d].entry \in Requires[inst'[i].entry]
                      /\ \A d \in inst'[i].ident \cap Slot :
                           inst'[d].st = "active" => d \in inst'[i].deps
    BY DEF Wired
  <2>1. i \in Registered /\ i \in Slot /\ inst'[i] = inst[i]
    BY <1>9, <1>11 DEF Registered
  <2>2. \A d \in Registered' : d \in Registered /\ inst'[d] = inst[d]
    BY <1>9, <1>11 DEF Registered
  <2>3. \A d \in Slot : inst'[d].st = "active" => inst[d].st = "active"
    BY <1>9 DEF FreeInstance
  <2> QED BY <2>1, <2>2, <2>3 DEF Wired
<1>21. Counted'
  <2>1. FreeInstance.refs = 0
    BY DEF FreeInstance
  <2> QED BY <1>9, <1>13, <2>1 DEF Counted
<1>22. Whole'
  <2>1. \A g \in Live : contents[g] \subseteq Slot /\ victim \notin contents[g]
    BY <1>12 DEF Reached, TypeOK, Live, LiveIn
  <2>2. \A g \in Live : \A j \in contents[g] : inst'[j] = inst[j] /\ inst[j].deps \subseteq contents[g]
    BY <1>9, <2>1 DEF Whole
  <2>3. \A g \in Live : \A j \in contents[g] : \A d \in inst[j].deps : inst'[d] = inst[d]
    BY <2>2
  <2> QED BY <1>13, <2>2, <2>3 DEF Whole
<1> QED BY <1>9, <1>10, <1>11, <1>12, <1>13, <1>17, <1>18, <1>19, <1>20, <1>21, <1>22

(* The end of a disposal, or a cancellation right after it during a retry. *)
LEMMA DisposeEndStep ==
    ASSUME Inv, NEW x, DisposeEnd(x)
    PROVE  Inv'
<1> USE DEF Inv
<1>1. /\ victim # None /\ Forget(victim) /\ Handled(victim)
      /\ UNCHANGED <<cancels, hstate, stopping, desired, revision, changes, dirty, planned, owner,
                     queue, plan, at, entryRev, ordered, gstate, contents, current,
                     built, terminal, pc, hold>>
  BY DEF DisposeEnd, desiredVars, lockVars, genVars, taskVars
<1>2. /\ inst' \in [Slot -> Instance] /\ byEntry' \in [Entries -> Seq(Slot)]
      /\ Registered' = Registered \ {victim}
      /\ \A j \in Slot : j # victim => inst'[j] = inst[j]
      /\ ~Reached(victim)
      /\ Live' = Live /\ \A j : Reached(j)' <=> Reached(j)
      /\ \A e \in Entries : Newest(e) # victim => Newest(e)' = Newest(e)
      /\ \A e \in Entries : Newest(e)' # victim
      /\ Listed' /\ Wired' /\ Counted' /\ Whole'
  BY <1>1, ForgetMeans
<1>3. /\ victim' = None /\ work' = work \ {victim}
      /\ mounted' = IF phase = "rollback" THEN Front(mounted) ELSE mounted
      /\ phase' = IF phase = "retry" THEN "mounting" ELSE phase
  BY <1>1 DEF Handled
<1>4. /\ victim \in Slot /\ victim \in Registered
      /\ inst[victim].st \in {"unloading", "failed"}
      /\ \/ phase = "retry" /\ victim = Newest(Entry)
         \/ phase = "rollback" /\ mounted # <<>> /\ victim = Last(mounted)
         \/ phase \in {"reclaim", "teardown"} /\ victim \in work
  BY <1>1 DEF Disposing, TypeOK, Registered
<1>5. mounted' \in Seq(Slot) /\ phase' \in Phases /\ Entry' = Entry
  <2>1. Front(mounted) \in Seq(Slot) \/ mounted = <<>>
    BY FrontMeans DEF TypeOK
  <2> QED BY <1>1, <1>3, <1>4, <2>1 DEF TypeOK, Phases, Entry
<1>6. TypeOK'
  BY <1>1, <1>2, <1>3, <1>5 DEF TypeOK, Instance
<1>7. Locked' /\ GenerationsKnown'
  BY <1>1, <1>2, <1>3, <1>4 DEF Locked, Stopped, GenerationsKnown
<1>8. \A i \in Slot : i # victim => inst'[i] = inst[i]
  BY <1>2
<1>9. InTransit'
  <2> SUFFICES ASSUME NEW i \in Slot
               PROVE  /\ inst'[i].st = "loading" => phase' = "setup" /\ i = Newest(Entry)'
                      /\ inst'[i].st = "unloading" => i = victim'
                      /\ inst'[i].st = "failed" => i = Newest(inst[i].entry)'
    BY DEF InTransit
  <2>1. CASE i = victim
    BY <1>2, <1>4, <2>1 DEF Registered
  <2>2. CASE i # victim
    <3>1. inst'[i] = inst[i] /\ inst[i].st # "loading"
      BY <1>2, <1>4, <2>2 DEF InTransit
    <3>2. inst[i].st # "unloading"
      BY <2>2 DEF InTransit
    <3>3. inst[i].st = "failed" => i = Newest(inst[i].entry)'
      <4> SUFFICES ASSUME inst[i].st = "failed" PROVE i = Newest(inst[i].entry)'
        OBVIOUS
      <4>1. i \in Registered /\ inst[i].entry \in Entries /\ i = Newest(inst[i].entry)
        BY DEF Registered, Listed, InTransit
      <4> QED BY <1>2, <2>2, <3>1, <4>1
    <3> QED BY <3>1, <3>2, <3>3
  <2> QED BY <2>1, <2>2
<1>10. Candidate'
  <2> SUFFICES ASSUME Materializing' PROVE Candidate'
    BY DEF Candidate
  <2>1. phase = "retry" /\ phase' = "mounting" /\ Materializing /\ victim = Newest(Entry)
    BY <1>3, <1>4 DEF Materializing
  <2>2. /\ at \in DOMAIN ActivationOrder /\ Entry \in plan /\ Entry \in Entries
        /\ \A e \in plan : Requires[e] \subseteq plan
    BY <2>1, OrderMeans DEF Candidate, Entry
  <2>3. inst[victim].entry = Entry
    BY <1>1, <2>1, <2>2, NewestMeans
  <2>4. \A e \in Entries : e # Entry => Newest(e)' = Newest(e)
    <3> SUFFICES ASSUME NEW e \in Entries, e # Entry PROVE Newest(e) # victim
      BY <1>2
    <3> QED BY <1>1, <2>3, NewestMeans
  <2>5. ASSUME NEW i \in ordered
        PROVE  /\ inst'[i].st = "active"
               /\ \E k \in 1 .. at - 1 : ActivationOrder[k] = inst'[i].entry
               /\ inst'[i].entry \in plan
               /\ i = Newest(inst[i].entry)'
               /\ inst'[i].ident = Identity(inst[i].entry)'
    <3>1. /\ inst[i].st = "active" /\ inst[i].entry \in plan /\ i = Newest(inst[i].entry)
          /\ inst[i].ident = Identity(inst[i].entry)
      BY <2>1 DEF Candidate
    <3>2. PICK k \in 1 .. at - 1 : ActivationOrder[k] = inst[i].entry
      BY <2>1 DEF Candidate
    <3>3. i \in Slot /\ i # victim /\ inst'[i] = inst[i]
      BY <1>2, <1>4, <3>1 DEF TypeOK
    <3>4. k \in DOMAIN ActivationOrder /\ k # at /\ inst[i].entry \in Entries /\ inst[i].entry # Entry
      BY <2>2, <3>2, OrderMeans DEF Entry
    <3>5. \A r \in Requires[inst[i].entry] : r \in Entries /\ r # Entry
      BY <2>2, <3>2, <3>4, OrderMeans DEF Entry
    <3>6. Identity(inst[i].entry)' = Identity(inst[i].entry)
      BY <2>4, <3>3, <3>5 DEF Identity
    <3> QED BY <2>4, <3>1, <3>2, <3>3, <3>4, <3>6
  <2> QED BY <1>1, <1>5, <2>2, <2>5 DEF Candidate
<1>11. AtHand'
  <2>1. phase' = "mounting" /\ Newest(Entry)' # None => inst'[Newest(Entry)'].st # "failed"
    <3> SUFFICES ASSUME phase' = "mounting", Newest(Entry)' # None,
                        inst'[Newest(Entry)'].st = "failed"
                 PROVE  FALSE
      OBVIOUS
    <3> DEFINE n == Newest(Entry)'
    <3>1. CASE phase = "mounting"
      BY <1>4, <3>1
    <3>2. CASE phase = "retry"
      <4>1. Entry \in Entries
        BY <3>2, OrderMeans DEF Candidate, Materializing, Entry
      <4>2. n \in Slot /\ inst'[n].entry = Entry /\ n # victim
        BY <1>2, <1>5, <4>1, NewestNext
      <4>3. inst'[n] = inst[n]
        BY <1>2, <4>2
      <4>4. n = Newest(Entry)
        BY <4>2, <4>3 DEF InTransit
      <4> QED BY <1>4, <3>2, <4>2, <4>4
    <3> QED BY <1>3, <3>1, <3>2
  <2>2. phase' \notin {"retry", "setup", "mounted"}
    BY <1>3, <1>4
  <2> QED BY <1>5, <2>1, <2>2 DEF AtHand
<1>12. Mounted'
  <2>1. CASE phase = "retry"
    <3>1. /\ Materializing /\ Materializing' /\ mounted' = mounted
          /\ Range(mounted) \subseteq ordered
          /\ \A k \in DOMAIN mounted : mounted[k] \in Registered /\ ~Reached(mounted[k])
      BY <1>3, <2>1 DEF Materializing, Mounted
    <3>2. \A k \in DOMAIN mounted : mounted[k] \in ordered
      BY <3>1 DEF Range
    <3>3. \A k \in DOMAIN mounted : mounted[k] \in Slot /\ mounted[k] # victim
                                   /\ inst'[mounted[k]] = inst[mounted[k]]
      BY <1>2, <1>4, <3>1, <3>2 DEF Candidate, Registered
    <3>4. phase' = "mounting"
      BY <1>3, <2>1
    <3> QED BY <1>1, <1>2, <3>1, <3>3, <3>4 DEF Mounted
  <2>2. CASE phase = "rollback"
    <3>1. mounted # <<>> /\ mounted \in Seq(Slot) /\ victim = mounted[Len(mounted)]
      BY <1>4, <2>2 DEF Last, TypeOK
    <3>2. /\ Len(mounted') = Len(mounted) - 1
          /\ \A k \in DOMAIN mounted' : mounted'[k] = mounted[k] /\ k \in DOMAIN mounted
                                        /\ k < Len(mounted)
      BY <1>3, <2>2, <3>1, FrontMeans
    <3>3. \A k, l \in DOMAIN mounted : k < l =>
              \E m, n \in DOMAIN ActivationOrder :
                 /\ m < n
                 /\ ActivationOrder[m] = inst[mounted[k]].entry
                 /\ ActivationOrder[n] = inst[mounted[l]].entry
      BY <2>2 DEF Mounted
    <3>4. ASSUME NEW k \in DOMAIN mounted'
          PROVE  mounted'[k] = mounted[k] /\ mounted[k] \in Slot /\ mounted[k] # victim
                 /\ mounted[k] \in Registered /\ ~Reached(mounted[k])
      <4>1. k \in DOMAIN mounted /\ Len(mounted) \in DOMAIN mounted /\ k < Len(mounted)
        BY <3>1, <3>2
      <4>2. mounted[k] \in Registered /\ ~Reached(mounted[k])
        BY <2>2, <4>1 DEF Mounted
      <4>3. PICK m \in DOMAIN ActivationOrder, n \in DOMAIN ActivationOrder :
                 /\ m < n
                 /\ ActivationOrder[m] = inst[mounted[k]].entry
                 /\ ActivationOrder[n] = inst[mounted[Len(mounted)]].entry
        BY <3>3, <4>1
      <4>4. m # n
        BY <4>3, OrderMeans
      <4>5. mounted[k] # victim
        BY <3>1, <4>3, <4>4, OrderMeans
      <4> QED BY <3>2, <4>2, <4>5 DEF Registered
    <3>5. phase' = "rollback" /\ ~Materializing'
      BY <1>3, <2>2 DEF Materializing
    <3>6. \A k \in DOMAIN mounted' : inst'[mounted'[k]] = inst[mounted[k]]
      BY <1>2, <3>4
    <3> QED BY <1>2, <3>2, <3>3, <3>4, <3>5, <3>6 DEF Mounted
  <2>3. CASE phase \in {"reclaim", "teardown"}
    BY <1>3, <2>3 DEF Mounted, Materializing
  <2> QED BY <1>4, <2>1, <2>2, <2>3
<1>13. Disposing'
  BY <1>1, <1>2, <1>3, <1>4 DEF Disposing
<1> QED BY <1>2, <1>6, <1>7, <1>9, <1>10, <1>11, <1>12, <1>13

(* A cancellation is counted within the bound. *)
LEMMA CancelCounted == TypeOK /\ CountCancel => cancels' \in 0 .. MaxCancels
BY HarnessAssumption DEF TypeOK, CountCancel

(* A cancellation at an await of the loop's, while nothing is in transit:  *)
(* what was mounted is rolled back.                                        *)
LEMMA RollBackStep ==
    ASSUME Inv, phase \in {"retry", "mounting", "mounted"}, phase' = "rollback",
           victim = None, CountCancel,
           UNCHANGED <<hstate, stopping, desired, revision, changes, dirty, planned, owner, queue,
                       plan, at, entryRev, ordered, mounted, work, victim, inst, byEntry,
                       gstate, contents, current, built, terminal, pc, hold>>
    PROVE  Inv'
<1> USE DEF Inv
<1>1. TypeOK'
  BY CancelCounted DEF TypeOK, Phases
<1>2. /\ Registered' = Registered /\ Live' = Live
      /\ \A e : Newest(e)' = Newest(e) /\ Identity(e)' = Identity(e)
      /\ \A i : Reached(i)' <=> Reached(i)
      /\ Listed' /\ Wired' /\ Counted' /\ Whole'
  BY RegistryKept
<1>3. Locked' /\ GenerationsKnown'
  BY <1>2 DEF Locked, Stopped, GenerationsKnown
<1>4. Materializing /\ ~Materializing'
  BY DEF Materializing
<1>5. InTransit'
  BY <1>2 DEF InTransit
<1>6. Candidate' /\ AtHand'
  BY <1>4 DEF Candidate, AtHand
<1>7. Mounted'
  BY <1>2, <1>4 DEF Mounted
<1>8. Disposing'
  BY <1>2 DEF Disposing
<1> QED BY <1>1, <1>2, <1>3, <1>5, <1>6, <1>7, <1>8

LEMMA CancelMountStep == ASSUME Inv, NEW t \in Tasks, CancelMount(t) PROVE Inv'
<1>1. phase \in {"mounting", "mounted"} /\ phase' = "rollback" /\ CountCancel
      /\ UNCHANGED <<hstate, stopping, desired, revision, changes, dirty, planned, owner, queue,
                     plan, at, entryRev, ordered, mounted, work, victim, inst, byEntry,
                     gstate, contents, current, built, terminal, pc, hold>>
  BY DEF CancelMount, desiredVars, lockVars, candidateVars, disposalVars, instVars, genVars, taskVars
<1>2. victim = None
  BY <1>1 DEF Inv, Disposing
<1> QED BY <1>1, <1>2, RollBackStep

LEMMA CancelUnmountStep == ASSUME Inv, NEW t \in Tasks, CancelUnmount(t) PROVE Inv'
<1> USE DEF Inv
<1>1. /\ CountCancel /\ owner = t /\ victim = None
      /\ UNCHANGED <<hstate, stopping, desired, revision, changes, dirty, planned,
                     inst, byEntry, gstate, contents, current, built, terminal>>
  BY DEF CancelUnmount, Owning, desiredVars, instVars, genVars
<1>2. phase \in {"retry", "rollback", "reclaim", "teardown"}
  BY DisposableMeans DEF CancelUnmount
<1>3. CASE phase = "retry"
  <2>1. phase' = "rollback"
        /\ UNCHANGED <<owner, queue, plan, at, entryRev, ordered, mounted, work, victim, pc, hold>>
    BY <1>3 DEF CancelUnmount, lockVars, candidateVars, disposalVars, taskVars
  <2> QED BY <1>1, <1>3, <2>1, RollBackStep
<1>4. CASE phase # "retry"
  <2>1. Unlock /\ pc' = [pc EXCEPT ![t] = "idle"] /\ hold' = hold
    BY <1>4 DEF CancelUnmount, Abort
  <2>2. pc' \in [Tasks -> {"idle", "reconcile", "ensure", "ready", "run", "reclaim"}]
    BY <2>1 DEF TypeOK
  <2>3. terminal => hstate = "stopped"
    BY <1>1, HarnessAssumption DEF Locked
  <2>4. hstate = "stopped" => Registered = {} /\ terminal /\ Live = {}
    BY DEF Disposing, Locked, GenerationsKnown
  <2>5. cancels' \in 0 .. MaxCancels
    BY <1>1, CancelCounted
  <2> QED BY <1>1, <1>2, <2>1, <2>2, <2>3, <2>4, <2>5, UnlockOnly
<1> QED BY <1>3, <1>4

LEMMA CancelUnmountedStep == ASSUME Inv, NEW t \in Tasks, CancelUnmounted(t) PROVE Inv'
<1> USE DEF Inv
<1>1. /\ CountCancel /\ owner = t /\ victim # None /\ Forget(victim)
      /\ UNCHANGED <<hstate, stopping, desired, revision, changes, dirty, planned,
                     gstate, contents, current, built, terminal>>
  BY DEF CancelUnmounted, Owning, desiredVars, genVars
<1>2. /\ inst' \in [Slot -> Instance] /\ byEntry' \in [Entries -> Seq(Slot)]
      /\ Registered' = Registered \ {victim}
      /\ \A j \in Slot : j # victim => inst'[j] = inst[j]
      /\ ~Reached(victim)
      /\ Live' = Live /\ \A j : Reached(j)' <=> Reached(j)
      /\ \A e \in Entries : Newest(e) # victim => Newest(e)' = Newest(e)
      /\ Listed' /\ Wired' /\ Counted' /\ Whole'
  BY <1>1, ForgetMeans
<1>3. /\ victim \in Slot /\ victim \in Registered
      /\ inst[victim].st \in {"unloading", "failed"}
      /\ \/ phase = "retry" /\ victim = Newest(Entry)
         \/ phase = "rollback" /\ mounted # <<>> /\ victim = Last(mounted)
         \/ phase \in {"reclaim", "teardown"} /\ victim \in work
  BY <1>1 DEF Disposing, TypeOK, Registered
<1>4. ASSUME NEW i \in Slot, inst'[i].st # "free"
      PROVE  /\ i # victim /\ inst'[i] = inst[i]
             /\ inst'[i].st \in {"active", "failed"}
             /\ inst'[i].st = "failed" => i = Newest(inst[i].entry)'
  <2>1. i # victim /\ inst'[i] = inst[i] /\ i \in Registered
    BY <1>2, <1>4 DEF Registered
  <2>2. inst[i].st \in {"active", "failed"}
    <3>1. inst[i].st \in InstanceStates
      BY DEF TypeOK
    <3> QED BY <1>3, <2>1, <3>1 DEF InTransit, InstanceStates, Registered
  <2>3. inst[i].entry \in Entries
    BY <2>1 DEF Listed
  <2> QED BY <1>2, <2>1, <2>2, <2>3 DEF InTransit
<1>5. CASE phase = "retry"
  <2>1. phase' = "rollback" /\ victim' = None
        /\ UNCHANGED <<owner, queue, plan, at, entryRev, ordered, mounted, work, pc, hold>>
    BY <1>5 DEF CancelUnmounted, lockVars, candidateVars, taskVars
  <2>2. TypeOK'
    BY <1>1, <1>2, <2>1, CancelCounted DEF TypeOK, Phases, Instance
  <2>3. Locked' /\ GenerationsKnown'
    BY <1>1, <1>2, <1>5, <2>1 DEF Locked, Stopped, GenerationsKnown
  <2>4. Materializing /\ ~Materializing'
    BY <1>5, <2>1 DEF Materializing
  <2>5. InTransit'
    BY <1>4 DEF InTransit
  <2>6. Candidate' /\ AtHand'
    BY <2>1, <2>4 DEF Candidate, AtHand
  <2>7. Mounted'
    <3>1. \A k \in DOMAIN mounted : mounted[k] \in ordered
      BY <2>4 DEF Mounted, Range
    <3>2. \A k \in DOMAIN mounted : /\ mounted[k] \in Slot /\ mounted[k] # victim
                                    /\ mounted[k] \in Registered /\ ~Reached(mounted[k])
                                    /\ inst'[mounted[k]] = inst[mounted[k]]
      BY <1>2, <1>3, <2>4, <3>1 DEF Candidate, Mounted, Registered
    <3> QED BY <1>2, <2>1, <2>4, <3>2 DEF Mounted
  <2>8. Disposing'
    BY <1>1, <1>2, <2>1 DEF Disposing
  <2> QED BY <1>2, <2>2, <2>3, <2>5, <2>6, <2>7, <2>8
<1>6. CASE phase # "retry"
  <2>1. Unlock /\ pc' = [pc EXCEPT ![t] = "idle"] /\ hold' = hold
    BY <1>6 DEF CancelUnmounted, Abort
  <2>2. pc' \in [Tasks -> {"idle", "reconcile", "ensure", "ready", "run", "reclaim"}]
        /\ dirty' \in BOOLEAN /\ planned' \in BOOLEAN
    BY <1>1, <2>1 DEF TypeOK
  <2>3. terminal => hstate = "stopped"
    BY <1>1, <1>3, HarnessAssumption DEF Locked
  <2>4. hstate' = "stopped" => Registered' = {} /\ terminal
    BY <1>1, <1>2 DEF Disposing, Locked
  <2>5. cancels' \in 0 .. MaxCancels
    BY <1>1, CancelCounted
  <2>6. GenerationsKnown'
    <3>1. phase' # "teardown"
      BY <2>1, UnlockMeans
    <3> QED BY <1>1, <1>2, <2>1, <3>1 DEF GenerationsKnown
  <2>7. \A i \in Slot : inst'[i].st # "free" =>
               /\ inst'[i].st \in {"active", "failed"}
               /\ inst'[i].st = "failed" => i = Newest(inst[i].entry)'
    BY <1>4
  <2> QED BY <1>1, <1>2, <2>1, <2>2, <2>3, <2>4, <2>5, <2>6, <2>7, UnlockStep
<1> QED BY <1>5, <1>6

(***************************************************************************)
(* Mounting                                                                *)
(***************************************************************************)

(* The entry at hand is none of the candidate's, and no instance of the    *)
(* candidate requires it.                                                  *)
LEMMA EntryAtHand ==
    ASSUME Inv, Materializing
    PROVE  /\ at \in DOMAIN ActivationOrder /\ Entry \in plan /\ Entry \in Entries
           /\ Requires[Entry] \subseteq Entries \ {Entry}
           /\ \A i \in ordered : /\ i \in Slot /\ inst[i].st = "active"
                                 /\ inst[i].entry \in Entries \ {Entry}
                                 /\ Requires[inst[i].entry] \subseteq Entries \ {Entry}
                                 /\ i = Newest(inst[i].entry)
                                 /\ inst[i].ident = Identity(inst[i].entry)
<1> USE DEF Inv
<1>1. at \in DOMAIN ActivationOrder /\ Entry \in plan /\ Entry \in Entries
  BY OrderMeans DEF Candidate, Entry
<1>2. \A r \in Requires[Entry] : r \in Entries /\ r # Entry
  BY <1>1, OrderMeans DEF Entry
<1>3. ASSUME NEW i \in ordered
      PROVE  /\ i \in Slot /\ inst[i].st = "active"
             /\ inst[i].entry \in Entries \ {Entry}
             /\ Requires[inst[i].entry] \subseteq Entries \ {Entry}
             /\ i = Newest(inst[i].entry)
             /\ inst[i].ident = Identity(inst[i].entry)
  <2>1. PICK k \in 1 .. at - 1 : ActivationOrder[k] = inst[i].entry
    BY DEF Candidate
  <2>2. k \in DOMAIN ActivationOrder /\ k # at /\ inst[i].entry \in Entries /\ inst[i].entry # Entry
    BY <1>1, <2>1, OrderMeans DEF Entry
  <2>3. \A r \in Requires[inst[i].entry] : r \in Entries /\ r # Entry
    BY <1>1, <2>1, <2>2, OrderMeans DEF Entry
  <2> QED BY <2>2, <2>3 DEF Candidate, TypeOK
<1> QED BY <1>1, <1>2, <1>3

(* A new instance is registered, loading, under its entry. *)
LEMMA MountMeans ==
    ASSUME Inv, NEW t \in Tasks, Mount(t)
    PROVE  \E i \in Unused :
             /\ inst' = [inst EXCEPT ![i] = [entry |-> Entry, rev |-> entryRev, st |-> "loading",
                                             ident |-> Identity(Entry), deps |-> Resolved(Entry),
                                             refs |-> 0]]
             /\ byEntry' = [byEntry EXCEPT ![Entry] = Append(byEntry[Entry], i)]
<1> DEFINE i == CHOOSE i \in Unused : \A j \in Unused : i <= j
<1>1. Unused \subseteq Nat /\ Unused # {}
  BY SlotsAreNumbers DEF Mount, Unused
<1>2. Min(Unused) \in Unused /\ \A j \in Unused : Min(Unused) <= j
  BY <1>1, LeastMember
<1>3. i \in Unused
  BY <1>2
<1>4. /\ inst' = [inst EXCEPT ![i] = [entry |-> Entry, rev |-> entryRev, st |-> "loading",
                                      ident |-> Identity(Entry), deps |-> Resolved(Entry),
                                      refs |-> 0]]
      /\ byEntry' = [byEntry EXCEPT ![Entry] = Append(byEntry[Entry], i)]
  BY DEF Mount
<1> HIDE DEF i
<1> QED BY <1>3, <1>4

(* The providers an entry of the plan is resolved to. *)
LEMMA IdentityMeans ==
    ASSUME Inv, NEW e \in Entries, Requires[e] \subseteq Entries
    PROVE  /\ Identity(e) \subseteq Slot \cup {None}
           /\ \A d \in Identity(e) : d # None => /\ d \in Registered
                                                 /\ inst[d].entry \in Requires[e]
           /\ Resolved(e) \subseteq Slot /\ Resolved(e) \subseteq Identity(e)
<1>1. ASSUME NEW d \in Identity(e)
      PROVE  d \in Slot \cup {None} /\ (d # None => d \in Registered /\ inst[d].entry \in Requires[e])
  <2>1. PICK r \in Requires[e] : d = Newest(r)
    BY DEF Identity
  <2> QED BY <2>1, NewestMeans DEF Inv
<1> QED BY <1>1 DEF Resolved

LEMMA MountStep == ASSUME Inv, NEW t \in Tasks, Mount(t) PROVE Inv'
<1> USE DEF Inv
<1>1. /\ phase = "mounting" /\ phase' = "setup"
      /\ UNCHANGED <<cancels, hstate, stopping, desired, revision, changes, dirty, planned, owner,
                     queue, plan, at, entryRev, ordered, mounted, work, victim, gstate, contents,
                     current, built, terminal, pc, hold>>
  BY DEF Mount, desiredVars, lockVars, candidateVars, disposalVars, genVars, taskVars
<1>2a. Materializing /\ Materializing'
  BY <1>1 DEF Materializing
<1>2b. PICK e \in Entries : e = Entry
  BY <1>2a, EntryAtHand
<1> DEFINE new(i) == [entry |-> e, rev |-> entryRev, st |-> "loading",
                      ident |-> Identity(e), deps |-> Resolved(e), refs |-> 0]
<1>2. PICK i \in Unused : /\ inst' = [inst EXCEPT ![i] = new(i)]
                          /\ byEntry' = [byEntry EXCEPT ![e] = Append(byEntry[e], i)]
  BY <1>2b, MountMeans
<1>3. i \in Slot /\ i # None /\ inst[i].st = "free" /\ \A j \in Registered : i \notin inst[j].ident
      /\ i \notin Registered
  BY SlotsAreNumbers DEF Unused, Registered
<1>4. Materializing /\ Materializing' /\ e = Entry
  BY <1>2a, <1>2b
<1>5. /\ at \in DOMAIN ActivationOrder /\ e \in plan /\ e \in Entries
      /\ Requires[e] \subseteq Entries \ {e}
  BY <1>4, EntryAtHand
<1>6. /\ Identity(e) \subseteq Slot \cup {None}
      /\ \A d \in Identity(e) : d # None => d \in Registered /\ inst[d].entry \in Requires[e]
      /\ Resolved(e) \subseteq Slot /\ Resolved(e) \subseteq Identity(e)
  BY <1>5, IdentityMeans
<1>7. inst \in [Slot -> Instance] /\ byEntry \in [Entries -> Seq(Slot)] /\ byEntry[e] \in Seq(Slot)
      /\ entryRev \in Nat
  BY <1>5 DEF TypeOK, Instance
<1>8. new(i) \in Instance
  BY <1>5, <1>6, <1>7 DEF Instance, InstanceStates
<1>9. /\ inst' \in [Slot -> Instance] /\ inst'[i] = new(i)
      /\ \A j \in Slot : j # i => inst'[j] = inst[j]
  <2> HIDE DEF new
  <2> QED BY <1>2, <1>3, <1>7, <1>8
<1>10. /\ new(i).entry = e /\ new(i).st = "loading" /\ new(i).ident = Identity(e)
       /\ new(i).deps = Resolved(e) /\ new(i).refs = 0
  OBVIOUS
<1> HIDE DEF new
<1>11. /\ Append(byEntry[e], i) \in Seq(Slot)
       /\ Len(Append(byEntry[e], i)) = Len(byEntry[e]) + 1
       /\ \A k \in 1 .. Len(byEntry[e]) : Append(byEntry[e], i)[k] = byEntry[e][k]
       /\ Append(byEntry[e], i)[Len(byEntry[e]) + 1] = i
       /\ Len(byEntry[e]) \in Nat /\ DOMAIN byEntry[e] = 1 .. Len(byEntry[e])
       /\ DOMAIN Append(byEntry[e], i) = 1 .. Len(byEntry[e]) + 1
  BY <1>3, <1>7, AppendProperties
<1>12. /\ byEntry' \in [Entries -> Seq(Slot)] /\ byEntry'[e] = Append(byEntry[e], i)
       /\ \A f \in Entries : f # e => byEntry'[f] = byEntry[f]
  BY <1>2, <1>5, <1>7, <1>11
<1>13. Entry' = e /\ Registered' = Registered \cup {i}
  BY <1>1, <1>3, <1>4, <1>9, <1>10 DEF Entry, Registered
<1>14. /\ Live' = Live /\ (\A j : Reached(j)' <=> Reached(j)) /\ ~Reached(i)
  <2>1. Live' = Live
    BY <1>1 DEF Live, LiveIn
  <2>2. ~Reached(i)
    BY <1>3, OnlyActiveReached
  <2> QED BY <1>1, <2>1, <2>2 DEF Reached
<1>15. Newest(e)' = i /\ \A f \in Entries : f # e => Newest(f)' = Newest(f)
  BY <1>11, <1>12 DEF Newest, Last
<1>16. \A f \in Entries : Requires[f] \subseteq Entries \ {e} => Identity(f)' = Identity(f)
  BY <1>15 DEF Identity
<1>17. TypeOK'
  BY <1>1, <1>9, <1>12 DEF TypeOK, Instance, Phases
<1>18. Locked'
  BY <1>1 DEF Locked, Stopped
<1>19. GenerationsKnown'
  BY <1>1, <1>14 DEF GenerationsKnown
<1>20. Listed'
  <2>1. ASSUME NEW f \in Entries, NEW k \in DOMAIN byEntry'[f]
        PROVE  inst'[byEntry'[f][k]].st # "free" /\ inst'[byEntry'[f][k]].entry = f
    <3>1. CASE f # e \/ k \in DOMAIN byEntry[e]
      <4>1. k \in DOMAIN byEntry[f] /\ byEntry'[f][k] = byEntry[f][k] /\ byEntry[f][k] \in Slot
        BY <1>7, <1>11, <1>12, <2>1, <3>1
      <4>2. inst[byEntry[f][k]].st # "free" /\ inst[byEntry[f][k]].entry = f
        BY <4>1 DEF Listed
      <4> QED BY <1>3, <1>9, <4>1, <4>2
    <3>2. CASE f = e /\ k \notin DOMAIN byEntry[e]
      BY <1>9, <1>10, <1>11, <1>12, <2>1, <3>2
    <3> QED BY <3>1, <3>2
  <2>2. \A k \in DOMAIN byEntry[e] : byEntry[e][k] # i
    BY <1>3, <1>5 DEF Listed
  <2>3. ASSUME NEW f \in Entries, NEW k \in DOMAIN byEntry'[f], NEW l \in DOMAIN byEntry'[f],
               byEntry'[f][k] = byEntry'[f][l]
        PROVE  k = l
    <3>1. CASE f # e
      BY <1>12, <2>3, <3>1 DEF Listed
    <3>2. CASE f = e
      <4>1. \A m, n \in DOMAIN byEntry[e] : byEntry[e][m] = byEntry[e][n] => m = n
        BY <1>5 DEF Listed
      <4> DEFINE old == byEntry[e]
      <4>2. /\ k \in 1 .. Len(old) + 1 /\ l \in 1 .. Len(old) + 1 /\ Len(old) \in Nat
            /\ Append(old, i)[k] = Append(old, i)[l]
        BY <1>11, <1>12, <2>3, <3>2
      <4>3. \A m \in 1 .. Len(old) : Append(old, i)[m] = old[m] /\ old[m] # i
        BY <1>11, <2>2
      <4>4. Append(old, i)[Len(old) + 1] = i /\ DOMAIN old = 1 .. Len(old)
        BY <1>11
      <4> HIDE DEF old
      <4>5. CASE k = Len(old) + 1 \/ l = Len(old) + 1
        BY <4>2, <4>3, <4>4, <4>5
      <4>6. CASE k # Len(old) + 1 /\ l # Len(old) + 1
        <5>1. k \in 1 .. Len(old) /\ l \in 1 .. Len(old)
          BY <4>2, <4>6
        <5>2. old[k] = old[l]
          BY <4>2, <4>3, <5>1
        <5> QED BY <4>1, <4>4, <5>1, <5>2 DEF old
      <4> QED BY <4>5, <4>6
    <3> QED BY <3>1, <3>2
  <2>4. ASSUME NEW j \in Registered'
        PROVE  /\ inst'[j].entry \in Entries
               /\ \E k \in DOMAIN byEntry'[inst'[j].entry] : byEntry'[inst'[j].entry][k] = j
    <3>1. CASE j = i
      <4>1. Len(byEntry[e]) + 1 \in DOMAIN byEntry'[e]
        BY <1>11, <1>12
      <4> QED BY <1>5, <1>9, <1>10, <1>11, <1>12, <3>1, <4>1
    <3>2. CASE j # i
      <4>1. j \in Registered /\ j \in Slot /\ inst'[j] = inst[j] /\ inst[j].entry \in Entries
        BY <1>9, <1>13, <2>4, <3>2 DEF Registered, Listed
      <4>2. PICK k \in DOMAIN byEntry[inst[j].entry] : byEntry[inst[j].entry][k] = j
        BY <4>1 DEF Listed
      <4>3. k \in DOMAIN byEntry'[inst[j].entry] /\ byEntry'[inst[j].entry][k] = j
        <5>1. CASE inst[j].entry = e
          <6>1. k \in 1 .. Len(byEntry[e]) /\ Len(byEntry[e]) \in Nat /\ byEntry[e][k] = j
            BY <1>11, <4>2, <5>1
          <6>2. k \in 1 .. Len(byEntry[e]) + 1
            BY <6>1
          <6>3. byEntry'[e][k] = j /\ DOMAIN byEntry'[e] = 1 .. Len(byEntry[e]) + 1
            BY <1>11, <1>12, <6>1
          <6> QED BY <5>1, <6>2, <6>3
        <5>2. CASE inst[j].entry # e
          BY <1>12, <4>1, <4>2, <5>2
        <5> QED BY <5>1, <5>2
      <4> QED BY <4>1, <4>3
    <3> QED BY <3>1, <3>2
  <2> QED BY <2>1, <2>3, <2>4 DEF Listed
<1>21. Wired'
  <2> SUFFICES ASSUME NEW j \in Registered'
               PROVE  /\ inst'[j].deps \subseteq inst'[j].ident
                      /\ \A d \in inst'[j].ident \cap Registered' :
                           inst'[d].entry \in Requires[inst'[j].entry]
                      /\ \A d \in inst'[j].ident \cap Slot :
                           inst'[d].st = "active" => d \in inst'[j].deps
    BY DEF Wired
  <2>1. \A d \in Registered' : d # i => d \in Registered /\ inst'[d] = inst[d]
    BY <1>9, <1>13 DEF Registered
  <2>2. CASE j = i
    <3>1. \A d \in Identity(e) \cap Slot : d # i /\ inst'[d] = inst[d]
      BY <1>3, <1>6, <1>9
    <3>2. inst'[i].deps = Resolved(e) /\ inst'[i].ident = Identity(e) /\ inst'[i].entry = e
      BY <1>9, <1>10
    <3>3. ASSUME NEW d \in Identity(e) \cap Registered' PROVE inst'[d].entry \in Requires[e]
      <4>1. d # i /\ d \in Registered /\ inst'[d] = inst[d] /\ d # None
        BY <2>1, <3>1, <3>3, SlotsAreNumbers DEF Registered
      <4> QED BY <1>6, <3>3, <4>1
    <3>4. ASSUME NEW d \in Identity(e) \cap Slot, inst'[d].st = "active" PROVE d \in Resolved(e)
      BY <3>1, <3>4, SlotsAreNumbers DEF Resolved
    <3> QED BY <1>6, <2>2, <3>2, <3>3, <3>4
  <2>3. CASE j # i
    <3>1. j \in Registered /\ inst'[j] = inst[j] /\ i \notin inst[j].ident
      BY <1>3, <2>1, <2>3
    <3>2. \A d \in inst[j].ident \cap Slot : inst'[d] = inst[d]
      BY <1>9, <3>1
    <3> QED BY <1>13, <2>1, <3>1, <3>2 DEF Wired
  <2> QED BY <2>2, <2>3
<1>22. Counted'
  BY <1>9, <1>10, <1>14 DEF Counted
<1>23. Whole'
  <2>1. \A g \in Live : contents[g] \subseteq Slot /\ i \notin contents[g]
    BY <1>14 DEF Reached, TypeOK, Live, LiveIn
  <2>2. \A g \in Live : \A j \in contents[g] : inst'[j] = inst[j] /\ inst[j].deps \subseteq contents[g]
    BY <1>9, <2>1 DEF Whole
  <2>3. \A g \in Live : \A j \in contents[g] : \A d \in inst[j].deps : inst'[d] = inst[d]
    BY <2>2
  <2> QED BY <1>1, <1>14, <2>2, <2>3 DEF Whole
<1>24. InTransit'
  <2> SUFFICES ASSUME NEW j \in Slot
               PROVE  /\ inst'[j].st = "loading" => phase' = "setup" /\ j = Newest(Entry)'
                      /\ inst'[j].st = "unloading" => j = victim'
                      /\ inst'[j].st = "failed" => j = Newest(inst[j].entry)'
    BY DEF InTransit
  <2>1. CASE j = i
    BY <1>1, <1>9, <1>10, <1>13, <1>15, <2>1
  <2>2. CASE j # i
    <3>1. inst'[j] = inst[j]
      BY <1>9, <2>2
    <3>2. inst[j].st = "failed" => /\ inst[j].entry \in Entries /\ inst[j].entry # e
                                   /\ j = Newest(inst[j].entry)
      <4> SUFFICES ASSUME inst[j].st = "failed"
                   PROVE  /\ inst[j].entry \in Entries /\ inst[j].entry # e
                          /\ j = Newest(inst[j].entry)
        OBVIOUS
      <4>1. j \in Registered /\ j # None
        BY SlotsAreNumbers DEF Registered
      <4> QED BY <1>1, <1>4, <4>1 DEF Listed, InTransit, AtHand
    <3> QED BY <1>1, <1>15, <3>1, <3>2 DEF InTransit
  <2> QED BY <2>1, <2>2
<1>25. \A j \in ordered : j # i /\ inst'[j] = inst[j] /\ j = Newest(inst[j].entry)'
                          /\ inst[j].ident = Identity(inst[j].entry)'
  <2> SUFFICES ASSUME NEW j \in ordered
               PROVE  j # i /\ inst'[j] = inst[j] /\ j = Newest(inst[j].entry)'
                      /\ inst[j].ident = Identity(inst[j].entry)'
    OBVIOUS
  <2>1. /\ j \in Slot /\ inst[j].st = "active"
        /\ inst[j].entry \in Entries \ {e}
        /\ Requires[inst[j].entry] \subseteq Entries \ {e}
        /\ j = Newest(inst[j].entry)
        /\ inst[j].ident = Identity(inst[j].entry)
    BY <1>4, EntryAtHand
  <2> QED BY <1>3, <1>9, <1>15, <1>16, <2>1
<1>26. Candidate'
  BY <1>1, <1>4, <1>13, <1>25 DEF Candidate
<1>27. AtHand'
  <2>1. inst'[i].st = "loading" /\ inst'[i].ident = Identity(e)'
    <3>1. Identity(e)' = Identity(e)
      BY <1>5, <1>16
    <3> QED BY <1>9, <1>10, <3>1
  <2>2. \A j \in Registered' : i \notin inst'[j].ident
    <3> SUFFICES ASSUME NEW j \in Registered' PROVE i \notin inst'[j].ident
      OBVIOUS
    <3>1. CASE j = i
      BY <1>3, <1>6, <1>9, <1>10, <3>1
    <3>2. CASE j # i
      BY <1>3, <1>9, <1>13, <3>2 DEF Registered
    <3> QED BY <3>1, <3>2
  <2>3. \A d \in inst'[i].deps : inst'[d].st = "active"
    <3> SUFFICES ASSUME NEW d \in Resolved(e) PROVE inst'[d].st = "active"
      BY <1>9, <1>10
    <3>1. d \in Slot /\ inst[d].st = "active"
      BY <1>6 DEF Resolved
    <3> QED BY <1>3, <1>9, <3>1
  <2> QED BY <1>1, <1>3, <1>13, <1>14, <1>15, <2>1, <2>2, <2>3 DEF AtHand
<1>28. Mounted'
  <2>1. \A k \in DOMAIN mounted : /\ mounted[k] \in Registered /\ ~Reached(mounted[k])
                                  /\ inst'[mounted[k]] = inst[mounted[k]]
    BY <1>3, <1>4, <1>9 DEF Mounted, Registered
  <2> QED BY <1>1, <1>4, <1>13, <1>14, <2>1 DEF Mounted
<1>29. Disposing'
  BY <1>1 DEF Disposing, Locked
<1> QED BY <1>17, <1>18, <1>19, <1>20, <1>21, <1>22, <1>23, <1>24, <1>26, <1>27, <1>28, <1>29

(* The setup of a plugin returned or raised. *)
LEMMA SetupStep == ASSUME Inv, NEW t \in Tasks, SetupOk(t) \/ SetupFail(t) PROVE Inv'
<1> USE DEF Inv
<1> DEFINE n == Newest(Entry)
           s == IF phase' = "mounted" THEN "active" ELSE "failed"
<1>1. /\ phase = "setup" /\ phase' \in {"mounted", "rollback"}
      /\ inst' = [inst EXCEPT ![n].st = s]
      /\ UNCHANGED <<cancels, hstate, stopping, desired, revision, changes, dirty, planned, owner,
                     queue, plan, at, entryRev, ordered, mounted, work, victim, byEntry, gstate,
                     contents, current, built, terminal, pc, hold>>
  BY DEF SetupOk, SetupFail, desiredVars, lockVars, candidateVars, disposalVars, genVars, taskVars
<1>2. Materializing
  BY <1>1 DEF Materializing
<1>3. /\ n # None /\ n \in Slot /\ ~Reached(n) /\ inst[n].st = "loading" /\ inst[n].entry = Entry
      /\ inst[n].ident = Identity(Entry) /\ \A j \in Registered : n \notin inst[j].ident
      /\ Entry \in Entries
  BY <1>1, <1>2, EntryAtHand, NewestMeans DEF AtHand
<1>4. s \in InstanceStates /\ s \in {"active", "failed"}
  BY DEF InstanceStates
<1>5. /\ inst' \in [Slot -> Instance] /\ inst'[n].st = s
      /\ \A j \in Slot : /\ inst'[j].entry = inst[j].entry /\ inst'[j].ident = inst[j].ident
                         /\ inst'[j].deps = inst[j].deps /\ inst'[j].refs = inst[j].refs
                         /\ j # n => inst'[j] = inst[j]
  <2> HIDE DEF s
  <2> HIDE DEF n
  <2> QED BY <1>1, <1>3, <1>4, Restated
<1>6. /\ Registered' = Registered
      /\ \A f : Newest(f)' = Newest(f) /\ Identity(f)' = Identity(f)
      /\ Listed' /\ Wired'
  <2> HIDE DEF n
  <2>1. \A j \in Slot : /\ inst'[j].st = "free" <=> inst[j].st = "free"
                        /\ inst'[j].st = "active" =>
                             inst[j].st = "active" \/ \A i \in Registered : j \notin inst[i].ident
    BY <1>3, <1>4, <1>5
  <2> QED BY <1>1, <1>5, <2>1, RegistryRelabelled
<1>7. /\ Live' = Live /\ (\A j : Reached(j)' <=> Reached(j)) /\ Entry' = Entry
  <2>1. Live' = Live
    BY <1>1 DEF Live, LiveIn
  <2> QED BY <1>1, <2>1 DEF Entry, Reached
<1>8. TypeOK'
  <2>1. phase' \in Phases
    BY <1>1 DEF Phases
  <2> HIDE DEF s
  <2> QED BY <1>1, <1>5, <2>1 DEF TypeOK, Instance
<1>9. Locked' /\ GenerationsKnown'
  BY <1>1, <1>7 DEF Locked, Stopped, GenerationsKnown
<1>10. Counted'
  BY <1>5, <1>7 DEF Counted
<1>11. Whole'
  <2>1. \A g \in Live : contents[g] \subseteq Slot /\ n \notin contents[g]
    BY <1>3 DEF Reached, TypeOK, Live, LiveIn
  <2>2. \A g \in Live : \A j \in contents[g] : inst'[j] = inst[j] /\ inst[j].deps \subseteq contents[g]
    BY <1>5, <2>1 DEF Whole
  <2>3. \A g \in Live : \A j \in contents[g] : \A d \in inst[j].deps : inst'[d] = inst[d]
    BY <2>2
  <2>4. contents' = contents /\ Live' = Live
    BY <1>1, <1>7
  <2> QED BY <2>2, <2>3, <2>4 DEF Whole
<1>12. InTransit'
  <2> SUFFICES ASSUME NEW j \in Slot
               PROVE  /\ inst'[j].st # "loading"
                      /\ inst'[j].st = "unloading" => j = victim'
                      /\ inst'[j].st = "failed" => j = Newest(inst[j].entry)'
    BY DEF InTransit
  <2>1. CASE j = n
    BY <1>3, <1>4, <1>5, <1>6, <2>1
  <2>2. CASE j # n
    BY <1>1, <1>5, <1>6, <2>2 DEF InTransit
  <2> QED BY <2>1, <2>2
<1>13. Candidate'
  <2>1. \A j \in ordered : j \in Slot /\ j # n /\ inst'[j] = inst[j]
    BY <1>2, <1>3, <1>5, EntryAtHand
  <2> QED BY <1>1, <1>2, <1>6, <1>7, <2>1 DEF Candidate
<1>14. AtHand'
  BY <1>1, <1>3, <1>5, <1>6, <1>7 DEF AtHand
<1>15. Mounted'
  <2>1. \A k \in DOMAIN mounted : mounted[k] \in Slot
    BY DEF TypeOK
  <2> QED BY <1>1, <1>2, <1>5, <1>6, <1>7, <2>1 DEF Mounted
<1>16. Disposing'
  BY <1>1 DEF Disposing, Locked
<1> QED BY <1>6, <1>8, <1>9, <1>10, <1>11, <1>12, <1>13, <1>14, <1>15, <1>16

(***************************************************************************)
(* Retiring generations and reclaiming what they alone reached             *)
(***************************************************************************)

(* refresh_references changes nothing but the counts, and what it counts   *)
(* is reached.                                                             *)
LEMMA RefreshedMeans ==
    ASSUME TypeOK, NEW gs \in [Gen -> {"unbuilt", "active", "draining", "retired"}],
           inst' = Refreshed(gs)
    PROVE  /\ inst' \in [Slot -> Instance]
           /\ \A i \in Slot :
                /\ inst'[i].entry = inst[i].entry /\ inst'[i].st = inst[i].st
                /\ inst'[i].ident = inst[i].ident /\ inst'[i].deps = inst[i].deps
                /\ \/ inst'[i].refs = inst[i].refs /\ inst[i].st = "free"
                   \/ inst'[i].refs > 0 => \E g \in LiveIn(gs) : i \in contents[g]
<1>1. inst \in [Slot -> Instance]
  BY DEF TypeOK, Instance
<1>2. ASSUME NEW i \in Slot
      PROVE  /\ inst'[i] \in Instance
             /\ inst'[i].entry = inst[i].entry /\ inst'[i].st = inst[i].st
             /\ inst'[i].ident = inst[i].ident /\ inst'[i].deps = inst[i].deps
             /\ \/ inst'[i].refs = inst[i].refs /\ inst[i].st = "free"
                \/ inst'[i].refs > 0 => \E g \in LiveIn(gs) : i \in contents[g]
  <2> DEFINE reach == {g \in LiveIn(gs) : i \in contents[g]}
             n == Cardinality(reach)
  <2>1. IsFiniteSet(reach)
    BY SlotsAreNumbers, FS_Subset DEF LiveIn
  <2>2. n \in Nat /\ (n = 0 <=> reach = {})
    BY <2>1, FS_CardinalityType, FS_EmptySet
  <2>3. inst'[i] = IF inst[i].st = "free" THEN inst[i] ELSE [inst[i] EXCEPT !.refs = n]
    BY DEF Refreshed
  <2>4. inst[i] \in Instance
    BY <1>1
  <2>5. n > 0 => \E g \in LiveIn(gs) : i \in contents[g]
    BY <2>2
  <2> HIDE DEF n
  <2>6. CASE inst[i].st = "free"
    BY <2>3, <2>4, <2>6
  <2>7. CASE inst[i].st # "free"
    BY <2>2, <2>3, <2>4, <2>5, <2>7 DEF Instance
  <2> QED BY <2>6, <2>7
<1>3. inst' \in [Slot -> Instance]
  BY <1>2 DEF Refreshed
<1> QED BY <1>2, <1>3

(* Where the live generations and what they hold are as before, or gone,   *)
(* refreshing keeps the registry in order and the generations whole.       *)
LEMMA RefreshKeeps ==
    ASSUME Inv, UNCHANGED byEntry,
           gstate' \in [Gen -> {"unbuilt", "active", "draining", "retired"}],
           inst' = Refreshed(gstate'),
           Live' \subseteq Live, \A g \in Live' : contents'[g] = contents[g]
    PROVE  /\ inst' \in [Slot -> Instance]
           /\ Registered' = Registered
           /\ \A i \in Slot : inst'[i].entry = inst[i].entry /\ inst'[i].st = inst[i].st
           /\ \A e : Newest(e)' = Newest(e) /\ Identity(e)' = Identity(e)
           /\ \A i : Reached(i)' => Reached(i)
           /\ Listed' /\ Wired' /\ Counted' /\ Whole'
<1> USE DEF Inv
<1>1. /\ inst' \in [Slot -> Instance]
      /\ \A i \in Slot :
           /\ inst'[i].entry = inst[i].entry /\ inst'[i].st = inst[i].st
           /\ inst'[i].ident = inst[i].ident /\ inst'[i].deps = inst[i].deps
           /\ \/ inst'[i].refs = inst[i].refs /\ inst[i].st = "free"
              \/ inst'[i].refs > 0 => \E g \in LiveIn(gstate') : i \in contents[g]
  BY RefreshedMeans
<1>2. /\ Registered' = Registered
      /\ \A e : Newest(e)' = Newest(e) /\ Identity(e)' = Identity(e)
      /\ Listed' /\ Wired'
  BY <1>1, RegistryRelabelled
<1>3. \A i : Reached(i)' => Reached(i)
  BY DEF Reached
<1>4. Counted'
  <2> SUFFICES ASSUME NEW i \in Slot, inst'[i].refs > 0 PROVE Reached(i)'
    BY DEF Counted
  <2>1. CASE inst'[i].refs = inst[i].refs /\ inst[i].st = "free"
    <3>1. inst[i].refs = 0
      BY <2>1, OnlyActiveReached
    <3> QED BY <2>1, <3>1
  <2>2. CASE \E g \in LiveIn(gstate') : i \in contents[g]
    BY <2>2 DEF Reached, Live
  <2> QED BY <1>1, <2>1, <2>2
<1>5. Whole'
  <2> SUFFICES ASSUME NEW g \in Live'
               PROVE  /\ \A i, j \in contents'[g] : inst'[i].entry = inst'[j].entry => i = j
                      /\ \A i \in contents'[g] :
                           /\ inst'[i].st = "active"
                           /\ inst'[i].deps \subseteq contents'[g]
                           /\ {inst'[d].entry : d \in inst'[i].deps} = Requires[inst'[i].entry]
    BY DEF Whole
  <2>1. g \in Live /\ contents'[g] = contents[g] /\ contents[g] \subseteq Slot
    BY DEF Live, LiveIn, TypeOK
  <2>2. ASSUME NEW i \in contents[g]
        PROVE  /\ inst'[i].st = "active" /\ inst'[i].deps \subseteq contents[g]
               /\ {inst'[d].entry : d \in inst'[i].deps} = Requires[inst'[i].entry]
    <3>1. /\ inst[i].st = "active" /\ inst[i].deps \subseteq contents[g]
          /\ {inst[d].entry : d \in inst[i].deps} = Requires[inst[i].entry]
      BY <2>1 DEF Whole
    <3>2. \A d \in inst[i].deps : inst'[d].entry = inst[d].entry
      BY <1>1, <2>1, <3>1
    <3>3. inst'[i].st = inst[i].st /\ inst'[i].entry = inst[i].entry /\ inst'[i].deps = inst[i].deps
      BY <1>1, <2>1
    <3> QED BY <3>1, <3>2, <3>3
  <2>3. \A i, j \in contents[g] : inst'[i].entry = inst'[j].entry => i = j
    BY <1>1, <2>1 DEF Whole
  <2> QED BY <2>1, <2>2, <2>3
<1> QED BY <1>1, <1>2, <1>3, <1>4, <1>5

(* A generation somebody holds is not idle. *)
LEMMA HeldIsLeased == ASSUME TypeOK, NEW t \in Tasks PROVE Leases(hold[t]) # 0
<1> DEFINE H == {u \in Tasks : hold[u] = hold[t]}
<1>1. IsFiniteSet(H) /\ H # {}
  BY HarnessAssumption, FS_Subset
<1>2. Cardinality(H) # 0
  BY <1>1, FS_EmptySet
<1> QED BY <1>2 DEF Leases

(* The head of _reclaim: idle generations retire, and what is up for       *)
(* disposal no other reaches.                                              *)
LEMMA StartReclaimStep ==
    ASSUME Inv, StartReclaim(gstate), phase \in {"locked", "mounted", "published"}, owner \in Tasks,
           UNCHANGED <<cancels, hstate, stopping, desired, revision, changes, dirty, planned, owner,
                       queue, victim, byEntry, current, built, terminal, pc, hold>>,
           plan' \subseteq Entries, at' \in 0 .. Len(ActivationOrder) + 1, entryRev' \in Nat,
           ordered' \subseteq Slot, mounted' \in Seq(Slot)
    PROVE  Inv'
<1> USE DEF Inv
<1> DEFINE idle == Idle(gstate)
<1>1. /\ gstate' = [g \in Gen |-> IF g \in idle THEN "retired" ELSE gstate[g]]
      /\ contents' = [g \in Gen |-> IF g \in idle THEN {} ELSE contents[g]]
      /\ inst' = Refreshed(gstate')
      /\ work' = {i \in Registered :
                    \/ inst[i].st = "active" /\ i \notin ReachableIn(gstate')
                    \/ inst[i].st = "failed" /\ desired[inst[i].entry] = None}
      /\ phase' = "reclaim"
  BY DEF StartReclaim
<1>2. gstate \in [Gen -> {"unbuilt", "active", "draining", "retired"}] /\ contents \in [Gen -> SUBSET Slot]
  BY DEF TypeOK
<1>3. /\ gstate' \in [Gen -> {"unbuilt", "active", "draining", "retired"}]
      /\ contents' \in [Gen -> SUBSET Slot]
  BY <1>1, <1>2
<1>4. Live' = Live \ idle /\ \A g \in Live' : contents'[g] = contents[g]
  BY <1>1, <1>2 DEF Live, LiveIn
<1>5. /\ inst' \in [Slot -> Instance]
      /\ Registered' = Registered
      /\ \A i \in Slot : inst'[i].entry = inst[i].entry /\ inst'[i].st = inst[i].st
      /\ \A e : Newest(e)' = Newest(e) /\ Identity(e)' = Identity(e)
      /\ \A i : Reached(i)' => Reached(i)
      /\ Listed' /\ Wired' /\ Counted' /\ Whole'
  BY <1>1, <1>3, <1>4, RefreshKeeps
<1>6. work' \subseteq Slot
  BY <1>1 DEF Registered
<1>7. TypeOK'
  BY <1>1, <1>3, <1>5, <1>6 DEF TypeOK, Instance, Phases
<1>8. owner # Nobody /\ owner # Shutdown
  BY HarnessAssumption
<1>9. Locked'
  BY <1>1, <1>8 DEF Locked, Stopped
<1>10. GenerationsKnown'
  <2>1. \A g \in Gen : gstate'[g] = "active" <=> g = current
    BY <1>1, <1>2 DEF GenerationsKnown, Idle
  <2>2. \A g \in Gen : g > built => gstate'[g] = "unbuilt"
    BY <1>1, <1>2 DEF GenerationsKnown, Idle
  <2>3. \A t \in Tasks : hold[t] # None => terminal \/ hold[t] \in Live'
    BY <1>4, HeldIsLeased DEF GenerationsKnown, Idle
  <2>4. hstate = "stopped" => Live' = {}
    BY <1>4 DEF GenerationsKnown
  <2> QED BY <1>1, <2>1, <2>2, <2>3, <2>4 DEF GenerationsKnown
<1>11. victim = None /\ ~Materializing'
  BY <1>1 DEF Disposing, Materializing
<1>12. InTransit'
  <2> SUFFICES ASSUME NEW i \in Slot
               PROVE  /\ inst[i].st # "loading" /\ inst[i].st # "unloading"
                      /\ inst[i].st = "failed" => i = Newest(inst[i].entry)
    BY <1>5 DEF InTransit
  <2> QED BY <1>11, SlotsAreNumbers DEF InTransit
<1>13. Candidate' /\ AtHand' /\ Mounted'
  BY <1>1, <1>11 DEF Candidate, AtHand, Mounted
<1>14. Disposing'
  <2>1. ASSUME NEW i \in work' PROVE i \in Registered' /\ ~Reached(i)'
    <3>1. i \in Registered /\ i \in Slot
      BY <1>1 DEF Registered
    <3>2. CASE i \notin ReachableIn(gstate')
      <4>1. \A g \in Live' : i \notin contents[g]
        BY <3>2 DEF ReachableIn, Live
      <4> QED BY <1>4, <1>5, <3>1, <4>1 DEF Reached
    <3>3. CASE inst[i].st = "failed"
      BY <1>5, <3>1, <3>3, OnlyActiveReached
    <3> QED BY <1>1, <1>5, <3>1, <3>2, <3>3
  <2>2. hstate = "stopped" => Registered' = {}
    BY <1>5 DEF Disposing
  <2> QED BY <1>1, <1>11, <2>1, <2>2 DEF Disposing
<1> QED BY <1>5, <1>7, <1>9, <1>10, <1>12, <1>13, <1>14

(* The two that only reclaim. *)
LEMMA ReclaimStep ==
    ASSUME Inv, NEW t \in Tasks, ReclaimLocked(t) \/ PublishedHooks(t)
    PROVE  Inv'
<1>1. /\ StartReclaim(gstate) /\ phase \in {"locked", "published"} /\ owner = t
      /\ UNCHANGED <<cancels, hstate, stopping, desired, revision, changes, dirty, planned, owner,
                     queue, victim, byEntry, current, built, terminal, pc, hold,
                     plan, at, entryRev, ordered, mounted>>
  BY DEF ReclaimLocked, PublishedHooks, Owning, Composing, desiredVars, lockVars, candidateVars,
         taskVars
<1>2. /\ plan \subseteq Entries /\ at \in 0 .. Len(ActivationOrder) + 1 /\ entryRev \in Nat
      /\ ordered \subseteq Slot /\ mounted \in Seq(Slot)
  BY DEF Inv, TypeOK
<1> QED BY <1>1, <1>2, StartReclaimStep

LEMMA ReclaimEndStep == ASSUME Inv, NEW t \in Tasks, ReclaimEnd(t) PROVE Inv'
<1> USE DEF Inv
<1>1. /\ owner = t /\ phase = "reclaim" /\ work = {} /\ victim = None
      /\ inst' = Refreshed(gstate) /\ Unlock
      /\ dirty' \in BOOLEAN /\ planned' \in BOOLEAN
      /\ pc' = [pc EXCEPT ![t] = IF @ = "ensure" THEN "ready" ELSE "idle"]
      /\ UNCHANGED <<cancels, hstate, stopping, desired, revision, changes, byEntry,
                     gstate, contents, current, built, terminal, hold>>
  BY DEF ReclaimEnd, Owning, desiredVars, genVars, TypeOK
<1>2. Live' = Live
  BY <1>1 DEF Live, LiveIn
<1>3. /\ inst' \in [Slot -> Instance]
      /\ Registered' = Registered
      /\ \A i \in Slot : inst'[i].entry = inst[i].entry /\ inst'[i].st = inst[i].st
      /\ \A e : Newest(e)' = Newest(e)
      /\ Listed' /\ Wired' /\ Counted' /\ Whole'
  <2>1. gstate \in [Gen -> {"unbuilt", "active", "draining", "retired"}]
    BY DEF TypeOK
  <2> QED BY <1>1, <1>2, <2>1, RefreshKeeps
<1>4. GenerationsKnown'
  <2>1. phase' # "teardown"
    BY <1>1, UnlockMeans
  <2> QED BY <1>1, <1>2, <2>1 DEF GenerationsKnown
<1>5. pc' \in [Tasks -> {"idle", "reconcile", "ensure", "ready", "run", "reclaim"}]
      /\ byEntry' \in [Entries -> Seq(Slot)] /\ cancels' \in 0 .. MaxCancels
  BY <1>1 DEF TypeOK
<1>6. ASSUME NEW i \in Slot, inst'[i].st # "free"
      PROVE  /\ inst'[i].st \in {"active", "failed"}
             /\ inst'[i].st = "failed" => i = Newest(inst[i].entry)'
  <2>1. inst[i].st \in InstanceStates /\ i # None
    BY SlotsAreNumbers DEF TypeOK
  <2> QED BY <1>1, <1>3, <1>6, <2>1 DEF InTransit, InstanceStates
<1>7. hstate' = "stopped" => Registered' = {} /\ terminal
  BY <1>1, <1>3 DEF Disposing, Locked
<1>8. terminal => hstate' = "stopped"
  BY <1>1 DEF Locked
<1> QED BY <1>1, <1>3, <1>4, <1>5, <1>6, <1>7, <1>8, UnlockStep

(***************************************************************************)
(* The shutdown task                                                       *)
(***************************************************************************)

(* From here on no generation is current. *)
LEMMA BeginShutdownStep == Inv /\ Announced /\ BeginShutdown => Inv'
<1> SUFFICES ASSUME Inv, Announced, BeginShutdown PROVE Inv'
  OBVIOUS
<1> USE DEF Inv
<1>1. /\ owner = Shutdown /\ phase = "locked" /\ phase' = "drain" /\ terminal' = TRUE
      /\ gstate' = [g \in Gen |-> IF g = current THEN "draining" ELSE gstate[g]]
      /\ current' = None
      /\ UNCHANGED <<cancels, hstate, stopping, desired, revision, changes, dirty, planned, owner,
                     queue, plan, at, entryRev, ordered, mounted, work, victim, inst, byEntry,
                     contents, built, pc, hold>>
  BY DEF BeginShutdown, Owning, desiredVars, lockVars, candidateVars, disposalVars, instVars, taskVars
<1>2. Stopped
  BY <1>1 DEF Announced
<1>3. gstate \in [Gen -> {"unbuilt", "active", "draining", "retired"}]
      /\ \A g \in Gen : gstate[g] = "active" <=> g = current
  BY DEF TypeOK, GenerationsKnown
<1>4. /\ gstate' \in [Gen -> {"unbuilt", "active", "draining", "retired"}]
      /\ \A g \in Gen : /\ gstate'[g] # "active"
                        /\ gstate'[g] = "unbuilt" <=> gstate[g] = "unbuilt"
      /\ Live' = Live
  BY <1>1, <1>3 DEF Live, LiveIn
<1>5. /\ Registered' = Registered
      /\ \A e : Newest(e)' = Newest(e) /\ Identity(e)' = Identity(e)
      /\ \A i : Reached(i)' <=> Reached(i)
  BY <1>1, <1>4 DEF Registered, Newest, Identity, Reached
<1>6. Listed' /\ Wired' /\ Counted' /\ Whole'
  <2>1. UNCHANGED <<inst, byEntry, contents>>
    BY <1>1
  <2>2. Listed' /\ Wired'
    BY <1>5, <2>1 DEF Listed, Wired
  <2>3. Counted' /\ Whole'
    BY <1>4, <1>5, <2>1 DEF Counted, Whole
  <2> QED BY <2>2, <2>3
<1>7. TypeOK'
  BY <1>1, <1>4 DEF TypeOK, Phases
<1>8. Locked'
  BY <1>1, <1>2 DEF Locked, Stopped, Nobody, Shutdown
<1>9. GenerationsKnown'
  <2>1. \A g \in Gen : gstate'[g] = "active" <=> g = None
    BY <1>4, SlotsAreNumbers
  <2> QED BY <1>1, <1>4, <2>1 DEF GenerationsKnown
<1>10. InTransit'
  BY <1>1, <1>5 DEF InTransit
<1>11. Candidate' /\ AtHand' /\ Mounted'
  BY <1>1 DEF Candidate, AtHand, Mounted, Materializing
<1>12. Disposing'
  BY <1>1, <1>5 DEF Disposing
<1> QED BY <1>6, <1>7, <1>8, <1>9, <1>10, <1>11, <1>12

(* drain() ended: no generation is live any more, and the teardown has     *)
(* every instance before it.                                               *)
LEMMA RetireAllStep == Inv /\ (Drained \/ GraceExpired) => Inv'
<1> SUFFICES ASSUME Inv, Drained \/ GraceExpired PROVE Inv'
  OBVIOUS
<1> USE DEF Inv
<1>1. /\ owner = Shutdown /\ phase = "drain" /\ phase' = "teardown"
      /\ gstate' = [g \in Gen |-> IF gstate[g] = "draining" THEN "retired" ELSE gstate[g]]
      /\ contents' = [g \in Gen |-> IF gstate[g] = "draining" THEN {} ELSE contents[g]]
      /\ inst' = Refreshed(gstate')
      /\ work' = Registered
      /\ UNCHANGED <<cancels, hstate, stopping, desired, revision, changes, dirty, planned, owner,
                     queue, plan, at, entryRev, ordered, mounted, victim, byEntry, current, built,
                     terminal, pc, hold>>
  BY DEF Drained, GraceExpired, RetireAll, Owning, desiredVars, lockVars, candidateVars, taskVars
<1>2. gstate \in [Gen -> {"unbuilt", "active", "draining", "retired"}] /\ contents \in [Gen -> SUBSET Slot]
  BY DEF TypeOK
<1>3. terminal /\ current = None /\ victim = None
  BY <1>1 DEF Locked, GenerationsKnown, Disposing
<1>4. \A g \in Gen : gstate[g] # "active"
  BY <1>3, SlotsAreNumbers DEF GenerationsKnown
<1>5. /\ gstate' \in [Gen -> {"unbuilt", "active", "draining", "retired"}]
      /\ contents' \in [Gen -> SUBSET Slot]
  BY <1>1, <1>2
<1>6. Live' = {}
  BY <1>1, <1>2, <1>4 DEF Live, LiveIn
<1>7. /\ inst' \in [Slot -> Instance]
      /\ Registered' = Registered
      /\ \A i \in Slot : inst'[i].entry = inst[i].entry /\ inst'[i].st = inst[i].st
      /\ \A e : Newest(e)' = Newest(e)
      /\ Listed' /\ Wired' /\ Counted' /\ Whole'
  BY <1>1, <1>5, <1>6, RefreshKeeps
<1>8. TypeOK'
  BY <1>1, <1>5, <1>7 DEF TypeOK, Instance, Phases, Registered
<1>9. Locked'
  BY <1>1 DEF Locked, Stopped
<1>10. GenerationsKnown'
  BY <1>1, <1>2, <1>3, <1>4, <1>6 DEF GenerationsKnown
<1>11. InTransit'
  BY <1>1, <1>7 DEF InTransit
<1>12. Candidate' /\ AtHand' /\ Mounted'
  BY <1>1 DEF Candidate, AtHand, Mounted, Materializing
<1>13. Disposing'
  BY <1>1, <1>3, <1>6, <1>7 DEF Disposing, Reached
<1> QED BY <1>7, <1>8, <1>9, <1>10, <1>11, <1>12, <1>13

(***************************************************************************)
(* The loop of _materialize and what it publishes                          *)
(***************************************************************************)

(* What a candidate c may hold when the loop goes on at place n of plan p. *)
Fits(p, n, c) ==
    \A i \in c : /\ i \in Slot /\ inst[i].st = "active"
                 /\ \E k \in 1 .. n - 1 : ActivationOrder[k] = inst[i].entry
                 /\ inst[i].entry \in p
                 /\ i = Newest(inst[i].entry)
                 /\ inst[i].ident = Identity(inst[i].entry)

(* A list a rollback could go through. *)
Undoable(list) ==
    /\ \A k \in DOMAIN list : list[k] \in Registered /\ ~Reached(list[k])
    /\ \A k, l \in DOMAIN list : k < l =>
         \E m, n \in DOMAIN ActivationOrder :
            /\ m < n
            /\ ActivationOrder[m] = inst[list[k]].entry
            /\ ActivationOrder[n] = inst[list[l]].entry

(* Where the loop stops next, or past the end, and what it reuses on the   *)
(* way: the candidate keeps fitting.                                       *)
LEMMA ProceedMeans ==
    ASSUME Inv, NEW p \in SUBSET Entries, NEW from \in 1 .. Len(ActivationOrder) + 1, NEW cand,
           Fits(p, from, cand), Proceed(p, from, cand)
    PROVE  \E next \in 1 .. Len(ActivationOrder) + 1, c \in SUBSET Slot :
             /\ plan' = p /\ at' = next /\ ordered' = c /\ cand \subseteq c
             /\ Fits(p, next, c)
             /\ \/ next = Len(ActivationOrder) + 1 /\ entryRev' = 0 /\ Conclude(p, c)
                \/ /\ next \in DOMAIN ActivationOrder /\ ActivationOrder[next] \in p
                   /\ entryRev' = desired[ActivationOrder[next]]
                   /\ phase' = MountAwait(ActivationOrder[next])
                   /\ UNCHANGED <<work, inst, gstate, contents, current, built>>
<1> USE DEF Inv
<1> DEFINE N == Len(ActivationOrder)
           taken == {k \in from .. N : ActivationOrder[k] \in p /\ desired[ActivationOrder[k]] # None}
           stops == {k \in taken : ~Reusable(ActivationOrder[k])}
           next == IF stops = {} THEN N + 1 ELSE Min(stops)
           reused == {Newest(ActivationOrder[k]) : k \in {j \in taken : j < next}}
           c == cand \cup reused
<1>1. /\ plan' = p /\ at' = next /\ ordered' = c
      /\ IF stops = {}
         THEN entryRev' = 0 /\ Conclude(p, c)
         ELSE LET e == ActivationOrder[next] IN
              /\ entryRev' = desired[e]
              /\ phase' = MountAwait(e)
              /\ UNCHANGED <<work, inst, gstate, contents, current, built>>
  BY DEF Proceed
<1>2. N \in Nat /\ DOMAIN ActivationOrder = 1 .. N /\ stops \subseteq Nat /\ taken \subseteq from .. N
      /\ \A k \in taken : ActivationOrder[k] \in p /\ ActivationOrder[k] \in Entries
  BY OrderMeans
<1>3. /\ stops # {} => next \in stops
      /\ stops = {} => next = N + 1
      /\ next \in from .. N + 1
      /\ \A k \in taken : k < next => Reusable(ActivationOrder[k])
  <2>1. CASE stops = {}
    BY <1>2, <2>1
  <2>2. CASE stops # {}
    <3>1. Min(stops) \in stops /\ \A m \in stops : Min(stops) <= m
      <4> HIDE DEF stops
      <4> QED BY <1>2, <2>2, LeastMember
    <3>2. next = Min(stops)
      BY <2>2
    <3> HIDE DEF next
    <3>3. next \in stops /\ \A k \in stops : next <= k
      BY <3>1, <3>2
    <3>4. next \in from .. N
      BY <1>2, <3>3
    <3>5. ASSUME NEW k \in taken, k < next PROVE Reusable(ActivationOrder[k])
      <4>1. k \in Nat /\ next \in Nat
        BY <1>2, <3>4
      <4> QED BY <3>3, <3>5, <4>1
    <3> QED BY <1>2, <2>2, <3>3, <3>4, <3>5
  <2> QED BY <2>1, <2>2
<1> HIDE DEF next
<1>4. Fits(p, next, c)
  <2>1. ASSUME NEW i \in cand
        PROVE  /\ i \in Slot /\ inst[i].st = "active"
               /\ \E k \in 1 .. next - 1 : ActivationOrder[k] = inst[i].entry
               /\ inst[i].entry \in p
               /\ i = Newest(inst[i].entry)
               /\ inst[i].ident = Identity(inst[i].entry)
    BY <1>2, <1>3 DEF Fits
  <2>2. ASSUME NEW i \in reused
        PROVE  /\ i \in Slot /\ inst[i].st = "active"
               /\ \E k \in 1 .. next - 1 : ActivationOrder[k] = inst[i].entry
               /\ inst[i].entry \in p
               /\ i = Newest(inst[i].entry)
               /\ inst[i].ident = Identity(inst[i].entry)
    <3>1. PICK k \in taken : i = Newest(ActivationOrder[k]) /\ k < next
      OBVIOUS
    <3>2. Reusable(ActivationOrder[k]) /\ ActivationOrder[k] \in p /\ ActivationOrder[k] \in Entries
      BY <1>2, <1>3, <3>1
    <3>3. i \in Slot /\ inst[i].entry = ActivationOrder[k]
      BY <3>1, <3>2, NewestMeans DEF Reusable
    <3>4. k \in 1 .. next - 1
      BY <1>2, <1>3, <3>1
    <3> QED BY <3>1, <3>2, <3>3, <3>4 DEF Reusable
  <2> QED BY <2>1, <2>2 DEF Fits
<1>5. c \in SUBSET Slot /\ cand \subseteq c
  BY <1>4 DEF Fits
<1> HIDE DEF c
<1>6. next \in 1 .. N + 1
  BY <1>2, <1>3
<1>7. stops # {} => next \in DOMAIN ActivationOrder /\ ActivationOrder[next] \in p
  BY <1>2, <1>3
<1> HIDE DEF stops
<1> QED BY <1>1, <1>3, <1>4, <1>5, <1>6, <1>7

(* A complete and validated candidate is whole: every requirement's newest *)
(* instance is in it, so each instance is wired within it.                 *)
LEMMA CandidateWhole ==
    ASSUME Inv, NEW p \in SUBSET Entries, \A e \in p : Requires[e] \subseteq p,
           NEW n, NEW c \in SUBSET Slot, Fits(p, n, c), Validated(p, c)
    PROVE  /\ \A i, j \in c : inst[i].entry = inst[j].entry => i = j
           /\ \A i \in c : /\ inst[i].st = "active" /\ inst[i].deps \subseteq c
                           /\ {inst[d].entry : d \in inst[i].deps} = Requires[inst[i].entry]
<1> USE DEF Inv
<1>1. \A i, j \in c : inst[i].entry = inst[j].entry => i = j
  BY DEF Fits
<1>2. ASSUME NEW i \in c
      PROVE  /\ inst[i].st = "active" /\ inst[i].deps \subseteq c
             /\ {inst[d].entry : d \in inst[i].deps} = Requires[inst[i].entry]
  <2> DEFINE e == inst[i].entry
  <2>1. /\ i \in Slot /\ inst[i].st = "active" /\ e \in p /\ inst[i].ident = Identity(e)
        /\ i \in Registered
    BY DEF Fits, Registered
  <2>2. \A r \in Requires[e] : /\ Newest(r) \in c /\ inst[Newest(r)].entry = r
                               /\ inst[Newest(r)].st = "active" /\ Newest(r) \in Slot
    BY <2>1 DEF Validated, Fits
  <2>3. \A d \in Identity(e) : d \in c /\ d \in Slot /\ inst[d].st = "active"
                               /\ inst[d].entry \in Requires[e]
    BY <2>2 DEF Identity
  <2>4. inst[i].deps = Identity(e)
    BY <2>1, <2>3 DEF Wired
  <2>5. \A r \in Requires[e] : Newest(r) \in Identity(e)
    BY DEF Identity
  <2> QED BY <2>1, <2>2, <2>3, <2>4, <2>5
<1> QED BY <1>1, <1>2

(* Publishing it. *)
LEMMA PublishStep ==
    ASSUME Inv, NEW p \in SUBSET Entries, \A e \in p : Requires[e] \subseteq p,
           NEW n, NEW c \in SUBSET Slot, Fits(p, n, c), Validated(p, c),
           built < MaxGenerations, built' = built + 1,
           gstate' = [g \in Gen |-> IF g = built + 1 THEN "active"
                                    ELSE IF g = current THEN "draining" ELSE gstate[g]],
           contents' = [contents EXCEPT ![built + 1] = c],
           current' = built + 1, phase' = "published",
           phase \in {"locked", "mounted"}, owner \in Tasks, ~terminal,
           UNCHANGED <<cancels, hstate, stopping, desired, revision, changes, dirty, planned, owner,
                       queue, victim, work, inst, byEntry, terminal, pc, hold>>,
           plan' \subseteq Entries, at' \in 0 .. Len(ActivationOrder) + 1, entryRev' \in Nat,
           ordered' \subseteq Slot, mounted' \in Seq(Slot)
    PROVE  Inv'
<1> USE DEF Inv
<1>1. built \in Nat /\ built + 1 \in Gen /\ MaxGenerations \in Nat /\ built' \in 0 .. MaxGenerations
  BY HarnessAssumption DEF TypeOK, Gen
<1>2. gstate \in [Gen -> {"unbuilt", "active", "draining", "retired"}] /\ contents \in [Gen -> SUBSET Slot]
      /\ current \in Gen \cup {None} /\ \A g \in Gen : gstate[g] = "active" <=> g = current
  BY DEF TypeOK, GenerationsKnown
<1>3. gstate[built + 1] = "unbuilt" /\ current # built + 1 /\ built + 1 \notin Live
  <2>1. built + 1 > built
    BY <1>1
  <2>2. gstate[built + 1] = "unbuilt"
    BY <1>1, <2>1 DEF GenerationsKnown
  <2> QED BY <1>1, <1>2, <2>2 DEF Live, LiveIn
<1>4. /\ gstate' \in [Gen -> {"unbuilt", "active", "draining", "retired"}]
      /\ contents' \in [Gen -> SUBSET Slot]
      /\ contents'[built + 1] = c /\ \A g \in Gen : g # built + 1 => contents'[g] = contents[g]
  BY <1>1, <1>2
<1>5. Live' = Live \cup {built + 1}
  BY <1>1, <1>2, <1>3 DEF Live, LiveIn
<1>6. TypeOK'
  BY <1>1, <1>4 DEF TypeOK, Phases
<1>7. Locked'
  <2>1. owner # Nobody /\ owner # Shutdown
    BY HarnessAssumption
  <2> QED BY <2>1 DEF Locked
<1>8. hstate # "stopped"
  BY DEF Locked
<1>9. GenerationsKnown'
  <2>1. \A g \in Gen : gstate'[g] = "active" <=> g = current'
    BY <1>1, <1>2, <1>3
  <2>2. ASSUME NEW g \in Gen, g > built' PROVE gstate'[g] = "unbuilt"
    <3>1. g \in Nat /\ g > built /\ g # built + 1
      BY <1>1, <2>2, SlotsAreNumbers
    <3> QED BY <1>2, <3>1 DEF GenerationsKnown
  <2>3. \A t \in Tasks : hold'[t] # None => hold'[t] \in Live'
    BY <1>5 DEF GenerationsKnown
  <2> QED BY <1>8, <2>1, <2>2, <2>3 DEF GenerationsKnown
<1>10. /\ Registered' = Registered
       /\ \A e : Newest(e)' = Newest(e)
       /\ \A i : Reached(i) => Reached(i)'
  <2>1. \A g \in Live : g # built + 1 /\ g \in Gen
    BY <1>3 DEF Live, LiveIn
  <2> QED BY <1>4, <1>5, <2>1 DEF Registered, Newest, Reached
<1>11. Listed' /\ Wired'
  BY <1>10 DEF Listed, Wired
<1>12. Counted'
  BY <1>10 DEF Counted
<1>13. Whole'
  <2>1. /\ \A i, j \in c : inst[i].entry = inst[j].entry => i = j
        /\ \A i \in c : /\ inst[i].st = "active" /\ inst[i].deps \subseteq c
                        /\ {inst[d].entry : d \in inst[i].deps} = Requires[inst[i].entry]
    BY CandidateWhole
  <2>2. ASSUME NEW g \in Live'
        PROVE  \/ g = built + 1 /\ contents'[g] = c
               \/ g \in Live /\ contents'[g] = contents[g]
    BY <1>3, <1>4, <1>5, <2>2 DEF Live, LiveIn
  <2>3. ASSUME NEW g \in Live'
        PROVE  /\ \A i, j \in contents'[g] : inst'[i].entry = inst'[j].entry => i = j
               /\ \A i \in contents'[g] :
                    /\ inst'[i].st = "active" /\ inst'[i].deps \subseteq contents'[g]
                    /\ {inst'[d].entry : d \in inst'[i].deps} = Requires[inst'[i].entry]
    <3>0. inst' = inst /\ Whole
      OBVIOUS
    <3> HIDE DEF Inv
    <3>1. CASE contents'[g] = c
      BY ONLY <2>1, <3>0, <3>1
    <3>2. CASE g \in Live /\ contents'[g] = contents[g]
      BY ONLY <3>0, <3>2 DEF Whole
    <3> QED BY <2>2, <3>1, <3>2
  <2> HIDE DEF Inv
  <2> QED BY <2>3 DEF Whole
<1>14. victim = None /\ ~Materializing'
  BY DEF Disposing, Materializing
<1>15. InTransit'
  BY <1>10, <1>14, SlotsAreNumbers DEF InTransit
<1>16. Candidate' /\ AtHand' /\ Mounted'
  BY <1>14 DEF Candidate, AtHand, Mounted
<1>17. Disposing'
  BY <1>8, <1>14 DEF Disposing
<1> QED BY <1>6, <1>7, <1>9, <1>11, <1>12, <1>13, <1>15, <1>16, <1>17

(* The loop from one await to the next. *)
LEMMA ProceedStep ==
    ASSUME Inv, NEW p \in SUBSET Entries, \A e \in p : Requires[e] \subseteq p,
           NEW from \in 1 .. Len(ActivationOrder) + 1, NEW cand,
           Fits(p, from, cand), Proceed(p, from, cand),
           phase \in {"locked", "mounted"}, owner \in Tasks, ~terminal,
           mounted' \in Seq(Slot), Undoable(mounted'), Range(mounted') \subseteq cand,
           UNCHANGED <<cancels, hstate, stopping, desired, revision, changes, dirty, planned, owner,
                       queue, victim, byEntry, terminal, pc, hold>>
    PROVE  Inv'
<1> USE DEF Inv
<1>1. PICK next \in 1 .. Len(ActivationOrder) + 1, c \in SUBSET Slot :
             /\ plan' = p /\ at' = next /\ ordered' = c /\ cand \subseteq c
             /\ Fits(p, next, c)
             /\ \/ next = Len(ActivationOrder) + 1 /\ entryRev' = 0 /\ Conclude(p, c)
                \/ /\ next \in DOMAIN ActivationOrder /\ ActivationOrder[next] \in p
                   /\ entryRev' = desired[ActivationOrder[next]]
                   /\ phase' = MountAwait(ActivationOrder[next])
                   /\ UNCHANGED <<work, inst, gstate, contents, current, built>>
  BY ProceedMeans
<1>2. Len(ActivationOrder) \in Nat /\ next \in 0 .. Len(ActivationOrder) + 1
  BY OrderMeans
<1>3. entryRev' \in Nat
  <2>1. \A e \in Entries : desired[e] \in Nat
    BY DEF TypeOK
  <2> QED BY <1>1, <2>1
<1>4. owner # Nobody /\ owner # Shutdown /\ victim = None /\ hstate # "stopped"
  BY HarnessAssumption DEF Disposing, Locked
<1>5. ASSUME UNCHANGED <<work, inst, gstate, contents, current, built>>,
             \/ phase' = "rollback"
             \/ /\ next \in DOMAIN ActivationOrder /\ ActivationOrder[next] \in p
                /\ phase' = MountAwait(ActivationOrder[next])
      PROVE  Inv'
  <2>1. phase' \in {"rollback", "retry", "mounting"}
    BY <1>5 DEF MountAwait
  <2>2. TypeOK'
    BY <1>1, <1>2, <1>3, <1>5, <2>1 DEF TypeOK, Phases
  <2>3. /\ Registered' = Registered /\ Live' = Live
        /\ \A e : Newest(e)' = Newest(e) /\ Identity(e)' = Identity(e)
        /\ \A i : Reached(i)' <=> Reached(i)
        /\ Listed' /\ Wired' /\ Counted' /\ Whole'
    BY <1>5, RegistryKept
  <2>4. Locked' /\ GenerationsKnown'
    BY <1>4, <1>5, <2>1, <2>3 DEF Locked, GenerationsKnown
  <2>5. InTransit'
    BY <1>4, <1>5, <2>3, SlotsAreNumbers DEF InTransit
  <2>6. Materializing' => /\ next \in DOMAIN ActivationOrder /\ ActivationOrder[next] \in p
                          /\ phase' = MountAwait(ActivationOrder[next])
    BY <1>5, <2>1 DEF Materializing
  <2>7. Entry' = ActivationOrder[next]
    BY <1>1 DEF Entry
  <2>8. Candidate'
    BY <1>1, <1>5, <2>3, <2>6, <2>7 DEF Candidate, Fits
  <2>9. AtHand'
    BY <1>5, <2>1, <2>3, <2>6, <2>7 DEF AtHand, MountAwait, Materializing
  <2>10. Mounted'
    <3>1. /\ \A k \in DOMAIN mounted' : mounted'[k] \in Registered /\ ~Reached(mounted'[k])
          /\ \A k, l \in DOMAIN mounted' : k < l =>
               \E m, n \in DOMAIN ActivationOrder :
                  /\ m < n
                  /\ ActivationOrder[m] = inst[mounted'[k]].entry
                  /\ ActivationOrder[n] = inst[mounted'[l]].entry
      BY DEF Undoable
    <3> QED BY <1>1, <1>5, <2>1, <2>3, <3>1 DEF Mounted
  <2>11. Disposing'
    BY <1>4, <2>1 DEF Disposing
  <2> QED BY <2>2, <2>3, <2>4, <2>5, <2>8, <2>9, <2>10, <2>11
<1>6. CASE Conclude(p, c)
  <2>1. CASE phase' = "rollback" /\ UNCHANGED <<work, inst, gstate, contents, current, built>>
    BY <1>5, <2>1
  <2>2. CASE StartReclaim(gstate) /\ UNCHANGED <<current, built>>
    BY <1>1, <1>2, <1>3, <2>2, StartReclaimStep
  <2>3. CASE /\ Validated(p, c)
             /\ built < MaxGenerations
             /\ built' = built + 1
             /\ gstate' = [g \in Gen |-> IF g = built + 1 THEN "active"
                                         ELSE IF g = current THEN "draining" ELSE gstate[g]]
             /\ contents' = [contents EXCEPT ![built + 1] = c]
             /\ current' = built + 1
             /\ phase' = "published"
             /\ UNCHANGED <<work, inst>>
    <3>1. /\ plan' \subseteq Entries /\ at' \in 0 .. Len(ActivationOrder) + 1 /\ entryRev' \in Nat
          /\ ordered' \subseteq Slot
      BY <1>1, <1>2, <1>3
    <3> QED BY <1>1, <2>3, <3>1, PublishStep
  <2> QED BY <1>6, <2>1, <2>2, <2>3 DEF Conclude
<1> QED BY <1>1, <1>5, <1>6

(* What the resolver found eligible is closed under requirements. *)
LEMMA EligibleClosed == Eligible \subseteq Entries /\ \A e \in Eligible : Requires[e] \subseteq Eligible
BY DEF Eligible

LEMMA ResolveStep == ASSUME Inv, NEW t \in Tasks, Resolve(t) PROVE Inv'
<1> USE DEF Inv
<1>1. /\ owner = t /\ phase = "locked" /\ ~Stopped /\ Proceed(Eligible, 1, {})
      /\ UNCHANGED <<cancels, hstate, stopping, desired, revision, changes, dirty, planned, owner,
                     queue, mounted, victim, byEntry, terminal, pc, hold>>
  BY DEF Resolve, Composing, desiredVars, lockVars, taskVars
<1>2. mounted' = <<>> /\ ~terminal
  BY <1>1 DEF Mounted, Locked
<1>3. Undoable(mounted') /\ Range(mounted') \subseteq {} /\ mounted' \in Seq(Slot)
  BY <1>2 DEF Undoable, Range
<1>4. 1 \in 1 .. Len(ActivationOrder) + 1
  BY OrderMeans
<1>5. Fits(Eligible, 1, {})
  BY DEF Fits
<1>6. Eligible \in SUBSET Entries /\ \A e \in Eligible : Requires[e] \subseteq Eligible
  BY EligibleClosed
<1> HIDE DEF Inv
<1> QED BY <1>1, <1>2, <1>3, <1>4, <1>5, <1>6, ProceedStep

LEMMA MountedHookStep == ASSUME Inv, NEW t \in Tasks, MountedHook(t) PROVE Inv'
<1> USE DEF Inv
<1> DEFINE i == Newest(Entry)
           cand == ordered \cup {i}
<1>1. /\ owner = t /\ phase = "mounted" /\ Proceed(plan, at + 1, cand)
      /\ mounted' = Append(mounted, i)
      /\ UNCHANGED <<cancels, hstate, stopping, desired, revision, changes, dirty, planned, owner,
                     queue, victim, byEntry, terminal, pc, hold>>
  BY DEF MountedHook, Composing, desiredVars, lockVars, taskVars
<1>2. Materializing /\ ~terminal
  BY <1>1 DEF Materializing, Locked
<1>3. /\ at \in DOMAIN ActivationOrder /\ Entry \in plan /\ Entry \in Entries
      /\ plan \in SUBSET Entries /\ \A e \in plan : Requires[e] \subseteq plan
  BY <1>2, EntryAtHand DEF Candidate, TypeOK
<1>4. /\ i \in Slot /\ inst[i].st = "active" /\ inst[i].entry = Entry /\ i \in Registered
      /\ inst[i].ident = Identity(Entry) /\ ~Reached(i)
  BY <1>1, <1>3, NewestMeans DEF AtHand, Registered
<1>5. at \in Nat /\ at + 1 \in 1 .. Len(ActivationOrder) + 1 /\ at \in 1 .. (at + 1) - 1
  BY <1>3, OrderMeans
<1>6. Fits(plan, at + 1, cand)
  <2>1. ASSUME NEW j \in ordered
        PROVE  /\ j \in Slot /\ inst[j].st = "active"
               /\ \E k \in 1 .. (at + 1) - 1 : ActivationOrder[k] = inst[j].entry
               /\ inst[j].entry \in plan
               /\ j = Newest(inst[j].entry)
               /\ inst[j].ident = Identity(inst[j].entry)
    BY <1>2, <1>5 DEF Candidate, TypeOK
  <2>2. ActivationOrder[at] = inst[i].entry
    BY <1>4 DEF Entry
  <2> QED BY <1>3, <1>4, <1>5, <2>1, <2>2 DEF Fits
<1>7. /\ mounted \in Seq(Slot) /\ mounted' \in Seq(Slot) /\ Len(mounted) \in Nat
      /\ DOMAIN mounted = 1 .. Len(mounted)
      /\ DOMAIN mounted' = 1 .. Len(mounted) + 1
      /\ \A k \in 1 .. Len(mounted) : mounted'[k] = mounted[k]
      /\ mounted'[Len(mounted) + 1] = i
  <2>1. mounted \in Seq(Slot)
    BY DEF TypeOK
  <2> HIDE DEF i
  <2> QED BY <1>1, <1>4, <2>1, AppendProperties
<1>8. /\ \A k \in DOMAIN mounted : /\ mounted[k] \in Registered /\ ~Reached(mounted[k])
                                   /\ mounted[k] \in ordered
      /\ \A k, l \in DOMAIN mounted : k < l =>
           \E m, n \in DOMAIN ActivationOrder :
              /\ m < n
              /\ ActivationOrder[m] = inst[mounted[k]].entry
              /\ ActivationOrder[n] = inst[mounted[l]].entry
  BY <1>2 DEF Mounted, Range
<1> HIDE DEF i
<1>9. Undoable(mounted')
  <2>1. ASSUME NEW k \in DOMAIN mounted' PROVE mounted'[k] \in Registered /\ ~Reached(mounted'[k])
    BY <1>4, <1>7, <1>8
  <2>2. ASSUME NEW k \in DOMAIN mounted', NEW l \in DOMAIN mounted', k < l
        PROVE  \E m, n \in DOMAIN ActivationOrder :
                  /\ m < n
                  /\ ActivationOrder[m] = inst[mounted'[k]].entry
                  /\ ActivationOrder[n] = inst[mounted'[l]].entry
    <3>1. k \in DOMAIN mounted /\ mounted'[k] = mounted[k]
      BY <1>7, <2>2
    <3>2. CASE l \in DOMAIN mounted
      BY <1>7, <1>8, <2>2, <3>1, <3>2
    <3>3. CASE l \notin DOMAIN mounted
      <4>1. mounted'[l] = i
        BY <1>7, <3>3
      <4>2. PICK m \in 1 .. at - 1 : ActivationOrder[m] = inst[mounted[k]].entry
        BY <1>2, <1>8, <3>1 DEF Candidate
      <4>3. m \in DOMAIN ActivationOrder /\ m < at
        BY <1>3, <1>5, <4>2, OrderMeans
      <4>4. ActivationOrder[at] = inst[i].entry
        BY <1>4 DEF Entry
      <4> QED BY <1>3, <3>1, <4>1, <4>2, <4>3, <4>4
    <3> QED BY <3>2, <3>3
  <2> QED BY <2>1, <2>2 DEF Undoable
<1>10. Range(mounted') \subseteq cand
  BY <1>7, <1>8 DEF Range
<1> HIDE DEF cand, Inv
<1> QED BY <1>1, <1>2, <1>3, <1>5, <1>6, <1>7, <1>9, <1>10, ProceedStep

(***************************************************************************)
(* The invariant                                                           *)
(***************************************************************************)

LEMMA InitInv == Init => Inv /\ Announced
<1> SUFFICES ASSUME Init PROVE Inv /\ Announced
  OBVIOUS
<1>1. FreeInstance \in Instance
  BY DEF FreeInstance, Instance, InstanceStates
<1>2. inst \in [Slot -> Instance] /\ \A i \in Slot : inst[i] = FreeInstance
  BY <1>1 DEF Init
<1>3. /\ hstate = "created" /\ stopping = FALSE /\ owner = Nobody /\ queue = <<>> /\ phase = "free"
      /\ plan = {} /\ at = 0 /\ entryRev = 0 /\ ordered = {} /\ mounted = <<>> /\ work = {}
      /\ victim = None /\ current = None /\ built = 0 /\ terminal = FALSE
      /\ byEntry = [e \in Entries |-> <<>>] /\ gstate = [g \in Gen |-> "unbuilt"]
      /\ hold = [t \in Tasks |-> None]
  BY DEF Init
<1>4. TypeOK
  <2>1. /\ changes \in 0 .. MaxChanges /\ cancels \in 0 .. MaxCancels
        /\ 0 \in 0 .. MaxGenerations /\ 0 \in 0 .. Len(ActivationOrder) + 1
    BY OrderMeans, HarnessAssumption DEF Init
  <2>2. desired \in [Entries -> Nat] /\ revision \in [Entries -> Nat]
    BY DEF Init
  <2>3. /\ queue \in Seq(Tasks \cup {Shutdown}) /\ mounted \in Seq(Slot)
        /\ byEntry \in [Entries -> Seq(Slot)]
    BY <1>3
  <2>4. /\ gstate \in [Gen -> {"unbuilt", "active", "draining", "retired"}]
        /\ contents \in [Gen -> SUBSET Slot]
        /\ pc \in [Tasks -> {"idle", "reconcile", "ensure", "ready", "run", "reclaim"}]
        /\ hold \in [Tasks -> Gen \cup {None}]
    BY DEF Init
  <2>5. /\ hstate \in {"created", "running", "stopping", "stopped"}
        /\ stopping \in BOOLEAN /\ dirty \in BOOLEAN /\ planned \in BOOLEAN
        /\ owner \in Tasks \cup {Nobody, Shutdown} /\ phase \in Phases
        /\ plan \subseteq Entries /\ at \in 0 .. Len(ActivationOrder) + 1 /\ entryRev \in Nat
        /\ ordered \subseteq Slot /\ work \subseteq Slot /\ victim \in Slot \cup {None}
        /\ current \in Gen \cup {None} /\ built \in 0 .. MaxGenerations /\ terminal \in BOOLEAN
    <3>1. dirty \in BOOLEAN
      BY DEF Init
    <3>2. planned = FALSE /\ 0 \in Nat
      BY DEF Init
    <3> QED BY <1>3, <2>1, <3>1, <3>2 DEF Phases
  <2> QED BY <1>2, <2>1, <2>2, <2>3, <2>4, <2>5 DEF TypeOK, Instance
<1>5. Registered = {} /\ Live = {}
  BY <1>2, <1>3 DEF Registered, FreeInstance, Live, LiveIn
<1>6. Locked
  BY <1>3 DEF Locked, Nobody, Shutdown
<1>7. GenerationsKnown
  BY <1>3, <1>5, SlotsAreNumbers DEF GenerationsKnown
<1>8. Listed /\ Wired /\ Whole
  BY <1>3, <1>5 DEF Listed, Wired, Whole
<1>9. Counted /\ InTransit
  BY <1>2 DEF Counted, InTransit, FreeInstance
<1>10. Candidate /\ AtHand /\ Mounted /\ Disposing
  BY <1>3, <1>5 DEF Candidate, AtHand, Mounted, Disposing, Materializing
<1>11. Announced
  BY <1>3 DEF Announced, Nobody, Shutdown, Range
<1> QED BY <1>4, <1>6, <1>7, <1>8, <1>9, <1>10, <1>11 DEF Inv

(* The shutdown task exists only once stop() was called. *)
LEMMA AnnouncedNext == TypeOK /\ Announced /\ [Next]_vars => Announced'
<1> SUFFICES ASSUME TypeOK, Announced, [Next]_vars PROVE Announced'
  OBVIOUS
<1> DEFINE Later == /\ Range(queue') \subseteq Range(queue)
                    /\ owner' = Shutdown => owner = Shutdown \/ Shutdown \in Range(queue)
<1>1. \A t \in Tasks : t # Shutdown
  BY HarnessAssumption
<1>2. ASSUME NEW x \in Tasks \cup {Shutdown}, Enqueue(x)
      PROVE  /\ Range(queue') \subseteq Range(queue) \cup {x}
             /\ owner' = owner \/ owner' = x
  <2>1. CASE owner = Nobody
    BY <1>2, <2>1 DEF Enqueue
  <2>2. CASE owner # Nobody
    <3>1. owner' = owner /\ queue' = Append(queue, x) /\ queue \in Seq(Tasks \cup {Shutdown})
      BY <1>2, <2>2 DEF Enqueue, TypeOK
    <3>2. /\ DOMAIN queue' = 1 .. Len(queue) + 1 /\ DOMAIN queue = 1 .. Len(queue)
          /\ Len(queue) \in Nat /\ queue'[Len(queue) + 1] = x
          /\ \A k \in 1 .. Len(queue) : queue'[k] = queue[k]
      BY <3>1, AppendProperties
    <3>3. \A k \in DOMAIN queue' : queue'[k] = x \/ (k \in DOMAIN queue /\ queue'[k] = queue[k])
      BY <3>2
    <3> QED BY <3>1, <3>3 DEF Range
  <2> QED BY <2>1, <2>2
<1>3. ASSUME Unlock PROVE Later
  <2>1. CASE queue = <<>>
    BY <1>3, <2>1 DEF Unlock, Nobody, Shutdown
  <2>2. CASE queue # <<>>
    <3>1. /\ owner' = queue[1] /\ 1 \in DOMAIN queue /\ Len(queue) \in Nat
          /\ Len(queue') = Len(queue) - 1
          /\ \A k \in 1 .. Len(queue) - 1 : queue'[k] = queue[k + 1]
          /\ DOMAIN queue' = 1 .. Len(queue) - 1 /\ DOMAIN queue = 1 .. Len(queue)
      <4>1. owner' = Head(queue) /\ queue' = Tail(queue) /\ queue \in Seq(Tasks \cup {Shutdown})
        BY <1>3, <2>2 DEF Unlock, TypeOK
      <4>2. /\ Head(queue) = queue[1] /\ Len(queue) \in Nat /\ DOMAIN queue = 1 .. Len(queue)
            /\ 1 \in 1 .. Len(queue)
        BY <2>2, <4>1
      <4>3. /\ Len(Tail(queue)) = Len(queue) - 1
            /\ \A k \in 1 .. Len(Tail(queue)) : Tail(queue)[k] = queue[k + 1]
            /\ DOMAIN Tail(queue) = 1 .. Len(Tail(queue))
        BY <2>2, <4>1, HeadTailProperties
      <4> QED BY <4>1, <4>2, <4>3
    <3>2. \A k \in DOMAIN queue' : queue'[k] = queue[k + 1] /\ k + 1 \in DOMAIN queue
      BY <3>1
    <3> QED BY <3>1, <3>2 DEF Range
  <2> QED BY <2>1, <2>2
<1>4. ASSUME UNCHANGED <<owner, queue>> PROVE Later
  BY <1>4
<1>5. ASSUME Later, stopping' = stopping, hstate' = hstate \/ hstate' = "stopped"
      PROVE  Announced'
  BY <1>5 DEF Announced, Stopped
<1> HIDE DEF Later
<1>6. CASE Change
  BY <1>4, <1>5, <1>6 DEF Change, Install, Uninstall, lockVars
<1>7. ASSUME NEW t \in Tasks, Client(t) PROVE Announced'
  <2>1. /\ Enqueue(t) \/ UNCHANGED <<owner, queue>>
        /\ stopping' = stopping /\ (hstate' = hstate \/ ~Stopped)
    BY <1>7 DEF Client, Start, Reconcile, EnsureReady, Acquire, AcquireRefused, Release, lockVars
  <2>2. /\ Shutdown \in Range(queue') => Shutdown \in Range(queue)
        /\ owner' = Shutdown => owner = Shutdown
    BY <1>1, <1>2, <2>1
  <2> QED BY <2>1, <2>2 DEF Announced, Stopped
<1>8. ASSUME NEW t \in Tasks, Cancel(t) PROVE Announced'
  <2>1. CASE CancelQueued(t)
    <3> DEFINE m == CHOOSE k \in DOMAIN queue : queue[k] = t
    <3>1. t \in Range(queue) /\ queue' = Dropped(queue, t)
          /\ UNCHANGED <<owner, stopping, hstate>>
      BY <2>1 DEF CancelQueued
    <3>2. m \in 1 .. Len(queue) /\ Len(queue) \in Nat
      BY <3>1 DEF Range, TypeOK
    <3>3. queue' = SubSeq(queue, 1, m - 1) \o SubSeq(queue, m + 1, Len(queue))
      BY <3>1 DEF Dropped, RemoveAt
    <3> HIDE DEF m
    <3>4. queue \in Seq(Range(queue))
      BY DEF TypeOK, Range
    <3>5. queue' \in Seq(Range(queue))
      BY <3>2, <3>3, <3>4
    <3>6. Range(queue') \subseteq Range(queue)
      <4> DEFINE R == Range(queue)
      <4>1. queue' \in Seq(R)
        BY <3>5
      <4> HIDE DEF R
      <4>2. \A k \in DOMAIN queue' : queue'[k] \in R
        BY <4>1
      <4> QED BY <4>2 DEF R, Range
    <3> QED BY <1>5, <3>1, <3>6 DEF Later
  <2>2. CASE CancelMount(t)
    BY <1>4, <1>5, <2>2 DEF CancelMount, lockVars
  <2>3. CASE CancelPublished(t)
    BY <1>3, <1>5, <2>3 DEF CancelPublished, Abort
  <2>4. CASE CancelUnmount(t) \/ CancelUnmounted(t)
    <3>1. /\ Unlock \/ UNCHANGED <<owner, queue>>
          /\ UNCHANGED <<stopping, hstate>>
      BY <2>4 DEF CancelUnmount, CancelUnmounted, Abort, lockVars
    <3> QED BY <1>3, <1>4, <1>5, <3>1
  <2> QED BY <1>8, <2>1, <2>2, <2>3, <2>4 DEF Cancel
<1>9. ASSUME NEW t \in Tasks, TaskStep(t) PROVE Announced'
  <2>1. /\ Unlock \/ UNCHANGED <<owner, queue>>
        /\ UNCHANGED <<stopping, hstate>>
    BY <1>9 DEF TaskStep, ReconcileRefused, Resolve, Mount, SetupOk, SetupFail, MountedHook,
                PublishedHooks, RollbackEnd, ReclaimLocked, ReclaimEnd, DisposeBegin, DisposeEnd,
                Abort, lockVars
  <2> QED BY <1>3, <1>4, <1>5, <2>1
<1>10. CASE Stop \/ ShutdownTask
  <2>1. CASE Stop
    BY <2>1 DEF Stop, Announced, Stopped
  <2>2. CASE ShutdownTask
    BY <2>2 DEF ShutdownTask, Announced, Stopped
  <2> QED BY <1>10, <2>1, <2>2
<1>11. CASE ShutdownStep
  <2>1. /\ Unlock \/ UNCHANGED <<owner, queue>>
        /\ stopping' = stopping /\ (hstate' = hstate \/ hstate' = "stopped")
    BY <1>11 DEF ShutdownStep, BeginShutdown, Drained, GraceExpired, ShutdownEnd, DisposeBegin,
                 DisposeEnd, lockVars
  <2> QED BY <1>3, <1>4, <1>5, <2>1
<1>12. CASE UNCHANGED vars
  BY <1>4, <1>5, <1>12 DEF vars
<1> QED BY <1>6, <1>7, <1>8, <1>9, <1>10, <1>11, <1>12 DEF Next

LEMMA NextInv == Inv /\ Announced /\ [Next]_vars => Inv'
<1> SUFFICES ASSUME Inv, Announced, [Next]_vars PROVE Inv'
  OBVIOUS
<1>1. CASE Change
  BY <1>1, ChangeStep
<1>2. ASSUME NEW t \in Tasks, Client(t) PROVE Inv'
  BY <1>2, ClientStep
<1>3. ASSUME NEW t \in Tasks, Cancel(t) PROVE Inv'
  BY <1>3, ClientStep, CancelMountStep, AbortStep, CancelUnmountStep, CancelUnmountedStep DEF Cancel
<1>4. ASSUME NEW t \in Tasks, TaskStep(t) PROVE Inv'
  BY <1>4, AbortStep, ResolveStep, MountStep, SetupStep, MountedHookStep, ReclaimStep,
     ReclaimEndStep, DisposeBeginStep, DisposeEndStep DEF TaskStep
<1>5. CASE Stop \/ ShutdownTask
  BY <1>5, StopStep
<1>6. CASE ShutdownStep
  BY <1>6, BeginShutdownStep, RetireAllStep, ShutdownEndStep, DisposeBeginStep, DisposeEndStep
     DEF ShutdownStep
<1>7. CASE UNCHANGED vars
  <2>1. UNCHANGED <<hstate, stopping, desired, revision, changes, dirty, planned, owner, queue, phase,
                    plan, at, entryRev, ordered, mounted, work, victim, inst, byEntry,
                    gstate, contents, current, built, terminal, cancels, pc, hold>>
    BY <1>7 DEF vars
  <2>2. TypeOK'
    BY <2>1 DEF Inv, TypeOK
  <2>3. Locked' /\ GenerationsKnown'
    BY <2>1, RegistryKept DEF Inv, Locked, Stopped, GenerationsKnown
  <2> QED BY <2>1, <2>2, <2>3, QuietStep DEF candidateVars, disposalVars
<1> QED BY <1>1, <1>2, <1>3, <1>4, <1>5, <1>6, <1>7 DEF Next

(* The harness keeps the invariant, whatever its tasks do. *)
THEOREM HarnessInvariant == Spec => [](Inv /\ Announced)
<1>1. Init => Inv /\ Announced
  BY InitInv
<1>2. Inv /\ Announced /\ [Next]_vars => Inv' /\ Announced'
  BY NextInv, AnnouncedNext DEF Inv
<1> QED BY <1>1, <1>2, PTL DEF Spec

(* A run keeps what it acquired: until the terminal shutdown gives up      *)
(* waiting, the generation it holds is live, and each of its instances is  *)
(* active and wired, within the generation, to what it requires. acquire() *)
(* and _reclaim make it so, under every interleaving and any number of     *)
(* cancellations.                                                          *)
THEOREM RunsKeepTheirGeneration == Spec => []PinnedRunsUndisturbed
<1>1. Inv => PinnedRunsUndisturbed
  <2> SUFFICES ASSUME Inv, NEW t \in Tasks, hold[t] # None, ~terminal
               PROVE  /\ gstate[hold[t]] \in {"active", "draining"}
                      /\ \A i \in contents[hold[t]] :
                           /\ inst[i].st = "active"
                           /\ inst[i].deps \subseteq contents[hold[t]]
                           /\ {inst[d].entry : d \in inst[i].deps} = Requires[inst[i].entry]
    BY DEF PinnedRunsUndisturbed
  <2>1. hold[t] \in Live
    BY DEF Inv, GenerationsKnown
  <2> QED BY <2>1 DEF Inv, Whole, Live, LiveIn
<1> QED BY <1>1, HarnessInvariant, PTL

(* What _materialize publishes is whole and stays so while it is live,     *)
(* whatever the bounds: GenerationsWhole says besides that the bounds on   *)
(* instances and generations of its run are never reached.                 *)
THEOREM GenerationsStayWhole ==
    Spec => [](/\ TypeOK /\ LiveInstancesActive /\ GenerationsClosed
               /\ BoundsSuffice => GenerationsWhole)
<1>1. Inv => /\ TypeOK /\ LiveInstancesActive /\ GenerationsClosed
             /\ BoundsSuffice => GenerationsWhole
  <2> SUFFICES ASSUME Inv PROVE TypeOK /\ LiveInstancesActive /\ GenerationsClosed
    BY DEF GenerationsWhole
  <2>1. LiveInstancesActive
    BY DEF Inv, Whole, Live, LiveIn, LiveInstancesActive
  <2>2. GenerationsClosed
    BY DEF Inv, Whole, GenerationsClosed
  <2> QED BY <2>1, <2>2 DEF Inv
<1> QED BY <1>1, HarnessInvariant, PTL

(* Cancelling a task at any await of reconcile() or of the reclaim, any    *)
(* number of times, leaves the runs what they acquired, only whole         *)
(* generations published, and nothing to the final teardown it misses.     *)
THEOREM CancellationIsSafe == Spec => []CancellationSafe
<1>1. Inv => GenerationsClosed /\ StoppedIsClean
  BY DEF Inv, Whole, GenerationsClosed, StoppedIsClean, Disposing, GenerationsKnown, Locked
<1> QED BY <1>1, HarnessInvariant, RunsKeepTheirGeneration, PTL DEF CancellationSafe

(***************************************************************************)
(* The line for the lock, and the contract of generations                  *)
(***************************************************************************)

LEMMA WaitingNext == TypeOK /\ Waiting /\ [Next]_vars => Waiting'
<1> SUFFICES ASSUME TypeOK, Waiting, [Next]_vars PROVE Waiting'
  OBVIOUS
<1> DEFINE Away == {"reconcile", "ensure", "reclaim"}
<1>1. /\ \A t \in Tasks : t # Shutdown /\ t # Nobody
      /\ queue \in Seq(Tasks \cup {Shutdown}) /\ Len(queue) \in Nat /\ DOMAIN queue = 1 .. Len(queue)
      /\ pc \in [Tasks -> {"idle", "reconcile", "ensure", "ready", "run", "reclaim"}]
      /\ hold \in [Tasks -> Gen \cup {None}]
      /\ Nobody \notin Tasks /\ Shutdown \notin Tasks
  BY HarnessAssumption DEF TypeOK
<1>2. ASSUME NEW x \in Tasks \cup {Shutdown}, Enqueue(x),
             x \in Tasks => pc[x] \notin Away /\ pc'[x] \in Away /\ hold'[x] = None,
             \A t \in Tasks : t # x => pc'[t] = pc[t] /\ hold'[t] = hold[t]
      PROVE  Waiting'
  <2>1. x \in Tasks => x # owner /\ x \notin Range(queue)
    BY <1>2 DEF Waiting
  <2>2. CASE owner = Nobody
    <3>1. owner' = x /\ queue' = queue
      BY <1>2, <2>2 DEF Enqueue
    <3> QED BY <1>1, <1>2, <2>1, <2>2, <3>1 DEF Waiting
  <2>3. CASE owner # Nobody
    <3>1. owner' = owner /\ queue' = Append(queue, x)
      BY <1>2, <2>3 DEF Enqueue
    <3>2. /\ DOMAIN queue' = 1 .. Len(queue) + 1
          /\ queue'[Len(queue) + 1] = x
          /\ \A k \in 1 .. Len(queue) : queue'[k] = queue[k]
      BY <1>1, <3>1, AppendProperties
    <3>3. \A k \in DOMAIN queue' : \/ k = Len(queue) + 1 /\ queue'[k] = x
                                   \/ k \in DOMAIN queue /\ queue'[k] = queue[k]
      BY <1>1, <3>2
    <3>4. Range(queue') \subseteq Range(queue) \cup {x}
      BY <3>3 DEF Range
    <3>5. ASSUME NEW k \in DOMAIN queue', NEW l \in DOMAIN queue', queue'[k] = queue'[l],
                 queue'[k] \in Tasks
          PROVE  k = l
      <4>1. CASE queue'[k] = x
        <5>1. \A m \in DOMAIN queue : queue[m] # x
          BY <2>1, <3>5, <4>1 DEF Range
        <5> QED BY <3>3, <3>5, <4>1, <5>1
      <4>2. CASE queue'[k] # x
        BY <3>3, <3>5, <4>2 DEF Waiting
      <4> QED BY <4>1, <4>2
    <3>6. \A t \in Tasks : t = owner' \/ t \in Range(queue') => pc'[t] \in Away
      BY <1>2, <3>1, <3>4 DEF Waiting
    <3>7. owner' \in Tasks => owner' \notin Range(queue')
      BY <2>1, <3>1, <3>4 DEF Waiting
    <3>8. \A t \in Tasks : pc'[t] # "run" => hold'[t] = None
      BY <1>2 DEF Waiting
    <3> QED BY <3>5, <3>6, <3>7, <3>8 DEF Waiting
  <2> QED BY <2>2, <2>3
<1>3. ASSUME Unlock, hold' = hold,
             \/ pc' = pc
             \/ \E t \in Tasks : /\ t = owner
                                 /\ pc' = [pc EXCEPT ![t] = "idle"] \/ pc' = [pc EXCEPT ![t] = "ready"]
      PROVE  Waiting'
  <2>1. \A t \in Tasks : /\ t # owner => pc'[t] = pc[t]
                         /\ pc'[t] = pc[t] \/ (t = owner /\ pc'[t] \in {"idle", "ready"})
    BY <1>1, <1>3
  <2>2. \A t \in Tasks : pc'[t] # "run" => hold'[t] = None
    BY <1>3, <2>1 DEF Waiting
  <2>3. /\ \A t \in Tasks : t = owner' \/ t \in Range(queue') => t \in Range(queue)
        /\ \A k, l \in DOMAIN queue' : queue'[k] = queue'[l] /\ queue'[k] \in Tasks => k = l
        /\ owner' \in Tasks => owner' \notin Range(queue')
    <3>1. CASE queue = <<>>
      <4>1. owner' = Nobody /\ queue' = <<>>
        BY <1>3, <3>1 DEF Unlock
      <4> QED BY <1>1, <4>1 DEF Range
    <3>2. CASE queue # <<>>
      <4>1. owner' = Head(queue) /\ queue' = Tail(queue)
        BY <1>3, <3>2 DEF Unlock
      <4>2. Head(queue) = queue[1] /\ 1 \in DOMAIN queue
        BY <1>1, <3>2
      <4>3. /\ Len(Tail(queue)) = Len(queue) - 1 /\ DOMAIN Tail(queue) = 1 .. Len(Tail(queue))
            /\ \A k \in 1 .. Len(Tail(queue)) : Tail(queue)[k] = queue[k + 1]
        BY <1>1, <3>2, HeadTailProperties
      <4>4. \A k \in DOMAIN queue' : /\ queue'[k] = queue[k + 1] /\ k + 1 \in DOMAIN queue
                                     /\ k + 1 # 1 /\ k \in Nat
        BY <1>1, <4>1, <4>3
      <4>5. \A t \in Tasks : t = owner' \/ t \in Range(queue') => t \in Range(queue)
        BY <4>1, <4>2, <4>4 DEF Range
      <4>6. ASSUME NEW k \in DOMAIN queue', NEW l \in DOMAIN queue', queue'[k] = queue'[l],
                   queue'[k] \in Tasks
            PROVE  k = l
        <5>1. k + 1 = l + 1
          BY <4>4, <4>6 DEF Waiting
        <5> QED BY <4>4, <5>1
      <4>7. owner' \in Tasks => owner' \notin Range(queue')
        <5> SUFFICES ASSUME owner' \in Tasks, NEW k \in DOMAIN queue', queue'[k] = owner' PROVE FALSE
          BY DEF Range
        <5> QED BY <4>1, <4>2, <4>4 DEF Waiting
      <4> QED BY <4>5, <4>6, <4>7
    <3> QED BY <3>1, <3>2
  <2>4. \A t \in Tasks : t \in Range(queue) => t # owner /\ pc'[t] \in Away
    BY <2>1 DEF Waiting
  <2> QED BY <2>2, <2>3, <2>4 DEF Waiting
<1>4. ASSUME UNCHANGED <<owner, queue>>, NEW t \in Tasks,
             pc[t] \notin Away, \A u \in Tasks : u # t => pc'[u] = pc[u] /\ hold'[u] = hold[u],
             pc'[t] # "run" => hold'[t] = None
      PROVE  Waiting'
  BY <1>4 DEF Waiting
<1>5. ASSUME UNCHANGED <<owner, queue, pc, hold>> PROVE Waiting'
  BY <1>5 DEF Waiting
<1>6. CASE Change
  BY <1>5, <1>6 DEF Change, Install, Uninstall, lockVars, taskVars
<1>7. ASSUME NEW t \in Tasks, Client(t) PROVE Waiting'
  <2>1. CASE Enqueue(t) /\ (Start(t) \/ Reconcile(t) \/ EnsureReady(t)) /\ pc'[t] \in Away
    <3>1. pc[t] = "idle" /\ hold' = hold /\ \A u \in Tasks : u # t => pc'[u] = pc[u]
      BY <1>1, <2>1 DEF Start, Reconcile, EnsureReady
    <3>2. hold'[t] = None
      BY <3>1 DEF Waiting
    <3> QED BY <1>2, <2>1, <3>1, <3>2
  <2>2. CASE EnsureReady(t) /\ UNCHANGED lockVars /\ pc' = [pc EXCEPT ![t] = "ready"]
    <3>1. pc[t] = "idle" /\ hold' = hold /\ \A u \in Tasks : u # t => pc'[u] = pc[u]
      BY <1>1, <2>2 DEF EnsureReady
    <3>2. hold'[t] = None
      BY <3>1 DEF Waiting
    <3> QED BY <1>4, <2>2, <3>1, <3>2 DEF lockVars
  <2>3. CASE Start(t) /\ UNCHANGED <<pc, lockVars>>
    BY <1>5, <2>3 DEF Start, lockVars
  <2>4. CASE Acquire(t)
    <3>1. /\ pc[t] \notin Away /\ UNCHANGED <<owner, queue>> /\ pc'[t] = "run"
          /\ \A u \in Tasks : u # t => pc'[u] = pc[u] /\ hold'[u] = hold[u]
      BY <1>1, <2>4 DEF Acquire, lockVars
    <3> QED BY <1>4, <3>1
  <2>5. CASE AcquireRefused(t)
    <3>1. /\ pc[t] = "ready" /\ UNCHANGED <<owner, queue>> /\ hold' = hold
          /\ \A u \in Tasks : u # t => pc'[u] = pc[u]
      BY <1>1, <2>5 DEF AcquireRefused, lockVars
    <3>2. hold'[t] = None
      BY <3>1 DEF Waiting
    <3> QED BY <1>4, <3>1, <3>2
  <2>6. CASE Release(t)
    <3>1. /\ pc[t] = "run" /\ hold'[t] = None
          /\ \A u \in Tasks : u # t => pc'[u] = pc[u] /\ hold'[u] = hold[u]
          /\ \/ Enqueue(t) /\ pc'[t] = "reclaim"
             \/ UNCHANGED <<owner, queue>>
      BY <1>1, <2>6 DEF Release, lockVars
    <3> QED BY <1>2, <1>4, <3>1
  <2>7. Start(t) => \/ Enqueue(t) /\ pc'[t] \in Away
                    \/ UNCHANGED <<pc, lockVars>>
    BY <1>1 DEF Start
  <2>8. Reconcile(t) => Enqueue(t) /\ pc'[t] \in Away
    BY <1>1 DEF Reconcile
  <2>9. EnsureReady(t) => \/ Enqueue(t) /\ pc'[t] \in Away
                          \/ UNCHANGED lockVars /\ pc' = [pc EXCEPT ![t] = "ready"]
    BY <1>1 DEF EnsureReady
  <2> HIDE DEF Away
  <2> QED BY <1>7, <2>1, <2>2, <2>3, <2>4, <2>5, <2>6, <2>7, <2>8, <2>9 DEF Client
<1>8. ASSUME NEW t \in Tasks, CancelQueued(t) PROVE Waiting'
  <2>1. /\ t \in Range(queue) /\ queue' = Dropped(queue, t) /\ owner' = owner
        /\ hold' = hold /\ pc' = [pc EXCEPT ![t] = "idle"]
    BY <1>8 DEF CancelQueued
  <2>2. PICK n \in DOMAIN queue : queue[n] = t
    BY <2>1 DEF Range
  <2>3. \A k \in DOMAIN queue : queue[k] = queue[n] => k = n
    BY <2>2 DEF Waiting
  <2>4. /\ queue' \in Seq(Tasks \cup {Shutdown})
        /\ Len(queue') = Len(queue) - 1
        /\ \A k \in 1 .. n - 1 : queue'[k] = queue[k]
        /\ \A k \in n .. Len(queue) - 1 : queue'[k] = queue[k + 1]
    <3> DEFINE S == Tasks \cup {Shutdown}
    <3>1. queue \in Seq(S) /\ n \in DOMAIN queue /\ queue' = Dropped(queue, queue[n])
      BY <1>1, <2>1, <2>2
    <3> HIDE DEF S
    <3>2. /\ Dropped(queue, queue[n]) \in Seq(S)
          /\ Len(Dropped(queue, queue[n])) = Len(queue) - 1
          /\ \A k \in 1 .. n - 1 : Dropped(queue, queue[n])[k] = queue[k]
          /\ \A k \in n .. Len(queue) - 1 : Dropped(queue, queue[n])[k] = queue[k + 1]
      BY ONLY <3>1, <2>3, DroppedMeans
    <3> QED BY <3>1, <3>2 DEF S
  <2>5. DOMAIN queue' = 1 .. Len(queue) - 1 /\ n \in 1 .. Len(queue)
    BY <1>1, <2>2, <2>4
  <2> DEFINE from(k) == IF k < n THEN k ELSE k + 1
  <2>6. \A k \in DOMAIN queue' : /\ from(k) \in DOMAIN queue /\ from(k) # n
                                 /\ queue'[k] = queue[from(k)] /\ k \in Nat
    BY <1>1, <2>4, <2>5
  <2>7. \A k, l \in DOMAIN queue' : from(k) = from(l) => k = l
    BY <1>1, <2>5
  <2> HIDE DEF from
  <2>8. Range(queue') \subseteq Range(queue) \ {t}
    BY <2>2, <2>3, <2>6 DEF Range
  <2>9. \A k, l \in DOMAIN queue' : queue'[k] = queue'[l] /\ queue'[k] \in Tasks => k = l
    BY <2>6, <2>7 DEF Waiting
  <2>10. t # owner /\ \A u \in Tasks : u # t => pc'[u] = pc[u]
    BY <1>1, <2>1 DEF Waiting
  <2>11. \A u \in Tasks : u = owner' \/ u \in Range(queue') => pc'[u] \in Away
    BY <2>1, <2>8, <2>10 DEF Waiting
  <2>12. \A u \in Tasks : pc'[u] # "run" => hold'[u] = None
    BY <1>1, <2>1, <2>10 DEF Waiting
  <2>13. owner' \in Tasks => owner' \notin Range(queue')
    BY <2>1, <2>8 DEF Waiting
  <2> QED BY <2>9, <2>11, <2>12, <2>13 DEF Waiting
<1>9. ASSUME NEW t \in Tasks, CancelMount(t) \/ CancelPublished(t) \/ CancelUnmount(t) \/ CancelUnmounted(t)
      PROVE  Waiting'
  <2>1. /\ owner = t
        /\ \/ UNCHANGED <<owner, queue, pc, hold>>
           \/ Unlock /\ pc' = [pc EXCEPT ![t] = "idle"] /\ hold' = hold
    BY <1>9 DEF CancelMount, CancelPublished, CancelUnmount, CancelUnmounted, Abort, Composing, Owning,
                lockVars, taskVars
  <2> QED BY <1>3, <1>5, <2>1
<1>10. ASSUME NEW t \in Tasks, TaskStep(t) PROVE Waiting'
  <2>1. \/ UNCHANGED <<owner, queue, pc, hold>>
        \/ /\ owner = t /\ Unlock /\ hold' = hold
           /\ pc' = [pc EXCEPT ![t] = "idle"] \/ pc' = [pc EXCEPT ![t] = "ready"]
    BY <1>10 DEF TaskStep, ReconcileRefused, Resolve, Mount, SetupOk, SetupFail, MountedHook,
                 PublishedHooks, RollbackEnd, ReclaimLocked, ReclaimEnd, DisposeBegin, DisposeEnd,
                 Abort, Composing, Owning, lockVars, taskVars
  <2> QED BY <1>3, <1>5, <2>1
<1>11. CASE Stop
  BY <1>5, <1>11 DEF Stop, lockVars, taskVars
<1>12. CASE ShutdownTask
  BY <1>1, <1>2, <1>12 DEF ShutdownTask, taskVars
<1>13. CASE ShutdownStep
  <2>1. \/ UNCHANGED <<owner, queue, pc, hold>>
        \/ Unlock /\ hold' = hold /\ pc' = pc
    BY <1>13 DEF ShutdownStep, BeginShutdown, Drained, GraceExpired, ShutdownEnd, DisposeBegin,
                 DisposeEnd, lockVars, taskVars
  <2> QED BY <1>3, <1>5, <2>1
<1>14. CASE UNCHANGED vars
  BY <1>5, <1>14 DEF vars
<1> QED BY <1>6, <1>7, <1>8, <1>9, <1>10, <1>11, <1>12, <1>13, <1>14 DEF Next, Cancel

(* No task waits in the line twice or while it runs. *)
LEMMA WaitingInvariant == Spec => []Waiting
<1>1. Init => Waiting
  BY HarnessAssumption DEF Init, Waiting, Range
<1>2. TypeOK /\ Waiting /\ [Next]_vars => Waiting'
  BY WaitingNext
<1>3. Inv => TypeOK
  BY DEF Inv
<1> QED BY <1>1, <1>2, <1>3, HarnessInvariant, PTL DEF Spec

(* How the number of leases changes when one task takes or drops one. *)
LEMMA LeasesChange ==
    ASSUME TypeOK, NEW t \in Tasks, NEW g \in Gen, NEW h, hold' = [hold EXCEPT ![t] = h]
    PROVE  /\ Leases(g) \in Nat
           /\ hold[t] # g /\ h = g => Leases(g)' = Leases(g) + 1
           /\ hold[t] = g /\ h # g => Leases(g)' = Leases(g) - 1 /\ Leases(g) > 0
           /\ (hold[t] = g <=> h = g) => Leases(g)' = Leases(g)
<1> DEFINE H == {u \in Tasks : hold[u] = g}
           K == {u \in Tasks : hold'[u] = g}
<1>1. hold \in [Tasks -> Gen \cup {None}]
  BY DEF TypeOK
<1>2. hold'[t] = h /\ \A u \in Tasks : u # t => hold'[u] = hold[u]
  BY <1>1
<1>3. IsFiniteSet(H) /\ Leases(g) = Cardinality(H) /\ Leases(g)' = Cardinality(K)
  BY HarnessAssumption, FS_Subset DEF Leases
<1>4. Cardinality(H) \in Nat
  BY <1>3, FS_CardinalityType
<1>5. CASE hold[t] # g /\ h = g
  <2>1. K = H \cup {t} /\ t \notin H
    BY <1>2, <1>5
  <2> HIDE DEF H, K
  <2> QED BY <1>3, <1>4, <1>5, <2>1, FS_AddElement
<1>6. CASE hold[t] = g /\ h # g
  <2>1. K = H \ {t} /\ t \in H
    BY <1>2, <1>6
  <2>2. Cardinality(H) # 0
    BY <1>3, <2>1, FS_EmptySet
  <2> HIDE DEF H, K
  <2>3. Cardinality(H \ {t}) = Cardinality(H) - 1
    BY <1>3, <2>1, FS_RemoveElement
  <2> QED BY <1>3, <1>4, <1>6, <2>1, <2>2, <2>3
<1>7. CASE hold[t] = g <=> h = g
  <2>1. K = H
    BY <1>2, <1>7
  <2> HIDE DEF H, K
  <2> QED BY <1>3, <1>4, <1>7, <2>1
<1> QED BY <1>3, <1>4, <1>5, <1>6, <1>7

(* Retiring what is idle, or everything in the terminal shutdown, is the   *)
(* contract's Retire, or nothing.                                          *)
LEMMA RetireMeans ==
    ASSUME TypeOK, NEW S \in SUBSET Gen, UNCHANGED <<hold, terminal>>,
           gstate' = [g \in Gen |-> IF g \in S THEN "retired" ELSE gstate[g]],
           \A g \in S : gstate[g] = "draining" /\ (terminal \/ Leases(g) = 0)
    PROVE  [Contract!Next]_(Contract!vars)
<1>0. \A g \in Gen : Leases(g)' = Leases(g)
  BY DEF Leases
<1>1. CASE S = {}
  <2>1. gstate' = gstate
    BY <1>1 DEF TypeOK
  <2> QED BY <1>0, <2>1 DEF Contract!vars
<1>2. CASE S # {}
  <2>1. \A g \in S : /\ gstate[g] \in {"building", "draining"}
                     /\ terminal \/ [h \in Gen |-> Leases(h)][g] = 0
    OBVIOUS
  <2>2. Contract!Retire(S)
    BY <1>0, <1>2, <2>1 DEF Contract!Retire
  <2> QED BY <2>2 DEF Contract!Next
<1> QED BY <1>1, <1>2

(* Every step of the harness is a step of the contract or invisible to it. *)
LEMMA ContractStep ==
    ASSUME Inv, Waiting, [Next]_vars
    PROVE  [Contract!Next]_(Contract!vars)
<1> DEFINE Invisible == UNCHANGED <<gstate, terminal, hold>>
<1> USE DEF Inv
<1>1. ASSUME Invisible PROVE [Contract!Next]_(Contract!vars)
  <2>1. \A g \in Gen : Leases(g)' = Leases(g)
    BY <1>1 DEF Leases
  <2> QED BY <1>1, <2>1 DEF Contract!vars
<1>2. ASSUME StartReclaim(gstate), UNCHANGED <<hold, terminal>> PROVE [Contract!Next]_(Contract!vars)
  <2>1. /\ gstate' = [g \in Gen |-> IF g \in Idle(gstate) THEN "retired" ELSE gstate[g]]
        /\ Idle(gstate) \in SUBSET Gen
        /\ \A g \in Idle(gstate) : gstate[g] = "draining" /\ Leases(g) = 0
    BY <1>2 DEF StartReclaim, Idle
  <2> QED BY <1>2, <2>1, RetireMeans
<1>3. ASSUME NEW p, NEW c, Conclude(p, c), UNCHANGED <<hold, terminal>>
      PROVE  [Contract!Next]_(Contract!vars)
  <2>1. CASE UNCHANGED gstate
    BY <1>1, <1>3, <2>1
  <2>2. CASE StartReclaim(gstate)
    BY <1>2, <1>3, <2>2
  <2>3. CASE /\ built < MaxGenerations
             /\ gstate' = [g \in Gen |-> IF g = built + 1 THEN "active"
                                         ELSE IF g = current THEN "draining" ELSE gstate[g]]
    <3>1. built + 1 \in Gen /\ built + 1 > built
      BY <2>3, HarnessAssumption DEF TypeOK, Gen
    <3>2. gstate[built + 1] = "unbuilt" /\ \A g \in Gen : gstate[g] = "active" <=> g = current
      BY <3>1 DEF GenerationsKnown
    <3>3. \A g \in Gen : Leases(g)' = Leases(g)
      BY <1>3 DEF Leases
    <3>4. Contract!Publish(built + 1)
      BY <1>3, <2>3, <3>2, <3>3 DEF Contract!Publish
    <3> QED BY <3>1, <3>4 DEF Contract!Next
  <2> QED BY <1>3, <2>1, <2>2, <2>3 DEF Conclude
<1>4. ASSUME NEW p, NEW from, NEW c, Proceed(p, from, c), UNCHANGED <<hold, terminal>>
      PROVE  [Contract!Next]_(Contract!vars)
  <2>1. UNCHANGED gstate \/ \E d : Conclude(p, d)
    BY <1>4 DEF Proceed
  <2> QED BY <1>1, <1>3, <1>4, <2>1
<1>5. CASE Change
  BY <1>1, <1>5 DEF Change, Install, Uninstall, genVars, taskVars
<1>6. ASSUME NEW t \in Tasks, Client(t) PROVE [Contract!Next]_(Contract!vars)
  <2>1. CASE Acquire(t)
    <3>1. /\ current \in Gen /\ gstate[current] = "active" /\ hold' = [hold EXCEPT ![t] = current]
          /\ UNCHANGED <<gstate, terminal>> /\ hold[t] = None
      BY <2>1 DEF Acquire, genVars, TypeOK, Waiting
    <3>2. \A g \in Gen : Leases(g)' = IF g = current THEN Leases(g) + 1 ELSE Leases(g)
      BY <3>1, LeasesChange, SlotsAreNumbers
    <3>3. Contract!Acquire(current)
      BY <3>1, <3>2 DEF Contract!Acquire
    <3> QED BY <3>1, <3>3 DEF Contract!Next
  <2>2. CASE Release(t)
    <3>1. /\ hold[t] \in Gen \cup {None} /\ hold' = [hold EXCEPT ![t] = None]
          /\ UNCHANGED <<gstate, terminal>>
      BY <2>2 DEF Release, genVars, TypeOK
    <3>2. CASE hold[t] = None
      <4>1. \A g \in Gen : Leases(g)' = Leases(g)
        BY <3>1, <3>2, LeasesChange, SlotsAreNumbers
      <4> QED BY <3>1, <4>1 DEF Contract!vars
    <3>3. CASE hold[t] # None
      <4>1. \A g \in Gen : Leases(g)' = IF g = hold[t] THEN Leases(g) - 1 ELSE Leases(g)
        BY <3>1, <3>3, LeasesChange, SlotsAreNumbers
      <4>2. hold[t] \in Gen /\ Leases(hold[t]) > 0
        BY <3>1, <3>3, LeasesChange
      <4>3. Contract!Release(hold[t])
        BY <3>1, <4>1, <4>2 DEF Contract!Release
      <4> QED BY <4>2, <4>3 DEF Contract!Next
    <3> QED BY <3>2, <3>3
  <2>3. CASE Start(t) \/ Reconcile(t) \/ EnsureReady(t) \/ AcquireRefused(t)
    BY <1>1, <2>3 DEF Start, Reconcile, EnsureReady, AcquireRefused, genVars, taskVars
  <2> QED BY <1>6, <2>1, <2>2, <2>3 DEF Client
<1>7. ASSUME NEW t \in Tasks, Cancel(t) PROVE [Contract!Next]_(Contract!vars)
  BY <1>1, <1>7 DEF Cancel, CancelQueued, CancelMount, CancelPublished, CancelUnmount, CancelUnmounted,
                    Abort, genVars, taskVars
<1>8. ASSUME NEW t \in Tasks, TaskStep(t) PROVE [Contract!Next]_(Contract!vars)
  <2>1. CASE Resolve(t)
    BY <1>4, <2>1 DEF Resolve, taskVars
  <2>2. CASE MountedHook(t)
    BY <1>4, <2>2 DEF MountedHook, taskVars
  <2>3. CASE PublishedHooks(t) \/ ReclaimLocked(t)
    BY <1>2, <2>3 DEF PublishedHooks, ReclaimLocked, taskVars
  <2>4. CASE \/ ReconcileRefused(t) \/ Mount(t) \/ SetupOk(t) \/ SetupFail(t) \/ RollbackEnd(t)
             \/ ReclaimEnd(t) \/ DisposeBegin(t) \/ DisposeEnd(t)
    BY <1>1, <2>4 DEF ReconcileRefused, Mount, SetupOk, SetupFail, RollbackEnd, ReclaimEnd,
                      DisposeBegin, DisposeEnd, Abort, genVars, taskVars
  <2> QED BY <1>8, <2>1, <2>2, <2>3, <2>4 DEF TaskStep
<1>9. CASE Stop \/ ShutdownTask
  BY <1>1, <1>9 DEF Stop, ShutdownTask, genVars, taskVars
<1>10. CASE BeginShutdown
  <2>1. /\ terminal' = TRUE /\ hold' = hold
        /\ gstate' = [g \in Gen |-> IF g = current THEN "draining" ELSE gstate[g]]
        /\ \A g \in Gen : gstate[g] = "active" <=> g = current
    BY <1>10 DEF BeginShutdown, taskVars, GenerationsKnown
  <2>2. \A g \in Gen : Leases(g)' = Leases(g)
    BY <2>1 DEF Leases
  <2>3. Contract!Shutdown
    BY <2>1, <2>2 DEF Contract!Shutdown
  <2> QED BY <2>3 DEF Contract!Next
<1>11. CASE Drained \/ GraceExpired
  <2>1. /\ gstate' = [g \in Gen |-> IF gstate[g] = "draining" THEN "retired" ELSE gstate[g]]
        /\ UNCHANGED <<hold, terminal>> /\ phase = "drain"
    BY <1>11 DEF Drained, GraceExpired, RetireAll, taskVars
  <2>2. gstate' = [g \in Gen |-> IF g \in Draining THEN "retired" ELSE gstate[g]]
        /\ Draining \in SUBSET Gen /\ \A g \in Draining : gstate[g] = "draining"
    BY <2>1 DEF Draining
  <2>3. terminal
    BY <2>1 DEF Locked
  <2> QED BY <2>1, <2>2, <2>3, RetireMeans
<1>12. CASE ShutdownEnd \/ DisposeBegin(Shutdown) \/ DisposeEnd(Shutdown)
  BY <1>1, <1>12 DEF ShutdownEnd, DisposeBegin, DisposeEnd, genVars, taskVars
<1>13. CASE UNCHANGED vars
  BY <1>1, <1>13 DEF vars
<1> QED BY <1>5, <1>6, <1>7, <1>8, <1>9, <1>10, <1>11, <1>12, <1>13 DEF Next, ShutdownStep

(* The harness, with its reconciliations, runs, cancellations and stop()   *)
(* interleaved in any way, implements the contract of generations: a run   *)
(* holds one published generation, and that stays alive until it is        *)
(* released or the terminal shutdown gives up waiting.                     *)
THEOREM HarnessImplementsContract == Spec => ImplementsContract
<1>1. Init => Contract!Init
  <2> SUFFICES ASSUME Init PROVE Contract!Init
    OBVIOUS
  <2>1. ASSUME NEW g \in Gen PROVE Leases(g) = 0
    <3>1. {t \in Tasks : hold[t] = g} = {}
      BY SlotsAreNumbers DEF Init
    <3> QED BY <3>1, FS_EmptySet DEF Leases
  <2>2. [g \in Gen |-> Leases(g)] = [g \in Gen |-> 0]
    BY <2>1
  <2> QED BY <2>2 DEF Init, Contract!Init
<1>2. Inv /\ Waiting /\ [Next]_vars => [Contract!Next]_(Contract!vars)
  BY ContractStep
<1> QED BY <1>1, <1>2, HarnessInvariant, WaitingInvariant, PTL
        DEF Spec, ImplementsContract, Contract!Spec

(***************************************************************************)
(* Without cancellations: nothing is left behind, consumers go first       *)
(***************************************************************************)

(* An instance comes after what it is wired to in the activation order. *)
LEMMA WiredBackwards ==
    ASSUME Inv, NEW j \in Registered, NEW i \in Registered, i \in inst[j].deps,
           NEW m \in DOMAIN ActivationOrder, NEW n \in DOMAIN ActivationOrder,
           ActivationOrder[m] = inst[i].entry, ActivationOrder[n] = inst[j].entry
    PROVE  m < n
<1>1. inst[i].entry \in Requires[ActivationOrder[n]]
  BY DEF Inv, Wired
<1>2. PICK k \in 1 .. n - 1 : ActivationOrder[k] = inst[i].entry
  BY <1>1, OrderMeans
<1>3. k \in DOMAIN ActivationOrder /\ k < n
  BY <1>2, OrderMeans
<1>4. k = m
  BY <1>2, <1>3, OrderMeans
<1> QED BY <1>3, <1>4

(* _teardown_order always finds an instance no other still consumes: the   *)
(* one whose entry comes last in the activation order.                     *)
LEMMA SomethingReady ==
    ASSUME Inv, NEW W \in SUBSET Registered, W # {}
    PROVE  \E i \in W : \A j \in W : i \notin inst[j].deps
<1> DEFINE P == {n \in DOMAIN ActivationOrder : \E i \in W : ActivationOrder[n] = inst[i].entry}
<1>1. \A i \in W : inst[i].entry \in Entries
  BY DEF Inv, Listed
<1>2. \A i \in W : \E n \in DOMAIN ActivationOrder : ActivationOrder[n] = inst[i].entry
  BY <1>1, OrderMeans
<1>3. P # {} /\ P \in SUBSET Nat /\ IsFiniteSet(P)
  <2>1. P \subseteq 1 .. Len(ActivationOrder) /\ Len(ActivationOrder) \in Nat
    BY OrderMeans
  <2>2. IsFiniteSet(1 .. Len(ActivationOrder))
    BY <2>1, FS_Interval
  <2>3. P # {}
    BY <1>2
  <2> QED BY <2>1, <2>2, <2>3, FS_Subset
<1>4. Max(P) \in P /\ \A m \in P : m <= Max(P)
  <2> HIDE DEF P
  <2> QED BY <1>3, GreatestMember
<1>5. PICK i \in W, top \in DOMAIN ActivationOrder :
        ActivationOrder[top] = inst[i].entry /\ \A m \in P : m <= top
  BY <1>4
<1>6. ASSUME NEW j \in W, i \in inst[j].deps PROVE FALSE
  <2>1. PICK n \in DOMAIN ActivationOrder : ActivationOrder[n] = inst[j].entry
    BY <1>2
  <2>2. top < n
    BY <1>5, <1>6, <2>1, WiredBackwards
  <2>3. n \in P /\ n \in Nat /\ top \in Nat
    BY <2>1, OrderMeans
  <2> QED BY <1>5, <2>2, <2>3
<1> QED BY <1>6

(* What a loop disposes next, no active instance is wired to.              *)
LEMMA ConsumersGoFirst ==
    ASSUME Inv, Accounted, victim = None, NEW i \in Disposable,
           NEW j \in Slot, inst[j].st = "active", i \in inst[j].deps
    PROVE  FALSE
<1> USE DEF Inv
<1>1. /\ i \in Registered /\ ~Reached(i)
      /\ inst[i].st \in {"active", "failed"}
      /\ \/ phase = "retry" /\ i = Newest(Entry) /\ inst[i].st = "failed"
         \/ phase = "rollback" /\ mounted # <<>> /\ i = Last(mounted)
         \/ phase \in {"reclaim", "teardown"} /\ i \in work
  BY DisposableMeans
<1>2. i \in Slot /\ j \in Registered
  BY <1>1 DEF Registered
<1>3. ~Reached(j)
  BY <1>1 DEF Whole, Reached
<1>4. inst[i].st = "active"
  BY <1>2 DEF Accounted, ProvidersOutliveConsumers
<1>5. CASE phase = "rollback"
  <2>1. /\ mounted # <<>> /\ i = mounted[Len(mounted)] /\ mounted \in Seq(Slot)
        /\ Len(mounted) \in DOMAIN mounted
    BY <1>1, <1>5 DEF Last, TypeOK
  <2>2. PICK k \in DOMAIN mounted : mounted[k] = j
    BY <1>3, <1>5 DEF Accounted, Kept, Range, Materializing
  <2>3. CASE k = Len(mounted)
    <3>1. i = j /\ inst[i].entry \in Entries
      BY <1>1, <2>1, <2>2, <2>3 DEF Listed
    <3>2. PICK n \in DOMAIN ActivationOrder : ActivationOrder[n] = inst[i].entry
      BY <3>1, OrderMeans
    <3>3. n < n
      BY <1>1, <3>1, <3>2, WiredBackwards
    <3> QED BY <3>3, OrderMeans
  <2>4. CASE k # Len(mounted)
    <3>1. k < Len(mounted)
      BY <2>1, <2>2, <2>4
    <3>2. PICK m \in DOMAIN ActivationOrder, n \in DOMAIN ActivationOrder :
            /\ m < n
            /\ ActivationOrder[m] = inst[j].entry
            /\ ActivationOrder[n] = inst[i].entry
      BY <1>5, <2>1, <2>2, <3>1 DEF Mounted
    <3>3. n < m
      BY <1>1, <1>2, <3>2, WiredBackwards
    <3> QED BY <3>2, <3>3, OrderMeans
  <2> QED BY <2>3, <2>4
<1>6. CASE phase \in {"reclaim", "teardown"}
  <2>1. work \in SUBSET Registered /\ i \in work
    BY <1>1, <1>6 DEF Disposing
  <2>2. \E k \in work : \A l \in work : k \notin inst[l].deps
    BY <2>1, SomethingReady
  <2>3. \A l \in work : i \notin inst[l].deps
    BY <1>6, <2>2 DEF Disposable
  <2>4. j \in work
    BY <1>3, <1>6 DEF Accounted, Kept, Materializing
  <2> QED BY <2>3, <2>4
<1> QED BY <1>1, <1>4, <1>5, <1>6

(* What the head of _reclaim leaves reached or puts on its list is         *)
(* everything active.                                                      *)
LEMMA ReclaimListsAll ==
    ASSUME Inv, StartReclaim(gstate), NEW i \in Slot, inst'[i].st = "active"
    PROVE  /\ inst[i].st = "active" /\ inst'[i].deps = inst[i].deps
           /\ Reached(i)' \/ i \in work'
           /\ phase' = "reclaim"
<1> USE DEF Inv
<1>1. /\ gstate' = [g \in Gen |-> IF g \in Idle(gstate) THEN "retired" ELSE gstate[g]]
      /\ contents' = [g \in Gen |-> IF g \in Idle(gstate) THEN {} ELSE contents[g]]
      /\ inst' = Refreshed(gstate')
      /\ work' = {j \in Registered :
                    \/ inst[j].st = "active" /\ j \notin ReachableIn(gstate')
                    \/ inst[j].st = "failed" /\ desired[inst[j].entry] = None}
      /\ phase' = "reclaim"
  BY DEF StartReclaim
<1>2. gstate' \in [Gen -> {"unbuilt", "active", "draining", "retired"}]
  BY <1>1 DEF TypeOK
<1>3. inst[i].st = "active" /\ inst'[i].deps = inst[i].deps /\ i \in Registered
  BY <1>1, <1>2, RefreshedMeans DEF Registered
<1>4. CASE i \in ReachableIn(gstate')
  <2>1. PICK g \in Live' : i \in contents[g]
    BY <1>4 DEF ReachableIn, Live
  <2>2. g \in Gen /\ g \notin Idle(gstate)
    BY <1>1, <2>1 DEF Live, LiveIn
  <2>3. contents'[g] = contents[g]
    BY <1>1, <2>2
  <2> QED BY <1>1, <1>3, <2>1, <2>3 DEF Reached
<1>5. CASE i \notin ReachableIn(gstate')
  BY <1>1, <1>3, <1>5
<1> QED BY <1>4, <1>5

LEMMA AccountedNext ==
    ASSUME Inv, Inv', Announced, Accounted, MaxCancels = 0, [Next]_vars
    PROVE  Accounted'
<1> USE DEF Inv
<1>1. ASSUME UNCHANGED <<inst, byEntry, gstate, contents>>,
             \A i \in Slot : inst[i].st = "active" /\ Kept(i) => Kept(i)'
      PROVE  Accounted'
  BY <1>1 DEF Accounted, ProvidersOutliveConsumers
<1>2. ASSUME UNCHANGED <<inst, byEntry, gstate, contents, at, mounted, work>>,
             phase' = phase \/ phase \in {"free", "locked", "published", "drain"}
      PROVE  Accounted'
  <2>1. \A i : Reached(i)' <=> Reached(i)
    BY <1>2, RegistryKept
  <2>2. Newest(Entry)' = Newest(Entry)
    BY <1>2 DEF Newest, Entry
  <2>3. \A i \in Slot : Kept(i) => Kept(i)'
    BY <1>2, <2>1, <2>2 DEF Kept, Materializing
  <2> QED BY <1>1, <1>2, <2>3
<1>3. ASSUME UNCHANGED <<inst, byEntry, gstate, contents>>, Unlock,
             \/ phase \in {"locked", "published"}
             \/ phase = "rollback" /\ mounted = <<>>
      PROVE  Accounted'
  <2>1. \A i : Reached(i)' <=> Reached(i)
    BY <1>3, RegistryKept
  <2>2. \A i \in Slot : Kept(i) => Reached(i)
    BY <1>3 DEF Kept, Materializing, Range
  <2> QED BY <1>1, <1>3, <2>1, <2>2 DEF Kept
<1>4. ASSUME StartReclaim(gstate) PROVE Accounted'
  <2>1. \A i \in Slot : inst'[i].st = "active" =>
          /\ inst[i].st = "active" /\ inst'[i].deps = inst[i].deps
          /\ Reached(i)' \/ i \in work'
          /\ phase' = "reclaim"
    BY <1>4, ReclaimListsAll
  <2>2. \A i \in Slot : inst'[i].st = inst[i].st
    <3>1. inst' = Refreshed(gstate')
      BY <1>4 DEF StartReclaim
    <3>2. gstate' \in [Gen -> {"unbuilt", "active", "draining", "retired"}]
      BY <1>4 DEF StartReclaim, TypeOK
    <3> QED BY <3>1, <3>2, RefreshedMeans
  <2>3. \A i \in Slot : inst[i].deps \subseteq Slot
    BY DEF TypeOK, Instance
  <2>4. \A i \in Slot : inst'[i].st = "active" => Kept(i)'
    BY <2>1 DEF Kept
  <2>5. ProvidersOutliveConsumers'
    <3> SUFFICES ASSUME NEW j \in Slot, inst'[j].st = "active", NEW i \in inst'[j].deps
                 PROVE  inst'[i].st = "active"
      BY DEF ProvidersOutliveConsumers
    <3>1. i \in inst[j].deps /\ inst[j].st = "active" /\ i \in Slot
      BY <2>1, <2>3
    <3> QED BY <3>1, <2>2 DEF Accounted, ProvidersOutliveConsumers
  <2> QED BY <2>4, <2>5 DEF Accounted
<1>5. CASE Change
  BY <1>2, <1>5 DEF Change, Install, Uninstall, candidateVars, disposalVars, instVars, genVars
<1>6. ASSUME NEW t \in Tasks, Client(t) \/ CancelQueued(t) PROVE Accounted'
  <2>1. /\ UNCHANGED <<inst, byEntry, gstate, contents, at, mounted, work>>
        /\ Enqueue(t) \/ UNCHANGED phase
    BY <1>6 DEF Client, Start, Reconcile, EnsureReady, Acquire, AcquireRefused, Release, CancelQueued,
                candidateVars, disposalVars, instVars, genVars
  <2>2. phase' = phase \/ phase = "free"
    BY <2>1, EnqueueMeans
  <2> QED BY <1>2, <2>1, <2>2
<1>7. CASE Stop \/ ShutdownTask
  <2>1. /\ UNCHANGED <<inst, byEntry, gstate, contents, at, mounted, work>>
        /\ Enqueue(Shutdown) \/ UNCHANGED phase
    BY <1>7 DEF Stop, ShutdownTask, candidateVars, disposalVars, instVars, genVars
  <2>2. phase' = phase \/ phase = "free"
    BY <2>1, EnqueueMeans
  <2> QED BY <1>2, <2>1, <2>2
<1>8. ~CountCancel
  BY DEF CountCancel, TypeOK
<1>9. ASSUME NEW t \in Tasks, ReconcileRefused(t) \/ RollbackEnd(t) PROVE Accounted'
  BY <1>3, <1>9 DEF ReconcileRefused, RollbackEnd, Abort, instVars, genVars
<1>10. ASSUME NEW t \in Tasks, ReclaimLocked(t) \/ PublishedHooks(t) PROVE Accounted'
  BY <1>4, <1>10 DEF ReclaimLocked, PublishedHooks
<1>11. ASSUME NEW t \in Tasks, ReclaimEnd(t) PROVE Accounted'
  <2>1. /\ phase = "reclaim" /\ work = {} /\ inst' = Refreshed(gstate) /\ Unlock
        /\ UNCHANGED <<byEntry, gstate, contents>>
    BY <1>11 DEF ReclaimEnd, genVars
  <2>2. \A i \in Slot : /\ inst'[i].st = inst[i].st /\ inst'[i].deps = inst[i].deps
    <3>1. gstate \in [Gen -> {"unbuilt", "active", "draining", "retired"}]
      BY DEF TypeOK
    <3> QED BY <2>1, <3>1, RefreshedMeans
  <2>3. \A i : Reached(i) => Reached(i)'
    BY <2>1 DEF Reached, Live, LiveIn
  <2>4. \A i \in Slot : Kept(i) => Reached(i)
    BY <2>1 DEF Kept, Materializing
  <2>5. \A i \in Slot : inst[i].deps \subseteq Slot
    BY DEF TypeOK
  <2> QED BY <2>2, <2>3, <2>4, <2>5 DEF Accounted, Kept, ProvidersOutliveConsumers
<1>12. ASSUME NEW t \in Tasks, Mount(t) PROVE Accounted'
  <2>1. /\ phase = "mounting" /\ phase' = "setup"
        /\ UNCHANGED <<gstate, contents, mounted, work>>
    BY <1>12 DEF Mount, candidateVars, disposalVars, genVars
  <2>2. PICK i \in Unused :
             inst' = [inst EXCEPT ![i] = [entry |-> Entry, rev |-> entryRev, st |-> "loading",
                                          ident |-> Identity(Entry), deps |-> Resolved(Entry),
                                          refs |-> 0]]
    BY <1>12, MountMeans
  <2>3. i \in Slot /\ inst[i].st = "free" /\ inst'[i].st = "loading"
        /\ \A j \in Slot : j # i => inst'[j] = inst[j]
    BY <2>2 DEF Unused, TypeOK
  <2>4. \A j : Reached(j) => Reached(j)'
    BY <2>1 DEF Reached, Live, LiveIn
  <2>5. \A j \in Slot : inst[j].deps \subseteq Slot
    BY DEF TypeOK
  <2> QED BY <2>1, <2>3, <2>4, <2>5 DEF Accounted, Kept, Materializing, ProvidersOutliveConsumers
<1>13. ASSUME NEW t \in Tasks, SetupOk(t) \/ SetupFail(t) PROVE Accounted'
  <2> DEFINE n == Newest(Entry)
             s == IF phase' = "mounted" THEN "active" ELSE "failed"
  <2>1. /\ phase = "setup" /\ phase' \in {"mounted", "rollback"}
        /\ inst' = [inst EXCEPT ![n].st = s]
        /\ UNCHANGED <<gstate, contents, mounted, work, at, byEntry>>
    BY <1>13 DEF SetupOk, SetupFail, candidateVars, disposalVars, genVars
  <2>2. Materializing
    BY <2>1 DEF Materializing
  <2>3. /\ n # None /\ n \in Slot /\ inst[n].st = "loading"
        /\ \A d \in inst[n].deps : inst[d].st = "active"
    BY <2>1, <2>2, EntryAtHand, NewestMeans DEF AtHand
  <2>4. s \in InstanceStates /\ (s = "active" => phase' = "mounted") /\ s # "loading"
    BY DEF InstanceStates
  <2>5. /\ inst'[n].st = s
        /\ \A j \in Slot : inst'[j].deps = inst[j].deps /\ (j # n => inst'[j] = inst[j])
    <3> HIDE DEF s
    <3> HIDE DEF n
    <3> QED BY <2>1, <2>3, <2>4, Restated
  <2>6. Newest(Entry)' = n
    BY <2>1 DEF Newest, Entry
  <2>7. \A j : Reached(j) => Reached(j)'
    BY <2>1 DEF Reached, Live, LiveIn
  <2>8. \A j \in Slot : inst[j].deps \subseteq Slot
    BY DEF TypeOK
  <2> HIDE DEF n, s
  <2>9. ASSUME NEW j \in Slot, inst'[j].st = "active" PROVE Kept(j)'
    <3>1. CASE j = n
      BY <2>4, <2>5, <2>6, <2>9, <3>1 DEF Kept
    <3>2. CASE j # n
      <4>1. Kept(j)
        BY <2>5, <2>9, <3>2 DEF Accounted
      <4> QED BY <2>1, <2>2, <2>7, <4>1 DEF Kept, Materializing
    <3> QED BY <3>1, <3>2
  <2>10. ASSUME NEW j \in Slot, inst'[j].st = "active", NEW d \in inst'[j].deps
         PROVE  inst'[d].st = "active"
    <3>1. d \in inst[j].deps /\ d \in Slot
      BY <2>5, <2>8, <2>10
    <3>2. CASE j = n
      <4>1. inst[d].st = "active" /\ d # n
        BY <2>3, <3>1, <3>2
      <4> QED BY <2>5, <3>1, <4>1
    <3>3. CASE j # n
      <4>1. inst[d].st = "active"
        BY <2>5, <2>10, <3>1, <3>3 DEF Accounted, ProvidersOutliveConsumers
      <4>2. d # n
        BY <2>3, <4>1
      <4> QED BY <2>5, <3>1, <4>1, <4>2
    <3> QED BY <3>2, <3>3
  <2> QED BY <2>9, <2>10 DEF Accounted, ProvidersOutliveConsumers
<1>14. ASSUME NEW x, DisposeBegin(x) PROVE Accounted'
  <2>1. PICK i \in Disposable :
         IF inst[i].refs > 0
         THEN Handled(i) /\ UNCHANGED inst
         ELSE /\ victim' = i
              /\ inst' = [inst EXCEPT ![i].st = IF @ = "active" THEN "unloading" ELSE @]
              /\ UNCHANGED <<work, mounted, phase>>
    BY <1>14 DEF DisposeBegin
  <2>2. victim = None /\ UNCHANGED <<at, byEntry, gstate, contents>>
    BY <1>14 DEF DisposeBegin, genVars
  <2>3. i \in Registered /\ inst[i].refs = 0
    BY <2>2, DisposableMeans
  <2>4. /\ inst' = [inst EXCEPT ![i].st = IF @ = "active" THEN "unloading" ELSE @]
        /\ UNCHANGED <<work, mounted, phase>> /\ i \in Slot
    BY <2>1, <2>3 DEF Registered
  <2>5. /\ inst'[i].st # "active"
        /\ \A j \in Slot : inst'[j].deps = inst[j].deps /\ (j # i => inst'[j] = inst[j])
    BY <2>4 DEF TypeOK
  <2>6. \A j : Reached(j) => Reached(j)'
    BY <2>2 DEF Reached, Live, LiveIn
  <2>7. Newest(Entry)' = Newest(Entry)
    BY <2>2 DEF Newest, Entry
  <2>8. \A j \in Slot : inst'[j].st = "active" => Kept(j)'
    BY <2>4, <2>5, <2>6, <2>7 DEF Accounted, Kept, Materializing
  <2>9. ASSUME NEW j \in Slot, inst'[j].st = "active", NEW d \in inst'[j].deps
        PROVE  inst'[d].st = "active"
    <3>1. inst[j].st = "active" /\ d \in inst[j].deps /\ d \in Slot
      BY <2>5, <2>9 DEF TypeOK
    <3>2. inst[d].st = "active" /\ d # i
      BY <2>2, <3>1, ConsumersGoFirst DEF Accounted, ProvidersOutliveConsumers
    <3> QED BY <2>5, <3>1, <3>2
  <2> QED BY <2>8, <2>9 DEF Accounted, ProvidersOutliveConsumers
<1>15. ASSUME NEW x, DisposeEnd(x) PROVE Accounted'
  <2>1. /\ victim # None /\ Forget(victim) /\ Handled(victim)
        /\ UNCHANGED <<at, gstate, contents>>
    BY <1>15 DEF DisposeEnd, genVars
  <2>2. /\ \A j \in Slot : j # victim => inst'[j] = inst[j]
        /\ \A j : Reached(j)' <=> Reached(j)
        /\ Registered' = Registered \ {victim}
    BY <2>1, ForgetMeans
  <2>3. /\ victim \in Slot /\ inst[victim].st \in {"unloading", "failed"}
        /\ \/ phase = "retry" /\ victim = Newest(Entry)
           \/ phase = "rollback" /\ mounted # <<>> /\ victim = Last(mounted)
           \/ phase \in {"reclaim", "teardown"} /\ victim \in work
    BY <2>1 DEF Disposing, TypeOK
  <2>4. /\ work' = work \ {victim}
        /\ mounted' = IF phase = "rollback" THEN Front(mounted) ELSE mounted
        /\ phase' = IF phase = "retry" THEN "mounting" ELSE phase
    BY <2>1 DEF Handled
  <2>5. \A j \in Range(mounted) : j # victim => j \in Range(mounted')
    <3>1. CASE phase = "rollback"
      <4>1. mounted \in Seq(Slot) /\ mounted # <<>> /\ victim = mounted[Len(mounted)]
        BY <2>3, <3>1 DEF Last, TypeOK
      <4>2. /\ Len(mounted') = Len(mounted) - 1 /\ DOMAIN mounted' = 1 .. Len(mounted) - 1
            /\ \A k \in 1 .. Len(mounted) - 1 : mounted'[k] = mounted[k]
        BY <2>4, <3>1, <4>1, FrontMeans
      <4>3. \A k \in DOMAIN mounted : mounted[k] # victim => k \in 1 .. Len(mounted) - 1
        BY <4>1
      <4> QED BY <4>2, <4>3 DEF Range
    <3>2. CASE phase # "rollback"
      BY <2>4, <3>2
    <3> QED BY <3>1, <3>2
  <2>6. ASSUME NEW j \in Slot, inst'[j].st = "active"
        PROVE  j # victim /\ inst[j].st = "active" /\ inst'[j] = inst[j]
    <3>1. j \in Registered'
      BY <2>6 DEF Registered
    <3> QED BY <2>2, <2>6, <3>1
  <2>7. ASSUME NEW j \in Slot, inst'[j].st = "active" PROVE Kept(j)'
    <3>1. j # victim /\ Kept(j)
      BY <2>6, <2>7 DEF Accounted
    <3> QED BY <2>2, <2>3, <2>4, <2>5, <3>1 DEF Kept, Materializing
  <2>8. ASSUME NEW j \in Slot, inst'[j].st = "active", NEW d \in inst'[j].deps
        PROVE  inst'[d].st = "active"
    <3>1. inst[j].st = "active" /\ d \in inst[j].deps /\ d \in Slot
      BY <2>6, <2>8 DEF TypeOK
    <3>2. inst[d].st = "active" /\ d # victim
      BY <2>3, <3>1 DEF Accounted, ProvidersOutliveConsumers
    <3> QED BY <2>2, <3>1, <3>2
  <2> QED BY <2>7, <2>8 DEF Accounted, ProvidersOutliveConsumers
<1>16. ASSUME NEW t \in Tasks, Resolve(t) \/ MountedHook(t) PROVE Accounted'
  <2> DEFINE cand == IF phase = "locked" THEN {} ELSE ordered \cup {Newest(Entry)}
  <2>1. PICK p, from : Proceed(p, from, cand)
    BY <1>16 DEF Resolve, MountedHook
  <2>2. UNCHANGED byEntry /\ phase \in {"locked", "mounted"}
    BY <1>16 DEF Resolve, MountedHook
  <2>3. \A i \in Slot : Kept(i) => Reached(i) \/ i \in Range(mounted') \cap cand
    <3>1. CASE phase = "locked"
      BY <3>1 DEF Kept, Materializing
    <3>2. CASE phase = "mounted"
      <4> DEFINE i == Newest(Entry)
      <4>1. mounted' = Append(mounted, i) /\ mounted \in Seq(Slot) /\ i \in Slot
        <5>1. i \in Slot
          BY <3>2, EntryAtHand, NewestMeans DEF AtHand, Materializing
        <5> QED BY <1>16, <3>2, <5>1 DEF Resolve, MountedHook, TypeOK
      <4>2. \A k \in 1 .. Len(mounted) : mounted'[k] = mounted[k] /\ k \in DOMAIN mounted'
        BY <4>1, AppendProperties
      <4>3. mounted'[Len(mounted) + 1] = i /\ Len(mounted) + 1 \in DOMAIN mounted'
        BY <4>1, AppendProperties
      <4>4. Range(mounted) \subseteq Range(mounted') /\ i \in Range(mounted')
        BY <4>1, <4>2, <4>3 DEF Range
      <4>5. Range(mounted) \subseteq ordered
        BY <3>2 DEF Mounted, Materializing
      <4> QED BY <3>2, <4>4, <4>5 DEF Kept
    <3> QED BY <2>2, <3>1, <3>2
  <2> HIDE DEF cand
  <2>4. \/ /\ UNCHANGED <<inst, gstate, contents>>
           /\ phase' \in {"rollback", "retry", "mounting"}
        \/ StartReclaim(gstate)
        \/ \E c : /\ cand \subseteq c /\ built < MaxGenerations
                  /\ gstate' = [g \in Gen |-> IF g = built + 1 THEN "active"
                                              ELSE IF g = current THEN "draining" ELSE gstate[g]]
                  /\ contents' = [contents EXCEPT ![built + 1] = c]
                  /\ UNCHANGED inst
    BY <2>1 DEF Proceed, Conclude, MountAwait
  <2>5. CASE UNCHANGED <<inst, gstate, contents>> /\ phase' \in {"rollback", "retry", "mounting"}
    <3>1. \A i \in Slot : Kept(i) => Kept(i)'
      <4>1. \A i : Reached(i)' <=> Reached(i)
        BY <2>2, <2>5, RegistryKept
      <4> QED BY <2>3, <2>5, <4>1 DEF Kept, Materializing
    <3> QED BY <1>1, <2>2, <2>5, <3>1
  <2>6. CASE StartReclaim(gstate)
    BY <1>4, <2>6
  <2>7. ASSUME NEW c, cand \subseteq c, built < MaxGenerations,
               gstate' = [g \in Gen |-> IF g = built + 1 THEN "active"
                                        ELSE IF g = current THEN "draining" ELSE gstate[g]],
               contents' = [contents EXCEPT ![built + 1] = c], UNCHANGED inst
        PROVE  Accounted'
    <3>1. built + 1 \in Gen /\ built + 1 > built
      BY <2>7, HarnessAssumption DEF TypeOK, Gen
    <3>2. built + 1 \notin Live
      BY <3>1 DEF GenerationsKnown, Live, LiveIn
    <3>3. built + 1 \in Live' /\ contents'[built + 1] = c
      BY <2>7, <3>1 DEF Live, LiveIn, TypeOK
    <3>4. \A g \in Live : g \in Live' /\ contents'[g] = contents[g]
      BY <2>7, <3>2 DEF Live, LiveIn, TypeOK
    <3>5. \A i \in Slot : Kept(i) => Reached(i)'
      BY <2>3, <2>7, <3>3, <3>4 DEF Reached
    <3> QED BY <2>7, <3>5 DEF Accounted, Kept, ProvidersOutliveConsumers
  <2> QED BY <2>4, <2>5, <2>6, <2>7
<1>17. CASE BeginShutdown
  <2>1. /\ phase = "locked" /\ UNCHANGED <<inst, byEntry, contents>>
        /\ gstate' = [g \in Gen |-> IF g = current THEN "draining" ELSE gstate[g]]
    BY <1>17 DEF BeginShutdown, instVars
  <2>2. Live \subseteq Live'
    BY <2>1 DEF Live, LiveIn
  <2>3. \A i \in Slot : Kept(i) => Reached(i)'
    BY <2>1, <2>2 DEF Kept, Materializing, Reached
  <2> QED BY <2>1, <2>3 DEF Accounted, Kept, ProvidersOutliveConsumers
<1>18. CASE Drained \/ GraceExpired
  <2>1. /\ phase' = "teardown" /\ work' = Registered
        /\ gstate' = [g \in Gen |-> IF gstate[g] = "draining" THEN "retired" ELSE gstate[g]]
        /\ inst' = Refreshed(gstate')
    BY <1>18 DEF Drained, GraceExpired, RetireAll
  <2>2. gstate' \in [Gen -> {"unbuilt", "active", "draining", "retired"}]
    BY <2>1 DEF TypeOK
  <2>3. \A i \in Slot : inst'[i].st = inst[i].st /\ inst'[i].deps = inst[i].deps
    BY <2>1, <2>2, RefreshedMeans
  <2>4. \A i \in Slot : inst[i].deps \subseteq Slot
    BY DEF TypeOK
  <2>5. \A i \in Slot : inst'[i].st = "active" => i \in work'
    BY <2>1, <2>3 DEF Registered
  <2> QED BY <2>1, <2>3, <2>4, <2>5 DEF Accounted, Kept, ProvidersOutliveConsumers
<1>19. CASE ShutdownEnd
  <2>1. phase = "teardown" /\ work = {} /\ inst' = inst
    BY <1>19 DEF ShutdownEnd, instVars
  <2>2. Registered = {}
    BY <2>1 DEF Disposing
  <2> QED BY <2>1, <2>2 DEF Accounted, ProvidersOutliveConsumers, Registered
<1>20. CASE UNCHANGED vars
  BY <1>2, <1>20 DEF vars
<1>21. ASSUME NEW t \in Tasks, Cancel(t) PROVE Accounted'
  BY <1>6, <1>8, <1>21 DEF Cancel, CancelMount, CancelPublished, CancelUnmount, CancelUnmounted
<1> QED BY <1>5, <1>6, <1>7, <1>9, <1>10, <1>11, <1>12, <1>13, <1>14, <1>15, <1>16, <1>17, <1>18, <1>19,
           <1>20, <1>21 DEF Next, TaskStep, ShutdownStep

(* Without cancellations, every active instance is accounted for. *)
LEMMA AccountedInvariant == MaxCancels = 0 => (Spec => []Accounted)
<1> SUFFICES ASSUME MaxCancels = 0 PROVE Spec => []Accounted
  OBVIOUS
<1>1. Init => Accounted
  BY DEF Init, Accounted, FreeInstance, ProvidersOutliveConsumers
<1>2. Inv /\ Inv' /\ Announced /\ Accounted /\ [Next]_vars => Accounted'
  BY AccountedNext
<1> QED BY <1>1, <1>2, HarnessInvariant, PTL DEF Spec

(* Consumers go before the providers they reach, in a reclaim, in a        *)
(* rollback and in the final teardown: _teardown_order always finds one,   *)
(* and a rollback goes backwards through what was mounted in activation    *)
(* order. No task is cancelled inside these loops.                         *)
THEOREM ConsumersNeverOutliveProviders == MaxCancels = 0 => (Spec => []ProvidersOutliveConsumers)
<1>1. Accounted => ProvidersOutliveConsumers
  BY DEF Accounted
<1> QED BY <1>1, AccountedInvariant, PTL

(* Failed, refused and repeated reconciliations and stop() itself leave no *)
(* instance that nothing will ever dispose, as long as no task is          *)
(* cancelled inside them.                                                  *)
THEOREM NothingStaysBehind == MaxCancels = 0 => (Spec => []NothingLeftBehind)
<1>1. Inv /\ Accounted => NothingLeftBehind
  <2> SUFFICES ASSUME Inv, Accounted PROVE NothingLeftBehind
    OBVIOUS
  <2> USE DEF Inv
  <2>1. NoOrphans
    <3> SUFFICES ASSUME owner = Nobody, NEW i \in Slot, inst[i].st = "active"
                 PROVE  i \in ReachableIn(gstate)
      BY DEF NoOrphans
    <3>1. phase = "free"
      BY DEF Locked
    <3>2. Reached(i)
      BY <3>1 DEF Accounted, Kept, Materializing
    <3> QED BY <3>2 DEF Reached, ReachableIn, Live
  <2>2. NoBuriedFailure
    <3> SUFFICES ASSUME NEW e \in Entries, NEW k \in 1 .. Len(byEntry[e]) - 1,
                        inst[byEntry[e][k]].st = "failed"
                 PROVE  FALSE
      BY DEF NoBuriedFailure
    <3>1. byEntry[e] \in Seq(Slot) /\ Len(byEntry[e]) \in Nat
      BY DEF TypeOK
    <3>2. k \in DOMAIN byEntry[e] /\ Len(byEntry[e]) \in DOMAIN byEntry[e] /\ k # Len(byEntry[e])
      BY <3>1
    <3>3. byEntry[e][k] \in Slot /\ inst[byEntry[e][k]].entry = e
      BY <3>1, <3>2 DEF Listed
    <3>4. byEntry[e][k] = Newest(e) /\ byEntry[e] # <<>>
      BY <3>1, <3>2, <3>3 DEF InTransit
    <3>5. Newest(e) = byEntry[e][Len(byEntry[e])]
      BY <3>1, <3>4 DEF Newest, Last
    <3> QED BY <3>2, <3>4, <3>5 DEF Listed
  <2>3. StoppedIsClean
    BY DEF StoppedIsClean, Disposing, GenerationsKnown, Locked
  <2> QED BY <2>1, <2>2, <2>3 DEF NothingLeftBehind
<1> QED BY <1>1, HarnessInvariant, AccountedInvariant, PTL
================================================================================
