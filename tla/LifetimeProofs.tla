----------------------------- MODULE LifetimeProofs ----------------------------
(***************************************************************************)
(* What ends in the harness, and in which order: generations and the       *)
(* leases that keep them alive, for every number of generations, leases    *)
(* and retained history, and scopes and the effects they own, for any      *)
(* tree of scopes, any resources and tasks and any number of cancelled     *)
(* closes. The two components share no state; each has its inductive       *)
(* invariant.                                                              *)
(***************************************************************************)
EXTENDS Generations, Scope, FiniteSetTheorems, SequenceTheorems, TLAPS

(***************************************************************************)
(* Generations: the inductive invariant                                    *)
(*                                                                         *)
(* The properties are not inductive one by one: the lease count can go     *)
(* down without becoming negative only because it counts the outstanding   *)
(* ids, a new lease is counted only because its id is fresh, a candidate   *)
(* is in no index only because numbers are handed out in order. Inv        *)
(* conjoins them.                                                          *)
(***************************************************************************)

(* Lease ids are fresh: every outstanding id was handed out before. *)
IdsHandedOut == \A g \in Gen : \A id \in starts[g] : id < nextLease[g]

(* Generations are numbered in order. *)
Numbered == \A g \in Gen : g > counter => state[g] = "unbuilt"

(* What discard() dropped stays retired. *)
DroppedRetired == \A g \in dropped : state[g] = "retired"

Inv == /\ TypeOK
       /\ IdsHandedOut /\ LeaseCountExact
       /\ Numbered /\ IndexExact
       /\ HeldStaysLive /\ WakeupsExact
       /\ DroppedRetired /\ HistoryExact

(* The retired generations the history has to account for. *)
Kept == {g \in Gen : state[g] = "retired"} \ dropped

(***************************************************************************)
(* Facts about the constants and the operators                             *)
(***************************************************************************)

(* The sets of lease ids and of generations are finite. *)
LEMMA FiniteIds ==
    /\ \A S \in SUBSET LeaseId : IsFiniteSet(S) /\ Cardinality(S) \in Nat
    /\ \A S \in SUBSET Gen : IsFiniteSet(S) /\ Cardinality(S) \in Nat
<1>1. IsFiniteSet(LeaseId) /\ IsFiniteSet(Gen)
  BY GenerationsAssumption, FS_Interval DEF LeaseId, Gen
<1>2. ASSUME NEW S \in SUBSET LeaseId PROVE IsFiniteSet(S) /\ Cardinality(S) \in Nat
  BY <1>1, FS_Subset, FS_CardinalityType
<1>3. ASSUME NEW S \in SUBSET Gen PROVE IsFiniteSet(S) /\ Cardinality(S) \in Nat
  BY <1>1, FS_Subset, FS_CardinalityType
<1> QED BY <1>2, <1>3

(* Taking a fresh id adds one to the count, giving one back subtracts one, *)
(* and a generation is unleased exactly when no id is out.                 *)
LEMMA CountIds ==
    ASSUME NEW S \in SUBSET LeaseId
    PROVE  /\ Cardinality(S) = 0 <=> S = {}
           /\ \A id \in LeaseId \ S : Cardinality(S \cup {id}) = Cardinality(S) + 1
           /\ \A id \in S : Cardinality(S \ {id}) = Cardinality(S) - 1 /\ Cardinality(S) > 0
<1>1. IsFiniteSet(S) /\ Cardinality(S) \in Nat
  BY FiniteIds
<1>2. Cardinality(S) = 0 <=> S = {}
  BY <1>1, FS_EmptySet
<1>3. ASSUME NEW id \in LeaseId \ S PROVE Cardinality(S \cup {id}) = Cardinality(S) + 1
  BY <1>1, FS_AddElement
<1>4. ASSUME NEW id \in S PROVE Cardinality(S \ {id}) = Cardinality(S) - 1 /\ Cardinality(S) > 0
  <2>1. Cardinality(S \ {id}) = Cardinality(S) - 1
    BY <1>1, FS_RemoveElement
  <2>2. Cardinality(S) # 0
    BY <1>2
  <2> QED BY <1>1, <2>1, <2>2
<1> QED BY <1>2, <1>3, <1>4

(* The history once g was added to it. *)
Retained(g) == SubSeq(Append(retired, g), Overflow + 1, Len(retired) + 1)

(* Keeping one more generation: the newest ones that fit are retained, and *)
(* the others are counted as evicted.                                      *)
LEMMA Trim ==
    ASSUME TypeOK, NEW g \in Gen
    PROVE  /\ Overflow \in Nat
           /\ Retained(g) \in Seq(Gen)
           /\ Len(Retained(g)) = Len(retired) + 1 - Overflow
           /\ \A i \in 1 .. Len(Retained(g)) :
                 \/ Retained(g)[i] = g
                 \/ \E j \in 1 .. Len(retired) : Retained(g)[i] = retired[j]
<1> DEFINE all == Append(retired, g)
           m == Overflow + 1
           n == Len(retired) + 1
<1>1. retired \in Seq(Gen) /\ Len(retired) \in Nat
  BY DEF TypeOK
<1>2. Overflow \in Nat /\ Overflow <= Len(retired) + 1 /\ m \in Int /\ n \in Int
  BY <1>1, GenerationsAssumption DEF Overflow
<1>3. /\ \A i \in 1 .. Len(retired) : all[i] = retired[i]
      /\ all[Len(retired) + 1] = g
  BY <1>1, AppendProperties
<1>4. \A i \in m .. n : all[i] \in Gen
  BY <1>1, <1>2, <1>3
<1>5. /\ Retained(g) \in Seq(Gen)
      /\ Len(Retained(g)) = IF m <= n THEN n - m + 1 ELSE 0
      /\ \A i \in 1 .. n - m + 1 : Retained(g)[i] = all[m + i - 1]
  <2>1. Retained(g) = SubSeq(all, m, n)
    BY DEF Retained
  <2> HIDE DEF all, m, n
  <2> QED BY <2>1, <1>2, <1>4, SubSeqProperties
<1>6. Len(Retained(g)) = Len(retired) + 1 - Overflow
  BY <1>1, <1>2, <1>5
<1>7. ASSUME NEW i \in 1 .. Len(Retained(g))
      PROVE \/ Retained(g)[i] = g
            \/ \E j \in 1 .. Len(retired) : Retained(g)[i] = retired[j]
  <2>1. Retained(g)[i] = all[Overflow + i] /\ Overflow + i \in 1 .. Len(retired) + 1
    <3>1. i \in 1 .. n - m + 1 /\ m + i - 1 = Overflow + i
      BY <1>1, <1>2, <1>6
    <3> HIDE DEF all, m, n
    <3>2. Retained(g)[i] = all[Overflow + i]
      BY <1>5, <3>1
    <3> QED BY <3>1, <3>2, <1>1, <1>2, <1>6
  <2>2. CASE Overflow + i = Len(retired) + 1
    BY <2>1, <2>2, <1>3
  <2>3. CASE Overflow + i # Len(retired) + 1
    <3>1. Overflow + i \in 1 .. Len(retired)
      BY <2>1, <2>3, <1>1, <1>2
    <3> QED BY <3>1, <2>1, <1>3
  <2> QED BY <2>2, <2>3
<1> QED BY <1>2, <1>5, <1>6, <1>7

(***************************************************************************)
(* The invariant holds initially                                           *)
(***************************************************************************)

(* A manager that was just created satisfies the invariant. *)
LEMMA InitInv == Init => Inv
<1> SUFFICES ASSUME Init PROVE Inv
  OBVIOUS
<1>1. TypeOK
  <2>1. zero \in [Gen -> BOOLEAN] /\ shuttingDown \in BOOLEAN
    BY DEF Init
  <2>2. 0 \in 0 .. MaxGenerations /\ 0 \in 0 .. MaxLeases
    BY GenerationsAssumption
  <2> QED BY <2>1, <2>2 DEF Init, TypeOK
<1>2. IdsHandedOut /\ Numbered /\ HeldStaysLive /\ WakeupsExact /\ DroppedRetired
  BY DEF Init, IdsHandedOut, Numbered, HeldStaysLive, WakeupsExact, DroppedRetired
<1>3. LeaseCountExact
  BY FS_EmptySet DEF Init, LeaseCountExact
<1>4. IndexExact
  BY GenerationsAssumption DEF Init, IndexExact, NoGen, Gen
<1>5. HistoryExact
  <2>1. {g \in Gen : state[g] = "retired"} \ dropped = {}
    BY DEF Init
  <2>2. Len(retired) = 0 /\ evicted = 0
    BY DEF Init
  <2> QED BY <2>1, <2>2, FS_EmptySet, GenerationsAssumption DEF HistoryExact
<1> QED BY <1>1, <1>2, <1>3, <1>4, <1>5 DEF Inv

(***************************************************************************)
(* Every step preserves it, conjunct by conjunct                           *)
(***************************************************************************)

(* Types: only the decrement of a release and the trimmed history need     *)
(* more than the assignments.                                              *)
LEMMA TypeStep ==
    ASSUME Inv, [Next]_vars
    PROVE  TypeOK'
<1> USE GenerationsAssumption
<1>inv. TypeOK /\ LeaseCountExact
  BY DEF Inv
<1>1. CASE Build
  <2>1. counter + 1 \in 0 .. MaxGenerations
    BY <1>1, <1>inv DEF Build, TypeOK
  <2> QED BY <1>1, <2>1, <1>inv DEF Build, TypeOK, accounting, history, waits
<1>2. ASSUME NEW g \in Gen, Publish(g) PROVE TypeOK'
  BY <1>2, <1>inv DEF Publish, TypeOK, accounting, history, waits
<1>3. ASSUME NEW g \in Gen, Retire(g) PROVE TypeOK'
  <2>1. retired' = Retained(g) /\ evicted' = evicted + Overflow
    BY <1>3 DEF Retire, Retained
  <2>2. retired' \in Seq(Gen)
    BY <2>1, <1>inv, Trim
  <2>3. evicted' \in Nat
    BY <2>1, <1>inv, Trim DEF TypeOK
  <2> QED BY <1>3, <2>2, <2>3, <1>inv DEF Retire, TypeOK, accounting, waits
<1>4. ASSUME NEW g \in Gen, DiscardCandidate(g) PROVE TypeOK'
  BY <1>4, <1>inv DEF DiscardCandidate, Discard, TypeOK, accounting, history, waits
<1>5. CASE BeginShutdown
  BY <1>5, <1>inv DEF BeginShutdown, TypeOK, accounting, history, waits
<1>6. ASSUME NEW g \in Gen, Acquire(g) PROVE TypeOK'
  <2>1. zero' \in [Gen -> BOOLEAN]
    BY <1>6, <1>inv, Zenon DEF Acquire, TypeOK
  <2>2. nextLease[g] \in LeaseId /\ nextLease[g] + 1 \in 0 .. MaxLeases
    BY <1>6, <1>inv DEF Acquire, TypeOK, LeaseId
  <2>3. starts' \in [Gen -> SUBSET LeaseId]
    BY <1>6, <2>2, <1>inv DEF Acquire, TypeOK
  <2>4. nextLease' \in [Gen -> 0 .. MaxLeases] /\ leases' \in [Gen -> Nat]
    BY <1>6, <2>2, <1>inv DEF Acquire, TypeOK
  <2> QED BY <1>6, <2>1, <2>3, <2>4, <1>inv DEF Acquire, TypeOK, history, waits
<1>7. ASSUME NEW g \in Gen, NEW id \in LeaseId, Release(g, id) PROVE TypeOK'
  <2>1. starts[g] \in SUBSET LeaseId /\ id \in starts[g]
    BY <1>7, <1>inv DEF Release, TypeOK
  <2>2. leases[g] > 0
    BY <2>1, <1>inv, CountIds DEF LeaseCountExact
  <2>3. leases[g] - 1 \in Nat
    BY <2>2, <1>inv DEF TypeOK
  <2>4. zero' \in [Gen -> BOOLEAN]
    BY <1>7, <1>inv, Zenon DEF Release, TypeOK
  <2> QED BY <1>7, <2>3, <2>4, <1>inv DEF Release, TypeOK, history
<1>8. ASSUME NEW S \in SUBSET Gen, DrainBegin(S) PROVE TypeOK'
  BY <1>8, <1>inv DEF DrainBegin, TypeOK, accounting, history, waits
<1>9. CASE DrainDone
  BY <1>9, <1>inv DEF DrainDone, TypeOK, accounting, history, waits
<1>10. CASE DrainTimeout
  BY <1>10, <1>inv DEF DrainTimeout, TypeOK, accounting, history, waits
<1>11. CASE UNCHANGED vars
  BY <1>11, <1>inv DEF TypeOK, accounting, history, waits, vars
<1> QED BY <1>1, <1>2, <1>3, <1>4, <1>5, <1>6, <1>7, <1>8, <1>9, <1>10, <1>11 DEF Next

(* Lease ids and the lease count. *)
LEMMA LeaseStep ==
    ASSUME Inv, [Next]_vars
    PROVE  IdsHandedOut' /\ LeaseCountExact'
<1>inv. TypeOK /\ IdsHandedOut /\ LeaseCountExact
  BY DEF Inv
<1> USE GenerationsAssumption
<1>1. CASE Build
  BY <1>1, <1>inv DEF Build, IdsHandedOut, LeaseCountExact, accounting
<1>2. ASSUME NEW g \in Gen, Publish(g) PROVE IdsHandedOut' /\ LeaseCountExact'
  BY <1>2, <1>inv DEF Publish, IdsHandedOut, LeaseCountExact, accounting
<1>3. ASSUME NEW g \in Gen, Retire(g) PROVE IdsHandedOut' /\ LeaseCountExact'
  BY <1>3, <1>inv DEF Retire, IdsHandedOut, LeaseCountExact, accounting
<1>4. ASSUME NEW g \in Gen, DiscardCandidate(g) PROVE IdsHandedOut' /\ LeaseCountExact'
  BY <1>4, <1>inv DEF DiscardCandidate, Discard, IdsHandedOut, LeaseCountExact, accounting
<1>5. CASE BeginShutdown
  BY <1>5, <1>inv DEF BeginShutdown, IdsHandedOut, LeaseCountExact, accounting
<1>6. ASSUME NEW g \in Gen, Acquire(g) PROVE IdsHandedOut' /\ LeaseCountExact'
  <2>1. starts[g] \subseteq LeaseId /\ nextLease[g] \in LeaseId \ starts[g]
    BY <1>6, <1>inv DEF Acquire, TypeOK, IdsHandedOut, LeaseId
  <2>2. Cardinality(starts[g] \cup {nextLease[g]}) = leases[g] + 1
    BY <2>1, <1>inv, CountIds DEF LeaseCountExact
  <2>3. LeaseCountExact'
    BY <1>6, <2>2, <1>inv DEF Acquire, LeaseCountExact, TypeOK
  <2>4. IdsHandedOut'
    BY <1>6, <1>inv DEF Acquire, IdsHandedOut, TypeOK, LeaseId
  <2> QED BY <2>3, <2>4
<1>7. ASSUME NEW g \in Gen, NEW id \in LeaseId, Release(g, id)
      PROVE IdsHandedOut' /\ LeaseCountExact'
  <2>0. starts[g] \in SUBSET LeaseId /\ id \in starts[g]
    BY <1>7, <1>inv DEF Release, TypeOK
  <2>1. Cardinality(starts[g] \ {id}) = leases[g] - 1
    BY <2>0, <1>inv, CountIds DEF LeaseCountExact
  <2> QED BY <1>7, <2>1, <1>inv DEF Release, IdsHandedOut, LeaseCountExact, TypeOK
<1>8. ASSUME NEW S \in SUBSET Gen, DrainBegin(S) PROVE IdsHandedOut' /\ LeaseCountExact'
  BY <1>8, <1>inv DEF DrainBegin, IdsHandedOut, LeaseCountExact, accounting
<1>9. CASE DrainDone
  BY <1>9, <1>inv DEF DrainDone, IdsHandedOut, LeaseCountExact, accounting
<1>10. CASE DrainTimeout
  BY <1>10, <1>inv DEF DrainTimeout, IdsHandedOut, LeaseCountExact, accounting
<1>11. CASE UNCHANGED vars
  BY <1>11, <1>inv DEF IdsHandedOut, LeaseCountExact, accounting, vars
<1> QED BY <1>1, <1>2, <1>3, <1>4, <1>5, <1>6, <1>7, <1>8, <1>9, <1>10, <1>11 DEF Next

(* The state of a generation agrees with the current pointer and with the  *)
(* draining dictionary.                                                    *)
LEMMA IndexStep ==
    ASSUME Inv, [Next]_vars
    PROVE  Numbered' /\ IndexExact'
<1>inv. TypeOK /\ Numbered /\ IndexExact
  BY DEF Inv
<1> USE GenerationsAssumption
<1>1. CASE Build
  BY <1>1, <1>inv DEF Build, TypeOK, Numbered, IndexExact, Gen, NoGen
<1>2. ASSUME NEW g \in Gen, Publish(g) PROVE Numbered' /\ IndexExact'
  BY <1>2, <1>inv DEF Publish, TypeOK, Numbered, IndexExact, Gen, NoGen
<1>3. ASSUME NEW g \in Gen, Retire(g) PROVE Numbered' /\ IndexExact'
  BY <1>3, <1>inv DEF Retire, TypeOK, Numbered, IndexExact, Gen, NoGen
<1>4. ASSUME NEW g \in Gen, DiscardCandidate(g) PROVE Numbered' /\ IndexExact'
  BY <1>4, <1>inv DEF DiscardCandidate, Discard, TypeOK, Numbered, IndexExact, Gen, NoGen
<1>5. CASE BeginShutdown
  <2>1. Numbered'
    BY <1>5, <1>inv DEF BeginShutdown, TypeOK, Numbered, IndexExact
  <2>2. NoGen \notin Gen
    BY DEF NoGen, Gen
  <2>3. \A g \in Gen : state'[g] # "active" /\ g # current'
    BY <1>5, <2>2, <1>inv DEF BeginShutdown, TypeOK, IndexExact
  <2>4. \A g \in Gen : state'[g] = "draining" <=> g \in draining'
    BY <1>5, <2>2, <1>inv DEF BeginShutdown, TypeOK, IndexExact
  <2> QED BY <2>1, <2>3, <2>4 DEF IndexExact
<1>6. ASSUME NEW g \in Gen, Acquire(g) PROVE Numbered' /\ IndexExact'
  BY <1>6, <1>inv DEF Acquire, TypeOK, Numbered, IndexExact, Gen, NoGen
<1>7. ASSUME NEW g \in Gen, NEW id \in LeaseId, Release(g, id) PROVE Numbered' /\ IndexExact'
  BY <1>7, <1>inv DEF Release, TypeOK, Numbered, IndexExact, Gen, NoGen
<1>8. ASSUME NEW S \in SUBSET Gen, DrainBegin(S) PROVE Numbered' /\ IndexExact'
  BY <1>8, <1>inv DEF DrainBegin, TypeOK, Numbered, IndexExact, Gen, NoGen
<1>9. CASE DrainDone
  BY <1>9, <1>inv DEF DrainDone, TypeOK, Numbered, IndexExact, Gen, NoGen
<1>10. CASE DrainTimeout
  BY <1>10, <1>inv DEF DrainTimeout, TypeOK, Numbered, IndexExact, Gen, NoGen
<1>11. CASE UNCHANGED vars
  BY <1>11, <1>inv DEF TypeOK, Numbered, IndexExact, Gen, NoGen, vars
<1> QED BY <1>1, <1>2, <1>3, <1>4, <1>5, <1>6, <1>7, <1>8, <1>9, <1>10, <1>11 DEF Next

(* A held generation stays live. Retirement is the one step that takes a   *)
(* generation out of reach, and it looks at the count of the ids.          *)
LEMMA HeldStep ==
    ASSUME Inv, [Next]_vars
    PROVE  HeldStaysLive'
<1>inv. TypeOK /\ IndexExact /\ HeldStaysLive /\ LeaseCountExact
  BY DEF Inv
<1> USE GenerationsAssumption
<1>1. CASE Build
  BY <1>1, <1>inv DEF Build, TypeOK, HeldStaysLive, Live, accounting
<1>2. ASSUME NEW g \in Gen, Publish(g) PROVE HeldStaysLive'
  BY <1>2, <1>inv DEF Publish, TypeOK, HeldStaysLive, Live, accounting
<1>3. ASSUME NEW g \in Gen, Retire(g) PROVE HeldStaysLive'
  <2>1. starts[g] = {} \/ shuttingDown
    BY <1>3, <1>inv, CountIds DEF Retire, TypeOK, LeaseCountExact
  <2> QED BY <1>3, <2>1, <1>inv DEF Retire, TypeOK, HeldStaysLive, Live, accounting
<1>4. ASSUME NEW g \in Gen, DiscardCandidate(g) PROVE HeldStaysLive'
  BY <1>4, <1>inv DEF DiscardCandidate, Discard, TypeOK, HeldStaysLive, Live, accounting
<1>5. CASE BeginShutdown
  BY <1>5, <1>inv DEF BeginShutdown, TypeOK, HeldStaysLive, Live, accounting
<1>6. ASSUME NEW g \in Gen, Acquire(g) PROVE HeldStaysLive'
  <2>1. g # NoGen
    BY DEF Gen, NoGen
  <2> QED BY <1>6, <2>1, <1>inv DEF Acquire, TypeOK, HeldStaysLive, Live
<1>7. ASSUME NEW g \in Gen, NEW id \in LeaseId, Release(g, id) PROVE HeldStaysLive'
  BY <1>7, <1>inv DEF Release, TypeOK, HeldStaysLive, Live, accounting
<1>8. ASSUME NEW S \in SUBSET Gen, DrainBegin(S) PROVE HeldStaysLive'
  BY <1>8, <1>inv DEF DrainBegin, TypeOK, HeldStaysLive, Live, accounting
<1>9. CASE DrainDone
  BY <1>9, <1>inv DEF DrainDone, TypeOK, HeldStaysLive, Live, accounting
<1>10. CASE DrainTimeout
  BY <1>10, <1>inv DEF DrainTimeout, TypeOK, HeldStaysLive, Live, accounting
<1>11. CASE UNCHANGED vars
  BY <1>11, <1>inv DEF TypeOK, HeldStaysLive, Live, accounting, vars
<1> QED BY <1>1, <1>2, <1>3, <1>4, <1>5, <1>6, <1>7, <1>8, <1>9, <1>10, <1>11 DEF Next

(* The idle signal: an acquisition from zero clears it, the last release   *)
(* sets it and wakes the waiter.                                           *)
LEMMA WakeStep ==
    ASSUME Inv, [Next]_vars
    PROVE  WakeupsExact'
<1>inv. TypeOK /\ LeaseCountExact /\ WakeupsExact
  BY DEF Inv
<1>idle. \A g \in Gen : leases[g] = 0 <=> starts[g] = {}
  BY <1>inv, CountIds DEF TypeOK, LeaseCountExact
<1>1. CASE Build
  BY <1>1, <1>inv, <1>idle DEF Build, TypeOK, WakeupsExact, accounting, waits
<1>2. ASSUME NEW g \in Gen, Publish(g) PROVE WakeupsExact'
  BY <1>2, <1>inv, <1>idle DEF Publish, TypeOK, WakeupsExact, accounting, waits
<1>3. ASSUME NEW g \in Gen, Retire(g) PROVE WakeupsExact'
  BY <1>3, <1>inv, <1>idle DEF Retire, TypeOK, WakeupsExact, accounting, waits
<1>4. ASSUME NEW g \in Gen, DiscardCandidate(g) PROVE WakeupsExact'
  BY <1>4, <1>inv, <1>idle DEF DiscardCandidate, Discard, TypeOK, WakeupsExact, accounting, waits
<1>5. CASE BeginShutdown
  BY <1>5, <1>inv, <1>idle DEF BeginShutdown, TypeOK, WakeupsExact, accounting, waits
<1>6. ASSUME NEW g \in Gen, Acquire(g) PROVE WakeupsExact'
  BY <1>6, <1>inv, <1>idle DEF Acquire, TypeOK, WakeupsExact, accounting, waits
<1>7. ASSUME NEW g \in Gen, NEW id \in LeaseId, Release(g, id) PROVE WakeupsExact'
  <2>1. leases'[g] = 0 <=> starts'[g] = {}
    <3>1. LeaseCountExact' /\ TypeOK'
      BY <1>7, LeaseStep, TypeStep DEF Next
    <3>2. starts'[g] \in SUBSET LeaseId /\ leases'[g] = Cardinality(starts'[g])
      BY <3>1 DEF TypeOK, LeaseCountExact
    <3> QED BY <3>2, CountIds
  <2> QED BY <1>7, <2>1, <1>inv, <1>idle DEF Release, TypeOK, WakeupsExact
<1>8. ASSUME NEW S \in SUBSET Gen, DrainBegin(S) PROVE WakeupsExact'
  BY <1>8, <1>inv, <1>idle DEF DrainBegin, TypeOK, WakeupsExact, accounting, waits
<1>9. CASE DrainDone
  BY <1>9, <1>inv, <1>idle DEF DrainDone, TypeOK, WakeupsExact, accounting, waits
<1>10. CASE DrainTimeout
  BY <1>10, <1>inv, <1>idle DEF DrainTimeout, TypeOK, WakeupsExact, accounting, waits
<1>11. CASE UNCHANGED vars
  BY <1>11, <1>inv, <1>idle DEF TypeOK, WakeupsExact, accounting, waits, vars
<1> QED BY <1>1, <1>2, <1>3, <1>4, <1>5, <1>6, <1>7, <1>8, <1>9, <1>10, <1>11 DEF Next

(* The history: every retired generation is retained or counted. *)
LEMMA HistoryStep ==
    ASSUME Inv, [Next]_vars
    PROVE  DroppedRetired' /\ HistoryExact'
<1>inv. TypeOK /\ Numbered /\ IndexExact /\ DroppedRetired /\ HistoryExact
  BY DEF Inv
<1>kept. Kept \in SUBSET Gen /\ IsFiniteSet(Kept) /\ Len(retired) + evicted = Cardinality(Kept)
  BY <1>inv, FiniteIds DEF Kept, HistoryExact
<1>same. ASSUME retired' = retired, evicted' = evicted, Kept' = Kept,
              \A g \in Gen : state[g] = "retired" => state'[g] = "retired"
        PROVE HistoryExact'
  <2>1. Len(retired') + evicted' = Cardinality(Kept')
    BY <1>same, <1>kept
  <2>2. \A i \in 1 .. Len(retired') : state'[retired'[i]] = "retired"
    BY <1>same, <1>inv DEF HistoryExact, TypeOK
  <2>3. Len(retired') <= HistoryLimit /\ (evicted' > 0 => Len(retired') = HistoryLimit)
    BY <1>same, <1>inv DEF HistoryExact
  <2> QED BY <2>1, <2>2, <2>3 DEF HistoryExact, Kept
<1> USE GenerationsAssumption
<1>1. CASE Build
  <2>1. DroppedRetired' /\ Kept' = Kept
    BY <1>1, <1>inv DEF Build, TypeOK, Numbered, IndexExact, DroppedRetired, Kept, Gen
  <2>2. retired' = retired /\ evicted' = evicted
    BY <1>1 DEF Build, history
  <2>3. \A h \in Gen : state[h] = "retired" => state'[h] = "retired"
    BY <1>1, <1>inv DEF Build, TypeOK, Numbered, IndexExact, Gen
  <2> QED BY <2>1, <2>2, <2>3, <1>same
<1>2. ASSUME NEW g \in Gen, Publish(g) PROVE DroppedRetired' /\ HistoryExact'
  <2>1. DroppedRetired' /\ Kept' = Kept
    BY <1>2, <1>inv DEF Publish, TypeOK, Numbered, IndexExact, DroppedRetired, Kept, Gen
  <2>2. retired' = retired /\ evicted' = evicted
    BY <1>2 DEF Publish, history
  <2>3. \A h \in Gen : state[h] = "retired" => state'[h] = "retired"
    BY <1>2, <1>inv DEF Publish, TypeOK, Numbered, IndexExact, Gen
  <2> QED BY <2>1, <2>2, <2>3, <1>same
<1>3. ASSUME NEW g \in Gen, Retire(g) PROVE DroppedRetired' /\ HistoryExact'
  <2>1. g \notin Kept /\ Kept' = Kept \cup {g} /\ DroppedRetired'
    BY <1>3, <1>inv DEF Retire, TypeOK, DroppedRetired, Kept
  <2>2. Cardinality(Kept') = Cardinality(Kept) + 1
    BY <2>1, <1>kept, FS_AddElement
  <2>3. retired' = Retained(g) /\ evicted' = evicted + Overflow
    BY <1>3 DEF Retire, Retained
  <2>4. /\ Len(retired') = Len(retired) + 1 - Overflow /\ Overflow \in Nat
        /\ \A i \in 1 .. Len(retired') :
              \/ retired'[i] = g
              \/ \E j \in 1 .. Len(retired) : retired'[i] = retired[j]
    BY <2>3, <1>inv, Trim
  <2>5. Len(retired) \in Nat /\ evicted \in Nat /\ Cardinality(Kept) \in Nat
    BY <1>inv, <1>kept, FiniteIds DEF TypeOK
  <2>6. /\ Len(retired') <= HistoryLimit
        /\ Len(retired') + evicted' = Cardinality(Kept')
        /\ evicted' > 0 => Len(retired') = HistoryLimit
    <3>1. Len(retired) <= HistoryLimit /\ (evicted > 0 => Len(retired) = HistoryLimit)
      BY <1>inv DEF HistoryExact
    <3>2. \/ Overflow = 0 /\ Len(retired) + 1 <= HistoryLimit
          \/ Overflow = Len(retired) + 1 - HistoryLimit /\ Len(retired) + 1 > HistoryLimit
      BY <2>5 DEF Overflow
    <3>3. Len(retired') = Len(retired) + 1 - Overflow /\ evicted' = evicted + Overflow
      BY <2>3, <2>4
    <3>4. Cardinality(Kept') = Len(retired) + evicted + 1
      BY <2>2, <1>kept
    <3> QED BY <3>1, <3>2, <3>3, <3>4, <2>5
  <2>7. \A i \in 1 .. Len(retired') : state'[retired'[i]] = "retired"
    <3>1. state'[g] = "retired" /\ \A h \in Gen : state[h] = "retired" => state'[h] = "retired"
      BY <1>3, <1>inv DEF Retire, TypeOK
    <3>2. \A j \in 1 .. Len(retired) : retired[j] \in Gen /\ state[retired[j]] = "retired"
      BY <1>inv DEF TypeOK, HistoryExact
    <3> QED BY <2>4, <3>1, <3>2
  <2> QED BY <2>1, <2>6, <2>7 DEF HistoryExact, Kept
<1>4. ASSUME NEW g \in Gen, DiscardCandidate(g) PROVE DroppedRetired' /\ HistoryExact'
  <2>1. DroppedRetired' /\ Kept' = Kept
    BY <1>4, <1>inv DEF DiscardCandidate, Discard, TypeOK, DroppedRetired, Kept
  <2>2. retired' = retired /\ evicted' = evicted
    BY <1>4 DEF DiscardCandidate, Discard, history
  <2>3. \A h \in Gen : state[h] = "retired" => state'[h] = "retired"
    BY <1>4, <1>inv DEF DiscardCandidate, Discard, TypeOK, Numbered, IndexExact, Gen
  <2> QED BY <2>1, <2>2, <2>3, <1>same
<1>5. CASE BeginShutdown
  <2>1. DroppedRetired' /\ Kept' = Kept
    BY <1>5, <1>inv DEF BeginShutdown, TypeOK, Numbered, IndexExact, DroppedRetired, Kept, Gen
  <2>2. retired' = retired /\ evicted' = evicted
    BY <1>5 DEF BeginShutdown, history
  <2>3. \A h \in Gen : state[h] = "retired" => state'[h] = "retired"
    BY <1>5, <1>inv DEF BeginShutdown, TypeOK, Numbered, IndexExact, Gen
  <2> QED BY <2>1, <2>2, <2>3, <1>same
<1>6. ASSUME NEW g \in Gen, Acquire(g) PROVE DroppedRetired' /\ HistoryExact'
  <2>1. DroppedRetired' /\ Kept' = Kept
    BY <1>6, <1>inv DEF Acquire, TypeOK, Numbered, IndexExact, DroppedRetired, Kept, Gen
  <2>2. retired' = retired /\ evicted' = evicted
    BY <1>6 DEF Acquire, history
  <2>3. \A h \in Gen : state[h] = "retired" => state'[h] = "retired"
    BY <1>6, <1>inv DEF Acquire, TypeOK, Numbered, IndexExact, Gen
  <2> QED BY <2>1, <2>2, <2>3, <1>same
<1>7. ASSUME NEW g \in Gen, NEW id \in LeaseId, Release(g, id)
      PROVE DroppedRetired' /\ HistoryExact'
  <2>1. DroppedRetired' /\ Kept' = Kept
    BY <1>7, <1>inv DEF Release, TypeOK, Numbered, IndexExact, DroppedRetired, Kept, Gen
  <2>2. retired' = retired /\ evicted' = evicted
    BY <1>7 DEF Release, history
  <2>3. \A h \in Gen : state[h] = "retired" => state'[h] = "retired"
    BY <1>7, <1>inv DEF Release, TypeOK, Numbered, IndexExact, Gen
  <2> QED BY <2>1, <2>2, <2>3, <1>same
<1>8. ASSUME NEW S \in SUBSET Gen, DrainBegin(S) PROVE DroppedRetired' /\ HistoryExact'
  <2>1. DroppedRetired' /\ Kept' = Kept
    BY <1>8, <1>inv DEF DrainBegin, TypeOK, Numbered, IndexExact, DroppedRetired, Kept, Gen
  <2>2. retired' = retired /\ evicted' = evicted
    BY <1>8 DEF DrainBegin, history
  <2>3. \A h \in Gen : state[h] = "retired" => state'[h] = "retired"
    BY <1>8, <1>inv DEF DrainBegin, TypeOK, Numbered, IndexExact, Gen
  <2> QED BY <2>1, <2>2, <2>3, <1>same
<1>9. CASE DrainDone
  <2>1. DroppedRetired' /\ Kept' = Kept
    BY <1>9, <1>inv DEF DrainDone, TypeOK, Numbered, IndexExact, DroppedRetired, Kept, Gen
  <2>2. retired' = retired /\ evicted' = evicted
    BY <1>9 DEF DrainDone, history
  <2>3. \A h \in Gen : state[h] = "retired" => state'[h] = "retired"
    BY <1>9, <1>inv DEF DrainDone, TypeOK, Numbered, IndexExact, Gen
  <2> QED BY <2>1, <2>2, <2>3, <1>same
<1>10. CASE DrainTimeout
  <2>1. DroppedRetired' /\ Kept' = Kept
    BY <1>10, <1>inv DEF DrainTimeout, TypeOK, Numbered, IndexExact, DroppedRetired, Kept, Gen
  <2>2. retired' = retired /\ evicted' = evicted
    BY <1>10 DEF DrainTimeout, history
  <2>3. \A h \in Gen : state[h] = "retired" => state'[h] = "retired"
    BY <1>10, <1>inv DEF DrainTimeout, TypeOK, Numbered, IndexExact, Gen
  <2> QED BY <2>1, <2>2, <2>3, <1>same
<1>11. CASE UNCHANGED vars
  <2>1. DroppedRetired' /\ Kept' = Kept
    BY <1>11, <1>inv DEF vars, TypeOK, Numbered, IndexExact, DroppedRetired, Kept, Gen
  <2>2. retired' = retired /\ evicted' = evicted
    BY <1>11 DEF vars, history
  <2>3. \A h \in Gen : state[h] = "retired" => state'[h] = "retired"
    BY <1>11, <1>inv DEF vars, TypeOK, Numbered, IndexExact, Gen
  <2> QED BY <2>1, <2>2, <2>3, <1>same
<1> QED BY <1>1, <1>2, <1>3, <1>4, <1>5, <1>6, <1>7, <1>8, <1>9, <1>10, <1>11 DEF Next

(* Every method of the manager preserves the invariant. *)
LEMMA StepInv == Inv /\ [Next]_vars => Inv'
  BY TypeStep, LeaseStep, IndexStep, HeldStep, WakeStep, HistoryStep DEF Inv

(***************************************************************************)
(* The theorems                                                            *)
(***************************************************************************)

(* Every reachable state of the manager satisfies the invariant. *)
THEOREM Invariance == Spec => []Inv
  BY InitInv, StepInv, PTL DEF Spec

(* The variables of the manager and of its accounting keep their types; in *)
(* particular a lease count is never negative.                             *)
THEOREM TypesCorrect == Spec => []TypeOK
<1>1. Inv => TypeOK
  BY DEF Inv
<1> QED BY <1>1, Invariance, PTL

(* publish(), retire(), discard() and begin_shutdown() keep the state of   *)
(* every generation in agreement with where the manager looks it up.       *)
THEOREM IndexIsExact == Spec => []IndexExact
<1>1. Inv => IndexExact
  BY DEF Inv
<1> QED BY <1>1, Invariance, PTL

(* A run never loses the generation it holds before the terminal shutdown, *)
(* however many generations are published and retired meanwhile.           *)
THEOREM HeldGenerationsStayLive == Spec => []HeldStaysLive
<1>1. Inv => HeldStaysLive
  BY DEF Inv
<1> QED BY <1>1, Invariance, PTL

(* The lease count of acquire() and release() is the number of outstanding *)
(* ids, in every order of acquisitions and releases.                       *)
THEOREM LeaseCountIsExact == Spec => []LeaseCountExact
<1>1. Inv => LeaseCountExact
  BY DEF Inv
<1> QED BY <1>1, Invariance, PTL

(* wait_idle() sees neither a stale idle signal nor loses one.             *)
THEOREM WakeupsAreExact == Spec => []WakeupsExact
<1>1. Inv => WakeupsExact
  BY DEF Inv
<1> QED BY <1>1, Invariance, PTL

(* The bounded history evicts only what does not fit, for every            *)
(* generation_history_limit, zero included.                                *)
THEOREM HistoryIsExact == Spec => []HistoryExact
<1>1. Inv => HistoryExact
  BY DEF Inv
<1> QED BY <1>1, Invariance, PTL

(* Index, lease counts, idle events and history stay exact together: no     *)
(* interleaving of the manager's methods leaves one of them behind.         *)
THEOREM BookkeepingHolds == Spec => []BookkeepingExact
<1> QED
  BY IndexIsExact, LeaseCountIsExact, WakeupsAreExact, HistoryIsExact, PTL DEF BookkeepingExact

(* The manager's moves: what one step can do to the state of a generation. *)
LEMMA Moves ==
    ASSUME Inv, [Next]_vars, NEW h \in Gen
    PROVE  \/ state'[h] = state[h]
           \/ state[h] = "unbuilt" /\ state'[h] = "building"
           \/ state[h] = "building" /\ state'[h] \in {"active", "retired"}
           \/ state[h] = "active" /\ state'[h] = "draining"
           \/ state[h] = "draining" /\ state'[h] = "retired"
<1>inv. TypeOK /\ Numbered /\ IndexExact
  BY DEF Inv
<1>1. CASE Build
  <2>1. h # counter + 1 \/ state[h] = "unbuilt"
    BY <1>inv, GenerationsAssumption DEF TypeOK, Numbered, Gen
  <2> QED BY <1>1, <2>1, <1>inv DEF Build, TypeOK
<1>2. ASSUME NEW g \in Gen, Publish(g) \/ Retire(g) \/ DiscardCandidate(g) \/ Acquire(g)
      PROVE  \/ state'[h] = state[h]
             \/ state[h] = "building" /\ state'[h] \in {"active", "retired"}
             \/ state[h] = "active" /\ state'[h] = "draining"
             \/ state[h] = "draining" /\ state'[h] = "retired"
  BY <1>2, <1>inv DEF Publish, Retire, DiscardCandidate, Discard, Acquire, TypeOK, IndexExact
<1>3. CASE BeginShutdown
  BY <1>3, <1>inv DEF BeginShutdown, TypeOK, IndexExact
<1>4. CASE (\E g \in Gen, id \in LeaseId : Release(g, id)) \/ (\E S \in SUBSET Gen : DrainBegin(S))
           \/ DrainDone \/ DrainTimeout \/ UNCHANGED vars
  BY <1>4 DEF Release, DrainBegin, DrainDone, DrainTimeout, vars
<1> QED BY <1>1, <1>2, <1>3, <1>4 DEF Next

(* No method ever moves a generation back: a retired one is never published *)
(* or leased again.                                                         *)
THEOREM LifeIsOneWay == Spec => OneWay
<1>1. ASSUME Inv, [Next]_vars, NEW g \in Gen
      PROVE  Rank(state[g]) <= Rank(state'[g])
  <2>1. state[g] \in {"unbuilt", "building", "active", "draining", "retired"}
    BY <1>1 DEF Inv, TypeOK
  <2>2. /\ Rank("unbuilt") = 0 /\ Rank("building") = 1 /\ Rank("active") = 2
        /\ Rank("draining") = 3 /\ Rank("retired") = 4
    BY DEF Rank
  <2>3. \/ state'[g] = state[g]
        \/ state[g] = "unbuilt" /\ state'[g] = "building"
        \/ state[g] = "building" /\ state'[g] \in {"active", "retired"}
        \/ state[g] = "active" /\ state'[g] = "draining"
        \/ state[g] = "draining" /\ state'[g] = "retired"
    BY <1>1, Moves
  <2>4. CASE state'[g] = state[g]
    BY <2>1, <2>2, <2>4
  <2>5. CASE state'[g] # state[g]
    BY <2>2, <2>3, <2>5
  <2> QED BY <2>4, <2>5
<1>2. Inv /\ [Next]_vars => [\A g \in Gen : Rank(state[g]) <= Rank(state'[g])]_vars
  BY <1>1
<1> QED BY <1>2, Invariance, PTL DEF Spec, OneWay

(***************************************************************************)
(* Refinement                                                              *)
(***************************************************************************)

(* Every step of the manager is a step of the contract or invisible to it. *)
LEMMA ContractStep ==
    ASSUME Inv, [Next]_vars
    PROVE  [Contract!Next]_(Contract!vars)
<1> USE DEF Contract!vars
<1>inv. TypeOK /\ Numbered /\ IndexExact /\ HeldStaysLive /\ LeaseCountExact
  BY DEF Inv
<1>1. CASE Build
  <2>1. counter + 1 \in Gen /\ state[counter + 1] = "unbuilt"
    BY <1>1, <1>inv, GenerationsAssumption DEF Build, TypeOK, Numbered, Gen
  <2>2. Contract!Create(counter + 1)
    BY <1>1, <2>1 DEF Build, accounting, Contract!Create
  <2> QED BY <2>1, <2>2 DEF Contract!Next
<1>2. ASSUME NEW g \in Gen, Publish(g) PROVE Contract!Next
  <2>1. Contract!Publish(g)
    BY <1>2, <1>inv DEF Publish, accounting, TypeOK, IndexExact, Contract!Publish
  <2> QED BY <2>1 DEF Contract!Next
<1>3. ASSUME NEW g \in Gen, Retire(g) \/ DiscardCandidate(g) PROVE Contract!Next
  <2>1. state[g] \in {"building", "draining"} /\ (shuttingDown \/ leases[g] = 0)
    <3>1. CASE Retire(g)
      BY <3>1 DEF Retire
    <3>2. CASE DiscardCandidate(g)
      <4>1. state[g] = "building" /\ g \notin Live
        BY <3>2, <1>inv DEF DiscardCandidate, IndexExact, Live
      <4>2. starts[g] = {} \/ shuttingDown
        BY <4>1, <1>inv DEF HeldStaysLive
      <4> QED BY <4>1, <4>2, <1>inv, CountIds DEF LeaseCountExact, TypeOK
    <3> QED BY <1>3, <3>1, <3>2
  <2>2. /\ state' = [h \in Gen |-> IF h \in {g} THEN "retired" ELSE state[h]]
        /\ leases' = leases /\ shuttingDown' = shuttingDown
    BY <1>3, <1>inv DEF Retire, DiscardCandidate, Discard, accounting, TypeOK
  <2>3. Contract!Retire({g})
    BY <2>1, <2>2 DEF Contract!Retire
  <2> QED BY <2>3 DEF Contract!Next
<1>4. CASE BeginShutdown
  <2>1. Contract!Shutdown
    BY <1>4, <1>inv DEF BeginShutdown, accounting, TypeOK, IndexExact, Contract!Shutdown
  <2> QED BY <2>1 DEF Contract!Next
<1>5. ASSUME NEW g \in Gen, Acquire(g) PROVE Contract!Next
  <2>1. Contract!Acquire(g)
    BY <1>5 DEF Acquire, Contract!Acquire
  <2> QED BY <2>1 DEF Contract!Next
<1>6. ASSUME NEW g \in Gen, NEW id \in LeaseId, Release(g, id) PROVE Contract!Next
  <2>1. starts[g] \in SUBSET LeaseId /\ id \in starts[g]
    BY <1>6, <1>inv DEF Release, TypeOK
  <2>2. leases[g] > 0
    BY <2>1, <1>inv, CountIds DEF LeaseCountExact
  <2>3. Contract!Release(g)
    BY <1>6, <2>2 DEF Release, Contract!Release
  <2> QED BY <2>3 DEF Contract!Next
<1>7. CASE (\E S \in SUBSET Gen : DrainBegin(S)) \/ DrainDone \/ DrainTimeout \/ UNCHANGED vars
  BY <1>7 DEF DrainBegin, DrainDone, DrainTimeout, accounting, vars
<1> QED BY <1>1, <1>2, <1>3, <1>4, <1>5, <1>6, <1>7 DEF Next

(* The generation manager implements the contract its callers rely on. *)
THEOREM ManagerImplementsContract == Spec => ImplementsContract
<1>1. Init => Contract!Init
  BY DEF Init, Contract!Init
<1>2. Inv /\ [Next]_vars => [Contract!Next]_(Contract!vars)
  BY ContractStep
<1> QED BY <1>1, <1>2, Invariance, PTL DEF Spec, ImplementsContract, Contract!Spec

(***************************************************************************)
(* Scopes: the order of the disposers, and the honesty of the record a     *)
(* close leaves                                                            *)
(***************************************************************************)

Places(s) == 1 .. Len(pushed[s])                      \* all that s ever pushed
Popped(s) == Len(stack[s]) + 1 .. Len(pushed[s])      \* what its unwind has reached

(***************************************************************************)
(* The inductive invariant                                                 *)
(***************************************************************************)

(* How far the close is says how far the scope is. A close cancelled       *)
(* before it began leaves an open scope.                                   *)
Phases ==
    \A s \in Scopes :
        /\ close[s] = "none" => sstate[s] \in {"absent", "open"}
        /\ close[s] = "scheduled" => sstate[s] = "open"
        /\ close[s] \in {"stopping", "unwinding"} => sstate[s] = "closing"
        /\ close[s] \in {"returned", "raised"} => sstate[s] = "closed"
        /\ close[s] = "cancelled" => sstate[s] \in {"open", "closed"} /\ s \in interrupted

(* The exit stack is what was pushed, up to where the unwind is.           *)
Stacked ==
    \A s \in Scopes :
        /\ Len(stack[s]) <= Len(pushed[s])
        /\ \A k \in 1 .. Len(stack[s]) : stack[s][k] = pushed[s][k]
        /\ \A k, m \in Places(s) : pushed[s][k] = pushed[s][m] => k = m
        /\ close[s] \notin {"unwinding", "returned", "raised"} => Len(stack[s]) = Len(pushed[s])
        /\ close[s] \in {"returned", "raised"} => Len(stack[s]) = 0

(* Each item is on one stack, that of the scope it was put under, and on   *)
(* the record of effects while it is there.                                *)
Owned ==
    /\ \A e \in Effects : /\ res[e] # "unused" => home[e] \in Scopes
                          /\ res[e] = "entering" => e \in effects[home[e]]
    /\ \A s \in Scopes : \A k \in Places(s) :
         /\ pushed[s][k] \in Effects => /\ home[pushed[s][k]] = s
                                        /\ res[pushed[s][k]] \in {"held", "released", "stuck"}
         /\ pushed[s][k] \in Scopes => /\ Parent[pushed[s][k]] = s
                                       /\ sstate[pushed[s][k]] # "absent"
         /\ k \notin Popped(s) => /\ pushed[s][k] \in effects[s]
                                  /\ pushed[s][k] \in Effects => res[pushed[s][k]] = "held"

(* A disposer that is awaited is that of the item popped last.             *)
Disposal ==
    \A s \in Scopes : disposing[s] # None =>
        Len(stack[s]) < Len(pushed[s]) /\ disposing[s] = pushed[s][Len(stack[s]) + 1]

(* What the unwind has dealt with is finished, unless a cancellation       *)
(* interfered, and whatever went wrong with it is on record.               *)
Unwound ==
    \A s \in Scopes : \A k \in Popped(s) : disposing[s] # pushed[s][k] =>
        /\ pushed[s][k] \in Effects =>
              \/ res[pushed[s][k]] = "released"
              \/ res[pushed[s][k]] = "stuck" /\ (pushed[s][k] \in failures[s] \/ unwindErr[s])
        /\ pushed[s][k] \in Scopes =>
              close[pushed[s][k]] = "returned" \/ pushed[s][k] \in failures[s] \/ unwindErr[s]
        /\ Finished(pushed[s][k]) \/ {s, pushed[s][k]} \cap interrupted # {}

(* An error in the unwind and the stragglers are among the failures.       *)
Reported ==
    \A s \in Scopes :
        /\ stragglers[s] \subseteq failures[s]
        /\ close[s] \in {"returned", "raised"} /\ unwindErr[s] => Unwind \in failures[s]

(* No task escapes the close: it waits for all that were started, and      *)
(* lists those it gives up.                                                *)
Watched ==
    \A s \in Scopes :
        /\ \A t \in tasks[s] : run[t] # "unused"
        /\ close[s] = "stopping" => Running(s) \subseteq waited[s]
        /\ close[s] \in {"unwinding", "returned", "raised"} => Running(s) \subseteq stragglers[s]

ScopeInv ==
    /\ ScopeTypeOK
    /\ Phases
    /\ Stacked
    /\ Owned
    /\ Disposal
    /\ Unwound
    /\ Reported
    /\ Watched
    /\ CleanCloseIsClean

(***************************************************************************)
(* Stacks                                                                  *)
(***************************************************************************)

LEMMA StacksTyped ==
    ASSUME ScopeTypeOK, NEW s \in Scopes
    PROVE  /\ stack[s] \in Seq(Items) /\ Len(stack[s]) \in Nat
           /\ DOMAIN stack[s] = 1 .. Len(stack[s])
           /\ pushed[s] \in Seq(Items) /\ Len(pushed[s]) \in Nat
           /\ DOMAIN pushed[s] = 1 .. Len(pushed[s])
           /\ \A k \in Places(s) : pushed[s][k] \in Items
  BY DEF ScopeTypeOK, Places

(* Objects of one kind are none of another.                                *)
LEMMA KindsDiffer ==
    /\ \A e \in Effects : e \in Items /\ e \notin Scopes /\ e \notin Tasks /\ e # None /\ e # Unwind
    /\ \A s \in Scopes : s \notin Effects /\ s \notin Tasks /\ s # None /\ s # Unwind
    /\ \A x \in Items : x \in Effects \/ x \in Scopes
    /\ None \notin Items /\ Unwind \notin Items /\ Unwind \notin Tasks
  BY ScopeAssumption DEF Items

LEMMA PushMeans ==
    ASSUME ScopeTypeOK, NEW s \in Scopes, NEW x \in Items, Push(s, x)
    PROVE  /\ stack' \in [Scopes -> Seq(Items)] /\ pushed' \in [Scopes -> Seq(Items)]
           /\ \A r \in Scopes \ {s} : stack'[r] = stack[r] /\ pushed'[r] = pushed[r]
           /\ Len(stack'[s]) = Len(stack[s]) + 1 /\ Len(pushed'[s]) = Len(pushed[s]) + 1
           /\ \A k \in 1 .. Len(stack[s]) : stack'[s][k] = stack[s][k]
           /\ \A k \in Places(s) : pushed'[s][k] = pushed[s][k]
           /\ stack'[s][Len(stack[s]) + 1] = x /\ pushed'[s][Len(pushed[s]) + 1] = x
<1>1. /\ stack' = [stack EXCEPT ![s] = Append(stack[s], x)]
      /\ pushed' = [pushed EXCEPT ![s] = Append(pushed[s], x)]
      /\ stack \in [Scopes -> Seq(Items)] /\ pushed \in [Scopes -> Seq(Items)]
  BY DEF Push, ScopeTypeOK
<1>2. /\ stack'[s] = Append(stack[s], x) /\ pushed'[s] = Append(pushed[s], x)
      /\ \A r \in Scopes \ {s} : stack'[r] = stack[r] /\ pushed'[r] = pushed[r]
  BY <1>1
<1>3. stack[s] \in Seq(Items) /\ pushed[s] \in Seq(Items)
  BY <1>1
<1>4. Append(stack[s], x) \in Seq(Items) /\ Append(pushed[s], x) \in Seq(Items)
  BY <1>3, AppendProperties
<1>5. /\ Len(stack'[s]) = Len(stack[s]) + 1 /\ stack'[s][Len(stack[s]) + 1] = x
      /\ \A k \in 1 .. Len(stack[s]) : stack'[s][k] = stack[s][k]
  BY <1>2, <1>3, AppendProperties
<1>6. /\ Len(pushed'[s]) = Len(pushed[s]) + 1 /\ pushed'[s][Len(pushed[s]) + 1] = x
      /\ \A k \in 1 .. Len(pushed[s]) : pushed'[s][k] = pushed[s][k]
  BY <1>2, <1>3, AppendProperties
<1> QED BY <1>1, <1>2, <1>4, <1>5, <1>6 DEF Places

LEMMA PopMeans ==
    ASSUME ScopeTypeOK, NEW s \in Scopes, stack[s] # <<>>, stack' = [stack EXCEPT ![s] = Front(@)]
    PROVE  /\ stack' \in [Scopes -> Seq(Items)]
           /\ \A r \in Scopes \ {s} : stack'[r] = stack[r]
           /\ Len(stack[s]) \in Nat \ {0} /\ Len(stack'[s]) = Len(stack[s]) - 1
           /\ \A k \in 1 .. Len(stack[s]) - 1 : stack'[s][k] = stack[s][k]
           /\ Last(stack[s]) = stack[s][Len(stack[s])] /\ Last(stack[s]) \in Items
<1>1. stack \in [Scopes -> Seq(Items)] /\ stack[s] \in Seq(Items)
  BY DEF ScopeTypeOK
<1>2. /\ Len(stack[s]) \in Nat \ {0} /\ Last(stack[s]) = stack[s][Len(stack[s])]
      /\ Last(stack[s]) \in Items
  BY <1>1 DEF Last
<1>3. /\ Front(stack[s]) \in Seq(Items) /\ Len(Front(stack[s])) = Len(stack[s]) - 1
      /\ \A k \in 1 .. Len(stack[s]) - 1 : Front(stack[s])[k] = stack[s][k]
  <2>1. \A k \in 1 .. Len(stack[s]) - 1 : stack[s][k] \in Items
    BY <1>1, <1>2
  <2> QED BY <1>2, <2>1, SubSeqProperties DEF Front
<1>4. /\ stack'[s] = Front(stack[s])
      /\ \A r \in Scopes \ {s} : stack'[r] = stack[r]
      /\ stack' = [stack EXCEPT ![s] = Front(stack[s])]
  BY <1>1
<1> QED BY <1>1, <1>2, <1>3, <1>4

(* What an open scope has not begun to unwind.                             *)
LEMMA OpenIsWhole ==
    ASSUME ScopeTypeOK, Phases, Stacked, NEW s \in Scopes, sstate[s] = "open"
    PROVE  /\ close[s] \in {"none", "scheduled", "cancelled"}
           /\ Len(stack[s]) = Len(pushed[s]) /\ disposing[s] = None
<1>1. close[s] \in {"none", "scheduled", "stopping", "unwinding", "returned", "raised", "cancelled"}
  BY DEF ScopeTypeOK
<1> QED BY <1>1 DEF ScopeTypeOK, Phases, Stacked

(***************************************************************************)
(* One step                                                                *)
(***************************************************************************)

(* An open scope takes on something new.                                   *)
LEMMA PushKeeps ==
    ASSUME ScopeInv, NEW s \in Scopes, sstate[s] = "open", NEW x \in Items, Push(s, x),
           \A r \in Scopes : \A k \in Places(r) : pushed[r][k] # x,
           UNCHANGED <<close, disposing, failures, unwindErr, interrupted, stragglers>>,
           \A r \in Scopes : effects[r] \subseteq effects'[r], x \in effects'[s],
           \A e \in Effects \ {x} : res'[e] = res[e] /\ home'[e] = home[e],
           \A c \in Scopes \ {x} : sstate'[c] = sstate[c],
           x \in Effects => home'[x] = s /\ res'[x] = "held",
           x \in Scopes => Parent[x] = s /\ sstate'[x] # "absent"
    PROVE  Stacked' /\ Owned' /\ Disposal' /\ Unwound' /\ CleanCloseIsClean'
<1> USE DEF ScopeInv
<1>1. /\ \A r \in Scopes \ {s} : stack'[r] = stack[r] /\ pushed'[r] = pushed[r]
      /\ Len(stack'[s]) = Len(stack[s]) + 1 /\ Len(pushed'[s]) = Len(pushed[s]) + 1
      /\ \A k \in 1 .. Len(stack[s]) : stack'[s][k] = stack[s][k]
      /\ \A k \in Places(s) : pushed'[s][k] = pushed[s][k]
      /\ stack'[s][Len(stack[s]) + 1] = x /\ pushed'[s][Len(pushed[s]) + 1] = x
  BY PushMeans
<1>2. \A r \in Scopes : /\ Len(stack[r]) \in Nat /\ Len(pushed[r]) \in Nat
                        /\ \A k \in Places(r) : pushed[r][k] \in Items
  BY StacksTyped
<1>3. /\ close[s] \in {"none", "scheduled", "cancelled"}
      /\ Len(stack[s]) = Len(pushed[s]) /\ disposing[s] = None
  BY OpenIsWhole
<1>4. Stacked'
  <2> SUFFICES ASSUME NEW r \in Scopes
               PROVE  /\ Len(stack'[r]) <= Len(pushed'[r])
                      /\ \A k \in 1 .. Len(stack'[r]) : stack'[r][k] = pushed'[r][k]
                      /\ \A k, m \in Places(r)' : pushed'[r][k] = pushed'[r][m] => k = m
                      /\ close[r] \notin {"unwinding", "returned", "raised"}
                           => Len(stack'[r]) = Len(pushed'[r])
                      /\ close[r] \in {"returned", "raised"} => Len(stack'[r]) = 0
    BY DEF Stacked
  <2>1. CASE r # s
    BY <1>1, <2>1 DEF Stacked, Places
  <2>2. CASE r = s
    <3>1. \A k \in 1 .. Len(stack'[s]) : stack'[s][k] = pushed'[s][k]
      BY <1>1, <1>2, <1>3 DEF Stacked, Places
    <3>2. ASSUME NEW k \in Places(s)', NEW m \in Places(s)', pushed'[s][k] = pushed'[s][m]
          PROVE  k = m
      <4>1. /\ k \in Places(s) \/ k = Len(pushed[s]) + 1
            /\ m \in Places(s) \/ m = Len(pushed[s]) + 1
        BY <1>1, <1>2 DEF Places
      <4> QED BY <1>1, <3>2, <4>1 DEF Stacked
    <3> QED BY <1>1, <1>3, <2>2, <3>1, <3>2
  <2> QED BY <2>1, <2>2
<1>5. Owned'
  <2>1. \A e \in Effects : /\ res'[e] # "unused" => home'[e] \in Scopes
                           /\ res'[e] = "entering" => e \in effects'[home'[e]]
    BY DEF Owned
  <2>2. ASSUME NEW r \in Scopes, NEW k \in Places(r)', ~(r = s /\ k = Len(pushed[s]) + 1)
        PROVE  /\ k \in Places(r) /\ pushed'[r][k] = pushed[r][k] /\ pushed[r][k] # x
               /\ k \notin Popped(r)' => k \notin Popped(r)
    BY <1>1, <1>2, <1>3, <2>2 DEF Places, Popped
  <2>3. ASSUME NEW r \in Scopes, NEW k \in Places(r)'
        PROVE  /\ pushed'[r][k] \in Effects => /\ home'[pushed'[r][k]] = r
                                               /\ res'[pushed'[r][k]] \in {"held", "released", "stuck"}
               /\ pushed'[r][k] \in Scopes => /\ Parent[pushed'[r][k]] = r
                                              /\ sstate'[pushed'[r][k]] # "absent"
               /\ k \notin Popped(r)' => /\ pushed'[r][k] \in effects'[r]
                                         /\ pushed'[r][k] \in Effects => res'[pushed'[r][k]] = "held"
    <3>1. CASE r = s /\ k = Len(pushed[s]) + 1
      BY <1>1, <3>1
    <3>2. CASE ~(r = s /\ k = Len(pushed[s]) + 1)
      BY <2>2, <2>3, <3>2 DEF Owned
    <3> QED BY <3>1, <3>2
  <2> QED BY <2>1, <2>3 DEF Owned
<1>6. Disposal'
  <2> SUFFICES ASSUME NEW r \in Scopes, disposing[r] # None
               PROVE  Len(stack'[r]) < Len(pushed'[r]) /\ disposing[r] = pushed'[r][Len(stack'[r]) + 1]
    BY DEF Disposal
  <2> QED BY <1>1, <1>3 DEF Disposal
<1>7. Unwound'
  <2>1. ASSUME NEW r \in Scopes, NEW k \in Popped(r)'
        PROVE  /\ k \in Popped(r) /\ pushed'[r][k] = pushed[r][k] /\ pushed[r][k] # x
               /\ pushed[r][k] \in Items
    BY <1>1, <1>2, <1>3, <2>1 DEF Places, Popped
  <2> QED BY <2>1, KindsDiffer DEF Unwound, Finished
<1>8. CleanCloseIsClean'
  <2> SUFFICES ASSUME NEW r \in Scopes, close[r] = "returned", NEW y \in Range(pushed'[r])
               PROVE  IF y \in Effects THEN res'[y] = "released" ELSE close[y] = "returned"
    BY DEF CleanCloseIsClean
  <2>1. pushed'[r] = pushed[r]
    BY <1>1, <1>3
  <2>2. PICK k \in DOMAIN pushed[r] : y = pushed[r][k]
    BY <2>1 DEF Range
  <2>3. y # x
    BY <2>2, StacksTyped DEF Places
  <2> QED BY <2>1, <2>3 DEF CleanCloseIsClean
<1> QED BY <1>4, <1>5, <1>6, <1>7, <1>8

(* Nothing is pushed or popped, and what is finished stays so.             *)
LEMMA StillKeeps ==
    ASSUME ScopeInv, UNCHANGED <<stack, pushed, disposing>>,
           \A e \in Effects : /\ res[e] \in {"held", "released", "stuck"} =>
                                   res'[e] = res[e] /\ home'[e] = home[e]
                              /\ res'[e] # "unused" => home'[e] \in Scopes
                              /\ res'[e] = "entering" => e \in effects'[home'[e]],
           \A s \in Scopes : \A k \in Places(s) \ Popped(s) : pushed[s][k] \in effects'[s],
           \A s \in Scopes : /\ sstate[s] # "absent" => sstate'[s] # "absent"
                             /\ sstate[s] = "closed" => sstate'[s] = "closed"
                             /\ close[s] = "returned" => close'[s] = "returned"
                             /\ failures[s] \subseteq failures'[s]
                             /\ unwindErr[s] => unwindErr'[s],
           interrupted \subseteq interrupted'
    PROVE  Owned' /\ Disposal' /\ Unwound'
<1> USE DEF ScopeInv
<1>1. \A s \in Scopes : \A k \in Popped(s) : k \in Places(s) /\ pushed[s][k] \in Items
  BY StacksTyped DEF Places, Popped
<1>2. Owned'
  BY DEF Owned, Places, Popped
<1>3. Disposal'
  BY DEF Disposal
<1>4. Unwound'
  <2> SUFFICES ASSUME NEW s \in Scopes, NEW k \in Popped(s)', disposing[s] # pushed[s][k]
               PROVE  LET x == pushed[s][k] IN
                      /\ x \in Effects =>
                            \/ res'[x] = "released"
                            \/ res'[x] = "stuck" /\ (x \in failures'[s] \/ unwindErr'[s])
                      /\ x \in Scopes => close'[x] = "returned" \/ x \in failures'[s] \/ unwindErr'[s]
                      /\ Finished(x)' \/ {s, x} \cap interrupted' # {}
    BY DEF Unwound
  <2> DEFINE x == pushed[s][k]
  <2>1. k \in Popped(s) /\ x \in Items
    BY <1>1 DEF Popped
  <2>2. /\ x \in Effects =>
              \/ res[x] = "released"
              \/ res[x] = "stuck" /\ (x \in failures[s] \/ unwindErr[s])
        /\ x \in Scopes => close[x] = "returned" \/ x \in failures[s] \/ unwindErr[s]
        /\ Finished(x) \/ {s, x} \cap interrupted # {}
    BY <2>1 DEF Unwound
  <2>3. Finished(x) => Finished(x)'
    BY <2>1, KindsDiffer DEF Finished
  <2> HIDE DEF x
  <2>4. /\ x \in Effects =>
              \/ res'[x] = "released"
              \/ res'[x] = "stuck" /\ (x \in failures'[s] \/ unwindErr'[s])
        /\ x \in Scopes => close'[x] = "returned" \/ x \in failures'[s] \/ unwindErr'[s]
        /\ Finished(x)' \/ {s, x} \cap interrupted' # {}
    BY <2>2, <2>3
  <2> QED BY <2>4 DEF x
<1> QED BY <1>2, <1>3, <1>4

(* A close that returned without an error is not disturbed.                *)
LEMMA CleanKeeps ==
    ASSUME ScopeInv, UNCHANGED <<pushed, stragglers>>,
           \A s \in Scopes : close'[s] = "returned" <=> close[s] = "returned",
           \A e \in Effects : res[e] = "released" => res'[e] = "released"
    PROVE  CleanCloseIsClean'
<1> SUFFICES ASSUME NEW s \in Scopes, close[s] = "returned", NEW x \in Range(pushed[s])
             PROVE  IF x \in Effects THEN res'[x] = "released" ELSE close'[x] = "returned"
  BY DEF CleanCloseIsClean, ScopeInv
<1>1. x \in Items
  BY StacksTyped DEF Range, ScopeInv, Places
<1> QED BY <1>1, KindsDiffer DEF CleanCloseIsClean, ScopeInv

LEMMA ScopeInitInv == ScopeInit => ScopeInv
<1> SUFFICES ASSUME ScopeInit PROVE ScopeInv
  OBVIOUS
<1>1. ScopeTypeOK
  BY ScopeAssumption DEF ScopeInit, ScopeTypeOK, None
<1>2. \A s \in Scopes : stack[s] = <<>> /\ pushed[s] = <<>> /\ Len(stack[s]) = 0 /\ Len(pushed[s]) = 0
  BY DEF ScopeInit
<1>3. Phases /\ Reported /\ Watched /\ CleanCloseIsClean
  BY DEF ScopeInit, Phases, Reported, Watched, CleanCloseIsClean
<1>4. Stacked /\ Owned /\ Disposal /\ Unwound
  BY <1>2 DEF ScopeInit, Stacked, Owned, Disposal, Unwound, Places, Popped
<1> QED BY <1>1, <1>3, <1>4 DEF ScopeInv

(* Effects, child scopes and tasks come under an open scope.               *)
LEMMA UseKeeps ==
    ASSUME ScopeInv, NEW s \in Scopes, Use(s)
    PROVE  ScopeInv'
<1> USE DEF ScopeInv
<1>1. ASSUME NEW e \in Effects, Cleanup(s, e) PROVE ScopeInv'
  <2>1. ScopeTypeOK'
    BY <1>1, PushMeans, KindsDiffer DEF Cleanup, ScopeTypeOK, Own
  <2>2. Phases' /\ Reported' /\ Watched'
    BY <1>1 DEF Cleanup, Phases, Reported, Watched, Running
  <2>3. Stacked' /\ Owned' /\ Disposal' /\ Unwound' /\ CleanCloseIsClean'
    <3>1. \A r \in Scopes : \A k \in Places(r) : pushed[r][k] # e
      BY <1>1 DEF Cleanup, Owned
    <3>2. /\ \A r \in Scopes : effects[r] \subseteq effects'[r]
          /\ e \in effects'[s]
      BY <1>1 DEF Cleanup, Own, ScopeTypeOK
    <3>3. /\ \A d \in Effects \ {e} : res'[d] = res[d] /\ home'[d] = home[d]
          /\ home'[e] = s /\ res'[e] = "held"
      BY <1>1 DEF Cleanup, ScopeTypeOK
    <3> QED BY <1>1, <3>1, <3>2, <3>3, PushKeeps, KindsDiffer DEF Cleanup
  <2> QED BY <2>1, <2>2, <2>3
<1>2. ASSUME NEW e \in Effects, EnterBegin(s, e) PROVE ScopeInv'
  <2>1. ScopeTypeOK'
    BY <1>2, KindsDiffer DEF EnterBegin, ScopeTypeOK, Own
  <2>2. Phases' /\ Stacked' /\ Reported' /\ Watched'
    BY <1>2 DEF EnterBegin, Phases, Stacked, Reported, Watched, Running, Places
  <2>3. Owned' /\ Disposal' /\ Unwound'
    <3>1. \A d \in Effects : /\ res[d] \in {"held", "released", "stuck"} =>
                                  res'[d] = res[d] /\ home'[d] = home[d]
                             /\ res'[d] # "unused" => home'[d] \in Scopes
                             /\ res'[d] = "entering" => d \in effects'[home'[d]]
      BY <1>2 DEF EnterBegin, ScopeTypeOK, Owned, Own
    <3>2. \A r \in Scopes : \A k \in Places(r) \ Popped(r) : pushed[r][k] \in effects'[r]
      BY <1>2 DEF EnterBegin, ScopeTypeOK, Owned, Own
    <3> QED BY <1>2, <3>1, <3>2, StillKeeps DEF EnterBegin
  <2>4. CleanCloseIsClean'
    BY <1>2, CleanKeeps DEF EnterBegin, ScopeTypeOK
  <2> QED BY <2>1, <2>2, <2>3, <2>4
<1>3. ASSUME NEW t \in Tasks, CreateTask(s, t) PROVE ScopeInv'
  <2>1. ScopeTypeOK'
    BY <1>3 DEF CreateTask, ScopeTypeOK
  <2>2. Phases' /\ Stacked' /\ Reported' /\ CleanCloseIsClean'
    BY <1>3, CleanKeeps DEF CreateTask, Phases, Stacked, Reported, Places
  <2>3. Owned' /\ Disposal' /\ Unwound'
    <3>1. \A d \in Effects : home'[d] = home[d] /\ res'[d] = res[d]
      BY <1>3, KindsDiffer DEF CreateTask, ScopeTypeOK
    <3>2. \A r \in Scopes : \A k \in Places(r) \ Popped(r) : pushed[r][k] \in effects'[r]
      BY <1>3 DEF CreateTask, Owned
    <3>3. \A d \in Effects : /\ res[d] # "unused" => home[d] \in Scopes
                             /\ res[d] = "entering" => d \in effects[home[d]]
      BY DEF Owned
    <3> QED BY <1>3, <3>1, <3>2, <3>3, StillKeeps DEF CreateTask
  <2>4. Watched'
    <3>1. close[s] \in {"none", "scheduled", "cancelled"}
      BY <1>3, OpenIsWhole DEF CreateTask
    <3>2. \A r \in Scopes \ {s} : tasks'[r] = tasks[r] /\ t \notin tasks[r]
      BY <1>3 DEF CreateTask, ScopeTypeOK, Watched
    <3>3. \A u \in Tasks \ {t} : run'[u] = run[u]
      BY <1>3 DEF CreateTask, ScopeTypeOK
    <3>4. \A r \in Scopes \ {s} : Running(r)' = Running(r)
      BY <3>2, <3>3 DEF Running, ScopeTypeOK
    <3>5. \A r \in Scopes : \A u \in tasks'[r] : run'[u] # "unused"
      BY <1>3 DEF CreateTask, ScopeTypeOK, Watched
    <3> QED BY <1>3, <3>1, <3>4, <3>5 DEF CreateTask, Watched
  <2> QED BY <2>1, <2>2, <2>3, <2>4
<1>4. ASSUME s # Root, Child(s) PROVE ScopeInv'
  <2> DEFINE p == Parent[s]
  <2>1. p \in Scopes /\ s \in Items /\ p # s
    BY <1>4, ScopeAssumption DEF Items, Child
  <2>2. ScopeTypeOK'
    BY <1>4, <2>1, PushMeans DEF Child, ScopeTypeOK, Own
  <2>3. Phases' /\ Reported' /\ Watched'
    BY <1>4 DEF Child, Phases, Reported, Watched, Running, ScopeTypeOK
  <2>4. Stacked' /\ Owned' /\ Disposal' /\ Unwound' /\ CleanCloseIsClean'
    <3>1. \A r \in Scopes : \A k \in Places(r) : pushed[r][k] # s
      BY <1>4 DEF Child, Owned
    <3>2. /\ \A r \in Scopes : effects[r] \subseteq effects'[r]
          /\ s \in effects'[p]
      BY <1>4, <2>1 DEF Child, Own, ScopeTypeOK
    <3>3. /\ \A c \in Scopes \ {s} : sstate'[c] = sstate[c]
          /\ sstate'[s] # "absent"
      BY <1>4 DEF Child, ScopeTypeOK
    <3> QED BY <1>4, <2>1, <3>1, <3>2, <3>3, PushKeeps, KindsDiffer DEF Child
  <2> QED BY <2>2, <2>3, <2>4
<1>5. ASSUME Aclose(s) PROVE ScopeInv'
  <2>1. ScopeTypeOK'
    BY <1>5 DEF Aclose, ScopeTypeOK
  <2>2. /\ close[s] = "none" /\ close'[s] = "scheduled" /\ sstate[s] = "open"
        /\ \A r \in Scopes \ {s} : close'[r] = close[r]
    BY <1>5 DEF Aclose, ScopeTypeOK, Phases
  <2>5. Phases' /\ Reported'
    BY <1>5, <2>2 DEF Aclose, Phases, Reported
  <2>6. Stacked'
    BY <1>5, <2>2 DEF Aclose, Stacked, Places
  <2>7. Watched'
    BY <1>5, <2>2 DEF Aclose, Watched, Running
  <2>3. Owned' /\ Disposal' /\ Unwound'
    BY <1>5, StillKeeps DEF Aclose, ScopeTypeOK, Owned
  <2>4. CleanCloseIsClean'
    BY <1>5, CleanKeeps DEF Aclose, ScopeTypeOK
  <2> QED BY <2>1, <2>3, <2>4, <2>5, <2>6, <2>7
<1> QED BY <1>1, <1>2, <1>3, <1>4, <1>5 DEF Use

(* What __aenter__, a late __aexit__ and the tasks themselves do.          *)
LEMMA UserCodeKeeps ==
    ASSUME ScopeInv,
           \/ \E e \in Effects : EnterEnd(e) \/ EnterFail(e) \/ LateExit(e)
           \/ \E t \in Tasks : TaskEnd(t) \/ OnTaskDone(t)
    PROVE  ScopeInv'
<1> USE DEF ScopeInv
<1>1. ASSUME NEW e \in Effects, EnterEnd(e), sstate[home[e]] = "open" PROVE ScopeInv'
  <2>1. /\ home[e] \in Scopes /\ e \in Items
        /\ Push(home[e], e) /\ res' = [res EXCEPT ![e] = "held"] /\ UNCHANGED effects
    BY <1>1, KindsDiffer DEF EnterEnd, Owned
  <2>2. ScopeTypeOK'
    <3>1. stack' \in [Scopes -> Seq(Items)] /\ pushed' \in [Scopes -> Seq(Items)]
      BY <2>1, PushMeans
    <3> QED BY <1>1, <2>1, <3>1 DEF EnterEnd, ScopeTypeOK
  <2>3. Phases' /\ Reported' /\ Watched'
    BY <1>1 DEF EnterEnd, Phases, Reported, Watched, Running
  <2>4. Stacked' /\ Owned' /\ Disposal' /\ Unwound' /\ CleanCloseIsClean'
    <3>1. \A r \in Scopes : \A k \in Places(r) : pushed[r][k] # e
      BY <1>1 DEF EnterEnd, Owned
    <3>2. \A d \in Effects \ {e} : res'[d] = res[d] /\ home'[d] = home[d]
      BY <1>1 DEF EnterEnd, ScopeTypeOK
    <3>3. home'[e] = home[e] /\ res'[e] = "held"
      BY <1>1 DEF EnterEnd, ScopeTypeOK
    <3>4. e \in effects'[home[e]]
      BY <1>1, <2>1 DEF EnterEnd, Owned
    <3> QED BY <1>1, <2>1, <3>1, <3>2, <3>3, <3>4, PushKeeps, KindsDiffer DEF EnterEnd
  <2> QED BY <2>2, <2>3, <2>4
<1>2. ASSUME NEW e \in Effects,
             \/ EnterEnd(e) /\ sstate[home[e]] # "open"
             \/ EnterFail(e)
             \/ LateExit(e)
      PROVE  ScopeInv'
  <2>1. /\ res[e] \in {"entering", "late"}
        /\ \E r \in {"late", "released", "stuck"} : res' = [res EXCEPT ![e] = r]
        /\ effects' = [effects EXCEPT ![home[e]] = @ \ {e}] \/ UNCHANGED effects
        /\ UNCHANGED <<interrupted, sstate, stack, pushed, tasks, stragglers, failures, close,
                       waited, disposing, unwindErr, home, run>>
    BY <1>2 DEF EnterEnd, EnterFail, LateExit, recordVars, Disown
  <2>2. home[e] \in Scopes
    BY <2>1 DEF Owned
  <2>3. ScopeTypeOK'
    <3>1. effects' \in [Scopes -> SUBSET Items]
      BY <2>1, <2>2 DEF ScopeTypeOK
    <3>2. res' \in [Effects -> {"unused", "entering", "held", "late", "released", "stuck"}]
      BY <2>1 DEF ScopeTypeOK
    <3> QED BY <2>1, <3>1, <3>2 DEF ScopeTypeOK
  <2>4. Phases' /\ Stacked' /\ Reported' /\ Watched'
    BY <2>1 DEF Phases, Stacked, Reported, Watched, Running, Places
  <2>5. /\ \A d \in Effects \ {e} : res'[d] = res[d]
        /\ res[e] \notin {"unused", "held", "released", "stuck"}
    BY <2>1 DEF ScopeTypeOK
  <2>6. Owned' /\ Disposal' /\ Unwound'
    <3>1. \A r \in Scopes : effects[r] \ {e} \subseteq effects'[r]
      BY <2>1, <2>2 DEF ScopeTypeOK
    <3>2. \A r \in Scopes : \A k \in Places(r) \ Popped(r) : pushed[r][k] \in effects'[r]
      BY <2>5, <3>1 DEF Owned
    <3>3. res'[e] # "entering"
      BY <2>1 DEF ScopeTypeOK
    <3>4. \A d \in Effects : /\ res[d] \in {"held", "released", "stuck"} =>
                                  res'[d] = res[d] /\ home'[d] = home[d]
                             /\ res'[d] # "unused" => home'[d] \in Scopes
                             /\ res'[d] = "entering" => d \in effects'[home'[d]]
      BY <2>1, <2>2, <2>5, <3>1, <3>3 DEF Owned
    <3> QED BY <2>1, <3>2, <3>4, StillKeeps
  <2>7. CleanCloseIsClean'
    BY <2>1, <2>5, CleanKeeps
  <2> QED BY <2>3, <2>4, <2>6, <2>7
<1>3. ASSUME NEW t \in Tasks, TaskEnd(t) \/ OnTaskDone(t) PROVE ScopeInv'
  <2>1. /\ \E r \in {"ended", "raised", "done"} : run' = [run EXCEPT ![t] = r]
        /\ \/ UNCHANGED <<tasks, failures>>
           \/ /\ tasks' = [tasks EXCEPT ![home[t]] = @ \ {t}]
              /\ \E T \in {{}, {t}} : failures' = [failures EXCEPT ![home[t]] = @ \cup T]
        /\ UNCHANGED <<interrupted, sstate, stack, pushed, effects, stragglers, close, waited,
                       disposing, unwindErr, res, home>>
    <3>1. CASE TaskEnd(t)
      BY <3>1 DEF TaskEnd, recordVars
    <3>2. CASE OnTaskDone(t) /\ run[t] = "raised"
      BY <3>2 DEF OnTaskDone
    <3>3. CASE OnTaskDone(t) /\ run[t] # "raised"
      <4>1. failures' = [failures EXCEPT ![home[t]] = @ \cup {}]
        BY <3>3 DEF OnTaskDone, ScopeTypeOK
      <4> QED BY <3>3, <4>1 DEF OnTaskDone
    <3> QED BY <1>3, <3>1, <3>2, <3>3
  <2>8. /\ tasks \in [Scopes -> SUBSET Tasks]
        /\ failures \in [Scopes -> SUBSET (Items \cup Tasks \cup {Unwind})]
    BY DEF ScopeTypeOK
  <2>9. /\ tasks' \in [Scopes -> SUBSET Tasks]
        /\ \A s \in Scopes : tasks'[s] \subseteq tasks[s]
    BY <2>1, <2>8
  <2>10. /\ failures' \in [Scopes -> SUBSET (Items \cup Tasks \cup {Unwind})]
         /\ \A s \in Scopes : failures[s] \subseteq failures'[s]
    <3>1. CASE UNCHANGED failures
      BY <2>8, <3>1
    <3>2. ASSUME NEW T \in {{}, {t}}, failures' = [failures EXCEPT ![home[t]] = @ \cup T]
          PROVE  /\ failures' \in [Scopes -> SUBSET (Items \cup Tasks \cup {Unwind})]
                 /\ \A s \in Scopes : failures[s] \subseteq failures'[s]
      BY <2>8, <3>2
    <3> QED BY <2>1, <3>1, <3>2
  <2>7. \A s \in Scopes : tasks'[s] \subseteq tasks[s] /\ failures[s] \subseteq failures'[s]
    BY <2>9, <2>10
  <2>2. ScopeTypeOK'
    <3>1. tasks' \in [Scopes -> SUBSET Tasks]
      BY <2>9
    <3>2. failures' \in [Scopes -> SUBSET (Items \cup Tasks \cup {Unwind})]
      BY <2>10
    <3>3. run' \in [Tasks -> {"unused", "running", "cancelling", "ended", "raised", "done"}]
      BY <2>1 DEF ScopeTypeOK
    <3> QED BY <2>1, <3>1, <3>2, <3>3 DEF ScopeTypeOK
  <2>3. Phases' /\ Stacked' /\ Reported'
    BY <2>1, <2>7 DEF Phases, Stacked, Reported, Places
  <2>4. Watched'
    <3>1. \A s \in Scopes : Running(s)' \subseteq Running(s)
      BY <2>1, <2>7 DEF Running, ScopeTypeOK
    <3>2. \A s \in Scopes : \A u \in tasks'[s] : run'[u] # "unused"
      BY <2>1, <2>7 DEF Watched, ScopeTypeOK
    <3> QED BY <2>1, <3>1, <3>2 DEF Watched
  <2>5. Owned' /\ Disposal' /\ Unwound'
    BY <2>1, <2>7, StillKeeps DEF Owned
  <2>6. CleanCloseIsClean'
    BY <2>1, CleanKeeps
  <2> QED BY <2>2, <2>3, <2>4, <2>5, <2>6
<1> QED BY <1>1, <1>2, <1>3

(* The close stops the tasks and begins its unwind.                        *)
LEMMA StopKeeps ==
    ASSUME ScopeInv, NEW s \in Scopes, CloseBegin(s) \/ TasksStopped(s) \/ StopTimeout(s)
    PROVE  ScopeInv'
<1> USE DEF ScopeInv
<1>1. /\ \/ close[s] = "scheduled" /\ close'[s] \in {"stopping", "unwinding"} /\ sstate'[s] = "closing"
         \/ close[s] = "stopping" /\ close'[s] = "unwinding" /\ UNCHANGED sstate
      /\ \A r \in Scopes \ {s} : close'[r] = close[r] /\ sstate'[r] = sstate[r]
      /\ \A r \in Scopes : failures[r] \subseteq failures'[r]
      /\ \A r \in Scopes \ {s} : stragglers'[r] = stragglers[r]
      /\ stragglers'[s] \subseteq failures'[s]
      /\ UNCHANGED <<interrupted, stack, pushed, effects, tasks, disposing, unwindErr, res, home>>
  <2>1. CASE CloseBegin(s)
    BY <2>1 DEF CloseBegin, ScopeTypeOK, Reported
  <2>2. CASE TasksStopped(s)
    BY <2>2 DEF TasksStopped, ScopeTypeOK, Reported
  <2>3. CASE StopTimeout(s)
    BY <2>3 DEF StopTimeout, ScopeTypeOK, Reported
  <2> QED BY <2>1, <2>2, <2>3
<1>2. ScopeTypeOK'
  <2>1. CASE CloseBegin(s)
    <3>1. close' \in [Scopes -> {"none", "scheduled", "stopping", "unwinding",
                                 "returned", "raised", "cancelled"}]
      BY <2>1 DEF CloseBegin, ScopeTypeOK
    <3>2. run' \in [Tasks -> {"unused", "running", "cancelling", "ended", "raised", "done"}]
      BY <2>1 DEF CloseBegin, ScopeTypeOK
    <3>3. Running(s) \subseteq Tasks
      BY DEF Running, ScopeTypeOK
    <3>4. \A r \in Scopes : disposing[r] # None => close'[r] = "unwinding"
      BY <1>1 DEF ScopeTypeOK
    <3> QED BY <2>1, <3>1, <3>2, <3>3, <3>4 DEF CloseBegin, ScopeTypeOK
  <2>2. CASE TasksStopped(s)
    BY <2>2 DEF TasksStopped, ScopeTypeOK
  <2>3. CASE StopTimeout(s)
    <3>1. \A r \in Scopes : disposing[r] # None => close'[r] = "unwinding"
      BY <1>1 DEF ScopeTypeOK
    <3>2. /\ stragglers' \in [Scopes -> SUBSET Tasks]
          /\ failures' \in [Scopes -> SUBSET (Items \cup Tasks \cup {Unwind})]
      BY <2>3 DEF StopTimeout, ScopeTypeOK
    <3> QED BY <2>3, <3>1, <3>2 DEF StopTimeout, ScopeTypeOK
  <2> QED BY <2>1, <2>2, <2>3
<1>3. Phases' /\ Stacked'
  BY <1>1 DEF Phases, Stacked, Places
<1>4. Reported'
  BY <1>1 DEF Reported
<1>5. Owned' /\ Disposal' /\ Unwound'
  <2>1. sstate[s] # "closed"
    BY <1>1 DEF Phases
  <2>2. \A r \in Scopes : /\ sstate[r] # "absent" => sstate'[r] # "absent"
                          /\ sstate[r] = "closed" => sstate'[r] = "closed"
                          /\ close[r] = "returned" => close'[r] = "returned"
    BY <1>1, <2>1
  <2> QED BY <1>1, <2>2, StillKeeps DEF Owned
<1>6. CleanCloseIsClean'
  <2> SUFFICES ASSUME NEW r \in Scopes, close'[r] = "returned"
               PROVE  /\ stragglers'[r] = {}
                      /\ \A x \in Range(pushed[r]) :
                            IF x \in Effects THEN res[x] = "released" ELSE close'[x] = "returned"
    BY <1>1 DEF CleanCloseIsClean
  <2>1. r # s /\ close[r] = "returned"
    BY <1>1
  <2>2. \A x \in Range(pushed[r]) : x \in Items
    BY StacksTyped DEF Range, Places
  <2> QED BY <1>1, <2>1, <2>2, KindsDiffer DEF CleanCloseIsClean
<1>7. Watched'
  <2>1. \A r \in Scopes : Running(r)' = Running(r)
    BY DEF CloseBegin, TasksStopped, StopTimeout, Running, ScopeTypeOK
  <2>2. \A r \in Scopes : \A t \in tasks'[r] : run'[t] # "unused"
    BY DEF CloseBegin, TasksStopped, StopTimeout, Watched, ScopeTypeOK, Running
  <2>3. CASE CloseBegin(s)
    BY <1>1, <2>1, <2>2, <2>3 DEF CloseBegin, Watched, ScopeTypeOK
  <2>4. CASE TasksStopped(s)
    <3>1. Running(s) = {}
      BY <2>4 DEF TasksStopped, Watched, Running
    <3> QED BY <1>1, <2>1, <2>2, <2>4, <3>1 DEF TasksStopped, Watched, ScopeTypeOK
  <2>5. CASE StopTimeout(s)
    BY <1>1, <2>1, <2>2, <2>5 DEF StopTimeout, Watched, ScopeTypeOK
  <2> QED BY <2>3, <2>4, <2>5
<1> QED BY <1>2, <1>3, <1>4, <1>5, <1>6, <1>7

(* The newest item is popped and its disposer starts.                      *)
LEMMA DisposeBeginKeeps ==
    ASSUME ScopeInv, NEW s \in Scopes, DisposeBegin(s)
    PROVE  ScopeInv'
<1> USE DEF ScopeInv
<1> DEFINE n == Len(stack[s])
           x == Last(stack[s])
<1>1. /\ close[s] = "unwinding" /\ disposing[s] = None /\ stack[s] # <<>>
      /\ stack' = [stack EXCEPT ![s] = Front(@)]
      /\ effects' = [effects EXCEPT ![s] = @ \ {x}]
      /\ disposing' = [disposing EXCEPT ![s] = x]
      /\ close' = IF x \in Scopes /\ close[x] = "none" THEN [close EXCEPT ![x] = "scheduled"]
                                                       ELSE close
      /\ UNCHANGED <<interrupted, sstate, pushed, tasks, stragglers, failures, waited, unwindErr,
                     res, home, run>>
  BY DEF DisposeBegin, Disown
<1>2. /\ stack' \in [Scopes -> Seq(Items)]
      /\ \A r \in Scopes \ {s} : stack'[r] = stack[r]
      /\ n \in Nat \ {0} /\ Len(stack'[s]) = n - 1
      /\ \A k \in 1 .. n - 1 : stack'[s][k] = stack[s][k]
      /\ x = stack[s][n] /\ x \in Items
  BY <1>1, PopMeans
<1>3. x = pushed[s][n] /\ n <= Len(pushed[s]) /\ n \in Places(s)
  BY <1>2, StacksTyped DEF Stacked, Places
<1> HIDE DEF n, x
<1>4. /\ \A r \in Scopes : close'[r] = close[r] \/ (r = x /\ close[r] = "none" /\ close'[r] = "scheduled")
      /\ close'[s] = "unwinding"
  BY <1>1 DEF ScopeTypeOK
<1>5. ScopeTypeOK'
  <2>1. close' \in [Scopes -> {"none", "scheduled", "stopping", "unwinding",
                               "returned", "raised", "cancelled"}]
    BY <1>1 DEF ScopeTypeOK
  <2>2. /\ disposing' \in [Scopes -> Items \cup {None}]
        /\ \A r \in Scopes \ {s} : disposing'[r] = disposing[r]
    BY <1>1, <1>2 DEF ScopeTypeOK
  <2>3. \A r \in Scopes : disposing'[r] # None => close'[r] = "unwinding"
    BY <1>4, <2>2 DEF ScopeTypeOK
  <2>4. effects' \in [Scopes -> SUBSET Items]
    BY <1>1 DEF ScopeTypeOK
  <2> QED BY <1>1, <1>2, <2>1, <2>2, <2>3, <2>4 DEF ScopeTypeOK
<1>6. /\ \A r \in Scopes \ {s} : disposing'[r] = disposing[r] /\ effects'[r] = effects[r]
      /\ disposing'[s] = x /\ effects'[s] = effects[s] \ {x}
  BY <1>1 DEF ScopeTypeOK
<1>7. Phases'
  <2>1. x \in Scopes => sstate[x] # "absent"
    BY <1>3 DEF Owned
  <2> QED BY <1>1, <1>4, <2>1 DEF Phases
<1>8. Stacked'
  <2> SUFFICES ASSUME NEW r \in Scopes
               PROVE  /\ Len(stack'[r]) <= Len(pushed[r])
                      /\ \A k \in 1 .. Len(stack'[r]) : stack'[r][k] = pushed[r][k]
                      /\ close'[r] \notin {"unwinding", "returned", "raised"}
                           => Len(stack'[r]) = Len(pushed[r])
                      /\ close'[r] \in {"returned", "raised"} => Len(stack'[r]) = 0
    BY <1>1 DEF Stacked, Places
  <2>1. CASE r = s
    <3>1. Len(pushed[s]) \in Nat
      BY StacksTyped
    <3> QED BY <1>2, <1>3, <1>4, <2>1, <3>1 DEF Stacked, n
  <2>2. CASE r # s
    BY <1>2, <1>4, <2>2 DEF Stacked
  <2> QED BY <2>1, <2>2
<1>9. Owned'
  <2>1. \A e \in Effects : /\ res[e] # "unused" => home[e] \in Scopes
                           /\ res[e] = "entering" => e \in effects'[home[e]]
    BY <1>3, <1>6 DEF Owned
  <2>2. ASSUME NEW r \in Scopes, NEW k \in Places(r), k \notin Popped(r)'
        PROVE  /\ pushed[r][k] \in effects'[r]
               /\ pushed[r][k] \in Effects => res[pushed[r][k]] = "held"
    <3>1. CASE r # s
      BY <1>1, <1>2, <1>6, <2>2, <3>1 DEF Owned, Popped
    <3>2. CASE r = s
      <4>1. Len(pushed[s]) \in Nat
        BY StacksTyped
      <4>2. k \in 1 .. n - 1 /\ k \notin Popped(s)
        BY <1>1, <1>2, <2>2, <3>2, <4>1 DEF Popped, Places, n
      <4>3. pushed[s][k] # x
        BY <1>2, <1>3, <2>2, <3>2, <4>2 DEF Stacked
      <4> QED BY <1>6, <2>2, <3>2, <4>2, <4>3 DEF Owned
    <3> QED BY <3>1, <3>2
  <2> QED BY <1>1, <2>1, <2>2 DEF Owned, Places
<1>10. Disposal'
  <2>1. Len(pushed[s]) \in Nat /\ x # None
    BY <1>2, StacksTyped, KindsDiffer
  <2> QED BY <1>1, <1>2, <1>3, <1>6, <2>1 DEF Disposal
<1>11. Unwound'
  <2> SUFFICES ASSUME NEW r \in Scopes, NEW k \in Popped(r)', disposing'[r] # pushed[r][k]
               PROVE  /\ pushed[r][k] \in Effects =>
                            \/ res[pushed[r][k]] = "released"
                            \/ /\ res[pushed[r][k]] = "stuck"
                               /\ pushed[r][k] \in failures[r] \/ unwindErr[r]
                      /\ pushed[r][k] \in Scopes =>
                            close'[pushed[r][k]] = "returned" \/ pushed[r][k] \in failures[r]
                              \/ unwindErr[r]
                      /\ Finished(pushed[r][k])' \/ {r, pushed[r][k]} \cap interrupted # {}
    BY <1>1 DEF Unwound
  <2>1. Len(pushed[r]) \in Nat /\ Len(stack[r]) \in Nat /\ (k \in Places(r) => pushed[r][k] \in Items)
    BY StacksTyped
  <2>2. k \in Popped(r) /\ disposing[r] # pushed[r][k] /\ pushed[r][k] \in Items
    <3>1. CASE r = s
      <4>1. k \in n .. Len(pushed[s]) /\ k # n
        BY <1>1, <1>2, <1>3, <1>6, <3>1 DEF Popped
      <4> QED BY <1>1, <1>2, <2>1, <3>1, <4>1, KindsDiffer DEF Popped, Places, n
    <3>2. CASE r # s
      <4>1. k \in Popped(r)
        BY <1>1, <1>2, <3>2 DEF Popped
      <4> QED BY <1>6, <2>1, <3>2, <4>1 DEF Popped, Places
    <3> QED BY <3>1, <3>2
  <2>3. Finished(pushed[r][k])' <=> Finished(pushed[r][k])
    BY <1>1 DEF Finished
  <2> QED BY <1>4, <2>2, <2>3 DEF Unwound
<1>12. Reported'
  BY <1>1, <1>4 DEF Reported
<1>13. Watched'
  BY <1>1, <1>4 DEF Watched, Running
<1>14. CleanCloseIsClean'
  <2>1. \A r \in Scopes : close'[r] = "returned" <=> close[r] = "returned"
    BY <1>4
  <2> QED BY <1>1, <2>1, CleanKeeps
<1> QED BY <1>5, <1>7, <1>8, <1>9, <1>10, <1>11, <1>12, <1>13, <1>14

(* The disposer ends, in one of the ways it can.                           *)
LEMMA DisposeEndKeeps ==
    ASSUME ScopeInv, NEW s \in Scopes, DisposeEnd(s)
    PROVE  ScopeInv'
<1> USE DEF ScopeInv
<1>0. PICK x : x = disposing[s]
  OBVIOUS
<1>1. PICK o \in Outcomes(x) :
        /\ failures' = [failures EXCEPT ![s] = IF o = "raised" THEN @ \cup {x} ELSE @]
        /\ unwindErr' = [unwindErr EXCEPT ![s] = @ \/ o = "cancelled"]
        /\ res' = IF x \in Scopes THEN res
                  ELSE [res EXCEPT ![x] = IF o = "returned" THEN "released" ELSE "stuck"]
  BY <1>0 DEF DisposeEnd
<1>2. /\ x # None /\ x \in Items
      /\ disposing' = [disposing EXCEPT ![s] = None]
      /\ UNCHANGED <<interrupted, sstate, stack, pushed, effects, tasks, stragglers, close, waited,
                     home, run>>
  BY <1>0 DEF DisposeEnd, ScopeTypeOK
<1>3. /\ Len(stack[s]) \in Nat /\ Len(pushed[s]) \in Nat /\ Len(stack[s]) < Len(pushed[s])
      /\ x = pushed[s][Len(stack[s]) + 1] /\ Len(stack[s]) + 1 \in Popped(s)
      /\ Len(stack[s]) + 1 \in Places(s) /\ close[s] = "unwinding"
  BY <1>0, <1>2, StacksTyped DEF Disposal, Popped, Places, ScopeTypeOK
<1>4. /\ \A r \in Scopes \ {s} : /\ failures'[r] = failures[r] /\ unwindErr'[r] = unwindErr[r]
                                 /\ disposing'[r] = disposing[r]
      /\ failures'[s] = IF o = "raised" THEN failures[s] \cup {x} ELSE failures[s]
      /\ unwindErr'[s] = (unwindErr[s] \/ o = "cancelled")
      /\ disposing'[s] = None
  BY <1>1, <1>2 DEF ScopeTypeOK
<1>5. o \in {"returned", "raised", "cancelled"}
  BY <1>1 DEF Outcomes
<1>6. /\ \A e \in Effects \ {x} : res'[e] = res[e]
      /\ x \in Effects => res'[x] = IF o = "returned" THEN "released" ELSE "stuck"
      /\ x \in Scopes => res' = res /\ o = close[x]
  BY <1>1, <1>2, KindsDiffer DEF ScopeTypeOK, Outcomes
<1>7. ScopeTypeOK'
  <2>1. res' \in [Effects -> {"unused", "entering", "held", "late", "released", "stuck"}]
    BY <1>1 DEF ScopeTypeOK
  <2>2. /\ failures' \in [Scopes -> SUBSET (Items \cup Tasks \cup {Unwind})]
        /\ unwindErr' \in [Scopes -> BOOLEAN]
        /\ disposing' \in [Scopes -> Items \cup {None}]
    BY <1>1, <1>2 DEF ScopeTypeOK
  <2>3. \A r \in Scopes : disposing'[r] # None => close'[r] = "unwinding"
    BY <1>2, <1>4 DEF ScopeTypeOK
  <2> QED BY <1>2, <2>1, <2>2, <2>3 DEF ScopeTypeOK
<1>8. Phases' /\ Stacked' /\ Watched'
  BY <1>2 DEF Phases, Stacked, Watched, Running, Places
<1>9. Reported'
  BY <1>2, <1>3, <1>4 DEF Reported
<1>10. Owned'
  <2>1. \A e \in Effects : /\ res'[e] # "unused" => home[e] \in Scopes
                           /\ res'[e] = "entering" => e \in effects[home[e]]
    BY <1>3, <1>5, <1>6 DEF Owned
  <2>2. ASSUME NEW r \in Scopes, NEW k \in Places(r), k \notin Popped(r)
        PROVE  pushed[r][k] # x
    <3>1. CASE r = s
      BY <1>3, <2>2, <3>1 DEF Stacked
    <3>2. CASE r # s
      BY <1>2, <1>3, <2>2, <3>2, KindsDiffer DEF Owned
    <3> QED BY <3>1, <3>2
  <2> QED BY <1>2, <1>5, <1>6, <2>1, <2>2 DEF Owned, Places, Popped
<1>11. Disposal'
  BY <1>2, <1>4 DEF Disposal
<1>12. Unwound'
  <2> SUFFICES ASSUME NEW r \in Scopes, NEW k \in Popped(r), disposing'[r] # pushed[r][k]
               PROVE  /\ pushed[r][k] \in Effects =>
                            \/ res'[pushed[r][k]] = "released"
                            \/ /\ res'[pushed[r][k]] = "stuck"
                               /\ pushed[r][k] \in failures'[r] \/ unwindErr'[r]
                      /\ pushed[r][k] \in Scopes =>
                            close[pushed[r][k]] = "returned" \/ pushed[r][k] \in failures'[r]
                              \/ unwindErr'[r]
                      /\ Finished(pushed[r][k])' \/ {r, pushed[r][k]} \cap interrupted # {}
    BY <1>2 DEF Unwound, Popped
  <2>1. k \in Places(r) /\ pushed[r][k] \in Items
    BY StacksTyped DEF Places, Popped
  <2>2. CASE r = s /\ pushed[r][k] = x
    <3>1. CASE x \in Effects
      BY <1>2, <1>4, <1>5, <1>6, <2>2, <3>1, KindsDiffer DEF Finished
    <3>2. CASE x \in Scopes
      <4>1. x \notin Effects /\ o = close[x]
        BY <1>6, <3>2, KindsDiffer
      <4>2. Finished(x)' \/ x \in interrupted
        BY <1>2, <1>5, <3>2, <4>1 DEF Finished, Phases
      <4>3. Finished(pushed[r][k])' \/ x \in interrupted
        BY <1>2, <2>2, <4>2 DEF Finished
      <4> QED BY <1>4, <1>5, <2>2, <4>1, <4>3
    <3> QED BY <2>1, <2>2, <3>1, <3>2, KindsDiffer
  <2>3. CASE ~(r = s /\ pushed[r][k] = x)
    <3>1. disposing[r] # pushed[r][k]
      BY <1>0, <1>4, <2>3
    <3>2. pushed[r][k] \in Effects => pushed[r][k] # x
      BY <1>3, <2>1, <2>3 DEF Owned
    <3>3. Finished(pushed[r][k]) => Finished(pushed[r][k])'
      BY <1>2, <1>6, <3>2 DEF Finished
    <3> QED BY <1>4, <1>6, <3>1, <3>2, <3>3 DEF Unwound
  <2> QED BY <2>2, <2>3
<1>13. CleanCloseIsClean'
  <2> SUFFICES ASSUME NEW r \in Scopes, close[r] = "returned", NEW y \in Range(pushed[r])
               PROVE  IF y \in Effects THEN res'[y] = "released" ELSE close[y] = "returned"
    BY <1>2 DEF CleanCloseIsClean
  <2>1. r # s
    BY <1>3
  <2>2. PICK k \in Places(r) : y = pushed[r][k]
    BY StacksTyped DEF Range, Places
  <2>3. y \in Effects => y # x
    BY <1>3, <2>1, <2>2 DEF Owned
  <2> QED BY <1>6, <2>3 DEF CleanCloseIsClean
<1> QED BY <1>7, <1>8, <1>9, <1>10, <1>11, <1>12, <1>13

(* The unwind is over, or the close is cancelled at one of its awaits.     *)
LEMMA EndKeeps ==
    ASSUME ScopeInv, NEW s \in Scopes, CloseEnd(s) \/ CancelClose(s) \/ CancelUnwind(s)
    PROVE  ScopeInv'
<1> USE DEF ScopeInv
<1>1. ASSUME CloseEnd(s) PROVE ScopeInv'
  <2> DEFINE found == failures[s] \cup (IF unwindErr[s] THEN {Unwind} ELSE {})
  <2>1. /\ close[s] = "unwinding" /\ disposing[s] = None /\ stack[s] = <<>>
        /\ sstate' = [sstate EXCEPT ![s] = "closed"]
        /\ failures' = [failures EXCEPT ![s] = found]
        /\ close' = [close EXCEPT ![s] = IF found = {} THEN "returned" ELSE "raised"]
        /\ UNCHANGED <<interrupted, stack, pushed, effects, tasks, stragglers, waited, disposing,
                       unwindErr, res, home, run>>
    BY <1>1 DEF CloseEnd
  <2>2. found \in SUBSET (Items \cup Tasks \cup {Unwind}) /\ failures[s] \subseteq found
    BY DEF ScopeTypeOK
  <2> HIDE DEF found
  <2>3. /\ \A r \in Scopes \ {s} : /\ sstate'[r] = sstate[r] /\ failures'[r] = failures[r]
                                   /\ close'[r] = close[r]
        /\ sstate'[s] = "closed" /\ failures'[s] = found
        /\ close'[s] = IF found = {} THEN "returned" ELSE "raised"
    BY <2>1 DEF ScopeTypeOK
  <2>4. ScopeTypeOK'
    <3>1. /\ sstate' \in [Scopes -> {"absent", "open", "closing", "closed"}]
          /\ failures' \in [Scopes -> SUBSET (Items \cup Tasks \cup {Unwind})]
          /\ close' \in [Scopes -> {"none", "scheduled", "stopping", "unwinding",
                                    "returned", "raised", "cancelled"}]
      BY <2>1, <2>2 DEF ScopeTypeOK
    <3>2. \A r \in Scopes : disposing[r] # None => close'[r] = "unwinding"
      BY <2>1, <2>3 DEF ScopeTypeOK
    <3> QED BY <2>1, <3>1, <3>2 DEF ScopeTypeOK
  <2>5. Phases' /\ Watched'
    BY <2>1, <2>3 DEF Phases, Watched, Running
  <2>6. Stacked'
    <3>1. Len(stack[s]) = 0
      BY <2>1
    <3> QED BY <2>1, <2>3, <3>1 DEF Stacked, Places
  <2>7. Owned' /\ Disposal' /\ Unwound'
    <3>1. \A r \in Scopes : /\ sstate[r] # "absent" => sstate'[r] # "absent"
                            /\ sstate[r] = "closed" => sstate'[r] = "closed"
                            /\ close[r] = "returned" => close'[r] = "returned"
                            /\ failures[r] \subseteq failures'[r]
      BY <2>1, <2>2, <2>3
    <3> QED BY <2>1, <3>1, StillKeeps DEF Owned
  <2>8. Reported'
    <3>1. unwindErr[s] => Unwind \in found
      BY DEF found
    <3> QED BY <2>1, <2>2, <2>3, <3>1 DEF Reported
  <2>9. CleanCloseIsClean'
    <3> SUFFICES ASSUME NEW r \in Scopes, close'[r] = "returned"
                 PROVE  /\ stragglers[r] = {}
                        /\ \A x \in Range(pushed[r]) :
                              IF x \in Effects THEN res[x] = "released" ELSE close'[x] = "returned"
      BY <2>1 DEF CleanCloseIsClean
    <3>1. CASE r # s
      <4>1. close[r] = "returned" /\ \A c \in Scopes : close[c] = "returned" => close'[c] = "returned"
        BY <2>1, <2>3, <3>1
      <4>2. \A x \in Range(pushed[r]) : x \in Items
        BY StacksTyped DEF Range, Places
      <4> QED BY <4>1, <4>2, KindsDiffer DEF CleanCloseIsClean
    <3>2. CASE r = s
      <4>1. found = {} /\ ~unwindErr[s] /\ failures[s] = {}
        <5>1. found = {}
          BY <2>3, <3>2
        <5> QED BY <5>1 DEF found
      <4>2. stragglers[s] = {}
        BY <4>1 DEF Reported
      <4>3. ASSUME NEW x \in Range(pushed[s])
            PROVE  IF x \in Effects THEN res[x] = "released" ELSE close'[x] = "returned"
        <5>1. PICK k \in Places(s) : x = pushed[s][k]
          BY StacksTyped DEF Range, Places
        <5>2. x \in Items /\ k \in Popped(s) /\ disposing[s] # x
          <6>1. Len(stack[s]) = 0 /\ Len(pushed[s]) \in Nat
            BY <2>1, StacksTyped
          <6> QED BY <2>1, <5>1, <6>1, StacksTyped, KindsDiffer DEF Popped, Places
        <5>3. /\ x \in Effects => res[x] = "released"
              /\ x \in Scopes => close[x] = "returned"
          BY <4>1, <5>1, <5>2 DEF Unwound
        <5>4. x \in Scopes => x # s
          BY <2>1, <5>3
        <5> QED BY <2>3, <5>2, <5>3, <5>4, KindsDiffer
      <4> QED BY <3>2, <4>2, <4>3
    <3> QED BY <3>1, <3>2
  <2> QED BY <2>4, <2>5, <2>6, <2>7, <2>8, <2>9
<1>2. ASSUME CancelClose(s) PROVE ScopeInv'
  <2>1. /\ interrupted' = interrupted \cup {s} /\ close[s] \in {"scheduled", "stopping"}
        /\ sstate' = [sstate EXCEPT ![s] = IF close[s] = "stopping" THEN "closed" ELSE @]
        /\ close' = [close EXCEPT ![s] = "cancelled"]
        /\ UNCHANGED <<stack, pushed, effects, tasks, stragglers, failures, waited, disposing,
                       unwindErr, res, home, run>>
    BY <1>2 DEF CancelClose, CountCancel
  <2>2. /\ \A r \in Scopes \ {s} : sstate'[r] = sstate[r] /\ close'[r] = close[r]
        /\ close'[s] = "cancelled"
        /\ sstate'[s] = IF close[s] = "stopping" THEN "closed" ELSE sstate[s]
    BY <2>1 DEF ScopeTypeOK
  <2>3. ScopeTypeOK'
    <3>1. /\ sstate' \in [Scopes -> {"absent", "open", "closing", "closed"}]
          /\ close' \in [Scopes -> {"none", "scheduled", "stopping", "unwinding",
                                    "returned", "raised", "cancelled"}]
      BY <2>1 DEF ScopeTypeOK
    <3>2. \A r \in Scopes : disposing[r] # None => close'[r] = "unwinding"
      BY <2>1, <2>2 DEF ScopeTypeOK
    <3> QED BY <2>1, <3>1, <3>2 DEF ScopeTypeOK
  <2>4. Phases' /\ Reported' /\ Watched'
    BY <2>1, <2>2 DEF Phases, Reported, Watched, Running
  <2>5. Stacked'
    BY <2>1, <2>2 DEF Stacked, Places
  <2>6. Owned' /\ Disposal' /\ Unwound'
    <3>1. \A r \in Scopes : /\ sstate[r] # "absent" => sstate'[r] # "absent"
                            /\ sstate[r] = "closed" => sstate'[r] = "closed"
                            /\ close[r] = "returned" => close'[r] = "returned"
      BY <2>1, <2>2
    <3> QED BY <2>1, <3>1, StillKeeps DEF Owned
  <2>7. CleanCloseIsClean'
    <3>1. \A r \in Scopes : close'[r] = "returned" <=> close[r] = "returned"
      BY <2>1, <2>2
    <3> QED BY <2>1, <3>1, CleanKeeps
  <2> QED BY <2>3, <2>4, <2>5, <2>6, <2>7
<1>3. ASSUME CancelUnwind(s) PROVE ScopeInv'
  <2>1. /\ interrupted' = interrupted \cup {s} /\ disposing[s] \in Scopes
        /\ unwindErr' = [unwindErr EXCEPT ![s] = TRUE]
        /\ disposing' = [disposing EXCEPT ![s] = None]
        /\ UNCHANGED <<sstate, stack, pushed, effects, tasks, stragglers, failures, close, waited,
                       res, home, run>>
    BY <1>3 DEF CancelUnwind, CountCancel
  <2>2. /\ \A r \in Scopes \ {s} : unwindErr'[r] = unwindErr[r] /\ disposing'[r] = disposing[r]
        /\ unwindErr'[s] = TRUE /\ disposing'[s] = None /\ close[s] = "unwinding"
    BY <2>1, KindsDiffer DEF ScopeTypeOK
  <2>3. ScopeTypeOK'
    <3>1. unwindErr' \in [Scopes -> BOOLEAN] /\ disposing' \in [Scopes -> Items \cup {None}]
      BY <2>1 DEF ScopeTypeOK
    <3>2. \A r \in Scopes : disposing'[r] # None => close[r] = "unwinding"
      BY <2>2 DEF ScopeTypeOK
    <3> QED BY <2>1, <3>1, <3>2 DEF ScopeTypeOK
  <2>4. Phases' /\ Stacked' /\ Owned' /\ Watched'
    BY <2>1 DEF Phases, Stacked, Owned, Watched, Running, Places, Popped
  <2>5. Disposal' /\ Reported'
    BY <2>1, <2>2 DEF Disposal, Reported
  <2>6. Unwound'
    <3> SUFFICES ASSUME NEW r \in Scopes, NEW k \in Popped(r), disposing'[r] # pushed[r][k]
                 PROVE  /\ pushed[r][k] \in Effects =>
                              \/ res[pushed[r][k]] = "released"
                              \/ /\ res[pushed[r][k]] = "stuck"
                                 /\ pushed[r][k] \in failures[r] \/ unwindErr'[r]
                        /\ pushed[r][k] \in Scopes =>
                              close[pushed[r][k]] = "returned" \/ pushed[r][k] \in failures[r]
                                \/ unwindErr'[r]
                        /\ Finished(pushed[r][k]) \/ {r, pushed[r][k]} \cap interrupted' # {}
      BY <2>1 DEF Unwound, Popped, Finished
    <3>1. CASE disposing[r] # pushed[r][k]
      BY <2>1, <2>2, <3>1 DEF Unwound
    <3>2. CASE disposing[r] = pushed[r][k]
      <4>1. pushed[r][k] \in Items
        BY StacksTyped DEF Popped, Places
      <4>2. r = s
        BY <2>2, <3>2
      <4> QED BY <2>1, <2>2, <3>2, <4>1, <4>2, KindsDiffer
    <3> QED BY <3>1, <3>2
  <2>7. CleanCloseIsClean'
    BY <2>1, CleanKeeps
  <2> QED BY <2>3, <2>4, <2>5, <2>6, <2>7
<1> QED BY <1>1, <1>2, <1>3

LEMMA InvNext == ScopeInv /\ [ScopeNext]_scopeVars => ScopeInv'
<1> SUFFICES ASSUME ScopeInv, [ScopeNext]_scopeVars PROVE ScopeInv'
  OBVIOUS
<1>1. ASSUME NEW s \in Scopes, Use(s) \/ CloseStep(s) \/ CancelClose(s) \/ CancelUnwind(s)
      PROVE  ScopeInv'
  BY <1>1, UseKeeps, StopKeeps, DisposeBeginKeeps, DisposeEndKeeps, EndKeeps DEF CloseStep
<1>2. CASE UNCHANGED scopeVars
  BY <1>2 DEF scopeVars, ScopeInv, ScopeTypeOK, Phases, Stacked, Owned, Disposal, Unwound,
                  Reported, Watched, CleanCloseIsClean, Places, Popped, Finished, Running
<1> QED BY <1>1, <1>2, UserCodeKeeps DEF ScopeNext

(***************************************************************************)
(* Theorems                                                                *)
(***************************************************************************)

(* Between any two awaits of aclose() and of the close task it starts      *)
(* (_close, _stop_tasks, the exit stack), with callers entering contexts,  *)
(* tasks ending and closes being cancelled in between, stack, records,     *)
(* failures and close state of every scope tell the same story.            *)
THEOREM ScopeInvariant == ScopeSpec => []ScopeInv
  BY ScopeInitInv, InvNext, PTL DEF ScopeSpec

(* The unwind keeps the reverse of the registration order, across child    *)
(* scopes: an item's disposer starts only when everything its scope took   *)
(* on later has finished, unless one of the two closes is cancelled.       *)
THEOREM DisposersKeepTheOrder == ScopeSpec => []ReverseOrder
<1>1. ScopeInv => ReverseOrder
  <2> SUFFICES ASSUME ScopeInv, NEW s \in Scopes \ interrupted, NEW j \in DOMAIN pushed[s],
                      NEW i \in 1 .. j - 1, pushed[s][i] \notin Range(stack[s])
               PROVE  Finished(pushed[s][j]) \/ pushed[s][j] \in interrupted
    BY DEF ReverseOrder
  <2> USE DEF ScopeInv
  <2>1. /\ Len(stack[s]) \in Nat /\ Len(pushed[s]) \in Nat /\ j \in 1 .. Len(pushed[s])
        /\ DOMAIN stack[s] = 1 .. Len(stack[s]) /\ pushed[s][j] \in Items
    BY StacksTyped DEF Places
  <2>2. i > Len(stack[s])
    <3>1. SUFFICES ASSUME i \in 1 .. Len(stack[s]) PROVE FALSE
      BY <2>1
    <3>2. stack[s][i] = pushed[s][i] /\ i \in DOMAIN stack[s]
      BY <2>1, <3>1 DEF Stacked
    <3> QED BY <3>2 DEF Range
  <2>3. j \in Popped(s) /\ j # Len(stack[s]) + 1 /\ Len(stack[s]) + 1 \in Places(s)
    BY <2>1, <2>2 DEF Popped, Places
  <2>4. disposing[s] # pushed[s][j]
    <3>1. CASE disposing[s] = None
      BY <2>1, <3>1, KindsDiffer
    <3>2. CASE disposing[s] # None
      <4>1. disposing[s] = pushed[s][Len(stack[s]) + 1] /\ j \in Places(s)
        BY <2>1, <3>2 DEF Disposal, Places
      <4> QED BY <2>3, <4>1 DEF Stacked
    <3> QED BY <3>1, <3>2
  <2> QED BY <2>3, <2>4 DEF Unwound
<1> QED BY <1>1, ScopeInvariant, PTL

(* A close tells the truth about what is below the scope: what is still    *)
(* held, failed or running is on its record, and a close without an error  *)
(* left nothing.                                                           *)
THEOREM ClosesTellTheTruth == ScopeSpec => []CloseIsHonest
<1>1. ScopeInv => HeldIsAccounted
  <2> SUFFICES ASSUME ScopeInv, NEW e \in Effects, res[e] \in {"held", "stuck"},
                      sstate[home[e]] = "closed", e \in Range(pushed[home[e]])
               PROVE  \/ close[home[e]] = "cancelled" /\ e \in effects[home[e]]
                      \/ failures[home[e]] \cap {e, Unwind} # {}
    BY DEF HeldIsAccounted
  <2> USE DEF ScopeInv
  <2> DEFINE s == home[e]
  <2>1. s \in Scopes
    BY DEF Owned
  <2> HIDE DEF s
  <2>2. PICK k \in Places(s) : e = pushed[s][k]
    BY <2>1, StacksTyped DEF Range, Places, s
  <2>3. /\ Len(stack[s]) \in Nat /\ Len(pushed[s]) \in Nat
        /\ close[s] \in {"returned", "raised", "cancelled"}
    <3>1. close[s] \in {"none", "scheduled", "stopping", "unwinding",
                        "returned", "raised", "cancelled"}
      BY <2>1 DEF ScopeTypeOK
    <3> QED BY <2>1, <3>1, StacksTyped DEF Phases, s
  <2>4. CASE close[s] = "cancelled"
    <3>1. k \notin Popped(s)
      BY <2>1, <2>2, <2>3, <2>4 DEF Stacked, Popped, Places
    <3> QED BY <2>1, <2>2, <2>4, <3>1 DEF Owned, s
  <2>5. CASE close[s] \in {"returned", "raised"}
    <3>1. k \in Popped(s)
      BY <2>1, <2>2, <2>3, <2>5 DEF Stacked, Popped, Places
    <3>2. disposing[s] # e
      BY <2>1, <2>5, KindsDiffer DEF ScopeTypeOK
    <3>3. \/ res[e] = "released"
          \/ /\ res[e] = "stuck"
             /\ e \in failures[s] \/ unwindErr[s]
      BY <2>1, <2>2, <3>1, <3>2 DEF Unwound
    <3>4. e \in failures[s] \/ Unwind \in failures[s]
      BY <2>1, <2>5, <3>3 DEF Reported
    <3> QED BY <3>4 DEF s
  <2> QED BY <2>3, <2>4, <2>5
<1>2. ScopeInv => SurvivorsAreStragglers
  <2> SUFFICES ASSUME ScopeInv, NEW s \in Scopes \ interrupted, sstate[s] = "closed"
               PROVE  Running(s) \subseteq stragglers[s]
    BY DEF SurvivorsAreStragglers
  <2>1. close[s] \in {"none", "scheduled", "stopping", "unwinding",
                      "returned", "raised", "cancelled"}
    BY DEF ScopeInv, ScopeTypeOK
  <2> QED BY <2>1 DEF ScopeInv, Phases, Watched
<1>3. ScopeInv => CloseIsHonest
  BY <1>1, <1>2 DEF ScopeInv, CloseIsHonest
<1> QED BY <1>3, ScopeInvariant, PTL
================================================================================
