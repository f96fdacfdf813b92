--------------------------- MODULE ToolExecutorProofs ---------------------------
(***************************************************************************)
(* Budgets hold for every tree of allocations, every limit and every       *)
(* report of usage; and since every step of the concurrent calls moves the *)
(* budgets as one operation of the governors does, or leaves them alone,   *)
(* they hold under the executor, for any number of calls, keys and         *)
(* recordings.                                                             *)
(*                                                                         *)
(* The counts are exact because the history of a call (Phases, CallsTyped) *)
(* says whether its budget was charged for it (ChargesInv): execute()      *)
(* charges once, between the authorization and the start of the tool, and  *)
(* never gives back. A recording is exact because the cursor of a key has  *)
(* passed the records that answered and no other, and a record that a call *)
(* captured was appended when that call came back (SessionInv).            *)
(***************************************************************************)
EXTENDS ToolExecutor, FiniteLemmas, SequenceTheorems

(***************************************************************************)
(* The governors                                                           *)
(*                                                                         *)
(* WithinLimits is inductive with the types alone, because check() asks    *)
(* exactly the allocations that are then charged. AncestorsCover needs the *)
(* shape of the tree: a chain contains the chains of its members           *)
(* (ChainsClosed), so whoever is charged for a run, those above are too,   *)
(* and an allocation starts with nothing used (FreshUnused).               *)
(*                                                                         *)
(* RemainingMeans: what remaining() reports, the least of what the chain   *)
(* leaves, is what check() would grant, no more and no less.               *)
(***************************************************************************)

ChainsClosed ==
    \A g \in Governors : \A a \in chain[g] : a \in chain[a] /\ chain[a] \subseteq chain[g]

FreshUnused == \A g \in Governors : chain[g] = {} => used[g] = Nothing

BudgetInv == /\ BudgetTypeOK /\ ChainsClosed /\ FreshUnused
             /\ WithinLimits /\ AncestorsCover

(* What a charge does to each allocation, for any amounts. *)
LEMMA AddEffect ==
    ASSUME BudgetTypeOK, NEW g \in Governors, NEW amount \in Amounts, Add(g, amount)
    PROVE  /\ used' \in [Governors -> Amounts]
           /\ \A a \in chain[g], d \in Dimensions : used'[a][d] = used[a][d] + amount[d]
           /\ \A a \in Governors \ chain[g] : used'[a] = used[a]
<1>1. chain[g] \subseteq Governors
  BY DEF BudgetTypeOK
<1>2. \A a \in chain[g] : used'[a] = [d \in Dimensions |-> used[a][d] + amount[d]]
  BY <1>1 DEF Add
<1>3. \A a \in Governors \ chain[g] : used'[a] = used[a]
  BY DEF Add
<1>4. \A a \in Governors, d \in Dimensions : used[a][d] \in Nat /\ amount[d] \in Nat
  BY DEF BudgetTypeOK, Amounts
<1>5. \A a \in Governors : used'[a] \in Amounts
  <2>1. ASSUME NEW a \in chain[g] PROVE used'[a] \in Amounts
    <3>1. \A d \in Dimensions : used[a][d] + amount[d] \in Nat
      BY <1>1, <1>4
    <3>2. [d \in Dimensions |-> used[a][d] + amount[d]] \in Amounts
      BY <3>1 DEF Amounts
    <3> QED BY <3>2, <1>2
  <2>2. ASSUME NEW a \in Governors \ chain[g] PROVE used'[a] \in Amounts
    BY <2>2, <1>3 DEF BudgetTypeOK
  <2> QED BY <2>1, <2>2
<1>6. used' \in [Governors -> Amounts]
  <2>1. used' = [a \in Governors |-> used'[a]]
    BY DEF Add
  <2> QED BY <2>1, <1>5
<1>7. \A a \in chain[g], d \in Dimensions : used'[a][d] = used[a][d] + amount[d]
  BY <1>2
<1> QED BY <1>3, <1>6, <1>7

(* A charge that was checked in every dimension it touches, and leaves the *)
(* tree alone, keeps the limits and the cover.                             *)
LEMMA ChargeKeeps ==
    ASSUME BudgetInv, NEW g \in Governors, NEW amount \in Amounts, Add(g, amount),
           \A d \in Dimensions : amount[d] # 0 => Check(g, d, amount[d])
    PROVE  /\ used' \in [Governors -> Amounts]
           /\ WithinLimits'
           /\ \A b \in Governors : \A a \in chain[b], d \in Dimensions :
                  used'[b][d] <= used'[a][d]
           /\ \A b \in Governors : chain[b] = {} => used'[b] = Nothing
<1>1. /\ used' \in [Governors -> Amounts]
      /\ \A a \in chain[g], d \in Dimensions : used'[a][d] = used[a][d] + amount[d]
      /\ \A a \in Governors \ chain[g] : used'[a] = used[a]
  BY AddEffect DEF BudgetInv
<1>2. \A a \in Governors, d \in Dimensions :
          used[a][d] \in Nat /\ used'[a][d] \in Nat /\ amount[d] \in Nat
  BY <1>1 DEF BudgetInv, BudgetTypeOK, Amounts
<1>3. chain \in [Governors -> SUBSET Governors]
  BY DEF BudgetInv, BudgetTypeOK
<1>4. WithinLimits'
  <2> SUFFICES ASSUME NEW a \in Governors, NEW d \in Dimensions, Limit[a][d] # NoLimit
               PROVE  used'[a][d] <= Limit[a][d]
    BY DEF WithinLimits
  <2>1. used[a][d] <= Limit[a][d] /\ Limit[a][d] \in Nat
    BY BudgetAssumption DEF BudgetInv, WithinLimits
  <2>2. CASE a \in chain[g] /\ amount[d] # 0
    BY <2>2, <1>1 DEF Check
  <2>3. CASE a \in chain[g] /\ amount[d] = 0
    BY <2>1, <2>3, <1>1, <1>2
  <2>4. CASE a \notin chain[g]
    BY <2>1, <2>4, <1>1
  <2> QED BY <2>2, <2>3, <2>4
<1>5. ASSUME NEW b \in Governors, NEW a \in chain[b], NEW d \in Dimensions
      PROVE  used'[b][d] <= used'[a][d]
  <2>1. used[b][d] <= used[a][d] /\ a \in Governors
    BY <1>3 DEF BudgetInv, AncestorsCover
  <2>2. CASE b \in chain[g]
    <3>1. a \in chain[g]
      BY <2>2 DEF BudgetInv, ChainsClosed
    <3> QED BY <2>1, <2>2, <3>1, <1>1, <1>2
  <2>3. CASE b \notin chain[g]
    <3>1. used'[a][d] >= used[a][d]
      BY <2>1, <1>1, <1>2
    <3> QED BY <2>1, <2>3, <3>1, <1>1, <1>2
  <2> QED BY <2>2, <2>3
<1>6. ASSUME NEW b \in Governors, chain[b] = {} PROVE used'[b] = Nothing
  <2>1. b \notin chain[g]
    BY <1>6 DEF BudgetInv, ChainsClosed
  <2> QED BY <2>1, <1>6, <1>1 DEF BudgetInv, FreshUnused
<1> QED BY <1>1, <1>4, <1>5, <1>6

LEMMA BudgetInitInv == BudgetInit => BudgetInv
<1> SUFFICES ASSUME BudgetInit PROVE BudgetInv
  OBVIOUS
<1>1. Nothing \in Amounts /\ \A d \in Dimensions : Nothing[d] = 0
  BY DEF Nothing, Amounts
<1>2. BudgetTypeOK
  BY <1>1, BudgetAssumption DEF BudgetInit, BudgetTypeOK
<1>3. ChainsClosed
  BY BudgetAssumption DEF BudgetInit, ChainsClosed
<1>4. FreshUnused
  BY DEF BudgetInit, FreshUnused
<1>5. WithinLimits
  <2>1. \A g \in Governors, d \in Dimensions :
            used[g][d] = 0 /\ (Limit[g][d] # NoLimit => Limit[g][d] \in Nat)
    BY <1>1, BudgetAssumption DEF BudgetInit
  <2> QED BY <2>1 DEF WithinLimits
<1>6. AncestorsCover
  BY <1>1, <1>2 DEF BudgetInit, AncestorsCover, BudgetTypeOK
<1> QED BY <1>2, <1>3, <1>4, <1>5, <1>6 DEF BudgetInv

(* Charges to an existing tree: consume() and record(). *)
LEMMA SteadyStep ==
    ASSUME BudgetInv, NEW g \in Governors, NEW amount \in Amounts, Add(g, amount),
           \A d \in Dimensions : amount[d] # 0 => Check(g, d, amount[d]),
           UNCHANGED <<chain, started, now>>,
           granted' \in Seq([by : Governors, usage : Reports])
    PROVE  BudgetInv'
<1>1. /\ used' \in [Governors -> Amounts]
      /\ WithinLimits'
      /\ \A b \in Governors : \A a \in chain[b], d \in Dimensions :
             used'[b][d] <= used'[a][d]
      /\ \A b \in Governors : chain[b] = {} => used'[b] = Nothing
  BY ChargeKeeps
<1>2. BudgetTypeOK'
  BY <1>1 DEF BudgetInv, BudgetTypeOK
<1>3. ChainsClosed' /\ FreshUnused' /\ AncestorsCover'
  BY <1>1 DEF BudgetInv, ChainsClosed, FreshUnused, AncestorsCover
<1> QED BY <1>1, <1>2, <1>3 DEF BudgetInv

(* One unit of one dimension is an amount, and is what Only says. *)
LEMMA OnlyAmount ==
    ASSUME NEW e \in Dimensions
    PROVE  /\ Only(e, 1) \in Amounts
           /\ \A d \in Dimensions : Only(e, 1)[d] # 0 => d = e /\ Only(e, 1)[d] = 1
  BY DEF Only, Nothing, Amounts

LEMMA ChildStep ==
    ASSUME BudgetInv, NEW h \in Governors \ {Root}, Child(h)
    PROVE  BudgetInv'
<1> DEFINE g == Parent[h]
<1>1. g \in Governors /\ h \in Governors /\ chain[g] # {} /\ chain[h] = {}
  BY BudgetAssumption DEF Child, Exists
<1>2. Add(g, Only("child_runs", 1)) /\ Check(g, "child_runs", 1)
  BY DEF Child, Consume
<1>3. "child_runs" \in Dimensions
  BY DEF Dimensions
<1>4. /\ used' \in [Governors -> Amounts]
      /\ WithinLimits'
      /\ \A b \in Governors : \A a \in chain[b], d \in Dimensions :
             used'[b][d] <= used'[a][d]
      /\ \A b \in Governors : chain[b] = {} => used'[b] = Nothing
  BY <1>1, <1>2, <1>3, OnlyAmount, ChargeKeeps
<1>5. /\ chain \in [Governors -> SUBSET Governors]
      /\ chain' = [chain EXCEPT ![h] = chain[g] \cup {h}]
  BY DEF BudgetInv, BudgetTypeOK, Child
<1>6. /\ chain'[h] = chain[g] \cup {h}
      /\ \A b \in Governors \ {h} : chain'[b] = chain[b]
  BY <1>1, <1>5
<1>7. \A b \in Governors : h \notin chain[b]
  BY <1>1 DEF BudgetInv, ChainsClosed
<1>8. BudgetTypeOK'
  <2>1. started' = [started EXCEPT ![h] = now] /\ UNCHANGED <<now, granted>>
    BY DEF Child
  <2>2. chain' \in [Governors -> SUBSET Governors]
    BY <1>1, <1>5
  <2> QED BY <1>4, <2>1, <2>2 DEF BudgetInv, BudgetTypeOK
<1>9. ChainsClosed'
  <2> SUFFICES ASSUME NEW b \in Governors, NEW a \in chain'[b]
               PROVE  a \in chain'[a] /\ chain'[a] \subseteq chain'[b]
    BY DEF ChainsClosed
  <2>1. CASE a = h
    <3>1. b = h
      BY <2>1, <1>6, <1>7
    <3> QED BY <2>1, <3>1, <1>6
  <2>2. CASE a # h /\ b = h
    <3>1. a \in chain[g] /\ a \in Governors
      BY <2>2, <1>1, <1>5, <1>6
    <3>2. a \in chain[a] /\ chain[a] \subseteq chain[g]
      BY <3>1, <1>1 DEF BudgetInv, ChainsClosed
    <3> QED BY <2>2, <3>1, <3>2, <1>6
  <2>3. CASE a # h /\ b # h
    <3>1. a \in chain[b] /\ a \in Governors
      BY <2>3, <1>5, <1>6
    <3>2. a \in chain[a] /\ chain[a] \subseteq chain[b]
      BY <3>1 DEF BudgetInv, ChainsClosed
    <3> QED BY <2>3, <3>1, <3>2, <1>6
  <2> QED BY <2>1, <2>2, <2>3
<1>10. FreshUnused'
  <2> SUFFICES ASSUME NEW b \in Governors, chain'[b] = {} PROVE used'[b] = Nothing
    BY DEF FreshUnused
  <2>1. b # h
    BY <1>6
  <2> QED BY <2>1, <1>4, <1>6
<1>11. AncestorsCover'
  <2> SUFFICES ASSUME NEW b \in Governors, NEW a \in chain'[b], NEW d \in Dimensions
               PROVE  used'[b][d] <= used'[a][d]
    BY DEF AncestorsCover
  <2>1. CASE b = h
    <3>1. used'[h][d] = 0
      BY <1>1, <1>4 DEF Nothing
    <3>2. a \in Governors
      BY <2>1, <1>1, <1>5, <1>6
    <3>3. used'[a][d] \in Nat
      BY <3>2, <1>4 DEF Amounts
    <3> QED BY <2>1, <3>1, <3>3
  <2>2. CASE b # h
    BY <2>2, <1>4, <1>6
  <2> QED BY <2>1, <2>2
<1> QED BY <1>4, <1>8, <1>9, <1>10, <1>11 DEF BudgetInv

(* The amounts of a report, as a charge adds them. *)
Reading(report) == [d \in Dimensions |-> IF d \in Reported THEN report[d] ELSE 0]

LEMMA ReadingAmount ==
    ASSUME NEW report \in Reports
    PROVE  /\ Reading(report) \in Amounts
           /\ \A d \in Reported : report[d] \in Nat /\ Reading(report)[d] = report[d]
<1>1. report \in [Reported -> Nat] /\ Reported \subseteq Dimensions
  BY BudgetAssumption DEF Dimensions
<1> QED BY <1>1 DEF Amounts, Reading

LEMMA BudgetStutters ==
    ASSUME BudgetInv, UNCHANGED budgetVars
    PROVE  BudgetInv'
BY DEF budgetVars, BudgetInv, BudgetTypeOK, ChainsClosed, FreshUnused, WithinLimits,
       AncestorsCover

LEMMA BudgetStepInv == BudgetInv /\ [BudgetNext]_budgetVars => BudgetInv'
<1> SUFFICES ASSUME BudgetInv, [BudgetNext]_budgetVars PROVE BudgetInv'
  OBVIOUS
<1>1. ASSUME NEW h \in Governors \ {Root}, Child(h) PROVE BudgetInv'
  BY <1>1, ChildStep
<1>2. ASSUME NEW g \in Governors, NEW report \in Reports, RecordUsage(g, report)
      PROVE  BudgetInv'
  <2>1. CASE Fits(g, report) /\ AddReport(g, report) /\ Grant(g, report)
    <3>1. UNCHANGED <<chain, started, now>>
      BY <1>2 DEF RecordUsage
    <3>2. granted' \in Seq([by : Governors, usage : Reports])
      BY <2>1 DEF Grant, BudgetInv, BudgetTypeOK
    <3>3. /\ Reading(report) \in Amounts /\ Add(g, Reading(report))
          /\ \A d \in Dimensions : Reading(report)[d] # 0 => Check(g, d, Reading(report)[d])
      BY <2>1, ReadingAmount DEF AddReport, Fits, Reading
    <3> QED BY <3>1, <3>2, <3>3, SteadyStep
  <2>2. CASE UNCHANGED <<used, granted>>
    <3>1. UNCHANGED budgetVars
      BY <1>2, <2>2 DEF RecordUsage, budgetVars
    <3> QED BY <3>1, BudgetStutters
  <2> QED BY <1>2, <2>1, <2>2 DEF RecordUsage
<1>3. ASSUME NEW g \in Governors, Charge(g, "tool_calls") PROVE BudgetInv'
  <2>1. "tool_calls" \in Dimensions
    BY DEF Dimensions
  <2>2. /\ Add(g, Only("tool_calls", 1)) /\ Check(g, "tool_calls", 1)
        /\ UNCHANGED <<chain, started, now, granted>>
    BY <1>3 DEF Charge, Consume
  <2>3. granted' \in Seq([by : Governors, usage : Reports])
    BY <2>2 DEF BudgetInv, BudgetTypeOK
  <2> QED BY <2>1, <2>2, <2>3, OnlyAmount, SteadyStep
<1>4. CASE Tick
  <2>1. now' = now + 1 /\ now < MaxNow /\ UNCHANGED <<used, chain, started, granted>>
    BY <1>4 DEF Tick
  <2>2. BudgetTypeOK'
    BY <2>1, BudgetAssumption DEF BudgetInv, BudgetTypeOK
  <2> QED BY <2>1, <2>2
          DEF BudgetInv, ChainsClosed, FreshUnused, WithinLimits, AncestorsCover
<1>5. CASE UNCHANGED budgetVars
  BY <1>5, BudgetStutters
<1> QED BY <1>1, <1>2, <1>3, <1>4, <1>5 DEF BudgetNext

LEMMA BudgetInvariant == BudgetSpec => []BudgetInv
  BY BudgetInitInv, BudgetStepInv, PTL DEF BudgetSpec

(* No allocation of any tree ever exceeds a limit it was given: consume(), *)
(* child() and record() check the whole chain before they add to it.       *)
THEOREM LimitsHold == BudgetSpec => []WithinLimits
<1>1. BudgetInv => WithinLimits
  BY DEF BudgetInv
<1> QED BY <1>1, BudgetInvariant, PTL

(* An enclosing allocation always accounts for what the runs inside it     *)
(* have consumed: _record() reaches every level above the one charged.     *)
THEOREM CoverHolds == BudgetSpec => []AncestorsCover
<1>1. BudgetInv => AncestorsCover
  BY DEF BudgetInv
<1> QED BY <1>1, BudgetInvariant, PTL

(***************************************************************************)
(* The reports of usage                                                    *)
(*                                                                         *)
(* An allocation that does not exist yet was granted nothing (Granters),   *)
(* so what a granted report brought is fixed by the chain its allocation   *)
(* was given: the units of a new report are new, and are the report's in   *)
(* every allocation of that chain.                                         *)
(***************************************************************************)

Granters == \A i \in DOMAIN granted : Exists(granted[i].by)

Counted(g, d) == IsFiniteSet(Brought(g, d)) /\ used[g][d] = Cardinality(Brought(g, d))

ReportsInv == Granters /\ \A g \in Governors, d \in Reported : Counted(g, d)

LEMMA ReportsInit == BudgetInit => ReportsInv
<1> SUFFICES ASSUME BudgetInit PROVE ReportsInv
  OBVIOUS
<1>1. Granters
  BY DEF BudgetInit, Granters
<1>2. ASSUME NEW g \in Governors, NEW d \in Reported PROVE Counted(g, d)
  <2>1. used[g][d] = 0
    BY DEF BudgetInit, Nothing, Dimensions
  <2>2. Brought(g, d) = {}
    BY DEF BudgetInit, Brought
  <2> QED BY <2>1, <2>2, FS_EmptySet DEF Counted
<1> QED BY <1>1, <1>2 DEF ReportsInv

(* What a granted report brings. *)
LEMMA GrantBrings ==
    ASSUME BudgetTypeOK, NEW g \in Governors, NEW report \in Reports, Grant(g, report),
           chain' = chain, NEW a \in Governors, NEW d \in Reported
    PROVE  LET units == {Len(granted) + 1} \X (1..report[d])
           IN  /\ a \in chain[g] => Brought(a, d)' = Brought(a, d) \cup units
               /\ a \notin chain[g] => Brought(a, d)' = Brought(a, d)
               /\ Brought(a, d) \cap units = {}
<1> DEFINE n == Len(granted)
           units == {n + 1} \X (1..report[d])
           Of == [i \in DOMAIN granted |-> {i} \X (1..granted[i].usage[d])]
           NewOf == [i \in DOMAIN granted' |-> {i} \X (1..granted'[i].usage[d])]
           For == {i \in DOMAIN granted : a \in chain[granted[i].by]}
           NewFor == {i \in DOMAIN granted' : a \in chain[granted'[i].by]}
<1>1. /\ granted \in Seq([by : Governors, usage : Reports])
      /\ granted' = Append(granted, [by |-> g, usage |-> report])
  BY DEF BudgetTypeOK, Grant
<1>2. /\ n \in Nat /\ DOMAIN granted = 1..n /\ DOMAIN granted' = 1..(n + 1)
      /\ \A i \in 1..n : granted'[i] = granted[i]
      /\ granted'[n + 1] = [by |-> g, usage |-> report]
  BY <1>1
<1>3. /\ \A x : x \in Brought(a, d) <=> \E i \in For : x \in Of[i]
      /\ \A x : x \in Brought(a, d)' <=> \E i \in NewFor : x \in NewOf[i]
  BY DEF Brought
<1>4. /\ For \subseteq 1..n /\ NewFor = For \cup {i \in {n + 1} : a \in chain[g]}
      /\ \A i \in 1..n : NewOf[i] = Of[i]
      /\ NewOf[n + 1] = units
  <2>1. \A i \in 1..n : i \in 1..(n + 1) /\ i # n + 1
    BY <1>2
  <2>2. n + 1 \in 1..(n + 1) /\ \A i \in 1..(n + 1) : i \in 1..n \/ i = n + 1
    BY <1>2
  <2>3. For \subseteq 1..n
    BY <1>2
  <2>4. NewFor = For \cup {i \in {n + 1} : a \in chain[g]}
    BY <1>2, <2>1, <2>2
  <2>5. \A i \in 1..n : NewOf[i] = Of[i]
    BY <1>2, <2>1
  <2>6. NewOf[n + 1] = units
    BY <1>2, <2>2
  <2> QED BY <2>3, <2>4, <2>5, <2>6
<1>5. \A i \in For : Of[i] \cap units = {}
  BY <1>2, <1>4
<1> HIDE DEF For, NewFor, Of, NewOf, units
<1>6. ASSUME a \in chain[g] PROVE Brought(a, d)' = Brought(a, d) \cup units
  <2>1. NewFor = For \cup {n + 1}
    BY <1>4, <1>6
  <2>2. \A x : x \in Brought(a, d)' <=> x \in Brought(a, d) \/ x \in units
    BY <1>3, <1>4, <2>1
  <2> QED BY <2>2
<1>7. ASSUME a \notin chain[g] PROVE Brought(a, d)' = Brought(a, d)
  <2>1. NewFor = For
    BY <1>4, <1>7
  <2>2. \A x : x \in Brought(a, d)' <=> x \in Brought(a, d)
    BY <1>3, <1>4, <2>1
  <2> QED BY <2>2
<1>8. Brought(a, d) \cap units = {}
  BY <1>3, <1>5
<1> QED BY <1>6, <1>7, <1>8 DEF units

(* A granted report is counted at every level of its chain. *)
LEMMA GrantCounts ==
    ASSUME BudgetInv, ReportsInv, NEW g \in Governors, NEW report \in Reports,
           Exists(g), AddReport(g, report), Grant(g, report), chain' = chain
    PROVE  ReportsInv'
<1>1. /\ BudgetTypeOK /\ Reported \subseteq Dimensions
      /\ granted \in Seq([by : Governors, usage : Reports])
  BY DEF BudgetInv, BudgetTypeOK, Dimensions
<1>2. Granters'
  <2>1. granted' = Append(granted, [by |-> g, usage |-> report])
    BY DEF Grant
  <2>2. /\ DOMAIN granted' = 1..(Len(granted) + 1) /\ DOMAIN granted = 1..Len(granted)
        /\ \A i \in 1..Len(granted) : granted'[i] = granted[i]
        /\ granted'[Len(granted) + 1].by = g
    BY <1>1, <2>1
  <2>3. \A h : Exists(h)' <=> Exists(h)
    BY DEF Exists
  <2>4. \A i \in 1..(Len(granted) + 1) : i \in 1..Len(granted) \/ i = Len(granted) + 1
    BY <1>1
  <2> QED BY <2>2, <2>3, <2>4 DEF ReportsInv, Granters
<1>3. /\ Reading(report) \in Amounts /\ Add(g, Reading(report))
      /\ \A d \in Reported : report[d] \in Nat /\ Reading(report)[d] = report[d]
  BY ReadingAmount DEF AddReport, Reading
<1>4. /\ \A a \in chain[g], d \in Dimensions : used'[a][d] = used[a][d] + Reading(report)[d]
      /\ \A a \in Governors \ chain[g] : used'[a] = used[a]
  BY <1>1, <1>3, AddEffect
<1>5. ASSUME NEW a \in Governors, NEW d \in Reported PROVE Counted(a, d)'
  <2> DEFINE units == {Len(granted) + 1} \X (1..report[d])
  <2>1. Counted(a, d)
    BY DEF ReportsInv
  <2>2. /\ a \in chain[g] => Brought(a, d)' = Brought(a, d) \cup units
        /\ a \notin chain[g] => Brought(a, d)' = Brought(a, d)
        /\ Brought(a, d) \cap units = {}
    BY <1>1, GrantBrings
  <2>3. CASE a \in chain[g]
    <3>1. IsFiniteSet(units) /\ Cardinality(units) = report[d]
      <4>1. IsFiniteSet({Len(granted) + 1}) /\ Cardinality({Len(granted) + 1}) = 1
        BY FS_Singleton
      <4>2. IsFiniteSet(1..report[d]) /\ Cardinality(1..report[d]) = report[d]
        <5>1. report[d] \in Nat
          BY <1>3
        <5> QED BY <5>1, FS_Interval
      <4>3. IsFiniteSet(units) /\ Cardinality(units) = 1 * report[d]
        BY <4>1, <4>2, FS_Product
      <4> QED BY <4>3, <1>3
    <3> HIDE DEF units
    <3>2. /\ IsFiniteSet(Brought(a, d) \cup units)
          /\ Cardinality(Brought(a, d) \cup units) = Cardinality(Brought(a, d)) + report[d]
      <4>1. /\ IsFiniteSet(Brought(a, d) \cup units)
            /\ Cardinality(Brought(a, d) \cup units) =
                 Cardinality(Brought(a, d)) + Cardinality(units) - Cardinality({})
        BY <2>1, <2>2, <3>1, FS_Union DEF Counted
      <4>2. Cardinality({}) = 0 /\ Cardinality(Brought(a, d)) \in Nat /\ report[d] \in Nat
        BY <1>3, <2>1, FS_EmptySet, FS_CardinalityType DEF Counted
      <4> QED BY <3>1, <4>1, <4>2
    <3>3. used'[a][d] = used[a][d] + report[d]
      BY <1>1, <1>3, <1>4, <2>3
    <3> QED BY <2>1, <2>2, <2>3, <3>2, <3>3 DEF Counted
  <2>4. CASE a \notin chain[g]
    BY <1>4, <2>1, <2>2, <2>4 DEF Counted
  <2> QED BY <2>3, <2>4
<1> QED BY <1>2, <1>5 DEF ReportsInv

(* Whatever else changes the usage counts no report: a new allocation was  *)
(* granted nothing, and a charge is of another dimension.                  *)
LEMMA OthersCount ==
    ASSUME BudgetInv, ReportsInv, granted' = granted,
           \A i \in DOMAIN granted : chain'[granted[i].by] = chain[granted[i].by],
           \A a \in Governors, d \in Reported : used'[a][d] = used[a][d]
    PROVE  ReportsInv'
<1>1. Granters'
  BY DEF ReportsInv, Granters, Exists
<1>2. ASSUME NEW a \in Governors, NEW d \in Reported PROVE Counted(a, d)'
  <2>1. Brought(a, d)' = Brought(a, d)
    BY DEF Brought
  <2> QED BY <2>1 DEF ReportsInv, Counted
<1> QED BY <1>1, <1>2 DEF ReportsInv

LEMMA UnitsApart ==
    ASSUME BudgetTypeOK, NEW g \in Governors, NEW e \in {"tool_calls", "child_runs"},
           Add(g, Only(e, 1))
    PROVE  \A a \in Governors, d \in Reported : used'[a][d] = used[a][d]
<1>1. /\ e \in Dimensions /\ Reported \subseteq Dimensions
      /\ \A d \in Reported : Only(e, 1)[d] = 0
  BY DEF Dimensions, Reported, Only, Nothing
<1>2. /\ \A a \in chain[g], d \in Dimensions : used'[a][d] = used[a][d] + Only(e, 1)[d]
      /\ \A a \in Governors \ chain[g] : used'[a] = used[a]
  BY <1>1, OnlyAmount, AddEffect
<1>3. \A a \in Governors, d \in Reported : used[a][d] \in Nat
  BY <1>1 DEF BudgetTypeOK, Amounts
<1> QED BY <1>1, <1>2, <1>3

LEMMA ReportsStep == BudgetInv /\ ReportsInv /\ [BudgetNext]_budgetVars => ReportsInv'
<1> SUFFICES ASSUME BudgetInv, ReportsInv, [BudgetNext]_budgetVars PROVE ReportsInv'
  OBVIOUS
<1>0. BudgetTypeOK
  BY DEF BudgetInv
<1>1. ASSUME NEW h \in Governors \ {Root}, Child(h) PROVE ReportsInv'
  <2>1. Parent[h] \in Governors /\ Add(Parent[h], Only("child_runs", 1))
    BY <1>1, BudgetAssumption DEF Child, Consume
  <2>2. /\ granted' = granted /\ ~Exists(h)
        /\ chain' = [chain EXCEPT ![h] = chain[Parent[h]] \cup {h}]
    BY <1>1 DEF Child
  <2>3. \A i \in DOMAIN granted : granted[i].by # h
    BY <2>2 DEF ReportsInv, Granters
  <2>4. \A i \in DOMAIN granted : chain'[granted[i].by] = chain[granted[i].by]
    <3>1. \A i \in DOMAIN granted : granted[i].by \in Governors
      <4>1. granted \in Seq([by : Governors, usage : Reports])
        BY <1>0 DEF BudgetTypeOK
      <4>2. ASSUME NEW i \in DOMAIN granted PROVE granted[i] \in [by : Governors, usage : Reports]
        <5>1. DOMAIN granted = 1..Len(granted)
          BY <4>1
        <5> QED BY <4>1, <5>1, ElementOfSeq
      <4> QED BY <4>2
    <3> QED BY <1>0, <2>2, <2>3, <3>1 DEF BudgetTypeOK
  <2> QED BY <1>0, <2>1, <2>2, <2>4, UnitsApart, OthersCount
<1>2. ASSUME NEW g \in Governors, NEW report \in Reports, RecordUsage(g, report)
      PROVE  ReportsInv'
  <2>1. Exists(g) /\ chain' = chain
    BY <1>2 DEF RecordUsage
  <2>2. CASE Fits(g, report) /\ AddReport(g, report) /\ Grant(g, report)
    BY <2>1, <2>2, GrantCounts
  <2>3. CASE UNCHANGED <<used, granted>>
    BY <2>1, <2>3, OthersCount
  <2> QED BY <1>2, <2>2, <2>3 DEF RecordUsage
<1>3. ASSUME NEW g \in Governors, Charge(g, "tool_calls") PROVE ReportsInv'
  <2>1. Add(g, Only("tool_calls", 1)) /\ UNCHANGED <<chain, granted>>
    BY <1>3 DEF Charge, Consume
  <2> QED BY <1>0, <2>1, UnitsApart, OthersCount
<1>4. CASE Tick \/ UNCHANGED budgetVars
  <2>1. UNCHANGED <<used, chain, granted>>
    BY <1>4 DEF Tick, budgetVars
  <2> QED BY <2>1, OthersCount
<1> QED BY <1>1, <1>2, <1>3, <1>4 DEF BudgetNext

LEMMA ReportsInvariant == BudgetSpec => []ReportsInv
<1>1. BudgetInit => ReportsInv
  BY ReportsInit
<1>2. BudgetInv /\ ReportsInv /\ [BudgetNext]_budgetVars => ReportsInv'
  BY ReportsStep
<1> QED BY <1>1, <1>2, BudgetInvariant, PTL DEF BudgetSpec

(* remaining() answers what check() would: the least allowance of the      *)
(* limited allocations of the chain decides, which is never negative since *)
(* none is above its limit.                                                *)
LEMMA RemainingMeans ==
    ASSUME BudgetTypeOK, WithinLimits,
           NEW g \in Governors, NEW d \in Dimensions, NEW n \in Nat
    PROVE  Check(g, d, n) <=> (Remaining(g, d) = NoLimit \/ n <= Remaining(g, d))
<1> DEFINE limited == {a \in chain[g] : Limit[a][d] # NoLimit}
           Left(a) == Limit[a][d] - used[a][d]
           T == {Left(a) : a \in limited}
<1>1. chain[g] \subseteq Governors
  BY DEF BudgetTypeOK
<1>2. ASSUME NEW a \in limited
      PROVE  /\ Limit[a][d] \in Nat /\ used[a][d] \in Nat /\ Left(a) \in Nat
             /\ n <= Left(a) <=> used[a][d] + n <= Limit[a][d]
  <2>1. a \in Governors /\ Limit[a][d] # NoLimit
    BY <1>1, <1>2
  <2>2. Limit[a][d] \in Nat /\ used[a][d] \in Nat
    BY <2>1, BudgetAssumption DEF BudgetTypeOK, Amounts
  <2>3. used[a][d] <= Limit[a][d]
    BY <2>1 DEF WithinLimits
  <2> QED BY <2>2, <2>3
<1>3. Check(g, d, n) <=> \A a \in limited : n <= Left(a)
  <2>1. Check(g, d, n) <=> \A a \in limited : used[a][d] + n <= Limit[a][d]
    BY DEF Check
  <2> HIDE DEF limited
  <2> QED BY <1>2, <2>1
<1>4. CASE limited = {}
  <2>1. Check(g, d, n)
    BY <1>3, <1>4
  <2>2. Remaining(g, d) = NoLimit
    BY <1>4 DEF Remaining
  <2> QED BY <2>1, <2>2
<1>5. CASE limited # {}
  <2>1. T # {} /\ T \in SUBSET Nat
    <3> HIDE DEF limited, Left
    <3> QED BY <1>2, <1>5
  <2>2. Min(T) \in T /\ \A m \in T : Min(T) <= m
    <3> HIDE DEF T
    <3> QED BY <2>1, LeastMember
  <2>3. PICK least : least = Min(T)
    OBVIOUS
  <2>4. least \in Nat
    <3> HIDE DEF T
    <3> QED BY <2>1, <2>2, <2>3
  <2>5. (\A a \in limited : n <= Left(a)) <=> n <= least
    <3>1. PICK a \in limited : least = Left(a)
      BY <2>2, <2>3
    <3>2. \A b \in limited : least <= Left(b)
      BY <2>2, <2>3
    <3> HIDE DEF limited, Left
    <3> QED BY <1>2, <2>4, <3>1, <3>2
  <2>6. Max({0, least}) = least
    <3>1. {0, least} \in SUBSET Nat /\ IsFiniteSet({0, least}) /\ {0, least} # {}
      <4>1. IsFiniteSet({0} \cup {least})
        BY FS_Singleton, FS_Union
      <4>2. {0} \cup {least} = {0, least}
        OBVIOUS
      <4> QED BY <2>4, <4>1, <4>2
    <3>2. Max({0, least}) \in {0, least} /\ \A m \in {0, least} : m <= Max({0, least})
      BY <3>1, GreatestMember
    <3>3. PICK most : most = Max({0, least})
      OBVIOUS
    <3>4. most \in {0, least} /\ 0 <= most /\ least <= most
      BY <3>2, <3>3
    <3>5. most = least
      BY <2>4, <3>4
    <3> QED BY <3>3, <3>5
  <2>7. Remaining(g, d) = least
    <3>1. Remaining(g, d) = Max({0, Min(T)})
      BY <1>5 DEF Remaining
    <3> QED BY <2>3, <2>6, <3>1
  <2>8. least # NoLimit
    BY <2>4, BudgetAssumption
  <2> HIDE DEF limited, Left, T
  <2> QED BY <1>3, <2>5, <2>7, <2>8
<1> QED BY <1>4, <1>5

(***************************************************************************)
(* The calls                                                               *)
(***************************************************************************)

(* Calls are given budgets of the tree, or none. *)
BudgetsGiven == gov \in [Calls -> Governors \cup {None}]

LEMMA InitGiven == Init => BudgetsGiven
  BY DEF Init, BudgetsGiven

LEMMA StepGiven == BudgetsGiven /\ [Next]_vars => BudgetsGiven'
<1> SUFFICES ASSUME BudgetsGiven, [Next]_vars PROVE BudgetsGiven'
  OBVIOUS
<1>1. ASSUME NEW c \in Calls, NEW g \in BudgetsOf[c], Begin(c, g) PROVE BudgetsGiven'
  <2>1. g \in Governors \cup {None} /\ gov' = [gov EXCEPT ![c] = g]
    BY <1>1, ExecutorAssumption DEF Begin
  <2> QED BY <2>1 DEF BudgetsGiven
<1>2. ASSUME UNCHANGED gov PROVE BudgetsGiven'
  BY <1>2 DEF BudgetsGiven
<1>3. ASSUME NEW c \in Calls, ToolCall(c), ~\E g \in BudgetsOf[c] : Begin(c, g)
      PROVE  UNCHANGED gov
  BY <1>3 DEF ToolCall, BeforeHook, Refuse, OverBudget, OutOfTime, Mismatch, Replayed,
              Invoke, ToolReturns, ToolFails, ErrorHook, AfterHook, HookRaises, Cancel
<1>4. ASSUME NEW c \in Calls, ModelCall(c) PROVE UNCHANGED gov
  BY <1>4 DEF ModelCall, ModelInvoke, ModelReplayed, ModelMismatch, ModelReturns, ModelFails
<1>5. CASE Runs /\ UNCHANGED <<replayVars, callVars>>
  BY <1>5, <1>2 DEF callVars
<1>6. CASE UNCHANGED vars
  BY <1>6, <1>2 DEF vars, callVars
<1> QED BY <1>1, <1>2, <1>3, <1>4, <1>5, <1>6 DEF Next

(* _charge() is one consume() of the call's governor, or nothing. *)
LEMMA ChargedStep ==
    ASSUME BudgetsGiven, NEW c \in Calls, Charged(c)
    PROVE  [BudgetNext]_budgetVars
<1>1. CASE gov[c] = None
  BY <1>1 DEF Charged
<1>2. CASE gov[c] # None
  <2>1. gov[c] \in Governors /\ Charge(gov[c], "tool_calls")
    BY <1>2 DEF Charged, BudgetsGiven
  <2> QED BY <2>1 DEF BudgetNext
<1> QED BY <1>1, <1>2

LEMMA StepBudget == BudgetsGiven /\ [Next]_vars => [BudgetNext]_budgetVars
<1> SUFFICES ASSUME BudgetsGiven, [Next]_vars PROVE [BudgetNext]_budgetVars
  OBVIOUS
<1>1. ASSUME NEW c \in Calls, ToolCall(c) PROVE UNCHANGED budgetVars \/ Charged(c)
  BY <1>1 DEF ToolCall, Begin, BeforeHook, Refuse, OverBudget, OutOfTime, Mismatch,
              Replayed, Invoke, ToolReturns, ToolFails, ErrorHook, AfterHook, HookRaises,
              Cancel
<1>2. ASSUME NEW c \in Calls, ModelCall(c) PROVE UNCHANGED budgetVars
  BY <1>2 DEF ModelCall, ModelInvoke, ModelReplayed, ModelMismatch, ModelReturns, ModelFails
<1>3. CASE Runs
  BY <1>3 DEF Runs, UsageReported, BudgetNext
<1>4. CASE UNCHANGED vars
  BY <1>4 DEF vars
<1> QED BY <1>1, <1>2, <1>3, <1>4, ChargedStep DEF Next

(* The executor uses the budgets only through the governors' operations:   *)
(* what holds of the governors holds under concurrent calls, refusals,     *)
(* cancellations and replays.                                              *)
LEMMA UsesGovernors == Spec => BudgetSpec
<1>1. Init => BudgetInit
  BY DEF Init
<1> QED BY <1>1, InitGiven, StepGiven, StepBudget, PTL DEF Spec, BudgetSpec

(* Under any interleaving of calls no allocation exceeds a limit: the      *)
(* check and the charge of execute() have no await between them.           *)
THEOREM CallsWithinLimits == Spec => []WithinLimits
  BY UsesGovernors, LimitsHold, PTL

(* In every tree of allocations, for every report and under any calls, a   *)
(* report of usage counts whole at every level of its chain or, when any   *)
(* level refuses any of its amounts, at none: record() checks them all     *)
(* before it adds the first.                                               *)
THEOREM ReportsAreExact == Spec => []ReportsExact
<1>1. ReportsInv => ReportsExact
  BY DEF ReportsInv, Counted, ReportsExact
<1> QED BY <1>1, UsesGovernors, ReportsInvariant, PTL

(***************************************************************************)
(* What a step of a call does to the call, to the budgets and to the       *)
(* session. The other calls it leaves alone.                               *)
(***************************************************************************)

CallsTyped ==
    /\ pc \in [Calls -> {"idle", "before", "authorizing", "invoking", "erring", "after",
                         "model", "done"}]
    /\ gov \in [Calls -> Governors \cup {None}]
    /\ key \in [Calls -> Keys \cup {None}]
    /\ hit \in [Calls -> Nat]
    /\ outcome \in [Calls -> {None, "refused", "over budget", "out of time", "mismatch",
                              "raised", "returned", "lost", "withdrawn", "cancelled"}]

(* How far a call has come, and what it can hold there. *)
Phase(c) ==
    /\ pc[c] \in {"authorizing", "invoking", "erring", "after", "model"} => key[c] \in Keys
    /\ (pc[c] = "done") <=> (outcome[c] # None)
    /\ pc[c] \in {"idle", "model"} => gov[c] = None
    /\ pc[c] \in {"idle", "before", "authorizing", "invoking", "model"} => hit[c] = 0

Phases == \A c \in Calls : Phase(c)

(* A call whose tool or model is at work, or has failed and may be         *)
(* recorded; and one that came back with a result.                         *)
Working(c) == pc[c] \in {"invoking", "model"} \/ (pc[c] = "erring" /\ hit[c] = 0)
CameBack(c) == hit[c] = 0 /\ (pc[c] = "after" \/ outcome[c] \in {"returned", "lost"})

Payer(c) == gov[c] # None /\ Paid(c)

OthersStay(c) ==
    \A d \in Calls \ {c} : /\ pc'[d] = pc[d] /\ gov'[d] = gov[d] /\ key'[d] = key[d]
                           /\ hit'[d] = hit[d] /\ outcome'[d] = outcome[d]

(* A call pays when it is charged, and only then. *)
BudgetMove(c) ==
    \/ /\ UNCHANGED budgetVars
       /\ Payer(c)' <=> Payer(c)
       /\ gov'[c] # gov[c] => ~Payer(c) /\ (gov'[c] # None => Exists(gov'[c]))
    \/ Charged(c) /\ gov'[c] = gov[c] /\ ~Payer(c) /\ (gov[c] # None => Payer(c)')

(* The session is left alone; a call works only if nothing is left to      *)
(* answer it.                                                              *)
Apart(c) ==
    /\ UNCHANGED replayVars
    /\ hit'[c] = hit[c]
    /\ hit[c] # 0 => key'[c] = key[c]
    /\ Working(c)' => (Working(c) /\ key'[c] = key[c]) \/ RunsLive(key'[c])
    /\ CameBack(c)' <=> CameBack(c)

(* A record answers the call. *)
Answered(c) ==
    \E k \in Keys :
        /\ mode = "replay" /\ Take(k)
        /\ hit[c] = 0 /\ hit'[c] = NextRecord(k) /\ key'[c] = k
        /\ pc'[c] \in {"after", "erring", "done"} /\ ~CameBack(c)

(* The result of the call is recorded. *)
Captured(c) ==
    /\ key[c] \in Keys /\ key'[c] = key[c] /\ hit[c] = 0 /\ hit'[c] = 0
    /\ \E r \in Results : Capture(c, key[c], r)
    /\ Working(c) /\ ~Working(c)' /\ ~CameBack(c) /\ CameBack(c)'

Effects(c) ==
    /\ CallsTyped' /\ OthersStay(c) /\ Phase(c)'
    /\ BudgetMove(c)
    /\ Apart(c) \/ Answered(c) \/ Captured(c)

CallInv == CallsTyped /\ Phases /\ (\A k \in Keys : HasRemaining(k) => NextRecord(k) \in Nat \ {0})

LEMMA GateEffects ==
    ASSUME CallInv, NEW c \in Calls,
           \/ \E g \in BudgetsOf[c] : Begin(c, g)
           \/ \E k \in Keys \ ModelKeys : BeforeHook(c, k)
           \/ Refuse(c) \/ OverBudget(c)
    PROVE  Effects(c)
<1>1. ASSUME NEW g \in BudgetsOf[c], Begin(c, g) PROVE Effects(c)
  <2>1. g \in Governors \cup {None}
    BY ExecutorAssumption
  <2>2. /\ pc[c] = "idle" /\ (g # None => Exists(g))
        /\ pc' = [pc EXCEPT ![c] = "before"] /\ gov' = [gov EXCEPT ![c] = g]
        /\ UNCHANGED <<budgetVars, replayVars, key, hit, outcome>>
    BY <1>1 DEF Begin, Goto
  <2>3. CallsTyped' /\ OthersStay(c) /\ Phase(c)'
    BY <2>1, <2>2 DEF CallInv, CallsTyped, OthersStay, Phases, Phase
  <2>4. BudgetMove(c) /\ Apart(c)
    BY <2>1, <2>2 DEF CallInv, CallsTyped, Phases, Phase, BudgetMove, Payer, Paid, Apart,
                      Working, CameBack, None
  <2> QED BY <2>3, <2>4 DEF Effects
<1>2. ASSUME NEW k \in Keys \ ModelKeys, BeforeHook(c, k) PROVE Effects(c)
  <2>2. /\ pc[c] = "before"
        /\ pc' = [pc EXCEPT ![c] = "authorizing"] /\ key' = [key EXCEPT ![c] = k]
        /\ UNCHANGED <<budgetVars, replayVars, gov, hit, outcome>>
    BY <1>2 DEF BeforeHook, Goto
  <2>3. CallsTyped' /\ OthersStay(c) /\ Phase(c)'
    BY <2>2 DEF CallInv, CallsTyped, OthersStay, Phases, Phase
  <2>4. BudgetMove(c) /\ Apart(c)
    BY <2>2 DEF CallInv, CallsTyped, Phases, Phase, BudgetMove, Payer, Paid, Apart,
                      Working, CameBack, None
  <2> QED BY <2>3, <2>4 DEF Effects
<1>3. ASSUME Refuse(c) \/ OverBudget(c) PROVE Effects(c)
  <2>1. PICK how \in {"refused", "over budget"} :
           /\ pc[c] \in {"before", "authorizing"}
           /\ pc' = [pc EXCEPT ![c] = "done"] /\ outcome' = [outcome EXCEPT ![c] = how]
           /\ UNCHANGED <<budgetVars, replayVars, gov, key, hit>>
    BY <1>3 DEF Refuse, OverBudget, Authorized, Gates, End
  <2>3. CallsTyped' /\ OthersStay(c) /\ Phase(c)'
    BY <2>1 DEF CallInv, CallsTyped, OthersStay, Phases, Phase, None
  <2>4. BudgetMove(c) /\ Apart(c)
    BY <2>1 DEF CallInv, CallsTyped, Phases, Phase, BudgetMove, Payer, Paid, Apart,
                      Working, CameBack, None
  <2> QED BY <2>3, <2>4 DEF Effects
<1> QED BY <1>1, <1>2, <1>3

LEMMA ChargingEffects ==
    ASSUME CallInv, NEW c \in Calls,
           OutOfTime(c) \/ Mismatch(c) \/ Replayed(c) \/ Invoke(c)
    PROVE  Effects(c)
<1>1. pc[c] = "authorizing" /\ key[c] \in Keys /\ hit[c] = 0 /\ outcome[c] = None /\ Charged(c)
  BY DEF OutOfTime, Mismatch, Replayed, Invoke, Authorized, CallInv, Phases, Phase
<1>2. ~Payer(c) /\ ~CameBack(c)
  BY <1>1 DEF Payer, Paid, CameBack, None
<1>3. CASE OutOfTime(c) \/ Mismatch(c)
  <2>1. PICK how \in {"out of time", "mismatch"} :
           /\ pc' = [pc EXCEPT ![c] = "done"] /\ outcome' = [outcome EXCEPT ![c] = how]
           /\ UNCHANGED <<replayVars, gov, key, hit>>
    BY <1>3 DEF OutOfTime, Mismatch, End
  <2>2. CallsTyped' /\ OthersStay(c) /\ Phase(c)'
    BY <2>1 DEF CallInv, CallsTyped, OthersStay, Phases, Phase, None
  <2>3. BudgetMove(c)
    BY <1>1, <1>2, <2>1 DEF CallInv, CallsTyped, BudgetMove, Payer, Paid
  <2>4. Apart(c)
    BY <1>1, <2>1 DEF CallInv, CallsTyped, Apart, Working, CameBack, None
  <2> QED BY <2>2, <2>3, <2>4 DEF Effects
<1>4. CASE Replayed(c)
  <2>1. PICK where \in {"after", "erring"} :
           /\ pc' = [pc EXCEPT ![c] = where] /\ UNCHANGED <<gov, key, outcome>>
           /\ hit' = [hit EXCEPT ![c] = NextRecord(key[c])]
           /\ mode = "replay" /\ Take(key[c])
    BY <1>4 DEF Replayed, Goto
  <2>2. NextRecord(key[c]) \in Nat
    BY <1>1, <2>1 DEF CallInv, Take
  <2>3. CallsTyped' /\ OthersStay(c) /\ Phase(c)'
    BY <1>1, <2>1, <2>2 DEF CallInv, CallsTyped, OthersStay, Phases, Phase
  <2>4. BudgetMove(c)
    BY <1>1, <1>2, <2>1 DEF CallInv, CallsTyped, BudgetMove, Payer, Paid
  <2>5. Answered(c)
    BY <1>1, <1>2, <2>1 DEF CallInv, CallsTyped, Answered
  <2> QED BY <2>3, <2>4, <2>5 DEF Effects
<1>5. CASE Invoke(c)
  <2>1. /\ pc' = [pc EXCEPT ![c] = "invoking"] /\ RunsLive(key[c])
        /\ UNCHANGED <<replayVars, gov, key, hit, outcome>>
    BY <1>5 DEF Invoke, Goto
  <2>2. CallsTyped' /\ OthersStay(c) /\ Phase(c)'
    BY <1>1, <2>1 DEF CallInv, CallsTyped, OthersStay, Phases, Phase
  <2>3. BudgetMove(c)
    BY <1>1, <1>2, <2>1 DEF CallInv, CallsTyped, BudgetMove, Payer, Paid
  <2>4. RunsLive(key'[c])
    BY <2>1
  <2>5. Apart(c)
    BY <1>1, <1>2, <2>1, <2>4 DEF CallInv, CallsTyped, Apart, CameBack
  <2> QED BY <2>2, <2>3, <2>5 DEF Effects
<1> QED BY <1>3, <1>4, <1>5

LEMMA AnswerEffects ==
    ASSUME CallInv, NEW c \in Calls,
           \/ ToolReturns(c) \/ ToolFails(c)
           \/ \E raising \in BOOLEAN : ErrorHook(c, raising)
           \/ AfterHook(c) \/ HookRaises(c) \/ Cancel(c)
    PROVE  Effects(c)
<1>1. CASE ToolReturns(c)
  <2>1. /\ pc[c] = "invoking" /\ key[c] \in Keys /\ hit[c] = 0 /\ outcome[c] = None
        /\ pc' = [pc EXCEPT ![c] = "after"] /\ Capture(c, key[c], "ok")
        /\ UNCHANGED <<budgetVars, gov, key, hit, outcome>>
    BY <1>1 DEF ToolReturns, Goto, CallInv, Phases, Phase
  <2>2. CallsTyped' /\ OthersStay(c) /\ Phase(c)'
    BY <2>1 DEF CallInv, CallsTyped, OthersStay, Phases, Phase
  <2>3. BudgetMove(c)
    BY <2>1 DEF CallInv, CallsTyped, BudgetMove, Payer, Paid
  <2>4. Captured(c)
    BY <2>1 DEF CallInv, CallsTyped, Captured, Working, CameBack, Results, None
  <2> QED BY <2>2, <2>3, <2>4 DEF Effects
<1>2. CASE ToolFails(c)
  <2>1. /\ pc[c] = "invoking" /\ key[c] \in Keys /\ hit[c] = 0 /\ outcome[c] = None
        /\ pc' = [pc EXCEPT ![c] = "erring"]
        /\ UNCHANGED <<budgetVars, replayVars, gov, key, hit, outcome>>
    BY <1>2 DEF ToolFails, Goto, CallInv, Phases, Phase
  <2>2. CallsTyped' /\ OthersStay(c) /\ Phase(c)'
    BY <2>1 DEF CallInv, CallsTyped, OthersStay, Phases, Phase
  <2>3. BudgetMove(c)
    BY <2>1 DEF CallInv, CallsTyped, BudgetMove, Payer, Paid
  <2>4. Apart(c)
    BY <2>1 DEF CallInv, CallsTyped, Apart, Working, CameBack
  <2> QED BY <2>2, <2>3, <2>4 DEF Effects
<1>3. ASSUME NEW raising \in BOOLEAN, ErrorHook(c, raising) PROVE Effects(c)
  <2>1. PICK how \in {"raised", "returned"} :
           /\ pc[c] = "erring" /\ key[c] \in Keys /\ outcome[c] = None
           /\ pc' = [pc EXCEPT ![c] = "done"] /\ outcome' = [outcome EXCEPT ![c] = how]
           /\ how = (IF raising THEN "raised" ELSE "returned")
           /\ UNCHANGED <<budgetVars, gov, key, hit>>
    BY <1>3 DEF ErrorHook, End, CallInv, Phases, Phase
  <2>2. CallsTyped' /\ OthersStay(c) /\ Phase(c)'
    BY <2>1 DEF CallInv, CallsTyped, OthersStay, Phases, Phase, None
  <2>3. BudgetMove(c)
    BY <2>1 DEF CallInv, CallsTyped, BudgetMove, Payer, Paid
  <2>4. CASE raising \/ hit[c] # 0
    <3>1. UNCHANGED replayVars
      BY <1>3, <2>4 DEF ErrorHook
    <3>2. Apart(c)
      BY <2>1, <2>4, <3>1 DEF CallInv, CallsTyped, Apart, Working, CameBack, None
    <3> QED BY <2>2, <2>3, <3>2 DEF Effects
  <2>5. CASE ~raising /\ hit[c] = 0
    <3>1. Capture(c, key[c], "failed") /\ how = "returned"
      BY <1>3, <2>1, <2>5 DEF ErrorHook
    <3>2. Captured(c)
      BY <2>1, <2>5, <3>1 DEF CallInv, CallsTyped, Captured, Working, CameBack, Results, None
    <3> QED BY <2>2, <2>3, <3>2 DEF Effects
  <2> QED BY <2>4, <2>5
<1>4. CASE AfterHook(c) \/ HookRaises(c) \/ Cancel(c)
  <2>1. PICK how \in {"raised", "returned", "lost", "withdrawn", "cancelled"} :
           /\ pc[c] \notin {"idle", "done"} /\ outcome[c] = None
           /\ pc' = [pc EXCEPT ![c] = "done"] /\ outcome' = [outcome EXCEPT ![c] = how]
           /\ UNCHANGED <<budgetVars, replayVars, gov, key, hit>>
           /\ how \in {"returned", "lost"} <=> pc[c] = "after"
           /\ how = "withdrawn" <=> pc[c] \in {"before", "authorizing"}
    <3>1. CASE AfterHook(c)
      BY <3>1 DEF AfterHook, End, CallInv, Phases, Phase
    <3>2. CASE HookRaises(c)
      BY <3>2 DEF HookRaises, End, CallInv, Phases, Phase
    <3>3. CASE Cancel(c)
      BY <3>3 DEF Cancel, End, Gates, CallInv, Phases, Phase
    <3> QED BY <1>4, <3>1, <3>2, <3>3
  <2>2. CallsTyped' /\ OthersStay(c) /\ Phase(c)'
    BY <2>1 DEF CallInv, CallsTyped, OthersStay, Phases, Phase, None
  <2>3. pc[c] \in {"invoking", "erring", "after"} <=> (pc[c] # "model" /\ how # "withdrawn")
    BY <2>1 DEF CallInv, CallsTyped
  <2>4. BudgetMove(c)
    BY <2>1, <2>3 DEF CallInv, CallsTyped, BudgetMove, Payer, Paid, Phases, Phase, None
  <2>5. Apart(c)
    BY <2>1 DEF CallInv, CallsTyped, Apart, Working, CameBack, None
  <2> QED BY <2>2, <2>4, <2>5 DEF Effects
<1> QED BY <1>1, <1>2, <1>3, <1>4

LEMMA ModelEffects ==
    ASSUME CallInv, NEW c \in Calls, ModelCall(c)
    PROVE  Effects(c)
<1>1. ASSUME NEW k \in ModelKeys, ModelInvoke(c, k) \/ ModelReplayed(c, k) \/ ModelMismatch(c, k)
      PROVE  Effects(c)
  <2>1. /\ pc[c] = "idle" /\ gov[c] = None /\ hit[c] = 0 /\ outcome[c] = None /\ k \in Keys
        /\ key' = [key EXCEPT ![c] = k]
        /\ UNCHANGED <<budgetVars, gov>>
    BY <1>1, ReplayAssumption
       DEF ModelInvoke, ModelReplayed, ModelMismatch, ModelCalled, CallInv, Phases, Phase
  <2>2. BudgetMove(c)
    BY <2>1 DEF CallInv, CallsTyped, BudgetMove, Payer
  <2>3. CASE ModelInvoke(c, k)
    <3>1. /\ pc' = [pc EXCEPT ![c] = "model"] /\ RunsLive(k)
          /\ UNCHANGED <<replayVars, hit, outcome>>
      BY <2>3 DEF ModelInvoke, Goto
    <3>2. CallsTyped' /\ OthersStay(c) /\ Phase(c)'
      BY <2>1, <3>1 DEF CallInv, CallsTyped, OthersStay, Phases, Phase
    <3>3. RunsLive(key'[c])
      BY <2>1, <3>1 DEF CallInv, CallsTyped
    <3>4. Apart(c)
      BY <2>1, <3>1, <3>3 DEF CallInv, CallsTyped, Apart, CameBack
    <3> QED BY <2>2, <3>2, <3>4 DEF Effects
  <2>4. CASE ModelReplayed(c, k)
    <3>1. /\ pc' = [pc EXCEPT ![c] = "done"] /\ outcome' = [outcome EXCEPT ![c] = "returned"]
          /\ hit' = [hit EXCEPT ![c] = NextRecord(k)] /\ mode = "replay" /\ Take(k)
      BY <2>4 DEF ModelReplayed, End
    <3>2. NextRecord(k) \in Nat
      BY <2>1, <3>1 DEF CallInv, Take
    <3>3. CallsTyped' /\ OthersStay(c) /\ Phase(c)'
      BY <2>1, <3>1, <3>2 DEF CallInv, CallsTyped, OthersStay, Phases, Phase, None
    <3>4. Answered(c)
      BY <2>1, <3>1 DEF CallInv, CallsTyped, Answered, CameBack, None
    <3> QED BY <2>2, <3>3, <3>4 DEF Effects
  <2>5. CASE ModelMismatch(c, k)
    <3>1. /\ pc' = [pc EXCEPT ![c] = "done"] /\ outcome' = [outcome EXCEPT ![c] = "mismatch"]
          /\ UNCHANGED <<replayVars, hit>>
      BY <2>5 DEF ModelMismatch, End
    <3>2. CallsTyped' /\ OthersStay(c) /\ Phase(c)'
      BY <2>1, <3>1 DEF CallInv, CallsTyped, OthersStay, Phases, Phase, None
    <3>3. Apart(c)
      BY <2>1, <3>1 DEF CallInv, CallsTyped, Apart, Working, CameBack, None
    <3> QED BY <2>2, <3>2, <3>3 DEF Effects
  <2> QED BY <1>1, <2>3, <2>4, <2>5
<1>2. CASE ModelReturns(c) \/ ModelFails(c)
  <2>1. PICK how \in {"returned", "raised"} :
           /\ pc[c] = "model" /\ gov[c] = None /\ key[c] \in Keys /\ hit[c] = 0
           /\ outcome[c] = None
           /\ pc' = [pc EXCEPT ![c] = "done"] /\ outcome' = [outcome EXCEPT ![c] = how]
           /\ UNCHANGED <<budgetVars, gov, key, hit>>
           /\ how = "returned" => Capture(c, key[c], "ok")
           /\ how = "raised" => UNCHANGED replayVars
    BY <1>2 DEF ModelReturns, ModelFails, End, CallInv, Phases, Phase
  <2>2. CallsTyped' /\ OthersStay(c) /\ Phase(c)'
    BY <2>1 DEF CallInv, CallsTyped, OthersStay, Phases, Phase, None
  <2>3. BudgetMove(c)
    BY <2>1 DEF CallInv, CallsTyped, BudgetMove, Payer
  <2>4. CASE how = "returned"
    <3>1. Captured(c)
      BY <2>1, <2>4 DEF CallInv, CallsTyped, Captured, Working, CameBack, Results, None
    <3> QED BY <2>2, <2>3, <3>1 DEF Effects
  <2>5. CASE how = "raised"
    <3>1. Apart(c)
      BY <2>1, <2>5 DEF CallInv, CallsTyped, Apart, Working, CameBack, None
    <3> QED BY <2>2, <2>3, <3>1 DEF Effects
  <2> QED BY <2>4, <2>5
<1> QED BY <1>1, <1>2 DEF ModelCall

LEMMA CallEffects ==
    ASSUME CallInv, NEW c \in Calls, ToolCall(c) \/ ModelCall(c)
    PROVE  Effects(c)
<1>1. CASE ToolCall(c)
  BY <1>1, GateEffects, ChargingEffects, AnswerEffects DEF ToolCall
<1> QED BY <1>1, ModelEffects

(***************************************************************************)
(* The session: a cursor counts the loaded records of a key that were      *)
(* handed out, or is past all of them once a result was captured.          *)
(***************************************************************************)

Records == [key : Keys, result : Results, by : Calls \cup {Loaded}]

SessionTyped ==
    cursor \in [Keys -> Nat] /\ records \in Seq(Records) /\ loaded \in 0..Len(records)

Callers(k) == {c \in Calls : key[c] = k /\ hit[c] # 0}
Served(k) == {i \in Matches(k) : i <= loaded /\ Rank(k, i) < cursor[k]}

Answers(k) ==
    /\ cursor[k] <= Cardinality(Matches(k))
    /\ (\E i \in Matches(k) : loaded < i) => cursor[k] = Cardinality(Matches(k))
    /\ {hit[c] : c \in Callers(k)} = Served(k)
    /\ \A c, d \in Callers(k) : hit[c] = hit[d] => c = d
    /\ \A c \in Calls : key[c] = k /\ Working(c) => ~HasRemaining(k) /\ fallback = "live"

Recording == mode = "record" \/ (mode = "replay" /\ fallback = "live")
MadeBy(c) == {i \in DOMAIN records : records[i].by = c}
Recorded(c) == IF Recording /\ CameBack(c) THEN \E i : MadeBy(c) = {i} ELSE MadeBy(c) = {}

SessionInv ==
    /\ SessionTyped
    /\ mode = "replay" => \A k \in Keys : Answers(k)
    /\ \A c \in Calls : Recorded(c)

LEMMA MatchesFinite ==
    ASSUME SessionTyped, NEW k \in Keys
    PROVE  /\ Matches(k) \in SUBSET Nat /\ IsFiniteSet(Matches(k))
           /\ Cardinality(Matches(k)) \in Nat
           /\ \A i \in Matches(k) : i \in 1 .. Len(records)
<1>1. Len(records) \in Nat
  BY LenProperties DEF SessionTyped
<1>2. IsFiniteSet(1 .. Len(records))
  BY <1>1, FS_Interval
<1>3. Matches(k) \in SUBSET (1 .. Len(records))
  BY DEF Matches
<1> QED BY <1>1, <1>2, <1>3, FS_Subset, FS_CardinalityType

(* Ranks number the records of a key from 0, in their order. *)
LEMMA Ranks ==
    ASSUME SessionTyped, NEW k \in Keys
    PROVE  /\ \A i \in Matches(k) : Rank(k, i) \in 0 .. (Cardinality(Matches(k)) - 1)
           /\ \A i, j \in Matches(k) : Rank(k, i) = Rank(k, j) => i = j
<1>1. ASSUME NEW i \in Matches(k)
      PROVE  /\ Rank(k, i) \in 0 .. (Cardinality(Matches(k)) - 1)
             /\ \A j \in Matches(k) : j < i => Rank(k, j) < Rank(k, i)
  BY MatchesFinite, NumberRanks DEF Rank
<1>2. ASSUME NEW i \in Matches(k), NEW j \in Matches(k), Rank(k, i) = Rank(k, j) PROVE i = j
  <2>1. i \in Nat /\ j \in Nat /\ Cardinality(Matches(k)) \in Nat
    BY MatchesFinite
  <2>2. ~(i < j) /\ ~(j < i)
    BY <1>1, <1>2, <2>1
  <2> QED BY <2>1, <2>2
<1> QED BY <1>1, <1>2

LEMMA NextRecordMatches ==
    ASSUME SessionTyped, NEW k \in Keys, HasRemaining(k)
    PROVE  NextRecord(k) \in Matches(k) /\ Rank(k, NextRecord(k)) = cursor[k]
<1>1. cursor[k] \in Nat /\ cursor[k] < Cardinality(Matches(k))
  BY DEF SessionTyped, HasRemaining
<1>2. \E i \in Matches(k) : Rank(k, i) = cursor[k]
  <2>1. cursor[k] \in 0 .. (Cardinality(Matches(k)) - 1)
    BY <1>1, MatchesFinite
  <2> QED BY <2>1, MatchesFinite, NumberRanks DEF Rank
<1> QED BY <1>2 DEF NextRecord

LEMMA SessionCalls ==
    ASSUME SessionInv, CallsTyped, Phases
    PROVE  CallInv
<1>1. ASSUME NEW k \in Keys, HasRemaining(k) PROVE NextRecord(k) \in Nat \ {0}
  BY <1>1, NextRecordMatches, MatchesFinite DEF SessionInv
<1> QED BY <1>1 DEF CallInv

(* A step that leaves the session alone keeps it, whoever it is of. *)
LEMMA ApartKeeps ==
    ASSUME SessionInv, CallsTyped, NEW c \in Calls, OthersStay(c), Apart(c)
    PROVE  SessionInv'
<1>1. /\ UNCHANGED <<mode, fallback, records, cursor, loaded>>
      /\ \A d \in Calls : hit'[d] = hit[d] /\ (hit[d] # 0 => key'[d] = key[d])
      /\ \A d \in Calls : CameBack(d)' <=> CameBack(d)
      /\ \A d \in Calls : Working(d)' => (Working(d) /\ key'[d] = key[d]) \/ RunsLive(key'[d])
  <2>1. \A d \in Calls \ {c} : /\ CameBack(d)' <=> CameBack(d)
                               /\ Working(d)' <=> Working(d)
    BY DEF OthersStay, CameBack, Working
  <2> QED BY <2>1 DEF OthersStay, Apart, replayVars
<1>2. SessionTyped'
  BY <1>1 DEF SessionInv, SessionTyped
<1>3. ASSUME mode' = "replay", NEW k \in Keys PROVE Answers(k)'
  <2>1. Answers(k) /\ mode = "replay"
    BY <1>1, <1>3 DEF SessionInv
  <2>2. /\ Matches(k)' = Matches(k) /\ cursor'[k] = cursor[k]
        /\ Served(k)' = Served(k) /\ (HasRemaining(k)' <=> HasRemaining(k))
    BY <1>1 DEF Matches, Served, Rank, HasRemaining
  <2>3. Callers(k)' = Callers(k)
    BY <1>1 DEF Callers
  <2>4. \A d \in Callers(k) : hit'[d] = hit[d]
    BY <1>1 DEF Callers
  <2>5. ASSUME NEW d \in Calls, key'[d] = k, Working(d)'
        PROVE  ~HasRemaining(k)' /\ fallback' = "live"
    <3>1. (Working(d) /\ key[d] = k) \/ RunsLive(k)
      BY <1>1, <2>5
    <3>2. ~HasRemaining(k) /\ fallback = "live"
      BY <2>1, <3>1 DEF Answers, RunsLive
    <3> QED BY <1>1, <2>2, <3>2
  <2>6. {hit'[d] : d \in Callers(k)'} = {hit[d] : d \in Callers(k)}
    BY <2>3, <2>4
  <2> QED BY <1>1, <2>1, <2>2, <2>3, <2>4, <2>5, <2>6 DEF Answers
<1>4. ASSUME NEW d \in Calls PROVE Recorded(d)'
  <2>1. Recorded(d)
    BY DEF SessionInv
  <2> QED BY <1>1, <2>1 DEF Recorded, Recording, MadeBy
<1> QED BY <1>2, <1>3, <1>4 DEF SessionInv

(* A record that answers a call is one that answered none before: it is    *)
(* the one whose rank the cursor points at.                                *)
LEMMA AnsweredKeeps ==
    ASSUME SessionInv, CallsTyped, NEW c \in Calls, OthersStay(c), Answered(c), Phase(c)'
    PROVE  SessionInv'
<1>1. PICK K \in Keys :
         /\ mode = "replay" /\ Take(K)
         /\ hit[c] = 0 /\ hit'[c] = NextRecord(K) /\ key'[c] = K
         /\ pc'[c] \in {"after", "erring", "done"} /\ ~CameBack(c)
  BY DEF Answered
<1>2. /\ HasRemaining(K) /\ cursor' = [cursor EXCEPT ![K] = @ + 1]
      /\ UNCHANGED <<mode, fallback, records, loaded>>
  BY <1>1 DEF Take
<1>3. SessionTyped
  BY DEF SessionInv
<1>4. PICK n : n = NextRecord(K)
  OBVIOUS
<1>5. n \in Matches(K) /\ Rank(K, n) = cursor[K] /\ n \in Nat /\ n # 0
  BY <1>2, <1>3, <1>4, NextRecordMatches, MatchesFinite
<1>6. /\ cursor[K] \in Nat /\ cursor'[K] = cursor[K] + 1
      /\ \A k \in Keys \ {K} : cursor'[k] = cursor[k]
  BY <1>2, <1>3 DEF SessionTyped
<1>7. SessionTyped'
  BY <1>2, <1>3 DEF SessionTyped
<1>8. \A k \in Keys : Matches(k)' = Matches(k) /\ \A i : Rank(k, i)' = Rank(k, i)
  BY <1>2 DEF Matches, Rank
<1>9. ~Working(c)' /\ ~CameBack(c)' /\ hit'[c] = n /\ n # 0
  BY <1>1, <1>4, <1>5 DEF Working, CameBack
<1>10. \A d \in Calls \ {c} : /\ CameBack(d)' <=> CameBack(d)
                              /\ Working(d)' <=> Working(d)
                              /\ key'[d] = key[d] /\ hit'[d] = hit[d]
  BY DEF OthersStay, CameBack, Working
<1>11. ASSUME NEW k \in Keys, k # K PROVE Answers(k)'
  <2>1. Answers(k)
    BY <1>1 DEF SessionInv
  <2>2. cursor'[k] = cursor[k] /\ Matches(k)' = Matches(k)
    BY <1>6, <1>8, <1>11
  <2>3. Served(k)' = Served(k) /\ (HasRemaining(k)' <=> HasRemaining(k))
    BY <1>2, <1>8, <2>2 DEF Served, HasRemaining
  <2>4. Callers(k)' = Callers(k)
    BY <1>1, <1>10, <1>11 DEF Callers
  <2>5. \A d \in Callers(k) : hit'[d] = hit[d]
    BY <1>1, <1>10 DEF Callers
  <2>6. {hit'[d] : d \in Callers(k)'} = {hit[d] : d \in Callers(k)}
    BY <2>4, <2>5
  <2>7. \A d \in Calls : key'[d] = k /\ Working(d)' => key[d] = k /\ Working(d)
    BY <1>9, <1>10
  <2> QED BY <1>2, <2>1, <2>2, <2>3, <2>4, <2>5, <2>6, <2>7 DEF Answers
<1>12. Answers(K)'
  <2>1. Answers(K)
    BY <1>1 DEF SessionInv
  <2>2. Cardinality(Matches(K)) \in Nat /\ cursor[K] < Cardinality(Matches(K))
    BY <1>2, <1>3, MatchesFinite DEF HasRemaining
  <2>3. \A i \in Matches(K) : i <= loaded
    <3>1. \A i \in Matches(K) : ~(loaded < i)
      BY <1>6, <2>1, <2>2 DEF Answers
    <3>2. \A i \in Matches(K) : i \in Nat /\ loaded \in Nat
      BY <1>3, MatchesFinite, LenProperties DEF SessionTyped
    <3> QED BY <3>1, <3>2
  <2>4. Served(K)' = Served(K) \cup {n}
    <3>1. Served(K)' = {i \in Matches(K) : i <= loaded /\ Rank(K, i) < cursor[K] + 1}
      BY <1>2, <1>6, <1>8 DEF Served
    <3>2. \A i \in Matches(K) : Rank(K, i) < cursor[K] + 1 <=> Rank(K, i) < cursor[K] \/ i = n
      <4>1. \A i \in Matches(K) : Rank(K, i) \in Nat
        BY <1>3, <2>2, Ranks
      <4>2. \A i \in Matches(K) : Rank(K, i) = cursor[K] <=> i = n
        BY <1>3, <1>5, Ranks
      <4> QED BY <1>6, <4>1, <4>2
    <3> QED BY <1>5, <2>3, <3>1, <3>2 DEF Served
  <2>5. n \notin Served(K)
    BY <1>5, <1>6 DEF Served
  <2>6. Callers(K)' = Callers(K) \cup {c} /\ c \notin Callers(K)
    <3>1. \A d \in Calls : d \in Callers(K)' <=> d \in Callers(K) \/ d = c
      BY <1>1, <1>9, <1>10 DEF Callers
    <3> QED BY <1>1, <3>1 DEF Callers
  <2>7. \A d \in Callers(K) : hit'[d] = hit[d] /\ d # c
    BY <1>10, <2>6 DEF Callers
  <2>8. {hit'[d] : d \in Callers(K)'} = Served(K)'
    <3>1. {hit'[d] : d \in Callers(K)'} = {hit[d] : d \in Callers(K)} \cup {n}
      BY <1>9, <2>6, <2>7
    <3> QED BY <2>1, <2>4, <3>1 DEF Answers
  <2>9. \A d, e \in Callers(K)' : hit'[d] = hit'[e] => d = e
    <3>1. \A d \in Callers(K) : hit[d] # n
      BY <2>1, <2>5 DEF Answers
    <3>2. \A d, e \in Callers(K) : hit[d] = hit[e] => d = e
      BY <2>1 DEF Answers
    <3> QED BY <1>9, <2>6, <2>7, <3>1, <3>2
  <2>10. \A d \in Calls : key'[d] = K => ~Working(d)'
    BY <1>2, <1>9, <1>10, <2>1 DEF Answers
  <2>11. cursor'[K] <= Cardinality(Matches(K)')
    BY <1>6, <1>8, <2>2
  <2>12. ~(\E i \in Matches(K)' : loaded' < i)
    BY <1>2, <1>6, <1>8, <2>1, <2>2 DEF Answers
  <2> QED BY <2>8, <2>9, <2>10, <2>11, <2>12 DEF Answers
<1>13. ASSUME NEW d \in Calls PROVE Recorded(d)'
  <2>1. Recorded(d) /\ (CameBack(d)' <=> CameBack(d))
    BY <1>1, <1>9, <1>10 DEF SessionInv
  <2> QED BY <1>2, <2>1 DEF Recorded, Recording, MadeBy
<1> QED BY <1>7, <1>11, <1>12, <1>13 DEF SessionInv

(* A captured result becomes the last record, of a key whose records are   *)
(* all used up; it is the only one its call made.                          *)
LEMMA CapturedKeeps ==
    ASSUME SessionInv, CallsTyped, NEW c \in Calls, OthersStay(c), Captured(c)
    PROVE  SessionInv'
<1> DEFINE K == key[c]
           last == Len(records) + 1
<1>1. /\ K \in Keys /\ key'[c] = K /\ hit[c] = 0 /\ hit'[c] = 0
      /\ Working(c) /\ ~Working(c)' /\ ~CameBack(c) /\ CameBack(c)'
  BY DEF Captured
<1>2. PICK r \in Results : Capture(c, K, r)
  BY DEF Captured
<1>3. SessionTyped /\ Len(records) \in Nat
  BY LenProperties DEF SessionInv, SessionTyped
<1>4. UNCHANGED <<mode, fallback, loaded>>
  BY <1>2 DEF Capture
<1>5. \A d \in Calls \ {c} : /\ CameBack(d)' <=> CameBack(d)
                             /\ Working(d)' <=> Working(d)
                             /\ key'[d] = key[d] /\ hit'[d] = hit[d]
  BY DEF OthersStay, CameBack, Working
<1>6. ASSUME NEW k \in Keys
      PROVE  /\ Callers(k)' = Callers(k)
             /\ {hit'[d] : d \in Callers(k)'} = {hit[d] : d \in Callers(k)}
             /\ \A d \in Callers(k) : hit'[d] = hit[d]
             /\ \A d \in Calls : key'[d] = k /\ Working(d)' => key[d] = k /\ Working(d)
  <2>1. Callers(k)' = Callers(k)
    BY <1>1, <1>5 DEF Callers
  <2>2. \A d \in Callers(k) : hit'[d] = hit[d]
    BY <1>1, <1>5 DEF Callers
  <2>3. {hit'[d] : d \in Callers(k)'} = {hit[d] : d \in Callers(k)}
    BY <2>1, <2>2
  <2>4. \A d \in Calls : key'[d] = k /\ Working(d)' => key[d] = k /\ Working(d)
    BY <1>1, <1>5
  <2> QED BY <2>1, <2>2, <2>3, <2>4
<1>7. CASE ~Recording
  <2>1. UNCHANGED <<records, cursor>>
    BY <1>2, <1>7 DEF Capture, Recording
  <2>2. SessionTyped'
    BY <1>3, <1>4, <2>1 DEF SessionTyped
  <2>3. mode' # "replay"
    <3>1. mode = "replay" => Answers(K)
      BY <1>1 DEF SessionInv
    <3>2. mode = "replay" => fallback = "live"
      BY <1>1, <3>1 DEF Answers
    <3> QED BY <1>4, <1>7, <3>2 DEF Recording
  <2>4. ASSUME NEW d \in Calls PROVE Recorded(d)'
    <3>1. Recorded(d)
      BY DEF SessionInv
    <3> QED BY <1>4, <1>7, <2>1, <3>1 DEF Recorded, Recording, MadeBy
  <2> QED BY <2>2, <2>3, <2>4 DEF SessionInv
<1>8. CASE Recording
  <2>1. PICK entry \in Records : /\ entry.key = K /\ entry.by = c
                                 /\ records' = Append(records, entry)
    <3>1. [key |-> K, result |-> r, by |-> c] \in Records
      BY <1>1 DEF Records
    <3>2. records' = Append(records, [key |-> K, result |-> r, by |-> c])
      BY <1>2, <1>8 DEF Capture, Recording, Appended
    <3> QED BY <3>1, <3>2
  <2>2. /\ records' \in Seq(Records) /\ Len(records') = last
        /\ \A i \in 1 .. Len(records) : records'[i] = records[i]
        /\ records'[last] = entry
    BY <1>3, <2>1, AppendProperties DEF SessionTyped
  <2>3. DOMAIN records = 1 .. Len(records) /\ DOMAIN records' = 1 .. last
    BY <1>3, <2>2, LenProperties DEF SessionTyped
  <2>4. ASSUME NEW k \in Keys
        PROVE  /\ k # K => Matches(k)' = Matches(k)
               /\ k = K => Matches(k)' = Matches(k) \cup {last} /\ last \notin Matches(k)
    <3>1. \A i : i \in 1 .. last <=> i \in 1 .. Len(records) \/ i = last
      BY <1>3
    <3>2. last \notin 1 .. Len(records)
      BY <1>3
    <3> QED BY <2>1, <2>2, <3>1, <3>2 DEF Matches
  <2>5. cursor' = IF mode = "replay" /\ fallback = "live"
                  THEN [cursor EXCEPT ![K] = Cardinality(Matches(K)) + 1] ELSE cursor
    BY <1>2 DEF Capture
  <2>6. Cardinality(Matches(K)) \in Nat
    BY <1>1, <1>3, MatchesFinite
  <2>7. SessionTyped'
    <3>1. cursor' \in [Keys -> Nat]
      <4>1. PICK n \in Nat : n = Cardinality(Matches(K)) + 1
        BY <2>6
      <4>2. cursor' = [cursor EXCEPT ![K] = n] \/ cursor' = cursor
        BY <2>5, <4>1
      <4> HIDE DEF K
      <4> QED BY <1>3, <4>2 DEF SessionTyped
    <3>2. loaded' \in 0 .. Len(records')
      BY <1>3, <1>4, <2>2 DEF SessionTyped
    <3> QED BY <2>2, <3>1, <3>2 DEF SessionTyped
  <2>8. ASSUME mode' = "replay", NEW k \in Keys PROVE Answers(k)'
    <3>1. mode = "replay" /\ fallback = "live" /\ Answers(k)
      BY <1>4, <1>8, <2>8 DEF SessionInv, Recording
    <3>2. CASE k # K
      <4>1. cursor'[k] = cursor[k] /\ Matches(k)' = Matches(k)
        BY <1>3, <2>4, <2>5, <3>2 DEF SessionTyped
      <4>2. Served(k)' = Served(k) /\ (HasRemaining(k)' <=> HasRemaining(k))
        BY <1>4, <4>1 DEF Served, HasRemaining, Rank
      <4> QED BY <1>4, <1>6, <3>1, <4>1, <4>2 DEF Answers
    <3>3. CASE k = K
      <4>1. /\ cursor[K] = Cardinality(Matches(K))
            /\ cursor'[K] = Cardinality(Matches(K)) + 1
        <5>1. ~HasRemaining(K) /\ cursor[K] <= Cardinality(Matches(K)) /\ cursor[K] \in Nat
          BY <1>1, <1>3, <3>1, <3>3 DEF Answers, SessionTyped
        <5>2. cursor[K] = Cardinality(Matches(K))
          BY <2>6, <5>1 DEF HasRemaining
        <5> QED BY <1>1, <1>3, <2>5, <3>1, <5>2 DEF SessionTyped
      <4>2. Cardinality(Matches(K)') = Cardinality(Matches(K)) + 1
        <5>1. IsFiniteSet(Matches(K))
          BY <1>1, <1>3, MatchesFinite
        <5>2. last \notin Matches(K) /\ Matches(K)' = Matches(K) \cup {last}
          BY <1>1, <2>4
        <5> QED BY <5>1, <5>2, FS_AddElement
      <4>3. Served(K)' = Served(K)
        <5>1. \A i \in Matches(K)' : i <= loaded => i \in Matches(K)
          <6>1. \A i \in Matches(K)' : i \in Matches(K) \/ i = last
            BY <1>1, <2>4
          <6>2. ~(last <= loaded)
            BY <1>3 DEF SessionTyped
          <6> QED BY <6>1, <6>2
        <5>2. \A i \in Matches(K) : Rank(K, i)' = Rank(K, i)
          <6>1. ASSUME NEW i \in Matches(K) PROVE Rank(K, i)' = Rank(K, i)
            <7>1. i \in 1 .. Len(records)
              BY <1>1, <1>3, MatchesFinite
            <7>2. ~(last < i)
              BY <1>3, <7>1
            <7>3. {j \in Matches(K)' : j < i} = {j \in Matches(K) : j < i}
              BY <1>1, <2>4, <7>2
            <7> QED BY <1>1, <7>3 DEF Rank
          <6> QED BY <6>1
        <5>3. \A i \in Matches(K) : Rank(K, i) < cursor[K] /\ Rank(K, i) < cursor'[K]
          <6>1. \A i \in Matches(K) : Rank(K, i) \in 0 .. (Cardinality(Matches(K)) - 1)
            BY <1>1, <1>3, Ranks
          <6> QED BY <2>6, <4>1, <6>1
        <5>4. Matches(K) \subseteq Matches(K)'
          BY <1>1, <2>4
        <5>5. /\ Served(K) = {i \in Matches(K) : i <= loaded}
              /\ Served(K)' = {i \in Matches(K)' : i <= loaded' /\ Rank(K, i)' < cursor'[K]}
          BY <1>1, <5>3 DEF Served
        <5>6. Served(K)' = {i \in Matches(K) : i <= loaded}
          BY <1>4, <5>1, <5>2, <5>3, <5>4, <5>5
        <5> QED BY <5>5, <5>6
      <4>4. cursor'[k] = Cardinality(Matches(k)')
        BY <1>1, <3>3, <4>1, <4>2
      <4>5. ~HasRemaining(k)'
        BY <2>6, <3>3, <4>1, <4>4 DEF HasRemaining
      <4>6. cursor'[k] <= Cardinality(Matches(k)')
        BY <2>6, <3>3, <4>1, <4>4
      <4> QED BY <1>1, <1>4, <1>6, <3>1, <3>3, <4>3, <4>4, <4>5, <4>6 DEF Answers
    <3> QED BY <3>2, <3>3
  <2>9. ASSUME NEW d \in Calls PROVE Recorded(d)'
    <3>1. Recorded(d) /\ Recording'
      BY <1>4, <1>8 DEF SessionInv, Recording
    <3>2. MadeBy(d)' = IF d = c THEN MadeBy(d) \cup {last} ELSE MadeBy(d)
      <4>1. \A i : i \in 1 .. last <=> i \in 1 .. Len(records) \/ i = last
        BY <1>3
      <4>2. last \notin 1 .. Len(records)
        BY <1>3
      <4> QED BY <2>1, <2>2, <2>3, <4>1, <4>2 DEF MadeBy
    <3>3. CASE d = c
      <4>1. MadeBy(d) = {}
        BY <1>1, <3>1, <3>3 DEF Recorded
      <4> QED BY <1>1, <3>1, <3>2, <3>3, <4>1 DEF Recorded
    <3>4. CASE d # c
      BY <1>5, <1>8, <3>1, <3>2, <3>4 DEF Recorded
    <3> QED BY <3>3, <3>4
  <2> HIDE DEF last
  <2> QED BY <2>7, <2>8, <2>9 DEF SessionInv
<1> QED BY <1>7, <1>8

(***************************************************************************)
(* The budgets: every allocation of a tree is charged the calls that paid  *)
(* in it or below it, and the runs nested in it.                           *)
(***************************************************************************)

Payers(g) == {c \in Calls : gov[c] # None /\ g \in chain[gov[c]] /\ Paid(c)}
Nested(g) == {h \in Governors \ {g} : g \in chain[h]}

Charges ==
    \A g \in Governors : /\ used[g]["tool_calls"] = Cardinality(Payers(g))
                         /\ used[g]["child_runs"] = Cardinality(Nested(g))

GovernorsExist == \A c \in Calls : gov[c] # None => Exists(gov[c])

ChargesInv == BudgetInv /\ GovernorsExist /\ Charges

LEMMA CountsFinite ==
    ASSUME NEW g \in Governors
    PROVE  /\ IsFiniteSet(Payers(g)) /\ IsFiniteSet(Nested(g))
           /\ Cardinality(Payers(g)) \in Nat /\ Cardinality(Nested(g)) \in Nat
<1>1. Payers(g) \in SUBSET Calls /\ Nested(g) \in SUBSET Governors
  BY DEF Payers, Nested
<1> QED BY <1>1, ExecutorAssumption, BudgetAssumption, FS_Subset, FS_CardinalityType

(* A step of a call that is not charged changes no count. *)
LEMMA UnchargedKeeps ==
    ASSUME ChargesInv, CallsTyped, NEW c \in Calls, OthersStay(c), UNCHANGED budgetVars,
           Payer(c)' <=> Payer(c),
           gov'[c] # gov[c] => ~Payer(c) /\ (gov'[c] # None => Exists(gov'[c]))
    PROVE  GovernorsExist' /\ Charges'
<1>1. UNCHANGED <<used, chain>>
  BY DEF budgetVars
<1>2. GovernorsExist'
  BY <1>1 DEF ChargesInv, GovernorsExist, OthersStay, Exists
<1>3. ASSUME NEW g \in Governors PROVE Payers(g)' = Payers(g) /\ Nested(g)' = Nested(g)
  <2>1. \A d \in Calls \ {c} : gov'[d] = gov[d] /\ (Paid(d)' <=> Paid(d))
    BY DEF OthersStay, Paid
  <2>2. c \in Payers(g)' <=> c \in Payers(g)
    BY <1>1 DEF Payers, Payer
  <2>3. \A d \in Calls : d \in Payers(g)' <=> d \in Payers(g)
    BY <1>1, <2>1, <2>2 DEF Payers
  <2>4. Payers(g)' \subseteq Calls /\ Payers(g) \subseteq Calls
    BY DEF Payers
  <2>5. Nested(g)' = Nested(g)
    BY <1>1 DEF Nested
  <2> QED BY <2>3, <2>4, <2>5
<1>4. Charges'
  BY <1>1, <1>3 DEF ChargesInv, Charges
<1> QED BY <1>2, <1>4

(* A charge counts its call in every allocation of the chain, and nowhere  *)
(* else.                                                                   *)
LEMMA ChargedKeeps ==
    ASSUME ChargesInv, CallsTyped, NEW c \in Calls, OthersStay(c), Charged(c),
           gov'[c] = gov[c], ~Payer(c), gov[c] # None => Payer(c)'
    PROVE  GovernorsExist' /\ Charges'
<1>1. CASE gov[c] = None
  <2>1. UNCHANGED budgetVars
    BY <1>1 DEF Charged
  <2>2. Payer(c)' <=> Payer(c)
    BY <1>1 DEF Payer
  <2> QED BY <2>1, <2>2, UnchargedKeeps
<1>2. CASE gov[c] # None
  <2> DEFINE G == gov[c]
             amount == Only("tool_calls", 1)
  <2>1. /\ G \in Governors /\ UNCHANGED <<chain, started, now>>
        /\ Add(G, amount)
    BY <1>2 DEF CallsTyped, Charged, Charge, Consume
  <2>2. amount \in Amounts /\ amount["tool_calls"] = 1 /\ amount["child_runs"] = 0
    BY OnlyAmount DEF Only, Nothing, Dimensions
  <2>3. chain \in [Governors -> SUBSET Governors] /\ BudgetTypeOK
    BY DEF ChargesInv, BudgetInv, BudgetTypeOK
  <2> HIDE DEF amount
  <2>4. /\ \A a \in chain[G], d \in Dimensions : used'[a][d] = used[a][d] + amount[d]
        /\ \A a \in Governors \ chain[G] : used'[a] = used[a]
    BY <2>1, <2>2, <2>3, AddEffect
  <2>5. GovernorsExist'
    BY <2>1 DEF ChargesInv, GovernorsExist, OthersStay, Exists
  <2>6. \A d \in Calls \ {c} : gov'[d] = gov[d] /\ (Paid(d)' <=> Paid(d))
    BY DEF OthersStay, Paid
  <2>7. ~Paid(c) /\ Paid(c)' /\ gov'[c] = G
    BY <1>2 DEF Payer
  <2>8. ASSUME NEW g \in Governors
        PROVE  /\ used'[g]["tool_calls"] = Cardinality(Payers(g)')
               /\ used'[g]["child_runs"] = Cardinality(Nested(g)')
    <3>1. /\ used[g]["tool_calls"] = Cardinality(Payers(g))
          /\ used[g]["child_runs"] = Cardinality(Nested(g))
      BY DEF ChargesInv, Charges
    <3>2. Nested(g)' = Nested(g)
      BY <2>1 DEF Nested
    <3>3. "tool_calls" \in Dimensions /\ "child_runs" \in Dimensions
      BY DEF Dimensions
    <3>4. used[g]["tool_calls"] \in Nat /\ used[g]["child_runs"] \in Nat
      BY <3>1, CountsFinite
    <3>5. CASE g \in chain[G]
      <4>1. Payers(g)' = Payers(g) \cup {c} /\ c \notin Payers(g)
        <5>1. \A d \in Calls : d \in Payers(g)' <=> d \in Payers(g) \/ d = c
          BY <1>2, <2>1, <2>6, <2>7, <3>5 DEF Payers
        <5> QED BY <2>7, <5>1 DEF Payers
      <4>2. Cardinality(Payers(g)') = Cardinality(Payers(g)) + 1
        BY <4>1, CountsFinite, FS_AddElement
      <4>3. /\ used'[g]["tool_calls"] = used[g]["tool_calls"] + 1
            /\ used'[g]["child_runs"] = used[g]["child_runs"]
        BY <2>2, <2>4, <3>3, <3>4, <3>5
      <4> QED BY <3>1, <3>2, <4>2, <4>3
    <3>6. CASE g \notin chain[G]
      <4>1. Payers(g)' = Payers(g)
        <5>1. \A d \in Calls : d \in Payers(g)' <=> d \in Payers(g)
          BY <2>1, <2>6, <2>7, <3>6 DEF Payers
        <5> QED BY <5>1 DEF Payers
      <4> QED BY <2>4, <3>1, <3>2, <3>6, <4>1
    <3> QED BY <3>5, <3>6
  <2>9. Charges'
    BY <2>8 DEF Charges
  <2> QED BY <2>5, <2>9
<1> QED BY <1>1, <1>2

(* Reports of usage and the clock count no call and no run. *)
LEMMA ReportKeeps ==
    ASSUME ChargesInv, NEW g \in Governors, NEW report \in Reports, RecordUsage(g, report),
           UNCHANGED callVars
    PROVE  GovernorsExist' /\ Charges'
<1>1. UNCHANGED <<chain, pc, gov, outcome>>
  BY DEF RecordUsage, callVars
<1>2. {"tool_calls", "child_runs"} \subseteq Dimensions
  BY DEF Dimensions
<1>3. BudgetTypeOK
  BY DEF ChargesInv, BudgetInv
<1>4. ASSUME NEW a \in Governors, NEW d \in {"tool_calls", "child_runs"}
      PROVE  used'[a][d] = used[a][d]
  <2>1. CASE AddReport(g, report)
    <3>1. Reading(report) \in Amounts /\ Add(g, Reading(report))
      BY <2>1, ReadingAmount DEF AddReport, Reading
    <3>2. Reading(report)[d] = 0
      BY <1>2 DEF Reading, Reported
    <3>3. /\ \A b \in chain[g], e \in Dimensions :
                 used'[b][e] = used[b][e] + Reading(report)[e]
          /\ \A b \in Governors \ chain[g] : used'[b] = used[b]
      BY <1>3, <3>1, AddEffect
    <3>4. used[a][d] \in Nat
      BY <1>2, <1>3 DEF BudgetTypeOK, Amounts
    <3> QED BY <1>2, <3>2, <3>3, <3>4
  <2>2. CASE used' = used
    BY <2>2
  <2> QED BY <2>1, <2>2 DEF RecordUsage
<1>5. GovernorsExist'
  BY <1>1 DEF ChargesInv, GovernorsExist, Exists
<1>6. \A a \in Governors : Payers(a)' = Payers(a) /\ Nested(a)' = Nested(a)
  BY <1>1 DEF Payers, Nested, Paid
<1>7. Charges'
  BY <1>4, <1>6 DEF ChargesInv, Charges
<1> QED BY <1>5, <1>7

(* A nested run is counted once in every allocation that encloses it, and  *)
(* pays for nothing before it exists.                                      *)
LEMMA ChildKeeps ==
    ASSUME ChargesInv, CallsTyped, NEW h \in Governors \ {Root}, Child(h), UNCHANGED callVars
    PROVE  GovernorsExist' /\ Charges'
<1> DEFINE G == Parent[h]
           amount == Only("child_runs", 1)
<1>1. /\ G \in Governors /\ h \in Governors /\ chain[G] # {} /\ chain[h] = {}
      /\ chain' = [chain EXCEPT ![h] = chain[G] \cup {h}]
      /\ Add(G, amount) /\ UNCHANGED <<pc, gov, outcome>>
  BY BudgetAssumption DEF Child, Exists, Consume, callVars
<1>2. amount \in Amounts /\ amount["child_runs"] = 1 /\ amount["tool_calls"] = 0
  BY OnlyAmount DEF Only, Nothing, Dimensions
<1>3. chain \in [Governors -> SUBSET Governors] /\ BudgetTypeOK
  BY DEF ChargesInv, BudgetInv, BudgetTypeOK
<1> HIDE DEF amount
<1>4. /\ \A a \in chain[G], d \in Dimensions : used'[a][d] = used[a][d] + amount[d]
      /\ \A a \in Governors \ chain[G] : used'[a] = used[a]
  BY <1>1, <1>2, <1>3, AddEffect
<1>5. /\ chain'[h] = chain[G] \cup {h}
      /\ \A b \in Governors \ {h} : chain'[b] = chain[b]
  BY <1>1, <1>3
<1>6. \A b \in Governors : h \notin chain[b]
  BY <1>1 DEF ChargesInv, BudgetInv, ChainsClosed
<1>7. GovernorsExist'
  <2>1. \A b \in Governors : Exists(b) => Exists(b)'
    BY <1>5 DEF Exists
  <2> QED BY <1>1, <2>1 DEF ChargesInv, GovernorsExist, CallsTyped
<1>8. ASSUME NEW g \in Governors PROVE Payers(g)' = Payers(g)
  <2>1. \A c \in Calls : gov[c] # None => gov[c] \in Governors \ {h}
    BY <1>1 DEF ChargesInv, GovernorsExist, CallsTyped, Exists
  <2>2. \A c \in Calls : c \in Payers(g)' <=> c \in Payers(g)
    BY <1>1, <1>5, <2>1 DEF Payers, Paid
  <2> QED BY <2>2 DEF Payers
<1>9. ASSUME NEW g \in Governors
      PROVE  /\ used'[g]["tool_calls"] = Cardinality(Payers(g)')
             /\ used'[g]["child_runs"] = Cardinality(Nested(g)')
  <2>1. /\ used[g]["tool_calls"] = Cardinality(Payers(g))
        /\ used[g]["child_runs"] = Cardinality(Nested(g))
    BY DEF ChargesInv, Charges
  <2>2. used[g]["tool_calls"] \in Nat /\ used[g]["child_runs"] \in Nat
    BY <2>1, CountsFinite
  <2>3. "tool_calls" \in Dimensions /\ "child_runs" \in Dimensions
    BY DEF Dimensions
  <2>4. CASE g \in chain[G]
    <3>1. g # h
      BY <1>1, <1>6, <2>4
    <3>2. Nested(g)' = Nested(g) \cup {h} /\ h \notin Nested(g)
      <4>1. \A b \in Governors \ {g} : b \in Nested(g)' <=> b \in Nested(g) \/ b = h
        BY <1>1, <1>5, <2>4 DEF Nested
      <4>2. h \notin Nested(g) /\ h \in Governors \ {g}
        BY <1>1, <3>1 DEF Nested
      <4> QED BY <4>1, <4>2 DEF Nested
    <3>3. Cardinality(Nested(g)') = Cardinality(Nested(g)) + 1
      BY <3>2, CountsFinite, FS_AddElement
    <3>4. /\ used'[g]["child_runs"] = used[g]["child_runs"] + 1
          /\ used'[g]["tool_calls"] = used[g]["tool_calls"]
      BY <1>2, <1>4, <2>2, <2>3, <2>4
    <3> QED BY <1>8, <2>1, <3>3, <3>4
  <2>5. CASE g \notin chain[G]
    <3>1. Nested(g)' = Nested(g)
      <4>1. \A b \in Governors \ {g} : b \in Nested(g)' <=> b \in Nested(g)
        BY <1>1, <1>5, <2>5 DEF Nested
      <4> QED BY <4>1 DEF Nested
    <3> QED BY <1>4, <1>8, <2>1, <2>5, <3>1
  <2> QED BY <2>4, <2>5
<1>10. Charges'
  BY <1>9 DEF Charges
<1> QED BY <1>7, <1>10

(***************************************************************************)
(* The invariant of the calls, the session and the budgets together        *)
(***************************************************************************)

ExecutorInv ==
    /\ CallsTyped /\ Phases
    /\ SessionInv
    /\ ChargesInv

LEMMA SessionInit ==
    ASSUME ReplayInit, \A c \in Calls : ~Working(c) /\ ~CameBack(c) /\ hit[c] = 0
    PROVE  SessionInv
<1>1. PICK n \in Nat : records \in [1..n -> Recordable]
  BY ReplayAssumption DEF ReplayInit
<1>2. /\ records \in Seq(Records) /\ Len(records) = n /\ DOMAIN records = 1 .. n
      /\ \A i \in 1 .. n : records[i].by = Loaded
  <2>1. \A i \in 1 .. n : records[i] \in Records /\ records[i].by = Loaded
    BY <1>1 DEF Recordable, Records
  <2>2. records \in [1 .. n -> Records]
    BY <1>1, <2>1
  <2> QED BY <2>1, <2>2, SeqDef, LenProperties
<1>3. SessionTyped /\ loaded = Len(records) /\ \A k \in Keys : cursor[k] = 0
  BY <1>2 DEF ReplayInit, SessionTyped
<1>4. ASSUME NEW k \in Keys PROVE Answers(k)
  <2>1. /\ Cardinality(Matches(k)) \in Nat
        /\ \A i \in Matches(k) : i \in 1 .. Len(records)
    BY <1>3, MatchesFinite
  <2>2. \A i \in Matches(k) : ~(loaded < i)
    BY <1>2, <1>3, <2>1
  <2>3. Served(k) = {}
    <3>1. \A i \in Matches(k) : Rank(k, i) \in 0 .. (Cardinality(Matches(k)) - 1)
      BY <1>3, Ranks
    <3>2. \A i \in Matches(k) : ~(Rank(k, i) < cursor[k])
      BY <1>3, <2>1, <3>1
    <3> QED BY <3>2 DEF Served
  <2>4. Callers(k) = {}
    BY DEF Callers
  <2> QED BY <1>3, <2>1, <2>2, <2>3, <2>4 DEF Answers
<1>5. ASSUME NEW c \in Calls PROVE Recorded(c)
  <2>1. \A i \in DOMAIN records : records[i].by # c
    BY <1>2, ExecutorAssumption
  <2> QED BY <2>1 DEF Recorded, MadeBy
<1> QED BY <1>3, <1>4, <1>5 DEF SessionInv

LEMMA ExecutorInit == Init => ExecutorInv
<1> SUFFICES ASSUME Init PROVE ExecutorInv
  OBVIOUS
<1>1. CallsTyped /\ Phases
  BY DEF Init, CallsTyped, Phases, Phase
<1>2. SessionInv
  <2>1. \A c \in Calls : ~Working(c) /\ ~CameBack(c) /\ hit[c] = 0
    BY DEF Init, Working, CameBack, None
  <2> QED BY <2>1, SessionInit DEF Init
<1>3. BudgetInv
  BY BudgetInitInv DEF Init
<1>4. GovernorsExist
  BY DEF Init, GovernorsExist
<1>5. Charges
  <2> SUFFICES ASSUME NEW g \in Governors
               PROVE  /\ used[g]["tool_calls"] = Cardinality(Payers(g))
                      /\ used[g]["child_runs"] = Cardinality(Nested(g))
    BY DEF Charges
  <2>1. used[g]["tool_calls"] = 0 /\ used[g]["child_runs"] = 0
    BY DEF Init, BudgetInit, Nothing, Dimensions
  <2>2. Payers(g) = {}
    BY DEF Init, Payers
  <2>3. Nested(g) = {}
    BY DEF Init, BudgetInit, Nested
  <2> QED BY <2>1, <2>2, <2>3, FS_EmptySet
<1> QED BY <1>1, <1>2, <1>3, <1>4, <1>5 DEF ExecutorInv, ChargesInv

LEMMA ExecutorStep == ExecutorInv /\ [Next]_vars => ExecutorInv'
<1> SUFFICES ASSUME ExecutorInv, [Next]_vars PROVE ExecutorInv'
  OBVIOUS
<1>1. BudgetInv'
  <2>1. BudgetsGiven
    BY DEF ExecutorInv, CallsTyped, BudgetsGiven
  <2> QED BY <2>1, StepBudget, BudgetStepInv DEF ExecutorInv, ChargesInv
<1>2. ASSUME NEW c \in Calls, ToolCall(c) \/ ModelCall(c) PROVE ExecutorInv'
  <2>1. CallInv
    BY SessionCalls DEF ExecutorInv
  <2>2. Effects(c)
    BY <1>2, <2>1, CallEffects
  <2>3. CallsTyped' /\ OthersStay(c) /\ Phase(c)'
    BY <2>2 DEF Effects
  <2>4. Phases'
    <3>1. \A d \in Calls \ {c} : Phase(d)' <=> Phase(d)
      BY <2>3 DEF OthersStay, Phase
    <3> QED BY <2>3, <3>1 DEF ExecutorInv, Phases
  <2>5. SessionInv'
    BY <2>2, <2>3, ApartKeeps, AnsweredKeeps, CapturedKeeps DEF Effects, ExecutorInv
  <2>6. GovernorsExist' /\ Charges'
    BY <2>2, <2>3, UnchargedKeeps, ChargedKeeps DEF Effects, BudgetMove, ExecutorInv
  <2> QED BY <1>1, <2>3, <2>4, <2>5, <2>6 DEF ExecutorInv, ChargesInv
<1>3. ASSUME UNCHANGED <<replayVars, callVars>>
      PROVE  CallsTyped' /\ Phases' /\ SessionInv'
  <2>1. CallsTyped' /\ Phases'
    BY <1>3 DEF callVars, ExecutorInv, CallsTyped, Phases, Phase
  <2>2. SessionInv'
    <3>1. UNCHANGED <<mode, fallback, records, cursor, loaded, pc, key, hit, outcome>>
      BY <1>3 DEF callVars, replayVars
    <3>2. SessionTyped'
      BY <3>1 DEF ExecutorInv, SessionInv, SessionTyped
    <3>3. ASSUME NEW k \in Keys, mode' = "replay" PROVE Answers(k)'
      <4>1. Answers(k)
        BY <3>1, <3>3 DEF ExecutorInv, SessionInv
      <4>2. /\ Callers(k)' = Callers(k) /\ Served(k)' = Served(k)
            /\ Matches(k)' = Matches(k) /\ (HasRemaining(k)' <=> HasRemaining(k))
            /\ \A c \in Calls : Working(c)' <=> Working(c)
        BY <3>1 DEF Callers, Served, Matches, Rank, HasRemaining, Working
      <4> QED BY <3>1, <4>1, <4>2 DEF Answers
    <3>4. \A c \in Calls : Recorded(c)'
      BY <3>1 DEF ExecutorInv, SessionInv, Recorded, Recording, MadeBy, CameBack
    <3> QED BY <3>2, <3>3, <3>4 DEF SessionInv
  <2> QED BY <2>1, <2>2
<1>4. CASE Runs /\ UNCHANGED <<replayVars, callVars>>
  <2>1. GovernorsExist' /\ Charges'
    <3>1. CASE \E h \in Governors \ {Root} : Child(h)
      BY <1>4, <3>1, ChildKeeps DEF ExecutorInv
    <3>2. CASE UsageReported
      BY <1>4, <3>2, ReportKeeps DEF ExecutorInv, UsageReported
    <3>3. CASE Tick
      BY <1>4, <3>3 DEF Tick, callVars, ExecutorInv, ChargesInv, GovernorsExist, Exists,
                        Charges, Payers, Nested, Paid
    <3> QED BY <1>4, <3>1, <3>2, <3>3 DEF Runs
  <2> QED BY <1>1, <1>3, <1>4, <2>1 DEF ExecutorInv, ChargesInv
<1>5. CASE UNCHANGED vars
  <2>1. GovernorsExist' /\ Charges'
    BY <1>5 DEF vars, callVars, budgetVars, ExecutorInv, ChargesInv, GovernorsExist, Exists,
                Charges, Payers, Nested, Paid
  <2> QED BY <1>1, <1>3, <1>5, <2>1 DEF ExecutorInv, ChargesInv, vars
<1> QED BY <1>2, <1>4, <1>5 DEF Next

LEMMA ExecutorInvariant == Spec => []ExecutorInv
  BY ExecutorInit, ExecutorStep, PTL DEF Spec

(* Whatever refuses, fails, times out or cancels the calls of a tree of    *)
(* runs, and however they interleave, every allocation is charged exactly  *)
(* the calls that passed the gates in it and below it, and exactly the     *)
(* runs that were started: execute() charges each call once.               *)
THEOREM CallsAreAccounted == Spec => []CallsAccounted
<1>1. ExecutorInv => CallsAccounted
  <2> SUFFICES ASSUME ExecutorInv PROVE CallsAccounted
    OBVIOUS
  <2>1. TypeOK
    BY DEF ExecutorInv, CallsTyped, Phases, Phase, SessionInv, SessionTyped, ChargesInv,
           BudgetInv, GovernorsExist, TypeOK, Records
  <2>2. ChargesExact
    <3>1. \A g \in Governors :
             /\ Payers(g) = {c \in Calls : gov[c] # None /\ g \in chain[gov[c]] /\ Paid(c)}
             /\ Nested(g) = {h \in Governors \ {g} : g \in chain[h]}
      BY DEF Payers, Nested
    <3> QED BY <3>1 DEF ChargesExact, Quantify, ExecutorInv, ChargesInv, Charges
  <2> QED BY <2>1, <2>2 DEF CallsAccounted
<1> QED BY <1>1, ExecutorInvariant, PTL

(* What remaining() promises a run is what check() would grant it, at      *)
(* every level of any tree of allocations and under any calls: the two     *)
(* walk the chain by different rules and agree.                            *)
THEOREM RemainingHolds == Spec => []RemainingIsGranted
<1>1. ExecutorInv => RemainingIsGranted
  BY RemainingMeans DEF ExecutorInv, ChargesInv, BudgetInv, RemainingIsGranted
<1> QED BY <1>1, ExecutorInvariant, PTL

(* However many calls with one key are under way, a recording answers each *)
(* of its records once and in its order, nothing runs while a record could *)
(* answer it, and a session holds one record of each call that came back   *)
(* and none of the others.                                                 *)
THEOREM ReplaysAreExact == Spec => []ReplayExact
<1>1. ExecutorInv => ReplayExact
  <2> SUFFICES ASSUME ExecutorInv PROVE ReplayExact
    OBVIOUS
  <2>1. ReplayInOrder
    <3> SUFFICES ASSUME mode = "replay", NEW k \in Keys
                 PROVE  /\ {hit[c] : c \in Callers(k)} = Served(k)
                        /\ Cardinality(Callers(k)) = Cardinality(Served(k))
                        /\ (\E c \in Calls : key[c] = k /\ pc[c] \in {"invoking", "model"}) =>
                               ~HasRemaining(k)
      BY DEF ReplayInOrder, Callers, Served
    <3>1. Answers(k)
      BY DEF ExecutorInv, SessionInv
    <3>2. Cardinality(Callers(k)) = Cardinality(Served(k))
      <4> DEFINE f == [c \in Callers(k) |-> hit[c]]
      <4>1. IsFiniteSet(Callers(k))
        <5>1. Callers(k) \in SUBSET Calls
          BY DEF Callers
        <5> QED BY <5>1, ExecutorAssumption, FS_Subset
      <4>2. f \in Bijection(Callers(k), Served(k))
        <5>1. f \in [Callers(k) -> Served(k)]
          BY <3>1 DEF Answers
        <5>2. \A c, d \in Callers(k) : f[c] = f[d] => c = d
          BY <3>1 DEF Answers
        <5>3. \A i \in Served(k) : \E c \in Callers(k) : f[c] = i
          BY <3>1 DEF Answers
        <5> QED BY <5>1, <5>2, <5>3 DEF Bijection, Injection, Surjection, IsInjective
      <4>3. ExistsBijection(Callers(k), Served(k))
        BY <4>2 DEF ExistsBijection
      <4> QED BY <4>1, <4>3, FS_Bijection
    <3>3. \A c \in Calls : key[c] = k /\ pc[c] \in {"invoking", "model"} => ~HasRemaining(k)
      BY <3>1 DEF Answers, Working
    <3> QED BY <3>1, <3>2, <3>3 DEF Answers
  <2>2. RecordingExact
    <3> SUFFICES ASSUME NEW c \in Calls
                 PROVE  Cardinality(MadeBy(c)) = IF Recording /\ CameBack(c) THEN 1 ELSE 0
      BY DEF RecordingExact, MadeBy, Recording, CameBack
    <3>1. Recorded(c)
      BY DEF ExecutorInv, SessionInv
    <3> QED BY <3>1, FS_EmptySet, FS_Singleton DEF Recorded
  <2> QED BY <2>1, <2>2 DEF ReplayExact
<1> QED BY <1>1, ExecutorInvariant, PTL
================================================================================
