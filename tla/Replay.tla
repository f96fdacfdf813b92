--------------------------------- MODULE Replay ---------------------------------
(***************************************************************************)
(* chassis.replay.session.ReplaySession: one list of recorded interactions *)
(* and a cursor per key. A key stands for boundary_key(kind, ...), which   *)
(* covers the kind, so tool and model interactions never share one.        *)
(* Redaction and the file format are left out.                             *)
(***************************************************************************)
EXTENDS Naturals, Sequences, FiniteSets

CONSTANTS
    Keys,        \* the identities of boundary interactions
    ModelKeys,   \* those of model calls; the others are of tool calls
    Modes,       \* the modes a session may be opened in
    MaxLoaded    \* bound: the interactions of a recording that is opened

ASSUME ReplayAssumption == ModelKeys \subseteq Keys /\ MaxLoaded \in Nat

Results == {"ok", "failed"}            \* a timeout is a failed result

VARIABLES
    mode,        \* "live", "record" or "replay"
    fallback,    \* what replay does for a key with nothing left: "error" or "live"
    records,     \* records, with the call that made each (observation)
    cursor,      \* _cursor
    loaded       \* observation: how many records came with the recording

replayVars == <<mode, fallback, records, cursor, loaded>>

Loaded == "loaded"                     \* the maker of a record that was loaded

(* Only tool failures are recorded, a model that raises is not. *)
Recordable == {r \in [key : Keys, result : Results, by : {Loaded}] :
                   r.key \in ModelKeys => r.result = "ok"}

(* A new session, or one that load() opened: from_dict keeps the records   *)
(* of the document in order and starts with no cursor.                     *)
ReplayInit ==
    /\ mode \in Modes
    /\ fallback \in IF mode = "replay" THEN {"error", "live"} ELSE {"error"}
    /\ \E n \in 0..(IF mode = "replay" THEN MaxLoaded ELSE 0) :
           records \in [1..n -> Recordable]
    /\ cursor = [k \in Keys |-> 0]
    /\ loaded = Len(records)

(* The records of a key, as positions of the list, and how many come before *)
(* a position: its index in the list of the key's records.                  *)
Matches(k) == {i \in 1..Len(records) : records[i].key = k}
Rank(k, i) == Cardinality({j \in Matches(k) : j < i})

HasRemaining(k) == cursor[k] < Cardinality(Matches(k))

(* replay(): the next record of the key answers, and is used up. *)
NextRecord(k) == CHOOSE i \in Matches(k) : Rank(k, i) = cursor[k]
Take(k) ==
    /\ HasRemaining(k)
    /\ cursor' = [cursor EXCEPT ![k] = @ + 1]
    /\ UNCHANGED <<mode, fallback, records, loaded>>

(* Whether an operation on the key must really be performed. *)
RunsLive(k) == mode = "replay" => ~HasRemaining(k) /\ fallback = "live"

Appended(c, k, r) == Append(records, [key |-> k, result |-> r, by |-> c])

(* Seeded fault: the captured result is not marked as used up. *)
CaptureUnread(c, k, r) ==
    /\ records' = IF mode = "live" THEN records ELSE Appended(c, k, r)
    /\ UNCHANGED <<mode, fallback, cursor, loaded>>

(* _recorded(): record() when recording; when replaying with the live      *)
(* fallback record_fallback(), which also uses up every record of the key. *)
Capture(c, k, r) ==
    /\ records' = IF mode = "record" \/ (mode = "replay" /\ fallback = "live")
                  THEN Appended(c, k, r) ELSE records
    /\ cursor' = IF mode = "replay" /\ fallback = "live"
                 THEN [cursor EXCEPT ![k] = Cardinality(Matches(k)) + 1] ELSE cursor
    /\ UNCHANGED <<mode, fallback, loaded>>
================================================================================
