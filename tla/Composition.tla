---------------------------- MODULE Composition ----------------------------
(***************************************************************************)
(* The desired state a harness keeps: the tree of composition scopes       *)
(* (composition.py), the desired plugin entries with their revision        *)
(* counters (plugins/registry.py) and the pending-changes flag             *)
(* (harness.py).  Every operation is an operator from a desired state to   *)
(* the next one; the modules that extend this one build their handlers     *)
(* from them.                                                              *)
(***************************************************************************)
EXTENDS Naturals, Sequences, FiniteSets, SequencesExt, TLC

\* A scope path is the sequence of its names; the root's is empty.
Root == <<>>
IsWithin(path, ancestor) == IsPrefix(ancestor, path)
Lineage(path) == {SubSeq(path, 1, n) : n \in 0..Len(path)}

NoAgent == "no agent"
NoRevision == "no revision"
Open == "open"

\* What a scope declares: its terms (capability view, tool view, requirements)
\* and the two metadata keys that name the agent revision it materializes.
Bare == [terms |-> Open, agent |-> NoAgent, revision |-> NoRevision]

NewDesired ==
  [scopes |-> [p \in {Root} |-> Bare], entries |-> <<>>, revisions |-> <<>>, dirty |-> FALSE]

HasScope(d, path) == path \in DOMAIN d.scopes
HasEntry(d, id) == id \in DOMAIN d.entries
Drop(f, S) == [x \in DOMAIN f \ S |-> f[x]]
Put(f, x, v) == [y \in DOMAIN f \cup {x} |-> IF y = x THEN v ELSE f[y]]

-----------------------------------------------------------------------------
(* The tree *)

\* ensure: the scope and its missing ancestors come into being, bare.
Ensure(d, path) ==
  IF HasScope(d, path) THEN d
  ELSE [d EXCEPT !.scopes = [p \in DOMAIN @ \cup Lineage(path) |->
                               IF p \in DOMAIN @ THEN @[p] ELSE Bare],
                 !.dirty = TRUE]

\* The setters of a scope (views, requirements, metadata), taken together.
SetScope(d, path, scope) == [d EXCEPT !.scopes[path] = scope, !.dirty = TRUE]

EntriesWithin(d, path) == {id \in DOMAIN d.entries : IsWithin(d.entries[id].scope, path)}

\* remove: the scope goes with its descendants and their entries.
RemoveScope(d, path) ==
  IF ~HasScope(d, path) THEN d
  ELSE [d EXCEPT !.entries = Drop(@, EntriesWithin(d, path)),
                 !.scopes = Drop(@, {p \in DOMAIN @ : IsWithin(p, path)}),
                 !.dirty = TRUE]

-----------------------------------------------------------------------------
(* The plugin registry *)

RevisionOf(d, id) == IF id \in DOMAIN d.revisions THEN d.revisions[id] ELSE 0

\* Mutant of InstallEntry: a replacement keeps the entry's revision.
InstallEntryInPlace(d, id, plugin, config, scope) ==
  LET revision == IF HasEntry(d, id) THEN RevisionOf(d, id) ELSE RevisionOf(d, id) + 1
  IN [d EXCEPT !.entries = Put(@, id, [plugin |-> plugin, config |-> config, scope |-> scope,
                                       revision |-> revision]),
               !.revisions = Put(@, id, revision),
               !.dirty = TRUE]

\* install: a new or replaced entry takes the next revision of its id, which
\* an uninstall does not reset.
InstallEntry(d, id, plugin, config, scope) ==
  LET revision == RevisionOf(d, id) + 1
  IN [d EXCEPT !.entries = Put(@, id, [plugin |-> plugin, config |-> config, scope |-> scope,
                                       revision |-> revision]),
               !.revisions = Put(@, id, revision),
               !.dirty = TRUE]

\* uninstall, for each of the ids: only an entry that was there makes a change.
UninstallAll(d, ids) ==
  [d EXCEPT !.entries = Drop(@, ids), !.dirty = @ \/ ids \cap DOMAIN d.entries # {}]
Uninstall(d, id) == UninstallAll(d, {id})

\* entry_restorer: what restore_entry puts back, the entry (or its absence)
\* and its revision counter, exactly as they were in the state captured.
RestoreEntry(d, id, captured) ==
  LET put(f, g) == IF id \in DOMAIN g THEN Put(f, id, g[id]) ELSE Drop(f, {id})
  IN [d EXCEPT !.entries = put(@, captured.entries),
               !.revisions = put(@, captured.revisions)]
=============================================================================
