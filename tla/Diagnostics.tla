----------------------------- MODULE Diagnostics -----------------------------
(***************************************************************************)
(* What an operator reads about published generations: the structural diff *)
(* of two of them (diagnostics.py, diff_generations), the pressure report  *)
(* that says which generations keep an instance alive (generation_pressure)*)
(* and the snapshot a run is attributed to (persistence/snapshots.py).     *)
(* Each is worked out on its own from the same generations; the properties *)
(* say that they tell one story, and that it comes true.                   *)
(***************************************************************************)
EXTENDS Planning

-----------------------------------------------------------------------------
(* The structural diff *)

\* The subjects added, removed and changed from one mapping to another.
Difference(before, after) ==
  LET both == DOMAIN before \cap DOMAIN after
  IN [added |-> DOMAIN after \ DOMAIN before, removed |-> DOMAIN before \ DOMAIN after,
      changed |-> {s \in both : before[s] # after[s]}]
Unchanged(difference) == difference.added \cup difference.removed \cup difference.changed = {}

Children(tree, s) == {p \in DOMAIN tree.scopes \ {Root} : Front(p) = s}

\* _diff_scopes: by topology and view; a path fixes its parent.
DiffScopes(old, new) ==
  LET signature(g) == [s \in DOMAIN g.tree.scopes |->
                         [children |-> Children(g.tree, s), terms |-> g.tree.scopes[s].terms]]
  IN Difference(signature(old), signature(new))

\* _diff_providers: unchanged is the same instance of the same implementation.
DiffProviders(old, new) ==
  LET members(g) == [id \in MemberIds(g) |->
                       <<MemberOf(g, id).no, MemberOf(g, id).identity.plugin>>]
  IN Difference(members(old), members(new))

\* _diff_requirements: what each requirement of each scope selected, pending
\* consumers included.
DiffRequirements(old, new) ==
  LET wiring(g) ==
        LET selections == g.tree.selections
            keys == UNION {{<<g.tree.entries[id], id, cap>> : cap \in DOMAIN selections[id]} :
                             id \in DOMAIN selections}
            selected(key) == selections[key[2]][key[3]]
        IN [key \in keys |-> <<selected(key).provider, selected(key).status>>]
  IN Difference(wiring(old), wiring(new))

DiffGenerations(old, new) ==
  [scopes |-> DiffScopes(old, new), providers |-> DiffProviders(old, new),
   requirements |-> DiffRequirements(old, new), nodes |-> Impact(old, new)]

\* is_empty, which leaves the nodes aside.
IsEmpty(diff) ==
  Unchanged(diff.scopes) /\ Unchanged(diff.providers) /\ Unchanged(diff.requirements)

-----------------------------------------------------------------------------
(* Pressure: who keeps an instance alive *)

Leases(g) == IF g = held THEN 1 ELSE 0
InstanceIds(g) == {m.no : m \in Range(g.members)}

\* Mutant of LeasedInstances: a lease on the current generation retains nothing.
LeasedWhenDraining == UNION {InstanceIds(g) : g \in {h \in Generations : Leases(h) > 0 /\ h # current}}
LeasedInstances == UNION {InstanceIds(g) : g \in {h \in Generations : Leases(h) > 0}}

\* A reachable instance, the generations that reach it, and why it stays.
Resource(no) ==
  LET reaching == {g.no : g \in {h \in Generations : no \in InstanceIds(h)}}
  IN [generations |-> reaching,
      retained |-> {why \in {"sharing", "lease"} :
                      \/ why = "sharing" /\ Cardinality(reaching) > 1
                      \/ why = "lease" /\ no \in LeasedInstances}]

GenerationPressure ==
  [current |-> current.no, live |-> Cardinality(Generations),
   draining |-> Cardinality(Generations \ {current}),
   leases |-> Cardinality({g \in Generations : Leases(g) > 0}),
   resources |-> [no \in UNION {InstanceIds(g) : g \in Generations} |-> Resource(no)]]

-----------------------------------------------------------------------------
(* The snapshot of a generation *)

\* The published tree, scope by scope, its providers named by one of their
\* fields.
Fingerprint(g, name) ==
  [s \in DOMAIN g.tree.scopes |->
    LET here == {m \in Range(g.members) : g.tree.entries[m.entry] = s}
        registers(m) == Manifest[m.identity.plugin].registers
    IN [children |-> Children(g.tree, s), scope |-> g.tree.scopes[s],
        selections |-> [id \in {e \in DOMAIN g.tree.entries : g.tree.entries[e] = s} |->
                          g.tree.selections[id]],
        providers |-> [cap \in UNION {registers(m) : m \in here} |->
                         {m[name] : m \in {n \in here : cap \in registers(n)}}]]]

PhysicalScopes(g) == Fingerprint(g, "no")
\* _semantic_scopes: providers named by their entries.
SemanticScopes(g) == Fingerprint(g, "entry")

\* _plugin_graph_hash: the plugins, and who provides to whom among them.
PluginGraph(g) ==
  [nodes |-> {<<m.entry, m.identity.plugin>> : m \in Range(g.members)},
   edges |-> UNION {LET bindings == m.identity.bindings
                    IN {<<bindings[cap].provider, m.entry>> :
                          cap \in {c \in DOMAIN bindings : bindings[c].instance \in InstanceIds(g)}} :
                    m \in Range(g.members)}]

\* _capability_versions: how many registrations each capability has.
CapabilityCounts(g) ==
  LET registers(m) == Manifest[m.identity.plugin].registers
  IN [cap \in UNION {registers(m) : m \in Range(g.members)} |->
        Cardinality({m \in Range(g.members) : cap \in registers(m)})]

\* _config_hash: the configuration of each entry.
ConfigOf(g) == [id \in MemberIds(g) |-> MemberOf(g, id).identity.config]

\* What the physical digest hashes: the instances in activation order.
RuntimeInstances(g) == [i \in DOMAIN g.members |-> g.members[i].no]

NoEntries == {<<None, "none">>}      \* plugin_entries is None

\* from_generation: the generation number stands for its id, sequence and time.
Record(g) ==
  [generation |-> g.no, created |-> g.no,
   plugins |-> {m.identity.plugin : m \in Range(g.members)},
   entries |-> {<<m.entry, m.identity.plugin>> : m \in Range(g.members)},
   capabilities |-> CapabilityCounts(g), config |-> ConfigOf(g), graph |-> PluginGraph(g),
   scopes |-> PhysicalScopes(g), instances |-> RuntimeInstances(g), semantic |-> SemanticScopes(g)]

\* semantic_composition of a record, whose hash is the semantic digest.
SemanticComposition(record) ==
  Restrict(record, {"plugins", "capabilities", "config", "graph", "semantic"}
                     \cup IF record.entries \in {NoEntries, {}} THEN {} ELSE {"entries"})

-----------------------------------------------------------------------------
(* The record on disk: a document has the keys that were written *)

FormatVersion == 1
Written(record) ==
  ("format" :> FormatVersion) @@ Drop(record, {"created"} \cup
                                        IF record.entries = NoEntries THEN {"entries"} ELSE {})

\* The keys that older releases did not write: the first format listed no entries
\* at first, and 0.8.1 declared no format and left the semantic tree out as well.
Lacking ==
  ("now" :> {}) @@ ("1.0.0b1" :> {"entries"}) @@ ("0.8.1" :> {"entries", "format", "semantic"})
WrittenBy(release, record) == Drop(Written(record), Lacking[release])

DeclaredVersion(document) == IF "format" \in DOMAIN document THEN document.format ELSE 0

\* The semantic tree that a recorded tree still tells: provider instances cannot
\* be named by entries any more.
Reconstructed(scopes) == [s \in DOMAIN scopes |-> [scopes[s] EXCEPT !.providers = <<>>]]
Migrated(document) ==
  IF DeclaredVersion(document) = 0
  THEN [format |-> FormatVersion, semantic |-> Reconstructed(document.scopes)] @@ document
  ELSE document

IsCorrupt(document) ==
  \/ ~({"generation", "plugins", "capabilities", "config", "graph", "scopes", "instances",
        "semantic"} \subseteq DOMAIN document)
  \/ "entries" \in DOMAIN document
       /\ Cardinality({e[1] : e \in document.entries}) # Cardinality(document.entries)

\* from_dict; a version that is no natural number is refused as well.
Refused(reason) == [refused |-> reason]
Restored(document) ==
  LET migrated == Migrated(document)
  IN CASE DeclaredVersion(document) > FormatVersion -> Refused("future_version")
       [] IsCorrupt(migrated) -> Refused("corrupted")
       [] OTHER -> Drop(migrated, {"format"}) @@ [created |-> 0, entries |-> NoEntries]

-----------------------------------------------------------------------------
(* Properties *)

Undisturbed(g) == g # NoGeneration /\ ~g.raced /\ Tangled(g) = {}

\* The pressure report comes true: a publication disposes exactly the reported
\* instances nothing retains that it does not carry over, the last release
\* exactly those that its generation alone reaches, and no other step any.
DisposesAsReported ==
  LET resources == GenerationPressure.resources
      live == {i.no : i \in UNION {Range(instances'[id]) : id \in DOMAIN instances'}}
      gone == DOMAIN resources \ live
  IN CASE Publishes ->
            gone = {no \in DOMAIN resources \ InstanceIds(current') : resources[no].retained = {}}
       [] held # NoGeneration /\ held' = NoGeneration ->
            gone = {no \in DOMAIN resources \ InstanceIds(current) :
                      resources[no].generations = {held.no}}
       [] OTHER -> gone = {}
RetentionComesTrue == [][DisposesAsReported]_vars

\* The structural diff omits nothing: it is empty when the two generations have the
\* same instances and show a run the same tree, and then only. The exception is a
\* build that passed an entry over, one uninstalled meanwhile: its tree still lists
\* that entry, and when the next tree no longer does the diff, which compares
\* members and not listed entries, is silent about it.
DiffOmitsNothing ==
  [][Publishes /\ current # NoGeneration =>
       LET same == /\ RuntimeInstances(current) = RuntimeInstances(current')
                   /\ current.tree = current'.tree
           empty == IsEmpty(DiffGenerations(current, current'))
       IN /\ same => empty
          /\ empty /\ ~current.raced /\ ~current'.raced => same]_vars

\* A node is reused exactly when its provider is unchanged, and one whose
\* requirement was rewired was itself rewired or rebuilt.
DiffMatchesImpact ==
  LET diff == DiffGenerations(current, current')
  IN \A id \in MemberIds(current) \cap MemberIds(current') :
       /\ diff.nodes[id].decision = "reused" <=> id \notin diff.providers.changed
       /\ (\E key \in diff.requirements.changed : key[2] = id) =>
             diff.nodes[id].decision \in {"rewired", "rebuilt"}
\* The two halves of a diff agree, though one reads the published trees and the
\* other the identities fixed at mount.
DiffAgreesWithImpact == [][Publishes => DiffMatchesImpact]_vars

\* The digests of two generations say what the diff says: the semantic digest is
\* the same exactly when no node, scope or requirement changed meaning, whatever
\* was rebuilt, and the physical one when every instance was kept.
DigestsTellTheChange ==
  [][Publishes /\ Undisturbed(current) /\ Undisturbed(current') =>
       LET diff == DiffGenerations(current, current')
           kept(decisions) == \A id \in DOMAIN diff.nodes : diff.nodes[id].decision \in decisions
       IN /\ SemanticComposition(Record(current)) = SemanticComposition(Record(current')) <=>
               /\ kept({"reused", "unchanged"})
               /\ Unchanged(diff.scopes) /\ Unchanged(diff.requirements)
          /\ Range(RuntimeInstances(current)) = Range(RuntimeInstances(current')) <=>
               kept({"reused"})]_vars

\* A record survives its document and the formats of older releases: what is
\* read back is the record but for its creation time, a newer or a mutilated
\* document is refused and not guessed (G25 of docs/design.md), and records of two
\* generations that one release wrote have the same semantic digest after reading
\* exactly when they had before writing, although a migrated tree names no
\* provider any more.
RecordsSurvive ==
  [][Publishes =>
       LET alike(x, y) == SemanticComposition(x) = SemanticComposition(y)
       IN \A new \in {Record(current')} :
            /\ Restored(Written(new)) = [new EXCEPT !.created = 0]
            /\ Restored([Written(new) EXCEPT !.format = @ + 1]) = Refused("future_version")
            /\ \A key \in DOMAIN Written(new) \ {"format", "entries"} :
                 Restored(Drop(Written(new), {key})) = Refused("corrupted")
            /\ current # NoGeneration =>
                 \A old \in {Record(current)}, release \in DOMAIN Lacking :
                   alike(Restored(WrittenBy(release, old)), Restored(WrittenBy(release, new)))
                     <=> alike(old, new)]_vars

\* Diff, impact, pressure and digests tell one story of a publication, and it comes
\* true.
ReportsAgree ==
  /\ ImpactFollowsBindings
  /\ RetentionComesTrue
  /\ DiffOmitsNothing
  /\ DiffAgreesWithImpact
  /\ DigestsTellTheChange
  /\ RecordsSurvive
=============================================================================
