-------------------------- MODULE ControlPlaneProofs --------------------------
(***************************************************************************)
(* What the control plane guarantees for any documents, agents, specs,     *)
(* entries, scopes and runs, and any number of calls that land anywhere in *)
(* a reconciliation, not only for the checked instance.                    *)
(***************************************************************************)
EXTENDS ControlPlane, FiniteLemmas, SequenceTheorems

(***************************************************************************)
(* Paths                                                                   *)
(***************************************************************************)

(* The names that occur in paths, and the paths made of them.              *)
Names == UNION {Range(p) : p \in UserScopes \cup {s.scope : s \in Specs}}
Paths == Seq(Names)

(* The scopes that applications declare and the specs name are paths.      *)
LEMMA PathsOfSpecs ==
    /\ Root \in Paths
    /\ \A p \in UserScopes : p \in Paths
    /\ \A s \in Specs : s.scope \in Paths
<1>1. ASSUME NEW p, p \in Seq(Range(p)), Range(p) \subseteq Names PROVE p \in Paths
  BY <1>1 DEF Paths
<1>2. \A p \in UserScopes : p \in Seq(Range(p)) /\ Range(p) \subseteq Names
  BY ControlAssumption DEF Names
<1>3. \A s \in Specs : s.scope \in Seq(Range(s.scope)) /\ Range(s.scope) \subseteq Names
  BY ControlAssumption DEF Names
<1>4. Root \in Paths
  BY DEF Root, Paths
<1> QED BY <1>1, <1>2, <1>3, <1>4

(* A path lies within its ancestors, and those are the ancestors of its    *)
(* ancestors too.                                                          *)
LEMMA LineageFacts ==
    ASSUME NEW p \in Paths
    PROVE  /\ Root \in Lineage(p) /\ p \in Lineage(p)
           /\ \A q \in Lineage(p) : q \in Paths /\ Lineage(q) \subseteq Lineage(p)
           /\ \A a \in Paths : IsWithin(p, a) <=> a \in Lineage(p)
<1>1. Len(p) \in Nat /\ DOMAIN p = 1 .. Len(p) /\ \A i \in 1 .. Len(p) : p[i] \in Names
  BY DEF Paths
<1>2. ASSUME NEW n \in 0 .. Len(p)
      PROVE  /\ SubSeq(p, 1, n) \in Paths /\ Len(SubSeq(p, 1, n)) = n
             /\ \A i \in 1 .. n : SubSeq(p, 1, n)[i] = p[i]
  BY <1>1, <1>2 DEF Paths
<1>3. SubSeq(p, 1, 0) = Root
  BY <1>2 DEF Root, Paths
<1>4. SubSeq(p, 1, Len(p)) = p
  BY <1>1, <1>2 DEF Paths
<1>5. ASSUME NEW q \in Lineage(p) PROVE q \in Paths /\ Lineage(q) \subseteq Lineage(p)
  <2>1. PICK n \in 0 .. Len(p) : q = SubSeq(p, 1, n)
    BY DEF Lineage
  <2>2. q \in Paths /\ Len(q) = n /\ \A i \in 1 .. n : q[i] = p[i]
    BY <1>2, <2>1
  <2>3. ASSUME NEW m \in 0 .. n PROVE SubSeq(q, 1, m) = SubSeq(p, 1, m)
    <3>1. m \in 0 .. Len(p) /\ m \in 0 .. Len(q)
      BY <1>1, <2>2
    <3>2. /\ SubSeq(q, 1, m) \in Seq(Names) /\ Len(SubSeq(q, 1, m)) = m
          /\ \A i \in 1 .. m : SubSeq(q, 1, m)[i] = q[i]
      BY <2>2, <3>1 DEF Paths
    <3>3. /\ SubSeq(p, 1, m) \in Seq(Names) /\ Len(SubSeq(p, 1, m)) = m
          /\ \A i \in 1 .. m : SubSeq(p, 1, m)[i] = p[i]
      BY <1>2, <3>1 DEF Paths
    <3> QED BY <2>2, <3>2, <3>3
  <2>4. \A m \in 0 .. n : m \in 0 .. Len(p)
    BY <1>1
  <2> QED BY <2>2, <2>3, <2>4 DEF Lineage
<1>6. ASSUME NEW a \in Paths PROVE IsWithin(p, a) <=> a \in Lineage(p)
  <2>1. Len(a) \in Nat /\ SubSeq(a, 1, Len(a)) = a
    BY DEF Paths
  <2>2. IsWithin(p, a) <=> Len(a) <= Len(p) /\ a = SubSeq(p, 1, Len(a))
    BY <2>1 DEF IsWithin, IsPrefix
  <2>3. ASSUME a \in Lineage(p) PROVE Len(a) <= Len(p) /\ a = SubSeq(p, 1, Len(a))
    <3>1. PICK n \in 0 .. Len(p) : a = SubSeq(p, 1, n)
      BY <2>3 DEF Lineage
    <3> QED BY <1>1, <1>2, <3>1
  <2>4. ASSUME Len(a) <= Len(p), a = SubSeq(p, 1, Len(a)) PROVE a \in Lineage(p)
    <3>1. Len(a) \in 0 .. Len(p)
      BY ONLY <1>1, <2>1, <2>4
    <3>2. a \in {SubSeq(p, 1, n) : n \in 0 .. Len(p)}
      BY ONLY <2>4, <3>1
    <3> QED BY <3>2 DEF Lineage
  <2> QED BY <2>2, <2>3, <2>4
<1>7. 0 \in 0 .. Len(p) /\ Len(p) \in 0 .. Len(p)
  BY <1>1
<1> QED BY <1>3, <1>4, <1>5, <1>6, <1>7 DEF Lineage

(***************************************************************************)
(* Desired states                                                          *)
(***************************************************************************)

(* A function, whatever its domain.                                        *)
IsFcn(f) == f = [x \in DOMAIN f |-> f[x]]

(* A tree of scopes: all below the root, each under its ancestors.         *)
Tree(D) ==
    /\ IsFcn(D.scopes)
    /\ Root \in DOMAIN D.scopes /\ DOMAIN D.scopes \subseteq Paths
    /\ \A p \in DOMAIN D.scopes :
         /\ Lineage(p) \subseteq DOMAIN D.scopes
         /\ DOMAIN D.scopes[p] = {"terms", "agent", "revision"}

(* The registry: the entries installed and the counter of every id.        *)
Registry(D) ==
    /\ IsFcn(D.entries) /\ IsFcn(D.revisions)
    /\ IsFiniteSet(DOMAIN D.entries) /\ DOMAIN D.entries \subseteq DOMAIN D.revisions
    /\ \A id \in DOMAIN D.revisions : D.revisions[id] \in Nat
    /\ \A id \in DOMAIN D.entries :
         /\ DOMAIN D.entries[id] = {"plugin", "config", "scope", "revision"}
         /\ D.entries[id].revision = D.revisions[id]

(* Every entry has its scope.                                              *)
Housed(D) == \A id \in DOMAIN D.entries : D.entries[id].scope \in DOMAIN D.scopes

(* A sound desired state.                                                  *)
Desired(D) ==
    /\ DOMAIN D = {"scopes", "entries", "revisions", "dirty"}
    /\ D.dirty \in BOOLEAN
    /\ Tree(D) /\ Registry(D) /\ Housed(D)

(* E comes after D: an entry of E is the one that D has or a later         *)
(* revision than any of D's; counters never go back; and what changed is   *)
(* pending.                                                                *)
Follows(D, E) ==
    /\ \A id \in DOMAIN E.entries :
         \/ id \in DOMAIN D.entries /\ E.entries[id] = D.entries[id]
         \/ E.entries[id].revision > RevisionOf(D, id)
    /\ \A id : RevisionOf(D, id) <= RevisionOf(E, id)
    /\ E.dirty \/ (~D.dirty /\ E.scopes = D.scopes /\ E.entries = D.entries)

(* The same tree and the same registry; only the pending flag may differ.  *)
Same(D, E) ==
    /\ DOMAIN E = {"scopes", "entries", "revisions", "dirty"}
    /\ E.scopes = D.scopes /\ E.entries = D.entries /\ E.revisions = D.revisions

(* The counter of an id is a number, and it is what the entry carries      *)
(* (registry.py _next_revision).                                           *)
LEMMA RevisionTyped ==
    ASSUME NEW D, Desired(D), NEW id
    PROVE  /\ RevisionOf(D, id) \in Nat
           /\ id \in DOMAIN D.entries => D.entries[id].revision = RevisionOf(D, id)
BY DEF Desired, Registry, RevisionOf

(* A call that changes nothing goes on from what it found.                 *)
LEMMA FollowsItself ==
    ASSUME NEW D, Desired(D)
    PROVE  Follows(D, D)
BY RevisionTyped DEF Follows, Desired

(* Calls one after the other go on from where the first began.             *)
LEMMA FollowsOn ==
    ASSUME NEW D, NEW E, NEW F, Desired(D), Desired(E), Desired(F), Follows(D, E), Follows(E, F)
    PROVE  Follows(D, F)
<1>1. \A id : /\ RevisionOf(D, id) \in Nat /\ RevisionOf(E, id) \in Nat /\ RevisionOf(F, id) \in Nat
              /\ RevisionOf(D, id) <= RevisionOf(E, id) /\ RevisionOf(E, id) <= RevisionOf(F, id)
  BY RevisionTyped DEF Follows
<1>2. \A id : RevisionOf(D, id) <= RevisionOf(F, id)
  BY <1>1
<1>3. ASSUME NEW id \in DOMAIN F.entries
      PROVE  \/ id \in DOMAIN D.entries /\ F.entries[id] = D.entries[id]
             \/ F.entries[id].revision > RevisionOf(D, id)
  <2>1. CASE id \in DOMAIN E.entries /\ F.entries[id] = E.entries[id]
    BY <2>1 DEF Follows
  <2>2. CASE F.entries[id].revision > RevisionOf(E, id)
    <3>1. F.entries[id].revision \in Nat
      BY RevisionTyped
    <3> QED BY <1>1, <2>2, <3>1
  <2> QED BY <2>1, <2>2 DEF Follows
<1>4. F.dirty \/ (~D.dirty /\ F.scopes = D.scopes /\ F.entries = D.entries)
  BY DEF Follows
<1> QED BY <1>2, <1>3, <1>4 DEF Follows

(***************************************************************************)
(* The operations on the tree                                              *)
(***************************************************************************)

(* ensure (composition.py) creates the scope and its missing ancestors,    *)
(* bare, and leaves every scope and entry there was.                       *)
LEMMA Ensured ==
    ASSUME NEW D, Desired(D), NEW path \in Paths, NEW E, E = Ensure(D, path)
    PROVE  /\ Desired(E) /\ Follows(D, E)
           /\ E.entries = D.entries /\ E.revisions = D.revisions
           /\ DOMAIN E.scopes = DOMAIN D.scopes \cup Lineage(path) /\ HasScope(E, path)
           /\ \A p \in DOMAIN D.scopes : E.scopes[p] = D.scopes[p]
           /\ \A p \in DOMAIN E.scopes \ DOMAIN D.scopes : E.scopes[p] = Bare
           /\ HasScope(D, path) => E = D
<1>0. Lineage(path) \subseteq Paths /\ path \in Lineage(path)
      /\ \A q \in Lineage(path) : Lineage(q) \subseteq Lineage(path)
  BY LineageFacts
<1>1. CASE HasScope(D, path)
  <2>1. E = D
    BY <1>1 DEF Ensure
  <2>2. Lineage(path) \subseteq DOMAIN D.scopes
    BY <1>1 DEF Desired, Tree, HasScope
  <2> QED BY <1>1, <2>1, <2>2, FollowsItself DEF HasScope
<1>2. CASE ~HasScope(D, path)
  <2>1. /\ DOMAIN E = {"scopes", "entries", "revisions", "dirty"}
        /\ E.scopes = [p \in DOMAIN D.scopes \cup Lineage(path) |->
                         IF p \in DOMAIN D.scopes THEN D.scopes[p] ELSE Bare]
        /\ E.entries = D.entries /\ E.revisions = D.revisions /\ E.dirty = TRUE
    BY <1>2 DEF Ensure, Desired
  <2>2. /\ DOMAIN E.scopes = DOMAIN D.scopes \cup Lineage(path)
        /\ \A p \in DOMAIN D.scopes : E.scopes[p] = D.scopes[p]
        /\ \A p \in DOMAIN E.scopes \ DOMAIN D.scopes : E.scopes[p] = Bare
        /\ IsFcn(E.scopes)
    BY <2>1 DEF IsFcn
  <2>3. DOMAIN Bare = {"terms", "agent", "revision"}
    BY DEF Bare
  <2>4. Tree(E)
    BY <1>0, <2>2, <2>3 DEF Tree, Desired
  <2>5. Registry(E) /\ Housed(E)
    BY <2>1, <2>2 DEF Registry, Housed, Desired
  <2>6. Follows(D, E)
    BY <2>1, FollowsItself DEF Follows, RevisionOf
  <2> QED BY <1>0, <1>2, <2>1, <2>2, <2>4, <2>5, <2>6 DEF Desired, HasScope
<1> QED BY <1>1, <1>2

(* The setters of a scope change that scope alone, and leave a change      *)
(* pending.                                                                *)
LEMMA ScopeSet ==
    ASSUME NEW D, Desired(D), NEW path, HasScope(D, path), NEW scope,
           DOMAIN scope = {"terms", "agent", "revision"}, NEW E, E = SetScope(D, path, scope)
    PROVE  /\ Desired(E) /\ Follows(D, E)
           /\ E.entries = D.entries /\ E.revisions = D.revisions
           /\ DOMAIN E.scopes = DOMAIN D.scopes /\ E.scopes[path] = scope
           /\ \A p \in DOMAIN D.scopes : p # path => E.scopes[p] = D.scopes[p]
<1>1. /\ DOMAIN E = {"scopes", "entries", "revisions", "dirty"}
      /\ E.scopes = [D.scopes EXCEPT ![path] = scope]
      /\ E.entries = D.entries /\ E.revisions = D.revisions /\ E.dirty = TRUE
  BY DEF SetScope, Desired
<1>2. /\ DOMAIN E.scopes = DOMAIN D.scopes /\ E.scopes[path] = scope
      /\ \A p \in DOMAIN D.scopes : p # path => E.scopes[p] = D.scopes[p]
      /\ IsFcn(E.scopes)
  BY <1>1 DEF HasScope, IsFcn
<1>3. Tree(E)
  BY <1>2 DEF Tree, Desired, HasScope
<1>4. Registry(E) /\ Housed(E)
  BY <1>1, <1>2 DEF Registry, Housed, Desired
<1>5. Follows(D, E)
  BY <1>1, FollowsItself DEF Follows, RevisionOf
<1> QED BY <1>1, <1>2, <1>3, <1>4, <1>5 DEF Desired

(* remove (composition.py) takes the scope with its descendants and their  *)
(* entries: the tree stays closed, no entry is left without a scope,       *)
(* everything elsewhere stays.                                             *)
LEMMA ScopeRemoved ==
    ASSUME NEW D, Desired(D), NEW path \in Paths, path # Root, NEW E, E = RemoveScope(D, path)
    PROVE  /\ Desired(E) /\ Follows(D, E)
           /\ E.revisions = D.revisions
           /\ DOMAIN E.entries = {id \in DOMAIN D.entries : ~IsWithin(D.entries[id].scope, path)}
           /\ \A id \in DOMAIN E.entries : E.entries[id] = D.entries[id]
           /\ DOMAIN E.scopes = {p \in DOMAIN D.scopes : ~IsWithin(p, path)}
           /\ \A p \in DOMAIN E.scopes : E.scopes[p] = D.scopes[p]
           /\ ~HasScope(E, path)
<1>0. /\ \A p \in DOMAIN D.scopes : IsWithin(p, path) <=> path \in Lineage(p)
      /\ IsWithin(path, path) /\ ~IsWithin(Root, path)
  <2>1. \A p \in Paths : IsWithin(p, path) <=> path \in Lineage(p)
    BY LineageFacts
  <2>2. Root \in Paths /\ path \in Lineage(path)
    BY LineageFacts, PathsOfSpecs
  <2>3. Lineage(Root) = {Root}
    <3>1. SubSeq(<<>>, 1, 0) = <<>> /\ Len(<<>>) = 0
      OBVIOUS
    <3>2. 0 .. 0 = {0}
      OBVIOUS
    <3> QED BY ONLY <3>1, <3>2 DEF Lineage, Root
  <2> QED BY <2>1, <2>2, <2>3 DEF Desired, Tree
<1>1. CASE ~HasScope(D, path)
  <2>1. E = D
    BY <1>1 DEF RemoveScope
  <2>2. \A p \in DOMAIN D.scopes : ~IsWithin(p, path)
    BY <1>0, <1>1 DEF Desired, Tree, HasScope
  <2>3. \A id \in DOMAIN D.entries : ~IsWithin(D.entries[id].scope, path)
    BY <2>2 DEF Desired, Housed
  <2> QED BY <1>1, <2>1, <2>2, <2>3, FollowsItself
<1>2. CASE HasScope(D, path)
  <2>1. /\ DOMAIN E = {"scopes", "entries", "revisions", "dirty"}
        /\ E.scopes = Drop(D.scopes, {p \in DOMAIN D.scopes : IsWithin(p, path)})
        /\ E.entries = Drop(D.entries, EntriesWithin(D, path))
        /\ E.revisions = D.revisions /\ E.dirty = TRUE
    BY <1>2 DEF RemoveScope, Desired
  <2>2. /\ DOMAIN E.scopes = {p \in DOMAIN D.scopes : ~IsWithin(p, path)}
        /\ \A p \in DOMAIN E.scopes : E.scopes[p] = D.scopes[p]
        /\ IsFcn(E.scopes)
    BY <2>1 DEF Drop, IsFcn
  <2>3. /\ DOMAIN E.entries = {id \in DOMAIN D.entries : ~IsWithin(D.entries[id].scope, path)}
        /\ \A id \in DOMAIN E.entries : E.entries[id] = D.entries[id]
        /\ IsFcn(E.entries)
    BY <2>1 DEF Drop, IsFcn, EntriesWithin
  <2>4. Tree(E)
    <3>1. Root \in DOMAIN E.scopes /\ DOMAIN E.scopes \subseteq Paths
      BY <1>0, <2>2 DEF Desired, Tree
    <3>2. ASSUME NEW p \in DOMAIN E.scopes PROVE Lineage(p) \subseteq DOMAIN E.scopes
      <4>1. p \in DOMAIN D.scopes /\ p \in Paths /\ path \notin Lineage(p)
        BY <1>0, <2>2 DEF Desired, Tree
      <4>2. Lineage(p) \subseteq DOMAIN D.scopes
        BY <4>1 DEF Desired, Tree
      <4>3. \A q \in Lineage(p) : Lineage(q) \subseteq Lineage(p)
        BY <4>1, LineageFacts
      <4> QED BY <1>0, <2>2, <4>1, <4>2, <4>3
    <3> QED BY <2>2, <3>1, <3>2 DEF Tree, Desired
  <2>5. IsFiniteSet(DOMAIN E.entries)
    <3>1. DOMAIN E.entries \in SUBSET DOMAIN D.entries
      BY <2>3
    <3> QED BY <3>1, FS_Subset DEF Desired, Registry
  <2>6. Registry(E) /\ Housed(E)
    BY <2>1, <2>2, <2>3, <2>5 DEF Registry, Housed, Desired
  <2>7. Follows(D, E)
    <3>1. \A id : RevisionOf(E, id) = RevisionOf(D, id)
      BY <2>1 DEF RevisionOf
    <3> QED BY <2>1, <2>3, <3>1, RevisionTyped DEF Follows
  <2> QED BY <1>0, <2>1, <2>2, <2>3, <2>4, <2>6, <2>7 DEF Desired, HasScope
<1> QED BY <1>1, <1>2

(***************************************************************************)
(* The operations on the registry                                          *)
(***************************************************************************)

(* install (registry.py) gives the entry the next revision of its id and   *)
(* leaves the other entries.                                               *)
LEMMA EntryInstalled ==
    ASSUME NEW D, Desired(D), NEW id, NEW plugin, NEW config, NEW scope \in DOMAIN D.scopes,
           NEW E, E = InstallEntry(D, id, plugin, config, scope)
    PROVE  /\ Desired(E) /\ Follows(D, E)
           /\ E.scopes = D.scopes
           /\ DOMAIN E.entries = DOMAIN D.entries \cup {id}
           /\ DOMAIN E.revisions = DOMAIN D.revisions \cup {id}
           /\ E.entries[id] = [plugin |-> plugin, config |-> config, scope |-> scope,
                               revision |-> RevisionOf(D, id) + 1]
           /\ \A x \in DOMAIN D.entries : x # id => E.entries[x] = D.entries[x]
           /\ \A x \in DOMAIN D.revisions : x # id => E.revisions[x] = D.revisions[x]
<1> DEFINE rev == RevisionOf(D, id) + 1
           new == [plugin |-> plugin, config |-> config, scope |-> scope, revision |-> rev]
<1>0. RevisionOf(D, id) \in Nat /\ rev \in Nat
  BY RevisionTyped
<1>1. /\ DOMAIN E = {"scopes", "entries", "revisions", "dirty"}
      /\ E.scopes = D.scopes /\ E.dirty = TRUE
      /\ E.entries = Put(D.entries, id, new) /\ E.revisions = Put(D.revisions, id, rev)
  BY DEF InstallEntry, Desired
<1>2. /\ DOMAIN new = {"plugin", "config", "scope", "revision"}
      /\ new.scope = scope /\ new.revision = rev
  OBVIOUS
<1> HIDE DEF new, rev
<1>3. /\ DOMAIN E.entries = DOMAIN D.entries \cup {id} /\ E.entries[id] = new
      /\ \A x \in DOMAIN D.entries : x # id => E.entries[x] = D.entries[x]
      /\ IsFcn(E.entries)
  BY <1>1 DEF Put, IsFcn
<1>4. /\ DOMAIN E.revisions = DOMAIN D.revisions \cup {id} /\ E.revisions[id] = rev
      /\ \A x \in DOMAIN D.revisions : x # id => E.revisions[x] = D.revisions[x]
      /\ IsFcn(E.revisions)
  BY <1>1 DEF Put, IsFcn
<1>5. IsFiniteSet(DOMAIN E.entries)
  BY <1>3, FS_AddElement DEF Desired, Registry
<1>6. Registry(E)
  BY <1>0, <1>2, <1>3, <1>4, <1>5 DEF Registry, Desired
<1>7. Tree(E) /\ Housed(E)
  BY <1>1, <1>2, <1>3 DEF Tree, Housed, Desired
<1>8. Follows(D, E)
  <2>1. \A x : x # id => RevisionOf(E, x) = RevisionOf(D, x)
    BY <1>4 DEF RevisionOf
  <2>2. RevisionOf(E, id) = rev /\ rev > RevisionOf(D, id)
    BY <1>0, <1>4 DEF RevisionOf, rev
  <2>3. \A x : RevisionOf(D, x) <= RevisionOf(E, x)
    BY <1>0, <2>1, <2>2, RevisionTyped
  <2> QED BY <1>1, <1>2, <1>3, <2>2, <2>3 DEF Follows
<1>9. E.entries[id] = [plugin |-> plugin, config |-> config, scope |-> scope,
                       revision |-> RevisionOf(D, id) + 1]
  BY <1>3 DEF new, rev
<1> QED BY <1>1, <1>3, <1>4, <1>6, <1>7, <1>8, <1>9 DEF Desired

(* uninstall (registry.py) takes the entries, keeps their counters, and    *)
(* leaves the others.                                                      *)
LEMMA EntriesUninstalled ==
    ASSUME NEW D, Desired(D), NEW ids, NEW E, E = UninstallAll(D, ids)
    PROVE  /\ Desired(E) /\ Follows(D, E)
           /\ E.scopes = D.scopes /\ E.revisions = D.revisions
           /\ DOMAIN E.entries = DOMAIN D.entries \ ids
           /\ \A x \in DOMAIN E.entries : E.entries[x] = D.entries[x]
<1>1. /\ DOMAIN E = {"scopes", "entries", "revisions", "dirty"}
      /\ E.scopes = D.scopes /\ E.dirty = (D.dirty \/ ids \cap DOMAIN D.entries # {})
      /\ E.entries = Drop(D.entries, ids) /\ E.revisions = D.revisions
  BY DEF UninstallAll, Desired
<1>2. /\ DOMAIN E.entries = DOMAIN D.entries \ ids
      /\ \A x \in DOMAIN E.entries : E.entries[x] = D.entries[x]
      /\ IsFcn(E.entries)
  BY <1>1 DEF Drop, IsFcn
<1>3. IsFiniteSet(DOMAIN E.entries)
  <2>1. DOMAIN E.entries \in SUBSET DOMAIN D.entries
    BY <1>2
  <2> QED BY <2>1, FS_Subset DEF Desired, Registry
<1>4. Tree(E) /\ Registry(E) /\ Housed(E)
  BY <1>1, <1>2, <1>3 DEF Tree, Registry, Housed, Desired
<1>5. E.dirty \in BOOLEAN
  BY <1>1
<1>6. Follows(D, E)
  <2>1. \A x : RevisionOf(E, x) = RevisionOf(D, x)
    BY <1>1 DEF RevisionOf
  <2>2. E.dirty \/ (~D.dirty /\ E.scopes = D.scopes /\ E.entries = D.entries)
    <3>1. CASE ids \cap DOMAIN D.entries = {}
      <4>1. DOMAIN E.entries = DOMAIN D.entries
        BY <1>2, <3>1
      <4>2. E.entries = D.entries
        BY <1>2, <4>1 DEF IsFcn, Desired, Registry
      <4> QED BY <1>1, <4>2 DEF Desired
    <3>2. CASE ids \cap DOMAIN D.entries # {}
      BY <1>1, <3>2
    <3> QED BY <3>1, <3>2
  <2> QED BY <1>2, <2>1, <2>2, RevisionTyped DEF Follows
<1> QED BY <1>1, <1>2, <1>4, <1>5, <1>6 DEF Desired

(* A change whose entry has its scope.                                     *)
Sound(change, D) == change.to = Gone \/ change.to.scope \in DOMAIN D.scopes

(* One change of a transaction makes of its entry what it asks for and     *)
(* leaves the others.                                                      *)
LEMMA ChangeApplied ==
    ASSUME NEW D, Desired(D), NEW change, Sound(change, D), NEW E, E = Apply(D, change)
    PROVE  /\ Desired(E) /\ Follows(D, E)
           /\ E.scopes = D.scopes
           /\ \A x : x # change.id => /\ x \in DOMAIN E.entries <=> x \in DOMAIN D.entries
                                      /\ x \in DOMAIN E.revisions <=> x \in DOMAIN D.revisions
           /\ \A x \in DOMAIN D.entries : x # change.id => E.entries[x] = D.entries[x]
           /\ \A x \in DOMAIN D.revisions : x # change.id => E.revisions[x] = D.revisions[x]
           /\ change.id \in DOMAIN E.entries <=> change.to # Gone
           /\ change.to # Gone =>
                /\ E.entries[change.id].plugin = change.to.plugin
                /\ E.entries[change.id].config = change.to.config
                /\ E.entries[change.id].scope = change.to.scope
<1>1. CASE change.to = Gone
  <2>1. E = UninstallAll(D, {change.id})
    BY <1>1 DEF Apply, Uninstall
  <2> QED BY <1>1, <2>1, EntriesUninstalled
<1>2. CASE change.to # Gone
  <2>1. E = InstallEntry(D, change.id, change.to.plugin, change.to.config, change.to.scope)
    BY <1>2 DEF Apply
  <2>2. change.to.scope \in DOMAIN D.scopes
    BY <1>2 DEF Sound
  <2>3. /\ Desired(E) /\ Follows(D, E) /\ E.scopes = D.scopes
        /\ DOMAIN E.entries = DOMAIN D.entries \cup {change.id}
        /\ DOMAIN E.revisions = DOMAIN D.revisions \cup {change.id}
        /\ E.entries[change.id] =
             [plugin |-> change.to.plugin, config |-> change.to.config,
              scope |-> change.to.scope, revision |-> RevisionOf(D, change.id) + 1]
        /\ \A x \in DOMAIN D.entries : x # change.id => E.entries[x] = D.entries[x]
        /\ \A x \in DOMAIN D.revisions : x # change.id => E.revisions[x] = D.revisions[x]
    BY <2>1, <2>2, EntryInstalled
  <2>4. /\ E.entries[change.id].plugin = change.to.plugin
        /\ E.entries[change.id].config = change.to.config
        /\ E.entries[change.id].scope = change.to.scope
    BY <2>3
  <2> QED BY <1>2, <2>3, <2>4
<1> QED BY <1>1, <1>2

(* A restorer of the undo list (registry.py capture) takes back the one    *)
(* change made after it was captured: entry and counter are what they      *)
(* were.                                                                   *)
LEMMA Restored ==
    ASSUME NEW D, Desired(D), NEW change, Sound(change, D), NEW E, Same(Apply(D, change), E)
    PROVE  Same(D, RestoreEntry(E, change.id, D))
<1> DEFINE A == Apply(D, change)
           R == RestoreEntry(E, change.id, D)
<1>0. A = Apply(D, change)
  OBVIOUS
<1> HIDE DEF A
<1>1. /\ Desired(A) /\ A.scopes = D.scopes
      /\ \A x : x # change.id => /\ x \in DOMAIN A.entries <=> x \in DOMAIN D.entries
                                 /\ x \in DOMAIN A.revisions <=> x \in DOMAIN D.revisions
      /\ \A x \in DOMAIN D.entries : x # change.id => A.entries[x] = D.entries[x]
      /\ \A x \in DOMAIN D.revisions : x # change.id => A.revisions[x] = D.revisions[x]
  BY <1>0, ChangeApplied
<1>2. /\ DOMAIN E = {"scopes", "entries", "revisions", "dirty"}
      /\ E.scopes = D.scopes /\ E.entries = A.entries /\ E.revisions = A.revisions
  BY <1>0, <1>1 DEF Same
<1>3. /\ DOMAIN R = {"scopes", "entries", "revisions", "dirty"}
      /\ R.scopes = D.scopes
      /\ R.entries = IF change.id \in DOMAIN D.entries
                     THEN Put(A.entries, change.id, D.entries[change.id])
                     ELSE Drop(A.entries, {change.id})
      /\ R.revisions = IF change.id \in DOMAIN D.revisions
                       THEN Put(A.revisions, change.id, D.revisions[change.id])
                       ELSE Drop(A.revisions, {change.id})
  BY <1>2 DEF RestoreEntry
<1> HIDE DEF R
<1>4. /\ DOMAIN R.entries = DOMAIN D.entries /\ IsFcn(R.entries)
      /\ \A x \in DOMAIN D.entries : R.entries[x] = D.entries[x]
  <2>1. CASE change.id \in DOMAIN D.entries
    BY <1>1, <1>3, <2>1 DEF Put, IsFcn
  <2>2. CASE change.id \notin DOMAIN D.entries
    BY <1>1, <1>3, <2>2 DEF Drop, IsFcn
  <2> QED BY <2>1, <2>2
<1>5. R.entries = D.entries
  BY <1>4 DEF IsFcn, Desired, Registry
<1>6. /\ DOMAIN R.revisions = DOMAIN D.revisions /\ IsFcn(R.revisions)
      /\ \A x \in DOMAIN D.revisions : R.revisions[x] = D.revisions[x]
  <2>1. CASE change.id \in DOMAIN D.revisions
    BY <1>1, <1>3, <2>1 DEF Put, IsFcn
  <2>2. CASE change.id \notin DOMAIN D.revisions
    BY <1>1, <1>3, <2>2 DEF Drop, IsFcn
  <2> QED BY <2>1, <2>2
<1>7. R.revisions = D.revisions
  BY <1>6 DEF IsFcn, Desired, Registry
<1> QED BY <1>3, <1>5, <1>7 DEF Same, R

(***************************************************************************)
(* Transactions                                                            *)
(***************************************************************************)

(* The states that changes lead through.                                   *)
ForthStep(f, D, changes, i) == IF i = 0 THEN D ELSE Apply(f[i - 1], changes[i])
IsForth(f, D, changes, n) == f = [i \in 0 .. n |-> ForthStep(f, D, changes, i)]

(* There is the sequence of the states that changes lead through.          *)
LEMMA ForthExists ==
    ASSUME NEW D, NEW changes, NEW n \in Nat
    PROVE  \E f : IsForth(f, D, changes, n)
<1> DEFINE Steps(f, m) == f = [i \in 0 .. m |-> ForthStep(f, D, changes, i)]
           T == {m \in 0 .. n : \E f : Steps(f, m)}
<1>1. 0 \in T
  <2>1. Steps([i \in 0 .. 0 |-> D], 0)
    BY DEF ForthStep
  <2>2. 0 \in 0 .. n
    OBVIOUS
  <2> HIDE DEF Steps
  <2> QED BY <2>1, <2>2
<1>2. ASSUME NEW m \in 0 .. (n - 1), m \in T PROVE m + 1 \in T
  <2>1. PICK f : Steps(f, m)
    BY <1>2
  <2> DEFINE g == [i \in 0 .. (m + 1) |-> IF i = m + 1 THEN Apply(f[m], changes[m + 1]) ELSE f[i]]
  <2>2. \A i \in 0 .. m : g[i] = f[i] /\ f[i] = ForthStep(f, D, changes, i)
    BY <2>1
  <2>3. ASSUME NEW i \in 0 .. (m + 1) PROVE g[i] = ForthStep(g, D, changes, i)
    <3>1. CASE i = m + 1
      <4>1. /\ g[i] = Apply(f[m], changes[m + 1]) /\ g[m] = f[m]
            /\ i - 1 = m /\ i # 0
        BY <2>2, <3>1
      <4> HIDE DEF g
      <4> QED BY <3>1, <4>1 DEF ForthStep
    <3>2. CASE i = 0
      <4>1. 0 \in 0 .. m
        OBVIOUS
      <4> HIDE DEF g
      <4> QED BY <2>2, <3>2, <4>1 DEF ForthStep
    <3>3. CASE i # m + 1 /\ i # 0
      <4>1. i \in 0 .. m /\ i - 1 \in 0 .. m
        BY <3>3
      <4> HIDE DEF g
      <4> QED BY <2>2, <3>3, <4>1 DEF ForthStep
    <3> QED BY <3>1, <3>2, <3>3
  <2>4. g = [i \in 0 .. (m + 1) |-> g[i]]
    OBVIOUS
  <2>5. Steps(g, m + 1)
    <3> HIDE DEF g
    <3> QED BY <2>3, <2>4
  <2> HIDE DEF Steps
  <2> QED BY <2>5
<1>3. n \in T
  <2> HIDE DEF T
  <2> QED BY <1>1, <1>2, CountUp
<1> QED BY <1>3 DEF IsForth

(* And back: the states that the restorers lead through.                   *)
BackStep(f, forth, changes, n, i) ==
    IF i = n THEN forth[n] ELSE RestoreEntry(f[i + 1], changes[i + 1].id, forth[i])
IsBack(f, forth, changes, n) == f = [i \in 0 .. n |-> BackStep(f, forth, changes, n, i)]

(* There is the sequence of the states that the undo list leads back       *)
(* through.                                                                *)
LEMMA BackExists ==
    ASSUME NEW forth, NEW changes, NEW n \in Nat
    PROVE  \E f : IsBack(f, forth, changes, n)
<1> DEFINE Steps(f, m) == f = [i \in m .. n |-> BackStep(f, forth, changes, n, i)]
           T == {k \in 0 .. n : \E f : Steps(f, n - k)}
<1>1. 0 \in T
  <2>1. Steps([i \in n .. n |-> forth[n]], n)
    BY DEF BackStep
  <2>2. 0 \in 0 .. n /\ n - 0 = n
    OBVIOUS
  <2> HIDE DEF Steps
  <2> QED BY <2>1, <2>2
<1>2. ASSUME NEW k \in 0 .. (n - 1), k \in T PROVE k + 1 \in T
  <2>1. PICK f : Steps(f, n - k)
    BY <1>2
  <2>2. PICK m : m = n - (k + 1)
    OBVIOUS
  <2>3. m \in 0 .. (n - 1) /\ n - k = m + 1
    BY <2>2
  <2> DEFINE g == [i \in m .. n |-> IF i = m THEN RestoreEntry(f[m + 1], changes[m + 1].id, forth[m])
                                    ELSE f[i]]
  <2>4. \A i \in (m + 1) .. n : g[i] = f[i] /\ f[i] = BackStep(f, forth, changes, n, i)
    BY <2>1, <2>3
  <2>5. ASSUME NEW i \in m .. n PROVE g[i] = BackStep(g, forth, changes, n, i)
    <3>1. CASE i = m
      <4>1. /\ g[i] = RestoreEntry(f[m + 1], changes[m + 1].id, forth[m])
            /\ g[m + 1] = f[m + 1] /\ m # n
        BY <2>3, <2>4, <3>1
      <4> HIDE DEF g
      <4> QED BY <3>1, <4>1 DEF BackStep
    <3>2. CASE i = n
      <4>1. n \in (m + 1) .. n
        BY <2>3
      <4> HIDE DEF g
      <4> QED BY <2>4, <3>2, <4>1 DEF BackStep
    <3>3. CASE i # m /\ i # n
      <4>1. i \in (m + 1) .. n /\ i + 1 \in (m + 1) .. n
        BY <2>3, <3>3
      <4> HIDE DEF g
      <4> QED BY <2>4, <3>3, <4>1 DEF BackStep
    <3> QED BY <3>1, <3>2, <3>3
  <2>6. g = [i \in m .. n |-> g[i]]
    OBVIOUS
  <2>7. Steps(g, n - (k + 1))
    <3> HIDE DEF g
    <3> QED BY <2>2, <2>5, <2>6
  <2> HIDE DEF Steps
  <2> QED BY <2>7
<1>3. n \in T
  <2> HIDE DEF T
  <2> QED BY <1>1, <1>2, CountUp
<1>4. n - n = 0
  OBVIOUS
<1> QED BY <1>3, <1>4 DEF IsBack

(* A transaction goes forth through the states that its changes lead to,   *)
(* and back through them.                                                  *)
Passes(D, changes, t, n, forth, back) ==
    /\ forth[0] = D /\ t.done = forth[n]
    /\ \A i \in 0 .. (n - 1) : forth[i + 1] = Apply(forth[i], changes[i + 1])
    /\ back[n] = forth[n] /\ t.undone = back[0]
    /\ \A i \in 0 .. (n - 1) : back[i] = RestoreEntry(back[i + 1], changes[i + 1].id, forth[i])
    /\ t.ok <=> n = Len(changes)

(* A transaction (harness.py apply_config, agents.py _materialize) is      *)
(* these two sequences, as far as its first failing change.                *)
LEMMA TransactionPasses ==
    ASSUME NEW D, NEW changes, Len(changes) \in Nat, DOMAIN changes = 1 .. Len(changes),
           NEW t, t = Transaction(D, changes)
    PROVE  \E n \in 0 .. Len(changes) : \E forth, back :
               Passes(D, changes, t, n, forth, back)
<1> DEFINE bad == {i \in DOMAIN changes : Fails(changes[i])}
           n == IF bad = {} THEN Len(changes) ELSE Min(bad) - 1
           forth == CHOOSE f : IsForth(f, D, changes, n)
           back == CHOOSE f : IsBack(f, forth, changes, n)
<1>1. t = [ok |-> bad = {}, done |-> forth[n], undone |-> back[0]]
  BY DEF Transaction, IsForth, IsBack, ForthStep, BackStep
<1>2. n \in 0 .. Len(changes) /\ (bad = {} <=> n = Len(changes))
  <2>1. CASE bad = {}
    BY <2>1
  <2>2. CASE bad # {}
    <3>1. bad \in SUBSET Nat
      OBVIOUS
    <3>2. Min(bad) \in bad
      <4> HIDE DEF bad
      <4> QED BY <2>2, <3>1, LeastMember
    <3> QED BY <2>2, <3>2
  <2> QED BY <2>1, <2>2
<1> HIDE DEF bad
<1>3. \A k \in 0 .. Len(changes) : k \in Nat
  OBVIOUS
<1>4. IsForth(forth, D, changes, n)
  <2> HIDE DEF n
  <2>1. \E f : IsForth(f, D, changes, n)
    BY <1>2, <1>3, ForthExists
  <2> QED BY <2>1
<1>5. IsBack(back, forth, changes, n)
  <2> HIDE DEF n, forth
  <2>1. \E f : IsBack(f, forth, changes, n)
    BY <1>2, <1>3, BackExists
  <2> QED BY <2>1
<1> HIDE DEF forth, back, n
<1>6. 0 \in 0 .. n /\ n \in 0 .. n
      /\ \A i \in 0 .. (n - 1) : /\ i \in 0 .. n /\ i + 1 \in 0 .. n
                                    /\ i # n /\ i + 1 # 0 /\ (i + 1) - 1 = i
  BY ONLY <1>2, <1>3
<1>7. forth[0] = D /\ \A i \in 0 .. (n - 1) : forth[i + 1] = Apply(forth[i], changes[i + 1])
  <2>1. \A i \in 0 .. n : forth[i] = ForthStep(forth, D, changes, i)
    BY <1>4 DEF IsForth
  <2> QED BY <1>6, <2>1 DEF ForthStep
<1>8. /\ back[n] = forth[n]
      /\ \A i \in 0 .. (n - 1) : back[i] = RestoreEntry(back[i + 1], changes[i + 1].id, forth[i])
  <2>1. \A i \in 0 .. n : back[i] = BackStep(back, forth, changes, n, i)
    BY <1>5 DEF IsBack
  <2> QED BY <1>6, <2>1 DEF BackStep
<1>9. t.done = forth[n] /\ t.undone = back[0] /\ (t.ok <=> n = Len(changes))
  <2>1. t.done = forth[n] /\ t.undone = back[0]
    BY ONLY <1>1
  <2>2. t.ok <=> bad = {}
    BY ONLY <1>1
  <2> QED BY <1>2, <2>1, <2>2
<1> QED BY <1>2, <1>7, <1>8, <1>9 DEF Passes

(* E is what the changes make of D: the entries they name are as they ask, *)
(* the others as they were, in the same tree.                              *)
Made(change, E) ==
    IF change.to = Gone THEN change.id \notin DOMAIN E.entries
    ELSE /\ change.id \in DOMAIN E.entries
         /\ E.entries[change.id].plugin = change.to.plugin
         /\ E.entries[change.id].config = change.to.config
         /\ E.entries[change.id].scope = change.to.scope

(* Changes of one entry each.                                              *)
Distinct(changes) == \A i, j \in DOMAIN changes : changes[i].id = changes[j].id => i = j

(* After the first k changes of a transaction on D.                        *)
After(D, changes, k, E) ==
    /\ Desired(E) /\ Follows(D, E) /\ E.scopes = D.scopes
    /\ \A x : (\A i \in 1 .. k : changes[i].id # x) =>
         /\ x \in DOMAIN E.entries <=> x \in DOMAIN D.entries
         /\ x \in DOMAIN D.entries => E.entries[x] = D.entries[x]
    /\ \A x \in DOMAIN E.entries :
         \/ x \in DOMAIN D.entries /\ E.entries[x] = D.entries[x]
         \/ \E i \in 1 .. k : changes[i].id = x /\ changes[i].to # Gone /\ Made(changes[i], E)
    /\ Distinct(changes) => \A i \in 1 .. k : Made(changes[i], E)

(* What a number of changes made, and one more.                            *)
LEMMA OneMore ==
    ASSUME NEW D, Desired(D), NEW changes, NEW k \in Nat, k + 1 \in DOMAIN changes,
           1 .. k \subseteq DOMAIN changes, NEW C, After(D, changes, k, C),
           Sound(changes[k + 1], D), NEW E, E = Apply(C, changes[k + 1])
    PROVE  After(D, changes, k + 1, E)
<1>1. PICK change : change = changes[k + 1]
  OBVIOUS
<1>2. Desired(C) /\ Follows(D, C) /\ C.scopes = D.scopes /\ Sound(change, C)
  BY <1>1 DEF After, Sound
<1>3. /\ Desired(E) /\ Follows(C, E) /\ E.scopes = C.scopes
      /\ \A x : x # change.id => (x \in DOMAIN E.entries <=> x \in DOMAIN C.entries)
      /\ \A x \in DOMAIN C.entries : x # change.id => E.entries[x] = C.entries[x]
      /\ Made(change, E)
  BY <1>1, <1>2, ChangeApplied DEF Made
<1>4. Follows(D, E)
  BY <1>2, <1>3, FollowsOn
<1>5. \A i \in 1 .. (k + 1) : i \in 1 .. k \/ i = k + 1
  OBVIOUS
<1>6. \A i \in 1 .. k : i \in 1 .. (k + 1)
  OBVIOUS
<1>7. k + 1 \in 1 .. (k + 1)
  OBVIOUS
<1>8. ASSUME NEW x, \A i \in 1 .. (k + 1) : changes[i].id # x
      PROVE  /\ x \in DOMAIN E.entries <=> x \in DOMAIN D.entries
             /\ x \in DOMAIN D.entries => E.entries[x] = D.entries[x]
  <2>1. x # change.id /\ \A i \in 1 .. k : changes[i].id # x
    BY <1>1, <1>6, <1>7, <1>8
  <2>2. /\ x \in DOMAIN C.entries <=> x \in DOMAIN D.entries
        /\ x \in DOMAIN D.entries => C.entries[x] = D.entries[x]
    BY <2>1 DEF After
  <2> QED BY <1>3, <2>1, <2>2
<1>9. ASSUME NEW c, c.id # change.id, Made(c, C) PROVE Made(c, E)
  BY <1>3, <1>9 DEF Made
<1>10. ASSUME NEW x \in DOMAIN E.entries
       PROVE  \/ x \in DOMAIN D.entries /\ E.entries[x] = D.entries[x]
              \/ \E i \in 1 .. (k + 1) :
                   changes[i].id = x /\ changes[i].to # Gone /\ Made(changes[i], E)
  <2>1. CASE x = change.id
    BY <1>1, <1>3, <1>7, <2>1 DEF Made
  <2>2. CASE x # change.id
    <3>1. x \in DOMAIN C.entries /\ E.entries[x] = C.entries[x]
      BY <1>3, <2>2
    <3>2. CASE x \in DOMAIN D.entries /\ C.entries[x] = D.entries[x]
      BY <3>1, <3>2
    <3>3. CASE \E i \in 1 .. k :
                 changes[i].id = x /\ changes[i].to # Gone /\ Made(changes[i], C)
      BY <1>6, <1>9, <2>2, <3>3
    <3> QED BY <3>1, <3>2, <3>3 DEF After
  <2> QED BY <2>1, <2>2
<1>11. ASSUME Distinct(changes), NEW i \in 1 .. (k + 1) PROVE Made(changes[i], E)
  <2>1. CASE i = k + 1
    BY <1>1, <1>3, <2>1
  <2>2. CASE i \in 1 .. k
    <3>1. i # k + 1 /\ i \in DOMAIN changes
      BY <2>2
    <3>2. changes[i].id # change.id
      BY <1>1, <1>11, <3>1 DEF Distinct
    <3>3. Made(changes[i], C)
      BY <1>11, <2>2 DEF After
    <3> QED BY <1>9, <3>2, <3>3
  <2> QED BY <1>5, <2>1, <2>2
<1> QED BY <1>2, <1>3, <1>4, <1>8, <1>10, <1>11 DEF After

(* A transaction whose entries have their scopes keeps the desired state   *)
(* sound, and its undo list leads back to where it began.                  *)
LEMMA TransactionSound ==
    ASSUME NEW D, Desired(D), NEW changes, Len(changes) \in Nat,
           DOMAIN changes = 1 .. Len(changes), \A i \in DOMAIN changes : Sound(changes[i], D),
           NEW t, t = Transaction(D, changes)
    PROVE  /\ Same(D, t.undone)
           /\ \E n \in 0 .. Len(changes) :
                After(D, changes, n, t.done) /\ (t.ok <=> n = Len(changes))
<1>1. PICK n \in 0 .. Len(changes) : \E forth, back : Passes(D, changes, t, n, forth, back)
  BY TransactionPasses
<1>2. PICK forth, back : Passes(D, changes, t, n, forth, back)
  BY <1>1
<1>3. n \in Nat /\ 0 \in 0 .. n /\ n \in 0 .. n
      /\ \A i \in 0 .. (n - 1) :
           i \in Nat /\ i \in 0 .. n /\ i + 1 \in DOMAIN changes /\ 1 .. i \subseteq DOMAIN changes
  OBVIOUS
<1>4. \A k \in 0 .. n : After(D, changes, k, forth[k])
  <2> DEFINE T == {k \in 0 .. n : After(D, changes, k, forth[k])}
  <2>1. 0 \in T
    <3>1. After(D, changes, 0, D)
      <4>1. 1 .. 0 = {}
        OBVIOUS
      <4> QED BY <4>1, FollowsItself DEF After
    <3> QED BY <1>2, <1>3, <3>1 DEF Passes
  <2>2. ASSUME NEW k \in 0 .. (n - 1), k \in T PROVE k + 1 \in T
    <3>1. After(D, changes, k, forth[k]) /\ forth[k + 1] = Apply(forth[k], changes[k + 1])
      BY <1>2, <2>2 DEF Passes
    <3>2. k \in Nat /\ k + 1 \in DOMAIN changes /\ 1 .. k \subseteq DOMAIN changes
          /\ k + 1 \in 0 .. n
      BY <1>3
    <3>3. After(D, changes, k + 1, forth[k + 1])
      BY <3>1, <3>2, OneMore
    <3> QED BY <3>2, <3>3
  <2> HIDE DEF T
  <2>3. 0 .. n \subseteq T
    BY <1>3, <2>1, <2>2, CountUp
  <2> QED BY <2>3 DEF T
<1>5. \A k \in 0 .. n : Same(forth[n - k], back[n - k])
  <2> DEFINE T == {k \in 0 .. n : Same(forth[n - k], back[n - k])}
  <2>1. 0 \in T
    <3>1. Desired(forth[n]) /\ back[n] = forth[n]
      BY <1>2, <1>3, <1>4 DEF Passes, After
    <3>2. Same(forth[n], back[n])
      BY <3>1 DEF Same, Desired
    <3>3. n - 0 = n
      OBVIOUS
    <3> QED BY <1>3, <3>2, <3>3
  <2>2. ASSUME NEW k \in 0 .. (n - 1), k \in T PROVE k + 1 \in T
    <3>1. PICK i : i = n - (k + 1)
      OBVIOUS
    <3>2. i \in 0 .. (n - 1) /\ n - k = i + 1 /\ k + 1 \in 0 .. n
      BY <3>1
    <3>3. /\ Same(forth[i + 1], back[i + 1])
          /\ forth[i + 1] = Apply(forth[i], changes[i + 1])
          /\ back[i] = RestoreEntry(back[i + 1], changes[i + 1].id, forth[i])
      BY <1>2, <2>2, <3>2 DEF Passes
    <3>4. Desired(forth[i]) /\ Sound(changes[i + 1], forth[i])
      <4>1. After(D, changes, i, forth[i]) /\ Sound(changes[i + 1], D)
        BY <1>3, <1>4, <3>2
      <4> QED BY <4>1 DEF After, Sound
    <3>5. Same(forth[i], back[i])
      BY <3>3, <3>4, Restored
    <3> QED BY <3>1, <3>2, <3>5
  <2> HIDE DEF T
  <2>3. 0 .. n \subseteq T
    BY <1>3, <2>1, <2>2, CountUp
  <2> QED BY <2>3 DEF T
<1>6. Same(D, t.undone)
  <2>1. Same(forth[n - n], back[n - n]) /\ n - n = 0
    BY <1>3, <1>5
  <2> QED BY <1>2, <2>1 DEF Passes
<1>7. After(D, changes, n, t.done)
  BY <1>2, <1>3, <1>4 DEF Passes
<1> QED BY <1>2, <1>6, <1>7 DEF Passes

(* A finite set in some order.                                             *)
LEMMA Sequenced ==
    ASSUME NEW S, IsFiniteSet(S), NEW q, q = SetToSeq(S)
    PROVE  /\ Len(q) \in Nat /\ DOMAIN q = 1 .. Len(q)
           /\ \A i \in DOMAIN q : q[i] \in S
           /\ \A x \in S : \E i \in DOMAIN q : q[i] = x
           /\ \A i, j \in DOMAIN q : q[i] = q[j] => i = j
<1> DEFINE n == Cardinality(S)
<1>1. n \in Nat /\ ExistsBijection(1 .. n, S)
  BY FS_CardinalityType
<1>2. IsFiniteSet(1 .. n) /\ Cardinality(1 .. n) = n
  BY <1>1, FS_Interval
<1>3. \E f \in [1 .. n -> S] : IsInjective(f)
  BY <1>1 DEF ExistsBijection, Bijection, Injection
<1>4. q \in [1 .. n -> S] /\ IsInjective(q)
  <2> HIDE DEF n
  <2>1. q = CHOOSE f \in [1 .. n -> S] : IsInjective(f)
    BY DEF SetToSeq, n
  <2> QED BY <1>3, <2>1
<1> HIDE DEF n
<1>5. q \in Seq(S) /\ Len(q) = n
  BY <1>1, <1>4
<1>6. q \in Surjection(1 .. n, S)
  <2>1. q \in Injection(1 .. n, S)
    BY <1>4 DEF Injection
  <2> QED BY <1>2, <2>1, FS_Injection DEF n
<1>7. \A x \in S : \E i \in 1 .. n : q[i] = x
  BY <1>6 DEF Surjection
<1>8. \A i, j \in DOMAIN q : q[i] = q[j] => i = j
  BY <1>4 DEF IsInjective
<1> QED BY <1>1, <1>4, <1>5, <1>7, <1>8

(* The image of the positions of a sequence is finite.                     *)
LEMMA FiniteImage ==
    ASSUME NEW q, NEW n \in Nat, DOMAIN q = 1 .. n
    PROVE  IsFiniteSet({q[i] : i \in DOMAIN q})
<1> DEFINE T == {q[i] : i \in DOMAIN q}
           f == [i \in 1 .. n |-> q[i]]
<1>1. f \in Surjection(1 .. n, T)
  <2>1. f \in [1 .. n -> T]
    OBVIOUS
  <2>2. \A x \in T : \E i \in 1 .. n : f[i] = x
    OBVIOUS
  <2> HIDE DEF f, T
  <2> QED BY <2>1, <2>2 DEF Surjection
<1>2. IsFiniteSet(1 .. n)
  BY FS_Interval
<1> HIDE DEF f, T
<1>3. IsFiniteSet(T)
  BY <1>1, <1>2, FS_Surjection
<1> QED BY <1>3 DEF T

(***************************************************************************)
(* Configurations                                                          *)
(***************************************************************************)

(* The positions of the enabled entries of a document.                     *)
EnabledAt(document) == {i \in DOMAIN document.plugins : document.plugins[i].enabled}

(* What parse_config (config/loader.py) makes of a document: the entries   *)
(* enabled in it, as they are listed, and no agent's.                      *)
LEMMA Configured ==
    ASSUME NEW document \in Documents, NEW config, config = ParseConfig(document)
    PROVE  /\ IsFiniteSet(DOMAIN config.entries)
           /\ \A id \in DOMAIN config.entries : id[1] # "agent"
           /\ DOMAIN config.entries = {document.plugins[i].id : i \in EnabledAt(document)}
           /\ IsValid(document) =>
                \A i \in EnabledAt(document) :
                  LET entry == config.entries[document.plugins[i].id]
                  IN /\ entry.plugin = document.plugins[i].plugin
                     /\ entry.config = document.plugins[i].config
<1>1. PICK q : q = document.plugins
  OBVIOUS
<1>2. q \in Seq(Range(q)) /\ \A entry \in Range(q) : entry.id[1] # "agent"
  BY <1>1, ControlAssumption
<1>3. Len(q) \in Nat /\ DOMAIN q = 1 .. Len(q)
  BY <1>2
<1> DEFINE enabled == EnabledEntries(document)
<1>4. /\ DOMAIN config.entries = {e.id : e \in enabled}
      /\ \A id \in DOMAIN config.entries :
           config.entries[id] = EntryConfig(CHOOSE e \in enabled : e.id = id)
  BY DEF ParseConfig
<1>5. enabled = {e \in Range(q) : e.enabled}
  BY <1>1 DEF EnabledEntries
<1>6. enabled = {q[i] : i \in EnabledAt(document)}
  BY <1>1, <1>5 DEF Range, EnabledAt
<1> HIDE DEF enabled
<1>7. DOMAIN config.entries = {document.plugins[i].id : i \in EnabledAt(document)}
  BY <1>1, <1>4, <1>6
<1>8. IsFiniteSet(DOMAIN config.entries)
  <2>1. PICK f : f = [i \in 1 .. Len(q) |-> q[i].id]
    OBVIOUS
  <2>2. DOMAIN f = 1 .. Len(q) /\ \A i \in 1 .. Len(q) : f[i] = q[i].id
    BY <2>1
  <2>3. IsFiniteSet({f[i] : i \in DOMAIN f})
    BY <1>3, <2>2, FiniteImage
  <2>4. DOMAIN config.entries \in SUBSET {f[i] : i \in DOMAIN f}
    BY <1>1, <1>3, <1>7, <2>2 DEF EnabledAt
  <2> QED BY <2>3, <2>4, FS_Subset
<1>9. \A id \in DOMAIN config.entries : id[1] # "agent"
  BY <1>2, <1>4, <1>5
<1>10. ASSUME IsValid(document), NEW i \in EnabledAt(document)
       PROVE  LET entry == config.entries[document.plugins[i].id]
              IN /\ entry.plugin = document.plugins[i].plugin
                 /\ entry.config = document.plugins[i].config
  <2>1. q[i] \in enabled /\ q[i].id \in DOMAIN config.entries
    BY <1>1, <1>6, <1>7
  <2>2. ASSUME NEW e \in enabled, e.id = q[i].id PROVE e = q[i]
    BY <1>1, <1>6, <1>10, <2>2 DEF IsValid, EnabledAt
  <2>3. (CHOOSE e \in enabled : e.id = q[i].id) = q[i]
    BY <2>1, <2>2
  <2>4. config.entries[q[i].id] = EntryConfig(q[i])
    BY <1>4, <2>1, <2>3
  <2> QED BY <1>1, <2>4 DEF EntryConfig
<1> QED BY <1>7, <1>8, <1>9, <1>10

(* The transaction of a configuration: sound, of one change per entry, and *)
(* never about an agent's entry except to remove it.                       *)
LEMMA BatchSound ==
    ASSUME NEW D, Desired(D), NEW document \in Documents, NEW config,
           config = ParseConfig(document), NEW t, t = Batch(config, D)
    PROVE  /\ Same(D, t.undone)
           /\ Desired(t.done) /\ Follows(D, t.done) /\ t.done.scopes = D.scopes
           /\ \A id \in DOMAIN t.done.entries :
                \/ id \in DOMAIN D.entries /\ t.done.entries[id] = D.entries[id]
                \/ id[1] # "agent"
           /\ t.ok => \A id \in DOMAIN config.entries \cup DOMAIN D.entries :
                IF id \in Changes(config, D) THEN Made(ChangeOf(config, D, id), t.done)
                ELSE id \in DOMAIN D.entries /\ id \in DOMAIN t.done.entries
                     /\ t.done.entries[id] = D.entries[id]
           /\ DOMAIN t.done.entries \subseteq DOMAIN config.entries \cup DOMAIN D.entries
<1> DEFINE S == Changes(config, D)
           ids == SetToSeq(S)
           changes == [i \in DOMAIN ids |-> ChangeOf(config, D, ids[i])]
<1>1. IsFiniteSet(DOMAIN config.entries) /\ \A id \in DOMAIN config.entries : id[1] # "agent"
  BY Configured
<1>2. S \in SUBSET (DOMAIN config.entries \cup DOMAIN D.entries)
  BY DEF Changes
<1>3. IsFiniteSet(S)
  <2>1. IsFiniteSet(DOMAIN config.entries \cup DOMAIN D.entries)
    BY <1>1, FS_Union DEF Desired, Registry
  <2> HIDE DEF S
  <2> QED BY <1>2, <2>1, FS_Subset
<1>4. /\ Len(ids) \in Nat /\ DOMAIN ids = 1 .. Len(ids)
      /\ \A i \in DOMAIN ids : ids[i] \in S
      /\ \A x \in S : \E i \in DOMAIN ids : ids[i] = x
      /\ \A i, j \in DOMAIN ids : ids[i] = ids[j] => i = j
  <2> HIDE DEF S
  <2> QED BY <1>3, Sequenced
<1>5. t = Transaction(D, changes)
  BY DEF Batch
<1>6. \A id : /\ ChangeOf(config, D, id).id = id
              /\ \/ ChangeOf(config, D, id).to = Gone
                 \/ ChangeOf(config, D, id).to.scope = Root /\ id \in DOMAIN config.entries
  BY DEF ChangeOf, ActionFor
<1> HIDE DEF S, ids
<1>7. /\ DOMAIN changes = DOMAIN ids /\ Len(changes) = Len(ids)
      /\ \A i \in DOMAIN ids : changes[i] = ChangeOf(config, D, ids[i])
  <2>1. changes \in Seq({ChangeOf(config, D, ids[i]) : i \in DOMAIN ids})
    BY <1>4
  <2> QED BY <1>4, <2>1
<1> HIDE DEF changes
<1>8. \A i \in DOMAIN changes : Sound(changes[i], D)
  BY <1>6, <1>7 DEF Sound, Desired, Tree
<1>9. Distinct(changes)
  BY <1>4, <1>6, <1>7 DEF Distinct
<1>10. /\ Same(D, t.undone)
       /\ \E n \in 0 .. Len(changes) :
            After(D, changes, n, t.done) /\ (t.ok <=> n = Len(changes))
  <2>1. Len(changes) \in Nat /\ DOMAIN changes = 1 .. Len(changes)
    BY ONLY <1>4, <1>7
  <2> QED BY <1>5, <1>8, <2>1, TransactionSound
<1>11. PICK n \in 0 .. Len(changes) : After(D, changes, n, t.done) /\ (t.ok <=> n = Len(changes))
  BY <1>10
<1>12. 1 .. n \subseteq DOMAIN changes /\ (n = Len(changes) => 1 .. n = DOMAIN changes)
  <2>1. Len(changes) \in Nat /\ DOMAIN changes = 1 .. Len(changes) /\ n \in 0 .. Len(changes)
    BY ONLY <1>4, <1>7, <1>11
  <2>2. PICK m : m = Len(changes)
    OBVIOUS
  <2>3. m \in Nat /\ n \in 0 .. m
    BY ONLY <2>1, <2>2
  <2>4. 1 .. n \subseteq 1 .. m /\ (n = m => 1 .. n = 1 .. m)
    BY ONLY <2>3
  <2> QED BY ONLY <2>1, <2>2, <2>4
<1>15. \A i \in DOMAIN changes :
         /\ changes[i] = ChangeOf(config, D, ids[i]) /\ changes[i].id = ids[i]
         /\ ids[i] \in S
  BY <1>4, <1>6, <1>7
<1>13. ASSUME NEW id \in DOMAIN t.done.entries
       PROVE  \/ id \in DOMAIN D.entries /\ t.done.entries[id] = D.entries[id]
              \/ id \in DOMAIN config.entries
  <2>1. CASE id \in DOMAIN D.entries /\ t.done.entries[id] = D.entries[id]
    BY <2>1
  <2>2. CASE \E i \in 1 .. n : changes[i].id = id /\ changes[i].to # Gone
    <3>1. PICK i \in DOMAIN changes : changes[i].id = id /\ changes[i].to # Gone
      BY <1>12, <2>2
    <3> QED BY <1>6, <1>15, <3>1
  <2> QED BY <1>11, <2>1, <2>2 DEF After
<1>14. ASSUME t.ok, NEW id \in DOMAIN config.entries \cup DOMAIN D.entries
       PROVE  IF id \in S THEN Made(ChangeOf(config, D, id), t.done)
              ELSE id \in DOMAIN D.entries /\ id \in DOMAIN t.done.entries
                   /\ t.done.entries[id] = D.entries[id]
  <2>1. n = Len(changes)
    BY <1>11, <1>14
  <2>2. CASE id \in S
    <3>1. PICK i \in DOMAIN ids : ids[i] = id
      BY <1>4, <2>2
    <3>2. Made(changes[i], t.done)
      BY <1>7, <1>9, <1>11, <1>12, <2>1, <3>1 DEF After
    <3> QED BY <1>7, <2>2, <3>1, <3>2
  <2>3. CASE id \notin S
    <3>1. ActionFor(config, D, id) = "unchanged"
      BY <2>3 DEF S, Changes
    <3>2. id \in DOMAIN D.entries
      BY <1>14, <3>1 DEF ActionFor, HasEntry
    <3>3. \A i \in 1 .. n : changes[i].id # id
      BY <1>12, <1>15, <2>3
    <3> QED BY <1>11, <2>3, <3>2, <3>3 DEF After
  <2> QED BY <2>2, <2>3
<1> QED BY <1>1, <1>10, <1>11, <1>13, <1>14 DEF After, S

(***************************************************************************)
(* Control states                                                          *)
(***************************************************************************)

(* What was published of an agent is what its history says, for ever.      *)
HistoryHolds(c) ==
    \A n \in DOMAIN c.history : \A r \in DOMAIN c.history[n] :
      /\ c.history[n][r].spec \in Specs
      /\ c.history[n][r].spec.name = n /\ c.history[n][r].spec.revision = r
      /\ c.history[n][r].entries = EntriesOf(c.history[n][r].spec)

(* An active revision is a published one, and its agent is not retired.    *)
ActiveHolds(c) ==
    /\ \A n \in DOMAIN c.active : n \in DOMAIN c.history /\ c.active[n] \in DOMAIN c.history[n]
    /\ c.retired \cap DOMAIN c.active = {}

(* A scope is bare or names the active revision of an agent, which declares*)
(* that scope and owns it.                                                 *)
TagsHold(c) ==
    \A p \in DOMAIN c.desired.scopes :
      LET scope == c.desired.scopes[p]
      IN \/ scope.agent = NoAgent /\ scope.revision = NoRevision
         \/ /\ HasActive(c, scope.agent) /\ scope.revision = c.active[scope.agent]
            /\ ActiveOf(c, scope.agent).spec.scope = p /\ p \in c.owned

(* An entry under an agent's id is a contribution of the agent's active    *)
(* revision, in that revision's scope.                                     *)
ContributionsHold(c) ==
    \A id \in DOMAIN c.desired.entries : id[1] = "agent" =>
      /\ HasActive(c, id[2]) /\ id \in ActiveOf(c, id[2]).entries
      /\ c.desired.entries[id].scope = ActiveOf(c, id[2]).spec.scope

(* The fields of a control state.                                          *)
Fields == {"desired", "configPrefs", "programPrefs", "config", "provisions", "history",
           "active", "retired", "owned"}

(* A sound control state.                                                  *)
Controlled(c) ==
    /\ DOMAIN c = Fields
    /\ Desired(c.desired)
    /\ HistoryHolds(c) /\ ActiveHolds(c) /\ Root \notin c.owned
    /\ TagsHold(c) /\ ContributionsHold(c)

(* From c to k: the desired state goes on, no published revision is        *)
(* forgotten or altered, and other preferences are pending.                *)
Evolves(c, k) ==
    /\ Follows(c.desired, k.desired)
    /\ \A n \in DOMAIN c.history :
         /\ n \in DOMAIN k.history
         /\ \A r \in DOMAIN c.history[n] :
              r \in DOMAIN k.history[n] /\ k.history[n][r].spec = c.history[n][r].spec
    /\ k.desired.dirty \/ EffectivePreferences(k) = EffectivePreferences(c)

(* A step that leaves the agents' history and selection alone, and gives   *)
(* no entry an agent's id and no scope an agent's name.                    *)
LEMMA AgentsUntouched ==
    ASSUME NEW c, Controlled(c), NEW k, DOMAIN k = Fields,
           k.history = c.history, k.active = c.active, k.retired = c.retired,
           Root \notin k.owned, c.owned \cap DOMAIN k.desired.scopes \subseteq k.owned,
           Desired(k.desired), Follows(c.desired, k.desired),
           \A p \in DOMAIN k.desired.scopes :
             \/ /\ p \in DOMAIN c.desired.scopes
                /\ k.desired.scopes[p].agent = c.desired.scopes[p].agent
                /\ k.desired.scopes[p].revision = c.desired.scopes[p].revision
             \/ k.desired.scopes[p].agent = NoAgent /\ k.desired.scopes[p].revision = NoRevision,
           \A id \in DOMAIN k.desired.entries :
             \/ id \in DOMAIN c.desired.entries /\ k.desired.entries[id] = c.desired.entries[id]
             \/ id[1] # "agent",
           k.desired.dirty \/ (k.programPrefs = c.programPrefs /\ k.configPrefs = c.configPrefs)
    PROVE  Controlled(k) /\ Evolves(c, k)
<1>1. HistoryHolds(k) /\ ActiveHolds(k)
  BY DEF Controlled, HistoryHolds, ActiveHolds
<1>2. TagsHold(k)
  BY DEF Controlled, TagsHold, HasActive, ActiveOf
<1>3. ContributionsHold(k)
  BY DEF Controlled, ContributionsHold, HasActive, ActiveOf
<1>4. k.desired.dirty \/ EffectivePreferences(k) = EffectivePreferences(c)
  BY DEF EffectivePreferences
<1>5. Evolves(c, k)
  BY <1>4 DEF Evolves
<1> QED BY <1>1, <1>2, <1>3, <1>5 DEF Controlled

(* So does a call that knows nothing of agents.                            *)
LEMMA PlainCall ==
    ASSUME NEW c, Controlled(c), NEW k, DOMAIN k = Fields,
           k.history = c.history, k.active = c.active, k.retired = c.retired, k.owned = c.owned,
           Desired(k.desired), Follows(c.desired, k.desired),
           \A p \in DOMAIN k.desired.scopes :
             \/ /\ p \in DOMAIN c.desired.scopes
                /\ k.desired.scopes[p].agent = c.desired.scopes[p].agent
                /\ k.desired.scopes[p].revision = c.desired.scopes[p].revision
             \/ k.desired.scopes[p].agent = NoAgent /\ k.desired.scopes[p].revision = NoRevision,
           \A id \in DOMAIN k.desired.entries :
             \/ id \in DOMAIN c.desired.entries /\ k.desired.entries[id] = c.desired.entries[id]
             \/ id[1] # "agent",
           k.desired.dirty \/ (k.programPrefs = c.programPrefs /\ k.configPrefs = c.configPrefs)
    PROVE  Controlled(k) /\ Evolves(c, k)
<1>1. Root \notin k.owned /\ c.owned \cap DOMAIN k.desired.scopes \subseteq k.owned
  BY DEF Controlled
<1> QED BY <1>1, AgentsUntouched

(* The calls of the application.                                           *)
LEMMA InstallsSound ==
    ASSUME NEW c, Controlled(c), NEW entry \in UserEntries, HasScope(c.desired, entry.scope),
           NEW k, k = [c EXCEPT !.desired =
                         InstallEntry(@, entry.id, entry.plugin, entry.config, entry.scope)]
    PROVE  Controlled(k) /\ Evolves(c, k)
<1>1. PICK E : E = InstallEntry(c.desired, entry.id, entry.plugin, entry.config, entry.scope)
  OBVIOUS
<1>2. /\ Desired(E) /\ Follows(c.desired, E) /\ E.scopes = c.desired.scopes
      /\ DOMAIN E.entries = DOMAIN c.desired.entries \cup {entry.id}
      /\ \A x \in DOMAIN c.desired.entries : x # entry.id => E.entries[x] = c.desired.entries[x]
  <2>1. Desired(c.desired) /\ entry.scope \in DOMAIN c.desired.scopes
    BY DEF Controlled, HasScope
  <2>2. PICK D, id, plugin, config, scope :
          D = c.desired /\ id = entry.id /\ plugin = entry.plugin /\ config = entry.config
          /\ scope = entry.scope
    OBVIOUS
  <2>3. Desired(D) /\ scope \in DOMAIN D.scopes /\ E = InstallEntry(D, id, plugin, config, scope)
    BY <1>1, <2>1, <2>2
  <2>4. /\ Desired(E) /\ Follows(D, E)
        /\ E.scopes = D.scopes
        /\ DOMAIN E.entries = DOMAIN D.entries \cup {id}
        /\ DOMAIN E.revisions = DOMAIN D.revisions \cup {id}
        /\ E.entries[id] = [plugin |-> plugin, config |-> config, scope |-> scope,
                            revision |-> RevisionOf(D, id) + 1]
        /\ \A x \in DOMAIN D.entries : x # id => E.entries[x] = D.entries[x]
        /\ \A x \in DOMAIN D.revisions : x # id => E.revisions[x] = D.revisions[x]
    BY <2>3, EntryInstalled
  <2> QED BY <2>2, <2>4
<1>3. /\ DOMAIN k = Fields /\ k.desired = E
      /\ k.history = c.history /\ k.active = c.active /\ k.retired = c.retired
      /\ k.owned = c.owned /\ k.programPrefs = c.programPrefs /\ k.configPrefs = c.configPrefs
  BY <1>1 DEF Controlled, Fields
<1>4. entry.id[1] # "agent"
  BY ControlAssumption
<1> QED BY <1>2, <1>3, <1>4, PlainCall

(* uninstall, called by the application.                                   *)
LEMMA UninstallsSound ==
    ASSUME NEW c, Controlled(c), NEW id, NEW k, k = [c EXCEPT !.desired = Uninstall(@, id)]
    PROVE  Controlled(k) /\ Evolves(c, k)
<1>1. PICK E : E = UninstallAll(c.desired, {id})
  OBVIOUS
<1>2. /\ Desired(E) /\ Follows(c.desired, E) /\ E.scopes = c.desired.scopes
      /\ DOMAIN E.entries \subseteq DOMAIN c.desired.entries
      /\ \A x \in DOMAIN E.entries : E.entries[x] = c.desired.entries[x]
  <2>1. Desired(c.desired)
    BY DEF Controlled
  <2> QED BY <1>1, <2>1, EntriesUninstalled
<1>3. /\ DOMAIN k = Fields /\ k.desired = E
      /\ k.history = c.history /\ k.active = c.active /\ k.retired = c.retired
      /\ k.owned = c.owned /\ k.programPrefs = c.programPrefs /\ k.configPrefs = c.configPrefs
  BY <1>1 DEF Controlled, Fields, Uninstall
<1> QED BY <1>2, <1>3, PlainCall

(* A scope created and given terms by the application keeps the metadata   *)
(* of an agent that lives there.                                           *)
LEMMA DeclaresSound ==
    ASSUME NEW c, Controlled(c), NEW path \in UserScopes,
           NEW there, there = Ensure(c.desired, path),
           NEW k, k = [c EXCEPT !.desired =
                         SetScope(there, path, [there.scopes[path] EXCEPT !.terms = "narrowed"])]
    PROVE  Controlled(k) /\ Evolves(c, k)
<1>1. Desired(c.desired) /\ path \in Paths
  BY PathsOfSpecs DEF Controlled
<1>2. /\ Desired(there) /\ Follows(c.desired, there) /\ there.entries = c.desired.entries
      /\ HasScope(there, path)
      /\ \A p \in DOMAIN c.desired.scopes : there.scopes[p] = c.desired.scopes[p]
      /\ \A p \in DOMAIN there.scopes \ DOMAIN c.desired.scopes : there.scopes[p] = Bare
  BY <1>1, Ensured
<1>3. PICK scope : scope = [there.scopes[path] EXCEPT !.terms = "narrowed"]
  OBVIOUS
<1>4. /\ DOMAIN scope = {"terms", "agent", "revision"}
      /\ scope.agent = there.scopes[path].agent /\ scope.revision = there.scopes[path].revision
  BY <1>2, <1>3 DEF Desired, Tree, HasScope
<1>5. PICK E : E = SetScope(there, path, scope)
  OBVIOUS
<1>6. /\ Desired(E) /\ Follows(there, E) /\ E.entries = there.entries
      /\ DOMAIN E.scopes = DOMAIN there.scopes /\ E.scopes[path] = scope
      /\ \A p \in DOMAIN there.scopes : p # path => E.scopes[p] = there.scopes[p]
  BY <1>2, <1>4, <1>5, ScopeSet
<1>7. Follows(c.desired, E)
  BY <1>1, <1>2, <1>6, FollowsOn
<1>8. /\ DOMAIN k = Fields /\ k.desired = E
      /\ k.history = c.history /\ k.active = c.active /\ k.retired = c.retired
      /\ k.owned = c.owned /\ k.programPrefs = c.programPrefs /\ k.configPrefs = c.configPrefs
  BY <1>3, <1>5 DEF Controlled, Fields
<1>9. ASSUME NEW p \in DOMAIN E.scopes
      PROVE  \/ /\ p \in DOMAIN c.desired.scopes
                /\ E.scopes[p].agent = c.desired.scopes[p].agent
                /\ E.scopes[p].revision = c.desired.scopes[p].revision
             \/ E.scopes[p].agent = NoAgent /\ E.scopes[p].revision = NoRevision
  <2>1. E.scopes[p].agent = there.scopes[p].agent /\ E.scopes[p].revision = there.scopes[p].revision
    BY <1>4, <1>6
  <2>2. Bare.agent = NoAgent /\ Bare.revision = NoRevision
    BY DEF Bare
  <2> QED BY <1>2, <1>6, <2>1, <2>2
<1> QED BY <1>2, <1>6, <1>7, <1>8, <1>9, PlainCall

(* A scope removed by the application, an agent's scopes included.         *)
LEMMA RemovesSound ==
    ASSUME NEW c, Controlled(c), NEW path \in UserScopes, path # Root,
           NEW k, k = [c EXCEPT !.desired = RemoveScope(@, path)]
    PROVE  Controlled(k) /\ Evolves(c, k)
<1>1. Desired(c.desired) /\ path \in Paths
  BY PathsOfSpecs DEF Controlled
<1>2. PICK E : E = RemoveScope(c.desired, path)
  OBVIOUS
<1>3. /\ Desired(E) /\ Follows(c.desired, E)
      /\ DOMAIN E.entries \subseteq DOMAIN c.desired.entries
      /\ \A id \in DOMAIN E.entries : E.entries[id] = c.desired.entries[id]
      /\ DOMAIN E.scopes \subseteq DOMAIN c.desired.scopes
      /\ \A p \in DOMAIN E.scopes : E.scopes[p] = c.desired.scopes[p]
  BY <1>1, <1>2, ScopeRemoved
<1>4. /\ DOMAIN k = Fields /\ k.desired = E
      /\ k.history = c.history /\ k.active = c.active /\ k.retired = c.retired
      /\ k.owned = c.owned /\ k.programPrefs = c.programPrefs /\ k.configPrefs = c.configPrefs
  BY <1>2 DEF Controlled, Fields
<1> QED BY <1>3, <1>4, PlainCall

(* The pending flag does not matter to whether a desired state is sound.   *)
LEMMA Flagged ==
    ASSUME NEW D, Desired(D), NEW flag \in BOOLEAN, NEW E, E = [D EXCEPT !.dirty = flag]
    PROVE  Desired(E) /\ Same(D, E) /\ E.dirty = flag
<1>1. /\ DOMAIN E = {"scopes", "entries", "revisions", "dirty"}
      /\ E.scopes = D.scopes /\ E.entries = D.entries /\ E.revisions = D.revisions
      /\ E.dirty = flag
  BY DEF Desired
<1> QED BY <1>1 DEF Desired, Tree, Registry, Housed, Same

(* A copy with the pending flag put back goes on from the original.        *)
LEMMA Undirtied ==
    ASSUME NEW D, Desired(D), NEW U, Same(D, U), NEW E, E = [U EXCEPT !.dirty = D.dirty]
    PROVE  Desired(E) /\ Same(D, E) /\ Follows(D, E) /\ E.dirty = D.dirty
<1>1. /\ DOMAIN E = {"scopes", "entries", "revisions", "dirty"}
      /\ E.scopes = D.scopes /\ E.entries = D.entries /\ E.revisions = D.revisions
      /\ E.dirty = D.dirty
  BY DEF Same
<1>2. Desired(E)
  BY <1>1 DEF Desired, Tree, Registry, Housed
<1>3. \A id : RevisionOf(E, id) = RevisionOf(D, id)
  BY <1>1 DEF RevisionOf
<1> QED BY <1>1, <1>2, <1>3, FollowsItself DEF Same, Follows

(* An applied configuration: its batch, its preferences, itself.           *)
LEMMA CommitSound ==
    ASSUME NEW c, Controlled(c), NEW document \in Documents, NEW config,
           config = ParseConfig(document), NEW k, k = Commit(c, config)
    PROVE  /\ Controlled(k) /\ Evolves(c, k)
           /\ k.desired.entries = Batch(config, c.desired).done.entries
<1>1. PICK D : D = c.desired
  OBVIOUS
<1>2. Desired(D)
  BY <1>1 DEF Controlled
<1>3. PICK t : t = Batch(config, D)
  OBVIOUS
<1>4. /\ Desired(t.done) /\ Follows(D, t.done) /\ t.done.scopes = D.scopes
      /\ \A id \in DOMAIN t.done.entries :
           \/ id \in DOMAIN D.entries /\ t.done.entries[id] = D.entries[id]
           \/ id[1] # "agent"
  BY <1>2, <1>3, BatchSound
<1>5. PICK prefs : prefs = ConfigPreferences(config)
  OBVIOUS
<1>6. PICK flag \in BOOLEAN : flag = (t.done.dirty \/ prefs # c.configPrefs)
  OBVIOUS
<1>7. PICK E : E = [t.done EXCEPT !.dirty = flag]
  OBVIOUS
<1>8. Desired(E) /\ Same(t.done, E) /\ E.dirty = flag
  <2>1. PICK F : F = t.done
    OBVIOUS
  <2>2. Desired(F) /\ flag \in BOOLEAN /\ E = [F EXCEPT !.dirty = flag]
    BY <1>4, <1>6, <1>7, <2>1
  <2>3. Desired(E) /\ Same(F, E) /\ E.dirty = flag
    BY <2>2, Flagged
  <2> QED BY <2>1, <2>3
<1>9. /\ DOMAIN k = Fields /\ k.desired = E
      /\ k.history = c.history /\ k.active = c.active /\ k.retired = c.retired
      /\ k.owned = c.owned /\ k.programPrefs = c.programPrefs /\ k.configPrefs = prefs
  <2>1. k = [c EXCEPT !.desired = E, !.configPrefs = prefs, !.config = config]
    BY <1>1, <1>3, <1>5, <1>6, <1>7 DEF Commit
  <2> QED BY <2>1 DEF Controlled, Fields
<1>10. Follows(D, E)
  <2>1. \A id : RevisionOf(E, id) = RevisionOf(t.done, id)
    BY <1>8 DEF Same, RevisionOf
  <2>2. E.dirty \/ (~t.done.dirty /\ E.scopes = t.done.scopes /\ E.entries = t.done.entries)
    BY <1>4, <1>6, <1>8 DEF Same, Desired
  <2> QED BY <1>4, <1>8, <2>1, <2>2 DEF Same, Follows
<1>11. E.dirty \/ k.configPrefs = c.configPrefs
  BY <1>6, <1>8, <1>9
<1>12. Controlled(k) /\ Evolves(c, k)
  BY <1>1, <1>4, <1>8, <1>9, <1>10, <1>11, PlainCall DEF Same
<1> QED BY <1>1, <1>3, <1>8, <1>9, <1>12 DEF Same

(* A configuration that fails leaves what it found, up to the pending      *)
(* flag, which is put back as well.                                        *)
LEMMA AbandonSound ==
    ASSUME NEW c, Controlled(c), NEW document \in Documents, NEW config,
           config = ParseConfig(document), NEW k, k = Abandon(c, config)
    PROVE  /\ Controlled(k) /\ Evolves(c, k)
           /\ Same(c.desired, k.desired) /\ \A f \in Fields \ {"desired"} : k[f] = c[f]
<1>1. PICK D : D = c.desired
  OBVIOUS
<1>2. Desired(D)
  BY <1>1 DEF Controlled
<1>3. PICK t : t = Batch(config, D)
  OBVIOUS
<1>4. Same(D, t.undone)
  BY <1>2, <1>3, BatchSound
<1>5. PICK E : E = [t.undone EXCEPT !.dirty = D.dirty]
  OBVIOUS
<1>6. Desired(E) /\ Same(D, E) /\ Follows(D, E)
  BY <1>2, <1>4, <1>5, Undirtied
<1>7. DOMAIN k = Fields /\ k.desired = E /\ \A f \in Fields \ {"desired"} : k[f] = c[f]
  <2>1. k = [c EXCEPT !.desired = E]
    BY <1>1, <1>3, <1>5 DEF Abandon
  <2> QED BY <2>1 DEF Controlled, Fields
<1>8. /\ k.history = c.history /\ k.active = c.active /\ k.retired = c.retired
      /\ k.owned = c.owned /\ k.programPrefs = c.programPrefs /\ k.configPrefs = c.configPrefs
  BY <1>7 DEF Fields
<1>9. Controlled(k) /\ Evolves(c, k)
  BY <1>1, <1>6, <1>7, <1>8, PlainCall DEF Same
<1> QED BY <1>1, <1>6, <1>7, <1>9

(* Provisions and preferences.                                             *)
LEMMA ServicesSound ==
    ASSUME NEW D, Desired(D), NEW held, NEW F, F = SyncServices(D, held)
    PROVE  /\ Desired(F) /\ F.scopes = D.scopes
           /\ \A id \in DOMAIN F.entries :
                \/ id \in DOMAIN D.entries /\ F.entries[id] = D.entries[id]
                \/ id[1] # "agent" /\ F.entries[id].revision > RevisionOf(D, id)
           /\ \A id : RevisionOf(D, id) <= RevisionOf(F, id)
<1>1. CASE held = {}
  <2>1. PICK G : G = UninstallAll(D, {ServicesEntry})
    OBVIOUS
  <2>2. /\ Desired(G) /\ Follows(D, G) /\ G.scopes = D.scopes
        /\ DOMAIN G.entries \subseteq DOMAIN D.entries
        /\ \A id \in DOMAIN G.entries : G.entries[id] = D.entries[id]
    BY <2>1, EntriesUninstalled
  <2>3. /\ DOMAIN F = {"scopes", "entries", "revisions", "dirty"} /\ F.dirty = D.dirty
        /\ F.scopes = G.scopes /\ F.entries = G.entries /\ F.revisions = G.revisions
    BY <1>1, <2>1 DEF SyncServices, UninstallAll, Desired
  <2>4. Desired(F)
    BY <2>2, <2>3 DEF Desired, Tree, Registry, Housed
  <2>5. \A id : RevisionOf(F, id) = RevisionOf(G, id)
    BY <2>3 DEF RevisionOf
  <2> QED BY <2>2, <2>3, <2>4, <2>5 DEF Follows
<1>2. CASE held # {}
  <2>1. F = InstallEntry(D, ServicesEntry, "chassis-services", held, Root)
    BY <1>2 DEF SyncServices
  <2>2. Root \in DOMAIN D.scopes
    BY DEF Desired, Tree
  <2>3. /\ Desired(F) /\ Follows(D, F)
        /\ F.scopes = D.scopes
        /\ DOMAIN F.entries = DOMAIN D.entries \cup {ServicesEntry}
        /\ DOMAIN F.revisions = DOMAIN D.revisions \cup {ServicesEntry}
        /\ F.entries[ServicesEntry] =
             [plugin |-> "chassis-services", config |-> held, scope |-> Root,
              revision |-> RevisionOf(D, ServicesEntry) + 1]
        /\ \A x \in DOMAIN D.entries : x # ServicesEntry => F.entries[x] = D.entries[x]
        /\ \A x \in DOMAIN D.revisions : x # ServicesEntry => F.revisions[x] = D.revisions[x]
    BY <2>1, <2>2, EntryInstalled
  <2>4. ServicesEntry[1] # "agent"
    BY DEF ServicesEntry
  <2>5. ASSUME NEW id \in DOMAIN F.entries
        PROVE  \/ id \in DOMAIN D.entries /\ F.entries[id] = D.entries[id]
               \/ id[1] # "agent" /\ F.entries[id].revision > RevisionOf(D, id)
    <3>1. CASE id = ServicesEntry
      <4>1. F.entries[id].revision = RevisionOf(D, id) + 1
        BY <2>3, <3>1
      <4>2. RevisionOf(D, id) \in Nat
        BY RevisionTyped
      <4> QED BY <2>4, <3>1, <4>1, <4>2
    <3>2. CASE id # ServicesEntry
      BY <2>3, <3>2
    <3> QED BY <3>1, <3>2
  <2> QED BY <2>3, <2>5 DEF Follows
<1> QED BY <1>1, <1>2

(* provide and withdraw: the provisions and their entry.                   *)
LEMMA ProvisionsSound ==
    ASSUME NEW c, Controlled(c), NEW held,
           NEW k, k = [c EXCEPT !.provisions = held,
                                !.desired = [SyncServices(@, held) EXCEPT !.dirty = TRUE]]
    PROVE  Controlled(k) /\ Evolves(c, k)
<1>1. PICK D : D = c.desired
  OBVIOUS
<1>2. PICK F : F = SyncServices(D, held)
  OBVIOUS
<1>3. PICK E : E = [F EXCEPT !.dirty = TRUE]
  OBVIOUS
<1>4. /\ Desired(F) /\ F.scopes = D.scopes
      /\ \A id \in DOMAIN F.entries :
           \/ id \in DOMAIN D.entries /\ F.entries[id] = D.entries[id]
           \/ id[1] # "agent" /\ F.entries[id].revision > RevisionOf(D, id)
      /\ \A id : RevisionOf(D, id) <= RevisionOf(F, id)
  <2>1. Desired(D)
    BY <1>1 DEF Controlled
  <2> QED BY <1>2, <2>1, ServicesSound
<1>5. Desired(E) /\ Same(F, E) /\ E.dirty
  BY <1>3, <1>4, Flagged
<1>6. Follows(D, E)
  <2>1. \A id : RevisionOf(E, id) = RevisionOf(F, id)
    BY <1>5 DEF Same, RevisionOf
  <2> QED BY <1>4, <1>5, <2>1 DEF Same, Follows
<1>7. /\ DOMAIN k = Fields /\ k.desired = E
      /\ k.history = c.history /\ k.active = c.active /\ k.retired = c.retired
      /\ k.owned = c.owned /\ k.programPrefs = c.programPrefs /\ k.configPrefs = c.configPrefs
  BY <1>1, <1>2, <1>3 DEF Controlled, Fields
<1> QED BY <1>1, <1>4, <1>5, <1>6, <1>7, PlainCall DEF Same

(* prefer_provider: another preference, and a change pending.              *)
LEMMA PrefersSound ==
    ASSUME NEW c, Controlled(c), NEW key, NEW provider, NEW k, k = Prefer(c, key, provider)
    PROVE  Controlled(k) /\ Evolves(c, k)
<1>1. PICK D : D = c.desired
  OBVIOUS
<1>2. PICK E : E = [D EXCEPT !.dirty = TRUE]
  OBVIOUS
<1>3. Desired(D) /\ Desired(E) /\ Same(D, E) /\ E.dirty
  BY <1>1, <1>2, Flagged DEF Controlled
<1>4. /\ DOMAIN k = Fields /\ k.desired = E
      /\ k.history = c.history /\ k.active = c.active /\ k.retired = c.retired
      /\ k.owned = c.owned
  BY <1>1, <1>2 DEF Prefer, Controlled, Fields
<1>5. Follows(D, E)
  <2>1. \A id : RevisionOf(E, id) = RevisionOf(D, id)
    BY <1>3 DEF Same, RevisionOf
  <2> QED BY <1>3, <2>1, FollowsItself DEF Same, Follows
<1> QED BY <1>1, <1>3, <1>4, <1>5, PlainCall DEF Same

(***************************************************************************)
(* Agents                                                                  *)
(***************************************************************************)

(* An install that fails leaves the name known, without a revision.        *)
LEMMA RememberedSound ==
    ASSUME NEW c, Controlled(c), NEW name, NEW k, k = Remembered(c, name)
    PROVE  /\ Controlled(k) /\ Evolves(c, k)
           /\ \A f \in Fields \ {"history"} : k[f] = c[f]
           /\ Knows(k, name)
<1>1. PICK h : h = IF Knows(c, name) THEN c.history ELSE Put(c.history, name, <<>>)
  OBVIOUS
<1>2. k = [c EXCEPT !.history = h]
  BY <1>1 DEF Remembered
<1>3. DOMAIN k = Fields /\ k.history = h /\ \A f \in Fields \ {"history"} : k[f] = c[f]
  BY <1>2 DEF Controlled, Fields
<1>4. /\ k.desired = c.desired /\ k.active = c.active /\ k.retired = c.retired
      /\ k.owned = c.owned /\ k.programPrefs = c.programPrefs /\ k.configPrefs = c.configPrefs
  BY <1>3 DEF Fields
<1>5. /\ name \in DOMAIN h /\ DOMAIN c.history \subseteq DOMAIN h
      /\ \A n \in DOMAIN c.history : h[n] = c.history[n]
      /\ \A n \in DOMAIN h \ DOMAIN c.history : h[n] = <<>>
  BY <1>1 DEF Knows, Put
<1>6. DOMAIN <<>> = {}
  OBVIOUS
<1>7. HistoryHolds(k)
  <2>1. ASSUME NEW n \in DOMAIN h, NEW r \in DOMAIN h[n]
        PROVE  /\ h[n][r].spec \in Specs /\ h[n][r].spec.name = n /\ h[n][r].spec.revision = r
               /\ h[n][r].entries = EntriesOf(h[n][r].spec)
    <3>1. n \in DOMAIN c.history /\ h[n] = c.history[n]
      BY <1>5, <1>6, <2>1
    <3> QED BY <2>1, <3>1 DEF Controlled, HistoryHolds
  <2> QED BY <1>3, <2>1 DEF HistoryHolds
<1>8. \A n : HasActive(c, n) =>
        n \in DOMAIN c.history /\ HasActive(k, n) /\ ActiveOf(k, n) = ActiveOf(c, n)
  BY <1>3, <1>4, <1>5 DEF Controlled, ActiveHolds, HasActive, ActiveOf
<1>9. ActiveHolds(k)
  BY <1>3, <1>4, <1>5 DEF Controlled, ActiveHolds
<1>10. TagsHold(k)
  BY <1>4, <1>8 DEF Controlled, TagsHold
<1>11. ContributionsHold(k)
  BY <1>4, <1>8 DEF Controlled, ContributionsHold
<1>12. Controlled(k)
  BY <1>3, <1>4, <1>7, <1>9, <1>10, <1>11 DEF Controlled
<1>13. Evolves(c, k)
  <2>1. EffectivePreferences(k) = EffectivePreferences(c)
    BY <1>4 DEF EffectivePreferences
  <2>2. Follows(c.desired, k.desired)
    BY <1>4, FollowsItself DEF Controlled
  <2> QED BY <1>3, <1>5, <2>1, <2>2 DEF Evolves
<1> QED BY <1>3, <1>5, <1>12, <1>13 DEF Knows

(* What the scope of a spec says.                                          *)
TagOf(spec) == [terms |-> spec.terms, agent |-> spec.name, revision |-> spec.revision]

(* The scope of a spec, declared with its name and revision.               *)
LEMMA DeclareSound ==
    ASSUME NEW D, Desired(D), NEW spec \in Specs, NEW E, E = Declare(D, spec)
    PROVE  /\ Desired(E) /\ Follows(D, E)
           /\ E.entries = D.entries /\ E.revisions = D.revisions
           /\ DOMAIN E.scopes = DOMAIN D.scopes \cup Lineage(spec.scope)
           /\ HasScope(E, spec.scope) /\ E.scopes[spec.scope] = TagOf(spec)
           /\ \A p \in DOMAIN D.scopes : p # spec.scope => E.scopes[p] = D.scopes[p]
           /\ \A p \in DOMAIN E.scopes \ DOMAIN D.scopes : p # spec.scope => E.scopes[p] = Bare
<1>1. PICK path : path = spec.scope
  OBVIOUS
<1>2. path \in Paths
  BY <1>1, PathsOfSpecs
<1>3. PICK F : F = Ensure(D, path)
  OBVIOUS
<1>4. /\ Desired(F) /\ Follows(D, F)
      /\ F.entries = D.entries /\ F.revisions = D.revisions
      /\ DOMAIN F.scopes = DOMAIN D.scopes \cup Lineage(path) /\ HasScope(F, path)
      /\ \A p \in DOMAIN D.scopes : F.scopes[p] = D.scopes[p]
      /\ \A p \in DOMAIN F.scopes \ DOMAIN D.scopes : F.scopes[p] = Bare
      /\ HasScope(D, path) => F = D
  BY <1>2, <1>3, Ensured
<1>5. PICK scope : scope = TagOf(spec)
  OBVIOUS
<1>6. DOMAIN scope = {"terms", "agent", "revision"}
  BY <1>5 DEF TagOf
<1>7. E = SetScope(F, path, scope)
  BY <1>1, <1>3, <1>5 DEF Declare, TagOf
<1>8. /\ Desired(E) /\ Follows(F, E)
      /\ E.entries = F.entries /\ E.revisions = F.revisions
      /\ DOMAIN E.scopes = DOMAIN F.scopes /\ E.scopes[path] = scope
      /\ \A p \in DOMAIN F.scopes : p # path => E.scopes[p] = F.scopes[p]
  BY <1>4, <1>6, <1>7, ScopeSet
<1>9. Follows(D, E)
  BY <1>4, <1>8, FollowsOn
<1> QED BY <1>1, <1>4, <1>5, <1>8, <1>9 DEF HasScope

(* The contributions of a spec, installed in its scope one after the       *)
(* other: when none fails all are there, and the undo list leads back when *)
(* one does.                                                               *)
LEMMA ContributionsSound ==
    ASSUME NEW D, Desired(D), NEW spec \in Specs, HasScope(D, spec.scope),
           NEW t, t = Contributions(D, spec)
    PROVE  /\ Same(D, t.undone)
           /\ Desired(t.done) /\ Follows(D, t.done) /\ t.done.scopes = D.scopes
           /\ \A id : id \notin EntriesOf(spec) =>
                /\ id \in DOMAIN t.done.entries <=> id \in DOMAIN D.entries
                /\ id \in DOMAIN D.entries => t.done.entries[id] = D.entries[id]
           /\ t.ok => \A id \in EntriesOf(spec) :
                id \in DOMAIN t.done.entries /\ t.done.entries[id].scope = spec.scope
<1> DEFINE S == {p \in DOMAIN spec.plugins : ~Keeps(D, spec, p)}
           new == SetToSeq(S)
           changes == [i \in DOMAIN new |-> Contribution(spec, new[i])]
<1>1. S \in SUBSET DOMAIN spec.plugins
  OBVIOUS
<1>2. IsFiniteSet(S)
  <2>1. IsFiniteSet(DOMAIN spec.plugins)
    BY ControlAssumption
  <2> HIDE DEF S
  <2> QED BY <1>1, <2>1, FS_Subset
<1>3. /\ Len(new) \in Nat /\ DOMAIN new = 1 .. Len(new)
      /\ \A i \in DOMAIN new : new[i] \in S
      /\ \A x \in S : \E i \in DOMAIN new : new[i] = x
      /\ \A i, j \in DOMAIN new : new[i] = new[j] => i = j
  <2> HIDE DEF S
  <2> QED BY <1>2, Sequenced
<1>4. t = Transaction(D, changes)
  BY DEF Contributions
<1>5. \A p : /\ Contribution(spec, p).id = EntryOf(spec.name, p)
             /\ Contribution(spec, p).to # Gone /\ Contribution(spec, p).to.scope = spec.scope
  <2>1. ASSUME NEW x, NEW y, NEW z PROVE [plugin |-> x, config |-> y, scope |-> z] # Gone
    <3>1. DOMAIN [plugin |-> x, config |-> y, scope |-> z] = {"plugin", "config", "scope"}
      OBVIOUS
    <3>2. DOMAIN Gone = {"plugin"}
      BY DEF Gone
    <3> QED BY <3>1, <3>2
  <2> QED BY <2>1 DEF Contribution
<1>6. \A p, q : EntryOf(spec.name, p) = EntryOf(spec.name, q) => p = q
  BY DEF EntryOf
<1> HIDE DEF new
<1>7. /\ DOMAIN changes = DOMAIN new /\ Len(changes) = Len(new)
      /\ \A i \in DOMAIN new : changes[i] = Contribution(spec, new[i])
  <2>1. changes \in Seq({Contribution(spec, new[i]) : i \in DOMAIN new})
    BY <1>3
  <2> QED BY <1>3, <2>1
<1> HIDE DEF changes
<1>8. \A i \in DOMAIN changes :
        /\ changes[i].id = EntryOf(spec.name, new[i]) /\ new[i] \in S
        /\ changes[i].to # Gone /\ changes[i].to.scope = spec.scope
  BY <1>3, <1>5, <1>7
<1>9. \A i \in DOMAIN changes : Sound(changes[i], D)
  BY <1>8 DEF Sound, HasScope
<1>10. Distinct(changes)
  BY <1>3, <1>6, <1>7, <1>8 DEF Distinct
<1>11. /\ Same(D, t.undone)
       /\ \E n \in 0 .. Len(changes) :
            After(D, changes, n, t.done) /\ (t.ok <=> n = Len(changes))
  <2>1. Len(changes) \in Nat /\ DOMAIN changes = 1 .. Len(changes)
    BY ONLY <1>3, <1>7
  <2> QED BY <1>4, <1>9, <2>1, TransactionSound
<1>12. PICK n \in 0 .. Len(changes) : After(D, changes, n, t.done) /\ (t.ok <=> n = Len(changes))
  BY <1>11
<1>13. 1 .. n \subseteq DOMAIN changes /\ (n = Len(changes) => 1 .. n = DOMAIN changes)
  <2>1. PICK m : m = Len(changes)
    OBVIOUS
  <2>2. m \in Nat /\ DOMAIN changes = 1 .. m /\ n \in 0 .. m
    BY ONLY <1>3, <1>7, <1>12, <2>1
  <2>3. 1 .. n \subseteq 1 .. m /\ (n = m => 1 .. n = 1 .. m)
    BY ONLY <2>2
  <2> QED BY ONLY <2>1, <2>2, <2>3
<1>14. \A i \in DOMAIN changes : changes[i].id \in EntriesOf(spec)
  BY <1>8 DEF EntriesOf
<1>15. ASSUME NEW id, id \notin EntriesOf(spec)
       PROVE  /\ id \in DOMAIN t.done.entries <=> id \in DOMAIN D.entries
              /\ id \in DOMAIN D.entries => t.done.entries[id] = D.entries[id]
  <2>1. \A i \in 1 .. n : changes[i].id # id
    BY <1>13, <1>14, <1>15
  <2> QED BY <1>12, <2>1 DEF After
<1>16. ASSUME t.ok, NEW id \in EntriesOf(spec)
       PROVE  id \in DOMAIN t.done.entries /\ t.done.entries[id].scope = spec.scope
  <2>1. PICK p \in DOMAIN spec.plugins : id = EntryOf(spec.name, p)
    BY DEF EntriesOf
  <2>2. CASE p \in S
    <3>1. PICK i \in DOMAIN new : new[i] = p
      BY <1>3, <2>2
    <3>2. i \in DOMAIN changes /\ changes[i].id = id
      BY <1>7, <1>8, <2>1, <3>1
    <3>3. Made(changes[i], t.done)
      BY <1>10, <1>12, <1>13, <1>16, <3>2 DEF After
    <3> QED BY <1>8, <3>2, <3>3 DEF Made
  <2>3. CASE p \notin S
    <3>1. id \in DOMAIN D.entries /\ D.entries[id].scope = spec.scope
      BY <2>1, <2>3 DEF Keeps, HasEntry
    <3>2. \A i \in 1 .. n : changes[i].id # id
      BY <1>6, <1>8, <1>13, <2>1, <2>3
    <3> QED BY <1>12, <3>1, <3>2 DEF After
  <2> QED BY <2>2, <2>3
<1> QED BY <1>11, <1>12, <1>15, <1>16 DEF After

(* Another state with the same registry and the change pending follows.    *)
LEMMA SameRegistry ==
    ASSUME NEW D, Desired(D), NEW E, Desired(E), E.entries = D.entries,
           E.revisions = D.revisions, E.dirty
    PROVE  Follows(D, E)
<1>1. \A id : RevisionOf(E, id) = RevisionOf(D, id)
  BY DEF RevisionOf
<1> QED BY <1>1, FollowsItself DEF Follows

(* What a refused or failed call restores.                                 *)
Restores(c, k) ==
    /\ k.desired.entries = c.desired.entries /\ k.desired.revisions = c.desired.revisions
    /\ \A p \in DOMAIN c.desired.scopes :
         p \in DOMAIN k.desired.scopes /\ k.desired.scopes[p] = c.desired.scopes[p]
    /\ \A p \in DOMAIN k.desired.scopes \ DOMAIN c.desired.scopes : k.desired.scopes[p] = Bare
    /\ \A f \in Fields \ {"desired", "history", "owned"} : k[f] = c[f]
    /\ k.owned \cap DOMAIN c.desired.scopes = c.owned \cap DOMAIN c.desired.scopes

(* The failure path of _materialize (agents.py): the entries and the       *)
(* scopes there were are put back; bare ancestors stay.                    *)
LEMMA UnmaterializeSound ==
    ASSUME NEW c, Controlled(c), NEW spec \in Specs, Stageable(c, spec),
           NEW k, k = Unmaterialize(c, spec)
    PROVE  Controlled(k) /\ Evolves(c, k) /\ Restores(c, k) /\ k.history = c.history
<1>1. PICK D : D = c.desired
  OBVIOUS
<1>2. Desired(D) /\ DOMAIN c = Fields /\ Root \notin c.owned
  BY <1>1 DEF Controlled
<1>3. PICK path : path = spec.scope
  OBVIOUS
<1>4. /\ path \in Paths /\ path # Root /\ (HasScope(D, path) => path \in c.owned)
  <2>1. path \in Paths /\ (HasScope(D, path) => path \in c.owned)
    BY <1>1, <1>3, PathsOfSpecs DEF Stageable
  <2>2. HasScope(D, Root)
    BY <1>2 DEF Desired, Tree, HasScope
  <2> QED BY <1>2, <2>1, <2>2
<1>5. PICK A : A = Declare(D, spec)
  OBVIOUS
<1>6. /\ Desired(A) /\ A.entries = D.entries /\ A.revisions = D.revisions
      /\ DOMAIN A.scopes = DOMAIN D.scopes \cup Lineage(path) /\ HasScope(A, path)
      /\ \A p \in DOMAIN D.scopes : p # path => A.scopes[p] = D.scopes[p]
      /\ \A p \in DOMAIN A.scopes \ DOMAIN D.scopes : p # path => A.scopes[p] = Bare
  BY <1>2, <1>3, <1>5, DeclareSound
<1>7. PICK U : U = Contributions(A, spec).undone
  OBVIOUS
<1>8. Same(A, U)
  BY <1>3, <1>6, <1>7, ContributionsSound
<1>9. PICK F : F = [U EXCEPT !.dirty = D.dirty]
  OBVIOUS
<1>10. /\ DOMAIN F = {"scopes", "entries", "revisions", "dirty"}
       /\ F.scopes = A.scopes /\ F.entries = D.entries /\ F.revisions = D.revisions
       /\ F.dirty = D.dirty
  BY <1>6, <1>8, <1>9 DEF Same
<1>11. Desired(F) /\ HasScope(F, path)
  BY <1>2, <1>6, <1>10 DEF Desired, Tree, Registry, Housed, HasScope
<1>12. CASE HasScope(D, path)
  <2>1. PICK scope : scope = D.scopes[path]
    OBVIOUS
  <2>2. DOMAIN scope = {"terms", "agent", "revision"}
    BY <1>2, <1>12, <2>1 DEF Desired, Tree, HasScope
  <2>3. PICK E : E = SetScope(F, path, scope)
    OBVIOUS
  <2>4. /\ Desired(E) /\ Follows(F, E)
        /\ E.entries = F.entries /\ E.revisions = F.revisions
        /\ DOMAIN E.scopes = DOMAIN F.scopes /\ E.scopes[path] = scope
        /\ \A p \in DOMAIN F.scopes : p # path => E.scopes[p] = F.scopes[p]
    BY <1>11, <2>2, <2>3, ScopeSet
  <2>5. DOMAIN E.scopes = DOMAIN D.scopes /\ \A p \in DOMAIN D.scopes : E.scopes[p] = D.scopes[p]
    <3>1. Lineage(path) \subseteq DOMAIN D.scopes
      BY <1>2, <1>12 DEF Desired, Tree, HasScope
    <3> QED BY <1>6, <1>10, <2>1, <2>4, <3>1
  <2>6. E.dirty
    BY <1>10, <2>3 DEF SetScope
  <2>7. Follows(D, E)
    BY <1>2, <1>10, <2>4, <2>6, SameRegistry
  <2>8. k = [c EXCEPT !.desired = E]
    BY <1>1, <1>3, <1>5, <1>7, <1>9, <1>12, <2>1, <2>3 DEF Unmaterialize
  <2>9. DOMAIN k = Fields /\ k.desired = E /\ \A f \in Fields \ {"desired"} : k[f] = c[f]
    BY <1>2, <2>8 DEF Fields
  <2>10. /\ k.history = c.history /\ k.active = c.active /\ k.retired = c.retired
         /\ k.owned = c.owned /\ k.programPrefs = c.programPrefs /\ k.configPrefs = c.configPrefs
    BY <2>9 DEF Fields
  <2>11. Controlled(k) /\ Evolves(c, k)
    BY <1>1, <1>10, <2>4, <2>5, <2>7, <2>9, <2>10, PlainCall
  <2>12. Restores(c, k)
    BY <1>1, <1>10, <2>4, <2>5, <2>9, <2>10 DEF Restores
  <2> QED BY <2>10, <2>11, <2>12
<1>13. CASE ~HasScope(D, path)
  <2>1. PICK E : E = RemoveScope(F, path)
    OBVIOUS
  <2>2. /\ Desired(E) /\ Follows(F, E)
        /\ E.revisions = F.revisions
        /\ DOMAIN E.entries = {id \in DOMAIN F.entries : ~IsWithin(F.entries[id].scope, path)}
        /\ \A id \in DOMAIN E.entries : E.entries[id] = F.entries[id]
        /\ DOMAIN E.scopes = {p \in DOMAIN F.scopes : ~IsWithin(p, path)}
        /\ \A p \in DOMAIN E.scopes : E.scopes[p] = F.scopes[p]
        /\ ~HasScope(E, path)
    BY <1>4, <1>11, <2>1, ScopeRemoved
  <2>3. \A p \in DOMAIN D.scopes : ~IsWithin(p, path) /\ p # path
    <3>1. \A p \in Paths : IsWithin(p, path) <=> path \in Lineage(p)
      BY <1>4, LineageFacts
    <3> QED BY <1>2, <1>13, <3>1 DEF Desired, Tree, HasScope
  <2>4. E.entries = D.entries
    <3>1. \A id \in DOMAIN D.entries : ~IsWithin(D.entries[id].scope, path)
      BY <1>2, <2>3 DEF Desired, Housed
    <3>2. DOMAIN E.entries = DOMAIN D.entries /\ \A id \in DOMAIN D.entries : E.entries[id] = D.entries[id]
      BY <1>10, <2>2, <3>1
    <3>3. IsFcn(E.entries) /\ IsFcn(D.entries)
      BY <1>2, <2>2 DEF Desired, Registry
    <3> QED BY <3>2, <3>3 DEF IsFcn
  <2>5. \A p \in DOMAIN D.scopes : p \in DOMAIN E.scopes /\ E.scopes[p] = D.scopes[p]
    BY <1>6, <1>10, <2>2, <2>3
  <2>6. \A p \in DOMAIN E.scopes \ DOMAIN D.scopes : E.scopes[p] = Bare
    BY <1>6, <1>10, <2>2 DEF HasScope
  <2>7. E.dirty
    BY <1>10, <1>11, <2>1 DEF RemoveScope
  <2>8. Follows(D, E)
    BY <1>2, <1>10, <2>2, <2>4, <2>7, SameRegistry
  <2>9. k = [c EXCEPT !.desired = E, !.owned = @ \ {path}]
    BY <1>1, <1>3, <1>5, <1>7, <1>9, <1>13, <2>1 DEF Unmaterialize
  <2>10. /\ DOMAIN k = Fields /\ k.desired = E /\ k.owned = c.owned \ {path}
         /\ \A f \in Fields \ {"desired", "owned"} : k[f] = c[f]
    BY <1>2, <2>9 DEF Fields
  <2>11. /\ k.history = c.history /\ k.active = c.active /\ k.retired = c.retired
         /\ k.programPrefs = c.programPrefs /\ k.configPrefs = c.configPrefs
    BY <2>10 DEF Fields
  <2>12. Root \notin k.owned /\ c.owned \cap DOMAIN E.scopes \subseteq k.owned
    BY <1>2, <2>2, <2>10 DEF HasScope
  <2>13. Bare.agent = NoAgent /\ Bare.revision = NoRevision
    BY DEF Bare
  <2>14. Controlled(k) /\ Evolves(c, k)
    BY <1>1, <2>2, <2>4, <2>5, <2>6, <2>8, <2>10, <2>11, <2>12, <2>13, AgentsUntouched
  <2>15. k.owned \cap DOMAIN D.scopes = c.owned \cap DOMAIN D.scopes
    BY <1>13, <2>10 DEF HasScope
  <2>16. Restores(c, k)
    BY <1>1, <1>10, <2>2, <2>4, <2>5, <2>6, <2>10, <2>15 DEF Restores
  <2> QED BY <2>11, <2>14, <2>16
<1> QED BY <1>12, <1>13

(* A revision withdrawn: nothing of it is left, and nothing else is gone   *)
(* but what lies within its scope.                                         *)
LEMMA Withdrawn ==
    ASSUME NEW c, DOMAIN c = Fields, NEW D, D = c.desired, Desired(D), Root \notin c.owned,
           NEW revision, NEW path, path = revision.spec.scope, path \in Paths,
           NEW k, k = WithdrawRevision(c, revision)
    PROVE  /\ DOMAIN k = Fields /\ \A f \in Fields \ {"desired", "owned"} : k[f] = c[f]
           /\ Desired(k.desired) /\ Follows(D, k.desired) /\ k.owned \subseteq c.owned
           /\ \A p \in DOMAIN k.desired.scopes :
                /\ p \in DOMAIN D.scopes /\ k.desired.scopes[p] = D.scopes[p]
                /\ p \in c.owned => p \in k.owned /\ p # path
           /\ \A id \in DOMAIN k.desired.entries :
                /\ id \in DOMAIN D.entries /\ k.desired.entries[id] = D.entries[id]
                /\ id \in revision.entries => D.entries[id].scope # path
           /\ \A p \in DOMAIN D.scopes : ~IsWithin(p, path) => p \in DOMAIN k.desired.scopes
           /\ \A id \in DOMAIN D.entries :
                ~IsWithin(D.entries[id].scope, path)
                  /\ (id \notin revision.entries \/ (path \in c.owned /\ HasScope(D, path)))
                => id \in DOMAIN k.desired.entries
<1>0. IsWithin(path, path)
  BY LineageFacts
<1>1. CASE path \in c.owned /\ HasScope(D, path)
  <2>1. PICK E : E = RemoveScope(D, path)
    OBVIOUS
  <2>2. path # Root
    BY <1>1
  <2>3. /\ Desired(E) /\ Follows(D, E)
        /\ E.revisions = D.revisions
        /\ DOMAIN E.entries = {id \in DOMAIN D.entries : ~IsWithin(D.entries[id].scope, path)}
        /\ \A id \in DOMAIN E.entries : E.entries[id] = D.entries[id]
        /\ DOMAIN E.scopes = {p \in DOMAIN D.scopes : ~IsWithin(p, path)}
        /\ \A p \in DOMAIN E.scopes : E.scopes[p] = D.scopes[p]
        /\ ~HasScope(E, path)
    BY <2>1, <2>2, ScopeRemoved
  <2>4. k = [c EXCEPT !.desired = E, !.owned = @ \ {path}]
    BY <1>1, <2>1 DEF WithdrawRevision
  <2>5. /\ DOMAIN k = Fields /\ k.desired = E /\ k.owned = c.owned \ {path}
        /\ \A f \in Fields \ {"desired", "owned"} : k[f] = c[f]
    BY <2>4 DEF Fields
  <2> QED BY <1>0, <2>3, <2>5
<1>2. CASE ~(path \in c.owned /\ HasScope(D, path))
  <2>1. PICK E : E = UninstallAll(D, revision.entries)
    OBVIOUS
  <2>2. /\ Desired(E) /\ Follows(D, E)
        /\ E.scopes = D.scopes /\ E.revisions = D.revisions
        /\ DOMAIN E.entries = DOMAIN D.entries \ revision.entries
        /\ \A x \in DOMAIN E.entries : E.entries[x] = D.entries[x]
    BY <2>1, EntriesUninstalled
  <2>3. k = [c EXCEPT !.desired = E]
    BY <1>2, <2>1 DEF WithdrawRevision
  <2>4. DOMAIN k = Fields /\ k.desired = E /\ \A f \in Fields \ {"desired"} : k[f] = c[f]
    BY <2>3 DEF Fields
  <2>5. k.owned = c.owned
    BY <2>4 DEF Fields
  <2> QED BY <1>2, <2>2, <2>4, <2>5 DEF HasScope
<1> QED BY <1>1, <1>2

(* The active revision of an agent is one of its specs.                    *)
LEMMA ActiveFacts ==
    ASSUME NEW c, Controlled(c), NEW name, HasActive(c, name)
    PROVE  /\ ActiveOf(c, name).spec \in Specs /\ ActiveOf(c, name).spec.name = name
           /\ ActiveOf(c, name).spec.revision = c.active[name]
           /\ ActiveOf(c, name).spec.scope \in Paths
           /\ ActiveOf(c, name).entries = EntriesOf(ActiveOf(c, name).spec)
           /\ name \in DOMAIN c.history /\ c.active[name] \in DOMAIN c.history[name]
<1>1. name \in DOMAIN c.history /\ c.active[name] \in DOMAIN c.history[name]
  BY DEF Controlled, ActiveHolds, HasActive
<1>2. /\ ActiveOf(c, name).spec \in Specs /\ ActiveOf(c, name).spec.name = name
      /\ ActiveOf(c, name).spec.revision = c.active[name]
      /\ ActiveOf(c, name).entries = EntriesOf(ActiveOf(c, name).spec)
  BY <1>1 DEF Controlled, HistoryHolds, ActiveOf
<1> QED BY <1>1, <1>2, PathsOfSpecs

(* remove (agents.py): the agent is retired, its scope and its entries go. *)
LEMMA RetireSound ==
    ASSUME NEW c, Controlled(c), NEW name, NEW k, k = Retire(c, name)
    PROVE  Controlled(k) /\ Evolves(c, k)
<1>1. PICK active : active = Drop(c.active, {name})
  OBVIOUS
<1>2. PICK gone : gone = [c EXCEPT !.retired = @ \cup {name}, !.active = active]
  OBVIOUS
<1>3. /\ DOMAIN gone = Fields
      /\ gone.active = active /\ gone.retired = c.retired \cup {name}
      /\ gone.desired = c.desired /\ gone.owned = c.owned /\ gone.history = c.history
      /\ gone.programPrefs = c.programPrefs /\ gone.configPrefs = c.configPrefs
  BY <1>2 DEF Controlled, Fields
<1>4. DOMAIN active = DOMAIN c.active \ {name} /\ \A n \in DOMAIN active : active[n] = c.active[n]
  BY <1>1 DEF Drop
<1>5. /\ DOMAIN k = Fields /\ Desired(k.desired) /\ Follows(c.desired, k.desired)
      /\ k.active = active /\ k.retired = c.retired \cup {name} /\ k.history = c.history
      /\ k.programPrefs = c.programPrefs /\ k.configPrefs = c.configPrefs
      /\ k.owned \subseteq c.owned
      /\ \A p \in DOMAIN k.desired.scopes :
           /\ p \in DOMAIN c.desired.scopes /\ k.desired.scopes[p] = c.desired.scopes[p]
           /\ p \in c.owned => p \in k.owned
           /\ HasActive(c, name) /\ p \in c.owned => p # ActiveOf(c, name).spec.scope
      /\ \A id \in DOMAIN k.desired.entries :
           /\ id \in DOMAIN c.desired.entries /\ k.desired.entries[id] = c.desired.entries[id]
           /\ HasActive(c, name) /\ id \in ActiveOf(c, name).entries =>
                c.desired.entries[id].scope # ActiveOf(c, name).spec.scope
  <2>1. CASE HasActive(c, name)
    <3>1. PICK revision : revision = ActiveOf(c, name)
      OBVIOUS
    <3>2. PICK path : path = revision.spec.scope
      OBVIOUS
    <3>3. path \in Paths
      BY <2>1, <3>1, <3>2, ActiveFacts
    <3>4. PICK D : D = gone.desired
      OBVIOUS
    <3>5. Desired(D) /\ Root \notin gone.owned
      BY <1>3, <3>4 DEF Controlled
    <3>6. k = WithdrawRevision(gone, revision)
      BY <1>1, <1>2, <2>1, <3>1 DEF Retire
    <3>7. /\ DOMAIN k = Fields /\ \A f \in Fields \ {"desired", "owned"} : k[f] = gone[f]
          /\ Desired(k.desired) /\ Follows(D, k.desired) /\ k.owned \subseteq gone.owned
          /\ \A p \in DOMAIN k.desired.scopes :
               /\ p \in DOMAIN D.scopes /\ k.desired.scopes[p] = D.scopes[p]
               /\ p \in gone.owned => p \in k.owned /\ p # path
          /\ \A id \in DOMAIN k.desired.entries :
               /\ id \in DOMAIN D.entries /\ k.desired.entries[id] = D.entries[id]
               /\ id \in revision.entries => D.entries[id].scope # path
      BY <1>3, <3>2, <3>3, <3>4, <3>5, <3>6, Withdrawn
    <3>8. /\ k.active = active /\ k.retired = c.retired \cup {name} /\ k.history = c.history
          /\ k.programPrefs = c.programPrefs /\ k.configPrefs = c.configPrefs
      BY <1>3, <3>7 DEF Fields
    <3> QED BY <1>3, <3>1, <3>2, <3>4, <3>7, <3>8
  <2>2. CASE ~HasActive(c, name)
    <3>1. k = gone
      BY <1>1, <1>2, <2>2 DEF Retire
    <3>2. Desired(c.desired) /\ Follows(c.desired, c.desired)
      BY FollowsItself DEF Controlled
    <3> QED BY <1>3, <2>2, <3>1, <3>2
  <2> QED BY <2>1, <2>2
<1>6. HistoryHolds(k)
  BY <1>5 DEF Controlled, HistoryHolds
<1>7. ActiveHolds(k)
  BY <1>4, <1>5 DEF Controlled, ActiveHolds
<1>8. \A n : n # name /\ HasActive(c, n) =>
        HasActive(k, n) /\ k.active[n] = c.active[n] /\ ActiveOf(k, n) = ActiveOf(c, n)
  BY <1>4, <1>5 DEF HasActive, ActiveOf
<1>9. TagsHold(k)
  BY <1>5, <1>8 DEF Controlled, TagsHold
<1>10. ContributionsHold(k)
  BY <1>5, <1>8 DEF Controlled, ContributionsHold
<1>11. Root \notin k.owned
  BY <1>5 DEF Controlled
<1>12. Evolves(c, k)
  BY <1>5 DEF Evolves, EffectivePreferences
<1> QED BY <1>5, <1>6, <1>7, <1>9, <1>10, <1>11, <1>12 DEF Controlled

(* Republishing and taking over: what install has established when it      *)
(* materializes a spec.                                                    *)
Installable(c, spec) ==
    /\ Knows(c, spec.name) /\ Stageable(c, spec) /\ Materializes(c, spec)
    /\ IsPublished(c, spec) => c.history[spec.name][spec.revision].spec = spec
    /\ HasActive(c, spec.name) => c.active[spec.name] # spec.revision

(* A publication that is not refused and not current installs a revision   *)
(* other than the active one, under a name that holds no other content.    *)
LEMMA InstallableWhen ==
    ASSUME NEW c, Controlled(c), NEW spec, NEW replace, Knows(c, spec.name),
           ~Refuses(c, spec, replace), ~IsCurrent(c, spec), Stageable(c, spec),
           Materializes(c, spec)
    PROVE  Installable(c, spec)
<1>1. IsPublished(c, spec) => c.history[spec.name][spec.revision].spec = spec
  BY DEF Refuses
<1>2. ASSUME HasActive(c, spec.name), c.active[spec.name] = spec.revision PROVE FALSE
  <2>1. IsPublished(c, spec)
    BY <1>2, ActiveFacts DEF IsPublished, Knows
  <2> QED BY <1>2, <2>1 DEF IsCurrent
<1> QED BY <1>1, <1>2 DEF Installable

(* The desired state with the new revision in place, before the old one is *)
(* withdrawn from another scope.                                           *)
Built(c, spec) ==
    UninstallAll(Contributions(Declare(c.desired, spec), spec).done,
                 OwnEntries(c, spec) \ EntriesOf(spec))

(* With the revision in place its scope is there, named for it, with all   *)
(* its contributions; what it dropped is gone, the rest as it was.         *)
LEMMA BuiltSound ==
    ASSUME NEW c, Controlled(c), NEW spec \in Specs, Installable(c, spec),
           NEW D, D = c.desired, NEW B, B = Built(c, spec)
    PROVE  /\ Desired(B) /\ Follows(D, B)
           /\ DOMAIN B.scopes = DOMAIN D.scopes \cup Lineage(spec.scope)
           /\ B.scopes[spec.scope] = TagOf(spec) /\ spec.scope \in DOMAIN B.scopes
           /\ \A p \in DOMAIN D.scopes : p # spec.scope => B.scopes[p] = D.scopes[p]
           /\ \A p \in DOMAIN B.scopes \ DOMAIN D.scopes : p # spec.scope => B.scopes[p] = Bare
           /\ \A id \in EntriesOf(spec) :
                id \in DOMAIN B.entries /\ B.entries[id].scope = spec.scope
           /\ \A id : id \notin EntriesOf(spec) =>
                /\ id \in DOMAIN B.entries <=>
                     id \in DOMAIN D.entries /\ id \notin OwnEntries(c, spec)
                /\ id \in DOMAIN B.entries => B.entries[id] = D.entries[id]
<1>1. Desired(D)
  BY DEF Controlled
<1>2. PICK A : A = Declare(D, spec)
  OBVIOUS
<1>3. /\ Desired(A) /\ Follows(D, A)
      /\ A.entries = D.entries /\ A.revisions = D.revisions
      /\ DOMAIN A.scopes = DOMAIN D.scopes \cup Lineage(spec.scope)
      /\ HasScope(A, spec.scope) /\ A.scopes[spec.scope] = TagOf(spec)
      /\ \A p \in DOMAIN D.scopes : p # spec.scope => A.scopes[p] = D.scopes[p]
      /\ \A p \in DOMAIN A.scopes \ DOMAIN D.scopes : p # spec.scope => A.scopes[p] = Bare
  BY <1>1, <1>2, DeclareSound
<1>4. PICK t : t = Contributions(A, spec)
  OBVIOUS
<1>5. t.ok
  BY <1>2, <1>4 DEF Installable, Materializes
<1>6. PICK E : E = t.done
  OBVIOUS
<1>7. /\ Desired(E) /\ Follows(A, E) /\ E.scopes = A.scopes
      /\ \A id : id \notin EntriesOf(spec) =>
           /\ id \in DOMAIN E.entries <=> id \in DOMAIN A.entries
           /\ id \in DOMAIN A.entries => E.entries[id] = A.entries[id]
      /\ \A id \in EntriesOf(spec) : id \in DOMAIN E.entries /\ E.entries[id].scope = spec.scope
  BY <1>3, <1>4, <1>5, <1>6, ContributionsSound
<1>8. PICK dropped : dropped = OwnEntries(c, spec) \ EntriesOf(spec)
  OBVIOUS
<1>9. B = UninstallAll(E, dropped)
  BY <1>2, <1>4, <1>6, <1>8 DEF Built
<1>10. /\ Desired(B) /\ Follows(E, B)
       /\ B.scopes = E.scopes /\ B.revisions = E.revisions
       /\ DOMAIN B.entries = DOMAIN E.entries \ dropped
       /\ \A x \in DOMAIN B.entries : B.entries[x] = E.entries[x]
  BY <1>7, <1>9, EntriesUninstalled
<1>11. Follows(D, B)
  <2>1. Follows(D, E)
    BY <1>1, <1>3, <1>7, FollowsOn
  <2> QED BY <1>1, <1>7, <1>10, <2>1, FollowsOn
<1> QED BY <1>3, <1>7, <1>8, <1>10, <1>11 DEF HasScope

(* What is left once a revision elsewhere is withdrawn: from c to k, by    *)
(* way of the state built.                                                 *)
Settles(c, spec, k) ==
    LET B == Built(c, spec)
        name == spec.name
        old == ActiveOf(c, name)
    IN /\ DOMAIN k = Fields
       /\ k.history[name][spec.revision].spec = spec
       /\ k.history[name][spec.revision].entries = EntriesOf(spec)
       /\ DOMAIN k.history = DOMAIN c.history
       /\ DOMAIN k.history[name] = DOMAIN c.history[name] \cup {spec.revision}
       /\ \A n \in DOMAIN c.history : n # name => k.history[n] = c.history[n]
       /\ \A r \in DOMAIN c.history[name] :
            r # spec.revision => k.history[name][r] = c.history[name][r]
       /\ DOMAIN k.active = DOMAIN c.active \cup {name} /\ k.active[name] = spec.revision
       /\ \A n \in DOMAIN c.active : n # name => k.active[n] = c.active[n]
       /\ k.retired = c.retired \ {name}
       /\ k.programPrefs = c.programPrefs /\ k.configPrefs = c.configPrefs
       /\ Desired(k.desired) /\ Follows(B, k.desired)
       /\ k.owned \subseteq c.owned \cup {spec.scope}
       /\ \A p \in DOMAIN k.desired.scopes :
            /\ p \in DOMAIN B.scopes /\ k.desired.scopes[p] = B.scopes[p]
            /\ p \in c.owned \cup {spec.scope} =>
                 p \in k.owned /\ (Moves(c, spec) => p # old.spec.scope)
       /\ \A id \in DOMAIN k.desired.entries :
            /\ id \in DOMAIN B.entries /\ k.desired.entries[id] = B.entries[id]
            /\ Moves(c, spec) /\ id \in old.entries => B.entries[id].scope # old.spec.scope
       /\ \A p \in DOMAIN B.scopes :
            ~(Moves(c, spec) /\ IsWithin(p, old.spec.scope)) => p \in DOMAIN k.desired.scopes
       /\ \A id \in DOMAIN B.entries :
            ~Moves(c, spec)
              \/ ( /\ ~IsWithin(B.entries[id].scope, old.spec.scope)
                   /\ \/ id \notin old.entries
                      \/ old.spec.scope \in c.owned /\ HasScope(c.desired, old.spec.scope) )
            => id \in DOMAIN k.desired.entries

(* _materialize (agents.py), its success path, settles the new revision.   *)
LEMMA MaterializeSettles ==
    ASSUME NEW c, Controlled(c), NEW spec \in Specs, Installable(c, spec),
           NEW k, k = Materialize(c, spec)
    PROVE  Settles(c, spec, k)
<1>1. PICK D : D = c.desired
  OBVIOUS
<1>2. PICK B : B = Built(c, spec)
  OBVIOUS
<1>3. /\ Desired(B) /\ DOMAIN D.scopes \subseteq DOMAIN B.scopes
  BY <1>1, <1>2, BuiltSound
<1>4. PICK name, path, revision : name = spec.name /\ path = spec.scope /\ revision = spec.revision
  OBVIOUS
<1>5. PICK placed : placed = [c EXCEPT !.desired = B, !.owned = @ \cup {path}]
  OBVIOUS
<1>6. /\ DOMAIN placed = Fields /\ placed.desired = B /\ placed.owned = c.owned \cup {path}
      /\ \A f \in Fields \ {"desired", "owned"} : placed[f] = c[f]
  BY <1>5 DEF Controlled, Fields
<1>7. PICK old : old = ActiveOf(c, name)
  OBVIOUS
<1>8. PICK settled : settled = IF Moves(c, spec) THEN WithdrawRevision(placed, old) ELSE placed
  OBVIOUS
<1>9. Root \notin placed.owned
  <2>1. HasScope(c.desired, Root)
    BY DEF Controlled, Desired, Tree, HasScope
  <2>2. path # Root
    BY <1>4, <2>1 DEF Installable, Stageable, Controlled
  <2> QED BY <1>6, <2>2 DEF Controlled
<1>10. /\ DOMAIN settled = Fields
       /\ \A f \in Fields \ {"desired", "owned"} : settled[f] = c[f]
       /\ Desired(settled.desired) /\ Follows(B, settled.desired)
       /\ settled.owned \subseteq c.owned \cup {path}
       /\ \A p \in DOMAIN settled.desired.scopes :
            /\ p \in DOMAIN B.scopes /\ settled.desired.scopes[p] = B.scopes[p]
            /\ p \in c.owned \cup {path} =>
                 p \in settled.owned /\ (Moves(c, spec) => p # old.spec.scope)
       /\ \A id \in DOMAIN settled.desired.entries :
            /\ id \in DOMAIN B.entries /\ settled.desired.entries[id] = B.entries[id]
            /\ Moves(c, spec) /\ id \in old.entries => B.entries[id].scope # old.spec.scope
       /\ \A p \in DOMAIN B.scopes :
            ~(Moves(c, spec) /\ IsWithin(p, old.spec.scope)) => p \in DOMAIN settled.desired.scopes
       /\ \A id \in DOMAIN B.entries :
            ~Moves(c, spec)
              \/ ( /\ ~IsWithin(B.entries[id].scope, old.spec.scope)
                   /\ \/ id \notin old.entries
                      \/ old.spec.scope \in c.owned /\ HasScope(c.desired, old.spec.scope) )
            => id \in DOMAIN settled.desired.entries
  <2>1. CASE ~Moves(c, spec)
    <3>1. settled = placed
      BY <1>8, <2>1
    <3>2. Follows(B, B)
      BY <1>3, FollowsItself
    <3> QED BY <1>3, <1>6, <2>1, <3>1, <3>2
  <2>2. CASE Moves(c, spec)
    <3>1. settled = WithdrawRevision(placed, old)
      BY <1>8, <2>2
    <3>2. PICK where : where = old.spec.scope
      OBVIOUS
    <3>3. where \in Paths
      <4>1. HasActive(c, name)
        BY <1>4, <2>2 DEF Moves, Replaces
      <4> QED BY <1>7, <3>2, <4>1, ActiveFacts
    <3>4. /\ DOMAIN settled = Fields
          /\ \A f \in Fields \ {"desired", "owned"} : settled[f] = placed[f]
          /\ Desired(settled.desired) /\ Follows(B, settled.desired)
          /\ settled.owned \subseteq placed.owned
          /\ \A p \in DOMAIN settled.desired.scopes :
               /\ p \in DOMAIN B.scopes /\ settled.desired.scopes[p] = B.scopes[p]
               /\ p \in placed.owned => p \in settled.owned /\ p # where
          /\ \A id \in DOMAIN settled.desired.entries :
               /\ id \in DOMAIN B.entries /\ settled.desired.entries[id] = B.entries[id]
               /\ id \in old.entries => B.entries[id].scope # where
          /\ \A p \in DOMAIN B.scopes : ~IsWithin(p, where) => p \in DOMAIN settled.desired.scopes
          /\ \A id \in DOMAIN B.entries :
               ~IsWithin(B.entries[id].scope, where)
                 /\ (id \notin old.entries \/ (where \in placed.owned /\ HasScope(B, where)))
               => id \in DOMAIN settled.desired.entries
      BY <1>3, <1>6, <1>9, <3>1, <3>2, <3>3, Withdrawn
    <3>5. where \in c.owned /\ HasScope(c.desired, where) =>
            where \in placed.owned /\ HasScope(B, where)
      BY <1>1, <1>3, <1>6 DEF HasScope
    <3> QED BY <1>6, <2>2, <3>2, <3>4, <3>5
  <2> QED BY <2>1, <2>2
<1>11. Knows(settled, name)
  BY <1>4, <1>10 DEF Installable, Knows, Fields
<1>12. PICK known : known = Remembered(settled, name)
  OBVIOUS
<1>13. DOMAIN known = Fields /\ \A f \in Fields : known[f] = settled[f]
  BY <1>10, <1>11, <1>12 DEF Remembered, Fields
<1>14. PICK mine : mine = Put(c.history[name], revision, [spec |-> spec, entries |-> EntriesOf(spec)])
  OBVIOUS
<1>15. PICK active : active = Put(c.active, name, revision)
  OBVIOUS
<1>16. /\ known.history = c.history /\ known.active = c.active /\ known.retired = c.retired
       /\ known.programPrefs = c.programPrefs /\ known.configPrefs = c.configPrefs
       /\ known.desired = settled.desired /\ known.owned = settled.owned
  BY <1>10, <1>13 DEF Fields
<1>17. k = [known EXCEPT !.history[name] = Put(@, revision, [spec |-> spec, entries |-> EntriesOf(spec)]),
                         !.active = Put(@, name, revision),
                         !.retired = @ \ {name}]
  BY <1>2, <1>4, <1>5, <1>7, <1>8, <1>12 DEF Materialize, Built
<1>18. /\ DOMAIN k = Fields /\ k.history = [c.history EXCEPT ![name] = mine]
       /\ k.active = active /\ k.retired = c.retired \ {name}
       /\ k.programPrefs = c.programPrefs /\ k.configPrefs = c.configPrefs
       /\ k.desired = settled.desired /\ k.owned = settled.owned
  BY <1>13, <1>14, <1>15, <1>16, <1>17 DEF Fields
<1>19. name \in DOMAIN c.history
  BY <1>4 DEF Installable, Knows
<1>20. /\ DOMAIN mine = DOMAIN c.history[name] \cup {revision}
       /\ mine[revision] = [spec |-> spec, entries |-> EntriesOf(spec)]
       /\ \A r \in DOMAIN c.history[name] : r # revision => mine[r] = c.history[name][r]
  BY <1>14 DEF Put
<1>21. /\ DOMAIN active = DOMAIN c.active \cup {name} /\ active[name] = revision
       /\ \A n \in DOMAIN c.active : n # name => active[n] = c.active[n]
  BY <1>15 DEF Put
<1>22. /\ DOMAIN k.history = DOMAIN c.history /\ k.history[name] = mine
       /\ \A n \in DOMAIN c.history : n # name => k.history[n] = c.history[n]
  BY <1>18, <1>19
<1>23. mine[revision].spec = spec /\ mine[revision].entries = EntriesOf(spec)
  BY <1>20
<1> QED BY <1>2, <1>4, <1>7, <1>10, <1>18, <1>20, <1>21, <1>22, <1>23 DEF Settles

(* An id of an agent's contribution tells the agent.                       *)
LEMMA OwnIds ==
    ASSUME NEW spec, NEW id \in EntriesOf(spec)
    PROVE  id[1] = "agent" /\ id[2] = spec.name
BY DEF EntriesOf, EntryOf

(* Of the installing agent's entries only the new revision's are left.     *)
LEMMA OnlyTheNewRevision ==
    ASSUME NEW c, Controlled(c), NEW spec \in Specs, Installable(c, spec),
           NEW k, Settles(c, spec, k),
           NEW id \in DOMAIN k.desired.entries, id[1] = "agent", id[2] = spec.name
    PROVE  id \in EntriesOf(spec) /\ k.desired.entries[id].scope = spec.scope
<1>1. PICK D, B : D = c.desired /\ B = Built(c, spec)
  OBVIOUS
<1>2. /\ \A x \in EntriesOf(spec) : x \in DOMAIN B.entries /\ B.entries[x].scope = spec.scope
      /\ \A x : x \notin EntriesOf(spec) =>
           /\ x \in DOMAIN B.entries <=> x \in DOMAIN D.entries /\ x \notin OwnEntries(c, spec)
           /\ x \in DOMAIN B.entries => B.entries[x] = D.entries[x]
  BY <1>1, BuiltSound
<1>3. PICK old : old = ActiveOf(c, spec.name)
  OBVIOUS
<1>4. /\ id \in DOMAIN B.entries /\ k.desired.entries[id] = B.entries[id]
      /\ Moves(c, spec) /\ id \in old.entries => B.entries[id].scope # old.spec.scope
  BY <1>1, <1>3 DEF Settles
<1>5. CASE id \in EntriesOf(spec)
  BY <1>2, <1>4, <1>5
<1>6. CASE id \notin EntriesOf(spec)
  <2>1. id \in DOMAIN D.entries /\ id \notin OwnEntries(c, spec) /\ B.entries[id] = D.entries[id]
    BY <1>2, <1>4, <1>6
  <2>2. /\ HasActive(c, spec.name) /\ id \in old.entries
        /\ D.entries[id].scope = old.spec.scope
    BY <1>1, <1>3, <2>1 DEF Controlled, ContributionsHold
  <2>3. Replaces(c, spec)
    BY <2>2 DEF Installable, Replaces
  <2>4. ~InPlace(c, spec)
    BY <1>3, <2>1, <2>2 DEF OwnEntries
  <2>5. Moves(c, spec)
    BY <2>3, <2>4 DEF InPlace, Moves
  <2> QED BY <1>4, <2>1, <2>2, <2>5
<1> QED BY <1>5, <1>6

(* What is settled is sound: scopes and entries name the active revision.  *)
LEMMA MaterializeSound ==
    ASSUME NEW c, Controlled(c), NEW spec \in Specs, Installable(c, spec),
           NEW k, Settles(c, spec, k)
    PROVE  Controlled(k) /\ Evolves(c, k)
<1>1. PICK D, B, name, path, revision :
        /\ D = c.desired /\ B = Built(c, spec)
        /\ name = spec.name /\ path = spec.scope /\ revision = spec.revision
  OBVIOUS
<1>2. /\ Desired(B) /\ Follows(D, B)
      /\ DOMAIN B.scopes = DOMAIN D.scopes \cup Lineage(path)
      /\ B.scopes[path] = TagOf(spec) /\ path \in DOMAIN B.scopes
      /\ \A p \in DOMAIN D.scopes : p # path => B.scopes[p] = D.scopes[p]
      /\ \A p \in DOMAIN B.scopes \ DOMAIN D.scopes : p # path => B.scopes[p] = Bare
      /\ \A id \in EntriesOf(spec) : id \in DOMAIN B.entries /\ B.entries[id].scope = path
      /\ \A id : id \notin EntriesOf(spec) =>
           /\ id \in DOMAIN B.entries <=> id \in DOMAIN D.entries /\ id \notin OwnEntries(c, spec)
           /\ id \in DOMAIN B.entries => B.entries[id] = D.entries[id]
  BY <1>1, BuiltSound
<1>3. /\ DOMAIN k = Fields
      /\ k.history[name][revision].spec = spec
      /\ k.history[name][revision].entries = EntriesOf(spec)
      /\ DOMAIN k.history = DOMAIN c.history
      /\ DOMAIN k.history[name] = DOMAIN c.history[name] \cup {revision}
      /\ \A n \in DOMAIN c.history : n # name => k.history[n] = c.history[n]
      /\ \A r \in DOMAIN c.history[name] : r # revision => k.history[name][r] = c.history[name][r]
      /\ DOMAIN k.active = DOMAIN c.active \cup {name} /\ k.active[name] = revision
      /\ \A n \in DOMAIN c.active : n # name => k.active[n] = c.active[n]
      /\ k.retired = c.retired \ {name}
      /\ k.programPrefs = c.programPrefs /\ k.configPrefs = c.configPrefs
      /\ Desired(k.desired) /\ Follows(B, k.desired)
      /\ k.owned \subseteq c.owned \cup {path}
  BY <1>1 DEF Settles
<1>4. name \in DOMAIN c.history
  BY <1>1 DEF Installable, Knows
<1>5. HistoryHolds(k)
  <2>1. ASSUME NEW n \in DOMAIN k.history, NEW r \in DOMAIN k.history[n]
        PROVE  /\ k.history[n][r].spec \in Specs
               /\ k.history[n][r].spec.name = n /\ k.history[n][r].spec.revision = r
               /\ k.history[n][r].entries = EntriesOf(k.history[n][r].spec)
    <3>1. CASE n = name /\ r = revision
      BY <1>1, <1>3, <3>1
    <3>2. CASE ~(n = name /\ r = revision)
      <4>1. n \in DOMAIN c.history /\ r \in DOMAIN c.history[n] /\ k.history[n][r] = c.history[n][r]
        BY <1>3, <2>1, <3>2
      <4> QED BY <4>1 DEF Controlled, HistoryHolds
    <3> QED BY <3>1, <3>2
  <2> QED BY <2>1 DEF HistoryHolds
<1>6. ActiveHolds(k)
  BY <1>3, <1>4 DEF Controlled, ActiveHolds
<1>7. \A n : n # name /\ HasActive(c, n) =>
        HasActive(k, n) /\ k.active[n] = c.active[n] /\ ActiveOf(k, n) = ActiveOf(c, n)
  BY <1>3 DEF Controlled, ActiveHolds, HasActive, ActiveOf
<1>8. /\ HasActive(k, name) /\ ActiveOf(k, name).spec = spec
      /\ ActiveOf(k, name).entries = EntriesOf(spec)
  BY <1>3 DEF HasActive, ActiveOf
<1>9. Root \notin k.owned
  <2>1. HasScope(c.desired, Root)
    BY DEF Controlled, Desired, Tree, HasScope
  <2>2. path # Root
    BY <1>1, <2>1 DEF Installable, Stageable, Controlled
  <2> QED BY <1>3, <2>2 DEF Controlled
<1>10. TagsHold(k)
  <2> SUFFICES ASSUME NEW p \in DOMAIN k.desired.scopes, NEW scope, scope = k.desired.scopes[p]
               PROVE  \/ scope.agent = NoAgent /\ scope.revision = NoRevision
                      \/ /\ HasActive(k, scope.agent) /\ scope.revision = k.active[scope.agent]
                         /\ ActiveOf(k, scope.agent).spec.scope = p /\ p \in k.owned
    BY DEF TagsHold
  <2>1. /\ p \in DOMAIN B.scopes /\ scope = B.scopes[p]
        /\ p \in c.owned \cup {path} =>
             p \in k.owned /\ (Moves(c, spec) => p # ActiveOf(c, name).spec.scope)
    BY <1>1 DEF Settles
  <2>2. CASE p = path
    <3>1. scope.agent = name /\ scope.revision = revision
      BY <1>1, <1>2, <2>1, <2>2 DEF TagOf
    <3> QED BY <1>1, <1>3, <1>8, <2>1, <2>2, <3>1
  <2>3. CASE p # path /\ p \notin DOMAIN D.scopes
    <3>1. scope = Bare
      BY <1>2, <2>1, <2>3
    <3> QED BY <3>1 DEF Bare
  <2>4. CASE p # path /\ p \in DOMAIN D.scopes
    <3>1. scope = D.scopes[p]
      BY <1>2, <2>1, <2>4
    <3>2. CASE scope.agent = NoAgent /\ scope.revision = NoRevision
      BY <3>2
    <3>3. CASE ~(scope.agent = NoAgent /\ scope.revision = NoRevision)
      <4>1. /\ HasActive(c, scope.agent) /\ scope.revision = c.active[scope.agent]
            /\ ActiveOf(c, scope.agent).spec.scope = p /\ p \in c.owned
        BY <1>1, <2>4, <3>1, <3>3 DEF Controlled, TagsHold
      <4>2. scope.agent # name
        <5>1. SUFFICES ASSUME scope.agent = name PROVE FALSE
          OBVIOUS
        <5>2. Replaces(c, spec) /\ ActiveOf(c, name).spec.scope = p
          BY <1>1, <4>1, <5>1 DEF Installable, Replaces
        <5>3. Moves(c, spec)
          BY <1>1, <2>4, <5>2 DEF Moves, Replaces
        <5> QED BY <2>1, <4>1, <5>2, <5>3
      <4> QED BY <1>7, <2>1, <4>1, <4>2
    <3> QED BY <3>2, <3>3
  <2> QED BY <2>2, <2>3, <2>4
<1>11. ContributionsHold(k)
  <2> SUFFICES ASSUME NEW id \in DOMAIN k.desired.entries, id[1] = "agent"
               PROVE  /\ HasActive(k, id[2]) /\ id \in ActiveOf(k, id[2]).entries
                      /\ k.desired.entries[id].scope = ActiveOf(k, id[2]).spec.scope
    BY DEF ContributionsHold
  <2>1. CASE id[2] = name
    <3>1. id \in EntriesOf(spec) /\ k.desired.entries[id].scope = path
      BY <1>1, <2>1, OnlyTheNewRevision
    <3> QED BY <1>1, <1>8, <2>1, <3>1
  <2>2. CASE id[2] # name
    <3>1. id \in DOMAIN B.entries /\ k.desired.entries[id] = B.entries[id]
      BY <1>1 DEF Settles
    <3>2. id \notin EntriesOf(spec)
      BY <1>1, <2>2, OwnIds
    <3>3. id \in DOMAIN D.entries /\ k.desired.entries[id] = D.entries[id]
      BY <1>2, <3>1, <3>2
    <3>4. /\ HasActive(c, id[2]) /\ id \in ActiveOf(c, id[2]).entries
          /\ D.entries[id].scope = ActiveOf(c, id[2]).spec.scope
      BY <1>1, <3>3 DEF Controlled, ContributionsHold
    <3> QED BY <1>7, <2>2, <3>3, <3>4
  <2> QED BY <2>1, <2>2
<1>12. Evolves(c, k)
  <2>1. Follows(D, k.desired)
    BY <1>1, <1>2, <1>3, FollowsOn DEF Controlled
  <2>2. EffectivePreferences(k) = EffectivePreferences(c)
    BY <1>3 DEF EffectivePreferences
  <2>3. revision \in DOMAIN c.history[name] => c.history[name][revision].spec = spec
    BY <1>1, <1>4 DEF Installable, IsPublished, Knows
  <2> QED BY <1>1, <1>3, <2>1, <2>2, <2>3 DEF Evolves
<1> QED BY <1>3, <1>5, <1>6, <1>9, <1>10, <1>11, <1>12 DEF Controlled

(***************************************************************************)
(* The invariant                                                           *)
(***************************************************************************)

(* An entry seen under an id at some time: no later revision than any seen *)
(* since, and the only content of its revision.                            *)
Seen(D, id, e) ==
    /\ e.revision \in Nat /\ e.revision <= RevisionOf(D, id)
    /\ id \in DOMAIN D.entries /\ D.entries[id].revision = e.revision => D.entries[id] = e

(* The scopes of a generation, or of a plan: what names a revision names a *)
(* published one, which declares that scope.                               *)
Held(c, scopes) ==
    \A p \in DOMAIN scopes :
      LET scope == scopes[p]
      IN \/ scope.agent = NoAgent /\ scope.revision = NoRevision
         \/ /\ scope.agent \in DOMAIN c.history
            /\ scope.revision \in DOMAIN c.history[scope.agent]
            /\ c.history[scope.agent][scope.revision].spec.scope = p

(* What a reconciliation under way has read: the desired composition, as   *)
(* long as no call landed.                                                 *)
Reading ==
    building # NoPlan =>
      /\ DOMAIN building = {"by", "composed", "landed", "read"}
      /\ Held(control, building.composed.scopes)
      /\ \A id \in DOMAIN building.read : \A e \in building.read[id] : e = Gone \/ Seen(d, id, e)
      /\ ~building.landed =>
           /\ building.composed.scopes = d.scopes
           /\ building.read = [id \in DOMAIN d.entries |-> {d.entries[id]}]

(* With nothing pending the current generation is the desired composition, *)
(* unless a call landed while it was built.                                *)
Current == ~d.dirty /\ ~overtaken => published = Composed

(* The inductive invariant.                                                *)
Inv ==
    /\ Controlled(control)
    /\ calls \in 0 .. MaxCalls /\ last.result \in {"ok", "noop", "refused", "failed"}
    /\ DOMAIN runs = Runs
    /\ Held(control, published.scopes)
    /\ \A seen \in contents : Seen(d, seen[1], seen[2])
    /\ Reading
    /\ Current
    /\ RunsKeepTheirRevision

(* What was seen once stays seen, whatever calls follow: counters never go *)
(* back, so a later entry has a later revision.                            *)
LEMMA SeenOn ==
    ASSUME NEW D, NEW E, Desired(D), Desired(E), Follows(D, E), NEW id, NEW e, Seen(D, id, e)
    PROVE  Seen(E, id, e)
<1>1. /\ RevisionOf(D, id) \in Nat /\ RevisionOf(E, id) \in Nat
      /\ RevisionOf(D, id) <= RevisionOf(E, id) /\ e.revision \in Nat
      /\ e.revision <= RevisionOf(D, id)
  BY RevisionTyped DEF Follows, Seen
<1>2. ASSUME id \in DOMAIN E.entries, E.entries[id].revision = e.revision PROVE E.entries[id] = e
  <2>1. ~(E.entries[id].revision > RevisionOf(D, id))
    BY <1>1, <1>2
  <2>2. id \in DOMAIN D.entries /\ E.entries[id] = D.entries[id]
    BY <1>2, <2>1 DEF Follows
  <2> QED BY <1>2, <2>2 DEF Seen
<1> QED BY <1>1, <1>2 DEF Seen

(* What is desired now is seen now.                                        *)
LEMMA SeenNow ==
    ASSUME NEW D, Desired(D), NEW id \in DOMAIN D.entries
    PROVE  Seen(D, id, D.entries[id]) /\ D.entries[id] # Gone
<1>1. D.entries[id].revision = RevisionOf(D, id) /\ RevisionOf(D, id) \in Nat
  BY RevisionTyped
<1>2. DOMAIN D.entries[id] = {"plugin", "config", "scope", "revision"}
  BY DEF Desired, Registry
<1>3. DOMAIN Gone = {"plugin"}
  BY DEF Gone
<1> QED BY <1>1, <1>2, <1>3 DEF Seen

(* A generation's scopes stay named for published revisions: the history   *)
(* forgets none.                                                           *)
LEMMA HeldOn ==
    ASSUME NEW c, NEW k, Evolves(c, k), NEW scopes, Held(c, scopes)
    PROVE  Held(k, scopes)
BY DEF Evolves, Held

(* The desired scopes, which the next generation publishes, are so named.  *)
LEMMA HeldNow ==
    ASSUME NEW c, Controlled(c)
    PROVE  Held(c, c.desired.scopes)
<1>1. \A n : HasActive(c, n) =>
        n \in DOMAIN c.history /\ c.active[n] \in DOMAIN c.history[n]
        /\ ActiveOf(c, n) = c.history[n][c.active[n]]
  BY ActiveFacts DEF ActiveOf
<1> QED BY <1>1 DEF Held, Controlled, TagsHold

(* A new harness satisfies the invariant.                                  *)
LEMMA InvInit == Init => Inv
<1> SUFFICES ASSUME Init PROVE Inv
  OBVIOUS
<1>1. /\ control = NewControl /\ d = NewDesired
      /\ NewControl.history = <<>> /\ NewControl.active = <<>>
      /\ NewControl.retired = {} /\ NewControl.owned = {}
      /\ DOMAIN NewControl = Fields
  BY DEF Init, NewControl, d, Fields
<1>2. /\ DOMAIN NewDesired = {"scopes", "entries", "revisions", "dirty"}
      /\ NewDesired.entries = <<>> /\ NewDesired.revisions = <<>> /\ NewDesired.dirty = FALSE
      /\ NewDesired.scopes = [p \in {Root} |-> Bare]
  BY DEF NewDesired
<1>3. DOMAIN <<>> = {}
  OBVIOUS
<1>4. Lineage(Root) = {Root}
  <2>1. SubSeq(<<>>, 1, 0) = <<>> /\ Len(<<>>) = 0
    OBVIOUS
  <2>2. 0 .. 0 = {0}
    OBVIOUS
  <2> QED BY ONLY <2>1, <2>2 DEF Lineage, Root
<1>5. DOMAIN Bare = {"terms", "agent", "revision"} /\ Bare.agent = NoAgent /\ Bare.revision = NoRevision
  BY DEF Bare
<1>6. Tree(NewDesired)
  BY <1>2, <1>4, <1>5, PathsOfSpecs DEF Tree, IsFcn
<1>7. Registry(NewDesired) /\ Housed(NewDesired)
  <2>1. IsFiniteSet({})
    BY FS_EmptySet
  <2>2. IsFcn(<<>>)
    BY DEF IsFcn
  <2> QED BY <1>2, <1>3, <2>1, <2>2 DEF Registry, Housed
<1>8. Desired(NewDesired)
  BY <1>2, <1>6, <1>7 DEF Desired
<1>9. Controlled(control)
  BY <1>1, <1>2, <1>3, <1>5, <1>8
     DEF Controlled, HistoryHolds, ActiveHolds, TagsHold, ContributionsHold, d
<1>10. published = Composed /\ published.scopes = d.scopes
  BY DEF Init, Composed, d
<1>11. Held(control, published.scopes)
  BY <1>9, <1>10, HeldNow DEF d
<1>12. /\ calls \in 0 .. MaxCalls /\ last.result \in {"ok", "noop", "refused", "failed"}
       /\ DOMAIN runs = Runs /\ contents = {} /\ building = NoPlan
  BY ControlAssumption DEF Init
<1>13. RunsKeepTheirRevision
  <2>1. \A r \in Runs : runs[r].pc = "idle"
    BY DEF Init, Idle
  <2> QED BY <2>1 DEF RunsKeepTheirRevision, GenerationWins, RuntimeOfRevision
<1> QED BY <1>9, <1>10, <1>11, <1>12, <1>13 DEF Inv, Reading, Current

(* A call leaves the invariant if what it makes of the control state is    *)
(* sound and goes on from it.                                              *)
LEMMA CallKeeps ==
    ASSUME Inv, NEW call, NEW of, NEW next, NEW result \in {"ok", "noop", "refused", "failed"},
           Controlled(next), Evolves(control, next), Call(call, of, next, result)
    PROVE  Inv'
<1>1. /\ control' = next /\ calls' = calls + 1 /\ calls < MaxCalls
      /\ last'.result = result
      /\ building' = IF building = NoPlan THEN NoPlan
                     ELSE [building EXCEPT !.landed = TRUE,
                             !.read = [id \in DOMAIN @ |-> @[id] \cup {Found(next, id)}]]
      /\ published' = published /\ runs' = runs /\ contents' = contents /\ overtaken' = overtaken
  BY DEF Call
<1>2. /\ Desired(d) /\ Desired(next.desired) /\ Follows(d, next.desired) /\ d' = next.desired
  BY <1>1 DEF Inv, Controlled, Evolves, d
<1>3. calls' \in 0 .. MaxCalls
  BY <1>1, ControlAssumption DEF Inv
<1>4. Held(next, published.scopes)
  BY HeldOn DEF Inv
<1>5. \A seen \in contents : Seen(next.desired, seen[1], seen[2])
  BY <1>2, SeenOn DEF Inv
<1>6. Reading'
  <2> SUFFICES ASSUME building' # NoPlan PROVE Reading'
    BY DEF Reading
  <2>1. building # NoPlan
    BY <1>1
  <2>2. DOMAIN building = {"by", "composed", "landed", "read"}
    BY <2>1 DEF Inv, Reading
  <2>3. /\ DOMAIN building' = {"by", "composed", "landed", "read"}
        /\ building'.composed = building.composed /\ building'.landed
        /\ building'.read = [id \in DOMAIN building.read |->
                               building.read[id] \cup {Found(next, id)}]
    BY <1>1, <2>1, <2>2
  <2>4. Held(next, building'.composed.scopes)
    BY <2>1, <2>3, HeldOn DEF Inv, Reading
  <2>5. ASSUME NEW id \in DOMAIN building'.read, NEW e \in building'.read[id]
        PROVE  e = Gone \/ Seen(next.desired, id, e)
    <3>1. id \in DOMAIN building.read /\ (e \in building.read[id] \/ e = Found(next, id))
      BY <2>3, <2>5
    <3>2. CASE e \in building.read[id]
      <4>1. e = Gone \/ Seen(d, id, e)
        BY <2>1, <3>1, <3>2 DEF Inv, Reading
      <4> QED BY <1>2, <4>1, SeenOn
    <3>3. CASE e = Found(next, id)
      BY <1>2, <3>3, SeenNow DEF Found, HasEntry
    <3> QED BY <3>1, <3>2, <3>3
  <2> QED BY <1>1, <1>2, <2>3, <2>4, <2>5 DEF Reading
<1>7. Current'
  <2> SUFFICES ASSUME ~d'.dirty, ~overtaken' PROVE published' = Composed'
    BY DEF Current
  <2>1. ~d.dirty /\ next.desired.scopes = d.scopes /\ next.desired.entries = d.entries
        /\ EffectivePreferences(next) = EffectivePreferences(control)
    BY <1>2 DEF Follows, Evolves
  <2>2. published = Composed
    BY <1>1, <2>1 DEF Inv, Current
  <2>3. Composed' = Composed
    BY <1>1, <2>1 DEF Composed, d
  <2> QED BY <1>1, <2>2, <2>3
<1>8. RunsKeepTheirRevision'
  BY <1>1 DEF Inv, RunsKeepTheirRevision, GenerationWins, RuntimeOfRevision, TakenOver
<1> QED BY <1>1, <1>2, <1>3, <1>4, <1>5, <1>6, <1>7, <1>8 DEF Inv
(***************************************************************************)
(* Calls                                                                   *)
(***************************************************************************)

(* Steps one after the other evolve from where the first began.            *)
LEMMA EvolvesOn ==
    ASSUME NEW c, NEW k, NEW m, Controlled(c), Controlled(k), Controlled(m),
           Evolves(c, k), Evolves(k, m)
    PROVE  Evolves(c, m)
<1>1. Follows(c.desired, m.desired)
  BY FollowsOn DEF Controlled, Evolves
<1>2. m.desired.dirty \/ EffectivePreferences(m) = EffectivePreferences(c)
  BY DEF Evolves, Follows
<1>3. \A n \in DOMAIN c.history :
        /\ n \in DOMAIN m.history
        /\ \A r \in DOMAIN c.history[n] :
             r \in DOMAIN m.history[n] /\ m.history[n][r].spec = c.history[n][r].spec
  BY DEF Evolves
<1> QED BY <1>1, <1>2, <1>3 DEF Evolves

(* A refused call evolves and restores by changing nothing.                *)
LEMMA EvolvesNot ==
    ASSUME NEW c, Controlled(c)
    PROVE  Evolves(c, c) /\ Restores(c, c)
<1>1. Follows(c.desired, c.desired)
  BY FollowsItself DEF Controlled
<1> QED BY <1>1 DEF Evolves, Restores

(* What every call on the desired state leaves: the invariant, and after a *)
(* refusal or a failure what it found.                                     *)
CallLeaves ==
    /\ Inv'
    /\ last'.result \in {"failed", "refused"} => Restores(control, control')

(* A successful call leaves the invariant if its next control state is     *)
(* sound.                                                                  *)
LEMMA SuccessLeaves ==
    ASSUME Inv, NEW call, NEW of, NEW next, NEW result \in {"ok", "noop"},
           Controlled(next), Evolves(control, next), Call(call, of, next, result)
    PROVE  CallLeaves
<1>1. last'.result = result
  BY DEF Call
<1> QED BY <1>1, CallKeeps DEF CallLeaves

(* A failed or refused one does so if it restored what it found as well.   *)
LEMMA FailureLeaves ==
    ASSUME Inv, NEW call, NEW of, NEW next, NEW result \in {"failed", "refused"},
           Controlled(next), Evolves(control, next), Restores(control, next),
           Call(call, of, next, result)
    PROVE  CallLeaves
<1>1. control' = next
  BY DEF Call
<1> QED BY <1>1, CallKeeps DEF CallLeaves

(* install (harness.py), and its refusal of an unknown scope.              *)
LEMMA InstallsKeeps ==
    ASSUME Inv, NEW e \in UserEntries, Installs(e)
    PROVE  CallLeaves
<1>1. PICK k : k = [control EXCEPT !.desired =
                      InstallEntry(@, e.id, e.plugin, e.config, e.scope)]
  OBVIOUS
<1>2. CASE HasScope(control.desired, e.scope)
  <2>1. Call("install", e, k, "ok")
    BY <1>1, <1>2 DEF Installs
  <2>2. Controlled(k) /\ Evolves(control, k)
    BY <1>1, <1>2, InstallsSound DEF Inv
  <2> QED BY <2>1, <2>2, SuccessLeaves
<1>3. CASE ~HasScope(control.desired, e.scope)
  <2>1. Call("install", e, control, "refused")
    BY <1>3 DEF Installs
  <2> QED BY <2>1, EvolvesNot, FailureLeaves DEF Inv
<1> QED BY <1>2, <1>3

(* uninstall (harness.py).                                                 *)
LEMMA UninstallsKeeps ==
    ASSUME Inv, NEW e \in UserEntries, Uninstalls(e)
    PROVE  CallLeaves
<1>1. PICK k, id : id = e.id /\ k = [control EXCEPT !.desired = Uninstall(@, id)]
  OBVIOUS
<1>2. Controlled(k) /\ Evolves(control, k)
  BY <1>1, UninstallsSound DEF Inv
<1>3. Call("uninstall", e, k, "ok")
  BY <1>1 DEF Uninstalls
<1> QED BY <1>2, <1>3, SuccessLeaves

(* The setters of a scope (composition.py).                                *)
LEMMA DeclaresKeeps ==
    ASSUME Inv, NEW path \in UserScopes, Declares(path)
    PROVE  CallLeaves
<1>1. PICK there : there = Ensure(control.desired, path)
  OBVIOUS
<1>2. PICK k : k = [control EXCEPT !.desired =
                      SetScope(there, path, [there.scopes[path] EXCEPT !.terms = "narrowed"])]
  OBVIOUS
<1>3. Controlled(k) /\ Evolves(control, k)
  BY <1>1, <1>2, DeclaresSound DEF Inv
<1>4. Call("declare", path, k, "ok")
  BY <1>1, <1>2 DEF Declares
<1> QED BY <1>3, <1>4, SuccessLeaves

(* The removal of a scope (composition.py).                                *)
LEMMA RemovesKeeps ==
    ASSUME Inv, NEW path \in UserScopes, Removes(path)
    PROVE  CallLeaves
<1>1. PICK k : k = [control EXCEPT !.desired = RemoveScope(@, path)]
  OBVIOUS
<1>2. Call("remove", path, k, "ok") /\ path # Root
  BY <1>1 DEF Removes
<1>3. Controlled(k) /\ Evolves(control, k)
  BY <1>1, <1>2, RemovesSound DEF Inv
<1> QED BY <1>2, <1>3, SuccessLeaves

(* apply_config (harness.py): refused, applied or abandoned.               *)
LEMMA AppliesKeeps ==
    ASSUME Inv, NEW document \in Documents, Applies(document)
    PROVE  CallLeaves
<1>1. PICK config : config = ParseConfig(document)
  OBVIOUS
<1>2. PICK made : made = Commit(control, config)
  OBVIOUS
<1>3. PICK dropped : dropped = Abandon(control, config)
  OBVIOUS
<1>4. CASE Call("apply", document, control, "refused")
  BY <1>4, EvolvesNot, FailureLeaves DEF Inv
<1>5. CASE Call("apply", document, made, "ok")
  <2>1. Controlled(made) /\ Evolves(control, made)
    BY <1>1, <1>2, CommitSound DEF Inv
  <2> QED BY <1>5, <2>1, SuccessLeaves
<1>6. CASE Call("apply", document, dropped, "failed")
  <2>1. /\ Controlled(dropped) /\ Evolves(control, dropped)
        /\ Same(control.desired, dropped.desired)
        /\ \A f \in Fields \ {"desired"} : dropped[f] = control[f]
    BY <1>1, <1>3, AbandonSound DEF Inv
  <2>2. "owned" \in Fields \ {"desired"}
    BY DEF Fields
  <2>3. Restores(control, dropped)
    BY <2>1, <2>2 DEF Same, Restores
  <2> QED BY <1>6, <2>1, <2>3, FailureLeaves
<1> QED BY <1>1, <1>2, <1>3, <1>4, <1>5, <1>6 DEF Applies

(* provide and withdraw (harness.py).                                      *)
LEMMA ProvidesKeeps ==
    ASSUME Inv, NEW cap, Provides(cap) \/ Withdraws(cap)
    PROVE  CallLeaves
<1>1. ASSUME NEW held, NEW call, NEW k,
             k = [control EXCEPT !.provisions = held,
                                 !.desired = [SyncServices(@, held) EXCEPT !.dirty = TRUE]],
             Call(call, cap, k, "ok")
      PROVE  CallLeaves
  <2>1. Controlled(k) /\ Evolves(control, k)
    BY <1>1, ProvisionsSound DEF Inv
  <2> QED BY <1>1, <2>1, SuccessLeaves
<1>2. PICK more, fewer : more = control.provisions \cup {cap} /\ fewer = control.provisions \ {cap}
  OBVIOUS
<1>3. CASE Provides(cap)
  <2>1. PICK k : k = Provide(control, cap)
    OBVIOUS
  <2>2. k = [control EXCEPT !.provisions = more,
                            !.desired = [SyncServices(@, more) EXCEPT !.dirty = TRUE]]
    BY <1>2, <2>1 DEF Provide
  <2> QED BY <1>1, <1>3, <2>1, <2>2 DEF Provides
<1>4. CASE Withdraws(cap)
  <2>1. PICK k : k = Withdraw(control, cap)
    OBVIOUS
  <2>2. k = [control EXCEPT !.provisions = fewer,
                            !.desired = [SyncServices(@, fewer) EXCEPT !.dirty = TRUE]]
    BY <1>2, <2>1 DEF Withdraw
  <2> QED BY <1>1, <1>4, <2>1, <2>2 DEF Withdraws
<1> QED BY <1>3, <1>4

(* prefer_provider (harness.py).                                           *)
LEMMA PrefersKeeps ==
    ASSUME Inv, NEW cap, NEW e, Prefers(cap, e)
    PROVE  CallLeaves
<1>1. PICK key, provider, k :
        key = <<"any", cap>> /\ provider = e.id /\ k = Prefer(control, key, provider)
  OBVIOUS
<1>2. Controlled(k) /\ Evolves(control, k)
  BY <1>1, PrefersSound DEF Inv
<1>3. Call("prefer", e, k, "ok")
  BY <1>1 DEF Prefers
<1> QED BY <1>2, <1>3, SuccessLeaves

(* install (agents.py): refused, current already, materialized or undone.  *)
LEMMA PublishesKeeps ==
    ASSUME Inv, NEW spec \in Specs, NEW replace, Publishes(spec, replace)
    PROVE  CallLeaves
<1>1. PICK name, known : name = spec.name /\ known = Remembered(control, name)
  OBVIOUS
<1>2. /\ Controlled(known) /\ Evolves(control, known)
      /\ \A f \in Fields \ {"history"} : known[f] = control[f]
      /\ Knows(known, name)
  BY <1>1, RememberedSound DEF Inv
<1>3. Controlled(control)
  BY DEF Inv
<1>4. known.desired = control.desired /\ known.owned = control.owned
  BY <1>2 DEF Fields
<1>5. ASSUME NEW k, Restores(known, k) PROVE Restores(control, k)
  BY <1>2, <1>4, <1>5 DEF Restores
<1>6. Restores(control, known)
  BY <1>2, <1>5, EvolvesNot
<1>7. CASE Call("publish", spec, known, "refused")
  BY <1>2, <1>6, <1>7, FailureLeaves
<1>8. CASE Call("publish", spec, known, "noop")
  BY <1>2, <1>8, SuccessLeaves
<1>9. PICK made : made = Materialize(known, spec)
  OBVIOUS
<1>10. PICK undone : undone = Unmaterialize(known, spec)
  OBVIOUS
<1>11. CASE /\ ~Refuses(known, spec, replace) /\ ~IsCurrent(known, spec)
            /\ Stageable(known, spec) /\ Materializes(known, spec)
            /\ Call("publish", spec, made, "ok")
  <2>1. Installable(known, spec)
    BY <1>1, <1>2, <1>11, InstallableWhen
  <2>2. Settles(known, spec, made)
    BY <1>2, <1>9, <2>1, MaterializeSettles
  <2>3. Controlled(made) /\ Evolves(known, made)
    BY <1>2, <2>1, <2>2, MaterializeSound
  <2>4. Evolves(control, made)
    BY <1>2, <1>3, <2>3, EvolvesOn
  <2> QED BY <1>11, <2>3, <2>4, SuccessLeaves
<1>12. CASE Stageable(known, spec) /\ Call("publish", spec, undone, "failed")
  <2>1. Controlled(undone) /\ Evolves(known, undone) /\ Restores(known, undone)
    BY <1>2, <1>10, <1>12, UnmaterializeSound
  <2>2. Evolves(control, undone) /\ Restores(control, undone)
    BY <1>2, <1>3, <1>5, <2>1, EvolvesOn
  <2> QED BY <1>12, <2>1, <2>2, FailureLeaves
<1> QED BY <1>1, <1>7, <1>8, <1>9, <1>10, <1>11, <1>12 DEF Publishes

(* remove (agents.py).                                                     *)
LEMMA RetiresKeeps ==
    ASSUME Inv, NEW name, Retires(name)
    PROVE  CallLeaves
<1>1. PICK k : k = Retire(control, name)
  OBVIOUS
<1>2. Controlled(k) /\ Evolves(control, k)
  BY <1>1, RetireSound DEF Inv
<1>3. Call("retire", name, k, "ok")
  BY <1>1 DEF Retires
<1> QED BY <1>2, <1>3, SuccessLeaves
(* What holds of one run once it started: RunsKeepTheirRevision, run by    *)
(* run.                                                                    *)
Kept(run) ==
    run.pc = "running" /\ run.spec # NoSpec =>
      /\ run.spec.scope \in DOMAIN run.scopes
      /\ run.scopes[run.spec.scope].agent = run.agent =>
           \/ run.scopes[run.spec.scope].revision = run.spec.revision
           \/ TakenOver(run)
      /\ run.runtime = run.spec.runtime \/ run.raced \/ TakenOver(run)

(* The property of the runs is one of each run.                            *)
LEMMA KeptEach == RunsKeepTheirRevision <=> \A r \in Runs : Kept(runs[r])
BY DEF RunsKeepTheirRevision, GenerationWins, RuntimeOfRevision, Kept

(* A run that starts on a generation whose scopes name published revisions *)
(* keeps its revision: _pin_revision (agents.py) finds the revision that   *)
(* the generation names, and the selected runtime is that revision's       *)
(* unless a call landed since the plan.                                    *)
LEMMA StartedSound ==
    ASSUME NEW c, Controlled(c), NEW name, NEW generation, Held(c, generation.scopes),
           NEW raced, raced \/ generation.scopes = c.desired.scopes,
           NEW run, run = Started(c, name, generation, raced)
    PROVE  Kept(run)
<1> SUFFICES ASSUME run.pc = "running", run.spec # NoSpec PROVE Kept(run)
  BY DEF Kept
<1>1. PICK S, selected, pinned :
        S = generation.scopes /\ selected = Selected(c, name) /\ pinned = Pin(c, name, S)
  OBVIOUS
<1>2. /\ run.agent = name /\ run.selected = selected /\ run.spec = pinned
      /\ run.runtime = RuntimeFor(c, name) /\ run.scopes = S
      /\ pinned # NoSpec => pinned.scope \in DOMAIN S
  BY <1>1 DEF Started
<1>3. raced => run.raced
  BY <1>1 DEF Started
<1>4. pinned # NoSpec /\ pinned.scope \in DOMAIN S
  BY <1>2
<1>5. selected # NoSpec /\ selected.scope \in DOMAIN S
  BY <1>1, <1>4 DEF Pin
<1>6. HasActive(c, name) /\ selected = ActiveOf(c, name).spec
  BY <1>1, <1>5 DEF Selected
<1>7. /\ selected \in Specs /\ selected.name = name /\ name \in DOMAIN c.history
      /\ c.active[name] \in DOMAIN c.history[name]
      /\ selected = c.history[name][c.active[name]].spec
      /\ run.runtime = selected.runtime
  <2>1. /\ ActiveOf(c, name).spec \in Specs /\ ActiveOf(c, name).spec.name = name
        /\ name \in DOMAIN c.history /\ c.active[name] \in DOMAIN c.history[name]
    BY <1>6, ActiveFacts
  <2>2. run.runtime = ActiveOf(c, name).spec.runtime
    BY <1>2, <1>6 DEF RuntimeFor
  <2>3. ActiveOf(c, name) = c.history[name][c.active[name]]
    BY DEF ActiveOf
  <2> QED BY <1>6, <2>1, <2>2, <2>3
<1>8. name # NoAgent
  BY <1>7, ControlAssumption
<1>9. PICK tag : tag = S[selected.scope]
  OBVIOUS
<1>10. \/ tag.agent = NoAgent /\ tag.revision = NoRevision
       \/ /\ tag.agent \in DOMAIN c.history
          /\ tag.revision \in DOMAIN c.history[tag.agent]
          /\ c.history[tag.agent][tag.revision].spec.scope = selected.scope
  BY <1>1, <1>5, <1>9 DEF Held
<1>11. CASE tag.revision \in DOMAIN c.history[name]
  <2>1. pinned = c.history[name][tag.revision].spec
    BY <1>1, <1>5, <1>9, <1>11 DEF Pin
  <2>2. pinned \in Specs /\ pinned.revision = tag.revision
    BY <1>7, <1>11, <2>1 DEF Controlled, HistoryHolds
  <2>3. tag.revision # NoRevision
    BY <2>2, ControlAssumption
  <2>4. c.history[tag.agent][tag.revision].spec.name = tag.agent /\ tag.agent # NoAgent
    BY <1>10, <2>3, ControlAssumption DEF Controlled, HistoryHolds
  <2>5. CASE tag.agent = name
    <3>1. pinned.scope = selected.scope
      BY <1>10, <2>1, <2>3, <2>5
    <3>2. raced \/ pinned = selected
      <4>1. ASSUME S = c.desired.scopes PROVE tag.revision = c.active[name]
        BY <1>5, <1>9, <2>3, <2>5, <4>1 DEF Controlled, TagsHold
      <4> QED BY <1>1, <1>7, <2>1, <4>1
    <3> QED BY <1>2, <1>3, <1>4, <1>7, <1>9, <2>2, <3>1, <3>2 DEF Kept
  <2>6. CASE tag.agent # name
    <3>1. TakenOver(run)
      BY <1>2, <1>5, <1>9, <2>4, <2>6 DEF TakenOver
    <3> QED BY <1>2, <1>4, <3>1 DEF Kept
  <2> QED BY <2>5, <2>6
<1>12. CASE tag.revision \notin DOMAIN c.history[name]
  <2>1. pinned = selected
    BY <1>1, <1>9, <1>12 DEF Pin
  <2>2. tag.agent # name
    BY <1>8, <1>10, <1>12
  <2> QED BY <1>2, <1>4, <1>7, <1>9, <2>1, <2>2 DEF Kept
<1> QED BY <1>11, <1>12

(***************************************************************************)
(* Reconciliations and runs                                                *)
(***************************************************************************)

(* A reconciliation that begins has read the desired state of the moment.  *)
LEMMA PlanKeeps ==
    ASSUME Inv, NEW who, Plan(who),
           UNCHANGED <<control, published, contents, overtaken>>,
           calls' \in 0 .. MaxCalls, last' = last,
           DOMAIN runs' = Runs, RunsKeepTheirRevision'
    PROVE  Inv'
<1>1. building' = [by |-> who, composed |-> Composed, landed |-> FALSE,
                   read |-> [id \in DOMAIN d.entries |-> {Found(control, id)}]]
  BY DEF Plan, d
<1>2. building'.read = [id \in DOMAIN d.entries |-> {d.entries[id]}]
  BY <1>1 DEF Found, HasEntry, d
<1>3. Desired(d) /\ Held(control, d.scopes)
  BY HeldNow DEF Inv, Controlled, d
<1>4. /\ DOMAIN building' = {"by", "composed", "landed", "read"}
      /\ building'.composed = Composed /\ Composed.scopes = d.scopes
  BY <1>1 DEF Composed, d
<1>5. \A id \in DOMAIN building'.read : \A e \in building'.read[id] : Seen(d, id, e)
  BY <1>2, <1>3, SeenNow
<1>6. d' = d /\ Composed' = Composed
  BY DEF d, Composed
<1>7. Reading'
  BY <1>2, <1>3, <1>4, <1>5, <1>6 DEF Reading
<1>8. Current'
  BY <1>6 DEF Inv, Current
<1> QED BY <1>6, <1>7, <1>8 DEF Inv

(* A reconciliation begun by an operator.                                  *)
LEMMA ReconcileBeginKeeps ==
    ASSUME Inv, ReconcileBegin
    PROVE  Inv'
<1>1. calls' \in 0 .. MaxCalls
  BY ControlAssumption DEF Inv, ReconcileBegin
<1>2. runs' = runs /\ last' = last /\ UNCHANGED <<control, published, contents, overtaken>>
  BY DEF ReconcileBegin
<1>3. DOMAIN runs' = Runs /\ RunsKeepTheirRevision'
  BY <1>2 DEF Inv, RunsKeepTheirRevision, GenerationWins, RuntimeOfRevision, TakenOver
<1> QED BY <1>1, <1>2, <1>3, PlanKeeps DEF ReconcileBegin

(* A step that gives one run another record keeps the others'.             *)
LEMMA OneRunKeeps ==
    ASSUME Inv, NEW r, NEW run, Kept(run), runs' = [runs EXCEPT ![r] = run]
    PROVE  DOMAIN runs' = Runs /\ RunsKeepTheirRevision'
<1>1. DOMAIN runs' = Runs /\ \A s \in Runs : runs'[s] = runs[s] \/ runs'[s] = run
  BY DEF Inv
<1>2. \A s \in Runs : Kept(runs[s])
  BY KeptEach DEF Inv
<1>3. \A s \in Runs : Kept(runs'[s])
  BY <1>1, <1>2
<1>4. RunsKeepTheirRevision'
  BY <1>3 DEF RunsKeepTheirRevision, GenerationWins, RuntimeOfRevision, Kept
<1> QED BY <1>1, <1>4

(* A reconciliation begun by a run that found changes pending.             *)
LEMMA RunReconcilesKeeps ==
    ASSUME Inv, NEW r, NEW name, RunReconciles(r, name)
    PROVE  Inv'
<1>1. PICK run : run = [pc |-> "waiting", agent |-> name]
  OBVIOUS
<1>2. Kept(run)
  BY <1>1 DEF Kept
<1>3. DOMAIN runs' = Runs /\ RunsKeepTheirRevision'
  BY <1>1, <1>2, OneRunKeeps DEF RunReconciles
<1>4. calls' \in 0 .. MaxCalls
  BY DEF Inv, RunReconciles
<1> QED BY <1>3, <1>4, PlanKeeps DEF RunReconciles

(* A step that touches nothing but one run.                                *)
LEMMA RunStepKeeps ==
    ASSUME Inv, NEW r, NEW run, Kept(run), runs' = [runs EXCEPT ![r] = run],
           UNCHANGED <<control, building, published, last, calls, contents, overtaken>>
    PROVE  Inv'
<1>1. DOMAIN runs' = Runs /\ RunsKeepTheirRevision'
  BY OneRunKeeps
<1>2. d' = d /\ Composed' = Composed
  BY DEF d, Composed
<1> QED BY <1>1, <1>2 DEF Inv, Reading, Current

(* A run that starts on the current generation.                            *)
LEMMA RunStartsKeeps ==
    ASSUME Inv, NEW r, NEW name, RunStarts(r, name)
    PROVE  Inv'
<1>1. PICK run : run = Started(control, name, published, overtaken)
  OBVIOUS
<1>2. overtaken \/ published.scopes = control.desired.scopes
  BY DEF Inv, Current, RunStarts, d, Composed
<1>3. Kept(run)
  BY <1>1, <1>2, StartedSound DEF Inv
<1> QED BY <1>1, <1>3, RunStepKeeps DEF RunStarts

(* A run that ends.                                                        *)
LEMMA RunEndsKeeps ==
    ASSUME Inv, NEW r, RunEnds(r)
    PROVE  Inv'
<1>1. Kept(Idle)
  BY DEF Kept, Idle
<1> QED BY <1>1, RunStepKeeps DEF RunEnds

(* A reconciliation that fails publishes nothing, and its run is refused.  *)
LEMMA ReconcileFailsKeeps ==
    ASSUME Inv, ReconcileFails
    PROVE  Inv'
<1>1. PICK run : run = [pc |-> "refused"]
  OBVIOUS
<1>2. Kept(run)
  BY <1>1 DEF Kept
<1>3. runs' = runs \/ runs' = [runs EXCEPT ![building.by] = run]
  BY <1>1 DEF ReconcileFails
<1>4. DOMAIN runs' = Runs /\ RunsKeepTheirRevision'
  <2>1. CASE runs' = runs
    BY <2>1 DEF Inv, RunsKeepTheirRevision, GenerationWins, RuntimeOfRevision, TakenOver
  <2>2. CASE runs' = [runs EXCEPT ![building.by] = run]
    BY <1>2, <2>2, OneRunKeeps
  <2> QED BY <1>3, <2>1, <2>2
<1>5. d' = d /\ Composed' = Composed
  BY DEF d, Composed, ReconcileFails
<1> QED BY <1>4, <1>5 DEF Inv, Reading, Current, ReconcileFails

(* A reconciliation that ends (harness.py reconcile): what it mounted      *)
(* becomes current, the pending flag is cleared, its run starts.           *)
LEMMA ReconcileEndKeeps ==
    ASSUME Inv, ReconcileEnd
    PROVE  Inv'
<1>1. PICK plan : plan = building
  OBVIOUS
<1>2. /\ plan # NoPlan /\ published' \in Mounted(plan)
      /\ contents' = contents \cup {<<id, published'.entries[id]>> : id \in DOMAIN published'.entries}
      /\ control' = [control EXCEPT !.desired.dirty = FALSE]
      /\ building' = NoPlan
      /\ runs' = runs
           \/ runs' = [runs EXCEPT ![plan.by] =
                         Started(control, runs[plan.by].agent, published', plan.landed)]
      /\ overtaken' = plan.landed /\ last' = last /\ calls' = calls
  BY <1>1 DEF ReconcileEnd
<1>3. PICK f : /\ DOMAIN f = DOMAIN plan.read /\ \A id \in DOMAIN plan.read : f[id] \in plan.read[id]
               /\ IsFcn(f)
               /\ published' = [scopes |-> plan.composed.scopes,
                                entries |-> Drop(f, {id \in DOMAIN f : f[id] = Gone}),
                                prefs |-> EffectivePreferences(control)]
  BY <1>2 DEF Mounted, IsFcn
<1>4. /\ Held(control, plan.composed.scopes)
      /\ \A id \in DOMAIN plan.read : \A e \in plan.read[id] : e = Gone \/ Seen(d, id, e)
      /\ ~plan.landed =>
           /\ plan.composed.scopes = d.scopes
           /\ plan.read = [id \in DOMAIN d.entries |-> {d.entries[id]}]
  BY <1>1, <1>2 DEF Inv, Reading
<1>5. PICK D : D = d
  OBVIOUS
<1>6. PICK E : E = [D EXCEPT !.dirty = FALSE]
  OBVIOUS
<1>7. Controlled(control) /\ Desired(D)
  BY <1>5 DEF Inv, Controlled, d
<1>8. Desired(E) /\ Same(D, E)
  BY <1>6, <1>7, Flagged
<1>9. PICK c, k : c = control /\ k = [control EXCEPT !.desired = E]
  OBVIOUS
<1>10. control' = k /\ DOMAIN k = Fields /\ k.desired = E
       /\ \A g \in Fields \ {"desired"} : k[g] = c[g]
  BY <1>2, <1>5, <1>6, <1>7, <1>9 DEF Controlled, Fields, d
<1>11. /\ k.history = c.history /\ k.active = c.active /\ k.retired = c.retired
       /\ k.owned = c.owned /\ k.programPrefs = c.programPrefs /\ k.configPrefs = c.configPrefs
  BY <1>10 DEF Fields
<1>12. Controlled(k)
  <2>1. Controlled(c) /\ E.scopes = c.desired.scopes /\ E.entries = c.desired.entries
    BY <1>5, <1>7, <1>8, <1>9 DEF Same, d
  <2>2. \A n : /\ HasActive(k, n) <=> HasActive(c, n)
               /\ ActiveOf(k, n) = ActiveOf(c, n)
    BY <1>11 DEF HasActive, ActiveOf
  <2>3. HistoryHolds(k) /\ ActiveHolds(k) /\ Root \notin k.owned
    BY <1>11, <2>1 DEF Controlled, HistoryHolds, ActiveHolds
  <2>4. TagsHold(k)
    BY <1>10, <1>11, <2>1, <2>2 DEF Controlled, TagsHold
  <2>5. ContributionsHold(k)
    BY <1>10, <2>1, <2>2 DEF Controlled, ContributionsHold
  <2> QED BY <1>8, <1>10, <2>3, <2>4, <2>5 DEF Controlled
<1>13. d' = E
  BY <1>10 DEF d
<1>14. \A scopes : Held(c, scopes) => Held(k, scopes)
  BY <1>11 DEF Held
<1>15. Held(control, published'.scopes)
  BY <1>3, <1>4
<1>16. \A id, e : Seen(D, id, e) => Seen(E, id, e)
  BY <1>8 DEF Seen, Same, RevisionOf
<1>17. /\ DOMAIN published'.entries = {id \in DOMAIN f : f[id] # Gone}
       /\ \A id \in DOMAIN published'.entries : published'.entries[id] = f[id]
  BY <1>3 DEF Drop
<1>18. \A id \in DOMAIN published'.entries : Seen(D, id, published'.entries[id])
  BY <1>3, <1>4, <1>5, <1>17
<1>19. \A seen \in contents' : Seen(E, seen[1], seen[2])
  BY <1>2, <1>5, <1>16, <1>18 DEF Inv
<1>20. ASSUME ~plan.landed PROVE published' = Composed'
  <2>1. /\ DOMAIN f = DOMAIN D.entries /\ plan.composed.scopes = D.scopes
        /\ \A id \in DOMAIN f : f[id] = D.entries[id]
    BY <1>3, <1>4, <1>5, <1>20
  <2>2. \A id \in DOMAIN f : f[id] # Gone
    BY <1>7, <2>1, SeenNow
  <2>3. IsFcn(D.entries)
    BY <1>7 DEF Desired, Registry
  <2>4. {id \in DOMAIN f : f[id] = Gone} = {}
    BY <2>2
  <2>5. Drop(f, {id \in DOMAIN f : f[id] = Gone}) = [id \in DOMAIN f |-> f[id]]
    BY <2>4 DEF Drop
  <2>6. Drop(f, {id \in DOMAIN f : f[id] = Gone}) = D.entries
    BY <2>1, <2>3, <2>5 DEF IsFcn
  <2>7. EffectivePreferences(k) = EffectivePreferences(control)
    BY <1>9, <1>11 DEF EffectivePreferences
  <2>8. Composed' = [scopes |-> E.scopes, entries |-> E.entries, prefs |-> EffectivePreferences(k)]
    BY <1>10 DEF Composed
  <2> QED BY <1>3, <1>8, <2>1, <2>6, <2>7, <2>8 DEF Same
<1>21. DOMAIN runs' = Runs /\ RunsKeepTheirRevision'
  <2>1. CASE runs' = runs
    BY <2>1 DEF Inv, RunsKeepTheirRevision, GenerationWins, RuntimeOfRevision, TakenOver
  <2>2. CASE runs' = [runs EXCEPT ![plan.by] =
                        Started(control, runs[plan.by].agent, published', plan.landed)]
    <3>1. PICK generation, name, raced, run :
            /\ generation = published' /\ name = runs[plan.by].agent /\ raced = plan.landed
            /\ run = Started(control, name, generation, raced)
      OBVIOUS
    <3>2. raced \/ generation.scopes = control.desired.scopes
      BY <1>3, <1>4, <3>1 DEF d
    <3>3. Kept(run)
      BY <1>7, <1>15, <3>1, <3>2, StartedSound
    <3>4. runs' = [runs EXCEPT ![plan.by] = run]
      BY <2>2, <3>1
    <3> QED BY <3>3, <3>4, OneRunKeeps
  <2> QED BY <1>2, <2>1, <2>2
<1>22. Reading' /\ Current'
  BY <1>2, <1>20 DEF Reading, Current
<1>23. Held(control', published'.scopes)
  BY <1>9, <1>10, <1>14, <1>15
<1> QED BY <1>2, <1>10, <1>12, <1>13, <1>19, <1>21, <1>22, <1>23 DEF Inv

(***************************************************************************)
(* The invariant, and what follows from it                                 *)
(***************************************************************************)

(* Every call leaves the invariant, and after a refusal or a failure what  *)
(* it found.                                                               *)
Calling ==
    \/ \E e \in UserEntries : Installs(e) \/ Uninstalls(e)
    \/ \E path \in UserScopes : Declares(path) \/ Removes(path)
    \/ \E document \in Documents : Applies(document)
    \/ \E cap \in Provisions : Provides(cap) \/ Withdraws(cap)
    \/ \E cap \in Provisions, e \in UserEntries : Prefers(cap, e)
    \/ \E spec \in Specs, replace \in BOOLEAN : Publishes(spec, replace)
    \/ \E name \in Agents : Retires(name)

(* All of them do.                                                         *)
LEMMA CallingKeeps == Inv /\ Calling => CallLeaves
BY InstallsKeeps, UninstallsKeeps, DeclaresKeeps, RemovesKeeps, AppliesKeeps, ProvidesKeeps,
   PrefersKeeps, PublishesKeeps, RetiresKeeps DEF Calling

(* Every step keeps the invariant.                                         *)
LEMMA InvNext == Inv /\ [Next]_vars => Inv'
<1> SUFFICES ASSUME Inv, [Next]_vars PROVE Inv'
  OBVIOUS
<1>1. CASE Calling
  BY <1>1, CallingKeeps DEF CallLeaves
<1>2. CASE ReconcileBegin
  BY <1>2, ReconcileBeginKeeps
<1>3. CASE ReconcileEnd
  BY <1>3, ReconcileEndKeeps
<1>4. CASE ReconcileFails
  BY <1>4, ReconcileFailsKeeps
<1>5. ASSUME NEW r \in Runs, NEW name \in Agents, RunReconciles(r, name) \/ RunStarts(r, name)
      PROVE  Inv'
  BY <1>5, RunReconcilesKeeps, RunStartsKeeps
<1>6. ASSUME NEW r \in Runs, RunEnds(r) PROVE Inv'
  BY <1>6, RunEndsKeeps
<1>7. CASE UNCHANGED vars
  <2>1. /\ control' = control /\ building' = building /\ published' = published /\ runs' = runs
        /\ last' = last /\ calls' = calls /\ contents' = contents /\ overtaken' = overtaken
    BY <1>7 DEF vars
  <2>2. d' = d /\ Composed' = Composed
    BY <2>1 DEF d, Composed
  <2> QED BY <2>1, <2>2 DEF Inv, Reading, Current, RunsKeepTheirRevision, GenerationWins,
            RuntimeOfRevision, TakenOver
<1> QED BY <1>1, <1>2, <1>3, <1>4, <1>5, <1>6, <1>7 DEF Next, Calling

(* The inductive invariant holds throughout.                               *)
THEOREM ControlInvariant == Spec => []Inv
<1>1. Init => Inv
  BY InvInit
<1>2. Inv /\ [Next]_vars => Inv'
  BY InvNext
<1> QED BY <1>1, <1>2, PTL DEF Spec

(* The desired state that direct calls, configurations and agents share    *)
(* stays one that a reconciliation can use (harness.py, registry.py,       *)
(* agents.py): no entry without a scope, no revision reused for other      *)
(* content, no change forgotten, no contribution without its agent's       *)
(* active revision.                                                        *)
THEOREM DesiredStateAlwaysSound == Spec => []DesiredStateSound
<1>1. Inv => DesiredStateSound
  <2> SUFFICES ASSUME Inv PROVE DesiredStateSound
    OBVIOUS
  <2>1. Controlled(control) /\ Desired(d)
    BY DEF Inv, Controlled, d
  <2>2. TypeOK
    BY <2>1 DEF TypeOK, Inv, Controlled, ActiveHolds, Desired, Tree, Registry, d
  <2>3. EntriesHaveScopes
    BY <2>1 DEF Desired, Housed, EntriesHaveScopes, HasScope
  <2>4. RevisionNamesContent
    BY DEF Inv, Seen, RevisionNamesContent
  <2>5. NothingForgotten
    BY DEF Inv, Current, NothingForgotten
  <2>6. NoOrphanContribution
    BY <2>1 DEF Controlled, ContributionsHold, NoOrphanContribution, d
  <2> QED BY <2>2, <2>3, <2>4, <2>5, <2>6 DEF DesiredStateSound
<1> QED BY <1>1, ControlInvariant, PTL

(* A run is attributed to the revision its generation holds and runs that  *)
(* revision's runtime (agents.py _pin_revision), whatever is published,    *)
(* retired or applied meanwhile.                                           *)
THEOREM RunsAlwaysKeepTheirRevision == Spec => []RunsKeepTheirRevision
<1>1. Inv => RunsKeepTheirRevision
  BY DEF Inv
<1> QED BY <1>1, ControlInvariant, PTL

(* A refused or failed install, publication or configuration leaves the    *)
(* desired state it found (registry.py capture, agents.py _materialize,    *)
(* harness.py apply_config).                                               *)
THEOREM FailuresRestore == Spec => FailureRestores
<1> DEFINE Intact ==
             last'.result \in {"failed", "refused"} /\ control' # control =>
               /\ d'.entries = d.entries
               /\ d'.revisions = d.revisions
               /\ \A p \in DOMAIN d.scopes : p \in DOMAIN d'.scopes /\ d'.scopes[p] = d.scopes[p]
               /\ \A p \in DOMAIN d'.scopes \ DOMAIN d.scopes : d'.scopes[p] = Bare
               /\ \A f \in {"configPrefs", "programPrefs", "config", "provisions", "active",
                            "retired"} : control'[f] = control[f]
               /\ control'.owned \cap DOMAIN d.scopes = control.owned \cap DOMAIN d.scopes
<1>1. ASSUME Restores(control, control') PROVE Intact
  BY <1>1 DEF Restores, d, Fields
<1>2. Inv /\ [Next]_vars => [Intact]_vars
  <2> SUFFICES ASSUME Inv, Next PROVE Intact
    BY DEF vars
  <2>1. CASE Calling
    BY <1>1, <2>1, CallingKeeps DEF CallLeaves
  <2>2. CASE ReconcileEnd
    <3>1. PICK E : E = [d EXCEPT !.dirty = FALSE]
      OBVIOUS
    <3>2. Desired(d) /\ DOMAIN control = Fields
      BY DEF Inv, Controlled, d
    <3>3. Same(d, E)
      BY <3>1, <3>2, Flagged
    <3>4. control' = [control EXCEPT !.desired = E]
      BY <2>2, <3>1 DEF ReconcileEnd, d
    <3>5. /\ control'.desired = E
          /\ \A f \in Fields \ {"desired"} : control'[f] = control[f]
      BY <3>2, <3>4 DEF Fields
    <3>6. control'.owned = control.owned
      BY <3>5 DEF Fields
    <3>7. Restores(control, control')
      BY <3>3, <3>5, <3>6 DEF Restores, Same, d
    <3> QED BY <1>1, <3>7
  <2>3. CASE control' = control
    BY <2>3
  <2>4. Calling \/ ReconcileEnd \/ control' = control
    BY DEF Next, Calling, ReconcileBegin, ReconcileFails, RunReconciles, RunStarts, RunEnds
  <2> QED BY <2>1, <2>2, <2>3, <2>4
<1> QED BY <1>2, ControlInvariant, PTL DEF FailureRestores, Spec

(***************************************************************************)
(* What configurations and agents leave                                    *)
(***************************************************************************)

(* What the last call was when it is new.                                  *)
LEMMA WhichCall ==
    ASSUME Next, last' # last
    PROVE  \/ last'.call \notin {"apply", "publish", "retire"}
           \/ \E document \in Documents :
                Applies(document) /\ last'.of = document /\ last'.call = "apply"
           \/ \E spec \in Specs, replace \in BOOLEAN :
                Publishes(spec, replace) /\ last'.of = spec /\ last'.call = "publish"
           \/ \E name \in Agents : Retires(name) /\ last'.of = name /\ last'.call = "retire"
<1>1. \A call, of, next, result :
        Call(call, of, next, result) => last'.call = call /\ last'.of = of
  BY DEF Call
<1>2. ASSUME NEW e \in UserEntries, Installs(e) \/ Uninstalls(e)
      PROVE  last'.call \in {"install", "uninstall"}
  BY <1>1, <1>2 DEF Installs, Uninstalls
<1>3. ASSUME NEW path \in UserScopes, Declares(path) \/ Removes(path)
      PROVE  last'.call \in {"declare", "remove"}
  BY <1>1, <1>3 DEF Declares, Removes
<1>4. ASSUME NEW cap, NEW e, Provides(cap) \/ Withdraws(cap) \/ Prefers(cap, e)
      PROVE  last'.call \in {"provide", "withdraw", "prefer"}
  BY <1>1, <1>4 DEF Provides, Withdraws, Prefers
<1>5. ASSUME NEW document, Applies(document)
      PROVE  last'.call = "apply" /\ last'.of = document
  BY <1>1, <1>5 DEF Applies
<1>6. ASSUME NEW spec, NEW replace, Publishes(spec, replace)
      PROVE  last'.call = "publish" /\ last'.of = spec
  BY <1>1, <1>6 DEF Publishes
<1>7. ASSUME NEW name, Retires(name) PROVE last'.call = "retire" /\ last'.of = name
  BY <1>1, <1>7 DEF Retires
<1>8. Calling
  BY DEF Next, Calling, ReconcileBegin, ReconcileEnd, ReconcileFails, RunReconciles, RunStarts,
         RunEnds
<1>9. ASSUME NEW cap, Provides(cap) \/ Withdraws(cap) PROVE last'.call \in {"provide", "withdraw"}
  BY <1>1, <1>9 DEF Provides, Withdraws
<1> QED BY <1>2, <1>3, <1>4, <1>5, <1>6, <1>7, <1>8, <1>9 DEF Calling

(* A configuration whose batch succeeds leaves its own entries and no      *)
(* other, each as configured.                                              *)
LEMMA BatchExact ==
    ASSUME NEW D, Desired(D), NEW document \in Documents, NEW config,
           config = ParseConfig(document), NamesItsManifests(config),
           Batch(config, D).ok, NEW E, E = Batch(config, D).done
    PROVE  /\ DOMAIN E.entries = DOMAIN config.entries
           /\ \A id \in DOMAIN config.entries :
                /\ E.entries[id].plugin = config.entries[id].plugin
                /\ E.entries[id].config = config.entries[id].config
<1>1. PICK t : t = Batch(config, D)
  OBVIOUS
<1>2. /\ \A id \in DOMAIN config.entries \cup DOMAIN D.entries :
           IF id \in Changes(config, D) THEN Made(ChangeOf(config, D, id), t.done)
           ELSE id \in DOMAIN D.entries /\ id \in DOMAIN t.done.entries
                /\ t.done.entries[id] = D.entries[id]
      /\ DOMAIN t.done.entries \subseteq DOMAIN config.entries \cup DOMAIN D.entries
  BY <1>1, BatchSound
<1>3. ASSUME NEW id \in DOMAIN config.entries
      PROVE  /\ id \in DOMAIN E.entries
             /\ E.entries[id].plugin = config.entries[id].plugin
             /\ E.entries[id].config = config.entries[id].config
  <2>1. CASE id \in Changes(config, D)
    <3>1. PICK to : to = [plugin |-> Catalog[config.entries[id].plugin],
                          config |-> config.entries[id].config, scope |-> Root]
      OBVIOUS
    <3>2. ChangeOf(config, D, id) = [id |-> id, to |-> to]
      BY <3>1 DEF ChangeOf, ActionFor
    <3>3. DOMAIN to = {"plugin", "config", "scope"} /\ DOMAIN Gone = {"plugin"}
      BY <3>1 DEF Gone
    <3>4. to # Gone /\ to.config = config.entries[id].config
          /\ to.plugin = config.entries[id].plugin
      BY <3>1, <3>3 DEF NamesItsManifests
    <3>5. Made([id |-> id, to |-> to], E)
      BY <1>1, <1>2, <2>1, <3>2
    <3> QED BY <3>4, <3>5 DEF Made
  <2>2. CASE id \notin Changes(config, D)
    <3>1. id \in DOMAIN D.entries /\ id \in DOMAIN E.entries /\ E.entries[id] = D.entries[id]
      BY <1>1, <1>2, <2>2
    <3>2. ActionFor(config, D, id) = "unchanged"
      BY <2>2 DEF Changes
    <3>3. /\ config.entries[id].plugin = D.entries[id].plugin
          /\ config.entries[id].config = D.entries[id].config
      BY <3>1, <3>2 DEF ActionFor, HasEntry
    <3> QED BY <3>1, <3>3
  <2> QED BY <2>1, <2>2
<1>4. ASSUME NEW id \in DOMAIN E.entries, id \notin DOMAIN config.entries PROVE FALSE
  <2>1. id \in DOMAIN D.entries
    BY <1>1, <1>2, <1>4
  <2>2. ActionFor(config, D, id) = "remove"
    BY <1>4 DEF ActionFor
  <2>3. id \in Changes(config, D) /\ ChangeOf(config, D, id) = [id |-> id, to |-> Gone]
    BY <2>1, <2>2 DEF Changes, ChangeOf
  <2>4. Made([id |-> id, to |-> Gone], E)
    BY <1>1, <1>2, <2>1, <2>3
  <2> QED BY <1>4, <2>4 DEF Made
<1> QED BY <1>3, <1>4

(* With every entry as configured nothing is left to change.               *)
LEMMA NothingToChange ==
    ASSUME NEW config, NEW E, DOMAIN E.entries = DOMAIN config.entries,
           \A id \in DOMAIN config.entries :
             /\ E.entries[id].plugin = config.entries[id].plugin
             /\ E.entries[id].config = config.entries[id].config
    PROVE  Changes(config, E) = {}
<1>1. \A id \in DOMAIN config.entries : ActionFor(config, E, id) = "unchanged"
  BY DEF ActionFor, HasEntry
<1> QED BY <1>1 DEF Changes

(* An applied configuration leaves its enabled entries, as configured, and *)
(* nothing to change (harness.py apply_config, config/reconcile.py),       *)
(* whatever was installed before.                                          *)
THEOREM ConfigurationsConverge == Spec => ConfigurationConverges
<1> DEFINE Exact(document, config, E) ==
             /\ Changes(config, E) = {}
             /\ DOMAIN E.entries = {document.plugins[i].id : i \in EnabledAt(document)}
             /\ \A i \in EnabledAt(document) :
                  LET entry == E.entries[document.plugins[i].id]
                  IN /\ entry.plugin = document.plugins[i].plugin
                     /\ entry.config = document.plugins[i].config
           Converges ==
             \A document \in Documents :
               LET config == ParseConfig(document)
                   enabled == {i \in DOMAIN document.plugins : document.plugins[i].enabled}
               IN Applied(document) /\ last' # last /\ NamesItsManifests(config) =>
                    /\ Changes(config, d') = {}
                    /\ DOMAIN d'.entries = {document.plugins[i].id : i \in enabled}
                    /\ \A i \in enabled :
                         LET entry == d'.entries[document.plugins[i].id]
                         IN /\ entry.plugin = document.plugins[i].plugin
                            /\ entry.config = document.plugins[i].config
<1>1. ASSUME NEW document \in Documents, NEW config, config = ParseConfig(document),
             IsValid(document), NEW E, DOMAIN E.entries = DOMAIN config.entries,
             \A id \in DOMAIN config.entries :
               /\ E.entries[id].plugin = config.entries[id].plugin
               /\ E.entries[id].config = config.entries[id].config
      PROVE  Exact(document, config, E)
  <2>1. /\ DOMAIN config.entries = {document.plugins[i].id : i \in EnabledAt(document)}
        /\ \A i \in EnabledAt(document) :
             LET entry == config.entries[document.plugins[i].id]
             IN /\ entry.plugin = document.plugins[i].plugin
                /\ entry.config = document.plugins[i].config
    BY <1>1, Configured
  <2>2. Changes(config, E) = {}
    BY <1>1, NothingToChange
  <2> QED BY <1>1, <2>1, <2>2
<1>2. Inv /\ [Next]_vars => [Converges]_vars
  <2> SUFFICES ASSUME Inv, Next PROVE Converges
    BY DEF vars
  <2> SUFFICES ASSUME NEW document \in Documents, NEW config, config = ParseConfig(document),
                      Applied(document), last' # last, NamesItsManifests(config)
               PROVE  Exact(document, config, d')
    BY DEF EnabledAt
  <2>1. last'.call = "apply" /\ last'.of = document /\ last'.result = "ok"
    BY DEF Applied
  <2>2. Applies(document)
    BY <2>1, WhichCall
  <2>3. PICK made : made = Commit(control, config)
    OBVIOUS
  <2>4. \A next, result : Call("apply", document, next, result) =>
          control' = next /\ last'.result = result
    BY DEF Call
  <2>5. IsValid(document) /\ Batch(config, control.desired).ok /\ control' = made
    BY <2>1, <2>2, <2>3, <2>4 DEF Applies
  <2>6. d'.entries = Batch(config, control.desired).done.entries
    <3>1. made.desired.entries = Batch(config, control.desired).done.entries
      BY <2>3, CommitSound DEF Inv
    <3> QED BY <2>5, <3>1 DEF d
  <2>7. PICK D, E : D = control.desired /\ E = Batch(config, D).done
    OBVIOUS
  <2>8. Desired(D) /\ Batch(config, D).ok
    BY <2>5, <2>7 DEF Inv, Controlled
  <2>9. /\ DOMAIN E.entries = DOMAIN config.entries
        /\ \A id \in DOMAIN config.entries :
             /\ E.entries[id].plugin = config.entries[id].plugin
             /\ E.entries[id].config = config.entries[id].config
    BY <2>7, <2>8, BatchExact
  <2>10. d'.entries = E.entries
    BY <2>6, <2>7
  <2> HIDE DEF Exact
  <2> QED BY <1>1, <2>5, <2>9, <2>10
<1> QED BY <1>2, ControlInvariant, PTL DEF ConfigurationConverges, Spec

(* A contribution of an agent's id lies where its active revision declares *)
(* its scope: within the agent's reach.                                    *)
LEMMA OwnWithinReach ==
    ASSUME NEW c, Controlled(c), NEW id \in DOMAIN c.desired.entries,
           NEW n, id[1] = "agent", id[2] = n
    PROVE  \E q \in Reach(n) : IsWithin(c.desired.entries[id].scope, q)
<1>1. HasActive(c, n) /\ c.desired.entries[id].scope = ActiveOf(c, n).spec.scope
  BY DEF Controlled, ContributionsHold
<1>2. ActiveOf(c, n).spec \in Specs /\ ActiveOf(c, n).spec.name = n
      /\ ActiveOf(c, n).spec.scope \in Paths
  BY <1>1, ActiveFacts
<1>3. ActiveOf(c, n).spec.scope \in Reach(n)
  BY <1>2 DEF Reach
<1>4. IsWithin(ActiveOf(c, n).spec.scope, ActiveOf(c, n).spec.scope)
  BY <1>2, LineageFacts
<1> QED BY <1>1, <1>3, <1>4

(* Outside the reach of an agent everything of D is in E.                  *)
Spares(n, D, E) ==
    LET mine(p) == \E q \in Reach(n) : IsWithin(p, q)
    IN /\ \A p \in DOMAIN D.scopes :
            mine(p) \/ (p \in DOMAIN E.scopes /\ E.scopes[p] = D.scopes[p])
       /\ \A id \in DOMAIN D.entries :
            mine(D.entries[id].scope)
              \/ (id \in DOMAIN E.entries /\ E.entries[id] = D.entries[id])

(* Retiring an agent touches nothing outside its scopes.                   *)
LEMMA RetireSpares ==
    ASSUME NEW c, Controlled(c), NEW n, NEW k, k = Retire(c, n)
    PROVE  Spares(n, c.desired, k.desired)
<1>1. PICK D : D = c.desired
  OBVIOUS
<1>2. PICK gone : gone = [c EXCEPT !.retired = @ \cup {n}, !.active = Drop(@, {n})]
  OBVIOUS
<1>3. DOMAIN gone = Fields /\ gone.desired = D /\ gone.owned = c.owned
  BY <1>1, <1>2 DEF Controlled, Fields
<1>4. CASE ~HasActive(c, n)
  <2>1. k = gone
    BY <1>2, <1>4 DEF Retire
  <2> QED BY <1>1, <1>3, <2>1 DEF Spares
<1>5. CASE HasActive(c, n)
  <2>1. PICK revision, path : revision = ActiveOf(c, n) /\ path = revision.spec.scope
    OBVIOUS
  <2>2. /\ revision.spec \in Specs /\ revision.spec.name = n /\ path \in Paths
        /\ revision.entries = EntriesOf(revision.spec)
    BY <1>5, <2>1, ActiveFacts
  <2>3. k = WithdrawRevision(gone, revision)
    BY <1>2, <1>5, <2>1 DEF Retire
  <2>4. Desired(D) /\ Root \notin gone.owned
    BY <1>1, <1>3 DEF Controlled
  <2>5. /\ \A p \in DOMAIN k.desired.scopes : k.desired.scopes[p] = D.scopes[p]
        /\ \A id \in DOMAIN k.desired.entries : k.desired.entries[id] = D.entries[id]
        /\ \A p \in DOMAIN D.scopes : ~IsWithin(p, path) => p \in DOMAIN k.desired.scopes
        /\ \A id \in DOMAIN D.entries :
             ~IsWithin(D.entries[id].scope, path)
               /\ (id \notin revision.entries \/ (path \in gone.owned /\ HasScope(D, path)))
             => id \in DOMAIN k.desired.entries
    BY <1>3, <2>1, <2>2, <2>3, <2>4, Withdrawn
  <2>6. path \in Reach(n)
    BY <2>1, <2>2 DEF Reach
  <2>7. ASSUME NEW id \in DOMAIN D.entries,
               ~(\E q \in Reach(n) : IsWithin(D.entries[id].scope, q))
        PROVE  id \in DOMAIN k.desired.entries
    <3>1. id \notin revision.entries
      BY <1>1, <2>2, <2>7, OwnIds, OwnWithinReach
    <3> QED BY <2>5, <2>6, <2>7, <3>1
  <2> QED BY <1>1, <2>5, <2>6, <2>7 DEF Spares
<1> QED BY <1>4, <1>5

(* Nor does publishing a revision of it.                                   *)
LEMMA MaterializeSpares ==
    ASSUME NEW c, Controlled(c), NEW spec \in Specs, Installable(c, spec),
           NEW k, Settles(c, spec, k)
    PROVE  Spares(spec.name, c.desired, k.desired)
<1>1. PICK D, B, n, path, old :
        /\ D = c.desired /\ B = Built(c, spec) /\ n = spec.name /\ path = spec.scope
        /\ old = ActiveOf(c, n)
  OBVIOUS
<1>2. /\ \A p \in DOMAIN D.scopes : p \in DOMAIN B.scopes /\ (p # path => B.scopes[p] = D.scopes[p])
      /\ \A id : id \notin EntriesOf(spec) =>
           /\ id \in DOMAIN B.entries <=> id \in DOMAIN D.entries /\ id \notin OwnEntries(c, spec)
           /\ id \in DOMAIN B.entries => B.entries[id] = D.entries[id]
  BY <1>1, BuiltSound
<1>3. /\ \A p \in DOMAIN k.desired.scopes : k.desired.scopes[p] = B.scopes[p]
      /\ \A id \in DOMAIN k.desired.entries : k.desired.entries[id] = B.entries[id]
      /\ \A p \in DOMAIN B.scopes :
           ~(Moves(c, spec) /\ IsWithin(p, old.spec.scope)) => p \in DOMAIN k.desired.scopes
      /\ \A id \in DOMAIN B.entries :
           ~Moves(c, spec)
             \/ (~IsWithin(B.entries[id].scope, old.spec.scope) /\ id \notin old.entries)
           => id \in DOMAIN k.desired.entries
  BY <1>1 DEF Settles
<1>4. HasActive(c, n) =>
        /\ old.spec \in Specs /\ old.spec.name = n /\ old.spec.scope \in Reach(n)
        /\ old.entries = EntriesOf(old.spec)
  BY <1>1, ActiveFacts DEF Reach
<1>5. Moves(c, spec) => HasActive(c, n)
  BY <1>1 DEF Moves, Replaces
<1>6. path \in Reach(n) /\ IsWithin(path, path)
  <2>1. path \in Paths
    BY <1>1, PathsOfSpecs
  <2> QED BY <1>1, <2>1, LineageFacts DEF Reach
<1>7. ASSUME NEW p \in DOMAIN D.scopes, ~(\E q \in Reach(n) : IsWithin(p, q))
      PROVE  p \in DOMAIN k.desired.scopes /\ k.desired.scopes[p] = D.scopes[p]
  BY <1>2, <1>3, <1>4, <1>5, <1>6, <1>7
<1>8. ASSUME NEW id \in DOMAIN D.entries,
             ~(\E q \in Reach(n) : IsWithin(D.entries[id].scope, q))
      PROVE  id \in DOMAIN k.desired.entries /\ k.desired.entries[id] = D.entries[id]
  <2>1. ~(id[1] = "agent" /\ id[2] = n)
    BY <1>1, <1>8, OwnWithinReach
  <2>2. id \notin EntriesOf(spec) /\ (HasActive(c, n) => id \notin old.entries)
    BY <1>1, <1>4, <2>1, OwnIds
  <2>3. id \notin OwnEntries(c, spec)
    BY <1>1, <2>2 DEF OwnEntries, InPlace, Replaces
  <2>4. id \in DOMAIN B.entries /\ B.entries[id] = D.entries[id]
    BY <1>2, <2>2, <2>3
  <2> QED BY <1>3, <1>4, <1>5, <1>8, <2>2, <2>4
<1> QED BY <1>1, <1>7, <1>8 DEF Spares

(* What restores all spares all.                                           *)
LEMMA RestoresSpares ==
    ASSUME NEW c, NEW k, Restores(c, k), NEW n
    PROVE  Spares(n, c.desired, k.desired)
BY DEF Restores, Spares

(* A settled revision is in place, unless it moved over itself.            *)
LEMMA MaterializePlaces ==
    ASSUME NEW c, Controlled(c), NEW spec \in Specs, Installable(c, spec),
           NEW k, Settles(c, spec, k), NEW old, old = ActiveOf(c, spec.name).spec.scope,
           Moves(c, spec) => /\ HasScope(c.desired, old) /\ old \in c.owned
                             /\ ~IsWithin(spec.scope, old)
    PROVE  InPlaceIn(k.desired, spec)
<1>1. PICK D, B, path : D = c.desired /\ B = Built(c, spec) /\ path = spec.scope
  OBVIOUS
<1>2. /\ path \in DOMAIN B.scopes /\ B.scopes[path] = TagOf(spec)
      /\ \A id \in EntriesOf(spec) : id \in DOMAIN B.entries /\ B.entries[id].scope = path
  BY <1>1, BuiltSound
<1>3. /\ \A p \in DOMAIN k.desired.scopes : k.desired.scopes[p] = B.scopes[p]
      /\ \A id \in DOMAIN k.desired.entries : k.desired.entries[id] = B.entries[id]
      /\ \A p \in DOMAIN B.scopes :
           ~(Moves(c, spec) /\ IsWithin(p, old)) => p \in DOMAIN k.desired.scopes
      /\ \A id \in DOMAIN B.entries :
           ~Moves(c, spec)
             \/ ( /\ ~IsWithin(B.entries[id].scope, old)
                  /\ old \in c.owned /\ HasScope(c.desired, old) )
           => id \in DOMAIN k.desired.entries
  BY <1>1 DEF Settles
<1>4. path \in DOMAIN k.desired.scopes
  BY <1>1, <1>2, <1>3
<1>5. \A id \in EntriesOf(spec) : id \in DOMAIN k.desired.entries /\ k.desired.entries[id].scope = path
  BY <1>1, <1>2, <1>3
<1> QED BY <1>1, <1>2, <1>3, <1>4, <1>5 DEF InPlaceIn, HasScope, HasEntry, TagOf

(* What a publication makes of the control state, by its result.           *)
LEMMA PublishesTo ==
    ASSUME Inv, NEW spec \in Specs, NEW replace, Publishes(spec, replace),
           NEW known, known = Remembered(control, spec.name)
    PROVE  /\ Controlled(known)
           /\ known.desired = control.desired /\ known.owned = control.owned
           /\ known.active = control.active
           /\ HasActive(known, spec.name) => ActiveOf(known, spec.name) = ActiveOf(control, spec.name)
           /\ \/ /\ last'.result = "ok" /\ Installable(known, spec)
                 /\ Settles(known, spec, control')
              \/ last'.result # "ok" /\ Restores(known, control')
<1>1. PICK name : name = spec.name
  OBVIOUS
<1>2. /\ Controlled(known) /\ Knows(known, name)
      /\ \A f \in Fields \ {"history"} : known[f] = control[f]
  BY <1>1, RememberedSound DEF Inv
<1>3. known.desired = control.desired /\ known.owned = control.owned /\ known.active = control.active
  BY <1>2 DEF Fields
<1>4. HasActive(known, name) => ActiveOf(known, name) = ActiveOf(control, name)
  <2> SUFFICES ASSUME HasActive(known, name) PROVE ActiveOf(known, name) = ActiveOf(control, name)
    OBVIOUS
  <2>1. Knows(control, name)
    BY <1>3 DEF HasActive, Knows, Inv, Controlled, ActiveHolds
  <2>2. DOMAIN control = Fields
    BY DEF Inv, Controlled
  <2>3. known.history = control.history
    BY <1>1, <2>1, <2>2 DEF Remembered, Fields
  <2> QED BY <1>3, <2>3 DEF ActiveOf
<1>5. \A next, result : Call("publish", spec, next, result) =>
        control' = next /\ last'.result = result
  BY DEF Call
<1>6. PICK made : made = Materialize(known, spec)
  OBVIOUS
<1>7. PICK undone : undone = Unmaterialize(known, spec)
  OBVIOUS
<1>8. CASE control' = known /\ last'.result # "ok"
  BY <1>1, <1>2, <1>3, <1>4, <1>8, EvolvesNot
<1>9. CASE /\ ~Refuses(known, spec, replace) /\ ~IsCurrent(known, spec)
           /\ Stageable(known, spec) /\ Materializes(known, spec)
           /\ control' = made /\ last'.result = "ok"
  <2>1. Installable(known, spec)
    BY <1>1, <1>2, <1>9, InstallableWhen
  <2>2. Settles(known, spec, made)
    BY <1>2, <1>6, <2>1, MaterializeSettles
  <2>3. Settles(known, spec, control')
    BY <1>9, <2>2
  <2> QED BY <1>1, <1>2, <1>3, <1>4, <1>9, <2>1, <2>3
<1>10. CASE Stageable(known, spec) /\ control' = undone /\ last'.result = "failed"
  <2>1. Restores(known, undone)
    BY <1>2, <1>7, <1>10, UnmaterializeSound
  <2> QED BY <1>1, <1>2, <1>3, <1>4, <1>10, <2>1
<1> QED BY <1>1, <1>5, <1>6, <1>7, <1>8, <1>9, <1>10 DEF Publishes

(* Publishing and retiring revisions touches the agent's own scopes alone, *)
(* and leaves the published revision in place entirely (agents.py install, *)
(* _materialize, _withdraw).                                               *)
THEOREM AgentsKeepTheirOwn == Spec => AgentsKeepToTheirOwn
<1> DEFINE Owns ==
             \A n \in Agents : ActsOn(n) =>
               LET mine(p) == \E q \in Reach(n) : IsWithin(p, q)
               IN /\ \A p \in DOMAIN d.scopes :
                       mine(p) \/ (p \in DOMAIN d'.scopes /\ d'.scopes[p] = d.scopes[p])
                  /\ \A id \in DOMAIN d.entries :
                       mine(d.entries[id].scope)
                         \/ (id \in DOMAIN d'.entries /\ d'.entries[id] = d.entries[id])
           Places == \A s \in Specs : Installed(s) /\ ~MovesOverItself(s) => InPlaceIn(d', s)
<1>1. Inv /\ [Next]_vars => [Owns]_vars
  <2> SUFFICES ASSUME Inv, Next PROVE Owns
    BY DEF vars
  <2> SUFFICES ASSUME NEW n \in Agents, ActsOn(n) PROVE Spares(n, d, d')
    BY DEF Spares
  <2>1. CASE last'.call = "retire"
    <3>1. Retires(n)
      BY <2>1, WhichCall DEF ActsOn
    <3>2. control' = Retire(control, n)
      BY <3>1 DEF Retires, Call
    <3> QED BY <3>2, RetireSpares DEF Inv, d
  <2>2. CASE last'.call = "publish"
    <3>1. PICK spec \in Specs, replace \in BOOLEAN : Publishes(spec, replace) /\ spec.name = n
      BY <2>2, WhichCall DEF ActsOn
    <3>2. PICK known : known = Remembered(control, spec.name)
      OBVIOUS
    <3>3. /\ Controlled(known) /\ known.desired = d
          /\ \/ Installable(known, spec) /\ Settles(known, spec, control')
             \/ Restores(known, control')
      BY <3>1, <3>2, PublishesTo DEF d
    <3>4. PICK k : k = control'
      OBVIOUS
    <3>5. Spares(n, known.desired, k.desired)
      BY <3>1, <3>3, <3>4, MaterializeSpares, RestoresSpares
    <3> QED BY <3>3, <3>4, <3>5 DEF d
  <2> QED BY <2>1, <2>2 DEF ActsOn
<1>2. Inv /\ [Next]_vars => [Places]_vars
  <2> SUFFICES ASSUME Inv, Next PROVE Places
    BY DEF vars
  <2> SUFFICES ASSUME NEW s \in Specs, Installed(s), ~MovesOverItself(s) PROVE InPlaceIn(d', s)
    OBVIOUS
  <2>1. last' # last /\ last'.call = "publish" /\ last'.of = s /\ last'.result = "ok"
    BY DEF Installed
  <2>2. PICK replace \in BOOLEAN : Publishes(s, replace)
    BY <2>1, WhichCall
  <2>3. PICK known : known = Remembered(control, s.name)
    OBVIOUS
  <2>4. /\ Controlled(known) /\ known.desired = control.desired /\ known.owned = control.owned
        /\ known.active = control.active
        /\ HasActive(known, s.name) => ActiveOf(known, s.name) = ActiveOf(control, s.name)
        /\ Installable(known, s) /\ Settles(known, s, control')
    BY <2>1, <2>2, <2>3, PublishesTo
  <2>5. PICK k, old : k = control' /\ old = ActiveOf(known, s.name).spec.scope
    OBVIOUS
  <2>6. Moves(known, s) => /\ HasScope(known.desired, old) /\ old \in known.owned
                           /\ ~IsWithin(s.scope, old)
    <3> SUFFICES ASSUME Moves(known, s)
                 PROVE  HasScope(known.desired, old) /\ old \in known.owned /\ ~IsWithin(s.scope, old)
      OBVIOUS
    <3>1. HasActive(known, s.name) /\ ActiveOf(known, s.name) = ActiveOf(control, s.name)
      BY <2>4 DEF Moves, Replaces
    <3>2. Moves(control, s)
      BY <2>4, <3>1 DEF Moves, Replaces, HasActive
    <3> QED BY <2>4, <2>5, <3>1, <3>2 DEF MovesOverItself, d
  <2>7. InPlaceIn(k.desired, s)
    BY <2>4, <2>5, <2>6, MaterializePlaces
  <2> QED BY <2>5, <2>7 DEF d
<1>3. Spec => [][Owns]_vars /\ [][Places]_vars
  BY <1>1, <1>2, ControlInvariant, PTL DEF Spec
<1> QED BY <1>3 DEF AgentsKeepToTheirOwn, OnlyItsOwn, InstallMaterializes
================================================================================
