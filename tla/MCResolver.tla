----------------------------- MODULE MCResolver -----------------------------
(* Compositions of three entries, one scope or four. *)
EXTENDS ScopeTree

CONSTANTS x, y, a, ab, b, flat, scoped, ranges, broken

MCNodes == 1..3
MCScopes == {Root, a, ab, b}

Above1 == {Clause(">=", 10)}                       \* every generation from 1
Only1 == {Clause(">=", 11), Clause("<", 20)}       \* pinned to generation 1
Across == {Clause(">", 19), Clause("<", 30)}       \* crosses a major boundary
Upto2 == {Clause(">=", 10), Clause("<=", 20)}      \* reaches the next major

Hard(cap, spec) == {Requirement(cap, spec, FALSE)}
Soft(cap, spec) == {Requirement(cap, spec, TRUE)}
Profile(offers, needs) == [offers |-> offers, needs |-> needs]

MCParentOf == (Root :> NoParent) @@ (a :> Root) @@ (ab :> a) @@ (b :> Root)
Everything == [s \in MCScopes |-> {x, y}]

\* Two scopes have requirements of their own, for the runs of their agents.
ScopeNeeds == [s \in MCScopes |-> CASE s = b -> Hard(x, Above1) [] s = ab -> Hard(x, Only1) [] OTHER -> {}]

Composition(profiles, scope, view, prefer, active) ==
  [declared |-> MCScopes, view |-> view, scope |-> scope,
   offers |-> [e \in MCNodes |-> profiles[e].offers],
   needs |-> [e \in MCNodes |-> profiles[e].needs],
   active |-> active,
   registered |-> [e \in MCNodes |-> {<<x, 12>>}],
   requires |-> ScopeNeeds,
   prefer |-> prefer]

InRoot == [e \in MCNodes |-> Root]
NoPreference == <<>>
OfX == <<x, 12>>
NewX == <<x, 20>>
OfY == <<y, 12>>

\* One scope: providers compete, versions differ, preferences decide, cycles
\* and optional loops close.
FlatProfiles ==
  {Profile({}, Hard(x, Above1)), Profile({OfX}, {}), Profile({NewX}, Soft(y, Above1)),
   Profile({OfX}, Hard(y, Above1)), Profile({OfY}, Hard(x, Only1)),
   Profile({OfY}, Soft(x, Above1)), Profile({OfY}, Hard(x, Above1) \cup Soft(y, Above1)),
   Profile({OfX, NewX}, Hard(x, Above1))}
Preferences ==
  {NoPreference, (<<"any", x>> :> 2),
   (<<"any", x>> :> 1) @@ (<<"consumer", 3, x>> :> 2) @@ (<<"scope", Root, x>> :> 3)}
FlatInputs ==
  {Composition(p, InRoot, Everything, prefer, {}) :
     p \in [MCNodes -> FlatProfiles], prefer \in Preferences}

\* Four scopes: a root, a child with a child of its own, and its sibling; the
\* child may hide one capability.  Entry 2 may be active, having registered
\* what its manifest does not declare.
ScopedProfiles ==
  {Profile({OfX}, {}), Profile({OfY}, Hard(x, Above1)), Profile({}, Hard(y, Above1)),
   Profile({OfX}, Soft(y, Above1))}
Views == {Everything, [Everything EXCEPT ![a] = {y}]}
ScopedInputs ==
  {Composition(p, scope, view, NoPreference, active) :
     p \in [MCNodes -> ScopedProfiles],
     scope \in {s \in [MCNodes -> {Root, a, ab, b}] : s[1] \in {Root, a}},
     view \in Views, active \in {{}, {2}}}

\* Specifiers at a major boundary.
RangeInputs ==
  {Composition(<<Profile({<<x, v>>}, {}), Profile({}, Hard(x, spec)), Profile({}, {})>>,
               InRoot, Everything, NoPreference, {}) :
     v \in {10, 11, 19, 20, 21},
     spec \in {Above1, Only1, Across, Upto2, {Clause("==", 20)}, {Clause("~=", 11)},
               {Clause(">", 10), Clause("<", 20), Clause("!=", 11)}, {}}}

\* Hierarchies the resolver refuses: no root, an undeclared parent, an entry in
\* an undeclared scope.
BrokenInputs ==
  {[Composition(<<Profile({OfX}, {}), Profile({}, Hard(x, Above1)), Profile({}, {})>>,
                [InRoot EXCEPT ![2] = s], Everything, NoPreference, {})
      EXCEPT !.declared = d] :
     s \in {Root, ab}, d \in {{Root}, {a, ab}, {Root, ab}, MCScopes}}

CONSTANT Families
MCInputs ==
  UNION {CASE f = flat -> FlatInputs
           [] f = scoped -> ScopedInputs
           [] f = ranges -> RangeInputs
           [] OTHER -> BrokenInputs : f \in Families}
=============================================================================
