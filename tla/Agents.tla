------------------------------- MODULE Agents -------------------------------
(***************************************************************************)
(* Agent composition (agents.py, agent_spec.py): an agent spec is          *)
(* materialized into a composition scope and its entries, transactionally; *)
(* a later revision replaces it, a removal retires the agent.  Operators   *)
(* over the control state c, which carries besides Configuration's fields  *)
(*   history   agent -> revision -> what was published: [spec, entries]    *)
(*   active    agent -> the revision new runs select                       *)
(*   retired   agents that were removed                                    *)
(*   owned     the scope paths that belong to agents                       *)
(* A spec is [name, revision, scope, terms, plugins, runtime]: plugins     *)
(* maps a plugin name to its configuration, or to Direct for a class given *)
(* programmatically.                                                       *)
(***************************************************************************)
EXTENDS Configuration

CONSTANT Direct

EntryOf(name, plugin) == <<"agent", name, plugin>>
EntriesOf(spec) == {EntryOf(spec.name, p) : p \in DOMAIN spec.plugins}

Knows(c, name) == name \in DOMAIN c.history
HasActive(c, name) == name \in DOMAIN c.active
ActiveOf(c, name) == c.history[name][c.active[name]]
IsPublished(c, spec) == Knows(c, spec.name) /\ spec.revision \in DOMAIN c.history[spec.name]

\* The install that fails leaves this: the history of the name, even empty.
Remembered(c, name) ==
  [c EXCEPT !.history = IF Knows(c, name) THEN @ ELSE Put(@, name, <<>>)]

-----------------------------------------------------------------------------
(* Deciding what an installation is *)

\* Refused outright: other content under a published revision, or another
\* active revision without replace.
Refuses(c, spec, replace) ==
  \/ IsPublished(c, spec) /\ c.history[spec.name][spec.revision].spec # spec
  \/ HasActive(c, spec.name) /\ c.active[spec.name] # spec.revision /\ ~replace

\* Already current: the published revision is returned, nothing changes.
IsCurrent(c, spec) ==
  IsPublished(c, spec) /\ HasActive(c, spec.name) /\ c.active[spec.name] = spec.revision

\* The active revision that spec replaces: one in the same scope is taken over
\* in place, one in another scope is withdrawn afterwards.
Replaces(c, spec) == HasActive(c, spec.name) /\ c.active[spec.name] # spec.revision
InPlace(c, spec) == Replaces(c, spec) /\ ActiveOf(c, spec.name).spec.scope = spec.scope
Moves(c, spec) == Replaces(c, spec) /\ ActiveOf(c, spec.name).spec.scope # spec.scope

OwnEntries(c, spec) == IF InPlace(c, spec) THEN ActiveOf(c, spec.name).entries ELSE {}

\* _stage_contributions, and the refusal of a scope the agents do not own.
Stageable(c, spec) ==
  /\ \A p \in DOMAIN spec.plugins :
       /\ HasEntry(c.desired, EntryOf(spec.name, p)) =>
            EntryOf(spec.name, p) \in OwnEntries(c, spec)
       /\ spec.plugins[p] # Direct => Known(p)
  /\ HasScope(c.desired, spec.scope) => spec.scope \in c.owned

-----------------------------------------------------------------------------
(* Materializing a staged spec *)

\* The scope as the spec wants it, on top of the desired state d.
Declare(d, spec) ==
  SetScope(Ensure(d, spec.scope), spec.scope,
           [terms |-> spec.terms, agent |-> spec.name, revision |-> spec.revision])

\* A contribution that is already what the spec asks for is left alone; one
\* given as a class is always installed again.
Keeps(d, spec, p) ==
  LET id == EntryOf(spec.name, p)
  IN /\ spec.plugins[p] # Direct
     /\ HasEntry(d, id)
     /\ d.entries[id].plugin = p
     /\ d.entries[id].config = spec.plugins[p]
     /\ d.entries[id].scope = spec.scope

\* Mutant of Contribution: the entry is installed without its scope.
ContributionToRoot(spec, p) ==
  [id |-> EntryOf(spec.name, p),
   to |-> [plugin |-> IF spec.plugins[p] = Direct THEN p ELSE Catalog[p],
           config |-> spec.plugins[p], scope |-> Root]]

Contribution(spec, p) ==
  [id |-> EntryOf(spec.name, p),
   to |-> [plugin |-> IF spec.plugins[p] = Direct THEN p ELSE Catalog[p],
           config |-> spec.plugins[p], scope |-> spec.scope]]

Contributions(d, spec) ==
  LET new == SetToSeq({p \in DOMAIN spec.plugins : ~Keeps(d, spec, p)})
  IN Transaction(d, [i \in DOMAIN new |-> Contribution(spec, new[i])])

Materializes(c, spec) == Contributions(Declare(c.desired, spec), spec).ok

\* _withdraw: the owned scope with all it holds, or the entries alone.
WithdrawRevision(c, published) ==
  IF published.spec.scope \in c.owned /\ HasScope(c.desired, published.spec.scope)
  THEN [c EXCEPT !.desired = RemoveScope(@, published.spec.scope),
                 !.owned = @ \ {published.spec.scope}]
  ELSE [c EXCEPT !.desired = UninstallAll(@, published.entries)]

\* The failure path of _materialize: entries restored, the pending flag put
\* back, then the scope removed or restored, which sets the flag again.  The
\* ancestors that ensure created stay.
Unmaterialize(c, spec) ==
  LET undone == Contributions(Declare(c.desired, spec), spec).undone
      flagged == [undone EXCEPT !.dirty = c.desired.dirty]
  IN IF HasScope(c.desired, spec.scope)
     THEN [c EXCEPT !.desired = SetScope(flagged, spec.scope, c.desired.scopes[spec.scope])]
     ELSE [c EXCEPT !.desired = RemoveScope(flagged, spec.scope), !.owned = @ \ {spec.scope}]

\* The success path: the contributions the new revision dropped go, a revision
\* in another scope is withdrawn, the new one becomes active.
Materialize(c, spec) ==
  LET dropped == OwnEntries(c, spec) \ EntriesOf(spec)
      built == UninstallAll(Contributions(Declare(c.desired, spec), spec).done, dropped)
      placed == [c EXCEPT !.desired = built, !.owned = @ \cup {spec.scope}]
      settled == IF Moves(c, spec) THEN WithdrawRevision(placed, ActiveOf(c, spec.name))
                 ELSE placed
      published == [spec |-> spec, entries |-> EntriesOf(spec)]
      known == Remembered(settled, spec.name)
  IN [known EXCEPT !.history[spec.name] = Put(@, spec.revision, published),
                   !.active = Put(@, spec.name, spec.revision),
                   !.retired = @ \ {spec.name}]

\* remove: the agent is retired and its active revision withdrawn.
Retire(c, name) ==
  LET gone == [c EXCEPT !.retired = @ \cup {name}, !.active = Drop(@, {name})]
  IN IF HasActive(c, name) THEN WithdrawRevision(gone, ActiveOf(c, name)) ELSE gone

-----------------------------------------------------------------------------
(* Selecting what a run executes *)

NoSpec == [name |-> NoAgent]

\* _resolve_agent: the active revision, or none for a plain runtime.
Selected(c, name) == IF HasActive(c, name) THEN ActiveOf(c, name).spec ELSE NoSpec
IsRefusedAsRetired(c, name) == Knows(c, name) /\ ~HasActive(c, name)

RuntimeFor(c, name) == IF HasActive(c, name) THEN ActiveOf(c, name).spec.runtime ELSE name

\* Mutant of Pin: the selected revision, whatever the generation holds.
PinSelected(c, name, scopes) == Selected(c, name)

\* _pin_revision: the revision that the acquired generation materialized in
\* the selected scope, when this agent published it.
Pin(c, name, scopes) ==
  LET selected == Selected(c, name)
  IN IF selected = NoSpec \/ selected.scope \notin DOMAIN scopes THEN selected
     ELSE LET revision == scopes[selected.scope].revision
          IN IF revision \in DOMAIN c.history[name] THEN c.history[name][revision].spec
             ELSE selected
=============================================================================
