--------------------------- MODULE MCControlPlane ---------------------------
(* Two agents, two catalog implementations and an alias, one run. *)
EXTENDS ControlPlane

CONSTANTS good, other, wide, narrow, x

MCCatalog == ("p" :> "p") @@ ("q" :> "q") @@ ("alias" :> "p")
MCAgents == {"A", "B"}
MCRuntimes == {"A", "rt"}

Spec_(name, revision, scope, terms, plugins, runtime) ==
  [name |-> name, revision |-> revision, scope |-> scope, terms |-> terms,
   plugins |-> plugins, runtime |-> runtime]
Home(n) == <<"agents", n>>
Lab == <<"lab">>

A1 == Spec_("A", "1", Home("A"), wide, "p" :> good, "A")
MCSpecs ==
  {A1,
   Spec_("A", "2", Home("A"), narrow, ("p" :> good) @@ ("q" :> Direct), "rt"),
   Spec_("A", "3", Lab, wide, "q" :> good, "A"),
   Spec_("A", "5", Lab \o <<"b">>, wide, "p" :> good, "rt"),
   Spec_("A", "4", Home("A"), narrow, ("p" :> other) @@ ("q" :> Bad), "A"),
   Spec_("A", "1", Home("A"), narrow, "p" :> good, "A"),
   Spec_("B", "1", Lab \o <<"b">>, wide, ("p" :> good) @@ ("q" :> Bad), "B"),
   Spec_("B", "2", Home("B"), wide, ("p" :> good), "B"),
   Spec_("B", "3", Lab \o <<"b">>, wide, ("p" :> good), "B"),
   Spec_("B", "4", Home("B"), wide, ("missing" :> good), "B")}

U == <<"entry", "u">>
W == <<"entry", "w">>
UserEntry(id, plugin, config, scope) ==
  [id |-> id, plugin |-> plugin, config |-> config, scope |-> scope]
MCUserEntries == {UserEntry(U, "p", good, Root), UserEntry(U, "q", good, Lab)}
MCUserScopes == {Lab, <<"agents">>}

Entry(id, plugin, config, enabled, prefer) ==
  [id |-> id, plugin |-> plugin, config |-> config, enabled |-> enabled, prefer |-> prefer]
Wants(id, plugin, config) == Entry(id, plugin, config, TRUE, <<>>)
Parks(id, plugin) == Entry(id, plugin, good, FALSE, x :> W)
Document(plugins, preferences) ==
  [version |-> 1, plugins |-> plugins, preferences |-> preferences]
MCDocuments ==
  {Document(<<Parks(U, "p")>>, <<>>),
   Document(<<Entry(U, "p", good, TRUE, x :> W), Parks(W, "q")>>, <<"any", x>> :> U),
   Document(<<Wants(W, "q", good), Wants(U, "alias", good)>>, <<>>),
   Document(<<Wants(U, "p", other), Wants(W, "q", Bad)>>, <<>>),
   Document(<<Parks(U, "gone")>>, <<>>),
   Document(<<Wants(U, "p", good), Parks(U, "p")>>, <<>>)}
=============================================================================
