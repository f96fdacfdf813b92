----------------------------- MODULE MCRunView -----------------------------
(* An instance of the root, its successor, and one of a scope whose sibling
   sees what the root declares. *)
EXTENDS RunView

CONSTANTS a, next, b, strict, loose, sys, model, Families, naming, sharing, system, chains, graphs, r1, r2

Tool(name, contract) ==
  [kind |-> "tool", name |-> name, contract |-> contract, policy |-> strict]
Runtime(replace) == [kind |-> "runtime", name |-> "agent", replace |-> replace]
Hook(mode, priority, errors) ==
  [kind |-> "hook", mode |-> mode, priority |-> priority, errors |-> errors]
Cap(cap, version, conforms) ==
  [kind |-> "cap", cap |-> cap, version |-> version, conforms |-> conforms]
Plugin(items, promises) == [items |-> items, promises |-> promises]
Of(pa, pnext, pb) == (a :> pa) @@ (next :> pnext) @@ (b :> pb)

Case(of, compositions, preferences, callers, runs_, generations_, withdrawals, rewired) ==
  [plugin |-> of, compositions |-> compositions, preferences |-> preferences,
   callers |-> callers, runs |-> runs_, generations |-> generations_,
   withdrawals |-> withdrawals, rewired |-> rewired]

SettingsOf(family) ==
  CASE family = naming ->
         {Case(Of(Plugin(<<Runtime(FALSE), Tool("t", 1)>>, {}),
                  Plugin(<<Runtime(TRUE), Tool("t", 2)>>, {}),
                  Plugin(<<>>, {})),
               {{a}, {a, next}}, {<<>>}, {"left"}, {r1}, 1, 1, {})}
    [] family = sharing ->
         {Case(Of(Plugin(<<Runtime(FALSE), Tool("t", 1)>>, {}),
                  Plugin(<<>>, {}),
                  Plugin(<<>>, {})),
               {{a}, {a, b}, {b}}, {<<>>}, {"right"}, {r1, r2}, 2, 0, {a})}
    [] family = system ->
         {Case(Of(Plugin(<<Runtime(FALSE), Cap(sys, 1, ca)>>, {<<sys, 1>>}),
                  Plugin(<<Cap(sys, v, cn)>>, {<<sys, 1>>}),
                  Plugin(<<Cap(sys, 1, TRUE)>>, {})),
               {{a, b}, {a, next}}, {<<>>, <<"any", sys>> :> next},
               {"everywhere", "left", "right"}, {r1}, 1, 0, {}) : ca, cn \in BOOLEAN, v \in {1, 2}}
    [] family = chains ->
         {Case(Of(Plugin(<<Runtime(FALSE), Hook("transform", 1, errors)>>, {}),
                  Plugin(<<Hook("observe", 0, errors)>>, {}),
                  Plugin(<<Hook("bail", 1, errors)>>, {})),
               {{a, next}, {a, b}}, {<<>>}, {"right"}, {r1}, 1, IF errors = "raise" THEN 1 ELSE 0, {}) :
               errors \in {"record", "raise"}}
    [] family = graphs ->
         {Case(Of(Plugin(<<Runtime(FALSE), Tool("t", 1)>>, {}),
                  Plugin(<<Tool("t", n)>>, {}),
                  Plugin(<<Cap(model, 1, TRUE)>>, {})),
               {{a, b}, {next}}, {<<>>}, IF n = 1 THEN {"left"} ELSE {"left", "right"}, {r1}, 2, 0, {}) :
               n \in {1, 2}}

MCSettings == UNION {SettingsOf(family) : family \in Families}
MCSymmetry == Permutations(Runs)
MCPlace == (a :> "root") @@ (next :> "root") @@ (b :> "right")
MCLineage == ("root" :> {"root"}) @@ ("left" :> {"root", "left"}) @@ ("right" :> {"root", "right"})
MCToolView == [s \in {"root", "left", "right"} |-> {"t"}]
MCCapView == ("root" :> {sys, model}) @@ ("left" :> {model}) @@ ("right" :> {sys, model})
=============================================================================
