----------------------------- MODULE MCPlanning -----------------------------
(* Three entries: two that may provide, two that may consume. *)
EXTENDS Diagnostics

CONSTANTS good, other, x, y, z

Declares(provides, requires, optional, registers) ==
  [provides |-> provides, requires |-> requires, optional |-> optional, registers |-> registers]
MCManifest ==
  ("base" :> Declares({x}, {}, {}, {x})) @@
  ("rich" :> Declares({x}, {}, {}, {x, y})) @@           \* registers y as well
  ("user" :> Declares({z}, {x}, {}, {z})) @@
  ("deep" :> Declares({}, {z}, {y}, {})) @@
  ("mute" :> Declares({x}, {}, {}, {})) @@               \* does not keep its promise
  ("loop" :> Declares({x}, {}, {z}, {x}))                \* optionally uses its consumer
MCCatalog == [p \in DOMAIN MCManifest |-> p]

Entry(plugin, config) == [plugin |-> plugin, config |-> config, prefer |-> <<>>]
Config(entries) == [entries |-> entries, preferences |-> <<>>, listed |-> {}]
MCConfigs ==
  {Config((1 :> Entry("base", good)) @@ (2 :> Entry("user", good)) @@ (3 :> Entry("deep", good))),
   Config((1 :> Entry("rich", good)) @@ (2 :> Entry("user", good)) @@ (3 :> Entry("deep", good))),
   Config((1 :> Entry("base", other)) @@
          (2 :> [Entry("user", good) EXCEPT !.prefer = (x :> 3)]) @@ (3 :> Entry("base", good))),
   Config(1 :> Entry("mute", good)),
   Config((1 :> Entry("deep", good)) @@ (2 :> Entry("loop", good)) @@ (3 :> Entry("user", good)))}
\* Those whose plugins register what they declare, no more.
MCDeclaredConfigs ==
  {c \in MCConfigs : \A id \in DOMAIN c.entries :
     LET m == MCManifest[c.entries[id].plugin] IN m.registers = m.provides}

UserEntry(id, plugin, config, scope) ==
  [id |-> id, plugin |-> plugin, config |-> config, scope |-> scope]
MCUserEntries ==
  {UserEntry(2, "user", good, <<"lab">>)}
MCSelections == {<< <<"any", x>>, 3 >>}
=============================================================================
