--------------------------- MODULE Configuration ---------------------------
(***************************************************************************)
(* Declarative configuration, application-held capabilities and provider   *)
(* preferences (harness.py apply_config, provide, withdraw,                *)
(* prefer_provider; config/reconcile.py; config/loader.py), as operators   *)
(* over the control state c:                                               *)
(*   desired     the desired state of Composition                          *)
(*   configPrefs, programPrefs   the two preference layers                 *)
(*   config      the applied configuration, NoConfig before the first      *)
(*   provisions  the capabilities the application provides                 *)
(***************************************************************************)
EXTENDS Composition

CONSTANTS Catalog,          \* catalog name -> manifest name of the implementation
          Bad,              \* a configuration the implementations refuse
          NoConfig

EntryKey(id, cap) == <<"consumer", id, cap>>

-----------------------------------------------------------------------------
(* Transactions on the registry, of configurations and of agents *)

\* A change is [id, to]: the entry goes, or becomes a [plugin, config, scope].
Gone == [plugin |-> "gone"]

Apply(d, change) ==
  IF change.to = Gone THEN Uninstall(d, change.id)
  ELSE InstallEntry(d, change.id, change.to.plugin, change.to.config, change.to.scope)

\* Building an implementation with a bad configuration raises before anything
\* is registered.
Fails(change) == change.to # Gone /\ change.to.config = Bad

\* Changes, of one entry each, in order until one fails: whether none does, the
\* desired state reached, and the state that the undo list leads back to.
Transaction(d, changes) ==
  LET bad == {i \in DOMAIN changes : Fails(changes[i])}
      last == IF bad = {} THEN Len(changes) ELSE Min(bad) - 1
      forth[i \in 0..last] == IF i = 0 THEN d ELSE Apply(forth[i - 1], changes[i])
      \* each restorer holds what its entry was before its own change; the
      \* failing change has captured too, and the restorers run in reverse
      back[i \in 0..last] ==
        IF i = last THEN forth[last] ELSE RestoreEntry(back[i + 1], changes[i + 1].id, forth[i])
  IN [ok |-> bad = {}, done |-> forth[last], undone |-> back[0]]

-----------------------------------------------------------------------------
(* Documents *)

\* A document is [version, plugins, preferences]; plugins is a sequence of
\* [id, plugin, config, enabled, prefer].  A configuration is what is left of it:
\* a function from the ids of its enabled entries to [plugin, config, prefer],
\* the preferences, and every implementation it lists.

\* migrate_config: the schema versions this build knows.
SchemaVersions == {1}

\* What validation refuses: another version, an entry id used twice.
IsValid(document) ==
  /\ document.version \in SchemaVersions
  /\ \A i, j \in DOMAIN document.plugins :
       document.plugins[i].id = document.plugins[j].id => i = j

EntryConfig(entry) == [plugin |-> entry.plugin, config |-> entry.config, prefer |-> entry.prefer]
EnabledEntries(document) == {e \in Range(document.plugins) : e.enabled}

\* parse_config: a disabled entry is an absent one, though its implementation
\* must still be in the catalog.
ParseConfig(document) ==
  LET enabled == EnabledEntries(document)
  IN [entries |-> [id \in {e.id : e \in enabled} |->
                     EntryConfig(CHOOSE e \in enabled : e.id = id)],
      preferences |-> document.preferences,
      listed |-> {e.plugin : e \in Range(document.plugins)}]

\* The catalog's get, which an unknown name makes raise.
Known(name) == name \in DOMAIN Catalog

-----------------------------------------------------------------------------
(* Configurations *)

\* _stage_config: every listed implementation is in the catalog.
Stages(config) == \A name \in config.listed : Known(name)

\* Mutant of ActionFor: a changed configuration is not a change.
ActionByPlugin(config, d, id) ==
  LET wanted == id \in DOMAIN config.entries
  IN CASE wanted /\ ~HasEntry(d, id) -> "add"
       [] ~wanted -> "remove"
       [] OTHER -> IF config.entries[id].plugin = d.entries[id].plugin
                   THEN "unchanged" ELSE "replace"

\* diff_desired_state, one entry id: what the configuration asks for it.  The
\* installed side names the implementation by its manifest.
ActionFor(config, d, id) ==
  LET wanted == id \in DOMAIN config.entries
      same == /\ config.entries[id].plugin = d.entries[id].plugin
              /\ config.entries[id].config = d.entries[id].config
  IN CASE wanted /\ ~HasEntry(d, id) -> "add"
       [] ~wanted -> "remove"
       [] OTHER -> IF same THEN "unchanged" ELSE "replace"

Changes(config, d) ==
  {id \in DOMAIN config.entries \cup DOMAIN d.entries :
     ActionFor(config, d, id) # "unchanged"}

\* The change that the configuration asks of one entry, and all of them.
ChangeOf(config, d, id) ==
  [id |-> id,
   to |-> IF ActionFor(config, d, id) = "remove" THEN Gone
          ELSE [plugin |-> Catalog[config.entries[id].plugin],
                config |-> config.entries[id].config, scope |-> Root]]

Batch(config, d) ==
  LET ids == SetToSeq(Changes(config, d))
  IN Transaction(d, [i \in DOMAIN ids |-> ChangeOf(config, d, ids[i])])

\* The preferences a configuration owns: its own and its entries'.
ConfigPreferences(config) ==
  LET keys == UNION {{EntryKey(id, cap) : cap \in DOMAIN config.entries[id].prefer} :
                       id \in DOMAIN config.entries}
  IN [k \in keys |-> config.entries[k[2]].prefer[k[3]]] @@ config.preferences

\* Mutant of Abandon: the undo list does not run.
AbandonAsIs(c, config) == [c EXCEPT !.desired = [Batch(config, c.desired).done EXCEPT
                                                   !.dirty = c.desired.dirty]]

\* A failed application: the restorers run, the pending flag is put back.
Abandon(c, config) == [c EXCEPT !.desired = [Batch(config, c.desired).undone EXCEPT
                                               !.dirty = c.desired.dirty]]

\* A successful application: entries, preferences and the stored configuration.
Commit(c, config) ==
  LET prefs == ConfigPreferences(config)
      d == Batch(config, c.desired).done
  IN [c EXCEPT !.desired = [d EXCEPT !.dirty = @ \/ prefs # c.configPrefs],
               !.configPrefs = prefs,
               !.config = config]

\* _effective_preferences: the program's override the configuration's.
EffectivePreferences(c) == c.programPrefs @@ c.configPrefs

-----------------------------------------------------------------------------
(* Application-held capabilities *)

ServicesEntry == <<"services">>

\* _sync_services_entry: one entry holds all provisions, and none holds none.
\* Without provisions the registry is called directly, so the flag is not set.
SyncServices(d, provisions) ==
  IF provisions = {} THEN [d EXCEPT !.entries = Drop(@, {ServicesEntry})]
  ELSE InstallEntry(d, ServicesEntry, "chassis-services", provisions, Root)

Provide(c, cap) ==
  LET held == c.provisions \cup {cap}
  IN [c EXCEPT !.provisions = held,
               !.desired = [SyncServices(@, held) EXCEPT !.dirty = TRUE]]

Withdraw(c, cap) ==
  LET held == c.provisions \ {cap}
  IN [c EXCEPT !.provisions = held,
               !.desired = [SyncServices(@, held) EXCEPT !.dirty = TRUE]]

Prefer(c, key, provider) ==
  [c EXCEPT !.programPrefs = Put(@, key, provider), !.desired.dirty = TRUE]
=============================================================================
