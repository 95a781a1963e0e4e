--------------------------- MODULE PluginDelivery ---------------------------
(***************************************************************************)
(* How a plugin's file gets from the developer's disk into running apps    *)
(* (device.py): register_plugin gives it a random name on the device and   *)
(* pushes it, rules make the server load it into every process of an app   *)
(* that starts, and watch_plugin pushes it again whenever it changes and   *)
(* reloads it, from the thread of a file watcher.  The host may be started *)
(* again; the device and the server go on.                                 *)
(***************************************************************************)
EXTENDS Naturals, FiniteSets

CONSTANTS
  Names,       \* random names, not 0
  Processes,   \* bound: the processes the app ever has
  MaxVersion,  \* bound: how often the file is written
  Setups       \* what is watched how, and the bounds on faults and restarts

ASSUME DeliveryAssumption ==
  /\ Names \subseteq Nat \ {0}
  /\ MaxVersion \in Nat \ {0}
  /\ \A s \in Setups : s.change_restart \in BOOLEAN /\ s.attach \in BOOLEAN /\ s.isShell \in BOOLEAN
                       /\ s.same_path \in BOOLEAN /\ s.faults \in Nat /\ s.restarts \in Nat
                       /\ s.processes \in SUBSET Processes

Missing == 0

VARIABLES
  setup,
  file,      \* content of the plugin's file: the number of the write, or Missing
  written,   \* number of writes
  events,    \* the watcher's queue
  watched,   \* the operating system watches the file for the program
  disk,      \* name in the dex_maps of the configuration file, 0 if none
  dexMap,    \* name in the dex_maps of device_config
  updates,   \* update_count is not 0
  plugin,    \* plugin.dex_device_dst, 0 before register_plugin is through
  pc,        \* where the program is; from "watching" on, its watcher's thread
  md5,       \* self.plugin_md5
  recent,    \* last_processed is less than debounce_delay ago
  todo,      \* pids still to be done, the one at work included
  onDevice,  \* onDevice[n]: content of the file n on the device
  rules,     \* names of the plugins the server loads into the app
  starting,  \* processes the server has not yet looked at
  alive,     \* all running processes of the app
  used,      \* processes there were
  loaded,    \* loaded[p][n]: what was in the file n when p loaded the plugin from it
  faults,    \* bound: failures to come
  restarts,  \* bound: restarts of the host to come
  loose,     \* history: names a rule was made for while no configuration file had them
  given_up,  \* history: contents whose last event was dropped, or push went wrong, or
             \* that were written between register_plugin and watch_plugin
  forgotten, \* history: names the program ended with before they were in the file
  handled    \* history: the watcher has gone through a change, and no other has come

fileVars == <<file, written, events, watched>>
configVars == <<disk, dexMap, updates, plugin>>
watchVars == <<pc, md5, recent, todo>>
serverVars == <<onDevice, rules>>
appVars == <<starting, alive, used, loaded>>
historyVars == <<loose, given_up, forgotten, handled>>
vars == <<setup, fileVars, configVars, watchVars, serverVars, appVars, faults, restarts, historyVars>>

Handler == {"push", "copy", "stop", "start", "list", "list new", "unload", "load", "load new", "attach"}
Watching == Handler \cup {"watching"}

\* A process without the plugin.
Nothing == [n \in Names |-> Missing]

Init ==
  /\ setup \in Setups
  /\ file = 1 /\ written = 1 /\ events = 0 /\ watched = FALSE
  /\ disk = 0 /\ dexMap = 0 /\ updates = FALSE /\ plugin = 0
  /\ pc = "main" /\ md5 = Missing /\ recent = FALSE /\ todo = {}
  /\ onDevice = [n \in Names |-> Missing] /\ rules = {}
  /\ starting = {} /\ alive = {} /\ used = {}
  /\ loaded = [p \in Processes |-> Nothing]
  /\ faults = setup.faults /\ restarts = setup.restarts
  /\ loose = {} /\ given_up = {} /\ forgotten = {} /\ handled = FALSE

-----------------------------------------------------------------------------
(* The developer, and the program's main thread.                           *)

\* External: a write to the watched file is told to the watcher twice.  It is the
\* file itself that is watched, not its directory: a removal ends the watch, and
\* what is written to a new file of the name is not told.
Write ==
  /\ written < MaxVersion
  /\ file' = written + 1 /\ written' = written + 1
  /\ events' = IF watched THEN events + 2 ELSE events
  /\ given_up' = IF plugin # 0 /\ pc \notin Watching THEN given_up \cup {written + 1} ELSE given_up
  /\ UNCHANGED <<setup, watched, configVars, watchVars, serverVars, appVars, faults, restarts, loose, forgotten, handled>>
Remove ==
  /\ file # Missing /\ written < MaxVersion
  /\ file' = Missing /\ watched' = FALSE
  /\ UNCHANGED <<setup, written, events, configVars, watchVars, serverVars, appVars, faults, restarts, historyVars>>

\* register_plugin: the name is kept in memory, flush_config comes with the first rule.
Register ==
  /\ pc = "main" /\ plugin = 0 /\ file # Missing
  /\ IF dexMap = 0
     THEN /\ dexMap' \in Names \ {n \in Names : onDevice[n] # Missing}
          /\ updates' = TRUE
     ELSE UNCHANGED <<dexMap, updates>>
  /\ pc' = "named"
  /\ UNCHANGED <<setup, fileVars, disk, plugin, md5, recent, todo, serverVars, appVars, faults, restarts, historyVars>>
\* The rest of it: a push that fails is as good as one of an unchanged file,
\* though the user "shell" has deleted what was there.
PushRegistered ==
  /\ pc = "named"
  /\ IF file # Missing
     THEN onDevice' = [onDevice EXCEPT ![dexMap] = file] /\ UNCHANGED given_up
     ELSE given_up' = given_up \cup {file} /\ UNCHANGED onDevice
  /\ pc' = "main" /\ plugin' = dexMap
  /\ UNCHANGED <<setup, fileVars, disk, dexMap, updates, md5, recent, todo, rules, appVars, faults, restarts, loose, forgotten, handled>>
PushRegisteredFails ==
  /\ pc = "named" /\ faults > 0
  /\ faults' = faults - 1
  /\ given_up' = given_up \cup {file}
  /\ pc' = "main"
  /\ plugin' \in {0, dexMap}
  /\ \/ UNCHANGED onDevice
     \/ setup.isShell /\ onDevice' = [onDevice EXCEPT ![dexMap] = Missing]
  /\ UNCHANGED <<setup, fileVars, disk, dexMap, updates, md5, recent, todo, rules, appVars, restarts, loose, forgotten, handled>>

\* Mutant: the rule is made and the configuration left for later.
AddRuleOnly ==
  /\ rules' = rules \cup {plugin}
  /\ UNCHANGED <<disk, updates, loose>>

\* Mutant: the count of updates is reset and nothing written.
AddRuleForgets ==
  /\ rules' = rules \cup {plugin}
  /\ updates' = FALSE
  /\ UNCHANGED <<disk, loose>>

AddRule ==
  /\ rules' = rules \cup {plugin}
  /\ disk' = IF updates THEN dexMap ELSE disk
  /\ updates' = FALSE
  /\ UNCHANGED loose

\* add_plugin_rule of the device.
AddPluginRule ==
  /\ pc = "main" /\ plugin # 0 /\ plugin \notin rules
  /\ AddRule
  /\ UNCHANGED <<setup, fileVars, dexMap, plugin, watchVars, onDevice, appVars, faults, restarts, given_up, forgotten, handled>>

\* launch_with_plugins, and launch_fast once it has registered: the client's
\* add_plugin_rule, which has no part in the configuration.
LaunchWithPlugins ==
  /\ pc = "main" /\ plugin # 0 /\ plugin \notin rules
  /\ rules' = rules \cup {plugin}
  /\ loose' = IF updates THEN loose \cup {plugin} ELSE loose
  /\ UNCHANGED <<setup, fileVars, configVars, watchVars, onDevice, appVars, faults, restarts, given_up, forgotten, handled>>

\* watch_plugin: reload_plugin has nothing to push for a registered plugin.
WatchPlugin ==
  /\ pc = "main" /\ plugin # 0
  /\ IF setup.attach THEN UNCHANGED <<rules, disk, updates, loose>> ELSE AddRule
  /\ pc' = "noted" /\ md5' = file
  /\ UNCHANGED <<setup, fileVars, dexMap, plugin, recent, todo, onDevice, appVars, faults, restarts, given_up, forgotten, handled>>
\* Its end; a file that is not there cannot be watched.
StartWatching ==
  /\ pc = "noted"
  /\ pc' = IF file = Missing THEN "main" ELSE "watching"
  /\ watched' = (file # Missing)
  /\ UNCHANGED <<setup, file, written, events, configVars, md5, recent, todo, serverVars, appVars, faults, restarts, historyVars>>

\* The host's program ends at any moment and is started again.
Restart ==
  /\ restarts > 0
  /\ restarts' = restarts - 1
  /\ dexMap' = disk /\ updates' = FALSE /\ plugin' = 0
  /\ pc' = "main" /\ md5' = Missing /\ recent' = FALSE /\ todo' = {}
  /\ events' = 0 /\ watched' = FALSE
  /\ forgotten' = IF updates THEN forgotten \cup {dexMap} ELSE forgotten
  /\ handled' = FALSE
  /\ UNCHANGED <<setup, file, written, disk, serverVars, appVars, faults, loose, given_up>>

-----------------------------------------------------------------------------
(* handle_plugin_change, in the thread of the watcher.                     *)

DeviceUnchanged == UNCHANGED <<setup, file, written, watched, configVars, serverVars, appVars, restarts, loose, forgotten>>

\* on_modified and on_created compare the path of the event, which is the path
\* watch_plugin was given, with os.path.abspath of it.
Event == pc = "watching" /\ events > 0 /\ setup.same_path
OtherPath ==
  /\ pc = "watching" /\ events > 0 /\ ~setup.same_path
  /\ events' = events - 1
  /\ UNCHANGED <<watchVars, faults, given_up, handled>> /\ DeviceUnchanged

Unchanged ==
  /\ Event
  /\ file = md5
  /\ events' = events - 1
  /\ UNCHANGED <<watchVars, faults, given_up, handled>> /\ DeviceUnchanged

\* Mutant: the content is noted before the debounce is looked at.
DebouncedLate ==
  /\ Event
  /\ file # md5 /\ recent
  /\ events' = events - 1
  /\ md5' = file
  /\ given_up' = IF events = 1 THEN given_up \cup {file} ELSE given_up
  /\ UNCHANGED <<pc, recent, todo, faults, handled>> /\ DeviceUnchanged

Debounced ==
  /\ Event
  /\ file # md5 /\ recent
  /\ events' = events - 1
  /\ given_up' = IF events = 1 THEN given_up \cup {file} ELSE given_up
  /\ UNCHANGED <<watchVars, faults, handled>> /\ DeviceUnchanged

Accept ==
  /\ Event
  /\ file # md5 /\ ~recent
  /\ events' = events - 1
  /\ md5' = file /\ recent' = TRUE /\ pc' = "push" /\ handled' = FALSE
  /\ UNCHANGED <<todo, faults, given_up>> /\ DeviceUnchanged

Elapse ==
  /\ recent /\ pc = "watching"
  /\ recent' = FALSE
  /\ UNCHANGED <<pc, md5, todo, events, faults, given_up, handled>> /\ DeviceUnchanged

Pushed == IF setup.change_restart THEN "stop" ELSE "list"

\* push_file reads the file once more; the user "shell" deletes what is there.
Push ==
  /\ pc = "push"
  /\ IF file \in {Missing, onDevice[plugin]}
     THEN pc' = Pushed /\ UNCHANGED onDevice
     ELSE /\ pc' = "copy"
          /\ onDevice' = IF setup.isShell THEN [onDevice EXCEPT ![plugin] = Missing] ELSE onDevice
  /\ UNCHANGED <<setup, fileVars, configVars, md5, recent, todo, rules, appVars, faults, restarts, historyVars>>
Copy ==
  /\ pc = "copy" /\ file # Missing
  /\ onDevice' = [onDevice EXCEPT ![plugin] = file]
  /\ pc' = Pushed
  /\ UNCHANGED <<setup, fileVars, configVars, md5, recent, todo, rules, appVars, faults, restarts, historyVars>>

\* A push that fails is not noticed.
CopyFails ==
  /\ pc = "copy" /\ (faults > 0 \/ file = Missing)
  /\ faults' = IF file = Missing THEN faults ELSE faults - 1
  /\ given_up' = given_up \cup {md5, file}
  /\ pc' = Pushed
  /\ UNCHANGED <<md5, recent, todo, events, handled>> /\ DeviceUnchanged

\* The device or the server is gone for a moment: the exception is printed.
Raises ==
  /\ pc \in Handler /\ faults > 0
  /\ faults' = faults - 1
  /\ given_up' = given_up \cup {md5, file}
  /\ pc' = "watching" /\ todo' = {}
  /\ UNCHANGED <<md5, recent, events, handled>> /\ DeviceUnchanged

Done == pc' = "watching" /\ handled' = TRUE

StopApp ==
  /\ pc = "stop"
  /\ alive' = {} /\ starting' = {}
  /\ loaded' = [p \in Processes |-> Nothing]
  /\ pc' = "start"
  /\ UNCHANGED <<setup, fileVars, configVars, md5, recent, todo, serverVars, used, faults, restarts, historyVars>>

Fresh == setup.processes \ used
Started(p) ==
  /\ p \in Fresh
  /\ used' = used \cup {p}
  /\ alive' = alive \cup {p} /\ starting' = starting \cup {p}
  /\ UNCHANGED loaded

\* start_app starts a process unless there is one; the pids are read 10 s later.
StartApp ==
  /\ pc = "start"
  /\ IF alive = {} /\ Fresh # {} THEN \E p \in Fresh : Started(p) ELSE UNCHANGED appVars
  /\ IF ~setup.change_restart THEN pc' = "list new" /\ UNCHANGED handled
     ELSE IF setup.attach THEN pc' = "attach" /\ UNCHANGED handled
     ELSE Done
  /\ UNCHANGED <<setup, fileVars, configVars, md5, recent, todo, serverVars, faults, restarts, loose, given_up, forgotten>>

\* attach_with_plugin_ids makes a list of the list of pids, which put_int does not take.
AttachAgain ==
  /\ pc = "attach"
  /\ pc' = "watching"
  /\ UNCHANGED <<md5, recent, todo, events, faults, given_up, handled>> /\ DeviceUnchanged

List ==
  /\ pc = "list"
  /\ todo' = alive
  /\ pc' = IF alive = {} THEN "start" ELSE "unload"
  /\ UNCHANGED <<md5, recent, events, faults, given_up, handled>> /\ DeviceUnchanged
ListNew ==
  /\ pc = "list new"
  /\ todo' = alive
  /\ pc' = "load new"
  /\ UNCHANGED <<md5, recent, events, faults, given_up, handled>> /\ DeviceUnchanged

First(pids) == CHOOSE p \in pids : TRUE

\* Mutant: nothing is unloaded, and loading does nothing.
UnloadNothing ==
  /\ pc = "unload" /\ todo # {}
  /\ pc' = "load"
  /\ UNCHANGED <<setup, fileVars, configVars, md5, recent, todo, serverVars, appVars, faults, restarts, historyVars>>

\* unload_plugin_dex and load_plugin_by_id of the pids, one after the other.
\* An ended process takes both; DEX_ALREADY_LOAD changes nothing.
Unload ==
  /\ pc = "unload" /\ todo # {}
  /\ loaded' = [loaded EXCEPT ![First(todo)][plugin] = Missing]
  /\ pc' = "load"
  /\ UNCHANGED <<setup, fileVars, configVars, md5, recent, todo, serverVars, starting, alive, used, faults, restarts, historyVars>>
Load ==
  /\ pc \in {"load", "load new"} /\ todo # {}
  /\ LET p == First(todo) IN
     /\ loaded' = [loaded EXCEPT ![p][plugin] = IF @ = Missing /\ p \in alive THEN onDevice[plugin] ELSE @]
     /\ todo' = todo \ {p}
  /\ pc' = IF pc = "load" THEN "unload" ELSE pc
  /\ UNCHANGED <<setup, fileVars, configVars, md5, recent, serverVars, starting, alive, used, faults, restarts, historyVars>>
AllLoaded ==
  /\ pc \in {"unload", "load new"} /\ todo = {}
  /\ Done
  /\ UNCHANGED <<setup, fileVars, configVars, md5, recent, todo, serverVars, appVars, faults, restarts, loose, given_up, forgotten>>

-----------------------------------------------------------------------------
(* The app.  External: it starts processes, the server loads what the      *)
(* rules say when one comes up, processes end.                             *)

ProcessStarts ==
  /\ \E p \in Fresh : Started(p)
  /\ UNCHANGED <<setup, fileVars, configVars, watchVars, serverVars, faults, restarts, historyVars>>
RuleLoads(p) ==
  /\ p \in starting
  /\ starting' = starting \ {p}
  /\ loaded' = [loaded EXCEPT ![p] =
                  [n \in Names |-> IF n \in rules /\ loaded[p][n] = Missing THEN onDevice[n] ELSE loaded[p][n]]]
  /\ UNCHANGED <<setup, fileVars, configVars, watchVars, serverVars, alive, used, faults, restarts, historyVars>>
ProcessEnds(p) ==
  /\ p \in alive
  /\ alive' = alive \ {p} /\ starting' = starting \ {p}
  /\ loaded' = [loaded EXCEPT ![p] = Nothing]
  /\ UNCHANGED <<setup, fileVars, configVars, watchVars, serverVars, used, faults, restarts, historyVars>>

Program == Register \/ PushRegistered \/ PushRegisteredFails \/ AddPluginRule \/ LaunchWithPlugins \/ WatchPlugin
           \/ StartWatching
HandlerStep ==
  \/ OtherPath \/ Unchanged \/ Debounced \/ Accept \/ Push \/ Copy \/ CopyFails \/ Raises
  \/ StopApp \/ StartApp \/ AttachAgain \/ List \/ ListNew \/ Unload \/ Load \/ AllLoaded
App == ProcessStarts \/ \E p \in Processes : RuleLoads(p) \/ ProcessEnds(p)

Next == Write \/ Remove \/ Program \/ Restart \/ HandlerStep \/ Elapse \/ App
Spec == Init /\ [][Next]_vars

\* The watcher's thread runs, and time passes.
FairSpec == Spec /\ WF_vars(HandlerStep) /\ WF_vars(Elapse)

-----------------------------------------------------------------------------
(* Properties.                                                             *)

TypeOK ==
  /\ setup \in Setups
  /\ file \in 0..MaxVersion /\ written \in 1..MaxVersion /\ md5 \in 0..MaxVersion
  /\ events \in 0..2 * MaxVersion /\ watched \in BOOLEAN /\ (watched => pc \in Watching)
  /\ {disk, dexMap, plugin} \subseteq Names \cup {0} /\ updates \in BOOLEAN
  /\ plugin # 0 => plugin = dexMap
  /\ ~updates => disk = dexMap
  /\ pc \in {"main", "named", "noted"} \cup Watching /\ recent \in BOOLEAN
  /\ onDevice \in [Names -> 0..MaxVersion]
  /\ rules \subseteq Names /\ loose \subseteq rules /\ forgotten \subseteq Names
  /\ starting \subseteq alive /\ alive \subseteq used /\ used \subseteq setup.processes /\ todo \subseteq used
  /\ loaded \in [Processes -> [Names -> 0..MaxVersion]]
  /\ \A p \in Processes : p \notin alive => loaded[p] = Nothing
  /\ faults \in 0..setup.faults /\ restarts \in 0..setup.restarts
  /\ given_up \subseteq 0..MaxVersion /\ handled \in BOOLEAN

\* A rule outlives the program that made it, so the name it was made with must
\* be the one the next start of the program uses: else the plugin is pushed
\* and loaded a second time.  Only the launch functions make a rule for a
\* name that is not in the configuration file yet.
RulesKeepTheirName == \A n \in rules \ loose : disk = n

\* When the watcher has gone through a change, no process of the app runs the
\* plugin from an older file than the one on the device, whenever it started,
\* and with a rule each runs it.  And none runs it a second time under another
\* name, unless the program once ended before it had saved that name.
Runs(p) == loaded[p][plugin] = onDevice[plugin]
Waits(p) == loaded[p][plugin] = Missing /\ (p \in starting \/ plugin \notin rules)
NothingOldKeepsRunning ==
  pc = "watching" /\ handled =>
    \A p \in alive :
      /\ Runs(p) \/ Waits(p)
      /\ \A n \in Names \ ({plugin} \cup forgotten) : loaded[p][n] = Missing

\* While the watch lasts and its path is the one the handlers compare with, the
\* last content of the file reaches the device, unless its last event fell into
\* the delay, or a push or call for it went wrong, or it was written before the
\* watcher was there.
LastChangeArrives ==
  setup.same_path => <>[](watched => file \in given_up \/ onDevice[plugin] = file)
=============================================================================
