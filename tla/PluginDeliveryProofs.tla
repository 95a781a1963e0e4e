------------------------ MODULE PluginDeliveryProofs ------------------------
(***************************************************************************)
(* Delivery of a plugin, for any number of versions, processes and starts  *)
(* of the host, any faults and every way to watch: the types, the names    *)
(* the rules keep, and that a change replaces what was running.            *)
(***************************************************************************)
EXTENDS PluginDelivery, TLAPS

\* TypeOK needs the bound of the events, and that a handler and a push have a name.
EventsInv == events <= 2 * written
NamedInv ==
  /\ pc \in Watching \cup {"noted"} => plugin # 0
  /\ pc = "named" => dexMap # 0 /\ plugin = 0
\* What is not saved yet is the first name.
UnsavedInv == updates => disk = 0 /\ dexMap # 0
TypeInv == TypeOK /\ EventsInv /\ NamedInv /\ UnsavedInv


\* Every name the server or an app has is the one in use, or forgotten.
Known == forgotten \cup {dexMap}
KnownInv ==
  /\ rules \subseteq Known
  /\ \A p \in Processes : \A n \in Names : loaded[p][n] # Missing => n \in Known

\* NothingOldKeepsRunning says nothing of the reload itself: who is not in todo
\* any more, or was never in it, runs what is on the device, and the one at work
\* has nothing, or what a rule gave it in between.
Fine(p) == Runs(p) \/ Waits(p)
ReloadInv ==
  /\ handled => pc = "watching"
  /\ handled \/ pc \in {"start", "attach", "list new", "load new"} => \A p \in alive : Fine(p)
  /\ pc \in {"unload", "load"} => \A p \in alive \ todo : Fine(p)
  /\ pc = "load" => /\ todo # {}
                    /\ loaded[First(todo)][plugin] \in {Missing, onDevice[plugin]}

LEMMA InitTypeInv == Init => TypeInv
<1> SUFFICES ASSUME Init PROVE TypeInv
  OBVIOUS
<1>1. TypeOK
  <2>1. /\ setup \in Setups
        /\ MaxVersion \in Nat /\ MaxVersion > 0
        /\ setup.faults \in Nat /\ setup.restarts \in Nat /\ setup.processes \subseteq Processes
    BY DeliveryAssumption DEF Init
  <2>2. /\ onDevice \in [Names -> 0..MaxVersion]
        /\ loaded \in [Processes -> [Names -> 0..MaxVersion]]
        /\ \A p \in Processes : p \notin alive => loaded[p] = Nothing
    BY <2>1 DEF Init, Nothing, Missing
  <2>3. QED
    <3>1. file \in 0..MaxVersion /\ written \in 1..MaxVersion /\ md5 \in 0..MaxVersion /\ events \in 0..2 * MaxVersion
      BY <2>1 DEF Init, Missing
    <3>2. faults \in 0..setup.faults /\ restarts \in 0..setup.restarts
      BY <2>1 DEF Init
    <3>3. QED
      BY <2>1, <2>2, <3>1, <3>2 DEF Init, TypeOK
<1>2. QED
  BY <1>1 DEF Init, TypeInv, EventsInv, NamedInv, UnsavedInv, Watching, Handler

\* Steps of the developer and of the host.
LEMMA HostKeepsTypeInv ==
  ASSUME TypeInv, Write \/ Remove \/ Restart
  PROVE  TypeInv'
<1>1. MaxVersion \in Nat /\ MaxVersion > 0
  BY DeliveryAssumption
<1>2. CASE Write
  <2>1. file' \in 0..MaxVersion /\ written' \in 1..MaxVersion
    BY <1>1, <1>2 DEF Write, TypeInv, TypeOK
  <2>2. events' \in 0..2 * MaxVersion /\ EventsInv'
    <3>1. events \in Nat /\ events <= 2 * written /\ written \in Nat
      BY DEF TypeInv, TypeOK, EventsInv
    <3>2. written' = written + 1 /\ events' \in {events, events + 2} /\ written' <= MaxVersion
      BY <1>1, <1>2, <2>1, <3>1 DEF Write
    <3>3. QED
      BY <1>1, <3>1, <3>2 DEF EventsInv
  <2>3. given_up' \subseteq 0..MaxVersion
    BY <1>1, <1>2, <2>1 DEF Write, TypeInv, TypeOK
  <2>4. QED
    BY <1>2, <2>1, <2>2, <2>3
       DEF Write, TypeInv, TypeOK, NamedInv, UnsavedInv, configVars, watchVars, serverVars, appVars, Watching, Handler
<1>3. CASE Remove
  <2>1. file' \in 0..MaxVersion
    BY <1>1, <1>3 DEF Remove, Missing
  <2>2. QED
    BY <1>3, <2>1
       DEF Remove, TypeInv, TypeOK, EventsInv, NamedInv, UnsavedInv, configVars, watchVars, serverVars, appVars,
           historyVars, Watching, Handler
<1>4. CASE Restart
  <2>1. events' \in 0..2 * MaxVersion /\ EventsInv'
    BY <1>1, <1>4 DEF Restart, TypeInv, TypeOK, EventsInv
  <2>2. md5' \in 0..MaxVersion
    BY <1>1, <1>4 DEF Restart, Missing
  <2>3. restarts' \in 0..setup'.restarts
    BY <1>4, DeliveryAssumption DEF Restart, TypeInv, TypeOK
  <2>4. forgotten' \subseteq Names
    <3>1. CASE updates
      <4>1. dexMap # 0
        BY <3>1 DEF TypeInv, UnsavedInv
      <4>2. QED
        BY <1>4, <4>1 DEF Restart, TypeInv, TypeOK
    <3>2. CASE ~updates
      BY <1>4, <3>2 DEF Restart, TypeInv, TypeOK
    <3>3. QED
      BY <3>1, <3>2
  <2>5. /\ {disk, dexMap, plugin}' \subseteq Names \cup {0}
        /\ plugin' = 0 /\ disk' = dexMap' /\ todo' = {} /\ ~updates'
    BY <1>4 DEF Restart, TypeInv, TypeOK
  <2>6. updates' \in BOOLEAN /\ recent' \in BOOLEAN /\ handled' \in BOOLEAN
    BY <1>4 DEF Restart
  <2>7. pc' = "main" /\ watched' = FALSE
    BY <1>4 DEF Restart
  <2>8. UNCHANGED <<setup, file, written, onDevice, rules, loose, starting, alive, used, loaded, faults, given_up>>
    BY <1>4 DEF Restart, serverVars, appVars
  <2>9. QED
    BY <2>1, <2>2, <2>3, <2>4, <2>5, <2>6, <2>7, <2>8
       DEF TypeInv, TypeOK, NamedInv, UnsavedInv, Watching, Handler
<1>5. QED
  BY <1>2, <1>3, <1>4

LEMMA HandlerKeepsTypeInv ==
  ASSUME TypeInv, Raises \/ Unload
  PROVE  TypeInv'
<1>1. MaxVersion \in Nat /\ setup.faults \in Nat
  BY DeliveryAssumption DEF TypeInv, TypeOK
<1>2. CASE Raises
  <2>1. faults' \in 0..setup'.faults
    BY <1>1, <1>2 DEF Raises, DeviceUnchanged, TypeInv, TypeOK
  <2>2. given_up' \subseteq 0..MaxVersion
    BY <1>2 DEF Raises, TypeInv, TypeOK
  <2>3. pc' = "watching" /\ todo' = {} /\ plugin # 0
    BY <1>2 DEF Raises, TypeInv, NamedInv, Watching
  <2>4. UNCHANGED <<md5, recent, events, watched, handled, setup, file, written, disk, dexMap, updates, plugin,
                    onDevice, rules, starting, alive, used, loaded, restarts, loose, forgotten>>
    BY <1>2 DEF Raises, DeviceUnchanged, configVars, serverVars, appVars
  <2>5. QED
    BY <2>1, <2>2, <2>3, <2>4 DEF TypeInv, TypeOK, EventsInv, NamedInv, UnsavedInv, Watching, Handler
<1>3. CASE Unload
  <2>1. loaded' \in [Processes -> [Names -> 0..MaxVersion]]
    <3>1. First(todo) \in Processes /\ plugin \in Names
      <4>1. First(todo) \in todo
        BY <1>3 DEF Unload, First
      <4>2. QED
        BY <1>3, <4>1, DeliveryAssumption
           DEF Unload, TypeInv, TypeOK, NamedInv, Watching, Handler
    <3>2. [loaded[First(todo)] EXCEPT ![plugin] = Missing] \in [Names -> 0..MaxVersion]
      BY <1>1, <3>1 DEF TypeInv, TypeOK, Missing
    <3>3. QED
      BY <1>3, <3>1, <3>2 DEF Unload, TypeInv, TypeOK
  <2>2. ASSUME NEW p \in Processes, p \notin alive PROVE loaded'[p] = Nothing
    <3>1. loaded[p] = Nothing
      BY <2>2 DEF TypeInv, TypeOK
    <3>2. [loaded[p] EXCEPT ![plugin] = Missing] = Nothing
      BY <3>1 DEF Nothing
    <3>3. loaded'[p] \in {loaded[p], [loaded[p] EXCEPT ![plugin] = Missing]}
      BY <1>3 DEF Unload, TypeInv, TypeOK
    <3>4. QED
      BY <3>1, <3>2, <3>3
  <2>3. pc' = "load" /\ plugin # 0
    BY <1>3 DEF Unload, TypeInv, NamedInv, Watching, Handler
  <2>4. UNCHANGED <<md5, recent, events, watched, handled, setup, file, written, disk, dexMap, updates, plugin, todo,
                    onDevice, rules, starting, alive, used, restarts, faults, given_up, loose, forgotten>>
    BY <1>3 DEF Unload, fileVars, configVars, serverVars, historyVars
  <2>5. QED
    BY <2>1, <2>2, <2>3, <2>4 DEF TypeInv, TypeOK, EventsInv, NamedInv, UnsavedInv, Watching, Handler
<1>4. QED
  BY <1>2, <1>3

LEMMA EndKeepsTypeInv ==
  ASSUME TypeInv, NEW p \in Processes, ProcessEnds(p)
  PROVE  TypeInv'
<1>1. Nothing \in [Names -> 0..MaxVersion]
  BY DeliveryAssumption DEF Nothing, Missing
<1>2. /\ loaded' \in [Processes -> [Names -> 0..MaxVersion]]
      /\ \A q \in Processes : q \notin alive' => loaded'[q] = Nothing
  BY <1>1 DEF ProcessEnds, TypeInv, TypeOK
<1>3. QED
  BY <1>2 DEF ProcessEnds, TypeInv, TypeOK, EventsInv, NamedInv, UnsavedInv, Watching, Handler, fileVars,
     configVars,
              watchVars, serverVars, historyVars

LEMMA NextTypeInv == TypeInv /\ [Next]_vars => TypeInv'
<1> SUFFICES ASSUME TypeInv, [Next]_vars PROVE TypeInv'
  OBVIOUS
<1>a. /\ Names \subseteq Nat \ {0}
      /\ MaxVersion \in Nat /\ MaxVersion > 0
      /\ setup.faults \in Nat /\ setup.restarts \in Nat /\ setup.processes \subseteq Processes
  BY DeliveryAssumption DEF TypeInv, TypeOK
<1> USE <1>a
    DEF TypeInv, TypeOK, EventsInv, NamedInv, UnsavedInv, Watching, Handler, Missing, fileVars, configVars,
        watchVars, serverVars, appVars, historyVars
<1>1. CASE Write
  BY <1>1, HostKeepsTypeInv
<1>2. CASE Remove
  BY <1>2, HostKeepsTypeInv
<1>3. CASE Register
  BY <1>3 DEF Register
<1>4. CASE PushRegistered
  BY <1>4 DEF PushRegistered
<1>5. CASE PushRegisteredFails
  BY <1>5 DEF PushRegisteredFails
<1>6. CASE AddPluginRule
  BY <1>6 DEF AddPluginRule, AddRule
<1>7. CASE LaunchWithPlugins
  BY <1>7 DEF LaunchWithPlugins
<1>8. CASE WatchPlugin
  BY <1>8 DEF WatchPlugin, AddRule
<1>9. CASE Restart
  BY <1>9, HostKeepsTypeInv
<1>10. CASE Unchanged
  BY <1>10 DEF Unchanged, Event, DeviceUnchanged
<1>11. CASE Debounced
  BY <1>11 DEF Debounced, Event, DeviceUnchanged
<1>12. CASE Accept
  <2>1. setup' \in Setups /\ file' \in 0..MaxVersion /\ written' \in 1..MaxVersion /\ md5' \in 0..MaxVersion
    BY <1>12 DEF Accept, Event, DeviceUnchanged
  <2>2. events' \in 0..2 * MaxVersion /\ EventsInv'
    BY <1>12 DEF Accept, Event, DeviceUnchanged
  <2>3. /\ {disk, dexMap, plugin}' \subseteq Names \cup {0} /\ (updates \in BOOLEAN)'
        /\ (plugin # 0 => plugin = dexMap)' /\ (~updates => disk = dexMap)' /\ UnsavedInv'
    BY <1>12 DEF Accept, Event, DeviceUnchanged
  <2>4. /\ (pc \in {"main", "named", "noted"} \cup Watching)' /\ (recent \in BOOLEAN)' /\ NamedInv'
        /\ (watched \in BOOLEAN)' /\ (watched => pc \in Watching)'
    BY <1>12 DEF Accept, Event, DeviceUnchanged
  <2>5. /\ (onDevice \in [Names -> 0..MaxVersion])'
        /\ (rules \subseteq Names /\ loose \subseteq rules /\ forgotten \subseteq Names)'
    BY <1>12 DEF Accept, Event, DeviceUnchanged
  <2>6. (starting \subseteq alive /\ alive \subseteq used /\ used \subseteq setup.processes /\ todo \subseteq used)'
    BY <1>12 DEF Accept, Event, DeviceUnchanged
  <2>7. /\ (loaded \in [Processes -> [Names -> 0..MaxVersion]])'
        /\ (\A q \in Processes : q \notin alive => loaded[q] = Nothing)'
    BY <1>12 DEF Accept, Event, DeviceUnchanged
  <2>8. /\ (faults \in 0..setup.faults /\ restarts \in 0..setup.restarts)'
        /\ (given_up \subseteq 0..MaxVersion /\ handled \in BOOLEAN)'
    BY <1>12 DEF Accept, Event, DeviceUnchanged
  <2>9. QED
    BY <2>1, <2>2, <2>3, <2>4, <2>5, <2>6, <2>7, <2>8
<1>13. CASE Elapse
  BY <1>13 DEF Elapse, DeviceUnchanged
<1>14. CASE Push
  <2>1. setup' \in Setups /\ file' \in 0..MaxVersion /\ written' \in 1..MaxVersion /\ md5' \in 0..MaxVersion
    BY <1>14 DEF Push, Pushed
  <2>2. events' \in 0..2 * MaxVersion /\ EventsInv'
    BY <1>14 DEF Push, Pushed
  <2>3. /\ {disk, dexMap, plugin}' \subseteq Names \cup {0} /\ (updates \in BOOLEAN)'
        /\ (plugin # 0 => plugin = dexMap)' /\ (~updates => disk = dexMap)' /\ UnsavedInv'
    BY <1>14 DEF Push, Pushed
  <2>4. /\ (pc \in {"main", "named", "noted"} \cup Watching)' /\ (recent \in BOOLEAN)' /\ NamedInv'
        /\ (watched \in BOOLEAN)' /\ (watched => pc \in Watching)'
    BY <1>14 DEF Push, Pushed
  <2>5. /\ (onDevice \in [Names -> 0..MaxVersion])'
        /\ (rules \subseteq Names /\ loose \subseteq rules /\ forgotten \subseteq Names)'
    BY <1>14 DEF Push, Pushed
  <2>6. (starting \subseteq alive /\ alive \subseteq used /\ used \subseteq setup.processes /\ todo \subseteq used)'
    BY <1>14 DEF Push, Pushed
  <2>7. /\ (loaded \in [Processes -> [Names -> 0..MaxVersion]])'
        /\ (\A q \in Processes : q \notin alive => loaded[q] = Nothing)'
    BY <1>14 DEF Push, Pushed
  <2>8. /\ (faults \in 0..setup.faults /\ restarts \in 0..setup.restarts)'
        /\ (given_up \subseteq 0..MaxVersion /\ handled \in BOOLEAN)'
    BY <1>14 DEF Push, Pushed
  <2>9. QED
    BY <2>1, <2>2, <2>3, <2>4, <2>5, <2>6, <2>7, <2>8
<1>15. CASE Copy
  BY <1>15 DEF Copy, Pushed
<1>16. CASE CopyFails
  BY <1>16 DEF CopyFails, Pushed, DeviceUnchanged
<1>17. CASE Raises
  BY <1>17, HandlerKeepsTypeInv
<1>18. CASE StopApp
  BY <1>18 DEF StopApp, Nothing
<1>19. CASE StartApp
  BY <1>19 DEF StartApp, Done, Started, Fresh
<1>20. CASE AttachAgain
  BY <1>20 DEF AttachAgain, DeviceUnchanged
<1>21. CASE List
  BY <1>21 DEF List, DeviceUnchanged
<1>22. CASE Unload
  BY <1>22, HandlerKeepsTypeInv
<1>23. CASE Load
  BY <1>23 DEF Load
<1>24. CASE AllLoaded
  BY <1>24 DEF AllLoaded, Done
<1>25. CASE ProcessStarts
  BY <1>25 DEF ProcessStarts, Started, Fresh
<1>26. ASSUME NEW p \in Processes, RuleLoads(p) PROVE TypeInv'
  BY <1>26 DEF RuleLoads, Nothing
<1>27. ASSUME NEW p \in Processes, ProcessEnds(p) PROVE TypeInv'
  BY <1>27, EndKeepsTypeInv
<1>28. CASE StartWatching
  BY <1>28 DEF StartWatching
<1>29. CASE OtherPath
  BY <1>29 DEF OtherPath, DeviceUnchanged
<1>30. CASE ListNew
  BY <1>30 DEF ListNew, DeviceUnchanged
<1>31. CASE UNCHANGED vars
  BY <1>31 DEF vars
<1>32. QED
  BY <1>1, <1>2, <1>3, <1>4, <1>5, <1>6, <1>7, <1>8, <1>9, <1>10, <1>11, <1>12, <1>13, <1>14, <1>15, <1>16,
     <1>17, <1>18, <1>19, <1>20, <1>21, <1>22, <1>23, <1>24, <1>25, <1>26, <1>27, <1>28, <1>29, <1>30,
     <1>31 DEF Next, Program, HandlerStep, App

\* TypeOK, for any number of versions, processes and starts of the program.
THEOREM DeliveryTypes == Spec => []TypeOK
<1>1. TypeInv => TypeOK
  BY DEF TypeInv
<1>2. QED
  BY InitTypeInv, NextTypeInv, <1>1, PTL DEF Spec

-----------------------------------------------------------------------------
(* Names.                                                                  *)

\* The steps that have to do with names; the others leave them alone.
Naming == Register \/ AddPluginRule \/ LaunchWithPlugins \/ WatchPlugin \/ Restart

LEMMA OthersLeaveNames ==
  ASSUME [Next]_vars, ~Naming
  PROVE  UNCHANGED <<disk, dexMap, updates, rules, loose, forgotten>>
<1> USE DEF configVars, serverVars, historyVars, DeviceUnchanged
<1>1. CASE Write \/ Remove \/ PushRegistered \/ PushRegisteredFails \/ StartWatching
  BY <1>1 DEF Write, Remove, PushRegistered, PushRegisteredFails, StartWatching
<1>2. CASE OtherPath \/ Unchanged \/ Debounced \/ Accept \/ Elapse \/ CopyFails \/ Raises \/ AttachAgain \/ List \/ ListNew
  BY <1>2 DEF OtherPath, Unchanged, Debounced, Accept, Elapse, CopyFails, Raises, AttachAgain, List, ListNew
<1>3. CASE Push \/ Copy \/ StopApp \/ StartApp \/ Unload \/ Load \/ AllLoaded
  BY <1>3 DEF Push, Copy, StopApp, StartApp, Unload, Load, AllLoaded
<1>4. CASE App
  BY <1>4 DEF App, ProcessStarts, RuleLoads, ProcessEnds
<1>5. CASE UNCHANGED vars
  BY <1>5 DEF vars
<1>6. QED
  BY <1>1, <1>2, <1>3, <1>4, <1>5 DEF Next, Program, HandlerStep, Naming

LEMMA NextRulesKeepTheirName ==
  ASSUME TypeInv, RulesKeepTheirName, [Next]_vars
  PROVE  RulesKeepTheirName'
<1>a. Names \subseteq Nat \ {0} /\ rules \subseteq Names
  BY DeliveryAssumption DEF TypeInv, TypeOK
<1>b. ASSUME AddRule, plugin # 0, UNCHANGED dexMap PROVE RulesKeepTheirName'
  <2>1. CASE updates
    <3>1. rules \ loose = {}
      BY <1>a, <2>1 DEF TypeInv, UnsavedInv, RulesKeepTheirName
    <3>2. rules' \ loose' \subseteq {plugin} /\ disk' = dexMap
      BY <1>b, <2>1, <3>1 DEF AddRule
    <3>3. QED
      BY <1>b, <3>2 DEF TypeInv, TypeOK, RulesKeepTheirName
  <2>2. CASE ~updates
    <3>1. disk' = disk /\ disk = plugin
      BY <1>b, <2>2 DEF AddRule, TypeInv, TypeOK
    <3>2. rules' \ loose' \subseteq (rules \ loose) \cup {plugin}
      BY <1>b DEF AddRule
    <3>3. QED
      BY <3>1, <3>2 DEF RulesKeepTheirName
  <2>3. QED
    BY <2>1, <2>2
<1>1. CASE Register
  BY <1>1 DEF Register, RulesKeepTheirName, serverVars, historyVars
<1>2. CASE AddPluginRule
  BY <1>2, <1>b DEF AddPluginRule
<1>3. CASE LaunchWithPlugins
  <2>1. disk' = disk /\ rules' = rules \cup {plugin}
    BY <1>3 DEF LaunchWithPlugins, configVars
  <2>2. CASE updates
    <3>1. rules' \ loose' \subseteq rules \ loose
      BY <1>3, <2>2 DEF LaunchWithPlugins
    <3>2. QED
      BY <2>1, <3>1 DEF RulesKeepTheirName
  <2>3. CASE ~updates
    <3>1. disk = plugin /\ loose' = loose
      BY <1>3, <2>3 DEF LaunchWithPlugins, TypeInv, TypeOK
    <3>2. QED
      BY <2>1, <3>1 DEF RulesKeepTheirName
  <2>4. QED
    BY <2>2, <2>3
<1>4. CASE WatchPlugin
  BY <1>4, <1>b DEF WatchPlugin, RulesKeepTheirName
<1>5. CASE Restart
  BY <1>5 DEF Restart, RulesKeepTheirName, serverVars
<1>6. CASE ~Naming
  BY <1>6, OthersLeaveNames DEF RulesKeepTheirName
<1>7. QED
  BY <1>1, <1>2, <1>3, <1>4, <1>5, <1>6 DEF Naming

\* A rule outlives the program that made it, and keeps the name the next one
\* uses, however often the program ends and whatever fails: flush_config comes
\* before the first rule, and only the launch functions leave it out.
THEOREM RulesAreFoundAgain == Spec => []RulesKeepTheirName
<1>1. Init => RulesKeepTheirName
  BY DEF Init, RulesKeepTheirName
<1>2. TypeInv /\ RulesKeepTheirName /\ [Next]_vars => RulesKeepTheirName'
  BY NextRulesKeepTheirName
<1>3. QED
  BY InitTypeInv, NextTypeInv, <1>1, <1>2, PTL DEF Spec

\* What the apps hold changes only when they are stopped, loaded into or end.
Loading == StopApp \/ Unload \/ Load \/ \E p \in Processes : RuleLoads(p) \/ ProcessEnds(p)

LEMMA OthersLeaveLoaded ==
  ASSUME [Next]_vars, ~Loading
  PROVE  loaded' = loaded
<1> USE DEF appVars, DeviceUnchanged
<1>1. CASE Write \/ Remove \/ Program \/ Restart
  BY <1>1 DEF Write, Remove, Program, Register, PushRegistered, PushRegisteredFails, AddPluginRule,
              LaunchWithPlugins, WatchPlugin, StartWatching, Restart
<1>2. CASE OtherPath \/ Unchanged \/ Debounced \/ Accept \/ Elapse \/ CopyFails \/ Raises \/ AttachAgain \/ List \/ ListNew
  BY <1>2 DEF OtherPath, Unchanged, Debounced, Accept, Elapse, CopyFails, Raises, AttachAgain, List, ListNew
<1>3. CASE Push \/ Copy \/ StartApp \/ AllLoaded \/ ProcessStarts
  BY <1>3 DEF Push, Copy, StartApp, AllLoaded, ProcessStarts, Started
<1>4. CASE UNCHANGED vars
  BY <1>4 DEF vars
<1>5. QED
  BY <1>1, <1>2, <1>3, <1>4 DEF Next, HandlerStep, App, Loading

\* What may be loaded: the file under a name of a rule or of the plugin.
LEMMA LoadedIsKnown ==
  ASSUME TypeInv, KnownInv, Loading,
         NEW p \in Processes, NEW n \in Names, loaded'[p][n] # Missing
  PROVE  n \in Known
<1> USE DEF TypeInv, TypeOK, KnownInv, Nothing
<1>1. CASE StopApp
  BY <1>1 DEF StopApp
<1>2. CASE Unload
  BY <1>2 DEF Unload
<1>3. CASE Load
  <2>1. plugin = dexMap
    BY <1>3 DEF Load, NamedInv, Watching, Handler
  <2>2. CASE n = plugin
    BY <2>1, <2>2 DEF Known
  <2>3. CASE n # plugin
    <3>1. loaded'[p][n] = loaded[p][n]
      BY <1>3, <2>3 DEF Load
    <3>2. QED
      BY <3>1 DEF KnownInv
  <2>4. QED
    BY <2>2, <2>3
<1>4. ASSUME NEW q \in Processes, RuleLoads(q) PROVE n \in Known
  BY <1>4 DEF RuleLoads
<1>5. ASSUME NEW q \in Processes, ProcessEnds(q) PROVE n \in Known
  BY <1>5 DEF ProcessEnds
<1>6. QED
  BY <1>1, <1>2, <1>3, <1>4, <1>5 DEF Loading

LEMMA NextKnownInv ==
  ASSUME TypeInv, KnownInv, [Next]_vars
  PROVE  KnownInv'
<1>1. CASE Naming
  <2>1. loaded' = loaded
    BY <1>1 DEF Naming, Register, AddPluginRule, LaunchWithPlugins, WatchPlugin, Restart, appVars
  <2>2. rules' \subseteq Known' /\ Known \cap Names \subseteq Known'
    <3>1. CASE Register
      <4>1. rules' = rules /\ forgotten' = forgotten /\ (dexMap = 0 \/ dexMap' = dexMap)
        BY <3>1 DEF Register, serverVars, historyVars
      <4>2. 0 \notin Names /\ rules \subseteq Names
        BY DeliveryAssumption DEF TypeInv, TypeOK
      <4>3. QED
        BY <4>1, <4>2 DEF Known, KnownInv
    <3>2. CASE AddPluginRule \/ LaunchWithPlugins \/ WatchPlugin
      BY <3>2 DEF AddPluginRule, LaunchWithPlugins, WatchPlugin, AddRule, configVars, Known, KnownInv,
         TypeInv, TypeOK
    <3>3. CASE Restart
      BY <3>3 DEF Restart, serverVars, Known, KnownInv, TypeInv, TypeOK
    <3>4. QED
      BY <1>1, <3>1, <3>2, <3>3 DEF Naming
  <2>3. QED
    BY <2>1, <2>2 DEF KnownInv
<1>2. CASE ~Naming
  <2>1. rules' = rules /\ Known' = Known
    BY <1>2, OthersLeaveNames DEF Known
  <2>2. ASSUME NEW p \in Processes, NEW n \in Names, loaded'[p][n] # Missing PROVE n \in Known
    <3>1. CASE Loading
      BY <2>2, <3>1, LoadedIsKnown
    <3>2. CASE ~Loading
      BY <2>2, <3>2, OthersLeaveLoaded DEF KnownInv
    <3>3. QED
      BY <3>1, <3>2
  <2>3. QED
    BY <2>1, <2>2 DEF KnownInv
<1>3. QED
  BY <1>1, <1>2

-----------------------------------------------------------------------------
(* A change replaces what was running.                                     *)

\* Outside of the reload there is nothing to show.
LEMMA NotReloading ==
  ASSUME handled' => pc' = "watching", ~handled',
         pc' \notin {"start", "attach", "list new", "load new", "unload", "load"}
  PROVE  ReloadInv'
BY DEF ReloadInv

LEMMA IdleKeepsReloadInv ==
  ASSUME TypeInv, ReloadInv,
         Program \/ Restart \/ Accept \/ Push \/ Copy \/ CopyFails \/ Raises \/ AttachAgain
  PROVE  ReloadInv'
<1> USE DEF ReloadInv, DeviceUnchanged, historyVars, Pushed
<1>1. /\ ~handled'
      /\ pc' \notin {"start", "attach", "list new", "load new", "unload", "load"}
  <2>1. CASE Program
    <3>1. pc # "watching" /\ handled' = handled /\ pc' \in {"main", "named", "noted", "watching"}
      <4>1. CASE Register \/ PushRegistered
        BY <4>1 DEF Register, PushRegistered
      <4>2. CASE PushRegisteredFails
        BY <4>2 DEF PushRegisteredFails
      <4>3. CASE AddPluginRule \/ LaunchWithPlugins
        BY <4>3 DEF AddPluginRule, LaunchWithPlugins, watchVars
      <4>4. CASE WatchPlugin
        BY <4>4 DEF WatchPlugin
      <4>5. CASE StartWatching
        BY <4>5 DEF StartWatching
      <4>6. QED
        BY <2>1, <4>1, <4>2, <4>3, <4>4, <4>5 DEF Program
    <3>2. QED
      BY <3>1
  <2>2. CASE Restart \/ Accept
    BY <2>2 DEF Restart, Accept
  <2>3. CASE Push
    BY <2>3 DEF Push
  <2>4. CASE Copy \/ CopyFails
    <3>1. pc = "copy" /\ handled' = handled /\ pc' \in {"stop", "list"}
      BY <2>4 DEF Copy, CopyFails
    <3>2. QED
      BY <3>1
  <2>5. CASE Raises \/ AttachAgain
    <3>1. pc # "watching" /\ handled' = handled /\ pc' = "watching"
      BY <2>5 DEF Raises, AttachAgain, Handler
    <3>2. QED
      BY <3>1
  <2>6. QED
    BY <2>1, <2>2, <2>3, <2>4, <2>5
<1>2. QED
  BY <1>1, NotReloading

LEMMA AsideKeepsReloadInv ==
  ASSUME ReloadInv,
         Write \/ Remove \/ OtherPath \/ Unchanged \/ Debounced \/ Elapse \/ UNCHANGED vars
  PROVE  ReloadInv'
<1>1. UNCHANGED <<plugin, pc, todo, serverVars, appVars, handled>>
  BY DEF Write, Remove, OtherPath, Unchanged, Debounced, Elapse, vars, DeviceUnchanged, configVars,
     watchVars, historyVars
<1>2. QED
  BY <1>1 DEF ReloadInv, Fine, Runs, Waits, serverVars, appVars

LEMMA FirstIn == ASSUME NEW S, S # {} PROVE First(S) \in S
BY DEF First

LEMMA ReloadKeepsReloadInv ==
  ASSUME TypeInv, ReloadInv, StopApp \/ StartApp \/ List \/ ListNew \/ Unload \/ Load \/ AllLoaded
  PROVE  ReloadInv'
<1>a. /\ onDevice' = onDevice /\ rules' = rules /\ plugin' = plugin
      /\ alive \subseteq used /\ todo \subseteq used /\ used \subseteq Processes
      /\ loaded \in [Processes -> [Names -> 0..MaxVersion]]
      /\ \A p \in Processes : p \notin alive => loaded[p] = Nothing
      /\ plugin \in Names
  BY DeliveryAssumption
     DEF StopApp, StartApp, List, ListNew, Unload, Load, AllLoaded, DeviceUnchanged, configVars, serverVars,
         TypeInv, TypeOK, NamedInv, Watching, Handler
<1>1. CASE StopApp
  BY <1>1 DEF StopApp, ReloadInv, historyVars
<1>2. CASE StartApp
  <2>1. ~handled /\ \A p \in alive : Fine(p)
    BY <1>2 DEF StartApp, ReloadInv
  <2>2. loaded' = loaded /\ starting \subseteq starting'
    BY <1>2 DEF StartApp, Started, appVars
  <2>3. ASSUME NEW p \in alive' PROVE Fine(p)'
    <3>1. CASE p \in alive
      <4>1. Fine(p)
        BY <2>1, <3>1
      <4>2. QED
        BY <1>a, <2>2, <4>1 DEF Fine, Runs, Waits
    <3>2. CASE p \notin alive
      <4>1. p \in starting' /\ p \in Processes
        BY <1>2, <2>3, <3>2, DeliveryAssumption DEF StartApp, Started, Fresh, appVars, TypeInv, TypeOK
      <4>2. loaded[p][plugin] = Missing
        BY <1>a, <3>2, <4>1 DEF Nothing
      <4>3. QED
        BY <1>a, <2>2, <4>1, <4>2 DEF Fine, Waits
    <3>3. QED
      BY <3>1, <3>2
  <2>4. pc' \in {"list new", "attach", "watching"} /\ (handled' => pc' = "watching")
    BY <1>2, <2>1 DEF StartApp, Done
  <2>5. QED
    BY <2>3, <2>4 DEF ReloadInv
<1>3. CASE List
  BY <1>3 DEF List, ReloadInv, DeviceUnchanged, appVars
<1>4. CASE Unload
  <2>1. /\ pc = "unload" /\ pc' = "load" /\ todo # {} /\ todo' = todo /\ alive' = alive
        /\ starting' = starting /\ handled' = handled
        /\ loaded' = [loaded EXCEPT ![First(todo)][plugin] = Missing]
    BY <1>4 DEF Unload, historyVars
  <2>2. First(todo) \in todo /\ First(todo) \in Processes
    BY <1>a, <2>1, FirstIn
  <2>3. loaded'[First(todo)][plugin] = Missing
    BY <1>a, <2>1, <2>2
  <2>4. ASSUME NEW p \in alive \ todo PROVE Fine(p)'
    <3>1. Fine(p) /\ loaded'[p] = loaded[p]
      BY <1>a, <2>1, <2>2 DEF ReloadInv
    <3>2. QED
      BY <1>a, <2>1, <3>1 DEF Fine, Runs, Waits
  <2>5. QED
    BY <1>a, <2>1, <2>3, <2>4 DEF ReloadInv
<1>5. CASE Load
  <2>0. PICK p : p = First(todo)
    OBVIOUS
  <2>1. /\ pc \in {"load", "load new"} /\ pc' = (IF pc = "load" THEN "unload" ELSE pc)
        /\ todo # {} /\ todo' = todo \ {p} /\ alive' = alive
        /\ starting' = starting /\ handled' = handled
        /\ loaded' = [loaded EXCEPT ![p][plugin] = IF @ = Missing /\ p \in alive THEN onDevice[plugin] ELSE @]
    BY <1>5, <2>0 DEF Load, historyVars
  <2>2. p \in todo /\ p \in Processes
    BY <1>a, <2>0, <2>1, FirstIn
  <2>3. ASSUME p \in alive PROVE Fine(p)'
    <3>1. loaded'[p][plugin] = IF loaded[p][plugin] = Missing THEN onDevice[plugin] ELSE loaded[p][plugin]
      BY <1>a, <2>1, <2>2, <2>3
    <3>2. CASE loaded[p][plugin] = Missing
      BY <1>a, <3>1, <3>2 DEF Fine, Runs
    <3>3. CASE loaded[p][plugin] # Missing
      <4>1. loaded[p][plugin] = onDevice[plugin]
        BY <2>0, <2>1, <2>3, <3>3 DEF ReloadInv, Fine, Runs, Waits
      <4>2. QED
        BY <1>a, <3>1, <3>3, <4>1 DEF Fine, Runs
    <3>4. QED
      BY <3>2, <3>3
  <2>4. ASSUME NEW q \in alive, q # p, q \notin todo \/ pc = "load new" PROVE Fine(q)'
    <3>1. Fine(q) /\ loaded'[q] = loaded[q]
      BY <1>a, <2>1, <2>2, <2>4 DEF ReloadInv
    <3>2. QED
      BY <1>a, <2>1, <3>1 DEF Fine, Runs, Waits
  <2>5. ~handled'
    BY <2>1 DEF ReloadInv
  <2>6. CASE pc = "load"
    <3>1. \A q \in alive' \ todo' : Fine(q)'
      BY <2>1, <2>3, <2>4
    <3>2. QED
      BY <2>1, <2>5, <2>6, <3>1 DEF ReloadInv
  <2>7. CASE pc = "load new"
    <3>1. \A q \in alive' : Fine(q)'
      BY <2>1, <2>3, <2>4, <2>7
    <3>2. QED
      BY <2>1, <2>5, <2>7, <3>1 DEF ReloadInv
  <2>8. QED
    BY <2>1, <2>6, <2>7
<1>6. CASE AllLoaded
  <2>1. /\ \A p \in alive : Fine(p)
        /\ pc' = "watching"
        /\ UNCHANGED appVars
    BY <1>6 DEF AllLoaded, ReloadInv, Done
  <2>2. \A p \in alive' : Fine(p)'
    BY <1>a, <2>1 DEF Fine, Runs, Waits, appVars
  <2>3. QED
    BY <2>1, <2>2 DEF ReloadInv
<1>7. CASE ListNew
  <2>1. /\ pc = "list new" /\ pc' = "load new" /\ handled' = handled
        /\ \A p \in alive : Fine(p)
        /\ UNCHANGED appVars
    BY <1>7 DEF ListNew, ReloadInv, DeviceUnchanged
  <2>2. \A p \in alive' : Fine(p)'
    BY <1>a, <2>1 DEF Fine, Runs, Waits, appVars
  <2>3. QED
    BY <2>1, <2>2 DEF ReloadInv
<1>8. QED
  BY <1>1, <1>2, <1>3, <1>4, <1>5, <1>6, <1>7

LEMMA AppKeepsReloadInv ==
  ASSUME TypeInv, ReloadInv, App
  PROVE  ReloadInv'
<1>a. /\ onDevice' = onDevice /\ rules' = rules /\ plugin' = plugin /\ pc' = pc /\ todo' = todo
      /\ handled' = handled
      /\ alive \subseteq used /\ todo \subseteq used /\ used \subseteq Processes /\ starting \subseteq alive
      /\ loaded \in [Processes -> [Names -> 0..MaxVersion]]
      /\ \A p \in Processes : p \notin alive => loaded[p] = Nothing
      /\ setup.processes \subseteq Processes
  BY DeliveryAssumption
     DEF App, ProcessStarts, RuleLoads, ProcessEnds, configVars, serverVars, watchVars, historyVars, TypeInv, TypeOK
\* Each process that runs after the step is at least as fine as it was.
<1>b. ASSUME \A p \in alive' : p \in alive /\ Fine(p) => Fine(p)',
             \A p \in alive' : p \notin alive => Fine(p)' /\ p \notin used,
             todo # {} => loaded'[First(todo)][plugin] \in {loaded[First(todo)][plugin], Missing, onDevice[plugin]}
      PROVE  ReloadInv'
  <2>1. ASSUME NEW p \in alive', p \in alive => Fine(p) PROVE Fine(p)'
    BY <1>b, <2>1
  <2>2. ASSUME handled' \/ pc' \in {"start", "attach", "list new", "load new"} PROVE \A p \in alive' : Fine(p)'
    <3>1. \A p \in alive : Fine(p)
      BY <1>a, <2>2 DEF ReloadInv
    <3>2. QED
      BY <2>1, <3>1
  <2>3. ASSUME pc' \in {"unload", "load"} PROVE \A p \in alive' \ todo' : Fine(p)'
    <3>1. \A p \in alive \ todo : Fine(p)
      BY <1>a, <2>3 DEF ReloadInv
    <3>2. QED
      BY <1>a, <2>1, <3>1
  <2>4. pc' = "load" => /\ todo' # {}
                        /\ loaded'[First(todo')][plugin'] \in {Missing, onDevice'[plugin']}
    BY <1>a, <1>b DEF ReloadInv
  <2>5. QED
    BY <1>a, <2>2, <2>3, <2>4 DEF ReloadInv
<1>c. CASE plugin = 0
  BY <1>a, <1>c DEF TypeInv, NamedInv, Watching, Handler, ReloadInv
<1>d. plugin # 0 => plugin \in Names
  BY DEF TypeInv, TypeOK
<1>e. todo # {} => First(todo) \in Processes
  BY <1>a, FirstIn
<1>1. CASE ProcessStarts
  <2>1. PICK p \in Fresh : Started(p)
    BY <1>1 DEF ProcessStarts
  <2>2. /\ loaded' = loaded /\ alive' = alive \cup {p} /\ starting' = starting \cup {p}
        /\ p \notin used /\ p \in Processes
    BY <1>a, <2>1 DEF Started, Fresh
  <2>3. ASSUME NEW q \in alive, Fine(q) PROVE Fine(q)'
    BY <1>a, <2>2, <2>3 DEF Fine, Runs, Waits
  <2>4. ASSUME plugin # 0 PROVE Fine(p)'
    <3>1. loaded[p][plugin] = Missing
      BY <1>a, <1>d, <2>2, <2>4 DEF Nothing
    <3>2. QED
      BY <1>a, <2>2, <3>1 DEF Fine, Waits
  <2>5. todo # {} => loaded'[First(todo)][plugin] = loaded[First(todo)][plugin]
    BY <2>2
  <2>6. ASSUME plugin # 0 PROVE ReloadInv'
    <3>1. \A q \in alive' : q \notin alive => Fine(q)' /\ q \notin used
      BY <2>2, <2>4, <2>6
    <3>2. \A q \in alive' : q \in alive /\ Fine(q) => Fine(q)'
      BY <2>3
    <3>3. QED
      BY <1>b, <2>5, <3>1, <3>2
  <2>7. QED
    BY <1>c, <2>6
<1>2. ASSUME NEW p \in Processes, RuleLoads(p), plugin # 0 PROVE ReloadInv'
  <2>1. /\ p \in starting /\ starting' = starting \ {p} /\ alive' = alive
        /\ \A q \in Processes : q # p => loaded'[q] = loaded[q]
        /\ loaded'[p][plugin] = IF plugin \in rules /\ loaded[p][plugin] = Missing
                               THEN onDevice[plugin] ELSE loaded[p][plugin]
    BY <1>a, <1>d, <1>2 DEF RuleLoads
  <2>2. ASSUME NEW q \in alive, Fine(q) PROVE Fine(q)'
    <3>1. CASE q # p
      <4>1. loaded'[q] = loaded[q] /\ (q \in starting => q \in starting')
        BY <1>a, <2>1, <3>1
      <4>2. QED
        BY <1>a, <2>2, <4>1 DEF Fine, Runs, Waits
    <3>2. CASE q = p
      BY <1>a, <2>1, <2>2, <3>2 DEF Fine, Runs, Waits
    <3>3. QED
      BY <3>1, <3>2
  <2>3. todo # {} => loaded'[First(todo)][plugin] \in {loaded[First(todo)][plugin], onDevice[plugin]}
    BY <1>e, <2>1
  <2>4. QED
    BY <1>b, <2>1, <2>2, <2>3
<1>3. ASSUME NEW p \in Processes, ProcessEnds(p), plugin # 0 PROVE ReloadInv'
  <2>1. /\ starting' = starting \ {p} /\ alive' = alive \ {p}
        /\ \A q \in Processes : q # p => loaded'[q] = loaded[q]
        /\ loaded'[p][plugin] = Missing
    BY <1>a, <1>d, <1>3 DEF ProcessEnds, Nothing
  <2>2. ASSUME NEW q \in alive', Fine(q) PROVE Fine(q)'
    <3>1. loaded'[q] = loaded[q] /\ (q \in starting => q \in starting')
      BY <1>a, <2>1
    <3>2. QED
      BY <1>a, <2>2, <3>1 DEF Fine, Runs, Waits
  <2>3. todo # {} => loaded'[First(todo)][plugin] \in {loaded[First(todo)][plugin], Missing}
    BY <1>e, <2>1
  <2>4. QED
    BY <1>b, <2>1, <2>2, <2>3
<1>4. QED
  BY <1>1, <1>2, <1>3, <1>c DEF App

LEMMA NextReloadInv == TypeInv /\ ReloadInv /\ [Next]_vars => ReloadInv'
BY IdleKeepsReloadInv, AsideKeepsReloadInv, ReloadKeepsReloadInv, AppKeepsReloadInv DEF Next, HandlerStep

\* When the watcher has gone through a change, whatever processes came up, ended
\* or were loaded into by a rule meanwhile, and even if the push went wrong
\* unnoticed: all run what is on the device now, and none a second copy under a
\* name that was in the configuration when the program last ended.
THEOREM ChangeReplacesEveryCopy == Spec => []NothingOldKeepsRunning
<1>1. Init => KnownInv /\ ReloadInv
  BY DEF Init, KnownInv, ReloadInv, Nothing
<1>2. TypeInv /\ KnownInv /\ ReloadInv => NothingOldKeepsRunning
  <2> SUFFICES ASSUME TypeInv, KnownInv, ReloadInv, pc = "watching", handled, NEW p \in alive
               PROVE  /\ Fine(p)
                      /\ \A n \in Names \ ({plugin} \cup forgotten) : loaded[p][n] = Missing
    BY DEF NothingOldKeepsRunning, Fine
  <2>1. Fine(p)
    BY DEF ReloadInv
  <2>2. plugin = dexMap /\ p \in Processes
    BY DeliveryAssumption DEF TypeInv, TypeOK, NamedInv, Watching
  <2>3. QED
    BY <2>1, <2>2 DEF KnownInv, Known
<1>3. TypeInv /\ KnownInv /\ [Next]_vars => KnownInv'
  BY NextKnownInv
<1>4. QED
  BY InitTypeInv, NextTypeInv, NextReloadInv, <1>1, <1>2, <1>3, PTL DEF Spec
=============================================================================
