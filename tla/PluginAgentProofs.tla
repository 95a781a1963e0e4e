-------------------------- MODULE PluginAgentProofs --------------------------
(***************************************************************************)
(* Plugins in an app, for any files, classes, prefixes, configurations and *)
(* requests, with or without exceptions of plugins: the types, the         *)
(* configuration a plugin works with, its class loader, and the order of   *)
(* its callbacks.                                                          *)
(***************************************************************************)
EXTENDS PluginAgent, SequenceTheorems, TLAPS

-----------------------------------------------------------------------------
(* The life cycle and the types.                                           *)

Events == {"load", "beforeMake", "beforeNew", "afterNew", "beforeCreate", "onCreate", "afterCreate"}

LEMMA EventsOfLifeCycle == Range(LifeCycle) = Events
BY DEF Range, LifeCycle, Events

LEMMA Ranks ==
  /\ Rank("load") = 1 /\ Rank("beforeMake") = 2 /\ Rank("beforeNew") = 3 /\ Rank("afterNew") = 4
  /\ Rank("beforeCreate") = 5 /\ Rank("onCreate") = 6 /\ Rank("afterCreate") = 7
<1>1. DOMAIN LifeCycle = 1..7
  BY DEF LifeCycle
<1>2. /\ LifeCycle[1] = "load" /\ LifeCycle[2] = "beforeMake" /\ LifeCycle[3] = "beforeNew"
      /\ LifeCycle[4] = "afterNew" /\ LifeCycle[5] = "beforeCreate" /\ LifeCycle[6] = "onCreate"
      /\ LifeCycle[7] = "afterCreate"
  BY DEF LifeCycle
<1>3. \A e \in Events : \A i \in 1..7 : LifeCycle[i] = e => Rank(e) = i
  <2>1. \A i, j \in 1..7 : LifeCycle[i] = LifeCycle[j] => i = j
    BY <1>2
  <2>2. QED
    BY <1>1, <2>1 DEF Rank
<1>4. QED
  BY <1>2, <1>3 DEF Events

LEMMA WorkKinds ==
  ASSUME TypeOK
  PROVE  /\ work.op \in {"idle", "added", "calling", "init"}
         /\ work.op \in {"added", "calling"} => work.plugin \in Plugins
         /\ work.op = "calling" => work.next \in 1..4 /\ work = [op |-> "calling", plugin |-> work.plugin, next |-> work.next]
         /\ work.op = "init" => work.left \subseteq Plugins /\ work = [op |-> "init", left |-> work.left]
         /\ work = Idle => work.op = "idle"
<1>1. DOMAIN AttachCallbacks = 1..4
  BY DEF AttachCallbacks
<1>2. QED
  BY <1>1 DEF TypeOK, Idle

LEMMA InitTypes == Init => TypeOK
<1> SUFFICES ASSUME Init PROVE TypeOK
  OBVIOUS
<1>1. AnyConfig \in Configs
  BY AgentAssumption DEF AnyConfig
<1>2. setup.requests \in Nat /\ requests \in 0..setup.requests
  BY AgentAssumption DEF Init
<1>3. /\ current \in BOOLEAN /\ created \in BOOLEAN
      /\ main \in {"start", "finished"}
  BY DEF Init
<1>4. <<>> \in Seq(Range(LifeCycle))
  OBVIOUS
<1>5. QED
  BY <1>1, <1>2, <1>3, <1>4 DEF Init, TypeOK, Loops

LEMMA LoadFailedTypes ==
  ASSUME TypeOK, NEW p \in Plugins, LoadFailed(p)
  PROVE  /\ enable' \in [Plugins -> BOOLEAN]
         /\ parsed' \in [Plugins -> Configs \cup {Null, Unparsed}]
         /\ UNCHANGED <<config, calls, since>>
<1>1. /\ enable' = [enable EXCEPT ![p] = TRUE] \/ enable' = [enable EXCEPT ![p] = FALSE]
      /\ parsed' \in {parsed, [parsed EXCEPT ![p] = config[p]]}
      /\ UNCHANGED <<config, calls, since>>
  BY DEF LoadFailed
<1>2. QED
  BY <1>1 DEF TypeOK

LEMMA RunOnCreateTypes ==
  ASSUME TypeOK, RunOnCreate \/ UNCHANGED <<created, pluginVars>>
  PROVE  calls' \in [Plugins -> Seq(Range(LifeCycle))] /\ created' \in BOOLEAN
<1>1. "onCreate" \in Range(LifeCycle)
  BY EventsOfLifeCycle DEF Events
<1>2. CASE RunOnCreate
  <2>1. \A p \in Plugins : Append(calls[p], "onCreate") \in Seq(Range(LifeCycle))
    BY <1>1 DEF TypeOK
  <2>2. QED
    BY <1>2, <2>1 DEF RunOnCreate, TypeOK
<1>3. CASE UNCHANGED <<created, pluginVars>>
  BY <1>3 DEF TypeOK, pluginVars
<1>4. QED
  BY <1>2, <1>3

\* The injector thread.
LEMMA InjectorTypes ==
  ASSUME TypeOK, Injector
  PROVE  TypeOK'
<1>a. /\ setup.requests \in Nat /\ setup.configs \subseteq Configs
      /\ AnyConfig \in Configs
      /\ {"load", "beforeMake", "onCreate"} \subseteq Range(LifeCycle)
      /\ \A i \in 1..4 : AttachCallbacks[i] \in Range(LifeCycle)
  BY AgentAssumption, EventsOfLifeCycle DEF TypeOK, AnyConfig, Events, AttachCallbacks
<1>b. Request => requests' \in 0..setup.requests
  BY <1>a DEF Request, TypeOK
<1> USE <1>a, <1>b DEF TypeOK, tableVars, pluginVars, mainVars, given, Idle
<1>1. ASSUME NEW p \in Plugins, NEW c \in setup.configs, AppendKnown(p, c) PROVE TypeOK'
  BY <1>1 DEF AppendKnown
<1>2. ASSUME NEW p \in Plugins, NEW c \in setup.configs, AppendNew(p, c) PROVE TypeOK'
  BY <1>2 DEF AppendNew, When, DexOf, Plugins, TableChanges
<1>3. ASSUME NEW p \in Plugins, AppendNewFails(p) PROVE TypeOK'
  BY <1>3 DEF AppendNewFails, DexOf, Plugins
<1>4. ASSUME NEW p \in Plugins, Disable(p) PROVE TypeOK'
  BY <1>4 DEF Disable
<1>5. ASSUME NEW p \in Plugins, InitLoad(p) PROVE TypeOK'
  BY <1>5, WorkKinds DEF InitLoad, LoadAcceptedThen
<1>6. ASSUME NEW p \in Plugins, InitAborts(p) PROVE TypeOK'
  BY <1>6, LoadFailedTypes DEF InitAborts
<1>7. ASSUME NEW p \in Plugins, InitThrows(p) PROVE TypeOK'
  BY <1>7, WorkKinds DEF InitThrows, LoadAcceptedThen
<1>8. ASSUME NEW d \in Dexes, UnloadDex(d) PROVE TypeOK'
  <2>1. PICK removed : /\ cached' = cached \ removed
                       /\ IF removed = {} THEN UNCHANGED stale ELSE TableChanges
                       /\ enable' = [p \in Plugins |-> enable[p] /\ p \notin removed]
                       /\ parsed' = [p \in Plugins |-> IF p \in removed THEN Unparsed ELSE parsed[p]]
                       /\ calls' = [p \in Plugins |-> IF p \in removed THEN <<>> ELSE calls[p]]
                       /\ since' = [p \in Plugins |-> IF p \in removed THEN "never" ELSE since[p]]
                       /\ config' = [p \in Plugins |-> IF p \in removed THEN AnyConfig ELSE config[p]]
    BY <1>8 DEF UnloadDex
  <2>2. enable' \in [Plugins -> BOOLEAN]
    BY <2>1
  <2>3. /\ parsed' \in [Plugins -> Configs \cup {Null, Unparsed}] /\ config' \in [Plugins -> Configs]
        /\ since' \in [Plugins -> {"never", "early", "startup", "settled"}]
    BY <2>1
  <2>4. calls' \in [Plugins -> Seq(Range(LifeCycle))]
    BY <2>1
  <2>5. stale' \in BOOLEAN /\ (stale' => main \in Loops \cup {"died"})
    BY <2>1 DEF TableChanges
  <2>6. UNCHANGED <<cutShort, work, initState, mainVars, given>> /\ requests' \in 0..setup.requests /\ loaders' \subseteq loaders
    BY <1>8 DEF UnloadDex
  <2>7. QED
    BY <2>1, <2>2, <2>3, <2>4, <2>5, <2>6
<1>9. ASSUME NEW d \in Dexes, UnloadThrows(d) PROVE TypeOK'
  BY <1>9 DEF UnloadThrows
<1>10. CASE FinishAppend
  <2>1. work.plugin \in Plugins
    BY <1>10, WorkKinds DEF FinishAppend
  <2>2. CASE ~current
    BY <1>10, <2>2 DEF FinishAppend
  <2>3. CASE LoadAcceptedThen(work.plugin, <<>>) /\ work' = [op |-> "calling", plugin |-> work.plugin, next |-> 1]
    <3>1. calls' \in [Plugins -> Seq(Range(LifeCycle))]
      BY <2>1, <2>3 DEF LoadAcceptedThen
    <3>2. enable' \in [Plugins -> BOOLEAN] /\ parsed' \in [Plugins -> Configs \cup {Null, Unparsed}]
      BY <2>1, <2>3 DEF LoadAcceptedThen
    <3>3. work' \in [op : {"calling"}, plugin : Plugins, next : DOMAIN AttachCallbacks]
      BY <2>1, <2>3 DEF AttachCallbacks
    <3>4. UNCHANGED <<config, since, tableVars, requests, initState, mainVars, stale, given>>
      BY <1>10, <2>3 DEF FinishAppend, LoadAcceptedThen
    <3>5. QED
      BY <3>1, <3>2, <3>3, <3>4
  <2>4. CASE LoadFailed(work.plugin) /\ work' = Idle
    BY <1>10, <2>1, <2>4, LoadFailedTypes DEF FinishAppend
  <2>5. QED
    BY <1>10, <2>2, <2>3, <2>4 DEF FinishAppend
<1>11. CASE CallAttached
  <2>1. /\ work.plugin \in Plugins /\ work.next \in 1..4
        /\ work = [op |-> "calling", plugin |-> work.plugin, next |-> work.next]
        /\ Len(AttachCallbacks) = 4 /\ DOMAIN AttachCallbacks = 1..4
    BY <1>11, WorkKinds DEF CallAttached, AttachCallbacks
  <2>2. calls' \in [Plugins -> Seq(Range(LifeCycle))]
    BY <1>11, <2>1 DEF CallAttached
  <2>3. work' = Idle \/ (work.next # 4 /\ work' = [work EXCEPT !.next = work.next + 1])
    BY <1>11, <2>1 DEF CallAttached
  <2>4. work' = Idle \/ (/\ work.next + 1 \in 1..4
                         /\ work' = [op |-> "calling", plugin |-> work.plugin, next |-> work.next + 1])
    BY <2>1, <2>3
  <2>5. /\ work' \in {Idle} \cup [op : {"calling"}, plugin : Plugins, next : 1..4]
    BY <2>1, <2>4
  <2>6. QED
    BY <1>11, <2>1, <2>2, <2>5 DEF CallAttached
<1>12. CASE BeginInit
  BY <1>12 DEF BeginInit
<1>13. CASE InitHooks
  BY <1>13 DEF InitHooks
<1>14. QED
  BY <1>1, <1>2, <1>3, <1>4, <1>5, <1>6, <1>7, <1>8, <1>9, <1>10, <1>11, <1>12, <1>13 DEF Injector

\* The main thread.
LEMMA MainTypes ==
  ASSUME TypeOK, Main
  PROVE  TypeOK'
<1>a. Loops \cup {"onCreate"} \subseteq Range(LifeCycle)
  BY EventsOfLifeCycle DEF Loops, Events
<1> USE <1>a DEF TypeOK, tableVars, pluginVars, injectorVars, given, Loops
<1>1. CASE NewApplication
  BY <1>1 DEF NewApplication, StartLoop, GoTo
<1>2. ASSUME NEW p \in Plugins, Visit(p) PROVE TypeOK'
  BY <1>2 DEF Visit
<1>3. ASSUME NEW p \in Plugins, CallbackThrows(p) PROVE TypeOK'
  BY <1>3 DEF CallbackThrows
<1>4. CASE IteratorThrows
  BY <1>4 DEF IteratorThrows
<1>5. CASE EndLoop
  <2>1. main' \in {"new", "running", "bind", "onCreate", "finished"} /\ todo' = {} /\ stale' = FALSE
    BY <1>5 DEF EndLoop, LeaveLoop, GoTo
  <2>2. UNCHANGED <<tableVars, pluginVars, injectorVars, given, delayed, current, created,
                    isNewApplication, isApplicationOnCreateCalled>>
    BY <1>5 DEF EndLoop, LeaveLoop
  <2>3. /\ main' \in {"new", "running", "bind", "onCreate", "finished"}
        /\ todo' \in SUBSET Plugins /\ todo' = {} /\ stale' \in BOOLEAN /\ ~stale'
    BY <2>1
  <2>4. /\ delayed' \in BOOLEAN /\ current' \in BOOLEAN /\ created' \in BOOLEAN
        /\ isNewApplication' \in BOOLEAN /\ isApplicationOnCreateCalled' \in BOOLEAN
    BY <2>2
  <2>5. /\ setup' = setup /\ meets' = meets /\ cached' = cached /\ loaders' = loaders /\ cutShort' = cutShort
        /\ enable' = enable /\ config' = config /\ parsed' = parsed /\ calls' = calls /\ since' = since
        /\ requests' = requests /\ work' = work /\ initState' = initState
    BY <2>2
  <2>6. QED
    BY <2>3, <2>4, <2>5
<1>6. CASE MakeApplication
  BY <1>6 DEF MakeApplication, StartLoop
<1>7. CASE Bind
  BY <1>7 DEF Bind, GoTo
<1>8. CASE CallApplicationOnCreate
  <2>1. calls' \in [Plugins -> Seq(Range(LifeCycle))] /\ created' \in BOOLEAN
    BY <1>8, RunOnCreateTypes DEF CallApplicationOnCreate
  <2>2. UNCHANGED <<enable, config, parsed, since>>
    BY <1>8 DEF CallApplicationOnCreate, RunOnCreate
  <2>3. /\ main' \in {"beforeCreate", "running"} /\ ~stale' /\ todo' \subseteq Plugins
        /\ main' = "running" => todo' = {}
        /\ isApplicationOnCreateCalled' \in BOOLEAN
    BY <1>8 DEF CallApplicationOnCreate, StartLoop, GoTo
  <2>4. UNCHANGED <<tableVars, injectorVars, given, delayed, current, isNewApplication>> /\ stale' \in BOOLEAN
    BY <1>8 DEF CallApplicationOnCreate, StartLoop, GoTo
  <2>5. QED
    BY <2>1, <2>2, <2>3, <2>4
<1>9. CASE OnCreate
  <2>1. calls' \in [Plugins -> Seq(Range(LifeCycle))] /\ created' \in BOOLEAN
    BY <1>9, RunOnCreateTypes DEF OnCreate
  <2>2. UNCHANGED <<enable, config, parsed, since>>
    BY <1>9 DEF OnCreate, RunOnCreate
  <2>3. QED
    BY <1>9, <2>1, <2>2 DEF OnCreate, StartLoop
<1>10. CASE Delayed
  BY <1>10 DEF Delayed, StartLoop, GoTo
<1>11. QED
  BY <1>1, <1>2, <1>3, <1>4, <1>5, <1>6, <1>7, <1>8, <1>9, <1>10 DEF Main

LEMMA NextTypes == TypeOK /\ [Next]_vars => TypeOK'
<1>1. ASSUME TypeOK, UNCHANGED vars PROVE TypeOK'
  BY <1>1 DEF TypeOK, vars, tableVars, pluginVars, injectorVars, mainVars, given
<1>2. QED
  BY <1>1, InjectorTypes, MainTypes DEF Next

\* TypeOK, and that only a loop or a process that died in one has plugins to visit.
THEOREM AgentTypes == Spec => []TypeOK
BY InitTypes, NextTypes, PTL DEF Spec

-----------------------------------------------------------------------------
(* What a plugin works with, and what it can be unloaded by.               *)

\* Most steps of the injector thread, and all of the main thread, leave the
\* tables and the configurations alone.
LEMMA MainLeavesTables ==
  ASSUME Main \/ UNCHANGED vars
  PROVE  UNCHANGED <<tableVars, enable, config, parsed, since, requests, work, initState, given>>
<1> USE DEF pluginVars, injectorVars
<1>1. CASE NewApplication \/ IteratorThrows \/ EndLoop \/ MakeApplication \/ Bind \/ Delayed
  BY <1>1 DEF NewApplication, IteratorThrows, EndLoop, LeaveLoop, MakeApplication, Bind, Delayed
<1>2. ASSUME NEW p \in Plugins, Visit(p) \/ CallbackThrows(p)
      PROVE  UNCHANGED <<tableVars, enable, config, parsed, since, requests, work, initState, given>>
  BY <1>2 DEF Visit, CallbackThrows
<1>3. CASE CallApplicationOnCreate \/ OnCreate
  BY <1>3 DEF CallApplicationOnCreate, OnCreate, RunOnCreate
<1>4. CASE UNCHANGED vars
  BY <1>4 DEF vars
<1>5. QED
  BY <1>1, <1>2, <1>3, <1>4 DEF Main

LEMMA NextNeverStaleConfig ==
  ASSUME TypeOK, NeverStaleConfig, [Next]_vars
  PROVE  NeverStaleConfig'
<1> USE DEF TypeOK, NeverStaleConfig
<1>1. ASSUME NEW p \in Plugins, NEW c \in setup.configs, AppendKnown(p, c) PROVE NeverStaleConfig'
  BY <1>1 DEF AppendKnown, tableVars
<1>2. ASSUME NEW p \in Plugins, NEW c \in setup.configs, AppendNew(p, c) PROVE NeverStaleConfig'
  BY <1>2 DEF AppendNew
<1>3. ASSUME NEW p \in Plugins, AppendNewFails(p) \/ Disable(p) PROVE NeverStaleConfig'
  BY <1>3 DEF AppendNewFails, Disable, tableVars, pluginVars
\* A load, accepted or not, parses what the plugin has.
<1>4. ASSUME NEW p \in Plugins, UNCHANGED <<cached, config>>,
             parsed' \in {parsed, [parsed EXCEPT ![p] = config[p]]}
      PROVE  NeverStaleConfig'
  BY <1>4
<1>5. ASSUME NEW p \in Plugins, InitLoad(p) \/ InitThrows(p) \/ InitAborts(p) PROVE NeverStaleConfig'
  BY <1>4, <1>5 DEF InitLoad, InitThrows, InitAborts, LoadAcceptedThen, LoadFailed, tableVars
<1>6. CASE FinishAppend
  BY <1>4, <1>6, WorkKinds DEF FinishAppend, LoadAcceptedThen, LoadFailed, tableVars, pluginVars
<1>7. ASSUME NEW d \in Dexes, UnloadDex(d) PROVE NeverStaleConfig'
  BY <1>7 DEF UnloadDex
<1>8. ASSUME NEW d \in Dexes, UnloadThrows(d) PROVE NeverStaleConfig'
  BY <1>8 DEF UnloadThrows
<1>9. CASE CallAttached \/ BeginInit \/ InitHooks
  BY <1>9 DEF CallAttached, BeginInit, InitHooks, tableVars, pluginVars
<1>10. CASE Main \/ UNCHANGED vars
  BY <1>10, MainLeavesTables DEF tableVars
<1>11. QED
  BY <1>1, <1>2, <1>3, <1>5, <1>6, <1>7, <1>8, <1>9, <1>10 DEF Next, Injector

\* A plugin never works with arguments that were replaced after it read them,
\* in whatever order requests add, disable, change and unload plugins, and
\* wherever an exception ends one.
THEOREM ConfigIsCurrent == Spec => []NeverStaleConfig
<1>1. Init => NeverStaleConfig
  BY DEF Init, NeverStaleConfig
<1>2. TypeOK /\ NeverStaleConfig /\ [Next]_vars => NeverStaleConfig'
  BY NextNeverStaleConfig
<1>3. QED
  BY InitTypes, NextTypes, <1>1, <1>2, PTL DEF Spec

LEMMA NextCanBeUnloaded ==
  ASSUME TypeOK, CachedPluginsCanBeUnloaded, [Next]_vars
  PROVE  CachedPluginsCanBeUnloaded'
<1> USE DEF CachedPluginsCanBeUnloaded
<1>1. ASSUME NEW p \in Plugins, NEW c \in setup.configs, AppendNew(p, c) PROVE CachedPluginsCanBeUnloaded'
  BY <1>1 DEF AppendNew
<1>2. ASSUME NEW p \in Plugins, AppendNewFails(p) PROVE CachedPluginsCanBeUnloaded'
  BY <1>2 DEF AppendNewFails
\* The prefixes of a path include the path itself: all of its plugins go with its loader.
<1>3. ASSUME NEW d \in Dexes, UnloadDex(d) PROVE CachedPluginsCanBeUnloaded'
  <2>1. d \in Covers[d]
    BY AgentAssumption
  <2>2. /\ loaders' = loaders \ {d} /\ cutShort' = cutShort
        /\ cached' = cached \ {p \in cached : DexOf(p) \in Covers[d]}
    BY <1>3 DEF UnloadDex
  <2>3. QED
    BY <2>1, <2>2
<1>4. ASSUME NEW d \in Dexes, UnloadThrows(d) PROVE CachedPluginsCanBeUnloaded'
  BY <1>4 DEF UnloadThrows
<1>5. ASSUME NEW p \in Plugins,
             \/ \E c \in setup.configs : AppendKnown(p, c)
             \/ Disable(p) \/ InitLoad(p) \/ InitAborts(p) \/ InitThrows(p)
      PROVE  CachedPluginsCanBeUnloaded'
  BY <1>5 DEF AppendKnown, Disable, InitLoad, InitAborts, InitThrows, tableVars
<1>6. CASE FinishAppend \/ CallAttached \/ BeginInit \/ InitHooks
  BY <1>6 DEF FinishAppend, CallAttached, BeginInit, InitHooks, tableVars
<1>7. CASE Main \/ UNCHANGED vars
  BY <1>7, MainLeavesTables DEF tableVars
<1>8. QED
  BY <1>1, <1>2, <1>3, <1>4, <1>5, <1>6, <1>7 DEF Next, Injector

\* No sequence of requests leaves a plugin that unloadPluginDex cannot find the
\* loader of, whichever paths are prefixes of others: but for an exception of a
\* plugin while its own file is unloaded.
THEOREM PluginsCanBeUnloaded == Spec => []CachedPluginsCanBeUnloaded
<1>1. Init => CachedPluginsCanBeUnloaded
  BY DEF Init, CachedPluginsCanBeUnloaded
<1>2. TypeOK /\ CachedPluginsCanBeUnloaded /\ [Next]_vars => CachedPluginsCanBeUnloaded'
  BY NextCanBeUnloaded
<1>3. QED
  BY InitTypes, NextTypes, <1>1, <1>2, PTL DEF Spec

-----------------------------------------------------------------------------
(* The order of callbacks: the inductive invariant.                        *)

(* Where the two threads can be.  Before init has returned the main thread *)
(* has not started, and only hooks that init installed run loops.          *)
PhaseInv ==
  /\ initState = "no" => (main = "start" /\ ~current) \/ (main = "finished" /\ current)
  /\ initState = "running" <=> work.op = "init"
  /\ initState = "running" => main = "start"
  /\ initState = "aborted" => main \notin Loops \cup {"new", "onCreate"}
  /\ main \in {"start", "bind", "created"} /\ ~hooked => ~created
  /\ main = "start" => ~isNewApplication /\ ~isApplicationOnCreateCalled /\ ~delayed

\* Apps that do not bypass newApplication only, and those that go through both hooks.
Straight == meets["create"] => meets["new"]
Both == hooked /\ meets["create"] /\ meets["new"]

(* The flags keep the two pairs of loops in order, and each to one run:    *)
(* the delayed runnable does what the hooks have not done.                 *)
StraightInv ==
  /\ main \in {"bind", "created"} =>
       ~isApplicationOnCreateCalled /\ (isNewApplication <=> hooked /\ meets["new"])
  /\ main \in {"beforeNew", "new", "afterNew"} =>
       isNewApplication /\ ~isApplicationOnCreateCalled /\ (delayed \/ meets["new"])
  /\ main \in {"beforeCreate", "onCreate", "afterCreate"} => isNewApplication /\ isApplicationOnCreateCalled
  /\ main = "running" /\ isApplicationOnCreateCalled => isNewApplication
BothInv ==
  /\ main \in Loops \cup {"new", "onCreate", "bind", "created"} => isNewApplication /\ ~delayed
  /\ main = "running" => isNewApplication /\ isApplicationOnCreateCalled

\* The last rank that plugin p may have been called with, where the main thread is.
Limit(p) ==
  CASE main = "start"        -> 2
    [] main = "beforeNew"    -> IF p \in todo THEN 2 ELSE 3
    [] main = "new"          -> 3
    [] main = "afterNew"     -> IF p \in todo THEN 3 ELSE 4
    [] main \in {"bind", "created"} -> IF isNewApplication THEN 4 ELSE 2
    [] main = "beforeCreate" -> IF p \in todo THEN 4 ELSE 5
    [] main = "onCreate"     -> 5
    [] main = "afterCreate"  -> IF p \in todo THEN 6 ELSE 7
    [] main = "running"      -> IF ~isNewApplication THEN 2
                                ELSE IF isApplicationOnCreateCalled THEN 7 ELSE 4
    [] OTHER                 -> 7

Loaded == <<"load", "beforeMake">>
\* What the hooks have made of the calls of a plugin that init loaded.
HookedCalls(p) ==
  /\ calls[p] # <<>> /\ calls[p][1] = "load"
  /\ Straight => /\ CallbacksInOrder(calls[p])
                 /\ \A i \in Called(calls[p]) : Rank(calls[p][i]) <= Limit(p)
  /\ Both => /\ InOrder(calls[p])
             /\ \A i \in DOMAIN calls[p] : Rank(calls[p][i]) <= Limit(p)
Early(p) ==
  /\ p \in cached
  /\ initState = "no" => calls[p] = <<>> /\ main = "start"
  /\ initState = "running" => calls[p] = IF p \in work.left THEN <<>> ELSE Loaded
  /\ initState = "aborted" => calls[p] \in IF created THEN LoadedAtMost ELSE {<<>>, Loaded}
  /\ hooked => HookedCalls(p)
EarlyInv == \A p \in Plugins : since[p] = "early" => Early(p)

\* A plugin that joined a settled app hears only of the request that added it.
Settled(p) ==
  /\ main = "finished"
  /\ LoadedFirst(calls[p]) /\ CallbacksInOrder(calls[p])
  /\ work.op = "added" /\ work.plugin = p => Called(calls[p]) = {}
  /\ work.op = "calling" /\ work.plugin = p =>
       /\ \E i \in DOMAIN calls[p] : calls[p][i] = "load"
       /\ \A i \in Called(calls[p]) : Rank(calls[p][i]) < Rank(AttachCallbacks[work.next])
SettledInv == \A p \in Plugins : since[p] = "settled" => Settled(p)

\* appendPlugin calls no plugin that waits for init.
WorkInv ==
  /\ work.op = "added" /\ since[work.plugin] = "early" => initState = "no"
  /\ work.op = "calling" => since[work.plugin] # "early"

OrderInv ==
  /\ PhaseInv /\ WorkInv
  /\ Straight => StraightInv
  /\ Both => BothInv
  /\ EarlyInv /\ SettledInv

-----------------------------------------------------------------------------
(* One more call.                                                          *)

LEMMA OneMore ==
  ASSUME NEW s \in Seq(Events), NEW e \in Events
  PROVE  /\ Append(s, e) \in Seq(Events)
         /\ DOMAIN Append(s, e) = DOMAIN s \cup {Len(s) + 1} /\ DOMAIN s = 1..Len(s) /\ Len(s) \in Nat
         /\ \A i \in DOMAIN s : Append(s, e)[i] = s[i]
         /\ Append(s, e)[Len(s) + 1] = e
OBVIOUS

LEMMA AppendInOrder ==
  ASSUME NEW s \in Seq(Events), NEW e \in Events, InOrder(s), \A i \in DOMAIN s : Rank(s[i]) < Rank(e)
  PROVE  InOrder(Append(s, e))
<1>1. ASSUME NEW i \in DOMAIN Append(s, e), NEW j \in DOMAIN Append(s, e), i < j
      PROVE  Rank(Append(s, e)[i]) < Rank(Append(s, e)[j])
  <2>1. i \in DOMAIN s
    BY <1>1, OneMore
  <2>2. CASE j \in DOMAIN s
    BY <1>1, <2>1, <2>2, OneMore DEF InOrder
  <2>3. CASE j = Len(s) + 1
    BY <1>1, <2>1, <2>3, OneMore
  <2>4. QED
    BY <1>1, <2>2, <2>3, OneMore
<1>2. QED
  BY <1>1 DEF InOrder

LEMMA CalledOneMore ==
  ASSUME NEW s \in Seq(Events), NEW e \in Events
  PROVE  /\ \A i \in Called(s) : i \in Called(Append(s, e)) /\ Append(s, e)[i] = s[i]
         /\ \A i \in Called(Append(s, e)) : i \in Called(s) \/ (i = Len(s) + 1 /\ e # "onCreate" /\ Append(s, e)[i] = e)
         /\ \A i \in Called(s) : i < Len(s) + 1 /\ i \in Nat
BY OneMore DEF Called

LEMMA AppendCallbacksInOrder ==
  ASSUME NEW s \in Seq(Events), NEW e \in Events, CallbacksInOrder(s),
         e = "onCreate" \/ \A i \in Called(s) : Rank(s[i]) < Rank(e)
  PROVE  CallbacksInOrder(Append(s, e))
<1>a. \A i \in Called(s) : Append(s, e)[i] = s[i]
  BY OneMore DEF Called
<1>1. ASSUME NEW i \in Called(Append(s, e)), NEW j \in Called(Append(s, e)), i < j
      PROVE  Rank(Append(s, e)[i]) < Rank(Append(s, e)[j])
  <2>1. Len(s) \in Nat
    OBVIOUS
  <2>2. CASE j \in Called(s)
    <3>1. i \in Called(s)
      BY <1>1, <2>1, <2>2, CalledOneMore
    <3>2. Rank(s[i]) < Rank(s[j])
      BY <1>1, <2>2, <3>1 DEF CallbacksInOrder
    <3>3. QED
      BY <1>a, <2>2, <3>1, <3>2
  <2>3. CASE j = Len(s) + 1 /\ e # "onCreate" /\ Append(s, e)[j] = e
    <3>1. i \in Called(s)
      BY <1>1, <2>1, <2>3, CalledOneMore
    <3>2. Rank(s[i]) < Rank(e)
      BY <2>3, <3>1
    <3>3. Append(s, e)[i] = s[i]
      BY <3>1, <1>a
    <3>4. QED
      BY <2>3, <3>2, <3>3
  <2>4. j \in Called(s) \/ (j = Len(s) + 1 /\ e # "onCreate" /\ Append(s, e)[j] = e)
    BY CalledOneMore
  <2>5. QED
    BY <2>2, <2>3, <2>4
<1>2. QED
  BY <1>1 DEF CallbacksInOrder

LEMMA AppendLoadedFirst ==
  ASSUME NEW s \in Seq(Events), NEW e \in Events, LoadedFirst(s),
         e \in {"load", "onCreate"} \/ \E i \in DOMAIN s : s[i] = "load"
  PROVE  LoadedFirst(Append(s, e))
<1>1. ASSUME NEW j \in Called(Append(s, e)) PROVE \E i \in 1..j : Append(s, e)[i] = "load"
  <2>1. CASE j \in Called(s)
    <3>1. PICK i \in 1..j : s[i] = "load"
      BY <2>1 DEF LoadedFirst
    <3>2. i \in DOMAIN s
      BY <2>1, <3>1, OneMore DEF Called
    <3>3. QED
      BY <3>1, <3>2, OneMore
  <2>2. CASE j = Len(s) + 1 /\ e # "onCreate" /\ Append(s, e)[j] = e
    <3>1. CASE e = "load"
      BY <2>2, <3>1, OneMore
    <3>2. CASE \E i \in DOMAIN s : s[i] = "load"
      <4>1. PICK i \in DOMAIN s : s[i] = "load"
        BY <3>2
      <4>2. i \in 1..j /\ Append(s, e)[i] = "load"
        BY <2>2, <4>1, OneMore
      <4>3. QED
        BY <4>2
    <3>3. QED
      BY <2>2, <3>1, <3>2
  <2>3. QED
    BY <2>1, <2>2, CalledOneMore
<1>2. QED
  BY <1>1 DEF LoadedFirst

LEMMA LoadedSequence ==
  /\ Loaded \in Seq(Events) /\ Loaded # <<>> /\ Loaded[1] = "load"
  /\ InOrder(Loaded) /\ CallbacksInOrder(Loaded)
  /\ \A i \in DOMAIN Loaded : Rank(Loaded[i]) <= 2
<1>1. DOMAIN Loaded = 1..2 /\ Loaded[1] = "load" /\ Loaded[2] = "beforeMake" /\ Loaded \in Seq(Events)
  BY DEF Loaded, Events
<1>2. Rank(Loaded[1]) = 1 /\ Rank(Loaded[2]) = 2
  BY <1>1, Ranks
<1>3. \A i \in 1..2 : Rank(Loaded[i]) = i
  BY <1>2
<1>4. Called(Loaded) \subseteq 1..2
  BY <1>1 DEF Called
<1>5. QED
  BY <1>1, <1>3, <1>4 DEF InOrder, CallbacksInOrder

LEMMA CreatedAfterLoaded == Append(Loaded, "onCreate") = <<"load", "beforeMake", "onCreate">>
<1>1. PICK t : t = <<"load", "beforeMake", "onCreate">>
  OBVIOUS
<1>2. t \in Seq(Events) /\ Len(t) = 3 /\ t[1] = "load" /\ t[2] = "beforeMake" /\ t[3] = "onCreate"
  BY <1>1 DEF Events
<1>3. PICK l : l = Loaded
  OBVIOUS
<1>4. l \in Seq(Events) /\ Len(l) = 2 /\ l[1] = "load" /\ l[2] = "beforeMake"
  BY <1>3 DEF Loaded, Events
<1>5. /\ Append(l, "onCreate") \in Seq(Events) /\ Len(Append(l, "onCreate")) = 3
      /\ \A i \in 1..3 : Append(l, "onCreate")[i] = t[i]
  <2>1. "onCreate" \in Events
    BY DEF Events
  <2>2. /\ Append(l, "onCreate") \in Seq(Events) /\ Len(Append(l, "onCreate")) = 3
        /\ \A i \in 1..2 : Append(l, "onCreate")[i] = l[i]
        /\ Append(l, "onCreate")[3] = "onCreate"
    BY <1>4, <2>1, AppendProperties
  <2>3. \A i \in 1..3 : i = 1 \/ i = 2 \/ i = 3
    OBVIOUS
  <2>4. QED
    BY <1>2, <1>4, <2>2, <2>3
<1>6. Append(l, "onCreate") = t
  BY <1>2, <1>5, SeqEqual
<1>7. QED
  BY <1>1, <1>3, <1>6

LEMMA AtMostLoadedSequences ==
  ASSUME NEW s \in LoadedAtMost
  PROVE  LoadedFirst(s) /\ CallbacksInOrder(s)
<1>1. DOMAIN s \subseteq 1..3 /\ \A j \in DOMAIN s : s[j] # "onCreate" => j \in 1..2 /\ s[1] = "load"
  BY DEF LoadedAtMost
<1>2. Called(s) \in {{}, {1, 2}} /\ (Called(s) # {} => s[1] = "load" /\ s[2] = "beforeMake")
  BY DEF LoadedAtMost, Called
<1>3. QED
  BY <1>1, <1>2, Ranks DEF LoadedFirst, CallbacksInOrder

-----------------------------------------------------------------------------
(* Where the two threads are.                                              *)

ControlInv ==
  /\ PhaseInv
  /\ Straight => StraightInv
  /\ Both => BothInv

\* The injector thread leaves the main thread where it is, and init runs alone.
LEMMA InjectorInit ==
  ASSUME TypeOK, PhaseInv, Injector \/ UNCHANGED vars
  PROVE  /\ UNCHANGED <<mainVars, given>>
         /\ \/ UNCHANGED initState /\ (work'.op = "init" <=> work.op = "init")
            \/ /\ initState = "no" /\ main = "start" /\ work = Idle
               /\ initState' = "running" /\ work' = [op |-> "init", left |-> cached]
            \/ initState = "running" /\ work' = Idle /\ initState' \in {"aborted", "ran"}
<1> DEFINE Claim == /\ UNCHANGED <<mainVars, given>>
                    /\ \/ UNCHANGED initState /\ (work'.op = "init" <=> work.op = "init")
                       \/ /\ initState = "no" /\ main = "start" /\ work = Idle
                          /\ initState' = "running" /\ work' = [op |-> "init", left |-> cached]
                       \/ initState = "running" /\ work' = Idle /\ initState' \in {"aborted", "ran"}
<1>1. ASSUME NEW p \in Plugins, NEW c \in setup.configs, AppendKnown(p, c) \/ AppendNew(p, c) PROVE Claim
  BY <1>1 DEF AppendKnown, AppendNew, Request, Idle
<1>2. ASSUME NEW p \in Plugins, AppendNewFails(p) \/ Disable(p) PROVE Claim
  BY <1>2 DEF AppendNewFails, Disable
<1>3. ASSUME NEW p \in Plugins, InitLoad(p) PROVE Claim
  <2>1. work = [op |-> "init", left |-> work.left]
    BY <1>3, WorkKinds DEF InitLoad
  <2>2. work'.op = "init" /\ work.op = "init"
    BY <1>3, <2>1 DEF InitLoad
  <2>3. QED
    BY <1>3, <2>2 DEF InitLoad
<1>4. ASSUME NEW p \in Plugins, InitAborts(p) \/ InitThrows(p) PROVE Claim
  BY <1>4 DEF InitAborts, InitThrows, PhaseInv
<1>5. ASSUME NEW d \in Dexes, UnloadDex(d) \/ UnloadThrows(d) PROVE Claim
  BY <1>5 DEF UnloadDex, UnloadThrows
<1>6. CASE FinishAppend
  BY <1>6 DEF FinishAppend, Idle
<1>7. CASE CallAttached
  <2>1. work = [op |-> "calling", plugin |-> work.plugin, next |-> work.next]
    BY <1>7, WorkKinds DEF CallAttached
  <2>2. work' = Idle \/ work' = [work EXCEPT !.next = work.next + 1]
    BY <1>7 DEF CallAttached
  <2>3. work'.op \in {"idle", "calling"}
    BY <2>1, <2>2 DEF Idle
  <2>4. QED
    BY <1>7, <2>3 DEF CallAttached
<1>8. CASE BeginInit
  BY <1>8 DEF BeginInit, Request
<1>9. CASE InitHooks
  BY <1>9 DEF InitHooks, PhaseInv
<1>10. CASE UNCHANGED vars
  BY <1>10 DEF vars, injectorVars
<1>11. QED
  BY <1>1, <1>2, <1>3, <1>4, <1>5, <1>6, <1>7, <1>8, <1>9, <1>10 DEF Injector

LEMMA InjectorControl ==
  ASSUME TypeOK, ControlInv, Injector \/ UNCHANGED vars
  PROVE  ControlInv'
<1>1. /\ main' = main /\ delayed' = delayed /\ current' = current /\ created' = created
      /\ isNewApplication' = isNewApplication
      /\ isApplicationOnCreateCalled' = isApplicationOnCreateCalled /\ meets' = meets
  BY InjectorInit DEF ControlInv, mainVars, given
<1>2. /\ initState' # initState => main = "start" /\ initState' # "no"
      /\ hooked => hooked'
      /\ initState' = "running" <=> work'.op = "init"
  BY InjectorInit DEF ControlInv, PhaseInv, hooked, Idle
<1>3. /\ initState' = "aborted" => initState = "aborted" \/ main = "start"
      /\ hooked' => hooked \/ main = "start"
      /\ initState' = initState \/ main = "start"
  BY <1>2 DEF hooked
<1>4. PhaseInv'
  BY <1>1, <1>2, <1>3 DEF ControlInv, PhaseInv, Loops
<1>5. Straight' => StraightInv'
  BY <1>1, <1>2, <1>3 DEF ControlInv, Straight, StraightInv
<1>6. Both' => BothInv'
  <2>1. CASE main = "start"
    BY <1>1, <2>1 DEF BothInv, Loops
  <2>2. CASE main # "start"
    BY <1>1, <1>2, <1>3, <2>2 DEF ControlInv, Both, BothInv
  <2>3. QED
    BY <2>1, <2>2
<1>7. QED
  BY <1>4, <1>5, <1>6 DEF ControlInv

LEMMA LoopEnds ==
  ASSUME TypeOK, EndLoop
  PROVE  /\ \/ main = "beforeNew" /\ main' = "new"
            \/ main = "afterNew" /\ delayed /\ main' = "running"
            \/ main = "afterNew" /\ ~delayed /\ main' = "bind"
            \/ main = "beforeCreate" /\ main' = "onCreate"
            \/ main = "afterCreate" /\ delayed /\ main' = "finished"
            \/ main = "afterCreate" /\ ~delayed /\ main' = "running"
         /\ todo = {} /\ todo' = {} /\ stale' = FALSE
         /\ calls' = calls /\ delayed' = delayed /\ current' = current /\ created' = created
         /\ isNewApplication' = isNewApplication
         /\ isApplicationOnCreateCalled' = isApplicationOnCreateCalled
<1>1. main \in Loops /\ delayed \in BOOLEAN
  BY DEF TypeOK, EndLoop, LeaveLoop
<1>2. main' = CASE main = "beforeNew" -> "new"
                [] main = "afterNew" -> IF delayed THEN "running" ELSE "bind"
                [] main = "beforeCreate" -> "onCreate"
                [] main = "afterCreate" -> IF delayed THEN "finished" ELSE "running"
  BY DEF EndLoop, LeaveLoop, GoTo, pluginVars
<1>3. CASE main = "beforeNew"
  BY <1>2, <1>3 DEF EndLoop, LeaveLoop, GoTo, pluginVars
<1>4. CASE main = "afterNew"
  BY <1>2, <1>4 DEF EndLoop, LeaveLoop, GoTo, pluginVars
<1>5. CASE main = "beforeCreate"
  BY <1>2, <1>5 DEF EndLoop, LeaveLoop, GoTo, pluginVars
<1>6. CASE main = "afterCreate"
  BY <1>2, <1>6 DEF EndLoop, LeaveLoop, GoTo, pluginVars
<1>7. QED
  BY <1>1, <1>3, <1>4, <1>5, <1>6 DEF Loops

LEMMA MainControl ==
  ASSUME TypeOK, ControlInv, Main
  PROVE  ControlInv'
<1>1. initState' = initState /\ work' = work /\ meets' = meets
  BY MainLeavesTables DEF given
<1>2. \/ NewApplication
      \/ \E p \in Plugins : Visit(p) \/ CallbackThrows(p)
      \/ IteratorThrows \/ EndLoop \/ MakeApplication \/ Bind
      \/ CallApplicationOnCreate \/ OnCreate \/ Delayed
  BY DEF Main
<1>a. initState \in {"no", "running", "ran", "aborted"}
  BY DEF TypeOK
<1> USE DEF Loops, hooked
<1>3. PhaseInv'
  <2>1. PhaseInv
    BY DEF ControlInv
  <2>2. CASE NewApplication
    BY <1>1, <2>1, <2>2 DEF NewApplication, PhaseInv, StartLoop, GoTo
  <2>3. CASE \E p \in Plugins : Visit(p) \/ CallbackThrows(p)
    BY <1>1, <2>1, <2>3 DEF Visit, CallbackThrows, PhaseInv
  <2>4. CASE IteratorThrows \/ MakeApplication \/ Bind
    BY <1>1, <2>1, <2>4 DEF IteratorThrows, MakeApplication, Bind, PhaseInv, StartLoop, GoTo
  <2>7. CASE EndLoop
    BY <1>1, <1>a, <2>1, <2>7, LoopEnds DEF PhaseInv
  <2>5. CASE CallApplicationOnCreate \/ OnCreate \/ Delayed
    BY <1>1, <2>1, <2>5 DEF CallApplicationOnCreate, OnCreate, Delayed, PhaseInv, StartLoop, GoTo
  <2>6. QED
    BY <1>2, <2>2, <2>3, <2>4, <2>5, <2>7
<1>4. ASSUME Straight' PROVE StraightInv'
  <2>1. PhaseInv /\ Straight /\ StraightInv
    BY <1>1, <1>4 DEF ControlInv, Straight
  <2>2. CASE NewApplication
    BY <1>1, <2>1, <2>2 DEF NewApplication, PhaseInv, StraightInv, StartLoop, GoTo
  <2>3. CASE \E p \in Plugins : Visit(p) \/ CallbackThrows(p)
    BY <1>1, <2>1, <2>3 DEF Visit, CallbackThrows, StraightInv
  <2>4. CASE IteratorThrows \/ MakeApplication \/ Bind
    BY <1>1, <2>1, <2>4 DEF IteratorThrows, MakeApplication, Bind, PhaseInv, StraightInv, StartLoop, GoTo
  <2>7. CASE EndLoop
    BY <1>1, <1>a, <2>1, <2>7, LoopEnds DEF PhaseInv, StraightInv
  <2>5. CASE CallApplicationOnCreate \/ OnCreate \/ Delayed
    BY <1>1, <2>1, <2>5 DEF CallApplicationOnCreate, OnCreate, Delayed, PhaseInv, Straight, StraightInv, StartLoop, GoTo
  <2>6. QED
    BY <1>2, <2>2, <2>3, <2>4, <2>5, <2>7
<1>5. ASSUME Both' PROVE BothInv'
  <2>1. PhaseInv /\ Both /\ BothInv /\ StraightInv
    BY <1>1, <1>5 DEF ControlInv, Both, Straight
  <2>2. CASE NewApplication
    BY <1>1, <2>1, <2>2 DEF NewApplication, PhaseInv, Both, BothInv, StartLoop, GoTo
  <2>3. CASE \E p \in Plugins : Visit(p) \/ CallbackThrows(p)
    BY <1>1, <2>1, <2>3 DEF Visit, CallbackThrows, BothInv
  <2>4. CASE IteratorThrows \/ MakeApplication \/ Bind
    BY <1>1, <2>1, <2>4 DEF IteratorThrows, MakeApplication, Bind, Both, BothInv, StartLoop, GoTo
  <2>7. CASE EndLoop
    BY <1>1, <1>a, <2>1, <2>7, LoopEnds DEF Both, BothInv, StraightInv
  <2>5. CASE CallApplicationOnCreate \/ OnCreate \/ Delayed
    BY <1>1, <2>1, <2>5 DEF CallApplicationOnCreate, OnCreate, Delayed, Both, BothInv, StartLoop, GoTo
  <2>6. QED
    BY <1>2, <2>2, <2>3, <2>4, <2>5, <2>7
<1>6. QED
  BY <1>3, <1>4, <1>5 DEF ControlInv

-----------------------------------------------------------------------------
(* What the hooks call the plugins with.                                   *)

LEMMA Numbers ==
  /\ \A e \in Events : Rank(e) \in 1..7
  /\ \A p : Limit(p) \in Nat
<1>1. \A e \in Events : Rank(e) \in 1..7
  BY Ranks DEF Events
<1>2. \A p : Limit(p) \in Nat
  BY DEF Limit
<1>3. QED
  BY <1>1, <1>2

LEMMA HookedAppends ==
  ASSUME NEW p \in Plugins, NEW e \in Events,
         calls[p] \in Seq(Events), calls'[p] = Append(calls[p], e),
         HookedCalls(p), meets' = meets, initState' = initState,
         Straight => \/ e = "onCreate" /\ Limit(p) <= Limit(p)'
                     \/ Limit(p) < Rank(e) /\ Rank(e) <= Limit(p)',
         Both => Limit(p) < Rank(e) /\ Rank(e) <= Limit(p)'
  PROVE  HookedCalls(p)'
<1>1. PICK s \in Seq(Events) : s = calls[p]
  OBVIOUS
<1>2. calls'[p] = Append(s, e)
  BY <1>1
<1>3. PICK k \in Nat, l \in Nat : k = Limit(p) /\ l = Limit(p)'
  <2>1. Limit(p) \in Nat
    BY Numbers
  <2>2. Limit(p)' \in Nat
    BY DEF Limit
  <2>3. QED
    BY <2>1, <2>2
<1>4. \A i \in DOMAIN s : Rank(s[i]) \in Nat
  BY Numbers
<1>5. Rank(e) \in Nat
  BY Numbers
<1>6. s # <<>> /\ s[1] = "load"
  BY <1>1 DEF HookedCalls
<1>7. Append(s, e) # <<>> /\ Append(s, e)[1] = "load"
  BY <1>6
<1>8. ASSUME Straight
      PROVE  CallbacksInOrder(Append(s, e)) /\ \A i \in Called(Append(s, e)) : Rank(Append(s, e)[i]) <= l
  <2>1. CallbacksInOrder(s) /\ \A i \in Called(s) : Rank(s[i]) <= k
    BY <1>1, <1>3, <1>8 DEF HookedCalls
  <2>2. k <= l /\ (e = "onCreate" \/ (k < Rank(e) /\ Rank(e) <= l))
    <3>1. (e = "onCreate" /\ k <= l) \/ (k < Rank(e) /\ Rank(e) <= l)
      BY <1>3, <1>8
    <3>2. QED
      BY <1>5, <3>1
  <2>3. \A i \in Called(s) : i \in DOMAIN s
    BY DEF Called
  <2>4. e = "onCreate" \/ \A i \in Called(s) : Rank(s[i]) < Rank(e)
    BY <1>4, <1>5, <2>1, <2>2, <2>3
  <2>5. CallbacksInOrder(Append(s, e))
    BY <2>1, <2>4, AppendCallbacksInOrder
  <2>6. ASSUME NEW i \in Called(Append(s, e)) PROVE Rank(Append(s, e)[i]) <= l
    <3>1. CASE i \in Called(s)
      <4>1. Append(s, e)[i] = s[i]
        BY <2>3, <3>1, OneMore
      <4>2. Rank(s[i]) \in Nat /\ Rank(s[i]) <= k
        BY <1>4, <2>1, <2>3, <3>1
      <4>3. QED
        BY <2>2, <4>1, <4>2
    <3>2. CASE i = Len(s) + 1 /\ e # "onCreate" /\ Append(s, e)[i] = e
      BY <2>2, <3>2
    <3>3. i \in Called(s) \/ (i = Len(s) + 1 /\ e # "onCreate" /\ Append(s, e)[i] = e)
      BY OneMore DEF Called
    <3>4. QED
      BY <3>1, <3>2, <3>3
  <2>7. QED
    BY <2>5, <2>6
<1>9. ASSUME Both
      PROVE  InOrder(Append(s, e)) /\ \A i \in DOMAIN Append(s, e) : Rank(Append(s, e)[i]) <= l
  <2>1. InOrder(s) /\ \A i \in DOMAIN s : Rank(s[i]) <= k
    BY <1>1, <1>3, <1>9 DEF HookedCalls
  <2>2. k < Rank(e) /\ Rank(e) <= l
    BY <1>3, <1>9
  <2>3. \A i \in DOMAIN s : Rank(s[i]) < Rank(e)
    BY <1>4, <1>5, <2>1, <2>2
  <2>4. InOrder(Append(s, e))
    BY <2>1, <2>3, AppendInOrder
  <2>5. ASSUME NEW i \in DOMAIN Append(s, e) PROVE Rank(Append(s, e)[i]) <= l
    <3>1. CASE i \in DOMAIN s
      <4>1. Append(s, e)[i] = s[i]
        BY <3>1, OneMore
      <4>2. QED
        BY <1>4, <1>5, <2>2, <2>3, <3>1, <4>1
    <3>2. CASE i = Len(s) + 1
      BY <2>2, <3>2, OneMore
    <3>3. QED
      BY <3>1, <3>2, OneMore
  <2>6. QED
    BY <2>4, <2>5
<1>10. (Straight' => Straight) /\ (Both' => Both)
  BY DEF Straight, Both, hooked
<1>11. QED
  BY <1>2, <1>3, <1>7, <1>8, <1>9, <1>10 DEF HookedCalls

LEMMA HookedQuiet ==
  ASSUME NEW p \in Plugins, calls[p] \in Seq(Events), calls'[p] = calls[p],
         HookedCalls(p), meets' = meets, initState' = initState,
         Straight => Limit(p) <= Limit(p)'
  PROVE  HookedCalls(p)'
<1>1. PICK s \in Seq(Events) : s = calls[p] /\ s = calls'[p]
  OBVIOUS
<1>2. PICK k \in Nat, l \in Nat : k = Limit(p) /\ l = Limit(p)'
  <2>1. Limit(p) \in Nat
    BY Numbers
  <2>2. Limit(p)' \in Nat
    BY DEF Limit
  <2>3. QED
    BY <2>1, <2>2
<1>3. \A i \in DOMAIN s : Rank(s[i]) \in Nat
  BY Numbers
<1>4. /\ s # <<>> /\ s[1] = "load"
      /\ Straight => CallbacksInOrder(s) /\ \A i \in Called(s) : Rank(s[i]) <= k
      /\ Both => InOrder(s) /\ \A i \in DOMAIN s : Rank(s[i]) <= k
  BY <1>1, <1>2 DEF HookedCalls
<1>5. \A i \in Called(s) : i \in DOMAIN s
  BY DEF Called
<1>6. (Straight' <=> Straight) /\ (Both' <=> Both) /\ (Both => Straight)
  BY DEF Straight, Both, hooked
<1>7. Straight => k <= l
  BY <1>2
<1>8. /\ Straight' => \A i \in Called(s) : Rank(s[i]) <= l
      /\ Both' => \A i \in DOMAIN s : Rank(s[i]) <= l
  BY <1>3, <1>4, <1>5, <1>6, <1>7
<1>9. QED
  BY <1>1, <1>2, <1>4, <1>6, <1>8 DEF HookedCalls

\* onCreate reaches every plugin of the table.
LEMMA OnCreateReaches ==
  ASSUME TypeOK, NEW p \in cached, RunOnCreate
  PROVE  calls'[p] = Append(calls[p], "onCreate")
<1>1. p \in Plugins
  BY DEF TypeOK
<1>2. QED
  BY <1>1 DEF RunOnCreate

LEMMA MainHooked ==
  ASSUME TypeOK, ControlInv, Main, hooked, NEW p \in cached, HookedCalls(p)
  PROVE  HookedCalls(p)'
<1>1. /\ initState' = initState /\ meets' = meets /\ p \in Plugins
      /\ calls \in [Plugins -> Seq(Range(LifeCycle))]
  BY MainLeavesTables DEF given, TypeOK
<1>2. calls[p] \in Seq(Events)
  BY <1>1, EventsOfLifeCycle
<1>3. PhaseInv /\ (Straight => StraightInv) /\ (Both => BothInv) /\ (Both => Straight)
  BY DEF ControlInv, Straight, Both
\* Steps that call nobody.
<1>4. ASSUME calls' = calls, Straight => Limit(p) <= Limit(p)' PROVE HookedCalls(p)'
  BY <1>1, <1>2, <1>4, HookedQuiet
<1>5. CASE NewApplication
  <2>1. calls' = calls
    BY <1>5 DEF NewApplication, pluginVars
  <2>2. Limit(p) = 2
    BY <1>5 DEF NewApplication, Limit
  <2>3. ~isNewApplication
    BY <1>3, <1>5 DEF NewApplication, PhaseInv
  <2>4. Limit(p)' \in {2, 3}
    BY <1>5, <2>3 DEF NewApplication, StartLoop, GoTo, Limit
  <2>5. QED
    BY <1>4, <2>1, <2>2, <2>4
<1>6. ASSUME NEW q \in Plugins, Visit(q) PROVE HookedCalls(p)'
  <2>1. /\ main' = main /\ todo' = todo \ {q} /\ q \in todo /\ main \in Loops
        /\ calls' = [calls EXCEPT ![q] = Append(@, main)]
        /\ isNewApplication' = isNewApplication
        /\ isApplicationOnCreateCalled' = isApplicationOnCreateCalled
    BY <1>6 DEF Visit
  <2>2. CASE q = p
    <3>1. calls'[p] = Append(calls[p], main)
      BY <1>1, <2>1, <2>2
    <3>2. main \in Events
      BY <2>1 DEF Loops, Events
    <3>3. CASE main = "beforeNew"
      BY <1>1, <1>2, <2>1, <2>2, <3>1, <3>2, <3>3, Ranks, HookedAppends DEF Limit
    <3>4. CASE main = "afterNew"
      BY <1>1, <1>2, <2>1, <2>2, <3>1, <3>2, <3>4, Ranks, HookedAppends DEF Limit
    <3>5. CASE main = "beforeCreate"
      BY <1>1, <1>2, <2>1, <2>2, <3>1, <3>2, <3>5, Ranks, HookedAppends DEF Limit
    <3>6. CASE main = "afterCreate"
      BY <1>1, <1>2, <2>1, <2>2, <3>1, <3>2, <3>6, Ranks, HookedAppends DEF Limit
    <3>7. QED
      BY <2>1, <3>3, <3>4, <3>5, <3>6 DEF Loops
  <2>3. CASE q # p
    <3>1. calls'[p] = calls[p]
      BY <1>1, <2>1, <2>3
    <3>2. Limit(p)' = Limit(p) /\ Limit(p) \in Nat
      BY <2>1, <2>3, Numbers DEF Limit
    <3>3. QED
      BY <1>1, <1>2, <3>1, <3>2, HookedQuiet
  <2>4. QED
    BY <2>2, <2>3
<1>7. ASSUME NEW q \in Plugins, CallbackThrows(q) PROVE HookedCalls(p)'
  <2>1. /\ main' = "died" /\ q \in todo /\ main \in {"beforeCreate", "afterCreate"}
        /\ calls' = [calls EXCEPT ![q] = Append(@, main)]
    BY <1>7 DEF CallbackThrows
  <2>2. Limit(p)' = 7
    BY <2>1 DEF Limit
  <2>3. CASE q = p
    <3>1. calls'[p] = Append(calls[p], main)
      BY <1>1, <2>1, <2>3
    <3>2. main \in Events
      BY <2>1 DEF Events
    <3>3. CASE main = "beforeCreate"
      BY <1>1, <1>2, <2>1, <2>2, <2>3, <3>1, <3>2, <3>3, Ranks, HookedAppends DEF Limit
    <3>4. CASE main = "afterCreate"
      BY <1>1, <1>2, <2>1, <2>2, <2>3, <3>1, <3>2, <3>4, Ranks, HookedAppends DEF Limit
    <3>5. QED
      BY <2>1, <3>3, <3>4
  <2>4. CASE q # p
    <3>1. calls'[p] = calls[p]
      BY <1>1, <2>1, <2>4
    <3>2. Limit(p) <= 7
      BY <2>1 DEF Limit
    <3>3. QED
      BY <1>1, <1>2, <2>2, <3>1, <3>2, HookedQuiet
  <2>5. QED
    BY <2>3, <2>4
<1>8. CASE IteratorThrows
  <2>1. calls' = calls /\ main' = "died" /\ main \in Loops
    BY <1>8 DEF IteratorThrows, pluginVars
  <2>2. Limit(p)' = 7 /\ Limit(p) <= 7
    BY <2>1 DEF Limit, Loops
  <2>3. QED
    BY <1>4, <2>1, <2>2
<1>9. CASE EndLoop
  <2>1. Straight => Limit(p) <= Limit(p)'
    <3>1. CASE main = "beforeNew"
      BY <1>9, <3>1, LoopEnds DEF Limit
    <3>2. CASE main = "afterNew"
      <4>1. Straight => isNewApplication /\ ~isApplicationOnCreateCalled
        BY <1>3, <3>2 DEF StraightInv
      <4>2. Limit(p) = 4
        BY <1>9, <3>2, LoopEnds DEF Limit
      <4>3. Straight => Limit(p)' = 4
        BY <1>9, <3>2, <4>1, LoopEnds DEF Limit
      <4>4. QED
        BY <4>2, <4>3
    <3>3. CASE main = "beforeCreate"
      BY <1>9, <3>3, LoopEnds DEF Limit
    <3>4. CASE main = "afterCreate"
      <4>1. Straight => isNewApplication /\ isApplicationOnCreateCalled
        BY <1>3, <3>4 DEF StraightInv
      <4>2. Limit(p) = 7
        BY <1>9, <3>4, LoopEnds DEF Limit
      <4>3. Straight => Limit(p)' = 7
        BY <1>9, <3>4, <4>1, LoopEnds DEF Limit
      <4>4. QED
        BY <4>2, <4>3
    <3>5. QED
      BY <1>9, <3>1, <3>2, <3>3, <3>4, LoopEnds
  <2>2. QED
    BY <1>4, <1>9, <2>1, LoopEnds
<1>10. CASE MakeApplication
  BY <1>4, <1>10 DEF MakeApplication, StartLoop, Limit, pluginVars
<1>11. CASE Bind
  BY <1>4, <1>11 DEF Bind, GoTo, Limit, pluginVars
<1>12. CASE CallApplicationOnCreate
  <2>1. main = "created" /\ isNewApplication' = isNewApplication
    BY <1>12 DEF CallApplicationOnCreate
  <2>2. CASE meets["create"]
    <3>1. calls' = calls /\ main' = "beforeCreate"
      BY <1>12, <2>2 DEF CallApplicationOnCreate, pluginVars, StartLoop
    <3>2. Limit(p) \in {2, 4} /\ Limit(p)' \in {4, 5}
      BY <2>1, <3>1 DEF Limit
    <3>3. QED
      BY <1>4, <3>1, <3>2
  <2>3. CASE ~meets["create"]
    <3>1. RunOnCreate /\ main' = "running" /\ isApplicationOnCreateCalled' = isApplicationOnCreateCalled
      BY <1>12, <2>3 DEF CallApplicationOnCreate, GoTo
    <3>2. Straight => Limit(p) <= Limit(p)'
      <4>1. Straight => ~isApplicationOnCreateCalled
        BY <1>3, <2>1 DEF StraightInv
      <4>2. QED
        BY <2>1, <3>1, <4>1 DEF Limit
    <3>3. ~Both
      BY <2>3 DEF Both
    <3>4. QED
      BY <1>1, <1>2, <3>1, <3>2, <3>3, OnCreateReaches, HookedAppends DEF Events
  <2>4. QED
    BY <2>2, <2>3
<1>13. CASE OnCreate
  <2>1. main = "onCreate" /\ main' = "afterCreate"
    BY <1>13 DEF OnCreate, StartLoop
  <2>2. Limit(p) = 5 /\ Limit(p)' \in {6, 7}
    BY <2>1 DEF Limit
  <2>3. CASE delayed
    <3>1. calls' = calls
      BY <1>13, <2>3 DEF OnCreate, pluginVars
    <3>2. QED
      BY <1>4, <2>2, <3>1
  <2>4. CASE ~delayed
    <3>1. RunOnCreate
      BY <1>13, <2>4 DEF OnCreate
    <3>2. QED
      BY <1>1, <1>2, <2>2, <3>1, Ranks, OnCreateReaches, HookedAppends DEF Events
  <2>5. QED
    BY <2>3, <2>4
<1>14. CASE Delayed
  <2>1. calls' = calls /\ main = "running"
    BY <1>14 DEF Delayed, pluginVars
  <2>2. CASE main' = "finished"
    <3>1. Limit(p)' = 7 /\ Limit(p) <= 7
      BY <2>1, <2>2 DEF Limit
    <3>2. QED
      BY <1>4, <2>1, <3>1
  <2>3. CASE main' = "beforeNew" /\ ~isNewApplication
    <3>1. Limit(p) = 2 /\ Limit(p)' \in {2, 3}
      BY <2>1, <2>3 DEF Limit
    <3>2. QED
      BY <1>4, <2>1, <3>1
  <2>4. CASE main' = "beforeCreate" /\ ~isApplicationOnCreateCalled
    <3>1. Limit(p) \in {2, 4} /\ Limit(p)' \in {4, 5}
      BY <2>1, <2>4 DEF Limit
    <3>2. QED
      BY <1>4, <2>1, <3>1
  <2>5. QED
    BY <1>14, <2>2, <2>3, <2>4 DEF Delayed, StartLoop, GoTo
<1>15. QED
  BY <1>5, <1>6, <1>7, <1>8, <1>9, <1>10, <1>11, <1>12, <1>13, <1>14 DEF Main

-----------------------------------------------------------------------------
(* The plugins through a step of the main thread.                          *)

LEMMA OrderControl == OrderInv <=> ControlInv /\ WorkInv /\ EarlyInv /\ SettledInv
BY DEF OrderInv, ControlInv

LEMMA MainOrder ==
  ASSUME TypeOK, OrderInv, Main
  PROVE  OrderInv'
<1>1. /\ initState' = initState /\ work' = work /\ since' = since /\ meets' = meets /\ cached' = cached
      /\ calls \in [Plugins -> Seq(Range(LifeCycle))]
  BY MainLeavesTables DEF given, tableVars, TypeOK
<1>2. ControlInv /\ PhaseInv /\ WorkInv /\ EarlyInv /\ SettledInv
  BY OrderControl DEF ControlInv
<1>3. WorkInv'
  BY <1>1, <1>2 DEF WorkInv
\* The main thread starts once init is over, and stops when the app has settled.
<1>4. initState \in {"ran", "aborted"} /\ main # "finished"
  <2>1. main \notin {"start", "finished"} \/ NewApplication
    BY DEF Main, Visit, CallbackThrows, IteratorThrows, EndLoop, LeaveLoop, MakeApplication,
           Bind, CallApplicationOnCreate, OnCreate, Delayed, Loops
  <2>2. initState \in {"no", "running", "ran", "aborted"}
    BY DEF TypeOK
  <2>3. QED
    BY <1>2, <2>1, <2>2 DEF PhaseInv, NewApplication
<1>5. SettledInv'
  BY <1>1, <1>2, <1>4 DEF SettledInv, Settled
\* Where init ended early there are no hooks, and only onCreate itself is seen.
<1>6. ASSUME NEW p \in cached, initState = "aborted",
             calls[p] \in IF created THEN LoadedAtMost ELSE {<<>>, Loaded}
      PROVE  calls'[p] \in IF created' THEN LoadedAtMost ELSE {<<>>, Loaded}
  <2>1. main \notin Loops \cup {"new", "onCreate"} /\ ~hooked
    BY <1>2, <1>6 DEF PhaseInv, hooked
  <2>2. CASE NewApplication \/ Bind \/ Delayed
    BY <1>6, <2>2 DEF NewApplication, Bind, Delayed, pluginVars
  <2>3. CASE CallApplicationOnCreate
    <3>1. RunOnCreate /\ main = "created"
      BY <2>1, <2>3 DEF CallApplicationOnCreate
    <3>2. ~created /\ created'
      BY <1>2, <2>1, <3>1 DEF PhaseInv, RunOnCreate
    <3>3. calls'[p] = Append(calls[p], "onCreate")
      BY <3>1, OnCreateReaches
    <3>4. calls[p] = <<>> \/ calls[p] = Loaded
      BY <1>6, <3>2
    <3>5. Append(<<>>, "onCreate") = <<"onCreate">>
      OBVIOUS
    <3>6. QED
      BY <3>2, <3>3, <3>4, <3>5, CreatedAfterLoaded DEF LoadedAtMost
  <2>4. QED
    BY <2>1, <2>2, <2>3 DEF Main, Visit, CallbackThrows, IteratorThrows, EndLoop, LeaveLoop,
                            MakeApplication, OnCreate, Loops
<1>7. ASSUME NEW p \in Plugins, since'[p] = "early" PROVE Early(p)'
  <2>1. Early(p) /\ p \in cached
    BY <1>1, <1>2, <1>7 DEF EarlyInv, Early
  <2>2. initState' = "aborted" => calls'[p] \in IF created' THEN LoadedAtMost ELSE {<<>>, Loaded}
    BY <1>1, <1>6, <2>1 DEF Early
  <2>3. hooked' => HookedCalls(p)'
    BY <1>1, <1>2, <2>1, MainHooked DEF Early, hooked
  <2>4. p \in cached' /\ initState' \in {"ran", "aborted"}
    BY <1>1, <1>4, <2>1
  <2>5. QED
    BY <2>2, <2>3, <2>4 DEF Early
<1>8. EarlyInv'
  BY <1>7 DEF EarlyInv
<1>9. ControlInv'
  BY <1>2, MainControl
<1>10. QED
  BY <1>3, <1>5, <1>8, <1>9 DEF OrderInv, ControlInv

-----------------------------------------------------------------------------
(* The plugins through a step of the injector thread.                      *)

\* A plugin that is not called, and not loaded by init, stays as it is.
LEMMA EarlyStays ==
  ASSUME NEW p \in Plugins, Early(p), p \in cached', calls'[p] = calls[p],
         UNCHANGED <<mainVars, given, initState>>,
         initState = "running" => (p \in work'.left <=> p \in work.left)
  PROVE  Early(p)'
<1>1. /\ main' = main /\ todo' = todo /\ created' = created /\ isNewApplication' = isNewApplication
      /\ isApplicationOnCreateCalled' = isApplicationOnCreateCalled /\ meets' = meets /\ initState' = initState
  BY DEF mainVars, given
<1>2. Limit(p)' = Limit(p)
  BY <1>1 DEF Limit
<1>3. (Straight' <=> Straight) /\ (Both' <=> Both) /\ (hooked' <=> hooked)
  BY <1>1 DEF Straight, Both, hooked
<1>4. HookedCalls(p) => HookedCalls(p)'
  <2>1. PICK s, k : s = calls[p] /\ s = calls'[p] /\ k = Limit(p) /\ k = Limit(p)'
    BY <1>2
  <2>2. QED
    BY <1>3, <2>1 DEF HookedCalls
<1>5. QED
  BY <1>1, <1>3, <1>4 DEF Early

LEMMA SettledStays ==
  ASSUME NEW p \in Plugins, Settled(p), calls'[p] = calls[p], main' = main,
         work'.op \in {"added", "calling"} => work'.plugin # p \/ work' = work
  PROVE  Settled(p)'
BY DEF Settled

PluginsInv == WorkInv /\ EarlyInv /\ SettledInv

\* Steps that call no plugin and remove none, and leave or end a request.
LEMMA OrderStays ==
  ASSUME TypeOK, PluginsInv, UNCHANGED <<mainVars, given, initState, cached, calls, since>>,
         work' = work \/ (work' = Idle /\ initState # "running")
  PROVE  PluginsInv'
<1>1. work' = work \/ (work'.op = "idle" /\ initState # "running")
  BY DEF Idle
<1>2. WorkInv'
  BY <1>1 DEF PluginsInv, WorkInv
<1>3. EarlyInv'
  BY <1>1, EarlyStays DEF PluginsInv, EarlyInv, Early
<1>4. SettledInv'
  BY <1>1, SettledStays DEF PluginsInv, SettledInv, mainVars
<1>5. QED
  BY <1>2, <1>3, <1>4 DEF PluginsInv

\* A plugin is new to the table: waiting for init, in a settled app, or in between.
LEMMA AddedOrder ==
  ASSUME TypeOK, ControlInv, PluginsInv, NEW q \in Plugins, NEW c \in setup.configs, AppendNew(q, c)
  PROVE  PluginsInv'
<1>1. /\ UNCHANGED <<mainVars, given, initState>> /\ main' = main
      /\ work = Idle /\ work' = [op |-> "added", plugin |-> q]
      /\ cached' = cached \cup {q} /\ q \notin cached
      /\ since' = [since EXCEPT ![q] = When]
      /\ calls' = [calls EXCEPT ![q] = IF created THEN <<"onCreate">> ELSE <<>>]
  BY DEF AppendNew, Request, mainVars
<1>2. /\ work.op = "idle" /\ work'.op = "added" /\ work'.plugin = q /\ initState # "running"
      /\ PhaseInv
  BY <1>1 DEF ControlInv, PhaseInv, Idle
<1>3. since'[q] = When /\ calls'[q] = IF created THEN <<"onCreate">> ELSE <<>>
  BY <1>1 DEF TypeOK
<1>4. \A p \in Plugins \ {q} : since'[p] = since[p] /\ calls'[p] = calls[p]
  BY <1>1 DEF TypeOK
<1>5. When = "early" => initState = "no" /\ ~current /\ main = "start" /\ ~hooked
  BY <1>2 DEF When, PhaseInv, hooked
<1>6. WorkInv'
  BY <1>1, <1>2, <1>3, <1>5 DEF WorkInv
<1>7. ASSUME NEW p \in Plugins, since'[p] = "early" PROVE Early(p)'
  <2>1. CASE p = q
    <3>1. initState' = "no" /\ main' = "start" /\ ~hooked' /\ ~created
      BY <1>1, <1>2, <1>3, <1>5, <1>7, <2>1 DEF PhaseInv, hooked
    <3>2. QED
      BY <1>1, <1>3, <2>1, <3>1 DEF Early
  <2>2. CASE p # q
    <3>1. Early(p)
      BY <1>4, <1>7, <2>2 DEF PluginsInv, EarlyInv
    <3>2. p \in cached'
      BY <1>1, <3>1 DEF Early
    <3>3. QED
      BY <1>1, <1>2, <1>4, <2>2, <3>1, <3>2, EarlyStays
  <2>3. QED
    BY <2>1, <2>2
<1>8. ASSUME NEW p \in Plugins, since'[p] = "settled" PROVE Settled(p)'
  <2>1. CASE p = q
    <3>1. main' = "finished"
      BY <1>1, <1>3, <1>8, <2>1 DEF When
    <3>2. Called(calls'[p]) = {}
      BY <1>3, <2>1 DEF Called
    <3>3. LoadedFirst(calls'[p]) /\ CallbacksInOrder(calls'[p])
      BY <3>2 DEF LoadedFirst, CallbacksInOrder
    <3>4. QED
      BY <1>2, <3>1, <3>2, <3>3 DEF Settled
  <2>2. CASE p # q
    <3>1. Settled(p)
      BY <1>4, <1>8, <2>2 DEF PluginsInv, SettledInv
    <3>2. QED
      BY <1>1, <1>2, <1>4, <2>2, <3>1, SettledStays
  <2>3. QED
    BY <2>1, <2>2
<1>9. QED
  BY <1>6, <1>7, <1>8 DEF PluginsInv, EarlyInv, SettledInv

\* Plugins leave the table; the others are not touched.
LEMMA UnloadedOrder ==
  ASSUME TypeOK, ControlInv, PluginsInv, NEW d \in Dexes, UnloadDex(d)
  PROVE  PluginsInv'
<1>1. PICK removed : /\ cached' = cached \ removed
                     /\ calls' = [p \in Plugins |-> IF p \in removed THEN <<>> ELSE calls[p]]
                     /\ since' = [p \in Plugins |-> IF p \in removed THEN "never" ELSE since[p]]
                     /\ UNCHANGED <<mainVars, given, initState, work>> /\ work = Idle
  BY DEF UnloadDex, Request
<1>2. work'.op = "idle" /\ work.op = "idle" /\ initState # "running" /\ main' = main
  BY <1>1 DEF ControlInv, PhaseInv, Idle, mainVars
<1>3. WorkInv'
  BY <1>2 DEF WorkInv
<1>4. ASSUME NEW p \in Plugins, since'[p] = "early" PROVE Early(p)'
  <2>1. since[p] = "early" /\ p \notin removed /\ calls'[p] = calls[p]
    BY <1>1, <1>4
  <2>2. Early(p)
    BY <2>1 DEF PluginsInv, EarlyInv
  <2>3. p \in cached'
    BY <1>1, <2>1, <2>2 DEF Early
  <2>4. QED
    BY <1>1, <1>2, <2>1, <2>2, <2>3, EarlyStays
<1>5. ASSUME NEW p \in Plugins, since'[p] = "settled" PROVE Settled(p)'
  <2>1. since[p] = "settled" /\ calls'[p] = calls[p]
    BY <1>1, <1>5
  <2>2. QED
    BY <1>2, <2>1, SettledStays DEF PluginsInv, SettledInv
<1>6. QED
  BY <1>3, <1>4, <1>5 DEF PluginsInv, EarlyInv, SettledInv

LEMMA LoadAppends ==
  ASSUME NEW s \in Seq(Events)
  PROVE  /\ s \o <<"load">> \o <<>> = Append(s, "load")
         /\ s = <<>> => s \o <<"load">> \o <<"beforeMake">> = Loaded
<1>1. "load" \in Events /\ <<"load">> \in Seq(Events)
  BY DEF Events
<1>2. s \o <<"load">> = Append(s, "load") /\ s \o <<"load">> \in Seq(Events)
  BY <1>1, AppendIsConcat, AppendProperties
<1>3. s \o <<"load">> \o <<>> = Append(s, "load")
  BY <1>2, ConcatEmptySeq
<1>4. <<>> \o <<"load">> = <<"load">>
  BY <1>1, ConcatEmptySeq
<1>5. <<"load">> \o <<"beforeMake">> = Loaded
  <2>1. PICK a, b : a = <<"load">> /\ b = <<"beforeMake">>
    OBVIOUS
  <2>2. /\ a \in Seq(Events) /\ b \in Seq(Events) /\ Len(a) = 1 /\ Len(b) = 1
        /\ a[1] = "load" /\ b[1] = "beforeMake"
    BY <2>1 DEF Events
  <2>3. PICK l : l = Loaded
    OBVIOUS
  <2>4. l \in Seq(Events) /\ Len(l) = 2 /\ l[1] = "load" /\ l[2] = "beforeMake"
    BY <2>3 DEF Loaded, Events
  <2>5. /\ a \o b \in Seq(Events) /\ Len(a \o b) = 2
        /\ \A i \in 1..2 : (a \o b)[i] = IF i <= 1 THEN a[i] ELSE b[i - 1]
    BY <2>2, ConcatProperties
  <2>6. \A i \in 1..2 : i = 1 \/ i = 2
    OBVIOUS
  <2>7. \A i \in 1..2 : (a \o b)[i] = l[i]
    BY <2>2, <2>4, <2>5, <2>6
  <2>8. a \o b = l
    BY <2>4, <2>5, <2>7, SeqEqual
  <2>9. QED
    BY <2>1, <2>3, <2>8
<1>6. QED
  BY <1>3, <1>4, <1>5

\* appendPlugin goes on once the application is there: the plugin it works for does
\* not wait for init.
LEMMA FinishedOrder ==
  ASSUME TypeOK, ControlInv, PluginsInv, FinishAppend
  PROVE  PluginsInv'
<1>1. /\ UNCHANGED <<mainVars, given, initState, cached>> /\ main' = main
      /\ work.op = "added" /\ work.plugin \in Plugins /\ initState # "running"
  BY WorkKinds DEF FinishAppend, tableVars, mainVars, ControlInv, PhaseInv
<1>2. CASE UNCHANGED <<calls, since>> /\ work' = Idle
  BY <1>1, <1>2, OrderStays
<1>3. CASE current /\ LoadAcceptedThen(work.plugin, <<>>) /\ work' = [op |-> "calling", plugin |-> work.plugin, next |-> 1]
  <2>1. PICK q \in Plugins : q = work.plugin
    BY <1>1
  <2>2. /\ work'.op = "calling" /\ work'.plugin = q /\ work'.next = 1
    BY <1>3, <2>1
  <2>3. /\ since' = since
        /\ calls' = [calls EXCEPT ![q] = calls[q] \o <<"load">> \o <<>>]
    BY <1>3, <2>1 DEF LoadAcceptedThen
  <2>4. calls \in [Plugins -> Seq(Events)]
    BY EventsOfLifeCycle DEF TypeOK
  <2>5. calls'[q] = Append(calls[q], "load") /\ \A p \in Plugins \ {q} : calls'[p] = calls[p]
    BY <2>3, <2>4, LoadAppends
  <2>6. since[q] # "early"
    <3>1. ASSUME since[q] = "early" PROVE FALSE
      <4>1. initState = "no" /\ Early(q)
        BY <1>1, <2>1, <3>1 DEF PluginsInv, WorkInv, EarlyInv
      <4>2. main = "start"
        BY <4>1 DEF Early
      <4>3. QED
        BY <1>3, <4>1, <4>2 DEF ControlInv, PhaseInv
    <3>2. QED
      BY <3>1
  <2>7. WorkInv'
    BY <2>2, <2>3, <2>6 DEF WorkInv
  <2>8. ASSUME NEW p \in Plugins, since'[p] = "early" PROVE Early(p)'
    <3>1. Early(p) /\ p # q
      BY <2>3, <2>6, <2>8 DEF PluginsInv, EarlyInv
    <3>2. p \in cached'
      BY <1>1, <3>1 DEF Early
    <3>3. QED
      BY <1>1, <2>5, <3>1, <3>2, EarlyStays
  <2>9. ASSUME NEW p \in Plugins, since'[p] = "settled" PROVE Settled(p)'
    <3>1. Settled(p)
      BY <2>3, <2>9 DEF PluginsInv, SettledInv
    <3>2. CASE p # q
      BY <1>1, <2>2, <2>5, <3>1, <3>2, SettledStays
    <3>3. CASE p = q
      <4>1. PICK s \in Seq(Events) : s = calls[p]
        BY <2>4
      <4>2. Called(s) = {} /\ LoadedFirst(s) /\ CallbacksInOrder(s) /\ main = "finished"
        BY <1>1, <2>1, <3>1, <3>3, <4>1 DEF Settled
      <4>3. "load" \in Events /\ Len(s) \in Nat
        BY DEF Events
      <4>4. LoadedFirst(Append(s, "load"))
        BY <4>2, <4>3, AppendLoadedFirst
      <4>5. CallbacksInOrder(Append(s, "load"))
        BY <4>2, <4>3, AppendCallbacksInOrder
      <4>6. \A i \in Called(Append(s, "load")) : i = Len(s) + 1
        BY <4>2, <4>3, OneMore DEF Called
      <4>7. Append(s, "load")[Len(s) + 1] = "load" /\ Len(s) + 1 \in DOMAIN Append(s, "load")
        BY <4>3, OneMore
      <4>8. AttachCallbacks[1] = "beforeNew" /\ Rank("load") = 1 /\ Rank("beforeNew") = 3
        BY Ranks DEF AttachCallbacks
      <4>9. \A i \in Called(Append(s, "load")) : Rank(Append(s, "load")[i]) < Rank(AttachCallbacks[1])
        BY <4>6, <4>7, <4>8
      <4>10. calls'[p] = Append(s, "load")
        BY <2>5, <3>3, <4>1
      <4>11. QED
        BY <1>1, <2>2, <4>2, <4>4, <4>5, <4>7, <4>9, <4>10 DEF Settled
    <3>4. QED
      BY <3>2, <3>3
  <2>10. QED
    BY <2>7, <2>8, <2>9 DEF PluginsInv, EarlyInv, SettledInv
<1>4. QED
  BY <1>2, <1>3 DEF FinishAppend, LoadFailed, pluginVars

LEMMA AttachedOrder ==
  ASSUME TypeOK, ControlInv, PluginsInv, CallAttached
  PROVE  PluginsInv'
<1>1. PICK q \in Plugins, n \in 1..4 :
        work.plugin = q /\ work.next = n /\ work = [op |-> "calling", plugin |-> q, next |-> n]
  BY WorkKinds DEF CallAttached
<1>2. /\ UNCHANGED <<mainVars, given, initState, cached, since>> /\ main' = main
      /\ work.op = "calling" /\ initState # "running"
      /\ calls' = [calls EXCEPT ![q] = Append(calls[q], AttachCallbacks[n])]
  BY <1>1 DEF CallAttached, tableVars, mainVars, ControlInv, PhaseInv
<1>3. work' = Idle \/ (n # 4 /\ work' = [work EXCEPT !.next = n + 1])
  <2>1. Len(AttachCallbacks) = 4
    BY DEF AttachCallbacks
  <2>2. QED
    BY <1>1, <2>1 DEF CallAttached
<1>4. \/ work'.op = "idle"
      \/ n # 4 /\ work'.op = "calling" /\ work'.plugin = q /\ work'.next = n + 1
  BY <1>1, <1>3 DEF Idle
<1>5. calls \in [Plugins -> Seq(Events)]
  BY EventsOfLifeCycle DEF TypeOK
<1>6. /\ calls'[q] = Append(calls[q], AttachCallbacks[n])
      /\ \A p \in Plugins \ {q} : calls'[p] = calls[p]
  BY <1>2, <1>5
<1>7. since[q] # "early"
  BY <1>1, <1>2 DEF PluginsInv, WorkInv
<1>8. WorkInv'
  BY <1>2, <1>4, <1>7 DEF WorkInv
<1>9. ASSUME NEW p \in Plugins, since'[p] = "early" PROVE Early(p)'
  <2>1. Early(p) /\ p # q
    BY <1>2, <1>7, <1>9 DEF PluginsInv, EarlyInv
  <2>2. p \in cached'
    BY <1>2, <2>1 DEF Early
  <2>3. QED
    BY <1>2, <1>6, <2>1, <2>2, EarlyStays
<1>10. ASSUME NEW p \in Plugins, since'[p] = "settled" PROVE Settled(p)'
  <2>1. Settled(p)
    BY <1>2, <1>10 DEF PluginsInv, SettledInv
  <2>2. CASE p # q
    BY <1>2, <1>4, <1>6, <2>1, <2>2, SettledStays
  <2>3. CASE p = q
    <3>1. PICK s \in Seq(Events) : s = calls[p]
      BY <1>5
    <3>2. PICK e \in Events : e = AttachCallbacks[n] /\ e # "onCreate"
      BY DEF AttachCallbacks, Events
    <3>3. /\ LoadedFirst(s) /\ CallbacksInOrder(s) /\ main = "finished"
          /\ \E i \in DOMAIN s : s[i] = "load"
          /\ \A i \in Called(s) : Rank(s[i]) < Rank(e)
      BY <1>1, <1>2, <2>1, <2>3, <3>1, <3>2 DEF Settled
    <3>4. LoadedFirst(Append(s, e))
      BY <3>3, AppendLoadedFirst
    <3>5. CallbacksInOrder(Append(s, e))
      BY <3>3, AppendCallbacksInOrder
    <3>6. \E i \in DOMAIN Append(s, e) : Append(s, e)[i] = "load"
      BY <3>3, OneMore
    <3>7. n # 4 => Rank(e) < Rank(AttachCallbacks[n + 1])
      <4>1. /\ AttachCallbacks[1] = "beforeNew" /\ AttachCallbacks[2] = "afterNew"
            /\ AttachCallbacks[3] = "beforeCreate" /\ AttachCallbacks[4] = "afterCreate"
        BY DEF AttachCallbacks
      <4>2. n = 1 \/ n = 2 \/ n = 3 \/ n = 4
        OBVIOUS
      <4>3. CASE n = 1
        BY <3>2, <4>1, <4>3, Ranks
      <4>4. CASE n = 2
        BY <3>2, <4>1, <4>4, Ranks
      <4>5. CASE n = 3
        BY <3>2, <4>1, <4>5, Ranks
      <4>6. QED
        BY <4>2, <4>3, <4>4, <4>5
    <3>8. \A i \in Called(Append(s, e)) : Rank(Append(s, e)[i]) = Rank(e) \/ Rank(Append(s, e)[i]) < Rank(e)
      <4>1. \A i \in Called(Append(s, e)) : i \in Called(s) \/ i = Len(s) + 1
        BY OneMore DEF Called
      <4>2. \A i \in Called(s) : Append(s, e)[i] = s[i]
        BY OneMore DEF Called
      <4>3. Append(s, e)[Len(s) + 1] = e
        BY OneMore
      <4>4. QED
        BY <3>3, <4>1, <4>2, <4>3
    <3>9. n # 4 => \A i \in Called(Append(s, e)) : Rank(Append(s, e)[i]) < Rank(AttachCallbacks[n + 1])
      <4>1. PICK t \in Seq(Events) : t = Append(s, e)
        BY OneMore
      <4>2. n # 4 => AttachCallbacks[n + 1] \in Events
        BY DEF AttachCallbacks, Events
      <4>3. Rank(e) \in Nat /\ (n # 4 => Rank(AttachCallbacks[n + 1]) \in Nat)
        BY <4>2, Numbers
      <4>4. \A i \in Called(t) : t[i] \in Events
        BY DEF Called
      <4>5. \A i \in Called(t) : Rank(t[i]) \in Nat
        BY <4>4, Numbers
      <4>6. \A i \in Called(t) : Rank(t[i]) = Rank(e) \/ Rank(t[i]) < Rank(e)
        BY <3>8, <4>1
      <4>7. n # 4 => \A i \in Called(t) : Rank(t[i]) < Rank(AttachCallbacks[n + 1])
        BY <3>7, <4>3, <4>5, <4>6
      <4>8. QED
        BY <4>1, <4>7
    <3>10. calls'[p] = Append(s, e)
      BY <1>6, <2>3, <3>1, <3>2
    <3>11. QED
      BY <1>2, <1>4, <3>3, <3>4, <3>5, <3>6, <3>9, <3>10 DEF Settled
  <2>4. QED
    BY <2>2, <2>3
<1>11. QED
  BY <1>8, <1>9, <1>10 DEF PluginsInv, EarlyInv, SettledInv

\* While init runs the app has neither settled nor started.
LEMMA NoneSettled ==
  ASSUME ControlInv, PluginsInv, initState = "running" \/ main = "start"
  PROVE  main = "start" /\ \A p \in Plugins : since[p] # "settled"
BY DEF ControlInv, PhaseInv, PluginsInv, SettledInv, Settled

LEMMA BeganOrder ==
  ASSUME TypeOK, ControlInv, PluginsInv, BeginInit
  PROVE  PluginsInv'
<1>1. /\ main = "start" /\ initState = "no" /\ initState' = "running"
      /\ work' = [op |-> "init", left |-> cached]
      /\ cached' = cached /\ calls' = calls /\ since' = since
  BY DEF BeginInit, tableVars, pluginVars
<1>2. work'.op = "init" /\ work'.left = cached
  BY <1>1
<1>3. \A p \in Plugins : since[p] # "settled"
  BY <1>1, NoneSettled
<1>4. EarlyInv'
  BY <1>1, <1>2 DEF PluginsInv, EarlyInv, Early, hooked
<1>5. QED
  BY <1>1, <1>2, <1>3, <1>4 DEF PluginsInv, WorkInv, SettledInv

\* init loads one plugin after another, and may end at any of them.
LEMMA InitOrder ==
  ASSUME TypeOK, ControlInv, PluginsInv, NEW q \in Plugins,
         InitLoad(q) \/ InitAborts(q) \/ InitThrows(q)
  PROVE  PluginsInv'
<1>1. /\ work.op = "init" /\ q \in work.left /\ initState = "running" /\ main = "start"
      /\ cached' = cached /\ since' = since /\ main' = main /\ created' = created
      /\ work = [op |-> "init", left |-> work.left]
  BY WorkKinds DEF InitLoad, InitAborts, InitThrows, LoadAcceptedThen, LoadFailed, ControlInv, PhaseInv,
                   tableVars, mainVars
<1>2. ~created /\ \A p \in Plugins : since[p] # "settled"
  BY <1>1, NoneSettled DEF ControlInv, PhaseInv, hooked
<1>3. calls \in [Plugins -> Seq(Events)]
  BY EventsOfLifeCycle DEF TypeOK
<1>4. \A p \in Plugins : since[p] = "early" => p \in cached /\ calls[p] = IF p \in work.left THEN <<>> ELSE Loaded
  BY <1>1 DEF PluginsInv, EarlyInv, Early
<1>5. \/ InitLoad(q) \/ InitThrows(q)
      \/ InitAborts(q) /\ calls' = calls
  BY DEF InitAborts, LoadFailed
<1>6. InitLoad(q) \/ InitThrows(q) => calls' = [calls EXCEPT ![q] = calls[q] \o <<"load">> \o <<"beforeMake">>]
  BY DEF InitLoad, InitThrows, LoadAcceptedThen
\* What becomes of the plugins when init goes on, and when it ends here.
<1>7. ASSUME NEW p \in Plugins, since[p] = "early", InitLoad(q) \/ InitThrows(q)
      PROVE  calls'[p] = IF p \in work.left \ {q} THEN <<>> ELSE Loaded
  <2>1. CASE p = q
    <3>1. calls[q] = <<>>
      BY <1>1, <1>4, <1>7, <2>1
    <3>2. calls'[q] = calls[q] \o <<"load">> \o <<"beforeMake">>
      BY <1>3, <1>6, <1>7
    <3>3. calls[q] \o <<"load">> \o <<"beforeMake">> = Loaded
      BY <1>3, <3>1, LoadAppends
    <3>4. QED
      BY <2>1, <3>2, <3>3
  <2>2. CASE p # q
    BY <1>3, <1>4, <1>6, <1>7, <2>2
  <2>3. QED
    BY <2>1, <2>2
<1>8. CASE InitLoad(q)
  <2>1. work'.op = "init" /\ work'.left = work.left \ {q} /\ initState' = "running"
    BY <1>1, <1>8 DEF InitLoad
  <2>2. EarlyInv'
    BY <1>1, <1>4, <1>7, <1>8, <2>1 DEF EarlyInv, Early, hooked
  <2>3. QED
    BY <1>1, <1>2, <2>1, <2>2 DEF PluginsInv, WorkInv, SettledInv
<1>9. CASE InitAborts(q) \/ InitThrows(q)
  <2>1. work'.op = "idle" /\ initState' = "aborted"
    BY <1>9 DEF InitAborts, InitThrows, Idle
  <2>2. \A p \in Plugins : since[p] = "early" => calls'[p] \in {<<>>, Loaded}
    BY <1>4, <1>5, <1>7, <1>9
  <2>3. EarlyInv'
    BY <1>1, <1>2, <1>4, <2>1, <2>2 DEF EarlyInv, Early, hooked
  <2>4. QED
    BY <1>1, <1>2, <2>1, <2>3 DEF PluginsInv, WorkInv, SettledInv
<1>10. QED
  BY <1>8, <1>9

\* All of them have been loaded when the hooks go in.
LEMMA HookedOrder ==
  ASSUME TypeOK, ControlInv, PluginsInv, InitHooks, initState' = "ran"
  PROVE  PluginsInv'
<1>1. /\ work.op = "init" /\ work.left = {} /\ initState = "running" /\ main = "start"
      /\ initState' = "ran" /\ work'.op = "idle"
      /\ cached' = cached /\ calls' = calls /\ since' = since /\ main' = main
  BY DEF InitHooks, ControlInv, PhaseInv, tableVars, pluginVars, mainVars, Idle
<1>2. \A p \in Plugins : since[p] # "settled"
  BY <1>1, NoneSettled
<1>3. ASSUME NEW p \in Plugins, since'[p] = "early" PROVE Early(p)'
  <2>1. p \in cached /\ calls'[p] = Loaded
    BY <1>1, <1>3 DEF PluginsInv, EarlyInv, Early
  <2>2. Limit(p)' = 2
    BY <1>1 DEF Limit
  <2>3. PICK s : s = Loaded
    OBVIOUS
  <2>4. /\ s # <<>> /\ s[1] = "load" /\ InOrder(s) /\ CallbacksInOrder(s)
        /\ \A i \in DOMAIN s : Rank(s[i]) <= 2
        /\ Called(s) \subseteq DOMAIN s
    BY <2>3, LoadedSequence DEF Called
  <2>5. HookedCalls(p)'
    BY <2>1, <2>2, <2>3, <2>4 DEF HookedCalls
  <2>6. QED
    BY <1>1, <2>1, <2>5 DEF Early
<1>4. QED
  BY <1>1, <1>2, <1>3 DEF PluginsInv, WorkInv, EarlyInv, SettledInv

\* If they do not go in, nobody calls the plugins any more.
LEMMA UnhookedOrder ==
  ASSUME TypeOK, ControlInv, PluginsInv, InitHooks, initState' = "aborted"
  PROVE  PluginsInv'
<1>1. /\ work.op = "init" /\ work.left = {} /\ initState = "running" /\ main = "start"
      /\ cached' = cached /\ since' = since /\ main' = main /\ created' = created /\ calls' = calls
      /\ work'.op = "idle" /\ work = [op |-> "init", left |-> work.left]
  BY WorkKinds DEF InitHooks, ControlInv, PhaseInv, tableVars, pluginVars, mainVars, Idle
<1>2. ~created /\ \A p \in Plugins : since[p] # "settled"
  BY <1>1, NoneSettled DEF ControlInv, PhaseInv, hooked
<1>3. \A p \in Plugins : since[p] = "early" => p \in cached /\ calls[p] = Loaded
  BY <1>1 DEF PluginsInv, EarlyInv, Early
<1>4. EarlyInv'
  BY <1>1, <1>2, <1>3 DEF EarlyInv, Early, hooked
<1>5. QED
  BY <1>1, <1>2, <1>4 DEF PluginsInv, WorkInv, SettledInv

LEMMA InjectorOrder ==
  ASSUME TypeOK, OrderInv, Injector \/ UNCHANGED vars
  PROVE  OrderInv'
<1>1. ControlInv /\ PluginsInv
  BY OrderControl DEF PluginsInv
<1>2. ControlInv'
  BY <1>1, InjectorControl
<1>3. ASSUME NEW p \in Plugins,
             (\E c \in setup.configs : AppendKnown(p, c)) \/ AppendNewFails(p) \/ Disable(p)
      PROVE  PluginsInv'
  BY <1>1, <1>3, OrderStays DEF AppendKnown, AppendNewFails, Disable, tableVars, pluginVars
<1>4. ASSUME NEW d \in Dexes, UnloadThrows(d) PROVE PluginsInv'
  BY <1>1, <1>4, OrderStays DEF UnloadThrows
<1>5. ASSUME UNCHANGED vars PROVE PluginsInv'
  <2>1. work' = work /\ initState' = initState /\ cached' = cached /\ calls' = calls /\ since' = since
    BY <1>5 DEF vars, tableVars, pluginVars, injectorVars
  <2>2. UNCHANGED <<mainVars, given>>
    BY <1>5 DEF vars
  <2>3. QED
    BY <1>1, <2>1, <2>2, OrderStays DEF mainVars, given
<1>6. ASSUME NEW p \in Plugins, NEW c \in setup.configs, AppendNew(p, c) PROVE PluginsInv'
  BY <1>1, <1>6, AddedOrder
<1>7. ASSUME NEW d \in Dexes, UnloadDex(d) PROVE PluginsInv'
  BY <1>1, <1>7, UnloadedOrder
<1>8. ASSUME NEW p \in Plugins, InitLoad(p) \/ InitAborts(p) \/ InitThrows(p) PROVE PluginsInv'
  BY <1>1, <1>8, InitOrder
<1>9. ASSUME FinishAppend PROVE PluginsInv'
  BY <1>1, <1>9, FinishedOrder
<1>10. ASSUME CallAttached PROVE PluginsInv'
  BY <1>1, <1>10, AttachedOrder
<1>11. ASSUME BeginInit PROVE PluginsInv'
  BY <1>1, <1>11, BeganOrder
<1>12. ASSUME InitHooks PROVE PluginsInv'
  <2>1. initState' = "ran" \/ initState' = "aborted"
    BY <1>12 DEF InitHooks
  <2>2. QED
    BY <1>1, <1>12, <2>1, HookedOrder, UnhookedOrder
<1>13. PluginsInv'
  BY <1>3, <1>4, <1>5, <1>6, <1>7, <1>8, <1>9, <1>10, <1>11, <1>12 DEF Injector
<1>14. QED
  BY <1>2, <1>13 DEF OrderInv, ControlInv, PluginsInv

LEMMA InitOrderInv == Init => OrderInv
<1> SUFFICES ASSUME Init PROVE OrderInv
  OBVIOUS
<1>1. /\ work.op = "idle" /\ initState = "no"
      /\ \A p \in Plugins : since[p] = "never"
      /\ (main = "start" /\ ~current) \/ (main = "finished" /\ current)
      /\ main = "start" => ~created
      /\ ~isNewApplication /\ ~isApplicationOnCreateCalled /\ ~delayed
  BY AgentAssumption DEF Init, Idle
<1>2. PhaseInv /\ StraightInv /\ (Both => BothInv)
  BY <1>1 DEF PhaseInv, StraightInv, Both, hooked, Loops
<1>3. QED
  BY <1>1, <1>2 DEF OrderInv, WorkInv, EarlyInv, SettledInv

\* The invariant says of the plugins in the table what CallsInOrder asks.
LEMMA OrderSuffices ==
  ASSUME TypeOK, OrderInv
  PROVE  CallsInOrder
<1>1. ASSUME NEW p \in cached, since[p] = "settled"
      PROVE  LoadedFirst(calls[p]) /\ CallbacksInOrder(calls[p])
  BY <1>1 DEF OrderInv, SettledInv, Settled, TypeOK
<1>2. ASSUME NEW p \in cached, since[p] = "early"
      PROVE  /\ LoadedFirst(calls[p])
             /\ initState = "aborted" => calls[p] \in LoadedAtMost
             /\ Straight => CallbacksInOrder(calls[p])
             /\ Both => InOrder(calls[p])
  <2>1. Early(p)
    BY <1>2 DEF OrderInv, EarlyInv, TypeOK
  <2>2. CASE hooked
    <3>1. calls[p] # <<>> /\ calls[p][1] = "load" /\ calls[p] \in Seq(Range(LifeCycle))
      BY <2>1, <2>2 DEF Early, HookedCalls, TypeOK
    <3>2. \A j \in Called(calls[p]) : 1 \in 1..j
      BY <3>1 DEF Called
    <3>3. LoadedFirst(calls[p])
      BY <3>1, <3>2 DEF LoadedFirst
    <3>4. QED
      BY <2>1, <2>2, <3>3 DEF Early, HookedCalls, hooked
  <2>3. CASE ~hooked
    <3>1. initState \in {"no", "running", "aborted"}
      BY <2>3 DEF hooked, TypeOK
    <3>2. calls[p] \in LoadedAtMost
      BY <2>1, <3>1 DEF Early, LoadedAtMost, Loaded
    <3>3. QED
      BY <2>3, <3>2, AtMostLoadedSequences DEF Both
  <2>4. QED
    BY <2>2, <2>3
<1>3. QED
  BY <1>1, <1>2 DEF CallsInOrder, Straight, Both

\* However the delayed runnable and the hooks share the loops, whatever requests
\* come, fail, and throw meanwhile: a plugin that init loaded, or that joined a
\* settled app, is loaded first and sees each callback at most once, in the order
\* of the life cycle.
THEOREM PluginsAreCalledInOrder == Spec => []CallsInOrder
<1>1. TypeOK /\ OrderInv /\ [Next]_vars => OrderInv'
  BY InjectorOrder, MainOrder DEF Next
<1>2. TypeOK /\ OrderInv => CallsInOrder
  BY OrderSuffices
<1>3. QED
  BY InitTypes, NextTypes, InitOrderInv, <1>1, <1>2, PTL DEF Spec
=============================================================================
