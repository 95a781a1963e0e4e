---------------------------- MODULE PluginAgent ----------------------------
(***************************************************************************)
(* Plugins inside one app process: the table of DynamicPluginManager, the  *)
(* life of an AlbatrossPlugin, and the two threads of AppInjectAgent that  *)
(* drive it without a lock between them.  The injector thread runs what    *)
(* the native server asks for (appendPlugin, disablePlugin,                *)
(* unloadPluginDex, init); the main thread of the app runs the             *)
(* Instrumentation hooks, whose loops over the HashMap fail when the table *)
(* changes under them.                                                     *)
(*                                                                         *)
(* The native server and Android are external: a process is either found   *)
(* running (attach) or held until init has returned (launch); Android then *)
(* makes the Application, makes it the current one, and runs its onCreate. *)
(*                                                                         *)
(* A loop's fetch of a plugin and the callback it makes are one step: the  *)
(* callback touches only its plugin, so it commutes with what the other    *)
(* thread does between the two.  Reads of the table are those of a         *)
(* sequentially consistent memory.                                         *)
(***************************************************************************)
EXTENDS Naturals, Sequences, Functions

CONSTANTS
  Dexes,        \* paths of plugin files
  Classes,      \* plugin classes in them
  Covers,       \* Covers[d]: the paths that start with path d, d itself included
  Configs,      \* arguments and flags a plugin can be given
  Null,         \* what parseParams(null, 0) is called with
  Unparsed,     \* parseParams has not been called on this plugin object
  Setups        \* the cases looked at:
                \* mode: how the process is entered, "launch" or "attach"
                \* throws: may a plugin's exception end an append or an unload half-way
                \* configs: those in use
                \* requests: bound on the requests of the native server

ASSUME AgentAssumption ==
  /\ Covers \in [Dexes -> SUBSET Dexes]
  /\ \A d \in Dexes : d \in Covers[d]
  /\ Configs # {}
  /\ Null \notin Configs /\ Unparsed \notin Configs /\ Null # Unparsed
  /\ Setups # {}
  /\ \A s \in Setups : /\ s.mode \in {"launch", "attach"} /\ s.throws \in BOOLEAN
                       /\ s.configs \subseteq Configs /\ s.requests \in Nat

Plugins == Dexes \X Classes   \* generatePluginKey: path and class name
DexOf(p) == p[1]

VARIABLES
  cached,      \* keys of pluginCache
  loaders,     \* keys of classLoaderCache
  enable,      \* enable[p], config[p]: fields of the cached plugin p
  config,      \* (config: its params and flags)
  parsed,      \* what its parseParams was last called with
  calls,       \* history: the callbacks it received, and where onCreate fell
  since,       \* history: when it was put in the table
  cutShort,    \* history: files whose unloading a plugin's exception cut short
  requests,    \* number of requests made
  work,        \* what the injector thread is in the middle of
  initState,   \* init(): "no", "running", "ran", "aborted"
  main,        \* where the main thread is
  todo,        \* plugins its loop has yet to visit
  stale,       \* pluginCache has changed (its modCount has) since the loop's iterator was made
  delayed,     \* it is in the runnable posted with postDelayed
  current,     \* Albatross.currentApplication() is not null
  created,     \* the application's onCreate has begun
  isNewApplication, isApplicationOnCreateCalled,   \* flags of the hooks
  meets,       \* the hooks this app's Instrumentation goes through
  setup        \* one of Setups

tableVars == <<cached, loaders, cutShort>>
pluginVars == <<enable, config, parsed, calls, since>>
injectorVars == <<requests, work, initState>>
\* stale aside, which the injector thread sets.
mainVars == <<main, todo, delayed, current, created,
              isNewApplication, isApplicationOnCreateCalled>>
given == <<meets, setup>>
vars == <<tableVars, pluginVars, injectorVars, mainVars, stale, given>>

\* The fields of a plugin that is not there.
AnyConfig == CHOOSE c \in Configs : TRUE

Idle == [op |-> "idle"]
Loops == {"beforeNew", "afterNew", "beforeCreate", "afterCreate"}
\* What a launched plugin should see, in order.
LifeCycle == <<"load", "beforeMake", "beforeNew", "afterNew",
               "beforeCreate", "onCreate", "afterCreate">>
\* The callbacks appendPlugin makes itself when the app is already running.
AttachCallbacks == <<"beforeNew", "afterNew", "beforeCreate", "afterCreate">>
hooked == initState = "ran"

(* The types of the state, and what a finished loop leaves: todo is the    *)
(* unvisited rest of the loop the main thread is in, and of nothing else.  *)
TypeOK ==
  /\ setup \in Setups
  /\ cached \in SUBSET Plugins
  /\ loaders \in SUBSET Dexes /\ cutShort \in SUBSET Dexes
  /\ enable \in [Plugins -> BOOLEAN]
  /\ config \in [Plugins -> Configs]
  /\ parsed \in [Plugins -> Configs \cup {Null, Unparsed}]
  /\ calls \in [Plugins -> Seq(Range(LifeCycle))]
  /\ since \in [Plugins -> {"never", "early", "startup", "settled"}]
  /\ requests \in 0..setup.requests
  /\ work \in {Idle} \cup [op : {"added"}, plugin : Plugins]
                     \cup [op : {"calling"}, plugin : Plugins, next : DOMAIN AttachCallbacks]
                     \cup [op : {"init"}, left : SUBSET Plugins]
  /\ initState \in {"no", "running", "ran", "aborted"}
  /\ main \in Loops \cup {"start", "new", "bind", "created", "onCreate", "running",
                          "finished", "died"}
  /\ todo \in SUBSET Plugins
  /\ main \notin Loops \cup {"died"} => todo = {}
  /\ stale \in BOOLEAN /\ (stale => main \in Loops \cup {"died"})
  /\ delayed \in BOOLEAN /\ current \in BOOLEAN /\ created \in BOOLEAN
  /\ isNewApplication \in BOOLEAN /\ isApplicationOnCreateCalled \in BOOLEAN
  /\ meets \in [{"new", "create", "second"} -> BOOLEAN]

Init ==
  /\ cached = {} /\ loaders = {} /\ cutShort = {}
  /\ enable = [p \in Plugins |-> FALSE]
  /\ config = [p \in Plugins |-> AnyConfig]
  /\ parsed = [p \in Plugins |-> Unparsed]
  /\ calls = [p \in Plugins |-> <<>>]
  /\ since = [p \in Plugins |-> "never"]
  /\ requests = 0 /\ work = Idle /\ initState = "no"
  /\ setup \in Setups
  /\ current = (setup.mode = "attach") /\ created = current
  /\ main = IF setup.mode = "attach" THEN "finished" ELSE "start"
  /\ todo = {} /\ stale = FALSE /\ delayed = FALSE
  /\ isNewApplication = FALSE /\ isApplicationOnCreateCalled = FALSE
  /\ meets \in [{"new", "create", "second"} -> BOOLEAN]
  /\ current => \A hook \in DOMAIN meets : ~meets[hook]   \* attached: too late for the hooks

-----------------------------------------------------------------------------
(* The injector thread: one request of the native server at a time.        *)

Request ==
  /\ work = Idle
  /\ requests < setup.requests
  /\ main # "died"
  /\ requests' = requests + 1

TableChanges == stale' = (stale \/ main \in Loops)

\* Mutant: only a plugin that was enabled parses its configuration.
AppendKnownLateEnable(p, c) ==
  /\ Request
  /\ p \in cached
  /\ config' = [config EXCEPT ![p] = c]
  /\ parsed' = IF config[p] # c /\ enable[p] THEN [parsed EXCEPT ![p] = c] ELSE parsed
  /\ enable' = [enable EXCEPT ![p] = TRUE]
  /\ UNCHANGED <<tableVars, calls, since, work, initState, mainVars, stale, given>>

\* A plugin that is there is switched on, and parses a configuration that differs.
AppendKnown(p, c) ==
  /\ Request
  /\ p \in cached
  /\ enable' = [enable EXCEPT ![p] = TRUE]
  /\ config' = [config EXCEPT ![p] = c]
  /\ parsed' = IF config[p] # c THEN [parsed EXCEPT ![p] = c] ELSE parsed
  /\ UNCHANGED <<tableVars, calls, since, work, initState, mainVars, stale, given>>

When == IF initState = "no" /\ ~current THEN "early"
        ELSE IF main = "finished" THEN "settled" ELSE "startup"

\* The loader stays even when the class cannot be loaded or constructed.
AppendNewFails(p) ==
  /\ Request
  /\ p \notin cached
  /\ loaders' = loaders \cup {DexOf(p)}
  /\ UNCHANGED <<cached, cutShort, stale, pluginVars, work, initState, mainVars, given>>

AppendNew(p, c) ==
  /\ Request
  /\ p \notin cached
  /\ loaders' = loaders \cup {DexOf(p)}
  /\ cached' = cached \cup {p}
  /\ TableChanges
  /\ enable' = [enable EXCEPT ![p] = FALSE]
  /\ config' = [config EXCEPT ![p] = c]
  /\ parsed' = [parsed EXCEPT ![p] = Unparsed]
  /\ calls' = [calls EXCEPT ![p] = IF created THEN <<"onCreate">> ELSE <<>>]
  /\ since' = [since EXCEPT ![p] = When]
  /\ work' = [op |-> "added", plugin |-> p]
  /\ UNCHANGED <<cutShort, initState, mainVars, given>>

(* AlbatrossPlugin.load: parseParams accepts, refuses, or something        *)
(* throws, loadLibrary before parseParams or parseParams itself.           *)
LoadAcceptedThen(p, callbacks) ==
  /\ enable' = [enable EXCEPT ![p] = TRUE]
  /\ parsed' = [parsed EXCEPT ![p] = config[p]]
  /\ calls' = [calls EXCEPT ![p] = @ \o <<"load">> \o callbacks]
  /\ UNCHANGED <<config, since>>

LoadFailed(p) ==
  /\ \/ enable' = [enable EXCEPT ![p] = TRUE] /\ parsed' = [parsed EXCEPT ![p] = config[p]]
     \/ enable' = [enable EXCEPT ![p] = FALSE] /\ parsed' \in {parsed, [parsed EXCEPT ![p] = config[p]]}
  /\ UNCHANGED <<config, calls, since>>

\* Back in appendPlugin, with the application as it is by now.
FinishAppend ==
  /\ work.op = "added"
  /\ main # "died"
  /\ IF current
       THEN \/ LoadAcceptedThen(work.plugin, <<>>) /\ work' = [op |-> "calling", plugin |-> work.plugin, next |-> 1]
            \/ LoadFailed(work.plugin) /\ work' = Idle
       ELSE work' = Idle /\ UNCHANGED pluginVars
  /\ UNCHANGED <<tableVars, requests, initState, mainVars, stale, given>>

\* A callback that throws ends the request: the rest are not made.
CallAttached ==
  /\ work.op = "calling"
  /\ main # "died"
  /\ calls' = [calls EXCEPT ![work.plugin] = Append(@, AttachCallbacks[work.next])]
  /\ work' \in IF work.next = Len(AttachCallbacks) THEN {Idle}
               ELSE {[work EXCEPT !.next = @ + 1]} \cup {w \in {Idle} : setup.throws}
  /\ UNCHANGED <<tableVars, enable, config, parsed, since, requests, initState, mainVars, stale, given>>

Disable(p) ==
  /\ Request
  /\ p \in cached
  /\ enable' = [enable EXCEPT ![p] = FALSE]
  /\ parsed' = [parsed EXCEPT ![p] = Null]
  /\ UNCHANGED <<tableVars, config, calls, since, work, initState, mainVars, stale, given>>

UnloadEnabled(d) ==
  LET removed == {p \in cached : DexOf(p) \in Covers[d] /\ enable[p]} IN
  /\ Request
  /\ d \in loaders
  /\ loaders' = loaders \ {d}
  /\ cached' = cached \ removed
  /\ IF removed = {} THEN UNCHANGED stale ELSE TableChanges
  /\ enable' = [p \in Plugins |-> enable[p] /\ p \notin removed]
  /\ parsed' = [p \in Plugins |-> IF p \in removed THEN Unparsed ELSE parsed[p]]
  /\ calls' = [p \in Plugins |-> IF p \in removed THEN <<>> ELSE calls[p]]
  /\ since' = [p \in Plugins |-> IF p \in removed THEN "never" ELSE since[p]]
  /\ config' = [p \in Plugins |-> IF p \in removed THEN AnyConfig ELSE config[p]]
  /\ UNCHANGED <<cutShort, work, initState, mainVars, given>>

\* Every plugin whose key starts with the path goes (unload disables it first).
UnloadDex(d) ==
  LET removed == {p \in cached : DexOf(p) \in Covers[d]} IN
  /\ Request
  /\ d \in loaders
  /\ loaders' = loaders \ {d}
  /\ cached' = cached \ removed
  /\ IF removed = {} THEN UNCHANGED stale ELSE TableChanges
  /\ enable' = [p \in Plugins |-> enable[p] /\ p \notin removed]
  /\ parsed' = [p \in Plugins |-> IF p \in removed THEN Unparsed ELSE parsed[p]]
  /\ calls' = [p \in Plugins |-> IF p \in removed THEN <<>> ELSE calls[p]]
  /\ since' = [p \in Plugins |-> IF p \in removed THEN "never" ELSE since[p]]
  /\ config' = [p \in Plugins |-> IF p \in removed THEN AnyConfig ELSE config[p]]
  /\ UNCHANGED <<cutShort, work, initState, mainVars, given>>

\* The parseParams(null, 0) of one of them throws: the plugins visited so far are
\* disabled, none is removed, and the loader is gone already.
UnloadThrows(d) ==
  /\ setup.throws
  /\ Request
  /\ d \in loaders
  /\ loaders' = loaders \ {d}
  /\ cutShort' = cutShort \cup {d}
  /\ \E visited \in SUBSET {p \in cached : DexOf(p) \in Covers[d]} :
       /\ visited # {}
       /\ enable' = [p \in Plugins |-> enable[p] /\ p \notin visited]
       /\ parsed' = [p \in Plugins |-> IF p \in visited THEN Null ELSE parsed[p]]
  /\ UNCHANGED <<cached, config, calls, since, work, initState, mainVars, stale, given>>

\* init is part of a launch only.
BeginInit ==
  /\ Request
  /\ main = "start" /\ initState = "no"
  /\ initState' = "running"
  /\ work' = [op |-> "init", left |-> cached]
  /\ UNCHANGED <<tableVars, pluginVars, mainVars, stale, given>>

InitLoad(p) ==
  /\ work.op = "init"
  /\ p \in work.left
  /\ LoadAcceptedThen(p, <<"beforeMake">>)
  /\ work' = [work EXCEPT !.left = @ \ {p}]
  /\ UNCHANGED <<tableVars, requests, initState, mainVars, stale, given>>

\* The first plugin that does not load ends init: no hooks are installed.
InitAborts(p) ==
  /\ work.op = "init"
  /\ p \in work.left
  /\ LoadFailed(p)
  /\ initState' = "aborted"
  /\ work' = Idle
  /\ UNCHANGED <<tableVars, requests, mainVars, stale, given>>

\* Nor are they when a beforeMakeApplication throws.
InitThrows(p) ==
  /\ work.op = "init"
  /\ p \in work.left
  /\ LoadAcceptedThen(p, <<"beforeMake">>)
  /\ initState' = "aborted"
  /\ work' = Idle
  /\ UNCHANGED <<tableVars, requests, mainVars, stale, given>>

\* Or when hookClass raises.
InitHooks ==
  /\ work.op = "init"
  /\ work.left = {}
  /\ initState' \in {"ran", "aborted"}
  /\ work' = Idle
  /\ UNCHANGED <<tableVars, pluginVars, requests, mainVars, stale, given>>

Injector ==
  \/ \E p \in Plugins :
       \/ \E c \in setup.configs : AppendKnown(p, c) \/ AppendNew(p, c)
       \/ AppendNewFails(p)
       \/ Disable(p)
       \/ InitLoad(p)
       \/ InitAborts(p)
       \/ InitThrows(p)
  \/ \E d \in Dexes : UnloadDex(d) \/ UnloadThrows(d)
  \/ FinishAppend
  \/ CallAttached
  \/ BeginInit
  \/ InitHooks

-----------------------------------------------------------------------------
(* The main thread.                                                        *)

StartLoopEnabled(loop) ==
  /\ main' = loop
  /\ todo' = {p \in cached : enable[p]}
  /\ stale' = FALSE

\* A for loop over pluginTable.values() takes its iterator.
StartLoop(loop) ==
  /\ main' = loop
  /\ todo' = cached
  /\ stale' = FALSE

GoTo(place) == main' = place /\ stale' = FALSE /\ UNCHANGED todo

\* newApplication$Hook (either one), or Android's own when the app bypasses both.
NewApplicationUnflagged ==
  /\ main = "start"
  /\ initState \in {"ran", "aborted"}
  /\ IF hooked /\ meets["new"]
       THEN UNCHANGED isNewApplication /\ StartLoop("beforeNew")
       ELSE UNCHANGED isNewApplication /\ GoTo("bind")
  /\ UNCHANGED <<tableVars, pluginVars, injectorVars, given, delayed, current, created,
                 isApplicationOnCreateCalled>>

NewApplication ==
  /\ main = "start"
  /\ initState \in {"ran", "aborted"}
  /\ IF hooked /\ meets["new"]
       THEN isNewApplication' = TRUE /\ StartLoop("beforeNew")
       ELSE UNCHANGED isNewApplication /\ GoTo("bind")
  /\ UNCHANGED <<tableVars, pluginVars, injectorVars, given, delayed, current, created,
                 isApplicationOnCreateCalled>>

\* The iterator compares modCount (~stale) before it hands out the next plugin; what a
\* callback of the first two loops throws is caught.
Visit(p) ==
  /\ main \in Loops
  /\ p \in todo
  /\ ~stale
  /\ todo' = todo \ {p}
  /\ calls' = [calls EXCEPT ![p] = Append(@, main)]
  /\ UNCHANGED <<tableVars, enable, config, parsed, since, injectorVars, given, main, stale,
                 delayed, current, created, isNewApplication, isApplicationOnCreateCalled>>

\* In the last two loops it is not, and ends the process.
CallbackThrows(p) ==
  /\ main \in {"beforeCreate", "afterCreate"}
  /\ p \in todo
  /\ ~stale
  /\ main' = "died"
  /\ calls' = [calls EXCEPT ![p] = Append(@, main)]
  /\ UNCHANGED <<tableVars, enable, config, parsed, since, injectorVars, given, todo, stale,
                 delayed, current, created, isNewApplication, isApplicationOnCreateCalled>>

\* ConcurrentModificationException, outside every try.
IteratorThrows ==
  /\ main \in Loops
  /\ todo # {}
  /\ stale
  /\ main' = "died"
  /\ UNCHANGED <<tableVars, pluginVars, injectorVars, given, todo, stale, delayed,
                 current, created, isNewApplication, isApplicationOnCreateCalled>>

LeaveLoop ==
  /\ main \in Loops
  /\ GoTo(CASE main = "beforeNew" -> "new"
            [] main = "afterNew" -> IF delayed THEN "running" ELSE "bind"
            [] main = "beforeCreate" -> "onCreate"
            [] main = "afterCreate" -> IF delayed THEN "finished" ELSE "running")
  /\ UNCHANGED <<tableVars, pluginVars, injectorVars, given, delayed, current, created,
                 isNewApplication, isApplicationOnCreateCalled>>

EndLoop ==
  /\ todo = {}
  /\ LeaveLoop

\* The real newApplication, when the hook has called the plugins: then afterNew.
MakeApplication ==
  /\ main = "new"
  /\ StartLoop("afterNew")
  /\ UNCHANGED <<tableVars, pluginVars, injectorVars, given, delayed, current, created,
                 isNewApplication, isApplicationOnCreateCalled>>

\* Android makes the application the current one.
Bind ==
  /\ main = "bind"
  /\ current' = TRUE
  /\ GoTo("created")
  /\ UNCHANGED <<tableVars, pluginVars, injectorVars, given, delayed, created,
                 isNewApplication, isApplicationOnCreateCalled>>

RunOnCreate ==
  /\ created' = TRUE
  /\ calls' = [p \in Plugins |-> IF p \in cached THEN Append(calls[p], "onCreate") ELSE calls[p]]
  /\ UNCHANGED <<enable, config, parsed, since>>

\* callApplicationOnCreate$Hook up to its first loop, or onCreate without the hook.
CallApplicationOnCreate ==
  /\ main = "created"
  /\ IF hooked /\ meets["create"]
       THEN /\ isApplicationOnCreateCalled' = TRUE
            /\ StartLoop("beforeCreate")
            /\ UNCHANGED <<created, pluginVars>>
       ELSE /\ RunOnCreate
            /\ GoTo("running")
            /\ UNCHANGED isApplicationOnCreateCalled
  /\ UNCHANGED <<tableVars, injectorVars, given, delayed, current, isNewApplication>>

\* Between the two loops: onCreate itself, which the delayed runnable does not call.
OnCreate ==
  /\ main = "onCreate"
  /\ IF delayed THEN UNCHANGED <<created, pluginVars>> ELSE RunOnCreate
  /\ StartLoop("afterCreate")
  /\ UNCHANGED <<tableVars, injectorVars, given, delayed, current, isNewApplication,
                 isApplicationOnCreateCalled>>

\* The runnable posted when a second Instrumentation was constructed, or nothing more.
Delayed ==
  /\ main = "running"
  /\ delayed' = (hooked /\ meets["second"])
  /\ IF delayed' /\ ~isNewApplication
       THEN /\ isNewApplication' = TRUE
            /\ StartLoop("beforeNew")
            /\ UNCHANGED isApplicationOnCreateCalled
       ELSE IF delayed' /\ ~isApplicationOnCreateCalled
       THEN /\ isApplicationOnCreateCalled' = TRUE
            /\ StartLoop("beforeCreate")
            /\ UNCHANGED isNewApplication
       ELSE /\ GoTo("finished")
            /\ UNCHANGED <<isNewApplication, isApplicationOnCreateCalled>>
  /\ UNCHANGED <<tableVars, pluginVars, injectorVars, given, current, created>>

Main ==
  \/ NewApplication
  \/ \E p \in Plugins : Visit(p) \/ CallbackThrows(p)
  \/ IteratorThrows
  \/ EndLoop
  \/ MakeApplication
  \/ Bind
  \/ CallApplicationOnCreate
  \/ OnCreate
  \/ Delayed

Next == Injector \/ Main

Spec == Init /\ [][Next]_vars

\* Android keeps the app's main thread running.
FairSpec == Spec /\ WF_vars(Main)

-----------------------------------------------------------------------------
(* Properties.                                                             *)

Heard(p, event) == event \in Range(calls[p])
Rank(event) == CHOOSE i \in DOMAIN LifeCycle : LifeCycle[i] = event
InOrder(s) == \A i, j \in DOMAIN s : i < j => Rank(s[i]) < Rank(s[j])
\* The same of the callbacks alone, without the application's onCreate.
Called(s) == {i \in DOMAIN s : s[i] # "onCreate"}
CallbacksInOrder(s) == \A i, j \in Called(s) : i < j => Rank(s[i]) < Rank(s[j])
LoadedFirst(s) == \A j \in Called(s) : \E i \in 1..j : s[i] = "load"
LoadedAtMost ==
  {<<>>, <<"load", "beforeMake">>, <<"onCreate">>, <<"load", "beforeMake", "onCreate">>}

(* However the hooks overlap (an app that goes through newApplication, a   *)
(* second Instrumentation with its delayed runnable), a plugin that was in *)
(* the table for init, or that joined a settled app, is loaded before it   *)
(* sees any callback, and sees each at most once and in the order of the   *)
(* life cycle; around onCreate itself when the app goes through both       *)
(* hooks.  (An app that bypasses newApplication only is told of it by the  *)
(* delayed runnable, too late.)  Only a plugin that is added while the app *)
(* starts is called twice, or without having been loaded; and one that     *)
(* init cannot load silences every plugin that was added before it.        *)
CallsInOrder ==
  \A p \in cached :
    /\ since[p] \in {"early", "settled"} => LoadedFirst(calls[p])
    /\ since[p] = "early" /\ initState = "aborted" => calls[p] \in LoadedAtMost
    /\ since[p] = "settled" => CallbacksInOrder(calls[p])
    /\ since[p] = "early" /\ (meets["create"] => meets["new"]) => CallbacksInOrder(calls[p])
    /\ since[p] = "early" /\ hooked /\ meets["create"] /\ meets["new"] => InOrder(calls[p])

(* A plugin never works with arguments that have been replaced since it    *)
(* read them, whatever the order of disabling, re-adding, and changing:    *)
(* they are the current ones, or none.  (None is possible on an enabled    *)
(* plugin: appendPlugin with unchanged arguments enables without parsing.) *)
NeverStaleConfig ==
  \A p \in cached : parsed[p] \in {config[p], Null, Unparsed}

(* A plugin in the table can be unloaded: the class loader unloadPluginDex *)
(* asks for is there as long as a plugin of that file is, although failed  *)
(* and prefix-matching requests remove and leave entries in both tables.   *)
(* Only an exception of a plugin in the middle of unloading orphans it.    *)
CachedPluginsCanBeUnloaded ==
  \A p \in cached : DexOf(p) \in loaders \cup cutShort

(* Every plugin that init loaded is told of the app it is in, through the  *)
(* hooks or the delayed runnable, unless the process dies or the plugin is *)
(* unloaded meanwhile; disabling it does not take the callbacks away.      *)
EarlyPluginsServed ==
  \A p \in Plugins :
    (hooked /\ since[p] = "early")
      ~> \/ main = "died" \/ since[p] # "early"
         \/ /\ meets["new"] \/ meets["second"] => Heard(p, "beforeNew") /\ Heard(p, "afterNew")
            /\ meets["create"] \/ meets["second"] =>
                 Heard(p, "beforeCreate") /\ Heard(p, "afterCreate")

(* README.md: beforeApplicationCreate is "called before                    *)
(* Application.onCreate()".  (It is not, on attach.)                       *)
BeforeApplicationCreatePrecedesOnCreate ==
  \A p \in cached : \A i, j \in DOMAIN calls[p] :
    calls[p][i] = "beforeCreate" /\ calls[p][j] = "onCreate" => i < j
=============================================================================
