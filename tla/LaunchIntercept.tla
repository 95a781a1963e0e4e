--------------------------- MODULE LaunchIntercept ---------------------------
(***************************************************************************)
(* Launching an app with a plugin, end to end.  On the host, a user thread *)
(* runs RpcDevice.launch while the subscriber's thread answers launch_pro- *)
(* cess broadcasts with on_launch_process (device.py).  In system_server,  *)
(* the worker threads of the RPC connections change the intercept table of *)
(* SystemServerInjectAgent, and the activity manager, under its own lock,  *)
(* reads it whenever a process attaches; it keeps that lock until the host *)
(* has answered, injecting the process meanwhile (ActivityManagerServiceH).*)
(*                                                                         *)
(* Android, the native half of the broadcast, and the injection itself are *)
(* external: apps may start processes at any time, start_activity reuses a *)
(* process that is there, an injection may fail.  The subscriber may be    *)
(* lost and come back, but not while a process waits for its answer.       *)
(*                                                                         *)
(* An entry of the table is a string of ":package" items tested with       *)
(* contains(): here the set of its items, where p is contained in q when   *)
(* q's name begins with p's.  The HashMap has no lock: a write that over-  *)
(* laps another may be lost, a read that overlaps one may find nothing.    *)
(***************************************************************************)
EXTENDS Naturals

CONSTANTS
  Packages,        \* packages installed
  Uids,            \* their user ids, which packages may share
  SystemUids,      \* those up to SYSTEM_UID
  UidOf,           \* UidOf[p]
  Prefixes,        \* Prefixes[q]: the packages q's name begins with, q included
  NO_FILTER,       \* the item ":A"
  Residue,         \* what removeIntercept leaves of a longer name
  Null,
  maxLaunchCount,  \* device.max_launch_count: injections per launch
  Setups           \* the packages that take part, and the bounds that go with them:
                   \* launches: calls of launch
                   \* elsewhere: processes started otherwise than by a launch
                   \* admin: calls of another RPC client
                   \* failures: injections that fail and subscribers that are lost

ASSUME InterceptAssumption ==
  /\ SystemUids \subseteq Uids
  /\ UidOf \in [Packages -> Uids]
  /\ Prefixes \in [Packages -> SUBSET Packages]
  /\ \A p \in Packages : p \in Prefixes[p]
  /\ NO_FILTER \notin Packages /\ Residue \notin Packages /\ NO_FILTER # Residue
  /\ Null \notin Packages /\ Null \notin Nat
  /\ \A entry \in SUBSET (Packages \cup {NO_FILTER, Residue}) : entry # Null
  /\ maxLaunchCount \in Nat \ {0}
  /\ Setups # {}
  /\ \A s \in Setups : /\ s.packages \subseteq Packages
                       /\ {s.launches, s.elsewhere, s.admin, s.failures} \subseteq Nat

Launches == UNION {1..s.launches : s \in Setups}
Procs == UNION {1..(s.launches + s.elsewhere) : s \in Setups}
Items == Packages \cup {NO_FILTER, Residue}
Entries == ((SUBSET Items) \ {{}}) \cup {Null}
None == 0

VARIABLES
  setup,           \* one of Setups
  interceptApps,   \* interceptApps[u], Null when there is no entry
  interceptAll,
  subscribed,      \* getSubscriberSize() > 0
  ams,             \* the process in attachApplicationLocked, or None: its lock is free
  answer,          \* what that process waits for: "none", "pending", "keep" or "remove" (-1)
  proc,            \* proc[i]: state and package, the launch it is for, the launch
                   \* whose plugin it got, and if it was due one (see quiet)
  elsewhere,       \* number of processes started otherwise than by a launch
  at, launching,   \* where launch is in the user thread, and for which package
  launches,        \* number of calls of launch
  callback,        \* process_launch_callback[uid]: the launch that stored it, or None
  appLaunchCount,  \* app_launch_count[uid], or Null
  handler,         \* on_launch_process: where it is, its inject_record and its count
  clearHistory,    \* Configuration.clear_history_launch
  overlap,         \* another thread wrote to the table while launch was about to
  admin, failures, \* counters of the bounds
  asked,           \* history: the items an exact table would hold
  torn,            \* history: writes to the table have overlapped
  quiet,           \* history: nothing has come between the current launch and its app
  injections       \* history: injections[u] made

tableVars == <<interceptApps, interceptAll, asked, torn, overlap>>
amsVars == <<subscribed, ams, answer, proc, elsewhere>>
userVars == <<at, launching, launches>>
hostVars == <<callback, appLaunchCount, handler>>
rest == <<setup, clearHistory, admin, failures, injections>>
vars == <<tableVars, amsVars, userVars, hostVars, rest, quiet>>

IdleHandler == [at |-> "idle", record |-> None, count |-> 0]
NoProc == [state |-> "none", pkg |-> Null, for |-> None, got |-> None, due |-> FALSE]
Started(p, launch) == [state |-> "starting", pkg |-> p, for |-> launch, got |-> None, due |-> FALSE]

(* The types of the state; the host is asked exactly while a process waits *)
(* in the activity manager, and it handles one broadcast at a time.        *)
TypeOK ==
  /\ setup \in Setups
  /\ interceptApps \in [Uids -> Entries] /\ interceptAll \in BOOLEAN
  /\ subscribed \in BOOLEAN
  /\ ams \in Procs \cup {None}
  /\ answer \in {"none", "pending", "keep", "remove"}
  /\ ams = None <=> answer = "none"
  /\ proc \in [Procs -> [state : {"none", "starting", "alive", "dead"}, pkg : Packages \cup {Null},
                         for : Launches \cup {None}, got : Launches \cup {None}, due : BOOLEAN]]
  /\ elsewhere \in 0..setup.elsewhere
  /\ at \in {"idle", "stop", "set", "record", "count", "start"}
  /\ launching \in Packages \cup {Null}
  /\ launches \in 0..setup.launches
  /\ callback \in [Uids -> Launches \cup {None}]
  /\ appLaunchCount \in [Uids -> Nat \cup {Null}]
  /\ handler \in [at : {"idle", "count", "write", "inject"}, record : Launches \cup {None}, count : Nat]
  /\ handler.at # "idle" => answer = "pending"
  /\ clearHistory \in BOOLEAN /\ overlap \in BOOLEAN /\ torn \in BOOLEAN /\ quiet \in BOOLEAN
  /\ admin \in 0..setup.admin /\ failures \in 0..setup.failures
  /\ asked \in [Uids -> SUBSET Items]
  /\ injections \in [Uids -> Nat]

Init ==
  /\ setup \in Setups
  /\ interceptApps = [u \in Uids |-> Null] /\ interceptAll = FALSE
  /\ subscribed = TRUE /\ ams = None /\ answer = "none"
  /\ proc = [i \in Procs |-> NoProc] /\ elsewhere = 0
  /\ at = "idle" /\ launching = Null /\ launches = 0
  /\ callback = [u \in Uids |-> None]
  /\ appLaunchCount = [u \in Uids |-> Null]
  /\ handler = IdleHandler
  /\ clearHistory \in BOOLEAN
  /\ overlap = FALSE /\ admin = 0 /\ failures = 0
  /\ asked = [u \in Uids |-> {}] /\ torn = FALSE /\ quiet = FALSE
  /\ injections = [u \in Uids |-> 0]

-----------------------------------------------------------------------------
(* The intercept table.                                                    *)

\* entry.contains(":" + p)
Mentions(entry, p) == \E q \in entry \cap Packages : p \in Prefixes[q]

\* An item added to an entry, unless the entry contains it.
Insert(entry, p) ==
  IF entry = Null THEN {p} ELSE IF Mentions(entry, p) THEN entry ELSE entry \cup {p}

\* Mutant: the entry is removed, not the package's item.
DeleteEntry(entry, p) == Null

\* entry.replace(":" + p, ""): longer names that begin with p's lose that much.
Delete(entry, p) ==
  LET hit == {q \in entry \cap Packages : p \in Prefixes[q]}
      left == (entry \ hit) \cup {r \in {Residue} : hit \ {p} # {}}
  IN IF left = {} THEN Null ELSE left

Cleared == [u \in Uids |-> Null]

\* setInterceptApp puts the entry of an app's uid, whatever it was.
WithApp(table, p) ==
  [table EXCEPT ![UidOf[p]] = IF UidOf[p] \in SystemUids THEN Insert(@, p) ELSE {p}]
Without(table, u, p) ==
  [table EXCEPT ![u] = IF @ = Null \/ u \notin SystemUids THEN Null ELSE Delete(@, p)]

\* What an exact table would hold.
AskedWith(p) == [asked EXCEPT ![UidOf[p]] = @ \cup {p}]
AskedWithout(u, p) == [asked EXCEPT ![u] = IF u \in SystemUids THEN @ \ {p} ELSE {}]

\* Another thread is about to write to the table.
LaunchWriting == at = "set"
RemovalPending == answer = "remove"

\* removeIntercept, by the thread that called notifyProcessLaunch.
Remove(u, p) ==
  /\ interceptApps' \in {Without(interceptApps, u, p)} \cup {t \in {interceptApps} : LaunchWriting}
  /\ asked' = AskedWithout(u, p)
  /\ torn' = (torn \/ LaunchWriting)
  /\ overlap' = (overlap \/ LaunchWriting)
  /\ UNCHANGED interceptAll

\* A change by another client of system_server, through a connection of its own.
Write(table, items) ==
  /\ interceptApps' \in {table} \cup {t \in {interceptApps} : LaunchWriting \/ RemovalPending}
  /\ asked' = items
  /\ torn' = (torn \/ LaunchWriting \/ RemovalPending)
  /\ overlap' = (overlap \/ LaunchWriting)
  /\ UNCHANGED interceptAll

AdminCall ==
  /\ admin < setup.admin
  /\ admin' = admin + 1
  /\ quiet' = FALSE
  /\ UNCHANGED <<amsVars, userVars, hostVars, setup, clearHistory, failures, injections>>

\* setInterceptApp of an installed package.  Of null or an unknown one it clears
\* at most, and of "all" it sets interceptAll: AdminClearIntercept, AdminSetInterceptAll.
AdminSetInterceptApp(p, clear) ==
  /\ AdminCall
  /\ Write(WithApp(IF clear THEN Cleared ELSE interceptApps, p),
           IF clear THEN [u \in Uids |-> IF u = UidOf[p] THEN {p} ELSE {}] ELSE AskedWith(p))

\* setIntercept(uid, null) and setIntercept(uid, process).
AdminSetInterceptUid(u) ==
  /\ AdminCall
  /\ Write([interceptApps EXCEPT ![u] = {NO_FILTER}], [asked EXCEPT ![u] = {NO_FILTER}])

AdminSetIntercept(p) ==
  /\ AdminCall
  /\ Write([interceptApps EXCEPT ![UidOf[p]] = Insert(@, p)], AskedWith(p))

AdminRemoveIntercept(p) ==
  /\ AdminCall
  /\ Write(Without(interceptApps, UidOf[p], p), AskedWithout(UidOf[p], p))

AdminClearIntercept ==
  /\ AdminCall
  /\ Write(Cleared, [u \in Uids |-> {}])

AdminSetInterceptAll ==
  /\ AdminCall
  /\ interceptAll' \in BOOLEAN
  /\ UNCHANGED <<interceptApps, asked, torn, overlap>>

Admin ==
  \/ \E p \in setup.packages :
       \/ \E clear \in BOOLEAN : AdminSetInterceptApp(p, clear)
       \/ AdminSetIntercept(p)
       \/ AdminRemoveIntercept(p)
  \/ \E u \in Uids : AdminSetInterceptUid(u)
  \/ AdminClearIntercept
  \/ AdminSetInterceptAll

-----------------------------------------------------------------------------
(* Processes, and the activity manager.                                    *)

\* Processes are numbered as they start.
NewProc(p, launch) ==
  \E i \in Procs :
    /\ proc[i] = NoProc /\ \A j \in 1..(i - 1) : proc[j] # NoProc
    /\ proc' = [proc EXCEPT ![i] = Started(p, launch)]

\* An app, or Android on its behalf, starts a process.
StartedElsewhere(p) ==
  /\ elsewhere < setup.elsewhere
  /\ elsewhere' = elsewhere + 1
  /\ NewProc(p, None)
  /\ UNCHANGED <<tableVars, subscribed, ams, answer, userVars, hostVars, rest, quiet>>

\* The process the current launch is for.
Awaited(i) == proc[i].for = launches /\ launches # None
UidOfProc(i) == UidOf[proc[i].pkg]

\* interceptCheck reports a process whose uid has an entry; for a system uid
\* the entry must contain its package too.
Reports(cond, i) ==
  /\ cond # Null
  /\ subscribed
  /\ UidOfProc(i) \in SystemUids => NO_FILTER \in cond \/ Mentions(cond, proc[i].pkg)

\* What shouldInterceptUid may return while others write.
Conditions(u) ==
  IF interceptAll THEN {{NO_FILTER}}
  ELSE {interceptApps[u]} \cup {n \in {Null} : LaunchWriting}

Attached(i) == [proc EXCEPT ![i].state = "alive", ![i].due = Awaited(i) /\ quiet]

\* attachApplicationLocked takes the lock and looks the process up.
Attach(i) ==
  /\ proc[i].state = "starting"
  /\ ams = None
  /\ \E cond \in Conditions(UidOfProc(i)) :
       IF Reports(cond, i)
         THEN ams' = i /\ answer' = "pending" /\ UNCHANGED proc
         ELSE proc' = Attached(i) /\ UNCHANGED <<ams, answer>>
  /\ quiet' = (quiet /\ (Awaited(i) \/ UidOfProc(i) # UidOf[launching]))
  /\ UNCHANGED <<tableVars, subscribed, elsewhere, userVars, hostVars, rest>>

\* Mutant: the lock is kept.
AttachAnsweredKeeping ==
  /\ answer \in {"keep", "remove"}
  /\ proc' = Attached(ams)
  /\ answer' = "none"
  /\ UNCHANGED <<ams, tableVars, quiet, subscribed, elsewhere, userVars, hostVars, rest>>

\* The answer is there: -1 removes the intercept; the process goes on.
AttachAnswered ==
  /\ answer \in {"keep", "remove"}
  /\ IF answer = "remove"
       THEN /\ Remove(UidOfProc(ams), proc[ams].pkg)
            /\ quiet' = (quiet /\ ~LaunchWriting /\ UidOfProc(ams) # UidOf[launching])
       ELSE UNCHANGED <<tableVars, quiet>>
  /\ proc' = Attached(ams)
  /\ ams' = None
  /\ answer' = "none"
  /\ UNCHANGED <<subscribed, elsewhere, userVars, hostVars, rest>>

SubscriberLost ==
  /\ subscribed
  /\ ams = None
  /\ failures < setup.failures
  /\ failures' = failures + 1
  /\ subscribed' = FALSE
  /\ quiet' = FALSE
  /\ UNCHANGED <<tableVars, ams, answer, proc, elsewhere, userVars, hostVars, setup, clearHistory, admin, injections>>

\* on_system_subscribe_close reconnects and subscribes again.
SubscribedAgain ==
  /\ ~subscribed
  /\ subscribed' = TRUE
  /\ UNCHANGED <<tableVars, ams, answer, proc, elsewhere, userVars, hostVars, rest, quiet>>

-----------------------------------------------------------------------------
(* The host: on_launch_process, in the subscriber's thread.                *)

Respond(how) == answer' = how /\ handler' = IdleHandler

\* Mutant: the handler asks system_server something that needs the activity manager.
FindCallbackAsking ==
  /\ answer = "pending" /\ handler.at = "idle"
  /\ ams = None
  /\ handler' = [handler EXCEPT !.at = "count", !.record = callback[UidOfProc(ams)]]
  /\ UNCHANGED <<tableVars, subscribed, ams, answer, proc, elsewhere, userVars, callback,
                 appLaunchCount, rest, quiet>>

FindCallback ==
  /\ answer = "pending" /\ handler.at = "idle"
  /\ LET record == callback[UidOfProc(ams)] IN
       IF record = None
         THEN Respond("keep")
         ELSE handler' = [handler EXCEPT !.at = "count", !.record = record] /\ UNCHANGED answer
  /\ UNCHANGED <<tableVars, subscribed, ams, proc, elsewhere, userVars, callback, appLaunchCount,
                 rest, quiet>>

\* A KeyError is caught by the subscriber's loop, which answers all the same.
ReadCount ==
  /\ handler.at = "count"
  /\ LET count == appLaunchCount[UidOfProc(ams)] IN
       IF count = Null
         THEN Respond("keep")
         ELSE handler' = [handler EXCEPT !.at = "write", !.count = count] /\ UNCHANGED answer
  /\ UNCHANGED <<tableVars, subscribed, ams, proc, elsewhere, userVars, callback, appLaunchCount,
                 rest, quiet>>

\* Mutant: one injection too many.
MayInjectOneMore(count) == count <= maxLaunchCount
MayInject(count) == count < maxLaunchCount

WriteCount ==
  /\ handler.at = "write"
  /\ appLaunchCount' = [appLaunchCount EXCEPT ![UidOfProc(ams)] = handler.count + 1]
  /\ IF MayInject(handler.count)
       THEN handler' = [handler EXCEPT !.at = "inject"] /\ UNCHANGED answer
       ELSE Respond("remove")
  /\ UNCHANGED <<tableVars, subscribed, ams, proc, elsewhere, userVars, callback, rest, quiet>>

\* attach(): the process gets the plugin of the record, or it does not.
Inject ==
  /\ handler.at = "inject"
  /\ \/ /\ proc' = [proc EXCEPT ![ams].got = handler.record]
        /\ injections' = [injections EXCEPT ![UidOfProc(ams)] = @ + 1]
        /\ UNCHANGED <<failures, quiet>>
     \/ /\ failures < setup.failures
        /\ failures' = failures + 1
        /\ quiet' = FALSE
        /\ UNCHANGED <<proc, injections>>
  /\ Respond("keep")
  /\ UNCHANGED <<tableVars, subscribed, ams, elsewhere, userVars, callback, appLaunchCount,
                 setup, clearHistory, admin>>

Handler == FindCallback \/ ReadCount \/ WriteCount \/ Inject

-----------------------------------------------------------------------------
(* The host: launch, in a thread of the user.  init_intercept has been     *)
(* done when system_server_client exists.                                  *)

BeginLaunch(p) ==
  /\ at = "idle"
  /\ launches < setup.launches
  /\ launches' = launches + 1
  /\ launching' = p
  /\ callback' = IF clearHistory THEN [u \in Uids |-> None] ELSE callback
  /\ quiet' = FALSE
  /\ at' = "stop"
  /\ UNCHANGED <<tableVars, amsVars, appLaunchCount, handler, rest>>

\* force_stop_app needs the lock of the activity manager.
ForceStop ==
  /\ at = "stop"
  /\ ams = None
  /\ proc' = [i \in Procs |-> IF proc[i].pkg = launching THEN [proc[i] EXCEPT !.state = "dead"] ELSE proc[i]]
  /\ quiet' = subscribed
  /\ at' = "set"
  /\ UNCHANGED <<tableVars, subscribed, ams, answer, elsewhere, launching, launches, hostVars, rest>>

\* set_intercept_app(target_package, clear_history_launch), in system_server.
SetInterceptApp ==
  /\ at = "set"
  /\ LET base == IF clearHistory THEN Cleared ELSE interceptApps
         table == WithApp(base, launching)
     IN interceptApps' \in {table} \cup {t \in {base} : overlap \/ RemovalPending}
  /\ asked' = IF clearHistory
                THEN [u \in Uids |-> IF u = UidOf[launching] THEN {launching} ELSE {}]
                ELSE AskedWith(launching)
  /\ torn' = (torn \/ RemovalPending)
  /\ quiet' = (quiet /\ ~overlap /\ ~RemovalPending)
  /\ overlap' = FALSE
  /\ at' = "record"
  /\ UNCHANGED <<interceptAll, amsVars, launching, launches, hostVars, rest>>

\* The assertion may fail; evaluating it subscribes when there is no subscriber.
StoreCallback ==
  /\ at = "record"
  /\ \/ /\ subscribed' \in {TRUE, subscribed}
        /\ callback' = [callback EXCEPT ![UidOf[launching]] = launches]
        /\ at' = "count"
     \/ /\ ~subscribed
        /\ at' = "idle"
        /\ UNCHANGED <<subscribed, callback>>
  /\ UNCHANGED <<tableVars, ams, answer, proc, elsewhere, launching, launches, appLaunchCount,
                 handler, rest, quiet>>

\* Mutant: the count of an earlier launch is kept.
KeepCount ==
  /\ at = "count"
  /\ appLaunchCount' = [appLaunchCount EXCEPT ![UidOf[launching]] = IF @ = Null THEN 0 ELSE @]
  /\ at' = "start"
  /\ UNCHANGED <<tableVars, amsVars, launching, launches, callback, handler, rest, quiet>>

ResetCount ==
  /\ at = "count"
  /\ appLaunchCount' = [appLaunchCount EXCEPT ![UidOf[launching]] = 0]
  /\ at' = "start"
  /\ UNCHANGED <<tableVars, amsVars, launching, launches, callback, handler, rest, quiet>>

\* A process of the package that is there already gets the activity.
StartActivity ==
  LET there == {i \in Procs : proc[i].pkg = launching /\ proc[i].state \in {"starting", "alive"}} IN
  /\ at = "start"
  /\ ams = None
  /\ IF there = {}
       THEN NewProc(launching, launches)
       ELSE \E i \in there : proc' = [proc EXCEPT ![i].for = launches]
  /\ at' = "idle"
  /\ UNCHANGED <<tableVars, subscribed, ams, answer, elsewhere, launching, launches, hostVars, rest, quiet>>

User == ForceStop \/ SetInterceptApp \/ StoreCallback \/ ResetCount \/ StartActivity

-----------------------------------------------------------------------------
Next ==
  \/ Admin
  \/ \E p \in setup.packages : StartedElsewhere(p) \/ BeginLaunch(p)
  \/ \E i \in Procs : Attach(i)
  \/ AttachAnswered
  \/ SubscriberLost
  \/ SubscribedAgain
  \/ Handler
  \/ User

Spec == Init /\ [][Next]_vars

\* Threads inside a call are scheduled, and the lock goes to whoever waits for it
\* sooner or later; that anyone calls launch or starts a process is not promised.
Fairness ==
  /\ \A i \in Procs : WF_vars(Attach(i))
  /\ WF_vars(AttachAnswered)
  /\ WF_vars(Handler)
  /\ WF_vars(User)
FairSpec == Spec /\ Fairness

-----------------------------------------------------------------------------
(* Properties.                                                             *)

(* The process launch() starts gets the plugin of that launch, with what-  *)
(* ever earlier launches left in the three tables, and whatever starts and *)
(* is refused meanwhile under other uids.  What can come between is: a     *)
(* process of the same uid that attaches first, another client            *)
(* writing the table, a removal that overlaps the call, a subscriber that  *)
(* is lost, an injection that fails, the next launch.                      *)
LaunchedIsInjected ==
  \A i \in Procs : proc[i].due => proc[i].got = proc[i].for

(* app_launch_count is read, written back and reset by two threads without *)
(* a lock: yet a uid never gets more than max_launch_count injections for  *)
(* each launch made.                                                       *)
InjectionsWithinBudget ==
  \A u \in Uids : injections[u] <= maxLaunchCount * launches

(* A process of an app is reported to the host exactly if its uid was      *)
(* asked for, one of a system uid exactly if its package was: for names    *)
(* that no other name of that uid begins with or is a beginning of.  (For  *)
(* others it is not, removeIntercept of one cutting the other.)            *)
Related(p, q) == p # q /\ UidOf[p] = UidOf[q] /\ (p \in Prefixes[q] \/ q \in Prefixes[p])
TableIsExact ==
  ~torn => \A p \in Packages : LET u == UidOf[p] IN
    IF u \notin SystemUids THEN interceptApps[u] # Null <=> asked[u] # {}
    ELSE (\A q \in Packages : ~Related(p, q)) =>
           ((interceptApps[u] # Null /\ (NO_FILTER \in interceptApps[u] \/ Mentions(interceptApps[u], p)))
              <=> (NO_FILTER \in asked[u] \/ p \in asked[u]))

(* Nothing waits forever, although the activity manager keeps its lock     *)
(* while the host is asked and launch() waits for that lock: every process *)
(* gets past attachApplicationLocked, and every launch() returns.          *)
NobodyWaitsForever ==
  /\ \A i \in Procs : proc[i].state = "starting" ~> proc[i].state # "starting"
  /\ at # "idle" ~> at = "idle"
=============================================================================
