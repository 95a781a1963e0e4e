------------------------ MODULE LaunchInterceptProofs ------------------------
(***************************************************************************)
(* Launching apps with plugins, for any packages, user ids and prefixes of *)
(* names, any number of launches, of other processes, of calls by another  *)
(* client and of failures: the types, the budget of injections, the        *)
(* intercept table, and that a launched app gets its plugin.               *)
(***************************************************************************)
EXTENDS LaunchIntercept, TLAPS

-----------------------------------------------------------------------------
(* The inductive invariants.                                               *)

\* Where a process is in its life.  The activity manager holds one that starts.
ProcInv ==
  /\ \A i \in Procs : /\ proc[i] = NoProc \/ (proc[i].state # "none" /\ proc[i].pkg \in Packages)
                      /\ proc[i].state = "starting" => ~proc[i].due
  /\ ams # None => proc[ams].state = "starting"
  /\ at # "idle" => launching \in Packages /\ launches > 0

TypeInv == TypeOK /\ ProcInv

(* A launch may have its count reset once.  What is left of the counts, an *)
(* injection on its way, and one that the handler's stale count allows     *)
(* when it is written back, are within what the resets so far allow.       *)
Resets == IF at \in {"stop", "set", "record", "count"} THEN launches - 1 ELSE launches
Unspent(u) == IF appLaunchCount[u] # Null /\ appLaunchCount[u] < maxLaunchCount
              THEN maxLaunchCount - appLaunchCount[u] ELSE 0
Pending(u) == IF handler.at = "inject" /\ UidOfProc(ams) = u THEN 1 ELSE 0
BudgetInv ==
  /\ \A u \in Uids : injections[u] + Pending(u) + Unspent(u) <= maxLaunchCount * Resets
  /\ handler.at = "write" /\ handler.count < maxLaunchCount =>
       injections[UidOfProc(ams)] + (maxLaunchCount - handler.count) <= maxLaunchCount * Resets

(* The table holds what was asked for, for names not related to others:    *)
(* entry by entry, unless two writes have overlapped.                      *)
Holds(entry, item) == entry # Null /\ item \in entry
Alone(p) == \A q \in Packages : ~Related(p, q)
OwnAt(u, entry) == \A p \in Packages : Holds(entry, p) => UidOf[p] = u
ExactAt(u, entry, items) ==
  IF u \notin SystemUids THEN entry # Null <=> items # {}
  ELSE /\ Holds(entry, NO_FILTER) <=> NO_FILTER \in items
       /\ \A p \in Packages : UidOf[p] = u /\ Alone(p) => (Holds(entry, p) <=> p \in items)
ExactInv ==
  /\ overlap => torn
  /\ \A u \in Uids : OwnAt(u, interceptApps[u])
  /\ ~torn => \A u \in Uids : ExactAt(u, interceptApps[u], asked[u])

(* The process that the current launch started, or found started.          *)
AwaitedInv ==
  /\ \A i \in Procs : proc[i].for <= launches
  /\ \A i \in Procs : Awaited(i) => at = "idle" /\ proc[i].pkg = launching /\ proc[i].state # "none"
  /\ \A i, j \in Procs : Awaited(i) /\ Awaited(j) => i = j
  /\ at \notin {"idle", "stop"} =>
       \A i \in Procs : proc[i].pkg = launching /\ proc[i].state # "dead" => ~proc[i].due

(* While nothing has come between, the three tables are as the launch left *)
(* them until its process has been asked about, and the handler works for  *)
(* that launch.                                                            *)
Listed == /\ interceptApps[UidOf[launching]] # Null
          /\ UidOf[launching] \in SystemUids =>
               \/ NO_FILTER \in interceptApps[UidOf[launching]]
               \/ Mentions(interceptApps[UidOf[launching]], launching)
Counted == appLaunchCount[UidOf[launching]] = 0
Served ==
  /\ answer = "pending" /\ handler.at \in {"idle", "count"} => Counted
  /\ handler.at # "idle" => handler.record = launches
  /\ handler.at = "write" => handler.count = 0
  /\ answer = "keep" => proc[ams].got = launches
  /\ answer # "remove"
QuietInv ==
  quiet =>
    /\ at # "stop" /\ launches > 0 /\ launching \in Packages /\ subscribed
    /\ at # "set" => Listed
    /\ at \in {"count", "start", "idle"} => callback[UidOf[launching]] = launches
    /\ at = "start" => Counted
    /\ \A i \in Procs : Awaited(i) /\ proc[i].state = "starting" => IF ams = i THEN Served ELSE Counted
    /\ ams # None /\ UidOfProc(ams) = UidOf[launching] => Awaited(ams)

LaunchInv == AwaitedInv /\ QuietInv /\ LaunchedIsInjected

-----------------------------------------------------------------------------
(* The types.                                                              *)

LEMMA Bounds ==
  ASSUME setup \in Setups
  PROVE  /\ setup.packages \subseteq Packages
         /\ setup.launches \in Nat /\ setup.elsewhere \in Nat /\ setup.admin \in Nat /\ setup.failures \in Nat
         /\ 1..setup.launches \subseteq Launches
         /\ maxLaunchCount \in Nat /\ maxLaunchCount > 0
         /\ Null \notin Nat
BY InterceptAssumption DEF Launches

LEMMA Numbers == /\ \A i \in Procs : i \in Nat /\ i > 0
                 /\ \A i \in Launches : i \in Nat /\ i > 0
<1>1. \A s \in Setups : s.launches \in Nat /\ s.elsewhere \in Nat
  BY InterceptAssumption
<1>2. \A s \in Setups : s.launches + s.elsewhere \in Nat
  BY <1>1
<1>3. QED
  BY <1>1, <1>2 DEF Procs, Launches

LEMMA EntryKinds ==
  /\ Null \in Entries
  /\ \A entry \in Entries : entry = Null \/ (entry \in SUBSET Items /\ entry # {})
  /\ \A entry \in SUBSET Items : entry # {} => entry \in Entries
  /\ \A entry \in SUBSET Items : entry # Null
  /\ \A entry \in Entries, p \in Packages : Insert(entry, p) \in Entries /\ Insert(entry, p) # Null
  /\ \A entry \in Entries \ {Null}, p \in Packages : Delete(entry, p) \in Entries
  /\ \A p \in Packages : {p} \in Entries /\ UidOf[p] \in Uids
  /\ {NO_FILTER} \in Entries
<1>1. \A entry \in SUBSET Items : entry # Null
  BY InterceptAssumption DEF Items
<1>2. Packages \subseteq Items /\ NO_FILTER \in Items /\ Residue \in Items
  BY DEF Items
<1>3. \A entry \in Entries : entry = Null \/ (entry \in SUBSET Items /\ entry # {})
  BY DEF Entries
<1>4. \A entry \in SUBSET Items : entry # {} => entry \in Entries
  BY DEF Entries
<1>5. ASSUME NEW entry \in Entries, NEW p \in Packages
      PROVE  Insert(entry, p) \in Entries /\ Insert(entry, p) # Null
  <2>1. CASE entry = Null
    BY <1>1, <1>2, <1>4, <2>1 DEF Insert
  <2>2. CASE entry # Null
    <3>1. entry \in SUBSET Items /\ entry # {} /\ entry \cup {p} \in SUBSET Items
      BY <1>2, <1>3, <2>2
    <3>2. Insert(entry, p) \in {entry, entry \cup {p}}
      BY <2>2 DEF Insert
    <3>3. QED
      BY <1>1, <1>4, <3>1, <3>2
  <2>3. QED
    BY <2>1, <2>2
<1>6. ASSUME NEW entry \in Entries \ {Null}, NEW p \in Packages PROVE Delete(entry, p) \in Entries
  <2>1. PICK left \in SUBSET Items : Delete(entry, p) = IF left = {} THEN Null ELSE left
    <3>1. entry \in SUBSET Items
      BY <1>3
    <3>2. \A hit : (entry \ hit) \cup {r \in {Residue} : hit \ {p} # {}} \in SUBSET Items
      BY <1>2, <3>1
    <3>3. QED
      BY <3>2 DEF Delete
  <2>2. QED
    BY <1>4, <2>1 DEF Entries
<1>7. \A p \in Packages : {p} \in Entries /\ UidOf[p] \in Uids
  <2>1. \A p \in Packages : UidOf[p] \in Uids
    BY InterceptAssumption
  <2>2. \A p \in Packages : {p} \in SUBSET Items /\ {p} # {}
    BY <1>2
  <2>3. QED
    BY <1>4, <2>1, <2>2
<1>8. {NO_FILTER} \in Entries
  <2>1. {NO_FILTER} \in SUBSET Items /\ {NO_FILTER} # {}
    BY <1>2
  <2>2. QED
    BY <1>4, <2>1
<1>9. Null \in Entries
  BY DEF Entries
<1>10. QED
  BY <1>1, <1>3, <1>4, <1>5, <1>6, <1>7, <1>8, <1>9

\* Changes of the table keep its type.
LEMMA TableTypes ==
  ASSUME NEW table \in [Uids -> Entries], NEW p \in Packages, NEW u \in Uids
  PROVE  /\ Cleared \in [Uids -> Entries]
         /\ WithApp(table, p) \in [Uids -> Entries]
         /\ Without(table, u, p) \in [Uids -> Entries]
         /\ [table EXCEPT ![u] = {NO_FILTER}] \in [Uids -> Entries]
         /\ [table EXCEPT ![u] = Insert(@, p)] \in [Uids -> Entries]
<1>1. Cleared \in [Uids -> Entries] /\ [table EXCEPT ![u] = {NO_FILTER}] \in [Uids -> Entries]
  BY EntryKinds DEF Cleared
<1>2. \A v \in Uids : Insert(table[v], p) \in Entries /\ {p} \in Entries
  BY EntryKinds
<1>3. WithApp(table, p) \in [Uids -> Entries] /\ [table EXCEPT ![u] = Insert(@, p)] \in [Uids -> Entries]
  BY <1>2 DEF WithApp
<1>4. table[u] # Null => Delete(table[u], p) \in Entries
  BY EntryKinds
<1>5. Without(table, u, p) \in [Uids -> Entries]
  BY <1>4, EntryKinds DEF Without
<1>6. QED
  BY <1>1, <1>3, <1>5

LEMMA AskedTypes ==
  ASSUME asked \in [Uids -> SUBSET Items], NEW p \in Packages, NEW u \in Uids
  PROVE  /\ AskedWith(p) \in [Uids -> SUBSET Items]
         /\ AskedWithout(u, p) \in [Uids -> SUBSET Items]
         /\ [asked EXCEPT ![u] = {NO_FILTER}] \in [Uids -> SUBSET Items]
         /\ [v \in Uids |-> {}] \in [Uids -> SUBSET Items]
         /\ [v \in Uids |-> IF v = UidOf[p] THEN {p} ELSE {}] \in [Uids -> SUBSET Items]
<1>1. p \in Items /\ NO_FILTER \in Items
  BY DEF Items
<1>2. QED
  BY <1>1 DEF AskedWith, AskedWithout

\* A write to the table, whatever it overlaps.
LEMMA WriteTypes ==
  ASSUME TypeOK, NEW table \in [Uids -> Entries], NEW items \in [Uids -> SUBSET Items], Write(table, items)
  PROVE  /\ interceptApps' \in [Uids -> Entries] /\ asked' \in [Uids -> SUBSET Items]
         /\ torn' \in BOOLEAN /\ overlap' \in BOOLEAN /\ interceptAll' \in BOOLEAN
BY DEF TypeOK, Write, LaunchWriting, RemovalPending

LEMMA AdminTypes ==
  ASSUME TypeInv, Admin
  PROVE  /\ interceptApps' \in [Uids -> Entries] /\ asked' \in [Uids -> SUBSET Items]
         /\ torn' \in BOOLEAN /\ overlap' \in BOOLEAN /\ interceptAll' \in BOOLEAN
         /\ AdminCall
<1> DEFINE Typed == /\ interceptApps' \in [Uids -> Entries] /\ asked' \in [Uids -> SUBSET Items]
                    /\ torn' \in BOOLEAN /\ overlap' \in BOOLEAN /\ interceptAll' \in BOOLEAN
                    /\ AdminCall
<1>1. /\ TypeOK /\ setup.packages \subseteq Packages
      /\ interceptApps \in [Uids -> Entries] /\ asked \in [Uids -> SUBSET Items]
      /\ \A p \in Packages : UidOf[p] \in Uids
  BY Bounds, EntryKinds DEF TypeInv, TypeOK
<1>2. ASSUME NEW p \in setup.packages, NEW clear \in BOOLEAN, AdminSetInterceptApp(p, clear) PROVE Typed
  <2>1. PICK table, items : /\ table \in {interceptApps, Cleared}
                            /\ items \in {[u \in Uids |-> IF u = UidOf[p] THEN {p} ELSE {}], AskedWith(p)}
                            /\ Write(WithApp(table, p), items) /\ AdminCall
    BY <1>2 DEF AdminSetInterceptApp
  <2>2. p \in Packages /\ UidOf[p] \in Uids
    BY <1>1
  <2>3. table \in [Uids -> Entries]
    BY <1>1, <2>1, EntryKinds DEF Cleared
  <2>4. WithApp(table, p) \in [Uids -> Entries]
    BY <2>2, <2>3, TableTypes
  <2>5. items \in [Uids -> SUBSET Items]
    BY <1>1, <2>1, <2>2, AskedTypes
  <2>6. QED
    BY <1>1, <2>1, <2>4, <2>5, WriteTypes
<1>3. ASSUME NEW p \in setup.packages, AdminSetIntercept(p) \/ AdminRemoveIntercept(p) PROVE Typed
  <2>1. p \in Packages /\ UidOf[p] \in Uids
    BY <1>1
  <2>2. /\ [interceptApps EXCEPT ![UidOf[p]] = Insert(@, p)] \in [Uids -> Entries]
        /\ Without(interceptApps, UidOf[p], p) \in [Uids -> Entries]
    BY <1>1, <2>1, TableTypes
  <2>3. AskedWith(p) \in [Uids -> SUBSET Items] /\ AskedWithout(UidOf[p], p) \in [Uids -> SUBSET Items]
    BY <1>1, <2>1, AskedTypes
  <2>4. CASE AdminSetIntercept(p)
    BY <1>1, <2>2, <2>3, <2>4, WriteTypes DEF AdminSetIntercept
  <2>5. CASE AdminRemoveIntercept(p)
    BY <1>1, <2>2, <2>3, <2>5, WriteTypes DEF AdminRemoveIntercept
  <2>6. QED
    BY <1>3, <2>4, <2>5
<1>4. ASSUME NEW u \in Uids, AdminSetInterceptUid(u) PROVE Typed
  <2>1. /\ [interceptApps EXCEPT ![u] = {NO_FILTER}] \in [Uids -> Entries]
        /\ [asked EXCEPT ![u] = {NO_FILTER}] \in [Uids -> SUBSET Items]
    BY <1>1, EntryKinds DEF Items
  <2>2. QED
    BY <1>1, <1>4, <2>1, WriteTypes DEF AdminSetInterceptUid
<1>5. ASSUME AdminClearIntercept PROVE Typed
  <2>1. Cleared \in [Uids -> Entries] /\ [u \in Uids |-> {}] \in [Uids -> SUBSET Items]
    BY EntryKinds DEF Cleared
  <2>2. QED
    BY <1>1, <1>5, <2>1, WriteTypes DEF AdminClearIntercept
<1>6. ASSUME AdminSetInterceptAll PROVE Typed
  BY <1>1, <1>6 DEF AdminSetInterceptAll, TypeOK
<1>7. QED
  BY <1>2, <1>3, <1>4, <1>5, <1>6 DEF Admin

ProcKinds == [state : {"none", "starting", "alive", "dead"}, pkg : Packages \cup {Null},
              for : Launches \cup {None}, got : Launches \cup {None}, due : BOOLEAN]

\* A new process takes the place of none.
LEMMA NewProcIsFree ==
  ASSUME TypeInv, NEW p \in Packages, NEW launch \in Launches \cup {None}, NewProc(p, launch)
  PROVE  \E i \in Procs : /\ proc[i] = NoProc /\ proc[i].state = "none" /\ proc[i].pkg = Null
                          /\ proc[i].for = None /\ i # ams
                          /\ Started(p, launch) \in ProcKinds
                          /\ proc' = [proc EXCEPT ![i] = Started(p, launch)]
<1>1. PICK i \in Procs : /\ proc[i] = NoProc
                         /\ proc' = [proc EXCEPT ![i] = Started(p, launch)]
  BY DEF NewProc
<1>3. proc[i].state = "none" /\ proc[i].pkg = Null /\ proc[i].for = None
  BY <1>1 DEF NoProc
<1>4. i # ams
  <2>1. i \in Nat /\ i > 0
    BY Numbers
  <2>2. QED
    BY <1>3, <2>1 DEF TypeInv, ProcInv, None
<1>5. Started(p, launch) \in ProcKinds
  BY DEF Started, ProcKinds, None
<1>6. QED
  BY <1>1, <1>3, <1>4, <1>5

\* The parts of the state apart from the processes.
Else ==
  /\ setup \in Setups
  /\ interceptApps \in [Uids -> Entries] /\ interceptAll \in BOOLEAN
  /\ subscribed \in BOOLEAN
  /\ elsewhere \in 0..setup.elsewhere
  /\ at \in {"idle", "stop", "set", "record", "count", "start"}
  /\ launching \in Packages \cup {Null}
  /\ launches \in 0..setup.launches
  /\ callback \in [Uids -> Launches \cup {None}]
  /\ appLaunchCount \in [Uids -> Nat \cup {Null}]
  /\ clearHistory \in BOOLEAN /\ overlap \in BOOLEAN /\ torn \in BOOLEAN /\ quiet \in BOOLEAN
  /\ admin \in 0..setup.admin /\ failures \in 0..setup.failures
  /\ asked \in [Uids -> SUBSET Items]
  /\ injections \in [Uids -> Nat]
  /\ at # "idle" => launching \in Packages /\ launches > 0
\* The processes, and who is asked about one.
Asking ==
  /\ ams \in Procs \cup {None}
  /\ answer \in {"none", "pending", "keep", "remove"}
  /\ ams = None <=> answer = "none"
  /\ proc \in [Procs -> ProcKinds]
  /\ handler \in [at : {"idle", "count", "write", "inject"}, record : Launches \cup {None}, count : Nat]
  /\ handler.at # "idle" => answer = "pending"
  /\ \A i \in Procs : /\ proc[i] = NoProc \/ (proc[i].state # "none" /\ proc[i].pkg \in Packages)
                      /\ proc[i].state = "starting" => ~proc[i].due
  /\ ams # None => proc[ams].state = "starting"

LEMMA TypeParts == TypeInv <=> Else /\ Asking
BY DEF TypeInv, TypeOK, ProcInv, Else, Asking, ProcKinds

LEMMA InitTypes == Init => TypeInv
<1> SUFFICES ASSUME Init PROVE TypeInv
  OBVIOUS
<1>1. Else
  <2>1. setup \in Setups
    BY DEF Init
  <2>2. /\ 0 \in 0..setup.elsewhere /\ 0 \in 0..setup.launches /\ 0 \in 0..setup.admin /\ 0 \in 0..setup.failures
    BY <2>1, Bounds
  <2>3. QED
    BY <2>1, <2>2, EntryKinds DEF Init, Else, None
<1>2. Asking
  <2>1. NoProc \in ProcKinds /\ NoProc.state = "none"
    BY DEF NoProc, ProcKinds, None
  <2>2. QED
    BY <2>1 DEF Init, Asking, IdleHandler, None
<1>3. QED
  BY <1>1, <1>2, TypeParts

\* The process that is asked about.
LEMMA AskedAbout ==
  ASSUME TypeInv, ams # None
  PROVE  /\ ams \in Procs /\ proc[ams] \in ProcKinds /\ proc[ams].pkg \in Packages
         /\ UidOfProc(ams) \in Uids /\ UidOfProc(ams) = UidOf[proc[ams].pkg]
<1>1. ams \in Procs /\ proc[ams] \in ProcKinds /\ proc[ams].state = "starting"
  BY TypeParts DEF Asking
<1>2. proc[ams] # NoProc
  BY <1>1 DEF NoProc
<1>3. proc[ams].pkg \in Packages
  BY <1>1, <1>2, TypeParts DEF Asking
<1>4. QED
  BY <1>1, <1>3, InterceptAssumption DEF UidOfProc

-----------------------------------------------------------------------------
(* The types through each step.                                            *)

\* The activity manager's answer to a process.
LEMMA AttachedTypes ==
  ASSUME TypeInv, NEW i \in Procs, proc[i].state = "starting", proc' = Attached(i)
  PROVE  /\ proc' \in [Procs -> ProcKinds]
         /\ proc'[i] = [proc[i] EXCEPT !.state = "alive", !.due = Awaited(i) /\ quiet]
         /\ \A j \in Procs \ {i} : proc'[j] = proc[j]
         /\ proc'[i].state = "alive" /\ proc'[i].pkg = proc[i].pkg /\ proc[i].pkg \in Packages
         /\ proc'[i].for = proc[i].for /\ proc'[i].got = proc[i].got
         /\ proc'[i].due = (Awaited(i) /\ quiet)
<1>1. proc \in [Procs -> ProcKinds]
  BY TypeParts DEF Asking
<1>2. PICK due \in BOOLEAN : due = (Awaited(i) /\ quiet)
  OBVIOUS
<1>3. proc' = [proc EXCEPT ![i] = [proc[i] EXCEPT !.state = "alive", !.due = due]]
  BY <1>1, <1>2 DEF Attached
<1>4. PICK r \in ProcKinds : r = proc[i]
  BY <1>1
<1>5. [r EXCEPT !.state = "alive", !.due = due] \in ProcKinds
  BY <1>4 DEF ProcKinds
<1>6. /\ [r EXCEPT !.state = "alive", !.due = due].state = "alive"
      /\ [r EXCEPT !.state = "alive", !.due = due].pkg = r.pkg
      /\ [r EXCEPT !.state = "alive", !.due = due].for = r.for
      /\ [r EXCEPT !.state = "alive", !.due = due].got = r.got
      /\ [r EXCEPT !.state = "alive", !.due = due].due = due
  BY <1>4 DEF ProcKinds
<1>7. proc[i] # NoProc
  BY DEF NoProc
<1>8. proc[i].pkg \in Packages
  BY <1>7, TypeParts DEF Asking
<1>9. proc'[i] = [r EXCEPT !.state = "alive", !.due = due]
  BY <1>1, <1>3, <1>4
<1>10. QED
  BY <1>1, <1>2, <1>3, <1>4, <1>5, <1>6, <1>8, <1>9

LEMMA NextElse ==
  ASSUME TypeInv, [Next]_vars
  PROVE  Else'
<1>1. Else /\ Asking
  BY TypeParts
<1>2. /\ setup \in Setups /\ setup.packages \subseteq Packages
      /\ setup.launches \in Nat /\ setup.elsewhere \in Nat /\ setup.admin \in Nat /\ setup.failures \in Nat
      /\ 1..setup.launches \subseteq Launches /\ Null \notin Nat
      /\ \A p \in Packages : UidOf[p] \in Uids
  BY <1>1, Bounds, EntryKinds DEF Else
<1> USE DEF tableVars, amsVars, userVars, hostVars, rest
<1>3. ASSUME Admin PROVE Else'
  <2>1. /\ interceptApps' \in [Uids -> Entries] /\ asked' \in [Uids -> SUBSET Items]
        /\ torn' \in BOOLEAN /\ overlap' \in BOOLEAN /\ interceptAll' \in BOOLEAN
        /\ AdminCall
    BY <1>3, AdminTypes
  <2>2. admin' \in 0..setup.admin
    BY <1>1, <1>2, <2>1 DEF AdminCall, Else
  <2>3. /\ setup' = setup /\ subscribed' = subscribed /\ elsewhere' = elsewhere /\ at' = at
        /\ launching' = launching /\ launches' = launches /\ callback' = callback
        /\ appLaunchCount' = appLaunchCount /\ clearHistory' = clearHistory /\ quiet' = FALSE
        /\ failures' = failures /\ injections' = injections
    BY <2>1 DEF AdminCall
  <2>4. QED
    BY <1>1, <2>1, <2>2, <2>3 DEF Else
<1>4. ASSUME NEW p \in setup.packages, StartedElsewhere(p) \/ BeginLaunch(p) PROVE Else'
  <2>1. CASE StartedElsewhere(p)
    <3>1. elsewhere' \in 0..setup.elsewhere
      BY <1>1, <1>2, <2>1 DEF StartedElsewhere, Else
    <3>2. QED
      BY <1>1, <2>1, <3>1 DEF StartedElsewhere, Else
  <2>2. CASE BeginLaunch(p)
    <3>1. launches' \in 0..setup.launches /\ launches' > 0 /\ launching' = p /\ p \in Packages
      BY <1>1, <1>2, <1>4, <2>2 DEF BeginLaunch, Else
    <3>2. callback' \in [Uids -> Launches \cup {None}]
      BY <1>1, <2>2 DEF BeginLaunch, Else, None
    <3>3. QED
      BY <1>1, <2>2, <3>1, <3>2 DEF BeginLaunch, Else
  <2>3. QED
    BY <1>4, <2>1, <2>2
<1>5. ASSUME NEW i \in Procs, Attach(i) PROVE Else'
  BY <1>1, <1>5 DEF Attach, Else
<1>6. ASSUME AttachAnswered PROVE Else'
  <2>1. CASE answer = "remove"
    <3>1. Remove(UidOfProc(ams), proc[ams].pkg) /\ ams # None
      BY <1>1, <1>6, <2>1 DEF AttachAnswered, Asking
    <3>2. proc[ams].pkg \in Packages /\ UidOfProc(ams) \in Uids
      BY <3>1, AskedAbout
    <3>3. /\ Without(interceptApps, UidOfProc(ams), proc[ams].pkg) \in [Uids -> Entries]
          /\ AskedWithout(UidOfProc(ams), proc[ams].pkg) \in [Uids -> SUBSET Items]
      BY <1>1, <3>2, TableTypes, AskedTypes DEF Else
    <3>4. /\ interceptApps' \in [Uids -> Entries] /\ asked' \in [Uids -> SUBSET Items]
          /\ torn' \in BOOLEAN /\ overlap' \in BOOLEAN /\ interceptAll' \in BOOLEAN
      BY <1>1, <3>1, <3>3 DEF Remove, LaunchWriting, Else
    <3>5. QED
      BY <1>1, <1>6, <2>1, <3>4 DEF AttachAnswered, Else, LaunchWriting
  <2>2. CASE answer # "remove"
    BY <1>1, <1>6, <2>2 DEF AttachAnswered, Else
  <2>3. QED
    BY <2>1, <2>2
<1>7. ASSUME SubscriberLost \/ SubscribedAgain PROVE Else'
  <2>1. failures' \in 0..setup.failures
    BY <1>1, <1>2, <1>7 DEF SubscriberLost, SubscribedAgain, Else
  <2>2. QED
    BY <1>1, <1>7, <2>1 DEF SubscriberLost, SubscribedAgain, Else
<1>8. ASSUME FindCallback \/ ReadCount PROVE Else'
  BY <1>1, <1>8 DEF FindCallback, ReadCount, Else
<1>9. ASSUME WriteCount \/ Inject PROVE Else'
  <2>1. ams # None
    BY <1>1, <1>9 DEF WriteCount, Inject, Asking
  <2>2. UidOfProc(ams) \in Uids
    BY <2>1, AskedAbout
  <2>3. CASE WriteCount
    <3>1. handler.count + 1 \in Nat
      BY <1>1 DEF Asking
    <3>2. appLaunchCount' \in [Uids -> Nat \cup {Null}]
      BY <1>1, <2>3, <3>1 DEF WriteCount, Else
    <3>3. QED
      BY <1>1, <2>3, <3>2 DEF WriteCount, Else
  <2>4. CASE Inject
    <3>1. injections' = [injections EXCEPT ![UidOfProc(ams)] = injections[UidOfProc(ams)] + 1] \/ injections' = injections
      BY <2>4 DEF Inject, rest
    <3>2. injections[UidOfProc(ams)] + 1 \in Nat
      BY <1>1, <2>2 DEF Else
    <3>3. injections' \in [Uids -> Nat]
      BY <1>1, <3>1, <3>2 DEF Else
    <3>4. failures' = failures \/ (failures < setup.failures /\ failures' = failures + 1)
      BY <2>4 DEF Inject
    <3>5. failures' \in 0..setup.failures
      BY <1>1, <1>2, <3>4 DEF Else
    <3>6. quiet' \in BOOLEAN
      BY <1>1, <2>4 DEF Inject, Else
    <3>7. QED
      BY <1>1, <2>4, <3>3, <3>5, <3>6 DEF Inject, Else
  <2>5. QED
    BY <1>9, <2>3, <2>4
<1>10. ASSUME ForceStop \/ ResetCount \/ StartActivity PROVE Else'
  BY <1>1, <1>2, <1>10 DEF ForceStop, ResetCount, StartActivity, Else
<1>11. ASSUME SetInterceptApp PROVE Else'
  <2>1. launching \in Packages /\ UidOf[launching] \in Uids
    BY <1>1, <1>2, <1>11 DEF SetInterceptApp, Else
  <2>2. /\ Cleared \in [Uids -> Entries]
        /\ WithApp(Cleared, launching) \in [Uids -> Entries]
        /\ WithApp(interceptApps, launching) \in [Uids -> Entries]
    <3>1. Cleared \in [Uids -> Entries] /\ interceptApps \in [Uids -> Entries]
      BY <1>1, EntryKinds DEF Cleared, Else
    <3>2. QED
      BY <2>1, <3>1, TableTypes
  <2>3. interceptApps' \in [Uids -> Entries]
    BY <1>1, <1>11, <2>2 DEF SetInterceptApp, Else
  <2>4. asked' \in [Uids -> SUBSET Items]
    BY <1>1, <1>11, <2>1, AskedTypes DEF SetInterceptApp, Else
  <2>5. torn' \in BOOLEAN /\ quiet' \in BOOLEAN /\ overlap' \in BOOLEAN
    BY <1>1, <1>11 DEF SetInterceptApp, Else, RemovalPending
  <2>6. QED
    BY <1>1, <1>11, <2>3, <2>4, <2>5 DEF SetInterceptApp, Else
<1>12. ASSUME StoreCallback PROVE Else'
  <2>1. at = "record" /\ at' \in {"count", "idle"} /\ subscribed' \in BOOLEAN
    BY <1>1, <1>12 DEF StoreCallback, Else
  <2>2. launches \in Launches /\ launching \in Packages
    BY <1>1, <1>2, <2>1 DEF Else
  <2>3. callback' \in [Uids -> Launches \cup {None}]
    BY <1>1, <1>12, <2>2 DEF StoreCallback, Else
  <2>4. QED
    BY <1>1, <1>12, <2>1, <2>2, <2>3 DEF StoreCallback, Else
<1>13. ASSUME UNCHANGED vars PROVE Else'
  BY <1>1, <1>13 DEF vars, Else
<1>14. QED
  BY <1>3, <1>4, <1>5, <1>6, <1>7, <1>8, <1>9, <1>10, <1>11, <1>12, <1>13 DEF Next, Handler, User

\* Steps that leave the processes and the host's handler as they are.
LEMMA OthersLeaveAsking ==
  ASSUME \/ Admin \/ \E p \in setup.packages : BeginLaunch(p)
         \/ SubscriberLost \/ SubscribedAgain \/ SetInterceptApp \/ StoreCallback \/ ResetCount
         \/ UNCHANGED vars
  PROVE  ams' = ams /\ answer' = answer /\ proc' = proc /\ handler' = handler /\ setup' = setup
<1> USE DEF amsVars, hostVars, rest
<1>1. Admin => AdminCall
  BY DEF Admin, AdminSetInterceptApp, AdminSetIntercept, AdminRemoveIntercept, AdminSetInterceptUid,
         AdminClearIntercept, AdminSetInterceptAll
<1>2. CASE Admin
  BY <1>1, <1>2 DEF AdminCall
<1>3. CASE \E p \in setup.packages : BeginLaunch(p)
  BY <1>3 DEF BeginLaunch
<1>4. CASE SubscriberLost \/ SubscribedAgain
  BY <1>4 DEF SubscriberLost, SubscribedAgain
<1>5. CASE SetInterceptApp \/ StoreCallback \/ ResetCount
  BY <1>5 DEF SetInterceptApp, StoreCallback, ResetCount
<1>6. CASE UNCHANGED vars
  BY <1>6 DEF vars
<1>7. QED
  BY <1>2, <1>3, <1>4, <1>5, <1>6

\* The plugin of a record reaches the process, and nothing else of it changes.
LEMMA InjectedTypes ==
  ASSUME TypeInv, Inject
  PROVE  /\ ams \in Procs /\ handler.at = "inject"
         /\ proc' \in [Procs -> ProcKinds]
         /\ \A j \in Procs \ {ams} : proc'[j] = proc[j]
         /\ proc'[ams].state = proc[ams].state /\ proc'[ams].pkg = proc[ams].pkg
         /\ proc'[ams].for = proc[ams].for /\ proc'[ams].due = proc[ams].due
         /\ \/ /\ proc'[ams].got = handler.record /\ quiet' = quiet
               /\ injections' = [injections EXCEPT ![UidOfProc(ams)] = injections[UidOfProc(ams)] + 1]
            \/ ~quiet' /\ proc' = proc /\ injections' = injections
<1>1. Else /\ Asking
  BY TypeParts
<1>2. ams # None /\ handler.at = "inject"
  BY <1>1 DEF Inject, Asking
<1>3. ams \in Procs /\ proc \in [Procs -> ProcKinds] /\ handler.record \in Launches \cup {None}
  BY <1>1, <1>2 DEF Asking
<1>4. PICK r \in ProcKinds : r = proc[ams]
  BY <1>3
<1>5. CASE /\ proc' = [proc EXCEPT ![ams].got = handler.record]
           /\ injections' = [injections EXCEPT ![UidOfProc(ams)] = injections[UidOfProc(ams)] + 1]
           /\ quiet' = quiet
  <2>1. PICK record \in Launches \cup {None} : record = handler.record
    BY <1>3
  <2>2. [r EXCEPT !.got = record] \in ProcKinds
    BY <1>4 DEF ProcKinds
  <2>3. proc' = [proc EXCEPT ![ams] = [r EXCEPT !.got = record]]
    BY <1>4, <1>5, <2>1
  <2>4. /\ [r EXCEPT !.got = record].state = r.state /\ [r EXCEPT !.got = record].pkg = r.pkg
        /\ [r EXCEPT !.got = record].for = r.for /\ [r EXCEPT !.got = record].due = r.due
        /\ [r EXCEPT !.got = record].got = record
    BY <1>4 DEF ProcKinds
  <2>5. proc'[ams] = [r EXCEPT !.got = record]
    BY <1>3, <2>3
  <2>6. QED
    BY <1>2, <1>3, <1>4, <1>5, <2>1, <2>2, <2>3, <2>4, <2>5
<1>6. CASE proc' = proc /\ quiet' = FALSE /\ injections' = injections
  BY <1>2, <1>3, <1>6
<1>7. QED
  BY <1>5, <1>6 DEF Inject

\* Of the processes of a package that is stopped only the state changes.
LEMMA StoppedTypes ==
  ASSUME TypeInv, ForceStop
  PROVE  /\ proc' \in [Procs -> ProcKinds] /\ launching \in Packages /\ at = "stop" /\ at' = "set"
         /\ \A i \in Procs : /\ proc'[i].pkg = proc[i].pkg /\ proc'[i].for = proc[i].for
                             /\ proc'[i].got = proc[i].got /\ proc'[i].due = proc[i].due
                             /\ proc'[i].state = IF proc[i].pkg = launching THEN "dead" ELSE proc[i].state
                             /\ proc[i].pkg # launching => proc'[i] = proc[i]
<1>1. Else /\ Asking
  BY TypeParts
<1>2. /\ at = "stop" /\ at' = "set" /\ launching \in Packages
      /\ proc' = [i \in Procs |-> IF proc[i].pkg = launching THEN [proc[i] EXCEPT !.state = "dead"] ELSE proc[i]]
  BY <1>1 DEF ForceStop, Else
<1>3. ASSUME NEW r \in ProcKinds
      PROVE  /\ [r EXCEPT !.state = "dead"] \in ProcKinds
             /\ [r EXCEPT !.state = "dead"].pkg = r.pkg /\ [r EXCEPT !.state = "dead"].for = r.for
             /\ [r EXCEPT !.state = "dead"].got = r.got /\ [r EXCEPT !.state = "dead"].due = r.due
             /\ [r EXCEPT !.state = "dead"].state = "dead"
  BY DEF ProcKinds
<1>4. \A i \in Procs : proc[i] \in ProcKinds
  BY <1>1 DEF Asking
<1>5. QED
  BY <1>2, <1>3, <1>4

\* A process that is there already is the one the launch is for.
LEMMA ReusedTypes ==
  ASSUME TypeInv, NEW i \in Procs, proc' = [proc EXCEPT ![i].for = launches], launches \in Launches
  PROVE  /\ proc' \in [Procs -> ProcKinds]
         /\ \A j \in Procs \ {i} : proc'[j] = proc[j]
         /\ proc'[i].state = proc[i].state /\ proc'[i].pkg = proc[i].pkg
         /\ proc'[i].got = proc[i].got /\ proc'[i].due = proc[i].due /\ proc'[i].for = launches
<1>1. proc \in [Procs -> ProcKinds]
  BY TypeParts DEF Asking
<1>2. PICK r \in ProcKinds : r = proc[i]
  BY <1>1
<1>3. proc' = [proc EXCEPT ![i] = [r EXCEPT !.for = launches]]
  BY <1>2
<1>4. /\ [r EXCEPT !.for = launches] \in ProcKinds
      /\ [r EXCEPT !.for = launches].state = r.state /\ [r EXCEPT !.for = launches].pkg = r.pkg
      /\ [r EXCEPT !.for = launches].got = r.got /\ [r EXCEPT !.for = launches].due = r.due
      /\ [r EXCEPT !.for = launches].for = launches
  BY <1>2 DEF ProcKinds
<1>5. proc'[i] = [r EXCEPT !.for = launches]
  BY <1>1, <1>3
<1>6. QED
  BY <1>1, <1>2, <1>3, <1>4, <1>5

\* The handler's steps up to the injection.
LEMMA HandlerTypes ==
  ASSUME TypeInv, FindCallback \/ ReadCount \/ WriteCount
  PROVE  /\ ams # None /\ ams' = ams /\ proc' = proc /\ answer = "pending"
         /\ handler' \in [at : {"idle", "count", "write", "inject"}, record : Launches \cup {None}, count : Nat]
         /\ handler.at \in {"idle", "count", "write"}
         /\ \/ handler'.at = "idle" /\ answer' = "keep" /\ handler.at = "idle" /\ callback[UidOfProc(ams)] = None
            \/ /\ handler'.at = "idle" /\ answer' = "keep" /\ handler.at = "count"
               /\ appLaunchCount[UidOfProc(ams)] = Null
            \/ handler'.at = "idle" /\ answer' = "remove" /\ handler.at = "write" /\ ~MayInject(handler.count)
            \/ /\ handler'.at = "count" /\ answer' = "pending" /\ handler.at = "idle"
               /\ handler'.record = callback[UidOfProc(ams)]
            \/ /\ handler'.at = "write" /\ answer' = "pending" /\ handler.at = "count"
               /\ handler'.record = handler.record /\ handler'.count = appLaunchCount[UidOfProc(ams)]
            \/ /\ handler'.at = "inject" /\ answer' = "pending" /\ handler.at = "write"
               /\ MayInject(handler.count) /\ handler'.record = handler.record
         /\ appLaunchCount' = IF handler.at = "write"
                              THEN [appLaunchCount EXCEPT ![UidOfProc(ams)] = handler.count + 1]
                              ELSE appLaunchCount
<1>1. Else /\ Asking
  BY TypeParts
<1>2. ams # None /\ answer = "pending"
  BY <1>1 DEF FindCallback, ReadCount, WriteCount, Asking
<1>3. PICK h \in [at : {"idle", "count", "write", "inject"}, record : Launches \cup {None}, count : Nat] : h = handler
  BY <1>1 DEF Asking
<1>4. PICK u \in Uids : u = UidOfProc(ams)
  BY <1>2, AskedAbout
<1>5. /\ callback[u] \in Launches \cup {None} /\ appLaunchCount[u] \in Nat \cup {Null}
      /\ IdleHandler.at = "idle"
      /\ IdleHandler \in [at : {"idle", "count", "write", "inject"}, record : Launches \cup {None}, count : Nat]
  BY <1>1, <1>4 DEF Else, IdleHandler, None
<1>6. CASE FindCallback
  <2>1. /\ handler.at = "idle" /\ appLaunchCount' = appLaunchCount /\ ams' = ams /\ proc' = proc
    BY <1>6 DEF FindCallback
  <2>2. CASE callback[u] = None
    BY <1>2, <1>4, <1>5, <1>6, <2>1, <2>2 DEF FindCallback, Respond
  <2>3. CASE callback[u] # None
    <3>1. handler' = [h EXCEPT !.at = "count", !.record = callback[u]] /\ answer' = answer
      BY <1>3, <1>4, <1>6, <2>3 DEF FindCallback
    <3>2. QED
      BY <1>2, <1>3, <1>4, <1>5, <2>1, <3>1
  <2>4. QED
    BY <2>2, <2>3
<1>7. CASE ReadCount
  <2>1. /\ handler.at = "count" /\ appLaunchCount' = appLaunchCount /\ ams' = ams /\ proc' = proc
    BY <1>7 DEF ReadCount
  <2>2. CASE appLaunchCount[u] = Null
    BY <1>2, <1>4, <1>5, <1>7, <2>1, <2>2 DEF ReadCount, Respond
  <2>3. CASE appLaunchCount[u] # Null
    <3>1. handler' = [h EXCEPT !.at = "write", !.count = appLaunchCount[u]] /\ answer' = answer
      BY <1>3, <1>4, <1>7, <2>3 DEF ReadCount
    <3>2. appLaunchCount[u] \in Nat
      BY <1>5, <2>3
    <3>3. QED
      BY <1>2, <1>3, <1>4, <2>1, <3>1, <3>2
  <2>4. QED
    BY <2>2, <2>3
<1>8. CASE WriteCount
  <2>1. /\ handler.at = "write" /\ ams' = ams /\ proc' = proc
        /\ appLaunchCount' = [appLaunchCount EXCEPT ![UidOfProc(ams)] = handler.count + 1]
    BY <1>8 DEF WriteCount
  <2>2. CASE MayInject(handler.count)
    <3>1. handler' = [h EXCEPT !.at = "inject"] /\ answer' = answer
      BY <1>3, <1>8, <2>2 DEF WriteCount
    <3>2. QED
      BY <1>2, <1>3, <2>1, <2>2, <3>1
  <2>3. CASE ~MayInject(handler.count)
    BY <1>2, <1>5, <1>8, <2>1, <2>3 DEF WriteCount, Respond
  <2>4. QED
    BY <2>2, <2>3
<1>9. QED
  BY <1>6, <1>7, <1>8

\* What the activity manager does with a process that attaches.
LEMMA AttachTypes ==
  ASSUME TypeInv, NEW i \in Procs, Attach(i)
  PROVE  /\ ams = None /\ answer = "none" /\ handler.at = "idle" /\ handler' = handler
         /\ proc[i].state = "starting" /\ proc[i].pkg \in Packages
         /\ \/ ams' = i /\ answer' = "pending" /\ proc' = proc
            \/ /\ ams' = None /\ answer' = "none" /\ proc' = Attached(i)
               /\ \E cond \in Conditions(UidOfProc(i)) : ~Reports(cond, i)
<1>1. Else /\ Asking
  BY TypeParts
<1>2. ams = None /\ answer = "none" /\ handler.at = "idle" /\ handler' = handler /\ proc[i].state = "starting"
  BY <1>1 DEF Attach, Asking, hostVars
<1>3. proc[i].pkg \in Packages
  <2>1. proc[i] # NoProc
    BY <1>2 DEF NoProc
  <2>2. QED
    BY <1>1, <2>1 DEF Asking
<1>4. QED
  BY <1>2, <1>3 DEF Attach

LEMMA NextAsking ==
  ASSUME TypeInv, [Next]_vars
  PROVE  Asking'
<1>1. Else /\ Asking
  BY TypeParts
<1>2. /\ setup.packages \subseteq Packages /\ 1..setup.launches \subseteq Launches /\ setup.launches \in Nat
  BY <1>1, Bounds DEF Else
<1>3. \A i \in Procs : i # None
  BY Numbers DEF None
<1>4. ASSUME \/ Admin \/ \E p \in setup.packages : BeginLaunch(p)
             \/ SubscriberLost \/ SubscribedAgain \/ SetInterceptApp \/ StoreCallback \/ ResetCount
             \/ UNCHANGED vars
      PROVE  Asking'
  <2>1. ams' = ams /\ answer' = answer /\ proc' = proc /\ handler' = handler
    BY <1>4, OthersLeaveAsking
  <2>2. QED
    BY <1>1, <2>1 DEF Asking
\* A new process.
<1>5. ASSUME NEW p \in Packages, NEW launch \in Launches \cup {None}, NewProc(p, launch),
             ams' = ams, answer' = answer, handler' = handler
      PROVE  Asking'
  <2>1. PICK i \in Procs : /\ proc[i].state = "none" /\ i # ams
                           /\ Started(p, launch) \in ProcKinds
                           /\ proc' = [proc EXCEPT ![i] = Started(p, launch)]
    BY <1>5, NewProcIsFree
  <2>2. /\ proc' \in [Procs -> ProcKinds] /\ proc'[i] = Started(p, launch)
        /\ \A j \in Procs \ {i} : proc'[j] = proc[j]
    BY <1>1, <2>1 DEF Asking
  <2>3. Started(p, launch).state = "starting" /\ Started(p, launch).pkg = p /\ ~Started(p, launch).due
    BY DEF Started
  <2>4. \A j \in Procs : /\ proc'[j] = NoProc \/ (proc'[j].state # "none" /\ proc'[j].pkg \in Packages)
                         /\ proc'[j].state = "starting" => ~proc'[j].due
    BY <1>1, <2>2, <2>3 DEF Asking
  <2>5. ams' # None => proc'[ams'].state = "starting"
    BY <1>1, <1>5, <2>1, <2>2 DEF Asking
  <2>6. QED
    BY <1>1, <1>5, <2>2, <2>4, <2>5 DEF Asking
<1>6. ASSUME NEW p \in setup.packages, StartedElsewhere(p) PROVE Asking'
  BY <1>2, <1>5, <1>6 DEF StartedElsewhere, hostVars
\* A process goes on.
<1>7. ASSUME NEW i \in Procs, proc[i].state = "starting", proc' = Attached(i), handler' = handler,
             handler.at = "idle", ams' = None, answer' = "none"
      PROVE  Asking'
  <2>1. /\ proc' \in [Procs -> ProcKinds] /\ \A j \in Procs \ {i} : proc'[j] = proc[j]
        /\ proc'[i].state = "alive" /\ proc'[i].pkg \in Packages
    BY <1>7, AttachedTypes
  <2>2. \A j \in Procs : /\ proc'[j] = NoProc \/ (proc'[j].state # "none" /\ proc'[j].pkg \in Packages)
                         /\ proc'[j].state = "starting" => ~proc'[j].due
    BY <1>1, <2>1 DEF Asking
  <2>3. QED
    BY <1>1, <1>7, <2>1, <2>2 DEF Asking
<1>8. ASSUME NEW i \in Procs, Attach(i) PROVE Asking'
  <2>1. CASE ams' = i /\ answer' = "pending" /\ proc' = proc
    BY <1>1, <1>3, <1>8, <2>1, AttachTypes DEF Asking
  <2>2. CASE ams' = None /\ answer' = "none" /\ proc' = Attached(i)
    BY <1>7, <1>8, <2>2, AttachTypes
  <2>3. QED
    BY <1>8, <2>1, <2>2, AttachTypes
<1>9. ASSUME AttachAnswered PROVE Asking'
  <2>1. ams \in Procs /\ proc[ams].state = "starting" /\ handler.at = "idle"
    BY <1>1, <1>9 DEF AttachAnswered, Asking
  <2>2. QED
    BY <1>7, <1>9, <2>1 DEF AttachAnswered, hostVars
<1>10. ASSUME FindCallback \/ ReadCount \/ WriteCount PROVE Asking'
  <2>1. /\ ams' = ams /\ ams # None /\ proc' = proc /\ answer' \in {"pending", "keep", "remove"}
        /\ handler' \in [at : {"idle", "count", "write", "inject"}, record : Launches \cup {None}, count : Nat]
        /\ handler'.at # "idle" => answer' = "pending"
    BY <1>10, HandlerTypes
  <2>2. QED
    BY <1>1, <2>1 DEF Asking
<1>11. ASSUME Inject PROVE Asking'
  <2>1. /\ ams' = ams /\ answer' = "keep" /\ handler' = IdleHandler
    BY <1>11 DEF Inject, Respond
  <2>2. /\ IdleHandler.at = "idle"
        /\ IdleHandler \in [at : {"idle", "count", "write", "inject"}, record : Launches \cup {None}, count : Nat]
    BY DEF IdleHandler, None
  <2>3. /\ ams \in Procs /\ ams # None
        /\ proc' \in [Procs -> ProcKinds]
        /\ \A j \in Procs \ {ams} : proc'[j] = proc[j]
        /\ proc'[ams].state = proc[ams].state /\ proc'[ams].pkg = proc[ams].pkg
        /\ proc'[ams].due = proc[ams].due
    BY <1>3, <1>11, InjectedTypes
  <2>4. proc[ams].state = "starting" /\ proc[ams].pkg \in Packages
    BY <1>1, <2>3, AskedAbout DEF Asking
  <2>5. \A j \in Procs : /\ proc'[j] = NoProc \/ (proc'[j].state # "none" /\ proc'[j].pkg \in Packages)
                         /\ proc'[j].state = "starting" => ~proc'[j].due
    BY <1>1, <2>3, <2>4 DEF Asking
  <2>6. ams' \in Procs \cup {None} /\ (ams' = None <=> answer' = "none") /\ proc'[ams'].state = "starting"
    BY <2>1, <2>3, <2>4
  <2>7. QED
    BY <2>1, <2>2, <2>3, <2>5, <2>6 DEF Asking
<1>12. ASSUME ForceStop PROVE Asking'
  <2>1. ams = None /\ ams' = ams /\ answer' = answer /\ handler' = handler
    BY <1>12 DEF ForceStop, hostVars
  <2>2. /\ proc' \in [Procs -> ProcKinds] /\ launching \in Packages
        /\ \A i \in Procs : /\ proc'[i].pkg = proc[i].pkg /\ proc'[i].due = proc[i].due
                            /\ proc'[i].state = IF proc[i].pkg = launching THEN "dead" ELSE proc[i].state
                            /\ proc[i].pkg # launching => proc'[i] = proc[i]
    BY <1>12, StoppedTypes
  <2>3. \A j \in Procs : /\ proc'[j] = NoProc \/ (proc'[j].state # "none" /\ proc'[j].pkg \in Packages)
                         /\ proc'[j].state = "starting" => ~proc'[j].due
    BY <1>1, <2>2 DEF Asking
  <2>4. QED
    BY <1>1, <2>1, <2>2, <2>3 DEF Asking
<1>13. ASSUME StartActivity PROVE Asking'
  <2>1. ams = None /\ ams' = ams /\ answer' = answer /\ handler' = handler
    BY <1>13 DEF StartActivity, hostVars
  <2>2. launching \in Packages /\ launches \in Launches
    BY <1>1, <1>2, <1>13 DEF StartActivity, Else
  <2>3. CASE NewProc(launching, launches)
    BY <1>5, <2>1, <2>2, <2>3
  <2>4. ASSUME NEW i \in Procs, proc[i].pkg = launching, proc' = [proc EXCEPT ![i].for = launches] PROVE Asking'
    <3>1. /\ proc' \in [Procs -> ProcKinds]
          /\ \A j \in Procs \ {i} : proc'[j] = proc[j]
          /\ proc'[i].state = proc[i].state /\ proc'[i].pkg = proc[i].pkg /\ proc'[i].due = proc[i].due
      BY <2>2, <2>4, ReusedTypes
    <3>2. NoProc.pkg = Null /\ Null \notin Packages
      BY InterceptAssumption DEF NoProc
    <3>3. \A j \in Procs : /\ proc'[j] = NoProc \/ (proc'[j].state # "none" /\ proc'[j].pkg \in Packages)
                           /\ proc'[j].state = "starting" => ~proc'[j].due
      BY <1>1, <2>2, <2>4, <3>1, <3>2 DEF Asking
    <3>4. QED
      BY <1>1, <2>1, <3>1, <3>3 DEF Asking
  <2>5. QED
    BY <1>13, <2>3, <2>4 DEF StartActivity
<1>14. QED
  BY <1>4, <1>6, <1>8, <1>9, <1>10, <1>11, <1>12, <1>13 DEF Next, Handler, User

LEMMA NextTypes == TypeInv /\ [Next]_vars => TypeInv'
<1>1. ASSUME TypeInv, [Next]_vars PROVE TypeInv'
  <2>1. Else' /\ Asking'
    BY <1>1, NextElse, NextAsking
  <2>2. QED
    BY <2>1 DEF TypeInv, TypeOK, ProcInv, Else, Asking, ProcKinds
<1>2. QED
  BY <1>1

\* TypeOK: above all, that the host is asked exactly while a process holds the
\* activity manager, and handles one broadcast at a time.
THEOREM LaunchTypes == Spec => []TypeOK
BY InitTypes, NextTypes, PTL DEF Spec, TypeInv

-----------------------------------------------------------------------------
(* The budget of injections.                                               *)

\* While the host is asked, nobody else gets the activity manager, and the
\* process it is asked about stays of its package.
LEMMA AskedStays ==
  ASSUME TypeInv, [Next]_vars, answer = "pending"
  PROVE  ams # None /\ ams' = ams /\ proc'[ams].pkg = proc[ams].pkg /\ UidOfProc(ams)' = UidOfProc(ams)
<1>1. Else /\ Asking
  BY TypeParts
<1>2. ams # None /\ ams \in Procs
  BY <1>1 DEF Asking
<1>3. setup.packages \subseteq Packages
  BY <1>1, Bounds DEF Else
<1>4. ASSUME NEW p \in setup.packages, StartedElsewhere(p) PROVE ams' = ams /\ proc'[ams] = proc[ams]
  <2>1. NewProc(p, None) /\ ams' = ams
    BY <1>4 DEF StartedElsewhere
  <2>2. p \in Packages /\ None \in Launches \cup {None}
    BY <1>3
  <2>3. PICK i \in Procs : i # ams /\ proc' = [proc EXCEPT ![i] = Started(p, None)]
    BY <2>1, <2>2, NewProcIsFree
  <2>4. QED
    BY <1>1, <1>2, <2>1, <2>3 DEF Asking
<1>5. ASSUME NEW i \in Procs PROVE ~Attach(i)
  BY <1>2 DEF Attach
<1>6. ~AttachAnswered /\ ~ForceStop /\ ~StartActivity
  BY <1>2 DEF AttachAnswered, ForceStop, StartActivity
<1>7. ASSUME Inject PROVE ams' = ams /\ proc'[ams].pkg = proc[ams].pkg
  BY <1>7, InjectedTypes DEF Inject
<1>8. ams' = ams /\ proc'[ams].pkg = proc[ams].pkg
  BY <1>4, <1>5, <1>6, <1>7, HandlerTypes, OthersLeaveAsking DEF Next, Handler, User
<1>9. QED
  BY <1>2, <1>8 DEF UidOfProc

\* Which steps touch the counts and the handler.
LEMMA CountsStay ==
  ASSUME TypeInv, [Next]_vars
  PROVE  \/ Handler \/ ResetCount
         \/ appLaunchCount' = appLaunchCount /\ injections' = injections /\ handler' = handler
<1> USE DEF hostVars, rest
<1>1. Admin => AdminCall
  BY DEF Admin, AdminSetInterceptApp, AdminSetIntercept, AdminRemoveIntercept, AdminSetInterceptUid,
         AdminClearIntercept, AdminSetInterceptAll
<1>2. CASE Admin \/ \E p \in setup.packages : StartedElsewhere(p) \/ BeginLaunch(p)
  BY <1>1, <1>2 DEF AdminCall, StartedElsewhere, BeginLaunch
<1>3. CASE \/ \E i \in Procs : Attach(i)
           \/ AttachAnswered \/ SubscriberLost \/ SubscribedAgain
  BY <1>3 DEF Attach, AttachAnswered, SubscriberLost, SubscribedAgain
<1>4. CASE ForceStop \/ SetInterceptApp \/ StoreCallback \/ StartActivity
  BY <1>4 DEF ForceStop, SetInterceptApp, StoreCallback, StartActivity
<1>5. CASE UNCHANGED vars
  BY <1>5 DEF vars
<1>6. QED
  BY <1>2, <1>3, <1>4, <1>5 DEF Next, User

LEMMA AtStays ==
  ASSUME TypeInv, [Next]_vars
  PROVE  \/ User
         \/ \E p \in setup.packages : BeginLaunch(p)
         \/ at' = at /\ launches' = launches /\ launching' = launching /\ setup' = setup
<1> USE DEF userVars, rest
<1>1. Admin => AdminCall
  BY DEF Admin, AdminSetInterceptApp, AdminSetIntercept, AdminRemoveIntercept, AdminSetInterceptUid,
         AdminClearIntercept, AdminSetInterceptAll
<1>2. CASE Admin \/ \E p \in setup.packages : StartedElsewhere(p)
  BY <1>1, <1>2 DEF AdminCall, StartedElsewhere
<1>3. CASE \/ \E i \in Procs : Attach(i)
           \/ AttachAnswered \/ SubscriberLost \/ SubscribedAgain
  BY <1>3 DEF Attach, AttachAnswered, SubscriberLost, SubscribedAgain
<1>4. CASE Handler
  BY <1>4 DEF Handler, FindCallback, ReadCount, WriteCount, Inject
<1>5. CASE UNCHANGED vars
  BY <1>5 DEF vars
<1>6. QED
  BY <1>2, <1>3, <1>4, <1>5 DEF Next

\* A launch resets its count at most once.
LEMMA ResetsStep ==
  ASSUME TypeInv, [Next]_vars
  PROVE  /\ Resets \in Nat /\ Resets' \in {Resets, Resets + 1} /\ launches \in Nat /\ Resets <= launches
         /\ ResetCount => Resets' = Resets + 1
<1>1. Else
  BY TypeParts
<1>2. launches \in Nat /\ (at # "idle" => launches > 0)
  BY <1>1, Bounds DEF Else
<1>3. Resets \in Nat /\ Resets <= launches
  BY <1>2 DEF Resets
<1>4. CASE \E p \in setup.packages : BeginLaunch(p)
  BY <1>2, <1>3, <1>4 DEF BeginLaunch, Resets, ResetCount
<1>5. CASE ForceStop \/ SetInterceptApp \/ ResetCount \/ StartActivity
  BY <1>2, <1>3, <1>5 DEF ForceStop, SetInterceptApp, ResetCount, StartActivity, Resets
<1>6. CASE StoreCallback
  BY <1>2, <1>3, <1>6 DEF StoreCallback, Resets, ResetCount
<1>7. CASE at' = at /\ launches' = launches
  <2>1. ~ResetCount
    BY <1>7 DEF ResetCount
  <2>2. Resets' = Resets
    BY <1>7 DEF Resets
  <2>3. QED
    BY <1>2, <1>3, <2>1, <2>2
<1>8. QED
  BY <1>4, <1>5, <1>6, <1>7, AtStays DEF User

LEMMA NextBudget ==
  ASSUME TypeInv, BudgetInv, [Next]_vars
  PROVE  BudgetInv'
<1>1. Else /\ Asking
  BY TypeParts
<1>2. /\ maxLaunchCount \in Nat /\ maxLaunchCount > 0 /\ Null \notin Nat
      /\ \A u \in Uids : injections[u] \in Nat /\ appLaunchCount[u] \in Nat \cup {Null}
      /\ handler.count \in Nat
  BY <1>1, Bounds DEF Else, Asking
<1>3. PICK B \in Nat, C \in Nat :
        /\ B = maxLaunchCount * Resets /\ C = maxLaunchCount * Resets'
        /\ C \in {B, B + maxLaunchCount} /\ (ResetCount => C = B + maxLaunchCount)
  <2>1. Resets \in Nat /\ Resets' \in {Resets, Resets + 1}
    BY ResetsStep
  <2>2. \A k \in Nat : maxLaunchCount * k \in Nat /\ maxLaunchCount * (k + 1) = maxLaunchCount * k + maxLaunchCount
    BY <1>2
  <2>3. maxLaunchCount * Resets' \in {maxLaunchCount * Resets, maxLaunchCount * Resets + maxLaunchCount}
    BY <2>1, <2>2
  <2>4. maxLaunchCount * Resets \in Nat /\ maxLaunchCount * Resets' \in Nat
    <3>1. Resets' \in Nat
      BY <2>1
    <3>2. QED
      BY <2>1, <2>2, <3>1
  <2>5. ResetCount => maxLaunchCount * Resets' = maxLaunchCount * Resets + maxLaunchCount
    BY <2>1, <2>2, ResetsStep
  <2>6. QED
    BY <2>3, <2>4, <2>5
<1>4. /\ \A u \in Uids : injections[u] + Pending(u) + Unspent(u) <= B
      /\ handler.at = "write" /\ handler.count < maxLaunchCount =>
           injections[UidOfProc(ams)] + (maxLaunchCount - handler.count) <= B
  BY <1>3 DEF BudgetInv
<1>5. \A u \in Uids : Pending(u) \in Nat /\ Unspent(u) \in Nat
  BY <1>2 DEF Pending, Unspent
<1> DEFINE Within(b) ==
             /\ \A u \in Uids : injections'[u] + Pending(u)' + Unspent(u)' <= b
             /\ handler'.at = "write" /\ handler'.count < maxLaunchCount =>
                  injections'[UidOfProc(ams)'] + (maxLaunchCount - handler'.count) <= b
<1>6. SUFFICES Within(C)
  BY <1>3 DEF BudgetInv
\* The process that is asked about, before and after the step.
<1>7. ASSUME handler.at # "idle"
      PROVE  UidOfProc(ams) \in Uids /\ UidOfProc(ams)' = UidOfProc(ams)
  <2>1. answer = "pending" /\ ams # None
    BY <1>1, <1>7 DEF Asking
  <2>2. QED
    BY <2>1, AskedStays, AskedAbout
<1>8. ASSUME handler' = handler, injections' = injections
      PROVE  /\ \A u \in Uids : Pending(u)' = Pending(u)
             /\ handler'.at = "write" => injections'[UidOfProc(ams)'] = injections[UidOfProc(ams)]
  BY <1>7, <1>8 DEF Pending
<1>9. CASE ResetCount
  <2>1. /\ handler' = handler /\ injections' = injections /\ at = "count"
        /\ appLaunchCount' = [appLaunchCount EXCEPT ![UidOf[launching]] = 0]
    BY <1>9 DEF ResetCount, hostVars, rest
  <2>2. \A u \in Uids : appLaunchCount'[u] = appLaunchCount[u] \/ appLaunchCount'[u] = 0
    BY <1>1, <2>1 DEF Else
  <2>3. \A u \in Uids : Unspent(u)' <= Unspent(u) + maxLaunchCount /\ Unspent(u)' \in Nat
    BY <1>2, <2>2 DEF Unspent
  <2>4. C = B + maxLaunchCount
    BY <1>3, <1>9
  <2>5. ASSUME NEW u \in Uids PROVE injections'[u] + Pending(u)' + Unspent(u)' <= C
    BY <1>2, <1>3, <1>4, <1>5, <1>8, <2>1, <2>3, <2>4
  <2>6. ASSUME handler'.at = "write", handler'.count < maxLaunchCount
        PROVE  injections'[UidOfProc(ams)'] + (maxLaunchCount - handler'.count) <= C
    <3>1. injections[UidOfProc(ams)] \in Nat
      BY <1>2, <1>7, <2>1, <2>6
    <3>2. QED
      BY <1>2, <1>3, <1>4, <1>8, <2>1, <2>4, <2>6, <3>1
  <2>7. QED
    BY <2>5, <2>6
<1>10. CASE appLaunchCount' = appLaunchCount /\ injections' = injections /\ handler' = handler
  <2>1. \A u \in Uids : Unspent(u)' = Unspent(u)
    BY <1>10 DEF Unspent
  <2>2. ASSUME NEW u \in Uids PROVE injections'[u] + Pending(u)' + Unspent(u)' <= C
    BY <1>2, <1>3, <1>4, <1>5, <1>8, <1>10, <2>1
  <2>3. ASSUME handler'.at = "write", handler'.count < maxLaunchCount
        PROVE  injections'[UidOfProc(ams)'] + (maxLaunchCount - handler'.count) <= C
    <3>1. injections[UidOfProc(ams)] \in Nat
      BY <1>2, <1>7, <1>10, <2>3
    <3>2. QED
      BY <1>2, <1>3, <1>4, <1>8, <1>10, <2>3, <3>1
  <2>4. QED
    BY <2>2, <2>3
<1>11. CASE FindCallback \/ ReadCount \/ WriteCount
  <2>1. PICK u \in Uids : u = UidOfProc(ams) /\ u = UidOfProc(ams)'
    <3>1. ams # None /\ answer = "pending"
      BY <1>11, HandlerTypes
    <3>2. QED
      BY <3>1, AskedAbout, AskedStays
  <2>2. injections' = injections
    BY <1>11 DEF FindCallback, ReadCount, WriteCount, rest
  <2>3. ASSUME handler.at # "write" PROVE Within(C)
    <3>1. /\ appLaunchCount' = appLaunchCount /\ handler'.at # "inject" /\ handler.at # "inject"
          /\ handler'.at = "write" => handler'.count = appLaunchCount[u] /\ handler'.count \in Nat
      BY <1>11, <2>1, <2>3, HandlerTypes
    <3>2. \A v \in Uids : Unspent(v)' = Unspent(v) /\ Pending(v)' = 0 /\ Pending(v) = 0
      BY <3>1 DEF Unspent, Pending
    <3>3. handler'.at = "write" /\ handler'.count < maxLaunchCount => Unspent(u) = maxLaunchCount - handler'.count
      BY <1>2, <2>1, <3>1 DEF Unspent
    <3>4. \A v \in Uids : injections'[v] + Pending(v)' + Unspent(v)' <= C
      BY <1>2, <1>3, <1>4, <1>5, <2>2, <3>2
    <3>5. injections[u] + Unspent(u) <= C
      BY <1>2, <1>3, <1>4, <1>5, <2>1, <3>2
    <3>6. QED
      BY <2>1, <2>2, <3>3, <3>4, <3>5
  <2>4. ASSUME handler.at = "write" PROVE Within(C)
    <3>1. /\ appLaunchCount' = [appLaunchCount EXCEPT ![u] = handler.count + 1]
          /\ handler'.at = IF handler.count < maxLaunchCount THEN "inject" ELSE "idle"
      BY <1>11, <2>1, <2>4, HandlerTypes DEF MayInject
    <3>2. appLaunchCount'[u] = handler.count + 1 /\ \A v \in Uids \ {u} : appLaunchCount'[v] = appLaunchCount[v]
      BY <1>1, <3>1 DEF Else
    <3>3. \A v \in Uids \ {u} : Unspent(v)' = Unspent(v) /\ Pending(v)' = 0
      BY <2>1, <3>1, <3>2 DEF Unspent, Pending
    <3>4. CASE handler.count < maxLaunchCount
      <4>1. Pending(u)' = 1
        BY <2>1, <3>1, <3>4 DEF Pending
      <4>2. Unspent(u)' = maxLaunchCount - (handler.count + 1)
        BY <1>2, <3>2, <3>4 DEF Unspent
      <4>3. injections[u] + (maxLaunchCount - handler.count) <= B
        BY <1>4, <2>1, <2>4, <3>4
      <4>4. injections'[u] + Pending(u)' + Unspent(u)' <= C
        BY <1>2, <1>3, <2>2, <4>1, <4>2, <4>3
      <4>5. \A v \in Uids \ {u} : injections'[v] + Pending(v)' + Unspent(v)' <= C
        BY <1>2, <1>3, <1>4, <1>5, <2>2, <3>3
      <4>6. QED
        BY <3>1, <3>4, <4>4, <4>5
    <3>5. CASE ~(handler.count < maxLaunchCount)
      <4>1. Pending(u)' = 0 /\ Unspent(u)' = 0
        BY <1>2, <3>1, <3>2, <3>5 DEF Pending, Unspent
      <4>2. \A v \in Uids : injections'[v] + Pending(v)' + Unspent(v)' <= C
        BY <1>2, <1>3, <1>4, <1>5, <2>2, <3>3, <4>1
      <4>3. QED
        BY <3>1, <3>5, <4>2
    <3>6. QED
      BY <3>4, <3>5
  <2>5. QED
    BY <2>3, <2>4
<1>12. CASE Inject
  <2>1. handler.at = "inject" /\ handler' = IdleHandler /\ appLaunchCount' = appLaunchCount
    BY <1>12 DEF Inject, Respond
  <2>2. PICK u \in Uids : u = UidOfProc(ams)
    BY <1>7, <2>1
  <2>3. handler'.at = "idle"
    BY <2>1 DEF IdleHandler
  <2>4. /\ \A v \in Uids : Pending(v)' = 0 /\ Unspent(v)' = Unspent(v)
        /\ Pending(u) = 1
    BY <2>1, <2>2, <2>3 DEF Pending, Unspent
  <2>5. injections' = [injections EXCEPT ![u] = injections[u] + 1] \/ injections' = injections
    BY <1>12, <2>2, InjectedTypes
  <2>6. /\ injections'[u] \in {injections[u], injections[u] + 1}
        /\ \A v \in Uids \ {u} : injections'[v] = injections[v]
    BY <1>1, <2>5 DEF Else
  <2>7. injections'[u] + Pending(u)' + Unspent(u)' <= C
    BY <1>2, <1>3, <1>4, <1>5, <2>4, <2>6
  <2>8. \A v \in Uids \ {u} : injections'[v] + Pending(v)' + Unspent(v)' <= C
    BY <1>2, <1>3, <1>4, <1>5, <2>4, <2>6
  <2>9. QED
    BY <2>3, <2>7, <2>8
<1>13. QED
  BY <1>9, <1>10, <1>11, <1>12, CountsStay DEF Handler

LEMMA InitBudget == Init => BudgetInv
<1> SUFFICES ASSUME Init PROVE BudgetInv
  OBVIOUS
<1>1. maxLaunchCount \in Nat
  BY InterceptAssumption
<1>2. Resets = 0 /\ handler.at = "idle"
  BY DEF Init, Resets, IdleHandler
<1>3. \A u \in Uids : injections[u] = 0 /\ Pending(u) = 0 /\ Unspent(u) = 0
  BY <1>2 DEF Init, Pending, Unspent
<1>4. QED
  BY <1>1, <1>2, <1>3 DEF BudgetInv

\* InjectionsWithinBudget: although app_launch_count is read, written back and
\* reset by two threads without a lock, no uid ever gets more than
\* max_launch_count injections for each launch made, whatever the packages,
\* their uids and the number of launches.
THEOREM CountsKeepTheBudget == Spec => []InjectionsWithinBudget
<1>1. TypeInv /\ BudgetInv => InjectionsWithinBudget
  <2> SUFFICES ASSUME TypeInv, BudgetInv, NEW u \in Uids
               PROVE  injections[u] <= maxLaunchCount * launches
    BY DEF InjectionsWithinBudget
  <2>1. Else
    BY TypeParts
  <2>2. /\ maxLaunchCount \in Nat /\ maxLaunchCount > 0 /\ Null \notin Nat
        /\ injections[u] \in Nat /\ appLaunchCount[u] \in Nat \cup {Null}
        /\ launches \in Nat /\ (at # "idle" => launches > 0)
    BY <2>1, Bounds DEF Else
  <2>3. Resets \in Nat /\ Resets <= launches
    BY <2>2 DEF Resets
  <2>4. Pending(u) \in Nat /\ Unspent(u) \in Nat
    BY <2>2 DEF Pending, Unspent
  <2>5. PICK k \in Nat : launches = Resets + k
    BY <2>2, <2>3
  <2>6. maxLaunchCount * Resets \in Nat /\ maxLaunchCount * k \in Nat
    BY <2>2, <2>3
  <2>7. maxLaunchCount * launches = maxLaunchCount * Resets + maxLaunchCount * k
    BY <2>2, <2>3, <2>5
  <2>8. injections[u] + Pending(u) + Unspent(u) <= maxLaunchCount * Resets
    BY DEF BudgetInv
  <2>9. QED
    BY <2>2, <2>4, <2>6, <2>7, <2>8
<1>2. TypeInv /\ BudgetInv /\ [Next]_vars => (TypeInv /\ BudgetInv)'
  BY NextTypes, NextBudget
<1>3. QED
  BY <1>1, <1>2, InitTypes, InitBudget, PTL DEF Spec

-----------------------------------------------------------------------------
(* The intercept table.                                                    *)

\* A name that is alone in its uid is contained only where it is an item.
LEMMA AloneIsItem ==
  ASSUME NEW p \in Packages, Alone(p), NEW entry, entry # Null, OwnAt(UidOf[p], entry)
  PROVE  Mentions(entry, p) <=> p \in entry
BY InterceptAssumption DEF Alone, Related, OwnAt, Holds, Mentions

\* Insert adds the package and nothing else.
LEMMA InsertIsExact ==
  ASSUME NEW entry \in Entries, NEW p \in Packages, NEW items \in SUBSET Items, OwnAt(UidOf[p], entry)
  PROVE  /\ OwnAt(UidOf[p], Insert(entry, p))
         /\ ExactAt(UidOf[p], entry, items) => ExactAt(UidOf[p], Insert(entry, p), items \cup {p})
<1> DEFINE new == Insert(entry, p)
<1>1. new # Null
  BY EntryKinds
<1>2. \/ entry = Null /\ new = {p}
      \/ entry # Null /\ Mentions(entry, p) /\ new = entry
      \/ entry # Null /\ new = entry \cup {p}
  BY DEF Insert
<1>3. p # NO_FILTER
  BY InterceptAssumption
<1>4. \A item : item # p => (Holds(new, item) <=> Holds(entry, item))
  BY <1>1, <1>2 DEF Holds
<1>5. Alone(p) => Holds(new, p)
  BY <1>1, <1>2, AloneIsItem DEF Holds
<1>6. OwnAt(UidOf[p], new)
  BY <1>4 DEF OwnAt
<1>7. ASSUME ExactAt(UidOf[p], entry, items) PROVE ExactAt(UidOf[p], new, items \cup {p})
  BY <1>1, <1>3, <1>4, <1>5, <1>7 DEF ExactAt
<1>8. QED
  BY <1>6, <1>7

\* Delete takes the package away; of names that are alone it takes no other.
LEMMA DeleteIsExact ==
  ASSUME NEW entry \in Entries, entry # Null, NEW p \in Packages, NEW items \in SUBSET Items,
         OwnAt(UidOf[p], entry), UidOf[p] \in SystemUids
  PROVE  /\ OwnAt(UidOf[p], Delete(entry, p))
         /\ ExactAt(UidOf[p], entry, items) => ExactAt(UidOf[p], Delete(entry, p), items \ {p})
<1>1. PICK hit, left : /\ hit = {q \in entry \cap Packages : p \in Prefixes[q]}
                       /\ left = (entry \ hit) \cup {r \in {Residue} : hit \ {p} # {}}
                       /\ Delete(entry, p) = IF left = {} THEN Null ELSE left
  BY DEF Delete
<1>2. Residue \notin Packages /\ Residue # NO_FILTER /\ NO_FILTER \notin Packages /\ p \in Prefixes[p]
  BY InterceptAssumption
<1>3. entry \in SUBSET Items
  BY EntryKinds
<1>4. left \in SUBSET Items
  BY <1>1, <1>3 DEF Items
<1>5. left # Null
  BY <1>4, EntryKinds
<1>6. \A item : item # Residue => (Holds(Delete(entry, p), item) <=> item \in entry /\ item \notin hit)
  BY <1>1, <1>5 DEF Holds
<1>7. \A q \in Packages : Holds(Delete(entry, p), q) => Holds(entry, q)
  BY <1>2, <1>6 DEF Holds
<1>8. OwnAt(UidOf[p], Delete(entry, p))
  BY <1>7 DEF OwnAt
<1>9. Holds(Delete(entry, p), NO_FILTER) <=> Holds(entry, NO_FILTER)
  BY <1>1, <1>2, <1>6 DEF Holds
<1>10. ASSUME NEW q \in Packages, UidOf[q] = UidOf[p], Alone(q)
       PROVE  Holds(Delete(entry, p), q) <=> Holds(entry, q) /\ q # p
  <2>1. q \in hit <=> q = p /\ q \in entry
    <3>1. q # p => p \notin Prefixes[q]
      BY <1>10 DEF Alone, Related
    <3>2. QED
      BY <1>1, <1>2, <3>1
  <2>2. QED
    BY <1>2, <1>6, <2>1 DEF Holds
<1>11. ASSUME ExactAt(UidOf[p], entry, items) PROVE ExactAt(UidOf[p], Delete(entry, p), items \ {p})
  <2>1. NO_FILTER # p
    BY <1>2
  <2>2. QED
    BY <1>9, <1>10, <1>11, <2>1 DEF ExactAt
<1>12. QED
  BY <1>8, <1>11

\* Entries that say what was asked for whatever was there before.
LEMMA FixedIsExact ==
  ASSUME NEW u \in Uids
  PROVE  /\ OwnAt(u, Null) /\ ExactAt(u, Null, {})
         /\ OwnAt(u, {NO_FILTER}) /\ ExactAt(u, {NO_FILTER}, {NO_FILTER})
         /\ \A p \in Packages, items \in SUBSET Items :
              UidOf[p] = u => /\ OwnAt(u, {p})
                              /\ u \notin SystemUids => ExactAt(u, {p}, items \cup {p})
         /\ \A p \in Packages, items \in SUBSET Items :
              u \in SystemUids /\ UidOf[p] = u /\ ExactAt(u, Null, items) => ExactAt(u, Null, items \ {p})
<1>1. NO_FILTER \notin Packages /\ {NO_FILTER} # Null /\ \A p \in Packages : {p} # Null
  BY InterceptAssumption, EntryKinds DEF Items
<1>2. OwnAt(u, Null) /\ ExactAt(u, Null, {})
  BY DEF OwnAt, ExactAt, Holds
<1>3. OwnAt(u, {NO_FILTER}) /\ ExactAt(u, {NO_FILTER}, {NO_FILTER})
  BY <1>1 DEF OwnAt, ExactAt, Holds
<1>4. ASSUME NEW p \in Packages, NEW items \in SUBSET Items, UidOf[p] = u
      PROVE  /\ OwnAt(u, {p})
             /\ u \notin SystemUids => ExactAt(u, {p}, items \cup {p})
             /\ u \in SystemUids /\ ExactAt(u, Null, items) => ExactAt(u, Null, items \ {p})
  BY <1>1, <1>4 DEF OwnAt, ExactAt, Holds
<1>5. QED
  BY <1>2, <1>3, <1>4

\* The changes of the table, and what an exact table would hold after them.
TableOwn(table) == \A u \in Uids : OwnAt(u, table[u])
TableExact(table, items) == \A u \in Uids : ExactAt(u, table[u], items[u])

LEMMA ChangesAreExact ==
  ASSUME NEW table \in [Uids -> Entries], NEW items \in [Uids -> SUBSET Items], NEW p \in Packages,
         TableOwn(table), NEW u \in Uids
  PROVE  /\ TableOwn(WithApp(table, p))
         /\ TableOwn([table EXCEPT ![UidOf[p]] = Insert(@, p)])
         /\ TableOwn(Without(table, UidOf[p], p))
         /\ TableOwn([table EXCEPT ![u] = {NO_FILTER}])
         /\ TableExact(table, items) =>
              /\ TableExact(WithApp(table, p), [items EXCEPT ![UidOf[p]] = @ \cup {p}])
              /\ TableExact([table EXCEPT ![UidOf[p]] = Insert(@, p)], [items EXCEPT ![UidOf[p]] = @ \cup {p}])
              /\ TableExact(Without(table, UidOf[p], p),
                            [items EXCEPT ![UidOf[p]] = IF UidOf[p] \in SystemUids THEN @ \ {p} ELSE {}])
              /\ TableExact([table EXCEPT ![u] = {NO_FILTER}], [items EXCEPT ![u] = {NO_FILTER}])
\* One entry changes.
<1>1. ASSUME NEW v \in Uids, NEW entry, NEW set, OwnAt(v, entry)
      PROVE  /\ TableOwn([table EXCEPT ![v] = entry])
             /\ TableExact(table, items) /\ ExactAt(v, entry, set) =>
                  TableExact([table EXCEPT ![v] = entry], [items EXCEPT ![v] = set])
  <2>1. /\ [table EXCEPT ![v] = entry][v] = entry /\ [items EXCEPT ![v] = set][v] = set
        /\ \A w \in Uids \ {v} : /\ [table EXCEPT ![v] = entry][w] = table[w]
                                 /\ [items EXCEPT ![v] = set][w] = items[w]
    OBVIOUS
  <2>2. QED
    BY <1>1, <2>1 DEF TableOwn, TableExact
<1>2. PICK v \in Uids : v = UidOf[p]
  BY EntryKinds
<1>3. PICK entry \in Entries, set \in SUBSET Items : entry = table[v] /\ set = items[v]
  BY <1>2
<1>4. OwnAt(v, entry) /\ (TableExact(table, items) => ExactAt(v, entry, set))
  BY <1>2, <1>3 DEF TableOwn, TableExact
<1>5. /\ OwnAt(v, Insert(entry, p))
      /\ TableExact(table, items) => ExactAt(v, Insert(entry, p), set \cup {p})
  BY <1>2, <1>3, <1>4, InsertIsExact
<1>6. /\ TableOwn([table EXCEPT ![UidOf[p]] = Insert(@, p)])
      /\ TableExact(table, items) =>
           TableExact([table EXCEPT ![UidOf[p]] = Insert(@, p)], [items EXCEPT ![UidOf[p]] = @ \cup {p}])
  BY <1>1, <1>2, <1>3, <1>5
<1>7. /\ TableOwn(WithApp(table, p))
      /\ TableExact(table, items) => TableExact(WithApp(table, p), [items EXCEPT ![UidOf[p]] = @ \cup {p}])
  <2>1. CASE v \in SystemUids
    BY <1>2, <1>6, <2>1 DEF WithApp
  <2>2. CASE v \notin SystemUids
    <3>1. WithApp(table, p) = [table EXCEPT ![v] = {p}]
      BY <1>2, <2>2 DEF WithApp
    <3>2. OwnAt(v, {p}) /\ ExactAt(v, {p}, set \cup {p})
      BY <1>2, <1>3, <2>2, FixedIsExact
    <3>3. [items EXCEPT ![UidOf[p]] = @ \cup {p}] = [items EXCEPT ![v] = set \cup {p}]
      BY <1>2, <1>3
    <3>4. /\ TableOwn([table EXCEPT ![v] = {p}])
          /\ TableExact(table, items) => TableExact([table EXCEPT ![v] = {p}], [items EXCEPT ![v] = set \cup {p}])
      BY <1>1, <3>2
    <3>5. QED
      BY <3>1, <3>3, <3>4
  <2>3. QED
    BY <2>1, <2>2
<1>8. /\ TableOwn(Without(table, UidOf[p], p))
      /\ TableExact(table, items) =>
           TableExact(Without(table, UidOf[p], p),
                      [items EXCEPT ![UidOf[p]] = IF UidOf[p] \in SystemUids THEN @ \ {p} ELSE {}])
  <2>1. [items EXCEPT ![UidOf[p]] = IF UidOf[p] \in SystemUids THEN @ \ {p} ELSE {}]
          = [items EXCEPT ![v] = IF v \in SystemUids THEN set \ {p} ELSE {}]
    BY <1>2, <1>3
  <2>2. CASE v \notin SystemUids
    <3>1. Without(table, v, p) = [table EXCEPT ![v] = Null]
      BY <2>2 DEF Without
    <3>2. OwnAt(v, Null) /\ ExactAt(v, Null, {})
      BY FixedIsExact
    <3>3. /\ TableOwn([table EXCEPT ![v] = Null])
          /\ TableExact(table, items) => TableExact([table EXCEPT ![v] = Null], [items EXCEPT ![v] = {}])
      BY <1>1, <3>2
    <3>4. [items EXCEPT ![UidOf[p]] = IF UidOf[p] \in SystemUids THEN @ \ {p} ELSE {}] = [items EXCEPT ![v] = {}]
      BY <2>1, <2>2
    <3>5. QED
      BY <1>2, <3>1, <3>3, <3>4
  <2>3. CASE v \in SystemUids /\ entry = Null
    <3>1. Without(table, v, p) = [table EXCEPT ![v] = Null]
      BY <1>3, <2>3 DEF Without
    <3>2. OwnAt(v, Null) /\ (TableExact(table, items) => ExactAt(v, Null, set \ {p}))
      BY <1>2, <1>3, <1>4, <2>3, FixedIsExact
    <3>3. /\ TableOwn([table EXCEPT ![v] = Null])
          /\ TableExact(table, items) => TableExact([table EXCEPT ![v] = Null], [items EXCEPT ![v] = set \ {p}])
      BY <1>1, <3>2
    <3>4. [items EXCEPT ![UidOf[p]] = IF UidOf[p] \in SystemUids THEN @ \ {p} ELSE {}] = [items EXCEPT ![v] = set \ {p}]
      BY <2>1, <2>3
    <3>5. QED
      BY <1>2, <3>1, <3>3, <3>4
  <2>4. CASE v \in SystemUids /\ entry # Null
    <3>1. Without(table, v, p) = [table EXCEPT ![v] = Delete(entry, p)]
      BY <1>3, <2>4 DEF Without
    <3>2. /\ OwnAt(v, Delete(entry, p))
          /\ TableExact(table, items) => ExactAt(v, Delete(entry, p), set \ {p})
      BY <1>2, <1>3, <1>4, <2>4, DeleteIsExact
    <3>3. /\ TableOwn([table EXCEPT ![v] = Delete(entry, p)])
          /\ TableExact(table, items) => TableExact([table EXCEPT ![v] = Delete(entry, p)], [items EXCEPT ![v] = set \ {p}])
      BY <1>1, <3>2
    <3>4. [items EXCEPT ![UidOf[p]] = IF UidOf[p] \in SystemUids THEN @ \ {p} ELSE {}] = [items EXCEPT ![v] = set \ {p}]
      BY <2>1, <2>4
    <3>5. QED
      BY <1>2, <3>1, <3>3, <3>4
  <2>5. QED
    BY <2>2, <2>3, <2>4
<1>9. /\ TableOwn([table EXCEPT ![u] = {NO_FILTER}])
      /\ TableExact(table, items) => TableExact([table EXCEPT ![u] = {NO_FILTER}], [items EXCEPT ![u] = {NO_FILTER}])
  BY <1>1, FixedIsExact
<1>10. QED
  BY <1>6, <1>7, <1>8, <1>9

\* An empty table, and one with a single app.
LEMMA ClearedIsExact ==
  /\ TableOwn(Cleared) /\ TableExact(Cleared, [u \in Uids |-> {}])
  /\ \A p \in Packages : /\ TableOwn(WithApp(Cleared, p))
                         /\ TableExact(WithApp(Cleared, p), [u \in Uids |-> IF u = UidOf[p] THEN {p} ELSE {}])
<1>1. /\ TableOwn(Cleared) /\ TableExact(Cleared, [u \in Uids |-> {}])
      /\ Cleared \in [Uids -> Entries] /\ [u \in Uids |-> {}] \in [Uids -> SUBSET Items]
  BY FixedIsExact, EntryKinds DEF Cleared, TableOwn, TableExact
<1>2. ASSUME NEW p \in Packages
      PROVE  /\ TableOwn(WithApp(Cleared, p))
             /\ TableExact(WithApp(Cleared, p), [u \in Uids |-> IF u = UidOf[p] THEN {p} ELSE {}])
  <2>1. UidOf[p] \in Uids
    BY EntryKinds
  <2>2. [[u \in Uids |-> {}] EXCEPT ![UidOf[p]] = @ \cup {p}] = [u \in Uids |-> IF u = UidOf[p] THEN {p} ELSE {}]
    BY <2>1
  <2>3. PICK none \in [Uids -> SUBSET Items] : none = [u \in Uids |-> {}]
    BY <1>1
  <2>4. TableOwn(WithApp(Cleared, p)) /\ TableExact(WithApp(Cleared, p), [none EXCEPT ![UidOf[p]] = @ \cup {p}])
    BY <1>1, <2>1, <2>3, ChangesAreExact
  <2>5. QED
    BY <2>2, <2>3, <2>4
<1>3. QED
  BY <1>1, <1>2

LEMMA NextExact ==
  ASSUME TypeInv, ExactInv, [Next]_vars
  PROVE  ExactInv'
<1>1. Else /\ Asking
  BY TypeParts
<1>2. /\ interceptApps \in [Uids -> Entries] /\ asked \in [Uids -> SUBSET Items]
      /\ TableOwn(interceptApps) /\ (~torn => TableExact(interceptApps, asked))
      /\ overlap => torn
      /\ setup.packages \subseteq Packages /\ \A p \in Packages : UidOf[p] \in Uids
  BY <1>1, Bounds, EntryKinds DEF Else, ExactInv, TableOwn, TableExact
<1> DEFINE Fine == /\ overlap' => torn'
                   /\ TableOwn(interceptApps') /\ (~torn' => TableExact(interceptApps', asked'))
<1>3. SUFFICES Fine
  BY DEF ExactInv, TableOwn, TableExact
<1>4. ASSUME NEW table, NEW items, Write(table, items), TableOwn(table),
             TableExact(interceptApps, asked) => TableExact(table, items)
      PROVE  Fine
  <2>1. /\ interceptApps' = table \/ (interceptApps' = interceptApps /\ torn')
        /\ torn => torn'
        /\ overlap' => torn'
        /\ asked' = items
    <3>1. torn' = (torn \/ LaunchWriting \/ RemovalPending) /\ overlap' = (overlap \/ LaunchWriting) /\ asked' = items
      BY <1>4 DEF Write
    <3>2. interceptApps' = table \/ (interceptApps' = interceptApps /\ (LaunchWriting \/ RemovalPending))
      BY <1>4 DEF Write
    <3>3. QED
      BY <1>2, <3>1, <3>2
  <2>2. QED
    BY <1>2, <1>4, <2>1
<1>5. ASSUME NEW p \in setup.packages, NEW clear \in BOOLEAN, AdminSetInterceptApp(p, clear) PROVE Fine
  <2>1. p \in Packages
    BY <1>2
  <2>2. CASE clear
    <3>1. Write(WithApp(Cleared, p), [u \in Uids |-> IF u = UidOf[p] THEN {p} ELSE {}])
      BY <1>5, <2>2 DEF AdminSetInterceptApp
    <3>2. QED
      BY <1>4, <2>1, <3>1, ClearedIsExact
  <2>3. CASE ~clear
    <3>1. Write(WithApp(interceptApps, p), [asked EXCEPT ![UidOf[p]] = @ \cup {p}])
      BY <1>5, <2>3 DEF AdminSetInterceptApp, AskedWith
    <3>2. QED
      BY <1>2, <1>4, <2>1, <3>1, ChangesAreExact
  <2>4. QED
    BY <2>2, <2>3
<1>6. ASSUME NEW p \in setup.packages, AdminSetIntercept(p) PROVE Fine
  <2>1. Write([interceptApps EXCEPT ![UidOf[p]] = Insert(@, p)], [asked EXCEPT ![UidOf[p]] = @ \cup {p}])
    BY <1>6 DEF AdminSetIntercept, AskedWith
  <2>2. p \in Packages
    BY <1>2
  <2>3. QED
    BY <1>2, <1>4, <2>1, <2>2, ChangesAreExact
<1>7. ASSUME NEW p \in setup.packages, AdminRemoveIntercept(p) PROVE Fine
  <2>1. Write(Without(interceptApps, UidOf[p], p),
              [asked EXCEPT ![UidOf[p]] = IF UidOf[p] \in SystemUids THEN @ \ {p} ELSE {}])
    BY <1>7 DEF AdminRemoveIntercept, AskedWithout
  <2>2. p \in Packages
    BY <1>2
  <2>3. QED
    BY <1>2, <1>4, <2>1, <2>2, ChangesAreExact
<1>8. ASSUME NEW u \in Uids, AdminSetInterceptUid(u) PROVE Fine
  <2>1. Write([interceptApps EXCEPT ![u] = {NO_FILTER}], [asked EXCEPT ![u] = {NO_FILTER}])
    BY <1>8 DEF AdminSetInterceptUid
  <2>2. TableOwn([interceptApps EXCEPT ![u] = {NO_FILTER}])
    BY <1>2, FixedIsExact DEF TableOwn
  <2>3. TableExact(interceptApps, asked) =>
          TableExact([interceptApps EXCEPT ![u] = {NO_FILTER}], [asked EXCEPT ![u] = {NO_FILTER}])
    BY <1>2, FixedIsExact DEF TableExact
  <2>4. QED
    BY <1>4, <2>1, <2>2, <2>3
<1>9. ASSUME AdminClearIntercept PROVE Fine
  BY <1>4, <1>9, ClearedIsExact DEF AdminClearIntercept
<1>10. ASSUME AttachAnswered, answer = "remove" PROVE Fine
  <2>1. ams # None /\ Remove(UidOfProc(ams), proc[ams].pkg)
    BY <1>1, <1>10 DEF AttachAnswered, Asking
  <2>2. PICK p \in Packages : p = proc[ams].pkg /\ UidOfProc(ams) = UidOf[p]
    BY <2>1, AskedAbout
  <2>3. /\ \/ interceptApps' = Without(interceptApps, UidOf[p], p)
           \/ interceptApps' = interceptApps /\ torn'
        /\ torn => torn'
        /\ overlap' => torn'
        /\ asked' = [asked EXCEPT ![UidOf[p]] = IF UidOf[p] \in SystemUids THEN @ \ {p} ELSE {}]
    BY <1>2, <2>1, <2>2 DEF Remove, AskedWithout
  <2>4. /\ TableOwn(Without(interceptApps, UidOf[p], p))
        /\ TableExact(interceptApps, asked) => TableExact(Without(interceptApps, UidOf[p], p), asked')
    BY <1>2, <2>3, ChangesAreExact
  <2>5. QED
    BY <1>2, <2>3, <2>4
<1>11. ASSUME SetInterceptApp PROVE Fine
  <2>1. launching \in Packages /\ overlap' = FALSE
    BY <1>1, <1>11 DEF SetInterceptApp, Else
  <2>2. torn' = (torn \/ RemovalPending)
    BY <1>11 DEF SetInterceptApp
  <2>3. CASE clearHistory
    <3>1. /\ interceptApps' = WithApp(Cleared, launching) \/ (interceptApps' = Cleared /\ (overlap \/ RemovalPending))
          /\ asked' = [u \in Uids |-> IF u = UidOf[launching] THEN {launching} ELSE {}]
      BY <1>11, <2>3 DEF SetInterceptApp
    <3>2. QED
      BY <1>2, <2>1, <2>2, <3>1, ClearedIsExact
  <2>4. CASE ~clearHistory
    <3>1. /\ \/ interceptApps' = WithApp(interceptApps, launching)
             \/ interceptApps' = interceptApps /\ (overlap \/ RemovalPending)
          /\ asked' = [asked EXCEPT ![UidOf[launching]] = @ \cup {launching}]
      BY <1>11, <2>4 DEF SetInterceptApp, AskedWith
    <3>2. /\ TableOwn(WithApp(interceptApps, launching))
          /\ TableExact(interceptApps, asked) => TableExact(WithApp(interceptApps, launching), asked')
      BY <1>2, <2>1, <3>1, ChangesAreExact
    <3>3. QED
      BY <1>2, <2>1, <2>2, <3>1, <3>2
  <2>5. QED
    BY <2>3, <2>4
<1>12. ASSUME UNCHANGED <<interceptApps, asked, torn, overlap>> PROVE Fine
  BY <1>2, <1>12
<1> HIDE DEF Fine
<1>13. CASE Admin
  <2>1. AdminSetInterceptAll => UNCHANGED <<interceptApps, asked, torn, overlap>>
    BY DEF AdminSetInterceptAll
  <2>2. QED
    BY <1>5, <1>6, <1>7, <1>8, <1>9, <1>12, <1>13, <2>1 DEF Admin
<1>14. CASE \/ \E p \in setup.packages : StartedElsewhere(p) \/ BeginLaunch(p)
            \/ \E i \in Procs : Attach(i)
            \/ SubscriberLost \/ SubscribedAgain
  BY <1>12, <1>14 DEF StartedElsewhere, BeginLaunch, Attach, SubscriberLost, SubscribedAgain, tableVars
<1>15. CASE Handler
  BY <1>12, <1>15 DEF Handler, FindCallback, ReadCount, WriteCount, Inject, tableVars
<1>16. CASE ForceStop \/ StoreCallback \/ ResetCount \/ StartActivity
  BY <1>12, <1>16 DEF ForceStop, StoreCallback, ResetCount, StartActivity, tableVars
<1>17. CASE AttachAnswered
  <2>1. answer # "remove" => UNCHANGED <<interceptApps, asked, torn, overlap>>
    BY <1>17 DEF AttachAnswered, tableVars
  <2>2. QED
    BY <1>10, <1>12, <1>17, <2>1
<1>18. CASE UNCHANGED vars
  BY <1>12, <1>18 DEF vars, tableVars
<1>19. QED
  BY <1>11, <1>13, <1>14, <1>15, <1>16, <1>17, <1>18 DEF Next, User

\* TableIsExact: whatever launches, other clients and removals do to it, as long
\* as no two of their writes overlap the intercept table reports the packages
\* asked for and no others, for names that are not related to others of their
\* uid.
THEOREM TableSaysWhatWasAsked == Spec => []TableIsExact
<1>1. Init => ExactInv
  <2>1. ASSUME Init PROVE ExactInv
    BY <2>1, FixedIsExact DEF Init, ExactInv
  <2>2. QED
    BY <2>1
<1>2. TypeInv /\ ExactInv /\ [Next]_vars => (TypeInv /\ ExactInv)'
  BY NextTypes, NextExact
<1>3. TypeInv /\ ExactInv => TableIsExact
  <2> SUFFICES ASSUME TypeInv, ExactInv, ~torn, NEW p \in Packages, NEW u \in Uids, u = UidOf[p]
               PROVE  IF u \notin SystemUids THEN interceptApps[u] # Null <=> asked[u] # {}
                      ELSE Alone(p) => ((interceptApps[u] # Null /\ (\/ NO_FILTER \in interceptApps[u]
                                                                     \/ Mentions(interceptApps[u], p)))
                                          <=> (NO_FILTER \in asked[u] \/ p \in asked[u]))
    BY EntryKinds DEF TableIsExact, Alone
  <2>1. OwnAt(u, interceptApps[u]) /\ ExactAt(u, interceptApps[u], asked[u])
    BY DEF ExactInv
  <2>2. ASSUME Alone(p), interceptApps[u] # Null
        PROVE  Mentions(interceptApps[u], p) <=> p \in interceptApps[u]
    BY <2>1, <2>2, AloneIsItem
  <2>3. QED
    BY <2>1, <2>2 DEF ExactAt, Holds
<1>4. QED
  BY <1>1, <1>2, <1>3, InitTypes, PTL DEF Spec

-----------------------------------------------------------------------------
(* The process a launch is for.                                            *)

\* A process whose attachment ends, in attachApplicationLocked.
GoesOn(i) == /\ proc[i].state = "starting" /\ proc' = Attached(i)
             /\ ams' = None /\ answer' = "none" /\ handler' = handler
             /\ at' = at /\ launches' = launches /\ launching' = launching
             /\ \/ Attach(i) /\ \E cond \in Conditions(UidOfProc(i)) : ~Reports(cond, i)
                \/ AttachAnswered /\ ams = i

\* What any step may do to the processes.
LEMMA ProcSteps ==
  ASSUME TypeInv, [Next]_vars
  PROVE  \/ proc' = proc
         \/ /\ \E p \in setup.packages : StartedElsewhere(p)
            /\ \E i \in Procs, p \in Packages :
                 /\ proc[i].state = "none" /\ i # ams
                 /\ proc' = [proc EXCEPT ![i] = Started(p, None)]
            /\ at' = at /\ launches' = launches /\ launching' = launching
         \/ \E i \in Procs : GoesOn(i)
         \/ Inject /\ at' = at /\ launches' = launches /\ launching' = launching
         \/ ForceStop
         \/ StartActivity
<1>1. Else /\ Asking
  BY TypeParts
<1>2. CASE \E p \in setup.packages : StartedElsewhere(p)
  <2>1. PICK p \in setup.packages : StartedElsewhere(p)
    BY <1>2
  <2>2. p \in Packages /\ NewProc(p, None)
    BY <1>1, <2>1, Bounds DEF StartedElsewhere, Else
  <2>3. PICK i \in Procs : /\ proc[i].state = "none" /\ i # ams
                           /\ proc' = [proc EXCEPT ![i] = Started(p, None)]
    BY <2>2, NewProcIsFree
  <2>4. at' = at /\ launches' = launches /\ launching' = launching
    BY <2>1 DEF StartedElsewhere, userVars
  <2>5. QED
    BY <1>2, <2>2, <2>3, <2>4
<1>3. CASE \E i \in Procs : Attach(i)
  <2>1. PICK i \in Procs : Attach(i)
    BY <1>3
  <2>2. at' = at /\ launches' = launches /\ launching' = launching
    BY <2>1 DEF Attach, userVars
  <2>3. proc' = proc \/ GoesOn(i)
    BY <2>1, <2>2, AttachTypes DEF GoesOn
  <2>4. QED
    BY <2>3
<1>4. CASE AttachAnswered
  <2>1. ams \in Procs /\ proc[ams].state = "starting"
    BY <1>1, <1>4 DEF AttachAnswered, Asking
  <2>2. GoesOn(ams)
    BY <1>4, <2>1 DEF AttachAnswered, GoesOn, userVars, hostVars
  <2>3. QED
    BY <2>1, <2>2
<1>5. CASE Inject
  BY <1>5 DEF Inject, userVars
<1>6. CASE \/ Admin \/ \E p \in setup.packages : BeginLaunch(p)
           \/ SubscriberLost \/ SubscribedAgain \/ SetInterceptApp \/ StoreCallback \/ ResetCount
           \/ UNCHANGED vars
  BY <1>6, OthersLeaveAsking
<1>7. CASE FindCallback \/ ReadCount \/ WriteCount
  BY <1>7, HandlerTypes
<1>8. QED
  BY <1>2, <1>3, <1>4, <1>5, <1>6, <1>7 DEF Next, Handler, User

\* What starting the activity does to the processes.
LEMMA ActivityStarted ==
  ASSUME TypeInv, StartActivity
  PROVE  /\ at = "start" /\ at' = "idle" /\ ams = None /\ ams' = None
         /\ launching' = launching /\ launches' = launches
         /\ launching \in Packages /\ launches \in Launches /\ launches # None
         /\ \E i \in Procs :
              /\ \A j \in Procs \ {i} : proc'[j] = proc[j]
              /\ proc'[i].for = launches /\ proc'[i].pkg = launching /\ proc'[i].state \in {"starting", "alive"}
              /\ \/ proc'[i].state = "starting" /\ ~proc'[i].due
                 \/ /\ proc[i].pkg = launching /\ proc[i].state \in {"starting", "alive"}
                    /\ proc'[i].due = proc[i].due /\ proc'[i].state = proc[i].state
<1>1. Else /\ Asking
  BY TypeParts
<1>2. /\ at = "start" /\ at' = "idle" /\ ams = None /\ ams' = None
      /\ launching' = launching /\ launches' = launches
  BY DEF StartActivity
<1>3. launching \in Packages /\ launches \in Launches /\ launches # None
  BY <1>1, <1>2, Bounds DEF Else, None
<1>4. CASE NewProc(launching, launches)
  <2>1. PICK i \in Procs : proc' = [proc EXCEPT ![i] = Started(launching, launches)]
    BY <1>3, <1>4, NewProcIsFree
  <2>2. proc'[i] = Started(launching, launches) /\ \A j \in Procs \ {i} : proc'[j] = proc[j]
    BY <1>1, <2>1 DEF Asking
  <2>3. QED
    BY <1>2, <1>3, <2>2 DEF Started
<1>5. ASSUME NEW i \in Procs, proc[i].pkg = launching, proc[i].state \in {"starting", "alive"},
             proc' = [proc EXCEPT ![i].for = launches]
      PROVE  /\ \A j \in Procs \ {i} : proc'[j] = proc[j]
             /\ proc'[i].for = launches /\ proc'[i].pkg = launching /\ proc'[i].state \in {"starting", "alive"}
             /\ proc'[i].due = proc[i].due /\ proc'[i].state = proc[i].state
  BY <1>3, <1>5, ReusedTypes
<1>6. QED
  BY <1>2, <1>3, <1>4, <1>5 DEF StartActivity

LEMMA NextAwaited ==
  ASSUME TypeInv, AwaitedInv, [Next]_vars
  PROVE  AwaitedInv'
<1>1. Else /\ Asking
  BY TypeParts
<1>2. /\ launches \in Nat /\ setup.packages \subseteq Packages
      /\ \A i \in Procs : proc[i].for \in Nat
      /\ proc \in [Procs -> ProcKinds]
  BY <1>1, Bounds, Numbers DEF Else, Asking, ProcKinds, None
\* The launch goes on, and no process comes or is meant by it.
<1>3. ASSUME launches' = launches, launching' = launching,
             at' = at \/ (at # "idle" /\ \A i \in Procs : ~Awaited(i)'),
             at \in {"idle", "stop"} => at' \in {"idle", "stop"},
             \A i \in Procs : /\ proc'[i].for = proc[i].for /\ proc'[i].pkg = proc[i].pkg
                              /\ proc[i].state # "none" => proc'[i].state # "none"
                              /\ proc[i].state = "dead" => proc'[i].state = "dead"
                              /\ proc'[i].due => proc[i].due \/ at = "idle"
      PROVE  AwaitedInv'
  <2>1. /\ \A i \in Procs : proc'[i].for <= launches'
        /\ \A i \in Procs : Awaited(i)' => Awaited(i)
    BY <1>3 DEF AwaitedInv, Awaited
  <2>2. \A i \in Procs : Awaited(i)' => at' = "idle" /\ proc'[i].pkg = launching' /\ proc'[i].state # "none"
    BY <1>3, <2>1 DEF AwaitedInv
  <2>3. \A i, j \in Procs : Awaited(i)' /\ Awaited(j)' => i = j
    BY <2>1 DEF AwaitedInv
  <2>4. at' \notin {"idle", "stop"} =>
          \A i \in Procs : proc'[i].pkg = launching' /\ proc'[i].state # "dead" => ~proc'[i].due
    BY <1>3 DEF AwaitedInv
  <2>5. QED
    BY <2>1, <2>2, <2>3, <2>4 DEF AwaitedInv
<1>4. ASSUME NEW p \in setup.packages, BeginLaunch(p) PROVE AwaitedInv'
  <2>1. /\ launches' = launches + 1 /\ at' = "stop" /\ proc' = proc
    BY <1>4 DEF BeginLaunch, amsVars
  <2>2. \A i \in Procs : proc'[i].for <= launches' /\ ~Awaited(i)'
    BY <1>2, <2>1 DEF AwaitedInv, Awaited
  <2>3. QED
    BY <2>1, <2>2 DEF AwaitedInv
<1>5. ASSUME NEW i \in Procs, NEW p \in Packages, proc[i].state = "none",
             proc' = [proc EXCEPT ![i] = Started(p, None)],
             at' = at, launches' = launches, launching' = launching
      PROVE  AwaitedInv'
  <2>1. proc'[i] = Started(p, None) /\ \A j \in Procs \ {i} : proc'[j] = proc[j]
    BY <1>2, <1>5
  <2>2. /\ proc'[i].for = None /\ ~proc'[i].due /\ ~Awaited(i)'
        /\ \A j \in Procs \ {i} : Awaited(j)' <=> Awaited(j)
    BY <1>5, <2>1 DEF Started, Awaited
  <2>3. proc'[i].for <= launches'
    BY <1>2, <1>5, <2>2 DEF None
  <2>4. QED
    BY <1>5, <2>1, <2>2, <2>3 DEF AwaitedInv
<1>6. ASSUME NEW i \in Procs, GoesOn(i) PROVE AwaitedInv'
  <2>1. /\ \A j \in Procs \ {i} : proc'[j] = proc[j]
        /\ proc'[i].state = "alive" /\ proc'[i].pkg = proc[i].pkg
        /\ proc'[i].for = proc[i].for /\ proc'[i].due = (Awaited(i) /\ quiet)
        /\ proc[i].state = "starting"
    BY <1>6, AttachedTypes DEF GoesOn
  <2>2. at' = at /\ launches' = launches /\ launching' = launching
    BY <1>6 DEF GoesOn
  <2>3. proc'[i].due => at = "idle"
    BY <2>1 DEF AwaitedInv
  <2>4. \A j \in Procs : /\ proc'[j].for = proc[j].for /\ proc'[j].pkg = proc[j].pkg
                         /\ proc[j].state # "none" => proc'[j].state # "none"
                         /\ proc[j].state = "dead" => proc'[j].state = "dead"
                         /\ proc'[j].due => proc[j].due \/ at = "idle"
    BY <2>1, <2>3
  <2>5. QED
    BY <1>3, <2>2, <2>4
<1>7. ASSUME Inject, at' = at, launches' = launches, launching' = launching PROVE AwaitedInv'
  <2>1. \A j \in Procs : /\ proc'[j].for = proc[j].for /\ proc'[j].pkg = proc[j].pkg
                         /\ proc'[j].state = proc[j].state /\ proc'[j].due = proc[j].due
    BY <1>7, InjectedTypes
  <2>2. QED
    BY <1>3, <1>7, <2>1
<1>8. ASSUME ForceStop PROVE AwaitedInv'
  <2>1. /\ at = "stop" /\ at' = "set" /\ launches' = launches /\ launching' = launching
    BY <1>8 DEF ForceStop
  <2>2. /\ \A i \in Procs : /\ proc'[i].pkg = proc[i].pkg /\ proc'[i].for = proc[i].for
                            /\ proc'[i].state = IF proc[i].pkg = launching THEN "dead" ELSE proc[i].state
    BY <1>8, StoppedTypes
  <2>3. \A i \in Procs : ~Awaited(i) /\ (Awaited(i)' <=> Awaited(i))
    BY <2>1, <2>2 DEF AwaitedInv, Awaited
  <2>4. QED
    BY <2>1, <2>2, <2>3 DEF AwaitedInv
<1>9. ASSUME StartActivity PROVE AwaitedInv'
  <2>1. PICK i \in Procs : /\ \A j \in Procs \ {i} : proc'[j] = proc[j]
                           /\ proc'[i].for = launches /\ proc'[i].pkg = launching
                           /\ proc'[i].state \in {"starting", "alive"}
    BY <1>9, ActivityStarted
  <2>2. at = "start" /\ at' = "idle" /\ launching' = launching /\ launches' = launches
    BY <1>9, ActivityStarted
  <2>3. \A j \in Procs \ {i} : ~Awaited(j)'
    BY <2>1, <2>2 DEF AwaitedInv, Awaited
  <2>4. \A j \in Procs : proc'[j].for <= launches'
    BY <1>2, <2>1, <2>2 DEF AwaitedInv
  <2>5. QED
    BY <2>1, <2>2, <2>3, <2>4 DEF AwaitedInv
<1>10. ASSUME proc' = proc, ~\E p \in setup.packages : BeginLaunch(p), ~ForceStop, ~StartActivity PROVE AwaitedInv'
  <2>1. CASE at' = at /\ launches' = launches /\ launching' = launching
    BY <1>3, <1>10, <2>1
  <2>2. CASE SetInterceptApp \/ StoreCallback \/ ResetCount
    <3>1. /\ launches' = launches /\ launching' = launching /\ at \in {"set", "record", "count"}
      BY <2>2 DEF SetInterceptApp, StoreCallback, ResetCount
    <3>2. \A i \in Procs : ~Awaited(i)'
      BY <1>10, <3>1 DEF AwaitedInv, Awaited
    <3>3. QED
      BY <1>3, <1>10, <3>1, <3>2
  <2>3. QED
    BY <1>10, <2>1, <2>2, AtStays DEF User
<1>11. QED
  BY <1>4, <1>5, <1>6, <1>7, <1>8, <1>9, <1>10, ProcSteps

\* A process that is awaited is asked about while nothing has come between:
\* the entry is there and reports it.
LEMMA AwaitedIsReported ==
  ASSUME TypeInv, AwaitedInv, QuietInv, quiet, NEW i \in Procs, Awaited(i),
         NEW cond \in Conditions(UidOfProc(i))
  PROVE  Reports(cond, i)
<1>1. at = "idle" /\ proc[i].pkg = launching /\ UidOfProc(i) = UidOf[launching]
  BY DEF AwaitedInv, UidOfProc
<1>2. Listed /\ subscribed
  BY <1>1 DEF QuietInv
<1>3. cond = {NO_FILTER} \/ cond = interceptApps[UidOf[launching]]
  BY <1>1 DEF Conditions, LaunchWriting
<1>4. {NO_FILTER} # Null
  BY EntryKinds DEF Items
<1>5. QED
  BY <1>1, <1>2, <1>3, <1>4 DEF Reports, Listed

LEMMA NextInjected ==
  ASSUME TypeInv, LaunchInv, [Next]_vars
  PROVE  LaunchedIsInjected'
<1>1. Else /\ Asking
  BY TypeParts
<1>2. /\ proc \in [Procs -> ProcKinds] /\ setup.packages \subseteq Packages
      /\ AwaitedInv /\ QuietInv /\ \A i \in Procs : proc[i].due => proc[i].got = proc[i].for
  BY <1>1, Bounds DEF Else, Asking, LaunchInv, LaunchedIsInjected
<1>3. ASSUME NEW i \in Procs, NEW p \in Packages, proc' = [proc EXCEPT ![i] = Started(p, None)]
      PROVE  LaunchedIsInjected'
  <2>1. proc'[i] = Started(p, None) /\ \A j \in Procs \ {i} : proc'[j] = proc[j]
    BY <1>2, <1>3
  <2>2. ~proc'[i].due
    BY <2>1 DEF Started
  <2>3. QED
    BY <1>2, <2>1, <2>2 DEF LaunchedIsInjected
<1>4. ASSUME NEW i \in Procs, GoesOn(i) PROVE LaunchedIsInjected'
  <2>1. /\ \A j \in Procs \ {i} : proc'[j] = proc[j]
        /\ proc'[i].for = proc[i].for /\ proc'[i].got = proc[i].got
        /\ proc'[i].due = (Awaited(i) /\ quiet)
        /\ proc[i].state = "starting"
    BY <1>4, AttachedTypes DEF GoesOn
  <2>2. ASSUME Awaited(i), quiet PROVE proc[i].got = proc[i].for
    <3>1. AttachAnswered /\ ams = i
      BY <1>2, <1>4, <2>2, AwaitedIsReported DEF GoesOn
    <3>2. Served
      BY <1>2, <2>1, <2>2, <3>1 DEF QuietInv
    <3>3. answer = "keep"
      BY <3>1, <3>2 DEF AttachAnswered, Served
    <3>4. QED
      BY <2>2, <3>1, <3>2, <3>3 DEF Served, Awaited
  <2>3. QED
    BY <1>2, <2>1, <2>2 DEF LaunchedIsInjected
<1>5. ASSUME Inject PROVE LaunchedIsInjected'
  <2>1. /\ ams \in Procs /\ \A j \in Procs \ {ams} : proc'[j] = proc[j]
        /\ proc'[ams].due = proc[ams].due
    BY <1>5, InjectedTypes
  <2>2. ~proc[ams].due
    <3>1. ams # None
      BY <2>1, Numbers DEF None
    <3>2. QED
      BY <1>1, <2>1, <3>1 DEF Asking
  <2>3. QED
    BY <1>2, <2>1, <2>2 DEF LaunchedIsInjected
<1>6. ASSUME ForceStop PROVE LaunchedIsInjected'
  <2>1. \A i \in Procs : /\ proc'[i].for = proc[i].for /\ proc'[i].got = proc[i].got /\ proc'[i].due = proc[i].due
    BY <1>6, StoppedTypes
  <2>2. QED
    BY <1>2, <2>1 DEF LaunchedIsInjected
<1>7. ASSUME StartActivity PROVE LaunchedIsInjected'
  <2>1. PICK i \in Procs : /\ \A j \in Procs \ {i} : proc'[j] = proc[j]
                           /\ \/ proc'[i].state = "starting" /\ ~proc'[i].due
                              \/ /\ proc[i].pkg = launching /\ proc[i].state \in {"starting", "alive"}
                                 /\ proc'[i].due = proc[i].due
    BY <1>7, ActivityStarted
  <2>2. at = "start"
    BY <1>7, ActivityStarted
  <2>3. ~proc'[i].due
    BY <1>2, <2>1, <2>2 DEF AwaitedInv
  <2>4. QED
    BY <1>2, <2>1, <2>3 DEF LaunchedIsInjected
<1>8. ASSUME proc' = proc PROVE LaunchedIsInjected'
  BY <1>2, <1>8 DEF LaunchedIsInjected
<1>9. QED
  BY <1>3, <1>4, <1>5, <1>6, <1>7, <1>8, ProcSteps

\* The steps of the host's handler, for the process of a quiet launch.
LEMMA HandlerServes ==
  ASSUME TypeInv, LaunchInv, Handler, quiet'
  PROVE  /\ quiet
         /\ Awaited(ams) /\ proc[ams].state = "starting" => Served'
         /\ UidOfProc(ams) # UidOf[launching] => appLaunchCount'[UidOf[launching]] = appLaunchCount[UidOf[launching]]
<1>1. Else /\ Asking
  BY TypeParts
<1>2. AwaitedInv /\ QuietInv
  BY DEF LaunchInv
<1>3. /\ quiet /\ launching' = launching /\ launches' = launches /\ at' = at
  BY DEF Handler, FindCallback, ReadCount, WriteCount, Inject, userVars
<1>4. ams # None /\ ams \in Procs /\ answer = "pending" /\ launching \in Packages
  BY <1>1, <1>2, <1>3 DEF Handler, FindCallback, ReadCount, WriteCount, Inject, Asking, QuietInv
<1>5. PICK u \in Uids : u = UidOfProc(ams)
  BY <1>4, AskedAbout
<1>6. PICK v \in Uids : v = UidOf[launching]
  BY <1>4, InterceptAssumption
<1>7. ASSUME Awaited(ams), proc[ams].state = "starting"
      PROVE  /\ Served /\ u = v /\ launches # None /\ callback[u] = launches
  <2>1. at = "idle" /\ proc[ams].pkg = launching
    BY <1>2, <1>4, <1>7 DEF AwaitedInv
  <2>2. u = v /\ launches # None
    BY <1>5, <1>6, <1>7, <2>1 DEF UidOfProc, Awaited
  <2>3. QED
    BY <1>2, <1>3, <1>4, <1>6, <1>7, <2>1, <2>2 DEF QuietInv
<1>8. CASE FindCallback \/ ReadCount \/ WriteCount
  <2>1. ams' = ams /\ proc' = proc
    BY <1>8, HandlerTypes
  <2>2. ASSUME u # v PROVE appLaunchCount'[v] = appLaunchCount[v]
    BY <1>1, <1>5, <1>8, <2>2, HandlerTypes DEF Else
  <2>3. ASSUME Awaited(ams), proc[ams].state = "starting" PROVE Served'
    <3>1. Served /\ u = v /\ launches # None /\ callback[u] = launches
      BY <1>7, <2>3
    <3>2. CASE handler.at = "idle"
      <4>1. /\ handler'.at = "count" /\ answer' = "pending" /\ handler'.record = launches
            /\ appLaunchCount' = appLaunchCount
        BY <1>5, <1>8, <3>1, <3>2, HandlerTypes
      <4>2. appLaunchCount[v] = 0
        BY <1>4, <1>6, <3>1, <3>2 DEF Served, Counted
      <4>3. QED
        BY <1>3, <1>6, <4>1, <4>2 DEF Served, Counted
    <3>3. CASE handler.at = "count"
      <4>1. appLaunchCount[u] = 0 /\ handler.record = launches
        BY <1>4, <1>6, <3>1, <3>3 DEF Served, Counted
      <4>2. 0 # Null
        BY InterceptAssumption
      <4>3. handler'.at = "write" /\ answer' = "pending" /\ handler'.record = launches /\ handler'.count = 0
        BY <1>5, <1>8, <3>3, <4>1, <4>2, HandlerTypes
      <4>4. QED
        BY <1>3, <4>3 DEF Served
    <3>4. CASE handler.at = "write"
      <4>1. handler.count = 0 /\ handler.record = launches
        BY <3>1, <3>4 DEF Served
      <4>2. MayInject(handler.count)
        BY <4>1, InterceptAssumption DEF MayInject
      <4>3. handler'.at = "inject" /\ answer' = "pending" /\ handler'.record = launches
        BY <1>8, <3>4, <4>1, <4>2, HandlerTypes
      <4>4. QED
        BY <1>3, <4>3 DEF Served
    <3>5. QED
      BY <1>8, <3>2, <3>3, <3>4, HandlerTypes
  <2>4. QED
    BY <1>3, <1>5, <1>6, <2>2, <2>3
<1>9. CASE Inject
  <2>1. /\ answer' = "keep" /\ handler' = IdleHandler /\ ams' = ams /\ appLaunchCount' = appLaunchCount
        /\ handler.at = "inject"
    BY <1>9 DEF Inject, Respond
  <2>2. proc'[ams].got = handler.record
    BY <1>9, InjectedTypes
  <2>3. ASSUME Awaited(ams), proc[ams].state = "starting" PROVE Served'
    <3>1. handler.record = launches
      BY <1>7, <2>1, <2>3 DEF Served
    <3>2. handler'.at = "idle"
      BY <2>1 DEF IdleHandler
    <3>3. QED
      BY <1>3, <2>1, <2>2, <3>1, <3>2 DEF Served
  <2>4. QED
    BY <1>3, <2>1, <2>3
<1>10. QED
  BY <1>8, <1>9 DEF Handler

LEMMA NextQuiet ==
  ASSUME TypeInv, LaunchInv, [Next]_vars
  PROVE  QuietInv'
<1>1. Else /\ Asking
  BY TypeParts
<1>2. /\ AwaitedInv /\ QuietInv /\ proc \in [Procs -> ProcKinds] /\ setup.packages \subseteq Packages
      /\ ams \in Procs \cup {None} /\ \A i \in Procs : i # None
  BY <1>1, Bounds, Numbers DEF Else, Asking, LaunchInv, None
<1>3. SUFFICES ASSUME quiet' PROVE QuietInv'
  BY DEF QuietInv
\* The launch has got where it was, and its entry and its count stay.
<1> DEFINE Here == /\ quiet /\ at' = at /\ launching' = launching /\ launches' = launches
                   /\ callback' = callback /\ subscribed' = subscribed
           Answered == /\ \A i \in Procs : Awaited(i)' /\ proc'[i].state = "starting" =>
                                             IF ams' = i THEN Served' ELSE Counted'
                       /\ ams' # None /\ UidOfProc(ams)' = UidOf[launching]' => Awaited(ams)'
<1>4. ASSUME Here, at # "set" => interceptApps'[UidOf[launching]] = interceptApps[UidOf[launching]],
             at = "start" => appLaunchCount'[UidOf[launching]] = appLaunchCount[UidOf[launching]], Answered
      PROVE  QuietInv'
  <2>1. at # "set" => Listed'
    BY <1>2, <1>4 DEF QuietInv, Listed
  <2>2. at = "start" => Counted'
    BY <1>2, <1>4 DEF QuietInv, Counted
  <2>3. at \in {"count", "start", "idle"} => callback[UidOf[launching]] = launches
    BY <1>2, <1>4 DEF QuietInv
  <2>4. at # "stop" /\ launches > 0 /\ launching \in Packages /\ subscribed
    BY <1>2, <1>4 DEF QuietInv
  <2>5. QED
    BY <1>4, <2>1, <2>2, <2>3, <2>4 DEF QuietInv
\* Processes of which the launch does not know.
<1>5. ASSUME NEW p \in setup.packages, StartedElsewhere(p) PROVE QuietInv'
  <2>1. Here /\ interceptApps' = interceptApps /\ appLaunchCount' = appLaunchCount /\ ams' = ams
        /\ answer' = answer /\ handler' = handler /\ NewProc(p, None) /\ p \in Packages
    BY <1>2, <1>3, <1>5 DEF StartedElsewhere, tableVars, userVars, hostVars
  <2>2. PICK i \in Procs : i # ams /\ proc' = [proc EXCEPT ![i] = Started(p, None)]
    BY <2>1, NewProcIsFree
  <2>3. proc'[i] = Started(p, None) /\ \A j \in Procs \ {i} : proc'[j] = proc[j]
    BY <1>2, <2>2
  <2>4. ~Awaited(i)' /\ \A j \in Procs \ {i} : Awaited(j)' <=> Awaited(j)
    BY <2>1, <2>3 DEF Started, Awaited
  <2>5. ASSUME ams # None PROVE UidOfProc(ams)' = UidOfProc(ams) /\ (Awaited(ams)' <=> Awaited(ams)) /\ (Served' <=> Served)
    <3>1. proc'[ams] = proc[ams] /\ ams' = ams
      BY <1>2, <2>1, <2>2, <2>3, <2>5
    <3>2. QED
      BY <2>1, <3>1 DEF UidOfProc, Awaited, Served, Counted
  <2>6. Counted' <=> Counted
    BY <2>1 DEF Counted
  <2>7. Answered
    BY <1>2, <2>1, <2>3, <2>4, <2>5, <2>6 DEF QuietInv
  <2>8. QED
    BY <1>4, <2>1, <2>7
<1>6. ASSUME NEW i \in Procs, Attach(i) PROVE QuietInv'
  <2>1. /\ Here /\ interceptApps' = interceptApps /\ appLaunchCount' = appLaunchCount
        /\ Awaited(i) \/ UidOfProc(i) # UidOf[launching]
    BY <1>3, <1>6 DEF Attach, tableVars, userVars, hostVars
  <2>2. ams = None /\ handler.at = "idle" /\ handler' = handler
    BY <1>6, AttachTypes
  <2>3. (Counted' <=> Counted) /\ \A j \in Procs : Awaited(j) /\ proc[j].state = "starting" => Counted
    BY <1>2, <2>1, <2>2 DEF Counted, QuietInv
  <2>4. CASE ams' = i /\ answer' = "pending" /\ proc' = proc
    <3>1. \A j \in Procs : Awaited(j)' <=> Awaited(j)
      BY <2>1, <2>4 DEF Awaited
    <3>2. UidOfProc(ams)' = UidOfProc(i)
      BY <2>4 DEF UidOfProc
    <3>3. Counted => Served'
      BY <2>2, <2>3, <2>4 DEF Served
    <3>4. Awaited(ams)' <=> Awaited(i)
      BY <2>1, <2>4 DEF Awaited
    <3>5. Answered
      BY <2>1, <2>3, <2>4, <3>1, <3>2, <3>3, <3>4
    <3>6. QED
      BY <1>4, <2>1, <3>5
  <2>5. CASE ams' = None /\ proc' = Attached(i)
    <3>1. proc[i].state = "starting"
      BY <1>6, AttachTypes
    <3>2. /\ \A j \in Procs \ {i} : proc'[j] = proc[j]
          /\ proc'[i].state = "alive"
      BY <2>5, <3>1, AttachedTypes
    <3>3. \A j \in Procs \ {i} : Awaited(j)' <=> Awaited(j)
      BY <2>1, <3>2 DEF Awaited
    <3>4. Answered
      BY <1>2, <2>3, <2>5, <3>2, <3>3
    <3>5. QED
      BY <1>4, <2>1, <3>4
  <2>6. QED
    BY <1>6, <2>4, <2>5, AttachTypes
<1>7. ASSUME AttachAnswered PROVE QuietInv'
  <2>1. /\ Here /\ ams' = None /\ appLaunchCount' = appLaunchCount /\ proc' = Attached(ams)
    BY <1>3, <1>7 DEF AttachAnswered, tableVars, userVars, hostVars
  <2>2. ams # None /\ ams \in Procs /\ proc[ams].state = "starting"
    BY <1>1, <1>7 DEF AttachAnswered, Asking
  <2>3. interceptApps'[UidOf[launching]] = interceptApps[UidOf[launching]]
    <3>1. CASE answer # "remove"
      BY <1>7, <3>1 DEF AttachAnswered, tableVars
    <3>2. CASE answer = "remove"
      <4>1. /\ Remove(UidOfProc(ams), proc[ams].pkg) /\ ~LaunchWriting /\ UidOfProc(ams) # UidOf[launching]
        BY <1>3, <1>7, <3>2 DEF AttachAnswered
      <4>2. interceptApps' = Without(interceptApps, UidOfProc(ams), proc[ams].pkg)
        BY <4>1 DEF Remove
      <4>3. launching \in Packages /\ UidOf[launching] \in Uids
        BY <1>2, <2>1, InterceptAssumption DEF QuietInv
      <4>4. QED
        BY <1>1, <4>1, <4>2, <4>3 DEF Without, Else
    <3>3. QED
      BY <3>1, <3>2
  <2>4. (\A j \in Procs \ {ams} : proc'[j] = proc[j]) /\ proc'[ams].state = "alive"
    BY <2>1, <2>2, AttachedTypes
  <2>5. (\A j \in Procs \ {ams} : Awaited(j)' <=> Awaited(j)) /\ (Counted' <=> Counted)
    BY <2>1, <2>4 DEF Awaited, Counted
  <2>6. Answered
    BY <1>2, <2>1, <2>4, <2>5 DEF QuietInv
  <2>7. QED
    BY <1>4, <2>1, <2>3, <2>6
<1>8. ASSUME Handler PROVE QuietInv'
  <2>1. /\ quiet
        /\ Awaited(ams) /\ proc[ams].state = "starting" => Served'
        /\ UidOfProc(ams) # UidOf[launching] => appLaunchCount'[UidOf[launching]] = appLaunchCount[UidOf[launching]]
    BY <1>3, <1>8, HandlerServes
  <2>2. Here /\ interceptApps' = interceptApps
    BY <1>8, <2>1 DEF Handler, FindCallback, ReadCount, WriteCount, Inject, tableVars, userVars
  <2>3. answer = "pending"
    BY <1>1, <1>8 DEF Handler, FindCallback, ReadCount, WriteCount, Inject, Asking
  <2>4. ams # None /\ ams' = ams /\ ams \in Procs /\ UidOfProc(ams)' = UidOfProc(ams)
    BY <1>2, <2>3, AskedStays
  <2>5. /\ \A j \in Procs \ {ams} : proc'[j] = proc[j]
        /\ proc'[ams].state = proc[ams].state /\ proc'[ams].for = proc[ams].for
    BY <1>8, HandlerTypes, InjectedTypes DEF Handler
  <2>6. (\A j \in Procs : Awaited(j)' <=> Awaited(j)) /\ (Awaited(ams)' <=> Awaited(ams))
    BY <2>2, <2>4, <2>5 DEF Awaited
  <2>7. ASSUME NEW j \in Procs, Awaited(j), j # ams, proc[j].state = "starting" PROVE Counted'
    <3>1. ~Awaited(ams) /\ Counted
      BY <1>2, <2>1, <2>4, <2>7 DEF AwaitedInv, QuietInv
    <3>2. UidOfProc(ams) # UidOf[launching]
      BY <1>2, <2>1, <2>4, <3>1 DEF QuietInv
    <3>3. QED
      BY <2>1, <2>2, <3>1, <3>2 DEF Counted
  <2>8. Answered
    BY <1>2, <2>1, <2>2, <2>4, <2>5, <2>6, <2>7 DEF QuietInv
  <2>9. at = "start" => appLaunchCount'[UidOf[launching]] = appLaunchCount[UidOf[launching]]
    BY <1>2, <2>1, <2>4 DEF AwaitedInv, QuietInv
  <2>10. QED
    BY <1>4, <2>2, <2>8, <2>9
\* The steps of the launch itself: before the last no process is awaited.
<1>9. ASSUME at # "idle", proc' = proc \/ ForceStop, ams' = ams, launching' = launching, launches' = launches,
             quiet \/ ams = None
      PROVE  Answered
  <2>1. \A i \in Procs : ~Awaited(i)
    BY <1>2, <1>9 DEF AwaitedInv
  <2>2. \A i \in Procs : proc'[i].for = proc[i].for
    BY <1>9, StoppedTypes
  <2>3. \A i \in Procs : ~Awaited(i)'
    BY <1>9, <2>1, <2>2 DEF Awaited
  <2>4. ams # None => UidOfProc(ams) # UidOf[launching] /\ UidOfProc(ams)' = UidOfProc(ams)
    <3>1. ams # None => quiet /\ ams \in Procs /\ proc' = proc
      BY <1>2, <1>9 DEF ForceStop
    <3>2. QED
      BY <1>2, <1>9, <2>1, <3>1 DEF QuietInv, UidOfProc
  <2>5. QED
    BY <1>9, <2>3, <2>4
<1>10. ASSUME ForceStop PROVE QuietInv'
  <2>1. /\ at = "stop" /\ at' = "set" /\ ams = None /\ ams' = None /\ launching' = launching /\ launches' = launches
        /\ subscribed' = subscribed /\ subscribed
    BY <1>3, <1>10 DEF ForceStop
  <2>2. launching \in Packages /\ launches > 0
    BY <1>1, <2>1 DEF Else
  <2>3. Answered
    BY <1>9, <1>10, <2>1
  <2>4. QED
    BY <2>1, <2>2, <2>3 DEF QuietInv
<1>11. ASSUME SetInterceptApp PROVE QuietInv'
  <2>1. /\ at = "set" /\ at' = "record" /\ ams' = ams /\ proc' = proc /\ launching' = launching
        /\ launches' = launches /\ subscribed' = subscribed /\ quiet /\ ~overlap /\ ~RemovalPending
    BY <1>3, <1>11 DEF SetInterceptApp, amsVars
  <2>2. PICK table \in {Cleared, interceptApps} : interceptApps' = WithApp(table, launching)
    BY <1>11, <2>1 DEF SetInterceptApp
  <2>3. PICK u \in Uids : u = UidOf[launching]
    BY <1>2, <2>1, InterceptAssumption DEF QuietInv
  <2>4. table \in [Uids -> Entries] /\ launching \in Packages
    BY <1>1, <1>2, <2>1, EntryKinds DEF Cleared, Else, QuietInv
  <2>5. interceptApps'[u] = IF u \in SystemUids THEN Insert(table[u], launching) ELSE {launching}
    BY <2>2, <2>3, <2>4 DEF WithApp
  <2>6. /\ Insert(table[u], launching) # Null /\ {launching} # Null
        /\ Mentions(Insert(table[u], launching), launching)
    <3>1. launching \in Prefixes[launching]
      BY <2>4, InterceptAssumption
    <3>2. table[u] \in Entries
      BY <2>4
    <3>3. Insert(table[u], launching) # Null
      BY <2>4, <3>2, EntryKinds
    <3>4. {launching} # Null
      BY <2>4, EntryKinds DEF Items
    <3>5. \A entry : launching \in entry => Mentions(entry, launching)
      BY <2>4, <3>1 DEF Mentions
    <3>6. \/ Mentions(table[u], launching) /\ Insert(table[u], launching) = table[u]
          \/ launching \in Insert(table[u], launching)
      BY DEF Insert
    <3>7. QED
      BY <3>3, <3>4, <3>5, <3>6
  <2>7. Listed'
    BY <2>1, <2>3, <2>5, <2>6 DEF Listed
  <2>8. Answered
    BY <1>9, <2>1
  <2>9. launches > 0 /\ subscribed
    BY <1>2, <2>1 DEF QuietInv
  <2>10. QED
    BY <2>1, <2>4, <2>7, <2>8, <2>9 DEF QuietInv
<1>12. ASSUME StoreCallback PROVE QuietInv'
  <2>1. /\ at = "record" /\ ams' = ams /\ proc' = proc /\ launching' = launching /\ launches' = launches
        /\ quiet /\ interceptApps' = interceptApps
    BY <1>3, <1>12 DEF StoreCallback, tableVars
  <2>2. launching \in Packages /\ launches > 0 /\ subscribed /\ Listed
    BY <1>2, <2>1 DEF QuietInv
  <2>3. at' = "count" /\ subscribed' /\ callback' = [callback EXCEPT ![UidOf[launching]] = launches]
    BY <1>12, <2>2 DEF StoreCallback
  <2>4. callback'[UidOf[launching]] = launches
    BY <1>1, <2>2, <2>3, InterceptAssumption DEF Else
  <2>5. Listed'
    BY <2>1, <2>2 DEF Listed
  <2>6. Answered
    BY <1>9, <2>1
  <2>7. QED
    BY <2>1, <2>2, <2>3, <2>4, <2>5, <2>6 DEF QuietInv
<1>13. ASSUME ResetCount PROVE QuietInv'
  <2>1. /\ at = "count" /\ at' = "start" /\ ams' = ams /\ proc' = proc /\ launching' = launching /\ launches' = launches
        /\ quiet /\ interceptApps' = interceptApps /\ subscribed' = subscribed /\ callback' = callback
        /\ appLaunchCount' = [appLaunchCount EXCEPT ![UidOf[launching]] = 0]
    BY <1>3, <1>13 DEF ResetCount, tableVars, amsVars
  <2>2. launching \in Packages /\ launches > 0 /\ subscribed /\ Listed /\ callback[UidOf[launching]] = launches
    BY <1>2, <2>1 DEF QuietInv
  <2>3. Counted'
    BY <1>1, <2>1, <2>2, InterceptAssumption DEF Else, Counted
  <2>4. Listed'
    BY <2>1, <2>2 DEF Listed
  <2>5. Answered
    BY <1>9, <2>1
  <2>6. QED
    BY <2>1, <2>2, <2>3, <2>4, <2>5 DEF QuietInv
<1>14. ASSUME StartActivity PROVE QuietInv'
  <2>1. /\ quiet /\ interceptApps' = interceptApps /\ subscribed' = subscribed /\ callback' = callback
        /\ appLaunchCount' = appLaunchCount
    BY <1>3, <1>14 DEF StartActivity, tableVars, hostVars
  <2>2. /\ at = "start" /\ at' = "idle" /\ ams = None /\ ams' = None /\ launching' = launching /\ launches' = launches
    BY <1>14, ActivityStarted
  <2>3. /\ launching \in Packages /\ launches > 0 /\ subscribed /\ Listed /\ Counted
        /\ callback[UidOf[launching]] = launches
    BY <1>2, <2>1, <2>2 DEF QuietInv
  <2>4. Listed' /\ Counted'
    BY <2>1, <2>2, <2>3 DEF Listed, Counted
  <2>5. QED
    BY <1>2, <2>1, <2>2, <2>3, <2>4 DEF QuietInv
<1>15. CASE Admin
  <2>1. AdminCall
    BY <1>15, AdminTypes
  <2>2. QED
    BY <1>3, <2>1 DEF AdminCall
<1>16. ASSUME NEW p \in setup.packages, BeginLaunch(p) PROVE QuietInv'
  BY <1>3, <1>16 DEF BeginLaunch
<1>17. CASE SubscriberLost \/ SubscribedAgain
  BY <1>2, <1>3, <1>17 DEF SubscriberLost, SubscribedAgain, QuietInv
<1>18. CASE UNCHANGED vars
  <2>1. /\ Here /\ interceptApps' = interceptApps /\ appLaunchCount' = appLaunchCount /\ ams' = ams /\ proc' = proc
        /\ answer' = answer /\ handler' = handler
    BY <1>3, <1>18 DEF vars, tableVars, amsVars, userVars, hostVars, rest
  <2>2. Answered
    <3>1. /\ \A i \in Procs : Awaited(i)' <=> Awaited(i)
          /\ (Awaited(ams)' <=> Awaited(ams)) /\ UidOfProc(ams)' = UidOfProc(ams)
          /\ (Served' <=> Served) /\ (Counted' <=> Counted)
      BY <2>1 DEF Awaited, UidOfProc, Served, Counted
    <3>2. QED
      BY <1>2, <2>1, <3>1 DEF QuietInv
  <2>3. QED
    BY <1>4, <2>1, <2>2
<1>19. QED
  BY <1>5, <1>6, <1>7, <1>8, <1>10, <1>11, <1>12, <1>13, <1>14, <1>15, <1>16, <1>17, <1>18 DEF Next, User

LEMMA InitLaunch == Init => LaunchInv
<1> SUFFICES ASSUME Init PROVE LaunchInv
  OBVIOUS
<1>1. \A i \in Procs : proc[i].for = 0 /\ ~proc[i].due
  BY DEF Init, NoProc, None
<1>2. launches = 0 /\ at = "idle" /\ ~quiet
  BY DEF Init
<1>3. AwaitedInv
  BY <1>1, <1>2 DEF AwaitedInv, Awaited, None
<1>4. QED
  BY <1>1, <1>2, <1>3 DEF LaunchInv, QuietInv, LaunchedIsInjected

\* LaunchedIsInjected: unless something has come between them, the process that
\* launch() starts, or finds started, gets the plugin of that launch, whatever
\* the launches before it left in the tables of the host and of system_server,
\* whatever runs under other uids, and wherever the threads stand.
THEOREM LaunchedGetsItsPlugin == Spec => []LaunchedIsInjected
<1>1. TypeInv /\ LaunchInv /\ [Next]_vars => (TypeInv /\ LaunchInv)'
  BY NextTypes, NextAwaited, NextInjected, NextQuiet DEF LaunchInv
<1>2. LaunchInv => LaunchedIsInjected
  BY DEF LaunchInv
<1>3. QED
  BY <1>1, <1>2, InitTypes, InitLaunch, PTL DEF Spec
=============================================================================
