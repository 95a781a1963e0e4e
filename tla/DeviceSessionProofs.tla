------------------------- MODULE DeviceSessionProofs -------------------------
(***************************************************************************)
(* The device session, for any callers, loops, kinds, file numbers and     *)
(* bounds.  First the lock: one client at a time, as long as it does not   *)
(* time out.  Then the types, and the steps by what they do, which every   *)
(* later proof splits on; then what becomes of a client that is closed,    *)
(* who is watched, and what the loss of a connection closes.               *)
(***************************************************************************)
EXTENDS DeviceSession, FiniteSetTheorems, TLAPS

\* Where a caller is when it has found nothing in the cache, under the lock.
Computing == {"build", "assign", "register", "store", "connected", "refused",
              "calling", "listen", "subscribing", "save"}

\* NeverReplaced says nothing of the threads that are about to store a value:
\* each of them holds the lock, and nothing has been stored since it looked.
Owns(u) == pc[u] \in Computing => timedOut \/ (holder = u /\ cached = None)
LockInv ==
  /\ DOMAIN pc = Threads
  /\ \A u \in Callers : Owns(u)

LEMMA InitLockInv == Init => LockInv
<1> SUFFICES ASSUME Init PROVE LockInv
  OBVIOUS
<1>1. PICK s \in Setups : ConnectionInit(s.callers)
  BY DEF Init
<1>2. pc = [t \in Threads |-> IF t = Monitor THEN "poll" ELSE IF t \in Loops THEN "unborn"
                             ELSE IF t \in s.callers THEN "idle" ELSE "absent"]
  BY <1>1 DEF ConnectionInit
<1>3. \A t \in Threads : pc[t] \in {"poll", "unborn", "idle", "absent"}
  BY <1>2
<1>4. DOMAIN pc = Threads
  BY <1>2, <1>3
<1>5. \A u \in Callers : pc[u] \notin Computing
  BY <1>3 DEF Threads, Computing
<1>6. QED
  BY <1>4, <1>5 DEF LockInv, Owns

\* A step of the monitor or of a loop leaves the callers and the lock alone,
\* and at most empties the cache.
LEMMA OthersKeepLockInv ==
  ASSUME LockInv, NEW t \in Threads \ Callers, Step(t)
  PROVE  /\ DOMAIN pc' = Threads
         /\ \A u \in Callers : pc'[u] = pc[u]
         /\ UNCHANGED <<holder, timedOut>>
         /\ cached' \in {cached, None}
<1> USE ConnectionAssumption, SessionAssumption DEF LockInv, Threads, Goto, Moves, OnlyPc
<1>1. CASE ConnectStep(t) /\ UNCHANGED deviceVars
  BY <1>1 DEF ConnectStep, AssignSock, Register, StoreCallback, deviceVars
<1>2. CASE Subscribe(t)
  BY <1>2 DEF Subscribe, deviceVars
<1>3. CASE SubscribeFails(t)
  BY <1>3 DEF SubscribeFails
<1>4. CASE Closer(t)
  <2>1. CASE Listener(t) \/ Reconnected(t) \/ Delete(t) \/ ReconnectFails(t)
    BY <2>1 DEF Listener, Reconnected, Delete, ReconnectFails, deviceVars
  <2>2. CASE Reconnect(t)
    BY <2>2 DEF Reconnect, Connect, deviceVars
  <2>3. CASE /\ CloseStep(t)
             /\ UNCHANGED <<kind, limit, cached, holder, attempt, timedOut>>
    BY <2>3 DEF CloseStep, CloseReads, CloseTakes, CloseDrops, ListenersOver
  <2>4. QED
    BY <1>4, <2>1, <2>2, <2>3 DEF Closer
<1>5. CASE t = Monitor /\ MonitorStep /\ UNCHANGED deviceVars
  BY <1>5 DEF MonitorStep, Poll, Dispatch, OnClose, Unregister, threadVars, deviceVars
<1>6. CASE t \in Loops /\ LoopStep(t) /\ UNCHANGED deviceVars
  BY <1>6 DEF LoopStep, LoopReads, LoopReceives, LoopFails, deviceVars
<1>7. QED
  BY <1>1, <1>2, <1>3, <1>4, <1>5, <1>6 DEF Step

\* A caller's step, but for those that take or give back the lock.
Inside(u) ==
  \/ ConnectStep(u) /\ UNCHANGED deviceVars
  \/ Subscribe(u)
  \/ Build(u) \/ Constructed(u) \/ AddCloseListener(u)

LEMMA InsideKeepsLockInv ==
  ASSUME LockInv, NEW u \in Callers, Inside(u)
  PROVE  LockInv' /\ cached' = cached
<1> USE ConnectionAssumption DEF LockInv, Owns, Threads, Goto, Moves, OnlyPc, Computing, deviceVars
<1>1. CASE ConnectStep(u) /\ UNCHANGED deviceVars
  BY <1>1 DEF ConnectStep, AssignSock, Register, StoreCallback
<1>2. CASE Subscribe(u)
  BY <1>2 DEF Subscribe
<1>3. CASE Build(u)
  BY <1>3 DEF Build, Connect
<1>4. CASE Constructed(u)
  BY <1>4 DEF Constructed
<1>5. CASE AddCloseListener(u)
  BY <1>5 DEF AddCloseListener
<1>6. QED
  BY <1>1, <1>2, <1>3, <1>4, <1>5 DEF Inside

\* Leaving with nothing to store.
LEMMA ExitKeepsLockInv ==
  ASSUME LockInv, NEW u \in Callers, Exit(u), UNCHANGED <<cached, timedOut>>
  PROVE  LockInv'
  BY DEF LockInv, Owns, Threads, Goto, Exit, Computing

LEMMA FailsKeepsLockInv ==
  ASSUME LockInv, NEW u \in Callers, pc[u] \in Computing,
         Fails(u), UNCHANGED <<cached, timedOut>>
  PROVE  LockInv'
<1>1. CASE kind = "server" /\ attempt[u] = 1
  BY <1>1 DEF LockInv, Owns, Threads, Goto, Fails
<1>2. CASE ~(kind = "server" /\ attempt[u] = 1)
  BY <1>2, ExitKeepsLockInv DEF Fails
<1>3. QED
  BY <1>1, <1>2

\* What every step does: keeps the invariant, and replaces no value.
LEMMA NextKeepsLockInv ==
  ASSUME LockInv, [Next]_vars
  PROVE  /\ LockInv'
         /\ cached # None /\ cached' # cached => cached' = None \/ timedOut
<1> USE ConnectionAssumption, SessionAssumption
<1>1. CASE UNCHANGED vars
  BY <1>1 DEF LockInv, Owns, vars, connectionVars, threadVars, deviceVars
<1>2. CASE \E s \in Sockets : Drop(s) /\ UNCHANGED deviceVars
  BY <1>2 DEF LockInv, Owns, Drop, threadVars, deviceVars
<1>3. ASSUME NEW u \in Callers, Miss(u)
      PROVE  LockInv' /\ cached' = cached
  BY <1>3 DEF Miss, LockInv, Owns, Moves, Goto, deviceVars, Computing
<1>4. ASSUME NEW t \in Threads \ Callers, Step(t)
      PROVE  LockInv' /\ cached' \in {cached, None}
  <2>1. /\ DOMAIN pc' = Threads
        /\ \A u \in Callers : pc'[u] = pc[u]
        /\ UNCHANGED <<holder, timedOut>>
        /\ cached' \in {cached, None}
    BY <1>4, OthersKeepLockInv
  <2>2. QED
    BY <2>1 DEF LockInv, Owns
<1>5. ASSUME NEW u \in Callers, Step(u)
      PROVE  /\ LockInv'
             /\ cached # None /\ cached' # cached => cached' = None \/ timedOut
  <2>1. CASE Inside(u)
    BY <2>1, InsideKeepsLockInv
  <2>2. CASE Enter(u)
    BY <2>2 DEF Enter, LockInv, Owns, Goto, Threads, Computing
  <2>3. CASE BuildFails(u)
    <3>1. pc[u] \in Computing /\ Fails(u) /\ UNCHANGED <<cached, timedOut>>
      BY <2>3 DEF BuildFails, Computing
    <3>2. QED
      BY <3>1, FailsKeepsLockInv
  <2>4. CASE FirstCall(u)
    <3>1. pc[u] = "calling" /\ UNCHANGED <<cached, timedOut>>
      BY <2>4 DEF FirstCall
    <3>2. CASE Goto(u, "listen") /\ UNCHANGED holder
      BY <3>1, <3>2 DEF LockInv, Owns, Goto, Computing
    <3>3. CASE Fails(u)
      BY <3>1, <3>3, FailsKeepsLockInv DEF Computing
    <3>4. QED
      BY <2>4, <3>2, <3>3 DEF FirstCall
  <2>5. CASE Save(u)
    <3>1. timedOut \/ (holder = u /\ cached = None)
      BY <2>5 DEF Save, LockInv, Owns, Computing
    <3>2. QED
      BY <2>5 DEF Save, Exit, LockInv, Owns, Goto, Threads, Computing
  <2>6. CASE SubscribeFails(u)
    <3>1. Exit(u) /\ UNCHANGED <<cached, timedOut>>
      BY <2>6 DEF SubscribeFails
    <3>2. QED
      BY <3>1, ExitKeepsLockInv
  <2>7. u # Monitor /\ u \notin Loops
    OBVIOUS
  <2>8. QED
    BY <1>5, <2>1, <2>2, <2>3, <2>4, <2>5, <2>6 DEF Step, Getter, Inside
<1>6. QED
  BY <1>1, <1>2, <1>3, <1>4, <1>5 DEF Next

\* A server or a system client in the cache is replaced by another only after
\* some thread gave up waiting for the lock (TimeoutLock.__enter__ goes on
\* without it).
THEOREM OneClientAtATime == Spec => NeverReplaced
<1>1. Init => LockInv
  BY InitLockInv
<1>2. LockInv /\ [Next]_vars => LockInv'
  BY NextKeepsLockInv
<1>3. LockInv /\ [Next]_vars =>
        [kind # "subscriber" /\ cached # None /\ cached' # cached => cached' = None \/ timedOut]_vars
  BY NextKeepsLockInv
<1>4. QED
  BY <1>1, <1>2, <1>3, PTL DEF Spec, NeverReplaced

-----------------------------------------------------------------------------
(* The types, and who is called what: a client by its first connection.    *)

Others == Threads \ Callers
Connecting == {"assign", "register", "store"}
HasMine == Connecting \cup {"refused", "recv", "taking", "dropping"}
Busy == {"called", "calling", "listen", "save", "read", "recv"} \cup ClosePc \cup ConnectPc \cup ListenerPc
AllPc == CallerPc \cup ConnectPc \cup ClosePc \cup LoopPc \cup ListenerPc \cup MonitorPc
Made == {c \in 1..opened : owner[c] = c}

TypeInv ==
  /\ TypeOK
  /\ pc \in [Threads -> AllPc]
  /\ opened <= limit
  /\ open \subseteq 1..opened /\ watched \subseteq 1..opened
  /\ \A s \in Sockets : s > opened => file[s] = None /\ owner[s] = None /\ listeners[s] = "missing"
  /\ \A s \in 1..opened : file[s] \in Files /\ owner[s] \in 1..s /\ owner[owner[s]] = owner[s]

\* A thread at work knows a client and, where it needs one, a socket of it.
Knows(t) ==
  /\ self[t] \in Made \cup {None}
  /\ pc[t] \in Busy => self[t] # None
  /\ mine[t] # None <=> pc[t] \in HasMine
  /\ mine[t] # None => mine[t] \in 1..opened /\ owner[mine[t]] = self[t]
NameInv ==
  /\ \A t \in Threads : Knows(t)
  /\ \A c \in Clients : sock[c] # None => owner[sock[c]] = c
  /\ \A f \in Files : callbacks[f] # None => file[callbacks[f]] = f
  /\ cached \in Made \cup {None}

-----------------------------------------------------------------------------
(* The making of a client, and who closes it.                              *)

Making == Computing \ {"build"}
Makes(u, c) == pc[u] \in Making /\ self[u] = c
\* Client c has connected again.
Again(c) == \E s \in Sockets \ {c} : owner[s] = c

\* Lost before it was in the cache, or connected again before.
Excused(c) == c \in early \/ Again(c)
\* Or it is not the one in the cache, and will not be: this lasts.
Past(c) == Excused(c) \/ (cached # c /\ \A u \in Callers : ~Makes(u, c))
Heard(c) == listeners[c] = "set" \/ Excused(c)
Dropping == {"dropping", "listener", "reconnect", "delete"}

-----------------------------------------------------------------------------
(* The steps, by what they do to the shared state and to their thread.     *)

Shared == <<clientVars, socketVars, monitorVars, kind, limit, cached, early>>
ListenerKinds == {"missing", "empty", "set"}
Frame(t) ==
  /\ pc' = [u \in Threads |-> pc'[u]]
  /\ self' = [u \in Threads |-> self'[u]]
  /\ mine' = [u \in Threads |-> mine'[u]]
  /\ \A u \in Threads \ {t} : pc'[u] = pc[u] /\ self'[u] = self[u] /\ mine'[u] = mine[u]
Goes(t, from, to) == pc[t] = from /\ pc'[t] = to /\ Frame(t) /\ self'[t] = self[t]

\* A caller on its way to or from the making of a client.
Alone(u) ==
  /\ UNCHANGED Shared /\ Frame(u)
  /\ \/ /\ pc[u] \in {"idle", "lock"} /\ pc'[u] \in {"idle", "lock", "build"}
        /\ self'[u] = self[u] /\ mine'[u] = mine[u]
     \/ pc[u] = "calling" /\ pc'[u] = "listen" /\ self'[u] = self[u] /\ mine'[u] = mine[u]
     \/ /\ pc[u] \in {"build", "refused", "calling", "subscribing"} /\ pc'[u] \in {"idle", "build"}
        /\ self'[u] \in {self[u], None} /\ mine'[u] = None

\* A thread that reads, before it closes or receives, or that gives up.
Aside(t) ==
  /\ UNCHANGED Shared
  /\ \/ Goes(t, "connected", Connected) /\ mine'[t] = mine[t]
     \/ (Goes(t, "reconnect", "delete") \/ Goes(t, "refused", "delete")) /\ mine'[t] = None
     \/ Goes(t, "subscribing", "delete") /\ mine'[t] = mine[t]
     \/ Goes(t, "closing", Return(t)) /\ sock[self[t]] = None /\ mine'[t] = mine[t]
     \/ Goes(t, "closing", "taking") /\ sock[self[t]] # None /\ mine'[t] = sock[self[t]]
     \/ /\ t \in Loops
        /\ \/ Goes(t, "read", "closing") /\ sock[self[t]] = None /\ mine'[t] = mine[t]
           \/ Goes(t, "read", "recv") /\ sock[self[t]] # None /\ mine'[t] = sock[self[t]]
           \/ Goes(t, "recv", "read") /\ mine'[t] = None
           \/ /\ Goes(t, "recv", "closing") /\ mine'[t] = None
              /\ mine[t] \in lost \/ mine[t] \notin open

\* The socket is made.
Connects(t, c) ==
  /\ opened < limit /\ opened + 1 \in Sockets /\ opened' = opened + 1
  /\ IF t \in Callers THEN pc[t] = "build" /\ c = opened + 1 ELSE pc[t] = "reconnect" /\ c = self[t]
  /\ pc'[t] = "assign" /\ self'[t] = c /\ mine'[t] = opened + 1 /\ Frame(t)
  /\ file' \in [Sockets -> Files \cup {None}]
  /\ file'[opened + 1] \in Files \ {file[s] : s \in open}
  /\ owner' \in [Sockets -> Clients \cup {None}]
  /\ owner'[opened + 1] = c
  /\ \A s \in Sockets \ {opened + 1} : file'[s] = file[s] /\ owner'[s] = owner[s]
  /\ open' = open \cup {opened + 1}
  /\ allowed' \in [Clients -> BOOLEAN]
  /\ UNCHANGED <<sock, listeners, lost, monitorVars, kind, limit, cached, early>>
\* It becomes the client's.
Assigns(t) ==
  /\ Goes(t, "assign", "register") /\ mine'[t] = mine[t]
  /\ sock' = [c \in Clients |-> IF c = self[t] THEN mine[t] ELSE sock[c]]
  /\ UNCHANGED <<allowed, listeners, socketVars, monitorVars, kind, limit, cached, early>>
Registers(t) ==
  /\ \/ Goes(t, "register", "store") /\ mine[t] \in open /\ watched' = watched \cup {mine[t]}
     \/ Goes(t, "register", "refused") /\ mine[t] \notin open /\ watched' = watched
  /\ mine'[t] = mine[t]
  /\ UNCHANGED <<clientVars, socketVars, callbacks, reported, batch, at, missed, kind, limit, cached, early>>
Stores(t) ==
  /\ Goes(t, "store", "connected") /\ mine'[t] = None
  /\ callbacks' = [f \in Files |-> IF f = file[mine[t]] THEN mine[t] ELSE callbacks[f]]
  /\ UNCHANGED <<clientVars, socketVars, watched, reported, batch, at, missed, kind, limit, cached, early>>

\* The constructor ends, the listener is added, the value is stored.
Listens(u) ==
  /\ mine'[u] = mine[u]
  /\ \/ /\ Goes(u, "connected", IF kind = "subscriber" THEN "listen" ELSE "calling")
        /\ listeners' = [c \in Clients |-> IF c = self[u] THEN "empty" ELSE listeners[c]]
     \/ /\ Goes(u, "listen", IF kind = "subscriber" THEN "subscribing" ELSE "save")
        /\ listeners' = [c \in Clients |-> IF c = self[u] THEN "set" ELSE listeners[c]]
  /\ UNCHANGED <<sock, allowed, socketVars, monitorVars, kind, limit, cached, early>>
Saves(u) ==
  /\ pc[u] = "save" /\ pc'[u] = "idle" /\ self'[u] = None /\ mine'[u] = None /\ Frame(u)
  /\ cached' = self[u]
  /\ UNCHANGED <<clientVars, socketVars, monitorVars, kind, limit, early>>
Subscribes(t) ==
  /\ pc[t] = "subscribing" /\ sock[self[t]] \in open \ lost
  /\ \E l \in Loops \ {t} :
       /\ pc[l] = "unborn"
       /\ pc' = [u \in Threads |-> IF u = t THEN IF t \in Callers THEN "save" ELSE "told"
                                   ELSE IF u = l THEN "read" ELSE pc[u]]
       /\ self' = [u \in Threads |-> IF u = l THEN self[t] ELSE self[u]]
  /\ UNCHANGED <<Shared, mine>>

\* close(), and what its listeners do to the cache.
Takes(t) ==
  /\ Goes(t, "taking", "dropping") /\ mine'[t] = mine[t]
  /\ sock' = [c \in Clients |-> IF c = self[t] THEN None ELSE sock[c]]
  /\ early' = IF cached # self[t] THEN early \cup {self[t]} ELSE early
  /\ UNCHANGED <<allowed, listeners, socketVars, monitorVars, kind, limit, cached>>
Drops(t) ==
  /\ \/ Goes(t, "dropping", Raise(t)) /\ listeners[self[t]] = "missing"
     \/ Goes(t, "dropping", Return(t)) /\ listeners[self[t]] = "empty"
     \/ Goes(t, "dropping", "listener") /\ listeners[self[t]] = "set"
  /\ mine'[t] = None
  /\ callbacks' = [f \in Files |-> IF mine[t] \in open /\ f = file[mine[t]] THEN None ELSE callbacks[f]]
  /\ watched' = watched \ {mine[t]} /\ open' = open \ {mine[t]}
  /\ UNCHANGED <<clientVars, opened, owner, file, lost, reported, batch, at, missed, kind, limit, cached, early>>
Tells(t) ==
  /\ mine'[t] = mine[t]
  /\ \/ /\ Goes(t, "told", Return(t)) /\ listeners[self[t]] = "set"
        /\ listeners' = [c \in Clients |-> IF c = self[t] THEN "empty" ELSE listeners[c]]
     \/ Goes(t, "told", Raise(t)) /\ listeners[self[t]] # "set" /\ listeners' = listeners
  /\ UNCHANGED <<sock, allowed, socketVars, monitorVars, kind, limit, cached, early>>
Forgets(t) ==
  /\ mine'[t] = mine[t]
  /\ \/ Goes(t, "listener", "told") /\ kind = "server" /\ cached' = None
     \/ Goes(t, "listener", "delete") /\ kind # "server" /\ sock[self[t]] # None /\ cached' = cached
     \/ Goes(t, "listener", "reconnect") /\ kind # "server" /\ sock[self[t]] = None /\ cached' = cached
     \/ Goes(t, "delete", "told") /\ cached' = None
  /\ UNCHANGED <<clientVars, socketVars, monitorVars, kind, limit, early>>

\* The monitor.
Polls ==
  /\ pc[Monitor] = "poll" /\ batch = {} /\ batch' = {file[s] : s \in Edges}
  /\ reported' = reported \cup Edges
  /\ UNCHANGED <<clientVars, socketVars, callbacks, watched, at, missed, threadVars, kind, limit, cached, early>>
Dispatches(f) ==
  /\ pc[Monitor] = "poll" /\ f \in batch /\ at' = f
  /\ pc'[Monitor] = (IF callbacks[f] = None THEN "unregister" ELSE "called")
  /\ self'[Monitor] = (IF callbacks[f] = None THEN self[Monitor] ELSE owner[callbacks[f]])
  /\ missed' = (IF callbacks[f] = None THEN missed \cup {s \in open : file[s] = f} ELSE missed)
  /\ mine'[Monitor] = mine[Monitor] /\ Frame(Monitor)
  /\ UNCHANGED <<clientVars, socketVars, callbacks, watched, reported, batch, kind, limit, cached, early>>
Forbids ==
  /\ Goes(Monitor, "called", "closing") /\ mine'[Monitor] = mine[Monitor]
  /\ allowed' \in [Clients -> BOOLEAN]
  /\ UNCHANGED <<sock, listeners, socketVars, monitorVars, kind, limit, cached, early>>
Unregisters ==
  /\ pc[Monitor] = "unregister" /\ pc'[Monitor] = "poll" /\ self'[Monitor] = None
  /\ mine'[Monitor] = mine[Monitor] /\ Frame(Monitor)
  /\ callbacks' = [f \in Files |-> IF f = at THEN None ELSE callbacks[f]]
  /\ watched' \subseteq watched /\ \A s \in watched \ watched' : s \in open /\ file[s] = at
  /\ batch' = batch \ {at} /\ at' = None
  /\ UNCHANGED <<clientVars, socketVars, reported, missed, kind, limit, cached, early>>
Loses ==
  /\ \E s \in open : lost' = lost \cup {s}
  /\ UNCHANGED <<clientVars, opened, owner, file, open, monitorVars, threadVars, kind, limit, cached, early>>

CallerSteps(u) == Alone(u) \/ Listens(u) \/ Saves(u)
OtherSteps(t) == Aside(t) \/ Takes(t) \/ Drops(t) \/ Tells(t) \/ Forgets(t)
ThreadSteps(t) == (\E c \in Clients : Connects(t, c)) \/ Assigns(t) \/ Registers(t) \/ Stores(t) \/ Subscribes(t)
MonitorSteps == Polls \/ (\E f \in Files : Dispatches(f)) \/ Forbids \/ Unregisters

LEMMA CallersAlone ==
  ASSUME pc \in [Threads -> AllPc], self \in [Threads -> Clients \cup {None}],
         mine \in [Threads -> Sockets \cup {None}], NEW u \in Callers,
         Miss(u) \/ Enter(u) \/ BuildFails(u) \/ FirstCall(u) \/ SubscribeFails(u)
  PROVE  Alone(u)
<1> USE DEF Goto, Moves, OnlyPc, Shared, Frame, Threads
<1>1. CASE Miss(u)
  BY <1>1 DEF Miss, Alone, deviceVars
<1>2. CASE Enter(u)
  BY <1>2 DEF Enter, Alone
<1>3. ASSUME Exit(u) \/ Fails(u)
      PROVE  /\ Frame(u) /\ pc'[u] \in {"idle", "build"}
             /\ self'[u] \in {self[u], None} /\ mine'[u] = None
  BY <1>3 DEF Exit, Fails
<1>4. CASE BuildFails(u)
  <2>1. Fails(u) /\ pc[u] \in {"build", "refused", "calling", "subscribing"} /\ UNCHANGED Shared
    BY <1>4 DEF BuildFails
  <2>2. QED
    BY <1>3, <2>1 DEF Alone
<1>5. CASE FirstCall(u)
  <2>1. pc[u] = "calling" /\ pc[u] \in {"build", "refused", "calling", "subscribing"} /\ UNCHANGED Shared
    BY <1>5 DEF FirstCall
  <2>2. CASE Goto(u, "listen") /\ UNCHANGED <<self, mine>>
    BY <2>1, <2>2 DEF Alone
  <2>3. CASE Fails(u)
    BY <1>3, <2>1, <2>3 DEF Alone
  <2>4. QED
    BY <1>5, <2>2, <2>3 DEF FirstCall
<1>6. CASE SubscribeFails(u)
  <2>1. Exit(u) /\ pc[u] \in {"build", "refused", "calling", "subscribing"} /\ UNCHANGED Shared
    BY <1>6 DEF SubscribeFails
  <2>2. QED
    BY <1>3, <2>1 DEF Alone
<1>7. QED
  BY <1>1, <1>2, <1>4, <1>5, <1>6

LEMMA OthersAside ==
  ASSUME pc \in [Threads -> AllPc], self \in [Threads -> Clients \cup {None}],
         mine \in [Threads -> Sockets \cup {None}], NEW t \in Others,
         \/ Reconnected(t) \/ ReconnectFails(t) \/ SubscribeFails(t)
         \/ CloseReads(t) /\ UNCHANGED <<kind, limit, cached, early>>
         \/ t \in Loops /\ LoopStep(t) /\ UNCHANGED deviceVars
  PROVE  Aside(t)
<1> USE DEF Goto, Goes, Moves, OnlyPc, Shared, Frame, Others
<1>1. CASE Reconnected(t)
  BY <1>1 DEF Reconnected, Aside, deviceVars
<1>2. CASE ReconnectFails(t)
  BY <1>2 DEF ReconnectFails, Aside, deviceVars
<1>3. CASE SubscribeFails(t)
  BY <1>3 DEF SubscribeFails, Aside
<1>4. CASE CloseReads(t) /\ UNCHANGED <<kind, limit, cached, early>>
  BY <1>4 DEF CloseReads, Aside
<1>5. CASE t \in Loops /\ LoopStep(t) /\ UNCHANGED deviceVars
  BY <1>5 DEF LoopStep, LoopReads, LoopReceives, LoopFails, Aside, deviceVars
<1>6. QED
  BY <1>1, <1>2, <1>3, <1>4, <1>5

LEMMA ConnectConnects ==
  ASSUME TypeInv, NEW t \in Threads, NEW c \in Clients, opened < limit, Connect(t, c),
         IF t \in Callers THEN pc[t] = "build" /\ c = opened + 1 ELSE pc[t] = "reconnect" /\ c = self[t],
         UNCHANGED <<kind, limit, cached, early>>
  PROVE  Connects(t, c)
<1>1. limit \in 0..MaxSockets /\ opened \in 0..MaxSockets /\ MaxSockets \in Nat
  BY ConnectionAssumption DEF TypeInv, TypeOK, ConnectionTypeOK
<1>2. opened + 1 \in Sockets
  BY <1>1 DEF Sockets
<1>3. PICK f \in Files \ {file[s] : s \in open} : file' = [file EXCEPT ![opened + 1] = f]
  BY DEF Connect
<1>4. /\ file \in [Sockets -> Files \cup {None}] /\ owner \in [Sockets -> Clients \cup {None}]
      /\ allowed \in [Clients -> BOOLEAN]
  BY DEF TypeInv, TypeOK, ConnectionTypeOK
<1>5. /\ file'[opened + 1] = f /\ file' \in [Sockets -> Files \cup {None}]
      /\ \A s \in Sockets \ {opened + 1} : file'[s] = file[s]
  BY <1>2, <1>3, <1>4
<1>6. /\ owner'[opened + 1] = c /\ owner' \in [Sockets -> Clients \cup {None}]
      /\ \A s \in Sockets \ {opened + 1} : owner'[s] = owner[s]
  BY <1>2, <1>4 DEF Connect
<1>7. /\ pc \in [Threads -> AllPc] /\ self \in [Threads -> Clients \cup {None}]
      /\ mine \in [Threads -> Sockets \cup {None}]
  BY DEF TypeInv, TypeOK, ConnectionTypeOK
<1>8. self'[t] = c /\ mine'[t] = opened + 1 /\ pc'[t] = "assign" /\ Frame(t)
  BY <1>7 DEF Connect, Goto, Frame
<1>9. allowed' \in [Clients -> BOOLEAN] /\ UNCHANGED <<sock, listeners, lost, monitorVars>>
  BY <1>4 DEF Connect
<1>10. /\ opened' = opened + 1 /\ open' = open \cup {opened + 1}
  BY DEF Connect
<1>11. QED
  BY <1>3, <1>5, <1>6, <1>8, <1>9, <1>10 DEF Connects

LEMMA StepIsOneOf ==
  ASSUME TypeInv, NameInv, [Next]_vars
  PROVE  \/ UNCHANGED <<Shared, threadVars>>
         \/ \E u \in Callers : CallerSteps(u)
         \/ \E t \in Others : OtherSteps(t)
         \/ \E t \in Threads : ThreadSteps(t)
         \/ MonitorSteps \/ Loses
<1> DEFINE Claim ==
         \/ UNCHANGED <<Shared, threadVars>>
         \/ \E u \in Callers : CallerSteps(u)
         \/ \E t \in Others : OtherSteps(t)
         \/ \E t \in Threads : ThreadSteps(t)
         \/ MonitorSteps \/ Loses
<1>1. /\ pc \in [Threads -> AllPc] /\ self \in [Threads -> Clients \cup {None}]
      /\ mine \in [Threads -> Sockets \cup {None}] /\ sock \in [Clients -> Sockets \cup {None}]
      /\ listeners \in [Clients -> ListenerKinds] /\ callbacks \in [Files -> Sockets \cup {None}]
      /\ opened \in 0..MaxSockets /\ MaxSockets \in Nat /\ limit \in 0..MaxSockets
      /\ allowed \in [Clients -> BOOLEAN]
  BY ConnectionAssumption DEF TypeInv, TypeOK, ConnectionTypeOK, ListenerKinds
<1>2. UNCHANGED deviceVars => UNCHANGED <<kind, limit, cached, early>>
  BY DEF deviceVars
<1>3. /\ Threads = Callers \cup Others /\ Monitor \in Others /\ Loops \subseteq Others
      /\ Callers \subseteq Threads /\ Others \subseteq Threads /\ Callers \cap Others = {}
  BY ConnectionAssumption DEF Threads, Others
<1> USE DEF Goto, Goes, Moves, Frame, CallerSteps, OtherSteps, ThreadSteps, MonitorSteps
<1>4. ASSUME NEW u \in Callers, Miss(u) \/ Getter(u) \/ SubscribeFails(u) PROVE Claim
  <2>1. CASE Build(u)
    <3>1. opened < limit /\ opened + 1 \in Clients
      BY <1>1, <2>1 DEF Build, Clients, Sockets
    <3>2. Connects(u, opened + 1)
      BY <1>3, <2>1, <3>1, ConnectConnects DEF Build, deviceVars
    <3>3. QED
      BY <1>3, <3>1, <3>2
  <2>2. CASE Constructed(u)
    <3>1. Listens(u)
      BY <1>1, <1>2, <1>3, <2>2 DEF Constructed, Listens, deviceVars
    <3>2. QED
      BY <3>1
  <2>3. CASE AddCloseListener(u)
    <3>1. Listens(u)
      BY <1>1, <1>2, <1>3, <2>3 DEF AddCloseListener, Listens, deviceVars
    <3>2. QED
      BY <3>1
  <2>4. CASE Save(u)
    <3>1. Saves(u)
      BY <1>1, <1>3, <2>4 DEF Save, Exit, Saves
    <3>2. QED
      BY <3>1
  <2>5. CASE Miss(u) \/ Enter(u) \/ BuildFails(u) \/ FirstCall(u) \/ SubscribeFails(u)
    BY <1>1, <2>5, CallersAlone
  <2>6. QED
    BY <1>4, <2>1, <2>2, <2>3, <2>4, <2>5 DEF Getter
<1>5. ASSUME NEW t \in Others, Closer(t) PROVE Claim
  <2>1. CASE CloseStep(t) /\ UNCHANGED <<kind, limit, cached, holder, attempt, timedOut>>
               /\ early' = IF pc[t] = "taking" /\ cached # self[t] THEN early \cup {self[t]} ELSE early
    <3>1. CASE CloseTakes(t)
      <4>1. Takes(t)
        BY <1>1, <1>3, <2>1, <3>1 DEF Takes, CloseTakes
      <4>2. QED
        BY <4>1
    <3>2. CASE CloseReads(t)
      <4>1. early' = early
        BY <2>1, <3>2 DEF CloseReads
      <4>2. QED
        BY <1>1, <2>1, <3>2, <4>1, OthersAside
    <3>3. CASE CloseDrops(t)
      <4>1. early' = early
        BY <2>1, <3>3 DEF CloseDrops
      <4>2. listeners[self[t]] \in ListenerKinds
        <5>1. self[t] \in Clients
          BY <1>1, <1>3, <3>3 DEF CloseDrops, NameInv, Knows, Busy, ClosePc
        <5>2. QED
          BY <1>1, <5>1
      <4>3. /\ callbacks' = [f \in Files |-> IF mine[t] \in open /\ f = file[mine[t]] THEN None ELSE callbacks[f]]
            /\ watched' = watched \ {mine[t]} /\ open' = open \ {mine[t]}
            /\ mine' = [mine EXCEPT ![t] = None] /\ pc[t] = "dropping"
            /\ UNCHANGED <<clientVars, opened, owner, file, lost, reported, batch, at, missed, self>>
        BY <1>1, <3>3 DEF CloseDrops
      <4> DEFINE to == CASE listeners[self[t]] = "missing" -> Raise(t)
                         [] listeners[self[t]] = "empty"   -> Return(t)
                         [] listeners[self[t]] = "set"     -> "listener"
      <4>4. /\ pc' = [pc EXCEPT ![t] = to]
            /\ \/ to = Raise(t) /\ listeners[self[t]] = "missing"
               \/ to = Return(t) /\ listeners[self[t]] = "empty"
               \/ to = "listener" /\ listeners[self[t]] = "set"
        <5>1. pc' = [pc EXCEPT ![t] = to]
          BY <3>3 DEF CloseDrops
        <5>2. listeners[self[t]] = "missing" \/ listeners[self[t]] = "empty" \/ listeners[self[t]] = "set"
          BY <4>2 DEF ListenerKinds
        <5>3. QED
          BY <5>1, <5>2
      <4> HIDE DEF to
      <4>5. Frame(t) /\ mine'[t] = None /\ self'[t] = self[t] /\ pc'[t] = to
        <5>1. pc' = [u \in Threads |-> IF u = t THEN to ELSE pc[u]]
          BY <1>1, <1>3, <4>4
        <5>2. mine' = [u \in Threads |-> IF u = t THEN None ELSE mine[u]]
          BY <1>1, <1>3, <4>3
        <5>3. self' = [u \in Threads |-> self[u]]
          BY <1>1, <4>3
        <5>4. QED
          BY <1>3, <5>1, <5>2, <5>3
      <4>6. Drops(t)
        BY <2>1, <4>3, <4>4, <4>5 DEF Drops
      <4>7. QED
        BY <4>6
    <3>4. CASE ListenersOver(t)
      <4>1. early' = early
        BY <2>1, <3>4 DEF ListenersOver
      <4>2. Tells(t)
        BY <1>1, <1>3, <2>1, <3>4 DEF ListenersOver, Tells
      <4>3. QED
        BY <4>2
    <3>5. QED
      BY <2>1, <3>1, <3>2, <3>3, <3>4 DEF CloseStep
  <2>2. CASE Listener(t)
    <3> DEFINE to == IF kind = "server" THEN "told"
                     ELSE IF sock[self[t]] = None THEN "reconnect" ELSE "delete"
    <3>1. /\ pc' = [pc EXCEPT ![t] = to]
          /\ \/ to = "told" /\ kind = "server"
             \/ to = "delete" /\ kind # "server" /\ sock[self[t]] # None
             \/ to = "reconnect" /\ kind # "server" /\ sock[self[t]] = None
      <4>1. pc' = [pc EXCEPT ![t] = to]
        BY <2>2 DEF Listener
      <4>2. QED
        BY <4>1
    <3> HIDE DEF to
    <3>2. Frame(t) /\ mine'[t] = mine[t] /\ self'[t] = self[t] /\ pc'[t] = to /\ pc[t] = "listener"
      BY <1>1, <1>3, <2>2, <3>1 DEF Listener, OnlyPc
    <3>3. Forgets(t)
      BY <2>2, <3>1, <3>2 DEF Listener, Forgets, OnlyPc
    <3>4. QED
      BY <3>3
  <2>3. CASE Delete(t)
    <3>1. Forgets(t)
      BY <1>1, <1>3, <2>3 DEF Delete, Forgets, OnlyPc
    <3>2. QED
      BY <3>1
  <2>4. CASE Reconnect(t)
    <3>1. self[t] \in Clients
      BY <1>1, <1>3, <2>4 DEF Reconnect, NameInv, Knows, Busy, ListenerPc
    <3>2. Connects(t, self[t])
      BY <1>2, <1>3, <2>4, <3>1, ConnectConnects DEF Reconnect
    <3>3. QED
      BY <1>3, <3>1, <3>2
  <2>5. QED
    BY <1>1, <1>5, <2>1, <2>2, <2>3, <2>4, OthersAside DEF Closer
<1>6. ASSUME NEW t \in Threads, AssignSock(t) \/ Register(t) \/ StoreCallback(t), UNCHANGED deviceVars PROVE Claim
  <2>1. CASE AssignSock(t)
    <3>1. Assigns(t)
      BY <1>1, <1>2, <1>6, <2>1 DEF AssignSock, Assigns
    <3>2. QED
      BY <3>1
  <2>2. CASE Register(t)
    <3>1. Registers(t)
      BY <1>1, <1>2, <1>6, <2>2 DEF Register, Registers
    <3>2. QED
      BY <3>1
  <2>3. CASE StoreCallback(t)
    <3>1. Stores(t)
      BY <1>1, <1>2, <1>6, <2>3 DEF StoreCallback, Stores
    <3>2. QED
      BY <3>1
  <2>4. QED
    BY <1>6, <2>1, <2>2, <2>3
<1>7. ASSUME NEW t \in Threads, Subscribe(t) PROVE Claim
  <2>1. PICK l \in Loops :
          /\ l = CHOOSE k \in Loops : pc[k] = "unborn"
          /\ self' = [self EXCEPT ![l] = self[t]]
          /\ pc' = [pc EXCEPT ![l] = "read", ![t] = IF t \in Callers THEN "save" ELSE "told"]
    BY <1>7 DEF Subscribe
  <2>2. pc[l] = "unborn" /\ pc[t] = "subscribing" /\ l # t
    BY <1>7, <2>1 DEF Subscribe
  <2>3. /\ pc' = [u \in Threads |-> IF u = t THEN IF t \in Callers THEN "save" ELSE "told"
                                   ELSE IF u = l THEN "read" ELSE pc[u]]
        /\ self' = [u \in Threads |-> IF u = l THEN self[t] ELSE self[u]]
    BY <1>1, <1>3, <2>1, <2>2
  <2>4. UNCHANGED <<Shared, mine>> /\ sock[self[t]] \in open \ lost
    BY <1>2, <1>7 DEF Subscribe, Shared, Alive
  <2>5. Subscribes(t)
    BY <2>2, <2>3, <2>4 DEF Subscribes
  <2>6. QED
    BY <2>5
<1>8. ASSUME MonitorStep, UNCHANGED deviceVars PROVE Claim
  <2>1. CASE Poll
    <3>1. Polls
      BY <1>2, <1>8, <2>1 DEF Poll, Polls
    <3>2. QED
      BY <3>1
  <2>2. ASSUME NEW f \in Files, Dispatch(f) PROVE Claim
    <3>1. Dispatches(f)
      BY <1>1, <1>2, <1>3, <1>8, <2>2 DEF Dispatch, Dispatches
    <3>2. QED
      BY <3>1
  <2>3. CASE OnClose
    <3>1. Forbids
      BY <1>1, <1>2, <1>3, <1>8, <2>3 DEF OnClose, Forbids
    <3>2. QED
      BY <3>1
  <2>4. CASE Unregister
    <3>1. watched' \subseteq watched /\ \A s \in watched \ watched' : s \in open /\ file[s] = at
      BY <2>4 DEF Unregister, Unwatched
    <3>2. Unregisters
      BY <1>1, <1>2, <1>3, <1>8, <2>4, <3>1 DEF Unregister, Unregisters
    <3>3. QED
      BY <3>2
  <2>5. QED
    BY <1>8, <2>1, <2>2, <2>3, <2>4 DEF MonitorStep
<1>9. ASSUME NEW t \in Threads, Step(t) PROVE Claim
  <2>1. CASE ConnectStep(t) /\ UNCHANGED deviceVars
    BY <1>6, <2>1 DEF ConnectStep
  <2>2. CASE SubscribeFails(t)
    BY <1>1, <1>3, <1>4, <2>2, OthersAside
  <2>3. CASE t \in Loops /\ LoopStep(t) /\ UNCHANGED deviceVars
    BY <1>1, <1>3, <2>3, OthersAside
  <2>4. QED
    BY <1>3, <1>4, <1>5, <1>7, <1>8, <1>9, <2>1, <2>2, <2>3 DEF Step
<1>10. ASSUME NEW s \in Sockets, Drop(s) /\ UNCHANGED deviceVars PROVE Claim
  <2>1. Loses
    BY <1>2, <1>10 DEF Drop, Alive, Loses
  <2>2. QED
    BY <2>1
<1>11. CASE UNCHANGED vars
  BY <1>11 DEF vars, connectionVars, deviceVars, Shared
<1>12. QED
  BY <1>4, <1>9, <1>10, <1>11 DEF Next

-----------------------------------------------------------------------------
(* Where each thread can be.                                               *)

Place(t) ==
  IF t \in Callers THEN CallerPc \cup ConnectPc
  ELSE IF t \in Loops THEN LoopPc \cup ClosePc \cup ConnectPc \cup ListenerPc
  ELSE MonitorPc \cup ClosePc \cup ConnectPc \cup ListenerPc

LEMMA NextPlaces ==
  ASSUME TypeInv, NameInv, [Next]_vars
  PROVE  pc' \in [Threads -> AllPc] /\ \A t \in Threads : pc'[t] \in Place(t)
<1> DEFINE Claim == pc' \in [Threads -> AllPc] /\ \A t \in Threads : pc'[t] \in Place(t)
<1>1. pc \in [Threads -> AllPc] /\ \A t \in Threads : pc[t] \in Place(t)
  BY DEF TypeInv, TypeOK, Place, Threads
<1>2. \A t \in Threads : Place(t) \subseteq AllPc
  BY DEF Place, AllPc
<1>3. /\ Threads = Callers \cup Others /\ Monitor \in Others /\ Loops \subseteq Others
      /\ Callers \cap Others = {} /\ Monitor \notin Loops
  BY ConnectionAssumption DEF Threads, Others
<1>4. \A t \in Others : t = Monitor \/ t \in Loops
  BY DEF Threads, Others
<1>5. ASSUME NEW t \in Threads, Frame(t), pc'[t] \in Place(t) PROVE Claim
  <2>1. \A u \in Threads : pc'[u] \in Place(u)
    BY <1>1, <1>5 DEF Frame
  <2>2. QED
    BY <1>2, <1>5, <2>1 DEF Frame
<1> USE DEF Goes
<1>6. ASSUME NEW u \in Callers, Alone(u) PROVE Claim
  <2>1. pc'[u] \in {"idle", "lock", "build", "listen"} /\ Frame(u)
    BY <1>6 DEF Alone
  <2>2. QED
    BY <1>3, <1>5, <2>1 DEF Place, CallerPc
<1>7. ASSUME NEW u \in Callers, Listens(u) PROVE Claim
  BY <1>1, <1>3, <1>5, <1>7 DEF Listens, Place, CallerPc
<1>8. ASSUME NEW u \in Callers, Saves(u) PROVE Claim
  BY <1>1, <1>3, <1>5, <1>8 DEF Saves, Place, CallerPc
<1>9. ASSUME NEW t \in Others, Aside(t) PROVE Claim
  BY <1>1, <1>3, <1>4, <1>5, <1>9 DEF Aside, Place, LoopPc, MonitorPc, ClosePc, ListenerPc, Return, Connected
<1>10. ASSUME NEW t \in Others, Takes(t) PROVE Claim
  BY <1>1, <1>3, <1>5, <1>10 DEF Takes, Place, ClosePc
<1>11. ASSUME NEW t \in Others, Drops(t) PROVE Claim
  BY <1>2, <1>3, <1>4, <1>5, <1>11 DEF Drops, Place, LoopPc, MonitorPc, ClosePc, Return, Raise
<1>12. ASSUME NEW t \in Others, Tells(t) PROVE Claim
  BY <1>1, <1>3, <1>4, <1>5, <1>12 DEF Tells, Place, LoopPc, MonitorPc, Return, Raise
<1>13. ASSUME NEW t \in Others, Forgets(t) PROVE Claim
  BY <1>1, <1>3, <1>5, <1>13 DEF Forgets, Place, ClosePc, ListenerPc, Connected
<1>14. ASSUME NEW t \in Threads, NEW c \in Clients, Connects(t, c) PROVE Claim
  BY <1>5, <1>14 DEF Connects, Place, ConnectPc
<1>15. ASSUME NEW t \in Threads, Assigns(t) PROVE Claim
  BY <1>5, <1>15 DEF Assigns, Place, ConnectPc
<1>16. ASSUME NEW t \in Threads, Registers(t) PROVE Claim
  BY <1>5, <1>16 DEF Registers, Place, ConnectPc
<1>17. ASSUME NEW t \in Threads, Stores(t) PROVE Claim
  BY <1>5, <1>17 DEF Stores, Place, ConnectPc
<1>18. ASSUME NEW t \in Threads, Subscribes(t) PROVE Claim
  <2>1. PICK l \in Loops \ {t} :
          pc' = [u \in Threads |-> IF u = t THEN IF t \in Callers THEN "save" ELSE "told"
                                   ELSE IF u = l THEN "read" ELSE pc[u]]
    BY <1>18 DEF Subscribes
  <2>2. pc'[t] \in Place(t)
    BY <2>1 DEF Place, CallerPc, ClosePc
  <2>3. l \in Threads /\ pc'[l] \in Place(l)
    BY <1>3, <2>1 DEF Place, LoopPc
  <2>4. \A u \in Threads : pc'[u] \in Place(u)
    BY <1>1, <2>1, <2>2, <2>3
  <2>5. QED
    BY <1>2, <2>1, <2>4
<1>19. CASE Polls
  BY <1>1, <1>19 DEF Polls, threadVars
<1>20. ASSUME NEW f \in Files, Dispatches(f) PROVE Claim
  BY <1>1, <1>3, <1>5, <1>20 DEF Dispatches, Place, MonitorPc
<1>21. CASE Forbids
  BY <1>1, <1>3, <1>5, <1>21 DEF Forbids, Place, ClosePc
<1>22. CASE Unregisters
  BY <1>1, <1>3, <1>5, <1>22 DEF Unregisters, Place, MonitorPc
<1>23. CASE Loses
  BY <1>1, <1>23 DEF Loses, threadVars
<1>24. CASE UNCHANGED <<Shared, threadVars>>
  BY <1>1, <1>24 DEF threadVars
<1>25. QED
  BY <1>6, <1>7, <1>8, <1>9, <1>10, <1>11, <1>12, <1>13, <1>14, <1>15, <1>16, <1>17, <1>18, <1>19, <1>20,
     <1>21, <1>22, <1>23, <1>24, StepIsOneOf DEF CallerSteps, OtherSteps, ThreadSteps, MonitorSteps

-----------------------------------------------------------------------------
(* The types of the shared state, and the numbers of the sockets.          *)

Ranges ==
  /\ sock \in [Clients -> Sockets \cup {None}]
  /\ allowed \in [Clients -> BOOLEAN]
  /\ listeners \in [Clients -> ListenerKinds]
  /\ owner \in [Sockets -> Clients \cup {None}]
  /\ file \in [Sockets -> Files \cup {None}]
  /\ lost \subseteq Sockets
  /\ callbacks \in [Files -> Sockets \cup {None}]
  /\ reported \subseteq Sockets
  /\ batch \subseteq Files
  /\ missed \subseteq Sockets
  /\ at \in Files \cup {None}
  /\ self \in [Threads -> Clients \cup {None}]
  /\ mine \in [Threads -> Sockets \cup {None}]
  /\ cached \in Clients \cup {None}
  /\ early \subseteq Clients
Numbered ==
  /\ opened \in 0..limit
  /\ open \subseteq 1..opened /\ watched \subseteq 1..opened
  /\ \A s \in Sockets : s > opened => file[s] = None /\ owner[s] = None /\ listeners[s] = "missing"
  /\ \A s \in 1..opened : file[s] \in Files /\ owner[s] \in 1..s /\ owner[owner[s]] = owner[s]

LEMMA NextTypes ==
  ASSUME TypeInv, NameInv, [Next]_vars
  PROVE  Ranges' /\ Numbered'
<1> DEFINE Claim == Ranges' /\ Numbered'
<1>1. Ranges /\ Numbered
  <2>1. Ranges
    BY DEF TypeInv, TypeOK, ConnectionTypeOK, Ranges, ListenerKinds
  <2>2. opened \in 0..MaxSockets /\ limit \in 0..MaxSockets /\ MaxSockets \in Nat /\ opened <= limit
    BY ConnectionAssumption DEF TypeInv, TypeOK, ConnectionTypeOK
  <2>3. opened \in 0..limit
    BY <2>2
  <2>4. QED
    BY <2>1, <2>3 DEF TypeInv, Numbered
<1>2. MaxSockets \in Nat /\ limit \in 0..MaxSockets
  BY ConnectionAssumption DEF TypeInv, TypeOK
<1>3. /\ Threads = Callers \cup Others /\ Monitor \in Threads /\ Loops \subseteq Threads
  BY DEF Threads, Others
<1>4. ASSUME NEW t \in Threads, Frame(t), self'[t] \in Clients \cup {None}, mine'[t] \in Sockets \cup {None}
      PROVE  self' \in [Threads -> Clients \cup {None}] /\ mine' \in [Threads -> Sockets \cup {None}]
  BY <1>1, <1>4 DEF Frame, Ranges
<1>5. \A t \in Threads : self[t] \in Clients \cup {None} /\ mine[t] \in Sockets \cup {None} /\
        (pc[t] \in Busy => self[t] \in 1..opened)
  BY <1>1 DEF Ranges, NameInv, Knows, Made
<1>6. open \subseteq Sockets /\ \A s \in 1..opened : s \in Sockets /\ s \in Clients /\ ~(s > opened)
  BY <1>1, <1>2 DEF Numbered, Sockets, Clients
<1> USE DEF Goes, Shared, clientVars, socketVars, monitorVars, threadVars, Ranges, Numbered
<1>7. ASSUME NEW u \in Callers, Alone(u) PROVE Claim
  BY <1>1, <1>3, <1>4, <1>7 DEF Alone
<1>8. ASSUME NEW u \in Callers, Listens(u) PROVE Claim
  <2>1. self[u] \in 1..opened /\ Frame(u) /\ self'[u] = self[u] /\ mine'[u] = mine[u]
    BY <1>3, <1>5, <1>8 DEF Listens, Busy, ConnectPc
  <2>2. /\ UNCHANGED <<sock, allowed, socketVars, monitorVars, kind, limit, cached, early>>
        /\ listeners' \in [Clients -> ListenerKinds]
        /\ \A s \in Sockets : s > opened => listeners'[s] = listeners[s]
    BY <1>1, <2>1, <1>8 DEF Listens, ListenerKinds, Clients
  <2>3. Ranges'
    BY <1>1, <1>3, <1>4, <2>1, <2>2
  <2>4. QED
    BY <1>1, <2>2, <2>3
<1>9. ASSUME NEW u \in Callers, Saves(u) PROVE Claim
  BY <1>1, <1>3, <1>4, <1>9 DEF Saves
<1>10. ASSUME NEW t \in Others, Aside(t) PROVE Claim
  <2>1. /\ Frame(t) /\ self'[t] = self[t] /\ UNCHANGED Shared
        /\ mine'[t] = mine[t] \/ mine'[t] = None \/ (mine'[t] = sock[self[t]] /\ pc[t] \in Busy)
    BY <1>10 DEF Aside, Busy, ClosePc
  <2>2. mine'[t] \in Sockets \cup {None}
    BY <1>1, <1>3, <1>5, <1>6, <2>1
  <2>3. self' \in [Threads -> Clients \cup {None}] /\ mine' \in [Threads -> Sockets \cup {None}]
    BY <1>3, <1>4, <1>5, <2>1, <2>2
  <2>4. QED
    BY <1>1, <2>1, <2>3
<1>11. ASSUME NEW t \in Others, Takes(t) PROVE Claim
  <2>1. self[t] \in Clients /\ Frame(t) /\ self'[t] = self[t] /\ mine'[t] = mine[t]
    BY <1>3, <1>5, <1>6, <1>11 DEF Takes, Busy, ClosePc
  <2>2. sock' \in [Clients -> Sockets \cup {None}] /\ early' \subseteq Clients
    BY <1>1, <2>1, <1>11 DEF Takes
  <2>3. UNCHANGED <<allowed, listeners, socketVars, monitorVars, kind, limit, cached>>
    BY <1>11 DEF Takes
  <2>4. self' \in [Threads -> Clients \cup {None}] /\ mine' \in [Threads -> Sockets \cup {None}]
    BY <1>3, <1>4, <1>5, <2>1
  <2>5. QED
    BY <1>1, <2>2, <2>3, <2>4
<1>12. ASSUME NEW t \in Others, Drops(t) PROVE Claim
  BY <1>1, <1>2, <1>3, <1>4, <1>5, <1>6, <1>12 DEF Drops
<1>13. ASSUME NEW t \in Others, Tells(t) PROVE Claim
  <2>1. self[t] \in 1..opened /\ Frame(t) /\ self'[t] = self[t] /\ mine'[t] = mine[t]
    BY <1>3, <1>5, <1>13 DEF Tells, Busy, ClosePc
  <2>2. /\ UNCHANGED <<sock, allowed, socketVars, monitorVars, kind, limit, cached, early>>
        /\ listeners' \in [Clients -> ListenerKinds]
        /\ \A s \in Sockets : s > opened => listeners'[s] = listeners[s]
    BY <1>1, <1>13 DEF Tells, ListenerKinds, Clients
  <2>3. Ranges'
    BY <1>1, <1>3, <1>4, <2>1, <2>2
  <2>4. QED
    BY <1>1, <2>2, <2>3
<1>14. ASSUME NEW t \in Others, Forgets(t) PROVE Claim
  BY <1>1, <1>3, <1>4, <1>14 DEF Forgets
<1>15. ASSUME NEW t \in Threads, NEW c \in Clients, Connects(t, c) PROVE Claim
  <2> DEFINE n == opened + 1
  <2>1. /\ n \in Sockets /\ opened' = n /\ limit' = limit /\ opened < limit
        /\ file' \in [Sockets -> Files \cup {None}] /\ file'[n] \in Files
        /\ owner' \in [Sockets -> Clients \cup {None}] /\ owner'[n] = c
        /\ \A s \in Sockets \ {n} : file'[s] = file[s] /\ owner'[s] = owner[s]
        /\ open' = open \cup {n}
        /\ allowed' \in [Clients -> BOOLEAN] /\ UNCHANGED <<sock, listeners, lost, monitorVars, cached, early>>
        /\ self'[t] = c /\ mine'[t] = n /\ Frame(t)
    BY <1>15 DEF Connects
  <2>2. c = n \/ (c \in 1..opened /\ owner[c] = c)
    BY <1>15 DEF Connects, NameInv, Knows, Made, Busy, ListenerPc
  <2>3. Ranges'
    <3>1. self' \in [Threads -> Clients \cup {None}] /\ mine' \in [Threads -> Sockets \cup {None}]
      BY <1>4, <2>1
    <3>2. QED
      BY <1>1, <2>1, <3>1
  <2>4. opened \in Nat /\ n \in 1..n /\ opened' \in 0..limit'
    BY <1>1, <1>2, <2>1
  <2>5. \A s \in 1..n : s = n \/ s \in 1..opened
    BY <2>4
  <2>6. \A s \in 1..opened : s \in 1..n /\ s # n /\ s \in Sockets
    BY <1>6, <2>4
  <2> HIDE DEF n
  <2>7. open' \subseteq 1..opened' /\ watched' \subseteq 1..opened'
    BY <1>1, <2>1, <2>4, <2>6
  <2>8. ASSUME NEW s \in Sockets, s > opened' PROVE file'[s] = None /\ owner'[s] = None /\ listeners'[s] = "missing"
    <3>1. s > opened /\ s # n
      BY <2>1, <2>4, <2>8 DEF n, Sockets
    <3>2. QED
      BY <1>1, <2>1, <3>1
  <2>9. ASSUME NEW s \in 1..opened'
        PROVE  file'[s] \in Files /\ owner'[s] \in 1..s /\ owner'[owner'[s]] = owner'[s]
    <3>1. CASE s = n
      BY <2>1, <2>2, <2>6, <3>1
    <3>2. CASE s \in 1..opened
      <4>1. file[s] \in Files /\ owner[s] \in 1..s /\ owner[owner[s]] = owner[s]
        BY <1>1, <3>2
      <4>2. owner[s] \in 1..opened
        BY <2>4, <3>2, <4>1
      <4>3. QED
        BY <2>1, <2>6, <3>2, <4>1, <4>2
    <3>3. QED
      BY <2>1, <2>5, <3>1, <3>2
  <2>10. QED
    BY <2>3, <2>4, <2>7, <2>8, <2>9
<1>16. ASSUME NEW t \in Threads, Assigns(t) PROVE Claim
  BY <1>1, <1>4, <1>16 DEF Assigns
<1>17. ASSUME NEW t \in Threads, Registers(t) PROVE Claim
  BY <1>1, <1>2, <1>3, <1>4, <1>5, <1>6, <1>17 DEF Registers
<1>18. ASSUME NEW t \in Threads, Stores(t) PROVE Claim
  BY <1>1, <1>4, <1>18 DEF Stores
<1>19. ASSUME NEW t \in Threads, Subscribes(t) PROVE Claim
  BY <1>1, <1>19 DEF Subscribes
<1>20. CASE Polls
  <2>1. batch' \subseteq Files /\ reported' \subseteq Sockets
    <3>1. \A s \in Edges : s \in 1..opened
      BY <1>1 DEF Edges
    <3>2. QED
      BY <1>1, <1>6, <3>1, <1>20 DEF Polls
  <2>2. UNCHANGED <<clientVars, socketVars, callbacks, watched, at, missed, threadVars, kind, limit, cached, early>>
    BY <1>20 DEF Polls
  <2>3. QED
    BY <1>1, <2>1, <2>2
<1>21. ASSUME NEW f \in Files, Dispatches(f) PROVE Claim
  BY <1>1, <1>2, <1>3, <1>4, <1>5, <1>6, <1>21 DEF Dispatches
<1>22. CASE Forbids
  BY <1>1, <1>3, <1>4, <1>22 DEF Forbids
<1>23. CASE Unregisters
  BY <1>1, <1>3, <1>4, <1>23 DEF Unregisters
<1>24. CASE Loses
  BY <1>1, <1>6, <1>24 DEF Loses
<1>25. CASE UNCHANGED <<Shared, threadVars>>
  BY <1>1, <1>25
<1>26. QED
  BY <1>7, <1>8, <1>9, <1>10, <1>11, <1>12, <1>13, <1>14, <1>15, <1>16, <1>17, <1>18, <1>19, <1>20, <1>21,
     <1>22, <1>23, <1>24, <1>25, StepIsOneOf DEF CallerSteps, OtherSteps, ThreadSteps, MonitorSteps

-----------------------------------------------------------------------------
(* Names.                                                                  *)

LEMMA NumberFacts ==
  ASSUME TypeInv, NameInv
  PROVE  /\ opened \in Nat /\ MaxSockets \in Nat /\ None \notin Sockets /\ None \notin Clients /\ None \notin Files
         /\ Clients = Sockets /\ 1..opened \subseteq Sockets
         /\ \A s \in Sockets : s > opened \/ s \in 1..opened
         /\ opened + 1 \notin 1..opened /\ (opened < limit => opened + 1 \in Sockets)
         /\ \A s \in 1..opened : s \in 1..(opened + 1) /\ s # opened + 1
         /\ \A s \in 1..(opened + 1) : s \in 1..opened \/ s = opened + 1
         /\ opened + 1 \in 1..(opened + 1) /\ None \notin 1..(opened + 1)
         /\ \A s \in 1..opened : owner[s] \in 1..opened /\ owner[owner[s]] = owner[s] /\ file[s] \in Files
<1>1. opened \in 0..MaxSockets /\ MaxSockets \in Nat /\ limit \in 0..MaxSockets /\ Files \subseteq Nat \ {0}
  BY ConnectionAssumption DEF TypeInv, TypeOK, ConnectionTypeOK
<1>2. /\ opened \in Nat /\ None \notin Sockets /\ None \notin Clients /\ None \notin Files
      /\ Clients = Sockets /\ 1..opened \subseteq Sockets
      /\ \A s \in Sockets : s > opened \/ s \in 1..opened
      /\ opened + 1 \notin 1..opened /\ (opened < limit => opened + 1 \in Sockets)
  BY <1>1 DEF None, Sockets, Clients
<1>3. /\ \A s \in 1..opened : s \in 1..(opened + 1) /\ s # opened + 1
      /\ \A s \in 1..(opened + 1) : s \in 1..opened \/ s = opened + 1
      /\ opened + 1 \in 1..(opened + 1) /\ None \notin 1..(opened + 1)
  BY <1>1 DEF None
<1>4. ASSUME NEW s \in 1..opened PROVE owner[s] \in 1..opened /\ owner[owner[s]] = owner[s] /\ file[s] \in Files
  <2>1. owner[s] \in 1..s /\ owner[owner[s]] = owner[s] /\ file[s] \in Files
    BY DEF TypeInv
  <2>2. QED
    BY <1>1, <2>1
<1>5. QED
  BY <1>1, <1>2, <1>3, <1>4

LEMMA CallbackFacts ==
  ASSUME TypeInv, NameInv, NEW f \in Files, callbacks[f] # None
  PROVE  /\ callbacks[f] \in 1..opened /\ file[callbacks[f]] = f
         /\ owner[callbacks[f]] \in 1..opened /\ owner[owner[callbacks[f]]] = owner[callbacks[f]]
<1>1. callbacks[f] \in Sockets /\ file[callbacks[f]] = f
  BY DEF TypeInv, TypeOK, ConnectionTypeOK, NameInv
<1>2. f # None
  BY NumberFacts
<1>3. callbacks[f] \in 1..opened
  BY <1>1, NumberFacts DEF TypeInv
<1>4. QED
  BY <1>1, <1>3, NumberFacts

LEMMA NextKnows ==
  ASSUME TypeInv, NameInv, [Next]_vars
  PROVE  \A t \in Threads : Knows(t)'
<1> DEFINE Claim == \A t \in Threads : Knows(t)'
<1>1. /\ \A t \in Threads : Knows(t)
      /\ \A c \in Clients : sock[c] # None => sock[c] \in 1..opened /\ owner[sock[c]] = c
  <2>1. sock \in [Clients -> Sockets \cup {None}] /\ None \notin Clients /\
          \A s \in Sockets : s > opened \/ s \in 1..opened
    BY NumberFacts DEF TypeInv, TypeOK, ConnectionTypeOK
  <2>2. \A s \in Sockets : s > opened => owner[s] = None
    BY DEF TypeInv
  <2>3. QED
    BY <2>1, <2>2 DEF NameInv
<1>2. Threads = Callers \cup Others /\ Monitor \in Others /\ Loops \subseteq Threads
  BY ConnectionAssumption DEF Threads, Others
<1>3. /\ \A u \in Callers : pc[u] \in CallerPc \cup ConnectPc
      /\ \A l \in Loops : pc[l] \in LoopPc \cup ClosePc \cup ConnectPc \cup ListenerPc
      /\ pc[Monitor] \in MonitorPc \cup ClosePc \cup ConnectPc \cup ListenerPc
  BY DEF TypeInv, TypeOK
<1>4. ASSUME NEW t \in Threads, Frame(t), UNCHANGED <<opened, owner>>, Knows(t)' PROVE Claim
  BY <1>1, <1>4 DEF Frame, Knows, Made
<1>5. \A t \in Threads : pc[t] \in Busy => self[t] \in 1..opened /\ self[t] \in Clients
  BY <1>1, NumberFacts DEF Knows, Made
<1> USE DEF Goes
<1>6. ASSUME NEW u \in Callers, Alone(u) PROVE Claim
  <2>1. Frame(u) /\ UNCHANGED <<opened, owner>>
    BY <1>6 DEF Alone, Shared, socketVars
  <2>2. Knows(u)'
    BY <1>1, <1>2, <2>1, <1>6 DEF Alone, Made, Knows, Busy, HasMine, Connecting, ClosePc, ConnectPc,
       ListenerPc
  <2>3. QED
    BY <1>2, <1>4, <2>1, <2>2
<1>7. ASSUME NEW u \in Callers, Listens(u) PROVE Claim
  <2>1. Frame(u) /\ UNCHANGED <<opened, owner>>
    BY <1>7 DEF Listens, socketVars
  <2>2. Knows(u)'
    BY <1>1, <1>2, <2>1, <1>7 DEF Listens, Made, Knows, Busy, HasMine, Connecting, ConnectPc
  <2>3. QED
    BY <1>2, <1>4, <2>1, <2>2
<1>8. ASSUME NEW u \in Callers, Saves(u) PROVE Claim
  <2>1. Frame(u) /\ UNCHANGED <<opened, owner>>
    BY <1>8 DEF Saves, socketVars
  <2>2. Knows(u)'
    BY <1>8 DEF Saves, Knows, Busy, HasMine, Connecting, ClosePc, ConnectPc, ListenerPc
  <2>3. QED
    BY <1>2, <1>4, <2>1, <2>2
<1>9. ASSUME NEW t \in Others, Aside(t) PROVE Claim
  <2>1. Frame(t) /\ UNCHANGED <<opened, owner>>
    BY <1>9 DEF Aside, Shared, socketVars
  <2>2. Knows(t)'
    BY <1>1, <1>2, <1>3, <1>5, <2>1, <1>9
       DEF Aside, Return, Connected, Made, Knows, Busy, HasMine, Connecting, ClosePc, ConnectPc, ListenerPc
  <2>3. QED
    BY <1>2, <1>4, <2>1, <2>2
<1>10. ASSUME NEW t \in Others, Takes(t) PROVE Claim
  <2>1. Frame(t) /\ UNCHANGED <<opened, owner>>
    BY <1>10 DEF Takes, socketVars
  <2>2. Knows(t)'
    BY <1>1, <1>2, <2>1, <1>10 DEF Takes, Made, Knows, Busy, HasMine, ClosePc
  <2>3. QED
    BY <1>2, <1>4, <2>1, <2>2
<1>11. ASSUME NEW t \in Others, Drops(t) PROVE Claim
  <2>1. Frame(t) /\ UNCHANGED <<opened, owner>>
    BY <1>11 DEF Drops
  <2>2. Knows(t)'
    BY <1>1, <1>2, <1>11 DEF Drops, Return, Raise, Made, Knows, Busy, HasMine, Connecting, ClosePc
  <2>3. QED
    BY <1>2, <1>4, <2>1, <2>2
<1>12. ASSUME NEW t \in Others, Tells(t) PROVE Claim
  <2>1. Frame(t) /\ UNCHANGED <<opened, owner>>
    BY <1>12 DEF Tells, socketVars
  <2>2. Knows(t)'
    BY <1>1, <1>2, <2>1, <1>12 DEF Tells, Return, Raise, Made, Knows, Busy, HasMine, Connecting, ClosePc
  <2>3. QED
    BY <1>2, <1>4, <2>1, <2>2
<1>13. ASSUME NEW t \in Others, Forgets(t) PROVE Claim
  <2>1. Frame(t) /\ UNCHANGED <<opened, owner>>
    BY <1>13 DEF Forgets, socketVars
  <2>2. Knows(t)'
    BY <1>1, <1>2, <2>1, <1>13 DEF Forgets, Connected, Made, Knows, Busy, HasMine, Connecting, ClosePc,
       ListenerPc
  <2>3. QED
    BY <1>2, <1>4, <2>1, <2>2
<1>14. ASSUME NEW t \in Threads, NEW c \in Clients, Connects(t, c) PROVE Claim
  <2>1. /\ opened' = opened + 1 /\ owner'[opened + 1] = c /\ pc'[t] = "assign"
        /\ self'[t] = c /\ mine'[t] = opened + 1 /\ Frame(t)
        /\ \A s \in 1..opened : owner'[s] = owner[s] /\ s \in 1..opened'
        /\ opened + 1 \in 1..opened' /\ None \notin 1..opened'
    BY NumberFacts, <1>14 DEF Connects
  <2>2. c \in Made' /\ Made \subseteq Made'
    BY <1>1, <2>1, <1>14 DEF Connects, Made, Knows, Busy, ListenerPc
  <2>3. Knows(t)'
    BY <2>1, <2>2 DEF Made, Knows, HasMine, Connecting
  <2>4. QED
    BY <1>1, <2>1, <2>2, <2>3 DEF Frame, Knows
<1>15. ASSUME NEW t \in Threads, Assigns(t) PROVE Claim
  <2>1. Frame(t) /\ UNCHANGED <<opened, owner>>
    BY <1>15 DEF Assigns, socketVars
  <2>2. Knows(t)'
    BY <1>1, <2>1, <1>15 DEF Assigns, Made, Knows, Busy, HasMine, Connecting, ConnectPc
  <2>3. QED
    BY <1>4, <2>1, <2>2
<1>16. ASSUME NEW t \in Threads, Registers(t) PROVE Claim
  <2>1. Frame(t) /\ UNCHANGED <<opened, owner>>
    BY <1>16 DEF Registers, socketVars
  <2>2. Knows(t)'
    BY <1>1, <2>1, <1>16 DEF Registers, Made, Knows, Busy, HasMine, Connecting, ConnectPc
  <2>3. QED
    BY <1>4, <2>1, <2>2
<1>17. ASSUME NEW t \in Threads, Stores(t) PROVE Claim
  <2>1. Frame(t) /\ UNCHANGED <<opened, owner>>
    BY <1>17 DEF Stores, socketVars
  <2>2. Knows(t)'
    BY <1>1, <2>1, <1>17 DEF Stores, Made, Knows, Busy, HasMine, Connecting, ConnectPc
  <2>3. QED
    BY <1>4, <2>1, <2>2
<1>18. ASSUME NEW t \in Threads, Subscribes(t) PROVE Claim
  <2>1. PICK l \in Loops \ {t} :
          /\ pc[l] = "unborn"
          /\ pc' = [u \in Threads |-> IF u = t THEN IF t \in Callers THEN "save" ELSE "told"
                                      ELSE IF u = l THEN "read" ELSE pc[u]]
          /\ self' = [u \in Threads |-> IF u = l THEN self[t] ELSE self[u]]
    BY <1>18 DEF Subscribes
  <2>2. pc[t] = "subscribing" /\ mine' = mine /\ UNCHANGED <<opened, owner>>
    BY <1>18 DEF Subscribes, Shared, socketVars
  <2>3. Knows(t)'
    BY <1>1, <2>1, <2>2 DEF Made, Knows, Busy, HasMine, Connecting, ListenerPc
  <2>4. Knows(l)' /\ l \in Threads
    BY <1>1, <1>2, <2>1, <2>2 DEF Made, Knows, Busy, HasMine, Connecting, ListenerPc
  <2>5. QED
    BY <1>1, <2>1, <2>2, <2>3, <2>4 DEF Knows, Made
<1>19. CASE Polls
  BY <1>1, <1>19 DEF Polls, Knows, Made, threadVars, socketVars
<1>20. ASSUME NEW f \in Files, Dispatches(f) PROVE Claim
  <2>1. Frame(Monitor) /\ UNCHANGED <<opened, owner>>
    BY <1>20 DEF Dispatches, socketVars
  <2>2. callbacks[f] # None => owner[callbacks[f]] \in Made /\ owner[callbacks[f]] # None
    BY CallbackFacts, NumberFacts DEF Made
  <2>3. Knows(Monitor)'
    BY <1>1, <1>2, <2>1, <2>2, <1>20
       DEF Dispatches, Made, Knows, Busy, HasMine, Connecting, ClosePc, ConnectPc, ListenerPc
  <2>4. QED
    BY <1>2, <1>4, <2>1, <2>3
<1>21. CASE Forbids
  <2>1. Frame(Monitor) /\ UNCHANGED <<opened, owner>>
    BY <1>21 DEF Forbids, socketVars
  <2>2. Knows(Monitor)'
    BY <1>1, <1>2, <2>1, <1>21 DEF Forbids, Made, Knows, Busy, HasMine, Connecting
  <2>3. QED
    BY <1>2, <1>4, <2>1, <2>2
<1>22. CASE Unregisters
  <2>1. Frame(Monitor) /\ UNCHANGED <<opened, owner>>
    BY <1>22 DEF Unregisters, socketVars
  <2>2. Knows(Monitor)'
    BY <1>1, <1>2, <1>22 DEF Unregisters, Knows, Busy, HasMine, Connecting, ClosePc, ConnectPc, ListenerPc
  <2>3. QED
    BY <1>2, <1>4, <2>1, <2>2
<1>23. CASE Loses
  BY <1>1, <1>23 DEF Loses, Knows, Made, threadVars
<1>24. CASE UNCHANGED <<Shared, threadVars>>
  BY <1>1, <1>24 DEF Knows, Made, threadVars, Shared, socketVars
<1>25. QED
  BY <1>6, <1>7, <1>8, <1>9, <1>10, <1>11, <1>12, <1>13, <1>14, <1>15, <1>16, <1>17, <1>18, <1>19, <1>20,
     <1>21, <1>22, <1>23, <1>24, StepIsOneOf DEF CallerSteps, OtherSteps, ThreadSteps, MonitorSteps

Names ==
  /\ \A c \in Clients : sock[c] # None => owner[sock[c]] = c
  /\ \A f \in Files : callbacks[f] # None => file[callbacks[f]] = f
  /\ cached \in Made \cup {None}

LEMMA NextNames ==
  ASSUME TypeInv, NameInv, [Next]_vars
  PROVE  Names'
<1> DEFINE Claim == Names'
<1>1. Names
  BY DEF Names, NameInv
<1>2. \A c \in Clients : sock[c] # None => sock[c] \in 1..opened
  <2>1. sock \in [Clients -> Sockets \cup {None}] /\ \A s \in Sockets : s > opened => owner[s] = None
    BY DEF TypeInv, TypeOK, ConnectionTypeOK
  <2>2. QED
    BY <1>1, <2>1, NumberFacts DEF Names
<1>3. \A t \in Threads : self[t] \in Made \cup {None} /\ (mine[t] # None <=> pc[t] \in HasMine) /\
        (mine[t] # None => owner[mine[t]] = self[t])
  BY DEF NameInv, Knows
<1>4. \A f \in Files : callbacks[f] # None => callbacks[f] \in 1..opened
  BY CallbackFacts
<1>5. \A u \in Callers : u \in Threads /\ (pc[u] = "save" => self[u] # None)
  BY DEF NameInv, Knows, Threads, Busy
<1> USE DEF Names
<1>6. ASSUME NEW u \in Callers, Alone(u) PROVE Claim
  BY <1>1, <1>6 DEF Made, Shared, clientVars, socketVars, monitorVars, Alone
<1>7. ASSUME NEW u \in Callers, Listens(u) PROVE Claim
  BY <1>1, <1>7 DEF Made, socketVars, monitorVars, Listens
<1>8. ASSUME NEW u \in Callers, Saves(u) PROVE Claim
  <2>1. UNCHANGED <<opened, owner, file, sock, callbacks>>
    BY <1>8 DEF Saves, socketVars, clientVars, monitorVars
  <2>2. self[u] \in Made
    BY <1>3, <1>5, <1>8 DEF Saves
  <2>3. QED
    BY <1>1, <2>1, <2>2, <1>8 DEF Saves, Made
<1>9. ASSUME NEW t \in Others, Aside(t) PROVE Claim
  BY <1>1, <1>9 DEF Made, Shared, clientVars, socketVars, monitorVars, Aside
<1>10. ASSUME NEW t \in Others, Takes(t) PROVE Claim
  <2>1. UNCHANGED <<opened, owner, file, cached>> /\ callbacks' = callbacks
    BY <1>10 DEF Takes, socketVars, monitorVars
  <2>2. QED
    BY <1>1, <2>1, <1>10 DEF Takes, Made
<1>11. ASSUME NEW t \in Others, Drops(t) PROVE Claim
  <2>1. UNCHANGED <<opened, owner, file, cached>> /\ sock' = sock
    BY <1>11 DEF Drops, clientVars
  <2>2. QED
    BY <1>1, <2>1, <1>11 DEF Drops, Made
<1>12. ASSUME NEW t \in Others, Tells(t) PROVE Claim
  BY <1>1, <1>12 DEF Made, socketVars, monitorVars, Tells
<1>13. ASSUME NEW t \in Others, Forgets(t) PROVE Claim
  BY <1>1, <1>13 DEF Made, Forgets, clientVars, socketVars, monitorVars
<1>14. ASSUME NEW t \in Threads, NEW c \in Clients, Connects(t, c) PROVE Claim
  <2>1. /\ opened' = opened + 1 /\ owner'[opened + 1] = c /\ UNCHANGED <<sock, callbacks, cached>>
        /\ \A s \in 1..opened : owner'[s] = owner[s] /\ file'[s] = file[s] /\ s \in 1..opened'
    BY NumberFacts, <1>14 DEF Connects, monitorVars
  <2>2. Made \subseteq Made'
    BY <2>1 DEF Made
  <2>3. QED
    BY <1>1, <1>2, <2>1, <2>2, CallbackFacts
<1>15. ASSUME NEW t \in Threads, Assigns(t) PROVE Claim
  <2>1. UNCHANGED <<opened, owner, file, callbacks, cached>>
    BY <1>15 DEF Assigns, socketVars, monitorVars
  <2>2. owner[mine[t]] = self[t]
    BY <1>3, <1>15 DEF Assigns, Goes, HasMine, Connecting
  <2>3. QED
    BY <1>1, <2>1, <2>2, <1>15 DEF Assigns, Made
<1>16. ASSUME NEW t \in Threads, Registers(t) PROVE Claim
  BY <1>1, <1>16 DEF Made, clientVars, socketVars, Registers
<1>17. ASSUME NEW t \in Threads, Stores(t) PROVE Claim
  <2>1. UNCHANGED <<opened, owner, file, sock, cached>>
    BY <1>17 DEF Stores, socketVars, clientVars
  <2>2. QED
    BY <1>1, <2>1, <1>17 DEF Stores, Made
<1>18. ASSUME NEW t \in Threads, Subscribes(t) PROVE Claim
  BY <1>1, <1>18 DEF Made, Shared, clientVars, socketVars, monitorVars, Subscribes
<1>19. CASE Polls
  BY <1>1, <1>19 DEF Made, clientVars, socketVars, Polls
<1>20. ASSUME NEW f \in Files, Dispatches(f) PROVE Claim
  BY <1>1, <1>20 DEF Made, clientVars, socketVars, Dispatches
<1>21. CASE Forbids
  BY <1>1, <1>21 DEF Made, socketVars, monitorVars, Forbids
<1>22. CASE Unregisters
  <2>1. UNCHANGED <<opened, owner, file, cached>> /\ sock' = sock
    BY <1>22 DEF Unregisters, socketVars, clientVars
  <2>2. QED
    BY <1>1, <2>1, <1>22 DEF Unregisters, Made
<1>23. CASE Loses
  BY <1>1, <1>23 DEF Made, clientVars, monitorVars, Loses
<1>24. CASE UNCHANGED <<Shared, threadVars>>
  BY <1>1, <1>24 DEF Made, Shared, clientVars, socketVars, monitorVars
<1>25. QED
  BY <1>6, <1>7, <1>8, <1>9, <1>10, <1>11, <1>12, <1>13, <1>14, <1>15, <1>16, <1>17, <1>18, <1>19, <1>20,
     <1>21, <1>22, <1>23, <1>24, StepIsOneOf DEF CallerSteps, OtherSteps, ThreadSteps, MonitorSteps

-----------------------------------------------------------------------------
(* The types and the names, from the first state on.                       *)

LEMMA InitBase == Init => TypeInv /\ NameInv
<1> SUFFICES ASSUME Init PROVE TypeInv /\ NameInv
  OBVIOUS
<1>1. PICK s \in Setups : kind = s.kind /\ limit = s.limit /\ ConnectionInit(s.callers)
  BY DEF Init
<1>2. s.kind \in Kinds /\ s.limit \in 0..MaxSockets /\ MaxSockets \in Nat
  BY ConnectionAssumption, SessionAssumption
<1>3. pc \in [Threads -> {"poll", "unborn", "idle", "absent"}] /\ pc[Monitor] = "poll"
  BY <1>1 DEF ConnectionInit, Threads
<1>4. \A l \in Loops : pc[l] = "unborn"
  BY <1>1, ConnectionAssumption DEF ConnectionInit, Threads
<1>5. \A u \in Callers : pc[u] \in {"idle", "absent"}
  BY <1>1, ConnectionAssumption DEF ConnectionInit, Threads
<1>6. ConnectionTypeOK
  BY <1>1, <1>2 DEF ConnectionInit, ConnectionTypeOK
<1>7. TypeOK
  <2>1. /\ \A u \in Callers : pc[u] \in CallerPc \cup ConnectPc
        /\ \A l \in Loops : pc[l] \in LoopPc \cup ClosePc \cup ConnectPc \cup ListenerPc
        /\ pc[Monitor] \in MonitorPc \cup ClosePc \cup ConnectPc \cup ListenerPc
    BY <1>3, <1>4, <1>5 DEF CallerPc, LoopPc, MonitorPc
  <2>2. /\ kind \in Kinds /\ limit \in 0..MaxSockets /\ cached = None /\ holder = None
        /\ attempt \in [Callers -> 1..2] /\ timedOut = FALSE /\ early = {}
    BY <1>1, <1>2 DEF Init
  <2>3. QED
    BY <1>6, <2>1, <2>2 DEF TypeOK
<1>8. TypeInv
  BY <1>1, <1>2, <1>7 DEF ConnectionInit, TypeInv, AllPc, CallerPc, LoopPc, MonitorPc, Clients
<1>9. NameInv
  BY <1>1, <1>3 DEF Init, ConnectionInit, NameInv, Knows, Busy, HasMine, Connecting, ClosePc, ConnectPc,
     ListenerPc,
                    None, Clients, Sockets
<1>10. QED
  BY <1>8, <1>9

LockTypes ==
  /\ holder \in Callers \cup {None}
  /\ attempt \in [Callers -> 1..2]
  /\ timedOut \in BOOLEAN
LEMMA NextLockTypes ==
  ASSUME LockTypes, [Next]_vars
  PROVE  LockTypes'
<1> USE DEF LockTypes
<1>1. ASSUME UNCHANGED <<holder, attempt, timedOut>> PROVE LockTypes'
  BY <1>1
<1>2. UNCHANGED deviceVars => UNCHANGED <<holder, attempt, timedOut>>
  BY DEF deviceVars
<1>3. ASSUME NEW u \in Callers, Exit(u) \/ Fails(u), timedOut' = timedOut PROVE LockTypes'
  BY <1>3 DEF Exit, Fails
<1>4. ASSUME NEW t \in Threads, Subscribe(t) PROVE LockTypes'
  BY <1>2, <1>4 DEF Subscribe
<1>5. ASSUME NEW t \in Threads, SubscribeFails(t) PROVE LockTypes'
  BY <1>3, <1>5 DEF SubscribeFails
<1>6. ASSUME NEW u \in Callers, Getter(u) PROVE LockTypes'
  <2>1. CASE Enter(u)
    BY <2>1 DEF Enter
  <2>2. CASE Build(u) \/ Constructed(u) \/ AddCloseListener(u)
    BY <1>2, <2>2 DEF Build, Constructed, AddCloseListener
  <2>3. CASE BuildFails(u) \/ FirstCall(u) \/ Save(u)
    BY <1>3, <2>3 DEF BuildFails, FirstCall, Save
  <2>4. QED
    BY <1>6, <2>1, <2>2, <2>3 DEF Getter
<1>7. ASSUME NEW t \in Threads, Closer(t) PROVE LockTypes'
  BY <1>2, <1>7 DEF Closer, Listener, Reconnect, ReconnectFails, Reconnected, Delete
<1>8. ASSUME NEW t \in Threads, Step(t) PROVE LockTypes'
  BY <1>2, <1>4, <1>5, <1>6, <1>7, <1>8 DEF Step
<1>9. CASE UNCHANGED vars
  BY <1>9 DEF vars, deviceVars
<1>10. QED
  BY <1>2, <1>8, <1>9 DEF Next, Miss

LEMMA NextKind ==
  ASSUME TypeInv, NameInv, [Next]_vars
  PROVE  kind' = kind /\ limit' = limit
<1>1. ASSUME NEW u \in Callers, CallerSteps(u) PROVE kind' = kind /\ limit' = limit
  BY <1>1 DEF CallerSteps, Alone, Listens, Saves, Shared
<1>2. ASSUME NEW t \in Others, OtherSteps(t) PROVE kind' = kind /\ limit' = limit
  BY <1>2 DEF OtherSteps, Aside, Takes, Drops, Tells, Forgets, Shared
<1>3. ASSUME NEW t \in Threads, ThreadSteps(t) PROVE kind' = kind /\ limit' = limit
  BY <1>3 DEF ThreadSteps, Connects, Assigns, Registers, Stores, Subscribes, Shared
<1>4. CASE MonitorSteps \/ Loses
  BY <1>4 DEF MonitorSteps, Polls, Dispatches, Forbids, Unregisters, Loses
<1>5. CASE UNCHANGED <<Shared, threadVars>>
  BY <1>5 DEF Shared
<1>6. QED
  BY <1>1, <1>2, <1>3, <1>4, <1>5, StepIsOneOf

Base == TypeInv /\ NameInv
LEMMA NextBase ==
  ASSUME Base, [Next]_vars
  PROVE  Base'
<1>1. /\ TypeInv /\ NameInv
  BY DEF Base
<1>2. NameInv'
  BY <1>1, NextKnows, NextNames DEF NameInv, Names
<1>3. pc' \in [Threads -> AllPc] /\ \A t \in Threads : pc'[t] \in Place(t)
  BY <1>1, NextPlaces
<1>4. Ranges' /\ Numbered'
  BY <1>1, NextTypes
<1>5. LockTypes'
  BY <1>1, NextLockTypes DEF LockTypes, TypeInv, TypeOK
<1>6. kind' = kind /\ limit' = limit
  BY <1>1, NextKind
<1>7. limit \in 0..MaxSockets /\ MaxSockets \in Nat /\ kind \in Kinds
  BY <1>1, ConnectionAssumption DEF TypeInv, TypeOK
<1>8. opened' \in 0..MaxSockets /\ opened' <= limit'
  BY <1>4, <1>6, <1>7 DEF Numbered
<1>9. ConnectionTypeOK'
  <2>1. open' \subseteq Sockets /\ watched' \subseteq Sockets
    BY <1>4, <1>7, <1>8 DEF Numbered, Sockets
  <2>2. QED
    BY <1>4, <1>8, <2>1 DEF ConnectionTypeOK, Ranges, ListenerKinds
<1>10. TypeOK'
  <2>1. /\ \A u \in Callers : pc'[u] \in CallerPc \cup ConnectPc
        /\ \A l \in Loops : pc'[l] \in LoopPc \cup ClosePc \cup ConnectPc \cup ListenerPc
        /\ pc'[Monitor] \in MonitorPc \cup ClosePc \cup ConnectPc \cup ListenerPc
    BY <1>3, ConnectionAssumption DEF Place, Threads
  <2>2. QED
    BY <1>4, <1>5, <1>6, <1>7, <1>9, <2>1 DEF TypeOK, Ranges, LockTypes
<1>11. TypeInv'
  BY <1>3, <1>4, <1>10 DEF TypeInv, Numbered
<1>12. QED
  BY <1>2, <1>11 DEF Base

LEMMA ThreadFacts ==
  /\ Threads = Callers \cup Others /\ Callers \cap Others = {}
  /\ Callers \subseteq Threads /\ Others \subseteq Threads
  /\ Others = Loops \cup {Monitor} /\ Monitor \notin Loops
  BY ConnectionAssumption DEF Threads, Others

LEMMA BaseFacts ==
  ASSUME Base
  PROVE  /\ sock \in [Clients -> Sockets \cup {None}]
         /\ listeners \in [Clients -> ListenerKinds]
         /\ callbacks \in [Files -> Sockets \cup {None}]
         /\ open \subseteq 1..opened /\ watched \subseteq open \cup 1..opened
         /\ \A t \in Threads : Knows(t) /\ self[t] \in 1..opened \cup {None} /\ mine[t] \in 1..opened \cup {None}
         /\ \A u \in Callers : pc[u] \in CallerPc \cup ConnectPc
         /\ \A l \in Loops : pc[l] \in LoopPc \cup ClosePc \cup ConnectPc \cup ListenerPc
         /\ pc[Monitor] \in MonitorPc \cup ClosePc \cup ConnectPc \cup ListenerPc
         /\ \A c \in Clients : sock[c] # None => sock[c] \in 1..opened /\ owner[sock[c]] = c
         /\ cached \in 1..opened \cup {None}
<1>1. TypeInv /\ NameInv
  BY DEF Base
<1>2. /\ sock \in [Clients -> Sockets \cup {None}]
      /\ listeners \in [Clients -> ListenerKinds]
      /\ callbacks \in [Files -> Sockets \cup {None}]
      /\ open \subseteq 1..opened /\ watched \subseteq open \cup 1..opened
  BY <1>1 DEF TypeInv, TypeOK, ConnectionTypeOK, ListenerKinds
<1>3. \A t \in Threads : Knows(t) /\ self[t] \in 1..opened \cup {None} /\ mine[t] \in 1..opened \cup {None}
  BY <1>1 DEF NameInv, Knows, Made
<1>4. /\ \A u \in Callers : pc[u] \in CallerPc \cup ConnectPc
      /\ \A l \in Loops : pc[l] \in LoopPc \cup ClosePc \cup ConnectPc \cup ListenerPc
      /\ pc[Monitor] \in MonitorPc \cup ClosePc \cup ConnectPc \cup ListenerPc
  BY <1>1 DEF TypeInv, TypeOK
<1>5. ASSUME NEW c \in Clients, sock[c] # None PROVE sock[c] \in 1..opened /\ owner[sock[c]] = c
  <2>1. owner[sock[c]] = c /\ sock[c] \in Sockets /\ c # None
    BY <1>1, <1>2, <1>5, NumberFacts DEF NameInv
  <2>2. \A s \in Sockets : s > opened => owner[s] = None
    BY <1>1 DEF TypeInv
  <2>3. QED
    BY <1>1, <2>1, <2>2, NumberFacts
<1>6. cached \in 1..opened \cup {None}
  BY <1>1 DEF NameInv, Made
<1>7. QED
  BY <1>2, <1>3, <1>4, <1>5, <1>6

\* Every variable keeps its type.
THEOREM SessionTypes == Spec => []TypeOK
<1>1. Init => Base
  BY InitBase DEF Base
<1>2. Base /\ [Next]_vars => Base'
  BY NextBase
<1>3. Base => TypeOK
  BY DEF Base, TypeInv
<1>4. QED
  BY <1>1, <1>2, <1>3, PTL DEF Spec

-----------------------------------------------------------------------------
(* Clients in the making.                                                  *)

CachedMade == cached # None => listeners[cached] # "missing"
Apart == \A u \in Callers : pc[u] \in Making =>
  /\ self[u] # cached
  /\ pc[u] \in ConnectPc <=> listeners[self[u]] = "missing"
  /\ \A v \in Callers \ {u} : ~Makes(v, self[u])

LEMMA NextCachedMade ==
  ASSUME Base, CachedMade, Apart, [Next]_vars
  PROVE  CachedMade'
<1> DEFINE Claim == CachedMade'
<1>1. CachedMade /\ Apart
  OBVIOUS
<1>2. cached # None => cached \in Clients
  BY BaseFacts, NumberFacts DEF Base
<1> USE DEF CachedMade, Apart, Alone, Aside
<1>3. ASSUME NEW u \in Callers, Alone(u) PROVE Claim
  BY <1>3 DEF Alone, Shared, clientVars
<1>4. ASSUME NEW u \in Callers, Listens(u) PROVE Claim
  BY <1>2, <1>4 DEF Listens
<1>5. ASSUME NEW u \in Callers, Saves(u) PROVE Claim
  BY <1>5 DEF Saves, clientVars, Computing, Making, ConnectPc
<1>6. ASSUME NEW t \in Others, Aside(t) PROVE Claim
  BY <1>6 DEF Aside, Shared, clientVars
<1>7. ASSUME NEW t \in Others, Takes(t) PROVE Claim
  BY <1>7 DEF Takes
<1>8. ASSUME NEW t \in Others, Drops(t) PROVE Claim
  BY <1>8 DEF Drops, clientVars
<1>9. ASSUME NEW t \in Others, Tells(t) PROVE Claim
  BY <1>2, <1>9 DEF Tells
<1>10. ASSUME NEW t \in Others, Forgets(t) PROVE Claim
  BY <1>10 DEF Forgets, clientVars
<1>11. ASSUME NEW t \in Threads, NEW c \in Clients, Connects(t, c) PROVE Claim
  BY <1>11 DEF Connects
<1>12. ASSUME NEW t \in Threads, Assigns(t) PROVE Claim
  BY <1>12 DEF Assigns
<1>13. ASSUME NEW t \in Threads, Registers(t) PROVE Claim
  BY <1>13 DEF Registers, clientVars
<1>14. ASSUME NEW t \in Threads, Stores(t) PROVE Claim
  BY <1>14 DEF Stores, clientVars
<1>15. ASSUME NEW t \in Threads, Subscribes(t) PROVE Claim
  BY <1>15 DEF Subscribes, Shared, clientVars
<1>16. CASE Polls
  BY <1>16 DEF Polls, clientVars
<1>17. ASSUME NEW f \in Files, Dispatches(f) PROVE Claim
  BY <1>17 DEF Dispatches, clientVars
<1>18. CASE Forbids
  BY <1>18 DEF Forbids
<1>19. CASE Unregisters
  BY <1>19 DEF Unregisters, clientVars
<1>20. CASE Loses
  BY <1>20 DEF Loses, clientVars
<1>21. CASE UNCHANGED <<Shared, threadVars>>
  BY <1>21 DEF Shared, clientVars
<1>22. QED
  BY <1>3, <1>4, <1>5, <1>6, <1>7, <1>8, <1>9, <1>10, <1>11, <1>12, <1>13, <1>14, <1>15, <1>16, <1>17,
     <1>18, <1>19, <1>20, <1>21, StepIsOneOf DEF Base, CallerSteps, OtherSteps, ThreadSteps, MonitorSteps

LEMMA NextApart ==
  ASSUME Base, CachedMade, Apart, [Next]_vars
  PROVE  Apart'
<1> DEFINE Claim == Apart'
<1>1. Apart
  OBVIOUS
<1>2. /\ Threads = Callers \cup Others /\ Callers \cap Others = {} /\ Monitor \in Others
      /\ \A u \in Callers : (pc[u] \in Making => self[u] # None /\ self[u] \in Clients /\ self[u] \in 1..opened)
  BY ThreadFacts, BaseFacts, NumberFacts DEF Base, Making, Computing, Knows, Busy, ConnectPc, ListenerPc
<1>3. \A s \in 1..opened : s <= opened
  BY NumberFacts DEF Base
<1> USE DEF Apart
<1>4. ASSUME NEW u \in Callers, Alone(u) PROVE Claim
  BY <1>2, <1>4 DEF Alone, Shared, clientVars, Frame, Computing, Making, Makes, ConnectPc
<1>5. ASSUME NEW u \in Callers, Listens(u) PROVE Claim
  BY <1>2, <1>5 DEF Listens, Goes, Frame, Computing, Making, Makes, ConnectPc
<1>6. ASSUME NEW u \in Callers, Saves(u) PROVE Claim
  BY <1>2, <1>6 DEF Saves, clientVars, Frame, Computing, Making, Makes
<1>7. ASSUME NEW t \in Others, Aside(t) PROVE Claim
  BY <1>2, <1>7 DEF Aside, Shared, clientVars, Goes, Frame, Makes
<1>8. ASSUME NEW t \in Others, Takes(t) PROVE Claim
  BY <1>2, <1>8 DEF Takes, Goes, Frame, Makes
<1>9. ASSUME NEW t \in Others, Drops(t) PROVE Claim
  BY <1>2, <1>9 DEF Drops, clientVars, Goes, Frame, Makes
<1>10. ASSUME NEW t \in Others, Tells(t) PROVE Claim
  BY <1>2, <1>10 DEF Tells, Goes, Frame, Makes
<1>11. ASSUME NEW t \in Others, Forgets(t) PROVE Claim
  BY <1>2, <1>11 DEF Forgets, clientVars, Goes, Frame, Makes
<1>12. ASSUME NEW t \in Threads, NEW c \in Clients, Connects(t, c) PROVE Claim
  <2>1. CASE t \in Callers
    <3>1. /\ c = opened + 1 /\ self'[t] = c /\ pc'[t] = "assign" /\ UNCHANGED <<listeners, cached>>
          /\ \A u \in Threads \ {t} : pc'[u] = pc[u] /\ self'[u] = self[u]
      BY <2>1, <1>12 DEF Connects, Frame
    <3>2. c \notin 1..opened /\ cached \in 1..opened \cup {None} /\ c # None /\ listeners[c] = "missing"
      BY BaseFacts, NumberFacts, <3>1 DEF Base, TypeInv, Connects
    <3>3. QED
      BY <1>2, <3>1, <3>2 DEF Makes, ConnectPc
  <2>2. CASE t \notin Callers
    BY <1>2, <2>2, <1>12 DEF Connects, Frame, Makes
  <2>3. QED
    BY <2>1, <2>2
<1>13. ASSUME NEW t \in Threads, Assigns(t) PROVE Claim
  BY <1>2, <1>13 DEF Assigns, Goes, Frame, Computing, Making, Makes, ConnectPc
<1>14. ASSUME NEW t \in Threads, Registers(t) PROVE Claim
  BY <1>2, <1>14 DEF Registers, clientVars, Goes, Frame, Computing, Making, Makes, ConnectPc
<1>15. ASSUME NEW t \in Threads, Stores(t) PROVE Claim
  BY <1>2, <1>15 DEF Stores, clientVars, Goes, Frame, Computing, Making, Makes, ConnectPc
<1>16. ASSUME NEW t \in Threads, Subscribes(t) PROVE Claim
  BY <1>2, <1>16 DEF Subscribes, Shared, clientVars, Computing, Making, Makes, ConnectPc
<1>17. CASE Polls
  BY <1>17 DEF Polls, clientVars, threadVars, Makes
<1>18. ASSUME NEW f \in Files, Dispatches(f) PROVE Claim
  BY <1>2, <1>18 DEF Dispatches, clientVars, Frame, Makes
<1>19. CASE Forbids
  BY <1>2, <1>19 DEF Forbids, Goes, Frame, Makes
<1>20. CASE Unregisters
  BY <1>2, <1>20 DEF Unregisters, clientVars, Frame, Makes
<1>21. CASE Loses
  BY <1>21 DEF Loses, clientVars, threadVars, Makes
<1>22. CASE UNCHANGED <<Shared, threadVars>>
  BY <1>22 DEF Shared, clientVars, threadVars, Makes
<1>23. QED
  BY <1>4, <1>5, <1>6, <1>7, <1>8, <1>9, <1>10, <1>11, <1>12, <1>13, <1>14, <1>15, <1>16, <1>17, <1>18,
     <1>19, <1>20, <1>21, <1>22, StepIsOneOf DEF Base, CallerSteps, OtherSteps, ThreadSteps, MonitorSteps

\* A client that is being connected is known to its thread only.
Unknown == \A u \in Callers : pc[u] \in Connecting =>
  /\ ~Again(self[u])
  /\ \A t \in Others : self[t] # self[u]
  /\ \A f \in Files : callbacks[f] # None => owner[callbacks[f]] # self[u]

LEMMA NextUnknown ==
  ASSUME Base, Apart, Unknown, [Next]_vars
  PROVE  Unknown'
<1> DEFINE Claim == Unknown'
<1>1. Apart /\ Unknown
  OBVIOUS
<1>2. /\ Threads = Callers \cup Others /\ Callers \cap Others = {} /\ Monitor \in Others /\ Loops \subseteq Others
      /\ \A u \in Callers : (pc[u] \in Making => self[u] # None /\ self[u] \in Clients /\ self[u] \in 1..opened)
  BY ThreadFacts, BaseFacts, NumberFacts DEF Base, Making, Computing, Knows, Busy, ConnectPc, ListenerPc
<1>3. \A t \in Threads : self[t] \in 1..opened \cup {None} /\
        (pc[t] \in Connecting => mine[t] \in 1..opened /\ owner[mine[t]] = self[t])
  BY BaseFacts DEF Knows, HasMine
<1>4. \A f \in Files : callbacks[f] # None => callbacks[f] \in 1..opened
  BY CallbackFacts DEF Base
<1> USE DEF Unknown
<1>5. ASSUME NEW u \in Callers, Alone(u) PROVE Claim
  BY <1>2, <1>5 DEF Alone, Shared, socketVars, monitorVars, Frame, Connecting, Again
<1>6. ASSUME NEW u \in Callers, Listens(u) PROVE Claim
  BY <1>2, <1>6 DEF Listens, socketVars, monitorVars, Goes, Frame, Connecting, Again
<1>7. ASSUME NEW u \in Callers, Saves(u) PROVE Claim
  BY <1>2, <1>7 DEF Saves, socketVars, monitorVars, Frame, Connecting, Again
<1>8. ASSUME NEW t \in Others, Aside(t) PROVE Claim
  BY <1>2, <1>8 DEF Aside, Shared, socketVars, monitorVars, Goes, Frame, Again
<1>9. ASSUME NEW t \in Others, Takes(t) PROVE Claim
  BY <1>2, <1>9 DEF Takes, socketVars, monitorVars, Goes, Frame, Again
<1>10. ASSUME NEW t \in Others, Drops(t) PROVE Claim
  BY <1>2, <1>10 DEF Drops, Goes, Frame, Again
<1>11. ASSUME NEW t \in Others, Tells(t) PROVE Claim
  BY <1>2, <1>11 DEF Tells, socketVars, monitorVars, Goes, Frame, Again
<1>12. ASSUME NEW t \in Others, Forgets(t) PROVE Claim
  BY <1>2, <1>12 DEF Forgets, socketVars, monitorVars, Goes, Frame, Again
<1>13. ASSUME NEW t \in Threads, NEW c \in Clients, Connects(t, c) PROVE Claim
  <2>1. /\ UNCHANGED callbacks /\ owner'[opened + 1] = c /\ pc'[t] = "assign" /\ self'[t] = c
        /\ \A s \in Sockets \ {opened + 1} : owner'[s] = owner[s]
        /\ \A u \in Threads \ {t} : pc'[u] = pc[u] /\ self'[u] = self[u]
        /\ IF t \in Callers THEN c = opened + 1 ELSE c = self[t]
    BY <1>13 DEF Connects, Frame, monitorVars
  <2>2. /\ opened + 1 \notin 1..opened /\ opened + 1 # None
        /\ \A s \in 1..opened : owner[s] \in 1..opened /\ s # opened + 1 /\ s \in Sockets
        /\ \A s \in Sockets : s \in 1..opened \/ owner[s] = None
    BY NumberFacts DEF Base, TypeInv
  <2>3. ASSUME NEW u \in Callers, pc'[u] \in Connecting
        PROVE  /\ ~Again(self[u])'
               /\ \A x \in Others : self'[x] # self'[u]
               /\ \A f \in Files : callbacks'[f] # None => owner'[callbacks'[f]] # self'[u]
    <3>1. CASE u = t
      <4>1. self'[u] = opened + 1
        BY <2>1, <3>1
      <4>2. ~Again(self[u])'
        BY <2>1, <2>2, <4>1 DEF Again
      <4>3. \A x \in Others : self'[x] # self'[u]
        BY <1>2, <1>3, <2>1, <2>2, <4>1
      <4>4. ASSUME NEW f \in Files, callbacks'[f] # None PROVE owner'[callbacks'[f]] # self'[u]
        BY <1>4, <2>1, <2>2, <4>1, <4>4
      <4>5. QED
        BY <4>2, <4>3, <4>4
    <3>2. CASE u # t
      <4>1. self'[u] = self[u] /\ pc[u] \in Connecting /\ self[u] \in 1..opened /\ u \in Threads
        BY <1>2, <2>1, <2>3, <3>2 DEF Connecting, Making, Computing
      <4>2. c # self[u]
        BY <1>2, <2>1, <2>2, <4>1
      <4>3. ~Again(self[u])'
        BY <2>1, <4>1, <4>2 DEF Again
      <4>4. \A x \in Others : self'[x] # self'[u]
        BY <1>2, <2>1, <4>1
      <4>5. ASSUME NEW f \in Files, callbacks'[f] # None PROVE owner'[callbacks'[f]] # self'[u]
        BY <1>4, <2>1, <2>2, <4>1, <4>5
      <4>6. QED
        BY <4>3, <4>4, <4>5
    <3>3. QED
      BY <3>1, <3>2
  <2>4. QED
    BY <2>3
<1>14. ASSUME NEW t \in Threads, Assigns(t) PROVE Claim
  BY <1>2, <1>14 DEF Assigns, socketVars, monitorVars, Goes, Frame, Connecting, Again
<1>15. ASSUME NEW t \in Threads, Registers(t) PROVE Claim
  BY <1>2, <1>15 DEF Registers, socketVars, Goes, Frame, Connecting, Again
<1>16. ASSUME NEW t \in Threads, Stores(t) PROVE Claim
  <2>1. /\ callbacks' = [f \in Files |-> IF f = file[mine[t]] THEN mine[t] ELSE callbacks[f]]
        /\ owner' = owner /\ pc'[t] = "connected" /\ pc[t] = "store"
        /\ \A u \in Threads : self'[u] = self[u]
        /\ \A u \in Threads \ {t} : pc'[u] = pc[u]
    BY <1>16 DEF Stores, Goes, Frame, socketVars
  <2>2. owner[mine[t]] = self[t]
    BY <1>3, <2>1 DEF Connecting
  <2>3. ASSUME NEW u \in Callers, pc'[u] \in Connecting PROVE u # t /\ pc[u] \in Connecting /\ self[t] # self[u]
    <3>1. u # t /\ pc[u] \in Connecting
      BY <1>2, <2>1, <2>3 DEF Connecting
    <3>2. QED
      BY <1>2, <2>1, <3>1 DEF Apart, Makes, Making, Computing, Connecting
  <2>4. QED
    BY <1>2, <2>1, <2>2, <2>3 DEF Again
<1>17. ASSUME NEW t \in Threads, Subscribes(t) PROVE Claim
  <2>1. PICK l \in Loops \ {t} :
          /\ pc' = [u \in Threads |-> IF u = t THEN IF t \in Callers THEN "save" ELSE "told"
                                      ELSE IF u = l THEN "read" ELSE pc[u]]
          /\ self' = [u \in Threads |-> IF u = l THEN self[t] ELSE self[u]]
    BY <1>17 DEF Subscribes
  <2>2. pc[t] = "subscribing" /\ UNCHANGED <<owner, callbacks>>
    BY <1>17 DEF Subscribes, Shared, socketVars, monitorVars
  <2>3. ASSUME NEW u \in Callers, pc'[u] \in Connecting
        PROVE  u # t /\ u # l /\ pc[u] \in Connecting /\ self[t] # self[u] /\ self'[u] = self[u]
    <3>1. u # t /\ u # l /\ pc[u] \in Connecting /\ self'[u] = self[u]
      BY <1>2, <2>1, <2>3 DEF Connecting
    <3>2. QED
      BY <1>2, <2>2, <3>1 DEF Apart, Makes, Making, Computing, Connecting
  <2>4. QED
    BY <1>2, <2>1, <2>2, <2>3 DEF Again
<1>18. CASE Polls
  BY <1>18 DEF Polls, socketVars, threadVars, Again
<1>19. ASSUME NEW f \in Files, Dispatches(f) PROVE Claim
  BY <1>2, <1>19 DEF Dispatches, socketVars, Frame, Again
<1>20. CASE Forbids
  BY <1>2, <1>20 DEF Forbids, socketVars, monitorVars, Goes, Frame, Again
<1>21. CASE Unregisters
  BY <1>2, <1>21 DEF Unregisters, socketVars, Frame, Computing, Making, Connecting, Again
<1>22. CASE Loses
  BY <1>22 DEF Loses, monitorVars, threadVars, Again
<1>23. CASE UNCHANGED <<Shared, threadVars>>
  BY <1>23 DEF Shared, socketVars, monitorVars, threadVars, Again
<1>24. QED
  BY <1>5, <1>6, <1>7, <1>8, <1>9, <1>10, <1>11, <1>12, <1>13, <1>14, <1>15, <1>16, <1>17, <1>18, <1>19,
     <1>20, <1>21, <1>22, <1>23, StepIsOneOf DEF Base, CallerSteps, OtherSteps, ThreadSteps, MonitorSteps

-----------------------------------------------------------------------------
(* Who closes a client, and what becomes of it.                            *)

NoMaker(c) == \A u \in Callers : ~Makes(u, c)
After == {"dropping", "listener", "told"} \cup ConnectPc \cup ListenerPc

LEMMA ExcusedLasts ==
  ASSUME Base, NEW c0 \in 1..opened, Excused(c0), [Next]_vars
  PROVE  Excused(c0)'
<1> DEFINE Claim == Excused(c0)'
<1>1. /\ Threads = Callers \cup Others /\ Callers \cap Others = {} /\ Monitor \in Others /\ Loops \subseteq Others
  BY ThreadFacts
<1>2. /\ None \notin 1..opened /\ opened + 1 \notin 1..opened /\ 1..opened \subseteq Sockets
      /\ \A s \in Sockets : owner[s] \in 1..opened => s \in 1..opened /\ s # opened + 1
  BY NumberFacts DEF Base, TypeInv
<1>3. Excused(c0) /\ c0 \in 1..opened
  OBVIOUS
<1> USE DEF Excused, Again
<1>4. ASSUME NEW u \in Callers, Alone(u) PROVE Claim
  BY <1>4 DEF Alone, Shared, socketVars
<1>5. ASSUME NEW u \in Callers, Listens(u) PROVE Claim
  BY <1>5 DEF Listens, socketVars
<1>6. ASSUME NEW u \in Callers, Saves(u) PROVE Claim
  BY <1>6 DEF Saves, socketVars
<1>7. ASSUME NEW t \in Others, Aside(t) PROVE Claim
  BY <1>7 DEF Aside, Shared, socketVars
<1>8. ASSUME NEW t \in Others, Takes(t) PROVE Claim
  BY <1>8 DEF Takes, socketVars
<1>9. ASSUME NEW t \in Others, Drops(t) PROVE Claim
  BY <1>9 DEF Drops
<1>10. ASSUME NEW t \in Others, Tells(t) PROVE Claim
  BY <1>10 DEF Tells, socketVars
<1>11. ASSUME NEW t \in Others, Forgets(t) PROVE Claim
  BY <1>11 DEF Forgets, socketVars
<1>12. ASSUME NEW t \in Threads, NEW c \in Clients, Connects(t, c) PROVE Claim
  BY <1>2, <1>12 DEF Connects
<1>13. ASSUME NEW t \in Threads, Assigns(t) PROVE Claim
  BY <1>13 DEF Assigns, socketVars
<1>14. ASSUME NEW t \in Threads, Registers(t) PROVE Claim
  BY <1>14 DEF Registers, socketVars
<1>15. ASSUME NEW t \in Threads, Stores(t) PROVE Claim
  BY <1>15 DEF Stores, socketVars
<1>16. ASSUME NEW t \in Threads, Subscribes(t) PROVE Claim
  BY <1>16 DEF Subscribes, Shared, socketVars
<1>17. CASE Polls
  BY <1>17 DEF Polls, socketVars
<1>18. ASSUME NEW f \in Files, Dispatches(f) PROVE Claim
  BY <1>18 DEF Dispatches, socketVars
<1>19. CASE Forbids
  BY <1>19 DEF Forbids, socketVars
<1>20. CASE Unregisters
  BY <1>20 DEF Unregisters, socketVars
<1>21. CASE Loses
  BY <1>21 DEF Loses
<1>22. CASE UNCHANGED <<Shared, threadVars>>
  BY <1>22 DEF Shared, socketVars
<1>23. QED
  BY <1>4, <1>5, <1>6, <1>7, <1>8, <1>9, <1>10, <1>11, <1>12, <1>13, <1>14, <1>15, <1>16, <1>17, <1>18,
     <1>19, <1>20, <1>21, <1>22, StepIsOneOf DEF Base, CallerSteps, OtherSteps, ThreadSteps, MonitorSteps

LEMMA NoMakerLasts ==
  ASSUME Base, NEW c0 \in 1..opened, NoMaker(c0), [Next]_vars
  PROVE  NoMaker(c0)'
<1> DEFINE Claim == NoMaker(c0)'
<1>1. /\ Threads = Callers \cup Others /\ Callers \cap Others = {} /\ Monitor \in Others /\ Loops \subseteq Others
  BY ThreadFacts
<1>2. /\ None \notin 1..opened /\ opened + 1 \notin 1..opened /\ 1..opened \subseteq Sockets
      /\ \A s \in Sockets : owner[s] \in 1..opened => s \in 1..opened /\ s # opened + 1
  BY NumberFacts DEF Base, TypeInv
<1>3. NoMaker(c0) /\ c0 \in 1..opened
  OBVIOUS
<1> USE DEF NoMaker, Makes, Alone, Aside, Connected
<1>4. ASSUME NEW u \in Callers, Alone(u) PROVE Claim
  BY <1>1, <1>4 DEF Alone, Frame, Computing, Making
<1>5. ASSUME NEW u \in Callers, Listens(u) PROVE Claim
  BY <1>1, <1>5 DEF Listens, Goes, Frame, Computing, Making
<1>6. ASSUME NEW u \in Callers, Saves(u) PROVE Claim
  BY <1>1, <1>6 DEF Saves, Frame, Computing, Making
<1>7. ASSUME NEW t \in Others, Aside(t) PROVE Claim
  BY <1>1, <1>7 DEF Aside, Goes, Frame
<1>8. ASSUME NEW t \in Others, Takes(t) PROVE Claim
  BY <1>1, <1>8 DEF Takes, Goes, Frame
<1>9. ASSUME NEW t \in Others, Drops(t) PROVE Claim
  BY <1>1, <1>9 DEF Drops, Goes, Frame
<1>10. ASSUME NEW t \in Others, Tells(t) PROVE Claim
  BY <1>1, <1>10 DEF Tells, Goes, Frame
<1>11. ASSUME NEW t \in Others, Forgets(t) PROVE Claim
  BY <1>1, <1>11 DEF Forgets, Goes, Frame
<1>12. ASSUME NEW t \in Threads, NEW c \in Clients, Connects(t, c) PROVE Claim
  BY <1>1, <1>2, <1>12 DEF Connects, Frame
<1>13. ASSUME NEW t \in Threads, Assigns(t) PROVE Claim
  BY <1>1, <1>13 DEF Assigns, Goes, Frame, Computing, Making
<1>14. ASSUME NEW t \in Threads, Registers(t) PROVE Claim
  BY <1>1, <1>14 DEF Registers, Goes, Frame, Computing, Making
<1>15. ASSUME NEW t \in Threads, Stores(t) PROVE Claim
  BY <1>1, <1>15 DEF Stores, Goes, Frame, Computing, Making
<1>16. ASSUME NEW t \in Threads, Subscribes(t) PROVE Claim
  BY <1>1, <1>16 DEF Subscribes, Computing, Making
<1>17. CASE Polls
  BY <1>17 DEF Polls, threadVars
<1>18. ASSUME NEW f \in Files, Dispatches(f) PROVE Claim
  BY <1>1, <1>18 DEF Dispatches, Frame
<1>19. CASE Forbids
  BY <1>1, <1>19 DEF Forbids, Goes, Frame
<1>20. CASE Unregisters
  BY <1>1, <1>20 DEF Unregisters, Frame
<1>21. CASE Loses
  BY <1>21 DEF Loses, threadVars
<1>22. CASE UNCHANGED <<Shared, threadVars>>
  BY <1>22 DEF threadVars
<1>23. QED
  BY <1>4, <1>5, <1>6, <1>7, <1>8, <1>9, <1>10, <1>11, <1>12, <1>13, <1>14, <1>15, <1>16, <1>17, <1>18,
     <1>19, <1>20, <1>21, <1>22, StepIsOneOf DEF Base, CallerSteps, OtherSteps, ThreadSteps, MonitorSteps

LEMMA CachedIsSaved ==
  ASSUME Base, NEW c0 \in 1..opened, NoMaker(c0), cached # c0, [Next]_vars
  PROVE  cached' # c0
<1> DEFINE Claim == cached' # c0
<1>1. /\ Threads = Callers \cup Others /\ Callers \cap Others = {} /\ Monitor \in Others /\ Loops \subseteq Others
  BY ThreadFacts
<1>2. /\ None \notin 1..opened /\ opened + 1 \notin 1..opened /\ 1..opened \subseteq Sockets
      /\ \A s \in Sockets : owner[s] \in 1..opened => s \in 1..opened /\ s # opened + 1
  BY NumberFacts DEF Base, TypeInv
<1>3. NoMaker(c0) /\ c0 \in 1..opened /\ cached # c0
  OBVIOUS
<1> USE DEF NoMaker, Makes, Alone, Aside
<1>4. ASSUME NEW u \in Callers, Alone(u) PROVE Claim
  BY <1>4 DEF Alone, Shared
<1>5. ASSUME NEW u \in Callers, Listens(u) PROVE Claim
  BY <1>5 DEF Listens
<1>6. ASSUME NEW u \in Callers, Saves(u) PROVE Claim
  BY <1>6 DEF Saves, Computing, Making
<1>7. ASSUME NEW t \in Others, Aside(t) PROVE Claim
  BY <1>7 DEF Aside, Shared
<1>8. ASSUME NEW t \in Others, Takes(t) PROVE Claim
  BY <1>8 DEF Takes
<1>9. ASSUME NEW t \in Others, Drops(t) PROVE Claim
  BY <1>9 DEF Drops
<1>10. ASSUME NEW t \in Others, Tells(t) PROVE Claim
  BY <1>10 DEF Tells
<1>11. ASSUME NEW t \in Others, Forgets(t) PROVE Claim
  BY <1>2, <1>11 DEF Forgets
<1>12. ASSUME NEW t \in Threads, NEW c \in Clients, Connects(t, c) PROVE Claim
  BY <1>12 DEF Connects
<1>13. ASSUME NEW t \in Threads, Assigns(t) PROVE Claim
  BY <1>13 DEF Assigns
<1>14. ASSUME NEW t \in Threads, Registers(t) PROVE Claim
  BY <1>14 DEF Registers
<1>15. ASSUME NEW t \in Threads, Stores(t) PROVE Claim
  BY <1>15 DEF Stores
<1>16. ASSUME NEW t \in Threads, Subscribes(t) PROVE Claim
  BY <1>16 DEF Subscribes, Shared
<1>17. CASE Polls
  BY <1>17 DEF Polls
<1>18. ASSUME NEW f \in Files, Dispatches(f) PROVE Claim
  BY <1>18 DEF Dispatches
<1>19. CASE Forbids
  BY <1>19 DEF Forbids
<1>20. CASE Unregisters
  BY <1>20 DEF Unregisters
<1>21. CASE Loses
  BY <1>21 DEF Loses
<1>22. CASE UNCHANGED <<Shared, threadVars>>
  BY <1>22 DEF Shared
<1>23. QED
  BY <1>4, <1>5, <1>6, <1>7, <1>8, <1>9, <1>10, <1>11, <1>12, <1>13, <1>14, <1>15, <1>16, <1>17, <1>18,
     <1>19, <1>20, <1>21, <1>22, StepIsOneOf DEF Base, CallerSteps, OtherSteps, ThreadSteps, MonitorSteps

LEMMA PastLasts ==
  ASSUME Base, NEW c0 \in 1..opened, Past(c0), [Next]_vars
  PROVE  Past(c0)'
  BY ExcusedLasts, NoMakerLasts, CachedIsSaved DEF Past, NoMaker

-----------------------------------------------------------------------------
(* Threads that close: what they do with the client they have taken.       *)

\* Where a thread gets to once it has taken the client's socket.
Later == ConnectPc \cup {"subscribing", "told"}

LEMMA AfterTaking ==
  ASSUME Base, NEW x \in Others, [Next]_vars
  PROVE  pc'[x] \in After => (pc[x] \in After /\ self'[x] = self[x]) \/ Takes(x)
<1> DEFINE Claim == pc'[x] \in After => (pc[x] \in After /\ self'[x] = self[x]) \/ Takes(x)
<1>1. /\ Threads = Callers \cup Others /\ Callers \cap Others = {} /\ Monitor \in Others /\ Loops \subseteq Others
  BY ThreadFacts
<1> USE DEF Aside
<1>2. ASSUME NEW u \in Callers, Alone(u) PROVE Claim
  BY <1>1, <1>2 DEF Alone, Frame
<1>3. ASSUME NEW u \in Callers, Listens(u) PROVE Claim
  BY <1>1, <1>3 DEF Listens, Goes, Frame
<1>4. ASSUME NEW u \in Callers, Saves(u) PROVE Claim
  BY <1>1, <1>4 DEF Saves, Frame
<1>5. ASSUME NEW t \in Others, Aside(t) PROVE Claim
  BY <1>1, <1>5 DEF Aside, Goes, Frame, ConnectPc, ListenerPc, After, Return
<1>6. ASSUME NEW t \in Others, Takes(t) PROVE Claim
  BY <1>1, <1>6 DEF Takes, socketVars, Goes, Frame, ConnectPc, After
<1>7. ASSUME NEW t \in Others, Drops(t) PROVE Claim
  BY <1>1, <1>7 DEF Drops, Goes, Frame, After
<1>8. ASSUME NEW t \in Others, Tells(t) PROVE Claim
  BY <1>1, <1>8 DEF Tells, Goes, Frame, After
<1>9. ASSUME NEW t \in Others, Forgets(t) PROVE Claim
  BY <1>1, <1>9 DEF Forgets, Goes, Frame, ListenerPc, After
<1>10. ASSUME NEW t \in Threads, NEW c \in Clients, Connects(t, c) PROVE Claim
  BY <1>1, <1>10 DEF Connects, Frame, ListenerPc, After
<1>11. ASSUME NEW t \in Threads, Assigns(t) PROVE Claim
  BY <1>1, <1>11 DEF Assigns, Goes, Frame, ConnectPc, After
<1>12. ASSUME NEW t \in Threads, Registers(t) PROVE Claim
  BY <1>1, <1>12 DEF Registers, Goes, Frame, ConnectPc, After
<1>13. ASSUME NEW t \in Threads, Stores(t) PROVE Claim
  BY <1>1, <1>13 DEF Stores, Goes, Frame, ConnectPc, After
<1>14. ASSUME NEW t \in Threads, Subscribes(t) PROVE Claim
  BY <1>1, <1>14 DEF Subscribes, ConnectPc, ListenerPc, After
<1>15. CASE Polls
  BY <1>15 DEF Polls, threadVars
<1>16. ASSUME NEW f \in Files, Dispatches(f) PROVE Claim
  BY <1>1, <1>16 DEF Dispatches, Frame, ConnectPc, ListenerPc, After
<1>17. CASE Forbids
  BY <1>1, <1>17 DEF Forbids, Goes, Frame, ConnectPc, ListenerPc, After
<1>18. CASE Unregisters
  BY <1>1, <1>18 DEF Unregisters, Frame, ConnectPc, ListenerPc, After
<1>19. CASE Loses
  BY <1>19 DEF Loses, threadVars
<1>20. CASE UNCHANGED <<Shared, threadVars>>
  BY <1>20 DEF threadVars
<1>21. QED
  BY <1>2, <1>3, <1>4, <1>5, <1>6, <1>7, <1>8, <1>9, <1>10, <1>11, <1>12, <1>13, <1>14, <1>15, <1>16, <1>17,
     <1>18, <1>19, <1>20, StepIsOneOf DEF Base, CallerSteps, OtherSteps, ThreadSteps, MonitorSteps

LEMMA LaterAfter ==
  ASSUME Base, NEW x \in Others, [Next]_vars
  PROVE  pc'[x] \in Later => (pc[x] \in Later /\ self'[x] = self[x]) \/ Connects(x, self[x]) \/ Forgets(x)
<1> DEFINE Claim == pc'[x] \in Later => (pc[x] \in Later /\ self'[x] = self[x]) \/ Connects(x, self[x]) \/ Forgets(x)
<1>1. /\ Threads = Callers \cup Others /\ Callers \cap Others = {} /\ Monitor \in Others /\ Loops \subseteq Others
  BY ThreadFacts
<1> USE DEF Aside
<1>2. ASSUME NEW u \in Callers, Alone(u) PROVE Claim
  BY <1>1, <1>2 DEF Alone, Frame
<1>3. ASSUME NEW u \in Callers, Listens(u) PROVE Claim
  BY <1>1, <1>3 DEF Listens, Goes, Frame
<1>4. ASSUME NEW u \in Callers, Saves(u) PROVE Claim
  BY <1>1, <1>4 DEF Saves, Frame
<1>5. ASSUME NEW t \in Others, Aside(t) PROVE Claim
  BY <1>1, <1>5 DEF Aside, Goes, Frame, ConnectPc, Later, Return
<1>6. ASSUME NEW t \in Others, Takes(t) PROVE Claim
  BY <1>1, <1>6 DEF Takes, Goes, Frame, ConnectPc, Later
<1>7. ASSUME NEW t \in Others, Drops(t) PROVE Claim
  BY <1>1, <1>7 DEF Drops, Goes, Frame, ConnectPc, Later, Return, Raise
<1>8. ASSUME NEW t \in Others, Tells(t) PROVE Claim
  BY <1>1, <1>8 DEF Tells, Goes, Frame, Later
<1>9. ASSUME NEW t \in Others, Forgets(t) PROVE Claim
  BY <1>1, <1>9 DEF Forgets, Goes, Frame
<1>10. ASSUME NEW t \in Threads, NEW c \in Clients, Connects(t, c) PROVE Claim
  BY <1>1, <1>10 DEF Connects, Frame
<1>11. ASSUME NEW t \in Threads, Assigns(t) PROVE Claim
  BY <1>1, <1>11 DEF Assigns, Goes, Frame, ConnectPc, Later
<1>12. ASSUME NEW t \in Threads, Registers(t) PROVE Claim
  BY <1>1, <1>12 DEF Registers, Goes, Frame, ConnectPc, Later
<1>13. ASSUME NEW t \in Threads, Stores(t) PROVE Claim
  BY <1>1, <1>13 DEF Stores, Goes, Frame, ConnectPc, Later
<1>14. ASSUME NEW t \in Threads, Subscribes(t) PROVE Claim
  BY <1>1, <1>14 DEF Subscribes, ConnectPc, Later
<1>15. CASE Polls
  BY <1>15 DEF Polls, threadVars
<1>16. ASSUME NEW f \in Files, Dispatches(f) PROVE Claim
  BY <1>1, <1>16 DEF Dispatches, Frame, ConnectPc, Later
<1>17. CASE Forbids
  BY <1>1, <1>17 DEF Forbids, Goes, Frame, ConnectPc, Later
<1>18. CASE Unregisters
  BY <1>1, <1>18 DEF Unregisters, Frame, ConnectPc, Later
<1>19. CASE Loses
  BY <1>19 DEF Loses, threadVars
<1>20. CASE UNCHANGED <<Shared, threadVars>>
  BY <1>20 DEF threadVars
<1>21. QED
  BY <1>2, <1>3, <1>4, <1>5, <1>6, <1>7, <1>8, <1>9, <1>10, <1>11, <1>12, <1>13, <1>14, <1>15, <1>16, <1>17,
     <1>18, <1>19, <1>20, StepIsOneOf DEF Base, CallerSteps, OtherSteps, ThreadSteps, MonitorSteps

LEMMA DroppingAfter ==
  ASSUME Base, NEW x \in Others, [Next]_vars
  PROVE  pc'[x] \in {"dropping", "listener"} => (pc[x] \in {"dropping", "listener"} /\ self'[x] = self[x]) \/ Takes(x)
<1> DEFINE Claim == pc'[x] \in {"dropping", "listener"} =>
             (pc[x] \in {"dropping", "listener"} /\ self'[x] = self[x]) \/ Takes(x)
<1>1. /\ Threads = Callers \cup Others /\ Callers \cap Others = {} /\ Monitor \in Others /\ Loops \subseteq Others
  BY ThreadFacts
<1> USE DEF Aside
<1>2. ASSUME NEW u \in Callers, Alone(u) PROVE Claim
  BY <1>1, <1>2 DEF Alone, Frame
<1>3. ASSUME NEW u \in Callers, Listens(u) PROVE Claim
  BY <1>1, <1>3 DEF Listens, Goes, Frame
<1>4. ASSUME NEW u \in Callers, Saves(u) PROVE Claim
  BY <1>1, <1>4 DEF Saves, Frame
<1>5. ASSUME NEW t \in Others, Aside(t) PROVE Claim
  BY <1>1, <1>5 DEF Aside, Goes, Frame, Return, Connected
<1>6. ASSUME NEW t \in Others, Takes(t) PROVE Claim
  BY <1>1, <1>6 DEF Takes, Shared, clientVars, socketVars, monitorVars, threadVars, Goes, Frame, Computing,
     Making, Makes, Connecting, ConnectPc, CallerPc, LoopPc, MonitorPc, ClosePc, ListenerPc, After, Later,
     Return, Raise, Connected, Alone
<1>7. ASSUME NEW t \in Others, Drops(t) PROVE Claim
  BY <1>1, <1>7 DEF Drops, Goes, Frame
<1>8. ASSUME NEW t \in Others, Tells(t) PROVE Claim
  BY <1>1, <1>8 DEF Tells, Goes, Frame, Return, Raise
<1>9. ASSUME NEW t \in Others, Forgets(t) PROVE Claim
  BY <1>1, <1>9 DEF Forgets, Goes, Frame
<1>10. ASSUME NEW t \in Threads, NEW c \in Clients, Connects(t, c) PROVE Claim
  BY <1>1, <1>10 DEF Connects, Frame
<1>11. ASSUME NEW t \in Threads, Assigns(t) PROVE Claim
  BY <1>1, <1>11 DEF Assigns, Goes, Frame
<1>12. ASSUME NEW t \in Threads, Registers(t) PROVE Claim
  BY <1>1, <1>12 DEF Registers, Goes, Frame
<1>13. ASSUME NEW t \in Threads, Stores(t) PROVE Claim
  BY <1>1, <1>13 DEF Stores, Goes, Frame
<1>14. ASSUME NEW t \in Threads, Subscribes(t) PROVE Claim
  BY <1>1, <1>14 DEF Subscribes
<1>15. CASE Polls
  BY <1>15 DEF Polls, threadVars
<1>16. ASSUME NEW f \in Files, Dispatches(f) PROVE Claim
  BY <1>1, <1>16 DEF Dispatches, Frame
<1>17. CASE Forbids
  BY <1>1, <1>17 DEF Forbids, Goes, Frame
<1>18. CASE Unregisters
  BY <1>1, <1>18 DEF Unregisters, Frame
<1>19. CASE Loses
  BY <1>19 DEF Loses, threadVars
<1>20. CASE UNCHANGED <<Shared, threadVars>>
  BY <1>20 DEF threadVars
<1>21. QED
  BY <1>2, <1>3, <1>4, <1>5, <1>6, <1>7, <1>8, <1>9, <1>10, <1>11, <1>12, <1>13, <1>14, <1>15, <1>16, <1>17,
     <1>18, <1>19, <1>20, StepIsOneOf DEF Base, CallerSteps, OtherSteps, ThreadSteps, MonitorSteps

LEMMA SockSet ==
  ASSUME Base, NEW c0 \in Clients, sock[c0] = None, [Next]_vars
  PROVE  sock'[c0] = None \/ \E x \in Threads : pc[x] = "assign" /\ self[x] = c0
<1> DEFINE Claim == sock'[c0] = None \/ \E x \in Threads : pc[x] = "assign" /\ self[x] = c0
<1>1. /\ Threads = Callers \cup Others /\ Callers \cap Others = {} /\ Monitor \in Others /\ Loops \subseteq Others
  BY ThreadFacts
<1>2. c0 \in Clients /\ sock[c0] = None
  OBVIOUS
<1>3. ASSUME NEW u \in Callers, Alone(u) PROVE Claim
  BY <1>3 DEF Alone, Shared, clientVars
<1>4. ASSUME NEW u \in Callers, Listens(u) PROVE Claim
  BY <1>4 DEF Listens
<1>5. ASSUME NEW u \in Callers, Saves(u) PROVE Claim
  BY <1>5 DEF Saves, clientVars
<1>6. ASSUME NEW t \in Others, Aside(t) PROVE Claim
  BY <1>6 DEF Aside, Shared, clientVars
<1>7. ASSUME NEW t \in Others, Takes(t) PROVE Claim
  BY <1>7 DEF Takes
<1>8. ASSUME NEW t \in Others, Drops(t) PROVE Claim
  BY <1>8 DEF Drops, clientVars
<1>9. ASSUME NEW t \in Others, Tells(t) PROVE Claim
  BY <1>9 DEF Tells
<1>10. ASSUME NEW t \in Others, Forgets(t) PROVE Claim
  BY <1>10 DEF Forgets, clientVars
<1>11. ASSUME NEW t \in Threads, NEW c \in Clients, Connects(t, c) PROVE Claim
  BY <1>11 DEF Connects
<1>12. ASSUME NEW t \in Threads, Assigns(t) PROVE Claim
  BY <1>12 DEF Assigns, Goes
<1>13. ASSUME NEW t \in Threads, Registers(t) PROVE Claim
  BY <1>13 DEF Registers, clientVars
<1>14. ASSUME NEW t \in Threads, Stores(t) PROVE Claim
  BY <1>14 DEF Stores, clientVars
<1>15. ASSUME NEW t \in Threads, Subscribes(t) PROVE Claim
  BY <1>15 DEF Subscribes, Shared, clientVars
<1>16. CASE Polls
  BY <1>16 DEF Polls, clientVars
<1>17. ASSUME NEW f \in Files, Dispatches(f) PROVE Claim
  BY <1>17 DEF Dispatches, clientVars
<1>18. CASE Forbids
  BY <1>18 DEF Forbids
<1>19. CASE Unregisters
  BY <1>19 DEF Unregisters, clientVars
<1>20. CASE Loses
  BY <1>20 DEF Loses, clientVars
<1>21. CASE UNCHANGED <<Shared, threadVars>>
  BY <1>21 DEF Shared, clientVars
<1>22. QED
  BY <1>3, <1>4, <1>5, <1>6, <1>7, <1>8, <1>9, <1>10, <1>11, <1>12, <1>13, <1>14, <1>15, <1>16, <1>17,
     <1>18, <1>19, <1>20, <1>21, StepIsOneOf DEF Base, CallerSteps, OtherSteps, ThreadSteps, MonitorSteps

LEMMA SockCleared ==
  ASSUME Base, NEW c0 \in Clients, sock[c0] # None, [Next]_vars
  PROVE  sock'[c0] # None \/ \E x \in Others : Takes(x) /\ self[x] = c0
<1> DEFINE Claim == sock'[c0] # None \/ \E x \in Others : Takes(x) /\ self[x] = c0
<1>1. /\ Threads = Callers \cup Others /\ Callers \cap Others = {} /\ Monitor \in Others /\ Loops \subseteq Others
  BY ThreadFacts
<1>2. c0 \in Clients /\ sock[c0] # None /\ \A x \in Threads : pc[x] = "assign" => mine[x] # None
  BY BaseFacts DEF Knows, HasMine, Connecting
<1>3. ASSUME NEW u \in Callers, Alone(u) PROVE Claim
  BY <1>3 DEF Alone, Shared, clientVars
<1>4. ASSUME NEW u \in Callers, Listens(u) PROVE Claim
  BY <1>4 DEF Listens
<1>5. ASSUME NEW u \in Callers, Saves(u) PROVE Claim
  BY <1>5 DEF Saves, clientVars
<1>6. ASSUME NEW t \in Others, Aside(t) PROVE Claim
  BY <1>6 DEF Aside, Shared, clientVars
<1>7. ASSUME NEW t \in Others, Takes(t) PROVE Claim
  BY <1>1, <1>2, <1>7 DEF Takes, Shared, clientVars, socketVars, monitorVars, threadVars, Goes, Frame
<1>8. ASSUME NEW t \in Others, Drops(t) PROVE Claim
  BY <1>8 DEF Drops, clientVars
<1>9. ASSUME NEW t \in Others, Tells(t) PROVE Claim
  BY <1>9 DEF Tells
<1>10. ASSUME NEW t \in Others, Forgets(t) PROVE Claim
  BY <1>10 DEF Forgets, clientVars
<1>11. ASSUME NEW t \in Threads, NEW c \in Clients, Connects(t, c) PROVE Claim
  BY <1>11 DEF Connects
<1>12. ASSUME NEW t \in Threads, Assigns(t) PROVE Claim
  BY <1>2, <1>12 DEF Assigns, Goes
<1>13. ASSUME NEW t \in Threads, Registers(t) PROVE Claim
  BY <1>13 DEF Registers, clientVars
<1>14. ASSUME NEW t \in Threads, Stores(t) PROVE Claim
  BY <1>14 DEF Stores, clientVars
<1>15. ASSUME NEW t \in Threads, Subscribes(t) PROVE Claim
  BY <1>15 DEF Subscribes, Shared, clientVars
<1>16. CASE Polls
  BY <1>16 DEF Polls, clientVars
<1>17. ASSUME NEW f \in Files, Dispatches(f) PROVE Claim
  BY <1>17 DEF Dispatches, clientVars
<1>18. CASE Forbids
  BY <1>18 DEF Forbids
<1>19. CASE Unregisters
  BY <1>19 DEF Unregisters, clientVars
<1>20. CASE Loses
  BY <1>20 DEF Loses, clientVars
<1>21. CASE UNCHANGED <<Shared, threadVars>>
  BY <1>21 DEF Shared, clientVars
<1>22. QED
  BY <1>3, <1>4, <1>5, <1>6, <1>7, <1>8, <1>9, <1>10, <1>11, <1>12, <1>13, <1>14, <1>15, <1>16, <1>17,
     <1>18, <1>19, <1>20, <1>21, StepIsOneOf DEF Base, CallerSteps, OtherSteps, ThreadSteps, MonitorSteps

\* A client that a thread has taken was lost early, or nobody makes it.
Kept(c) == c \in early \/ NoMaker(c)
TakenInv ==
  /\ \A x \in Others : pc[x] \in After => Kept(self[x])
  /\ \A x \in Others : pc[x] \in Later => Past(self[x])
  /\ \A x \in Others : pc[x] \in {"dropping", "listener"} => Past(self[x]) \/ sock[self[x]] = None

LEMMA EarlyLasts ==
  ASSUME Base, NEW c0 \in early, [Next]_vars
  PROVE  c0 \in early'
<1> DEFINE Claim == c0 \in early'
<1>1. /\ Threads = Callers \cup Others /\ Callers \cap Others = {} /\ Monitor \in Others /\ Loops \subseteq Others
  BY ThreadFacts
<1>2. c0 \in early
  OBVIOUS
<1>3. ASSUME NEW u \in Callers, Alone(u) PROVE Claim
  BY <1>3 DEF Alone, Shared
<1>4. ASSUME NEW u \in Callers, Listens(u) PROVE Claim
  BY <1>4 DEF Listens
<1>5. ASSUME NEW u \in Callers, Saves(u) PROVE Claim
  BY <1>5 DEF Saves
<1>6. ASSUME NEW t \in Others, Aside(t) PROVE Claim
  BY <1>6 DEF Aside, Shared
<1>7. ASSUME NEW t \in Others, Takes(t) PROVE Claim
  BY <1>7 DEF Takes
<1>8. ASSUME NEW t \in Others, Drops(t) PROVE Claim
  BY <1>8 DEF Drops
<1>9. ASSUME NEW t \in Others, Tells(t) PROVE Claim
  BY <1>9 DEF Tells
<1>10. ASSUME NEW t \in Others, Forgets(t) PROVE Claim
  BY <1>10 DEF Forgets
<1>11. ASSUME NEW t \in Threads, NEW c \in Clients, Connects(t, c) PROVE Claim
  BY <1>11 DEF Connects
<1>12. ASSUME NEW t \in Threads, Assigns(t) PROVE Claim
  BY <1>12 DEF Assigns
<1>13. ASSUME NEW t \in Threads, Registers(t) PROVE Claim
  BY <1>13 DEF Registers
<1>14. ASSUME NEW t \in Threads, Stores(t) PROVE Claim
  BY <1>14 DEF Stores
<1>15. ASSUME NEW t \in Threads, Subscribes(t) PROVE Claim
  BY <1>15 DEF Subscribes, Shared
<1>16. CASE Polls
  BY <1>16 DEF Polls
<1>17. ASSUME NEW f \in Files, Dispatches(f) PROVE Claim
  BY <1>17 DEF Dispatches
<1>18. CASE Forbids
  BY <1>18 DEF Forbids
<1>19. CASE Unregisters
  BY <1>19 DEF Unregisters
<1>20. CASE Loses
  BY <1>20 DEF Loses
<1>21. CASE UNCHANGED <<Shared, threadVars>>
  BY <1>21 DEF Shared
<1>22. QED
  BY <1>3, <1>4, <1>5, <1>6, <1>7, <1>8, <1>9, <1>10, <1>11, <1>12, <1>13, <1>14, <1>15, <1>16, <1>17,
     <1>18, <1>19, <1>20, <1>21, StepIsOneOf DEF Base, CallerSteps, OtherSteps, ThreadSteps, MonitorSteps

LEMMA KeptLasts ==
  ASSUME Base, NEW c0 \in 1..opened, Kept(c0), [Next]_vars
  PROVE  Kept(c0)'
<1>1. CASE NoMaker(c0)
  BY <1>1, NoMakerLasts DEF Kept
<1>2. CASE c0 \in early
  BY <1>2, EarlyLasts DEF Kept
<1>3. QED
  BY <1>1, <1>2 DEF Kept

LEMMA NextTaken ==
  ASSUME Base, Base', Apart, TakenInv, [Next]_vars
  PROVE  TakenInv'
<1>1. \A x \in Others : pc[x] \in After => self[x] \in 1..opened /\ self[x] \in Clients
  BY BaseFacts, NumberFacts, ThreadFacts DEF Base, After, Knows, Busy, ClosePc
<1>2. Later \subseteq After /\ {"dropping", "listener"} \subseteq After
  BY DEF Later, After, ListenerPc
<1>3. ASSUME NEW x \in Others, Takes(x)
      PROVE  pc'[x] = "dropping" /\ self'[x] = self[x] /\ sock'[self[x]] = None /\ Kept(self[x])'
  <2>1. /\ pc'[x] = "dropping" /\ self'[x] = self[x] /\ cached' = cached
        /\ early' = IF cached # self[x] THEN early \cup {self[x]} ELSE early
        /\ \A u \in Callers : pc'[u] = pc[u] /\ self'[u] = self[u]
    BY <1>3, ThreadFacts DEF Takes, Goes, Frame
  <2>2. sock'[self[x]] = None
    BY <1>3, BaseFacts, NumberFacts, ThreadFacts DEF Base, Takes, Goes, Knows, Busy, ClosePc
  <2>3. CASE cached # self[x]
    BY <2>1, <2>2, <2>3 DEF Kept
  <2>4. CASE cached = self[x]
    BY <2>1, <2>2, <2>4 DEF Kept, NoMaker, Apart, Makes
  <2>5. QED
    BY <2>3, <2>4
<1>4. ASSUME NEW x \in Others, pc'[x] \in After PROVE Kept(self[x])'
  <2>1. CASE pc[x] \in After /\ self'[x] = self[x]
    <3>1. PICK c \in 1..opened : c = self[x]
      BY <1>1, <2>1
    <3>2. Kept(c)'
      BY <2>1, <3>1, KeptLasts DEF TakenInv
    <3>3. QED
      BY <2>1, <3>1, <3>2
  <2>2. QED
    BY <1>3, <1>4, <2>1, AfterTaking
<1>5. ASSUME NEW x \in Others, pc'[x] \in Later PROVE Past(self[x])'
  <2>1. CASE pc[x] \in Later /\ self'[x] = self[x]
    <3>1. PICK c \in 1..opened : c = self[x]
      BY <1>1, <1>2, <2>1
    <3>2. Past(c)'
      BY <2>1, <3>1, PastLasts DEF TakenInv
    <3>3. QED
      BY <2>1, <3>1, <3>2
  <2>2. CASE Connects(x, self[x])
    <3>1. /\ self'[x] = self[x] /\ owner'[opened + 1] = self[x] /\ opened + 1 \in Sockets
          /\ self[x] \in 1..opened /\ opened + 1 \notin 1..opened
      BY <1>1, <2>2, NumberFacts, ThreadFacts DEF Base, Connects, After, ListenerPc
    <3>2. QED
      BY <3>1 DEF Past, Excused, Again
  <2>3. CASE Forgets(x)
    <3>1. /\ self'[x] = self[x] /\ pc[x] \in {"listener", "delete"} /\ self[x] \in 1..opened
          /\ UNCHANGED <<early, owner, sock>>
      BY <1>1, <2>3 DEF Forgets, Goes, After, ListenerPc, clientVars, socketVars
    <3>2. Kept(self[x])'
      BY <1>5, <1>2, <1>4
    <3>3. CASE cached' = None
      BY <3>1, <3>2, <3>3, NumberFacts DEF Base, Kept, Past, Excused, NoMaker
    <3>4. CASE pc[x] = "listener" /\ pc'[x] = "delete" /\ sock[self[x]] # None
      <4>1. Past(self[x])
        BY <3>4 DEF TakenInv
      <4>2. PICK c \in 1..opened : c = self[x]
        BY <3>1
      <4>3. Past(c)'
        BY <4>1, <4>2, PastLasts
      <4>4. QED
        BY <3>1, <4>2, <4>3
    <3>5. CASE pc'[x] = "reconnect"
      BY <1>5, <3>5 DEF Later, ConnectPc
    <3>6. QED
      BY <2>3, <3>3, <3>4, <3>5 DEF Forgets, Goes
  <2>4. QED
    BY <1>5, <2>1, <2>2, <2>3, LaterAfter
<1>6. ASSUME NEW x \in Others, pc'[x] \in {"dropping", "listener"} PROVE Past(self[x])' \/ sock'[self'[x]] = None
  <2>1. CASE pc[x] \in {"dropping", "listener"} /\ self'[x] = self[x]
    <3>1. CASE Past(self[x])
      <4>1. PICK c \in 1..opened : c = self[x]
        BY <1>1, <1>2, <2>1
      <4>2. Past(c)'
        BY <3>1, <4>1, PastLasts
      <4>3. QED
        BY <2>1, <4>1, <4>2
    <3>2. CASE sock[self[x]] = None
      <4>1. CASE sock'[self[x]] = None
        BY <2>1, <4>1
      <4>2. ASSUME NEW y \in Threads, pc[y] = "assign", self[y] = self[x] PROVE Past(self[x])'
        <5>1. self[x] \in 1..opened /\ Kept(self[x])
          BY <1>1, <1>2, <2>1 DEF TakenInv
        <5>2. Past(self[x])
          <6>1. CASE y \in Callers
            BY <4>2, <5>1, <6>1 DEF Kept, NoMaker, Makes, Making, Computing, Past, Excused
          <6>2. CASE y \in Others
            BY <4>2, <6>2 DEF TakenInv, Later, ConnectPc
          <6>3. QED
            BY <6>1, <6>2, ThreadFacts
        <5>3. PICK c \in 1..opened : c = self[x]
          BY <5>1
        <5>4. Past(c)'
          BY <5>2, <5>3, PastLasts
        <5>5. QED
          BY <2>1, <5>3, <5>4
      <4>3. QED
        BY <1>1, <1>2, <2>1, <3>2, <4>2, SockSet
    <3>3. QED
      BY <2>1, <3>1, <3>2 DEF TakenInv
  <2>2. QED
    BY <1>3, <1>6, <2>1, DroppingAfter
<1>7. QED
  BY <1>4, <1>5, <1>6 DEF TakenInv

-----------------------------------------------------------------------------
(* A closed client is dropped, or on its way there.                        *)

\* Where a caller has given the client its socket.
Joined == Making \ {"assign"}
MakerInv == \A u \in Callers : pc[u] \in Joined /\ sock[self[u]] = None => self[u] \in early

LEMMA JoinedAfter ==
  ASSUME Base, NEW u0 \in Callers, [Next]_vars
  PROVE  pc'[u0] \in Joined => (pc[u0] \in Joined /\ self'[u0] = self[u0]) \/ Assigns(u0)
<1> DEFINE Claim == pc'[u0] \in Joined => (pc[u0] \in Joined /\ self'[u0] = self[u0]) \/ Assigns(u0)
<1>1. /\ Threads = Callers \cup Others /\ Callers \cap Others = {} /\ Monitor \in Others /\ Loops \subseteq Others
  BY ThreadFacts
<1> USE DEF Alone
<1>2. ASSUME NEW u \in Callers, Alone(u) PROVE Claim
  BY <1>1, <1>2 DEF Alone, Frame, Computing, Making, Joined
<1>3. ASSUME NEW u \in Callers, Listens(u) PROVE Claim
  BY <1>1, <1>3 DEF Listens, Goes, Frame, Computing, Making, Joined
<1>4. ASSUME NEW u \in Callers, Saves(u) PROVE Claim
  BY <1>1, <1>4 DEF Saves, Frame, Computing, Making, Joined
<1>5. ASSUME NEW t \in Others, Aside(t) PROVE Claim
  BY <1>1, <1>5 DEF Aside, Goes, Frame
<1>6. ASSUME NEW t \in Others, Takes(t) PROVE Claim
  BY <1>1, <1>6 DEF Takes, Goes, Frame
<1>7. ASSUME NEW t \in Others, Drops(t) PROVE Claim
  BY <1>1, <1>7 DEF Drops, Goes, Frame
<1>8. ASSUME NEW t \in Others, Tells(t) PROVE Claim
  BY <1>1, <1>8 DEF Tells, Goes, Frame
<1>9. ASSUME NEW t \in Others, Forgets(t) PROVE Claim
  BY <1>1, <1>9 DEF Forgets, Goes, Frame
<1>10. ASSUME NEW t \in Threads, NEW c \in Clients, Connects(t, c) PROVE Claim
  BY <1>1, <1>10 DEF Connects, Frame, Joined
<1>11. ASSUME NEW t \in Threads, Assigns(t) PROVE Claim
  BY <1>1, <1>11 DEF Assigns, Goes, Frame
<1>12. ASSUME NEW t \in Threads, Registers(t) PROVE Claim
  BY <1>1, <1>12 DEF Registers, Goes, Frame, Computing, Making, Joined
<1>13. ASSUME NEW t \in Threads, Stores(t) PROVE Claim
  BY <1>1, <1>13 DEF Stores, Goes, Frame, Computing, Making, Joined
<1>14. ASSUME NEW t \in Threads, Subscribes(t) PROVE Claim
  BY <1>1, <1>14 DEF Subscribes, Computing, Making, Joined
<1>15. CASE Polls
  BY <1>15 DEF Polls, threadVars
<1>16. ASSUME NEW f \in Files, Dispatches(f) PROVE Claim
  BY <1>1, <1>16 DEF Dispatches, Frame
<1>17. CASE Forbids
  BY <1>1, <1>17 DEF Forbids, Goes, Frame
<1>18. CASE Unregisters
  BY <1>1, <1>18 DEF Unregisters, Frame
<1>19. CASE Loses
  BY <1>19 DEF Loses, threadVars
<1>20. CASE UNCHANGED <<Shared, threadVars>>
  BY <1>20 DEF threadVars
<1>21. QED
  BY <1>2, <1>3, <1>4, <1>5, <1>6, <1>7, <1>8, <1>9, <1>10, <1>11, <1>12, <1>13, <1>14, <1>15, <1>16, <1>17,
     <1>18, <1>19, <1>20, StepIsOneOf DEF Base, CallerSteps, OtherSteps, ThreadSteps, MonitorSteps

LEMMA NextMaker ==
  ASSUME Base, Apart, MakerInv, [Next]_vars
  PROVE  MakerInv'
<1> SUFFICES ASSUME NEW u \in Callers, pc'[u] \in Joined, sock'[self'[u]] = None PROVE self'[u] \in early'
  BY DEF MakerInv
<1>1. \A v \in Callers : pc[v] \in Making => self[v] \in 1..opened /\ self[v] \in Clients
  BY ThreadFacts, BaseFacts, NumberFacts DEF Base, Making, Computing, Knows, Busy, ConnectPc, ListenerPc
<1>2. CASE Assigns(u)
  <2>1. pc[u] = "assign" /\ self'[u] = self[u] /\ mine[u] # None /\ self[u] \in Clients /\ sock'[self[u]] = mine[u]
    BY <1>1, <1>2, BaseFacts, ThreadFacts DEF Assigns, Goes, Knows, HasMine, Connecting, Making, Computing
  <2>2. QED
    BY <2>1
<1>3. CASE pc[u] \in Joined /\ self'[u] = self[u]
  <2>1. self[u] \in Clients /\ self[u] # cached
    BY <1>1, <1>3 DEF Joined, Apart
  <2>2. CASE sock[self[u]] = None
    BY <1>3, <2>2, EarlyLasts DEF MakerInv
  <2>3. CASE sock[self[u]] # None
    <3>1. PICK x \in Others : Takes(x) /\ self[x] = self[u]
      BY <1>3, <2>1, <2>3, SockCleared
    <3>2. QED
      BY <1>3, <2>1, <3>1 DEF Takes
  <2>4. QED
    BY <2>2, <2>3
<1>4. QED
  BY <1>2, <1>3, JoinedAfter

\* The listener is there from "listen" on.
HeardInv ==
  /\ \A u \in Callers : pc[u] \in {"subscribing", "save"} => Heard(self[u])
  /\ cached # None => Heard(cached)

LEMMA ListenersCleared ==
  ASSUME Base, NEW c0 \in Clients, [Next]_vars
  PROVE  listeners[c0] = "set" => listeners'[c0] = "set" \/
         (\E x \in Others : pc[x] = "told" /\ self[x] = c0) \/
             (\E u \in Callers : pc[u] = "connected" /\ self[u] = c0)
<1> DEFINE Claim == listeners[c0] = "set" => listeners'[c0] = "set" \/
             (\E x \in Others : pc[x] = "told" /\ self[x] = c0) \/
                 (\E u \in Callers : pc[u] = "connected" /\ self[u] = c0)
<1>1. c0 \in Clients
  OBVIOUS
<1>2. ASSUME NEW u \in Callers, Alone(u) PROVE Claim
  BY <1>2 DEF Alone, Shared, clientVars
<1>3. ASSUME NEW u \in Callers, Listens(u) PROVE Claim
  BY <1>3 DEF Listens, Goes
<1>4. ASSUME NEW u \in Callers, Saves(u) PROVE Claim
  BY <1>4 DEF Saves, clientVars
<1>5. ASSUME NEW t \in Others, Aside(t) PROVE Claim
  BY <1>5 DEF Aside, Shared, clientVars
<1>6. ASSUME NEW t \in Others, Takes(t) PROVE Claim
  BY <1>6 DEF Takes
<1>7. ASSUME NEW t \in Others, Drops(t) PROVE Claim
  BY <1>7 DEF Drops, clientVars
<1>8. ASSUME NEW t \in Others, Tells(t) PROVE Claim
  BY <1>8 DEF Tells, Goes
<1>9. ASSUME NEW t \in Others, Forgets(t) PROVE Claim
  BY <1>9 DEF Forgets, clientVars
<1>10. ASSUME NEW t \in Threads, NEW c \in Clients, Connects(t, c) PROVE Claim
  BY <1>10 DEF Connects
<1>11. ASSUME NEW t \in Threads, Assigns(t) PROVE Claim
  BY <1>11 DEF Assigns
<1>12. ASSUME NEW t \in Threads, Registers(t) PROVE Claim
  BY <1>12 DEF Registers, clientVars
<1>13. ASSUME NEW t \in Threads, Stores(t) PROVE Claim
  BY <1>13 DEF Stores, clientVars
<1>14. ASSUME NEW t \in Threads, Subscribes(t) PROVE Claim
  BY <1>14 DEF Subscribes, Shared, clientVars
<1>15. CASE Polls
  BY <1>15 DEF Polls, clientVars
<1>16. ASSUME NEW f \in Files, Dispatches(f) PROVE Claim
  BY <1>16 DEF Dispatches, clientVars
<1>17. CASE Forbids
  BY <1>17 DEF Forbids
<1>18. CASE Unregisters
  BY <1>18 DEF Unregisters, clientVars
<1>19. CASE Loses
  BY <1>19 DEF Loses, clientVars
<1>20. CASE UNCHANGED <<Shared, threadVars>>
  BY <1>20 DEF Shared, clientVars
<1>21. QED
  BY <1>2, <1>3, <1>4, <1>5, <1>6, <1>7, <1>8, <1>9, <1>10, <1>11, <1>12, <1>13, <1>14, <1>15, <1>16, <1>17,
     <1>18, <1>19, <1>20, StepIsOneOf DEF Base, CallerSteps, OtherSteps, ThreadSteps, MonitorSteps

LEMMA SubscribingAfter ==
  ASSUME Base, NEW u0 \in Callers, [Next]_vars
  PROVE  pc'[u0] \in {"subscribing", "save"} => self'[u0] = self[u0] /\
         (pc[u0] \in {"subscribing", "save"} \/ (pc[u0] = "listen" /\ listeners'[self[u0]] = "set"))
<1> DEFINE Claim == pc'[u0] \in {"subscribing", "save"} => self'[u0] = self[u0] /\
             (pc[u0] \in {"subscribing", "save"} \/ (pc[u0] = "listen" /\ listeners'[self[u0]] = "set"))
<1>1. /\ Threads = Callers \cup Others /\ Callers \cap Others = {} /\ Monitor \in Others /\ Loops \subseteq Others
  BY ThreadFacts
<1>2. \A u \in Callers : pc[u] \in Making => self[u] \in 1..opened /\ self[u] \in Clients
  BY ThreadFacts, BaseFacts, NumberFacts DEF Base, Making, Computing, Knows, Busy, ConnectPc, ListenerPc
<1> USE DEF Alone
<1>3. ASSUME NEW u \in Callers, Alone(u) PROVE Claim
  BY <1>1, <1>3 DEF Alone, Frame
<1>4. ASSUME NEW u \in Callers, Listens(u) PROVE Claim
  BY <1>1, <1>2, <1>4 DEF Listens, Goes, Frame, Computing, Making
<1>5. ASSUME NEW u \in Callers, Saves(u) PROVE Claim
  BY <1>1, <1>5 DEF Saves, Frame
<1>6. ASSUME NEW t \in Others, Aside(t) PROVE Claim
  BY <1>1, <1>6 DEF Aside, Goes, Frame
<1>7. ASSUME NEW t \in Others, Takes(t) PROVE Claim
  BY <1>1, <1>7 DEF Takes, Goes, Frame
<1>8. ASSUME NEW t \in Others, Drops(t) PROVE Claim
  BY <1>1, <1>8 DEF Drops, Goes, Frame
<1>9. ASSUME NEW t \in Others, Tells(t) PROVE Claim
  BY <1>1, <1>9 DEF Tells, Goes, Frame
<1>10. ASSUME NEW t \in Others, Forgets(t) PROVE Claim
  BY <1>1, <1>10 DEF Forgets, Goes, Frame
<1>11. ASSUME NEW t \in Threads, NEW c \in Clients, Connects(t, c) PROVE Claim
  BY <1>1, <1>11 DEF Connects, Frame
<1>12. ASSUME NEW t \in Threads, Assigns(t) PROVE Claim
  BY <1>1, <1>12 DEF Assigns, Goes, Frame
<1>13. ASSUME NEW t \in Threads, Registers(t) PROVE Claim
  BY <1>1, <1>13 DEF Registers, Goes, Frame
<1>14. ASSUME NEW t \in Threads, Stores(t) PROVE Claim
  BY <1>1, <1>14 DEF Stores, Goes, Frame
<1>15. ASSUME NEW t \in Threads, Subscribes(t) PROVE Claim
  BY <1>1, <1>15 DEF Subscribes
<1>16. CASE Polls
  BY <1>16 DEF Polls, threadVars
<1>17. ASSUME NEW f \in Files, Dispatches(f) PROVE Claim
  BY <1>1, <1>17 DEF Dispatches, Frame
<1>18. CASE Forbids
  BY <1>1, <1>18 DEF Forbids, Goes, Frame
<1>19. CASE Unregisters
  BY <1>1, <1>19 DEF Unregisters, Frame
<1>20. CASE Loses
  BY <1>20 DEF Loses, threadVars
<1>21. CASE UNCHANGED <<Shared, threadVars>>
  BY <1>21 DEF threadVars
<1>22. QED
  BY <1>3, <1>4, <1>5, <1>6, <1>7, <1>8, <1>9, <1>10, <1>11, <1>12, <1>13, <1>14, <1>15, <1>16, <1>17,
     <1>18, <1>19, <1>20, <1>21, StepIsOneOf DEF Base, CallerSteps, OtherSteps, ThreadSteps, MonitorSteps

LEMMA CachedAfter ==
  ASSUME Base, [Next]_vars
  PROVE  cached' # None => cached' = cached \/ \E u \in Callers : pc[u] = "save" /\ cached' = self[u]
<1> DEFINE Claim == cached' # None => cached' = cached \/ \E u \in Callers : pc[u] = "save" /\ cached' = self[u]
<1>1. ASSUME NEW u \in Callers, Alone(u) PROVE Claim
  BY <1>1 DEF Alone, Shared
<1>2. ASSUME NEW u \in Callers, Listens(u) PROVE Claim
  BY <1>2 DEF Listens
<1>3. ASSUME NEW u \in Callers, Saves(u) PROVE Claim
  BY <1>3 DEF Saves
<1>4. ASSUME NEW t \in Others, Aside(t) PROVE Claim
  BY <1>4 DEF Aside, Shared
<1>5. ASSUME NEW t \in Others, Takes(t) PROVE Claim
  BY <1>5 DEF Takes
<1>6. ASSUME NEW t \in Others, Drops(t) PROVE Claim
  BY <1>6 DEF Drops
<1>7. ASSUME NEW t \in Others, Tells(t) PROVE Claim
  BY <1>7 DEF Tells
<1>8. ASSUME NEW t \in Others, Forgets(t) PROVE Claim
  BY <1>8 DEF Forgets
<1>9. ASSUME NEW t \in Threads, NEW c \in Clients, Connects(t, c) PROVE Claim
  BY <1>9 DEF Connects
<1>10. ASSUME NEW t \in Threads, Assigns(t) PROVE Claim
  BY <1>10 DEF Assigns
<1>11. ASSUME NEW t \in Threads, Registers(t) PROVE Claim
  BY <1>11 DEF Registers
<1>12. ASSUME NEW t \in Threads, Stores(t) PROVE Claim
  BY <1>12 DEF Stores
<1>13. ASSUME NEW t \in Threads, Subscribes(t) PROVE Claim
  BY <1>13 DEF Subscribes, Shared
<1>14. CASE Polls
  BY <1>14 DEF Polls
<1>15. ASSUME NEW f \in Files, Dispatches(f) PROVE Claim
  BY <1>15 DEF Dispatches
<1>16. CASE Forbids
  BY <1>16 DEF Forbids
<1>17. CASE Unregisters
  BY <1>17 DEF Unregisters
<1>18. CASE Loses
  BY <1>18 DEF Loses
<1>19. CASE UNCHANGED <<Shared, threadVars>>
  BY <1>19 DEF Shared
<1>20. QED
  BY <1>1, <1>2, <1>3, <1>4, <1>5, <1>6, <1>7, <1>8, <1>9, <1>10, <1>11, <1>12, <1>13, <1>14, <1>15, <1>16,
     <1>17, <1>18, <1>19, StepIsOneOf DEF Base, CallerSteps, OtherSteps, ThreadSteps, MonitorSteps

LEMMA HeardLasts ==
  ASSUME Base, CachedMade, Apart, TakenInv, NEW c0 \in 1..opened, Heard(c0), [Next]_vars,
         (cached = c0 \/ \E u \in Callers : pc[u] \in {"listen", "subscribing", "save"} /\ self[u] = c0)
  PROVE  Heard(c0)'
<1>1. CASE Excused(c0)
  BY <1>1, ExcusedLasts DEF Heard
<1>2. CASE listeners[c0] = "set"
  <2>1. c0 \in Clients /\ c0 # None
    BY NumberFacts DEF Base
  <2>2. CASE listeners'[c0] = "set"
    BY <2>2 DEF Heard
  <2>3. ASSUME NEW x \in Others, pc[x] = "told", self[x] = c0 PROVE Heard(c0)'
    <3>1. Past(c0)
      BY <2>3 DEF TakenInv, Later
    <3>2. Excused(c0)
      BY <3>1 DEF Past, Makes, Making, Computing
    <3>3. QED
      BY <3>2, ExcusedLasts DEF Heard
  <2>4. ASSUME NEW u \in Callers, pc[u] = "connected", self[u] = c0 PROVE FALSE
    <3>1. listeners[c0] = "missing"
      BY <2>4 DEF Apart, Making, Computing, ConnectPc
    <3>2. QED
      BY <1>2, <3>1
  <2>5. QED
    BY <1>2, <2>1, <2>2, <2>3, <2>4, ListenersCleared
<1>3. QED
  BY <1>1, <1>2 DEF Heard

LEMMA NextHeard ==
  ASSUME Base, CachedMade, Apart, TakenInv, HeardInv, [Next]_vars
  PROVE  HeardInv'
<1>1. \A u \in Callers : pc[u] \in Making => self[u] \in 1..opened
  BY ThreadFacts, BaseFacts DEF Making, Computing, Knows, Busy, ConnectPc, ListenerPc
<1>2. ASSUME NEW u \in Callers, pc'[u] \in {"subscribing", "save"} PROVE Heard(self[u])'
  <2>1. /\ self'[u] = self[u]
        /\ pc[u] \in {"subscribing", "save"} \/ (pc[u] = "listen" /\ listeners'[self[u]] = "set")
    BY <1>2, SubscribingAfter
  <2>2. PICK c \in 1..opened : c = self[u]
    BY <1>1, <2>1 DEF Making, Computing
  <2>3. CASE pc[u] \in {"subscribing", "save"}
    <3>1. Heard(c)'
      BY <2>2, <2>3, HeardLasts DEF HeardInv
    <3>2. QED
      BY <2>1, <2>2, <3>1
  <2>4. CASE listeners'[self[u]] = "set"
    BY <2>1, <2>4 DEF Heard
  <2>5. QED
    BY <2>1, <2>3, <2>4
<1>3. ASSUME cached' # None PROVE Heard(cached)'
  <2>1. CASE cached' = cached
    <3>1. PICK c \in 1..opened : c = cached
      BY <1>3, <2>1, BaseFacts
    <3>2. Heard(c)'
      BY <1>3, <2>1, <3>1, HeardLasts DEF HeardInv
    <3>3. QED
      BY <2>1, <3>1, <3>2
  <2>2. ASSUME NEW u \in Callers, pc[u] = "save", cached' = self[u] PROVE Heard(cached)'
    <3>1. PICK c \in 1..opened : c = self[u]
      BY <1>1, <2>2 DEF Making, Computing
    <3>2. Heard(c)'
      BY <2>2, <3>1, HeardLasts DEF HeardInv
    <3>3. QED
      BY <2>2, <3>1, <3>2
  <2>3. QED
    BY <1>3, <2>1, <2>2, CachedAfter
<1>4. QED
  BY <1>2, <1>3 DEF HeardInv

\* A closed client is out of the cache, or a thread sees to it, or it is new.
Gone(c) == sock[c] = None =>
  \/ Past(c)
  \/ \E x \in Others : pc[x] \in Dropping /\ self[x] = c
  \/ \E u \in Callers : Makes(u, c)
GoneInv == \A c \in 1..opened : Gone(c)

LEMMA MakesAfter ==
  ASSUME Base, NEW u0 \in Callers, NEW c0 \in 1..opened, [Next]_vars
  PROVE  Makes(u0, c0) => Makes(u0, c0)' \/ pc[u0] \in Joined
<1> DEFINE Claim == Makes(u0, c0) => Makes(u0, c0)' \/ pc[u0] \in Joined
<1>1. /\ Threads = Callers \cup Others /\ Callers \cap Others = {} /\ Monitor \in Others /\ Loops \subseteq Others
  BY ThreadFacts
<1> USE DEF Alone
<1>2. ASSUME NEW u \in Callers, Alone(u) PROVE Claim
  BY <1>1, <1>2 DEF Alone, Frame, Makes, Joined
<1>3. ASSUME NEW u \in Callers, Listens(u) PROVE Claim
  BY <1>1, <1>3 DEF Listens, Goes, Frame, Makes, Joined
<1>4. ASSUME NEW u \in Callers, Saves(u) PROVE Claim
  BY <1>1, <1>4 DEF Saves, Frame, Makes, Joined
<1>5. ASSUME NEW t \in Others, Aside(t) PROVE Claim
  BY <1>1, <1>5 DEF Aside, Goes, Frame, Makes
<1>6. ASSUME NEW t \in Others, Takes(t) PROVE Claim
  BY <1>1, <1>6 DEF Takes, Goes, Frame, Makes
<1>7. ASSUME NEW t \in Others, Drops(t) PROVE Claim
  BY <1>1, <1>7 DEF Drops, Goes, Frame, Makes
<1>8. ASSUME NEW t \in Others, Tells(t) PROVE Claim
  BY <1>1, <1>8 DEF Tells, Goes, Frame, Makes
<1>9. ASSUME NEW t \in Others, Forgets(t) PROVE Claim
  BY <1>1, <1>9 DEF Forgets, Goes, Frame, Makes
<1>10. ASSUME NEW t \in Threads, NEW c \in Clients, Connects(t, c) PROVE Claim
  BY <1>1, <1>10 DEF Connects, Frame, Making, Makes
<1>11. ASSUME NEW t \in Threads, Assigns(t) PROVE Claim
  BY <1>1, <1>11 DEF Assigns, Goes, Frame, Computing, Making, Makes
<1>12. ASSUME NEW t \in Threads, Registers(t) PROVE Claim
  BY <1>1, <1>12 DEF Registers, Goes, Frame, Makes, Joined
<1>13. ASSUME NEW t \in Threads, Stores(t) PROVE Claim
  BY <1>1, <1>13 DEF Stores, Goes, Frame, Makes, Joined
<1>14. ASSUME NEW t \in Threads, Subscribes(t) PROVE Claim
  BY <1>1, <1>14 DEF Subscribes, Makes, Joined
<1>15. CASE Polls
  BY <1>15 DEF Polls, threadVars, Makes
<1>16. ASSUME NEW f \in Files, Dispatches(f) PROVE Claim
  BY <1>1, <1>16 DEF Dispatches, Frame, Makes
<1>17. CASE Forbids
  BY <1>1, <1>17 DEF Forbids, Goes, Frame, Makes
<1>18. CASE Unregisters
  BY <1>1, <1>18 DEF Unregisters, Frame, Makes
<1>19. CASE Loses
  BY <1>19 DEF Loses, threadVars, Makes
<1>20. CASE UNCHANGED <<Shared, threadVars>>
  BY <1>20 DEF threadVars, Makes
<1>21. QED
  BY <1>2, <1>3, <1>4, <1>5, <1>6, <1>7, <1>8, <1>9, <1>10, <1>11, <1>12, <1>13, <1>14, <1>15, <1>16, <1>17,
     <1>18, <1>19, <1>20, StepIsOneOf DEF Base, CallerSteps, OtherSteps, ThreadSteps, MonitorSteps

LEMMA DropperAfter ==
  ASSUME Base, NEW x \in Others, [Next]_vars
  PROVE  pc[x] \in Dropping =>
         \/ pc'[x] \in Dropping /\ self'[x] = self[x]
         \/ Connects(x, self[x])
         \/ cached' = None
         \/ sock[self[x]] # None
         \/ listeners[self[x]] # "set"
<1> DEFINE Claim == pc[x] \in Dropping =>
         \/ pc'[x] \in Dropping /\ self'[x] = self[x]
         \/ Connects(x, self[x])
         \/ cached' = None
         \/ sock[self[x]] # None
         \/ listeners[self[x]] # "set"
<1>1. /\ Threads = Callers \cup Others /\ Callers \cap Others = {} /\ Monitor \in Others /\ Loops \subseteq Others
  BY ThreadFacts
<1> USE DEF Aside
<1>2. ASSUME NEW u \in Callers, Alone(u) PROVE Claim
  BY <1>1, <1>2 DEF Alone, Frame
<1>3. ASSUME NEW u \in Callers, Listens(u) PROVE Claim
  BY <1>1, <1>3 DEF Listens, Goes, Frame
<1>4. ASSUME NEW u \in Callers, Saves(u) PROVE Claim
  BY <1>1, <1>4 DEF Saves, Frame
<1>5. ASSUME NEW t \in Others, Aside(t) PROVE Claim
  BY <1>1, <1>5 DEF Aside, Goes, Frame, Dropping
<1>6. ASSUME NEW t \in Others, Takes(t) PROVE Claim
  BY <1>1, <1>6 DEF Takes, Goes, Frame, Dropping
<1>7. ASSUME NEW t \in Others, Drops(t) PROVE Claim
  BY <1>1, <1>7 DEF Drops, Goes, Frame, Dropping
<1>8. ASSUME NEW t \in Others, Tells(t) PROVE Claim
  BY <1>1, <1>8 DEF Tells, Goes, Frame, Dropping
<1>9. ASSUME NEW t \in Others, Forgets(t) PROVE Claim
  BY <1>1, <1>9 DEF Forgets, Goes, Frame, Dropping
<1>10. ASSUME NEW t \in Threads, NEW c \in Clients, Connects(t, c) PROVE Claim
  BY <1>1, <1>10 DEF Connects, Frame
<1>11. ASSUME NEW t \in Threads, Assigns(t) PROVE Claim
  BY <1>1, <1>11 DEF Assigns, Goes, Frame, Dropping
<1>12. ASSUME NEW t \in Threads, Registers(t) PROVE Claim
  BY <1>1, <1>12 DEF Registers, Goes, Frame, Dropping
<1>13. ASSUME NEW t \in Threads, Stores(t) PROVE Claim
  BY <1>1, <1>13 DEF Stores, Goes, Frame, Dropping
<1>14. ASSUME NEW t \in Threads, Subscribes(t) PROVE Claim
  BY <1>1, <1>14 DEF Subscribes, Dropping
<1>15. CASE Polls
  BY <1>15 DEF Polls, threadVars
<1>16. ASSUME NEW f \in Files, Dispatches(f) PROVE Claim
  BY <1>1, <1>16 DEF Dispatches, Frame, Dropping
<1>17. CASE Forbids
  BY <1>1, <1>17 DEF Forbids, Goes, Frame, Dropping
<1>18. CASE Unregisters
  BY <1>1, <1>18 DEF Unregisters, Frame, Dropping
<1>19. CASE Loses
  BY <1>19 DEF Loses, threadVars
<1>20. CASE UNCHANGED <<Shared, threadVars>>
  BY <1>20 DEF threadVars
<1>21. QED
  BY <1>2, <1>3, <1>4, <1>5, <1>6, <1>7, <1>8, <1>9, <1>10, <1>11, <1>12, <1>13, <1>14, <1>15, <1>16, <1>17,
     <1>18, <1>19, <1>20, StepIsOneOf DEF Base, CallerSteps, OtherSteps, ThreadSteps, MonitorSteps

LEMMA OpenedAfter ==
  ASSUME Base, [Next]_vars
  PROVE  opened' = opened \/ (opened' = opened + 1 /\ \E x \in Threads, c \in Clients : Connects(x, c))
<1> DEFINE Claim == opened' = opened \/ (opened' = opened + 1 /\ \E x \in Threads, c \in Clients : Connects(x, c))
<1>1. ASSUME NEW u \in Callers, Alone(u) PROVE Claim
  BY <1>1 DEF Alone, Shared, socketVars
<1>2. ASSUME NEW u \in Callers, Listens(u) PROVE Claim
  BY <1>2 DEF Listens, socketVars
<1>3. ASSUME NEW u \in Callers, Saves(u) PROVE Claim
  BY <1>3 DEF Saves, socketVars
<1>4. ASSUME NEW t \in Others, Aside(t) PROVE Claim
  BY <1>4 DEF Aside, Shared, socketVars
<1>5. ASSUME NEW t \in Others, Takes(t) PROVE Claim
  BY <1>5 DEF Takes, socketVars
<1>6. ASSUME NEW t \in Others, Drops(t) PROVE Claim
  BY <1>6 DEF Drops
<1>7. ASSUME NEW t \in Others, Tells(t) PROVE Claim
  BY <1>7 DEF Tells, socketVars
<1>8. ASSUME NEW t \in Others, Forgets(t) PROVE Claim
  BY <1>8 DEF Forgets, socketVars
<1>9. ASSUME NEW t \in Threads, NEW c \in Clients, Connects(t, c) PROVE Claim
  BY <1>9 DEF Connects
<1>10. ASSUME NEW t \in Threads, Assigns(t) PROVE Claim
  BY <1>10 DEF Assigns, socketVars
<1>11. ASSUME NEW t \in Threads, Registers(t) PROVE Claim
  BY <1>11 DEF Registers, socketVars
<1>12. ASSUME NEW t \in Threads, Stores(t) PROVE Claim
  BY <1>12 DEF Stores, socketVars
<1>13. ASSUME NEW t \in Threads, Subscribes(t) PROVE Claim
  BY <1>13 DEF Subscribes, Shared, socketVars
<1>14. CASE Polls
  BY <1>14 DEF Polls, socketVars
<1>15. ASSUME NEW f \in Files, Dispatches(f) PROVE Claim
  BY <1>15 DEF Dispatches, socketVars
<1>16. CASE Forbids
  BY <1>16 DEF Forbids, socketVars
<1>17. CASE Unregisters
  BY <1>17 DEF Unregisters, socketVars
<1>18. CASE Loses
  BY <1>18 DEF Loses
<1>19. CASE UNCHANGED <<Shared, threadVars>>
  BY <1>19 DEF Shared, socketVars
<1>20. QED
  BY <1>1, <1>2, <1>3, <1>4, <1>5, <1>6, <1>7, <1>8, <1>9, <1>10, <1>11, <1>12, <1>13, <1>14, <1>15, <1>16,
     <1>17, <1>18, <1>19, StepIsOneOf DEF Base, CallerSteps, OtherSteps, ThreadSteps, MonitorSteps

LEMMA NewIsGone ==
  ASSUME Base, Base', NEW n \in Nat, n = opened + 1, NEW t \in Threads, NEW c \in Clients, Connects(t, c)
  PROVE  Gone(n)'
<1>1. /\ n \notin 1..opened /\ n # None /\ cached' = cached
      /\ pc'[t] = "assign" /\ self'[t] = c /\ (t \in Callers => c = n)
      /\ \A u \in Threads \ {t} : pc'[u] = pc[u] /\ self'[u] = self[u]
  BY NumberFacts DEF Base, Connects, Frame
<1>2. CASE t \in Callers
  BY <1>1, <1>2 DEF Gone, Makes, Making, Computing
<1>3. CASE t \notin Callers
  <2>1. cached' # n /\ \A u \in Callers : ~Makes(u, n)'
    BY <1>1, <1>3, BaseFacts, ThreadFacts DEF Makes
  <2>2. QED
    BY <2>1 DEF Gone, Past
<1>4. QED
  BY <1>2, <1>3

LEMMA NextGone ==
  ASSUME Base, Base', CachedMade, Apart, TakenInv, MakerInv, HeardInv, GoneInv, [Next]_vars
  PROVE  GoneInv'
<1>1. ASSUME NEW c \in 1..opened PROVE Gone(c)'
  <2>1. c \in Clients /\ c # None
    BY NumberFacts DEF Base
  <2>2. SUFFICES ASSUME sock'[c] = None PROVE Gone(c)'
    BY DEF Gone
  <2>3. CASE Past(c)
    BY <2>3, PastLasts DEF Gone
  <2>4. CASE sock[c] # None
    <3>1. PICK x \in Others : Takes(x) /\ self[x] = c
      BY <2>1, <2>2, <2>4, SockCleared
    <3>2. pc'[x] = "dropping" /\ self'[x] = c
      BY <3>1 DEF Takes, Goes
    <3>3. QED
      BY <3>2 DEF Gone, Dropping
  <2>5. ASSUME sock[c] = None, NEW u \in Callers, Makes(u, c) PROVE Gone(c)'
    <3>1. CASE pc[u] \in Joined
      <4>1. Past(c)
        BY <2>5, <3>1 DEF MakerInv, Makes, Past, Excused
      <4>2. QED
        BY <4>1, PastLasts DEF Gone
    <3>2. CASE Makes(u, c)'
      BY <3>2 DEF Gone
    <3>3. QED
      BY <2>5, <3>1, <3>2, MakesAfter
  <2>6. ASSUME sock[c] = None, NEW x \in Others, pc[x] \in Dropping, self[x] = c, ~Past(c) PROVE Gone(c)'
    <3>1. Kept(c)
      BY <2>6 DEF TakenInv, Dropping, After, ListenerPc
    <3>2. NoMaker(c) /\ cached = c
      BY <2>6, <3>1 DEF Kept, Past, Excused, NoMaker
    <3>3. listeners[c] = "set"
      BY <2>1, <2>6, <3>2 DEF HeardInv, Heard, Past
    <3>4. NoMaker(c)'
      BY <3>2, NoMakerLasts
    <3>5. CASE pc'[x] \in Dropping /\ self'[x] = self[x]
      BY <2>6, <3>5 DEF Gone
    <3>6. CASE cached' = None
      BY <2>1, <3>6 DEF Gone, Past
    <3>7. CASE Connects(x, c)
      <4>1. owner'[opened + 1] = c /\ opened + 1 \in Sockets /\ opened + 1 # c
        BY <3>7, NumberFacts DEF Base, Connects
      <4>2. QED
        BY <4>1 DEF Gone, Past, Excused, Again
    <3>8. QED
      BY <2>6, <3>3, <3>5, <3>6, <3>7, DropperAfter
  <2>7. QED
    BY <2>3, <2>4, <2>5, <2>6 DEF GoneInv, Gone
<1>2. opened' = opened \/ (opened' = opened + 1 /\ \E t \in Threads, c \in Clients : Connects(t, c))
  BY OpenedAfter
<1>3. CASE opened' = opened
  BY <1>1, <1>3 DEF GoneInv
<1>4. ASSUME NEW t \in Threads, NEW c \in Clients, Connects(t, c), opened' = opened + 1 PROVE GoneInv'
  <2>1. PICK n \in Nat : n = opened + 1
    BY NumberFacts DEF Base
  <2>2. Gone(n)'
    BY <1>4, <2>1, NewIsGone
  <2>3. \A c1 \in 1..opened' : c1 \in 1..opened \/ c1 = n
    BY <1>4, <2>1, NumberFacts DEF Base
  <2>4. QED
    BY <1>1, <2>2, <2>3 DEF GoneInv
<1>5. QED
  BY <1>2, <1>3, <1>4

-----------------------------------------------------------------------------
(* The monitor's thread, and what it needs of the listeners.               *)

\* Without subscription only the monitor closes, and finds the listeners set.
MonitorTells == pc[Monitor] \in {"listener", "told"} \cup ConnectPc \cup ListenerPc
SingleInv == kind # "subscriber" =>
  /\ \A l \in Loops : pc[l] = "unborn"
  /\ \A t \in Threads : pc[t] # "subscribing"
  /\ MonitorTells => listeners[self[Monitor]] = "set"
SurviveInv ==
  /\ pc[Monitor] = "dead" => kind = "subscriber" \/ early # {}
  /\ pc[Monitor] = "dropping" /\ listeners[self[Monitor]] = "missing" => self[Monitor] \in early

LEMMA NextUnborn ==
  ASSUME Base, SingleInv, kind # "subscriber", [Next]_vars
  PROVE  \A l \in Loops : pc'[l] = "unborn"
<1> DEFINE Claim == \A l \in Loops : pc'[l] = "unborn"
<1>1. /\ Threads = Callers \cup Others /\ Callers \cap Others = {} /\ Monitor \in Others /\ Loops \subseteq Others
      /\ \A o \in Others : o \in Loops \/ o = Monitor
  BY ThreadFacts
<1>2. /\ \A l \in Loops : pc[l] = "unborn"
      /\ \A t \in Threads : pc[t] # "subscribing"
  BY DEF SingleInv
<1>3. \A l \in Loops : l \in Threads /\ l # Monitor /\ l \notin Callers
  BY ThreadFacts
<1> USE DEF Alone, Aside
<1>4. ASSUME NEW u \in Callers, Alone(u) PROVE Claim
  BY <1>2, <1>3, <1>4 DEF Alone, Frame
<1>5. ASSUME NEW u \in Callers, Listens(u) PROVE Claim
  BY <1>1, <1>2, <1>5 DEF Listens, Goes, Frame
<1>6. ASSUME NEW u \in Callers, Saves(u) PROVE Claim
  BY <1>1, <1>2, <1>6 DEF Saves, Frame
<1>7. ASSUME NEW t \in Others, Aside(t) PROVE Claim
  BY <1>1, <1>2, <1>7 DEF Aside, Goes, Frame
<1>8. ASSUME NEW t \in Others, Takes(t) PROVE Claim
  BY <1>1, <1>2, <1>8 DEF Takes, Goes, Frame
<1>9. ASSUME NEW t \in Others, Drops(t) PROVE Claim
  BY <1>2, <1>3, <1>9 DEF Drops, Goes, Frame
<1>10. ASSUME NEW t \in Others, Tells(t) PROVE Claim
  BY <1>1, <1>2, <1>10 DEF Tells, Goes, Frame
<1>11. ASSUME NEW t \in Others, Forgets(t) PROVE Claim
  BY <1>2, <1>3, <1>11 DEF Forgets, Goes, Frame
<1>12. ASSUME NEW t \in Threads, NEW c \in Clients, Connects(t, c) PROVE Claim
  BY <1>1, <1>2, <1>12 DEF Connects, Frame
<1>13. ASSUME NEW t \in Threads, Assigns(t) PROVE Claim
  BY <1>1, <1>2, <1>13 DEF Assigns, Goes, Frame
<1>14. ASSUME NEW t \in Threads, Registers(t) PROVE Claim
  BY <1>1, <1>2, <1>14 DEF Registers, Goes, Frame
<1>15. ASSUME NEW t \in Threads, Stores(t) PROVE Claim
  BY <1>1, <1>2, <1>15 DEF Stores, Goes, Frame
<1>16. ASSUME NEW t \in Threads, Subscribes(t) PROVE Claim
  BY <1>2, <1>16 DEF Subscribes
<1>17. CASE Polls
  BY <1>2, <1>17 DEF Polls, threadVars
<1>18. ASSUME NEW f \in Files, Dispatches(f) PROVE Claim
  BY <1>2, <1>3, <1>18 DEF Dispatches, Frame
<1>19. CASE Forbids
  BY <1>1, <1>2, <1>19 DEF Forbids, Goes, Frame
<1>20. CASE Unregisters
  BY <1>2, <1>3, <1>20 DEF Unregisters, Frame
<1>21. CASE Loses
  BY <1>2, <1>21 DEF Loses, threadVars
<1>22. CASE UNCHANGED <<Shared, threadVars>>
  BY <1>2, <1>22 DEF threadVars
<1>23. QED
  BY <1>4, <1>5, <1>6, <1>7, <1>8, <1>9, <1>10, <1>11, <1>12, <1>13, <1>14, <1>15, <1>16, <1>17, <1>18,
     <1>19, <1>20, <1>21, <1>22, StepIsOneOf DEF Base, CallerSteps, OtherSteps, ThreadSteps, MonitorSteps

LEMMA NextUnsubscribing ==
  ASSUME Base, SingleInv, kind # "subscriber", [Next]_vars
  PROVE  \A x \in Threads : pc'[x] # "subscribing"
<1> DEFINE Claim == \A x \in Threads : pc'[x] # "subscribing"
<1>1. /\ Threads = Callers \cup Others /\ Callers \cap Others = {} /\ Monitor \in Others /\ Loops \subseteq Others
      /\ \A o \in Others : o \in Loops \/ o = Monitor
  BY ThreadFacts
<1>2. /\ \A l \in Loops : pc[l] = "unborn"
      /\ \A x \in Threads : pc[x] # "subscribing"
  BY DEF SingleInv
<1>3. kind # "subscriber"
  OBVIOUS
<1> USE DEF Alone, Aside, Connected, Return, Raise
<1>4. ASSUME NEW u \in Callers, Alone(u) PROVE Claim
  BY <1>2, <1>4 DEF Alone, Frame
<1>5. ASSUME NEW u \in Callers, Listens(u) PROVE Claim
  BY <1>2, <1>5 DEF Listens, Goes, Frame
<1>6. ASSUME NEW u \in Callers, Saves(u) PROVE Claim
  BY <1>2, <1>6 DEF Saves, Frame
<1>7. ASSUME NEW t \in Others, Aside(t) PROVE Claim
  BY <1>2, <1>7 DEF Aside, Goes, Frame
<1>8. ASSUME NEW t \in Others, Takes(t) PROVE Claim
  BY <1>2, <1>8 DEF Takes, Goes, Frame
<1>9. ASSUME NEW t \in Others, Drops(t) PROVE Claim
  BY <1>2, <1>9 DEF Drops, Goes, Frame
<1>10. ASSUME NEW t \in Others, Tells(t) PROVE Claim
  BY <1>2, <1>10 DEF Tells, Goes, Frame
<1>11. ASSUME NEW t \in Others, Forgets(t) PROVE Claim
  BY <1>2, <1>11 DEF Forgets, Goes, Frame
<1>12. ASSUME NEW t \in Threads, NEW c \in Clients, Connects(t, c) PROVE Claim
  BY <1>2, <1>12 DEF Connects, Frame
<1>13. ASSUME NEW t \in Threads, Assigns(t) PROVE Claim
  BY <1>2, <1>13 DEF Assigns, Goes, Frame
<1>14. ASSUME NEW t \in Threads, Registers(t) PROVE Claim
  BY <1>2, <1>14 DEF Registers, Goes, Frame
<1>15. ASSUME NEW t \in Threads, Stores(t) PROVE Claim
  BY <1>2, <1>15 DEF Stores, Goes, Frame
<1>16. ASSUME NEW t \in Threads, Subscribes(t) PROVE Claim
  BY <1>2, <1>16 DEF Subscribes
<1>17. CASE Polls
  BY <1>2, <1>17 DEF Polls, threadVars
<1>18. ASSUME NEW f \in Files, Dispatches(f) PROVE Claim
  BY <1>2, <1>18 DEF Dispatches, Frame
<1>19. CASE Forbids
  BY <1>2, <1>19 DEF Forbids, Goes, Frame
<1>20. CASE Unregisters
  BY <1>2, <1>20 DEF Unregisters, Frame
<1>21. CASE Loses
  BY <1>2, <1>21 DEF Loses, threadVars
<1>22. CASE UNCHANGED <<Shared, threadVars>>
  BY <1>2, <1>22 DEF threadVars
<1>23. QED
  BY <1>4, <1>5, <1>6, <1>7, <1>8, <1>9, <1>10, <1>11, <1>12, <1>13, <1>14, <1>15, <1>16, <1>17, <1>18,
     <1>19, <1>20, <1>21, <1>22, StepIsOneOf DEF Base, CallerSteps, OtherSteps, ThreadSteps, MonitorSteps

LEMMA NextTells ==
  ASSUME Base, Apart, SingleInv, kind # "subscriber", [Next]_vars
  PROVE  MonitorTells' => listeners'[self'[Monitor]] = "set"
<1> DEFINE Claim == MonitorTells' => listeners'[self'[Monitor]] = "set"
<1>1. /\ Threads = Callers \cup Others /\ Callers \cap Others = {} /\ Monitor \in Others /\ Loops \subseteq Others
      /\ \A o \in Others : o \in Loops \/ o = Monitor
  BY ThreadFacts
<1>2. /\ \A l \in Loops : pc[l] = "unborn"
      /\ \A x \in Threads : pc[x] # "subscribing"
      /\ MonitorTells => listeners[self[Monitor]] = "set"
  BY DEF SingleInv
<1>3. \A u \in Callers : pc[u] = "connected" => listeners[self[u]] = "missing"
  BY DEF Apart, Making, Computing, ConnectPc
<1>4. MonitorTells => self[Monitor] \in Clients
  BY BaseFacts, NumberFacts, ThreadFacts DEF Base, Knows, Busy, MonitorTells, ClosePc
<1> USE DEF Aside
<1>5. ASSUME NEW u \in Callers, Alone(u) PROVE Claim
  BY <1>1, <1>2, <1>5 DEF Alone, Shared, clientVars, Frame, MonitorTells
<1>6. ASSUME NEW u \in Callers, Listens(u) PROVE Claim
  BY <1>1, <1>2, <1>3, <1>4, <1>6 DEF Listens, Goes, Frame, MonitorTells
<1>7. ASSUME NEW u \in Callers, Saves(u) PROVE Claim
  BY <1>1, <1>2, <1>7 DEF Saves, clientVars, Frame, MonitorTells
<1>8. ASSUME NEW t \in Others, Aside(t) PROVE Claim
  BY <1>1, <1>2, <1>8 DEF Aside, Shared, clientVars, Goes, ConnectPc, ListenerPc, MonitorTells, Return
<1>9. ASSUME NEW t \in Others, Takes(t) PROVE Claim
  BY <1>1, <1>2, <1>9 DEF Takes, Goes, ConnectPc, ListenerPc, MonitorTells
<1>10. ASSUME NEW t \in Others, Drops(t) PROVE Claim
  BY <1>1, <1>2, <1>10 DEF Drops, clientVars, Goes, ConnectPc, ListenerPc, MonitorTells, Return, Raise
<1>11. ASSUME NEW t \in Others, Tells(t) PROVE Claim
  BY <1>1, <1>2, <1>11 DEF Tells, Goes, ConnectPc, ListenerPc, MonitorTells, Return
<1>12. ASSUME NEW t \in Others, Forgets(t) PROVE Claim
  BY <1>1, <1>2, <1>12 DEF Forgets, clientVars, Goes, ListenerPc, MonitorTells
<1>13. ASSUME NEW t \in Threads, NEW c \in Clients, Connects(t, c) PROVE Claim
  BY <1>1, <1>2, <1>13 DEF Connects, Frame, ListenerPc, MonitorTells
<1>14. ASSUME NEW t \in Threads, Assigns(t) PROVE Claim
  BY <1>1, <1>2, <1>14 DEF Assigns, Goes, Frame, ConnectPc, MonitorTells
<1>15. ASSUME NEW t \in Threads, Registers(t) PROVE Claim
  BY <1>1, <1>2, <1>15 DEF Registers, clientVars, Goes, Frame, ConnectPc, MonitorTells
<1>16. ASSUME NEW t \in Threads, Stores(t) PROVE Claim
  BY <1>1, <1>2, <1>16 DEF Stores, clientVars, Goes, Frame, ConnectPc, MonitorTells
<1>17. ASSUME NEW t \in Threads, Subscribes(t) PROVE Claim
  BY <1>2, <1>17 DEF Subscribes
<1>18. CASE Polls
  BY <1>18 DEF Polls, threadVars, ConnectPc, ListenerPc, MonitorTells
<1>19. ASSUME NEW f \in Files, Dispatches(f) PROVE Claim
  BY <1>19 DEF Dispatches, ConnectPc, ListenerPc, MonitorTells
<1>20. CASE Forbids
  BY <1>20 DEF Forbids, Goes, ConnectPc, ListenerPc, MonitorTells
<1>21. CASE Unregisters
  BY <1>21 DEF Unregisters, ConnectPc, ListenerPc, MonitorTells
<1>22. CASE Loses
  BY <1>2, <1>22 DEF Loses, clientVars, threadVars, MonitorTells
<1>23. CASE UNCHANGED <<Shared, threadVars>>
  BY <1>2, <1>23 DEF Shared, clientVars, threadVars, MonitorTells
<1>24. QED
  BY <1>5, <1>6, <1>7, <1>8, <1>9, <1>10, <1>11, <1>12, <1>13, <1>14, <1>15, <1>16, <1>17, <1>18, <1>19,
     <1>20, <1>21, <1>22, <1>23, StepIsOneOf DEF Base, CallerSteps, OtherSteps, ThreadSteps, MonitorSteps

LEMMA NextSurvive ==
  ASSUME Base, CachedMade, SingleInv, SurviveInv, [Next]_vars
  PROVE  SurviveInv'
<1> DEFINE Claim == SurviveInv'
<1>1. /\ Threads = Callers \cup Others /\ Callers \cap Others = {} /\ Monitor \in Others /\ Loops \subseteq Others
      /\ \A o \in Others : o \in Loops \/ o = Monitor
  BY ThreadFacts
<1>2. /\ pc[Monitor] = "dead" => kind = "subscriber" \/ early # {}
      /\ pc[Monitor] = "dropping" /\ listeners[self[Monitor]] = "missing" => self[Monitor] \in early
  BY DEF SurviveInv
<1>3. cached # None => listeners[cached] # "missing"
  BY DEF CachedMade
<1>4. pc[Monitor] = "told" => kind = "subscriber" \/ listeners[self[Monitor]] = "set"
  BY DEF SingleInv, MonitorTells
<1>5. /\ pc[Monitor] \in {"taking", "dropping"} => self[Monitor] \in Clients /\ self[Monitor] # None
      /\ listeners \in [Clients -> ListenerKinds]
  BY BaseFacts, NumberFacts, ThreadFacts DEF Base, Knows, Busy, ClosePc
<1>6. pc[Monitor] = "subscribing" => kind = "subscriber"
  BY ThreadFacts DEF SingleInv
<1> USE DEF Aside, SurviveInv
<1>7. ASSUME NEW u \in Callers, Alone(u) PROVE Claim
  BY <1>1, <1>7 DEF Alone, Shared, clientVars, Frame
<1>8. ASSUME NEW u \in Callers, Listens(u) PROVE Claim
  BY <1>1, <1>5, <1>8 DEF Listens, Goes, Frame
<1>9. ASSUME NEW u \in Callers, Saves(u) PROVE Claim
  BY <1>1, <1>9 DEF Saves, clientVars, Frame
<1>10. ASSUME NEW t \in Others, Aside(t) PROVE Claim
  BY <1>1, <1>10 DEF Aside, Shared, clientVars, Goes, Frame, Return, Connected
<1>11. ASSUME NEW t \in Others, Takes(t) PROVE Claim
  BY <1>1, <1>3, <1>5, <1>11 DEF Takes, Goes, Frame
<1>12. ASSUME NEW t \in Others, Drops(t) PROVE Claim
  BY <1>1, <1>12 DEF Drops, clientVars, Goes, Frame, Return
<1>13. ASSUME NEW t \in Others, Tells(t) PROVE Claim
  BY <1>1, <1>4, <1>5, <1>13 DEF Tells, Goes, Frame, Return, Raise
<1>14. ASSUME NEW t \in Others, Forgets(t) PROVE Claim
  BY <1>1, <1>14 DEF Forgets, clientVars, Goes, Frame, Connected
<1>15. ASSUME NEW t \in Threads, NEW c \in Clients, Connects(t, c) PROVE Claim
  BY <1>1, <1>15 DEF Connects, Frame
<1>16. ASSUME NEW t \in Threads, Assigns(t) PROVE Claim
  BY <1>1, <1>16 DEF Assigns, Goes, Frame
<1>17. ASSUME NEW t \in Threads, Registers(t) PROVE Claim
  BY <1>1, <1>17 DEF Registers, clientVars, Goes, Frame
<1>18. ASSUME NEW t \in Threads, Stores(t) PROVE Claim
  BY <1>1, <1>18 DEF Stores, clientVars, Goes, Frame
<1>19. ASSUME NEW t \in Threads, Subscribes(t) PROVE Claim
  BY <1>1, <1>19 DEF Subscribes, Shared, clientVars
<1>20. CASE Polls
  BY <1>20 DEF Polls, threadVars
<1>21. ASSUME NEW f \in Files, Dispatches(f) PROVE Claim
  BY <1>21 DEF Dispatches
<1>22. CASE Forbids
  BY <1>22 DEF Forbids, Goes
<1>23. CASE Unregisters
  BY <1>23 DEF Unregisters
<1>24. CASE Loses
  BY <1>24 DEF Loses, clientVars, threadVars
<1>25. CASE UNCHANGED <<Shared, threadVars>>
  BY <1>25 DEF Shared, clientVars, threadVars
<1> HIDE DEF SurviveInv
<1>26. QED
  BY <1>7, <1>8, <1>9, <1>10, <1>11, <1>12, <1>13, <1>14, <1>15, <1>16, <1>17, <1>18, <1>19, <1>20, <1>21,
     <1>22, <1>23, <1>24, <1>25, StepIsOneOf DEF Base, CallerSteps, OtherSteps, ThreadSteps, MonitorSteps

LEMMA NextSingle ==
  ASSUME Base, Apart, SingleInv, [Next]_vars
  PROVE  SingleInv'
  BY NextUnborn, NextUnsubscribing, NextTells, NextKind DEF SingleInv, Base

-----------------------------------------------------------------------------
(* What the listeners give, for clients of the three kinds.                *)

ListenerInv ==
  /\ Base
  /\ CachedMade /\ Apart
  /\ TakenInv /\ MakerInv /\ HeardInv /\ GoneInv
  /\ SingleInv /\ SurviveInv
LEMMA InitListenerInv == Init => ListenerInv
<1> SUFFICES ASSUME Init PROVE ListenerInv
  OBVIOUS
<1>1. PICK s \in Setups : kind = s.kind /\ limit = s.limit /\ ConnectionInit(s.callers)
  BY DEF Init
<1>2. Base
  BY InitBase DEF Base
<1>3. /\ \A t \in Threads : pc[t] \in {"poll", "unborn", "idle", "absent"} /\ self[t] = None
      /\ pc[Monitor] = "poll"
  BY <1>1 DEF ConnectionInit, Threads
<1>4. \A l \in Loops : pc[l] = "unborn"
  BY <1>1, ConnectionAssumption DEF ConnectionInit, Threads
<1>5. cached = None /\ opened = 0 /\ 1..opened = {}
  BY DEF Init, ConnectionInit
<1>6. \A u \in Callers : pc[u] \notin Computing
  BY <1>3, ThreadFacts DEF Computing
<1>7. CachedMade /\ Apart /\ MakerInv /\ HeardInv /\ GoneInv
  BY <1>5, <1>6 DEF CachedMade, Apart, MakerInv, HeardInv, GoneInv, Joined, Making, Computing
<1>8. \A x \in Others : pc[x] \notin After
  BY <1>3, ThreadFacts DEF After, ConnectPc, ListenerPc
<1>9. TakenInv
  BY <1>8 DEF TakenInv, After, Later, ListenerPc
<1>10. SingleInv /\ SurviveInv
  BY <1>3, <1>4 DEF SingleInv, SurviveInv, MonitorTells, ConnectPc, ListenerPc
<1>11. QED
  BY <1>2, <1>7, <1>9, <1>10 DEF ListenerInv

LEMMA NextListenerInv ==
  ASSUME ListenerInv, [Next]_vars
  PROVE  ListenerInv'
<1> USE DEF ListenerInv
<1>1. Base'
  BY NextBase
<1>2. CachedMade' /\ Apart'
  BY NextCachedMade, NextApart
<1>3. TakenInv'
  BY <1>1, NextTaken
<1>4. MakerInv' /\ HeardInv'
  BY NextMaker, NextHeard
<1>5. GoneInv'
  BY <1>1, NextGone
<1>6. SingleInv' /\ SurviveInv'
  BY NextSingle, NextSurvive
<1>7. QED
  BY <1>1, <1>2, <1>3, <1>4, <1>5, <1>6

\* At rest nobody is closing or making a client.
LEMMA RestingFacts ==
  ASSUME Base, Resting
  PROVE  /\ \A x \in Others : pc[x] \in {"poll", "dead", "unborn", "over", "recv"}
         /\ \A u \in Callers : pc[u] \in {"idle", "absent"}
  BY ThreadFacts DEF Resting

\* Two connections of a client.
LEMMA AgainIsTwo ==
  ASSUME Base, NEW c \in Made, Again(c)
  PROVE  Cardinality(Connections(c)) > 1
<1>1. PICK s \in Sockets \ {c} : owner[s] = c
  BY DEF Again
<1>2. c \in Sockets /\ owner[c] = c /\ MaxSockets \in Nat
  BY NumberFacts DEF Base, Made
<1>3. {c, s} \subseteq Connections(c)
  BY <1>1, <1>2 DEF Connections
<1>4. IsFiniteSet(Connections(c))
  <2>1. IsFiniteSet(Sockets)
    BY <1>2, FS_Interval DEF Sockets
  <2>2. QED
    BY <2>1, FS_Subset DEF Connections
<1>5. IsFiniteSet({c}) /\ Cardinality({c}) = 1
  BY FS_Singleton
<1>6. Cardinality({c, s}) = 2
  <2>1. Cardinality({c} \cup {s}) = Cardinality({c}) + 1
    BY <1>5, FS_AddElement
  <2>2. {c} \cup {s} = {c, s}
    OBVIOUS
  <2>3. QED
    BY <1>5, <2>1
<1>7. Cardinality({c, s}) <= Cardinality(Connections(c)) /\ Cardinality(Connections(c)) \in Nat
  BY <1>3, <1>4, FS_Subset, FS_CardinalityType
<1>8. QED
  BY <1>6, <1>7

LEMMA DroppedWhenDead == ListenerInv => DeadClientIsDropped
<1> SUFFICES ASSUME ListenerInv, Resting, cached # None, sock[cached] = None
             PROVE  cached \in early \/ Cardinality(Connections(cached)) > 1
  BY DEF DeadClientIsDropped
<1>1. Base /\ GoneInv
  BY DEF ListenerInv
<1>2. cached \in 1..opened /\ cached \in Made
  BY <1>1 DEF Base, NameInv, Made
<1>3. /\ \A x \in Others : pc[x] \notin Dropping
      /\ \A u \in Callers : ~Makes(u, cached)
  BY <1>1, RestingFacts DEF Dropping, Makes, Making, Computing
<1>4. Excused(cached)
  BY <1>1, <1>2, <1>3 DEF GoneInv, Gone, Past
<1>5. QED
  BY <1>1, <1>2, <1>4, AgainIsTwo DEF Excused

\* A dead client does not stay in the cache, but for one lost before it was
\* there and one that has been connected again (close() has forgotten its
\* listeners by then).
THEOREM DeadClientsLeave == Spec => []DeadClientIsDropped
<1>1. ListenerInv /\ [Next]_vars => ListenerInv'
  BY NextListenerInv
<1>2. QED
  BY InitListenerInv, <1>1, DroppedWhenDead, PTL DEF Spec

\* No loss of a client without subscription ends the monitor's thread, unless
\* the client was lost before it was in the cache.
THEOREM MonitorStaysAlive == Spec => []MonitorSurvives
<1>1. ListenerInv /\ [Next]_vars => ListenerInv'
  BY NextListenerInv
<1>2. ListenerInv => MonitorSurvives
  BY DEF ListenerInv, SurviveInv, MonitorSurvives
<1>3. QED
  BY InitListenerInv, <1>1, <1>2, PTL DEF Spec

-----------------------------------------------------------------------------
(* File numbers, which are used again, and the sockets they stand for.     *)

\* What the monitor has in hand.
InHand == batch \cup ({at} \ {None})
NumbersInv ==
  /\ \A s \in open, r \in 1..opened : r > s => file[r] # file[s]
  /\ pc[Monitor] = "poll" => at = None
  /\ \A f \in InHand : \E r \in 1..opened : file[r] = f
  /\ \A s \in open : file[s] \in InHand => Reused(s) \/ s \in lost

LEMMA ReusedLasts ==
  ASSUME Base, NEW c0 \in 1..opened, Reused(c0), [Next]_vars
  PROVE  Reused(c0)'
<1> DEFINE Claim == Reused(c0)'
<1>1. Reused(c0) /\ c0 \in 1..opened /\ c0 \in Sockets /\ c0 # opened + 1
      /\ \A r \in 1..(c0 - 1) : r \in Sockets /\ r # opened + 1
  <2>1. opened \in 0..MaxSockets /\ MaxSockets \in Nat
    BY NumberFacts DEF Base, TypeInv, TypeOK
  <2>2. QED
    BY <2>1 DEF Sockets
<1> USE DEF Reused
<1>2. ASSUME NEW u \in Callers, Alone(u) PROVE Claim
  BY <1>2 DEF Alone, Shared, socketVars
<1>3. ASSUME NEW u \in Callers, Listens(u) PROVE Claim
  BY <1>3 DEF Listens, socketVars
<1>4. ASSUME NEW u \in Callers, Saves(u) PROVE Claim
  BY <1>4 DEF Saves, socketVars
<1>5. ASSUME NEW t \in Others, Aside(t) PROVE Claim
  BY <1>5 DEF Aside, Shared, socketVars
<1>6. ASSUME NEW t \in Others, Takes(t) PROVE Claim
  BY <1>6 DEF Takes, socketVars
<1>7. ASSUME NEW t \in Others, Drops(t) PROVE Claim
  BY <1>7 DEF Drops
<1>8. ASSUME NEW t \in Others, Tells(t) PROVE Claim
  BY <1>8 DEF Tells, socketVars
<1>9. ASSUME NEW t \in Others, Forgets(t) PROVE Claim
  BY <1>9 DEF Forgets, socketVars
<1>10. ASSUME NEW t \in Threads, NEW c \in Clients, Connects(t, c) PROVE Claim
  BY <1>1, <1>10 DEF Connects
<1>11. ASSUME NEW t \in Threads, Assigns(t) PROVE Claim
  BY <1>11 DEF Assigns, socketVars
<1>12. ASSUME NEW t \in Threads, Registers(t) PROVE Claim
  BY <1>12 DEF Registers, socketVars
<1>13. ASSUME NEW t \in Threads, Stores(t) PROVE Claim
  BY <1>13 DEF Stores, socketVars
<1>14. ASSUME NEW t \in Threads, Subscribes(t) PROVE Claim
  BY <1>14 DEF Subscribes, Shared, socketVars
<1>15. CASE Polls
  BY <1>15 DEF Polls, socketVars
<1>16. ASSUME NEW f \in Files, Dispatches(f) PROVE Claim
  BY <1>16 DEF Dispatches, socketVars
<1>17. CASE Forbids
  BY <1>17 DEF Forbids, socketVars
<1>18. CASE Unregisters
  BY <1>18 DEF Unregisters, socketVars
<1>19. CASE Loses
  BY <1>19 DEF Loses
<1>20. CASE UNCHANGED <<Shared, threadVars>>
  BY <1>20 DEF Shared, socketVars
<1>21. QED
  BY <1>2, <1>3, <1>4, <1>5, <1>6, <1>7, <1>8, <1>9, <1>10, <1>11, <1>12, <1>13, <1>14, <1>15, <1>16, <1>17,
     <1>18, <1>19, <1>20, StepIsOneOf DEF Base, CallerSteps, OtherSteps, ThreadSteps, MonitorSteps

LEMMA PollAfter ==
  ASSUME Base, (pc[Monitor] = "poll" => at = None), [Next]_vars
  PROVE  pc'[Monitor] = "poll" => at' = None
<1> DEFINE Claim == pc'[Monitor] = "poll" => at' = None
<1>1. pc[Monitor] = "poll" => at = None
  OBVIOUS
<1>2. /\ Threads = Callers \cup Others /\ Callers \cap Others = {} /\ Monitor \in Others /\ Loops \subseteq Others
      /\ \A o \in Others : o \in Loops \/ o = Monitor
  BY ThreadFacts
<1> USE DEF Aside, Alone, Return, Raise, Connected
<1>3. ASSUME NEW u \in Callers, Alone(u) PROVE Claim
  BY <1>2, <1>3 DEF Alone, Shared, monitorVars, Frame
<1>4. ASSUME NEW u \in Callers, Listens(u) PROVE Claim
  BY <1>2, <1>4 DEF Listens, monitorVars, Goes, Frame
<1>5. ASSUME NEW u \in Callers, Saves(u) PROVE Claim
  BY <1>2, <1>5 DEF Saves, monitorVars, Frame
<1>6. ASSUME NEW t \in Others, Aside(t) PROVE Claim
  BY <1>2, <1>6 DEF Aside, Shared, monitorVars, Goes, Frame
<1>7. ASSUME NEW t \in Others, Takes(t) PROVE Claim
  BY <1>2, <1>7 DEF Takes, monitorVars, Goes, Frame
<1>8. ASSUME NEW t \in Others, Drops(t) PROVE Claim
  BY <1>2, <1>8 DEF Drops, Goes, Frame
<1>9. ASSUME NEW t \in Others, Tells(t) PROVE Claim
  BY <1>2, <1>9 DEF Tells, monitorVars, Goes, Frame
<1>10. ASSUME NEW t \in Others, Forgets(t) PROVE Claim
  BY <1>2, <1>10 DEF Forgets, monitorVars, Goes, Frame
<1>11. ASSUME NEW t \in Threads, NEW c \in Clients, Connects(t, c) PROVE Claim
  BY <1>2, <1>11 DEF Connects, monitorVars, Frame
<1>12. ASSUME NEW t \in Threads, Assigns(t) PROVE Claim
  BY <1>2, <1>12 DEF Assigns, monitorVars, Goes, Frame
<1>13. ASSUME NEW t \in Threads, Registers(t) PROVE Claim
  BY <1>2, <1>13 DEF Registers, Goes, Frame
<1>14. ASSUME NEW t \in Threads, Stores(t) PROVE Claim
  BY <1>2, <1>14 DEF Stores, Goes, Frame
<1>15. ASSUME NEW t \in Threads, Subscribes(t) PROVE Claim
  BY <1>2, <1>15 DEF Subscribes, Shared, monitorVars
<1>16. CASE Polls
  BY <1>16 DEF Polls
<1>17. ASSUME NEW f \in Files, Dispatches(f) PROVE Claim
  BY <1>17 DEF Dispatches
<1>18. CASE Forbids
  BY <1>18 DEF Forbids, Goes
<1>19. CASE Unregisters
  BY <1>19 DEF Unregisters
<1>20. CASE Loses
  BY <1>20 DEF Loses, monitorVars, threadVars
<1>21. CASE UNCHANGED <<Shared, threadVars>>
  BY <1>21 DEF Shared, monitorVars, threadVars
<1>22. QED
  BY <1>3, <1>4, <1>5, <1>6, <1>7, <1>8, <1>9, <1>10, <1>11, <1>12, <1>13, <1>14, <1>15, <1>16, <1>17,
     <1>18, <1>19, <1>20, <1>21, StepIsOneOf DEF Base, CallerSteps, OtherSteps, ThreadSteps, MonitorSteps

LEMMA InHandAfter ==
  ASSUME Base, (pc[Monitor] = "poll" => at = None), [Next]_vars
  PROVE  InHand' \subseteq InHand \/ Polls
<1> DEFINE Claim == InHand' \subseteq InHand \/ Polls
<1>1. pc[Monitor] = "poll" => at = None
  OBVIOUS
<1> USE DEF InHand
<1>2. ASSUME NEW u \in Callers, Alone(u) PROVE Claim
  BY <1>2 DEF Alone, Shared, monitorVars
<1>3. ASSUME NEW u \in Callers, Listens(u) PROVE Claim
  BY <1>3 DEF Listens, monitorVars
<1>4. ASSUME NEW u \in Callers, Saves(u) PROVE Claim
  BY <1>4 DEF Saves, monitorVars
<1>5. ASSUME NEW t \in Others, Aside(t) PROVE Claim
  BY <1>5 DEF Aside, Shared, monitorVars
<1>6. ASSUME NEW t \in Others, Takes(t) PROVE Claim
  BY <1>6 DEF Takes, monitorVars
<1>7. ASSUME NEW t \in Others, Drops(t) PROVE Claim
  BY <1>7 DEF Drops
<1>8. ASSUME NEW t \in Others, Tells(t) PROVE Claim
  BY <1>8 DEF Tells, monitorVars
<1>9. ASSUME NEW t \in Others, Forgets(t) PROVE Claim
  BY <1>9 DEF Forgets, monitorVars
<1>10. ASSUME NEW t \in Threads, NEW c \in Clients, Connects(t, c) PROVE Claim
  BY <1>10 DEF Connects, monitorVars
<1>11. ASSUME NEW t \in Threads, Assigns(t) PROVE Claim
  BY <1>11 DEF Assigns, monitorVars
<1>12. ASSUME NEW t \in Threads, Registers(t) PROVE Claim
  BY <1>12 DEF Registers
<1>13. ASSUME NEW t \in Threads, Stores(t) PROVE Claim
  BY <1>13 DEF Stores
<1>14. ASSUME NEW t \in Threads, Subscribes(t) PROVE Claim
  BY <1>14 DEF Subscribes, Shared, monitorVars
<1>15. CASE Polls
  BY <1>15 DEF Polls
<1>16. ASSUME NEW f \in Files, Dispatches(f) PROVE Claim
  BY <1>16 DEF Dispatches
<1>17. CASE Forbids
  BY <1>17 DEF Forbids, monitorVars
<1>18. CASE Unregisters
  BY <1>18 DEF Unregisters
<1>19. CASE Loses
  BY <1>19 DEF Loses, monitorVars
<1>20. CASE UNCHANGED <<Shared, threadVars>>
  BY <1>20 DEF Shared, monitorVars
<1>21. QED
  BY <1>2, <1>3, <1>4, <1>5, <1>6, <1>7, <1>8, <1>9, <1>10, <1>11, <1>12, <1>13, <1>14, <1>15, <1>16, <1>17,
     <1>18, <1>19, <1>20, StepIsOneOf DEF Base, CallerSteps, OtherSteps, ThreadSteps, MonitorSteps

LEMMA FilesKept ==
  ASSUME Base, [Next]_vars
  PROVE  /\ \A s \in 1..opened : file'[s] = file[s] /\ owner'[s] = owner[s]
         /\ lost \subseteq lost'
         /\ open' \subseteq open \/ \E x \in Threads, c \in Clients : Connects(x, c)
<1> DEFINE Claim ==
          /\ \A s \in 1..opened : file'[s] = file[s] /\ owner'[s] = owner[s]
          /\ lost \subseteq lost'
          /\ open' \subseteq open \/ \E x \in Threads, c \in Clients : Connects(x, c)
<1>1. \A s \in 1..opened : s \in Sockets /\ s # opened + 1
  BY NumberFacts DEF Base
<1>2. ASSUME NEW u \in Callers, Alone(u) PROVE Claim
  BY <1>2 DEF Alone, Shared, socketVars
<1>3. ASSUME NEW u \in Callers, Listens(u) PROVE Claim
  BY <1>3 DEF Listens, socketVars
<1>4. ASSUME NEW u \in Callers, Saves(u) PROVE Claim
  BY <1>4 DEF Saves, socketVars
<1>5. ASSUME NEW t \in Others, Aside(t) PROVE Claim
  BY <1>5 DEF Aside, Shared, socketVars
<1>6. ASSUME NEW t \in Others, Takes(t) PROVE Claim
  BY <1>6 DEF Takes, socketVars
<1>7. ASSUME NEW t \in Others, Drops(t) PROVE Claim
  BY <1>7 DEF Drops
<1>8. ASSUME NEW t \in Others, Tells(t) PROVE Claim
  BY <1>8 DEF Tells, socketVars
<1>9. ASSUME NEW t \in Others, Forgets(t) PROVE Claim
  BY <1>9 DEF Forgets, socketVars
<1>10. ASSUME NEW t \in Threads, NEW c \in Clients, Connects(t, c) PROVE Claim
  BY <1>1, <1>10 DEF Connects
<1>11. ASSUME NEW t \in Threads, Assigns(t) PROVE Claim
  BY <1>11 DEF Assigns, socketVars
<1>12. ASSUME NEW t \in Threads, Registers(t) PROVE Claim
  BY <1>12 DEF Registers, socketVars
<1>13. ASSUME NEW t \in Threads, Stores(t) PROVE Claim
  BY <1>13 DEF Stores, socketVars
<1>14. ASSUME NEW t \in Threads, Subscribes(t) PROVE Claim
  BY <1>14 DEF Subscribes, Shared, socketVars
<1>15. CASE Polls
  BY <1>15 DEF Polls, socketVars
<1>16. ASSUME NEW f \in Files, Dispatches(f) PROVE Claim
  BY <1>16 DEF Dispatches, socketVars
<1>17. CASE Forbids
  BY <1>17 DEF Forbids, socketVars
<1>18. CASE Unregisters
  BY <1>18 DEF Unregisters, socketVars
<1>19. CASE Loses
  BY <1>19 DEF Loses
<1>20. CASE UNCHANGED <<Shared, threadVars>>
  BY <1>20 DEF Shared, socketVars
<1>21. QED
  BY <1>2, <1>3, <1>4, <1>5, <1>6, <1>7, <1>8, <1>9, <1>10, <1>11, <1>12, <1>13, <1>14, <1>15, <1>16, <1>17,
     <1>18, <1>19, <1>20, StepIsOneOf DEF Base, CallerSteps, OtherSteps, ThreadSteps, MonitorSteps

\* The later of two sockets has the number of the other, if the other is closed.
LEMMA LaterNumber ==
  ASSUME Base, NumbersInv, NEW s \in open, NEW r \in 1..opened, r # s, file[r] = file[s]
  PROVE  Reused(s)
<1>1. s \in 1..opened /\ opened \in Nat
  BY BaseFacts, NumberFacts DEF Base
<1>2. ~(r > s)
  BY DEF NumbersInv
<1>3. r \in 1..(s - 1)
  BY <1>1, <1>2
<1>4. QED
  BY <1>3 DEF Reused

LEMMA NextNumbers ==
  ASSUME Base, Base', NumbersInv, [Next]_vars
  PROVE  NumbersInv'
<1>1. /\ \A s \in 1..opened : file'[s] = file[s] /\ s \in 1..opened' /\ s # opened + 1
      /\ lost \subseteq lost' /\ open \subseteq 1..opened /\ opened \in Nat
      /\ opened' = opened \/ opened' = opened + 1
  BY FilesKept, OpenedAfter, BaseFacts, NumberFacts DEF Base
<1>2. /\ \A r \in 1..opened' : r \in 1..opened \/ r = opened + 1
      /\ \A s \in 1..opened : ~(s > opened + 1)
  BY <1>1
<1>3. /\ \A s \in open' : s \in open \/ (s = opened + 1 /\ opened' = opened + 1 /\ file'[s] = file'[opened + 1])
      /\ opened' = opened + 1 =>
           /\ \A s \in open : file'[opened + 1] # file[s]
           /\ UNCHANGED <<batch, at>>
  <2>1. CASE \E x \in Threads, c \in Clients : Connects(x, c)
    BY <2>1 DEF Connects, monitorVars
  <2>2. CASE ~\E x \in Threads, c \in Clients : Connects(x, c)
    BY <1>1, <2>2, FilesKept, OpenedAfter
  <2>3. QED
    BY <2>1, <2>2
<1>4. ASSUME NEW s \in open', NEW r \in 1..opened', r > s PROVE file'[r] # file'[s]
  <2>1. CASE s \in open /\ r \in 1..opened
    BY <1>1, <1>4, <2>1 DEF NumbersInv
  <2>2. CASE s \in open /\ r = opened + 1
    <3>1. opened' = opened + 1
      BY <1>1, <2>2
    <3>2. QED
      BY <1>1, <1>3, <2>2, <3>1
  <2>3. CASE s = opened + 1
    <3>1. opened + 1 \in Nat /\ r \in Nat
      BY <1>1
    <3>2. QED
      BY <1>2, <1>4, <2>3
  <2>4. QED
    BY <1>2, <1>3, <2>1, <2>2, <2>3
<1>5. pc'[Monitor] = "poll" => at' = None
  BY PollAfter DEF NumbersInv
<1>6. CASE InHand' \subseteq InHand
  <2>1. \A f \in InHand' : \E r \in 1..opened' : file'[r] = f
    BY <1>1, <1>6 DEF NumbersInv
  <2>2. ASSUME NEW s \in open', file'[s] \in InHand' PROVE Reused(s)' \/ s \in lost'
    <3>1. CASE s \in open
      <4>1. PICK c \in 1..opened : c = s
        BY <1>1, <3>1
      <4>2. Reused(c) \/ c \in lost
        BY <1>1, <1>6, <2>2, <3>1, <4>1 DEF NumbersInv
      <4>3. CASE Reused(c)
        <5>1. Reused(c)'
          BY <4>3, ReusedLasts
        <5>2. QED
          BY <4>1, <5>1
      <4>4. QED
        BY <1>1, <4>1, <4>2, <4>3
    <3>2. CASE s = opened + 1 /\ opened' = opened + 1
      <4>1. PICK r \in 1..opened : file[r] = file'[s]
        BY <1>6, <2>2 DEF NumbersInv
      <4>2. r \in 1..(s - 1) /\ file'[r] = file'[s]
        BY <1>1, <3>2, <4>1
      <4>3. QED
        BY <4>2 DEF Reused
    <3>3. QED
      BY <1>3, <3>1, <3>2
  <2>3. QED
    BY <1>4, <1>5, <2>1, <2>2 DEF NumbersInv
<1>7. CASE Polls
  <2>1. /\ batch' = {file[s] : s \in Edges} /\ at' = None /\ pc[Monitor] = "poll" /\ at = None
        /\ UNCHANGED <<open, opened, file, lost>>
    BY <1>7 DEF Polls, NumbersInv, socketVars
  <2>2. \A e \in Edges : e \in 1..opened /\ e \in lost
    BY BaseFacts DEF Edges
  <2>3. InHand' = {file[s] : s \in Edges}
    BY <2>1 DEF InHand
  <2>4. ASSUME NEW s \in open, file[s] \in InHand' PROVE Reused(s) \/ s \in lost
    <3>1. PICK e \in Edges : file[s] = file[e]
      BY <2>3, <2>4
    <3>2. QED
      BY <2>2, <3>1, LaterNumber
  <2>5. \A s : Reused(s)' <=> Reused(s)
    BY <2>1 DEF Reused
  <2>6. \A f \in InHand' : \E r \in 1..opened' : file'[r] = f
    BY <2>1, <2>2, <2>3
  <2>7. \A s \in open' : file'[s] \in InHand' => Reused(s)' \/ s \in lost'
    BY <2>1, <2>4, <2>5
  <2>8. QED
    BY <1>4, <1>5, <2>6, <2>7 DEF NumbersInv
<1>8. QED
  BY <1>6, <1>7, InHandAfter DEF NumbersInv

-----------------------------------------------------------------------------
(* A new socket, which only its thread knows.                              *)

Private(x, m) ==
  /\ m \in open \ watched
  /\ \A u \in Threads \ {x} : mine[u] # m
  /\ \A f \in Files : callbacks[f] # m
  /\ \A c \in Clients : sock[c] # m
FreshInv ==
  \A x \in Threads : pc[x] = "assign" =>
    /\ Private(x, mine[x])
    /\ file[mine[x]] \in InHand => Reused(mine[x])
\* No two threads connect the same socket.

LEMMA AssignAfter ==
  ASSUME Base, NEW x \in Threads, [Next]_vars
  PROVE  pc'[x] = "assign" => (pc[x] = "assign" /\ self'[x] = self[x] /\ mine'[x] = mine[x]) \/
         \E c \in Clients : Connects(x, c)
<1> DEFINE Claim == pc'[x] = "assign" => (pc[x] = "assign" /\ self'[x] = self[x] /\ mine'[x] = mine[x]) \/
             \E c \in Clients : Connects(x, c)
<1>1. /\ Threads = Callers \cup Others /\ Callers \cap Others = {} /\ Monitor \in Others /\ Loops \subseteq Others
      /\ \A o \in Others : o \in Loops \/ o = Monitor
  BY ThreadFacts
<1> USE DEF Aside, Alone, Return, Raise, Connected
<1>2. ASSUME NEW u \in Callers, Alone(u) PROVE Claim
  BY <1>2 DEF Alone, Frame
<1>3. ASSUME NEW u \in Callers, Listens(u) PROVE Claim
  BY <1>3 DEF Listens, Goes, Frame
<1>4. ASSUME NEW u \in Callers, Saves(u) PROVE Claim
  BY <1>4 DEF Saves, Frame
<1>5. ASSUME NEW t \in Others, Aside(t) PROVE Claim
  BY <1>5 DEF Aside, Goes, Frame
<1>6. ASSUME NEW t \in Others, Takes(t) PROVE Claim
  BY <1>6 DEF Takes, Goes, Frame
<1>7. ASSUME NEW t \in Others, Drops(t) PROVE Claim
  BY <1>7 DEF Drops, Goes, Frame
<1>8. ASSUME NEW t \in Others, Tells(t) PROVE Claim
  BY <1>8 DEF Tells, Goes, Frame
<1>9. ASSUME NEW t \in Others, Forgets(t) PROVE Claim
  BY <1>9 DEF Forgets, Goes, Frame
<1>10. ASSUME NEW t \in Threads, NEW c \in Clients, Connects(t, c) PROVE Claim
  BY <1>10 DEF Connects, Frame
<1>11. ASSUME NEW t \in Threads, Assigns(t) PROVE Claim
  BY <1>11 DEF Assigns, Goes, Frame
<1>12. ASSUME NEW t \in Threads, Registers(t) PROVE Claim
  BY <1>12 DEF Registers, Goes, Frame
<1>13. ASSUME NEW t \in Threads, Stores(t) PROVE Claim
  BY <1>13 DEF Stores, Goes, Frame
<1>14. ASSUME NEW t \in Threads, Subscribes(t) PROVE Claim
  BY <1>14 DEF Subscribes
<1>15. CASE Polls
  BY <1>15 DEF Polls, threadVars
<1>16. ASSUME NEW f \in Files, Dispatches(f) PROVE Claim
  BY <1>16 DEF Dispatches, Frame
<1>17. CASE Forbids
  BY <1>17 DEF Forbids, Goes, Frame
<1>18. CASE Unregisters
  BY <1>18 DEF Unregisters, Frame
<1>19. CASE Loses
  BY <1>19 DEF Loses, threadVars
<1>20. CASE UNCHANGED <<Shared, threadVars>>
  BY <1>20 DEF threadVars
<1>21. QED
  BY <1>2, <1>3, <1>4, <1>5, <1>6, <1>7, <1>8, <1>9, <1>10, <1>11, <1>12, <1>13, <1>14, <1>15, <1>16, <1>17,
     <1>18, <1>19, <1>20, StepIsOneOf DEF Base, CallerSteps, OtherSteps, ThreadSteps, MonitorSteps

LEMMA PrivateLasts ==
  ASSUME Base, NEW x \in Threads, NEW m \in 1..opened, pc[x] = "assign", mine[x] = m,
         pc'[x] = "assign", Private(x, m), [Next]_vars
  PROVE  Private(x, m)'
<1> DEFINE Claim == Private(x, m)'
<1>1. /\ Threads = Callers \cup Others /\ Callers \cap Others = {} /\ Monitor \in Others /\ Loops \subseteq Others
      /\ \A o \in Others : o \in Loops \/ o = Monitor
  BY ThreadFacts
<1>2. pc[x] = "assign" /\ mine[x] = m /\ pc'[x] = "assign" /\ m # None /\ m # opened + 1
  BY NumberFacts DEF Base
<1>3. /\ \A t \in Threads : self[t] \in Clients \cup {None} /\ (pc[t] \in Busy => self[t] \in Clients)
  BY BaseFacts, NumberFacts DEF Base, Knows
<1> USE DEF Private, Aside, Alone
<1>4. ASSUME NEW u \in Callers, Alone(u) PROVE Claim
  BY <1>2, <1>4 DEF Alone, Shared, clientVars, socketVars, monitorVars, Frame
<1>5. ASSUME NEW u \in Callers, Listens(u) PROVE Claim
  BY <1>5 DEF Listens, socketVars, monitorVars, Goes, Frame
<1>6. ASSUME NEW u \in Callers, Saves(u) PROVE Claim
  BY <1>2, <1>6 DEF Saves, clientVars, socketVars, monitorVars, Frame
<1>7. ASSUME NEW t \in Others, Aside(t) PROVE Claim
  BY <1>2, <1>3, <1>7 DEF Aside, Shared, clientVars, socketVars, monitorVars, Goes, Frame, Busy, ClosePc
<1>8. ASSUME NEW t \in Others, Takes(t) PROVE Claim
  BY <1>2, <1>8 DEF Takes, socketVars, monitorVars, Goes, Frame
<1>9. ASSUME NEW t \in Others, Drops(t) PROVE Claim
  BY <1>1, <1>2, <1>9 DEF Drops, clientVars, Goes, Frame
<1>10. ASSUME NEW t \in Others, Tells(t) PROVE Claim
  BY <1>10 DEF Tells, socketVars, monitorVars, Goes, Frame
<1>11. ASSUME NEW t \in Others, Forgets(t) PROVE Claim
  BY <1>11 DEF Forgets, clientVars, socketVars, monitorVars, Goes, Frame
<1>12. ASSUME NEW t \in Threads, NEW c \in Clients, Connects(t, c) PROVE Claim
  BY <1>2, <1>12 DEF Connects, monitorVars, Frame
<1>13. ASSUME NEW t \in Threads, Assigns(t) PROVE Claim
  BY <1>13 DEF Assigns, socketVars, monitorVars, Goes, Frame
<1>14. ASSUME NEW t \in Threads, Registers(t) PROVE Claim
  BY <1>14 DEF Registers, clientVars, socketVars, Goes, Frame
<1>15. ASSUME NEW t \in Threads, Stores(t) PROVE Claim
  BY <1>2, <1>15 DEF Stores, clientVars, socketVars, Goes, Frame
<1>16. ASSUME NEW t \in Threads, Subscribes(t) PROVE Claim
  BY <1>16 DEF Subscribes, Shared, clientVars, socketVars, monitorVars
<1>17. CASE Polls
  BY <1>17 DEF Polls, clientVars, socketVars, threadVars
<1>18. ASSUME NEW f \in Files, Dispatches(f) PROVE Claim
  BY <1>18 DEF Dispatches, clientVars, socketVars, Frame
<1>19. CASE Forbids
  BY <1>19 DEF Forbids, socketVars, monitorVars, Goes, Frame
<1>20. CASE Unregisters
  BY <1>2, <1>20 DEF Unregisters, clientVars, socketVars, Frame
<1>21. CASE Loses
  BY <1>21 DEF Loses, clientVars, monitorVars, threadVars
<1>22. CASE UNCHANGED <<Shared, threadVars>>
  BY <1>22 DEF Shared, clientVars, socketVars, monitorVars, threadVars
<1>23. QED
  BY <1>4, <1>5, <1>6, <1>7, <1>8, <1>9, <1>10, <1>11, <1>12, <1>13, <1>14, <1>15, <1>16, <1>17, <1>18,
     <1>19, <1>20, <1>21, <1>22, StepIsOneOf DEF Base, CallerSteps, OtherSteps, ThreadSteps, MonitorSteps

LEMMA NextFresh ==
  ASSUME Base, NumbersInv, FreshInv, [Next]_vars
  PROVE  FreshInv'
<1>1. /\ \A s \in 1..opened : file'[s] = file[s]
      /\ \A x \in Threads : pc[x] = "assign" => mine[x] \in 1..opened
  BY FilesKept, BaseFacts DEF Knows, HasMine, Connecting
<1>2. ASSUME NEW x \in Threads, pc'[x] = "assign", pc[x] = "assign", mine'[x] = mine[x]
      PROVE  Private(x, mine[x])' /\ (file'[mine'[x]] \in InHand' => Reused(mine[x])')
  <2>1. PICK m \in 1..opened : m = mine[x]
    BY <1>1, <1>2
  <2>2. Private(x, m)'
    BY <1>2, <2>1, PrivateLasts DEF FreshInv
  <2>3. Reused(m) => Reused(m)'
    BY ReusedLasts
  <2>4. CASE InHand' \subseteq InHand
    BY <1>1, <1>2, <2>1, <2>2, <2>3, <2>4 DEF FreshInv
  <2>5. CASE Polls
    <3>1. InHand' = {file[e] : e \in Edges}
      BY <2>5 DEF Polls, InHand, NumbersInv
    <3>2. m \in open \ watched
      BY <1>2, <2>1 DEF FreshInv, Private
    <3>3. ASSUME NEW e \in Edges, file[e] = file[m] PROVE Reused(m)
      <4>1. e # m /\ e \in 1..opened
        BY <3>2, BaseFacts DEF Edges
      <4>2. QED
        BY <3>2, <3>3, <4>1, LaterNumber
    <3>4. QED
      BY <1>1, <1>2, <2>1, <2>2, <2>3, <3>1, <3>3
  <2>6. QED
    BY <2>4, <2>5, InHandAfter DEF NumbersInv
<1>3. ASSUME NEW x \in Threads, NEW c \in Clients, Connects(x, c)
      PROVE  Private(x, mine[x])' /\ (file'[mine'[x]] \in InHand' => Reused(mine[x])')
  <2>1. PICK m \in Nat : m = opened + 1
    BY NumberFacts DEF Base
  <2>2. /\ mine'[x] = m /\ open' = open \cup {m} /\ UNCHANGED <<sock, callbacks, watched, batch, at>>
        /\ \A u \in Threads \ {x} : mine'[u] = mine[u]
    BY <1>3, <2>1 DEF Connects, Frame, monitorVars
  <2>3. m \notin 1..opened /\ m # None
    BY <2>1, NumberFacts DEF Base
  <2>4. /\ watched \subseteq 1..opened
        /\ \A u \in Threads : mine[u] \in 1..opened \cup {None}
        /\ \A d \in Clients : sock[d] \in 1..opened \cup {None}
        /\ \A f \in Files : callbacks[f] \in 1..opened \cup {None}
    BY BaseFacts, CallbackFacts DEF Base
  <2>5. Private(x, m)'
    BY <2>2, <2>3, <2>4 DEF Private
  <2>6. ASSUME file'[m] \in InHand' PROVE Reused(m)'
    <3>1. PICK r \in 1..opened : file[r] = file'[m]
      BY <2>2, <2>6 DEF InHand, NumbersInv
    <3>2. r \in 1..(m - 1)
      BY <2>1, NumberFacts DEF Base
    <3>3. QED
      BY <1>1, <3>1, <3>2 DEF Reused
  <2>7. QED
    BY <2>2, <2>5, <2>6
<1>4. QED
  BY <1>2, <1>3, AssignAfter DEF FreshInv

-----------------------------------------------------------------------------
(* The socket of a client is open, and no thread is about to close it.     *)

SockInv ==
  \A c \in Clients : sock[c] # None =>
    /\ sock[c] \in open
    /\ \A t \in Threads : pc[t] = "dropping" => mine[t] # sock[c]

LEMMA NextSock ==
  ASSUME Base, FreshInv, SockInv, [Next]_vars
  PROVE  SockInv'
<1> DEFINE Claim == SockInv'
<1>1. /\ Threads = Callers \cup Others /\ Callers \cap Others = {} /\ Monitor \in Others /\ Loops \subseteq Others
      /\ \A o \in Others : o \in Loops \/ o = Monitor
  BY ThreadFacts
<1>2. \A t \in Threads :
        /\ pc[t] = "assign" => Private(t, mine[t])
        /\ pc[t] \in HasMine => mine[t] # None /\ owner[mine[t]] = self[t]
  BY BaseFacts DEF FreshInv, Knows
<1>3. \A c \in Clients : sock[c] # None => owner[sock[c]] = c /\ sock[c] # opened + 1
  BY BaseFacts, NumberFacts DEF Base
<1>4. SockInv
  OBVIOUS
<1> USE DEF SockInv, Private, Aside, Alone
<1>5. ASSUME NEW u \in Callers, Alone(u) PROVE Claim
  BY <1>5 DEF Alone, Shared, clientVars, socketVars, Frame
<1>6. ASSUME NEW u \in Callers, Listens(u) PROVE Claim
  BY <1>6 DEF Listens, socketVars, Goes, Frame
<1>7. ASSUME NEW u \in Callers, Saves(u) PROVE Claim
  BY <1>7 DEF Saves, clientVars, socketVars, Frame
<1>8. ASSUME NEW t \in Others, Aside(t) PROVE Claim
  BY <1>8 DEF Aside, Shared, clientVars, socketVars, Goes, Frame, Return, Connected
<1>9. ASSUME NEW t \in Others, Takes(t) PROVE Claim
  <2>1. /\ sock' = [c \in Clients |-> IF c = self[t] THEN None ELSE sock[c]]
        /\ open' = open /\ pc[t] = "taking"
        /\ \A x \in Threads : mine'[x] = mine[x] /\ (x # t => pc'[x] = pc[x])
    BY <1>9 DEF Takes, Goes, Frame, socketVars
  <2>2. ASSUME NEW c \in Clients, sock'[c] # None
        PROVE  sock'[c] = sock[c] /\ mine[t] # sock[c]
    BY <1>1, <1>2, <1>3, <2>1, <2>2 DEF HasMine
  <2>3. QED
    BY <2>1, <2>2
<1>10. ASSUME NEW t \in Others, Drops(t) PROVE Claim
  BY <1>1, <1>10 DEF Drops, clientVars, Goes, Frame
<1>11. ASSUME NEW t \in Others, Tells(t) PROVE Claim
  BY <1>11 DEF Tells, socketVars, Goes, Frame, Return, Raise
<1>12. ASSUME NEW t \in Others, Forgets(t) PROVE Claim
  BY <1>12 DEF Forgets, clientVars, socketVars, Goes, Frame, Connected
<1>13. ASSUME NEW t \in Threads, NEW c \in Clients, Connects(t, c) PROVE Claim
  BY <1>13 DEF Connects, Frame
<1>14. ASSUME NEW t \in Threads, Assigns(t) PROVE Claim
  <2>1. /\ sock' = [c \in Clients |-> IF c = self[t] THEN mine[t] ELSE sock[c]]
        /\ open' = open /\ pc[t] = "assign" /\ pc'[t] = "register"
        /\ \A x \in Threads : mine'[x] = mine[x] /\ (x # t => pc'[x] = pc[x])
    BY <1>14 DEF Assigns, Goes, Frame, socketVars
  <2>2. mine[t] \in open /\ \A x \in Threads \ {t} : mine[x] # mine[t]
    BY <1>2, <2>1
  <2>3. QED
    BY <2>1, <2>2
<1>15. ASSUME NEW t \in Threads, Registers(t) PROVE Claim
  BY <1>15 DEF Registers, clientVars, socketVars, Goes, Frame
<1>16. ASSUME NEW t \in Threads, Stores(t) PROVE Claim
  BY <1>16 DEF Stores, clientVars, socketVars, Goes, Frame
<1>17. ASSUME NEW t \in Threads, Subscribes(t) PROVE Claim
  BY <1>17 DEF Subscribes, Shared, clientVars, socketVars
<1>18. CASE Polls
  BY <1>18 DEF Polls, clientVars, socketVars, threadVars
<1>19. ASSUME NEW f \in Files, Dispatches(f) PROVE Claim
  BY <1>19 DEF Dispatches, clientVars, socketVars, Frame
<1>20. CASE Forbids
  BY <1>20 DEF Forbids, socketVars, Goes, Frame
<1>21. CASE Unregisters
  BY <1>21 DEF Unregisters, clientVars, socketVars, Frame
<1>22. CASE Loses
  BY <1>22 DEF Loses, clientVars, threadVars
<1>23. CASE UNCHANGED <<Shared, threadVars>>
  BY <1>23 DEF Shared, clientVars, socketVars, threadVars
<1>24. QED
  BY <1>5, <1>6, <1>7, <1>8, <1>9, <1>10, <1>11, <1>12, <1>13, <1>14, <1>15, <1>16, <1>17, <1>18, <1>19,
     <1>20, <1>21, <1>22, <1>23, StepIsOneOf DEF Base, CallerSteps, OtherSteps, ThreadSteps, MonitorSteps

-----------------------------------------------------------------------------
(* The entry of a connected client stays, or its thread is to make it.     *)

Entered(s) == callbacks[file[s]] = s /\ s \in watched
Registering(s) ==
  \E x \in Threads : mine[x] = s /\ (pc[x] = "register" \/ (pc[x] = "store" /\ s \in watched))
Handles(c) == pc[Monitor] \in {"called", "closing", "taking"} /\ self[Monitor] = c
WatchInv ==
  \A c \in Clients : LET s == sock[c] IN s # None =>
    \/ Reused(s) \/ s \in missed
    \/ (Entered(s) \/ Registering(s)) /\ (at = file[s] => Handles(c))

LEMMA SockAfter ==
  ASSUME Base, NEW c0 \in Clients, [Next]_vars
  PROVE  sock'[c0] # None => sock'[c0] = sock[c0] \/ \E x \in Threads : Assigns(x) /\ self[x] = c0
<1> DEFINE Claim == sock'[c0] # None => sock'[c0] = sock[c0] \/ \E x \in Threads : Assigns(x) /\ self[x] = c0
<1>1. c0 \in Clients
  OBVIOUS
<1>2. ASSUME NEW u \in Callers, Alone(u) PROVE Claim
  BY <1>2 DEF Alone, Shared, clientVars
<1>3. ASSUME NEW u \in Callers, Listens(u) PROVE Claim
  BY <1>3 DEF Listens
<1>4. ASSUME NEW u \in Callers, Saves(u) PROVE Claim
  BY <1>4 DEF Saves, clientVars
<1>5. ASSUME NEW t \in Others, Aside(t) PROVE Claim
  BY <1>5 DEF Aside, Shared, clientVars
<1>6. ASSUME NEW t \in Others, Takes(t) PROVE Claim
  BY <1>6 DEF Takes
<1>7. ASSUME NEW t \in Others, Drops(t) PROVE Claim
  BY <1>7 DEF Drops, clientVars
<1>8. ASSUME NEW t \in Others, Tells(t) PROVE Claim
  BY <1>8 DEF Tells
<1>9. ASSUME NEW t \in Others, Forgets(t) PROVE Claim
  BY <1>9 DEF Forgets, clientVars
<1>10. ASSUME NEW t \in Threads, NEW c \in Clients, Connects(t, c) PROVE Claim
  BY <1>10 DEF Connects
<1>11. ASSUME NEW t \in Threads, Assigns(t) PROVE Claim
  BY <1>11 DEF Assigns
<1>12. ASSUME NEW t \in Threads, Registers(t) PROVE Claim
  BY <1>12 DEF Registers, clientVars
<1>13. ASSUME NEW t \in Threads, Stores(t) PROVE Claim
  BY <1>13 DEF Stores, clientVars
<1>14. ASSUME NEW t \in Threads, Subscribes(t) PROVE Claim
  BY <1>14 DEF Subscribes, Shared, clientVars
<1>15. CASE Polls
  BY <1>15 DEF Polls, clientVars
<1>16. ASSUME NEW f \in Files, Dispatches(f) PROVE Claim
  BY <1>16 DEF Dispatches, clientVars
<1>17. CASE Forbids
  BY <1>17 DEF Forbids
<1>18. CASE Unregisters
  BY <1>18 DEF Unregisters, clientVars
<1>19. CASE Loses
  BY <1>19 DEF Loses, clientVars
<1>20. CASE UNCHANGED <<Shared, threadVars>>
  BY <1>20 DEF Shared, clientVars
<1>21. QED
  BY <1>2, <1>3, <1>4, <1>5, <1>6, <1>7, <1>8, <1>9, <1>10, <1>11, <1>12, <1>13, <1>14, <1>15, <1>16, <1>17,
     <1>18, <1>19, <1>20, StepIsOneOf DEF Base, CallerSteps, OtherSteps, ThreadSteps, MonitorSteps

LEMMA EntryLasts ==
  ASSUME Base, NEW s0 \in 1..opened, s0 \in open,
         \A r \in 1..opened : r # s0 => file[r] # file[s0],
         \A x \in Threads : pc[x] = "dropping" => mine[x] # s0,
         Entered(s0) \/ Registering(s0),
         at = file[s0] => pc[Monitor] # "unregister", [Next]_vars
  PROVE  s0 \in missed' \/ (callbacks'[file[s0]] = s0 /\ s0 \in watched') \/ Registering(s0)'
<1> DEFINE Claim == s0 \in missed' \/ (callbacks'[file[s0]] = s0 /\ s0 \in watched') \/ Registering(s0)'
<1>1. /\ Threads = Callers \cup Others /\ Callers \cap Others = {} /\ Monitor \in Others /\ Loops \subseteq Others
      /\ \A o \in Others : o \in Loops \/ o = Monitor
  BY ThreadFacts
<1>2. /\ s0 \in 1..opened /\ s0 \in open /\ s0 # None /\ file[s0] \in Files
      /\ \A r \in 1..opened : r # s0 => file[r] # file[s0]
      /\ \A x \in Threads : pc[x] = "dropping" => mine[x] # s0
      /\ at = file[s0] => pc[Monitor] # "unregister"
  BY NumberFacts DEF Base
<1>3. Entered(s0) \/ Registering(s0)
  OBVIOUS
<1>4. \A x \in Threads : pc[x] \in HasMine => mine[x] \in 1..opened
  BY BaseFacts DEF Knows
<1> USE DEF Entered, Registering, Aside, Alone
<1>5. ASSUME NEW u \in Callers, Alone(u) PROVE Claim
  BY <1>5 DEF Alone, Shared, monitorVars, Frame
<1>6. ASSUME NEW u \in Callers, Listens(u) PROVE Claim
  BY <1>6 DEF Listens, monitorVars, Goes, Frame
<1>7. ASSUME NEW u \in Callers, Saves(u) PROVE Claim
  BY <1>7 DEF Saves, monitorVars, Frame
<1>8. ASSUME NEW t \in Others, Aside(t) PROVE Claim
  BY <1>8 DEF Aside, Shared, monitorVars, Goes, Frame
<1>9. ASSUME NEW t \in Others, Takes(t) PROVE Claim
  BY <1>9 DEF Takes, monitorVars, Goes, Frame
<1>10. ASSUME NEW t \in Others, Drops(t) PROVE Claim
  BY <1>1, <1>2, <1>4, <1>10 DEF Drops, Goes, Frame, HasMine
<1>11. ASSUME NEW t \in Others, Tells(t) PROVE Claim
  BY <1>11 DEF Tells, monitorVars, Goes, Frame
<1>12. ASSUME NEW t \in Others, Forgets(t) PROVE Claim
  BY <1>12 DEF Forgets, monitorVars, Goes, Frame
<1>13. ASSUME NEW t \in Threads, NEW c \in Clients, Connects(t, c) PROVE Claim
  BY <1>13 DEF Connects, monitorVars, Frame
<1>14. ASSUME NEW t \in Threads, Assigns(t) PROVE Claim
  BY <1>14 DEF Assigns, monitorVars, Goes, Frame
<1>15. ASSUME NEW t \in Threads, Registers(t) PROVE Claim
  BY <1>15 DEF Registers, Goes, Frame
<1>16. ASSUME NEW t \in Threads, Stores(t) PROVE Claim
  BY <1>2, <1>4, <1>16 DEF Stores, Goes, Frame, HasMine, Connecting
<1>17. ASSUME NEW t \in Threads, Subscribes(t) PROVE Claim
  BY <1>17 DEF Subscribes, Shared, monitorVars
<1>18. CASE Polls
  BY <1>18 DEF Polls, threadVars
<1>19. ASSUME NEW f \in Files, Dispatches(f) PROVE Claim
  BY <1>19 DEF Dispatches, Frame
<1>20. CASE Forbids
  BY <1>20 DEF Forbids, monitorVars, Goes, Frame
<1>21. CASE Unregisters
  BY <1>2, <1>21 DEF Unregisters, Frame
<1>22. CASE Loses
  BY <1>22 DEF Loses, monitorVars, threadVars
<1>23. CASE UNCHANGED <<Shared, threadVars>>
  BY <1>23 DEF Shared, monitorVars, threadVars
<1>24. QED
  BY <1>5, <1>6, <1>7, <1>8, <1>9, <1>10, <1>11, <1>12, <1>13, <1>14, <1>15, <1>16, <1>17, <1>18, <1>19,
     <1>20, <1>21, <1>22, <1>23, StepIsOneOf DEF Base, CallerSteps, OtherSteps, ThreadSteps, MonitorSteps

LEMMA AtLasts ==
  ASSUME Base, NEW c0 \in Clients, NEW s0 \in 1..opened, s0 \in open, sock[c0] = s0,
         \A r \in 1..opened : r # s0 => file[r] # file[s0],
         at = file[s0] => Handles(c0), [Next]_vars
  PROVE  sock'[c0] = s0 => s0 \in missed' \/ (at' = file[s0] => Handles(c0)')
<1> DEFINE Claim == sock'[c0] = s0 => s0 \in missed' \/ (at' = file[s0] => Handles(c0)')
<1>1. /\ Threads = Callers \cup Others /\ Callers \cap Others = {} /\ Monitor \in Others /\ Loops \subseteq Others
      /\ \A o \in Others : o \in Loops \/ o = Monitor
  BY ThreadFacts
<1>2. /\ s0 \in 1..opened /\ s0 \in open /\ s0 # None /\ file[s0] # None /\ sock[c0] = s0 /\
        owner[s0] = c0 /\ c0 \in Clients
      /\ \A r \in 1..opened : r # s0 => file[r] # file[s0]
      /\ \A f \in Files : callbacks[f] # None => callbacks[f] \in 1..opened /\ file[callbacks[f]] = f
      /\ at = file[s0] => Handles(c0)
  BY BaseFacts, NumberFacts, CallbackFacts DEF Base
<1> USE DEF Handles, Aside, Alone
<1>3. ASSUME NEW u \in Callers, Alone(u) PROVE Claim
  BY <1>1, <1>3 DEF Alone, Shared, monitorVars, Frame
<1>4. ASSUME NEW u \in Callers, Listens(u) PROVE Claim
  BY <1>1, <1>4 DEF Listens, monitorVars, Goes, Frame
<1>5. ASSUME NEW u \in Callers, Saves(u) PROVE Claim
  BY <1>1, <1>5 DEF Saves, monitorVars, Frame
<1>6. ASSUME NEW t \in Others, Aside(t) PROVE Claim
  BY <1>1, <1>2, <1>6 DEF Aside, Shared, monitorVars, Goes, Frame
<1>7. ASSUME NEW t \in Others, Takes(t) PROVE Claim
  BY <1>1, <1>2, <1>7 DEF Takes, monitorVars, Goes, Frame
<1>8. ASSUME NEW t \in Others, Drops(t) PROVE Claim
  BY <1>1, <1>8 DEF Drops, Goes, Frame
<1>9. ASSUME NEW t \in Others, Tells(t) PROVE Claim
  BY <1>1, <1>9 DEF Tells, monitorVars, Goes, Frame
<1>10. ASSUME NEW t \in Others, Forgets(t) PROVE Claim
  BY <1>1, <1>10 DEF Forgets, monitorVars, Goes, Frame
<1>11. ASSUME NEW t \in Threads, NEW c \in Clients, Connects(t, c) PROVE Claim
  BY <1>1, <1>11 DEF Connects, monitorVars, Frame
<1>12. ASSUME NEW t \in Threads, Assigns(t) PROVE Claim
  BY <1>1, <1>12 DEF Assigns, monitorVars, Goes, Frame
<1>13. ASSUME NEW t \in Threads, Registers(t) PROVE Claim
  BY <1>1, <1>13 DEF Registers, Goes, Frame
<1>14. ASSUME NEW t \in Threads, Stores(t) PROVE Claim
  BY <1>1, <1>14 DEF Stores, Goes, Frame
<1>15. ASSUME NEW t \in Threads, Subscribes(t) PROVE Claim
  BY <1>1, <1>15 DEF Subscribes, Shared, monitorVars
<1>16. CASE Polls
  BY <1>16 DEF Polls
<1>17. ASSUME NEW f \in Files, Dispatches(f) PROVE Claim
  BY <1>2, <1>17 DEF Dispatches
<1>18. CASE Forbids
  BY <1>18 DEF Forbids, monitorVars, Goes
<1>19. CASE Unregisters
  BY <1>2, <1>19 DEF Unregisters
<1>20. CASE Loses
  BY <1>20 DEF Loses, monitorVars, threadVars
<1>21. CASE UNCHANGED <<Shared, threadVars>>
  BY <1>21 DEF Shared, monitorVars, threadVars
<1>22. QED
  BY <1>3, <1>4, <1>5, <1>6, <1>7, <1>8, <1>9, <1>10, <1>11, <1>12, <1>13, <1>14, <1>15, <1>16, <1>17,
     <1>18, <1>19, <1>20, <1>21, StepIsOneOf DEF Base, CallerSteps, OtherSteps, ThreadSteps, MonitorSteps

LEMMA MissedLasts ==
  ASSUME Base, [Next]_vars
  PROVE  missed \subseteq missed'
<1> DEFINE Claim == missed \subseteq missed'
<1>1. ASSUME NEW u \in Callers, Alone(u) PROVE Claim
  BY <1>1 DEF Alone, Shared, monitorVars
<1>2. ASSUME NEW u \in Callers, Listens(u) PROVE Claim
  BY <1>2 DEF Listens, monitorVars
<1>3. ASSUME NEW u \in Callers, Saves(u) PROVE Claim
  BY <1>3 DEF Saves, monitorVars
<1>4. ASSUME NEW t \in Others, Aside(t) PROVE Claim
  BY <1>4 DEF Aside, Shared, monitorVars
<1>5. ASSUME NEW t \in Others, Takes(t) PROVE Claim
  BY <1>5 DEF Takes, monitorVars
<1>6. ASSUME NEW t \in Others, Drops(t) PROVE Claim
  BY <1>6 DEF Drops
<1>7. ASSUME NEW t \in Others, Tells(t) PROVE Claim
  BY <1>7 DEF Tells, monitorVars
<1>8. ASSUME NEW t \in Others, Forgets(t) PROVE Claim
  BY <1>8 DEF Forgets, monitorVars
<1>9. ASSUME NEW t \in Threads, NEW c \in Clients, Connects(t, c) PROVE Claim
  BY <1>9 DEF Connects, monitorVars
<1>10. ASSUME NEW t \in Threads, Assigns(t) PROVE Claim
  BY <1>10 DEF Assigns, monitorVars
<1>11. ASSUME NEW t \in Threads, Registers(t) PROVE Claim
  BY <1>11 DEF Registers
<1>12. ASSUME NEW t \in Threads, Stores(t) PROVE Claim
  BY <1>12 DEF Stores
<1>13. ASSUME NEW t \in Threads, Subscribes(t) PROVE Claim
  BY <1>13 DEF Subscribes, Shared, monitorVars
<1>14. CASE Polls
  BY <1>14 DEF Polls
<1>15. ASSUME NEW f \in Files, Dispatches(f) PROVE Claim
  BY <1>15 DEF Dispatches
<1>16. CASE Forbids
  BY <1>16 DEF Forbids, monitorVars
<1>17. CASE Unregisters
  BY <1>17 DEF Unregisters
<1>18. CASE Loses
  BY <1>18 DEF Loses, monitorVars
<1>19. CASE UNCHANGED <<Shared, threadVars>>
  BY <1>19 DEF Shared, monitorVars
<1>20. QED
  BY <1>1, <1>2, <1>3, <1>4, <1>5, <1>6, <1>7, <1>8, <1>9, <1>10, <1>11, <1>12, <1>13, <1>14, <1>15, <1>16,
     <1>17, <1>18, <1>19, StepIsOneOf DEF Base, CallerSteps, OtherSteps, ThreadSteps, MonitorSteps

LEMMA NextWatch ==
  ASSUME Base, NumbersInv, FreshInv, SockInv, WatchInv, [Next]_vars
  PROVE  WatchInv'
<1> SUFFICES ASSUME NEW c \in Clients, sock'[c] # None, ~Reused(sock[c])', sock'[c] \notin missed'
             PROVE  /\ (Entered(sock[c]) \/ Registering(sock[c]))'
                    /\ at' = file'[sock'[c]] => Handles(c)'
  BY DEF WatchInv
<1>1. \A s \in 1..opened : file'[s] = file[s]
  BY FilesKept
<1>2. ASSUME NEW x \in Threads, Assigns(x), self[x] = c
      PROVE  /\ Registering(sock[c])'
             /\ at' = file'[sock'[c]] => Handles(c)'
  <2>1. /\ pc[x] = "assign" /\ pc'[x] = "register" /\ mine'[x] = mine[x] /\ sock'[c] = mine[x]
        /\ UNCHANGED <<file, at, missed>>
    BY <1>2 DEF Assigns, Goes, socketVars, monitorVars
  <2>2. mine[x] \in 1..opened
    BY <2>1, BaseFacts
  <2>3. Registering(sock[c])'
    BY <2>1 DEF Registering
  <2>4. ~Reused(mine[x])
    BY <2>1 DEF Reused
  <2>5. file[mine[x]] \notin InHand
    BY <2>1, <2>4 DEF FreshInv
  <2>6. file[mine[x]] # None
    BY <2>2, NumberFacts DEF Base
  <2>7. QED
    BY <2>1, <2>3, <2>5, <2>6 DEF InHand
<1>3. CASE sock'[c] = sock[c]
  <2>1. PICK s \in 1..opened : s = sock[c]
    BY <1>3, BaseFacts
  <2>2. s \in open /\ s # None /\ \A x \in Threads : pc[x] = "dropping" => mine[x] # s
    BY <1>3, <2>1 DEF SockInv
  <2>3. ~Reused(s)
    <3>1. ~Reused(s)'
      BY <1>3, <2>1
    <3>2. QED
      BY <3>1, ReusedLasts
  <2>4. s \notin missed' /\ s \notin missed
    <3>1. missed \subseteq missed'
      BY MissedLasts
    <3>2. QED
      BY <1>3, <2>1, <3>1
  <2>5. (Entered(s) \/ Registering(s)) /\ (at = file[s] => Handles(c))
    BY <2>1, <2>2, <2>3, <2>4 DEF WatchInv
  <2>6. \A r \in 1..opened : r # s => file[r] # file[s]
    BY <2>2, <2>3, LaterNumber
  <2>7. at = file[s] => pc[Monitor] # "unregister"
    BY <2>5 DEF Handles
  <2>8. (callbacks'[file[s]] = s /\ s \in watched') \/ Registering(s)'
    BY <2>2, <2>4, <2>5, <2>6, <2>7, EntryLasts
  <2>9. at' = file[s] => Handles(c)'
    BY <1>3, <2>1, <2>2, <2>5, <2>6, AtLasts
  <2>10. (Entered(s) \/ Registering(s))'
    BY <1>1, <2>8 DEF Entered
  <2>11. QED
    BY <1>1, <1>3, <2>1, <2>9, <2>10
<1>4. QED
  BY <1>2, <1>3, SockAfter

WatchingInv ==
  /\ Base
  /\ NumbersInv /\ FreshInv /\ SockInv /\ WatchInv
LEMMA InitWatchingInv == Init => WatchingInv
<1> SUFFICES ASSUME Init PROVE WatchingInv
  OBVIOUS
<1>1. PICK s \in Setups : ConnectionInit(s.callers)
  BY DEF Init
<1>2. Base
  BY InitBase DEF Base
<1>3. \A x \in Threads : pc[x] \in {"poll", "unborn", "idle", "absent"}
  BY <1>1 DEF ConnectionInit
<1>4. open = {} /\ batch = {} /\ at = None /\ \A c \in Clients : sock[c] = None
  BY <1>1 DEF ConnectionInit
<1>5. NumbersInv
  BY <1>4 DEF NumbersInv, InHand
<1>6. FreshInv /\ SockInv /\ WatchInv
  BY <1>3, <1>4 DEF FreshInv, SockInv, WatchInv
<1>7. QED
  BY <1>2, <1>5, <1>6 DEF WatchingInv

LEMMA NextWatchingInv ==
  ASSUME WatchingInv, [Next]_vars
  PROVE  WatchingInv'
<1> USE DEF WatchingInv
<1>1. Base'
  BY NextBase
<1>2. NumbersInv' /\ FreshInv' /\ SockInv' /\ WatchInv'
  BY <1>1, NextNumbers, NextFresh, NextSock, NextWatch
<1>3. QED
  BY <1>1, <1>2

LEMMA WatchedAtRest == WatchingInv => ConnectedIsWatched
<1> SUFFICES ASSUME WatchingInv, Resting, NEW c \in Clients, sock[c] # None,
                    ~Reused(sock[c]), sock[c] \notin missed
             PROVE  callbacks[file[sock[c]]] = sock[c] /\ sock[c] \in watched
  BY DEF ConnectedIsWatched
<1>1. Base /\ (Entered(sock[c]) \/ Registering(sock[c]))
  BY DEF WatchingInv, WatchInv
<1>2. \A x \in Threads : pc[x] # "register" /\ pc[x] # "store"
  BY <1>1, RestingFacts, ThreadFacts
<1>3. QED
  BY <1>1, <1>2 DEF Entered, Registering

\* At rest the monitor's entry and epoll agree on every connected client, but
\* for a number used before and for an event that came before the entry.
THEOREM ConnectedStaysWatched == Spec => []ConnectedIsWatched
<1>1. WatchingInv /\ [Next]_vars => WatchingInv'
  BY NextWatchingInv
<1>2. QED
  BY InitWatchingInv, <1>1, WatchedAtRest, PTL DEF Spec

-----------------------------------------------------------------------------
(* The first connection of a client is closed before there is another,     *)
(* and, if its number is its own, only when it is lost.                    *)

\* Where a thread gets to once it has closed the client's socket.
Closed == {"listener", "told"} \cup ConnectPc \cup ListenerPc
FirstOnly == \A c \in open : owner[c] = c => ~Again(c)
ClosedInv == \A x \in Others : pc[x] \in Closed => self[x] \notin open
\* Thread x is not about to close the first connection of client c.
Spares(x, c) ==
  /\ pc[x] \in {"called", "closing"} => sock[c] # c
  /\ pc[x] \in {"taking", "dropping"} => mine[x] # c
SparesInv == \A x \in Others : LET c == self[x] IN c \in open =>
  Reused(c) \/ c \in lost \/ Spares(x, c)

LEMMA ClosedAfter ==
  ASSUME Base, NEW x \in Others, [Next]_vars
  PROVE  pc'[x] \in Closed =>
           \/ pc[x] \in Closed /\ self'[x] = self[x]
           \/ pc[x] = "dropping" /\ self'[x] = self[x] /\ open' = open \ {mine[x]}
<1> DEFINE Claim == pc'[x] \in Closed =>
           \/ pc[x] \in Closed /\ self'[x] = self[x]
           \/ pc[x] = "dropping" /\ self'[x] = self[x] /\ open' = open \ {mine[x]}
<1>1. /\ Threads = Callers \cup Others /\ Callers \cap Others = {} /\ Monitor \in Others /\ Loops \subseteq Others
      /\ \A o \in Others : o \in Loops \/ o = Monitor
  BY ThreadFacts
<1> USE DEF Aside, Return, Raise, Connected
<1>2. ASSUME NEW u \in Callers, Alone(u) PROVE Claim
  BY <1>1, <1>2 DEF Alone, Frame
<1>3. ASSUME NEW u \in Callers, Listens(u) PROVE Claim
  BY <1>1, <1>3 DEF Listens, Goes, Frame
<1>4. ASSUME NEW u \in Callers, Saves(u) PROVE Claim
  BY <1>1, <1>4 DEF Saves, Frame
<1>5. ASSUME NEW t \in Others, Aside(t) PROVE Claim
  BY <1>1, <1>5 DEF Aside, Goes, Frame, Closed, ConnectPc, ListenerPc
<1>6. ASSUME NEW t \in Others, Takes(t) PROVE Claim
  BY <1>1, <1>6 DEF Takes, Goes, Frame, Closed, ConnectPc, ListenerPc
<1>7. ASSUME NEW t \in Others, Drops(t) PROVE Claim
  BY <1>1, <1>7 DEF Drops, Goes, Frame
<1>8. ASSUME NEW t \in Others, Tells(t) PROVE Claim
  BY <1>1, <1>8 DEF Tells, Goes, Frame, Closed
<1>9. ASSUME NEW t \in Others, Forgets(t) PROVE Claim
  BY <1>1, <1>9 DEF Forgets, Goes, Frame, Closed, ListenerPc
<1>10. ASSUME NEW t \in Threads, NEW c \in Clients, Connects(t, c) PROVE Claim
  BY <1>1, <1>10 DEF Connects, Frame, Closed, ListenerPc
<1>11. ASSUME NEW t \in Threads, Assigns(t) PROVE Claim
  BY <1>1, <1>11 DEF Assigns, Goes, Frame, Closed, ConnectPc
<1>12. ASSUME NEW t \in Threads, Registers(t) PROVE Claim
  BY <1>1, <1>12 DEF Registers, Goes, Frame, Closed, ConnectPc
<1>13. ASSUME NEW t \in Threads, Stores(t) PROVE Claim
  BY <1>1, <1>13 DEF Stores, Goes, Frame, Closed, ConnectPc
<1>14. ASSUME NEW t \in Threads, Subscribes(t) PROVE Claim
  BY <1>1, <1>14 DEF Subscribes, Closed, ConnectPc, ListenerPc
<1>15. CASE Polls
  BY <1>15 DEF Polls, threadVars
<1>16. ASSUME NEW f \in Files, Dispatches(f) PROVE Claim
  BY <1>1, <1>16 DEF Dispatches, Frame, Closed, ConnectPc, ListenerPc
<1>17. CASE Forbids
  BY <1>1, <1>17 DEF Forbids, Goes, Frame, Closed, ConnectPc, ListenerPc
<1>18. CASE Unregisters
  BY <1>1, <1>18 DEF Unregisters, Frame, Closed, ConnectPc, ListenerPc
<1>19. CASE Loses
  BY <1>19 DEF Loses, threadVars
<1>20. CASE UNCHANGED <<Shared, threadVars>>
  BY <1>20 DEF threadVars
<1>21. QED
  BY <1>2, <1>3, <1>4, <1>5, <1>6, <1>7, <1>8, <1>9, <1>10, <1>11, <1>12, <1>13, <1>14, <1>15, <1>16, <1>17,
     <1>18, <1>19, <1>20, StepIsOneOf DEF Base, CallerSteps, OtherSteps, ThreadSteps, MonitorSteps

LEMMA OpenAfter ==
  ASSUME Base, [Next]_vars
  PROVE  \A s \in 1..opened : s \in open' => s \in open
<1> DEFINE Claim == \A s \in 1..opened : s \in open' => s \in open
<1>1. opened + 1 \notin 1..opened
  BY NumberFacts DEF Base
<1>2. ASSUME NEW u \in Callers, Alone(u) PROVE Claim
  BY <1>2 DEF Alone, Shared, socketVars
<1>3. ASSUME NEW u \in Callers, Listens(u) PROVE Claim
  BY <1>3 DEF Listens, socketVars
<1>4. ASSUME NEW u \in Callers, Saves(u) PROVE Claim
  BY <1>4 DEF Saves, socketVars
<1>5. ASSUME NEW t \in Others, Aside(t) PROVE Claim
  BY <1>5 DEF Aside, Shared, socketVars
<1>6. ASSUME NEW t \in Others, Takes(t) PROVE Claim
  BY <1>6 DEF Takes, socketVars
<1>7. ASSUME NEW t \in Others, Drops(t) PROVE Claim
  BY <1>7 DEF Drops
<1>8. ASSUME NEW t \in Others, Tells(t) PROVE Claim
  BY <1>8 DEF Tells, socketVars
<1>9. ASSUME NEW t \in Others, Forgets(t) PROVE Claim
  BY <1>9 DEF Forgets, socketVars
<1>10. ASSUME NEW t \in Threads, NEW c \in Clients, Connects(t, c) PROVE Claim
  BY <1>1, <1>10 DEF Connects
<1>11. ASSUME NEW t \in Threads, Assigns(t) PROVE Claim
  BY <1>11 DEF Assigns, socketVars
<1>12. ASSUME NEW t \in Threads, Registers(t) PROVE Claim
  BY <1>12 DEF Registers, socketVars
<1>13. ASSUME NEW t \in Threads, Stores(t) PROVE Claim
  BY <1>13 DEF Stores, socketVars
<1>14. ASSUME NEW t \in Threads, Subscribes(t) PROVE Claim
  BY <1>14 DEF Subscribes, Shared, socketVars
<1>15. CASE Polls
  BY <1>15 DEF Polls, socketVars
<1>16. ASSUME NEW f \in Files, Dispatches(f) PROVE Claim
  BY <1>16 DEF Dispatches, socketVars
<1>17. CASE Forbids
  BY <1>17 DEF Forbids, socketVars
<1>18. CASE Unregisters
  BY <1>18 DEF Unregisters, socketVars
<1>19. CASE Loses
  BY <1>19 DEF Loses
<1>20. CASE UNCHANGED <<Shared, threadVars>>
  BY <1>20 DEF Shared, socketVars
<1>21. QED
  BY <1>2, <1>3, <1>4, <1>5, <1>6, <1>7, <1>8, <1>9, <1>10, <1>11, <1>12, <1>13, <1>14, <1>15, <1>16, <1>17,
     <1>18, <1>19, <1>20, StepIsOneOf DEF Base, CallerSteps, OtherSteps, ThreadSteps, MonitorSteps

\* A connection of a client whose first one is open is that one.
LEMMA OpenIsFirst ==
  ASSUME Base, FirstOnly, NEW s \in 1..opened, owner[s] \in open
  PROVE  s = owner[s]
<1>1. owner[owner[s]] = owner[s] /\ s \in Sockets
  BY NumberFacts DEF Base
<1>2. ~Again(owner[s])
  BY <1>1 DEF FirstOnly
<1>3. QED
  BY <1>1, <1>2 DEF Again

LEMMA OwnerAfter ==
  ASSUME Base, [Next]_vars
  PROVE  owner' = owner \/ \E x \in Threads, c \in Clients : Connects(x, c)
<1> DEFINE Claim == owner' = owner \/ \E x \in Threads, c \in Clients : Connects(x, c)
<1>1. ASSUME NEW u \in Callers, Alone(u) PROVE Claim
  BY <1>1 DEF Alone, Shared, socketVars
<1>2. ASSUME NEW u \in Callers, Listens(u) PROVE Claim
  BY <1>2 DEF Listens, socketVars
<1>3. ASSUME NEW u \in Callers, Saves(u) PROVE Claim
  BY <1>3 DEF Saves, socketVars
<1>4. ASSUME NEW t \in Others, Aside(t) PROVE Claim
  BY <1>4 DEF Aside, Shared, socketVars
<1>5. ASSUME NEW t \in Others, Takes(t) PROVE Claim
  BY <1>5 DEF Takes, socketVars
<1>6. ASSUME NEW t \in Others, Drops(t) PROVE Claim
  BY <1>6 DEF Drops
<1>7. ASSUME NEW t \in Others, Tells(t) PROVE Claim
  BY <1>7 DEF Tells, socketVars
<1>8. ASSUME NEW t \in Others, Forgets(t) PROVE Claim
  BY <1>8 DEF Forgets, socketVars
<1>9. ASSUME NEW t \in Threads, NEW c \in Clients, Connects(t, c) PROVE Claim
  BY <1>9
<1>10. ASSUME NEW t \in Threads, Assigns(t) PROVE Claim
  BY <1>10 DEF Assigns, socketVars
<1>11. ASSUME NEW t \in Threads, Registers(t) PROVE Claim
  BY <1>11 DEF Registers, socketVars
<1>12. ASSUME NEW t \in Threads, Stores(t) PROVE Claim
  BY <1>12 DEF Stores, socketVars
<1>13. ASSUME NEW t \in Threads, Subscribes(t) PROVE Claim
  BY <1>13 DEF Subscribes, Shared, socketVars
<1>14. CASE Polls
  BY <1>14 DEF Polls, socketVars
<1>15. ASSUME NEW f \in Files, Dispatches(f) PROVE Claim
  BY <1>15 DEF Dispatches, socketVars
<1>16. CASE Forbids
  BY <1>16 DEF Forbids, socketVars
<1>17. CASE Unregisters
  BY <1>17 DEF Unregisters, socketVars
<1>18. CASE Loses
  BY <1>18 DEF Loses
<1>19. CASE UNCHANGED <<Shared, threadVars>>
  BY <1>19 DEF Shared, socketVars
<1>20. QED
  BY <1>1, <1>2, <1>3, <1>4, <1>5, <1>6, <1>7, <1>8, <1>9, <1>10, <1>11, <1>12, <1>13, <1>14, <1>15, <1>16,
     <1>17, <1>18, <1>19, StepIsOneOf DEF Base, CallerSteps, OtherSteps, ThreadSteps, MonitorSteps

LEMMA NextFirstOnly ==
  ASSUME Base, FirstOnly, ClosedInv, [Next]_vars
  PROVE  FirstOnly'
<1>1. /\ opened + 1 \notin 1..opened /\ opened + 1 # None /\ open \subseteq 1..opened
      /\ \A s \in Sockets : owner[s] = None \/ (owner[s] \in 1..opened /\ s \in 1..opened)
      /\ \A s \in 1..opened : s \in Sockets /\ owner[s] # None
  <2>1. \A s \in Sockets : s > opened => owner[s] = None
    BY DEF Base, TypeInv
  <2>2. QED
    BY <2>1, BaseFacts, NumberFacts DEF Base
<1>2. ASSUME NEW x \in Threads, NEW c \in Clients, Connects(x, c) PROVE FirstOnly'
  <2>1. /\ open' = open \cup {opened + 1} /\ owner'[opened + 1] = c
        /\ \A s \in Sockets \ {opened + 1} : owner'[s] = owner[s]
        /\ IF x \in Callers THEN c = opened + 1 ELSE pc[x] = "reconnect" /\ c = self[x]
    BY <1>2 DEF Connects
  <2>2. c \notin open
    BY <1>1, <2>1, ThreadFacts DEF ClosedInv, Closed, ListenerPc
  <2>3. ASSUME NEW d \in open', owner'[d] = d, NEW s \in Sockets \ {d}, owner'[s] = d PROVE FALSE
    <3>1. CASE d = opened + 1
      BY <1>1, <2>1, <2>3, <3>1
    <3>2. CASE d \in open
      <4>1. s # opened + 1
        BY <2>1, <2>2, <2>3
      <4>2. d # opened + 1 /\ d \in Sockets
        BY <1>1, <3>2
      <4>3. owner[d] = d /\ owner[s] = d
        BY <2>1, <2>3, <4>1, <4>2
      <4>4. QED
        BY <3>2, <4>3 DEF FirstOnly, Again
    <3>3. QED
      BY <2>1, <3>1, <3>2
  <2>4. QED
    BY <2>3 DEF FirstOnly, Again
<1>3. CASE \A x \in Threads, c \in Clients : ~Connects(x, c)
  <2>1. owner' = owner /\ open' \subseteq open
    BY <1>3, OwnerAfter, FilesKept
  <2>2. QED
    BY <2>1 DEF FirstOnly, Again
<1>4. QED
  BY <1>2, <1>3

LEMMA NextClosed ==
  ASSUME Base, FirstOnly, ClosedInv, [Next]_vars
  PROVE  ClosedInv'
<1> SUFFICES ASSUME NEW x \in Others, pc'[x] \in Closed PROVE self'[x] \notin open'
  BY DEF ClosedInv
<1>1. CASE pc[x] \in Closed /\ self'[x] = self[x]
  <2>1. self[x] \in 1..opened /\ self[x] \notin open
    BY <1>1, BaseFacts, ThreadFacts DEF ClosedInv, Closed, Knows, Busy, ClosePc
  <2>2. QED
    BY <1>1, <2>1, OpenAfter
<1>2. CASE pc[x] = "dropping" /\ self'[x] = self[x] /\ open' = open \ {mine[x]}
  <2>1. mine[x] \in 1..opened /\ owner[mine[x]] = self[x]
    BY <1>2, BaseFacts, ThreadFacts DEF Knows, HasMine
  <2>2. self[x] \in open => mine[x] = self[x]
    BY <2>1, OpenIsFirst
  <2>3. QED
    BY <1>2, <2>2
<1>3. QED
  BY <1>1, <1>2, ClosedAfter

LEMMA SelfAfter ==
  ASSUME Base, NEW x \in Others, [Next]_vars
  PROVE  self'[x] \in 1..opened \cup {None}
<1> DEFINE Claim == self'[x] \in 1..opened \cup {None}
<1>1. /\ Threads = Callers \cup Others /\ Callers \cap Others = {} /\ Monitor \in Others /\ Loops \subseteq Others
      /\ \A o \in Others : o \in Loops \/ o = Monitor
  BY ThreadFacts
<1>2. /\ \A t \in Threads : self[t] \in 1..opened \cup {None}
      /\ \A f \in Files : callbacks[f] # None => owner[callbacks[f]] \in 1..opened
  BY BaseFacts, CallbackFacts DEF Base
<1> USE DEF Aside, Alone
<1>3. ASSUME NEW u \in Callers, Alone(u) PROVE Claim
  BY <1>1, <1>2, <1>3 DEF Alone, Frame
<1>4. ASSUME NEW u \in Callers, Listens(u) PROVE Claim
  BY <1>1, <1>2, <1>4 DEF Listens, Goes, Frame
<1>5. ASSUME NEW u \in Callers, Saves(u) PROVE Claim
  BY <1>1, <1>2, <1>5 DEF Saves, Frame
<1>6. ASSUME NEW t \in Others, Aside(t) PROVE Claim
  BY <1>1, <1>2, <1>6 DEF Aside, Goes, Frame
<1>7. ASSUME NEW t \in Others, Takes(t) PROVE Claim
  BY <1>1, <1>2, <1>7 DEF Takes, Goes, Frame
<1>8. ASSUME NEW t \in Others, Drops(t) PROVE Claim
  BY <1>1, <1>2, <1>8 DEF Drops, Goes, Frame
<1>9. ASSUME NEW t \in Others, Tells(t) PROVE Claim
  BY <1>1, <1>2, <1>9 DEF Tells, Goes, Frame
<1>10. ASSUME NEW t \in Others, Forgets(t) PROVE Claim
  BY <1>1, <1>2, <1>10 DEF Forgets, Goes, Frame
<1>11. ASSUME NEW t \in Threads, NEW c \in Clients, Connects(t, c) PROVE Claim
  BY <1>1, <1>2, <1>11 DEF Connects, Frame
<1>12. ASSUME NEW t \in Threads, Assigns(t) PROVE Claim
  BY <1>1, <1>2, <1>12 DEF Assigns, Goes, Frame
<1>13. ASSUME NEW t \in Threads, Registers(t) PROVE Claim
  BY <1>1, <1>2, <1>13 DEF Registers, Goes, Frame
<1>14. ASSUME NEW t \in Threads, Stores(t) PROVE Claim
  BY <1>1, <1>2, <1>14 DEF Stores, Goes, Frame
<1>15. ASSUME NEW t \in Threads, Subscribes(t) PROVE Claim
  BY <1>1, <1>2, <1>15 DEF Subscribes
<1>16. CASE Polls
  BY <1>1, <1>2, <1>16 DEF Polls, threadVars
<1>17. ASSUME NEW f \in Files, Dispatches(f) PROVE Claim
  BY <1>1, <1>2, <1>17 DEF Dispatches, Frame
<1>18. CASE Forbids
  BY <1>1, <1>2, <1>18 DEF Forbids, Goes, Frame
<1>19. CASE Unregisters
  BY <1>1, <1>2, <1>19 DEF Unregisters, Frame
<1>20. CASE Loses
  BY <1>1, <1>2, <1>20 DEF Loses, threadVars
<1>21. CASE UNCHANGED <<Shared, threadVars>>
  BY <1>1, <1>2, <1>21 DEF threadVars
<1>22. QED
  BY <1>3, <1>4, <1>5, <1>6, <1>7, <1>8, <1>9, <1>10, <1>11, <1>12, <1>13, <1>14, <1>15, <1>16, <1>17,
     <1>18, <1>19, <1>20, <1>21, StepIsOneOf DEF Base, CallerSteps, OtherSteps, ThreadSteps, MonitorSteps

LEMMA SparesLasts ==
  ASSUME Base, NEW x \in Others, NEW c0 \in 1..opened, c0 \in open \ lost, self[x] = c0 => Spares(x, c0),
         \A u \in Threads : pc[u] = "assign" /\ self[u] = c0 => mine[u] # c0 \/ self[x] # c0,
         \A f \in batch : callbacks[f] # None => owner[callbacks[f]] # c0,
         \A s \in 1..opened : owner[s] = c0 => s = c0, [Next]_vars
  PROVE  self'[x] = c0 => Spares(x, c0)'
<1> DEFINE Claim == self'[x] = c0 => Spares(x, c0)'
<1>1. /\ Threads = Callers \cup Others /\ Callers \cap Others = {} /\ Monitor \in Others /\ Loops \subseteq Others
      /\ \A o \in Others : o \in Loops \/ o = Monitor
  BY ThreadFacts
<1>2. /\ c0 \in 1..opened /\ c0 \in open \ lost /\ c0 # None /\ c0 \in Clients
      /\ \A s \in 1..opened : owner[s] = c0 => s = c0
      /\ \A u \in Threads : pc[u] = "assign" /\ self[u] = c0 => mine[u] # c0 \/ self[x] # c0
      /\ \A f \in batch : callbacks[f] # None => owner[callbacks[f]] # c0
  BY NumberFacts DEF Base
<1>3. self[x] = c0 => Spares(x, c0)
  OBVIOUS
<1>4. \A u \in Threads : pc[u] \in HasMine => mine[u] \in 1..opened /\ owner[mine[u]] = self[u]
  BY BaseFacts DEF Knows
<1> USE DEF Aside, Alone, Return, Raise, Connected, HasMine, Spares
<1>5. ASSUME NEW u \in Callers, Alone(u) PROVE Claim
  BY <1>1, <1>5 DEF Alone, Shared, clientVars, Frame
<1>6. ASSUME NEW u \in Callers, Listens(u) PROVE Claim
  BY <1>1, <1>6 DEF Listens, Goes, Frame
<1>7. ASSUME NEW u \in Callers, Saves(u) PROVE Claim
  BY <1>1, <1>7 DEF Saves, clientVars, Frame
<1>8. ASSUME NEW t \in Others, Aside(t) PROVE Claim
  BY <1>1, <1>2, <1>4, <1>8 DEF Aside, Shared, clientVars, Goes, Frame
<1>9. ASSUME NEW t \in Others, Takes(t) PROVE Claim
  BY <1>1, <1>2, <1>9 DEF Takes, Goes, Frame
<1>10. ASSUME NEW t \in Others, Drops(t) PROVE Claim
  BY <1>1, <1>10 DEF Drops, clientVars, Goes, Frame
<1>11. ASSUME NEW t \in Others, Tells(t) PROVE Claim
  BY <1>1, <1>11 DEF Tells, Goes, Frame
<1>12. ASSUME NEW t \in Others, Forgets(t) PROVE Claim
  BY <1>1, <1>12 DEF Forgets, clientVars, Goes, Frame
<1>13. ASSUME NEW t \in Threads, NEW c \in Clients, Connects(t, c) PROVE Claim
  BY <1>1, <1>13 DEF Connects, Frame
<1>14. ASSUME NEW t \in Threads, Assigns(t) PROVE Claim
  BY <1>1, <1>2, <1>14 DEF Assigns, Goes, Frame
<1>15. ASSUME NEW t \in Threads, Registers(t) PROVE Claim
  BY <1>1, <1>15 DEF Registers, clientVars, Goes, Frame
<1>16. ASSUME NEW t \in Threads, Stores(t) PROVE Claim
  BY <1>1, <1>16 DEF Stores, clientVars, Goes, Frame
<1>17. ASSUME NEW t \in Threads, Subscribes(t) PROVE Claim
  BY <1>1, <1>17 DEF Subscribes, Shared, clientVars
<1>18. CASE Polls
  BY <1>18 DEF Polls, clientVars, threadVars
<1>19. ASSUME NEW f \in Files, Dispatches(f) PROVE Claim
  BY <1>1, <1>19 DEF Dispatches, clientVars, Frame
<1>20. CASE Forbids
  BY <1>1, <1>20 DEF Forbids, Goes, Frame
<1>21. CASE Unregisters
  BY <1>1, <1>21 DEF Unregisters, clientVars, Frame
<1>22. CASE Loses
  BY <1>22 DEF Loses, clientVars, threadVars
<1>23. CASE UNCHANGED <<Shared, threadVars>>
  BY <1>23 DEF Shared, clientVars, threadVars
<1>24. QED
  BY <1>5, <1>6, <1>7, <1>8, <1>9, <1>10, <1>11, <1>12, <1>13, <1>14, <1>15, <1>16, <1>17, <1>18, <1>19,
     <1>20, <1>21, <1>22, <1>23, StepIsOneOf DEF Base, CallerSteps, OtherSteps, ThreadSteps, MonitorSteps

LEMMA NextSpares ==
  ASSUME Base, Unknown, NumbersInv, FreshInv, FirstOnly, ClosedInv, SparesInv, [Next]_vars
  PROVE  SparesInv'
<1> SUFFICES ASSUME NEW x \in Others, self'[x] \in open', ~Reused(self[x])', self'[x] \notin lost'
             PROVE  Spares(x, self[x])'
  BY DEF SparesInv
<1>1. CASE self'[x] \in 1..opened
  <2>1. PICK c \in 1..opened : c = self'[x]
    BY <1>1
  <2>2. c \in open /\ c \notin lost /\ ~Reused(c)
    <3>1. ~Reused(c)'
      BY <2>1
    <3>2. QED
      BY <2>1, ReusedLasts, OpenAfter, FilesKept
  <2>3. \A s \in 1..opened : owner[s] = c => s = c
    BY <2>2, OpenIsFirst
  <2>4. self[x] = c => Spares(x, c)
    BY <2>2 DEF SparesInv
  <2>5. ASSUME NEW u \in Threads, pc[u] = "assign", self[u] = c, self[x] = c PROVE mine[u] # c
    <3>1. CASE u \in Callers
      BY <2>5, <3>1 DEF Unknown, Connecting
    <3>2. CASE u \in Others
      BY <2>2, <2>5, <3>2 DEF ClosedInv, Closed, ConnectPc
    <3>3. QED
      BY <3>1, <3>2, ThreadFacts
  <2>6. ASSUME NEW f \in batch, callbacks[f] # None PROVE owner[callbacks[f]] # c
    <3>1. f \in Files /\ f \in InHand
      BY DEF Base, TypeInv, TypeOK, ConnectionTypeOK, InHand
    <3>2. callbacks[f] \in 1..opened /\ file[callbacks[f]] = f
      BY <2>6, <3>1, CallbackFacts DEF Base
    <3>3. file[c] # f
      BY <2>2, <3>1 DEF NumbersInv
    <3>4. QED
      BY <2>3, <3>2, <3>3
  <2>7. self'[x] = c => Spares(x, c)'
    BY <2>2, <2>3, <2>4, <2>5, <2>6, SparesLasts
  <2>8. QED
    BY <2>1, <2>7
<1>2. CASE self'[x] \notin 1..opened
  <2>1. self'[x] = None
    BY <1>2, SelfAfter
  <2>2. open' \subseteq 1..opened' /\ None \notin 1..opened'
    <3>1. open' \subseteq 1..opened'
      BY NextBase DEF Base, TypeInv
    <3>2. QED
      BY <3>1 DEF None
  <2>3. QED
    BY <2>1, <2>2
<1>3. QED
  BY <1>1, <1>2

-----------------------------------------------------------------------------
(* Without subscription only the monitor closes, and a client has one open *)
(* connection.                                                             *)

KnownOpen ==
  /\ watched \subseteq open
  /\ \A f \in Files : callbacks[f] # None => callbacks[f] \in open
  /\ \A x \in Threads : pc[x] \in Connecting => mine[x] \in open
\* What is left of the monitor's batch is about open sockets.
BatchLost == \A f \in batch \ {at} : \E r \in open \cap lost : file[r] = f
\* An open socket is its client's, or was just made, or is about to be closed.
Current ==
  /\ \A s \in open :
       \/ sock[owner[s]] = s
       \/ \E x \in Threads : pc[x] = "assign" /\ mine[x] = s
       \/ pc[Monitor] = "dropping" /\ mine[Monitor] = s
  /\ \A x \in Threads : pc[x] = "assign" => sock[self[x]] = None
\* The monitor has the socket whose event it handles.
HandlesLost ==
  /\ pc[Monitor] \in {"called", "closing", "taking"} =>
       LET s == sock[self[Monitor]] IN s \in open \cap lost /\ file[s] = at
  /\ pc[Monitor] = "taking" => mine[Monitor] = sock[self[Monitor]]
  /\ pc[Monitor] = "dropping" => mine[Monitor] \in open \cap lost /\ file[mine[Monitor]] = at
  /\ pc[Monitor] \in {"dropping", "listener", "reconnect"} => sock[self[Monitor]] = None
OneAtATime == KnownOpen /\ BatchLost /\ Current /\ HandlesLost

LEMMA NextKnownOpen ==
  ASSUME Base, kind # "subscriber", SingleInv, Unknown, KnownOpen, [Next]_vars
  PROVE  KnownOpen'
<1> DEFINE Claim == KnownOpen'
<1>1. /\ Threads = Callers \cup Others /\ Callers \cap Others = {} /\ Monitor \in Others /\ Loops \subseteq Others
      /\ \A o \in Others : o \in Loops \/ o = Monitor
      /\ Loops \subseteq Threads /\ Monitor \in Threads /\ Monitor \notin Callers
  BY ThreadFacts
<1>2. /\ \A x \in Others : x = Monitor \/ pc[x] = "unborn"
      /\ \A x \in Threads : pc[x] # "subscribing"
  BY <1>1 DEF SingleInv
<1>3. \A x \in Threads : pc[x] \in HasMine =>
        mine[x] \in 1..opened /\ mine[x] # None /\ mine[x] \in Sockets /\ owner[mine[x]] = self[x] /\
            self[x] \in 1..opened
  BY BaseFacts, NumberFacts DEF Base, Knows
<1>4. /\ \A u \in Callers : pc[u] \in Connecting => self[u] # self[Monitor]
      /\ open \subseteq 1..opened /\ watched \subseteq open /\ None \notin Sockets
      /\ opened + 1 \notin 1..opened
      /\ \A f \in Files : callbacks[f] # None => callbacks[f] \in open /\ file[callbacks[f]] = f /\
          callbacks[f] # opened + 1
      /\ \A x \in Threads : pc[x] \in Connecting => mine[x] \in open
  BY <1>1, BaseFacts, NumberFacts, CallbackFacts DEF Base, KnownOpen, Unknown
<1> USE DEF Aside, Alone, Return, Raise, Connected, HasMine, Connecting, KnownOpen
<1>5. ASSUME NEW u \in Callers, Alone(u) PROVE Claim
  BY <1>5 DEF Alone, Shared, socketVars, monitorVars, Frame
<1>6. ASSUME NEW u \in Callers, Listens(u) PROVE Claim
  BY <1>6 DEF Listens, socketVars, monitorVars, Goes, Frame
<1>7. ASSUME NEW u \in Callers, Saves(u) PROVE Claim
  BY <1>7 DEF Saves, socketVars, monitorVars, Frame
<1>8. ASSUME NEW t \in Others, Aside(t) PROVE Claim
  BY <1>8 DEF Aside, Shared, socketVars, monitorVars, Goes, Frame
<1>9. ASSUME NEW t \in Others, Takes(t) PROVE Claim
  BY <1>9 DEF Takes, socketVars, monitorVars, Goes, Frame
<1>10. ASSUME NEW t \in Others, Drops(t) PROVE Claim
  BY <1>1, <1>2, <1>3, <1>4, <1>10 DEF Drops, Goes, Frame
<1>11. ASSUME NEW t \in Others, Tells(t) PROVE Claim
  BY <1>11 DEF Tells, socketVars, monitorVars, Goes, Frame
<1>12. ASSUME NEW t \in Others, Forgets(t) PROVE Claim
  BY <1>12 DEF Forgets, socketVars, monitorVars, Goes, Frame
<1>13. ASSUME NEW t \in Threads, NEW c \in Clients, Connects(t, c) PROVE Claim
  BY <1>13 DEF Connects, monitorVars, Frame
<1>14. ASSUME NEW t \in Threads, Assigns(t) PROVE Claim
  BY <1>14 DEF Assigns, socketVars, monitorVars, Goes, Frame
<1>15. ASSUME NEW t \in Threads, Registers(t) PROVE Claim
  BY <1>15 DEF Registers, socketVars, Goes, Frame
<1>16. ASSUME NEW t \in Threads, Stores(t) PROVE Claim
  BY <1>16 DEF Stores, socketVars, Goes, Frame
<1>17. ASSUME NEW t \in Threads, Subscribes(t) PROVE Claim
  BY <1>2, <1>17 DEF Subscribes
<1>18. CASE Polls
  BY <1>18 DEF Polls, socketVars, threadVars
<1>19. ASSUME NEW f \in Files, Dispatches(f) PROVE Claim
  BY <1>19 DEF Dispatches, socketVars, Frame
<1>20. CASE Forbids
  BY <1>20 DEF Forbids, socketVars, monitorVars, Goes, Frame
<1>21. CASE Unregisters
  BY <1>21 DEF Unregisters, socketVars, Frame
<1>22. CASE Loses
  BY <1>22 DEF Loses, monitorVars, threadVars
<1>23. CASE UNCHANGED <<Shared, threadVars>>
  BY <1>23 DEF Shared, socketVars, monitorVars, threadVars
<1> HIDE DEF KnownOpen
<1>24. QED
  BY <1>5, <1>6, <1>7, <1>8, <1>9, <1>10, <1>11, <1>12, <1>13, <1>14, <1>15, <1>16, <1>17, <1>18, <1>19,
     <1>20, <1>21, <1>22, <1>23, StepIsOneOf DEF Base, CallerSteps, OtherSteps, ThreadSteps, MonitorSteps

LEMMA NextBatchLost ==
  ASSUME Base, kind # "subscriber", SingleInv, NumbersInv, KnownOpen, HandlesLost, BatchLost, [Next]_vars
  PROVE  BatchLost'
<1> DEFINE Claim == BatchLost'
<1>1. /\ Threads = Callers \cup Others /\ Callers \cap Others = {} /\ Monitor \in Others /\ Loops \subseteq Others
      /\ \A o \in Others : o \in Loops \/ o = Monitor
      /\ Loops \subseteq Threads /\ Monitor \in Threads /\ Monitor \notin Callers
  BY ThreadFacts
<1>2. /\ \A x \in Others : x = Monitor \/ pc[x] = "unborn"
      /\ \A x \in Threads : pc[x] # "subscribing"
  BY <1>1 DEF SingleInv
<1>3. /\ \A f \in batch \ {at} : \E r \in open \cap lost : file[r] = f
      /\ pc[Monitor] = "dropping" => file[mine[Monitor]] = at
      /\ pc[Monitor] = "poll" => at = None
      /\ None \notin Files /\ batch \subseteq Files
      /\ \A e \in Edges : e \in open /\ e \in lost
      /\ \A s \in open : s # opened + 1 /\ s \in Sockets
  BY NumberFacts DEF Base, TypeInv, TypeOK, ConnectionTypeOK, KnownOpen, BatchLost, HandlesLost, NumbersInv,
     Edges
<1> USE DEF Aside, Alone, Return, Raise, Connected, BatchLost
<1>4. ASSUME NEW u \in Callers, Alone(u) PROVE Claim
  BY <1>4 DEF Alone, Shared, socketVars, monitorVars
<1>5. ASSUME NEW u \in Callers, Listens(u) PROVE Claim
  BY <1>5 DEF Listens, socketVars, monitorVars
<1>6. ASSUME NEW u \in Callers, Saves(u) PROVE Claim
  BY <1>6 DEF Saves, socketVars, monitorVars
<1>7. ASSUME NEW t \in Others, Aside(t) PROVE Claim
  BY <1>7 DEF Aside, Shared, socketVars, monitorVars
<1>8. ASSUME NEW t \in Others, Takes(t) PROVE Claim
  BY <1>8 DEF Takes, socketVars, monitorVars
<1>9. ASSUME NEW t \in Others, Drops(t) PROVE Claim
  BY <1>2, <1>3, <1>9 DEF Drops, Goes
<1>10. ASSUME NEW t \in Others, Tells(t) PROVE Claim
  BY <1>10 DEF Tells, socketVars, monitorVars
<1>11. ASSUME NEW t \in Others, Forgets(t) PROVE Claim
  BY <1>11 DEF Forgets, socketVars, monitorVars
<1>12. ASSUME NEW t \in Threads, NEW c \in Clients, Connects(t, c) PROVE Claim
  BY <1>3, <1>12 DEF Connects, monitorVars
<1>13. ASSUME NEW t \in Threads, Assigns(t) PROVE Claim
  BY <1>13 DEF Assigns, socketVars, monitorVars
<1>14. ASSUME NEW t \in Threads, Registers(t) PROVE Claim
  BY <1>14 DEF Registers, socketVars
<1>15. ASSUME NEW t \in Threads, Stores(t) PROVE Claim
  BY <1>15 DEF Stores, socketVars
<1>16. ASSUME NEW t \in Threads, Subscribes(t) PROVE Claim
  BY <1>2, <1>16 DEF Subscribes
<1>17. CASE Polls
  BY <1>3, <1>17 DEF Polls, socketVars
<1>18. ASSUME NEW f \in Files, Dispatches(f) PROVE Claim
  BY <1>3, <1>18 DEF Dispatches, socketVars
<1>19. CASE Forbids
  BY <1>19 DEF Forbids, socketVars, monitorVars
<1>20. CASE Unregisters
  BY <1>20 DEF Unregisters, socketVars
<1>21. CASE Loses
  BY <1>21 DEF Loses, monitorVars
<1>22. CASE UNCHANGED <<Shared, threadVars>>
  BY <1>22 DEF Shared, socketVars, monitorVars
<1> HIDE DEF BatchLost
<1>23. QED
  BY <1>4, <1>5, <1>6, <1>7, <1>8, <1>9, <1>10, <1>11, <1>12, <1>13, <1>14, <1>15, <1>16, <1>17, <1>18,
     <1>19, <1>20, <1>21, <1>22, StepIsOneOf DEF Base, CallerSteps, OtherSteps, ThreadSteps, MonitorSteps

LEMMA CurrentLasts ==
  ASSUME Base, kind # "subscriber", SingleInv, Current, HandlesLost, NEW s0 \in 1..opened, [Next]_vars
  PROVE  s0 \in open' =>
           \/ sock'[owner[s0]] = s0
           \/ \E x \in Threads : pc'[x] = "assign" /\ mine'[x] = s0
           \/ pc'[Monitor] = "dropping" /\ mine'[Monitor] = s0
<1> DEFINE Claim == s0 \in open' =>
           \/ sock'[owner[s0]] = s0
           \/ \E x \in Threads : pc'[x] = "assign" /\ mine'[x] = s0
           \/ pc'[Monitor] = "dropping" /\ mine'[Monitor] = s0
<1>1. /\ Threads = Callers \cup Others /\ Callers \cap Others = {} /\ Monitor \in Others /\ Loops \subseteq Others
      /\ \A o \in Others : o \in Loops \/ o = Monitor
      /\ Loops \subseteq Threads /\ Monitor \in Threads /\ Monitor \notin Callers
  BY ThreadFacts
<1>2. /\ \A x \in Others : x = Monitor \/ pc[x] = "unborn"
      /\ \A x \in Threads : pc[x] # "subscribing"
  BY <1>1 DEF SingleInv
<1>3. /\ s0 \in open =>
           \/ sock[owner[s0]] = s0
           \/ \E x \in Threads : pc[x] = "assign" /\ mine[x] = s0
           \/ pc[Monitor] = "dropping" /\ mine[Monitor] = s0
      /\ \A x \in Threads : pc[x] = "assign" => sock[self[x]] = None /\ mine[x] \in Sockets /\
          owner[mine[x]] = self[x]
      /\ pc[Monitor] = "taking" => mine[Monitor] = sock[self[Monitor]]
      /\ s0 \in 1..opened /\ s0 # None /\ s0 # opened + 1 /\ owner[s0] \in Clients
  <2>1. \A x \in Threads : pc[x] = "assign" => mine[x] \in Sockets /\ owner[mine[x]] = self[x]
    BY BaseFacts, NumberFacts DEF Base, Knows, HasMine, Connecting
  <2>2. s0 \in 1..opened /\ s0 # None /\ s0 # opened + 1 /\ owner[s0] \in Clients
    BY NumberFacts DEF Base
  <2>3. QED
    BY <2>1, <2>2 DEF Current, HandlesLost
<1> USE DEF Aside, Alone, Return, Raise, Connected
<1>4. ASSUME NEW u \in Callers, Alone(u) PROVE Claim
  BY <1>1, <1>3, <1>4 DEF Alone, Shared, clientVars, socketVars, Frame
<1>5. ASSUME NEW u \in Callers, Listens(u) PROVE Claim
  BY <1>1, <1>3, <1>5 DEF Listens, socketVars, Goes, Frame
<1>6. ASSUME NEW u \in Callers, Saves(u) PROVE Claim
  BY <1>1, <1>3, <1>6 DEF Saves, clientVars, socketVars, Frame
<1>7. ASSUME NEW t \in Others, Aside(t) PROVE Claim
  BY <1>2, <1>3, <1>7 DEF Aside, Shared, clientVars, socketVars, Goes, Frame
<1>8. ASSUME NEW t \in Others, Takes(t) PROVE Claim
  BY <1>2, <1>3, <1>8 DEF Takes, socketVars, Goes, Frame
<1>9. ASSUME NEW t \in Others, Drops(t) PROVE Claim
  BY <1>2, <1>3, <1>9 DEF Drops, clientVars, Goes, Frame
<1>10. ASSUME NEW t \in Others, Tells(t) PROVE Claim
  BY <1>2, <1>3, <1>10 DEF Tells, socketVars, Goes, Frame
<1>11. ASSUME NEW t \in Others, Forgets(t) PROVE Claim
  BY <1>2, <1>3, <1>11 DEF Forgets, clientVars, socketVars, Goes, Frame
<1>12. ASSUME NEW t \in Threads, NEW c \in Clients, Connects(t, c) PROVE Claim
  BY <1>1, <1>3, <1>12 DEF Connects, Frame
<1>13. ASSUME NEW t \in Threads, Assigns(t) PROVE Claim
  BY <1>1, <1>3, <1>13 DEF Assigns, socketVars, Goes, Frame
<1>14. ASSUME NEW t \in Threads, Registers(t) PROVE Claim
  BY <1>1, <1>3, <1>14 DEF Registers, clientVars, socketVars, Goes, Frame
<1>15. ASSUME NEW t \in Threads, Stores(t) PROVE Claim
  BY <1>1, <1>3, <1>15 DEF Stores, clientVars, socketVars, Goes, Frame
<1>16. ASSUME NEW t \in Threads, Subscribes(t) PROVE Claim
  BY <1>2, <1>16 DEF Subscribes
<1>17. CASE Polls
  BY <1>3, <1>17 DEF Polls, clientVars, socketVars, threadVars
<1>18. ASSUME NEW f \in Files, Dispatches(f) PROVE Claim
  BY <1>3, <1>18 DEF Dispatches, clientVars, socketVars, Frame
<1>19. CASE Forbids
  BY <1>3, <1>19 DEF Forbids, socketVars, Goes, Frame
<1>20. CASE Unregisters
  BY <1>3, <1>20 DEF Unregisters, clientVars, socketVars, Frame
<1>21. CASE Loses
  BY <1>3, <1>21 DEF Loses, clientVars, threadVars
<1>22. CASE UNCHANGED <<Shared, threadVars>>
  BY <1>3, <1>22 DEF Shared, clientVars, socketVars, threadVars
<1>23. QED
  BY <1>4, <1>5, <1>6, <1>7, <1>8, <1>9, <1>10, <1>11, <1>12, <1>13, <1>14, <1>15, <1>16, <1>17, <1>18,
     <1>19, <1>20, <1>21, <1>22, StepIsOneOf DEF Base, CallerSteps, OtherSteps, ThreadSteps, MonitorSteps

LEMMA NewUnassigned ==
  ASSUME Base, kind # "subscriber", SingleInv, Apart, Unknown, Current, HandlesLost, [Next]_vars
  PROVE  \A x \in Threads : pc'[x] = "assign" => sock'[self'[x]] = None
<1> DEFINE Claim == \A x \in Threads : pc'[x] = "assign" => sock'[self'[x]] = None
<1>1. /\ Threads = Callers \cup Others /\ Callers \cap Others = {} /\ Monitor \in Others /\ Loops \subseteq Others
      /\ \A o \in Others : o \in Loops \/ o = Monitor
      /\ Loops \subseteq Threads /\ Monitor \in Threads /\ Monitor \notin Callers
  BY ThreadFacts
<1>2. /\ \A x \in Others : x = Monitor \/ pc[x] = "unborn"
      /\ \A x \in Threads : pc[x] # "subscribing"
  BY <1>1 DEF SingleInv
<1>3. /\ \A x \in Threads : pc[x] = "assign" => sock[self[x]] = None /\ self[x] \in Clients
      /\ \A x, u \in Threads : x # u /\ pc[x] = "assign" /\ pc[u] = "assign" => self[x] # self[u]
      /\ pc[Monitor] = "reconnect" => sock[self[Monitor]] = None
      /\ \A c \in Clients : sock[c] # None => c \in 1..opened
      /\ opened + 1 \notin 1..opened
  <2>1. \A x \in Threads : pc[x] = "assign" => sock[self[x]] = None /\ self[x] \in Clients
    BY BaseFacts, NumberFacts DEF Base, Current, Knows, Busy, ConnectPc
  <2>2. ASSUME NEW x \in Threads, NEW u \in Threads, x # u, pc[x] = "assign", pc[u] = "assign"
        PROVE  self[x] # self[u]
    <3>1. CASE x \in Callers /\ u \in Callers
      BY <2>2, <3>1 DEF Apart, Makes, Making, Computing
    <3>2. CASE x \in Callers /\ u = Monitor
      BY <1>1, <2>2, <3>2 DEF Unknown, Connecting
    <3>3. CASE x = Monitor /\ u \in Callers
      BY <1>1, <2>2, <3>3 DEF Unknown, Connecting
    <3>4. QED
      BY <1>1, <1>2, <2>2, <3>1, <3>2, <3>3
  <2>3. \A c \in Clients : sock[c] # None => c \in 1..opened
    BY BaseFacts, NumberFacts DEF Base
  <2>4. pc[Monitor] = "reconnect" => sock[self[Monitor]] = None
    BY DEF HandlesLost
  <2>5. QED
    BY <2>1, <2>2, <2>3, <2>4, NumberFacts DEF Base
<1> USE DEF Aside, Alone, Return, Raise, Connected
<1>4. ASSUME NEW u \in Callers, Alone(u) PROVE Claim
  BY <1>3, <1>4 DEF Alone, Shared, clientVars, Frame
<1>5. ASSUME NEW u \in Callers, Listens(u) PROVE Claim
  BY <1>3, <1>5 DEF Listens, Goes, Frame
<1>6. ASSUME NEW u \in Callers, Saves(u) PROVE Claim
  BY <1>3, <1>6 DEF Saves, clientVars, Frame
<1>7. ASSUME NEW t \in Others, Aside(t) PROVE Claim
  BY <1>3, <1>7 DEF Aside, Shared, clientVars, Goes, Frame
<1>8. ASSUME NEW t \in Others, Takes(t) PROVE Claim
  BY <1>3, <1>8 DEF Takes, Goes, Frame
<1>9. ASSUME NEW t \in Others, Drops(t) PROVE Claim
  BY <1>3, <1>9 DEF Drops, clientVars, Goes, Frame
<1>10. ASSUME NEW t \in Others, Tells(t) PROVE Claim
  BY <1>3, <1>10 DEF Tells, Goes, Frame
<1>11. ASSUME NEW t \in Others, Forgets(t) PROVE Claim
  BY <1>3, <1>11 DEF Forgets, clientVars, Goes, Frame
<1>12. ASSUME NEW t \in Threads, NEW c \in Clients, Connects(t, c) PROVE Claim
  BY <1>1, <1>2, <1>3, <1>12 DEF Connects, Frame
<1>13. ASSUME NEW t \in Threads, Assigns(t) PROVE Claim
  BY <1>3, <1>13 DEF Assigns, Goes, Frame
<1>14. ASSUME NEW t \in Threads, Registers(t) PROVE Claim
  BY <1>3, <1>14 DEF Registers, clientVars, Goes, Frame
<1>15. ASSUME NEW t \in Threads, Stores(t) PROVE Claim
  BY <1>3, <1>15 DEF Stores, clientVars, Goes, Frame
<1>16. ASSUME NEW t \in Threads, Subscribes(t) PROVE Claim
  BY <1>2, <1>16 DEF Subscribes
<1>17. CASE Polls
  BY <1>3, <1>17 DEF Polls, clientVars, threadVars
<1>18. ASSUME NEW f \in Files, Dispatches(f) PROVE Claim
  BY <1>3, <1>18 DEF Dispatches, clientVars, Frame
<1>19. CASE Forbids
  BY <1>3, <1>19 DEF Forbids, Goes, Frame
<1>20. CASE Unregisters
  BY <1>3, <1>20 DEF Unregisters, clientVars, Frame
<1>21. CASE Loses
  BY <1>3, <1>21 DEF Loses, clientVars, threadVars
<1>22. CASE UNCHANGED <<Shared, threadVars>>
  BY <1>3, <1>22 DEF Shared, clientVars, threadVars
<1>23. QED
  BY <1>4, <1>5, <1>6, <1>7, <1>8, <1>9, <1>10, <1>11, <1>12, <1>13, <1>14, <1>15, <1>16, <1>17, <1>18,
     <1>19, <1>20, <1>21, <1>22, StepIsOneOf DEF Base, CallerSteps, OtherSteps, ThreadSteps, MonitorSteps

LEMMA NextCurrent ==
  ASSUME Base, kind # "subscriber", SingleInv, Apart, Unknown, Current, HandlesLost, [Next]_vars
  PROVE  Current'
<1>1. ASSUME NEW s \in open'
      PROVE  \/ sock'[owner'[s]] = s
             \/ \E x \in Threads : pc'[x] = "assign" /\ mine'[x] = s
             \/ pc'[Monitor] = "dropping" /\ mine'[Monitor] = s
  <2>1. CASE s \in 1..opened
    BY <2>1, CurrentLasts, FilesKept
  <2>2. CASE s \notin 1..opened
    <3>1. PICK x \in Threads, c \in Clients : Connects(x, c)
      BY <2>2, FilesKept, BaseFacts
    <3>2. s = opened + 1 /\ pc'[x] = "assign" /\ mine'[x] = s
      BY <2>2, <3>1, BaseFacts DEF Connects
    <3>3. QED
      BY <3>2
  <2>3. QED
    BY <2>1, <2>2
<1>2. QED
  BY <1>1, NewUnassigned DEF Current

LEMMA NextHandlesLost ==
  ASSUME Base, kind # "subscriber", SingleInv, Unknown, NumbersInv, FreshInv, OneAtATime, [Next]_vars
  PROVE  HandlesLost'
<1> DEFINE Claim == HandlesLost'
<1>1. /\ Threads = Callers \cup Others /\ Callers \cap Others = {} /\ Monitor \in Others /\ Loops \subseteq Others
      /\ \A o \in Others : o \in Loops \/ o = Monitor
      /\ Loops \subseteq Threads /\ Monitor \in Threads /\ Monitor \notin Callers
  BY ThreadFacts
<1>2. /\ \A x \in Others : x = Monitor \/ pc[x] = "unborn"
      /\ \A x \in Threads : pc[x] # "subscribing"
  BY <1>1 DEF SingleInv
<1>3. /\ pc[Monitor] \in {"called", "closing", "taking"} =>
            /\ sock[self[Monitor]] \in open /\ sock[self[Monitor]] \in lost /\ file[sock[self[Monitor]]] = at
            /\ sock[self[Monitor]] # None
      /\ pc[Monitor] = "taking" => mine[Monitor] = sock[self[Monitor]]
      /\ pc[Monitor] = "dropping" => mine[Monitor] \in open /\ mine[Monitor] \in lost /\ file[mine[Monitor]] = at
      /\ pc[Monitor] \in {"dropping", "listener", "reconnect"} => sock[self[Monitor]] = None
  BY BaseFacts, NumberFacts DEF Base, HandlesLost, OneAtATime
<1>4. /\ \A u \in Callers : pc[u] = "assign" => self[u] # self[Monitor]
      /\ pc[Monitor] \in Busy => self[Monitor] \in Clients
      /\ \A s \in open : s # opened + 1 /\ s \in Sockets
      /\ \A f \in batch : pc[Monitor] = "poll" /\ callbacks[f] # None =>
           LET q == callbacks[f] IN q \in open \cap lost /\ file[q] = f /\ sock[owner[q]] = q
  <2>1. \A u \in Callers : pc[u] = "assign" => self[u] # self[Monitor]
    BY <1>1 DEF Unknown, Connecting
  <2>2. pc[Monitor] \in Busy => self[Monitor] \in Clients
    BY <1>1, BaseFacts, NumberFacts DEF Base, Knows
  <2>3. \A s \in open : s # opened + 1 /\ s \in Sockets /\ s \in 1..opened
    BY BaseFacts, NumberFacts DEF Base
  <2>4. ASSUME NEW f \in batch, pc[Monitor] = "poll", callbacks[f] # None, NEW q, q = callbacks[f]
        PROVE  q \in open \cap lost /\ file[q] = f /\ sock[owner[q]] = q
    <3>1. f \in Files /\ f # None /\ at = None
      BY <2>4, NumberFacts DEF Base, TypeInv, TypeOK, ConnectionTypeOK, NumbersInv
    <3>2. q \in open /\ file[q] = f
      BY <2>4, <3>1, CallbackFacts DEF Base, KnownOpen, OneAtATime
    <3>3. PICK r \in open \cap lost : file[r] = f
      BY <3>1 DEF BatchLost, OneAtATime
    <3>4. q = r
      <4>1. q \in Nat /\ r \in Nat /\ q \in 1..opened /\ r \in 1..opened
        BY <2>3, <3>2
      <4>2. ~(q > r) /\ ~(r > q)
        BY <3>2, <3>3, <4>1 DEF NumbersInv
      <4>3. QED
        BY <4>1, <4>2
    <3>5. \A x \in Threads : pc[x] = "assign" => mine[x] # q
      BY <2>4, <3>1 DEF FreshInv, Private
    <3>6. QED
      BY <2>4, <3>3, <3>4, <3>5 DEF Current, OneAtATime
  <2>5. QED
    BY <2>1, <2>2, <2>3, <2>4
<1> USE DEF Aside, Alone, Return, Raise, Connected, HandlesLost
<1>5. ASSUME NEW u \in Callers, Alone(u) PROVE Claim
  BY <1>1, <1>3, <1>5 DEF Alone, Shared, clientVars, socketVars, monitorVars, Frame
<1>6. ASSUME NEW u \in Callers, Listens(u) PROVE Claim
  BY <1>1, <1>3, <1>6 DEF Listens, socketVars, monitorVars, Goes, Frame
<1>7. ASSUME NEW u \in Callers, Saves(u) PROVE Claim
  BY <1>1, <1>3, <1>7 DEF Saves, clientVars, socketVars, monitorVars, Frame
<1>8. ASSUME NEW t \in Others, Aside(t) PROVE Claim
  <2>1. t = Monitor
    BY <1>2, <1>8 DEF Aside, Goes
  <2>2. UNCHANGED <<sock, open, lost, file, at>> /\ self'[t] = self[t]
    BY <1>8 DEF Aside, Goes, Shared, clientVars, socketVars, monitorVars
  <2>3. \/ pc'[t] \notin {"called", "closing", "taking", "dropping", "listener", "reconnect"}
        \/ pc'[t] = "taking" /\ pc[t] = "closing" /\ mine'[t] = sock[self[t]]
    BY <2>1, <1>8, ThreadFacts DEF Aside, Goes
  <2>4. QED
    BY <1>3, <2>1, <2>2, <2>3
<1>9. ASSUME NEW t \in Others, Takes(t) PROVE Claim
  BY <1>2, <1>3, <1>4, <1>9 DEF Takes, socketVars, monitorVars, Goes, Busy, ClosePc
<1>10. ASSUME NEW t \in Others, Drops(t) PROVE Claim
  BY <1>2, <1>3, <1>10 DEF Drops, clientVars, Goes
<1>11. ASSUME NEW t \in Others, Tells(t) PROVE Claim
  BY <1>2, <1>11 DEF Tells, Goes
<1>12. ASSUME NEW t \in Others, Forgets(t) PROVE Claim
  BY <1>2, <1>12 DEF Forgets, clientVars, Goes
<1>13. ASSUME NEW t \in Threads, NEW c \in Clients, Connects(t, c) PROVE Claim
  BY <1>1, <1>3, <1>4, <1>13 DEF Connects, monitorVars, Frame
<1>14. ASSUME NEW t \in Threads, Assigns(t) PROVE Claim
  BY <1>1, <1>2, <1>3, <1>4, <1>14
     DEF Assigns, socketVars, monitorVars, Goes, Frame, Busy, ClosePc, ListenerPc
<1>15. ASSUME NEW t \in Threads, Registers(t) PROVE Claim
  BY <1>1, <1>3, <1>15 DEF Registers, clientVars, socketVars, Goes, Frame
<1>16. ASSUME NEW t \in Threads, Stores(t) PROVE Claim
  BY <1>1, <1>3, <1>16 DEF Stores, clientVars, socketVars, Goes, Frame
<1>17. ASSUME NEW t \in Threads, Subscribes(t) PROVE Claim
  BY <1>2, <1>17 DEF Subscribes
<1>18. CASE Polls
  BY <1>18 DEF Polls, threadVars
<1>19. ASSUME NEW f \in Files, Dispatches(f) PROVE Claim
  BY <1>4, <1>19 DEF Dispatches, clientVars, socketVars
<1>20. CASE Forbids
  BY <1>3, <1>20 DEF Forbids, socketVars, monitorVars, Goes
<1>21. CASE Unregisters
  BY <1>21 DEF Unregisters
<1>22. CASE Loses
  BY <1>3, <1>22 DEF Loses, clientVars, monitorVars, threadVars
<1>23. CASE UNCHANGED <<Shared, threadVars>>
  BY <1>3, <1>23 DEF Shared, clientVars, socketVars, monitorVars, threadVars
<1> HIDE DEF HandlesLost
<1>24. QED
  BY <1>5, <1>6, <1>7, <1>8, <1>9, <1>10, <1>11, <1>12, <1>13, <1>14, <1>15, <1>16, <1>17, <1>18, <1>19,
     <1>20, <1>21, <1>22, <1>23, StepIsOneOf DEF Base, CallerSteps, OtherSteps, ThreadSteps, MonitorSteps

LEMMA NextOneAtATime ==
  ASSUME Base, kind # "subscriber", SingleInv, Apart, Unknown, NumbersInv, FreshInv, OneAtATime, [Next]_vars
  PROVE  OneAtATime'
  BY NextKnownOpen, NextBatchLost, NextCurrent, NextHandlesLost DEF OneAtATime

-----------------------------------------------------------------------------
(* What is closed.                                                         *)

ClosingInv ==
  /\ Base
  /\ CachedMade /\ Apart /\ Unknown
  /\ NumbersInv /\ FreshInv
  /\ SingleInv
  /\ kind # "subscriber" => OneAtATime
  /\ FirstOnly /\ ClosedInv /\ SparesInv
LEMMA InitClosingInv == Init => ClosingInv
<1> SUFFICES ASSUME Init PROVE ClosingInv
  OBVIOUS
<1>1. PICK s \in Setups : ConnectionInit(s.callers)
  BY DEF Init
<1>2. Base /\ CachedMade /\ Apart /\ SingleInv /\ NumbersInv /\ FreshInv
  BY InitListenerInv, InitWatchingInv DEF ListenerInv, WatchingInv
<1>3. /\ \A x \in Threads : pc[x] \in {"poll", "unborn", "idle", "absent"}
      /\ pc[Monitor] = "poll"
  BY <1>1 DEF ConnectionInit, Threads
<1>4. open = {} /\ watched = {} /\ batch = {} /\ \A f \in Files : callbacks[f] = None
  BY <1>1 DEF ConnectionInit
<1>5. Unknown
  BY <1>3, ThreadFacts DEF Unknown, Connecting
<1>6. OneAtATime
  BY <1>3, <1>4 DEF OneAtATime, KnownOpen, BatchLost, Current, HandlesLost, Connecting
<1>7. FirstOnly /\ ClosedInv /\ SparesInv
  BY <1>4 DEF FirstOnly, ClosedInv, SparesInv
<1>8. QED
  BY <1>2, <1>5, <1>6, <1>7 DEF ClosingInv

LEMMA NextClosingInv ==
  ASSUME ClosingInv, [Next]_vars
  PROVE  ClosingInv'
<1> USE DEF ClosingInv
<1>1. Base'
  BY NextBase
<1>2. CachedMade' /\ Apart' /\ Unknown'
  BY NextCachedMade, NextApart, NextUnknown
<1>3. NumbersInv' /\ FreshInv' /\ SingleInv'
  BY <1>1, NextNumbers, NextFresh, NextSingle
<1>4. kind' # "subscriber" => OneAtATime'
  BY NextOneAtATime, NextKind DEF Base
<1>5. FirstOnly' /\ ClosedInv' /\ SparesInv'
  BY NextFirstOnly, NextClosed, NextSpares
<1>6. QED
  BY <1>1, <1>2, <1>3, <1>4, <1>5

LEMMA OpenDropped ==
  ASSUME Base, NEW s0 \in open, [Next]_vars
  PROVE  s0 \in open' \/ \E x \in Others : pc[x] = "dropping" /\ mine[x] = s0
<1> DEFINE Claim == s0 \in open' \/ \E x \in Others : pc[x] = "dropping" /\ mine[x] = s0
<1>1. s0 \in open
  OBVIOUS
<1>2. ASSUME NEW u \in Callers, Alone(u) PROVE Claim
  BY <1>2 DEF Alone, Shared, socketVars
<1>3. ASSUME NEW u \in Callers, Listens(u) PROVE Claim
  BY <1>3 DEF Listens, socketVars
<1>4. ASSUME NEW u \in Callers, Saves(u) PROVE Claim
  BY <1>4 DEF Saves, socketVars
<1>5. ASSUME NEW t \in Others, Aside(t) PROVE Claim
  BY <1>5 DEF Aside, Shared, socketVars
<1>6. ASSUME NEW t \in Others, Takes(t) PROVE Claim
  BY <1>6 DEF Takes, socketVars
<1>7. ASSUME NEW t \in Others, Drops(t) PROVE Claim
  BY <1>7 DEF Drops, Goes
<1>8. ASSUME NEW t \in Others, Tells(t) PROVE Claim
  BY <1>8 DEF Tells, socketVars
<1>9. ASSUME NEW t \in Others, Forgets(t) PROVE Claim
  BY <1>9 DEF Forgets, socketVars
<1>10. ASSUME NEW t \in Threads, NEW c \in Clients, Connects(t, c) PROVE Claim
  BY <1>10 DEF Connects
<1>11. ASSUME NEW t \in Threads, Assigns(t) PROVE Claim
  BY <1>11 DEF Assigns, socketVars
<1>12. ASSUME NEW t \in Threads, Registers(t) PROVE Claim
  BY <1>12 DEF Registers, socketVars
<1>13. ASSUME NEW t \in Threads, Stores(t) PROVE Claim
  BY <1>13 DEF Stores, socketVars
<1>14. ASSUME NEW t \in Threads, Subscribes(t) PROVE Claim
  BY <1>14 DEF Subscribes, Shared, socketVars
<1>15. CASE Polls
  BY <1>15 DEF Polls, socketVars
<1>16. ASSUME NEW f \in Files, Dispatches(f) PROVE Claim
  BY <1>16 DEF Dispatches, socketVars
<1>17. CASE Forbids
  BY <1>17 DEF Forbids, socketVars
<1>18. CASE Unregisters
  BY <1>18 DEF Unregisters, socketVars
<1>19. CASE Loses
  BY <1>19 DEF Loses
<1>20. CASE UNCHANGED <<Shared, threadVars>>
  BY <1>20 DEF Shared, socketVars
<1>21. QED
  BY <1>2, <1>3, <1>4, <1>5, <1>6, <1>7, <1>8, <1>9, <1>10, <1>11, <1>12, <1>13, <1>14, <1>15, <1>16, <1>17,
     <1>18, <1>19, <1>20, StepIsOneOf DEF Base, CallerSteps, OtherSteps, ThreadSteps, MonitorSteps

LEMMA ClosesLost ==
  ASSUME ClosingInv, [Next]_vars
  PROVE  \A s \in open \ open' :
           s \in lost \/ (kind = "subscriber" /\ (owner[s] # s \/ Reused(s)))
<1> USE DEF ClosingInv
<1> TAKE s \in open \ open'
<1>1. PICK x \in Others : pc[x] = "dropping" /\ mine[x] = s
  BY OpenDropped
<1>2. CASE kind # "subscriber"
  <2>1. x = Monitor
    BY <1>1, <1>2, ThreadFacts DEF SingleInv
  <2>2. QED
    BY <1>1, <1>2, <2>1 DEF OneAtATime, HandlesLost
<1>3. CASE kind = "subscriber" /\ owner[s] = s
  <2>1. self[x] = s
    BY <1>1, <1>3, BaseFacts, ThreadFacts DEF Knows, HasMine
  <2>2. Reused(s) \/ s \in lost
    BY <1>1, <2>1 DEF SparesInv, Spares
  <2>3. QED
    BY <1>3, <2>2
<1>4. QED
  BY <1>2, <1>3

\* The loss of one connection closes no other that works, but for those of a
\* subscriber that has connected again, or got a number used before.
THEOREM LossClosesNoOther == Spec => OnlyLostAreClosed
<1>1. ClosingInv /\ [Next]_vars => ClosingInv'
  BY NextClosingInv
<1>2. ClosingInv /\ [Next]_vars =>
        [\A s \in open \ open' :
           s \in lost \/ (kind = "subscriber" /\ (owner[s] # s \/ Reused(s)))]_vars
  BY ClosesLost
<1>3. QED
  BY InitClosingInv, <1>1, <1>2, PTL DEF Spec, OnlyLostAreClosed
==============================================================================
