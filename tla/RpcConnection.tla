---------------------------- MODULE RpcConnection ----------------------------
(***************************************************************************)
(* The life of RpcClient connections (rpc_client.py): connect, close, the  *)
(* socket monitor that watches them with epoll, and the loop of a client   *)
(* that subscribed to broadcasts.  close runs in the monitor's thread and  *)
(* in every loop's; nothing here takes a lock.  What the listeners of      *)
(* close do, and who makes clients, is in DeviceSession.                   *)
(***************************************************************************)
EXTENDS Naturals

CONSTANTS
  Callers,     \* threads of the program that make clients
  Monitor,     \* the thread of the SocketMonitor
  Loops,       \* threads that parse_subscribe may start
  MaxSockets,  \* bound: connections made
  Files        \* file numbers a new socket may get

ASSUME ConnectionAssumption ==
  /\ Monitor \notin Callers \cup Loops
  /\ Callers \cap Loops = {}
  /\ MaxSockets \in Nat
  /\ Files \subseteq Nat \ {0}

Threads == Callers \cup {Monitor} \cup Loops
Sockets == 1..MaxSockets    \* numbered as they are made
Clients == Sockets          \* a client is named by its first connection
None == 0

VARIABLES
  sock,       \* sock[c]: self.sock of client c
  allowed,    \* allowed[c]: self.allow_apis is not empty
  listeners,  \* listeners[c]: on_close_callbacks: "missing", "empty" or "set"
  opened,     \* number of connections made
  owner,      \* owner[s]: the client that made connection s
  file,       \* file[s]: the number s has, or had until it was closed
  open,       \* sockets not closed: sock.fileno() is -1 for the others
  lost,       \* connections the other side has dropped
  callbacks,  \* callbacks[f]: the socket in the monitor's entry for f
  watched,    \* sockets registered with epoll
  reported,   \* those whose event epoll has delivered (EPOLLET: once)
  batch,      \* file numbers in "events", not yet handled by the monitor
  at,         \* the monitor's file_no
  missed,     \* history: sockets whose event found no entry
  pc,         \* pc[t]: where thread t is
  self,       \* self[t]: the client whose method it is in
  mine        \* mine[t]: its local sock

clientVars == <<sock, allowed, listeners>>
socketVars == <<opened, owner, file, open, lost>>
monitorVars == <<callbacks, watched, reported, batch, at, missed>>
threadVars == <<pc, self, mine>>
connectionVars == <<clientVars, socketVars, monitorVars, threadVars>>

\* Threads in connect, close and what they call.
ConnectPc == {"assign", "register", "store", "connected", "refused"}
ClosePc == {"closing", "taking", "dropping", "listener", "told"}
LoopPc == {"unborn", "read", "recv", "over"}
MonitorPc == {"poll", "called", "unregister", "dead"}

ConnectionTypeOK ==
  /\ sock \in [Clients -> Sockets \cup {None}]
  /\ allowed \in [Clients -> BOOLEAN]
  /\ listeners \in [Clients -> {"missing", "empty", "set"}]
  /\ opened \in 0..MaxSockets
  /\ owner \in [Sockets -> Clients \cup {None}]
  /\ file \in [Sockets -> Files \cup {None}]
  /\ open \subseteq Sockets
  /\ lost \subseteq Sockets
  /\ callbacks \in [Files -> Sockets \cup {None}]
  /\ watched \subseteq Sockets
  /\ reported \subseteq Sockets
  /\ batch \subseteq Files
  /\ missed \subseteq Sockets
  /\ at \in Files \cup {None}
  /\ self \in [Threads -> Clients \cup {None}]
  /\ mine \in [Threads -> Sockets \cup {None}]

\* "present": the callers that take part.
ConnectionInit(present) ==
  /\ sock = [c \in Clients |-> None]
  /\ allowed = [c \in Clients |-> FALSE]
  /\ listeners = [c \in Clients |-> "missing"]
  /\ opened = 0
  /\ owner = [s \in Sockets |-> None]
  /\ file = [s \in Sockets |-> None]
  /\ open = {}
  /\ lost = {}
  /\ callbacks = [f \in Files |-> None]
  /\ watched = {}
  /\ reported = {}
  /\ batch = {}
  /\ at = None
  /\ missed = {}
  /\ pc = [t \in Threads |-> IF t = Monitor THEN "poll" ELSE IF t \in Loops THEN "unborn"
                           ELSE IF t \in present THEN "idle" ELSE "absent"]
  /\ self = [t \in Threads |-> None]
  /\ mine = [t \in Threads |-> None]

Alive(s) == s \in open /\ s \notin lost
Goto(t, l) == pc' = [pc EXCEPT ![t] = l]
\* epoll has an event for a watched socket once the other side has hung up.
Edges == {s \in watched : s \in lost \ reported}
\* What poll.unregister(f) leaves: no open socket with that number.
Unwatched(f) == {s \in watched : s \in open => file[s] # f}

\* Where close() returns to, and where an exception that leaves it ends.
Return(t) == IF t = Monitor THEN "unregister" ELSE "over"
Raise(t) == IF t = Monitor THEN "dead" ELSE "over"

(***************************************************************************)
(* connect()                                                               *)
(***************************************************************************)
\* Up to get_apis, on a socket no other thread knows: any free file number.
Connect(t, c) ==
  /\ \E f \in Files \ {file[s] : s \in open} :
       file' = [file EXCEPT ![opened + 1] = f]
  /\ opened' = opened + 1
  /\ open' = open \cup {opened + 1}
  /\ owner' = [owner EXCEPT ![opened + 1] = c]
  /\ allowed' = [allowed EXCEPT ![c] = TRUE]
  /\ self' = [self EXCEPT ![t] = c]
  /\ mine' = [mine EXCEPT ![t] = opened + 1]
  /\ Goto(t, "assign")
  /\ UNCHANGED <<sock, listeners, lost, monitorVars>>

AssignSock(t) ==
  /\ pc[t] = "assign"
  /\ sock' = [sock EXCEPT ![self[t]] = mine[t]]
  /\ Goto(t, "register")
  /\ UNCHANGED <<allowed, listeners, socketVars, monitorVars, self, mine>>

\* register_socket: epoll first.  A socket closed meanwhile has no number.
Register(t) ==
  /\ pc[t] = "register"
  /\ IF mine[t] \in open
       THEN watched' = watched \cup {mine[t]} /\ Goto(t, "store")
       ELSE UNCHANGED watched /\ Goto(t, "refused")
  /\ UNCHANGED <<clientVars, socketVars, callbacks, reported, batch, at, missed, self, mine>>

\* Mutant: register_socket stores nothing for a socket it has seen before.
StoreFirstOnly(t) ==
  /\ pc[t] = "store"
  /\ callbacks' = IF mine[t] \in open /\ mine[t] = self[t]
                    THEN [callbacks EXCEPT ![file[mine[t]]] = mine[t]] ELSE callbacks
  /\ mine' = [mine EXCEPT ![t] = None]
  /\ Goto(t, "connected")
  /\ UNCHANGED <<clientVars, socketVars, watched, reported, batch, at, missed, self>>

\* The monitor's own entry comes second.
StoreCallback(t) ==
  /\ pc[t] = "store"
  /\ callbacks' = [callbacks EXCEPT ![file[mine[t]]] = mine[t]]
  /\ mine' = [mine EXCEPT ![t] = None]
  /\ Goto(t, "connected")
  /\ UNCHANGED <<clientVars, socketVars, watched, reported, batch, at, missed, self>>

(***************************************************************************)
(* close()                                                                 *)
(***************************************************************************)
CloseReads(t) ==
  /\ pc[t] = "closing"
  /\ IF sock[self[t]] = None
       THEN Goto(t, Return(t)) /\ UNCHANGED mine
       ELSE Goto(t, "taking") /\ mine' = [mine EXCEPT ![t] = sock[self[t]]]
  /\ UNCHANGED <<clientVars, socketVars, monitorVars, self>>

CloseTakes(t) ==
  /\ pc[t] = "taking"
  /\ sock' = [sock EXCEPT ![self[t]] = None]
  /\ Goto(t, "dropping")
  /\ UNCHANGED <<allowed, listeners, socketVars, monitorVars, self, mine>>

\* unregister_socket(sock.fileno()); sock.close().  The attribute the loop over
\* the listeners reads is not there before the constructor has ended, which
\* __getattr__ turns into a RpcCloseException.
CloseDrops(t) ==
  LET s == mine[t]
      f == file[s] IN
  /\ pc[t] = "dropping"
  /\ callbacks' = IF s \in open THEN [callbacks EXCEPT ![f] = None] ELSE callbacks
  /\ watched' = watched \ {s}
  /\ open' = open \ {s}
  /\ mine' = [mine EXCEPT ![t] = None]
  /\ Goto(t, CASE listeners[self[t]] = "missing" -> Raise(t)
               [] listeners[self[t]] = "empty"   -> Return(t)
               [] listeners[self[t]] = "set"     -> "listener")
  /\ UNCHANGED <<clientVars, opened, owner, file, lost, reported, batch, at, missed, self>>

\* Mutant: a listener is removed as it is called, under the iterator.
ListenersRemovedInLoop(t) ==
  /\ pc[t] = "told"
  /\ listeners' = [listeners EXCEPT ![self[t]] = "empty"]
  /\ Goto(t, Raise(t))
  /\ UNCHANGED <<sock, allowed, socketVars, monitorVars, self, mine>>

\* Back from the listener: the iterator raises if another thread has cleared
\* the dictionary meanwhile; else it is cleared here.
ListenersOver(t) ==
  /\ pc[t] = "told"
  /\ IF listeners[self[t]] = "set"
       THEN listeners' = [listeners EXCEPT ![self[t]] = "empty"] /\ Goto(t, Return(t))
       ELSE UNCHANGED listeners /\ Goto(t, Raise(t))
  /\ UNCHANGED <<sock, allowed, socketVars, monitorVars, self, mine>>

(***************************************************************************)
(* SocketMonitor.run, with epoll.                                          *)
(***************************************************************************)
Poll ==
  /\ pc[Monitor] = "poll"
  /\ batch = {} /\ Edges # {}
  /\ batch' = {file[s] : s \in Edges}
  /\ reported' = reported \cup Edges
  /\ UNCHANGED <<clientVars, socketVars, callbacks, watched, at, missed, threadVars>>

\* Mutant: one event is handled for each poll.
DispatchOne(f) ==
  /\ pc[Monitor] = "poll"
  /\ f \in batch
  /\ at' = f
  /\ batch' = {f}
  /\ IF callbacks[f] = None
       THEN /\ missed' = missed \cup {s \in open : file[s] = f}
            /\ Goto(Monitor, "unregister")
            /\ UNCHANGED self
       ELSE /\ self' = [self EXCEPT ![Monitor] = owner[callbacks[f]]]
            /\ Goto(Monitor, "called")
            /\ UNCHANGED missed
  /\ UNCHANGED <<clientVars, socketVars, callbacks, watched, reported, mine>>

\* callbacks.get(file_no); without an entry straight to unregister_socket, by
\* which time the entry may be there.
Dispatch(f) ==
  /\ pc[Monitor] = "poll"
  /\ f \in batch
  /\ at' = f
  /\ IF callbacks[f] = None
       THEN /\ missed' = missed \cup {s \in open : file[s] = f}
            /\ Goto(Monitor, "unregister")
            /\ UNCHANGED self
       ELSE /\ self' = [self EXCEPT ![Monitor] = owner[callbacks[f]]]
            /\ Goto(Monitor, "called")
            /\ UNCHANGED missed
  /\ UNCHANGED <<clientVars, socketVars, callbacks, watched, reported, batch, mine>>

\* on_close: forbid_call(), and then close().
OnClose ==
  /\ pc[Monitor] = "called"
  /\ allowed' = [allowed EXCEPT ![self[Monitor]] = FALSE]
  /\ Goto(Monitor, "closing")
  /\ UNCHANGED <<sock, listeners, socketVars, monitorVars, self, mine>>

\* unregister_socket(file_no), whatever has that number by now.
Unregister ==
  /\ pc[Monitor] = "unregister"
  /\ callbacks' = [callbacks EXCEPT ![at] = None]
  /\ watched' = IF callbacks[at] = None THEN watched ELSE Unwatched(at)
  /\ batch' = batch \ {at}
  /\ at' = None
  /\ self' = [self EXCEPT ![Monitor] = None]
  /\ Goto(Monitor, "poll")
  /\ UNCHANGED <<clientVars, socketVars, reported, missed, mine>>

(***************************************************************************)
(* __subscribe_loop: self.sock is read again for each broadcast and for    *)
(* each answer.                                                            *)
(***************************************************************************)
LoopReads(l) ==
  /\ pc[l] = "read"
  /\ IF sock[self[l]] = None
       THEN Goto(l, "closing") /\ UNCHANGED mine
       ELSE Goto(l, "recv") /\ mine' = [mine EXCEPT ![l] = sock[self[l]]]
  /\ UNCHANGED <<clientVars, socketVars, monitorVars, self>>

\* Mutant: the timeout is not told from other exceptions.
TimeoutEndsLoop(l) ==
  /\ pc[l] = "recv"
  /\ mine[l] \notin lost
  /\ mine' = [mine EXCEPT ![l] = None]
  /\ \E next \in {"read", "closing"} : Goto(l, next)
  /\ UNCHANGED <<clientVars, socketVars, monitorVars, self>>

\* A broadcast is handled, which may take long, and answered; or recv has timed
\* out.  Either way the loop is about to read self.sock again.
LoopReceives(l) ==
  /\ pc[l] = "recv"
  /\ mine[l] \notin lost
  /\ mine' = [mine EXCEPT ![l] = None]
  /\ Goto(l, "read")
  /\ UNCHANGED <<clientVars, socketVars, monitorVars, self>>

\* The exception that ends the loop, of a connection lost or closed by another
\* thread, and the close() after it.
LoopFails(l) ==
  /\ pc[l] = "recv"
  /\ mine[l] \in lost \/ mine[l] \notin open
  /\ mine' = [mine EXCEPT ![l] = None]
  /\ Goto(l, "closing")
  /\ UNCHANGED <<clientVars, socketVars, monitorVars, self>>

(***************************************************************************)
(* The other side: a server or an app process dies.                        *)
(***************************************************************************)
Drop(s) ==
  /\ Alive(s)
  /\ lost' = lost \cup {s}
  /\ UNCHANGED <<clientVars, opened, owner, file, open, monitorVars, threadVars>>

ConnectStep(t) == AssignSock(t) \/ Register(t) \/ StoreCallback(t)
CloseStep(t) == CloseReads(t) \/ CloseTakes(t) \/ CloseDrops(t) \/ ListenersOver(t)
MonitorStep == Poll \/ (\E f \in Files : Dispatch(f)) \/ OnClose \/ Unregister
LoopStep(l) == LoopReads(l) \/ LoopReceives(l) \/ LoopFails(l)
==============================================================================
