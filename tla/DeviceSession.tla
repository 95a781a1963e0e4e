---------------------------- MODULE DeviceSession ----------------------------
(***************************************************************************)
(* One of an AlbatrossDevice's three cached clients (device.py) over       *)
(* RpcConnection: threads get it through cached_property (wrapper.py),     *)
(* whose lock may time out, and the listener of its close drops it from    *)
(* the cache or connects it again.                                         *)
(*                                                                         *)
(*   "server"      device.client, dropped when lost                        *)
(*   "system"      device.system_server_client, connected again            *)
(*   "subscriber"  device.system_server_subscriber, connected again and    *)
(*                 subscribed again                                        *)
(***************************************************************************)
EXTENDS RpcConnection, FiniteSets

CONSTANTS
  Setups,         \* which of the three, and the bounds that go with it
  LockMayTimeOut  \* may the wait for the property's lock time out

Kinds == {"server", "system", "subscriber"}
ASSUME SessionAssumption ==
  /\ None \notin Callers
  /\ Setups \subseteq [kind : Kinds, callers : SUBSET Callers, limit : 0..MaxSockets]
  /\ LockMayTimeOut \in BOOLEAN

VARIABLES
  kind,      \* the client this is about
  limit,     \* bound: connections made
  cached,    \* obj.__dict__: a client, or None for nil_value
  holder,    \* who holds the RLock of the property
  attempt,   \* attempt[u]: get_client makes a second client when the first fails
  timedOut,  \* history: some thread has gone on without the lock
  early      \* history: clients closed before they were in the cache

deviceVars == <<kind, limit, cached, holder, attempt, timedOut, early>>
vars == <<connectionVars, deviceVars>>

CallerPc == {"absent", "idle", "lock", "build", "calling", "listen", "subscribing", "save"}
ListenerPc == {"reconnect", "subscribing", "delete"}
TypeOK ==
  /\ ConnectionTypeOK
  /\ \A u \in Callers : pc[u] \in CallerPc \cup ConnectPc
  /\ \A l \in Loops : pc[l] \in LoopPc \cup ClosePc \cup ConnectPc \cup ListenerPc
  /\ pc[Monitor] \in MonitorPc \cup ClosePc \cup ConnectPc \cup ListenerPc
  /\ kind \in Kinds
  /\ limit \in 0..MaxSockets
  /\ cached \in Clients \cup {None}
  /\ holder \in Callers \cup {None}
  /\ attempt \in [Callers -> 1..2]
  /\ timedOut \in BOOLEAN
  /\ early \subseteq Clients

Init ==
  /\ \E s \in Setups :
       /\ kind = s.kind
       /\ limit = s.limit
       /\ ConnectionInit(s.callers)
  /\ cached = None
  /\ holder = None
  /\ attempt = [u \in Callers |-> 1]
  /\ timedOut = FALSE
  /\ early = {}

(***************************************************************************)
(* cached_property.__get__ in a caller.                                    *)
(***************************************************************************)
Moves(t, from, to) == pc[t] = from /\ Goto(t, to)
OnlyPc == UNCHANGED <<clientVars, socketVars, monitorVars, self, mine>>

Miss(u) ==
  /\ opened < limit    \* bound
  /\ cached = None
  /\ Moves(u, "idle", "lock")
  /\ OnlyPc /\ UNCHANGED deviceVars

\* Mutant: the value is not looked up again under the lock.
NoSecondLook(u) ==
  /\ pc[u] = "lock"
  /\ \/ holder = None /\ UNCHANGED timedOut
     \/ LockMayTimeOut /\ holder # None /\ timedOut' = TRUE
  /\ Goto(u, "build")
  /\ holder' = (IF holder = None THEN u ELSE holder)
  /\ OnlyPc /\ UNCHANGED <<kind, limit, cached, attempt, early>>

\* TimeoutLock.__enter__ does not look at what acquire returned; the value is
\* looked up again in either case.
Enter(u) ==
  /\ pc[u] = "lock"
  /\ \/ holder = None /\ UNCHANGED timedOut
     \/ LockMayTimeOut /\ holder # None /\ timedOut' = TRUE
  /\ IF cached = None
       THEN Goto(u, "build") /\ holder' = (IF holder = None THEN u ELSE holder)
       ELSE Goto(u, "idle") /\ UNCHANGED holder
  /\ OnlyPc /\ UNCHANGED <<kind, limit, cached, attempt, early>>

\* TimeoutLock.__exit__, with a value or an exception.
Exit(u) ==
  /\ Goto(u, "idle")
  /\ holder' = IF holder = u THEN None ELSE holder
  /\ attempt' = [attempt EXCEPT ![u] = 1]
  /\ self' = [self EXCEPT ![u] = None]
  /\ mine' = [mine EXCEPT ![u] = None]

\* RpcClient.__init__ connects before it sets on_close_callbacks.
Build(u) ==
  /\ pc[u] = "build"
  /\ opened < limit
  /\ Connect(u, opened + 1)
  /\ UNCHANGED deviceVars

\* Mutant: as many attempts as it takes.
KeepsTrying(u) ==
  IF kind = "server"
    THEN /\ Goto(u, "build")
         /\ attempt' = [attempt EXCEPT ![u] = @ + 1]
         /\ mine' = [mine EXCEPT ![u] = None]
         /\ UNCHANGED <<holder, self>>
    ELSE Exit(u)

\* The constructor or the first call raised.  get_client kills the server
\* process, starts another and tries once more.
Fails(u) ==
  IF kind = "server" /\ attempt[u] = 1
    THEN /\ Goto(u, "build")
         /\ attempt' = [attempt EXCEPT ![u] = 2]
         /\ mine' = [mine EXCEPT ![u] = None]
         /\ UNCHANGED <<holder, self>>
    ELSE Exit(u)

BuildFails(u) ==
  /\ pc[u] \in {"build", "refused"}
  /\ Fails(u)
  /\ UNCHANGED <<clientVars, socketVars, monitorVars, kind, limit, cached, timedOut, early>>

Constructed(u) ==
  /\ Moves(u, "connected", IF kind = "subscriber" THEN "listen" ELSE "calling")
  /\ listeners' = [listeners EXCEPT ![self[u]] = "empty"]
  /\ UNCHANGED <<sock, allowed, socketVars, monitorVars, self, mine, deviceVars>>

\* set_arch_lib or init: calls that precede add_close_listener.
FirstCall(u) ==
  /\ pc[u] = "calling"
  /\ \/ /\ Alive(sock[self[u]]) /\ allowed[self[u]]
        /\ Goto(u, "listen")
        /\ UNCHANGED <<holder, attempt, self, mine>>
     \/ Fails(u)
  /\ UNCHANGED <<clientVars, socketVars, monitorVars, kind, limit, cached, timedOut, early>>

AddCloseListener(u) ==
  /\ Moves(u, "listen", IF kind = "subscriber" THEN "subscribing" ELSE "save")
  /\ listeners' = [listeners EXCEPT ![self[u]] = "set"]
  /\ UNCHANGED <<sock, allowed, socketVars, monitorVars, self, mine, deviceVars>>

\* obj_dict[attr_name] = val
Save(u) ==
  /\ pc[u] = "save"
  /\ cached' = self[u]
  /\ Exit(u)
  /\ UNCHANGED <<clientVars, socketVars, monitorVars, kind, limit, timedOut, early>>

(***************************************************************************)
(* subscribe(), called by the getter and by the listener: parse_subscribe  *)
(* starts a loop.                                                          *)
(***************************************************************************)
Subscribe(t) ==
  /\ pc[t] = "subscribing"
  /\ Alive(sock[self[t]])
  /\ \E l \in Loops : pc[l] = "unborn"    \* bound
  /\ \E l \in Loops :
       /\ l = CHOOSE k \in Loops : pc[k] = "unborn"
       /\ self' = [self EXCEPT ![l] = self[t]]
       /\ pc' = [pc EXCEPT ![l] = "read", ![t] = IF t \in Callers THEN "save" ELSE "told"]
  /\ UNCHANGED <<clientVars, socketVars, monitorVars, mine, deviceVars>>

SubscribeFails(t) ==
  /\ pc[t] = "subscribing"
  /\ IF t \in Callers THEN Exit(t) ELSE Goto(t, "delete") /\ UNCHANGED <<holder, attempt, self, mine>>
  /\ UNCHANGED <<clientVars, socketVars, monitorVars, kind, limit, cached, timedOut, early>>

(***************************************************************************)
(* The listeners, in the thread that closes: __on_close,                   *)
(* on_system_client_close and on_system_subscribe_close.                   *)
(***************************************************************************)
\* Mutant: __on_close only logs.
OnlyLog(t) ==
  /\ Moves(t, "listener", IF kind = "server" THEN "told"
                          ELSE IF sock[self[t]] = None THEN "reconnect" ELSE "delete")
  /\ OnlyPc /\ UNCHANGED deviceVars

\* A client that another thread has connected again is dropped like one that
\* cannot be: reconnect() returns True only if it made the connection itself.
Listener(t) ==
  /\ Moves(t, "listener", IF kind = "server" THEN "told"
                          ELSE IF sock[self[t]] = None THEN "reconnect" ELSE "delete")
  /\ cached' = IF kind = "server" THEN None ELSE cached
  /\ OnlyPc /\ UNCHANGED <<kind, limit, holder, attempt, timedOut, early>>

Reconnect(t) ==
  /\ pc[t] = "reconnect"
  /\ opened < limit
  /\ Connect(t, self[t])
  /\ UNCHANGED deviceVars

ReconnectFails(t) ==
  /\ pc[t] \in {"reconnect", "refused"}
  /\ Goto(t, "delete")
  /\ mine' = [mine EXCEPT ![t] = None]
  /\ UNCHANGED <<clientVars, socketVars, monitorVars, self, deviceVars>>

Connected == IF kind = "subscriber" THEN "subscribing" ELSE "told"

Reconnected(t) ==
  /\ Moves(t, "connected", Connected)
  /\ OnlyPc /\ UNCHANGED deviceVars

Delete(t) ==
  /\ Moves(t, "delete", "told")
  /\ cached' = None
  /\ OnlyPc /\ UNCHANGED <<kind, limit, holder, attempt, timedOut, early>>

-----------------------------------------------------------------------------
Getter(u) ==
  \/ Enter(u) \/ Build(u) \/ BuildFails(u) \/ Constructed(u)
  \/ FirstCall(u) \/ AddCloseListener(u) \/ Save(u)

Closer(t) ==
  \/ Listener(t) \/ Reconnect(t) \/ ReconnectFails(t) \/ Reconnected(t) \/ Delete(t)
  \/ CloseStep(t) /\ UNCHANGED <<kind, limit, cached, holder, attempt, timedOut>>
       /\ early' = IF pc[t] = "taking" /\ cached # self[t] THEN early \cup {self[t]} ELSE early

\* What a thread does by itself once it is under way.
Step(t) ==
  \/ ConnectStep(t) /\ UNCHANGED deviceVars
  \/ Subscribe(t) \/ SubscribeFails(t)
  \/ t \in Callers /\ Getter(t)
  \/ t \notin Callers /\ Closer(t)
  \/ t = Monitor /\ MonitorStep /\ UNCHANGED deviceVars
  \/ t \in Loops /\ LoopStep(t) /\ UNCHANGED deviceVars

Next ==
  \/ \E u \in Callers : Miss(u)
  \/ \E t \in Threads : Step(t)
  \/ \E s \in Sockets : Drop(s) /\ UNCHANGED deviceVars

Spec == Init /\ [][Next]_vars
FairSpec == Spec /\ \A t \in Threads : WF_vars(Step(t))
-----------------------------------------------------------------------------
(* Properties.                                                             *)

Resting ==
  /\ pc[Monitor] \in {"poll", "dead"}
  /\ batch = {} /\ (Edges = {} \/ pc[Monitor] = "dead")
  /\ \A u \in Callers : pc[u] \in {"idle", "absent"}
  /\ \A l \in Loops : pc[l] \in {"unborn", "over"} \/ (pc[l] = "recv" /\ mine[l] \notin lost)
Connections(c) == {s \in Sockets : owner[s] = c}
\* Another socket had the file number before.
Reused(s) == \E r \in 1..(s - 1) : file[r] = file[s]

(* Once everything has come to rest, a client the device still hands out   *)
(* is connected.  It may be closed only if it was lost before it got into  *)
(* the cache, or connected again before: close() forgets the listeners     *)
(* it has called, so that the second loss is told to nobody.               *)
DeadClientIsDropped ==
  Resting /\ cached # None /\ sock[cached] = None =>
    cached \in early \/ Cardinality(Connections(cached)) > 1

(* The one monitor thread survives every loss of a client without          *)
(* subscription, failing listeners included, but for a loss that hits a    *)
(* client before it is in the cache (a constructor that has not set        *)
(* on_close_callbacks).  Only a subscriber's second thread that closes can *)
(* clear the listeners under its iterator.                                 *)
MonitorSurvives ==
  pc[Monitor] = "dead" => kind = "subscriber" \/ early # {}

(* At rest a connected client is watched: the monitor's entry and epoll    *)
(* agree on it.  It is not only if it got the file number of a connection  *)
(* made before, whose late unregister_socket removes the new entry, or if  *)
(* its own event came before the entry was stored and unregister_socket    *)
(* after.                                                                  *)
ConnectedIsWatched ==
  Resting => \A c \in Clients : LET s == sock[c] IN
    s # None => (callbacks[file[s]] = s /\ s \in watched) \/ Reused(s) \/ s \in missed

(* A connection that works is not closed by the loss of another.  Only a   *)
(* subscriber's may be: one it made when it reconnected, by a thread still *)
(* busy with the loss before, and one that got the number of a connection  *)
(* the loop closed while the monitor had the event in hand.                *)
OnlyLostAreClosed ==
  [][\A s \in open \ open' :
       s \in lost \/ (kind = "subscriber" /\ (owner[s] # s \/ Reused(s)))]_vars

(* While the property's lock does not time out, a server or a system       *)
(* client in the cache is never replaced by another: there is one of each  *)
(* at a time.  (Not so the subscriber: the getter of the system client may *)
(* put one of its own in the cache, with the lock of another property.)    *)
NeverReplaced ==
  [][kind # "subscriber" /\ cached # None /\ cached' # cached
       => cached' = None \/ timedOut]_vars

(* A loss is noticed: time and again every connection the other side has   *)
(* dropped is closed (and then stays so), unless the monitor is dead, or   *)
(* the number of the connection was used before and it may not be watched, *)
(* or its one event came before register_socket had stored the entry, or a *)
(* subscriber has lost sight of it: two threads closed the connection      *)
(* before, and the later one cleared self.sock when it was this one.       *)
LossIsNoticed ==
  []<>(\A s \in lost \cap open :
         \/ pc[Monitor] = "dead" \/ Reused(s) \/ s \in missed
         \/ (kind = "subscriber" /\ owner[s] # s))
=============================================================================
