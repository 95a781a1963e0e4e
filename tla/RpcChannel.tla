----------------------------- MODULE RpcChannel -----------------------------
(***************************************************************************)
(* One RpcClient connection shared by several threads: every method call   *)
(* is an AlbRpcMethod.__call__ (rpc_client.py).  The identifier of a call  *)
(* is taken from client.call_counter without a lock, BEFORE the request    *)
(* lock is acquired, and is masked to 16 bits; the replies share one byte  *)
(* stream, which knows nothing of where a reply begins or ends.            *)
(*                                                                         *)
(* A byte stream is scaled down to cells.  A header of 8 bytes is two of   *)
(* them, 'wq' and the rest; a payload is a cell or more.  The server may   *)
(* write a cell at a time, so that every way recv() can cut the stream up  *)
(* is a run of the model, and readers take a cell at a time.               *)
(*                                                                         *)
(* The server is not part of this repository: it is modelled as what the   *)
(* client relies on, one worker per connection that carries requests out   *)
(* in the order received and replies with the identifier of the request.   *)
(***************************************************************************)
EXTENDS Naturals, Sequences

CONSTANTS
  Threads,         \* threads of the program that call through this client
  NoThread,        \* no thread: the request lock is free
  MaxCalls,        \* bound: number of calls made
  Wrap,            \* CALL_ID_MASK + 1: identifiers are 0..Wrap-1
  Kinds,           \* kinds of methods called, among AllKinds
  Customs,         \* may a call give its own timeout: subset of BOOLEAN
  ErrorReplies,    \* may the server answer with an error code: subset of BOOLEAN
  MaxSize,         \* bound: cells of a payload
  Lookalikes,      \* may other bytes than a header's begin with 'wq'
  LockMayTimeOut,  \* may acquiring the request lock time out
  SockMayTimeOut   \* may sending or receiving time out

AllKinds == {"reply",   \* the server answers
             "void",    \* the method is declared "-> void": nothing is received
             "local"}   \* its handler returns JustReturn: nothing is sent

ASSUME ChannelAssumption ==
  /\ NoThread \notin Threads
  /\ MaxCalls \in Nat
  /\ Wrap \in Nat \ {0}
  /\ Kinds \subseteq AllKinds
  /\ Customs \subseteq BOOLEAN
  /\ ErrorReplies \subseteq BOOLEAN
  /\ MaxSize \in Nat
  /\ Lookalikes \in BOOLEAN
  /\ LockMayTimeOut \in BOOLEAN
  /\ SockMayTimeOut \in BOOLEAN

Calls == 1..MaxCalls
NoCall == 0

VARIABLES
  callCounter,   \* client.call_counter
  lock,          \* holder of client.request_lock, or NoThread
  sockOpen,      \* client.sock is set (and the socket open)
  sockTimeout,   \* timeout of the socket: client.default_timeout or a call's own
  requests,      \* bytes on their way to the server, one record per request
  replies,       \* bytes on their way to the client, a sequence of cells
  owed,          \* the cell the server writes next, in the middle of a reply, or NoCell
  pc,            \* pc[t]: where thread t is in __call__
  counterRead,   \* counterRead[t]: its local call_counter
  methodId,      \* its local method_id
  gotLock,       \* its local get_lock
  raised,        \* its local send_exception is set
  frame,         \* what it has of a reply: idx, result, data_len, and whose bytes
  cur,           \* the call thread t is in (calls are numbered as they begin)
  \* History of the calls, by number:
  made,          \* number of calls begun
  maker,         \* maker[c]: the thread that made it
  kind,          \* kind[c] of method called
  custom,        \* custom[c]: a timeout argument was given
  outcome,       \* outcome[c]: how the call ended for its caller
  carried,       \* the calls the server has carried out
  answer,        \* answer[c]: calls whose replies made up what c returned
  mistaken,      \* some other bytes have been taken for a header
  overran        \* some call has gone on without the request lock

wire == <<requests, replies, owed>>
history == <<made, maker, kind, custom>>
locals == <<counterRead, methodId, gotLock, raised, frame, cur>>
vars == <<callCounter, lock, sockOpen, sockTimeout, wire, pc, locals,
          history, outcome, carried, answer, mistaken, overran>>

(***************************************************************************)
(* Data.                                                                   *)
(***************************************************************************)
Ids == 0..(Wrap - 1)
Request == [id : Ids, of : Calls, wants : BOOLEAN]
\* A cell of the reply stream: the reply it is of, to call "of", and its place in
\* there: 0 is 'wq', 1 the rest of the header, which says the identifier, whether
\* the result is one of the error codes of err_desc, and the size of the payload.
Cell == {cell \in [of : Calls, id : Ids, err : BOOLEAN, size : 0..MaxSize, pos : 0..(MaxSize + 1)] :
           cell.pos <= cell.size + 1}
FirstCell(of, id, err, size) == [of |-> of, id |-> id, err |-> err, size |-> size, pos |-> 0]
IsLast(cell) == cell.pos = cell.size + 1
NextCell(cell) == [of |-> cell.of, id |-> cell.id, err |-> cell.err, size |-> cell.size,
                   pos |-> cell.pos + 1]
NoCell == [of |-> NoCall, id |-> 0, err |-> FALSE, size |-> 0, pos |-> 0]

\* What rpc_receive_data has so far: the header of a reply to "of" (NoCall if it
\* is made of other bytes), "left" cells of payload to come, bytes of replies "from".
Frame == [of : Calls \cup {NoCall}, id : Ids, err : BOOLEAN, left : 0..MaxSize,
          from : SUBSET Calls]
NoFrame == [of |-> NoCall, id |-> 0, err |-> FALSE, left |-> 0, from |-> {}]

Outcomes == {"none", "running", "raised", "void", "local", "error", "returned"}

ClientTypeOK ==
  /\ callCounter \in 0..MaxCalls
  /\ lock \in Threads \cup {NoThread}
  /\ sockOpen \in BOOLEAN
  /\ sockTimeout \in {"default", "custom"}
  /\ mistaken \in BOOLEAN
  /\ overran \in BOOLEAN

WireTypeOK ==
  /\ requests \in Seq(Request)
  /\ replies \in Seq(Cell)
  /\ owed \in Cell \cup {NoCell}

ThreadTypeOK ==
  /\ pc \in [Threads -> {"idle", "counted", "numbered", "ready", "send",
                         "head", "rest", "junk", "body", "release", "end"}]
  /\ counterRead \in [Threads -> 0..MaxCalls]
  /\ methodId \in [Threads -> Ids]
  /\ gotLock \in [Threads -> BOOLEAN]
  /\ raised \in [Threads -> BOOLEAN]
  /\ frame \in [Threads -> Frame]
  /\ cur \in [Threads -> Calls \cup {NoCall}]

CallTypeOK ==
  /\ made \in 0..MaxCalls
  /\ maker \in [Calls -> Threads \cup {NoThread}]
  /\ kind \in [Calls -> AllKinds]
  /\ custom \in [Calls -> BOOLEAN]
  /\ outcome \in [Calls -> Outcomes]
  /\ carried \in SUBSET Calls
  /\ answer \in [Calls -> SUBSET (Calls \cup {NoCall})]

TypeOK == ClientTypeOK /\ WireTypeOK /\ ThreadTypeOK /\ CallTypeOK

Init ==
  /\ callCounter = 0
  /\ lock = NoThread
  /\ sockOpen = TRUE
  /\ sockTimeout = "default"
  /\ requests = <<>>
  /\ replies = <<>>
  /\ owed = NoCell
  /\ pc = [t \in Threads |-> "idle"]
  /\ counterRead = [t \in Threads |-> 0]
  /\ methodId = [t \in Threads |-> 0]
  /\ gotLock = [t \in Threads |-> FALSE]
  /\ raised = [t \in Threads |-> FALSE]
  /\ frame = [t \in Threads |-> NoFrame]
  /\ cur = [t \in Threads |-> NoCall]
  /\ made = 0
  /\ maker = [c \in Calls |-> NoThread]
  /\ kind = [c \in Calls |-> "reply"]
  /\ custom = [c \in Calls |-> FALSE]
  /\ outcome = [c \in Calls |-> "none"]
  /\ carried = {}
  /\ answer = [c \in Calls |-> {}]
  /\ mistaken = FALSE
  /\ overran = FALSE

(***************************************************************************)
(* AlbRpcMethod.__call__, a step per access to what threads share.         *)
(***************************************************************************)
Goto(t, label) == pc' = [pc EXCEPT ![t] = label]

\* The call ended "how" for its caller, and its locals are gone.
Over(t, how) ==
  /\ Goto(t, "idle")
  /\ outcome' = [outcome EXCEPT ![cur[t]] = how]
  /\ cur' = [cur EXCEPT ![t] = NoCall]
  /\ counterRead' = [counterRead EXCEPT ![t] = 0]
  /\ methodId' = [methodId EXCEPT ![t] = 0]
  /\ gotLock' = [gotLock EXCEPT ![t] = FALSE]
  /\ raised' = [raised EXCEPT ![t] = FALSE]
  /\ frame' = [frame EXCEPT ![t] = NoFrame]

\* Line 58 reads the counter: the call begins, of some kind, perhaps with a timeout.
ReadCounter(t) ==
  /\ pc[t] = "idle"
  /\ made < MaxCalls
  /\ made' = made + 1
  /\ maker' = [maker EXCEPT ![made + 1] = t]
  /\ \E k \in Kinds, own \in Customs :
       /\ kind' = [kind EXCEPT ![made + 1] = k]
       /\ custom' = [custom EXCEPT ![made + 1] = own]
  /\ outcome' = [outcome EXCEPT ![made + 1] = "running"]
  /\ cur' = [cur EXCEPT ![t] = made + 1]
  /\ counterRead' = [counterRead EXCEPT ![t] = callCounter]
  /\ Goto(t, "counted")
  /\ UNCHANGED <<callCounter, lock, sockOpen, sockTimeout, wire, methodId, gotLock, raised, frame,
                 carried, answer, mistaken, overran>>

\* Mutant: the identifier is not masked.
WriteCounterUnmasked(t) ==
  /\ pc[t] = "counted"
  /\ methodId' = [methodId EXCEPT ![t] = counterRead[t]]
  /\ callCounter' = counterRead[t] + 1
  /\ Goto(t, "numbered")
  /\ UNCHANGED <<lock, sockOpen, sockTimeout, wire, counterRead, gotLock, raised, frame, cur,
                 history, outcome, carried, answer, mistaken, overran>>

\* Lines 59 and 60 mask the number and write the counter back.
WriteCounter(t) ==
  /\ pc[t] = "counted"
  /\ methodId' = [methodId EXCEPT ![t] = counterRead[t] % Wrap]
  /\ callCounter' = counterRead[t] + 1
  /\ Goto(t, "numbered")
  /\ UNCHANGED <<lock, sockOpen, sockTimeout, wire, counterRead, gotLock, raised, frame, cur,
                 history, outcome, carried, answer, mistaken, overran>>

\* Lines 75 to 83: the socket may be gone; the call's own timeout is set on
\* the socket before the lock is taken; a handler's JustReturn ends the call.
TakeSocket(t) ==
  /\ pc[t] = "numbered"
  /\ \/ /\ ~sockOpen
        /\ Over(t, "raised")
        /\ UNCHANGED sockTimeout
     \/ /\ sockOpen
        /\ sockTimeout' = IF custom[cur[t]] THEN "custom" ELSE sockTimeout
        /\ IF kind[cur[t]] = "local"
             THEN Over(t, "local")
             ELSE Goto(t, "ready") /\ UNCHANGED <<locals, outcome>>
  /\ UNCHANGED <<callCounter, lock, sockOpen, wire, history, carried, answer, mistaken, overran>>

\* Line 88: the lock is taken, or the wait for it times out and the call goes
\* on all the same, with get_lock False.
AcquireLock(t) ==
  /\ pc[t] = "ready"
  /\ \/ /\ lock = NoThread
        /\ lock' = t
        /\ gotLock' = [gotLock EXCEPT ![t] = TRUE]
        /\ UNCHANGED overran
     \/ /\ LockMayTimeOut
        /\ lock # NoThread
        /\ gotLock' = [gotLock EXCEPT ![t] = FALSE]
        /\ overran' = TRUE
        /\ UNCHANGED lock
  /\ Goto(t, "send")
  /\ UNCHANGED <<callCounter, sockOpen, sockTimeout, wire, counterRead, methodId, raised, frame,
                 cur, history, outcome, carried, answer, mistaken>>

\* Lines 100 to 101: an exception is kept, to be raised after the release.
Raise(t) ==
  /\ raised' = [raised EXCEPT ![t] = TRUE]
  /\ Goto(t, "release")

\* What a call writes at line 93.
RequestOf(t) == [id |-> methodId[t], of |-> cur[t], wants |-> kind[cur[t]] = "reply"]

\* Mutant: the lock is released once the request is written.
SendUnlocking(t) ==
  /\ pc[t] = "send"
  /\ sockOpen
  /\ requests' = Append(requests, RequestOf(t))
  /\ Goto(t, IF kind[cur[t]] = "reply" THEN "head" ELSE "release")
  /\ lock' = IF gotLock[t] THEN NoThread ELSE lock
  /\ gotLock' = [gotLock EXCEPT ![t] = FALSE]
  /\ UNCHANGED <<callCounter, sockOpen, sockTimeout, replies, owed, counterRead, methodId,
                 raised, frame, cur, history, outcome, carried, answer, mistaken, overran>>

\* Lines 93 to 96: the request is written, or the socket is closed or takes no
\* byte of it within its timeout.
Send(t) ==
  /\ pc[t] = "send"
  /\ \/ /\ sockOpen
        /\ requests' = Append(requests, RequestOf(t))
        /\ Goto(t, IF kind[cur[t]] = "reply" THEN "head" ELSE "release")
        /\ UNCHANGED raised
     \/ /\ ~sockOpen \/ SockMayTimeOut
        /\ Raise(t)
        /\ UNCHANGED requests
  /\ UNCHANGED <<callCounter, lock, sockOpen, sockTimeout, replies, owed, counterRead, methodId,
                 gotLock, frame, cur, history, outcome, carried, answer, mistaken, overran>>

\* Mutant: the first reply is taken, whatever its identifier.
NeverStale(t, id) == FALSE

\* Line 98: replies below the call's own identifier are stale, and skipped.
Stale(t, id) == id < methodId[t]

\* Where thread t is once it has a reply with identifier id, "left" cells short.
AfterCell(t, id, left) ==
  IF left > 0 THEN "body" ELSE IF Stale(t, id) THEN "head" ELSE "release"

\* safe_receive(sock, 8), its first bytes: 'wq', or something else ("junk"),
\* which the code tells apart once it has all 8, or something else that looks
\* like it, say the length of a text of 0x7177 bytes.
RecvHead(t) ==
  /\ pc[t] = "head"
  /\ sockOpen
  /\ replies # <<>>
  /\ replies' = Tail(replies)
  /\ LET cell == replies[1]
         start == cell.pos = 0
     IN /\ frame' = [frame EXCEPT ![t] = [NoFrame EXCEPT !.of = IF start THEN cell.of ELSE NoCall,
                                                         !.from = {cell.of}]]
        /\ \/ (start \/ Lookalikes) /\ Goto(t, "rest")
           \/ ~start /\ Goto(t, "junk")
  /\ UNCHANGED <<callCounter, lock, sockOpen, sockTimeout, requests, owed, counterRead, methodId,
                 gotLock, raised, cur, history, outcome, carried, answer, mistaken, overran>>

\* The rest of the 8 bytes, where identifier, result and length are looked for.
\* If they are not those of the header that began there, they may be anything.
RecvRest(t) ==
  /\ pc[t] = "rest"
  /\ sockOpen
  /\ replies # <<>>
  /\ replies' = Tail(replies)
  /\ LET cell == replies[1]
         f == frame[t]
         header == cell.of = f.of /\ cell.pos = 1
     IN \/ /\ header
           /\ frame' = [frame EXCEPT ![t] = [of |-> f.of, id |-> cell.id, err |-> cell.err,
                                             left |-> cell.size, from |-> f.from \cup {cell.of}]]
           /\ Goto(t, AfterCell(t, cell.id, cell.size))
           /\ UNCHANGED mistaken
        \/ /\ ~header
           /\ \E id \in Ids, err \in ErrorReplies \cup {FALSE}, left \in 0..MaxSize :
                /\ frame' = [frame EXCEPT ![t] = [of |-> NoCall, id |-> id, err |-> err,
                                                  left |-> left, from |-> f.from \cup {cell.of}]]
                /\ Goto(t, AfterCell(t, id, left))
           /\ mistaken' = TRUE
  /\ UNCHANGED <<callCounter, lock, sockOpen, sockTimeout, requests, owed, counterRead, methodId,
                 gotLock, raised, cur, history, outcome, carried, answer, overran>>

\* 8 bytes that do not begin with 'wq' are an exception.  They are gone, and
\* what follows them stays on the stream, for the next call to begin with.
RecvJunk(t) ==
  /\ pc[t] = "junk"
  /\ sockOpen
  /\ replies # <<>>
  /\ replies' = Tail(replies)
  /\ Raise(t)
  /\ frame' = [frame EXCEPT ![t] = NoFrame]
  /\ UNCHANGED <<callCounter, lock, sockOpen, sockTimeout, requests, owed, counterRead, methodId,
                 gotLock, cur, history, outcome, carried, answer, mistaken, overran>>

\* The payload is read: as many bytes as the header announced, whatever they are.
RecvBody(t) ==
  /\ pc[t] = "body"
  /\ sockOpen
  /\ replies # <<>>
  /\ replies' = Tail(replies)
  /\ LET f == frame[t]
         left == f.left - 1
     IN /\ frame' = [frame EXCEPT ![t] = [f EXCEPT !.left = left,
                                                  !.from = f.from \cup {replies[1].of}]]
        /\ Goto(t, AfterCell(t, f.id, left))
  /\ UNCHANGED <<callCounter, lock, sockOpen, sockTimeout, requests, owed, counterRead, methodId,
                 gotLock, raised, cur, history, outcome, carried, answer, mistaken, overran>>

Receiving == {"head", "rest", "junk", "body"}

\* Mutant: the socket has no timeout.
RecvFailsOnCloseOnly(t) ==
  /\ pc[t] \in Receiving
  /\ ~sockOpen
  /\ Raise(t)
  /\ UNCHANGED <<callCounter, lock, sockOpen, sockTimeout, wire, counterRead, methodId, gotLock,
                 frame, cur, history, outcome, carried, answer, mistaken, overran>>

\* Receiving fails, in the middle of a header or a payload as well as between
\* them: the socket was closed, or no byte came within its timeout.  What the
\* thread has received of a reply is lost, the rest of it is yet to come.
RecvFails(t) ==
  /\ pc[t] \in Receiving
  /\ ~sockOpen \/ (SockMayTimeOut /\ replies = <<>>)
  /\ Raise(t)
  /\ frame' = [frame EXCEPT ![t] = NoFrame]
  /\ UNCHANGED <<callCounter, lock, sockOpen, sockTimeout, wire, counterRead, methodId, gotLock,
                 cur, history, outcome, carried, answer, mistaken, overran>>

\* Lines 102 and 103.
Release(t) ==
  /\ pc[t] = "release"
  /\ lock' = IF gotLock[t] THEN NoThread ELSE lock
  /\ Goto(t, "end")
  /\ UNCHANGED <<callCounter, sockOpen, sockTimeout, wire, locals, history, outcome, carried,
                 answer, mistaken, overran>>

\* Mutant: send_exception is not raised again after the release.
EndSwallowing(t) ==
  /\ pc[t] = "end"
  /\ LET c == cur[t] IN
       /\ Over(t, IF kind[c] = "void" THEN "void" ELSE "returned")
       /\ answer' = IF kind[c] = "void" THEN answer
                    ELSE [answer EXCEPT ![c] = frame[t].from]
  /\ UNCHANGED <<callCounter, lock, sockOpen, sockTimeout, wire, history, carried, mistaken, overran>>

\* Mutant: the default timeout is never restored.
EndKeepingTimeout(t) ==
  /\ pc[t] = "end"
  /\ LET c == cur[t]
         how == IF raised[t] THEN "raised"
                ELSE IF kind[c] = "void" THEN "void"
                ELSE IF frame[t].err THEN "error" ELSE "returned"
     IN /\ Over(t, how)
        /\ answer' = IF how \in {"error", "returned"}
                       THEN [answer EXCEPT ![c] = {frame[t].of} \cup frame[t].from]
                       ELSE answer
  /\ UNCHANGED <<callCounter, lock, sockOpen, sockTimeout, wire, history, carried, mistaken, overran>>

\* Lines 104 to 134.  The socket's timeout is restored on the last line only:
\* not when the call raised, is void, or is answered by an error code; on a
\* closed socket that line raises.  An identifier other than the call's own is
\* logged and otherwise ignored.
End(t) ==
  /\ pc[t] = "end"
  /\ LET c == cur[t]
         how == IF raised[t] THEN "raised"
                ELSE IF kind[c] = "void" THEN "void"
                ELSE IF frame[t].err THEN "error"
                ELSE IF custom[c] /\ ~sockOpen THEN "raised" ELSE "returned"
     IN /\ Over(t, how)
        /\ sockTimeout' = IF how = "returned" /\ custom[c] THEN "default" ELSE sockTimeout
        /\ answer' = IF how \in {"error", "returned"}
                       THEN [answer EXCEPT ![c] = {frame[t].of} \cup frame[t].from]
                       ELSE answer
  /\ UNCHANGED <<callCounter, lock, sockOpen, wire, history, carried, mistaken, overran>>

\* RpcClient.close, called by another thread (the socket monitor or a user).
Close ==
  /\ sockOpen
  /\ sockOpen' = FALSE
  /\ replies' = <<>>
  /\ owed' = NoCell
  /\ UNCHANGED <<callCounter, lock, sockTimeout, requests, pc, locals, history, outcome, carried,
                 answer, mistaken, overran>>

(***************************************************************************)
(* The server (external): one request after the other, each reply whole,   *)
(* header first, but not all at once.                                      *)
(***************************************************************************)
Serve ==
  /\ requests # <<>>
  /\ owed = NoCell
  /\ LET req == requests[1] IN
       /\ requests' = Tail(requests)
       /\ carried' = carried \cup {req.of}
       /\ IF req.wants /\ sockOpen
            THEN \E err \in ErrorReplies, size \in 0..MaxSize :
                   owed' = FirstCell(req.of, req.id, err, size)
            ELSE UNCHANGED owed
  /\ UNCHANGED <<callCounter, lock, sockOpen, sockTimeout, replies, pc, locals, history, outcome,
                 answer, mistaken, overran>>

WriteCell ==
  /\ owed # NoCell
  /\ replies' = Append(replies, owed)
  /\ owed' = IF IsLast(owed) THEN NoCell ELSE NextCell(owed)
  /\ UNCHANGED <<callCounter, lock, sockOpen, sockTimeout, requests, pc, locals, history, outcome,
                 carried, answer, mistaken, overran>>

Step(t) ==
  \/ WriteCounter(t) \/ TakeSocket(t) \/ AcquireLock(t) \/ Send(t)
  \/ RecvHead(t) \/ RecvRest(t) \/ RecvJunk(t) \/ RecvBody(t) \/ RecvFails(t)
  \/ Release(t) \/ End(t)

Next ==
  \/ \E t \in Threads : ReadCounter(t) \/ Step(t)
  \/ Close
  \/ Serve
  \/ WriteCell

Spec == Init /\ [][Next]_vars

\* A thread inside a call is scheduled; that it calls again is not promised.
ThreadsFair == \A t \in Threads : WF_vars(Step(t))
FairSpec == Spec /\ ThreadsFair

(***************************************************************************)
(* Properties.                                                             *)
(***************************************************************************)
\* The exchange of a call: it may be writing its request or reading replies.
InExchange(t) == pc[t] \in {"send"} \cup Receiving

\* The request lock does its work: unless waiting for it may time out, no two
\* threads are between line 93 and line 99 on the same socket.
MutualExclusion ==
  \A t, u \in Threads : InExchange(t) /\ InExchange(u) => t = u

\* Whatever identifiers two threads took from the unprotected counter, and
\* however these wrapped, the bytes a call hands to its caller, those of the
\* header and those of the payload, are of the reply to that very call, and what
\* was taken for its header is one.
OwnReply == \A c \in Calls : answer[c] \subseteq {c}

GaveUp(c) == outcome[c] = "raised" \/ \E t \in Threads : cur[t] = c /\ raised[t]

\* As long as no call went on without the lock:
\*  - other bytes are taken for a header, and a caller is given bytes of another
\*    call's reply, only after some call gave up, and never bytes of a reply
\*    whose own call is still waiting for it;
\*  - until other bytes are taken for a header, replies are dealt out whole and
\*    once, however a call that gave up has left the stream: in the middle of a
\*    header, of a payload, or of what a later call then read for its header.
\* (The call that gave up need not be the one whose reply strays: a caller that
\* took the reply of an abandoned call leaves its own behind for the next.)
StraysAreLeftOver ==
  ~overran =>
    /\ mistaken => \E g \in Calls : GaveUp(g)
    /\ \A c, d \in Calls : d \in answer[c] =>
         /\ d # c => /\ \E g \in Calls : GaveUp(g)
                     /\ \A t \in Threads : cur[t] = d => ~InExchange(t)
         /\ ~mistaken => /\ answer[c] = {d}
                         /\ \A e \in Calls \ {c} : d \notin answer[e]

\* A thread that has the client to itself is never given bytes of an earlier call
\* of its own, wherever a receive timed out, as long as the identifiers have not
\* wrapped and nothing on the stream was taken for a header that is none.
SoleCallerGetsOwnReply ==
  (\A c \in 1..made : maker[c] = maker[1]) /\ made <= Wrap /\ ~mistaken
    => \A c \in Calls : answer[c] \subseteq {c}

\* A call's own timeout is left on the shared socket only by a call that ended
\* in one of the ways that skip line 133; when every call returned a value, the
\* socket is back to the client's default timeout.
OwnTimeoutOutlivesOnlyAbruptCalls ==
  (\A t \in Threads : pc[t] = "idle") /\ sockTimeout = "custom"
    => \E c \in Calls : custom[c] /\ outcome[c] \in {"raised", "void", "local", "error"}

\* Every call comes back to its caller, with a value or an exception, whatever
\* the other threads' calls and the connection went through.
EveryCallEnds ==
  \A c \in Calls : (outcome[c] = "running") ~> (outcome[c] # "running")

\* The channel keeps the promise of RpcCallService: callers are answered at
\* most once, only after the server carried their call out, and with its answer.
ServiceState ==
  [c \in Calls |->
     CASE outcome[c] = "none" -> "none"
       [] outcome[c] = "running" -> "pending"
       [] outcome[c] = "raised" -> "failed"
       [] outcome[c] \in {"void", "local"} -> "unanswered"
       [] outcome[c] \in {"error", "returned"} -> "answered"]

Service == INSTANCE RpcCallService WITH state <- ServiceState

ImplementsService == Service!ServiceSpec
=============================================================================
