-------------------------- MODULE RpcChannelProofs --------------------------
(***************************************************************************)
(* Theorems about RpcChannel for any number of threads, calls, identifiers *)
(* and cells: the lock excludes, a caller gets its own reply, RpcChannel   *)
(* implements RpcCallService, replies are dealt out whole and once, and    *)
(* what a call leaves behind.                                              *)
(***************************************************************************)
EXTENDS RpcChannel, SequenceTheorems, TLAPS

(***************************************************************************)
(* Every thread inside a call is inside a call of its own, begun and not   *)
(* over, and its locals are what the lines up to its pc have made them.    *)
(***************************************************************************)
CounterInv ==
  /\ callCounter <= made
  /\ \A t \in Threads : pc[t] = "counted" => counterRead[t] < made

CallInv ==
  /\ \A t \in Threads : pc[t] # "idle" => cur[t] \in 1..made
  /\ \A t, u \in Threads : pc[t] # "idle" /\ pc[u] # "idle" /\ cur[t] = cur[u] => t = u

KindInv ==
  /\ \A t \in Threads :
       pc[t] \in {"ready", "send", "release", "end"} \cup Receiving => kind[cur[t]] # "local"
  /\ \A t \in Threads : pc[t] \in Receiving => kind[cur[t]] = "reply"

FrameInv == \A t \in Threads : pc[t] = "body" => frame[t].left > 0

TypeInv == TypeOK /\ CounterInv /\ CallInv /\ KindInv /\ FrameInv

LEMMA InitTypeInv == Init => TypeInv
<1> SUFFICES ASSUME Init PROVE TypeInv
  OBVIOUS
<1> USE DEF Init
<1>1. sockOpen \in BOOLEAN /\ mistaken \in BOOLEAN /\ overran \in BOOLEAN
  BY Zenon
<1>2. callCounter \in 0..MaxCalls
  BY ChannelAssumption
<1>3. ClientTypeOK
  BY <1>1, <1>2 DEF ClientTypeOK
<1>4. WireTypeOK
  BY EmptySeq DEF WireTypeOK
<1>5. ThreadTypeOK
  BY ChannelAssumption DEF ThreadTypeOK, Ids, Frame, NoFrame, NoCall
<1>6. CallTypeOK
  BY ChannelAssumption DEF CallTypeOK, AllKinds, Outcomes
<1>7. CounterInv /\ CallInv /\ KindInv /\ FrameInv
  BY DEF CounterInv, CallInv, KindInv, Receiving, FrameInv
<1>8. QED
  BY <1>3, <1>4, <1>5, <1>6, <1>7 DEF TypeInv, TypeOK

\* What the end of a call leaves behind (TakeSocket and End).
LEMMA OverTypeInv ==
  ASSUME TypeInv, NEW t \in Threads, pc[t] # "idle", NEW how \in Outcomes,
         Over(t, how), UNCHANGED <<made, kind, callCounter>>
  PROVE  ThreadTypeOK' /\ outcome' \in [Calls -> Outcomes]
         /\ CounterInv' /\ CallInv' /\ KindInv' /\ FrameInv'
<1> USE DEF TypeInv, TypeOK, Over, Goto
<1>1. ThreadTypeOK'
  BY ChannelAssumption DEF ThreadTypeOK, NoCall, Ids, Frame, NoFrame
<1>2. outcome' \in [Calls -> Outcomes]
  BY DEF CallTypeOK
<1>3. \A u \in Threads \ {t} :
         /\ pc'[u] = pc[u] /\ cur'[u] = cur[u] /\ counterRead'[u] = counterRead[u]
         /\ raised'[u] = raised[u] /\ frame'[u] = frame[u]
  BY DEF ThreadTypeOK
<1>4. pc'[t] = "idle"
  BY DEF ThreadTypeOK
<1>5. CounterInv'
  BY <1>3, <1>4 DEF CounterInv
<1>6. CallInv'
  BY <1>3, <1>4 DEF CallInv
<1>7. KindInv'
  BY <1>3, <1>4 DEF KindInv, Receiving
<1>8. FrameInv'
  BY <1>3, <1>4 DEF FrameInv
<1>9. QED
  BY <1>1, <1>2, <1>5, <1>6, <1>7, <1>8

\* What line 59 makes of the counter is an identifier.
LEMMA RemainderIsId == ASSUME NEW n \in Nat PROVE n % Wrap \in Ids
BY ChannelAssumption DEF Ids

\* The steps that take a cell off the stream.
Reads(t) == RecvHead(t) \/ RecvRest(t) \/ RecvJunk(t) \/ RecvBody(t)

\* What they have in common.
ReadBy(t) ==
  /\ pc[t] \in Receiving /\ pc' = [pc EXCEPT ![t] = pc'[t]]
  /\ pc'[t] \in Receiving \cup {"release"}
  /\ frame' = [frame EXCEPT ![t] = frame'[t]]
  /\ frame'[t].from \subseteq frame[t].from \cup {replies[1].of}
  /\ frame'[t].of \in {frame[t].of, replies[1].of, NoCall}
  /\ sockOpen /\ replies # <<>> /\ replies' = Tail(replies)
  /\ IF pc[t] = "junk" THEN raised' = [raised EXCEPT ![t] = TRUE] /\ pc'[t] = "release"
                       ELSE raised' = raised
  /\ UNCHANGED <<callCounter, lock, sockOpen, sockTimeout, requests, owed, counterRead, methodId,
                 gotLock, cur, history, outcome, carried, answer, overran>>

LEMMA CellFields ==
  ASSUME NEW cell \in Cell
  PROVE  /\ cell.of \in Calls /\ cell.id \in Ids /\ cell.err \in BOOLEAN /\ cell.size \in 0..MaxSize
         /\ cell.pos \in Nat /\ cell.pos <= cell.size + 1
BY ChannelAssumption DEF Cell

LEMMA FirstTyped ==
  ASSUME replies \in Seq(Cell), replies # <<>>
  PROVE  replies[1] \in Cell /\ Tail(replies) \in Seq(Cell)
OBVIOUS

\* What a read makes of a frame.
Begun(of, from) == [NoFrame EXCEPT !.of = of, !.from = from]
ReadOn(f, left, from) == [f EXCEPT !.left = left, !.from = from]

LEMMA HeadFields ==
  ASSUME NEW of \in Calls \cup {NoCall}, NEW from \in SUBSET Calls
  PROVE  Begun(of, from) \in Frame /\ Begun(of, from).of = of /\ Begun(of, from).from = from
<1>1. 0 \in Ids /\ 0 \in 0..MaxSize
  BY ChannelAssumption DEF Ids
<1>2. QED
  BY <1>1 DEF Begun, NoFrame, Frame

LEMMA BodyFields ==
  ASSUME NEW g \in Frame, NEW left \in 0..MaxSize, NEW from \in SUBSET Calls
  PROVE  /\ ReadOn(g, left, from) \in Frame
         /\ ReadOn(g, left, from).of = g.of /\ ReadOn(g, left, from).id = g.id
         /\ ReadOn(g, left, from).left = left /\ ReadOn(g, left, from).from = from
BY DEF Frame, ReadOn

\* What every kind of read makes of the frame, the label and the flags.
LEMMA HeadStep ==
  ASSUME TypeOK, NEW t \in Threads, RecvHead(t)
  PROVE  /\ ReadBy(t) /\ pc[t] = "head" /\ UNCHANGED mistaken
         /\ frame'[t] \in Frame /\ frame'[t].from = {replies[1].of}
         /\ \/ pc'[t] = "rest"
            \/ pc'[t] = "junk" /\ replies[1].pos # 0
         /\ frame'[t].of = IF replies[1].pos = 0 THEN replies[1].of ELSE NoCall
<1> USE DEF TypeOK, ThreadTypeOK
<1> DEFINE of == IF replies[1].pos = 0 THEN replies[1].of ELSE NoCall
           f == Begun(of, {replies[1].of})
<1>1. /\ pc[t] = "head" /\ sockOpen /\ replies # <<>> /\ replies' = Tail(replies)
      /\ frame' = [frame EXCEPT ![t] = f]
      /\ UNCHANGED <<callCounter, lock, sockOpen, sockTimeout, requests, owed, counterRead, methodId,
                     gotLock, raised, cur, history, outcome, carried, answer, mistaken, overran>>
      /\ \/ pc' = [pc EXCEPT ![t] = "rest"]
         \/ pc' = [pc EXCEPT ![t] = "junk"] /\ replies[1].pos # 0
  BY Zenon DEF RecvHead, Goto, Begun
<1>2. replies[1].of \in Calls
  BY <1>1, FirstTyped, CellFields DEF WireTypeOK
<1>3. f.of = of /\ f.from = {replies[1].of} /\ f \in Frame
  <2>1. of \in Calls \cup {NoCall} /\ {replies[1].of} \in SUBSET Calls
    BY <1>2
  <2> HIDE DEF of
  <2>2. QED
    BY <2>1, HeadFields
<1> HIDE DEF f
<1>4. frame'[t] = f
  BY <1>1
<1>5. pc'[t] \in {"rest", "junk"} /\ pc' = [pc EXCEPT ![t] = pc'[t]]
  BY <1>1
<1>6. ReadBy(t)
  BY <1>1, <1>3, <1>4, <1>5 DEF ReadBy, Receiving
<1>7. QED
  BY <1>1, <1>3, <1>4, <1>5, <1>6

LEMMA RestStep ==
  ASSUME TypeOK, NEW t \in Threads, RecvRest(t)
  PROVE  /\ ReadBy(t) /\ pc[t] = "rest"
         /\ frame'[t] \in Frame /\ frame'[t].from = frame[t].from \cup {replies[1].of}
         /\ pc'[t] = AfterCell(t, frame'[t].id, frame'[t].left)
         /\ IF replies[1].of = frame[t].of /\ replies[1].pos = 1
              THEN /\ UNCHANGED mistaken
                   /\ frame'[t].of = frame[t].of /\ frame'[t].id = replies[1].id
                   /\ frame'[t].left = replies[1].size
              ELSE mistaken' /\ frame'[t].of = NoCall
<1> USE DEF TypeOK, ThreadTypeOK
<1> DEFINE header == replies[1].of = frame[t].of /\ replies[1].pos = 1
           F(of, id, err, left) == [of |-> of, id |-> id, err |-> err, left |-> left,
                                    from |-> frame[t].from \cup {replies[1].of}]
           known == F(frame[t].of, replies[1].id, replies[1].err, replies[1].size)
<1>1. /\ pc[t] = "rest" /\ sockOpen /\ replies # <<>> /\ replies' = Tail(replies)
      /\ UNCHANGED <<callCounter, lock, sockOpen, sockTimeout, requests, owed, counterRead, methodId,
                     gotLock, raised, cur, history, outcome, carried, answer, overran>>
      /\ \/ /\ header
            /\ frame' = [frame EXCEPT ![t] = known]
            /\ pc' = [pc EXCEPT ![t] = AfterCell(t, replies[1].id, replies[1].size)]
            /\ UNCHANGED mistaken
         \/ /\ ~header
            /\ \E id \in Ids, err \in ErrorReplies \cup {FALSE}, left \in 0..MaxSize :
                 /\ frame' = [frame EXCEPT ![t] = F(NoCall, id, err, left)]
                 /\ pc' = [pc EXCEPT ![t] = AfterCell(t, id, left)]
            /\ mistaken' = TRUE
  BY Zenon DEF RecvRest, Goto
<1>2. replies[1] \in Cell
  BY <1>1, FirstTyped DEF WireTypeOK
<1>3. /\ replies[1].of \in Calls /\ replies[1].id \in Ids /\ replies[1].err \in BOOLEAN
      /\ replies[1].size \in 0..MaxSize
  BY <1>2, CellFields
<1>4. frame[t] \in Frame
  BY DEF ThreadTypeOK
<1>5. frame[t].of \in Calls \cup {NoCall} /\ frame[t].from \in SUBSET Calls
  BY <1>4 DEF Frame
<1>6. \A of \in Calls \cup {NoCall}, id \in Ids, err \in BOOLEAN, left \in 0..MaxSize :
        F(of, id, err, left) \in Frame
  BY <1>3, <1>5 DEF Frame
<1>7. \A id, left : AfterCell(t, id, left) \in Receiving \cup {"release"}
  BY DEF AfterCell, Receiving
<1>8. CASE header
  <2>1. frame' = [frame EXCEPT ![t] = known]
        /\ pc' = [pc EXCEPT ![t] = AfterCell(t, replies[1].id, replies[1].size)]
        /\ UNCHANGED mistaken
    BY <1>1, <1>8
  <2>2. known \in Frame
    BY <1>3, <1>5, <1>6
  <2>3. /\ known.of = frame[t].of /\ known.id = replies[1].id /\ known.left = replies[1].size
        /\ known.from = frame[t].from \cup {replies[1].of}
    OBVIOUS
  <2> HIDE DEF known
  <2>4. frame'[t] = known /\ pc'[t] = AfterCell(t, replies[1].id, replies[1].size)
    BY <2>1
  <2>5. ReadBy(t)
    BY <1>1, <1>7, <2>1, <2>3, <2>4 DEF ReadBy, Receiving
  <2>6. QED
    BY <1>1, <1>8, <2>1, <2>2, <2>3, <2>4, <2>5
<1>9. CASE ~header
  <2>1. mistaken' = TRUE
    BY <1>1, <1>9
  <2>2. PICK id \in Ids, err \in ErrorReplies \cup {FALSE}, left \in 0..MaxSize :
          /\ frame' = [frame EXCEPT ![t] = F(NoCall, id, err, left)]
          /\ pc' = [pc EXCEPT ![t] = AfterCell(t, id, left)]
    BY <1>1, <1>9, Zenon
  <2> DEFINE f == F(NoCall, id, err, left)
  <2>3. f \in Frame
    BY <1>6, ChannelAssumption
  <2>4. /\ f.of = NoCall /\ f.id = id /\ f.left = left
        /\ f.from = frame[t].from \cup {replies[1].of}
    OBVIOUS
  <2>5. frame' = [frame EXCEPT ![t] = f]
    BY <2>2
  <2> HIDE DEF f
  <2>6. frame'[t] = f /\ pc'[t] = AfterCell(t, id, left)
    BY <2>2, <2>5
  <2>7. ReadBy(t)
    BY <1>1, <1>7, <2>2, <2>4, <2>5, <2>6 DEF ReadBy, Receiving
  <2>8. QED
    BY <1>1, <1>9, <2>1, <2>3, <2>4, <2>6, <2>7
<1>10. QED
  BY <1>8, <1>9

LEMMA JunkStep ==
  ASSUME TypeOK, NEW t \in Threads, RecvJunk(t)
  PROVE  /\ ReadBy(t) /\ pc[t] = "junk" /\ UNCHANGED mistaken
         /\ frame'[t] = NoFrame /\ frame'[t] \in Frame /\ pc'[t] = "release" /\ raised'[t]
<1> USE DEF TypeOK, ThreadTypeOK
<1>1. /\ pc[t] = "junk" /\ sockOpen /\ replies # <<>> /\ replies' = Tail(replies)
      /\ raised' = [raised EXCEPT ![t] = TRUE] /\ pc' = [pc EXCEPT ![t] = "release"]
      /\ frame' = [frame EXCEPT ![t] = NoFrame]
      /\ UNCHANGED <<callCounter, lock, sockOpen, sockTimeout, requests, owed, counterRead, methodId,
                     gotLock, cur, history, outcome, carried, answer, mistaken, overran>>
  BY DEF RecvJunk, Raise, Goto
<1>2. NoFrame \in Frame
  BY ChannelAssumption DEF NoFrame, Frame, Ids
<1>3. frame'[t] = NoFrame /\ pc'[t] = "release" /\ raised'[t]
  BY <1>1
<1>4. ReadBy(t)
  BY <1>1, <1>3 DEF ReadBy, Receiving, NoFrame
<1>5. QED
  BY <1>1, <1>2, <1>3, <1>4

LEMMA BodyStep ==
  ASSUME TypeOK, FrameInv, NEW t \in Threads, RecvBody(t)
  PROVE  /\ ReadBy(t) /\ pc[t] = "body" /\ UNCHANGED mistaken
         /\ frame'[t] \in Frame /\ frame'[t].from = frame[t].from \cup {replies[1].of}
         /\ frame'[t].of = frame[t].of /\ frame'[t].id = frame[t].id
         /\ frame'[t].left = frame[t].left - 1 /\ frame[t].left > 0
         /\ pc'[t] = AfterCell(t, frame'[t].id, frame'[t].left)
<1> USE DEF TypeOK, ThreadTypeOK
<1> DEFINE f == ReadOn(frame[t], frame[t].left - 1, frame[t].from \cup {replies[1].of})
<1>1. /\ pc[t] = "body" /\ sockOpen /\ replies # <<>> /\ replies' = Tail(replies)
      /\ frame' = [frame EXCEPT ![t] = f]
      /\ pc' = [pc EXCEPT ![t] = AfterCell(t, frame[t].id, frame[t].left - 1)]
      /\ UNCHANGED <<callCounter, lock, sockOpen, sockTimeout, requests, owed, counterRead, methodId,
                     gotLock, raised, cur, history, outcome, carried, answer, mistaken, overran>>
  BY DEF RecvBody, Goto, ReadOn
<1>2. replies[1].of \in Calls
  BY <1>1, FirstTyped, CellFields DEF WireTypeOK
<1>3. frame[t] \in Frame /\ frame[t].left > 0
  BY <1>1 DEF FrameInv
<1>4. /\ f.of = frame[t].of /\ f.id = frame[t].id /\ f.left = frame[t].left - 1
      /\ f.from = frame[t].from \cup {replies[1].of} /\ f \in Frame
  <2>1. frame[t].left - 1 \in 0..MaxSize
    BY <1>3, ChannelAssumption DEF Frame
  <2>2. frame[t].from \cup {replies[1].of} \in SUBSET Calls
    BY <1>2, <1>3 DEF Frame
  <2>3. QED
    BY <1>3, <2>1, <2>2, BodyFields
<1> HIDE DEF f
<1>5. frame'[t] = f /\ pc'[t] = AfterCell(t, frame[t].id, frame[t].left - 1)
  BY <1>1
<1>6. AfterCell(t, frame[t].id, frame[t].left - 1) \in Receiving \cup {"release"}
  BY DEF AfterCell, Receiving
<1>7. ReadBy(t)
  BY <1>1, <1>4, <1>5, <1>6 DEF ReadBy, Receiving
<1>8. QED
  BY <1>1, <1>3, <1>4, <1>5, <1>7

LEMMA ReadStep ==
  ASSUME TypeOK, FrameInv, NEW t \in Threads, Reads(t)
  PROVE  /\ ReadBy(t) /\ frame'[t] \in Frame /\ (mistaken' = mistaken \/ mistaken' = TRUE)
         /\ pc'[t] = "body" => frame'[t].left > 0
<1>1. ASSUME NEW left \in 0..MaxSize, NEW id, AfterCell(t, id, left) = "body" PROVE left > 0
  BY <1>1, ChannelAssumption DEF AfterCell
<1>2. CASE RecvRest(t)
  <2>1. frame'[t].left \in 0..MaxSize
    BY <1>2, RestStep DEF Frame
  <2>2. QED
    BY <1>1, <1>2, <2>1, RestStep
<1>3. CASE RecvBody(t)
  <2>1. frame'[t].left \in 0..MaxSize
    BY <1>3, BodyStep DEF Frame
  <2>2. QED
    BY <1>1, <1>3, <2>1, BodyStep
<1>4. QED
  BY <1>2, <1>3, HeadStep, JunkStep DEF Reads

\* The cells the server writes.
LEMMA FirstTypedCell ==
  ASSUME NEW of \in Calls, NEW id \in Ids, NEW err \in BOOLEAN, NEW size \in 0..MaxSize
  PROVE  FirstCell(of, id, err, size) \in Cell
BY ChannelAssumption DEF FirstCell, Cell

LEMMA NextTypedCell ==
  ASSUME NEW cell \in Cell, ~IsLast(cell) PROVE NextCell(cell) \in Cell
<1>1. /\ cell.of \in Calls /\ cell.id \in Ids /\ cell.err \in BOOLEAN /\ cell.size \in 0..MaxSize
      /\ cell.pos \in Nat /\ cell.pos <= cell.size + 1 /\ cell.pos # cell.size + 1
  BY CellFields DEF IsLast
<1>2. cell.pos + 1 \in 0..(MaxSize + 1) /\ cell.pos + 1 <= cell.size + 1
  BY <1>1, ChannelAssumption
<1>3. QED
  BY <1>1, <1>2 DEF NextCell, Cell

LEMMA NextTypeInv == TypeInv /\ [Next]_vars => TypeInv'
<1> SUFFICES ASSUME TypeInv, [Next]_vars PROVE TypeInv'
  OBVIOUS
<1> USE DEF TypeInv, TypeOK, wire, history, locals
<1>1. ASSUME NEW t \in Threads, ReadCounter(t) PROVE TypeInv'
  <2>1. ClientTypeOK'
    BY ChannelAssumption, <1>1 DEF ReadCounter, Goto, ClientTypeOK, ThreadTypeOK, CallTypeOK, CounterInv,
       Calls
  <2>2. WireTypeOK'
    BY ChannelAssumption, <1>1 DEF ReadCounter, Goto, WireTypeOK, ThreadTypeOK, CallTypeOK, CallInv, Calls,
       Request
  <2>3. ThreadTypeOK'
    <3>1. made + 1 \in Calls
      BY <1>1, ChannelAssumption DEF ReadCounter, CallTypeOK, Calls
    <3>2. cur' \in [Threads -> Calls \cup {NoCall}]
      BY <1>1, <3>1 DEF ReadCounter, ThreadTypeOK
    <3>3. counterRead' \in [Threads -> 0..MaxCalls]
      BY <1>1 DEF ReadCounter, ClientTypeOK, ThreadTypeOK
    <3>4. pc' = [pc EXCEPT ![t] = "counted"] /\ UNCHANGED <<methodId, gotLock, raised, frame>>
      BY <1>1 DEF ReadCounter, Goto
    <3>5. QED
      BY <3>2, <3>3, <3>4 DEF ThreadTypeOK
  <2>4. CallTypeOK'
    BY ChannelAssumption, <1>1 DEF ReadCounter, Goto, ThreadTypeOK, CallTypeOK, CallInv, KindInv, Receiving,
       FrameInv, Calls, Outcomes, AllKinds
  <2>5. CounterInv'
    BY <1>1 DEF ReadCounter, Goto, CounterInv, ClientTypeOK, ThreadTypeOK, CallTypeOK
  <2>6. CallInv'
    BY <1>1 DEF ReadCounter, Goto, CallInv, ThreadTypeOK, CallTypeOK
  <2>7. KindInv'
    <3>1. \A u \in Threads \ {t} : pc'[u] = pc[u] /\ cur'[u] = cur[u]
      BY <1>1 DEF ReadCounter, Goto, ThreadTypeOK
    <3>2. \A c \in 1..made : kind'[c] = kind[c]
      BY <1>1 DEF ReadCounter, CallTypeOK, Calls
    <3>3. pc'[t] = "counted"
      BY <1>1 DEF ReadCounter, Goto, ThreadTypeOK
    <3>4. QED
      BY <3>1, <3>2, <3>3 DEF KindInv, Receiving, CallInv
  <2>8. FrameInv'
    <3>1. \A u \in Threads \ {t} : pc'[u] = pc[u] /\ cur'[u] = cur[u]
      BY <1>1 DEF ReadCounter, Goto, ThreadTypeOK
    <3>2. \A c \in 1..made : kind'[c] = kind[c]
      BY <1>1 DEF ReadCounter, CallTypeOK, Calls
    <3>3. pc'[t] = "counted" /\ UNCHANGED <<raised, frame>>
      BY <1>1 DEF ReadCounter, Goto, ThreadTypeOK
    <3>4. QED
      BY <3>1, <3>2, <3>3 DEF FrameInv, CallInv
  <2>9. QED BY <2>1, <2>2, <2>3, <2>4, <2>5, <2>6, <2>7, <2>8
<1>2. ASSUME NEW t \in Threads, WriteCounter(t) PROVE TypeInv'
  <2>1. ClientTypeOK'
    BY ChannelAssumption, <1>2 DEF WriteCounter, Goto, ClientTypeOK, ThreadTypeOK, CallTypeOK, CounterInv,
       Calls
  <2>2. WireTypeOK'
    BY ChannelAssumption, <1>2 DEF WriteCounter, Goto, WireTypeOK, ThreadTypeOK, CallTypeOK, CallInv, Calls,
       Request
  <2>3. ThreadTypeOK'
    <3>1. counterRead[t] \in Nat
      BY ChannelAssumption DEF ThreadTypeOK
    <3>2. counterRead[t] % Wrap \in Ids
      BY ChannelAssumption, <3>1, RemainderIsId
    <3>3. methodId' \in [Threads -> Ids]
      BY <1>2, <3>2 DEF WriteCounter, ThreadTypeOK
    <3>4. pc' = [pc EXCEPT ![t] = "numbered"]
          /\ UNCHANGED <<counterRead, gotLock, raised, frame, cur>>
      BY <1>2 DEF WriteCounter, Goto
    <3>5. QED
      BY <3>3, <3>4 DEF ThreadTypeOK
  <2>4. CallTypeOK'
    BY ChannelAssumption, <1>2 DEF WriteCounter, Goto, ThreadTypeOK, CallTypeOK, CallInv, KindInv,
       Receiving, FrameInv, Calls, Outcomes, AllKinds
  <2>5. CounterInv'
    BY <1>2 DEF WriteCounter, Goto, CounterInv, ClientTypeOK, ThreadTypeOK, CallTypeOK
  <2>6. CallInv'
    BY <1>2 DEF WriteCounter, Goto, CallInv, ThreadTypeOK, CallTypeOK
  <2>7. KindInv'
    BY <1>2 DEF WriteCounter, Goto, KindInv, Receiving, CallInv, ThreadTypeOK, CallTypeOK, AllKinds, Calls
  <2>8. FrameInv'
    BY <1>2 DEF WriteCounter, Goto, FrameInv, CallInv, KindInv, Receiving, ThreadTypeOK, CallTypeOK,
       WireTypeOK, Calls
  <2>9. QED BY <2>1, <2>2, <2>3, <2>4, <2>5, <2>6, <2>7, <2>8
<1>3. ASSUME NEW t \in Threads, TakeSocket(t) PROVE TypeInv'
  <2>1. ClientTypeOK' /\ WireTypeOK'
    BY <1>3 DEF TakeSocket, ClientTypeOK, WireTypeOK, Calls
  <2>2. CASE \E how \in {"raised", "local"} : Over(t, how)
    <3>1. PICK how \in {"raised", "local"} : Over(t, how)
      BY <2>2
    <3>2. ThreadTypeOK' /\ outcome' \in [Calls -> Outcomes]
          /\ CounterInv' /\ CallInv' /\ KindInv' /\ FrameInv'
      BY <1>3, <3>1, OverTypeInv DEF TakeSocket, Outcomes
    <3>3. QED
      BY <1>3, <2>1, <3>2 DEF TakeSocket, CallTypeOK
  <2>3. CASE /\ kind[cur[t]] # "local" /\ Goto(t, "ready")
             /\ UNCHANGED <<callCounter, locals, history, outcome, carried, answer>>
    <3>1. ThreadTypeOK' /\ CallTypeOK'
      BY <2>3 DEF Goto, ThreadTypeOK, CallTypeOK
    <3>2. CounterInv' /\ CallInv'
      BY <1>3, <2>3 DEF TakeSocket, Goto, CounterInv, CallInv, ThreadTypeOK
    <3>3. KindInv' /\ FrameInv'
      BY <2>3 DEF Goto, KindInv, Receiving, FrameInv, ThreadTypeOK
    <3>4. QED
      BY <2>1, <3>1, <3>2, <3>3
  <2>4. QED
    BY <1>3, <2>2, <2>3 DEF TakeSocket
<1>4. ASSUME NEW t \in Threads, AcquireLock(t) PROVE TypeInv'
  <2>1. ClientTypeOK'
    BY ChannelAssumption, <1>4 DEF AcquireLock, Goto, ClientTypeOK, ThreadTypeOK, CallTypeOK, CounterInv,
       Calls
  <2>2. WireTypeOK'
    BY ChannelAssumption, <1>4 DEF AcquireLock, Goto, WireTypeOK, ThreadTypeOK, CallTypeOK, CallInv, Calls,
       Request
  <2>3. ThreadTypeOK'
    BY <1>4 DEF AcquireLock, Goto, ThreadTypeOK
  <2>4. CallTypeOK'
    BY ChannelAssumption, <1>4 DEF AcquireLock, Goto, ThreadTypeOK, CallTypeOK, CallInv, KindInv, Receiving,
       FrameInv, Calls, Outcomes, AllKinds
  <2>5. CounterInv'
    BY <1>4 DEF AcquireLock, Goto, CounterInv, ClientTypeOK, ThreadTypeOK, CallTypeOK
  <2>6. CallInv'
    BY <1>4 DEF AcquireLock, Goto, CallInv, ThreadTypeOK, CallTypeOK
  <2>7. KindInv'
    BY <1>4 DEF AcquireLock, Goto, KindInv, Receiving, CallInv, ThreadTypeOK, CallTypeOK, AllKinds, Calls
  <2>8. FrameInv'
    BY <1>4 DEF AcquireLock, Goto, FrameInv, CallInv, KindInv, Receiving, ThreadTypeOK, CallTypeOK,
       WireTypeOK, Calls
  <2>9. QED BY <2>1, <2>2, <2>3, <2>4, <2>5, <2>6, <2>7, <2>8
<1>5. ASSUME NEW t \in Threads, Send(t) PROVE TypeInv'
  <2>1. ClientTypeOK'
    BY ChannelAssumption, <1>5 DEF Send, Goto, Raise, ClientTypeOK, ThreadTypeOK, CallTypeOK, CounterInv,
       Calls
  <2>2. WireTypeOK'
    <3>1. cur[t] \in Calls /\ methodId[t] \in Ids
      BY <1>5, ChannelAssumption DEF Send, CallInv, ThreadTypeOK, CallTypeOK, Calls
    <3>2. (kind[cur[t]] = "reply") \in BOOLEAN
      OBVIOUS
    <3>3. RequestOf(t) \in Request
      BY <3>1, <3>2, Zenon DEF Request, RequestOf
    <3>4. requests' = Append(requests, RequestOf(t)) \/ requests' = requests
      BY <1>5, Zenon DEF Send
    <3>5. QED
      BY <1>5, <3>3, <3>4 DEF Send, WireTypeOK
  <2>3. ThreadTypeOK'
    <3>1. pc' \in [Threads -> {"idle", "counted", "numbered", "ready", "send",
                               "head", "rest", "junk", "body", "release", "end"}]
      <4>1. \E l \in {"head", "release"} : pc' = [pc EXCEPT ![t] = l]
        BY <1>5 DEF Send, Goto, Raise
      <4>2. QED
        BY <4>1 DEF ThreadTypeOK
    <3>2. raised' \in [Threads -> BOOLEAN]
      BY <1>5 DEF Send, Raise, ThreadTypeOK
    <3>3. UNCHANGED <<counterRead, methodId, gotLock, frame, cur>>
      BY <1>5 DEF Send
    <3>4. QED
      BY <3>1, <3>2, <3>3 DEF ThreadTypeOK
  <2>4. CallTypeOK'
    BY ChannelAssumption, <1>5 DEF Send, Goto, Raise, ThreadTypeOK, CallTypeOK, CallInv, KindInv, Receiving,
       FrameInv, Calls, Outcomes, AllKinds
  <2>5. CounterInv'
    BY <1>5 DEF Send, Goto, Raise, CounterInv, ClientTypeOK, ThreadTypeOK, CallTypeOK
  <2>6. CallInv'
    <3>1. UNCHANGED <<cur, made>> /\ \A u \in Threads : pc'[u] # "idle" => pc[u] # "idle"
      BY <1>5 DEF Send, Goto, Raise, ThreadTypeOK
    <3>2. QED
      BY <3>1 DEF CallInv
  <2>7. KindInv'
    BY <1>5 DEF Send, Goto, Raise, KindInv, Receiving, CallInv, ThreadTypeOK, CallTypeOK, AllKinds, Calls
  <2>8. FrameInv'
    BY <1>5 DEF Send, Goto, Raise, FrameInv, CallInv, KindInv, Receiving, ThreadTypeOK, CallTypeOK,
       WireTypeOK, Calls
  <2>9. QED BY <2>1, <2>2, <2>3, <2>4, <2>5, <2>6, <2>7, <2>8
<1>6. ASSUME NEW t \in Threads, Reads(t) PROVE TypeInv'
  <2>1. ReadBy(t) /\ frame'[t] \in Frame /\ (mistaken' = mistaken \/ mistaken' = TRUE)
        /\ (pc'[t] = "body" => frame'[t].left > 0)
    BY <1>6, ReadStep
  <2>2. ClientTypeOK'
    BY <2>1 DEF ReadBy, ClientTypeOK
  <2>3. WireTypeOK'
    BY <2>1, FirstTyped DEF ReadBy, WireTypeOK
  <2>4. frame' \in [Threads -> Frame] /\ raised' \in [Threads -> BOOLEAN]
    BY <2>1 DEF ReadBy, ThreadTypeOK
  <2>5. ThreadTypeOK'
    <3>1. pc'[t] \in {"head", "rest", "junk", "body", "release"}
      BY <2>1 DEF ReadBy, Receiving
    <3>2. QED
      BY <2>1, <2>4, <3>1 DEF ReadBy, ThreadTypeOK
  <2>6. CallTypeOK'
    BY <2>1 DEF ReadBy, CallTypeOK
  <2>7. /\ \A u \in Threads \ {t} : pc'[u] = pc[u] /\ frame'[u] = frame[u]
        /\ UNCHANGED <<cur, counterRead, callCounter, made, kind>>
        /\ pc[t] \in Receiving /\ pc'[t] \in Receiving \cup {"release"}
    BY <2>1 DEF ReadBy, ThreadTypeOK
  <2>8. CounterInv' /\ CallInv' /\ KindInv'
    BY <2>7 DEF CounterInv, CallInv, KindInv, Receiving
  <2>9. FrameInv'
    BY <2>1, <2>7 DEF FrameInv
  <2>10. QED BY <2>2, <2>3, <2>5, <2>6, <2>8, <2>9
<1>7. ASSUME NEW t \in Threads, RecvFails(t) PROVE TypeInv'
  <2>1. ClientTypeOK'
    BY ChannelAssumption, <1>7 DEF RecvFails, Goto, Raise, ClientTypeOK, ThreadTypeOK, CallTypeOK,
       CounterInv, Calls
  <2>2. WireTypeOK'
    BY ChannelAssumption, <1>7 DEF RecvFails, Goto, Raise, WireTypeOK, ThreadTypeOK, CallTypeOK, CallInv,
       Calls, Request
  <2>3. ThreadTypeOK'
    <3>1. NoFrame \in Frame
      BY ChannelAssumption DEF NoFrame, Frame, Ids
    <3>2. QED
      BY <1>7, <3>1 DEF RecvFails, Goto, Raise, ThreadTypeOK
  <2>4. CallTypeOK'
    BY ChannelAssumption, <1>7 DEF RecvFails, Goto, Raise, ThreadTypeOK, CallTypeOK, CallInv, KindInv,
       Receiving, FrameInv, Calls, Outcomes, AllKinds
  <2>5. CounterInv'
    BY <1>7 DEF RecvFails, Goto, Raise, CounterInv, ClientTypeOK, ThreadTypeOK, CallTypeOK
  <2>6. CallInv'
    BY <1>7 DEF RecvFails, Goto, Raise, Receiving, CallInv, ThreadTypeOK, CallTypeOK
  <2>7. KindInv'
    BY <1>7 DEF RecvFails, Goto, Raise, KindInv, Receiving, CallInv, ThreadTypeOK, CallTypeOK, AllKinds, Calls
  <2>8. FrameInv'
    BY <1>7 DEF RecvFails, Goto, Raise, FrameInv, CallInv, KindInv, Receiving, ThreadTypeOK, CallTypeOK,
       WireTypeOK, Calls
  <2>9. QED BY <2>1, <2>2, <2>3, <2>4, <2>5, <2>6, <2>7, <2>8
<1>8. ASSUME NEW t \in Threads, Release(t) PROVE TypeInv'
  <2>1. ClientTypeOK'
    BY ChannelAssumption, <1>8 DEF Release, Goto, ClientTypeOK, ThreadTypeOK, CallTypeOK, CounterInv, Calls
  <2>2. WireTypeOK'
    BY ChannelAssumption, <1>8 DEF Release, Goto, WireTypeOK, ThreadTypeOK, CallTypeOK, CallInv, Calls,
       Request
  <2>3. ThreadTypeOK'
    BY <1>8 DEF Release, Goto, ThreadTypeOK
  <2>4. CallTypeOK'
    BY ChannelAssumption, <1>8 DEF Release, Goto, ThreadTypeOK, CallTypeOK, CallInv, KindInv, Receiving,
       FrameInv, Calls, Outcomes, AllKinds
  <2>5. CounterInv'
    BY <1>8 DEF Release, Goto, CounterInv, ClientTypeOK, ThreadTypeOK, CallTypeOK
  <2>6. CallInv'
    BY <1>8 DEF Release, Goto, CallInv, ThreadTypeOK, CallTypeOK
  <2>7. KindInv'
    BY <1>8 DEF Release, Goto, KindInv, Receiving, CallInv, ThreadTypeOK, CallTypeOK, AllKinds, Calls
  <2>8. FrameInv'
    BY <1>8 DEF Release, Goto, FrameInv, CallInv, KindInv, Receiving, ThreadTypeOK, CallTypeOK, WireTypeOK,
       Calls
  <2>9. QED BY <2>1, <2>2, <2>3, <2>4, <2>5, <2>6, <2>7, <2>8
<1>9. ASSUME NEW t \in Threads, End(t) PROVE TypeInv'
  <2>1. ClientTypeOK' /\ WireTypeOK'
    BY <1>9 DEF End, ClientTypeOK, WireTypeOK, Calls
  <2>2. PICK how \in {"raised", "void", "error", "returned"} :
          /\ Over(t, how)
          /\ how \in {"error", "returned"} => ~raised[t] /\ kind[cur[t]] # "void"
          /\ answer' = IF how \in {"error", "returned"}
                         THEN [answer EXCEPT ![cur[t]] = {frame[t].of} \cup frame[t].from]
                         ELSE answer
    BY <1>9 DEF End
  <2>3. ThreadTypeOK' /\ outcome' \in [Calls -> Outcomes]
        /\ CounterInv' /\ CallInv' /\ KindInv' /\ FrameInv'
    BY <1>9, <2>2, OverTypeInv DEF End, Outcomes
  <2>4. cur[t] \in Calls
    BY <1>9, ChannelAssumption DEF End, CallInv, CallTypeOK, Calls
  <2>5. CASE how \in {"error", "returned"}
    <3>1. frame[t] \in Frame
      BY DEF ThreadTypeOK
    <3>2. {frame[t].of} \cup frame[t].from \in SUBSET (Calls \cup {NoCall})
      BY <3>1 DEF Frame
    <3>3. answer' \in [Calls -> SUBSET (Calls \cup {NoCall})]
      BY <2>2, <2>5, <3>2 DEF CallTypeOK
    <3>4. QED
      BY <1>9, <2>1, <2>3, <3>3 DEF End, CallTypeOK
  <2>6. CASE how \notin {"error", "returned"}
    BY <1>9, <2>1, <2>2, <2>3, <2>6 DEF End, CallTypeOK
  <2>7. QED
    BY <2>5, <2>6
<1>10. CASE Close
  <2>1. ClientTypeOK' /\ WireTypeOK'
    BY <1>10, EmptySeq DEF Close, ClientTypeOK, WireTypeOK
  <2>2. ThreadTypeOK' /\ CallTypeOK'
    BY <1>10 DEF Close, ThreadTypeOK, CallTypeOK
  <2>3. CounterInv' /\ CallInv' /\ KindInv' /\ FrameInv'
    BY <1>10 DEF Close, CounterInv, CallInv, KindInv, Receiving, FrameInv
  <2>4. QED
    BY <2>1, <2>2, <2>3
<1>11. CASE Serve
  <2>1. requests[1] \in Request /\ Tail(requests) \in Seq(Request)
    BY <1>11 DEF Serve, WireTypeOK
  <2>2. ClientTypeOK' /\ ThreadTypeOK' /\ CallTypeOK'
    BY <1>11, <2>1 DEF Serve, ClientTypeOK, ThreadTypeOK, CallTypeOK, Request
  <2>3. WireTypeOK'
    <3>1. CASE UNCHANGED <<replies, owed>>
      BY <1>11, <2>1, <3>1 DEF Serve, WireTypeOK
    <3>2. CASE \E err \in ErrorReplies, size \in 0..MaxSize :
                 owed' = FirstCell(requests[1].of, requests[1].id, err, size)
      <4>1. PICK err \in ErrorReplies, size \in 0..MaxSize :
                 owed' = FirstCell(requests[1].of, requests[1].id, err, size)
        BY <3>2
      <4>2. requests[1].of \in Calls /\ requests[1].id \in Ids /\ err \in BOOLEAN
        BY <2>1, ChannelAssumption DEF Request
      <4>3. owed' \in Cell
        BY <4>1, <4>2, FirstTypedCell
      <4>4. QED
        BY <1>11, <2>1, <4>3 DEF Serve, WireTypeOK
    <3>3. QED
      BY <1>11, <3>1, <3>2 DEF Serve
  <2>4. CounterInv' /\ CallInv' /\ KindInv' /\ FrameInv'
    BY <1>11 DEF Serve, CounterInv, CallInv, KindInv, Receiving, FrameInv
  <2>5. QED
    BY <2>2, <2>3, <2>4
<1>12. CASE WriteCell
  <2>1. owed \in Cell /\ replies' = Append(replies, owed)
        /\ owed' = (IF IsLast(owed) THEN NoCell ELSE NextCell(owed)) /\ requests' = requests
    BY <1>12 DEF WriteCell, WireTypeOK
  <2>2. ClientTypeOK' /\ ThreadTypeOK' /\ CallTypeOK'
    BY <1>12 DEF WriteCell, ClientTypeOK, ThreadTypeOK, CallTypeOK
  <2>3. owed' \in Cell \cup {NoCell}
    BY <2>1, NextTypedCell
  <2>4. WireTypeOK'
    BY <2>1, <2>3 DEF WireTypeOK
  <2>5. CounterInv' /\ CallInv' /\ KindInv' /\ FrameInv'
    BY <1>12 DEF WriteCell, CounterInv, CallInv, KindInv, Receiving, FrameInv
  <2>6. QED
    BY <2>2, <2>4, <2>5
<1>13. CASE UNCHANGED vars
  <2>1. ClientTypeOK' /\ WireTypeOK' /\ ThreadTypeOK' /\ CallTypeOK'
    BY <1>13 DEF vars, ClientTypeOK, WireTypeOK, ThreadTypeOK, CallTypeOK
  <2>2. CounterInv' /\ CallInv' /\ KindInv' /\ FrameInv'
    BY <1>13 DEF vars, CounterInv, CallInv, KindInv, Receiving, FrameInv
  <2>3. QED
    BY <2>1, <2>2
<1>14. QED
  BY <1>1, <1>2, <1>3, <1>4, <1>5, <1>6, <1>7, <1>8, <1>9, <1>10, <1>11, <1>12, <1>13
  DEF Next, Step, Reads

\* Every variable of the channel keeps its type, whatever times out.
THEOREM TypeCorrect == Spec => []TypeOK
<1>1. TypeInv => TypeOK
  BY DEF TypeInv
<1>2. QED
  BY <1>1, InitTypeInv, NextTypeInv, PTL DEF Spec

\* A step, with all that is read off the stream in one case.
LEMMA StepCases ==
  ASSUME TypeInv, [Next]_vars
  PROVE  \/ \E t \in Threads :
              \/ ReadCounter(t) \/ WriteCounter(t) \/ TakeSocket(t) \/ AcquireLock(t) \/ Send(t)
              \/ ReadBy(t) \/ RecvFails(t) \/ Release(t) \/ End(t)
         \/ Close \/ Serve \/ WriteCell \/ UNCHANGED vars
<1>1. ASSUME NEW t \in Threads, Reads(t) PROVE ReadBy(t)
  BY <1>1, ReadStep DEF TypeInv
<1>2. QED
  BY <1>1 DEF Next, Step, Reads

(***************************************************************************)
(* Whoever is past line 88 holds the lock, unless the wait timed out.      *)
(***************************************************************************)
Locked(t) == pc[t] \in {"send", "release"} \cup Receiving

\* Who is past line 88 has the lock and knows it.
LockInv == \A t \in Threads : Locked(t) => gotLock[t] /\ lock = t

LEMMA InitLockInv == Init => LockInv
BY DEF Init, LockInv, Locked, Receiving

\* A step of thread t is the only one to change pc, gotLock and lock; only a
\* wait for the lock that times out lets a thread in without it.
LEMMA NextLockInv ==
  ASSUME ~LockMayTimeOut \/ ~overran', TypeInv, LockInv, [Next]_vars PROVE LockInv'
<1> USE DEF TypeInv, TypeOK, ThreadTypeOK, LockInv, Locked, Receiving
<1>1. ASSUME NEW t \in Threads, AcquireLock(t) PROVE LockInv'
  BY <1>1, ChannelAssumption DEF AcquireLock, Goto
<1>2. ASSUME NEW t \in Threads, Release(t) PROVE LockInv'
  BY <1>2 DEF Release, Goto
<1>3. ASSUME NEW t \in Threads,
             \/ Send(t) \/ ReadBy(t) \/ RecvFails(t)
      PROVE LockInv'
  <2>1. UNCHANGED <<lock, gotLock>> /\ Locked(t)
    BY <1>3 DEF Send, ReadBy, RecvFails, wire
  <2>2. \A u \in Threads \ {t} : pc'[u] = pc[u]
    BY <1>3 DEF Send, ReadBy, RecvFails, Goto, Raise
  <2>3. QED
    BY <2>1, <2>2
<1>4. ASSUME NEW t \in Threads,
             \/ ReadCounter(t) \/ WriteCounter(t) \/ TakeSocket(t) \/ End(t)
      PROVE LockInv'
  <2>1. lock' = lock /\ ~Locked(t)'
    BY <1>4 DEF ReadCounter, WriteCounter, TakeSocket, End, Goto, Over
  <2>2. \A u \in Threads \ {t} : pc'[u] = pc[u] /\ gotLock'[u] = gotLock[u]
    BY <1>4 DEF ReadCounter, WriteCounter, TakeSocket, End, Goto, Over, locals
  <2>3. QED
    BY <2>1, <2>2
<1>5. CASE Close \/ Serve \/ WriteCell \/ UNCHANGED vars
  <2>1. UNCHANGED <<lock, pc, gotLock>>
    BY <1>5 DEF Close, Serve, WriteCell, vars, locals
  <2>2. QED
    BY <2>1
<1>6. QED
  BY <1>1, <1>2, <1>3, <1>4, <1>5, StepCases

\* The request lock admits one thread at a time to the stream, as long as
\* waiting for it never times out.
THEOREM LockExcludes == ASSUME ~LockMayTimeOut PROVE Spec => []MutualExclusion
<1>1. Init => TypeInv /\ LockInv
  BY InitTypeInv, InitLockInv
<1>2. TypeInv /\ LockInv /\ [Next]_vars => (TypeInv /\ LockInv)'
  BY NextTypeInv, NextLockInv
<1>3. LockInv => MutualExclusion
  BY DEF LockInv, MutualExclusion, Locked, InExchange, Receiving
<1>4. QED
  BY <1>1, <1>2, <1>3, PTL DEF Spec

(***************************************************************************)
(* The history of the calls: a call is running from the time it begins     *)
(* until its thread is back, and its end is never revised.                 *)
(***************************************************************************)
Ends == {"raised", "void", "local", "error", "returned"}

\* A call has an outcome once its thread is back, and is begun before.
OutcomeInv ==
  /\ \A t \in Threads : pc[t] # "idle" => outcome[cur[t]] = "running"
  /\ \A c \in Calls : c > made <=> outcome[c] = "none"

\* A call begins, a call ends, or the calls and their threads stay together.
BeginStep(t) == ReadCounter(t)
EndStep(t, how) == pc[t] # "idle" /\ (TakeSocket(t) \/ End(t)) /\ Over(t, how)
WithinCalls ==
  /\ UNCHANGED <<history, outcome, cur, answer>>
  /\ \A t \in Threads : pc'[t] = "idle" <=> pc[t] = "idle"

LEMMA StepOfCalls ==
  ASSUME TypeInv, [Next]_vars
  PROVE  \/ \E t \in Threads : BeginStep(t)
         \/ \E t \in Threads, how \in Ends : EndStep(t, how)
         \/ WithinCalls
<1> USE DEF TypeInv, TypeOK, ThreadTypeOK
<1>1. ASSUME NEW t \in Threads, TakeSocket(t)
      PROVE  (\E how \in Ends : EndStep(t, how)) \/ WithinCalls
  <2>1. CASE Over(t, "raised") \/ Over(t, "local")
    BY <1>1, <2>1 DEF TakeSocket, EndStep, Ends
  <2>2. CASE Goto(t, "ready") /\ UNCHANGED <<locals, outcome>>
    BY <1>1, <2>2 DEF TakeSocket, Goto, WithinCalls, locals
  <2>3. QED
    BY <1>1, <2>1, <2>2 DEF TakeSocket
<1>2. ASSUME NEW t \in Threads, End(t) PROVE \E how \in Ends : EndStep(t, how)
  BY <1>2 DEF End, EndStep, Ends
<1>3. ASSUME NEW t \in Threads,
             \/ WriteCounter(t) \/ AcquireLock(t) \/ Send(t) \/ ReadBy(t) \/ RecvFails(t) \/ Release(t)
      PROVE  WithinCalls
  BY <1>3 DEF WriteCounter, AcquireLock, Send, ReadBy, RecvFails, Release, Goto,
              Raise, WithinCalls, Receiving, locals
<1>4. CASE Close \/ Serve \/ WriteCell \/ UNCHANGED vars
  BY <1>4 DEF Close, Serve, WriteCell, vars, locals, WithinCalls
<1>5. QED
  BY <1>1, <1>2, <1>3, <1>4, StepCases DEF BeginStep

LEMMA InitOutcomeInv == Init => OutcomeInv
BY ChannelAssumption DEF Init, OutcomeInv, Calls

LEMMA NextOutcomeInv == TypeInv /\ OutcomeInv /\ [Next]_vars => OutcomeInv'
<1> SUFFICES ASSUME TypeInv, OutcomeInv, [Next]_vars PROVE OutcomeInv'
  OBVIOUS
<1> USE DEF TypeInv, TypeOK, ThreadTypeOK, CallTypeOK, OutcomeInv, CallInv
<1>1. ASSUME NEW t \in Threads, BeginStep(t) PROVE OutcomeInv'
  <2>1. made + 1 \in Calls
    BY <1>1, ChannelAssumption DEF BeginStep, ReadCounter, Calls
  <2>2. /\ \A u \in Threads \ {t} : pc'[u] = pc[u] /\ cur'[u] = cur[u]
        /\ cur'[t] = made + 1 /\ made' = made + 1
        /\ outcome'[made + 1] = "running"
        /\ \A c \in Calls \ {made + 1} : outcome'[c] = outcome[c]
    BY <1>1, <2>1 DEF BeginStep, ReadCounter, Goto
  <2>3. \A u \in Threads \ {t} : pc[u] # "idle" => cur[u] \in Calls \ {made + 1}
    BY ChannelAssumption DEF Calls
  <2>4. \A c \in Calls : c > made' <=> c > made /\ c # made + 1
    BY <2>2, ChannelAssumption DEF Calls
  <2>5. QED
    BY <2>1, <2>2, <2>3, <2>4
<1>2. ASSUME NEW t \in Threads, NEW how \in Ends, EndStep(t, how) PROVE OutcomeInv'
  <2>1. cur[t] \in 1..made /\ cur[t] \in Calls
    BY <1>2, ChannelAssumption DEF EndStep, Calls
  <2>2. /\ \A u \in Threads \ {t} : pc'[u] = pc[u] /\ cur'[u] = cur[u]
        /\ pc'[t] = "idle" /\ made' = made
        /\ outcome'[cur[t]] = how /\ how # "none"
        /\ \A c \in Calls \ {cur[t]} : outcome'[c] = outcome[c]
    BY <1>2, <2>1 DEF EndStep, TakeSocket, End, Over, Goto, Ends, history
  <2>3. \A u \in Threads \ {t} : pc[u] # "idle" => cur[u] # cur[t] /\ cur[u] \in Calls
    BY <1>2, ChannelAssumption DEF EndStep, Calls
  <2>4. QED
    BY <2>1, <2>2, <2>3
<1>3. CASE WithinCalls
  BY <1>3 DEF WithinCalls, history
<1>4. QED
  BY <1>1, <1>2, <1>3, StepOfCalls

(***************************************************************************)
(* A call's own timeout on the shared socket: as long as it is set, it is  *)
(* that of a call still on its way to line 133, or of one that skipped it. *)
(***************************************************************************)
Abrupt == {"raised", "void", "local", "error"}
PastTimeout(t) == pc[t] \notin {"idle", "counted", "numbered"}

TimeoutInv ==
  sockTimeout = "custom" =>
    \/ \E c \in Calls : custom[c] /\ outcome[c] \in Abrupt
    \/ \E t \in Threads : PastTimeout(t) /\ custom[cur[t]]

\* Steps within a call keep what is behind it: only ReadCounter and TakeSocket
\* and End matter to the timeout.
LEMMA NextTimeoutInv ==
  TypeInv /\ OutcomeInv /\ TimeoutInv /\ [Next]_vars => TimeoutInv'
<1> SUFFICES ASSUME TypeInv, OutcomeInv, TimeoutInv, [Next]_vars, sockTimeout' = "custom"
             PROVE  \/ \E c \in Calls : custom'[c] /\ outcome'[c] \in Abrupt
                    \/ \E t \in Threads : PastTimeout(t)' /\ custom'[cur'[t]]
  BY DEF TimeoutInv
<1> USE DEF TypeInv, TypeOK, ThreadTypeOK, CallTypeOK, CallInv
<1>1. ASSUME NEW t \in Threads, ReadCounter(t) PROVE TimeoutInv'
  <2>1. made + 1 \in Calls /\ UNCHANGED sockTimeout
    BY <1>1, ChannelAssumption DEF ReadCounter, Calls
  <2>2. /\ \A u \in Threads \ {t} : pc'[u] = pc[u] /\ cur'[u] = cur[u]
        /\ \A c \in Calls \ {made + 1} : outcome'[c] = outcome[c] /\ custom'[c] = custom[c]
        /\ pc[t] = "idle"
    BY <1>1, <2>1 DEF ReadCounter, Goto
  <2>3. \A u \in Threads \ {t} : pc[u] # "idle" => cur[u] \in Calls \ {made + 1}
    BY ChannelAssumption DEF Calls
  <2>4. outcome[made + 1] \notin Abrupt
    BY <2>1, ChannelAssumption DEF OutcomeInv, Abrupt, Calls
  <2>5. QED
    BY <2>1, <2>2, <2>3, <2>4 DEF TimeoutInv, PastTimeout
<1>2. ASSUME NEW t \in Threads, NEW how \in Ends, EndStep(t, how) PROVE TimeoutInv'
  <2>1. /\ cur[t] \in Calls /\ outcome[cur[t]] = "running" /\ custom' = custom
        /\ outcome'[cur[t]] = how
        /\ \A c \in Calls \ {cur[t]} : outcome'[c] = outcome[c]
        /\ \A u \in Threads \ {t} : pc'[u] = pc[u] /\ cur'[u] = cur[u]
    BY <1>2, ChannelAssumption DEF EndStep, TakeSocket, End, Over, Goto, OutcomeInv, Calls, history
  <2>2. CASE custom[cur[t]] /\ how \in Abrupt
    BY <2>1, <2>2 DEF TimeoutInv
  <2>3. CASE ~custom[cur[t]]
    <3>1. sockTimeout' = sockTimeout
      BY <1>2, <2>3 DEF EndStep, TakeSocket, End
    <3>2. QED
      BY <2>1, <2>3, <3>1 DEF TimeoutInv, PastTimeout, Abrupt
  <2>4. CASE custom[cur[t]] /\ how = "returned"
    <3>1. End(t)
      BY <1>2, <2>4, <2>1 DEF EndStep, TakeSocket, Over
    <3>2. sockTimeout' = "default"
      BY <3>1, <2>1, <2>4 DEF End, Over
    <3>3. QED
      BY <3>2 DEF TimeoutInv
  <2>5. QED
    BY <2>1, <2>2, <2>3, <2>4 DEF Ends, Abrupt
<1>3. ASSUME NEW t \in Threads, TakeSocket(t), Goto(t, "ready"), UNCHANGED <<locals, outcome>>
      PROVE  TimeoutInv'
  <2>1. /\ UNCHANGED <<custom, outcome, cur>> /\ pc'[t] = "ready"
        /\ \A u \in Threads \ {t} : pc'[u] = pc[u]
        /\ sockTimeout' = "custom" => custom[cur[t]] \/ sockTimeout = "custom"
    BY <1>3 DEF TakeSocket, Goto, locals, history, Over
  <2>2. QED
    BY <2>1 DEF TimeoutInv, PastTimeout
<1>4. ASSUME NEW t \in Threads,
             \/ WriteCounter(t) \/ AcquireLock(t) \/ Send(t) \/ ReadBy(t) \/ RecvFails(t) \/ Release(t)
      PROVE  TimeoutInv'
  <2>1. /\ UNCHANGED <<sockTimeout, custom, outcome, cur>>
        /\ \A u \in Threads : PastTimeout(u) => PastTimeout(u)'
    BY <1>4 DEF WriteCounter, AcquireLock, Send, ReadBy, RecvFails, Release, Goto,
                Raise, PastTimeout, Receiving, locals, history
  <2>2. QED
    BY <2>1 DEF TimeoutInv
<1>5. CASE Close \/ Serve \/ WriteCell \/ UNCHANGED vars
  BY <1>5 DEF Close, Serve, WriteCell, vars, locals, history, TimeoutInv, PastTimeout
<1>6. ASSUME NEW t \in Threads, TakeSocket(t) PROVE TimeoutInv'
  <2>1. CASE Over(t, "raised") \/ Over(t, "local")
    BY <1>2, <1>6, <2>1 DEF EndStep, TakeSocket, Ends
  <2>2. CASE Goto(t, "ready") /\ UNCHANGED <<locals, outcome>>
    BY <1>3, <1>6, <2>2
  <2>3. QED
    BY <1>6, <2>1, <2>2 DEF TakeSocket
<1>7. ASSUME NEW t \in Threads, End(t) PROVE TimeoutInv'
  <2>1. \E how \in Ends : EndStep(t, how)
    BY <1>7 DEF End, EndStep, Ends
  <2>2. QED
    BY <1>2, <2>1
<1>8. QED
  BY <1>1, <1>4, <1>5, <1>6, <1>7, StepCases DEF TimeoutInv

\* When no call is under way and some call's own timeout is still set on the
\* shared socket, a call that gave one ended without reaching line 133, for
\* any mix of threads, timeouts, closes and error replies.
THEOREM TimeoutLeftByAbruptCall == Spec => []OwnTimeoutOutlivesOnlyAbruptCalls
<1>1. Init => TimeoutInv
  BY DEF Init, TimeoutInv
<1>2. TimeoutInv => OwnTimeoutOutlivesOnlyAbruptCalls
  BY DEF TimeoutInv, OwnTimeoutOutlivesOnlyAbruptCalls, PastTimeout, Abrupt
<1>3. QED
  BY <1>1, <1>2, InitTypeInv, NextTypeInv, InitOutcomeInv, NextOutcomeInv, NextTimeoutInv,
     PTL DEF Spec

(***************************************************************************)
(* The server's side: a request is written once and carried out once, and  *)
(* whatever is on its way to a caller, or was handed to one, is of a call  *)
(* that the server has carried out.                                        *)
(***************************************************************************)
Unsent(t) == pc[t] \in {"counted", "numbered", "ready", "send"}

\* A request is on the wire once, after its call was numbered and before it is carried out.
RequestedInv ==
  /\ carried \subseteq 1..made
  /\ \A i \in 1..Len(requests) : requests[i].of \in (1..made) \ carried
  /\ \A i, j \in 1..Len(requests) : requests[i].of = requests[j].of => i = j
  /\ \A t \in Threads : Unsent(t) =>
       cur[t] \notin carried /\ \A i \in 1..Len(requests) : requests[i].of # cur[t]

\* Bytes of replies are of calls the server has carried out.
RepliedInv ==
  /\ \A i \in 1..Len(replies) : replies[i].of \in carried
  /\ owed # NoCell => owed.of \in carried
  /\ \A t \in Threads : frame[t].from \subseteq carried /\ frame[t].of \in carried \cup {NoCall}
  /\ \A c \in Calls : answer[c] \subseteq carried \cup {NoCall}

ServedInv == RequestedInv /\ RepliedInv

LEMMA InitServedInv == Init => ServedInv
BY DEF Init, ServedInv, RequestedInv, RepliedInv, Unsent, NoFrame

LEMMA NextRequestedInv == TypeInv /\ RequestedInv /\ [Next]_vars => RequestedInv'
<1> SUFFICES ASSUME TypeInv, RequestedInv, [Next]_vars PROVE RequestedInv'
  OBVIOUS
<1> USE DEF TypeInv, TypeOK, ThreadTypeOK, CallTypeOK, CallInv
<1>1. ASSUME NEW t \in Threads, ReadCounter(t) PROVE RequestedInv'
  <2>1. /\ UNCHANGED <<requests, carried>> /\ made' = made + 1 /\ cur'[t] = made + 1
        /\ \A u \in Threads \ {t} : pc'[u] = pc[u] /\ cur'[u] = cur[u]
    BY <1>1 DEF ReadCounter, Goto, wire
  <2>2. 1..made \subseteq 1..made' /\ made + 1 \notin 1..made
    BY <2>1, ChannelAssumption
  <2>3. made + 1 \notin carried /\ \A i \in 1..Len(requests) : requests[i].of # made + 1
    BY <2>2 DEF RequestedInv
  <2>4. \A u \in Threads \ {t} : Unsent(u)' => Unsent(u) /\ cur'[u] = cur[u]
    BY <2>1 DEF Unsent
  <2>5. \A u \in Threads : Unsent(u)' =>
          cur'[u] \notin carried /\ \A i \in 1..Len(requests) : requests[i].of # cur'[u]
    BY <2>1, <2>3, <2>4 DEF RequestedInv
  <2>6. /\ carried \subseteq 1..made'
        /\ \A i \in 1..Len(requests) : requests[i].of \in (1..made') \ carried
    BY <2>2 DEF RequestedInv
  <2>7. QED
    BY <2>1, <2>5, <2>6 DEF RequestedInv
<1>2. ASSUME UNCHANGED <<requests, carried, made>>,
             \A t \in Threads : Unsent(t)' => Unsent(t) /\ cur'[t] = cur[t]
      PROVE  RequestedInv'
  BY <1>2 DEF RequestedInv
<1>3. ASSUME NEW t \in Threads,
             \/ WriteCounter(t) \/ TakeSocket(t) \/ AcquireLock(t) \/ ReadBy(t)
             \/ RecvFails(t) \/ Release(t) \/ End(t)
      PROVE  RequestedInv'
  <2>1. UNCHANGED <<requests, carried, made>>
    BY <1>3 DEF WriteCounter, TakeSocket, AcquireLock, ReadBy, RecvFails, Release,
                End, wire, history
  <2>2. \A u \in Threads : Unsent(u)' => Unsent(u) /\ cur'[u] = cur[u]
    BY <1>3 DEF WriteCounter, TakeSocket, AcquireLock, ReadBy, RecvFails, Release,
                End, Over, Goto, Raise, Unsent, Receiving, locals
  <2>3. QED
    BY <1>2, <2>1, <2>2
<1>4. ASSUME NEW t \in Threads, Send(t) PROVE RequestedInv'
  <2>1. /\ UNCHANGED <<carried, made, cur>> /\ Unsent(t) /\ ~Unsent(t)'
        /\ \A u \in Threads \ {t} : pc'[u] = pc[u]
    BY <1>4 DEF Send, Goto, Raise, Unsent, history
  <2>2. CASE UNCHANGED requests
    BY <1>2, <2>1, <2>2 DEF Unsent
  <2>3. CASE requests' # requests
    <3> DEFINE req == RequestOf(t)
               n == Len(requests)
    <3>1. requests' = Append(requests, req) /\ requests \in Seq(Request)
      BY <1>4, <2>3 DEF Send, WireTypeOK
    <3>2. req.of = cur[t]
      BY DEF RequestOf
    <3> HIDE DEF req
    <3>3. /\ Len(requests') = n + 1 /\ n \in Nat
          /\ \A i \in 1..n : requests'[i] = requests[i]
          /\ requests'[n + 1] = req
      BY <3>1
    <3>4. cur[t] \in 1..made /\ cur[t] \notin carried /\ \A i \in 1..n : requests[i].of # cur[t]
      BY <1>4, <2>1 DEF RequestedInv, Send
    <3>5. \A i \in 1..Len(requests') : IF i \in 1..n THEN requests'[i].of = requests[i].of
                                       ELSE i = n + 1 /\ requests'[i].of = cur[t]
      BY <3>2, <3>3
    <3>6. \A u \in Threads \ {t} : Unsent(u)' => Unsent(u) /\ cur[u] # cur[t]
      BY <1>4, <2>1 DEF Unsent, Send
    <3>7. \A i \in 1..Len(requests') : requests'[i].of \in (1..made) \ carried
      BY <3>4, <3>5 DEF RequestedInv
    <3>8. ASSUME NEW i \in 1..Len(requests'), NEW j \in 1..Len(requests'),
                 requests'[i].of = requests'[j].of
          PROVE  i = j
      <4>1. CASE i \in 1..n /\ j \in 1..n
        BY <3>5, <3>8, <4>1 DEF RequestedInv
      <4>2. CASE ~(i \in 1..n /\ j \in 1..n)
        BY <3>4, <3>5, <3>8, <4>2
      <4>3. QED
        BY <4>1, <4>2
    <3>9. \A u \in Threads : Unsent(u)' =>
            cur[u] \notin carried /\ \A i \in 1..Len(requests') : requests'[i].of # cur[u]
      <4> SUFFICES ASSUME NEW u \in Threads, Unsent(u)'
                   PROVE  /\ cur[u] \notin carried
                          /\ \A i \in 1..Len(requests') : requests'[i].of # cur[u]
        OBVIOUS
      <4>1. u # t /\ Unsent(u) /\ cur[u] # cur[t]
        BY <2>1, <3>6
      <4>2. cur[u] \notin carried /\ \A i \in 1..n : requests[i].of # cur[u]
        BY <4>1 DEF RequestedInv
      <4>3. QED
        BY <3>5, <4>1, <4>2
    <3>10. QED
      BY <2>1, <3>7, <3>8, <3>9 DEF RequestedInv
  <2>4. QED
    BY <2>2, <2>3
<1>5. CASE Serve
  <2>1. /\ requests # <<>> /\ requests' = Tail(requests)
        /\ carried' = carried \cup {requests[1].of} /\ UNCHANGED <<made, pc, cur>>
    BY <1>5 DEF Serve, locals, history
  <2>2. /\ 1 \in 1..Len(requests) /\ Len(requests) \in Nat /\ Len(requests') = Len(requests) - 1
        /\ \A i \in 1..Len(requests') : requests'[i] = requests[i + 1]
    BY <2>1 DEF WireTypeOK
  <2>a. \A i \in 1..Len(requests') : i + 1 \in 1..Len(requests) /\ i + 1 # 1 /\ i \in Nat
    <3>1. PICK n \in Nat : n = Len(requests) /\ n - 1 = Len(requests')
      BY <2>2
    <3>2. \A i \in 1..(n - 1) : i + 1 \in 1..n /\ i + 1 # 1 /\ i \in Nat
      OBVIOUS
    <3>3. QED
      BY <3>1, <3>2
  <2>3. ASSUME NEW i \in 1..Len(requests') PROVE requests'[i].of # requests[1].of
    <3>1. i + 1 \in 1..Len(requests) /\ i + 1 # 1 /\ requests'[i] = requests[i + 1]
      BY <2>2, <2>a
    <3>2. QED
      BY <2>2, <3>1 DEF RequestedInv
  <2>4. \A u \in Threads : Unsent(u)' =>
          cur[u] \notin carried' /\ \A i \in 1..Len(requests') : requests'[i].of # cur[u]
    BY <2>1, <2>2 DEF RequestedInv, Unsent
  <2>5. ASSUME NEW i \in 1..Len(requests'), NEW j \in 1..Len(requests'),
               requests'[i].of = requests'[j].of
        PROVE  i = j
    <3>1. /\ i + 1 \in 1..Len(requests) /\ requests'[i] = requests[i + 1]
          /\ j + 1 \in 1..Len(requests) /\ requests'[j] = requests[j + 1]
      BY <2>2, <2>a
    <3>2. i + 1 = j + 1
      BY <2>5, <3>1 DEF RequestedInv
    <3>3. i \in Nat /\ j \in Nat
      BY <2>a
    <3>4. QED
      BY <3>2, <3>3
  <2>6. carried' \subseteq 1..made
    BY <2>1, <2>2 DEF RequestedInv
  <2>7. \A i \in 1..Len(requests') : requests'[i].of \in (1..made) \ carried'
    BY <2>1, <2>2, <2>3 DEF RequestedInv
  <2>8. QED
    BY <2>1, <2>4, <2>5, <2>6, <2>7 DEF RequestedInv
<1>6. CASE Close \/ WriteCell \/ UNCHANGED vars
  BY <1>2, <1>6 DEF Close, WriteCell, vars, wire, locals, history, Unsent
<1>7. QED
  BY <1>1, <1>3, <1>4, <1>5, <1>6, StepCases

LEMMA NextRepliedInv == TypeInv /\ RepliedInv /\ [Next]_vars => RepliedInv'
<1> SUFFICES ASSUME TypeInv, RepliedInv, [Next]_vars PROVE RepliedInv'
  OBVIOUS
<1> USE DEF TypeInv, TypeOK, ThreadTypeOK, CallTypeOK, CallInv
<1>a. NoFrame.of = NoCall /\ NoFrame.from = {}
  BY DEF NoFrame
<1>1. ASSUME UNCHANGED <<replies, owed, carried>>,
             \A c \in Calls : answer'[c] \subseteq carried \cup {NoCall},
             \A t \in Threads : frame'[t] = frame[t] \/ frame'[t] = NoFrame
      PROVE  RepliedInv'
  <2>1. \A t \in Threads : frame'[t].from \subseteq carried /\ frame'[t].of \in carried \cup {NoCall}
    BY <1>a, <1>1 DEF RepliedInv
  <2>2. QED
    BY <1>1, <2>1 DEF RepliedInv
<1>2. ASSUME NEW t \in Threads,
             \/ ReadCounter(t) \/ WriteCounter(t) \/ TakeSocket(t) \/ AcquireLock(t)
             \/ Send(t) \/ RecvFails(t) \/ Release(t)
      PROVE  RepliedInv'
  <2>1. UNCHANGED <<replies, owed, carried, answer>>
    BY <1>2 DEF ReadCounter, WriteCounter, TakeSocket, AcquireLock, Send, RecvFails, Release, wire
  <2>2. \A u \in Threads : frame'[u] = frame[u] \/ frame'[u] = NoFrame
    BY <1>2 DEF ReadCounter, WriteCounter, TakeSocket, AcquireLock, Send, RecvFails, Release,
                Over, locals
  <2>3. QED
    BY <1>1, <2>1, <2>2 DEF RepliedInv
<1>3. ASSUME NEW t \in Threads, ReadBy(t) PROVE RepliedInv'
  <2>1. /\ replies # <<>> /\ replies' = Tail(replies) /\ UNCHANGED <<owed, carried, answer>>
        /\ \A u \in Threads \ {t} : frame'[u] = frame[u]
    BY <1>3 DEF ReadBy
  <2>2. /\ 1 \in 1..Len(replies)
        /\ \A i \in 1..Len(replies') : replies'[i] = replies[i + 1] /\ i + 1 \in 1..Len(replies)
    BY <2>1 DEF WireTypeOK
  <2>3. replies[1].of \in carried
    BY <2>2 DEF RepliedInv
  <2>4. /\ frame'[t].of \in {frame[t].of, replies[1].of, NoCall}
        /\ frame'[t].from \subseteq frame[t].from \cup {replies[1].of}
    BY <1>3 DEF ReadBy
  <2>5. \A u \in Threads : frame'[u].from \subseteq carried /\ frame'[u].of \in carried \cup {NoCall}
    BY <2>1, <2>3, <2>4 DEF RepliedInv
  <2>6. \A i \in 1..Len(replies') : replies'[i].of \in carried
    BY <2>2 DEF RepliedInv
  <2>7. QED
    BY <2>1, <2>5, <2>6 DEF RepliedInv
<1>4. ASSUME NEW t \in Threads, End(t) PROVE RepliedInv'
  <2>1. /\ UNCHANGED <<replies, owed, carried>> /\ cur[t] \in Calls
        /\ \A u \in Threads : frame'[u] = frame[u] \/ frame'[u] = NoFrame
        /\ answer' = answer \/ answer' = [answer EXCEPT ![cur[t]] = {frame[t].of} \cup frame[t].from]
    BY <1>4, ChannelAssumption DEF End, Over, wire, Calls
  <2>2. {frame[t].of} \cup frame[t].from \subseteq carried \cup {NoCall}
    BY DEF RepliedInv
  <2>3. \A c \in Calls : answer'[c] \subseteq carried \cup {NoCall}
    BY <2>1, <2>2 DEF RepliedInv
  <2>4. QED
    BY <1>1, <2>1, <2>3
<1>5. CASE Serve
  <2>1. /\ carried' = carried \cup {requests[1].of} /\ UNCHANGED <<replies, frame, answer>>
        /\ owed' = owed \/ owed'.of = requests[1].of
    BY <1>5 DEF Serve, locals, FirstCell
  <2>2. QED
    BY <2>1 DEF RepliedInv
<1>6. CASE WriteCell
  <2>1. /\ replies' = Append(replies, owed) /\ owed # NoCell
        /\ owed' = NoCell \/ owed'.of = owed.of
        /\ UNCHANGED <<carried, frame, answer>>
    BY <1>6 DEF WriteCell, locals, NextCell
  <2>2. owed \in Cell
    BY <2>1 DEF WireTypeOK
  <2>3. /\ Len(replies') = Len(replies) + 1 /\ replies'[Len(replies) + 1] = owed
        /\ \A i \in 1..Len(replies) : replies'[i] = replies[i]
    BY <2>1, <2>2 DEF WireTypeOK
  <2>4. \A i \in 1..Len(replies') : replies'[i].of \in carried
    BY <2>1, <2>3 DEF RepliedInv, WireTypeOK
  <2>5. QED
    BY <2>1, <2>4 DEF RepliedInv
<1>7. CASE Close
  BY <1>7 DEF Close, RepliedInv, locals
<1>8. CASE UNCHANGED vars
  BY <1>1, <1>8 DEF vars, wire, locals, RepliedInv
<1>9. QED
  BY <1>2, <1>3, <1>4, <1>5, <1>6, <1>7, <1>8, StepCases

(***************************************************************************)
(* The stream: replies of the server one after the other, the last of them *)
(* perhaps still being written.                                            *)
(***************************************************************************)
Coming == IF owed = NoCell THEN replies ELSE Append(replies, owed)

\* What may come after a cell of the stream.
Follows(cell, next) == IF IsLast(cell) THEN next.pos = 0 ELSE next = NextCell(cell)

\* The stream is made of whole replies, but for the beginning of its first.
ChainInv ==
  /\ \A i \in 1..Len(Coming) : i + 1 \in 1..Len(Coming) => Follows(Coming[i], Coming[i + 1])
  /\ owed = NoCell /\ replies # <<>> => IsLast(replies[Len(replies)])
  /\ ~sockOpen => replies = <<>> /\ owed = NoCell

\* The cells of a longer or a shorter stream.
Added(s, new, cell) ==
  /\ Len(new) = Len(s) + 1 /\ new[Len(s) + 1] = cell
  /\ \A i \in 1..Len(s) : new[i] = s[i]
Dropped(s, new) ==
  /\ Len(s) = Len(new) + 1
  /\ \A i \in 1..Len(new) : i + 1 \in 1..Len(s) /\ new[i] = s[i + 1]

LEMMA AppendAdds ==
  ASSUME NEW s \in Seq(Cell), NEW cell \in Cell PROVE Added(s, Append(s, cell), cell)
BY DEF Added

LEMMA TailDrops ==
  ASSUME NEW s \in Seq(Cell), s # <<>> PROVE Dropped(s, Tail(s)) /\ Len(s) \in Nat \ {0}
<1>1. Len(s) \in Nat \ {0}
  BY EmptySeq
<1>2. Len(Tail(s)) = Len(s) - 1 /\ \A i \in 1..Len(Tail(s)) : Tail(s)[i] = s[i + 1]
  OBVIOUS
<1>3. PICK n \in Nat \ {0} : n = Len(s)
  BY <1>1
<1>4. \A i \in 1..(n - 1) : i + 1 \in 1..n
  OBVIOUS
<1>5. QED
  BY <1>2, <1>3, <1>4 DEF Dropped

LEMMA TailOfAppend ==
  ASSUME NEW s \in Seq(Cell), NEW cell \in Cell, s # <<>>
  PROVE  Tail(Append(s, cell)) = Append(Tail(s), cell)
<1> DEFINE a == Append(s, cell)
           left == Tail(a)
           right == Append(Tail(s), cell)
<1>1. PICK n \in Nat \ {0} : n = Len(s)
  BY TailDrops
<1>2. a \in Seq(Cell) /\ Len(a) = n + 1 /\ a[n + 1] = cell /\ \A i \in 1..n : a[i] = s[i]
  BY <1>1
<1>3. Tail(s) \in Seq(Cell) /\ Len(Tail(s)) = n - 1 /\ \A i \in 1..(n - 1) : Tail(s)[i] = s[i + 1]
  BY <1>1
<1>4. a # <<>>
  BY <1>2
<1> HIDE DEF a
<1>5. left \in Seq(Cell) /\ Len(left) = n /\ \A i \in 1..n : left[i] = a[i + 1]
  BY <1>2, <1>4
<1>6. /\ right \in Seq(Cell) /\ Len(right) = n /\ right[n] = cell
      /\ \A i \in 1..(n - 1) : right[i] = s[i + 1]
  BY <1>3
<1> HIDE DEF left, right
<1>7. \A i \in 1..n : left[i] = right[i]
  <2>1. left[n] = right[n]
    BY <1>2, <1>5, <1>6
  <2>2. \A i \in 1..(n - 1) : i + 1 \in 1..n /\ i \in 1..n
    OBVIOUS
  <2>3. \A i \in 1..(n - 1) : left[i] = right[i]
    BY <1>2, <1>5, <1>6, <2>2
  <2>4. \A i \in 1..n : i = n \/ i \in 1..(n - 1)
    OBVIOUS
  <2>5. QED
    BY <2>1, <2>3, <2>4
<1>8. left = right
  BY <1>5, <1>6, <1>7, SeqEqual
<1>9. QED
  BY <1>8 DEF left, right, a

LEMMA NoCellIsNone == NoCell \notin Cell
<1>1. NoCell.of \notin Calls
  BY DEF NoCell, NoCall, Calls
<1>2. QED
  BY <1>1, CellFields

LEMMA ComingTyped ==
  ASSUME TypeOK
  PROVE  /\ Coming \in Seq(Cell) /\ Len(Coming) \in Nat
         /\ replies # <<>> => Coming # <<>> /\ Coming[1] = replies[1]
         /\ owed # NoCell => Coming # <<>> /\ owed \in Cell /\ Coming[Len(Coming)] = owed
         /\ Coming # <<>> => 1 \in 1..Len(Coming)
<1> USE DEF TypeOK, WireTypeOK
<1>1. CASE owed = NoCell
  <2>1. Coming = replies
    BY <1>1 DEF Coming
  <2>2. Coming \in Seq(Cell)
    BY <2>1
  <2>3. Coming # <<>> => Len(Coming) \in Nat \ {0}
    BY <2>2, EmptySeq
  <2>4. QED
    BY <1>1, <2>1, <2>2, <2>3
<1>2. CASE owed # NoCell
  <2>1. Coming = Append(replies, owed) /\ owed \in Cell
    BY <1>2 DEF Coming
  <2>2. /\ Coming \in Seq(Cell) /\ Len(Coming) = Len(replies) + 1 /\ Coming[Len(Coming)] = owed
        /\ \A i \in 1..Len(replies) : Coming[i] = replies[i]
    BY <2>1
  <2>3. replies # <<>> => Len(replies) \in Nat \ {0}
    BY EmptySeq
  <2>4. Coming # <<>>
    BY <2>2
  <2>5. 1 \in 1..Len(Coming)
    BY <2>2
  <2>6. QED
    BY <2>1, <2>2, <2>3, <2>4, <2>5
<1>3. QED
  BY <1>1, <1>2

LEMMA ReadDrops ==
  ASSUME TypeOK, replies # <<>>, replies' = Tail(replies), owed' = owed
  PROVE  Dropped(Coming, Coming')
<1> USE DEF TypeOK, WireTypeOK
<1>1. Coming \in Seq(Cell) /\ Coming # <<>>
  BY ComingTyped
<1>2. Coming' = Tail(Coming)
  <2>1. CASE owed = NoCell
    BY <2>1 DEF Coming
  <2>2. CASE owed # NoCell
    BY <2>2, TailOfAppend DEF Coming
  <2>3. QED
    BY <2>1, <2>2
<1>3. QED
  BY <1>1, <1>2, TailDrops

LEMMA WriteAdds ==
  ASSUME TypeOK, WriteCell
  PROVE  /\ Coming # <<>>
         /\ IF IsLast(Coming[Len(Coming)])
              THEN /\ Coming' = Coming /\ owed' = NoCell
                   /\ replies' # <<>> => replies'[Len(replies')] = Coming[Len(Coming)]
              ELSE /\ Added(Coming, Coming', NextCell(Coming[Len(Coming)])) /\ owed' # NoCell
                   /\ NextCell(Coming[Len(Coming)]) \in Cell
<1> USE DEF TypeOK, WireTypeOK
<1>1. /\ owed # NoCell /\ owed \in Cell /\ replies' = Append(replies, owed)
      /\ owed' = IF IsLast(owed) THEN NoCell ELSE NextCell(owed)
  BY DEF WriteCell
<1>2. Coming = Append(replies, owed) /\ Coming \in Seq(Cell)
  BY <1>1 DEF Coming
<1>3. Coming # <<>> /\ Coming[Len(Coming)] = owed
  BY <1>1, ComingTyped
<1>4. CASE IsLast(owed)
  <2>1. owed' = NoCell
    BY <1>1, <1>4
  <2>2. Coming' = replies'
    BY <2>1 DEF Coming
  <2>3. QED
    BY <1>1, <1>2, <1>3, <1>4, <2>1, <2>2
<1>5. CASE ~IsLast(owed)
  <2>1. owed' = NextCell(owed) /\ NextCell(owed) \in Cell
    BY <1>1, <1>5, NextTypedCell
  <2>2. owed' # NoCell
    BY <2>1, NoCellIsNone
  <2>3. Coming' = Append(Coming, NextCell(owed))
    BY <1>1, <1>2, <2>1, <2>2 DEF Coming
  <2>4. QED
    BY <1>2, <1>3, <1>5, <2>1, <2>2, <2>3, AppendAdds
<1>6. QED
  BY <1>4, <1>5

\* The server has nothing to write, or begins a reply.
LEMMA ServeAdds ==
  ASSUME TypeOK, Serve
  PROVE  \/ UNCHANGED <<replies, owed>> /\ Coming' = Coming
         \/ \E err \in ErrorReplies, size \in 0..MaxSize :
              /\ Added(Coming, Coming', FirstCell(requests[1].of, requests[1].id, err, size))
              /\ FirstCell(requests[1].of, requests[1].id, err, size) \in Cell
              /\ owed = NoCell /\ owed' # NoCell /\ Coming = replies
              /\ requests[1].wants /\ sockOpen
<1> USE DEF TypeOK, WireTypeOK
<1>1. /\ owed = NoCell /\ replies' = replies /\ requests # <<>>
      /\ \/ owed' = owed
         \/ /\ requests[1].wants /\ sockOpen
            /\ \E err \in ErrorReplies, size \in 0..MaxSize :
                 owed' = FirstCell(requests[1].of, requests[1].id, err, size)
  BY DEF Serve
<1>2. CASE owed' = owed
  BY <1>1, <1>2 DEF Coming
<1>3. ASSUME NEW err \in ErrorReplies, NEW size \in 0..MaxSize,
             owed' = FirstCell(requests[1].of, requests[1].id, err, size)
      PROVE  /\ Added(Coming, Coming', FirstCell(requests[1].of, requests[1].id, err, size))
             /\ FirstCell(requests[1].of, requests[1].id, err, size) \in Cell
             /\ owed' # NoCell /\ Coming = replies
  <2>1. requests[1] \in Request
    BY <1>1
  <2>2. requests[1].of \in Calls /\ requests[1].id \in Ids /\ err \in BOOLEAN
    BY <2>1, ChannelAssumption DEF Request
  <2>3. owed' \in Cell
    BY <1>3, <2>2, FirstTypedCell
  <2>4. owed' # NoCell
    BY <2>3, NoCellIsNone
  <2>5. Coming = replies /\ Coming' = Append(Coming, owed')
    BY <1>1, <2>4 DEF Coming
  <2>6. QED
    BY <1>3, <2>3, <2>4, <2>5, AppendAdds
<1>4. QED
  BY <1>1, <1>2, <1>3

\* Everything else leaves the stream alone, or closes it.
LEMMA StreamKept ==
  ASSUME UNCHANGED <<replies, owed>> PROVE Coming' = Coming
BY DEF Coming

LEMMA NextChainInv ==
  ASSUME TypeInv, TypeInv', ChainInv, [Next]_vars PROVE ChainInv'
<1> USE DEF TypeInv, TypeOK, WireTypeOK
<1>0. Coming \in Seq(Cell) /\ Len(Coming) \in Nat
  BY ComingTyped
<1>1. ASSUME NEW cell, Added(Coming, Coming', cell),
             Coming # <<>> => Follows(Coming[Len(Coming)], cell)
      PROVE  \A i \in 1..Len(Coming') : i + 1 \in 1..Len(Coming') => Follows(Coming[i], Coming[i + 1])'
  <2> SUFFICES ASSUME NEW i \in 1..Len(Coming'), i + 1 \in 1..Len(Coming')
               PROVE  Follows(Coming[i], Coming[i + 1])'
    OBVIOUS
  <2>1. Len(Coming') = Len(Coming) + 1 /\ i \in 1..Len(Coming) /\ Coming'[i] = Coming[i]
    BY <1>0, <1>1 DEF Added
  <2>2. CASE i + 1 \in 1..Len(Coming)
    <3>1. Coming'[i + 1] = Coming[i + 1] /\ Follows(Coming[i], Coming[i + 1])
      BY <1>1, <2>1, <2>2 DEF Added, ChainInv
    <3>2. QED
      BY <2>1, <3>1 DEF Follows, IsLast, NextCell
  <2>3. CASE i + 1 \notin 1..Len(Coming)
    <3>1. i = Len(Coming) /\ Coming'[i + 1] = cell /\ Coming # <<>>
      BY <1>0, <1>1, <2>1, <2>3 DEF Added
    <3>2. QED
      BY <1>1, <2>1, <3>1 DEF Follows, IsLast, NextCell
  <2>4. QED
    BY <2>2, <2>3
<1>2. ASSUME NEW t \in Threads, ReadBy(t) PROVE ChainInv'
  <2>1. replies # <<>> /\ replies' = Tail(replies) /\ owed' = owed /\ sockOpen /\ sockOpen' = sockOpen
    BY <1>2 DEF ReadBy
  <2>2. Dropped(Coming, Coming')
    BY <2>1, ReadDrops
  <2>3. ASSUME NEW i \in 1..Len(Coming'), i + 1 \in 1..Len(Coming')
        PROVE  Follows(Coming[i], Coming[i + 1])'
    <3>1. /\ i + 1 \in 1..Len(Coming) /\ Coming'[i] = Coming[i + 1]
          /\ (i + 1) + 1 \in 1..Len(Coming) /\ Coming'[i + 1] = Coming[(i + 1) + 1]
      BY <2>2, <2>3 DEF Dropped
    <3>2. Follows(Coming[i + 1], Coming[(i + 1) + 1])
      BY <3>1 DEF ChainInv
    <3>3. QED
      BY <3>1, <3>2 DEF Follows, IsLast, NextCell
  <2>4. owed' = NoCell /\ replies' # <<>> => IsLast(replies'[Len(replies')])
    <3>1. replies' # <<>> => replies'[Len(replies')] = replies[Len(replies)]
      BY <2>1
    <3>2. QED
      BY <2>1, <3>1 DEF ChainInv
  <2>5. QED
    BY <2>1, <2>3, <2>4 DEF ChainInv, IsLast
<1>3. CASE Serve
  <2>1. sockOpen' = sockOpen
    BY <1>3 DEF Serve
  <2>2. CASE UNCHANGED <<replies, owed>> /\ Coming' = Coming
    BY <2>1, <2>2 DEF ChainInv, Follows, IsLast, NextCell
  <2>3. ASSUME NEW err \in ErrorReplies, NEW size \in 0..MaxSize, owed = NoCell, owed' # NoCell,
               Added(Coming, Coming', FirstCell(requests[1].of, requests[1].id, err, size)),
               Coming = replies, sockOpen
        PROVE  ChainInv'
    <3> DEFINE cell == FirstCell(requests[1].of, requests[1].id, err, size)
    <3>1. cell.pos = 0
      BY DEF FirstCell
    <3>2. Coming # <<>> => IsLast(Coming[Len(Coming)])
      BY <2>3 DEF ChainInv
    <3> HIDE DEF cell
    <3>3. Coming # <<>> => Follows(Coming[Len(Coming)], cell)
      BY <3>1, <3>2 DEF Follows
    <3>4. \A i \in 1..Len(Coming') : i + 1 \in 1..Len(Coming') => Follows(Coming[i], Coming[i + 1])'
      BY <1>1, <2>3, <3>3 DEF cell
    <3>5. QED
      BY <2>1, <2>3, <3>4 DEF ChainInv
  <2>4. QED
    BY <1>3, <2>2, <2>3, ServeAdds
<1>4. CASE WriteCell
  <2> DEFINE last == Coming[Len(Coming)]
  <2>1. sockOpen' = sockOpen /\ owed # NoCell
    BY <1>4 DEF WriteCell
  <2>2. sockOpen
    BY <2>1 DEF ChainInv
  <2>3. CASE IsLast(last)
    <3>1. /\ Coming' = Coming /\ owed' = NoCell
          /\ replies' # <<>> => replies'[Len(replies')] = last
      BY <1>4, <2>3, WriteAdds
    <3>2. QED
      BY <2>1, <2>2, <2>3, <3>1 DEF ChainInv, Follows, IsLast, NextCell
  <2>4. CASE ~IsLast(last)
    <3>1. Added(Coming, Coming', NextCell(last)) /\ owed' # NoCell
      BY <1>4, <2>4, WriteAdds
    <3>2. Follows(last, NextCell(last))
      BY <2>4 DEF Follows
    <3> HIDE DEF last
    <3>3. \A i \in 1..Len(Coming') : i + 1 \in 1..Len(Coming') => Follows(Coming[i], Coming[i + 1])'
      BY <1>1, <3>1, <3>2 DEF last
    <3>4. QED
      BY <2>1, <2>2, <3>1, <3>3 DEF ChainInv
  <2>5. QED
    BY <2>3, <2>4
<1>5. CASE Close
  <2>1. Coming' = <<>> /\ replies' = <<>> /\ owed' = NoCell
    BY <1>5 DEF Close, Coming
  <2>2. QED
    BY <2>1 DEF ChainInv
<1>6. ASSUME UNCHANGED <<sockOpen, replies, owed>> PROVE ChainInv'
  <2>1. Coming' = Coming
    BY <1>6, StreamKept
  <2>2. QED
    BY <1>6, <2>1 DEF ChainInv, Follows, IsLast, NextCell
<1>7. ASSUME NEW t \in Threads,
             \/ ReadCounter(t) \/ WriteCounter(t) \/ TakeSocket(t) \/ AcquireLock(t) \/ Send(t)
             \/ RecvFails(t) \/ Release(t) \/ End(t)
      PROVE  ChainInv'
  <2>1. UNCHANGED <<sockOpen, replies, owed>>
    BY <1>7 DEF ReadCounter, WriteCounter, TakeSocket, AcquireLock, Send, RecvFails, Release, End, wire
  <2>2. QED
    BY <1>6, <2>1
<1>8. CASE UNCHANGED vars
  BY <1>6, <1>8 DEF vars, wire
<1>9. QED
  BY <1>2, <1>3, <1>4, <1>5, <1>7, <1>8, StepCases

(***************************************************************************)
(* Replies are dealt out whole and once.  From the time a thread has the   *)
(* first bytes of a reply's header it holds the reply, until it hands it   *)
(* over, drops it, or finds that it has taken other bytes for a header.    *)
(***************************************************************************)
\* An exception is kept only to be raised after the release.
RaisedInv == \A t \in Threads : raised[t] => pc[t] \in {"release", "end"}

\* Nobody has bytes of two replies in what began with a header.
FromInv == \A t \in Threads : frame[t].of # NoCall => frame[t].from = {frame[t].of}

\* Thread t has the header of a reply, or the 'wq' of it, and not handed it over.
Holds(t) == pc[t] # "head" /\ frame[t].of # NoCall

\* The holder reads the very next cell, and as many as the header announced.
PairInv ==
  sockOpen => \A t \in Threads : Holds(t) =>
    /\ pc[t] = "rest" => Coming # <<>> /\ Coming[1].of = frame[t].of /\ Coming[1].pos = 1
    /\ pc[t] = "body" => /\ Coming # <<>> /\ Coming[1].of = frame[t].of
                         /\ Coming[1].pos + frame[t].left = Coming[1].size + 2

\* Where replies begin on the stream.
Heads == {i \in 1..Len(Coming) : Coming[i].pos = 0}

\* A reply is held by one thread, or is still to come.
HeldOnce ==
  /\ \A i, j \in Heads : Coming[i].of = Coming[j].of => i = j
  /\ \A t \in Threads, i \in Heads : Holds(t) => Coming[i].of # frame[t].of
  /\ \A t, u \in Threads : Holds(t) /\ Holds(u) /\ frame[t].of = frame[u].of => t = u

\* Until other bytes are taken for a header, whoever has read a reply holds one.
WholeInv == \A t \in Threads :
  pc[t] \in {"body", "release", "end"} /\ ~raised[t] /\ kind[cur[t]] = "reply" => frame[t].of # NoCall

\* A reply handed over is neither to come nor held, nor handed to another.
AnsweredOnce ==
  /\ \A c \in Calls, i \in Heads : Coming[i].of \notin answer[c]
  /\ \A c \in Calls, t \in Threads : Holds(t) => frame[t].of \notin answer[c]
  /\ \A c \in Calls : \A d \in answer[c] :
       answer[c] = {d} /\ \A e \in Calls \ {c} : d \notin answer[e]

\* Nobody else has bytes of the reply a call is waiting for.
LeftInv ==
  \A t \in Threads : InExchange(t) =>
    /\ \A u \in Threads \ {t} : cur[t] \notin frame[u].from
    /\ \A c \in Calls : cur[t] \notin answer[c]

\* A reply is on the stream, or held by one thread, or handed over, once.
DealtInv == PairInv /\ HeldOnce /\ LeftInv /\ (~mistaken => WholeInv /\ AnsweredOnce)

LEMMA InitDealtInv == Init => DealtInv /\ FromInv /\ ChainInv /\ RaisedInv
<1> SUFFICES ASSUME Init PROVE DealtInv /\ FromInv /\ ChainInv /\ RaisedInv
  OBVIOUS
<1>1. /\ replies = <<>> /\ owed = NoCell /\ \A c \in Calls : answer[c] = {}
      /\ \A t \in Threads : pc[t] = "idle" /\ ~raised[t] /\ frame[t].of = NoCall
  BY DEF Init, NoFrame
<1>2. Coming = <<>>
  BY <1>1 DEF Coming
<1>3. Heads = {}
  BY <1>2 DEF Heads
<1>4. \A t \in Threads : ~Holds(t) /\ ~InExchange(t)
  BY <1>1 DEF Holds, InExchange, Receiving
<1>5. PairInv /\ LeftInv
  BY <1>4 DEF PairInv, LeftInv
<1>6. HeldOnce
  BY <1>3, <1>4 DEF HeldOnce
<1>7. WholeInv /\ AnsweredOnce
  BY <1>1, <1>3, <1>4 DEF WholeInv, AnsweredOnce
<1>8. FromInv /\ RaisedInv
  BY <1>1 DEF FromInv, RaisedInv
<1>9. ChainInv
  BY <1>1, <1>2 DEF ChainInv
<1>10. QED
  BY <1>5, <1>6, <1>7, <1>8, <1>9 DEF DealtInv

LEMMA NextRaisedInv == TypeInv /\ RaisedInv /\ [Next]_vars => RaisedInv'
<1> SUFFICES ASSUME TypeInv, RaisedInv, [Next]_vars PROVE RaisedInv'
  OBVIOUS
<1> USE DEF TypeInv, TypeOK, ThreadTypeOK, RaisedInv
<1>1. ASSUME NEW t \in Threads, ReadBy(t) PROVE RaisedInv'
  BY <1>1 DEF ReadBy, Receiving
<1>2. ASSUME NEW t \in Threads,
             \/ ReadCounter(t) \/ WriteCounter(t) \/ TakeSocket(t) \/ AcquireLock(t) \/ Send(t)
             \/ RecvFails(t) \/ Release(t) \/ End(t)
      PROVE  RaisedInv'
  <2>1. \A u \in Threads \ {t} : pc'[u] = pc[u] /\ raised'[u] = raised[u]
    BY <1>2 DEF ReadCounter, WriteCounter, TakeSocket, AcquireLock, Send, RecvFails, Release, End,
                Over, Goto, Raise, locals
  <2>2. raised'[t] => pc'[t] \in {"release", "end"}
    BY <1>2 DEF ReadCounter, WriteCounter, TakeSocket, AcquireLock, Send, RecvFails, Release, End,
                Over, Goto, Raise, locals
  <2>3. QED
    BY <2>1, <2>2
<1>3. CASE Close \/ Serve \/ WriteCell \/ UNCHANGED vars
  BY <1>3 DEF Close, Serve, WriteCell, vars, locals
<1>4. QED
  BY <1>1, <1>2, <1>3, StepCases

LEMMA OneWaits ==
  ASSUME LockInv, NEW t \in Threads, Locked(t), NEW u \in Threads, u # t
  PROVE  ~Locked(u) /\ pc[u] \notin Receiving
BY DEF LockInv, Locked, Receiving

\* A thread that is not at the stream, and what a step of it may do to others.
Others(t) == \A u \in Threads \ {t} : /\ pc'[u] = pc[u] /\ raised'[u] = raised[u]
                                      /\ cur'[u] = cur[u] /\ frame'[u] = frame[u]

LEMMA OthersStay ==
  ASSUME TypeInv, NEW t \in Threads,
         \/ ReadCounter(t) \/ WriteCounter(t) \/ TakeSocket(t) \/ AcquireLock(t) \/ Send(t)
         \/ ReadBy(t) \/ RecvFails(t) \/ Release(t) \/ End(t)
  PROVE  Others(t) /\ \A c \in 1..made : kind'[c] = kind[c]
<1> USE DEF TypeInv, TypeOK, ThreadTypeOK, CallTypeOK
<1>1. Others(t)
  BY DEF ReadCounter, WriteCounter, TakeSocket, AcquireLock, Send, ReadBy, RecvFails, Release, End,
         Over, Goto, Raise, locals, Others
<1>2. \A c \in 1..made : kind'[c] = kind[c]
  BY ChannelAssumption
     DEF ReadCounter, WriteCounter, TakeSocket, AcquireLock, Send, ReadBy, RecvFails, Release, End,
         history, Calls
<1>3. QED
  BY <1>1, <1>2

\* The first cell, and the one after it.
LEMMA SecondCell ==
  ASSUME TypeOK, ChainInv, replies # <<>>, replies' = Tail(replies), owed' = owed,
         ~IsLast(replies[1])
  PROVE  Coming' # <<>> /\ Coming'[1] = NextCell(replies[1])
<1>1. /\ Coming \in Seq(Cell) /\ Coming # <<>> /\ Coming[1] = replies[1]
      /\ owed # NoCell => Coming[Len(Coming)] = owed
      /\ 1 \in 1..Len(Coming) /\ Len(Coming) \in Nat
  BY ComingTyped
<1>2. Dropped(Coming, Coming')
  BY ReadDrops
<1>3. CASE 2 \in 1..Len(Coming)
  <2>1. Coming[1 + 1] = NextCell(Coming[1])
    <3>1. 1 \in 1..Len(Coming) /\ 1 + 1 \in 1..Len(Coming)
      BY <1>1, <1>3
    <3>2. Follows(Coming[1], Coming[1 + 1])
      BY <3>1 DEF ChainInv
    <3>3. QED
      BY <1>1, <3>2 DEF Follows
  <2>2. Len(Coming') \in Nat /\ Len(Coming') > 0
    BY <1>1, <1>2, <1>3 DEF Dropped
  <2>3. 1 \in 1..Len(Coming') /\ Coming' # <<>>
    BY <2>2
  <2>4. Coming'[1] = Coming[1 + 1]
    BY <1>2, <2>3 DEF Dropped
  <2>5. QED
    BY <1>1, <2>1, <2>3, <2>4
<1>4. CASE 2 \notin 1..Len(Coming)
  <2>1. Len(Coming) = 1
    <3>1. PICK n \in Nat : n = Len(Coming)
      BY <1>1
    <3>2. 1 \in 1..n /\ 2 \notin 1..n
      BY <1>1, <1>4, <3>1
    <3>3. QED
      BY <3>1, <3>2
  <2>2. CASE owed = NoCell
    <3>1. Coming = replies
      BY <2>2 DEF Coming
    <3>2. IsLast(replies[1])
      BY <2>1, <2>2, <3>1 DEF ChainInv
    <3>3. QED
      BY <3>2
  <2>3. CASE owed # NoCell
    <3>1. Len(Coming) = Len(replies) + 1 /\ Len(replies) \in Nat \ {0}
      BY <2>3, EmptySeq DEF Coming, TypeOK, WireTypeOK
    <3>2. QED
      BY <2>1, <3>1
  <2>4. QED
    BY <2>2, <2>3
<1>5. QED
  BY <1>3, <1>4

LEMMA NextFromInv ==
  ASSUME TypeInv, FromInv, PairInv, [Next]_vars PROVE FromInv'
<1> USE DEF TypeInv, TypeOK, ThreadTypeOK
<1>1. ASSUME NEW t \in Threads, Reads(t), frame'[t].of # NoCall PROVE frame'[t].from = {frame'[t].of}
  <2>1. CASE RecvHead(t)
    BY <1>1, <2>1, HeadStep
  <2>2. CASE RecvRest(t)
    <3>1. /\ frame'[t].from = frame[t].from \cup {replies[1].of}
          /\ frame'[t].of = frame[t].of /\ replies[1].of = frame[t].of
      BY <1>1, <2>2, RestStep
    <3>2. QED
      BY <1>1, <3>1 DEF FromInv
  <2>3. CASE RecvJunk(t)
    BY <1>1, <2>3, JunkStep DEF NoFrame
  <2>4. CASE RecvBody(t)
    <3>1. /\ frame'[t].from = frame[t].from \cup {replies[1].of} /\ frame'[t].of = frame[t].of
          /\ pc[t] = "body" /\ sockOpen /\ replies # <<>>
      BY <2>4, BodyStep DEF ReadBy
    <3>2. Coming[1].of = frame[t].of
      BY <1>1, <3>1 DEF PairInv, Holds
    <3>3. replies[1].of = frame[t].of
      BY <3>1, <3>2, ComingTyped
    <3>4. QED
      BY <1>1, <3>1, <3>3 DEF FromInv
  <2>5. QED
    BY <1>1, <2>1, <2>2, <2>3, <2>4 DEF Reads
<1>2. ASSUME NEW t \in Threads, Reads(t) PROVE FromInv'
  <2>1. frame' = [frame EXCEPT ![t] = frame'[t]]
    BY <1>2, ReadStep, Zenon DEF ReadBy
  <2>2. \A u \in Threads \ {t} : frame'[u] = frame[u]
    BY ONLY TypeInv, <2>1 DEF TypeInv, TypeOK, ThreadTypeOK
  <2>3. QED
    BY <1>1, <1>2, <2>2 DEF FromInv
<1>3. ASSUME \A t \in Threads : frame'[t] = frame[t] \/ frame'[t] = NoFrame PROVE FromInv'
  BY <1>3 DEF FromInv, NoFrame
<1>4. ASSUME NEW t \in Threads,
             \/ ReadCounter(t) \/ WriteCounter(t) \/ TakeSocket(t) \/ AcquireLock(t) \/ Send(t)
             \/ RecvFails(t) \/ Release(t) \/ End(t)
      PROVE  FromInv'
  <2>1. \A u \in Threads : frame'[u] = frame[u] \/ frame'[u] = NoFrame
    BY <1>4 DEF ReadCounter, WriteCounter, TakeSocket, AcquireLock, Send, RecvFails, Release, End,
                Over, locals
  <2>2. QED
    BY <1>3, <2>1
<1>5. CASE Close \/ Serve \/ WriteCell \/ UNCHANGED vars
  BY <1>3, <1>5 DEF Close, Serve, WriteCell, vars, locals
<1>6. QED
  BY <1>2, <1>4, <1>5 DEF Next, Step, Reads

\* Only the thread at the stream is in the middle of a reply.
LEMMA NextPairInv ==
  ASSUME TypeInv, ChainInv, LockInv, PairInv, [Next]_vars PROVE PairInv'
<1> USE DEF TypeInv, TypeOK, ThreadTypeOK
<1>1. ASSUME NEW t \in Threads, Reads(t) PROVE PairInv'
  <2>1. ReadBy(t)
    BY <1>1, ReadStep
  <2>2. /\ sockOpen /\ replies # <<>> /\ replies' = Tail(replies) /\ owed' = owed /\ Others(t)
        /\ Locked(t)
    BY <2>1, OthersStay DEF ReadBy, Locked
  <2>3. \A u \in Threads \ {t} : pc'[u] \notin Receiving
    BY <2>2, OneWaits DEF Others
  <2>4. replies[1] \in Cell
    BY <2>2, FirstTyped DEF WireTypeOK
  <2>5. /\ replies[1].size \in Nat /\ replies[1].pos \in Nat /\ replies[1].of \in Calls
    BY <2>4, CellFields, ChannelAssumption
  <2>6. ASSUME ~IsLast(replies[1])
        PROVE  /\ Coming' # <<>> /\ Coming'[1].of = replies[1].of
               /\ Coming'[1].pos = replies[1].pos + 1 /\ Coming'[1].size = replies[1].size
    <3>1. Coming' # <<>> /\ Coming'[1] = NextCell(replies[1])
      BY <2>2, <2>6, SecondCell
    <3>2. QED
      BY <3>1 DEF NextCell
  <2>7. ASSUME Holds(t)', pc'[t] = "rest"
        PROVE  Coming' # <<>> /\ Coming'[1].of = frame'[t].of /\ Coming'[1].pos = 1
    <3>1. RecvHead(t)
      BY <1>1, <2>7, HeadStep, RestStep, JunkStep, BodyStep DEF Reads, AfterCell
    <3>2. replies[1].pos = 0 /\ frame'[t].of = replies[1].of
      BY <2>7, <3>1, HeadStep DEF Holds
    <3>3. ~IsLast(replies[1])
      BY <2>5, <3>2 DEF IsLast
    <3>4. QED
      BY <2>6, <3>2, <3>3
  <2>8. ASSUME Holds(t)', pc'[t] = "body"
        PROVE  /\ Coming' # <<>> /\ Coming'[1].of = frame'[t].of
               /\ Coming'[1].pos + frame'[t].left = Coming'[1].size + 2
    <3>1. RecvRest(t) \/ RecvBody(t)
      BY <1>1, <2>8, HeadStep, JunkStep DEF Reads
    <3>2. frame'[t].left \in Nat /\ frame'[t].left > 0
      <4>1. frame'[t] \in Frame /\ frame'[t].left > 0
        BY <1>1, <2>8, ReadStep
      <4>2. frame'[t].left \in 0..MaxSize
        BY <4>1 DEF Frame
      <4>3. QED
        BY <4>1, <4>2, ChannelAssumption
    <3>3. /\ replies[1].of = frame'[t].of
          /\ replies[1].pos + 1 + frame'[t].left = replies[1].size + 2
      <4>1. CASE RecvRest(t)
        BY <2>5, <2>8, <4>1, RestStep DEF Holds
      <4>2. CASE RecvBody(t)
        <5>1. pc[t] = "body" /\ frame'[t].of = frame[t].of /\ frame'[t].left = frame[t].left - 1
          BY <4>2, BodyStep
        <5>2. Coming[1].of = frame[t].of /\ Coming[1].pos + frame[t].left = Coming[1].size + 2
          BY <2>2, <2>8, <5>1 DEF PairInv, Holds
        <5>3. Coming[1] = replies[1]
          BY <2>2, ComingTyped
        <5>4. frame[t].left \in Nat
          BY ChannelAssumption DEF Frame
        <5>5. QED
          BY <2>5, <5>1, <5>2, <5>3, <5>4
      <4>3. QED
        BY <3>1, <4>1, <4>2
    <3>4. ~IsLast(replies[1])
      BY <2>5, <3>2, <3>3 DEF IsLast
    <3>5. QED
      BY <2>5, <2>6, <3>2, <3>3, <3>4
  <2>9. QED
    BY <2>3, <2>7, <2>8 DEF PairInv, Receiving
<1>2. ASSUME sockOpen' => sockOpen,
             \A t \in Threads : pc'[t] \in {"rest", "body"} => pc[t] = pc'[t] /\ frame'[t] = frame[t],
             Coming # <<>> => Coming' # <<>> /\ Coming'[1] = Coming[1]
      PROVE  PairInv'
  BY <1>2 DEF PairInv, Holds
<1>3. ASSUME NEW t \in Threads,
             \/ ReadCounter(t) \/ WriteCounter(t) \/ TakeSocket(t) \/ AcquireLock(t) \/ Send(t)
             \/ RecvFails(t) \/ Release(t) \/ End(t)
      PROVE  PairInv'
  <2>1. UNCHANGED <<sockOpen, replies, owed>>
    BY <1>3 DEF ReadCounter, WriteCounter, TakeSocket, AcquireLock, Send, RecvFails, Release, End, wire
  <2>2. Others(t) /\ pc'[t] \notin {"rest", "body"}
    BY <1>3, OthersStay DEF ReadCounter, WriteCounter, TakeSocket, AcquireLock, Send, RecvFails,
                            Release, End, Over, Goto, Raise
  <2>3. Coming' = Coming
    BY <2>1, StreamKept
  <2>4. QED
    BY <1>2, <2>1, <2>2, <2>3 DEF Others
<1>4. ASSUME NEW cell, Added(Coming, Coming', cell), Coming # <<>>
      PROVE  Coming' # <<>> /\ Coming'[1] = Coming[1]
  <2>1. 1 \in 1..Len(Coming) /\ Len(Coming) \in Nat
    BY <1>4, ComingTyped
  <2>2. Coming'[1] = Coming[1] /\ Len(Coming') = Len(Coming) + 1
    BY <1>4, <2>1 DEF Added
  <2>3. QED
    BY <2>1, <2>2
<1>5. CASE Serve
  <2>1. UNCHANGED <<sockOpen, pc, frame>>
    BY <1>5 DEF Serve, locals
  <2>2. Coming # <<>> => Coming' # <<>> /\ Coming'[1] = Coming[1]
    BY <1>4, <1>5, ServeAdds
  <2>3. QED
    BY <1>2, <2>1, <2>2
<1>6. CASE WriteCell
  <2>1. UNCHANGED <<sockOpen, pc, frame>>
    BY <1>6 DEF WriteCell, locals
  <2>2. Coming # <<>> => Coming' # <<>> /\ Coming'[1] = Coming[1]
    BY <1>4, <1>6, WriteAdds
  <2>3. QED
    BY <1>2, <2>1, <2>2
<1>7. CASE Close
  BY <1>7 DEF Close, PairInv
<1>8. CASE UNCHANGED vars
  <2>1. UNCHANGED <<sockOpen, pc, frame>> /\ Coming' = Coming
    BY <1>8, StreamKept DEF vars, wire, locals
  <2>2. QED
    BY <1>2, <2>1
<1>9. QED
  BY <1>1, <1>3, <1>5, <1>6, <1>7, <1>8 DEF Next, Step, Reads

\* Steps that hand nothing to anybody, and write nothing new.
LEMMA AsideKeepsOnce ==
  ASSUME HeldOnce, answer' = answer,
         \A i \in Heads' : i \in Heads /\ Coming'[i].of = Coming[i].of,
         \A t \in Threads : Holds(t)' => Holds(t) /\ frame'[t].of = frame[t].of
  PROVE  HeldOnce' /\ (AnsweredOnce => AnsweredOnce')
<1>1. HeldOnce'
  BY DEF HeldOnce
<1>2. ASSUME AnsweredOnce PROVE AnsweredOnce'
  BY <1>2 DEF AnsweredOnce
<1>3. QED
  BY <1>1, <1>2

\* A reader holds what it held, or what begins with the cell it took.
LEMMA ReadHolds ==
  ASSUME TypeInv, NEW t \in Threads, Reads(t), Holds(t)'
  PROVE  \/ Holds(t) /\ frame'[t].of = frame[t].of
         \/ 1 \in Heads /\ frame'[t].of = Coming[1].of
<1> USE DEF TypeInv
<1>1. CASE RecvHead(t)
  <2>1. replies # <<>> /\ replies[1].pos = 0 /\ frame'[t].of = replies[1].of
    BY <1>1, HeadStep DEF Holds, ReadBy
  <2>2. 1 \in 1..Len(Coming) /\ Coming[1] = replies[1]
    BY <2>1, ComingTyped
  <2>3. QED
    BY <2>1, <2>2 DEF Heads
<1>2. CASE RecvRest(t)
  BY <1>2, RestStep DEF Holds
<1>3. CASE RecvJunk(t)
  BY <1>3, JunkStep DEF Holds, NoFrame
<1>4. CASE RecvBody(t)
  BY <1>4, BodyStep DEF Holds
<1>5. QED
  BY <1>1, <1>2, <1>3, <1>4 DEF Reads

LEMMA ReadKeepsOnce ==
  ASSUME TypeInv, HeldOnce, NEW t \in Threads, Reads(t)
  PROVE  HeldOnce' /\ (AnsweredOnce => AnsweredOnce')
<1> USE DEF TypeInv
<1>1. /\ Others(t) /\ answer' = answer /\ replies # <<>> /\ replies' = Tail(replies) /\ owed' = owed
  BY ReadStep, OthersStay DEF ReadBy
<1>2. Dropped(Coming, Coming')
  BY <1>1, ReadDrops
<1>3. ASSUME NEW i \in Heads'
      PROVE  i \in Nat \ {0} /\ i + 1 \in Heads /\ Coming'[i].of = Coming[i + 1].of
  <2>1. i \in 1..Len(Coming') /\ Coming'[i].pos = 0
    BY <1>3 DEF Heads
  <2>2. i + 1 \in 1..Len(Coming) /\ Coming'[i] = Coming[i + 1]
    BY <1>2, <2>1 DEF Dropped
  <2>3. QED
    BY <2>1, <2>2 DEF Heads
<1>4. \A u \in Threads \ {t} : Holds(u)' => Holds(u) /\ frame'[u].of = frame[u].of
  BY <1>1 DEF Others, Holds
<1>5. Holds(t)' => \/ Holds(t) /\ frame'[t].of = frame[t].of
                   \/ 1 \in Heads /\ frame'[t].of = Coming[1].of
  BY ReadHolds
<1>6. \A i \in Heads' : i + 1 # 1
  BY <1>3
<1>7. HeldOnce'
  <2>1. ASSUME NEW i \in Heads', NEW j \in Heads', Coming'[i].of = Coming'[j].of PROVE i = j
    <3>1. i + 1 = j + 1
      BY <1>3, <2>1 DEF HeldOnce
    <3>2. QED
      BY <1>3, <3>1
  <2>2. ASSUME NEW u \in Threads, NEW i \in Heads', Holds(u)' PROVE Coming'[i].of # frame'[u].of
    <3>1. i + 1 \in Heads /\ Coming'[i].of = Coming[i + 1].of /\ i + 1 # 1
      BY <1>3, <1>6
    <3>2. CASE Holds(u) /\ frame'[u].of = frame[u].of
      BY <3>1, <3>2 DEF HeldOnce
    <3>3. CASE 1 \in Heads /\ frame'[u].of = Coming[1].of
      BY <3>1, <3>3 DEF HeldOnce
    <3>4. QED
      BY <1>4, <1>5, <2>2, <3>2, <3>3
  <2>3. ASSUME NEW u \in Threads, NEW v \in Threads, Holds(u)', Holds(v)',
               frame'[u].of = frame'[v].of
        PROVE  u = v
    <3>1. CASE u # t /\ v # t
      BY <1>4, <2>3, <3>1 DEF HeldOnce
    <3>2. CASE u = t /\ v # t
      BY <1>4, <1>5, <2>3, <3>2 DEF HeldOnce
    <3>3. CASE u # t /\ v = t
      BY <1>4, <1>5, <2>3, <3>3 DEF HeldOnce
    <3>4. QED
      BY <3>1, <3>2, <3>3
  <2>4. QED
    BY <2>1, <2>2, <2>3 DEF HeldOnce
<1>8. ASSUME AnsweredOnce PROVE AnsweredOnce'
  <2>1. \A c \in Calls, i \in Heads' : Coming'[i].of \notin answer'[c]
    BY <1>1, <1>3, <1>8 DEF AnsweredOnce
  <2>2. ASSUME NEW c \in Calls, NEW u \in Threads, Holds(u)' PROVE frame'[u].of \notin answer'[c]
    <3>1. CASE Holds(u) /\ frame'[u].of = frame[u].of
      BY <1>1, <1>8, <3>1 DEF AnsweredOnce
    <3>2. CASE 1 \in Heads /\ frame'[u].of = Coming[1].of
      BY <1>1, <1>8, <3>2 DEF AnsweredOnce
    <3>3. QED
      BY <1>4, <1>5, <2>2, <3>1, <3>2
  <2>3. QED
    BY <1>1, <1>8, <2>1, <2>2 DEF AnsweredOnce
<1>9. QED
  BY <1>7, <1>8

LEMMA ServeKeepsOnce ==
  ASSUME TypeInv, RequestedInv, RepliedInv, HeldOnce, Serve
  PROVE  HeldOnce' /\ (AnsweredOnce => AnsweredOnce')
<1> USE DEF TypeInv
<1> DEFINE of == requests[1].of
<1>1. UNCHANGED <<pc, frame, answer>> /\ requests # <<>> /\ owed = NoCell
  BY DEF Serve, locals
<1>2. of \in Calls /\ of \notin carried
  <2>1. 1 \in 1..Len(requests) /\ requests[1] \in Request
    BY <1>1 DEF TypeOK, WireTypeOK
  <2>2. QED
    BY <2>1 DEF RequestedInv, Request
<1>3. \A t \in Threads : Holds(t)' => Holds(t) /\ frame'[t] = frame[t]
  BY <1>1 DEF Holds
<1>4. CASE UNCHANGED <<replies, owed>> /\ Coming' = Coming
  BY <1>1, <1>3, <1>4, AsideKeepsOnce DEF Heads
<1>5. ASSUME NEW cell, cell.of = of, Added(Coming, Coming', cell), Coming = replies
      PROVE  HeldOnce' /\ (AnsweredOnce => AnsweredOnce')
  <2>1. Len(Coming) \in Nat
    BY ComingTyped
  <2>2. ASSUME NEW i \in Heads'
        PROVE  \/ i \in Heads /\ Coming'[i].of = Coming[i].of
               \/ i = Len(Coming) + 1 /\ Coming'[i].of = of
    <3>1. i \in 1..Len(Coming') /\ Coming'[i].pos = 0
      BY <2>2 DEF Heads
    <3>2. i \in 1..Len(Coming) \/ i = Len(Coming) + 1
      BY <1>5, <2>1, <3>1 DEF Added
    <3>3. QED
      BY <1>5, <3>1, <3>2 DEF Added, Heads
  <2>3. \A i \in Heads : Coming[i].of # of
    BY <1>2, <1>5 DEF Heads, RepliedInv
  <2>4. \A t \in Threads : Holds(t) => frame[t].of # of
    BY <1>2 DEF RepliedInv, Holds
  <2>5. \A c \in Calls : of \notin answer[c]
    <3>1. of # NoCall
      BY <1>2 DEF Calls, NoCall
    <3>2. QED
      BY <1>2, <3>1 DEF RepliedInv
  <2> HIDE DEF of
  <2>6. HeldOnce'
    BY <1>1, <1>3, <2>2, <2>3, <2>4 DEF HeldOnce
  <2>7. ASSUME AnsweredOnce PROVE AnsweredOnce'
    BY <1>1, <1>3, <2>2, <2>5, <2>7 DEF AnsweredOnce
  <2>8. QED
    BY <2>6, <2>7
<1>6. QED
  <2>1. \A err, size : FirstCell(of, requests[1].id, err, size).of = of
    BY DEF FirstCell
  <2>2. QED
    BY <1>4, <1>5, <2>1, ServeAdds

LEMMA WriteKeepsOnce ==
  ASSUME TypeInv, HeldOnce, WriteCell
  PROVE  HeldOnce' /\ (AnsweredOnce => AnsweredOnce')
<1> USE DEF TypeInv
<1>1. UNCHANGED <<pc, frame, answer>>
  BY DEF WriteCell, locals
<1>2. \A t \in Threads : Holds(t)' => Holds(t) /\ frame'[t] = frame[t]
  BY <1>1 DEF Holds
<1> DEFINE last == Coming[Len(Coming)]
<1>3. ASSUME NEW i \in Heads' PROVE i \in Heads /\ Coming'[i].of = Coming[i].of
  <2>1. i \in 1..Len(Coming') /\ Coming'[i].pos = 0
    BY <1>3 DEF Heads
  <2>2. CASE Coming' = Coming
    BY <2>1, <2>2 DEF Heads
  <2>3. CASE Added(Coming, Coming', NextCell(last))
    <3>1. Coming # <<>> /\ Coming \in Seq(Cell) /\ Len(Coming) \in 1..Len(Coming)
      BY ComingTyped, WriteAdds
    <3>2. last \in Cell
      BY <3>1
    <3>3. last.pos \in Nat
      BY <3>2, CellFields
    <3>4. NextCell(last).pos # 0
      BY <3>3 DEF NextCell
    <3> HIDE DEF last
    <3>5. i \in 1..Len(Coming) \/ i = Len(Coming) + 1
      BY <2>1, <2>3, <3>1 DEF Added
    <3>6. i # Len(Coming) + 1
      BY <2>1, <2>3, <3>4 DEF Added
    <3>7. QED
      BY <2>1, <2>3, <3>5, <3>6 DEF Added, Heads
  <2>4. QED
    BY <2>2, <2>3, WriteAdds
<1>4. QED
  BY <1>1, <1>2, <1>3, AsideKeepsOnce

\* A call hands over what its thread holds.
LEMMA EndKeepsOnce ==
  ASSUME TypeInv, FromInv, HeldOnce, NEW t \in Threads, End(t)
  PROVE  HeldOnce' /\ (WholeInv /\ AnsweredOnce => AnsweredOnce')
<1> USE DEF TypeInv, TypeOK, ThreadTypeOK, CallTypeOK
<1>1. /\ pc[t] = "end" /\ pc'[t] = "idle" /\ frame'[t] = NoFrame /\ Others(t)
      /\ cur[t] \in Calls /\ UNCHANGED <<replies, owed>>
      /\ \/ answer' = answer
         \/ /\ answer' = [answer EXCEPT ![cur[t]] = {frame[t].of} \cup frame[t].from]
            /\ ~raised[t] /\ kind[cur[t]] # "void"
  <2>1. pc[t] = "end" /\ pc'[t] = "idle" /\ frame'[t] = NoFrame /\ UNCHANGED <<replies, owed>>
    BY DEF End, Over, Goto, wire
  <2>2. cur[t] \in Calls
    BY <2>1, ChannelAssumption DEF CallInv, Calls
  <2>3. \/ answer' = answer
        \/ /\ answer' = [answer EXCEPT ![cur[t]] = {frame[t].of} \cup frame[t].from]
           /\ ~raised[t] /\ kind[cur[t]] # "void"
    BY DEF End
  <2>4. QED
    BY <2>1, <2>2, <2>3, OthersStay
<1>2. Coming' = Coming /\ Heads' = Heads
  BY <1>1, StreamKept DEF Heads
<1>3. \A u \in Threads : Holds(u)' => u # t /\ Holds(u) /\ frame'[u] = frame[u]
  BY <1>1 DEF Others, Holds, NoFrame
<1>4. HeldOnce'
  BY <1>2, <1>3 DEF HeldOnce
<1>5. CASE answer' = answer
  BY <1>2, <1>3, <1>5, AsideKeepsOnce
<1>6. ASSUME answer' # answer, WholeInv, AnsweredOnce PROVE AnsweredOnce'
  <2> DEFINE d == frame[t].of
             c == cur[t]
  <2>1. kind[c] = "reply"
    BY <1>1, <1>6 DEF KindInv, AllKinds
  <2>2. d # NoCall
    BY <1>1, <1>6, <2>1 DEF WholeInv
  <2>3. Holds(t) /\ frame[t].from = {d}
    BY <1>1, <2>2 DEF Holds, FromInv
  <2>4. answer' = [answer EXCEPT ![c] = {d}]
    BY <1>1, <1>6, <2>3
  <2>5. /\ \A i \in Heads : Coming[i].of # d
        /\ \A u \in Threads : Holds(u) /\ u # t => frame[u].of # d
        /\ \A e \in Calls : d \notin answer[e]
    BY <1>6, <2>3 DEF HeldOnce, AnsweredOnce
  <2>6. answer'[c] = {d} /\ \A e \in Calls \ {c} : answer'[e] = answer[e]
    BY <1>1, <2>4
  <2> HIDE DEF c, d
  <2>7. \A e \in Calls, i \in Heads' : Coming'[i].of \notin answer'[e]
    BY <1>2, <1>6, <2>5, <2>6 DEF AnsweredOnce
  <2>8. \A e \in Calls, u \in Threads : Holds(u)' => frame'[u].of \notin answer'[e]
    BY <1>3, <1>6, <2>5, <2>6 DEF AnsweredOnce
  <2>9. \A e \in Calls : \A x \in answer'[e] :
          answer'[e] = {x} /\ \A f \in Calls \ {e} : x \notin answer'[f]
    BY <1>6, <2>5, <2>6 DEF AnsweredOnce
  <2>10. QED
    BY <2>7, <2>8, <2>9 DEF AnsweredOnce
<1>7. QED
  BY <1>4, <1>5, <1>6

LEMMA NextOnce ==
  ASSUME TypeInv, RequestedInv, RepliedInv, FromInv, HeldOnce, [Next]_vars
  PROVE  HeldOnce' /\ (WholeInv /\ AnsweredOnce => AnsweredOnce')
<1> USE DEF TypeInv, TypeOK, ThreadTypeOK
<1>1. ASSUME NEW t \in Threads,
             \/ ReadCounter(t) \/ WriteCounter(t) \/ TakeSocket(t) \/ AcquireLock(t) \/ Send(t)
             \/ RecvFails(t) \/ Release(t)
      PROVE  HeldOnce' /\ (AnsweredOnce => AnsweredOnce')
  <2>1. UNCHANGED <<replies, owed, answer>> /\ Others(t)
    BY <1>1, OthersStay
       DEF ReadCounter, WriteCounter, TakeSocket, AcquireLock, Send, RecvFails, Release, wire
  <2>2. Coming' = Coming /\ Heads' = Heads
    BY <2>1, StreamKept DEF Heads
  <2>3. frame'[t] = frame[t] \/ frame'[t] = NoFrame
    BY <1>1 DEF ReadCounter, WriteCounter, TakeSocket, AcquireLock, Send, RecvFails, Release, Over,
                locals
  <2>4. pc[t] # "head" \/ frame'[t] = NoFrame
    BY <1>1 DEF ReadCounter, WriteCounter, TakeSocket, AcquireLock, Send, RecvFails, Release
  <2>5. \A u \in Threads : Holds(u)' => Holds(u) /\ frame'[u].of = frame[u].of
    BY <2>1, <2>3, <2>4 DEF Holds, NoFrame, Others
  <2>6. QED
    BY <2>1, <2>2, <2>5, AsideKeepsOnce
<1>2. CASE Close
  <2>1. UNCHANGED <<pc, frame, answer>> /\ Coming' = <<>>
    BY <1>2 DEF Close, locals, Coming
  <2>2. Heads' = {}
    BY <2>1 DEF Heads
  <2>3. QED
    BY <2>1, <2>2, AsideKeepsOnce DEF Holds
<1>3. CASE UNCHANGED vars
  <2>1. UNCHANGED <<pc, frame, answer>> /\ Coming' = Coming
    BY <1>3, StreamKept DEF vars, locals, wire
  <2>2. Heads' = Heads
    BY <2>1 DEF Heads
  <2>3. QED
    BY <2>1, <2>2, AsideKeepsOnce DEF Holds
<1>4. QED
  BY <1>1, <1>2, <1>3, ReadKeepsOnce, EndKeepsOnce, ServeKeepsOnce, WriteKeepsOnce
     DEF Next, Step, Reads

LEMMA NextWholeInv ==
  ASSUME TypeInv, WholeInv, RaisedInv, [Next]_vars, ~mistaken' PROVE WholeInv'
<1> USE DEF TypeInv, TypeOK, ThreadTypeOK
<1>1. ASSUME NEW t \in Threads, Others(t), \A c \in 1..made : kind'[c] = kind[c],
             /\ pc'[t] \in {"body", "release", "end"} /\ ~raised'[t] /\ kind'[cur'[t]] = "reply"
             => frame'[t].of # NoCall
      PROVE  WholeInv'
  <2>1. \A u \in Threads \ {t} : pc'[u] # "idle" => kind'[cur'[u]] = kind[cur[u]]
    BY <1>1 DEF Others, CallInv
  <2>2. QED
    BY <1>1, <2>1 DEF WholeInv, Others
<1>2. ASSUME NEW t \in Threads,
             \/ ReadCounter(t) \/ WriteCounter(t) \/ TakeSocket(t) \/ AcquireLock(t) \/ Send(t)
             \/ RecvFails(t) \/ Release(t) \/ End(t)
      PROVE  WholeInv'
  <2>1. pc'[t] \in {"body", "release", "end"} /\ ~raised'[t] /\ kind'[cur'[t]] = "reply"
          => frame'[t].of # NoCall
    <3>1. CASE Release(t)
      BY <3>1 DEF Release, Goto, locals, history, WholeInv
    <3>2. CASE Send(t)
      BY <3>2 DEF Send, Goto, Raise, history
    <3>3. CASE RecvFails(t)
      BY <3>3 DEF RecvFails, Raise
    <3>4. CASE ReadCounter(t) \/ WriteCounter(t) \/ TakeSocket(t) \/ AcquireLock(t) \/ End(t)
      BY <3>4 DEF ReadCounter, WriteCounter, TakeSocket, AcquireLock, End, Over, Goto
    <3>5. QED
      BY <1>2, <3>1, <3>2, <3>3, <3>4
  <2>2. QED
    BY <1>1, <1>2, <2>1, OthersStay
<1>3. ASSUME NEW t \in Threads, Reads(t) PROVE WholeInv'
  <2>1. /\ pc'[t] \in {"body", "release", "end"} /\ ~raised'[t] /\ kind'[cur'[t]] = "reply"
          => frame'[t].of # NoCall
    <3>1. CASE RecvHead(t)
      BY <3>1, HeadStep
    <3>2. CASE RecvRest(t)
      <4>1. replies[1].of \in Calls
        BY <3>2, RestStep, FirstTyped, CellFields DEF ReadBy, WireTypeOK
      <4>2. frame'[t].of = replies[1].of
        BY <3>2, RestStep
      <4>3. QED
        BY <4>1, <4>2 DEF Calls, NoCall
    <3>3. CASE RecvJunk(t)
      BY <3>3, JunkStep
    <3>4. CASE RecvBody(t)
      <4>1. /\ pc[t] = "body" /\ UNCHANGED <<cur, kind>> /\ frame'[t].of = frame[t].of
            /\ raised' = raised
        BY <3>4, BodyStep DEF ReadBy, history
      <4>2. ~raised[t]
        BY <4>1 DEF RaisedInv
      <4>3. kind[cur[t]] = "reply"
        BY <4>1 DEF KindInv, Receiving
      <4>4. QED
        BY <4>1, <4>2, <4>3 DEF WholeInv
    <3>5. QED
      BY <1>3, <3>1, <3>2, <3>3, <3>4 DEF Reads
  <2>2. ReadBy(t)
    BY <1>3, ReadStep
  <2>3. QED
    BY <1>1, <2>1, <2>2, OthersStay
<1>4. CASE Close \/ Serve \/ WriteCell \/ UNCHANGED vars
  BY <1>4 DEF Close, Serve, WriteCell, vars, locals, history, WholeInv
<1>5. QED
  BY <1>2, <1>3, <1>4 DEF Next, Step, Reads

LEMMA NextLeftInv ==
  ASSUME TypeInv, LockInv, RequestedInv, RepliedInv, FromInv, LeftInv, [Next]_vars PROVE LeftInv'
<1> USE DEF TypeInv, TypeOK, ThreadTypeOK, CallTypeOK
<1>1. ASSUME NEW t \in Threads,
             \/ ReadCounter(t) \/ WriteCounter(t) \/ TakeSocket(t) \/ AcquireLock(t) \/ Send(t)
             \/ ReadBy(t) \/ RecvFails(t) \/ Release(t) \/ End(t),
             NEW u \in Threads, InExchange(u)'
      PROVE  /\ \A v \in Threads \ {u} : cur'[u] \notin frame'[v].from
             /\ \A c \in Calls : cur'[u] \notin answer'[c]
  <2>1. Others(t)
    BY <1>1, OthersStay
  <2>2. CASE AcquireLock(t) /\ u = t
    <3>1. Unsent(t) /\ UNCHANGED <<cur, frame, answer>> /\ pc[t] # "idle"
      BY <2>2 DEF AcquireLock, Unsent
    <3>2. cur[t] \notin carried /\ cur[t] \in 1..made
      BY <3>1 DEF RequestedInv, CallInv
    <3>3. cur[t] # NoCall
      BY <3>2 DEF NoCall
    <3>4. QED
      BY <2>2, <3>1, <3>2, <3>3 DEF RepliedInv
  <2>3. CASE ~(AcquireLock(t) /\ u = t)
    <3>1. InExchange(u) /\ cur'[u] = cur[u]
      <4>1. CASE u # t
        BY <1>1, <2>1, <4>1 DEF Others, InExchange
      <4>2. CASE u = t
        BY <1>1, <2>3, <4>2 DEF ReadCounter, WriteCounter, TakeSocket, AcquireLock, Send, ReadBy,
           RecvFails, Release, End, Over, Goto, Raise, InExchange, Receiving, locals
      <4>3. QED
        BY <4>1, <4>2
    <3>2. ASSUME NEW v \in Threads \ {u} PROVE cur[u] \notin frame'[v].from
      <4>1. CASE v # t \/ frame'[v] = frame[v]
        BY <2>1, <3>1, <4>1 DEF Others, LeftInv
      <4>2. CASE frame'[v] = NoFrame
        BY <4>2 DEF NoFrame
      <4>3. CASE v = t /\ frame'[t] # frame[t] /\ frame'[t] # NoFrame
        <5>1. ReadBy(t)
          BY <1>1, <4>3 DEF ReadCounter, WriteCounter, TakeSocket, AcquireLock, Send, RecvFails,
             Release, End, Over, locals
        <5>2. Locked(t) /\ Locked(u)
          BY <3>1, <5>1 DEF ReadBy, Locked, InExchange
        <5>3. QED
          BY <4>3, <5>2 DEF LockInv
      <4>4. QED
        BY <4>1, <4>2, <4>3
    <3>3. CASE answer' = answer
      BY <3>1, <3>2, <3>3 DEF LeftInv
    <3>4. CASE answer' # answer
      <4>1. /\ End(t) /\ pc[t] = "end"
            /\ answer' = [answer EXCEPT ![cur[t]] = {frame[t].of} \cup frame[t].from]
        BY <1>1, <3>4 DEF ReadCounter, WriteCounter, TakeSocket, AcquireLock, Send, ReadBy,
           RecvFails, Release, End
      <4>2. u # t /\ pc[u] # "idle"
        BY <3>1, <4>1 DEF InExchange, Receiving
      <4>3. cur[u] \notin frame[t].from
        BY <3>1, <4>2 DEF LeftInv
      <4>4. cur[u] # NoCall
        BY <4>2 DEF CallInv, NoCall
      <4>5. cur[u] # frame[t].of
        BY <4>3, <4>4 DEF FromInv
      <4>6. \A c \in Calls : answer'[c] = answer[c] \/ answer'[c] = {frame[t].of} \cup frame[t].from
        BY <4>1
      <4>7. \A c \in Calls : cur[u] \notin answer'[c]
        BY <3>1, <4>3, <4>5, <4>6 DEF LeftInv
      <4>8. QED
        BY <3>1, <3>2, <4>7
    <3>5. QED
      BY <3>3, <3>4
  <2>4. QED
    BY <2>2, <2>3
<1>2. CASE Close \/ Serve \/ WriteCell \/ UNCHANGED vars
  <2>1. UNCHANGED <<pc, cur, frame, answer>>
    BY <1>2 DEF Close, Serve, WriteCell, vars, locals
  <2>2. QED
    BY <2>1 DEF LeftInv, InExchange
<1>3. QED
  <2>1. ASSUME NEW t \in Threads,
             \/ ReadCounter(t) \/ WriteCounter(t) \/ TakeSocket(t) \/ AcquireLock(t) \/ Send(t)
             \/ ReadBy(t) \/ RecvFails(t) \/ Release(t) \/ End(t)
        PROVE LeftInv'
    BY <1>1, <2>1 DEF LeftInv
  <2>2. QED
    BY <1>2, <2>1, StepCases

LEMMA MistakenForGood ==
  ASSUME TypeInv, [Next]_vars PROVE mistaken => mistaken'
<1> USE DEF TypeInv, TypeOK
<1>1. ASSUME NEW t \in Threads, Reads(t) PROVE mistaken' = mistaken \/ mistaken' = TRUE
  BY <1>1, ReadStep
<1>2. CASE ~\E t \in Threads : Reads(t)
  BY <1>2 DEF Next, Step, Reads, ReadCounter, WriteCounter, TakeSocket, AcquireLock, Send, RecvFails,
              Release, End, Close, Serve, WriteCell, vars
<1>3. QED
  BY <1>1, <1>2

LEMMA NextDealtInv ==
  ASSUME TypeInv, LockInv, ServedInv, RaisedInv, ChainInv, FromInv, DealtInv, [Next]_vars
  PROVE  FromInv' /\ DealtInv'
<1> USE DEF ServedInv, DealtInv
<1>1. FromInv' /\ PairInv' /\ LeftInv'
  BY NextFromInv, NextPairInv, NextLeftInv
<1>2. HeldOnce'
  BY NextOnce
<1>3. ASSUME ~mistaken' PROVE WholeInv' /\ AnsweredOnce'
  <2>1. WholeInv /\ AnsweredOnce
    BY <1>3, MistakenForGood
  <2>2. QED
    BY <1>3, <2>1, NextOnce, NextWholeInv
<1>4. QED
  BY <1>1, <1>2, <1>3

(***************************************************************************)
(* A caller gets its own reply: until a call gives up, the stream holds    *)
(* nothing but what the server writes for the call whose thread waits.     *)
(***************************************************************************)
Waiting(t) == pc[t] \in Receiving

\* The server has written nothing that is not read.
Quiet == replies = <<>> /\ owed = NoCell

\* Only the reply of the call whose thread waits is on the stream.
StreamInv ==
  /\ (\A t \in Threads : ~Waiting(t)) => Quiet
  /\ sockOpen => \A t \in Threads : Waiting(t) =>
       /\ pc[t] # "junk"
       /\ \A i \in 1..Len(Coming) : Coming[i].of = cur[t] /\ Coming[i].id = methodId[t]
       /\ pc[t] = "head" /\ Coming # <<>> => Coming[1].pos = 0
       /\ pc[t] \in {"rest", "body"} => frame[t].of = cur[t]
       /\ pc[t] = "body" => frame[t].id = methodId[t]

\* At most one request on the wire wants a reply, that of the waiting thread,
\* and as long as it is there nothing has been written for it.
RequestInv ==
  sockOpen =>
    /\ \A i \in 1..Len(requests) : requests[i].wants =>
         /\ Quiet
         /\ \E t \in Threads : /\ pc[t] = "head"
                               /\ requests[i].of = cur[t]
                               /\ requests[i].id = methodId[t]
    /\ \A i, j \in 1..Len(requests) : requests[i].wants /\ requests[j].wants => i = j

\* What a thread is about to hand over is the reply to its call.
AnswerInv ==
  /\ OwnReply
  /\ \A t \in Threads :
       pc[t] \in {"release", "end"} /\ ~raised[t] /\ kind[cur[t]] = "reply" => frame[t].of = cur[t]

OwnReplyInv == ~mistaken /\ StreamInv /\ RequestInv /\ AnswerInv

SomeGaveUp == \E c \in Calls : GaveUp(c)

LEMMA InitOwnReplyInv == Init => OwnReplyInv
<1> SUFFICES ASSUME Init PROVE OwnReplyInv
  OBVIOUS
<1>1. StreamInv
  BY DEF Init, StreamInv, Waiting, Quiet, Receiving
<1>2. RequestInv
  BY DEF Init, RequestInv
<1>3. AnswerInv
  BY DEF Init, AnswerInv, OwnReply
<1>4. ~mistaken
  BY DEF Init
<1>5. QED
  BY <1>1, <1>2, <1>3, <1>4 DEF OwnReplyInv

\* Steps that leave the stream alone, of a thread that does not wait for it.
LEMMA OffStream ==
  ASSUME StreamInv, RequestInv, NEW t \in Threads, ~Waiting(t), ~Waiting(t)',
         UNCHANGED <<sockOpen, replies, owed, requests>>, Others(t),
         \A u \in Threads \ {t} : methodId'[u] = methodId[u]
  PROVE  StreamInv' /\ RequestInv'
<1>1. Coming' = Coming /\ (Quiet' <=> Quiet)
  BY StreamKept DEF Quiet
<1>2. \A u \in Threads : Waiting(u)' => u # t /\ Waiting(u)
  BY DEF Waiting, Others
<1>3. \A u \in Threads : Waiting(u) => u # t /\ Waiting(u)'
  BY DEF Waiting, Others
<1>4. StreamInv'
  BY <1>1, <1>2, <1>3 DEF StreamInv, Others
<1>5. RequestInv'
  <2>1. \A u \in Threads : pc[u] = "head" => u # t
    BY DEF Waiting, Receiving
  <2>2. QED
    BY <1>1, <2>1 DEF RequestInv, Others
<1>6. QED
  BY <1>4, <1>5

\* A waiting thread that takes the last cell of its reply leaves nothing behind.
LEMMA LastOfReply ==
  ASSUME TypeOK, TypeOK', ChainInv, HeldOnce, NEW t \in Threads, Holds(t),
         \A i \in 1..Len(Coming) : Coming[i].of = frame[t].of,
         replies # <<>>, replies' = Tail(replies), owed' = owed, IsLast(replies[1])
  PROVE  Coming' = <<>> /\ Quiet'
<1>1. /\ Coming # <<>> /\ Coming[1] = replies[1] /\ 1 \in 1..Len(Coming) /\ Len(Coming) \in Nat
  BY ComingTyped
<1>2. Dropped(Coming, Coming')
  BY ReadDrops
<1>3. Coming' \in Seq(Cell) /\ Len(Coming') \in Nat /\ (Coming' # <<>> => 1 \in 1..Len(Coming'))
  <2>1. ASSUME NEW s, s = Coming', s \in Seq(Cell) PROVE Len(s) \in Nat /\ (s # <<>> => 1 \in 1..Len(s))
    <3>1. Len(s) \in Nat /\ (s # <<>> => Len(s) # 0)
      BY <2>1, EmptySeq
    <3>2. QED
      BY <3>1
  <2>2. Coming' \in Seq(Cell)
    BY AppendProperties DEF TypeOK, WireTypeOK, Coming
  <2>3. QED
    BY <2>1, <2>2
<1>4. ASSUME Coming' # <<>> PROVE FALSE
  <2>1. 1 + 1 \in 1..Len(Coming)
    BY <1>2, <1>3, <1>4 DEF Dropped
  <2>2. Follows(Coming[1], Coming[1 + 1])
    BY <1>1, <2>1 DEF ChainInv
  <2>3. Coming[1 + 1].pos = 0
    BY <1>1, <2>2 DEF Follows
  <2>4. 1 + 1 \in Heads
    BY <2>1, <2>3 DEF Heads
  <2>5. QED
    BY <2>1, <2>4 DEF HeldOnce
<1>5. Quiet'
  <2>1. owed' # NoCell => Coming' # <<>>
    BY AppendProperties DEF TypeOK, WireTypeOK, Coming
  <2>2. owed' = NoCell => Coming' = replies'
    BY DEF Coming
  <2>3. QED
    BY <1>4, <2>1, <2>2 DEF Quiet
<1>6. QED
  BY <1>4, <1>5

LEMMA ReadKeepsOwn ==
  ASSUME TypeInv, TypeInv', LockInv, RaisedInv, ChainInv, PairInv, HeldOnce, OwnReplyInv,
         NEW t \in Threads, Reads(t)
  PROVE  OwnReplyInv'
<1> USE DEF OwnReplyInv, TypeInv
<1>1. ReadBy(t)
  BY ReadStep
<1>2. /\ Waiting(t) /\ Locked(t) /\ sockOpen /\ sockOpen' /\ replies # <<>> /\ replies' = Tail(replies)
      /\ UNCHANGED <<owed, requests, answer, cur, methodId, kind, made>> /\ Others(t)
  BY <1>1, OthersStay DEF ReadBy, Waiting, Locked, history
<1>3. /\ pc[t] # "junk"
      /\ \A i \in 1..Len(Coming) : Coming[i].of = cur[t] /\ Coming[i].id = methodId[t]
      /\ pc[t] = "head" /\ Coming # <<>> => Coming[1].pos = 0
      /\ pc[t] \in {"rest", "body"} => frame[t].of = cur[t]
      /\ pc[t] = "body" => frame[t].id = methodId[t]
  BY <1>2 DEF StreamInv
<1>4. Coming # <<>> /\ Coming[1] = replies[1] /\ 1 \in 1..Len(Coming) /\ Len(Coming) \in Nat
  BY <1>2, ComingTyped
<1>5. replies[1].of = cur[t] /\ replies[1].id = methodId[t] /\ replies[1] \in Cell
  BY <1>2, <1>3, <1>4, FirstTyped DEF TypeOK, WireTypeOK
<1>6. replies[1].size \in Nat /\ replies[1].pos \in Nat /\ cur[t] \in Calls /\ methodId[t] \in Nat
  <2>1. methodId[t] \in Ids
    BY DEF TypeOK, ThreadTypeOK
  <2>2. QED
    BY <1>5, <2>1, CellFields, ChannelAssumption DEF Ids
<1>7. cur[t] # NoCall
  BY <1>6 DEF Calls, NoCall
<1>8. Dropped(Coming, Coming')
  BY <1>2, ReadDrops
<1>9. \A i \in 1..Len(Coming') : Coming'[i].of = cur[t] /\ Coming'[i].id = methodId[t]
  BY <1>3, <1>8 DEF Dropped
<1>10. \A id, left : id = methodId[t] => AfterCell(t, id, left) = IF left > 0 THEN "body" ELSE "release"
  BY <1>6 DEF AfterCell, Stale
<1>11. ~RecvJunk(t)
  BY <1>3, JunkStep
<1>12. ASSUME frame[t].of = cur[t], pc[t] # "head", IsLast(replies[1]) PROVE Quiet'
  <2>1. Holds(t)
    BY <1>7, <1>12 DEF Holds
  <2>2. \A i \in 1..Len(Coming) : Coming[i].of = frame[t].of
    BY <1>3, <1>12
  <2>3. QED
    BY <1>2, <1>12, <2>1, <2>2, LastOfReply
<1>13. /\ ~mistaken' /\ frame'[t].of = cur[t]
       /\ \/ pc'[t] = "rest"
          \/ pc'[t] = "body" /\ frame'[t].id = methodId[t]
          \/ pc'[t] = "release" /\ Quiet'
  <2>1. CASE RecvHead(t)
    <3>1. pc[t] = "head" /\ mistaken' = mistaken
      BY <2>1, HeadStep
    <3>2. replies[1].pos = 0
      BY <1>3, <1>4, <3>1
    <3>3. pc'[t] = "rest" /\ frame'[t].of = replies[1].of
      BY <2>1, <3>2, HeadStep
    <3>4. QED
      BY <1>5, <3>1, <3>3
  <2>2. CASE RecvRest(t)
    <3>1. pc[t] = "rest" /\ frame[t].of = cur[t]
      BY <1>3, <2>2, RestStep
    <3>2. Coming[1].pos = 1
      BY <1>2, <1>7, <3>1 DEF PairInv, Holds
    <3>3. replies[1].of = frame[t].of /\ replies[1].pos = 1
      BY <1>4, <1>5, <3>1, <3>2
    <3>4. /\ frame'[t].of = frame[t].of /\ frame'[t].id = methodId[t]
          /\ frame'[t].left = replies[1].size /\ mistaken' = mistaken
          /\ pc'[t] = AfterCell(t, frame'[t].id, frame'[t].left)
      BY <1>5, <2>2, <3>3, RestStep
    <3>5. pc'[t] = IF replies[1].size > 0 THEN "body" ELSE "release"
      BY <1>10, <3>4
    <3>6. replies[1].size > 0 \/ IsLast(replies[1])
      BY <1>6, <3>3 DEF IsLast
    <3>7. QED
      BY <1>12, <3>1, <3>4, <3>5, <3>6
  <2>3. CASE RecvBody(t)
    <3>1. pc[t] = "body" /\ frame[t].of = cur[t] /\ frame[t].id = methodId[t]
      BY <1>3, <2>3, BodyStep
    <3>2. Coming[1].pos + frame[t].left = Coming[1].size + 2
      BY <1>2, <1>7, <3>1 DEF PairInv, Holds
    <3>3. replies[1].pos + frame[t].left = replies[1].size + 2
      BY <1>4, <3>2
    <3>4. /\ frame'[t].of = frame[t].of /\ frame'[t].id = methodId[t]
          /\ frame'[t].left = frame[t].left - 1 /\ mistaken' = mistaken
          /\ pc'[t] = AfterCell(t, frame'[t].id, frame'[t].left) /\ frame[t].left > 0
      BY <2>3, <3>1, BodyStep
    <3>5. frame[t].left \in Nat
      <4>1. frame[t].left \in 0..MaxSize
        BY DEF TypeOK, ThreadTypeOK, Frame
      <4>2. QED
        BY <4>1, ChannelAssumption
    <3>6. pc'[t] = IF frame[t].left - 1 > 0 THEN "body" ELSE "release"
      BY <1>10, <3>4
    <3>7. frame[t].left - 1 > 0 \/ IsLast(replies[1])
      BY <1>6, <3>3, <3>4, <3>5 DEF IsLast
    <3>8. QED
      BY <1>12, <3>1, <3>4, <3>6, <3>7
  <2>4. QED
    BY <1>11, <2>1, <2>2, <2>3 DEF Reads
<1>14. \A u \in Threads \ {t} : ~Waiting(u) /\ ~Waiting(u)'
  BY <1>2, OneWaits DEF Waiting, Others
<1>15. StreamInv'
  <2>1. (\A u \in Threads : ~Waiting(u)') => Quiet'
    BY <1>13 DEF Waiting, Receiving
  <2>2. ASSUME NEW u \in Threads, Waiting(u)' PROVE u = t /\ pc'[t] \in {"rest", "body"}
    BY <1>13, <1>14, <2>2 DEF Waiting, Receiving
  <2>3. QED
    BY <1>2, <1>9, <1>13, <2>1, <2>2 DEF StreamInv
<1>16. RequestInv'
  <2>1. \A i \in 1..Len(requests) : ~requests[i].wants
    BY <1>2 DEF RequestInv, Quiet
  <2>2. QED
    BY <1>2, <2>1 DEF RequestInv
<1>17. AnswerInv'
  <2>1. OwnReply'
    BY <1>2 DEF AnswerInv, OwnReply
  <2>2. QED
    BY <1>2, <1>13, <2>1 DEF AnswerInv, Others
<1>18. QED
  BY <1>13, <1>15, <1>16, <1>17

LEMMA SendKeepsOwn ==
  ASSUME TypeInv, LockInv, RaisedInv, ChainInv, OwnReplyInv, NEW t \in Threads, Send(t)
  PROVE  OwnReplyInv'
<1> USE DEF OwnReplyInv, TypeInv, TypeOK, ThreadTypeOK
<1>1. /\ Locked(t) /\ pc[t] = "send" /\ Others(t) /\ \A u \in Threads : ~Waiting(u)
  BY OneWaits, OthersStay DEF Send, Locked, Waiting, Receiving
<1>2. UNCHANGED <<sockOpen, replies, owed, kind, answer, cur, methodId, frame, mistaken>>
  BY DEF Send, history
<1>3. Quiet /\ Coming = <<>> /\ Coming' = <<>> /\ Quiet'
  <2>1. Quiet
    BY <1>1 DEF StreamInv
  <2>2. QED
    BY <1>2, <2>1 DEF Quiet, Coming
<1>4. sockOpen => \A i \in 1..Len(requests) : ~requests[i].wants
  BY <1>1 DEF RequestInv, Waiting, Receiving
<1>5. ASSUME sockOpen, requests' = Append(requests, RequestOf(t)),
             Goto(t, IF kind[cur[t]] = "reply" THEN "head" ELSE "release"), raised' = raised
      PROVE  OwnReplyInv'
  <2>1. pc'[t] = IF kind[cur[t]] = "reply" THEN "head" ELSE "release"
    BY <1>5 DEF Goto
  <2>2. StreamInv'
    BY <1>1, <1>2, <1>3, <2>1 DEF StreamInv, Waiting, Receiving, Others
  <2>3. /\ RequestOf(t).of = cur[t] /\ RequestOf(t).id = methodId[t]
        /\ RequestOf(t).wants <=> kind[cur[t]] = "reply"
    BY DEF RequestOf
  <2>4. /\ Len(requests) \in Nat /\ Len(requests') = Len(requests) + 1
        /\ \A i \in 1..Len(requests) : requests'[i] = requests[i]
        /\ requests'[Len(requests) + 1] = RequestOf(t)
    BY <1>5 DEF WireTypeOK
  <2>5. \A i \in 1..Len(requests') : requests'[i].wants => i = Len(requests) + 1
    BY <1>4, <1>5, <2>4
  <2>6. ASSUME NEW i \in 1..Len(requests'), requests'[i].wants
        PROVE  /\ pc'[t] = "head"
               /\ requests'[i].of = cur'[t] /\ requests'[i].id = methodId'[t]
    BY <1>2, <2>1, <2>3, <2>4, <2>5, <2>6
  <2>7. \A i, j \in 1..Len(requests') : requests'[i].wants /\ requests'[j].wants => i = j
    BY <2>5
  <2>8. RequestInv'
    BY <1>3, <2>6, <2>7 DEF RequestInv
  <2>9. AnswerInv'
    BY <1>1, <1>2, <1>5, <2>1 DEF AnswerInv, OwnReply, Others
  <2>10. QED
    BY <1>2, <2>2, <2>8, <2>9
<1>6. ASSUME Raise(t), requests' = requests PROVE OwnReplyInv'
  <2>1. pc'[t] = "release" /\ raised'[t]
    BY <1>6 DEF Raise, Goto
  <2>2. StreamInv'
    BY <1>1, <1>2, <1>3, <2>1 DEF StreamInv, Waiting, Receiving, Others
  <2>3. RequestInv'
    BY <1>2, <1>4, <1>6 DEF RequestInv
  <2>4. AnswerInv'
    BY <1>1, <1>2, <2>1 DEF AnswerInv, OwnReply, Others
  <2>5. QED
    BY <1>2, <2>2, <2>3, <2>4
<1>7. QED
  BY <1>5, <1>6 DEF Send

LEMMA ServeKeepsOwn ==
  ASSUME TypeInv, LockInv, OwnReplyInv, Serve PROVE OwnReplyInv'
<1> USE DEF OwnReplyInv, TypeInv, TypeOK
<1>1. /\ requests # <<>> /\ requests' = Tail(requests)
      /\ UNCHANGED <<sockOpen, pc, cur, methodId, frame, kind, raised, answer, mistaken>>
  BY DEF Serve, locals, history
<1>2. AnswerInv'
  BY <1>1 DEF AnswerInv, OwnReply
<1>3. /\ 1 \in 1..Len(requests)
      /\ \A i \in 1..Len(requests') : /\ i + 1 \in 1..Len(requests) /\ requests'[i] = requests[i + 1]
                                      /\ i \in Nat \ {0} /\ i + 1 # 1
  <2>1. /\ Len(requests) \in Nat \ {0} /\ Len(requests') = Len(requests) - 1
        /\ \A i \in 1..Len(requests') : requests'[i] = requests[i + 1]
    BY <1>1, EmptySeq DEF WireTypeOK
  <2>2. PICK n \in Nat \ {0} : n = Len(requests)
    BY <2>1
  <2>3. \A i \in 1..(n - 1) : i + 1 \in 1..n /\ i \in Nat \ {0} /\ i + 1 # 1
    OBVIOUS
  <2>4. QED
    BY <2>1, <2>2, <2>3
<1>4. CASE UNCHANGED <<replies, owed>> /\ Coming' = Coming
  <2>1. StreamInv'
    BY <1>1, <1>4 DEF StreamInv, Waiting, Quiet
  <2>2. RequestInv'
    <3> SUFFICES ASSUME sockOpen
                 PROVE  /\ \A i \in 1..Len(requests') : requests'[i].wants =>
                             /\ Quiet
                             /\ \E t \in Threads : /\ pc[t] = "head" /\ requests'[i].of = cur[t]
                                                   /\ requests'[i].id = methodId[t]
                        /\ \A i, j \in 1..Len(requests') :
                             requests'[i].wants /\ requests'[j].wants => i = j
      BY <1>1, <1>4 DEF RequestInv, Quiet
    <3>1. \A i \in 1..Len(requests') : requests'[i].wants =>
            /\ Quiet
            /\ \E t \in Threads : /\ pc[t] = "head" /\ requests'[i].of = cur[t]
                                  /\ requests'[i].id = methodId[t]
      BY <1>3 DEF RequestInv
    <3>2. ASSUME NEW i \in 1..Len(requests'), NEW j \in 1..Len(requests'),
                 requests'[i].wants, requests'[j].wants
          PROVE  i = j
      <4>1. i + 1 = j + 1
        BY <1>3, <3>2 DEF RequestInv
      <4>2. QED
        BY <1>3, <4>1
    <3>3. QED
      BY <3>1, <3>2
  <2>3. QED
    BY <1>1, <1>2, <2>1, <2>2
<1>5. ASSUME NEW cell, cell.of = requests[1].of, cell.id = requests[1].id, cell.pos = 0,
             Added(Coming, Coming', cell), requests[1].wants, sockOpen
      PROVE  OwnReplyInv'
  <2>1. PICK t \in Threads : pc[t] = "head" /\ requests[1].of = cur[t] /\ requests[1].id = methodId[t]
    BY <1>3, <1>5 DEF RequestInv
  <2>2. Coming = <<>>
    BY <1>3, <1>5 DEF RequestInv, Quiet, Coming
  <2>3. Len(Coming') = 1 /\ Coming'[1] = cell
    BY <1>5, <2>2 DEF Added
  <2>4. \A u \in Threads : Waiting(u) => u = t
    BY <2>1, OneWaits DEF Waiting, Locked, Receiving
  <2>5. Waiting(t)'
    BY <1>1, <2>1 DEF Waiting, Receiving
  <2>6. StreamInv'
    <3>1. \A u \in Threads : Waiting(u)' => u = t /\ pc'[u] = "head"
      BY <1>1, <2>1, <2>4 DEF Waiting
    <3>2. \A i \in 1..Len(Coming') : Coming'[i].of = cur'[t] /\ Coming'[i].id = methodId'[t]
      BY <1>1, <1>5, <2>1, <2>3
    <3>3. QED
      BY <1>5, <2>3, <2>5, <3>1, <3>2 DEF StreamInv
  <2>7. \A i \in 1..Len(requests') : ~requests'[i].wants
    BY <1>3, <1>5 DEF RequestInv
  <2>8. QED
    BY <1>1, <1>2, <2>6, <2>7 DEF RequestInv
<1>6. QED
  <2>1. \A err, size : LET cell == FirstCell(requests[1].of, requests[1].id, err, size)
                       IN cell.of = requests[1].of /\ cell.id = requests[1].id /\ cell.pos = 0
    BY DEF FirstCell
  <2>2. QED
    BY <1>4, <1>5, <2>1, ServeAdds

LEMMA WriteKeepsOwn ==
  ASSUME TypeInv, OwnReplyInv, WriteCell PROVE OwnReplyInv'
<1> USE DEF OwnReplyInv, TypeInv
<1>1. /\ owed # NoCell
      /\ UNCHANGED <<sockOpen, requests, pc, cur, methodId, frame, kind, raised, answer, mistaken>>
  BY DEF WriteCell, locals, history
<1>2. AnswerInv'
  BY <1>1 DEF AnswerInv, OwnReply
<1>3. sockOpen => \A i \in 1..Len(requests) : ~requests[i].wants
  BY <1>1 DEF RequestInv, Quiet
<1>4. RequestInv'
  BY <1>1, <1>3 DEF RequestInv
<1>5. \E t \in Threads : Waiting(t)
  BY <1>1 DEF StreamInv, Quiet
<1>6. Coming # <<>> /\ Len(Coming) \in Nat /\ 1 \in 1..Len(Coming)
  BY ComingTyped, WriteAdds
<1>7. Coming' # <<>> => Coming'[1] = Coming[1]
  BY <1>6, WriteAdds DEF Added
<1> DEFINE last == Coming[Len(Coming)]
<1>8. ASSUME NEW i \in 1..Len(Coming')
      PROVE  \E j \in 1..Len(Coming) : Coming'[i].of = Coming[j].of /\ Coming'[i].id = Coming[j].id
  <2>1. CASE Coming' = Coming
    BY <2>1
  <2>2. CASE Added(Coming, Coming', NextCell(last))
    <3>1. NextCell(last).of = last.of /\ NextCell(last).id = last.id
      BY DEF NextCell
    <3>2. i \in 1..Len(Coming) \/ i = Len(Coming) + 1
      BY <1>6, <2>2 DEF Added
    <3>3. Len(Coming) \in 1..Len(Coming)
      BY <1>6
    <3>4. QED
      BY <2>2, <3>1, <3>2, <3>3 DEF Added
  <2>3. QED
    BY <2>1, <2>2, WriteAdds
<1>9. StreamInv'
  <2>1. \A t \in Threads : Waiting(t)' <=> Waiting(t)
    BY <1>1 DEF Waiting
  <2>2. QED
    BY <1>1, <1>5, <1>6, <1>7, <1>8, <2>1 DEF StreamInv
<1>10. QED
  BY <1>1, <1>2, <1>4, <1>9

LEMMA EndKeepsOwn ==
  ASSUME TypeInv, FromInv, OwnReplyInv, NEW t \in Threads, End(t) PROVE OwnReplyInv'
<1> USE DEF OwnReplyInv, TypeInv, TypeOK, ThreadTypeOK, CallTypeOK
<1>1. /\ pc[t] = "end" /\ pc'[t] = "idle" /\ Others(t) /\ cur[t] \in Calls
      /\ UNCHANGED <<sockOpen, replies, owed, requests, kind, mistaken>>
      /\ \A u \in Threads \ {t} : methodId'[u] = methodId[u]
  <2>1. /\ pc[t] = "end" /\ pc'[t] = "idle"
        /\ UNCHANGED <<sockOpen, replies, owed, requests, kind, mistaken>>
    BY DEF End, Over, Goto, wire, history
  <2>2. cur[t] \in Calls
    BY <2>1, ChannelAssumption DEF CallInv, Calls
  <2>3. \A u \in Threads \ {t} : methodId'[u] = methodId[u]
    BY DEF End, Over
  <2>4. QED
    BY <2>1, <2>2, <2>3, OthersStay
<1>2. StreamInv' /\ RequestInv'
  BY <1>1, OffStream DEF Waiting, Receiving
<1>3. \/ answer' = answer
      \/ /\ answer' = [answer EXCEPT ![cur[t]] = {frame[t].of} \cup frame[t].from]
         /\ ~raised[t] /\ kind[cur[t]] # "void"
  BY DEF End
<1>4. CASE answer' # answer
  <2>1. kind[cur[t]] = "reply"
    BY <1>1, <1>3, <1>4 DEF KindInv, AllKinds
  <2>2. frame[t].of = cur[t]
    BY <1>1, <1>3, <1>4, <2>1 DEF AnswerInv
  <2>3. frame[t].from = {cur[t]}
    <3>1. cur[t] # NoCall
      BY <1>1 DEF Calls, NoCall
    <3>2. QED
      BY <2>2, <3>1 DEF FromInv
  <2>4. answer' = [answer EXCEPT ![cur[t]] = {cur[t]}]
    BY <1>3, <1>4, <2>2, <2>3
  <2>5. OwnReply'
    BY <2>4 DEF AnswerInv, OwnReply
  <2>6. QED
    BY <1>1, <1>2, <2>5 DEF AnswerInv, Others
<1>5. CASE answer' = answer
  BY <1>1, <1>2, <1>5 DEF AnswerInv, OwnReply, Others
<1>6. QED
  BY <1>4, <1>5

\* Only a wait that times out disturbs the stream, and its call gives up.
LEMMA NextOwnReplyInv ==
  ASSUME ~SockMayTimeOut \/ ~SomeGaveUp', TypeInv, TypeInv', LockInv, RaisedInv, ChainInv, FromInv,
         DealtInv, OwnReplyInv, [Next]_vars
  PROVE  OwnReplyInv'
<1> USE DEF OwnReplyInv, TypeInv, TypeOK, ThreadTypeOK
<1>1. ASSUME NEW t \in Threads,
             \/ ReadCounter(t) \/ WriteCounter(t) \/ TakeSocket(t) \/ AcquireLock(t) \/ Release(t)
      PROVE OwnReplyInv'
  <2>1. /\ ~Waiting(t) /\ ~Waiting(t)' /\ Others(t)
        /\ UNCHANGED <<sockOpen, replies, owed, requests, answer, mistaken>>
        /\ \A u \in Threads \ {t} : methodId'[u] = methodId[u]
        /\ \A c \in 1..made : kind'[c] = kind[c]
    BY <1>1, OthersStay DEF ReadCounter, WriteCounter, TakeSocket, AcquireLock, Release, Goto, Over,
                            locals, wire, Waiting, Receiving
  <2>2. StreamInv' /\ RequestInv'
    BY <2>1, OffStream
  <2>3. pc'[t] \in {"release", "end"} => /\ pc[t] = "release"
                                         /\ UNCHANGED <<frame, raised, cur, kind>>
    BY <1>1 DEF ReadCounter, WriteCounter, TakeSocket, AcquireLock, Release, Goto, Over, locals,
                history
  <2>4. AnswerInv'
    BY <2>1, <2>3 DEF AnswerInv, OwnReply, CallInv, Others
  <2>5. QED
    BY <2>1, <2>2, <2>4
<1>2. ASSUME NEW t \in Threads, RecvFails(t) PROVE OwnReplyInv'
  <2>1. /\ pc[t] \in Receiving /\ pc'[t] = "release" /\ raised'[t] /\ Others(t) /\ cur' = cur
        /\ ~sockOpen \/ SockMayTimeOut
        /\ UNCHANGED <<sockOpen, replies, owed, requests, kind, answer, mistaken>>
    BY <1>2, OthersStay DEF RecvFails, Raise, Goto, wire, history
  <2>2. ~sockOpen
    <3>1. cur[t] \in Calls
      <4>1. pc[t] # "idle"
        BY <2>1 DEF Receiving
      <4>2. cur[t] \in 1..made /\ made \in 0..MaxCalls
        BY <4>1 DEF CallInv, CallTypeOK
      <4>3. QED
        BY <4>2, ChannelAssumption DEF Calls
    <3>2. cur'[t] = cur[t] /\ raised'[t]
      BY <2>1
    <3>3. SomeGaveUp'
      BY <3>1, <3>2 DEF SomeGaveUp, GaveUp
    <3>4. QED
      BY <2>1, <3>3
  <2>3. Quiet'
    BY <2>1, <2>2 DEF ChainInv, Quiet
  <2>4. StreamInv' /\ RequestInv'
    BY <2>1, <2>2, <2>3 DEF StreamInv, RequestInv
  <2>5. AnswerInv'
    BY <2>1 DEF AnswerInv, OwnReply, Others
  <2>6. QED
    BY <2>1, <2>4, <2>5
<1>3. CASE Close
  <2>1. /\ Quiet' /\ ~sockOpen'
        /\ UNCHANGED <<answer, pc, raised, kind, cur, frame, mistaken>>
    BY <1>3 DEF Close, Quiet, locals, history
  <2>2. QED
    BY <2>1 DEF StreamInv, RequestInv, AnswerInv, OwnReply
<1>4. CASE UNCHANGED vars
  <2>1. /\ UNCHANGED <<sockOpen, replies, owed, requests, answer, pc, raised, kind, cur, frame,
                       methodId, mistaken>>
    BY <1>4 DEF vars, wire, locals, history
  <2>2. Coming' = Coming /\ (Quiet' <=> Quiet) /\ \A t \in Threads : Waiting(t)' <=> Waiting(t)
    BY <2>1, StreamKept DEF Quiet, Waiting
  <2>3. QED
    BY <2>1, <2>2 DEF StreamInv, RequestInv, AnswerInv, OwnReply
<1>5. QED
  BY <1>1, <1>2, <1>3, <1>4, ReadKeepsOwn, SendKeepsOwn, ServeKeepsOwn, WriteKeepsOwn, EndKeepsOwn
     DEF Next, Step, Reads, DealtInv
\* The channel as long as neither the lock nor the socket times out.
CalmInv ==
  /\ TypeInv /\ LockInv /\ OutcomeInv /\ ServedInv /\ RaisedInv /\ ChainInv /\ FromInv
  /\ DealtInv /\ OwnReplyInv

LEMMA InitCalmInv == Init => CalmInv
BY InitTypeInv, InitLockInv, InitOutcomeInv, InitServedInv, InitDealtInv, InitOwnReplyInv
   DEF CalmInv

LEMMA NextCalmInv ==
  ASSUME ~LockMayTimeOut, ~SockMayTimeOut, CalmInv, [Next]_vars PROVE CalmInv'
<1> USE DEF CalmInv
<1>1. TypeInv' /\ LockInv' /\ OutcomeInv' /\ ServedInv' /\ RaisedInv'
  BY NextTypeInv, NextLockInv, NextOutcomeInv, NextRequestedInv, NextRepliedInv, NextRaisedInv
     DEF ServedInv
<1>2. ChainInv' /\ FromInv' /\ DealtInv'
  BY <1>1, NextChainInv, NextDealtInv
<1>3. OwnReplyInv'
  BY <1>1, NextOwnReplyInv
<1>4. QED
  BY <1>1, <1>2, <1>3

\* As long as neither the lock nor the socket times out, the header and the
\* payload a caller is given are those of the reply to its own call, whatever
\* identifiers the unprotected counter gave the threads.
THEOREM RepliesAreOwn == ASSUME ~LockMayTimeOut, ~SockMayTimeOut PROVE Spec => []OwnReply
<1>1. CalmInv => OwnReply
  BY DEF CalmInv, OwnReplyInv, AnswerInv
<1>2. QED
  BY <1>1, InitCalmInv, NextCalmInv, PTL DEF Spec

(***************************************************************************)
(* RpcChannel implements RpcCallService.                                   *)
(***************************************************************************)
SeenAs(o) ==
  CASE o = "none" -> "none"
    [] o = "running" -> "pending"
    [] o = "raised" -> "failed"
    [] o \in {"void", "local"} -> "unanswered"
    [] o \in {"error", "returned"} -> "answered"

LEMMA StateSeen == ServiceState = [c \in Calls |-> SeenAs(outcome[c])]
BY DEF ServiceState, SeenAs

\* A step that moves one call moves one state.
LEMMA OneStateMoves ==
  ASSUME outcome \in [Calls -> Outcomes], NEW c \in Calls, NEW o \in Outcomes,
         outcome' = [outcome EXCEPT ![c] = o]
  PROVE  ServiceState' = [ServiceState EXCEPT ![c] = SeenAs(o)]
BY DEF ServiceState, SeenAs, Outcomes

LEMMA InitService == Init => Service!ServiceInit
BY DEF Init, Service!ServiceInit, ServiceState, Service!Calls, Calls

\* A call that begins is made, one that ends is answered or ends without an
\* answer, and the server's Serve carries a call out; the rest is not seen.
LEMMA StepService ==
  ASSUME TypeInv, OwnReplyInv, FromInv, OutcomeInv, ServedInv, [Next]_vars
  PROVE  [Service!ServiceNext]_(Service!svcVars)
<1> USE DEF OwnReplyInv, TypeInv, TypeOK, ThreadTypeOK, CallTypeOK
<1>1. Service!Calls = Calls
  BY DEF Service!Calls, Calls
<1>2. ASSUME NEW t \in Threads, BeginStep(t) PROVE Service!ServiceNext
  <2> DEFINE c == made + 1
  <2>1. c \in Calls /\ outcome[c] = "none"
    BY <1>2, ChannelAssumption DEF BeginStep, ReadCounter, Calls, OutcomeInv
  <2>2. outcome' = [outcome EXCEPT ![c] = "running"] /\ UNCHANGED <<carried, answer>>
    BY <1>2 DEF BeginStep, ReadCounter
  <2>3. ServiceState' = [ServiceState EXCEPT ![c] = "pending"]
    BY <2>1, <2>2, OneStateMoves DEF SeenAs, Outcomes
  <2>4. ServiceState[c] = "none"
    BY <2>1, StateSeen DEF SeenAs
  <2> HIDE DEF c
  <2>5. Service!Make(c)
    BY <2>2, <2>3, <2>4 DEF Service!Make
  <2>6. QED
    BY <1>1, <2>1, <2>5 DEF Service!ServiceNext
<1>3. ASSUME NEW t \in Threads, NEW how \in Ends, EndStep(t, how) PROVE Service!ServiceNext
  <2> DEFINE c == cur[t]
  <2>1. c \in Calls /\ outcome[c] = "running" /\ kind[c] \in AllKinds
    BY <1>3, ChannelAssumption DEF EndStep, CallInv, OutcomeInv, Calls
  <2>2. outcome' = [outcome EXCEPT ![c] = how] /\ UNCHANGED carried
    BY <1>3 DEF EndStep, TakeSocket, End, Over
  <2>3. ServiceState[c] = "pending"
    BY <2>1, StateSeen DEF SeenAs
  <2>4. ServiceState' = [ServiceState EXCEPT ![c] = SeenAs(how)]
    <3>1. how \in Outcomes
      BY DEF Ends, Outcomes
    <3> HIDE DEF c
    <3>2. QED
      BY <2>1, <2>2, <3>1, OneStateMoves
  <2>5. CASE how \in {"raised", "void", "local"}
    <3>1. outcome'[c] = how
      BY <2>1, <2>2
    <3>2. UNCHANGED answer
      <4>1. CASE TakeSocket(t)
        BY <4>1 DEF TakeSocket
      <4>2. CASE End(t) /\ answer' # answer
        <5>1. \E o \in {"error", "returned"} : outcome' = [outcome EXCEPT ![c] = o]
          BY <4>2 DEF End, Over
        <5>2. QED
          BY <2>1, <2>5, <3>1, <5>1
      <4>3. QED
        BY <1>3, <4>1, <4>2 DEF EndStep
    <3>3. SeenAs(how) \in {"failed", "unanswered"}
      BY <2>5 DEF SeenAs
    <3>4. Service!EndWithout(c, SeenAs(how))
      BY <2>2, <2>3, <2>4, <3>2, <3>3 DEF Service!EndWithout
    <3>5. QED
      BY <1>1, <2>1, <3>3, <3>4 DEF Service!ServiceNext
  <2>6. CASE how \in {"error", "returned"}
    <3>1. outcome'[c] = how
      BY <2>1, <2>2
    <3>2. End(t) /\ pc[t] = "end"
      <4>1. ~TakeSocket(t)
        BY <2>1, <2>6, <3>1, <1>3 DEF TakeSocket, EndStep, Over, Goto
      <4>2. QED
        BY <1>3, <4>1 DEF EndStep, End
    <3>3. ~raised[t] /\ kind[c] = "reply"
      BY <2>1, <2>6, <3>1, <3>2 DEF End, Over, KindInv, AllKinds
    <3>4. answer' = [answer EXCEPT ![c] = {frame[t].of} \cup frame[t].from]
      <4>1. PICK o \in {"raised", "error", "returned"} :
              /\ outcome' = [outcome EXCEPT ![c] = o]
              /\ answer' = IF o \in {"error", "returned"}
                             THEN [answer EXCEPT ![c] = {frame[t].of} \cup frame[t].from] ELSE answer
        BY <3>2, <3>3 DEF End, Over
      <4>2. o = how
        BY <2>1, <3>1, <4>1
      <4>3. QED
        BY <2>6, <4>1, <4>2
    <3>5. frame[t].of = c /\ frame[t].from = {c}
      <4>1. frame[t].of = c
        BY <3>2, <3>3 DEF AnswerInv
      <4>2. c # NoCall
        BY <2>1 DEF Calls, NoCall
      <4>3. QED
        BY <4>1, <4>2 DEF FromInv
    <3>6. c \in carried
      <4>1. frame[t].from \subseteq carried
        BY DEF ServedInv, RepliedInv
      <4>2. QED
        BY <3>5, <4>1
    <3>7. answer' = [answer EXCEPT ![c] = {c}]
      BY <3>4, <3>5
    <3>8. SeenAs(how) = "answered"
      BY <2>6 DEF SeenAs
    <3> HIDE DEF c
    <3>9. Service!Answer(c)
      BY <2>2, <2>3, <2>4, <3>6, <3>7, <3>8 DEF Service!Answer
    <3>10. QED
      BY <1>1, <2>1, <3>9 DEF Service!ServiceNext
  <2>7. QED
    BY <2>5, <2>6 DEF Ends
<1>4. CASE Serve
  <2> DEFINE c == requests[1].of
  <2>1. requests # <<>> /\ carried' = carried \cup {c} /\ UNCHANGED <<outcome, answer>>
    BY <1>4 DEF Serve
  <2>2. c \in (1..made) \ carried
    BY <2>1 DEF ServedInv, RequestedInv, WireTypeOK
  <2>3. c \in Calls /\ outcome[c] # "none" /\ outcome[c] \in Outcomes
    BY <2>2, ChannelAssumption DEF OutcomeInv, Calls
  <2>4. ServiceState[c] # "none"
    BY <2>3, StateSeen DEF SeenAs, Outcomes
  <2>5. ServiceState' = ServiceState
    BY <2>1 DEF ServiceState
  <2> HIDE DEF c
  <2>6. Service!CarryOut(c)
    BY <2>1, <2>2, <2>4, <2>5 DEF Service!CarryOut
  <2>7. QED
    BY <1>1, <2>3, <2>6 DEF Service!ServiceNext
<1>5. ASSUME WithinCalls, carried' = carried PROVE UNCHANGED Service!svcVars
  BY <1>5 DEF WithinCalls, Service!svcVars, ServiceState
<1>6. ASSUME ~Serve, ~(\E t \in Threads : BeginStep(t)),
             ~(\E t \in Threads, how \in Ends : EndStep(t, how))
      PROVE  carried' = carried
  <2>1. ASSUME NEW t \in Threads,
               \/ WriteCounter(t) \/ TakeSocket(t) \/ AcquireLock(t) \/ Send(t) \/ ReadBy(t)
               \/ RecvFails(t) \/ Release(t) \/ End(t)
        PROVE  carried' = carried
    BY <2>1 DEF WriteCounter, TakeSocket, AcquireLock, Send, ReadBy, RecvFails, Release, End
  <2>2. CASE Close \/ WriteCell \/ UNCHANGED vars
    BY <2>2 DEF Close, WriteCell, vars
  <2>3. QED
    BY <1>6, <2>1, <2>2, StepCases DEF BeginStep
<1>7. QED
  BY <1>2, <1>3, <1>4, <1>5, <1>6, StepOfCalls

\* As long as neither the lock nor the socket times out, the channel keeps the
\* promise of RpcCallService: the server carries a call out at most once, and a
\* caller is answered only after that, with the answer to its own call, or is
\* told that there is none.
THEOREM ChannelImplementsService ==
  ASSUME ~LockMayTimeOut, ~SockMayTimeOut PROVE Spec => ImplementsService
<1>1. CalmInv /\ [Next]_vars => [Service!ServiceNext]_(Service!svcVars)
  BY StepService DEF CalmInv
<1>2. QED
  BY <1>1, InitCalmInv, NextCalmInv, InitService, PTL
     DEF Spec, ImplementsService, Service!ServiceSpec

\* Who gave up has given up for good, and no call gets the lock back that it
\* went on without.
LEMMA GaveUpForGood ==
  ASSUME TypeInv, OutcomeInv, RaisedInv, [Next]_vars
  PROVE  (SomeGaveUp => SomeGaveUp') /\ (overran => overran')
<1> USE DEF TypeInv, TypeOK, ThreadTypeOK, CallTypeOK, ClientTypeOK
<1>1. overran => overran'
  BY StepCases
     DEF ReadCounter, WriteCounter, TakeSocket, AcquireLock, Send, ReadBy, RecvFails, Release, End,
         Close, Serve, WriteCell, vars
<1>2. ASSUME NEW c \in Calls, GaveUp(c) PROVE GaveUp(c)'
  <2>1. CASE outcome[c] = "raised"
    <3>1. outcome'[c] = outcome[c]
      <4>1. ASSUME NEW t \in Threads, BeginStep(t) PROVE outcome'[c] = outcome[c]
        BY <2>1, <4>1, ChannelAssumption DEF BeginStep, ReadCounter, OutcomeInv, Calls
      <4>2. ASSUME NEW t \in Threads, NEW how \in Ends, EndStep(t, how)
            PROVE  outcome'[c] = outcome[c]
        BY <2>1, <4>2 DEF EndStep, Over, OutcomeInv
      <4>3. QED
        BY <4>1, <4>2, StepOfCalls DEF WithinCalls
    <3>2. QED
      BY <2>1, <3>1 DEF GaveUp
  <2>2. ASSUME NEW t \in Threads, cur[t] = c, raised[t] PROVE GaveUp(c)'
    <3>1. pc[t] \in {"release", "end"}
      BY <2>2 DEF RaisedInv
    <3>2. CASE End(t)
      <4>1. Over(t, "raised")
        BY <2>2, <3>2 DEF End
      <4>2. outcome'[c] = "raised"
        BY <2>2, <4>1 DEF Over
      <4>3. QED
        BY <4>2 DEF GaveUp
    <3>3. CASE ~End(t)
      <4>1. ASSUME NEW u \in Threads,
                   \/ ReadCounter(u) \/ WriteCounter(u) \/ TakeSocket(u) \/ AcquireLock(u)
                   \/ Send(u) \/ ReadBy(u) \/ RecvFails(u) \/ Release(u) \/ End(u)
            PROVE  cur'[t] = cur[t] /\ raised'[t] = raised[t]
        <5>1. CASE u = t
          BY <3>1, <3>3, <4>1, <5>1
             DEF ReadCounter, WriteCounter, TakeSocket, AcquireLock, Send, ReadBy, RecvFails,
                 Release, Receiving, locals
        <5>2. CASE u # t
          BY <4>1, <5>2, OthersStay DEF Others
        <5>3. QED
          BY <5>1, <5>2
      <4>2. ASSUME Close \/ Serve \/ WriteCell \/ UNCHANGED vars
            PROVE  cur'[t] = cur[t] /\ raised'[t] = raised[t]
        BY <4>2 DEF Close, Serve, WriteCell, vars, locals
      <4>3. cur'[t] = cur[t] /\ raised'[t] = raised[t]
        BY <4>1, <4>2, StepCases
      <4>4. QED
        BY <2>2, <4>3 DEF GaveUp
    <3>4. QED
      BY <3>2, <3>3
  <2>3. QED
    BY <1>2, <2>1, <2>2 DEF GaveUp
<1>3. QED
  BY <1>1, <1>2 DEF SomeGaveUp

(***************************************************************************)
(* The channel as a whole, whatever may time out: replies are dealt once   *)
(* until a call goes on without the lock, and are everybody's own until    *)
(* some call gives up.                                                     *)
(***************************************************************************)
StrayInv ==
  /\ TypeInv /\ OutcomeInv /\ ServedInv /\ RaisedInv /\ ChainInv
  /\ ~overran => LockInv /\ FromInv /\ DealtInv
  /\ ~overran /\ ~SomeGaveUp => OwnReplyInv

LEMMA InitStrayInv == Init => StrayInv
BY InitTypeInv, InitOutcomeInv, InitServedInv, InitDealtInv, InitLockInv, InitOwnReplyInv
   DEF StrayInv

LEMMA NextStrayInv == StrayInv /\ [Next]_vars => StrayInv'
<1> SUFFICES ASSUME StrayInv, [Next]_vars PROVE StrayInv'
  OBVIOUS
<1> USE DEF StrayInv
<1>1. TypeInv' /\ OutcomeInv' /\ ServedInv' /\ RaisedInv'
  BY NextTypeInv, NextOutcomeInv, NextRequestedInv, NextRepliedInv, NextRaisedInv DEF ServedInv
<1>2. ChainInv'
  BY <1>1, NextChainInv
<1>3. ASSUME ~overran' PROVE LockInv' /\ FromInv' /\ DealtInv'
  BY <1>3, GaveUpForGood, NextLockInv, NextDealtInv
<1>4. ASSUME ~overran', ~SomeGaveUp' PROVE OwnReplyInv'
  BY <1>1, <1>4, GaveUpForGood, NextOwnReplyInv
<1>5. QED
  BY <1>1, <1>2, <1>3, <1>4

\* Until some call goes on without the lock: other bytes are taken for a header,
\* and a caller is given bytes of another call's reply, only after some call
\* gave up, and never bytes of a reply that is waited for; and until other bytes
\* are taken for a header, a caller is handed one whole reply that no other
\* caller is handed, wherever a call that gave up broke the stream off.
THEOREM RepliesAreDealtOnce == Spec => []StraysAreLeftOver
<1>1. StrayInv => StraysAreLeftOver
  <2> SUFFICES ASSUME StrayInv, ~overran
               PROVE  /\ mistaken => \E g \in Calls : GaveUp(g)
                      /\ \A c, d \in Calls : d \in answer[c] =>
                           /\ d # c => /\ \E g \in Calls : GaveUp(g)
                                       /\ \A t \in Threads : cur[t] = d => ~InExchange(t)
                           /\ ~mistaken => /\ answer[c] = {d}
                                           /\ \A e \in Calls \ {c} : d \notin answer[e]
    BY DEF StraysAreLeftOver
  <2>1. mistaken => SomeGaveUp
    BY DEF StrayInv, OwnReplyInv
  <2>2. ASSUME NEW c \in Calls, NEW d \in Calls, d \in answer[c]
        PROVE  /\ d # c => SomeGaveUp /\ \A t \in Threads : cur[t] = d => ~InExchange(t)
               /\ ~mistaken => answer[c] = {d} /\ \A e \in Calls \ {c} : d \notin answer[e]
    <3>1. d # c => SomeGaveUp
      BY <2>2 DEF StrayInv, OwnReplyInv, AnswerInv, OwnReply
    <3>2. \A t \in Threads : cur[t] = d => ~InExchange(t)
      BY <2>2 DEF StrayInv, DealtInv, LeftInv
    <3>3. ~mistaken => answer[c] = {d} /\ \A e \in Calls \ {c} : d \notin answer[e]
      BY <2>2 DEF StrayInv, DealtInv, AnsweredOnce
    <3>4. QED
      BY <3>1, <3>2, <3>3
  <2>3. QED
    BY <2>1, <2>2 DEF SomeGaveUp
<1>2. QED
  BY <1>1, InitStrayInv, NextStrayInv, PTL DEF Spec

(***************************************************************************)
(* A client used by one thread: the counter is the number of calls, and    *)
(* until it wraps the identifier of a call is its number less one, on      *)
(* every request, on every cell of a reply, and in the thread's locals.    *)
(***************************************************************************)
Sole == (\A c \in 1..made : maker[c] = maker[1]) /\ made <= Wrap

\* A thread is inside a call that it made.
MakerInv == \A t \in Threads : pc[t] # "idle" => maker[cur[t]] = t

\* The lock is held by a thread that knows it.
HolderInv == lock # NoThread => lock \in Threads /\ Locked(lock) /\ gotLock[lock]

\* The counter and the thread's locals follow the number of calls.
NumberInv ==
  /\ \A t \in Threads : pc[t] # "idle" => cur[t] = made
  /\ \A t \in Threads : pc[t] = "counted" => callCounter = made - 1 /\ counterRead[t] = made - 1
  /\ (\A t \in Threads : pc[t] # "counted") => callCounter = made
  /\ \A t \in Threads : pc[t] \notin {"idle", "counted"} => methodId[t] = made - 1

\* The identifier of a call wherever it goes.
IdentifierInv ==
  /\ \A i \in 1..Len(requests) : requests[i].id = requests[i].of - 1
  /\ \A i \in 1..Len(Coming) : Coming[i].id = Coming[i].of - 1
  /\ \A t \in Threads : pc[t] = "body" /\ frame[t].of # NoCall => frame[t].id = frame[t].of - 1

\* As AnswerInv, whatever was given up before.
OwnInv ==
  /\ \A t \in Threads :
       pc[t] \in {"release", "end"} /\ ~raised[t] /\ kind[cur[t]] = "reply" => frame[t].of = cur[t]
  /\ OwnReply

SoleInv == Sole => ~overran /\ NumberInv /\ IdentifierInv /\ (~mistaken => OwnInv)


LEMMA InitSoleInv == Init => MakerInv /\ HolderInv /\ SoleInv
<1> SUFFICES ASSUME Init PROVE MakerInv /\ HolderInv /\ SoleInv
  OBVIOUS
<1>1. MakerInv /\ HolderInv /\ NumberInv
  BY DEF Init, MakerInv, HolderInv, NumberInv
<1>2. ~overran
  BY Zenon DEF Init
<1>3. IdentifierInv
  BY DEF Init, IdentifierInv, Coming
<1>4. OwnInv
  BY DEF Init, OwnInv, OwnReply
<1>5. QED
  BY <1>1, <1>2, <1>3, <1>4 DEF SoleInv

LEMMA NextMakerInv == TypeInv /\ MakerInv /\ [Next]_vars => MakerInv'
<1> SUFFICES ASSUME TypeInv, MakerInv, [Next]_vars PROVE MakerInv'
  OBVIOUS
<1> USE DEF TypeInv, TypeOK, ThreadTypeOK, CallTypeOK, CallInv
<1>1. ASSUME NEW t \in Threads, BeginStep(t) PROVE MakerInv'
  <2>1. made + 1 \in Calls
    BY <1>1, ChannelAssumption DEF BeginStep, ReadCounter, Calls
  <2>2. /\ maker'[made + 1] = t /\ cur'[t] = made + 1
        /\ \A c \in Calls \ {made + 1} : maker'[c] = maker[c]
        /\ \A u \in Threads \ {t} : pc'[u] = pc[u] /\ cur'[u] = cur[u]
    BY <1>1, <2>1 DEF BeginStep, ReadCounter, Goto
  <2>3. \A u \in Threads \ {t} : pc[u] # "idle" => cur[u] \in Calls \ {made + 1}
    BY ChannelAssumption DEF Calls
  <2>4. QED
    BY <2>2, <2>3 DEF MakerInv
<1>2. ASSUME NEW t \in Threads, NEW how \in Ends, EndStep(t, how) PROVE MakerInv'
  <2>1. /\ maker' = maker /\ pc'[t] = "idle"
        /\ \A u \in Threads \ {t} : pc'[u] = pc[u] /\ cur'[u] = cur[u]
    BY <1>2 DEF EndStep, TakeSocket, End, Over, Goto, history
  <2>2. QED
    BY <2>1 DEF MakerInv
<1>3. CASE WithinCalls
  BY <1>3 DEF WithinCalls, history, MakerInv
<1>4. QED
  BY <1>1, <1>2, <1>3, StepOfCalls

LEMMA NextHolderInv == TypeInv /\ HolderInv /\ [Next]_vars => HolderInv'
<1> SUFFICES ASSUME TypeInv, HolderInv, [Next]_vars PROVE HolderInv'
  OBVIOUS
<1> USE DEF TypeInv, TypeOK, ThreadTypeOK, ClientTypeOK, HolderInv, Locked, Receiving
<1>1. ASSUME NEW t \in Threads, AcquireLock(t) PROVE HolderInv'
  BY <1>1, ChannelAssumption DEF AcquireLock, Goto
<1>2. ASSUME NEW t \in Threads, Release(t) PROVE HolderInv'
  BY <1>2, ChannelAssumption DEF Release, Goto, locals
<1>3. ASSUME NEW t \in Threads, Send(t) \/ ReadBy(t) \/ RecvFails(t)
      PROVE  HolderInv'
  BY <1>3 DEF Send, ReadBy, RecvFails, Goto, Raise, Receiving
<1>4. ASSUME NEW t \in Threads, ReadCounter(t) \/ WriteCounter(t) \/ TakeSocket(t) \/ End(t)
      PROVE  HolderInv'
  BY <1>4 DEF ReadCounter, WriteCounter, TakeSocket, End, Over, Goto, locals
<1>5. CASE Close \/ Serve \/ WriteCell \/ UNCHANGED vars
  BY <1>5 DEF Close, Serve, WriteCell, vars, locals
<1>6. QED
  BY <1>1, <1>2, <1>3, <1>4, <1>5, StepCases

\* A thread that is the only one to call is the only one inside a call.
LEMMA SoleIsAlone ==
  ASSUME TypeInv, NumberInv, NEW t \in Threads, pc[t] # "idle"
  PROVE  cur[t] = made /\ \A u \in Threads \ {t} : pc[u] = "idle"
BY DEF TypeInv, CallInv, NumberInv

\* That there was one caller only, is so of every earlier state.
LEMMA SoleBefore ==
  ASSUME TypeInv, [Next]_vars, Sole'
  PROVE  /\ Sole
         /\ \A t \in Threads : ReadCounter(t) =>
              made' = made + 1 /\ \A c \in 1..made : maker[c] = t
<1> USE DEF TypeInv, TypeOK, CallTypeOK
<1>1. ASSUME NEW t \in Threads, BeginStep(t)
      PROVE  Sole /\ made' = made + 1 /\ \A c \in 1..made : maker[c] = t
  <2>1. /\ made' = made + 1 /\ made + 1 \in Calls /\ maker'[made + 1] = t
        /\ \A c \in 1..made : maker'[c] = maker[c]
    BY <1>1, ChannelAssumption DEF BeginStep, ReadCounter, Calls
  <2>2. \A c \in 1..(made + 1) : maker'[c] = maker'[1]
    BY <2>1 DEF Sole
  <2>3. made + 1 \in 1..(made + 1) /\ \A c \in 1..made : c \in 1..(made + 1) /\ 1 \in 1..made
    BY ChannelAssumption
  <2>4. \A c \in 1..made : maker[c] = t /\ maker[1] = t
    BY <2>1, <2>2, <2>3
  <2>5. made <= Wrap
    BY <2>1, ChannelAssumption DEF Sole
  <2>6. QED
    BY <2>1, <2>4, <2>5 DEF Sole
<1>2. ASSUME UNCHANGED history PROVE Sole
  BY <1>2 DEF Sole, history
<1>3. ASSUME NEW t \in Threads, NEW how \in Ends, EndStep(t, how) PROVE UNCHANGED history
  BY <1>3 DEF EndStep, TakeSocket, End
<1>4. QED
  BY <1>1, <1>2, <1>3, StepOfCalls DEF WithinCalls, BeginStep

LEMMA SmallRemainder == ASSUME NEW n \in Nat, n < Wrap PROVE n % Wrap = n
BY ChannelAssumption

LEMMA NextNumberInv ==
  ASSUME TypeInv, MakerInv, Sole, Sole', NumberInv, [Next]_vars
  PROVE  NumberInv'
<1> USE DEF TypeInv, TypeOK, ThreadTypeOK, ClientTypeOK, CallTypeOK
<1>1. ASSUME NEW t \in Threads, ReadCounter(t) PROVE NumberInv'
  <2>1. \A u \in Threads : pc[u] = "idle"
    <3> SUFFICES ASSUME NEW u \in Threads, pc[u] # "idle" PROVE FALSE
      OBVIOUS
    <3>1. cur[u] \in 1..made /\ maker[cur[u]] = u
      BY DEF CallInv, MakerInv
    <3>2. maker[cur[u]] = t
      BY <1>1, <3>1, SoleBefore
    <3>3. QED
      BY <1>1, <3>1, <3>2 DEF ReadCounter
  <2>2. callCounter = made
    BY <2>1 DEF NumberInv
  <2>3. /\ made' = made + 1 /\ cur'[t] = made + 1 /\ pc'[t] = "counted"
        /\ counterRead'[t] = callCounter /\ callCounter' = callCounter
        /\ \A u \in Threads \ {t} : pc'[u] = "idle"
    BY <1>1, <2>1 DEF ReadCounter, Goto
  <2>4. QED
    BY <2>2, <2>3 DEF NumberInv
<1>2. ASSUME NEW t \in Threads,
             \/ WriteCounter(t) \/ TakeSocket(t) \/ AcquireLock(t) \/ Send(t) \/ ReadBy(t)
             \/ RecvFails(t) \/ Release(t) \/ End(t)
      PROVE  NumberInv'
  <2>1. /\ pc[t] # "idle" /\ cur[t] = made /\ \A u \in Threads \ {t} : pc[u] = "idle"
    <3>1. pc[t] # "idle"
      BY <1>2 DEF WriteCounter, TakeSocket, AcquireLock, Send, ReadBy, RecvFails, Release, End,
                  Receiving
    <3>2. QED
      BY <3>1, SoleIsAlone
  <2>2. \A u \in Threads \ {t} : pc'[u] = "idle"
    BY <1>2, <2>1, OthersStay DEF Others
  <2>3. CASE WriteCounter(t)
    <3>1. callCounter = made - 1 /\ counterRead[t] = made - 1 /\ made \in Nat /\ made \in 1..made
      BY <2>1, <2>3 DEF NumberInv, WriteCounter, CallInv
    <3>2. counterRead[t] % Wrap = made - 1
      BY <3>1, SmallRemainder, ChannelAssumption DEF Sole
    <3>3. /\ pc'[t] = "numbered" /\ methodId'[t] = made - 1 /\ callCounter' = made
          /\ UNCHANGED <<made, cur>>
      BY <2>3, <3>1, <3>2 DEF WriteCounter, Goto, history
    <3>4. QED
      BY <2>1, <2>2, <3>3 DEF NumberInv
  <2>4. CASE pc'[t] = "idle" /\ UNCHANGED <<made, callCounter>> /\ pc[t] # "counted"
    BY <2>1, <2>2, <2>4 DEF NumberInv
  <2>5. CASE /\ UNCHANGED <<made, callCounter, cur, methodId>>
             /\ pc[t] # "counted" /\ pc'[t] # "counted"
    BY <2>1, <2>2, <2>5 DEF NumberInv
  <2>6. QED
    BY <1>2, <2>3, <2>4, <2>5
       DEF TakeSocket, AcquireLock, Send, ReadBy, RecvFails, Release, End, Over, Goto, Raise,
           Receiving, history, locals
<1>3. CASE Close \/ Serve \/ WriteCell \/ UNCHANGED vars
  BY <1>3 DEF Close, Serve, WriteCell, vars, locals, history, NumberInv
<1>4. QED
  BY <1>1, <1>2, <1>3, StepCases

LEMMA NextIdentifierInv ==
  ASSUME TypeInv, PairInv, NumberInv, IdentifierInv, [Next]_vars PROVE IdentifierInv'
<1> USE DEF TypeInv, TypeOK, ThreadTypeOK
<1>1. ASSUME UNCHANGED <<requests, replies, owed>>,
             \A t \in Threads : pc'[t] = "body" => pc[t] = "body" /\ frame'[t] = frame[t]
      PROVE  IdentifierInv'
  BY <1>1, StreamKept DEF IdentifierInv
<1>2. ASSUME NEW t \in Threads,
             \/ ReadCounter(t) \/ WriteCounter(t) \/ TakeSocket(t) \/ AcquireLock(t)
             \/ RecvFails(t) \/ Release(t) \/ End(t)
      PROVE  IdentifierInv'
  <2>1. UNCHANGED <<requests, replies, owed>> /\ Others(t)
    BY <1>2, OthersStay
       DEF ReadCounter, WriteCounter, TakeSocket, AcquireLock, RecvFails, Release, End, wire
  <2>2. pc'[t] # "body"
    BY <1>2 DEF ReadCounter, WriteCounter, TakeSocket, AcquireLock, RecvFails, Release, End, Over,
                Goto, Raise
  <2>3. QED
    BY <1>1, <2>1, <2>2 DEF Others
<1>3. ASSUME NEW t \in Threads, Send(t) PROVE IdentifierInv'
  <2>1. UNCHANGED <<replies, owed, frame>> /\ Others(t) /\ pc'[t] # "body"
    BY <1>3, OthersStay DEF Send, Goto, Raise
  <2>2. CASE UNCHANGED requests
    BY <1>1, <2>1, <2>2 DEF Others
  <2>3. CASE requests' # requests
    <3>1. requests' = Append(requests, RequestOf(t))
      BY <1>3, <2>3 DEF Send
    <3>2. RequestOf(t).id = RequestOf(t).of - 1
      BY <1>3 DEF Send, NumberInv, RequestOf
    <3>3. \A i \in 1..Len(requests') : \/ requests'[i] = requests[i] /\ i \in 1..Len(requests)
                                       \/ requests'[i] = RequestOf(t)
      BY <3>1 DEF WireTypeOK
    <3>4. \A i \in 1..Len(requests') : requests'[i].id = requests'[i].of - 1
      BY <3>2, <3>3 DEF IdentifierInv
    <3>5. QED
      BY <2>1, <3>4, StreamKept DEF IdentifierInv, Others
  <2>4. QED
    BY <2>2, <2>3
<1>4. ASSUME NEW t \in Threads, Reads(t) PROVE IdentifierInv'
  <2>1. ReadBy(t) /\ Others(t)
    BY <1>4, ReadStep, OthersStay
  <2>2. /\ replies # <<>> /\ replies' = Tail(replies) /\ UNCHANGED <<owed, requests>>
    BY <2>1 DEF ReadBy
  <2>3. Dropped(Coming, Coming')
    BY <2>2, ReadDrops
  <2>4. \A i \in 1..Len(Coming') : Coming'[i].id = Coming'[i].of - 1
    BY <2>3 DEF Dropped, IdentifierInv
  <2>5. ASSUME pc'[t] = "body", frame'[t].of # NoCall PROVE frame'[t].id = frame'[t].of - 1
    <3>1. CASE RecvRest(t)
      <4>1. frame'[t].of = replies[1].of /\ frame'[t].id = replies[1].id
        BY <2>5, <3>1, RestStep
      <4>2. replies[1].id = replies[1].of - 1
        BY <2>2, ComingTyped DEF IdentifierInv
      <4>3. QED
        BY <4>1, <4>2
    <3>2. CASE RecvBody(t)
      BY <2>5, <3>2, BodyStep DEF IdentifierInv
    <3>3. QED
      BY <1>4, <2>5, <3>1, <3>2, HeadStep, JunkStep DEF Reads
  <2>6. QED
    BY <2>1, <2>2, <2>4, <2>5 DEF IdentifierInv, Others
<1>5. CASE Serve
  <2>1. /\ requests # <<>> /\ requests' = Tail(requests) /\ UNCHANGED <<pc, frame>>
    BY <1>5 DEF Serve, locals
  <2>2. /\ 1 \in 1..Len(requests)
        /\ \A i \in 1..Len(requests') : i + 1 \in 1..Len(requests) /\ requests'[i] = requests[i + 1]
    <3>1. /\ Len(requests) \in Nat \ {0} /\ Len(requests') = Len(requests) - 1
          /\ \A i \in 1..Len(requests') : requests'[i] = requests[i + 1]
      BY <2>1, EmptySeq DEF WireTypeOK
    <3>2. PICK n \in Nat \ {0} : n = Len(requests)
      BY <3>1
    <3>3. \A i \in 1..(n - 1) : i + 1 \in 1..n
      OBVIOUS
    <3>4. QED
      BY <3>1, <3>2, <3>3
  <2>3. /\ requests[1].id = requests[1].of - 1
        /\ \A i \in 1..Len(requests') : requests'[i].id = requests'[i].of - 1
    BY <2>2 DEF IdentifierInv
  <2>4. CASE Coming' = Coming
    BY <2>1, <2>3, <2>4 DEF IdentifierInv
  <2>5. ASSUME NEW cell, cell.of = requests[1].of, cell.id = requests[1].id,
               Added(Coming, Coming', cell)
        PROVE  IdentifierInv'
    <3>1. \A i \in 1..Len(Coming') : Coming'[i] = cell \/ (i \in 1..Len(Coming) /\ Coming'[i] = Coming[i])
      BY <2>5, ComingTyped DEF Added
    <3>2. \A i \in 1..Len(Coming') : Coming'[i].id = Coming'[i].of - 1
      BY <2>3, <2>5, <3>1 DEF IdentifierInv
    <3>3. QED
      BY <2>1, <2>3, <3>2 DEF IdentifierInv
  <2>6. \A err, size : LET cell == FirstCell(requests[1].of, requests[1].id, err, size)
                       IN cell.of = requests[1].of /\ cell.id = requests[1].id
    BY DEF FirstCell
  <2>7. QED
    BY <1>5, <2>4, <2>5, <2>6, ServeAdds
<1>6. CASE WriteCell
  <2> DEFINE last == Coming[Len(Coming)]
  <2>1. UNCHANGED <<requests, pc, frame>>
    BY <1>6 DEF WriteCell, locals
  <2>2. CASE Coming' = Coming
    BY <2>1, <2>2 DEF IdentifierInv
  <2>3. CASE Added(Coming, Coming', NextCell(last))
    <3>1. Coming # <<>> /\ Len(Coming) \in Nat /\ Len(Coming) \in 1..Len(Coming)
      BY <1>6, WriteAdds, ComingTyped
    <3>2. NextCell(last).id = NextCell(last).of - 1
      BY <3>1 DEF NextCell, IdentifierInv
    <3>3. \A i \in 1..Len(Coming') :
            Coming'[i] = NextCell(last) \/ (i \in 1..Len(Coming) /\ Coming'[i] = Coming[i])
      BY <2>3, <3>1 DEF Added
    <3>4. \A i \in 1..Len(Coming') : Coming'[i].id = Coming'[i].of - 1
      BY <3>2, <3>3 DEF IdentifierInv
    <3>5. QED
      BY <2>1, <3>4 DEF IdentifierInv
  <2>4. QED
    BY <1>6, <2>2, <2>3, WriteAdds
<1>7. CASE Close
  <2>1. Coming' = <<>> /\ UNCHANGED <<requests, pc, frame>>
    BY <1>7 DEF Close, Coming, locals
  <2>2. QED
    BY <2>1 DEF IdentifierInv
<1>8. CASE UNCHANGED vars
  BY <1>1, <1>8 DEF vars, wire, locals
<1>9. QED
  BY <1>2, <1>3, <1>4, <1>5, <1>6, <1>7, <1>8 DEF Next, Step, Reads

LEMMA FirstCarried ==
  ASSUME TypeOK, RepliedInv, replies # <<>> PROVE replies[1].of \in carried
<1>1. 1 \in 1..Len(replies)
  BY EmptySeq DEF TypeOK, WireTypeOK
<1>2. QED
  BY <1>1 DEF RepliedInv

\* A reply that is not skipped is of the newest call, which is the caller's own.
LEMMA NextOwnInv ==
  ASSUME TypeInv, RaisedInv, RepliedInv, RequestedInv, FromInv, WholeInv, WholeInv', NumberInv,
         IdentifierInv, OwnInv, [Next]_vars
  PROVE  OwnInv'
<1> USE DEF TypeInv, TypeOK, ThreadTypeOK, CallTypeOK
<1>1. ASSUME NEW t \in Threads, NEW of \in carried, ~(of - 1 < methodId[t]),
             pc[t] \notin {"idle", "counted"}
      PROVE  of = cur[t]
  <2>1. of \in 1..made /\ made \in Nat /\ methodId[t] = made - 1 /\ cur[t] = made
    BY <1>1 DEF RequestedInv, NumberInv
  <2>2. QED
    BY <1>1, <2>1
<1>2. ASSUME NEW t \in Threads, Others(t), answer' = answer,
             \A c \in 1..made : kind'[c] = kind[c],
             pc'[t] \in {"release", "end"} /\ ~raised'[t] /\ kind'[cur'[t]] = "reply" =>
               frame'[t].of = cur'[t]
      PROVE  OwnInv'
  BY <1>2 DEF OwnInv, OwnReply, Others, CallInv
<1>3. ASSUME NEW t \in Threads, Reads(t) PROVE OwnInv'
  <2>1. ReadBy(t) /\ Others(t)
    BY <1>3, ReadStep, OthersStay
  <2>2. UNCHANGED <<answer, kind, cur, methodId>> /\ replies # <<>> /\ pc[t] \in Receiving
    BY <2>1 DEF ReadBy, history
  <2>3. ASSUME pc'[t] \in {"release", "end"}, ~raised'[t], kind'[cur'[t]] = "reply"
        PROVE  frame'[t].of = cur[t]
    <3>1. frame'[t].of # NoCall
      BY <2>3 DEF WholeInv
    <3>2. pc'[t] = AfterCell(t, frame'[t].id, frame'[t].left) /\ (RecvRest(t) \/ RecvBody(t))
      BY <1>3, <2>3, HeadStep, RestStep, BodyStep, JunkStep DEF Reads
    <3>3. ~(frame'[t].id < methodId[t])
      BY <2>3, <3>2 DEF AfterCell, Stale
    <3>4. frame'[t].id = frame'[t].of - 1
      <4>1. CASE RecvRest(t)
        <5>1. frame'[t].of = replies[1].of /\ frame'[t].id = replies[1].id
          BY <3>1, <4>1, RestStep
        <5>2. replies[1].id = replies[1].of - 1
          BY <2>2, ComingTyped DEF IdentifierInv
        <5>3. QED
          BY <5>1, <5>2
      <4>2. CASE RecvBody(t)
        BY <3>1, <4>2, BodyStep DEF IdentifierInv
      <4>3. QED
        BY <3>2, <4>1, <4>2
    <3>5. frame'[t].of \in carried
      <4>1. CASE RecvRest(t)
        BY <2>2, <3>1, <4>1, RestStep, ComingTyped, FirstCarried
      <4>2. CASE RecvBody(t)
        BY <3>1, <4>2, BodyStep DEF RepliedInv
      <4>3. QED
        BY <3>2, <4>1, <4>2
    <3>6. QED
      BY <1>1, <2>2, <3>3, <3>4, <3>5 DEF Receiving
  <2>4. QED
    BY <1>2, <2>1, <2>2, <2>3
<1>4. ASSUME NEW t \in Threads, End(t) PROVE OwnInv'
  <2>1. pc[t] = "end" /\ pc'[t] = "idle" /\ UNCHANGED kind /\ Others(t)
    BY <1>4, OthersStay DEF End, Over, Goto, history
  <2>2. CASE UNCHANGED answer
    BY <1>2, <2>1, <2>2
  <2>3. CASE answer' # answer
    <3>1. /\ ~raised[t] /\ kind[cur[t]] # "void"
          /\ answer' = [answer EXCEPT ![cur[t]] = {frame[t].of} \cup frame[t].from]
      BY <1>4, <2>3 DEF End
    <3>2. cur[t] \in 1..made /\ made \in 0..MaxCalls
      BY <2>1 DEF CallInv
    <3>3. cur[t] \in Calls /\ cur[t] # NoCall
      BY <3>2, ChannelAssumption DEF Calls, NoCall
    <3>4. kind[cur[t]] = "reply"
      BY <2>1, <3>1, <3>3 DEF KindInv, AllKinds
    <3>5. frame[t].of = cur[t]
      BY <2>1, <3>1, <3>4 DEF OwnInv
    <3>6. frame[t].from = {cur[t]}
      BY <3>3, <3>5 DEF FromInv
    <3>7. answer' = [answer EXCEPT ![cur[t]] = {cur[t]}]
      BY <3>1, <3>5, <3>6
    <3>8. OwnReply'
      BY <3>3, <3>7 DEF OwnInv, OwnReply
    <3>9. QED
      BY <2>1, <3>8 DEF OwnInv, Others
  <2>4. QED
    BY <2>2, <2>3
<1>5. ASSUME NEW t \in Threads,
             \/ ReadCounter(t) \/ WriteCounter(t) \/ TakeSocket(t) \/ AcquireLock(t) \/ Send(t)
             \/ RecvFails(t) \/ Release(t)
      PROVE  OwnInv'
  <2>1. Others(t) /\ answer' = answer /\ \A c \in 1..made : kind'[c] = kind[c]
    BY <1>5, OthersStay
       DEF ReadCounter, WriteCounter, TakeSocket, AcquireLock, Send, RecvFails, Release
  <2>2. pc'[t] \in {"release", "end"} /\ ~raised'[t] /\ kind'[cur'[t]] = "reply" =>
          frame'[t].of = cur'[t]
    <3>1. CASE Release(t)
      BY <3>1 DEF Release, Goto, locals, history, OwnInv
    <3>2. CASE Send(t)
      BY <3>2 DEF Send, Goto, Raise, history
    <3>3. CASE RecvFails(t)
      BY <3>3 DEF RecvFails, Goto, Raise
    <3>4. CASE ReadCounter(t) \/ WriteCounter(t) \/ TakeSocket(t) \/ AcquireLock(t)
      BY <3>4 DEF ReadCounter, WriteCounter, TakeSocket, AcquireLock, Over, Goto
    <3>5. QED
      BY <1>5, <3>1, <3>2, <3>3, <3>4
  <2>3. QED
    BY <1>2, <2>1, <2>2
<1>6. CASE Close \/ Serve \/ WriteCell \/ UNCHANGED vars
  BY <1>6 DEF Close, Serve, WriteCell, vars, locals, history, OwnInv, OwnReply
<1>7. QED
  BY <1>3, <1>4, <1>5, <1>6 DEF Next, Step, Reads

LEMMA NextSoleInv ==
  ASSUME StrayInv, StrayInv', MakerInv, HolderInv, SoleInv, [Next]_vars PROVE SoleInv'
<1> SUFFICES ASSUME Sole' PROVE ~overran' /\ NumberInv' /\ IdentifierInv' /\ (~mistaken' => OwnInv')
  BY DEF SoleInv
<1> USE DEF StrayInv
<1>1. Sole /\ ~overran /\ NumberInv /\ IdentifierInv /\ (~mistaken => OwnInv)
  BY SoleBefore DEF SoleInv
<1>2. ~overran'
  <2>1. ASSUME NEW t \in Threads, AcquireLock(t) PROVE ~overran'
    <3>1. pc[t] = "ready" /\ pc[t] # "idle"
      BY <2>1 DEF AcquireLock
    <3>2. \A u \in Threads \ {t} : pc[u] = "idle"
      BY <1>1, <3>1, SoleIsAlone
    <3>3. lock = NoThread
      BY <3>1, <3>2 DEF HolderInv, Locked, Receiving
    <3>4. QED
      BY <1>1, <2>1, <3>3 DEF AcquireLock
  <2>2. CASE overran' = overran
    BY <1>1, <2>2
  <2>3. QED
    BY <2>1, <2>2, StepCases
       DEF ReadCounter, WriteCounter, TakeSocket, Send, ReadBy, RecvFails, Release, End, Close,
           Serve, WriteCell, vars
<1>3. NumberInv'
  BY <1>1, NextNumberInv
<1>4. IdentifierInv'
  BY <1>1, NextIdentifierInv DEF DealtInv
<1>5. ASSUME ~mistaken' PROVE OwnInv'
  <2>1. ~mistaken
    BY <1>5, MistakenForGood
  <2>2. WholeInv /\ WholeInv' /\ FromInv /\ OwnInv
    BY <1>1, <1>2, <1>5, <2>1 DEF DealtInv
  <2>3. QED
    BY <1>1, <2>2, NextOwnInv DEF ServedInv
<1>6. QED
  BY <1>2, <1>3, <1>4, <1>5

\* A thread that has the client to itself is handed its own replies, wherever
\* receives time out, until the identifiers wrap or other bytes are taken for a
\* header: those of earlier calls are skipped by their identifiers.
THEOREM SoleCallerIsSafe == Spec => []SoleCallerGetsOwnReply
<1> DEFINE Inv == StrayInv /\ MakerInv /\ HolderInv /\ SoleInv
<1>1. Init => Inv
  BY InitStrayInv, InitSoleInv
<1>2. Inv /\ [Next]_vars => Inv'
  BY NextStrayInv, NextMakerInv, NextHolderInv, NextSoleInv DEF StrayInv
<1>3. Inv => SoleCallerGetsOwnReply
  BY DEF SoleInv, Sole, OwnInv, OwnReply, SoleCallerGetsOwnReply
<1>4. QED
  BY <1>1, <1>2, <1>3, PTL DEF Spec

=============================================================================
