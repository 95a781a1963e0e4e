------------------------- MODULE PluginMessageProofs -------------------------
(***************************************************************************)
(* Messages of plugins while their logger is replaced, for any threads,    *)
(* messages, loggers and calls of set_logger, and any queue: which message *)
(* the unlocked fields can lose.                                           *)
(***************************************************************************)
EXTENDS PluginMessage, TLAPS

MessageStates ==
  {"none", "pending", "queued", "logcat", "ignored", "raised", "logged", "refused", "sent", "failed"}

TypeInv ==
  /\ messages \in Seq(Messages)
  /\ sender \in Messages \cup {None, Ended}
  /\ thread \in [Threads -> [at : {"idle", "send", "offer", "logOrCat", "log", "write"},
                             msg : Messages \cup {None}]]
  /\ setting \in [Switchers -> {"idle", "test", "close", "clear", "create"}]
  /\ fate \in [Messages -> MessageStates]
  /\ made \in Nat

\* A message belongs to the one thread whose call it is, and then to the queue.
Busy(t) == thread[t].at # "idle"
InHand(m) == fate[m] \in {"none", "pending"}
OwnerInv ==
  /\ \A t \in Threads : Busy(t) => thread[t].msg \in Messages /\ fate[thread[t].msg] = "pending"
  /\ \A t, u \in Threads : Busy(t) /\ Busy(u) /\ thread[t].msg = thread[u].msg => t = u
  /\ \A i \in 1..Len(messages) : ~InHand(messages[i])
  /\ sender \in Messages => ~InHand(sender)

\* A closed logger is in place only until the setLogger that closed it clears it.
ClosedInv == rollingLogger \notin running \cup {None} => \E s \in Switchers : setting[s] = "clear"
\* While a setLogger is on its way, it has overlapped every call there is.
OverlapInv == Switching => \A m \in Messages : fate[m] = "pending" => m \in disturbed
\* What the test found is there to write to, if no setLogger came.
TestedInv ==
  \A t \in Threads : thread[t].at = "write" => rollingLogger \in running \ {None} \/ thread[t].msg \in disturbed

SwitchInv == ClosedInv /\ OverlapInv /\ TestedInv /\ LostOnlyWhileSwitching

LEMMA InitInv == Init => TypeInv /\ OwnerInv /\ SwitchInv
<1> SUFFICES ASSUME Init PROVE TypeInv /\ OwnerInv /\ SwitchInv
  OBVIOUS
<1>1. TypeInv
  BY MessageAssumption DEF Init, TypeInv, Idle, MessageStates, None
<1>2. \A t \in Threads : ~Busy(t)
  BY DEF Init, Idle, Busy
<1>3. OwnerInv
  BY <1>2, MessageAssumption DEF Init, OwnerInv, Messages, None
<1>4. SwitchInv
  BY <1>2 DEF Init, SwitchInv, ClosedInv, OverlapInv, TestedInv, LostOnlyWhileSwitching, Switching, Busy
<1>5. QED
  BY <1>1, <1>3, <1>4

-----------------------------------------------------------------------------
(* The steps of the plugins' threads and of the sender.                    *)

\* The switchers and what they use stay as they are.
LEMMA BeginKeepsInv ==
  ASSUME TypeInv, OwnerInv, SwitchInv, NEW t \in Threads, Begin(t)
  PROVE  (TypeInv /\ OwnerInv /\ SwitchInv)'
<1>1. PICK m \in Messages, at \in {"send", "log"} :
        /\ fate[m] = "none"
        /\ thread' = [thread EXCEPT ![t] = [at |-> at, msg |-> m]]
        /\ fate' = [fate EXCEPT ![m] = "pending"]
        /\ disturbed' = IF Switching THEN disturbed \cup {m} ELSE disturbed
  BY DEF Begin, Unused
<1>2. UNCHANGED <<messages, sender, rollingLogger, made, running, setting>> /\ ~Busy(t)
  BY DEF Begin, queueVars, logVars, switchVars, Busy
<1>3. TypeInv'
  BY <1>1, <1>2 DEF TypeInv, MessageStates
<1>4. OwnerInv'
  <2>1. \A u \in Threads : Busy(u) => thread[u].msg # m
    BY <1>1 DEF OwnerInv
  <2>2. \A i \in 1..Len(messages) : messages[i] # m
    BY <1>1 DEF OwnerInv, InHand
  <2>3. sender # m
    BY <1>1 DEF OwnerInv, InHand
  <2>4. \A u \in Threads : u # t => thread'[u] = thread[u]
    BY <1>1 DEF TypeInv
  <2>5. thread'[t].msg = m /\ fate'[m] = "pending"
    BY <1>1 DEF TypeInv
  <2>6. \A n \in Messages : n # m => fate'[n] = fate[n]
    BY <1>1 DEF TypeInv
  <2>7. \A u \in Threads : Busy(u)' => thread'[u].msg \in Messages /\ fate'[thread'[u].msg] = "pending"
    BY <2>1, <2>4, <2>5, <2>6 DEF OwnerInv, Busy
  <2>8. \A u, v \in Threads : Busy(u)' /\ Busy(v)' /\ thread'[u].msg = thread'[v].msg => u = v
    BY <2>1, <2>4, <2>5 DEF OwnerInv, Busy
  <2>9. \A i \in 1..Len(messages') : ~InHand(messages[i])'
    BY <1>2, <2>2, <2>6 DEF OwnerInv, InHand, TypeInv
  <2>10. sender' \in Messages => ~InHand(sender)'
    BY <1>2, <2>3, <2>6 DEF OwnerInv, InHand
  <2>11. QED
    BY <2>7, <2>8, <2>9, <2>10 DEF OwnerInv
<1>5. SwitchInv'
  <2>1. thread'[t].at # "write" /\ \A u \in Threads : u # t => thread'[u] = thread[u]
    BY <1>1 DEF TypeInv
  <2>2. disturbed \subseteq disturbed' /\ (Switching => m \in disturbed')
    BY <1>1
  <2>3. \A n \in Messages : n # m => fate'[n] = fate[n]
    BY <1>1 DEF TypeInv
  <2>4. fate'[m] = "pending" /\ Switching' = Switching
    BY <1>1, <1>2 DEF TypeInv, Switching
  <2>5. QED
    BY <1>2, <2>1, <2>2, <2>3, <2>4
       DEF SwitchInv, ClosedInv, OverlapInv, TestedInv, LostOnlyWhileSwitching
<1>6. QED
  BY <1>3, <1>4, <1>5

\* A call that goes on.
LEMMA GotoKeepsInv ==
  ASSUME TypeInv, OwnerInv, SwitchInv, Logging, UNCHANGED fate,
         NEW t \in Threads, Busy(t), NEW at \in {"offer", "logOrCat", "write"}, Goto(t, at),
         at = "write" => rollingLogger # None
  PROVE  (TypeInv /\ OwnerInv /\ SwitchInv)'
<1>1. /\ thread'[t].at = at /\ thread'[t].msg = thread[t].msg
      /\ \A u \in Threads : u # t => thread'[u] = thread[u]
  BY DEF Goto, TypeInv
<1>2. UNCHANGED <<messages, sender, rollingLogger, made, running, setting, disturbed, fate>>
  BY DEF Logging, queueVars, logVars, switchVars
<1>3. TypeInv'
  BY <1>2 DEF TypeInv, Goto
<1>4. OwnerInv'
  BY <1>1, <1>2 DEF OwnerInv, Busy, InHand
<1>5. at = "write" => rollingLogger \in running \ {None} \/ thread[t].msg \in disturbed
  <2>1. SUFFICES ASSUME at = "write", rollingLogger \notin running PROVE thread[t].msg \in disturbed
    OBVIOUS
  <2>2. Switching
    BY <2>1 DEF SwitchInv, ClosedInv, Switching
  <2>3. QED
    BY <2>2 DEF SwitchInv, OverlapInv, OwnerInv
<1>6. SwitchInv'
  BY <1>1, <1>2, <1>5 DEF SwitchInv, ClosedInv, OverlapInv, TestedInv, LostOnlyWhileSwitching, Switching
<1>7. QED
  BY <1>3, <1>4, <1>6

\* A call that is over: its message may be in the queue now.
LEMMA OverKeepsInv ==
  ASSUME TypeInv, OwnerInv, SwitchInv, NEW t \in Threads, Busy(t),
         NEW f \in MessageStates \ {"none", "pending"}, Over(t, f),
         f \in {"refused", "raised"} => thread[t].msg \in disturbed,
         messages' \in {messages, Append(messages, thread[t].msg)},
         UNCHANGED <<sender, logVars, switchVars, disturbed>>
  PROVE  (TypeInv /\ OwnerInv /\ SwitchInv)'
<1>1. PICK m \in Messages : m = thread[t].msg /\ fate[m] = "pending"
  BY DEF OwnerInv
<1>2. /\ ~Busy(t)' /\ thread'[t].at # "write" /\ \A u \in Threads : u # t => thread'[u] = thread[u]
      /\ fate'[m] = f /\ \A n \in Messages : n # m => fate'[n] = fate[n]
  BY <1>1 DEF Over, TypeInv, Busy, Idle
<1>3. UNCHANGED <<rollingLogger, made, running, setting>>
  BY DEF logVars, switchVars
<1>4. /\ messages' \in Seq(Messages)
      /\ \A i \in 1..Len(messages') : messages'[i] = m \/ (i \in 1..Len(messages) /\ messages'[i] = messages[i])
  <2>1. messages \in Seq(Messages)
    BY DEF TypeInv
  <2>2. CASE messages' = messages
    BY <2>1, <2>2
  <2>3. CASE messages' = Append(messages, m)
    <3>1. messages' \in Seq(Messages) /\ Len(messages') = Len(messages) + 1 /\ Len(messages) \in Nat
      BY <2>1, <2>3
    <3>2. \A i \in 1..Len(messages') : messages'[i] = IF i <= Len(messages) THEN messages[i] ELSE m
      BY <2>1, <2>3, <3>1
    <3>3. QED
      BY <3>1, <3>2
  <2>4. QED
    BY <1>1, <2>2, <2>3
<1>5. TypeInv'
  BY <1>1, <1>3, <1>4 DEF TypeInv, Over, Idle, None
<1>6. OwnerInv'
  <2>1. \A u \in Threads : u # t /\ Busy(u) => thread[u].msg # m
    BY <1>1 DEF OwnerInv
  <2>2. \A u \in Threads : Busy(u)' => thread'[u].msg \in Messages /\ fate'[thread'[u].msg] = "pending"
    BY <1>2, <2>1 DEF OwnerInv, Busy
  <2>3. \A u, v \in Threads : Busy(u)' /\ Busy(v)' /\ thread'[u].msg = thread'[v].msg => u = v
    BY <1>2 DEF OwnerInv, Busy
  <2>4. ~InHand(m)' /\ \A n \in Messages : ~InHand(n) => ~InHand(n)'
    BY <1>2 DEF InHand
  <2>5. \A i \in 1..Len(messages') : ~InHand(messages[i])'
    <3>1. TAKE i \in 1..Len(messages')
    <3>2. CASE messages'[i] = m
      BY <2>4, <3>2 DEF InHand
    <3>3. CASE i \in 1..Len(messages) /\ messages'[i] = messages[i]
      <4>1. messages[i] \in Messages /\ ~InHand(messages[i])
        BY <3>3 DEF OwnerInv, TypeInv
      <4>2. QED
        BY <2>4, <3>3, <4>1 DEF InHand
    <3>4. QED
      BY <1>4, <3>2, <3>3 DEF TypeInv
  <2>6. sender' \in Messages => ~InHand(sender)'
    BY <2>4 DEF OwnerInv, InHand
  <2>7. QED
    BY <2>2, <2>3, <2>5, <2>6 DEF OwnerInv
<1>7. SwitchInv'
  BY <1>1, <1>2, <1>3 DEF SwitchInv, ClosedInv, OverlapInv, TestedInv, LostOnlyWhileSwitching, Switching
<1>8. QED
  BY <1>5, <1>6, <1>7

LEMMA PluginKeepsInv ==
  ASSUME TypeInv, OwnerInv, SwitchInv, NEW t \in Threads, Plugin(t)
  PROVE  (TypeInv /\ OwnerInv /\ SwitchInv)'
<1> USE DEF Logging, queueVars, logVars, switchVars, Busy, MessageStates
<1>1. CASE Begin(t)
  BY <1>1, BeginKeepsInv
<1>2. CASE ReadSubscribers(t)
  BY <1>2, GotoKeepsInv DEF ReadSubscribers
<1>3. CASE Offer(t)
  BY <1>3, OverKeepsInv DEF Offer
<1>4. CASE TestLogger(t)
  BY <1>4, GotoKeepsInv, OverKeepsInv DEF TestLogger
<1>5. CASE WriteLog(t)
  <2>1. PICK f : /\ f = IF rollingLogger = None THEN "raised"
                        ELSE IF rollingLogger \in running THEN "logged" ELSE "refused"
                 /\ Over(t, f)
    BY <1>5 DEF WriteLog
  <2>2. f \in {"refused", "raised"} => thread[t].msg \in disturbed
    BY <1>5, <2>1 DEF WriteLog, SwitchInv, TestedInv
  <2>3. QED
    BY <1>5, <2>1, <2>2, OverKeepsInv DEF WriteLog
<1>6. QED
  BY <1>1, <1>2, <1>3, <1>4, <1>5 DEF Plugin

\* The sender's thread only has messages that no call has in its hands.
LEMMA SenderKeepsInv ==
  ASSUME TypeInv, OwnerInv, SwitchInv, Sender
  PROVE  (TypeInv /\ OwnerInv /\ SwitchInv)'
<1>1. UNCHANGED <<rollingLogger, made, running, setting, thread, disturbed>>
  BY DEF Sender, Take, Sent, SendRaises, logVars, switchVars
<1>2. CASE Take
  <2>1. /\ sender' = messages[1] /\ sender' \in Messages /\ ~InHand(messages[1])
        /\ messages' \in Seq(Messages) /\ fate' = fate
        /\ \A i \in 1..Len(messages') : i + 1 \in 1..Len(messages) /\ messages'[i] = messages[i + 1]
    BY <1>2 DEF Take, TypeInv, OwnerInv
  <2>2. TypeInv'
    BY <1>1, <2>1 DEF TypeInv
  <2>3. OwnerInv'
    BY <1>1, <2>1 DEF OwnerInv, Busy, InHand
  <2>4. SwitchInv'
    BY <1>1, <2>1 DEF SwitchInv, ClosedInv, OverlapInv, TestedInv, LostOnlyWhileSwitching, Switching
  <2>5. QED
    BY <2>2, <2>3, <2>4
<1>3. CASE Sent \/ SendRaises
  <2>1. PICK m \in Messages, f \in {"sent", "failed"} :
          /\ m = sender /\ fate' = [fate EXCEPT ![m] = f] /\ messages' = messages /\ sender' \in {None, Ended}
    BY <1>3 DEF Sent, SendRaises
  <2>2. ~InHand(m) /\ fate'[m] = f /\ \A n \in Messages : n # m => fate'[n] = fate[n]
    BY <2>1 DEF OwnerInv, TypeInv
  <2>3. None \notin Messages /\ Ended \notin Messages
    BY MessageAssumption DEF None, Ended, Messages
  <2>4. TypeInv'
    BY <1>1, <2>1 DEF TypeInv, MessageStates
  <2>5. OwnerInv'
    <3>1. \A t \in Threads : Busy(t) => thread[t].msg # m
      BY <2>2 DEF OwnerInv, InHand
    <3>2. \A i \in 1..Len(messages) : ~InHand(messages[i])'
      BY <2>1, <2>2 DEF OwnerInv, InHand, TypeInv
    <3>3. QED
      BY <1>1, <2>1, <2>2, <2>3, <3>1, <3>2 DEF OwnerInv, Busy
  <2>6. SwitchInv'
    BY <1>1, <2>1, <2>2 DEF SwitchInv, ClosedInv, OverlapInv, TestedInv, LostOnlyWhileSwitching, Switching, InHand
  <2>7. QED
    BY <2>4, <2>5, <2>6
<1>4. QED
  BY <1>2, <1>3 DEF Sender

-----------------------------------------------------------------------------
(* The steps of a setLogger.                                               *)

LEMMA SwitchKeepsInv ==
  ASSUME TypeInv, OwnerInv, SwitchInv, NEW s \in Switchers, Switch(s)
  PROVE  (TypeInv /\ OwnerInv /\ SwitchInv)'
<1>1. UNCHANGED <<messages, sender, thread, fate>> /\ disturbed \subseteq disturbed'
  BY DEF Switch, BeginSet, TestOld, CloseOld, Clear, Create, CreateFails, PluginsWait, queueVars
<1>2. PICK to \in {"idle", "test", "close", "clear", "create"} : setting' = [setting EXCEPT ![s] = to]
  BY DEF Switch, BeginSet, TestOld, CloseOld, Clear, Create, CreateFails, At
<1>3. made' \in Nat /\ TypeInv'
  BY <1>1, <1>2 DEF Switch, BeginSet, TestOld, CloseOld, Clear, Create, CreateFails, logVars, TypeInv
<1>4. OwnerInv'
  BY <1>1 DEF OwnerInv, Busy, InHand
\* Every call there is has been overlapped, before the step or by it.
<1>5. \A m \in Messages : fate[m] = "pending" => m \in disturbed'
  <2>1. CASE BeginSet(s)
    BY <2>1 DEF BeginSet
  <2>2. CASE ~BeginSet(s)
    <3>1. setting[s] # "idle" /\ disturbed' = disturbed
      BY <2>2 DEF Switch, TestOld, CloseOld, Clear, Create, CreateFails, At
    <3>2. QED
      BY <3>1 DEF SwitchInv, OverlapInv, Switching
  <2>3. QED
    BY <2>1, <2>2
<1>6. OverlapInv' /\ TestedInv' /\ LostOnlyWhileSwitching'
  <2>1. \A t \in Threads : thread[t].at = "write" => thread[t].msg \in disturbed'
    BY <1>5 DEF OwnerInv, Busy
  <2>2. QED
    BY <1>1, <1>5, <2>1 DEF SwitchInv, OverlapInv, TestedInv, LostOnlyWhileSwitching
<1>7. ClosedInv'
  <2>1. setting'[s] = to /\ \A r \in Switchers : r # s => setting'[r] = setting[r]
    BY <1>2 DEF TypeInv
  <2>2. CASE BeginSet(s) \/ TestOld(s) \/ CreateFails(s)
    <3>1. UNCHANGED <<rollingLogger, running>> /\ setting[s] # "clear"
      BY <2>2 DEF BeginSet, TestOld, CreateFails, At, logVars
    <3>2. QED
      BY <2>1, <3>1 DEF SwitchInv, ClosedInv
  <2>3. CASE CloseOld(s)
    <3>1. rollingLogger' = rollingLogger /\ (rollingLogger # None => setting'[s] = "clear")
      BY <2>3 DEF CloseOld, At, TypeInv
    <3>2. QED
      BY <3>1 DEF ClosedInv
  <2>4. CASE Clear(s) \/ Create(s)
    BY <2>4 DEF Clear, Create, ClosedInv
  <2>5. QED
    BY <2>2, <2>3, <2>4 DEF Switch
<1>8. QED
  BY <1>3, <1>4, <1>6, <1>7 DEF SwitchInv

-----------------------------------------------------------------------------

LEMMA NextInv == TypeInv /\ OwnerInv /\ SwitchInv /\ [Next]_vars => (TypeInv /\ OwnerInv /\ SwitchInv)'
<1> SUFFICES ASSUME TypeInv, OwnerInv, SwitchInv, [Next]_vars PROVE (TypeInv /\ OwnerInv /\ SwitchInv)'
  OBVIOUS
<1>1. CASE \E t \in Threads : Plugin(t)
  BY <1>1, PluginKeepsInv
<1>2. CASE Sender
  BY <1>2, SenderKeepsInv
<1>3. CASE \E s \in Switchers : Switch(s)
  BY <1>3, SwitchKeepsInv
<1>4. CASE Subscription \/ UNCHANGED vars
  BY <1>4 DEF Subscription, vars, queueVars, logVars, switchVars, TypeInv, OwnerInv, SwitchInv, ClosedInv, OverlapInv,
              TestedInv, LostOnlyWhileSwitching, Switching, Busy, InHand
<1>5. QED
  BY <1>1, <1>2, <1>3, <1>4 DEF Next

\* Whatever setLoggers run at a time, in whatever order they close, clear and
\* create: only a call that one of them overlaps is refused by a closed logger,
\* or finds the field empty after the test.
THEOREM UndisturbedCallsAreKept == Spec => []LostOnlyWhileSwitching
<1>1. SwitchInv => LostOnlyWhileSwitching
  BY DEF SwitchInv
<1>2. QED
  BY InitInv, NextInv, <1>1, PTL DEF Spec
=============================================================================
