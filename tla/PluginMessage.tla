--------------------------- MODULE PluginMessage ---------------------------
(***************************************************************************)
(* What becomes of the messages of plugins (PluginMessage.java), once      *)
(* setMessageSender has run: send() puts them in a bounded queue while the *)
(* host has subscribed, from which one thread sends them; else, and for    *)
(* log(), they go to a rolling logger, which setLogger replaces while they *)
(* come; else to logcat.  The static fields have no lock: each use of one  *)
(* reads it again.                                                         *)
(*                                                                         *)
(* RollingLogger has the inside of a logger; here one takes what comes     *)
(* until close() is called on it.                                          *)
(***************************************************************************)
EXTENDS Naturals, Sequences

CONSTANTS
  Threads,       \* threads of the app in which plugins run
  Main,         \* the app's main thread: initLog, once
  Api,           \* the agent's thread for the host's requests: set_logger
  MaxMessages,   \* bound: messages
  MaxLoggers,    \* bound: loggers ever made
  MaxRequests,   \* bound: calls of set_logger
  Capacity,      \* of messages: 8192
  MaxErrors      \* sends that may fail: 1024

ASSUME MessageAssumption ==
  /\ {MaxMessages, MaxLoggers, MaxRequests} \subseteq Nat
  /\ {Capacity, MaxErrors} \subseteq Nat \ {0}
  /\ Main # Api

VARIABLES
  subscribed,     \* instance.getSubscriberSize() > 0
  messages,       \* the queue
  sender,         \* the message the MessageSender has taken, 0, or Ended
  errCount,
  rollingLogger,  \* a logger, or None
  made,           \* number of loggers made
  running,        \* loggers that are not closed
  thread,         \* thread[t]: what t does with which message
  setting,        \* setting[s]: where the switcher s is in setLogger
  left,           \* bound: calls of setLogger to come
  fate,           \* fate[m]: what has become of message m
  disturbed       \* history: messages whose call a setLogger overlapped

logVars == <<rollingLogger, made, running>>
switchVars == <<setting, left>>
queueVars == <<messages, sender, errCount>>
vars == <<subscribed, queueVars, logVars, thread, switchVars, fate, disturbed>>

None == 0
Messages == 1..MaxMessages
Ended == MaxMessages + 1
Switchers == {Main, Api}
Idle == [at |-> "idle", msg |-> None]
Unused(m) == fate[m] = "none"
Switching == \E s \in Switchers : setting[s] # "idle"

Init ==
  /\ subscribed \in BOOLEAN
  /\ messages = <<>> /\ sender = None /\ errCount = 0
  /\ rollingLogger = None /\ made = 0 /\ running = {}
  /\ thread = [t \in Threads |-> Idle]
  /\ setting = [s \in Switchers |-> "idle"]
  /\ left = [s \in Switchers |-> IF s = Api THEN MaxRequests ELSE 1]
  /\ fate = [m \in Messages |-> "none"]
  /\ disturbed = {}

-----------------------------------------------------------------------------
(* The threads of plugins.                                                 *)

Goto(t, at) == thread' = [thread EXCEPT ![t].at = at]
\* The call returns, or raises: f is where its message is.
Over(t, f) ==
  /\ thread' = [thread EXCEPT ![t] = Idle]
  /\ fate' = [fate EXCEPT ![thread[t].msg] = f]
Logging == UNCHANGED <<subscribed, queueVars, logVars, switchVars, disturbed>>

\* at: "send" for the two send functions, "log" for the hook of a plugin's log().
Begin(t) ==
  /\ thread[t].at = "idle"
  /\ \E m \in Messages, at \in {"send", "log"} :
       /\ Unused(m) /\ \A n \in 1..(m - 1) : ~Unused(n)
       /\ thread' = [thread EXCEPT ![t] = [at |-> at, msg |-> m]]
       /\ fate' = [fate EXCEPT ![m] = "pending"]
       /\ disturbed' = IF Switching THEN disturbed \cup {m} ELSE disturbed
  /\ UNCHANGED <<subscribed, queueVars, logVars, switchVars>>

ReadSubscribers(t) ==
  /\ thread[t].at = "send"
  /\ Goto(t, IF subscribed THEN "offer" ELSE "logOrCat")
  /\ UNCHANGED fate /\ Logging

Offer(t) ==
  /\ thread[t].at = "offer"
  /\ IF Len(messages) < Capacity
     THEN messages' = Append(messages, thread[t].msg) /\ Over(t, "queued")
     ELSE UNCHANGED messages /\ Over(t, "logcat")
  /\ UNCHANGED <<subscribed, sender, errCount, logVars, switchVars, disturbed>>

\* rollingLogger is tested ...
TestLogger(t) ==
  /\ thread[t].at \in {"logOrCat", "log"}
  /\ IF rollingLogger # None THEN Goto(t, "write") /\ UNCHANGED fate
     ELSE Over(t, IF thread[t].at = "log" THEN "ignored" ELSE "logcat")
  /\ Logging

\* ... and read again: it may be null by now, or closed.
WriteLog(t) ==
  /\ thread[t].at = "write"
  /\ Over(t, IF rollingLogger = None THEN "raised"
             ELSE IF rollingLogger \in running THEN "logged" ELSE "refused")
  /\ Logging

Plugin(t) == Begin(t) \/ ReadSubscribers(t) \/ Offer(t) \/ TestLogger(t) \/ WriteLog(t)

-----------------------------------------------------------------------------
(* MessageSender.run.                                                      *)

Take ==
  /\ sender = None /\ messages # <<>>
  /\ sender' = Head(messages) /\ messages' = Tail(messages)
  /\ UNCHANGED <<subscribed, errCount, logVars, thread, switchVars, fate, disturbed>>

Sent ==
  /\ sender \in Messages
  /\ sender' = None
  /\ fate' = [fate EXCEPT ![sender] = "sent"]
  /\ UNCHANGED <<subscribed, messages, errCount, logVars, thread, switchVars, disturbed>>

\* Mutant: the thread ends with the first exception.
SendRaisesOnce ==
  /\ sender \in Messages
  /\ errCount' = errCount + 1
  /\ sender' = Ended
  /\ fate' = [fate EXCEPT ![sender] = "failed"]
  /\ UNCHANGED <<subscribed, messages, logVars, thread, switchVars, disturbed>>

\* After MaxErrors of them the thread ends.
SendRaises ==
  /\ sender \in Messages
  /\ errCount' = errCount + 1
  /\ sender' = IF errCount' < MaxErrors THEN None ELSE Ended
  /\ fate' = [fate EXCEPT ![sender] = "failed"]
  /\ UNCHANGED <<subscribed, messages, logVars, thread, switchVars, disturbed>>

Sender == Take \/ Sent \/ SendRaises

-----------------------------------------------------------------------------
(* setLogger, of the host's requests and of initLog when the app's context *)
(* is there.                                                               *)

At(s, from, to) == setting[s] = from /\ setting' = [setting EXCEPT ![s] = to]
PluginsWait == UNCHANGED <<subscribed, queueVars, thread, fate>>

\* appContextCreateInit: initLog only while there is no logger.
BeginSet(s) ==
  /\ At(s, "idle", "test")
  /\ s = Main => rollingLogger = None
  /\ left[s] > 0
  /\ left' = [left EXCEPT ![s] = @ - 1]
  /\ disturbed' = disturbed \cup {m \in Messages : fate[m] = "pending"}
  /\ UNCHANGED logVars /\ PluginsWait

\* setLogger's own test.
TestOld(s) ==
  /\ At(s, "test", IF rollingLogger # None THEN "close" ELSE "create")
  /\ UNCHANGED <<logVars, left, disturbed>> /\ PluginsWait

\* Read again; it raises when another setLogger has cleared it meanwhile.
CloseOld(s) ==
  /\ IF rollingLogger = None THEN At(s, "close", "idle") ELSE At(s, "close", "clear")
  /\ running' = running \ {rollingLogger}
  /\ UNCHANGED <<rollingLogger, made, left, disturbed>> /\ PluginsWait

\* Mutant: the closed logger stays until there is a new one.
ClearLate(s) ==
  /\ At(s, "clear", "create")
  /\ UNCHANGED <<logVars, left, disturbed>> /\ PluginsWait

Clear(s) ==
  /\ At(s, "clear", "create")
  /\ rollingLogger' = None
  /\ UNCHANGED <<made, running, left, disturbed>> /\ PluginsWait

Create(s) ==
  /\ At(s, "create", "idle")
  /\ made < MaxLoggers
  /\ made' = made + 1 /\ running' = running \cup {made'} /\ rollingLogger' = made'
  /\ UNCHANGED <<left, disturbed>> /\ PluginsWait

\* No directory, no package name, an IOException: there is no logger then.
CreateFails(s) ==
  /\ At(s, "create", "idle")
  /\ UNCHANGED <<logVars, left, disturbed>> /\ PluginsWait

Switch(s) == BeginSet(s) \/ TestOld(s) \/ CloseOld(s) \/ Clear(s) \/ Create(s) \/ CreateFails(s)

\* External: the host subscribes, or is gone.
Subscription ==
  /\ subscribed' = ~subscribed
  /\ UNCHANGED <<queueVars, logVars, thread, switchVars, fate, disturbed>>

Next ==
  \/ \E t \in Threads : Plugin(t)
  \/ Sender \/ Subscription
  \/ \E s \in Switchers : Switch(s)
Spec == Init /\ [][Next]_vars

\* The sender's thread runs.
FairSpec == Spec /\ WF_vars(Sender)

-----------------------------------------------------------------------------
(* Properties.                                                             *)

(* A message is refused by a closed logger, or its call raises a           *)
(* NullPointerException in the plugin, only if a setLogger overlapped the  *)
(* call: no way through two of them at a time, failing or not, leaves a    *)
(* closed logger in place.                                                 *)
LostOnlyWhileSwitching ==
  \A m \in Messages : fate[m] \in {"refused", "raised"} => m \in disturbed

(* What send() has queued is sent, or its sending raises, whatever failed  *)
(* before it: until MaxErrors have failed in the life of the thread.  Then *)
(* the queue fills, and only what does not fit any more is seen again, in  *)
(* logcat.                                                                 *)
QueuedIsSent ==
  \A m \in Messages : fate[m] = "queued" ~> fate[m] # "queued" \/ errCount = MaxErrors
=============================================================================
