--------------------------- MODULE RpcCallService ---------------------------
(***************************************************************************)
(* What a caller of the remote procedures is promised, whatever the        *)
(* connection does underneath: a call is made, the server carries it out   *)
(* at most once, and the call comes back with the answer to itself, or     *)
(* without an answer, or with an exception.  An exception promises nothing *)
(* about the server: a call that gave up may still be carried out later.   *)
(***************************************************************************)
EXTENDS Naturals

CONSTANTS MaxCalls   \* number of calls considered; a call is its number

Calls == 1..MaxCalls

VARIABLES
  state,      \* state[c]: how far call c is for its caller
  carried,    \* the calls the server has carried out
  answer      \* answer[c]: the calls whose replies the caller of c was given

svcVars == <<state, carried, answer>>

ServiceTypeOK ==
  /\ state \in [Calls -> {"none", "pending", "failed", "unanswered", "answered"}]
  /\ carried \in SUBSET Calls
  /\ answer \in [Calls -> SUBSET Calls]

ServiceInit ==
  /\ state = [c \in Calls |-> "none"]
  /\ carried = {}
  /\ answer = [c \in Calls |-> {}]

Make(c) ==
  /\ state[c] = "none"
  /\ state' = [state EXCEPT ![c] = "pending"]
  /\ UNCHANGED <<carried, answer>>

CarryOut(c) ==
  /\ state[c] # "none"
  /\ c \notin carried
  /\ carried' = carried \cup {c}
  /\ UNCHANGED <<state, answer>>

\* The caller gets the answer, which the server produced for this very call.
Answer(c) ==
  /\ state[c] = "pending"
  /\ c \in carried
  /\ state' = [state EXCEPT ![c] = "answered"]
  /\ answer' = [answer EXCEPT ![c] = {c}]
  /\ UNCHANGED carried

\* A call that expects no answer (or needs no server) is over, or it raised.
EndWithout(c, how) ==
  /\ state[c] = "pending"
  /\ how \in {"failed", "unanswered"}
  /\ state' = [state EXCEPT ![c] = how]
  /\ UNCHANGED <<carried, answer>>

ServiceNext ==
  \E c \in Calls :
    \/ Make(c)
    \/ CarryOut(c)
    \/ Answer(c)
    \/ \E how \in {"failed", "unanswered"} : EndWithout(c, how)

ServiceSpec == ServiceInit /\ [][ServiceNext]_svcVars
=============================================================================
