----------------------------- MODULE ApiClient -----------------------------
(***************************************************************************)
(* A client of the server's API: RpcMeta has made call_x, parse_x and      *)
(* receive_x for each declared x, __getattr__ looks x up in the table the  *)
(* server sent and keeps the method it makes, and the server may come back *)
(* with another table.  Calls are made one after the other (RpcChannel has *)
(* the threads); answers and broadcasts are followed down to their bytes.  *)
(***************************************************************************)
EXTENDS RpcCodec, HostApis

CONSTANTS
  Setups,     \* by name, what the client declares and what happens to it:
              \* apis, broadcasts, the table of names as the server numbers
              \* them, and the bounds calls, upgrades, heard and shifts
              \* (combinations of samples)
  Samples     \* Samples[type]: values given to arguments, as a sequence

\* The defaults are of the last arguments, and an enumeration has none of the error codes.
IsApi(api) ==
  /\ api.types \in Seq(WireTypes \cap DOMAIN Samples)
  /\ api.defaults \in Seq(Seq(Int)) /\ Len(api.defaults) <= Len(api.types)
  /\ \A i \in DOMAIN api.defaults :
       IsValue(api.types[i + Len(api.types) - Len(api.defaults)], api.defaults[i])
  /\ api.returns \in ResultTypes /\ api.members \subseteq Int \ ErrorCodes

ASSUME ApiAssumption ==
  /\ "str" \in DOMAIN Samples
  /\ \A type \in DOMAIN Samples :
       /\ Samples[type] \in Seq(Seq(Int)) \ {<<>>}
       /\ \A i \in DOMAIN Samples[type] : IsValue(type, Samples[type][i])
  /\ \A s \in DOMAIN Setups :
       /\ \A x \in DOMAIN Setups[s].apis : IsApi(Setups[s].apis[x]) /\ x \notin {"", "nothing"}
       /\ \A x \in DOMAIN Setups[s].broadcasts :
            IsApi(Setups[s].broadcasts[x]) /\ Setups[s].broadcasts[x].returns \in {"void", "byte", "int"}
       /\ Setups[s].table \in Seq(DOMAIN Setups[s].apis)
       /\ \A x \in DOMAIN Setups[s].apis : \E i \in DOMAIN Setups[s].table : Setups[s].table[i] = x
       /\ {Setups[s].calls, Setups[s].upgrades, Setups[s].heard, Setups[s].shifts} \subseteq Nat

VARIABLES
  setup,      \* the one of Setups that is looked at
  version,    \* which table the server has
  connected,  \* self.sock is a socket
  allowed,    \* version self.allow_apis is from, 0 when it is empty
  methods,    \* methods[x]: version the attribute x was made with, 0 before
  left,       \* bounds: calls and broadcasts to come
  call,       \* the call being made, or the last one
  broadcast   \* the last broadcast

vars == <<setup, version, connected, allowed, methods, left, call, broadcast>>

Apis == Setups[setup].apis
Broadcasts == Setups[setup].broadcasts
NotSent == [stage |-> "none", name |-> "", given |-> <<>>, named |-> <<>>, header |-> 0, data |-> <<>>,
            reached |-> "", seen |-> <<>>, meant |-> Raised, reply |-> Answer(0, None), outcome |-> Raised]
NotHeard == [name |-> "", sent |-> <<>>, got |-> <<>>, returned |-> Raised, asked |-> FALSE,
             answers |-> <<>>]

Init ==
  /\ setup \in DOMAIN Setups
  /\ version = 1
  /\ connected = TRUE
  /\ allowed = 1
  /\ methods = [x \in DOMAIN Apis |-> 0]
  /\ left = [calls |-> Setups[setup].calls, broadcasts |-> Setups[setup].heard]
  /\ call = NotSent
  /\ broadcast = NotHeard

\* External: the server numbers what it offers, and another version differently.
Names == Setups[setup].table
Id(x, v) == (CHOOSE i \in DOMAIN Names : Names[i] = x) + v - 1
NameOf(id, v) == IF id - v + 1 \in DOMAIN Names THEN Names[id - v + 1] ELSE ""

-----------------------------------------------------------------------------
(* The connection.                                                         *)

\* External: the server dies, to come back with another table.  on_close: forbid_call and close.
Upgrade ==
  /\ connected /\ call.stage # "sent" /\ version <= Setups[setup].upgrades
  /\ version' = version + 1
  /\ connected' = FALSE
  /\ allowed' = 0
  /\ UNCHANGED <<setup, methods, left, call, broadcast>>

\* Mutant: the table is not asked for again.
ReconnectForgets ==
  /\ ~connected
  /\ connected' = TRUE
  /\ allowed' = 0
  /\ UNCHANGED <<setup, version, methods, left, call, broadcast>>

\* connect and get_apis; the attributes of the client stay.
Reconnect ==
  /\ ~connected
  /\ connected' = TRUE
  /\ allowed' = version
  /\ UNCHANGED <<setup, version, methods, left, call, broadcast>>

-----------------------------------------------------------------------------
(* Calls.                                                                  *)

\* k positional arguments, and the one at position "at" by its name (0: none).
Sample(type, j) == Samples[type][(j % Len(Samples[type])) + 1]
Positional(x, k, shift) == [i \in 1..k |-> Sample(Apis[x].types[i], i + shift)]
Named(x, at, shift) ==
  [i \in (IF at = 0 THEN {} ELSE {at}) |-> Sample(Apis[x].types[i], i + shift + 1)]

\* __getattr__: an attribute already there is found without it.
Resolves(x) == methods[x] # 0 \/ allowed # 0
Version(x) == IF methods[x] # 0 THEN methods[x] ELSE allowed

Arguments(c) == Bind(Apis[c.name].types, Apis[c.name].defaults, c.given, c.named)
Encodes(c) ==
  /\ Accepts(Apis[c.name].types, Apis[c.name].defaults, c.given, c.named)
  /\ \A i \in DOMAIN Arguments(c) : CanPut(Apis[c.name].types[i], Arguments(c)[i])

\* A call that __getattr__ does not find does nothing.
CallRefused(c) ==
  /\ ~Resolves(c.name)
  /\ call' = [c EXCEPT !.stage = "raised"]
  /\ UNCHANGED methods

\* Others raise while they encode, for want of a socket or in struct.pack, or are sent.
CallMade(c) ==
  LET content == Encode(Apis[c.name].types, Arguments(c))
      header == Header(Id(c.name, Version(c.name)), content) IN
  /\ Resolves(c.name)
  /\ methods' = [methods EXCEPT ![c.name] = Version(c.name)]
  /\ call' = IF Encodes(c) /\ connected /\ Fits(header)
             THEN [c EXCEPT !.stage = "sent", !.header = header, !.data = content]
             ELSE [c EXCEPT !.stage = "raised"]

\* With fewer positional arguments the call is refused as with the fewest here.
Fewest(x) == Len(Apis[x].types) - Len(Apis[x].defaults) - 1
Call ==
  /\ call.stage # "sent" /\ left.calls > 0
  /\ left' = [left EXCEPT !.calls = @ - 1]
  /\ \E x \in DOMAIN Apis, shift \in 1..Setups[setup].shifts :
       \E k \in {n \in 0..Len(Apis[x].types) : n >= Fewest(x)} :
         \E at \in {0} \cup k..Len(Apis[x].types) :
           LET c == [NotSent EXCEPT !.name = x, !.given = Positional(x, k, shift),
                                    !.named = Named(x, at, shift)] IN
           CallRefused(c) \/ CallMade(c)
  /\ UNCHANGED <<setup, version, connected, allowed, broadcast>>

\* External: what a server may answer to a method of a type, and what it means.
Reply(meant, command, data) == [meant |-> meant, reply |-> Answer(command, data)]
NonEmptyTexts == {t \in {Samples["str"][i] : i \in DOMAIN Samples["str"]} : t # None}
Replies(type, members) ==
  {Reply(Raised, -121, None)} \cup
  CASE type = "bool" -> {Reply(Value(<<b>>), b, None) : b \in 0..1}
    [] type = "byte" -> {Reply(Value(<<b>>), b, None) : b \in IF members = {} THEN -1..1 ELSE members}
    [] type = "int" -> {Reply(Value(<<n>>), 0, Fixed(<<n>>, 4)) : n \in IF members = {} THEN -1..1 ELSE members}
    [] type = "str" -> {Reply(Value(t), 0, PutString(t)) : t \in NonEmptyTexts \cup {None}}
    [] type \in {"dict", "list"} -> {Reply(Value(t), 0, PutString(t)) : t \in NonEmptyTexts} \cup {Reply(Value(None), 0, None)}
    [] type = "processes" -> {Reply(Value(t), 0, PutString(t)) : t \in NonEmptyTexts} \cup {Reply(Value(None), -1, None)}
    [] type = "pid" -> {Reply(Value(<<9>>), 0, Fixed(<<9>>, 4)), Reply(Value(<<-1>>), -1, None)}
    [] type = "subscribe" -> {Reply(Value(<<1>>), 0, None), Reply(Value(None), -1, None)}
    [] type = "void" -> {Reply(Value(None), 0, None)}

\* The server takes the command, reads as much as the length says, and answers.
Serve ==
  LET reached == NameOf(Command(call.header), version) IN
  /\ call.stage = "sent" /\ call.reached = ""
  /\ IF reached = ""
     THEN call' = [call EXCEPT !.reached = "nothing", !.reply = Answer(-122, None)]
     ELSE \E r \in Replies(Apis[reached].returns, Apis[reached].members) :
            call' = [call EXCEPT !.reached = reached, !.meant = r.meant, !.reply = r.reply,
                       !.seen = Decode(Apis[reached].types, Received(call.header, call.data)).args]
  /\ UNCHANGED <<setup, version, connected, allowed, methods, left, broadcast>>

\* A call of a void method does not read, and returns before it looks for errors.
Return ==
  LET api == Apis[call.name] IN
  /\ call.stage = "sent" /\ call.reached # ""
  /\ call' = [call EXCEPT !.stage = "returned",
       !.outcome = IF api.returns = "void" THEN Value(None)
                   ELSE Parse(api.returns, api.members, call.reply.command, call.reply.data)]
  /\ UNCHANGED <<setup, version, connected, allowed, methods, left, broadcast>>

-----------------------------------------------------------------------------
(* Broadcasts: one turn of __subscribe_loop.                               *)

BroadcastResultNoHandler == -120

\* returned: what the handler returns, or Raised.  A method without a
\* convertor, and one that raised, answer with the broadcast's own number.
Response(x, command, returned) ==
  IF returned.raised \/ Broadcasts[x].returns = "void" THEN Answer(command, SendEmpty)
  ELSE Convert(Broadcasts[x].returns, command, returned.value)

\* Numbers of broadcasts, on both sides of the sign of a byte.
Numbers == {1, 127, 128}

\* asked: id is odd; offered: the server's table gives the number to a broadcast
\* with a handler; raises: that raises.  The table is by numbers without a sign,
\* and is searched for one with a sign: from 128 on no handler is found.
Hear ==
  \E x \in DOMAIN Broadcasts, shift \in 1..Setups[setup].shifts, number \in Numbers,
     asked \in BOOLEAN, offered \in BOOLEAN, raises \in BOOLEAN :
    LET types == Broadcasts[x].types
        command == Signed(number)
        known == offered /\ command = number
        sent == [i \in DOMAIN types |-> Sample(types[i], i + shift)] IN
    /\ connected /\ left.broadcasts > 0
    /\ left' = [left EXCEPT !.broadcasts = @ - 1]
    /\ \E v \in IF Broadcasts[x].returns = "byte" THEN {<<-1>>, <<1>>} ELSE {<<0>>, <<5>>} :
         LET returned == IF raises \/ ~known THEN Raised ELSE Value(v) IN
         broadcast' =
           [name |-> x, sent |-> sent, asked |-> asked, returned |-> returned,
            got |-> IF known THEN Decode(types, Encode(types, sent)).args ELSE sent,
            answers |-> IF ~asked THEN <<>>
                        ELSE IF ~known THEN <<Answer(BroadcastResultNoHandler, SendEmpty)>>
                        ELSE <<Response(x, command, returned)>>]
    /\ UNCHANGED <<setup, version, connected, allowed, methods, call>>

Next == Upgrade \/ Reconnect \/ Call \/ Serve \/ Return \/ Hear
Spec == Init /\ [][Next]_vars
-----------------------------------------------------------------------------
(* Properties.                                                             *)

TypeOK ==
  /\ setup \in DOMAIN Setups
  /\ version \in 1..Setups[setup].upgrades + 1
  /\ connected \in BOOLEAN
  /\ allowed \in {0, version} /\ (allowed = 0 <=> ~connected)
  /\ methods \in [DOMAIN Apis -> 0..version]
  /\ call.stage \in {"none", "raised", "sent", "returned"}
  /\ call.stage # "none" => call.name \in DOMAIN Apis
  /\ call.outcome.raised \in BOOLEAN
  /\ left.calls \in 0..Setups[setup].calls /\ left.broadcasts \in 0..Setups[setup].heard

Served == call.stage = "sent" /\ call.reached # ""

\* The method that runs on the server is the one that was called: the number
\* the client kept, and the command byte it shares a word with, name it.
\* Unless it was kept from another server's table, or the content is too
\* long for its 24 bits and carries into the command.
CallsReachTheirMethod ==
  Served /\ methods[call.name] = version /\ Len(call.data) < Cap => call.reached = call.name

\* A text is delimited by its length up to Marker bytes, by a NUL after that.
Delimited(text) == \A i \in DOMAIN text : i > Marker => text[i] # NUL

\* The method sees the arguments Python would have bound for it, and nothing
\* is left over: positional, named and default ones, of every declared type,
\* texts longer than their length can say included.
ArgumentsArrive ==
  LET api == Apis[call.name]
      meant == [i \in DOMAIN api.types |->
                  PythonArgument(api.types, api.defaults, call.given, call.named, i)] IN
  /\ Served /\ call.reached = call.name /\ Len(call.data) < Cap
  /\ PythonAccepts(api.types, api.defaults, call.given, call.named)
  /\ \A i \in DOMAIN meant : Delimited(meant[i])
  => /\ call.seen = meant
     /\ Decode(api.types, call.data).next = Len(call.data) + 1

\* What the server answers is what the caller gets, or an exception when it
\* reports one; only a void method's caller is told nothing of it.
ResultsArrive ==
  /\ call.stage = "returned" /\ call.reached = call.name
  /\ Apis[call.name].returns # "void" /\ Delimited(call.meant.value)
  => call.outcome = call.meant

\* A broadcast that asks for an answer gets one, which reads back as what the
\* handler returned, and is no byte -1 ("remove the intercept") by accident.
BroadcastsUnderstood ==
  LET b == broadcast
      type == Broadcasts[b.name].returns
      answer == b.answers[1] IN
  b.name # "" =>
    /\ Len(b.answers) = IF b.asked THEN 1 ELSE 0
    /\ (\A i \in DOMAIN b.sent : Delimited(b.sent[i])) => b.got = b.sent
    /\ b.asked /\ b.returned.raised => Signed(Command(Header(answer.command, answer.data))) # -1
    /\ b.asked /\ ~b.returned.raised =>
         CASE type = "byte" -> <<Signed(Command(Header(answer.command, answer.data)))>> = b.returned.value
           [] type = "int" -> <<answer.data[1]>> = b.returned.value
           [] type = "void" -> answer.data # None
=============================================================================
