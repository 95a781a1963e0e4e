------------------------------ MODULE RpcCodec ------------------------------
(***************************************************************************)
(* How the host turns the arguments and results of calls into bytes and    *)
(* back (rpc_common.py): put_* and read_*, the parsers of results, the     *)
(* convertors of a broadcast's answer, and create_call_function, which     *)
(* binds positional, default and keyword arguments.                        *)
(*                                                                         *)
(* A value is the sequence of its cells: one cell for a number, the UTF-8  *)
(* bytes of a text (what JSON it may be is left out).  None, "" and empty  *)
(* bytes are all <<>>: the code tells them apart nowhere.                  *)
(***************************************************************************)
EXTENDS Integers, Sequences

CONSTANTS
  Base,   \* number of values of a byte, in the two bytes of a text's length: 256
  Cap     \* contents must be shorter than this to be framed: 2^24

ASSUME CodecAssumption == Base \in Nat \ {0, 1} /\ Cap \in Nat \ {0, 1}

None == <<>>
NUL == 0
Marker == Base * Base - 1    \* 0xffff
Width == [int |-> 4, float |-> 4, double |-> 8, long |-> 8, bool |-> 1, byte |-> 1]
Texts == {"str", "dict", "list"}
WireTypes == DOMAIN Width \cup Texts \cup {"bytes"}
IsValue(type, v) == v \in Seq(Int) /\ (type \in DOMAIN Width => Len(v) = 1)

Cell(data, i) == IF i \in DOMAIN data THEN data[i] ELSE 0
Slice(data, from, to) == SubSeq(data, from, IF to < Len(data) THEN to ELSE Len(data))
LengthField(n) == <<n % Base, n \div Base>>
Fixed(v, width) == [i \in 1..width |-> IF i = 1 THEN Cell(v, 1) ELSE 0]

-----------------------------------------------------------------------------
(* Arguments of calls: put_* , and read_* for those of broadcasts.         *)

PutString(text) ==
  IF text = None THEN <<0, 0>>
  ELSE LengthField(IF Len(text) > Marker THEN Marker ELSE Len(text)) \o text \o <<NUL>>

\* Mutant: the length is believed whatever it is.
ReadStringByLength(data, i) ==
  LET n == Cell(data, i) + Base * Cell(data, i + 1) IN
  IF n = 0 THEN [value |-> None, next |-> i + 2]
  ELSE [value |-> Slice(data, i + 2, i + 1 + n), next |-> i + 3 + n]

\* A longer text ends at the first NUL after its first Marker bytes.
ReadString(data, i) ==
  LET n == Cell(data, i) + Base * Cell(data, i + 1)
      ends == {j \in (i + 2 + Marker)..Len(data) : data[j] = NUL}
      len == IF n = Marker /\ ends # {} THEN (CHOOSE j \in ends : \A k \in ends : j <= k) - i - 2
             ELSE n IN
  IF n = 0 THEN [value |-> None, next |-> i + 2]
  ELSE [value |-> Slice(data, i + 2, i + 1 + len), next |-> i + 3 + len]

\* struct.pack takes no None, put_bool does.
CanPut(type, v) == type \in Texts \cup {"bytes", "bool"} \/ v # None
Put(type, v) ==
  IF type \in Texts THEN PutString(v)
  ELSE IF type = "bytes" THEN Fixed(<<Len(v)>>, 4) \o v
  ELSE Fixed(v, Width[type])

Read(type, data, i) ==
  IF type \in Texts THEN ReadString(data, i)
  ELSE IF type = "bytes"
    THEN [value |-> Slice(data, i + 4, i + 3 + Cell(data, i)), next |-> i + 4 + Cell(data, i)]
  ELSE [value |-> <<Cell(data, i)>>, next |-> i + Width[type]]

Encode(types, args) ==
  LET upTo[n \in 0..Len(args)] ==
        IF n = 0 THEN <<>> ELSE upTo[n - 1] \o Put(types[n], args[n]) IN
  upTo[Len(args)]

\* create_receive_function: one reader after the other.
Decode(types, data) ==
  LET upTo[n \in 0..Len(types)] ==
        IF n = 0 THEN [args |-> <<>>, next |-> 1]
        ELSE LET before == upTo[n - 1]
                 r == Read(types[n], data, before.next) IN
             [args |-> Append(before.args, r.value), next |-> r.next] IN
  upTo[Len(types)]

-----------------------------------------------------------------------------
(* create_call_function.  named: the keyword arguments, by the position    *)
(* their names have in the declaration.                                    *)

Missing(types, given) == Len(types) - Len(given)
\* With all positions given the names are not even looked at.
Accepts(types, defaults, given, named) ==
  /\ Len(given) <= Len(types)
  /\ Len(given) < Len(types) => Len(defaults) >= Missing(types, given)

\* Mutant: the first defaults instead of the last.
BindFirst(types, defaults, given, named) ==
  LET filled == given \o SubSeq(defaults, 1, Missing(types, given)) IN
  [i \in DOMAIN filled |-> IF i \in DOMAIN named THEN named[i] ELSE filled[i]]

Bind(types, defaults, given, named) ==
  LET filled == given \o SubSeq(defaults, Len(defaults) - Missing(types, given) + 1, Len(defaults)) IN
  IF Len(given) = Len(types) THEN given
  ELSE [i \in DOMAIN filled |-> IF i \in DOMAIN named THEN named[i] ELSE filled[i]]

\* What Python itself makes of such a call.
PythonAccepts(types, defaults, given, named) ==
  /\ Len(given) <= Len(types)
  /\ \A i \in DOMAIN types : i \in DOMAIN named => i > Len(given)
  /\ \A i \in DOMAIN types : i > Len(given) =>
       i \in DOMAIN named \/ i > Len(types) - Len(defaults)
PythonArgument(types, defaults, given, named, i) ==
  IF i <= Len(given) THEN given[i]
  ELSE IF i \in DOMAIN named THEN named[i]
  ELSE defaults[i - (Len(types) - Len(defaults))]

-----------------------------------------------------------------------------
(* Frames: command and length share one word, and the command is signed.   *)

\* Mutant: the command is forgotten where there is no content.
HeaderOfContent(command, data) ==
  IF data = None THEN 0 ELSE (IF command < 0 THEN 256 + command ELSE command) * Cap + Len(data)

Header(command, data) ==
  (IF command < 0 THEN 256 + command ELSE command) * Cap + Len(data)
Fits(header) == header < 256 * Cap
Command(header) == header \div Cap
Received(header, data) == SubSeq(data, 1, header % Cap)
Signed(command) == IF command >= 128 THEN command - 256 ELSE command

-----------------------------------------------------------------------------
(* Results.  members: the values of an enumeration.                        *)

Value(v) == [raised |-> FALSE, value |-> v]
Raised == [raised |-> TRUE, value |-> None]

ParseInt(members, result, data) ==
  IF result = -1 \/ Len(data) # 4 THEN Raised
  ELSE IF members # {} /\ data[1] \notin members THEN Raised ELSE Value(<<data[1]>>)
ParseText(data) == IF data = None THEN Raised ELSE Value(ReadString(data, 1).value)

\* AlbRpcMethod.__call__ raises for the three codes of err_desc first.
ErrorCodes == {-123, -122, -121}
ResultTypes == {"bool", "byte", "int", "str", "dict", "list", "subscribe", "pid", "processes", "void"}
Parse(type, members, result, data) ==
  IF result \in ErrorCodes THEN Raised
  ELSE CASE type = "bool" -> Value(<<IF result > 0 THEN 1 ELSE 0>>)
         [] type = "byte" -> IF members = {} \/ result \in members THEN Value(<<result>>) ELSE Raised
         [] type = "int" -> ParseInt(members, result, data)
         [] type = "str" -> ParseText(data)
         [] type \in {"dict", "list"} -> IF data = None THEN Value(None) ELSE ParseText(data)
         [] type = "subscribe" -> Value(IF result >= 0 THEN <<1>> ELSE None)
         [] type = "pid" -> IF result >= 0 THEN ParseInt({}, 0, data) ELSE Value(<<-1>>)
         [] type = "processes" -> IF result >= 0 THEN ParseText(data) ELSE Value(None)

-----------------------------------------------------------------------------
(* The answer to a broadcast: convert_*.                                   *)

SendEmpty == <<4>>    \* b'send empty'
Answer(command, data) == [command |-> command, data |-> data]

\* Mutant: a byte goes into the data like an int.
ConvertToData(type, command, v) == Answer(command, Fixed(v, Width[type]))

\* For the types that a declared broadcast returns; void has no convertor.
Convert(type, command, v) ==
  CASE type = "byte" -> Answer(v[1], None)
    [] type = "int" -> Answer(command, Fixed(v, Width[type]))
=============================================================================
