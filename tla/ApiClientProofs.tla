-------------------------- MODULE ApiClientProofs --------------------------
(***************************************************************************)
(* A client of the server's API, for any declarations, tables, values and  *)
(* lengths: what is encoded is read back, and what is called is reached.   *)
(***************************************************************************)
EXTENDS ApiClient, SequenceTheorems, WellFoundedInduction, TLAPS

-----------------------------------------------------------------------------
(* Encode and Decode.                                                      *)

\* Induction, for sets: each property below is that of being in one.
LEMMA NatSets ==
  ASSUME NEW S, 0 \in S, \A n \in Nat : n \in S => n + 1 \in S
  PROVE  Nat \subseteq S
<1> SUFFICES ASSUME Nat \ S # {} PROVE FALSE
  OBVIOUS
<1>1. PICK x \in Nat \ S : \A y \in Nat \ S : ~(<<y, x>> \in OpToRel(<, Nat))
  BY NatLessThanWellFounded, WFMin
<1>2. \A y \in Nat \ S : ~(y < x)
  BY <1>1 DEF OpToRel
<1>3. x # 0 /\ x - 1 \in Nat /\ x - 1 < x /\ x - 1 + 1 = x
  OBVIOUS
<1>4. QED
  BY <1>2, <1>3

\* What Encode has written after each argument, and what Decode has read.
Written(types, args, f, k) ==
  f = [n \in 0..k |-> IF n = 0 THEN <<>> ELSE f[n - 1] \o Put(types[n], args[n])]
ReadOne(types, data, before, n) ==
  LET r == Read(types[n], data, before.next) IN [args |-> Append(before.args, r.value), next |-> r.next]
WasRead(types, data, f, k) ==
  f = [n \in 0..k |-> IF n = 0 THEN [args |-> <<>>, next |-> 1] ELSE ReadOne(types, data, f[n - 1], n)]

LEMMA WrittenExists ==
  ASSUME NEW types, NEW args, NEW k \in Nat
  PROVE  \E f : Written(types, args, f, k)
<1> DEFINE S == {j \in Nat : \E f : Written(types, args, f, j)}
<1>1. 0 \in S
  <2>1. Written(types, args, [n \in 0..0 |-> <<>>], 0)
    BY DEF Written
  <2>2. QED
    BY <2>1
<1>2. ASSUME NEW j \in Nat, j \in S PROVE j + 1 \in S
  <2>1. PICK f : Written(types, args, f, j)
    BY <1>2
  <2> DEFINE last == f[j] \o Put(types[j + 1], args[j + 1])
             g == [n \in 0..(j + 1) |-> IF n = j + 1 THEN last ELSE f[n]]
  <2>2. ASSUME NEW n \in 0..(j + 1)
        PROVE  g[n] = IF n = 0 THEN <<>> ELSE g[n - 1] \o Put(types[n], args[n])
    <3>1. CASE n = j + 1
      <4>1. n # 0 /\ n - 1 = j /\ j \in 0..(j + 1) /\ j # j + 1
        BY <3>1
      <4>2. QED
        BY <3>1, <4>1
    <3>2. CASE n \in 0..j
      <4>1. n # j + 1 /\ (n # 0 => n - 1 \in 0..(j + 1) /\ n - 1 # j + 1)
        BY <3>2
      <4>2. f[n] = IF n = 0 THEN <<>> ELSE f[n - 1] \o Put(types[n], args[n])
        BY <2>1, <3>2 DEF Written
      <4>3. QED
        BY <3>2, <4>1, <4>2
    <3>3. QED
      BY <3>1, <3>2
  <2>3. Written(types, args, g, j + 1)
    BY <2>2 DEF Written
  <2>4. QED
    BY <2>3
<1> HIDE DEF S
<1>3. Nat \subseteq S
  BY <1>1, <1>2, NatSets
<1>4. QED
  BY <1>3 DEF S

LEMMA WasReadExists ==
  ASSUME NEW types, NEW data, NEW k \in Nat
  PROVE  \E f : WasRead(types, data, f, k)
<1> DEFINE S == {j \in Nat : \E f : WasRead(types, data, f, j)}
           start == [args |-> <<>>, next |-> 1]
<1> HIDE DEF start
<1>1. 0 \in S
  <2>1. WasRead(types, data, [n \in 0..0 |-> start], 0)
    BY DEF WasRead, start
  <2>2. QED
    BY <2>1
<1>2. ASSUME NEW j \in Nat, j \in S PROVE j + 1 \in S
  <2>1. PICK f : WasRead(types, data, f, j)
    BY <1>2
  <2> DEFINE last == ReadOne(types, data, f[j], j + 1)
             g == [n \in 0..(j + 1) |-> IF n = j + 1 THEN last ELSE f[n]]
  <2>2. ASSUME NEW n \in 0..(j + 1)
        PROVE  g[n] = IF n = 0 THEN start ELSE ReadOne(types, data, g[n - 1], n)
    <3>1. CASE n = j + 1
      <4>1. n # 0 /\ n - 1 = j /\ j \in 0..(j + 1) /\ j # j + 1
        BY <3>1
      <4>2. QED
        BY <3>1, <4>1
    <3>2. CASE n \in 0..j
      <4>1. n # j + 1 /\ (n # 0 => n - 1 \in 0..(j + 1) /\ n - 1 # j + 1)
        BY <3>2
      <4>2. f[n] = IF n = 0 THEN start ELSE ReadOne(types, data, f[n - 1], n)
        BY <2>1, <3>2 DEF WasRead, start
      <4>3. QED
        BY <3>2, <4>1, <4>2
    <3>3. QED
      BY <3>1, <3>2
  <2>3. WasRead(types, data, g, j + 1)
    BY <2>2 DEF WasRead, start
  <2>4. QED
    BY <2>3
<1> HIDE DEF S
<1>3. Nat \subseteq S
  BY <1>1, <1>2, NatSets
<1>4. QED
  BY <1>3 DEF S

LEMMA EncodeIsLast ==
  ASSUME NEW types, NEW args, Len(args) \in Nat
  PROVE  \E f : Written(types, args, f, Len(args)) /\ Encode(types, args) = f[Len(args)]
<1> DEFINE f == CHOOSE u : u = [n \in 0..Len(args) |->
                  IF n = 0 THEN <<>> ELSE u[n - 1] \o Put(types[n], args[n])]
<1>1. Encode(types, args) = f[Len(args)]
  BY DEF Encode
<1>2. Written(types, args, f, Len(args))
  <2>1. PICK u : Written(types, args, u, Len(args))
    BY WrittenExists
  <2>2. QED
    BY <2>1 DEF Written
<1>3. QED
  BY <1>1, <1>2

LEMMA DecodeIsLast ==
  ASSUME NEW types, NEW data, Len(types) \in Nat
  PROVE  \E f : WasRead(types, data, f, Len(types)) /\ Decode(types, data) = f[Len(types)]
<1> DEFINE f == CHOOSE u : u = [n \in 0..Len(types) |->
                  IF n = 0 THEN [args |-> <<>>, next |-> 1]
                  ELSE LET before == u[n - 1]
                           r == Read(types[n], data, before.next) IN
                       [args |-> Append(before.args, r.value), next |-> r.next]]
<1>1. Decode(types, data) = f[Len(types)]
  BY DEF Decode
<1>2. WasRead(types, data, f, Len(types))
  <2>1. PICK u : WasRead(types, data, u, Len(types))
    BY WasReadExists
  <2>2. QED
    BY <2>1 DEF WasRead, ReadOne
<1>3. QED
  BY <1>1, <1>2

-----------------------------------------------------------------------------
(* One value.                                                              *)

LEMMA Widths ==
  ASSUME NEW type \in DOMAIN Width
  PROVE  /\ Width[type] \in Nat \ {0}
         /\ type \notin Texts \cup {"bytes"}
BY DEF Width, Texts

LEMMA TextIsNoNumber ==
  ASSUME NEW type \in WireTypes, type \notin DOMAIN Width, type \notin Texts
  PROVE  type = "bytes"
BY DEF WireTypes

LEMMA FixedIs ==
  ASSUME NEW v \in Seq(Int), Len(v) = 1, NEW w \in Nat \ {0}
  PROVE  /\ Fixed(v, w) \in Seq(Int)
         /\ Len(Fixed(v, w)) = w
         /\ Fixed(v, w)[1] = v[1]
<1>1. v[1] \in Int /\ 1 \in DOMAIN v
  OBVIOUS
<1>2. Cell(v, 1) = v[1]
  BY <1>1 DEF Cell
<1>3. Fixed(v, w) = [i \in 1..w |-> IF i = 1 THEN v[1] ELSE 0]
  BY <1>2 DEF Fixed
<1>4. \A i \in 1..w : (IF i = 1 THEN v[1] ELSE 0) \in Int
  BY <1>1
<1>5. Fixed(v, w) \in [1..w -> Int]
  BY <1>3, <1>4
<1>6. Fixed(v, w) \in Seq(Int)
  BY <1>5, SeqDef
<1>7. Len(Fixed(v, w)) = w
  BY <1>5, <1>6
<1>8. QED
  BY <1>3, <1>6, <1>7

LEMMA BaseFacts ==
  /\ Base \in Nat /\ Base >= 2
  /\ Marker \in Nat /\ Marker > 2
  /\ 0 % Base = 0 /\ 0 \div Base = 0
  /\ \A n \in Nat : n % Base \in Nat /\ n \div Base \in Nat /\ (n % Base) + Base * (n \div Base) = n
<1>1. Base \in Nat /\ Base >= 2
  BY CodecAssumption
<1>2. Marker \in Nat /\ Marker > 2
  BY <1>1 DEF Marker
<1>3. 0 % Base = 0 /\ 0 \div Base = 0
  BY <1>1
<1>4. ASSUME NEW n \in Nat
      PROVE  n % Base \in Nat /\ n \div Base \in Nat /\ (n % Base) + Base * (n \div Base) = n
  BY <1>1
<1>5. QED
  BY <1>1, <1>2, <1>3, <1>4

LEMMA TwoBefore ==
  ASSUME NEW front \in Seq(Int), NEW v \in Seq(Int), Len(front) = 2
  PROVE  /\ front \o v \in Seq(Int) /\ Len(front \o v) = Len(v) + 2
         /\ (front \o v)[1] = front[1] /\ (front \o v)[2] = front[2]
         /\ \A j \in 1..Len(v) : (front \o v)[j + 2] = v[j]
<1>0. /\ front \o v \in Seq(Int) /\ Len(front \o v) = Len(front) + Len(v)
      /\ \A j \in 1..Len(front) + Len(v) :
           (front \o v)[j] = IF j <= Len(front) THEN front[j] ELSE v[j - Len(front)]
  BY ConcatProperties
<1>1. front \o v \in Seq(Int) /\ Len(front \o v) = Len(v) + 2
  BY <1>0
<1>2. ASSUME NEW j \in 1..(Len(v) + 2)
      PROVE  (front \o v)[j] = IF j <= 2 THEN front[j] ELSE v[j - 2]
  BY <1>0
<1>3. ASSUME NEW j \in 1..Len(v) PROVE (front \o v)[j + 2] = v[j]
  <2>1. PICK k \in 1..(Len(v) + 2) : k = j + 2
    OBVIOUS
  <2>2. ~(k <= 2) /\ k - 2 = j
    BY <2>1
  <2>3. (front \o v)[k] = v[j]
    BY <1>2, <2>2
  <2>4. QED
    BY <2>1, <2>3
<1>4. 1 \in 1..(Len(v) + 2) /\ 2 \in 1..(Len(v) + 2)
  OBVIOUS
<1>5. QED
  BY <1>1, <1>2, <1>3, <1>4

LEMMA PutStringIs ==
  ASSUME NEW v \in Seq(Int), v # <<>>
  PROVE  LET n == IF Len(v) > Marker THEN Marker ELSE Len(v) IN
         /\ PutString(v) \in Seq(Int)
         /\ Len(PutString(v)) = Len(v) + 3
         /\ PutString(v)[1] = n % Base
         /\ PutString(v)[2] = n \div Base
         /\ \A j \in 1..Len(v) : PutString(v)[j + 2] = v[j]
         /\ PutString(v)[Len(v) + 3] = 0
<1> DEFINE n == IF Len(v) > Marker THEN Marker ELSE Len(v)
           front == LengthField(n)
<1>1. n \in Nat
  BY BaseFacts
<1> HIDE DEF n
<1>2. n % Base \in Int /\ n \div Base \in Int
  BY <1>1, BaseFacts
<1>3. front[1] = n % Base /\ front[2] = n \div Base
  BY DEF LengthField
<1>7. front \in Seq(Int) /\ Len(front) = 2
  BY <1>2 DEF LengthField
<1> HIDE DEF front
<1>4. PutString(v) = (front \o v) \o <<0>>
  BY DEF PutString, None, NUL, front, n
<1>5. /\ front \o v \in Seq(Int) /\ Len(front \o v) = Len(v) + 2
      /\ (front \o v)[1] = n % Base /\ (front \o v)[2] = n \div Base
      /\ \A j \in 1..Len(v) : (front \o v)[j + 2] = v[j]
  BY <1>3, <1>7, TwoBefore
<1>6. QED
  BY <1>4, <1>5 DEF n

LEMMA PutTypes ==
  ASSUME NEW type \in WireTypes, NEW v, IsValue(type, v)
  PROVE  Put(type, v) \in Seq(Int)
<1>0. v \in Seq(Int)
  BY DEF IsValue
<1>1. CASE type \in DOMAIN Width
  BY <1>0, <1>1, Widths, FixedIs DEF Put, IsValue
<1>2. CASE type \in Texts
  <2>1. CASE v = <<>>
    BY <1>2, <2>1 DEF Put, PutString, None
  <2>2. CASE v # <<>>
    BY <1>0, <1>2, <2>2, PutStringIs DEF Put
  <2>3. QED
    BY <2>1, <2>2
<1>3. CASE type \notin DOMAIN Width /\ type \notin Texts
  <2>1. type = "bytes" /\ "bytes" \notin Texts
    BY <1>3, TextIsNoNumber
  <2> DEFINE size == <<Len(v)>>
  <2>2. size \in Seq(Int) /\ Len(size) = 1
    BY <1>0
  <2>3. Put(type, v) = Fixed(size, 4) \o v
    BY <2>1 DEF Put
  <2> HIDE DEF size
  <2>4. Fixed(size, 4) \in Seq(Int)
    BY <2>2, FixedIs
  <2>5. QED
    BY <1>0, <2>3, <2>4
<1>4. QED
  BY <1>1, <1>2, <1>3

\* text stands in data from position i on.
Stands(data, text, i) ==
  /\ i + Len(text) - 1 <= Len(data)
  /\ \A j \in 1..Len(text) : data[i + j - 1] = text[j]

LEMMA SliceIs ==
  ASSUME NEW data \in Seq(Int), NEW text \in Seq(Int), NEW i \in Nat \ {0}, Stands(data, text, i)
  PROVE  Slice(data, i, i + Len(text) - 1) = text
<1> DEFINE s == SubSeq(data, i, i + Len(text) - 1)
<1>1. i + Len(text) - 1 <= Len(data) /\ i + Len(text) - 1 \in Int /\ Len(data) \in Nat
  BY DEF Stands
<1>2. Slice(data, i, i + Len(text) - 1) = s
  <2>1. i + Len(text) - 1 < Len(data) \/ i + Len(text) - 1 = Len(data)
    BY <1>1
  <2>2. QED
    BY <2>1 DEF Slice
<1>3. s \in Seq(Int) /\ Len(s) = Len(text)
  BY <1>1
<1>4. \A j \in 1..Len(text) : s[j] = text[j]
  BY <1>1 DEF Stands
<1>5. s = text
  BY <1>3, <1>4, SeqEqual
<1>6. QED
  BY <1>2, <1>5

LEMMA CellsStand ==
  ASSUME NEW data \in Seq(Int), NEW text \in Seq(Int), NEW i \in Nat \ {0}, Stands(data, text, i),
         NEW j \in 1..Len(text)
  PROVE  Cell(data, i + j - 1) = text[j]
<1>1. i + j - 1 \in DOMAIN data
  BY DEF Stands
<1>2. QED
  BY <1>1 DEF Stands, Cell

LEMMA TextStands ==
  ASSUME NEW data \in Seq(Int), NEW v \in Seq(Int), v # <<>>, NEW i \in Nat \ {0},
         Stands(data, PutString(v), i)
  PROVE  LET n == IF Len(v) > Marker THEN Marker ELSE Len(v) IN
         /\ Cell(data, i) + Base * Cell(data, i + 1) = n
         /\ Stands(data, v, i + 2)
         /\ i + 2 + Len(v) \in DOMAIN data
         /\ data[i + 2 + Len(v)] = 0
<1> DEFINE n == IF Len(v) > Marker THEN Marker ELSE Len(v)
<1>1. PICK p \in Seq(Int) : p = PutString(v)
  BY PutStringIs
<1>2. /\ Len(p) = Len(v) + 3 /\ p[1] = n % Base /\ p[2] = n \div Base
      /\ \A j \in 1..Len(v) : p[j + 2] = v[j]
      /\ p[Len(v) + 3] = 0
  BY <1>1, PutStringIs
<1>3. Stands(data, p, i)
  BY <1>1
<1>4. n \in Nat
  BY BaseFacts
<1> HIDE DEF n
<1>5. 1 \in 1..Len(p) /\ 2 \in 1..Len(p) /\ Len(v) + 3 \in 1..Len(p)
  BY <1>2
<1>6. Cell(data, i) = n % Base /\ Cell(data, i + 1) = n \div Base
  <2>1. i + 1 - 1 = i /\ i + 2 - 1 = i + 1
    OBVIOUS
  <2>2. Cell(data, i + 1 - 1) = p[1] /\ Cell(data, i + 2 - 1) = p[2]
    BY <1>3, <1>5, CellsStand
  <2>3. QED
    BY <1>2, <2>1, <2>2
<1>7. Cell(data, i) + Base * Cell(data, i + 1) = n
  BY <1>4, <1>6, BaseFacts
<1>8. i + Len(v) + 2 <= Len(data) /\ \A j \in 1..Len(p) : data[i + j - 1] = p[j]
  BY <1>2, <1>3 DEF Stands
<1>9. Stands(data, v, i + 2)
  <2>1. ASSUME NEW j \in 1..Len(v) PROVE data[i + 2 + j - 1] = v[j]
    <3>1. PICK k \in 1..Len(p) : k = j + 2
      BY <1>2
    <3>2. i + 2 + j - 1 = i + k - 1 /\ p[k] = v[j]
      BY <1>2, <3>1
    <3>3. QED
      BY <1>8, <3>2
  <2>2. QED
    BY <1>8, <2>1 DEF Stands
<1>10. i + 2 + Len(v) \in DOMAIN data
  BY <1>8
<1>11. data[i + 2 + Len(v)] = 0
  <2>1. PICK k \in 1..Len(p) : k = Len(v) + 3
    BY <1>5
  <2>2. i + 2 + Len(v) = i + k - 1 /\ p[k] = 0
    BY <1>2, <2>1
  <2>3. QED
    BY <1>8, <2>2
<1>12. QED
  BY <1>7, <1>9, <1>10, <1>11 DEF n

\* A text is read back, whatever its length: the first NUL after Marker bytes
\* is the one that was written after it.
LEMMA ReadStringPut ==
  ASSUME NEW data \in Seq(Int), NEW v \in Seq(Int), Delimited(v), NEW i \in Nat \ {0},
         Stands(data, PutString(v), i)
  PROVE  ReadString(data, i) = [value |-> v, next |-> i + Len(PutString(v))]
<1>1. CASE v = <<>>
  <2>0. PutString(v) = <<0, 0>> /\ <<0, 0>> \in Seq(Int)
    BY <1>1 DEF PutString, None
  <2>1. PICK p \in Seq(Int) : p = PutString(v) /\ p = <<0, 0>>
    BY <2>0
  <2>2. Len(p) = 2 /\ p[1] = 0 /\ p[2] = 0
    BY <2>1
  <2>3. Stands(data, p, i)
    BY <2>1
  <2>4. 1 \in 1..Len(p) /\ 2 \in 1..Len(p) /\ i + 1 - 1 = i /\ i + 2 - 1 = i + 1
    BY <2>2
  <2>5. Cell(data, i) = 0 /\ Cell(data, i + 1) = 0
    <3>1. Cell(data, i + 1 - 1) = p[1] /\ Cell(data, i + 2 - 1) = p[2]
      BY <2>3, <2>4, CellsStand
    <3>2. QED
      BY <2>2, <2>4, <3>1
  <2>6. Cell(data, i) + Base * Cell(data, i + 1) = 0
    BY <2>5, BaseFacts
  <2>7. ReadString(data, i) = [value |-> None, next |-> i + 2]
    BY <2>6 DEF ReadString
  <2>8. QED
    BY <1>1, <2>1, <2>2, <2>7 DEF None
<1>2. CASE v # <<>>
  <2> DEFINE n == Cell(data, i) + Base * Cell(data, i + 1)
             ends == {j \in (i + 2 + Marker)..Len(data) : data[j] = NUL}
             first == CHOOSE j \in ends : \A k \in ends : j <= k
             len == IF n = Marker /\ ends # {} THEN first - i - 2 ELSE n
  <2>1. n = (IF Len(v) > Marker THEN Marker ELSE Len(v))
    BY <1>2, TextStands
  <2>2. Stands(data, v, i + 2) /\ i + 2 + Len(v) \in DOMAIN data /\ data[i + 2 + Len(v)] = 0
    BY <1>2, TextStands
  <2>3. Len(v) \in Nat \ {0} /\ Marker \in Nat \ {0}
    BY <1>2, BaseFacts
  <2>4. ReadString(data, i) =
          IF n = 0 THEN [value |-> None, next |-> i + 2]
          ELSE [value |-> Slice(data, i + 2, i + 1 + len), next |-> i + 3 + len]
    BY DEF ReadString
  <2> HIDE DEF n, first
  <2>5. n # 0
    BY <2>1, <2>3
  <2>6. len = Len(v)
    <3>1. CASE Len(v) < Marker
      BY <2>1, <2>3, <3>1
    <3>2. CASE Len(v) >= Marker
      <4>1. n = Marker
        BY <2>1, <2>3, <3>2
      <4> DEFINE last == i + 2 + Len(v)
      <4>2. last \in ends
        BY <2>2, <2>3, <3>2 DEF NUL
      <4>3. ASSUME NEW j \in ends, j < last PROVE FALSE
        <5>1. j \in Int /\ j >= i + 2 + Marker /\ data[j] = 0
          BY <2>3 DEF NUL
        <5>2. PICK m \in Int : m = j - i - 1
          BY <5>1
        <5>3. m \in 1..Len(v) /\ m > Marker /\ j = i + 2 + m - 1
          BY <2>3, <4>3, <5>1, <5>2
        <5>4. v[m] = 0
          BY <2>2, <5>1, <5>3 DEF Stands
        <5>5. QED
          BY <5>3, <5>4 DEF Delimited, NUL
      <4>4. last \in Int /\ ends \subseteq Int
        BY <2>3
      <4>5. \A k \in ends : last <= k
        BY <4>3, <4>4
      <4>6. first \in ends /\ \A k \in ends : first <= k
        BY <4>2, <4>5 DEF first
      <4>7. first = last
        BY <4>2, <4>3, <4>4, <4>6
      <4>8. QED
        BY <2>3, <4>1, <4>2, <4>7
    <3>3. Len(v) < Marker \/ Len(v) >= Marker
      BY <2>3
    <3>4. QED
      BY <3>1, <3>2, <3>3, Zenon
  <2> HIDE DEF len
  <2>7. Slice(data, i + 2, i + 1 + len) = v
    <3>1. i + 2 \in Nat \ {0} /\ i + 2 + Len(v) - 1 = i + 1 + len
      BY <2>3, <2>6
    <3>2. Slice(data, i + 2, i + 2 + Len(v) - 1) = v
      BY <2>2, <3>1, SliceIs
    <3>3. QED
      BY <3>1, <3>2
  <2>8. i + 3 + len = i + Len(PutString(v))
    <3>1. Len(PutString(v)) = Len(v) + 3
      BY <1>2, PutStringIs
    <3>2. QED
      BY <2>3, <2>6, <3>1
  <2>9. QED
    BY <2>4, <2>5, <2>7, <2>8
<1>3. QED
  BY <1>1, <1>2

\* A reader reads what the writer of its type wrote, and goes on after it.
LEMMA ReadPut ==
  ASSUME NEW type \in WireTypes, NEW v, IsValue(type, v), Delimited(v),
         NEW data \in Seq(Int), NEW i \in Nat \ {0}, Stands(data, Put(type, v), i)
  PROVE  Read(type, data, i) = [value |-> v, next |-> i + Len(Put(type, v))]
<1>0. v \in Seq(Int)
  BY DEF IsValue
<1>1. CASE type \in Texts
  BY <1>0, <1>1, ReadStringPut DEF Put, Read
<1>2. CASE type \in DOMAIN Width
  <2>1. Width[type] \in Nat \ {0} /\ type \notin Texts \cup {"bytes"} /\ Len(v) = 1
    BY <1>2, Widths DEF IsValue
  <2>2. PICK p \in Seq(Int) : p = Fixed(v, Width[type]) /\ Len(p) = Width[type] /\ p[1] = v[1]
    BY <1>0, <2>1, FixedIs
  <2>3. Put(type, v) = p /\ Read(type, data, i) = [value |-> <<Cell(data, i)>>, next |-> i + Width[type]]
    BY <2>1, <2>2 DEF Put, Read
  <2>4. Cell(data, i) = v[1]
    <3>1. 1 \in 1..Len(p) /\ i + 1 - 1 = i
      BY <2>1, <2>2
    <3>2. Cell(data, i + 1 - 1) = p[1]
      BY <2>3, <3>1, CellsStand
    <3>3. QED
      BY <2>2, <3>1, <3>2
  <2>5. <<v[1]>> = v
    BY <1>0, <2>1
  <2>6. QED
    BY <2>2, <2>3, <2>4, <2>5
<1>3. CASE type \notin DOMAIN Width /\ type \notin Texts
  <2>1. type = "bytes" /\ "bytes" \notin Texts
    BY <1>3, TextIsNoNumber
  <2> DEFINE sizeOfV == <<Len(v)>>
  <2>0. sizeOfV \in Seq(Int)
    BY <1>0
  <2> HIDE DEF sizeOfV
  <2>2. PICK size \in Seq(Int) : size = sizeOfV
    BY <2>0
  <2>3. Len(size) = 1 /\ size[1] = Len(v)
    BY <2>2 DEF sizeOfV
  <2>16. PICK w \in Nat \ {0} : w = 4
    OBVIOUS
  <2>4. PICK front \in Seq(Int) : front = Fixed(size, w) /\ Len(front) = w /\ front[1] = size[1]
    BY <2>3, FixedIs
  <2>5. Len(front) = 4 /\ front[1] = Len(v)
    BY <2>3, <2>4, <2>16
  <2>17. front \o v \in Seq(Int)
    BY <1>0, ConcatProperties
  <2>6. PICK p \in Seq(Int) : p = front \o v
    BY <2>17
  <2>7. Put(type, v) = p
    BY <2>1, <2>2, <2>4, <2>6, <2>16 DEF Put, sizeOfV
  <2>8. /\ Len(p) = Len(front) + Len(v)
        /\ \A j \in 1..Len(front) + Len(v) : p[j] = IF j <= Len(front) THEN front[j] ELSE v[j - Len(front)]
    BY <1>0, <2>6, ConcatProperties
  <2>9. Cell(data, i) = Len(v)
    <3>1. 1 \in 1..Len(p) /\ 1 <= Len(front) /\ 1 \in 1..Len(front) + Len(v) /\ i + 1 - 1 = i
      BY <1>0, <2>5, <2>8
    <3>2. Cell(data, i + 1 - 1) = p[1]
      BY <2>7, <3>1, CellsStand
    <3>3. p[1] = Len(v)
      BY <2>5, <2>8, <3>1
    <3>4. QED
      BY <3>1, <3>2, <3>3
  <2>10. Stands(data, v, i + 4)
    <3>1. ASSUME NEW j \in 1..Len(v) PROVE data[i + 4 + j - 1] = v[j]
      <4>7. Len(front) \in Nat /\ Len(v) \in Nat /\ Len(p) = Len(front) + Len(v)
        BY <1>0, <2>8
      <4>1. PICK k \in 1..Len(p) : k = j + Len(front)
        BY <4>7
      <4>2. ~(k <= Len(front)) /\ k - Len(front) = j /\ k \in 1..Len(front) + Len(v)
        BY <2>8, <4>1
      <4>3. p[k] = v[j]
        BY <2>8, <4>2
      <4>4. i + 4 + j - 1 = i + k - 1
        BY <2>5, <4>1
      <4>5. data[i + k - 1] = p[k]
        BY <2>7 DEF Stands
      <4>6. QED
        BY <4>3, <4>4, <4>5
    <3>2. i + 4 + Len(v) - 1 <= Len(data)
      BY <1>0, <2>5, <2>7, <2>8 DEF Stands
    <3>3. QED
      BY <3>1, <3>2 DEF Stands
  <2>11. Slice(data, i + 4, i + 3 + Len(v)) = v
    <3>1. i + 4 \in Nat \ {0} /\ i + 4 + Len(v) - 1 = i + 3 + Len(v)
      BY <1>0
    <3>2. Slice(data, i + 4, i + 4 + Len(v) - 1) = v
      BY <1>0, <2>10, <3>1, SliceIs
    <3>3. QED
      BY <3>1, <3>2
  <2>12. Read(type, data, i) = [value |-> Slice(data, i + 4, i + 3 + Len(v)), next |-> i + 4 + Len(v)]
    BY <2>1, <2>9 DEF Read
  <2>13. i + 4 + Len(v) = i + Len(p)
    BY <1>0, <2>5, <2>8
  <2>14. QED
    BY <2>7, <2>11, <2>12, <2>13
<1>4. QED
  BY <1>1, <1>2, <1>3

-----------------------------------------------------------------------------
(* All arguments, one after the other.                                     *)

AreArguments(types, args) ==
  /\ types \in Seq(WireTypes) /\ args \in Seq(Seq(Int)) /\ Len(args) = Len(types)
  /\ \A i \in 1..Len(args) : IsValue(types[i], args[i])

Prefix(s, t) == Len(s) <= Len(t) /\ \A j \in 1..Len(s) : t[j] = s[j]

\* t is s with p after it.
Follows(t, s, p) == t = s \o p

LEMMA WrittenSteps ==
  ASSUME NEW types, NEW args, NEW f, Len(args) \in Nat, Written(types, args, f, Len(args))
  PROVE  f[0] = <<>> /\ \A n \in 1..Len(args) : Follows(f[n], f[n - 1], Put(types[n], args[n]))
<1>1. f[0] = <<>>
  BY DEF Written
<1>2. ASSUME NEW n \in 1..Len(args) PROVE Follows(f[n], f[n - 1], Put(types[n], args[n]))
  <2>1. n \in 0..Len(args) /\ n # 0
    OBVIOUS
  <2>2. f[n] = IF n = 0 THEN <<>> ELSE f[n - 1] \o Put(types[n], args[n])
    BY <2>1 DEF Written
  <2>3. QED
    BY <2>1, <2>2 DEF Follows
<1>3. QED
  BY <1>1, <1>2

LEMMA ConcatPrefix ==
  ASSUME NEW s \in Seq(Int), NEW p \in Seq(Int), NEW t, Follows(t, s, p)
  PROVE  /\ t \in Seq(Int) /\ Len(t) = Len(s) + Len(p)
         /\ Prefix(s, t) /\ Stands(t, p, Len(s) + 1)
<1>1. /\ s \o p \in Seq(Int) /\ Len(s \o p) = Len(s) + Len(p)
      /\ \A j \in 1..Len(s) + Len(p) : (s \o p)[j] = IF j <= Len(s) THEN s[j] ELSE p[j - Len(s)]
  BY ConcatProperties
<1>2. Prefix(s, s \o p)
  BY <1>1 DEF Prefix
<1>3. ASSUME NEW j \in 1..Len(p) PROVE (s \o p)[Len(s) + 1 + j - 1] = p[j]
  <2>1. PICK k \in 1..Len(s) + Len(p) : k = Len(s) + j
    OBVIOUS
  <2>2. ~(k <= Len(s)) /\ k - Len(s) = j /\ Len(s) + 1 + j - 1 = k
    BY <2>1
  <2>3. QED
    BY <1>1, <2>2
<1>4. Len(s) + 1 + Len(p) - 1 <= Len(s \o p)
  BY <1>1
<1>5. Stands(s \o p, p, Len(s) + 1)
  BY <1>3, <1>4 DEF Stands
<1>6. t = s \o p
  BY DEF Follows
<1>7. QED
  BY <1>1, <1>2, <1>5, <1>6

LEMMA WrittenTypes ==
  ASSUME NEW types, NEW args, AreArguments(types, args), NEW f, Written(types, args, f, Len(args))
  PROVE  \A n \in 0..Len(args) : f[n] \in Seq(Int)
<1> DEFINE S == {n \in Nat : n <= Len(args) => f[n] \in Seq(Int)}
<1>0. Len(args) \in Nat /\ \A n \in 1..Len(args) : types[n] \in WireTypes /\ IsValue(types[n], args[n])
  BY DEF AreArguments
<1>4. f[0] = <<>> /\ \A m \in 1..Len(args) : Follows(f[m], f[m - 1], Put(types[m], args[m]))
  BY <1>0, WrittenSteps
<1>1. 0 \in S
  <2>1. <<>> \in Seq(Int)
    OBVIOUS
  <2>2. QED
    BY <1>4, <2>1
<1>2. ASSUME NEW n \in Nat, n \in S PROVE n + 1 \in S
  <2> SUFFICES ASSUME n + 1 <= Len(args) PROVE f[n + 1] \in Seq(Int)
    OBVIOUS
  <2>1. PICK m \in 1..Len(args) : m = n + 1 /\ m - 1 = n
    BY <1>0
  <2>2. f[n] \in Seq(Int)
    BY <1>0, <1>2
  <2>3. Put(types[m], args[m]) \in Seq(Int)
    BY <1>0, PutTypes
  <2>4. Follows(f[m], f[n], Put(types[m], args[m]))
    BY <1>4, <2>1
  <2>5. f[m] \in Seq(Int)
    BY <2>2, <2>3, <2>4, ConcatPrefix
  <2>6. QED
    BY <2>1, <2>5
<1> HIDE DEF S
<1>3. Nat \subseteq S
  BY <1>1, <1>2, NatSets
<1>5. QED
  BY <1>0, <1>3 DEF S

LEMMA WrittenStands ==
  ASSUME NEW types, NEW args, AreArguments(types, args), NEW f, Written(types, args, f, Len(args)),
         NEW n \in 1..Len(args)
  PROVE  Stands(f[Len(args)], Put(types[n], args[n]), Len(f[n - 1]) + 1)
<1> DEFINE S == {m \in Nat : m \in n..Len(args) => Prefix(f[n], f[m])}
           put(m) == Put(types[m], args[m])
<1>0. Len(args) \in Nat /\ \A m \in 1..Len(args) : types[m] \in WireTypes /\ IsValue(types[m], args[m])
  BY DEF AreArguments
<1>1. \A m \in 0..Len(args) : f[m] \in Seq(Int)
  BY WrittenTypes
<1>2. \A m \in 1..Len(args) : put(m) \in Seq(Int)
  BY <1>0, PutTypes
<1>3. \A m \in 1..Len(args) : Follows(f[m], f[m - 1], put(m))
  BY <1>0, WrittenSteps
<1> HIDE DEF put
<1>4. \A m \in 1..Len(args) : Prefix(f[m - 1], f[m]) /\ Stands(f[m], put(m), Len(f[m - 1]) + 1)
  <2>1. ASSUME NEW m \in 1..Len(args)
        PROVE  Prefix(f[m - 1], f[m]) /\ Stands(f[m], put(m), Len(f[m - 1]) + 1)
    <3>1. m - 1 \in 0..Len(args)
      OBVIOUS
    <3>2. f[m - 1] \in Seq(Int) /\ put(m) \in Seq(Int) /\ Follows(f[m], f[m - 1], put(m))
      BY <1>1, <1>2, <1>3, <3>1
    <3>3. QED
      BY <3>2, ConcatPrefix
  <2>2. QED
    BY <2>1
<1>5. 0 \in S
  OBVIOUS
<1>6. ASSUME NEW m \in Nat, m \in S PROVE m + 1 \in S
  <2> SUFFICES ASSUME m + 1 \in n..Len(args) PROVE Prefix(f[n], f[m + 1])
    OBVIOUS
  <2>1. PICK k \in 1..Len(args) : k = m + 1 /\ k - 1 = m
    BY <1>0
  <2>2. n \in 0..Len(args) /\ k \in 0..Len(args) /\ (n = k \/ m \in n..Len(args))
    BY <2>1
  <2>3. f[n] \in Seq(Int) /\ f[k] \in Seq(Int)
    BY <1>1, <2>2
  <2>4. CASE n = k
    BY <2>1, <2>3, <2>4 DEF Prefix
  <2>5. CASE m \in n..Len(args)
    <3>1. m \in 0..Len(args)
      BY <2>5
    <3>2. PICK a \in Seq(Int), b \in Seq(Int), c \in Seq(Int) : a = f[n] /\ b = f[m] /\ c = f[k]
      BY <1>1, <2>3, <3>1
    <3>3. Prefix(a, b) /\ Prefix(b, c)
      BY <1>4, <1>6, <2>1, <2>5, <3>2
    <3>4. Prefix(a, c)
      BY <3>3 DEF Prefix
    <3>5. QED
      BY <2>1, <3>2, <3>4
  <2>6. QED
    BY <2>2, <2>4, <2>5
<1> HIDE DEF S
<1>7. Nat \subseteq S
  BY <1>5, <1>6, NatSets
<1>8. Prefix(f[n], f[Len(args)])
  BY <1>0, <1>7 DEF S
<1>9. n \in 0..Len(args) /\ n - 1 \in 0..Len(args) /\ Len(args) \in 0..Len(args)
  BY <1>0
<1>10. PICK a \in Seq(Int), b \in Seq(Int), c \in Seq(Int), p \in Seq(Int) :
         a = f[n - 1] /\ b = f[n] /\ c = f[Len(args)] /\ p = put(n)
  BY <1>1, <1>2, <1>9
<1>11. Prefix(b, c) /\ Stands(b, p, Len(a) + 1)
  BY <1>4, <1>8, <1>10
<1>12. Stands(c, p, Len(a) + 1)
  <2>1. ASSUME NEW j \in 1..Len(p) PROVE c[Len(a) + 1 + j - 1] = p[j]
    <3>1. PICK i \in 1..Len(b) : i = Len(a) + 1 + j - 1
      BY <1>11 DEF Stands
    <3>2. QED
      BY <1>11, <3>1 DEF Stands, Prefix
  <2>2. QED
    BY <1>11, <2>1 DEF Stands, Prefix
<1>13. QED
  BY <1>10, <1>12 DEF put

\* What a method's parser makes of what the caller's method wrote: the arguments, and nothing is left.
LEMMA RoundTrip ==
  ASSUME NEW types, NEW args, AreArguments(types, args), \A i \in 1..Len(args) : Delimited(args[i])
  PROVE  /\ Encode(types, args) \in Seq(Int)
         /\ Decode(types, Encode(types, args)) = [args |-> args, next |-> Len(Encode(types, args)) + 1]
<1>0. /\ Len(args) \in Nat /\ Len(types) = Len(args) /\ args \in Seq(Seq(Int))
      /\ \A n \in 1..Len(args) : types[n] \in WireTypes /\ IsValue(types[n], args[n])
  BY DEF AreArguments
<1>1. PICK f : Written(types, args, f, Len(args)) /\ Encode(types, args) = f[Len(args)]
  BY <1>0, EncodeIsLast
<1>2. \A n \in 0..Len(args) : f[n] \in Seq(Int)
  BY <1>1, WrittenTypes
<1>12. f[0] = <<>> /\ \A n \in 1..Len(args) : Follows(f[n], f[n - 1], Put(types[n], args[n]))
  BY <1>0, <1>1, WrittenSteps
<1>3. PICK data \in Seq(Int) : data = Encode(types, args) /\ data = f[Len(args)]
  BY <1>0, <1>1, <1>2
<1>4. PICK d : WasRead(types, data, d, Len(args)) /\ Decode(types, data) = d[Len(args)]
  BY <1>0, DecodeIsLast
<1> DEFINE Good(k) == \E seen \in Seq(Seq(Int)) :
             /\ d[k] = [args |-> seen, next |-> Len(f[k]) + 1]
             /\ Len(seen) = k
             /\ \A j \in 1..k : seen[j] = args[j]
           S == {k \in Nat : k <= Len(args) => Good(k)}
<1> HIDE DEF Good
<1>5. 0 \in S
  <2>1. d[0] = [args |-> <<>>, next |-> 1]
    BY <1>0, <1>4 DEF WasRead
  <2>2. f[0] = <<>> /\ <<>> \in Seq(Seq(Int)) /\ Len(<<>>) = 0 /\ 0 + 1 = 1
    BY <1>12
  <2>3. d[0] = [args |-> <<>>, next |-> Len(f[0]) + 1] /\ \A j \in 1..0 : <<>>[j] = args[j]
    BY <2>1, <2>2
  <2>4. Good(0)
    BY <2>2, <2>3 DEF Good
  <2>5. QED
    BY <2>4
<1>6. ASSUME NEW k \in Nat, k \in S PROVE k + 1 \in S
  <2> SUFFICES ASSUME k + 1 <= Len(args) PROVE Good(k + 1)
    OBVIOUS
  <2>1. PICK n \in 1..Len(args) : n = k + 1 /\ n - 1 = k
    BY <1>0
  <2>2. PICK seen \in Seq(Seq(Int)) :
          /\ d[k] = [args |-> seen, next |-> Len(f[k]) + 1]
          /\ Len(seen) = k
          /\ \A j \in 1..k : seen[j] = args[j]
    <3>1. k <= Len(args)
      BY <1>0
    <3>2. Good(k)
      BY <1>6, <3>1
    <3>3. QED
      BY <3>2 DEF Good
  <2> DEFINE put == Put(types[n], args[n])
  <2>3. put \in Seq(Int)
    BY <1>0, PutTypes
  <2>4. k \in 0..Len(args) /\ n \in 0..Len(args) /\ n # 0
    BY <1>0, <2>1
  <2>5. f[k] \in Seq(Int) /\ f[n] \in Seq(Int)
    BY <1>2, <2>4
  <2>6. Follows(f[n], f[k], put)
    BY <1>12, <2>1
  <2>7. Stands(data, put, Len(f[k]) + 1)
    BY <1>1, <1>3, <2>1, WrittenStands
  <2>8. Read(types[n], data, Len(f[k]) + 1) = [value |-> args[n], next |-> Len(f[k]) + 1 + Len(put)]
    <3>1. PICK i \in Nat \ {0} : i = Len(f[k]) + 1
      BY <2>5
    <3>2. Stands(data, put, i) /\ Delimited(args[n]) /\ types[n] \in WireTypes /\ IsValue(types[n], args[n])
      BY <1>0, <2>7, <3>1
    <3>3. Read(types[n], data, i) = [value |-> args[n], next |-> i + Len(put)]
      BY <3>2, ReadPut
    <3>4. QED
      BY <3>1, <3>3
  <2>9. d[n] = ReadOne(types, data, d[k], n)
    BY <1>4, <2>1, <2>4 DEF WasRead
  <2> HIDE DEF put
  <2>10. d[n] = [args |-> Append(seen, args[n]), next |-> Len(f[k]) + 1 + Len(put)]
    <3> DEFINE before == [args |-> seen, next |-> Len(f[k]) + 1]
               r == Read(types[n], data, before.next)
    <3>1. r = [value |-> args[n], next |-> Len(f[k]) + 1 + Len(put)]
      BY <2>8
    <3>2. ReadOne(types, data, before, n) = [args |-> Append(before.args, r.value), next |-> r.next]
      BY DEF ReadOne
    <3> HIDE DEF r
    <3>3. ReadOne(types, data, before, n) = [args |-> Append(seen, args[n]), next |-> Len(f[k]) + 1 + Len(put)]
      BY <3>1, <3>2
    <3>4. QED
      BY <2>2, <2>9, <3>3
  <2>11. Len(f[n]) = Len(f[k]) + Len(put)
    BY <2>3, <2>5, <2>6, ConcatPrefix
  <2>12. Len(f[k]) + 1 + Len(put) = Len(f[n]) + 1
    BY <2>3, <2>5, <2>11
  <2>13. PICK more \in Seq(Seq(Int)) :
           /\ more = Append(seen, args[n])
           /\ Len(more) = Len(seen) + 1
           /\ \A j \in 1..Len(seen) : more[j] = seen[j]
           /\ more[Len(seen) + 1] = args[n]
    <3>1. args[n] \in Seq(Int)
      BY <1>0
    <3>2. /\ Append(seen, args[n]) \in Seq(Seq(Int))
          /\ Len(Append(seen, args[n])) = Len(seen) + 1
          /\ \A j \in 1..Len(seen) : Append(seen, args[n])[j] = seen[j]
          /\ Append(seen, args[n])[Len(seen) + 1] = args[n]
      BY <3>1, AppendProperties
    <3>3. QED
      BY <3>2
  <2>14. Len(more) = n /\ \A j \in 1..n : more[j] = args[j]
    <3>1. Len(more) = n
      BY <2>1, <2>2, <2>13
    <3>2. ASSUME NEW j \in 1..n PROVE more[j] = args[j]
      <4>1. j = n \/ j \in 1..k
        BY <2>1
      <4>2. CASE j = n
        BY <2>1, <2>2, <2>13, <4>2
      <4>3. CASE j \in 1..k
        <5>1. more[j] = seen[j]
          BY <2>2, <2>13, <4>3
        <5>2. QED
          BY <2>2, <4>3, <5>1
      <4>4. QED
        BY <4>1, <4>2, <4>3
    <3>3. QED
      BY <3>1, <3>2
  <2>15. d[n] = [args |-> more, next |-> Len(f[n]) + 1]
    BY <2>10, <2>12, <2>13
  <2>16. Good(n)
    BY <2>14, <2>15 DEF Good
  <2>17. QED
    BY <2>1, <2>16
<1> HIDE DEF S
<1>7. Nat \subseteq S
  BY <1>5, <1>6, NatSets
<1>8. Good(Len(args))
  BY <1>0, <1>7 DEF S
<1>9. PICK seen \in Seq(Seq(Int)) :
        /\ d[Len(args)] = [args |-> seen, next |-> Len(f[Len(args)]) + 1]
        /\ Len(seen) = Len(args)
        /\ \A j \in 1..Len(args) : seen[j] = args[j]
  BY <1>8 DEF Good
<1>10. seen = args
  BY <1>0, <1>9, SeqEqual
<1>11. QED
  BY <1>3, <1>4, <1>9, <1>10

LEMMA EncodeTypes ==
  ASSUME NEW types, NEW args, AreArguments(types, args)
  PROVE  Encode(types, args) \in Seq(Int)
<1>0. Len(args) \in Nat
  BY DEF AreArguments
<1>1. PICK f : Written(types, args, f, Len(args)) /\ Encode(types, args) = f[Len(args)]
  BY <1>0, EncodeIsLast
<1>2. \A n \in 0..Len(args) : f[n] \in Seq(Int)
  BY <1>1, WrittenTypes
<1>3. QED
  BY <1>0, <1>1, <1>2

-----------------------------------------------------------------------------
(* create_call_function binds as Python does.                              *)

AreGiven(types, defaults, given, named) ==
  /\ types \in Seq(WireTypes)
  /\ defaults \in Seq(Seq(Int)) /\ Len(defaults) <= Len(types)
  /\ \A i \in 1..Len(defaults) : IsValue(types[i + Len(types) - Len(defaults)], defaults[i])
  /\ given \in Seq(Seq(Int)) /\ \A i \in 1..Len(given) : i <= Len(types) => IsValue(types[i], given[i])
  /\ \A i \in DOMAIN named : i \in 1..Len(types) => IsValue(types[i], named[i])

Filled(types, defaults, given) ==
  given \o SubSeq(defaults, Len(defaults) - Missing(types, given) + 1, Len(defaults))

LEMMA FilledIs ==
  ASSUME NEW types, NEW defaults, NEW given, NEW named, AreGiven(types, defaults, given, named),
         Accepts(types, defaults, given, named), Len(given) < Len(types)
  PROVE  \E filled \in Seq(Seq(Int)) :
           /\ filled = Filled(types, defaults, given)
           /\ Len(filled) = Len(types)
           /\ \A i \in 1..Len(types) :
                filled[i] = IF i <= Len(given) THEN given[i] ELSE defaults[i - (Len(types) - Len(defaults))]
<1>1. /\ Len(types) \in Nat /\ Len(given) \in Nat /\ Len(defaults) \in Nat
      /\ defaults \in Seq(Seq(Int)) /\ given \in Seq(Seq(Int))
  BY DEF AreGiven
<1>13. Missing(types, given) = Len(types) - Len(given) /\ Len(types) - Len(given) \in Nat
  BY <1>1 DEF Missing
<1>2. PICK missing \in Nat : missing = Missing(types, given) /\ missing = Len(types) - Len(given)
  BY <1>13
<1>3. missing <= Len(defaults)
  BY <1>2 DEF Accepts
<1>14. Len(defaults) - missing + 1 \in Nat \ {0}
  BY <1>1, <1>3
<1>4. PICK from \in Nat \ {0} : from = Len(defaults) - missing + 1
  BY <1>14
<1>5. /\ SubSeq(defaults, from, Len(defaults)) \in Seq(Seq(Int))
      /\ Len(SubSeq(defaults, from, Len(defaults))) = missing
      /\ \A j \in 1..missing : SubSeq(defaults, from, Len(defaults))[j] = defaults[from + j - 1]
  <2>1. PICK last \in Nat : last = Len(defaults) /\ last - from + 1 = missing
    BY <1>1, <1>3, <1>4
  <2>2. \A i \in from..last : defaults[i] \in Seq(Int)
    BY <1>1, <2>1
  <2>3. /\ SubSeq(defaults, from, last) \in Seq(Seq(Int))
        /\ Len(SubSeq(defaults, from, last)) = IF from <= last THEN last - from + 1 ELSE 0
        /\ \A j \in 1..last - from + 1 : SubSeq(defaults, from, last)[j] = defaults[from + j - 1]
    BY <2>2, SubSeqProperties
  <2>4. (IF from <= last THEN last - from + 1 ELSE 0) = missing
    BY <2>1
  <2>5. QED
    BY <2>1, <2>3, <2>4
<1>6. PICK rest \in Seq(Seq(Int)) :
        /\ rest = SubSeq(defaults, from, Len(defaults))
        /\ Len(rest) = missing
        /\ \A j \in 1..missing : rest[j] = defaults[from + j - 1]
  BY <1>5
<1>7. /\ given \o rest \in Seq(Seq(Int))
      /\ Len(given \o rest) = Len(given) + Len(rest)
      /\ \A i \in 1..Len(given) + Len(rest) :
           (given \o rest)[i] = IF i <= Len(given) THEN given[i] ELSE rest[i - Len(given)]
  BY <1>1, ConcatProperties
<1>8. Len(given) + Len(rest) = Len(types)
  BY <1>1, <1>2, <1>6
<1>9. PICK filled \in Seq(Seq(Int)) :
        /\ filled = given \o rest
        /\ Len(filled) = Len(types)
        /\ \A i \in 1..Len(types) : filled[i] = IF i <= Len(given) THEN given[i] ELSE rest[i - Len(given)]
  BY <1>7, <1>8
<1>10. ASSUME NEW i \in 1..Len(types), ~(i <= Len(given))
       PROVE  filled[i] = defaults[i - (Len(types) - Len(defaults))]
  <2>5. i - Len(given) \in 1..missing
    BY <1>1, <1>2, <1>10
  <2>1. PICK j \in 1..missing : j = i - Len(given)
    BY <2>5
  <2>2. from + j - 1 = i - (Len(types) - Len(defaults))
    BY <1>1, <1>2, <1>4, <2>1
  <2>3. rest[j] = defaults[from + j - 1]
    BY <1>6
  <2>4. QED
    BY <1>9, <1>10, <2>1, <2>2, <2>3
<1>11. filled = Filled(types, defaults, given)
  BY <1>2, <1>4, <1>6, <1>9 DEF Filled
<1>12. QED
  BY <1>9, <1>10, <1>11

LEMMA BindIsPython ==
  ASSUME NEW types, NEW defaults, NEW given, NEW named, AreGiven(types, defaults, given, named),
         Accepts(types, defaults, given, named)
  PROVE  /\ AreArguments(types, Bind(types, defaults, given, named))
         /\ PythonAccepts(types, defaults, given, named) =>
              \A i \in 1..Len(types) :
                Bind(types, defaults, given, named)[i] = PythonArgument(types, defaults, given, named, i)
<1>1. /\ Len(types) \in Nat /\ Len(given) \in Nat /\ Len(defaults) \in Nat /\ Len(defaults) <= Len(types)
      /\ types \in Seq(WireTypes) /\ defaults \in Seq(Seq(Int)) /\ given \in Seq(Seq(Int))
      /\ DOMAIN types = 1..Len(types)
  BY DEF AreGiven
<1>2. Len(given) <= Len(types)
  BY DEF Accepts
<1>3. CASE Len(given) = Len(types)
  <2>1. Bind(types, defaults, given, named) = given
    BY <1>3 DEF Bind
  <2>2. \A i \in 1..Len(types) : PythonArgument(types, defaults, given, named, i) = given[i]
    BY <1>1, <1>3 DEF PythonArgument
  <2>3. AreArguments(types, given)
    BY <1>1, <1>3 DEF AreArguments, AreGiven
  <2>4. QED
    BY <2>1, <2>2, <2>3
<1>4. CASE Len(given) < Len(types)
  <2>1. PICK filled \in Seq(Seq(Int)) :
          /\ filled = Filled(types, defaults, given)
          /\ Len(filled) = Len(types)
          /\ \A i \in 1..Len(types) :
               filled[i] = IF i <= Len(given) THEN given[i] ELSE defaults[i - (Len(types) - Len(defaults))]
    BY <1>4, FilledIs
  <2> DEFINE bound == Bind(types, defaults, given, named)
  <2>2. bound = [i \in DOMAIN filled |-> IF i \in DOMAIN named THEN named[i] ELSE filled[i]]
    <3>1. Len(given) # Len(types)
      BY <1>1, <1>4
    <3>2. Bind(types, defaults, given, named) =
            [i \in DOMAIN Filled(types, defaults, given) |->
               IF i \in DOMAIN named THEN named[i] ELSE Filled(types, defaults, given)[i]]
      BY <3>1 DEF Bind, Filled
    <3>3. QED
      BY <2>1, <3>2
  <2>3. bound = [i \in 1..Len(types) |-> IF i \in DOMAIN named THEN named[i] ELSE filled[i]]
    BY <2>1, <2>2
  <2> HIDE DEF bound
  <2>4. ASSUME NEW i \in 1..Len(types) PROVE IsValue(types[i], bound[i]) /\ bound[i] \in Seq(Int)
    <3>1. CASE i \in DOMAIN named
      BY <2>3, <3>1 DEF AreGiven, IsValue
    <3>2. CASE i \notin DOMAIN named /\ i <= Len(given)
      <4>1. i \in 1..Len(given)
        BY <1>1, <3>2
      <4>2. bound[i] = given[i]
        BY <2>1, <2>3, <3>2
      <4>3. QED
        BY <4>1, <4>2 DEF AreGiven, IsValue
    <3>3. CASE i \notin DOMAIN named /\ ~(i <= Len(given))
      <4>1. bound[i] = defaults[i - (Len(types) - Len(defaults))]
        BY <2>1, <2>3, <3>3
      <4>2. Len(defaults) >= Len(types) - Len(given)
        BY <1>4 DEF Accepts, Missing
      <4>6. /\ i - (Len(types) - Len(defaults)) \in 1..Len(defaults)
            /\ i - (Len(types) - Len(defaults)) + Len(types) - Len(defaults) = i
        BY <1>1, <1>4, <3>3, <4>2
      <4>3. PICK j \in 1..Len(defaults) : /\ j = i - (Len(types) - Len(defaults))
                                          /\ j + Len(types) - Len(defaults) = i
        BY <4>6
      <4>4. IsValue(types[j + Len(types) - Len(defaults)], defaults[j])
        BY DEF AreGiven
      <4>5. QED
        BY <4>1, <4>3, <4>4 DEF IsValue
    <3>4. QED
      BY <3>1, <3>2, <3>3
  <2>5. bound \in [1..Len(types) -> Seq(Int)]
    BY <2>3, <2>4
  <2>6. bound \in Seq(Seq(Int)) /\ Len(bound) = Len(types)
    <3>1. Len(types) \in Nat
      BY <1>1
    <3>2. QED
      BY <2>5, <3>1, SeqDef
  <2>7. AreArguments(types, bound)
    BY <1>1, <2>4, <2>6 DEF AreArguments
  <2>8. ASSUME PythonAccepts(types, defaults, given, named), NEW i \in 1..Len(types)
        PROVE  bound[i] = PythonArgument(types, defaults, given, named, i)
    <3>1. i <= Len(given) => i \notin DOMAIN named
      <4>1. i \in DOMAIN named => i > Len(given)
        BY <1>1, <2>8 DEF PythonAccepts
      <4>2. QED
        BY <1>1, <4>1
    <3>2. QED
      BY <2>1, <2>3, <3>1 DEF PythonArgument
  <2>9. QED
    BY <2>7, <2>8 DEF bound
<1>5. QED
  BY <1>1, <1>2, <1>3, <1>4

-----------------------------------------------------------------------------
(* Headers and results.                                                    *)

LEMMA CapFacts ==
  /\ Cap \in Nat /\ Cap >= 2
  /\ \A c \in Nat, n \in Nat : n < Cap =>
       c * Cap + n \in Nat /\ (c * Cap + n) \div Cap = c /\ (c * Cap + n) % Cap = n
<1>1. Cap \in Nat /\ Cap >= 2
  BY CodecAssumption
<1>2. ASSUME NEW c \in Nat, NEW n \in Nat, n < Cap
      PROVE  c * Cap + n \in Nat /\ (c * Cap + n) \div Cap = c /\ (c * Cap + n) % Cap = n
  BY <1>1, <1>2
<1>3. QED
  BY <1>1, <1>2

\* A header of a content that fits into its bits gives back the command and the content.
LEMMA HeaderReads ==
  ASSUME NEW c \in Nat, NEW data \in Seq(Int), Len(data) < Cap
  PROVE  Command(Header(c, data)) = c /\ Received(Header(c, data), data) = data
<1>1. PICK n \in Nat : n = Len(data) /\ n < Cap
  OBVIOUS
<1>2. PICK h \in Nat : h = c * Cap + n /\ h \div Cap = c /\ h % Cap = n
  BY <1>1, CapFacts
<1>3. Header(c, data) = h
  <2>1. ~(c < 0)
    OBVIOUS
  <2>2. QED
    BY <1>1, <1>2, <2>1 DEF Header
<1>4. Command(Header(c, data)) = c
  BY <1>2, <1>3 DEF Command
<1>5. SubSeq(data, 1, Len(data)) = data
  OBVIOUS
<1>6. Received(Header(c, data), data) = data
  BY <1>1, <1>2, <1>3, <1>5 DEF Received
<1>7. QED
  BY <1>4, <1>6

LEMMA NegativeReads ==
  ASSUME NEW c \in -128..-1, NEW data \in Seq(Int), Len(data) < Cap
  PROVE  Signed(Command(Header(c, data))) = c
<1>1. PICK n \in Nat : n = Len(data) /\ n < Cap
  OBVIOUS
<1>2. PICK u \in Nat : u = 256 + c /\ u >= 128 /\ u - 256 = c
  <2>1. 256 + c \in Nat
    OBVIOUS
  <2>2. QED
    BY <2>1
<1>3. PICK h \in Nat : h = u * Cap + n /\ h \div Cap = u
  BY <1>1, CapFacts
<1>4. Header(c, data) = h
  <2>1. c < 0
    OBVIOUS
  <2>2. QED
    BY <1>1, <1>2, <1>3, <2>1 DEF Header
<1>5. Command(Header(c, data)) = u
  BY <1>3, <1>4 DEF Command
<1>6. QED
  BY <1>2, <1>5 DEF Signed

LEMMA TextParsed ==
  ASSUME NEW t \in Seq(Int), Delimited(t)
  PROVE  ParseText(PutString(t)) = Value(t)
<1>1. PutString(t) \in Seq(Int) /\ PutString(t) # <<>>
  <2>1. CASE t = <<>>
    BY <2>1 DEF PutString, None
  <2>2. CASE t # <<>>
    <3>1. PutString(t) \in Seq(Int) /\ Len(PutString(t)) = Len(t) + 3
      BY <2>2, PutStringIs
    <3>2. Len(PutString(t)) # 0
      BY <3>1
    <3>3. QED
      BY <3>1, <3>2
  <2>3. QED
    BY <2>1, <2>2
<1>2. Stands(PutString(t), PutString(t), 1)
  <2>1. PICK p \in Seq(Int) : p = PutString(t)
    BY <1>1
  <2>2. \A j \in 1..Len(p) : 1 + j - 1 = j
    OBVIOUS
  <2>3. 1 + Len(p) - 1 <= Len(p)
    OBVIOUS
  <2>4. Stands(p, p, 1)
    BY <2>2, <2>3 DEF Stands
  <2>5. QED
    BY <2>1, <2>4
<1>3. ReadString(PutString(t), 1).value = t
  BY <1>1, <1>2, ReadStringPut
<1>4. QED
  BY <1>1, <1>3 DEF ParseText, None

LEMMA FourBytes ==
  ASSUME NEW n \in Int
  PROVE  /\ Fixed(<<n>>, 4) \in Seq(Int) /\ Len(Fixed(<<n>>, 4)) = 4 /\ Fixed(<<n>>, 4)[1] = n
<1> DEFINE v == <<n>>
<1>1. v \in Seq(Int) /\ Len(v) = 1 /\ v[1] = n
  OBVIOUS
<1> HIDE DEF v
<1>2. PICK w \in Nat \ {0} : w = 4
  OBVIOUS
<1>3. Fixed(v, w) \in Seq(Int) /\ Len(Fixed(v, w)) = w /\ Fixed(v, w)[1] = v[1]
  BY <1>1, FixedIs
<1>4. QED
  BY <1>1, <1>2, <1>3 DEF v

LEMMA NonEmptyTypes == NonEmptyTexts \subseteq Seq(Int) \ {<<>>}
<1>1. ASSUME NEW i \in DOMAIN Samples["str"] PROVE Samples["str"][i] \in Seq(Int)
  <2>1. "str" \in DOMAIN Samples /\ IsValue("str", Samples["str"][i])
    BY ApiAssumption
  <2>2. QED
    BY <2>1 DEF IsValue
<1>2. QED
  BY <1>1 DEF NonEmptyTexts, None

\* A parser makes of an answer what it means.
LEMMA ReplyParsed ==
  ASSUME NEW type \in ResultTypes, type # "void", NEW members, members \subseteq Int \ ErrorCodes,
         NEW r \in Replies(type, members), Delimited(r.meant.value)
  PROVE  Parse(type, members, r.reply.command, r.reply.data) = r.meant
<1> DEFINE refused == Reply(Raised, -121, None)
<1>1. \A m, c, d : Reply(m, c, d).meant = m /\ Reply(m, c, d).reply.command = c /\ Reply(m, c, d).reply.data = d
  BY DEF Reply, Answer
<1>2. CASE r = refused
  <2>1. Parse(type, members, -121, None) = Raised
    BY DEF Parse, ErrorCodes
  <2>2. QED
    BY <1>1, <1>2, <2>1
<1>3. Texts \cap {"bool", "byte", "int", "subscribe", "pid", "processes"} = {}
  BY DEF Texts
<1> HIDE DEF refused
<1>4. CASE type = "bool" /\ r # refused
  <2>1. r \in {Reply(Value(<<b>>), b, None) : b \in 0..1}
    BY <1>4 DEF Replies, refused
  <2>2. PICK b \in 0..1 : r = Reply(Value(<<b>>), b, None)
    BY <2>1
  <2>3. b \notin ErrorCodes /\ (IF b > 0 THEN 1 ELSE 0) = b
    BY DEF ErrorCodes
  <2>4. Parse(type, members, b, None) = Value(<<b>>)
    BY <1>4, <2>3 DEF Parse
  <2>5. QED
    BY <1>1, <2>2, <2>4
<1>5. CASE type = "byte" /\ r # refused
  <2>1. r \in {Reply(Value(<<b>>), b, None) : b \in IF members = {} THEN -1..1 ELSE members}
    BY <1>5 DEF Replies, refused
  <2>2. PICK b \in IF members = {} THEN -1..1 ELSE members : r = Reply(Value(<<b>>), b, None)
    BY <2>1
  <2>3. b \notin ErrorCodes /\ (members = {} \/ b \in members)
    BY DEF ErrorCodes
  <2>4. Parse(type, members, b, None) = Value(<<b>>)
    BY <1>5, <2>3 DEF Parse
  <2>5. QED
    BY <1>1, <2>2, <2>4
<1>6. CASE type = "int" /\ r # refused
  <2>1. r \in {Reply(Value(<<n>>), 0, Fixed(<<n>>, 4)) : n \in IF members = {} THEN -1..1 ELSE members}
    BY <1>6 DEF Replies, refused
  <2>2. PICK n \in IF members = {} THEN -1..1 ELSE members : r = Reply(Value(<<n>>), 0, Fixed(<<n>>, 4))
    BY <2>1
  <2>3. n \in Int /\ (members = {} \/ n \in members) /\ 0 \notin ErrorCodes
    BY DEF ErrorCodes
  <2>4. PICK d : d = Fixed(<<n>>, 4) /\ Len(d) = 4 /\ d[1] = n
    BY <2>3, FourBytes
  <2>5. ParseInt(members, 0, d) = Value(<<n>>)
    <3>1. ~(0 = -1 \/ Len(d) # 4)
      BY <2>4
    <3>2. ~(members # {} /\ d[1] \notin members)
      BY <2>3, <2>4, Zenon
    <3>3. ParseInt(members, 0, d) = Value(<<d[1]>>)
      BY <3>1, <3>2 DEF ParseInt
    <3>4. QED
      BY <2>4, <3>3
  <2>6. Parse(type, members, 0, d) = Value(<<n>>)
    BY <1>6, <2>3, <2>5 DEF Parse
  <2>7. QED
    BY <1>1, <2>2, <2>4, <2>6
<1>7. ASSUME NEW t \in Seq(Int), r = Reply(Value(t), 0, PutString(t)),
             type \in {"str", "dict", "list", "processes"}, t # <<>> \/ type = "str"
      PROVE  Parse(type, members, r.reply.command, r.reply.data) = r.meant
  <2>1. r.meant = Value(t) /\ r.reply.command = 0 /\ r.reply.data = PutString(t)
    BY <1>1, <1>7
  <2>2. Delimited(t)
    BY <2>1 DEF Value
  <2>3. ParseText(PutString(t)) = Value(t)
    BY <2>2, TextParsed
  <2>4. 0 \notin ErrorCodes
    BY DEF ErrorCodes
  <2>5. PutString(t) # None
    <3>1. CASE t = <<>>
      BY <3>1 DEF PutString, None
    <3>2. CASE t # <<>>
      <4>1. Len(PutString(t)) = Len(t) + 3
        BY <3>2, PutStringIs
      <4>2. QED
        BY <4>1 DEF None
    <3>3. QED
      BY <3>1, <3>2
  <2>6. PICK p : p = PutString(t) /\ ParseText(p) = Value(t) /\ p # None
    BY <2>3, <2>5
  <2>7. Parse(type, members, 0, p) = Value(t)
    BY <1>7, <2>4, <2>6 DEF Parse
  <2>8. QED
    BY <2>1, <2>6, <2>7
<1>8. CASE type = "str" /\ r # refused
  <2>1. r \in {Reply(Value(t), 0, PutString(t)) : t \in NonEmptyTexts \cup {None}}
    BY <1>8 DEF Replies, refused
  <2>2. PICK t \in NonEmptyTexts \cup {None} : r = Reply(Value(t), 0, PutString(t))
    BY <2>1
  <2>3. t \in Seq(Int)
    <3>1. None \in Seq(Int)
      BY DEF None
    <3>2. QED
      BY <3>1, NonEmptyTypes
  <2>4. QED
    BY <1>7, <1>8, <2>2, <2>3
<1>9. CASE type \in {"dict", "list"} /\ r # refused
  <2>1. r \in {Reply(Value(t), 0, PutString(t)) : t \in NonEmptyTexts} \cup {Reply(Value(None), 0, None)}
    BY <1>9 DEF Replies, refused
  <2>2. CASE r = Reply(Value(None), 0, None)
    <3>1. Parse(type, members, 0, None) = Value(None)
      BY <1>9 DEF Parse, ErrorCodes
    <3>2. QED
      BY <1>1, <2>2, <3>1
  <2>3. CASE r \in {Reply(Value(t), 0, PutString(t)) : t \in NonEmptyTexts}
    <3>1. PICK t \in NonEmptyTexts : r = Reply(Value(t), 0, PutString(t))
      BY <2>3
    <3>2. QED
      BY <1>7, <1>9, <3>1, NonEmptyTypes
  <2>4. QED
    BY <2>1, <2>2, <2>3
<1>10. CASE type = "processes" /\ r # refused
  <2>1. r \in {Reply(Value(t), 0, PutString(t)) : t \in NonEmptyTexts} \cup {Reply(Value(None), -1, None)}
    BY <1>10 DEF Replies, refused
  <2>2. CASE r = Reply(Value(None), -1, None)
    <3>1. Parse(type, members, -1, None) = Value(None)
      BY <1>10 DEF Parse, ErrorCodes
    <3>2. QED
      BY <1>1, <2>2, <3>1
  <2>3. CASE r \in {Reply(Value(t), 0, PutString(t)) : t \in NonEmptyTexts}
    <3>1. PICK t \in NonEmptyTexts : r = Reply(Value(t), 0, PutString(t))
      BY <2>3
    <3>2. QED
      BY <1>7, <1>10, <3>1, NonEmptyTypes
  <2>4. QED
    BY <2>1, <2>2, <2>3
<1>11. CASE type = "pid" /\ r # refused
  <2>1. r = Reply(Value(<<9>>), 0, Fixed(<<9>>, 4)) \/ r = Reply(Value(<<-1>>), -1, None)
    BY <1>11 DEF Replies, refused
  <2>2. CASE r = Reply(Value(<<-1>>), -1, None)
    <3>1. Parse(type, members, -1, None) = Value(<<-1>>)
      BY <1>11 DEF Parse, ErrorCodes
    <3>2. QED
      BY <1>1, <2>2, <3>1
  <2>3. CASE r = Reply(Value(<<9>>), 0, Fixed(<<9>>, 4))
    <3>1. PICK d : d = Fixed(<<9>>, 4) /\ Len(d) = 4 /\ d[1] = 9
      BY FourBytes
    <3>2. ParseInt({}, 0, d) = Value(<<9>>)
      BY <3>1 DEF ParseInt
    <3>3. Parse(type, members, 0, d) = Value(<<9>>)
      BY <1>11, <3>2 DEF Parse, ErrorCodes
    <3>4. QED
      BY <1>1, <2>3, <3>1, <3>3
  <2>4. QED
    BY <2>1, <2>2, <2>3
<1>12. CASE type = "subscribe" /\ r # refused
  <2>1. r = Reply(Value(<<1>>), 0, None) \/ r = Reply(Value(None), -1, None)
    BY <1>12 DEF Replies, refused
  <2>2. Parse(type, members, 0, None) = Value(<<1>>) /\ Parse(type, members, -1, None) = Value(None)
    BY <1>12 DEF Parse, ErrorCodes
  <2>3. QED
    BY <1>1, <2>1, <2>2
<1>13. QED
  BY <1>2, <1>4, <1>5, <1>6, <1>8, <1>9, <1>10, <1>11, <1>12 DEF ResultTypes

LEMMA ParseTypes ==
  ASSUME NEW type \in ResultTypes, type # "void", NEW members, NEW result, NEW data
  PROVE  Parse(type, members, result, data).raised \in BOOLEAN
<1>1. Raised.raised \in BOOLEAN /\ \A v : Value(v).raised \in BOOLEAN
  BY DEF Raised, Value
<1>2. ParseText(data).raised \in BOOLEAN
  BY <1>1 DEF ParseText
<1>3. \A m, c : ParseInt(m, c, data).raised \in BOOLEAN
  BY <1>1 DEF ParseInt
<1>4. QED
  BY <1>1, <1>2, <1>3 DEF Parse, ResultTypes

-----------------------------------------------------------------------------
(* Invariants.                                                             *)

CallFields == {"stage", "name", "given", "named", "header", "data",
               "reached", "seen", "meant", "reply", "outcome"}
IsCall(c) == c = [f \in CallFields |-> c[f]]

\* Id and NameOf, for a given table.
NumberIn(table, x, v) == (CHOOSE i \in DOMAIN table : table[i] = x) + v - 1
NameIn(table, id, v) == IF id - v + 1 \in DOMAIN table THEN table[id - v + 1] ELSE ""

\* What is known of a call that is sent: it was encoded under the number id.
WellSent(api, id, c) ==
  /\ AreGiven(api.types, api.defaults, c.given, c.named)
  /\ Accepts(api.types, api.defaults, c.given, c.named)
  /\ c.data = Encode(api.types, Bind(api.types, api.defaults, c.given, c.named))
  /\ c.header = Header(id, c.data)

\* And of one that the server has run as the method reached.
WellServed(reached, apis, c) ==
  IF reached = "" THEN c.reached = "nothing"
  ELSE /\ c.reached = reached
       /\ c.seen = Decode(apis[reached].types, Received(c.header, c.data)).args
       /\ \E r \in Replies(apis[reached].returns, apis[reached].members) :
            c.meant = r.meant /\ c.reply = r.reply

TypeInv ==
  /\ TypeOK
  /\ left = [calls |-> left.calls, broadcasts |-> left.broadcasts]
  /\ IsCall(call)

SentAs(declared, ver, kept, c) ==
  /\ kept[c.name] # 0
  /\ WellSent(declared.apis[c.name], NumberIn(declared.table, c.name, kept[c.name]), c)
  /\ c.reached # "" => WellServed(NameIn(declared.table, Command(c.header), ver), declared.apis, c)
SentInv ==
  call.stage = "sent" => SentAs(Setups[setup], version, methods, call)

LEMMA Declared ==
  ASSUME setup \in DOMAIN Setups
  PROVE  /\ \A x \in DOMAIN Apis : IsApi(Apis[x]) /\ x \notin {"", "nothing"}
         /\ \A x \in DOMAIN Broadcasts :
              IsApi(Broadcasts[x]) /\ Broadcasts[x].returns \in {"void", "byte", "int"}
         /\ Names \in Seq(DOMAIN Apis)
         /\ \A x \in DOMAIN Apis : \E i \in DOMAIN Names : Names[i] = x
         /\ Setups[setup].calls \in Nat /\ Setups[setup].upgrades \in Nat /\ Setups[setup].heard \in Nat
         /\ Setups[setup].shifts \in Nat
<1>1. \A s \in DOMAIN Setups :
        {Setups[s].calls, Setups[s].upgrades, Setups[s].heard, Setups[s].shifts} \subseteq Nat
  BY ApiAssumption
<1>2. QED
  BY <1>1, ApiAssumption DEF Apis, Broadcasts, Names

LEMMA IdNames ==
  ASSUME setup \in DOMAIN Setups, NEW x \in DOMAIN Apis, NEW v \in Nat \ {0}
  PROVE  Id(x, v) \in Nat /\ NameOf(Id(x, v), v) = x
<1> DEFINE i == CHOOSE j \in DOMAIN Names : Names[j] = x
<1>1. i \in DOMAIN Names /\ Names[i] = x
  BY Declared
<1>2. Names \in Seq(DOMAIN Apis)
  BY Declared
<1>3. Id(x, v) = i + v - 1
  BY DEF Id
<1> HIDE DEF i
<1>4. i \in Nat \ {0}
  BY <1>1, <1>2
<1>5. Id(x, v) \in Nat /\ Id(x, v) - v + 1 = i
  BY <1>3, <1>4
<1>6. QED
  BY <1>1, <1>5 DEF NameOf

LEMMA SampleIs ==
  ASSUME NEW type \in DOMAIN Samples, NEW j \in Nat
  PROVE  IsValue(type, Sample(type, j)) /\ Sample(type, j) \in Seq(Int)
<1>1. Samples[type] \in Seq(Seq(Int)) /\ Samples[type] # <<>>
  BY ApiAssumption
<1>2. PICK n \in Nat \ {0} : n = Len(Samples[type])
  BY <1>1
<1>3. (j % n) + 1 \in 1..n
  BY <1>2
<1>4. (j % n) + 1 \in DOMAIN Samples[type]
  BY <1>1, <1>2, <1>3
<1>5. IsValue(type, Samples[type][(j % n) + 1])
  BY <1>4, ApiAssumption
<1>6. QED
  BY <1>2, <1>5 DEF Sample, IsValue

\* The arguments of a call are of their types.
LEMMA GivenTypes ==
  ASSUME setup \in DOMAIN Setups, NEW x \in DOMAIN Apis, NEW shift \in Nat,
         NEW k \in 0..Len(Apis[x].types), NEW at \in 0..Len(Apis[x].types)
  PROVE  AreGiven(Apis[x].types, Apis[x].defaults, Positional(x, k, shift), Named(x, at, shift))
<1>1. PICK types, defaults : types = Apis[x].types /\ defaults = Apis[x].defaults
  OBVIOUS
<1>2. /\ types \in Seq(WireTypes \cap DOMAIN Samples)
      /\ defaults \in Seq(Seq(Int)) /\ Len(defaults) <= Len(types)
      /\ \A i \in DOMAIN defaults : IsValue(types[i + Len(types) - Len(defaults)], defaults[i])
  BY <1>1, Declared DEF IsApi
<1>3. types \in Seq(WireTypes) /\ \A i \in 1..Len(types) : types[i] \in DOMAIN Samples
  BY <1>2
<1>4. \A i \in 1..Len(defaults) : IsValue(types[i + Len(types) - Len(defaults)], defaults[i])
  BY <1>2
<1>5. k \in Nat /\ k <= Len(types) /\ Len(types) \in Nat
  BY <1>1, <1>2
<1> DEFINE given == Positional(x, k, shift)
           named == Named(x, at, shift)
<1>6. given = [i \in 1..k |-> Sample(types[i], i + shift)]
  BY <1>1 DEF Positional
<1>7. named = [i \in (IF at = 0 THEN {} ELSE {at}) |-> Sample(types[i], i + shift + 1)]
  BY <1>1 DEF Named
<1> HIDE DEF given, named
<1>8. ASSUME NEW i \in 1..k PROVE given[i] \in Seq(Int) /\ IsValue(types[i], given[i])
  <2>1. i + shift \in Nat /\ i \in 1..Len(types)
    BY <1>5
  <2>2. types[i] \in DOMAIN Samples
    BY <1>3, <2>1
  <2>3. QED
    BY <1>6, <2>1, <2>2, SampleIs
<1>9. given \in Seq(Seq(Int)) /\ Len(given) = k
  <2>1. given \in [1..k -> Seq(Int)]
    BY <1>6, <1>8
  <2>2. QED
    BY <1>5, <2>1, SeqDef
<1>10. ASSUME NEW i \in DOMAIN named, i \in 1..Len(types) PROVE IsValue(types[i], named[i])
  <2>1. i + shift + 1 \in Nat /\ types[i] \in DOMAIN Samples
    BY <1>3, <1>5, <1>10
  <2>2. named[i] = Sample(types[i], i + shift + 1)
    BY <1>7
  <2>3. QED
    BY <2>1, <2>2, SampleIs
<1>11. AreGiven(types, defaults, given, named)
  BY <1>2, <1>3, <1>4, <1>8, <1>9, <1>10 DEF AreGiven
<1>12. QED
  BY <1>1, <1>11 DEF given, named

\* What Call does: it raises, or sends what it encoded under the number the attribute keeps.
IsNew(c, stage, x, given, named) ==
  /\ IsCall(c) /\ c.stage = stage /\ c.name = x /\ c.given = given /\ c.named = named
  /\ c.reached = "" /\ c.outcome = Raised
CallsAs(x, given, named) ==
  /\ AreGiven(Apis[x].types, Apis[x].defaults, given, named)
  /\ \/ methods' = methods /\ IsNew(call', "raised", x, given, named)
     \/ /\ Version(x) \in 1..version /\ methods' = [methods EXCEPT ![x] = Version(x)]
        /\ \/ IsNew(call', "raised", x, given, named)
           \/ /\ IsNew(call', "sent", x, given, named)
              /\ Accepts(Apis[x].types, Apis[x].defaults, given, named)
              /\ call'.data = Encode(Apis[x].types, Bind(Apis[x].types, Apis[x].defaults, given, named))
              /\ call'.header = Header(Id(x, Version(x)), call'.data)

LEMMA RaisedIsNew ==
  ASSUME NEW c, NEW stage, NEW x, NEW given, NEW named, IsNew(c, stage, x, given, named)
  PROVE  IsNew([c EXCEPT !.stage = "raised"], "raised", x, given, named)
BY DEF IsNew, IsCall, CallFields

LEMMA NotSentIsNew ==
  ASSUME NEW x, NEW given, NEW named
  PROVE  IsNew([NotSent EXCEPT !.name = x, !.given = given, !.named = named], "none", x, given, named)
<1>1. NotSent = [f \in CallFields |-> NotSent[f]]
  BY DEF NotSent, CallFields
<1>2. NotSent.stage = "none" /\ NotSent.reached = "" /\ NotSent.outcome = Raised
  BY DEF NotSent
<1>3. PICK c : c = NotSent
  OBVIOUS
<1>4. QED
  BY <1>1, <1>2, <1>3 DEF IsNew, IsCall, CallFields

LEMMA CallDoes ==
  ASSUME TypeInv, Call
  PROVE  \E x \in DOMAIN Apis : \E given, named : CallsAs(x, given, named)
<1>1. setup \in DOMAIN Setups
  BY DEF TypeInv, TypeOK
<1>15. PICK x \in DOMAIN Apis, shift \in 1..Setups[setup].shifts :
         \E k \in {n \in 0..Len(Apis[x].types) : n >= Fewest(x)} :
           \E at \in {0} \cup k..Len(Apis[x].types) :
             LET c == [NotSent EXCEPT !.name = x, !.given = Positional(x, k, shift),
                                      !.named = Named(x, at, shift)] IN
             CallRefused(c) \/ CallMade(c)
  BY DEF Call
<1>16. PICK k \in {n \in 0..Len(Apis[x].types) : n >= Fewest(x)} :
         \E at \in {0} \cup k..Len(Apis[x].types) :
           LET c == [NotSent EXCEPT !.name = x, !.given = Positional(x, k, shift),
                                    !.named = Named(x, at, shift)] IN
           CallRefused(c) \/ CallMade(c)
  BY <1>15
<1>2. PICK at \in {0} \cup k..Len(Apis[x].types) :
        LET c == [NotSent EXCEPT !.name = x, !.given = Positional(x, k, shift),
                                 !.named = Named(x, at, shift)] IN
        CallRefused(c) \/ CallMade(c)
  BY <1>16
<1>3. Len(Apis[x].types) \in Nat
  <2>1. IsApi(Apis[x])
    BY <1>1, Declared
  <2>2. Apis[x].types \in Seq(WireTypes \cap DOMAIN Samples)
    BY <2>1 DEF IsApi
  <2>3. QED
    BY <2>2
<1>4. shift \in Nat /\ k \in 0..Len(Apis[x].types) /\ at \in 0..Len(Apis[x].types)
  <2>1. Setups[setup].shifts \in Nat
    BY <1>1, Declared
  <2>2. shift \in Nat
    BY <2>1
  <2>3. QED
    BY <1>3, <2>2
<1>5. PICK given, named : given = Positional(x, k, shift) /\ named = Named(x, at, shift)
  OBVIOUS
<1>6. AreGiven(Apis[x].types, Apis[x].defaults, given, named)
  BY <1>1, <1>4, <1>5, GivenTypes
<1>7. PICK c : IsNew(c, "none", x, given, named) /\ (CallRefused(c) \/ CallMade(c))
  BY <1>2, <1>5, NotSentIsNew
<1>8. c.name = x /\ c.given = given /\ c.named = named
  BY <1>7 DEF IsNew
<1>11. CASE CallRefused(c)
  <2>1. IsNew(call', "raised", x, given, named) /\ methods' = methods
    BY <1>7, <1>11, RaisedIsNew DEF CallRefused
  <2>2. QED
    BY <1>6, <2>1 DEF CallsAs
<1>12. CASE CallMade(c)
  <2>1. PICK data, header :
          /\ data = Encode(Apis[x].types, Bind(Apis[x].types, Apis[x].defaults, given, named))
          /\ header = Header(Id(x, Version(x)), data)
    OBVIOUS
  <2>2. /\ Resolves(x)
        /\ methods' = [methods EXCEPT ![x] = Version(x)]
        /\ call' = IF Encodes(c) /\ connected /\ Fits(header)
                   THEN [c EXCEPT !.stage = "sent", !.header = header, !.data = data]
                   ELSE [c EXCEPT !.stage = "raised"]
    BY <1>8, <1>12, <2>1 DEF CallMade, Arguments
  <2>3. Encodes(c) => Accepts(Apis[x].types, Apis[x].defaults, given, named)
    BY <1>8 DEF Encodes
  <2>4. Version(x) \in 1..version
    <3>1. version \in Nat /\ version >= 1 /\ allowed \in {0, version} /\ methods[x] \in 0..version
      <4>1. Setups[setup].upgrades \in Nat
        BY <1>1, Declared
      <4>2. QED
        BY <4>1 DEF TypeInv, TypeOK
    <3>2. QED
      BY <2>2, <3>1 DEF Resolves, Version
  <2>5. CASE Encodes(c) /\ connected /\ Fits(header)
    <3>1. IsNew(call', "sent", x, given, named) /\ call'.header = header /\ call'.data = data
      <4>1. PICK sent : sent = [c EXCEPT !.stage = "sent", !.header = header, !.data = data]
        OBVIOUS
      <4>2. IsNew(sent, "sent", x, given, named) /\ sent.header = header /\ sent.data = data
        BY <1>7, <4>1 DEF IsNew, IsCall, CallFields
      <4>3. QED
        BY <2>2, <2>5, <4>1, <4>2
    <3>2. QED
      BY <1>6, <2>1, <2>2, <2>3, <2>4, <2>5, <3>1 DEF CallsAs
  <2>6. CASE ~(Encodes(c) /\ connected /\ Fits(header))
    <3>1. IsNew(call', "raised", x, given, named)
      BY <1>7, <2>2, <2>6, RaisedIsNew
    <3>2. QED
      BY <1>6, <2>2, <2>4, <3>1 DEF CallsAs
  <2>7. QED
    BY <2>5, <2>6
<1>13. QED
  BY <1>7, <1>11, <1>12

\* What the server does to a call.
KeepsCall(c, d) ==
  /\ IsCall(d) /\ d.stage = c.stage /\ d.name = c.name /\ d.given = c.given /\ d.named = c.named
  /\ d.header = c.header /\ d.data = c.data /\ d.outcome = c.outcome

LEMMA ServeDoes ==
  ASSUME TypeInv, Serve
  PROVE  /\ call.stage = "sent" /\ call.reached = "" /\ KeepsCall(call, call')
         /\ WellServed(NameOf(Command(call.header), version), Apis, call')
<1>1. PICK found : found = NameOf(Command(call.header), version)
  OBVIOUS
<1>2. call.stage = "sent" /\ call.reached = ""
  BY DEF Serve
<1>3. PICK c : c = call
  OBVIOUS
<1>4. IsCall(c)
  BY <1>3 DEF TypeInv
<1>5. CASE found = ""
  <2>1. call' = [c EXCEPT !.reached = "nothing", !.reply = Answer(-122, None)]
    BY <1>1, <1>3, <1>5 DEF Serve
  <2>2. PICK d : d = [c EXCEPT !.reached = "nothing", !.reply = Answer(-122, None)]
    OBVIOUS
  <2>3. KeepsCall(c, d) /\ d.reached = "nothing"
    BY <1>4, <2>2 DEF KeepsCall, IsCall, CallFields
  <2>4. WellServed(found, Apis, d)
    BY <1>5, <2>3 DEF WellServed
  <2>5. QED
    BY <1>1, <1>2, <1>3, <2>1, <2>2, <2>3, <2>4
<1>6. CASE found # ""
  <2>1. PICK r \in Replies(Apis[found].returns, Apis[found].members) :
          call' = [call EXCEPT !.reached = found, !.meant = r.meant, !.reply = r.reply,
                     !.seen = Decode(Apis[found].types, Received(call.header, call.data)).args]
    BY <1>1, <1>6 DEF Serve
  <2>2. PICK seen : seen = Decode(Apis[found].types, Received(c.header, c.data)).args
    OBVIOUS
  <2>3. call' = [c EXCEPT !.reached = found, !.meant = r.meant, !.reply = r.reply, !.seen = seen]
    BY <1>3, <2>1, <2>2
  <2>4. PICK d : d = [c EXCEPT !.reached = found, !.meant = r.meant, !.reply = r.reply, !.seen = seen]
    OBVIOUS
  <2>5. KeepsCall(c, d) /\ d.reached = found /\ d.seen = seen /\ d.meant = r.meant /\ d.reply = r.reply
    BY <1>4, <2>4 DEF KeepsCall, IsCall, CallFields
  <2>6. WellServed(found, Apis, d)
    <3>1. d.header = c.header /\ d.data = c.data
      BY <2>5 DEF KeepsCall
    <3>2. QED
      BY <1>6, <2>2, <2>5, <3>1 DEF WellServed
  <2>7. QED
    BY <1>1, <1>2, <1>3, <2>3, <2>4, <2>5, <2>6
<1>7. QED
  BY <1>5, <1>6

LEMMA InitInv == Init => TypeInv /\ SentInv
<1> SUFFICES ASSUME Init PROVE TypeInv /\ SentInv
  OBVIOUS
<1>1. setup \in DOMAIN Setups
  BY DEF Init
<1>2. Setups[setup].upgrades \in Nat /\ Setups[setup].calls \in Nat /\ Setups[setup].heard \in Nat
  BY <1>1, Declared
<1>3. call.stage = "none" /\ call.outcome.raised \in BOOLEAN /\ IsCall(call)
  BY DEF Init, NotSent, Raised, IsCall, CallFields
<1>4. left = [calls |-> left.calls, broadcasts |-> left.broadcasts]
      /\ left.calls = Setups[setup].calls /\ left.broadcasts = Setups[setup].heard
  BY DEF Init
<1>5. version = 1 /\ connected = TRUE /\ allowed = 1 /\ methods = [x \in DOMAIN Apis |-> 0]
  BY DEF Init
<1>6. TypeOK
  BY <1>1, <1>2, <1>3, <1>4, <1>5 DEF TypeOK
<1>7. QED
  BY <1>3, <1>4, <1>6 DEF TypeInv, SentInv

LEMMA CallTypes ==
  ASSUME TypeInv, Call
  PROVE  TypeInv'
<1>1. PICK x \in DOMAIN Apis : \E given, named : CallsAs(x, given, named)
  BY CallDoes
<1>2. PICK given, named : CallsAs(x, given, named)
  BY <1>1
<1>3. methods' \in [DOMAIN Apis -> 0..version]
  <2>1. methods \in [DOMAIN Apis -> 0..version] /\ version \in Int
    BY DEF TypeInv, TypeOK
  <2>2. QED
    BY <1>2, <2>1 DEF CallsAs
<1>4. PICK c : c = call'
  OBVIOUS
<1>5. IsNew(c, "raised", x, given, named) \/ IsNew(c, "sent", x, given, named)
  BY <1>2, <1>4 DEF CallsAs
<1>6. IsCall(c) /\ c.stage \in {"raised", "sent"} /\ c.name \in DOMAIN Apis /\ c.outcome.raised \in BOOLEAN
  <2>1. Raised.raised \in BOOLEAN
    BY DEF Raised
  <2>2. IsCall(c) /\ c.stage \in {"raised", "sent"} /\ c.name = x /\ c.outcome = Raised
    BY <1>5 DEF IsNew
  <2>3. QED
    BY <2>1, <2>2
<1>7. /\ UNCHANGED <<setup, version, connected, allowed>>
      /\ left' = [left EXCEPT !.calls = @ - 1] /\ left.calls > 0
  BY DEF Call
<1>8. Setups[setup].calls \in Nat
  BY Declared DEF TypeInv, TypeOK
<1>9. /\ left' = [calls |-> left'.calls, broadcasts |-> left'.broadcasts]
      /\ left'.calls \in 0..Setups[setup].calls /\ left'.broadcasts = left.broadcasts
  BY <1>7, <1>8 DEF TypeInv, TypeOK
<1>10. Apis' = Apis
  BY <1>7 DEF Apis
<1>11. IsCall(call)'
  BY <1>4, <1>6
<1>12. TypeOK'
  BY <1>3, <1>4, <1>6, <1>7, <1>9, <1>10 DEF TypeInv, TypeOK
<1>13. QED
  BY <1>9, <1>11, <1>12 DEF TypeInv

LEMMA ServeTypes ==
  ASSUME TypeInv, Serve
  PROVE  TypeInv'
<1>1. KeepsCall(call, call')
  BY ServeDoes
<1>2. UNCHANGED <<setup, version, connected, allowed, methods, left>>
  BY DEF Serve
<1>3. PICK c, d : c = call /\ d = call'
  OBVIOUS
<1>4. IsCall(d) /\ d.stage = c.stage /\ d.name = c.name /\ d.outcome = c.outcome
  BY <1>1, <1>3 DEF KeepsCall
<1>5. Apis' = Apis
  BY <1>2 DEF Apis
<1>6. TypeOK'
  BY <1>2, <1>3, <1>4, <1>5 DEF TypeInv, TypeOK
<1>7. QED
  BY <1>2, <1>3, <1>4, <1>6 DEF TypeInv

LEMMA ReturnTypes ==
  ASSUME TypeInv, Return
  PROVE  TypeInv'
<1>1. UNCHANGED <<setup, version, connected, allowed, methods, left>> /\ call.stage = "sent"
  BY DEF Return
<1>2. setup \in DOMAIN Setups /\ call.name \in DOMAIN Apis
  BY <1>1 DEF TypeInv, TypeOK
<1>3. PICK api : api = Apis[call.name]
  OBVIOUS
<1>4. api.returns \in ResultTypes
  BY <1>2, <1>3, Declared DEF IsApi
<1>5. PICK outcome :
        outcome = IF api.returns = "void" THEN Value(None)
                  ELSE Parse(api.returns, api.members, call.reply.command, call.reply.data)
  OBVIOUS
<1>6. outcome.raised \in BOOLEAN
  <2>1. CASE api.returns = "void"
    BY <1>5, <2>1 DEF Value
  <2>2. CASE api.returns # "void"
    BY <1>4, <1>5, <2>2, ParseTypes
  <2>3. QED
    BY <2>1, <2>2
<1>7. PICK c, d : c = call /\ d = call'
  OBVIOUS
<1>8. d = [c EXCEPT !.stage = "returned", !.outcome = outcome]
  BY <1>3, <1>5, <1>7 DEF Return
<1>9. IsCall(c)
  BY <1>7 DEF TypeInv
<1>10. IsCall(d) /\ d.stage = "returned" /\ d.name = c.name /\ d.outcome = outcome
  BY <1>8, <1>9 DEF IsCall, CallFields
<1>11. Apis' = Apis
  BY <1>1 DEF Apis
<1>12. TypeOK'
  BY <1>1, <1>2, <1>6, <1>7, <1>10, <1>11 DEF TypeInv, TypeOK
<1>13. QED
  BY <1>1, <1>7, <1>10, <1>12 DEF TypeInv

LEMMA HearTypes ==
  ASSUME TypeInv, Hear
  PROVE  TypeInv'
<1>1. /\ UNCHANGED <<setup, version, connected, allowed, methods, call>>
      /\ left.broadcasts > 0 /\ left' = [left EXCEPT !.broadcasts = @ - 1]
  BY DEF Hear
<1>2. Setups[setup].heard \in Nat
  BY Declared DEF TypeInv, TypeOK
<1>3. /\ left' = [calls |-> left'.calls, broadcasts |-> left'.broadcasts]
      /\ left'.broadcasts \in 0..Setups[setup].heard /\ left'.calls = left.calls
  BY <1>1, <1>2 DEF TypeInv, TypeOK
<1>4. Apis' = Apis
  BY <1>1 DEF Apis
<1>5. TypeOK'
  BY <1>1, <1>3, <1>4 DEF TypeInv, TypeOK
<1>6. QED
  BY <1>1, <1>3, <1>5 DEF TypeInv

LEMMA NextTypes == TypeInv /\ [Next]_vars => TypeInv'
<1> SUFFICES ASSUME TypeInv, [Next]_vars PROVE TypeInv'
  OBVIOUS
<1>1. Setups[setup].upgrades \in Nat /\ version \in 1..Setups[setup].upgrades + 1
  BY Declared DEF TypeInv, TypeOK
<1>2. CASE Upgrade
  <2>1. /\ UNCHANGED <<setup, methods, left, call>> /\ version' = version + 1
        /\ version <= Setups[setup].upgrades /\ connected' = FALSE /\ allowed' = 0
    BY <1>2 DEF Upgrade
  <2>2. Apis' = Apis
    BY <2>1 DEF Apis
  <2>3. version' \in 1..Setups[setup].upgrades + 1 /\ 0..version \subseteq 0..version' /\ version' # 0
    BY <1>1, <2>1
  <2>4. methods' \in [DOMAIN Apis -> 0..version']
    BY <2>1, <2>3 DEF TypeInv, TypeOK
  <2>5. TypeOK'
    BY <2>1, <2>2, <2>3, <2>4 DEF TypeInv, TypeOK
  <2>6. QED
    BY <2>1, <2>5 DEF TypeInv
<1>3. CASE Reconnect
  <2>1. UNCHANGED <<setup, version, methods, left, call>> /\ connected' = TRUE /\ allowed' = version
    BY <1>3 DEF Reconnect
  <2>2. Apis' = Apis /\ version # 0
    BY <1>1, <2>1 DEF Apis
  <2>3. TypeOK'
    BY <2>1, <2>2 DEF TypeInv, TypeOK
  <2>4. QED
    BY <2>1, <2>3 DEF TypeInv
<1>4. CASE UNCHANGED vars
  <2>1. UNCHANGED <<setup, version, connected, allowed, methods, left, call>> /\ Apis' = Apis
    BY <1>4 DEF vars, Apis
  <2>2. QED
    BY <2>1 DEF TypeInv, TypeOK
<1>5. QED
  BY <1>2, <1>3, <1>4, CallTypes, ServeTypes, ReturnTypes, HearTypes DEF Next

LEMMA CallKeepsSent ==
  ASSUME TypeInv, Call
  PROVE  SentInv'
<1> SUFFICES ASSUME call'.stage = "sent" PROVE SentAs(Setups[setup], version, methods, call)'
  BY DEF SentInv
<1>1. PICK x \in DOMAIN Apis : \E given, named : CallsAs(x, given, named)
  BY CallDoes
<1>2. PICK given, named : CallsAs(x, given, named)
  BY <1>1
<1>3. PICK c, m, v : c = call' /\ m = methods' /\ v = Version(x)
  OBVIOUS
<1>4. PICK s : s = Setups[setup]
  OBVIOUS
<1>5. UNCHANGED <<setup, version>>
  BY DEF Call
<1>6. c.stage = "sent" /\ "raised" # "sent"
  BY <1>3
<1>7. /\ AreGiven(Apis[x].types, Apis[x].defaults, given, named)
      /\ v \in 1..version /\ m = [methods EXCEPT ![x] = v]
      /\ IsNew(c, "sent", x, given, named)
      /\ Accepts(Apis[x].types, Apis[x].defaults, given, named)
      /\ c.data = Encode(Apis[x].types, Bind(Apis[x].types, Apis[x].defaults, given, named))
      /\ c.header = Header(Id(x, v), c.data)
  BY <1>2, <1>3, <1>6 DEF CallsAs, IsNew
<1>8. c.name = x /\ c.given = given /\ c.named = named /\ c.reached = ""
  BY <1>7 DEF IsNew
<1>9. m[x] = v /\ v # 0
  BY <1>7 DEF TypeInv, TypeOK
<1>10. Apis[x] = s.apis[x] /\ Id(x, v) = NumberIn(s.table, x, v)
  BY <1>4 DEF Apis, Id, Names, NumberIn
<1>11. WellSent(s.apis[x], NumberIn(s.table, x, v), c)
  BY <1>7, <1>8, <1>10 DEF WellSent
<1>12. SentAs(s, version, m, c)
  BY <1>8, <1>9, <1>11 DEF SentAs
<1>13. QED
  BY <1>3, <1>4, <1>5, <1>12

LEMMA ServeKeepsSent ==
  ASSUME TypeInv, SentInv, Serve
  PROVE  SentInv'
<1>1. PICK c, d, m : c = call /\ d = call' /\ m = methods
  OBVIOUS
<1>2. PICK s : s = Setups[setup]
  OBVIOUS
<1>3. /\ c.stage = "sent" /\ c.reached = "" /\ KeepsCall(c, d)
      /\ WellServed(NameOf(Command(c.header), version), Apis, d)
  BY <1>1, ServeDoes
<1>4. d.stage = "sent" /\ d.name = c.name /\ d.given = c.given /\ d.named = c.named
      /\ d.header = c.header /\ d.data = c.data
  BY <1>3 DEF KeepsCall
<1>5. SentAs(s, version, m, c)
  BY <1>1, <1>2, <1>3 DEF SentInv
<1>6. NameOf(Command(c.header), version) = NameIn(s.table, Command(d.header), version) /\ Apis = s.apis
  BY <1>2, <1>4 DEF NameOf, NameIn, Names, Apis
<1>7. WellServed(NameIn(s.table, Command(d.header), version), s.apis, d)
  BY <1>3, <1>6
<1>8. SentAs(s, version, m, d)
  BY <1>4, <1>5, <1>7 DEF SentAs, WellSent
<1>9. UNCHANGED <<setup, version, methods>>
  BY DEF Serve
<1>10. QED
  BY <1>1, <1>2, <1>8, <1>9 DEF SentInv

LEMMA NextSent == TypeInv /\ SentInv /\ [Next]_vars => SentInv'
<1> SUFFICES ASSUME TypeInv, SentInv, [Next]_vars PROVE SentInv'
  OBVIOUS
<1>1. CASE Return
  <2>1. PICK c, outcome : c = call /\ call' = [c EXCEPT !.stage = "returned", !.outcome = outcome]
    BY <1>1 DEF Return
  <2>2. IsCall(c)
    BY <2>1 DEF TypeInv
  <2>3. call'.stage = "returned"
    BY <2>1, <2>2 DEF IsCall, CallFields
  <2>4. call'.stage # "sent"
    BY <2>3
  <2>5. QED
    BY <2>4 DEF SentInv
<1>2. CASE Upgrade
  BY <1>2 DEF Upgrade, SentInv
<1>3. CASE Reconnect \/ Hear \/ UNCHANGED vars
  <2>1. UNCHANGED <<setup, version, methods, call>>
    BY <1>3 DEF Reconnect, Hear, vars
  <2>2. QED
    BY <2>1 DEF SentInv
<1>4. QED
  BY <1>1, <1>2, <1>3, CallKeepsSent, ServeKeepsSent DEF Next

-----------------------------------------------------------------------------
(* Theorems.                                                               *)

\* TypeOK: every variable has its type, and the client has a table exactly while it is connected.
THEOREM ClientTypes == Spec => []TypeOK
<1>1. TypeInv => TypeOK
  BY DEF TypeInv
<1>2. QED
  BY <1>1, InitInv, NextTypes, PTL DEF Spec

\* The client's data is a typed sequence, and if it is short enough the header says its length.
LEMMA SentFacts ==
  ASSUME TypeInv, SentInv, Served
  PROVE  LET api == Apis[call.name]
             args == Bind(api.types, api.defaults, call.given, call.named) IN
         /\ call.name \in DOMAIN Apis /\ methods[call.name] \in Nat \ {0}
         /\ AreGiven(api.types, api.defaults, call.given, call.named)
         /\ Accepts(api.types, api.defaults, call.given, call.named)
         /\ AreArguments(api.types, args)
         /\ call.data \in Seq(Int) /\ call.data = Encode(api.types, args)
         /\ call.header = Header(Id(call.name, methods[call.name]), call.data)
         /\ WellServed(NameOf(Command(call.header), version), Apis, call)
<1>1. PICK c : c = call
  OBVIOUS
<1>2. PICK api : api = Apis[c.name]
  OBVIOUS
<1>3. c.stage = "sent" /\ c.reached # ""
  BY <1>1 DEF Served
<1>4. SentAs(Setups[setup], version, methods, c)
  BY <1>1, <1>3 DEF SentInv
<1>5. /\ methods[c.name] # 0
      /\ WellSent(Apis[c.name], NumberIn(Setups[setup].table, c.name, methods[c.name]), c)
      /\ WellServed(NameIn(Setups[setup].table, Command(c.header), version), Apis, c)
  BY <1>3, <1>4 DEF SentAs, Apis
<1>6. NumberIn(Setups[setup].table, c.name, methods[c.name]) = Id(c.name, methods[c.name])
  BY DEF NumberIn, Id, Names
<1>7. NameIn(Setups[setup].table, Command(c.header), version) = NameOf(Command(c.header), version)
  BY DEF NameIn, NameOf, Names
<1>8. WellSent(api, Id(c.name, methods[c.name]), c)
  BY <1>2, <1>5, <1>6
<1>9. c.name \in DOMAIN Apis /\ methods[c.name] \in Nat \ {0}
  <2>1. c.name \in DOMAIN Apis
    BY <1>1, <1>3 DEF TypeInv, TypeOK
  <2>2. methods[c.name] \in 0..version
    BY <2>1 DEF TypeInv, TypeOK
  <2>3. QED
    BY <1>5, <2>1, <2>2
<1>10. AreArguments(api.types, Bind(api.types, api.defaults, c.given, c.named))
  BY <1>8, BindIsPython DEF WellSent
<1>11. c.data \in Seq(Int) /\ c.data = Encode(api.types, Bind(api.types, api.defaults, c.given, c.named))
  BY <1>8, <1>10, EncodeTypes DEF WellSent
<1>12. QED
  BY <1>1, <1>2, <1>5, <1>7, <1>8, <1>9, <1>10, <1>11 DEF WellSent

\* CallsReachTheirMethod: the number the client keeps with the attribute, and
\* that shares a word with the length, names the method that was called.
THEOREM CalledIsReached == Spec => []CallsReachTheirMethod
<1>1. ASSUME TypeInv, SentInv PROVE CallsReachTheirMethod
  <2> SUFFICES ASSUME Served, methods[call.name] = version, Len(call.data) < Cap
               PROVE  call.reached = call.name
    BY DEF CallsReachTheirMethod
  <2>1. PICK c, v : c = call /\ v = methods[c.name]
    OBVIOUS
  <2>2. /\ c.name \in DOMAIN Apis /\ v \in Nat \ {0} /\ v = version
        /\ c.data \in Seq(Int) /\ Len(c.data) < Cap
        /\ c.header = Header(Id(c.name, v), c.data)
        /\ WellServed(NameOf(Command(c.header), version), Apis, c)
    BY <1>1, <2>1, SentFacts
  <2>3. setup \in DOMAIN Setups
    BY <1>1 DEF TypeInv, TypeOK
  <2>4. Id(c.name, v) \in Nat /\ NameOf(Id(c.name, v), v) = c.name
    BY <2>2, <2>3, IdNames
  <2>5. Command(c.header) = Id(c.name, v)
    BY <2>2, <2>4, HeaderReads
  <2>6. NameOf(Command(c.header), version) = c.name /\ c.name # ""
    BY <2>2, <2>3, <2>4, <2>5, Declared
  <2>7. QED
    BY <2>1, <2>2, <2>6 DEF WellServed
<1>2. QED
  BY <1>1, InitInv, NextTypes, NextSent, PTL DEF Spec

\* ArgumentsArrive: what Python would have bound for the call is what the method gets,
\* by the round trip of every value and of their sequence, and nothing is left over.
THEOREM ArgumentsAsInPython == Spec => []ArgumentsArrive
<1>1. ASSUME TypeInv, SentInv PROVE ArgumentsArrive
  <2> DEFINE meant == [i \in DOMAIN Apis[call.name].types |->
                         PythonArgument(Apis[call.name].types, Apis[call.name].defaults,
                                        call.given, call.named, i)]
  <2> SUFFICES ASSUME Served, call.reached = call.name, Len(call.data) < Cap,
                      PythonAccepts(Apis[call.name].types, Apis[call.name].defaults, call.given, call.named),
                      \A i \in DOMAIN meant : Delimited(meant[i])
               PROVE  /\ call.seen = meant
                      /\ Decode(Apis[call.name].types, call.data).next = Len(call.data) + 1
    BY DEF ArgumentsArrive
  <2>1. PICK c, v, api : c = call /\ v = methods[c.name] /\ api = Apis[c.name]
    OBVIOUS
  <2>2. PICK types, defaults : types = api.types /\ defaults = api.defaults
    OBVIOUS
  <2>3. PICK args : args = Bind(types, defaults, c.given, c.named)
    OBVIOUS
  <2>4. /\ c.name \in DOMAIN Apis /\ v \in Nat \ {0}
        /\ AreGiven(types, defaults, c.given, c.named)
        /\ Accepts(types, defaults, c.given, c.named)
        /\ AreArguments(types, args)
        /\ c.data \in Seq(Int) /\ c.data = Encode(types, args)
        /\ c.header = Header(Id(c.name, v), c.data)
        /\ WellServed(NameOf(Command(c.header), version), Apis, c)
    BY <1>1, <2>1, <2>2, <2>3, SentFacts
  <2>5. \A i \in 1..Len(types) : args[i] = PythonArgument(types, defaults, c.given, c.named, i)
    BY <2>1, <2>2, <2>3, <2>4, BindIsPython
  <2>6. /\ types \in Seq(WireTypes) /\ args \in Seq(Seq(Int)) /\ Len(args) = Len(types)
        /\ DOMAIN types = 1..Len(types) /\ DOMAIN args = 1..Len(types)
    BY <2>4 DEF AreArguments
  <2>7. meant = [i \in 1..Len(types) |-> PythonArgument(types, defaults, c.given, c.named, i)]
    BY <2>1, <2>2, <2>6
  <2>8. args = [i \in 1..Len(types) |-> args[i]]
    BY <2>6
  <2>9. args = meant
    BY <2>5, <2>7, <2>8
  <2>10. \A i \in 1..Len(args) : Delimited(args[i])
    BY <2>6, <2>7, <2>9
  <2>11. Decode(types, c.data) = [args |-> args, next |-> Len(c.data) + 1]
    BY <2>4, <2>10, RoundTrip
  <2>12. setup \in DOMAIN Setups
    BY <1>1 DEF TypeInv, TypeOK
  <2>13. Id(c.name, v) \in Nat
    BY <2>4, <2>12, IdNames
  <2>14. Received(c.header, c.data) = c.data
    BY <2>1, <2>4, <2>13, HeaderReads
  <2>15. c.name \notin {"", "nothing"} /\ c.reached = c.name
    BY <2>1, <2>4, <2>12, Declared
  <2>16. c.seen = Decode(types, Received(c.header, c.data)).args
    BY <2>1, <2>2, <2>4, <2>15 DEF WellServed
  <2>17. c.seen = args
    BY <2>11, <2>14, <2>16
  <2>18. QED
    BY <2>1, <2>2, <2>9, <2>11, <2>17
<1>2. QED
  BY <1>1, InitInv, NextTypes, NextSent, PTL DEF Spec

\* ResultsArrive: the parser of a method turns what the server answered into what it meant.
THEOREM ResultsAsMeant == Spec => []ResultsArrive
<1>1. Init => ResultsArrive
  <2>1. Init => call.stage = "none"
    <3>1. NotSent.stage = "none"
      BY DEF NotSent
    <3>2. Init => call = NotSent
      BY DEF Init
    <3>3. QED
      BY <3>1, <3>2
  <2>2. call.stage = "none" => ResultsArrive
    <3>1. "none" # "returned"
      OBVIOUS
    <3>2. call.stage = "none" => ~(call.stage = "returned")
      BY <3>1
    <3> QED
      BY <3>2, Zenon DEF ResultsArrive
  <2>3. QED
    BY <2>1, <2>2
<1>2. ASSUME TypeInv, SentInv, ResultsArrive, [Next]_vars PROVE ResultsArrive'
  <2>1. CASE Return
    <3> SUFFICES ASSUME call'.reached = call'.name, Apis'[call'.name].returns # "void",
                        Delimited(call'.meant.value)
                 PROVE  call'.outcome = call'.meant
      BY DEF ResultsArrive
    <3>1. PICK c, api : c = call /\ api = Apis[c.name]
      OBVIOUS
    <3>2. /\ c.stage = "sent" /\ c.reached # "" /\ UNCHANGED setup
          /\ call' = [c EXCEPT !.stage = "returned",
                        !.outcome = IF api.returns = "void" THEN Value(None)
                                    ELSE Parse(api.returns, api.members, c.reply.command, c.reply.data)]
      BY <2>1, <3>1 DEF Return
    <3>3. IsCall(c)
      BY <1>2, <3>1 DEF TypeInv
    <3>4. PICK outcome :
            outcome = IF api.returns = "void" THEN Value(None)
                      ELSE Parse(api.returns, api.members, c.reply.command, c.reply.data)
      OBVIOUS
    <3>5. PICK d : d = call' /\ d = [c EXCEPT !.stage = "returned", !.outcome = outcome]
      BY <3>2, <3>4
    <3>6. d.reached = c.reached /\ d.name = c.name /\ d.meant = c.meant /\ d.outcome = outcome
      BY <3>3, <3>5 DEF IsCall, CallFields
    <3>7. c.reached = c.name /\ api.returns # "void" /\ Delimited(c.meant.value)
      <4>1. Apis' = Apis
        BY <3>2 DEF Apis
      <4>2. d.reached = d.name /\ Apis[d.name].returns # "void" /\ Delimited(d.meant.value)
        BY <3>5, <4>1
      <4>3. QED
        BY <3>1, <3>6, <4>2
    <3>8. Served /\ setup \in DOMAIN Setups
      BY <1>2, <3>1, <3>2 DEF Served, TypeInv, TypeOK
    <3>9. c.name \in DOMAIN Apis /\ WellServed(NameOf(Command(c.header), version), Apis, c)
      BY <1>2, <3>1, <3>8, SentFacts
    <3>10. c.name \notin {"", "nothing"} /\ IsApi(api)
      BY <3>1, <3>8, <3>9, Declared
    <3>11. PICK r \in Replies(api.returns, api.members) : c.meant = r.meant /\ c.reply = r.reply
      BY <3>1, <3>7, <3>9, <3>10 DEF WellServed
    <3>12. api.returns \in ResultTypes /\ api.members \subseteq Int \ ErrorCodes
      BY <3>10 DEF IsApi
    <3>13. Parse(api.returns, api.members, r.reply.command, r.reply.data) = r.meant
      BY <3>7, <3>11, <3>12, ReplyParsed
    <3>14. outcome = c.meant
      BY <3>4, <3>7, <3>11, <3>13
    <3>15. QED
      BY <3>5, <3>6, <3>14
  <2>2. CASE Call
    <3>1. PICK x \in DOMAIN Apis : \E given, named : CallsAs(x, given, named)
      BY <1>2, <2>2, CallDoes
    <3>2. PICK given, named : CallsAs(x, given, named)
      BY <3>1
    <3>3. call'.stage # "returned"
      BY <3>2 DEF CallsAs, IsNew
    <3>4. QED
      BY <3>3 DEF ResultsArrive
  <2>3. CASE Serve
    <3>1. call.stage = "sent" /\ KeepsCall(call, call')
      BY <1>2, <2>3, ServeDoes
    <3>2. call'.stage # "returned"
      BY <3>1 DEF KeepsCall
    <3>3. QED
      BY <3>2 DEF ResultsArrive
  <2>4. CASE Upgrade \/ Reconnect \/ Hear \/ UNCHANGED vars
    <3>1. UNCHANGED <<setup, call>>
      BY <2>4 DEF Upgrade, Reconnect, Hear, vars
    <3>2. QED
      BY <1>2, <3>1 DEF ResultsArrive, Apis
  <2>5. QED
    BY <1>2, <2>1, <2>2, <2>3, <2>4 DEF Next
<1>3. QED
  BY <1>1, <1>2, InitInv, NextTypes, NextSent, PTL DEF Spec

\* BroadcastsUnderstood, of broadcasts that are declared as bs says.
Understood(bs, b) ==
  b.name # "" =>
    /\ Len(b.answers) = IF b.asked THEN 1 ELSE 0
    /\ (\A i \in DOMAIN b.sent : Delimited(b.sent[i])) => b.got = b.sent
    /\ b.asked /\ b.returned.raised =>
         Signed(Command(Header(b.answers[1].command, b.answers[1].data))) # -1
    /\ b.asked /\ ~b.returned.raised =>
         CASE bs[b.name].returns = "byte" ->
                <<Signed(Command(Header(b.answers[1].command, b.answers[1].data)))>> = b.returned.value
           [] bs[b.name].returns = "int" -> <<b.answers[1].data[1]>> = b.returned.value
           [] bs[b.name].returns = "void" -> b.answers[1].data # None

\* Answers that are read as numbers of their own.
LEMMA AnswersRead ==
  /\ SendEmpty # None
  /\ Signed(Command(Header(1, SendEmpty))) # -1 /\ Signed(Command(Header(127, SendEmpty))) # -1
  /\ Signed(Command(Header(-120, SendEmpty))) # -1
  /\ Signed(Command(Header(1, None))) = 1 /\ Signed(Command(Header(-1, None))) = -1
<1>1. PICK e \in Seq(Int) : e = SendEmpty /\ Len(e) = 1
  <2>1. SendEmpty \in Seq(Int) /\ Len(SendEmpty) = 1
    BY DEF SendEmpty
  <2>2. QED
    BY <2>1
<1>2. PICK n \in Seq(Int) : n = None /\ Len(n) = 0
  <2>1. None \in Seq(Int) /\ Len(None) = 0
    BY DEF None
  <2>2. QED
    BY <2>1
<1>3. Len(e) < Cap /\ Len(n) < Cap
  BY <1>1, <1>2, CapFacts
<1>4. Signed(1) = 1 /\ Signed(127) = 127
  BY DEF Signed
<1>5. Command(Header(1, e)) = 1 /\ Command(Header(127, e)) = 127 /\ Command(Header(1, n)) = 1
  BY <1>3, HeaderReads
<1>6. -120 \in -128..-1 /\ -1 \in -128..-1 /\ -120 # -1 /\ 1 # -1 /\ 127 # -1
  OBVIOUS
<1>7. Signed(Command(Header(-120, e))) = -120 /\ Signed(Command(Header(-1, n))) = -1
  BY <1>3, <1>6, NegativeReads
<1>8. SendEmpty # None
  BY DEF SendEmpty, None
<1>9. Signed(Command(Header(1, e))) = 1 /\ Signed(Command(Header(127, e))) = 127 /\ Signed(Command(Header(1, n))) = 1
  BY <1>4, <1>5
<1>10. /\ Signed(Command(Header(1, e))) # -1 /\ Signed(Command(Header(127, e))) # -1
       /\ Signed(Command(Header(-120, e))) # -1
       /\ Signed(Command(Header(1, n))) = 1 /\ Signed(Command(Header(-1, n))) = -1
  BY <1>6, <1>7, <1>9
<1>11. QED
  BY <1>1, <1>2, <1>8, <1>10

LEMMA FunctionIsSeq ==
  ASSUME NEW S, NEW n \in Nat, NEW f \in [1..n -> S]
  PROVE  f \in Seq(S) /\ Len(f) = n
<1>1. f \in Seq(S)
  BY SeqDef
<1>2. QED
  BY <1>1

\* What a handler of Hear returns, and what Hear makes of broadcast x with these arguments.
HandlerValues(type) == IF type = "byte" THEN {<<-1>>, <<1>>} ELSE {<<0>>, <<5>>}
HeardAs(types, sent, x, command, asked, known, returned, b) ==
  b = [name |-> x, sent |-> sent, asked |-> asked, returned |-> returned,
       got |-> IF known THEN Decode(types, Encode(types, sent)).args ELSE sent,
       answers |-> IF ~asked THEN <<>>
                   ELSE IF ~known THEN <<Answer(BroadcastResultNoHandler, SendEmpty)>>
                   ELSE <<Response(x, command, returned)>>]

\* A number from 128 on finds no handler.
HandlerNumber(known, command) == known => command \in {1, 127}

LEMMA HeardIsUnderstood ==
  ASSUME setup \in DOMAIN Setups, NEW x \in DOMAIN Broadcasts, NEW shift \in Nat,
         NEW asked \in BOOLEAN, NEW known \in BOOLEAN, NEW raises \in BOOLEAN,
         NEW command, HandlerNumber(known, command),
         NEW v \in HandlerValues(Broadcasts[x].returns),
         NEW types, types = Broadcasts[x].types,
         NEW sent, sent = [i \in DOMAIN types |-> Sample(types[i], i + shift)],
         NEW returned, returned = IF raises \/ ~known THEN Raised ELSE Value(v),
         NEW b, HeardAs(types, sent, x, command, asked, known, returned, b)
  PROVE  Understood(Broadcasts, b)
<1>0. /\ b.name = x /\ b.sent = sent /\ b.asked = asked /\ b.returned = returned
      /\ b.got = IF known THEN Decode(types, Encode(types, sent)).args ELSE sent
      /\ b.answers = IF ~asked THEN <<>>
                     ELSE IF ~known THEN <<Answer(BroadcastResultNoHandler, SendEmpty)>>
                     ELSE <<Response(x, command, returned)>>
  BY DEF HeardAs
<1>1. IsApi(Broadcasts[x]) /\ Broadcasts[x].returns \in {"void", "byte", "int"}
  BY Declared
<1>2. AreArguments(types, sent)
  <2>1. types \in Seq(WireTypes \cap DOMAIN Samples)
    BY <1>1 DEF IsApi
  <2>2. PICK n \in Nat : n = Len(types) /\ DOMAIN types = 1..n
    BY <2>1
  <2>3. ASSUME NEW i \in 1..n
        PROVE  types[i] \in WireTypes /\ IsValue(types[i], sent[i]) /\ sent[i] \in Seq(Int)
    <3>1. types[i] \in WireTypes \cap DOMAIN Samples /\ i + shift \in Nat
      BY <2>1, <2>2
    <3>2. sent[i] = Sample(types[i], i + shift)
      BY <2>2
    <3>3. QED
      BY <3>1, <3>2, SampleIs
  <2>4. sent \in [1..n -> Seq(Int)]
    BY <2>2, <2>3
  <2>5. sent \in Seq(Seq(Int)) /\ Len(sent) = n
    BY <2>4, FunctionIsSeq
  <2>6. types \in Seq(WireTypes)
    BY <2>2, <2>3, <2>1
  <2>7. QED
    BY <2>2, <2>3, <2>5, <2>6, Zenon DEF AreArguments
<1>3. ASSUME \A i \in DOMAIN sent : Delimited(sent[i]) PROVE b.got = sent
  <2>0. sent \in Seq(Seq(Int))
    BY <1>2, Zenon DEF AreArguments
  <2>1. \A i \in 1..Len(sent) : Delimited(sent[i])
    <3>1. DOMAIN sent = 1..Len(sent)
      BY <2>0, LenProperties, Zenon
    <3>2. QED
      BY <1>3, <3>1, Zenon
  <2>2. Decode(types, Encode(types, sent)).args = sent
    <3>1. Decode(types, Encode(types, sent)) = [args |-> sent, next |-> Len(Encode(types, sent)) + 1]
      BY <1>2, <2>1, RoundTrip, Zenon
    <3>2. QED
      BY <3>1
  <2>3. QED
    BY <1>0, <2>2
<1>4. Len(b.answers) = IF asked THEN 1 ELSE 0
  BY <1>0
<1>5. ASSUME asked, returned.raised
      PROVE  Signed(Command(Header(b.answers[1].command, b.answers[1].data))) # -1
  <2>1. CASE ~known
    <3>1. b.answers[1] = Answer(-120, SendEmpty)
      BY <1>0, <1>5, <2>1 DEF BroadcastResultNoHandler
    <3>2. b.answers[1].command = -120 /\ b.answers[1].data = SendEmpty
      BY <3>1 DEF Answer
    <3>3. QED
      BY <3>2, AnswersRead
  <2>2. CASE known
    <3>1. b.answers[1] = Answer(command, SendEmpty)
      BY <1>0, <1>5, <2>2 DEF Response
    <3>2. b.answers[1].command = command /\ command \in {1, 127} /\ b.answers[1].data = SendEmpty
      BY <2>2, <3>1 DEF Answer, HandlerNumber
    <3>3. QED
      BY <3>2, AnswersRead
  <2>3. QED
    BY <2>1, <2>2
<1>6. ASSUME asked, ~returned.raised
      PROVE  CASE Broadcasts[x].returns = "byte" ->
                    <<Signed(Command(Header(b.answers[1].command, b.answers[1].data)))>> = returned.value
               [] Broadcasts[x].returns = "int" -> <<b.answers[1].data[1]>> = returned.value
               [] Broadcasts[x].returns = "void" -> b.answers[1].data # None
  <2>1. known /\ returned = Value(v) /\ returned.value = v
    BY <1>6 DEF Raised, Value
  <2>2. b.answers[1] = Response(x, command, returned)
    BY <1>0, <1>6, <2>1
  <2>3. CASE Broadcasts[x].returns = "byte"
    <3>1. b.answers[1] = Answer(v[1], None)
      BY <1>6, <2>1, <2>2, <2>3 DEF Response, Convert
    <3>2. b.answers[1].command = v[1] /\ b.answers[1].data = None
      BY <3>1 DEF Answer
    <3>3. v = <<-1>> \/ v = <<1>>
      BY <2>3 DEF HandlerValues
    <3>4. <<Signed(Command(Header(v[1], None)))>> = v
      BY <3>3, AnswersRead
    <3>5. QED
      BY <2>1, <2>3, <3>2, <3>4
  <2>4. CASE Broadcasts[x].returns = "int"
    <3>1. b.answers[1] = Answer(command, Fixed(v, Width["int"]))
      BY <1>6, <2>1, <2>2, <2>4 DEF Response, Convert
    <3>2. b.answers[1].data = Fixed(v, 4)
      BY <3>1 DEF Answer, Width
    <3>3. PICK m \in Int : v = <<m>>
      BY <2>4 DEF HandlerValues
    <3>4. <<b.answers[1].data[1]>> = v
      BY <3>2, <3>3, FourBytes
    <3>5. QED
      BY <2>1, <2>4, <3>4
  <2>5. CASE Broadcasts[x].returns = "void"
    <3>1. b.answers[1] = Answer(command, SendEmpty)
      BY <1>6, <2>1, <2>2, <2>5 DEF Response
    <3>2. b.answers[1].data # None
      BY <3>1, AnswersRead DEF Answer
    <3>3. QED
      BY <2>5, <3>2
  <2>6. QED
    BY <1>1, <2>3, <2>4, <2>5
<1>7. QED
  BY <1>0, <1>3, <1>4, <1>5, <1>6 DEF Understood

LEMMA HearIs ==
  ASSUME Hear
  PROVE  \E x \in DOMAIN Broadcasts, shift \in 1..Setups[setup].shifts, number \in Numbers,
            asked \in BOOLEAN, known \in BOOLEAN, raises \in BOOLEAN :
           /\ known => Signed(number) = number
           /\ \E v \in HandlerValues(Broadcasts[x].returns) :
                HeardAs(Broadcasts[x].types,
                        [i \in DOMAIN Broadcasts[x].types |-> Sample(Broadcasts[x].types[i], i + shift)],
                        x, Signed(number), asked, known,
                        IF raises \/ ~known THEN Raised ELSE Value(v), broadcast')
<1>1. PICK x \in DOMAIN Broadcasts, shift \in 1..Setups[setup].shifts, number \in Numbers,
          asked \in BOOLEAN, offered \in BOOLEAN, raises \in BOOLEAN :
          LET types == Broadcasts[x].types
              command == Signed(number)
              known == offered /\ command = number
              sent == [i \in DOMAIN types |-> Sample(types[i], i + shift)] IN
          /\ connected /\ left.broadcasts > 0
          /\ left' = [left EXCEPT !.broadcasts = @ - 1]
          /\ \E v \in IF Broadcasts[x].returns = "byte" THEN {<<-1>>, <<1>>} ELSE {<<0>>, <<5>>} :
               LET returned == IF raises \/ ~known THEN Raised ELSE Value(v) IN
               broadcast' =
                 [name |-> x, sent |-> sent, asked |-> asked, returned |-> returned,
                  got |-> IF known THEN Decode(types, Encode(types, sent)).args ELSE sent,
                  answers |-> IF ~asked THEN <<>>
                              ELSE IF ~known THEN <<Answer(BroadcastResultNoHandler, SendEmpty)>>
                              ELSE <<Response(x, command, returned)>>]
          /\ UNCHANGED <<setup, version, connected, allowed, methods, call>>
  BY DEF Hear
<1>2. PICK known \in BOOLEAN : known <=> offered /\ Signed(number) = number
  BY Zenon
<1>3. PICK v \in HandlerValues(Broadcasts[x].returns) :
        HeardAs(Broadcasts[x].types,
                [i \in DOMAIN Broadcasts[x].types |-> Sample(Broadcasts[x].types[i], i + shift)],
                x, Signed(number), asked, known, IF raises \/ ~known THEN Raised ELSE Value(v), broadcast')
  BY <1>1, <1>2 DEF HeardAs, HandlerValues
<1>4. QED
  BY <1>2, <1>3, Zenon

\* BroadcastsUnderstood: a broadcast is understood, and its answer says what the handler returned.
THEOREM AnswersUnderstood == Spec => []BroadcastsUnderstood
<1>1. BroadcastsUnderstood <=> Understood(Broadcasts, broadcast)
  BY DEF BroadcastsUnderstood, Understood
<1>2. Init => Understood(Broadcasts, broadcast)
  <2>1. Init => broadcast = NotHeard
    BY DEF Init
  <2>2. NotHeard.name = ""
    BY DEF NotHeard
  <2>3. QED
    BY <2>1, <2>2, Zenon DEF Understood
<1>3. ASSUME TypeInv, Understood(Broadcasts, broadcast), [Next]_vars
      PROVE  Understood(Broadcasts, broadcast)'
  <2>1. CASE Hear
    <3>1. setup \in DOMAIN Setups /\ UNCHANGED setup
      BY <1>3, <2>1 DEF TypeInv, TypeOK, Hear
    <3>2. Setups[setup].shifts \in Nat
      BY <3>1, Declared
    <3>3. PICK x \in DOMAIN Broadcasts, shift \in 1..Setups[setup].shifts, number \in Numbers,
               asked \in BOOLEAN, known \in BOOLEAN, raises \in BOOLEAN :
               /\ known => Signed(number) = number
               /\ \E v \in HandlerValues(Broadcasts[x].returns) :
                    HeardAs(Broadcasts[x].types,
                            [i \in DOMAIN Broadcasts[x].types |-> Sample(Broadcasts[x].types[i], i + shift)],
                            x, Signed(number), asked, known,
                            IF raises \/ ~known THEN Raised ELSE Value(v), broadcast')
      BY <2>1, HearIs
    <3>a. PICK command : command = Signed(number) /\ (known => command \in {1, 127})
      BY <3>3 DEF Numbers, Signed
    <3>b. HandlerNumber(known, command)
      BY <3>a DEF HandlerNumber
    <3>4. PICK types, sent : /\ types = Broadcasts[x].types
                             /\ sent = [i \in DOMAIN types |-> Sample(types[i], i + shift)]
      OBVIOUS
    <3>5. PICK v \in HandlerValues(Broadcasts[x].returns) :
               HeardAs(types, sent, x, command, asked, known, IF raises \/ ~known THEN Raised ELSE Value(v), broadcast')
      BY <3>3, <3>a, <3>4
    <3>6. PICK b : b = broadcast'
      OBVIOUS
    <3>7. PICK returned : returned = IF raises \/ ~known THEN Raised ELSE Value(v)
      OBVIOUS
    <3>8. HeardAs(types, sent, x, command, asked, known, returned, b)
      BY <3>5, <3>6, <3>7
    <3>9. shift \in Nat
      BY <3>2
    <3>10. Understood(Broadcasts, b)
      BY <3>1, <3>b, <3>4, <3>7, <3>8, <3>9, HeardIsUnderstood
    <3>11. Broadcasts' = Broadcasts
      BY <3>1 DEF Broadcasts
    <3>12. QED
      BY <3>6, <3>10, <3>11
  <2>2. CASE Upgrade \/ Reconnect \/ Call \/ Serve \/ Return \/ UNCHANGED vars
    <3>1. UNCHANGED <<setup, broadcast>>
      BY <2>2 DEF Upgrade, Reconnect, Call, Serve, Return, vars
    <3>2. Broadcasts' = Broadcasts
      BY <3>1 DEF Broadcasts
    <3>3. QED
      BY <1>3, <3>1, <3>2
  <2>3. QED
    BY <1>3, <2>1, <2>2 DEF Next
<1>4. QED
  BY <1>1, <1>2, <1>3, InitInv, NextTypes, PTL DEF Spec
=============================================================================
