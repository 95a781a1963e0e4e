------------------------ MODULE RollingLoggerProofs ------------------------
(***************************************************************************)
(* The rolling logger, for any threads, bounds and lengths of lines: the   *)
(* types, what is lost, and the order in which the files read.             *)
(***************************************************************************)
EXTENDS RollingLogger, FiniteSetTheorems, SequenceTheorems, WellFoundedInduction, TLAPS

-----------------------------------------------------------------------------
(* The names of the files: those of a day are numbered without a gap.      *)

Numbered(d, n) == \A i \in Nat \ {0} : <<d, i>> \in DOMAIN files <=> i <= n
NameInv ==
  /\ IsFiniteSet(DOMAIN files)
  /\ \A d \in 1..MaxDay : \E n \in Nat : Numbered(d, n)
  /\ currentFile # NoFile => currentFile[1] = currentDateStr /\ currentDateStr \in 1..MaxDay
TypeInv == TypeOK /\ NameInv

LEMMA NextIndexIsNext ==
  ASSUME TypeInv, currentDateStr \in 1..MaxDay, NEW n \in Nat, Numbered(currentDateStr, n)
  PROVE  NextIndex = n + 1
<1> DEFINE d == currentDateStr
           file == [i \in 1..n |-> <<d, i>>]
           free(i) == <<d, i>> \notin DOMAIN files /\ \A j \in 1..(i - 1) : <<d, j>> \in DOMAIN files
           k == Cardinality(DOMAIN files)
<1>1. n <= k /\ k \in Nat
  <2>1. file \in Injection(1..n, DOMAIN files)
    BY DEF Injection, IsInjective, Numbered
  <2>2. Cardinality(1..n) <= k /\ k \in Nat
    BY <2>1, FS_Injection, FS_CardinalityType DEF TypeInv, NameInv
  <2>3. QED
    BY <2>2, FS_Interval
<1>2. n + 1 \in 1..(k + 1) /\ free(n + 1)
  BY <1>1 DEF Numbered
<1>3. ASSUME NEW i \in 1..(k + 1), free(i) PROVE i = n + 1
  <2>1. i \in Nat \ {0} /\ n + 1 \in Nat \ {0} /\ i > n
    BY <1>1, <1>3 DEF Numbered
  <2>2. ~(n + 1 <= i - 1)
    <3>1. <<d, n + 1>> \notin DOMAIN files
      BY <2>1 DEF Numbered
    <3>2. QED
      BY <1>3, <2>1, <3>1
  <2>3. QED
    BY <2>1, <2>2
<1>4. QED
  BY <1>2, <1>3 DEF NextIndex


-----------------------------------------------------------------------------
(* What a step does to the files.                                          *)

\* A file is there, empty if it is new; or it has got a line.
Opened(name) ==
  /\ DOMAIN files' = DOMAIN files \cup {name}
  /\ \A n \in DOMAIN files : files'[n] = files[n]
  /\ name \notin DOMAIN files => files'[name] = <<>>
Added(name, line) ==
  /\ DOMAIN files' = DOMAIN files \cup {name}
  /\ \A n \in DOMAIN files \ {name} : files'[n] = files[n]
  /\ files'[name] = Append(IF name \in DOMAIN files THEN files[name] ELSE <<>>, line)

LEMMA OpenFileOpens ==
  ASSUME NEW name, OpenFile(name) PROVE fos' = TRUE /\ Opened(name)
  BY DEF OpenFile, Opened

LEMMA WriteAdds ==
  ASSUME TypeInv, NEW name, NEW line \in Entries, Write(name, line)
  PROVE  \/ /\ Added(name, line) /\ pos' = pos + 1 /\ UNCHANGED <<writer, batch, failures>>
         \/ IOFails /\ BatchOver /\ fos' = TRUE /\ Opened(name)
<1>1. CASE /\ files' = [n \in DOMAIN files \cup {name} |->
                   (IF n \in DOMAIN files THEN files[n] ELSE <<>>) \o (IF n = name THEN <<line>> ELSE <<>>)]
           /\ pos' = pos + 1
           /\ UNCHANGED <<writer, batch, failures>>
  <2>1. \A n \in DOMAIN files : files[n] \in Seq(Entries)
    BY DEF TypeInv, TypeOK
  <2>2. \A s \in Seq(Entries) : s \o <<>> = s /\ s \o <<line>> = Append(s, line) /\ <<>> \o <<line>> = Append(<<>>, line)
    BY ConcatEmptySeq
  <2>3. Added(name, line)
    BY <1>1, <2>1, <2>2 DEF Added
  <2>4. QED
    BY <1>1, <2>3
<1>2. CASE IOFails /\ OpenFile(name) /\ BatchOver
  BY <1>2, OpenFileOpens
<1>3. QED
  BY <1>1, <1>2 DEF Write


\* The line a thread writes, into which file, and what becomes of it.
Candidate == <<currentDateStr, NextIndex>>
Into(name) ==
  /\ currentFile # NoFile /\ currentFile' = name /\ UNCHANGED currentDateStr
  /\ \/ name = currentFile /\ fos /\ fos' = TRUE /\ ~Full(batch[pos + 1])
     \/ name = Candidate
WritesLine(name) ==
  Into(name) /\ fos' = TRUE /\ Added(name, batch[pos + 1]) /\ pos' = pos + 1 /\ UNCHANGED <<writer, batch, failures>>
FailsToWrite(name) ==
  Into(name) /\ IOFails /\ BatchOver /\ \/ fos' = TRUE /\ Opened(name)
                                        \/ fos' = FALSE /\ UNCHANGED files

LEMMA WriteLineDoes ==
  ASSUME TypeInv, WriteLine
  PROVE  /\ pos < Len(batch) /\ pos + 1 \in 1..Len(batch) /\ batch[pos + 1] \in Entries
         /\ \/ closer = "timedOut" /\ BatchOver /\ UNCHANGED <<fileVars, failures>>
            \/ (currentFile = NoFile \/ ~fos) /\ NullPointer /\ UNCHANGED <<fileVars, failures>>
            \/ \E name \in {currentFile, Candidate} : WritesLine(name) \/ FailsToWrite(name)
<1> DEFINE line == batch[pos + 1]
<1>1. pos < Len(batch) /\ pos + 1 \in 1..Len(batch) /\ line \in Entries
  BY DEF WriteLine, TypeInv, TypeOK
<1>2. CASE closer = "timedOut" /\ BatchOver /\ UNCHANGED <<fileVars, failures>>
  BY <1>1, <1>2
<1>3. CASE (currentFile = NoFile \/ (~fos /\ ~Full(line))) /\ NullPointer /\ UNCHANGED <<fileVars, failures>>
  BY <1>1, <1>3
<1>4. ASSUME currentFile # NoFile, currentFile' = Candidate, UNCHANGED currentDateStr,
             \/ fos' = TRUE /\ Write(Candidate, line)
             \/ fos' = FALSE /\ IOFails /\ BatchOver /\ UNCHANGED files
      PROVE  WritesLine(Candidate) \/ FailsToWrite(Candidate)
  BY <1>1, <1>4, WriteAdds DEF WritesLine, FailsToWrite, Into
<1>5. ASSUME currentFile # NoFile, fos, ~Full(line), Write(currentFile, line), UNCHANGED <<currentFile, currentDateStr, fos>>
      PROVE  WritesLine(currentFile) \/ FailsToWrite(currentFile)
  <2>1. fos' = TRUE
    BY <1>5 DEF TypeInv, TypeOK
  <2>2. QED
    BY <1>1, <1>5, <2>1, WriteAdds DEF WritesLine, FailsToWrite, Into
<1>6. QED
  BY <1>1, <1>2, <1>3, <1>4, <1>5 DEF WriteLine, Candidate

LEMMA NamesLast ==
  ASSUME TypeInv, NEW name, DOMAIN files' = DOMAIN files \cup {name},
         \/ name \in DOMAIN files
         \/ name = <<day, 0>>
         \/ currentDateStr \in 1..MaxDay /\ name = Candidate
  PROVE  /\ IsFiniteSet(DOMAIN files') /\ DOMAIN files' \subseteq Names
         /\ \A d \in 1..MaxDay : \E n \in Nat : Numbered(d, n)'
<1>1. IsFiniteSet(DOMAIN files')
  BY FS_AddElement DEF TypeInv, NameInv
<1>2. CASE name \in DOMAIN files \/ name = <<day, 0>>
  <2>1. DOMAIN files' \subseteq Names
    BY <1>2 DEF TypeInv, TypeOK, Names
  <2>2. \A d, n : Numbered(d, n) => Numbered(d, n)'
    BY <1>2 DEF Numbered
  <2>3. QED
    BY <1>1, <2>1, <2>2 DEF TypeInv, NameInv
<1>3. CASE currentDateStr \in 1..MaxDay /\ name = Candidate
  <2>1. PICK k \in Nat : Numbered(currentDateStr, k)
    BY <1>3 DEF TypeInv, NameInv
  <2>2. PICK c : c = currentDateStr
    OBVIOUS
  <2>3. name = <<c, k + 1>> /\ c \in 1..MaxDay
    BY <1>3, <2>1, <2>2, NextIndexIsNext DEF Candidate
  <2>4. DOMAIN files' \subseteq Names
    BY <2>3 DEF TypeInv, TypeOK, Names
  <2>5. Numbered(c, k + 1)'
    BY <2>1, <2>2, <2>3 DEF Numbered
  <2>6. \A d, n : d # c /\ Numbered(d, n) => Numbered(d, n)'
    BY <2>3 DEF Numbered
  <2>7. QED
    BY <1>1, <2>3, <2>4, <2>5, <2>6 DEF TypeInv, NameInv
<1>4. QED
  BY <1>2, <1>3


-----------------------------------------------------------------------------
(* The types.                                                              *)

LEMMA AppendRange ==
  ASSUME NEW S, NEW s \in Seq(S), NEW x \in S
  PROVE  Append(s, x) \in Seq(S) /\ Range(Append(s, x)) = Range(s) \cup {x}
<1>1. DOMAIN Append(s, x) = 1..(Len(s) + 1) /\ DOMAIN s = 1..Len(s) /\ Len(s) \in Nat
  OBVIOUS
<1>2. \A i \in 1..(Len(s) + 1) : Append(s, x)[i] = IF i = Len(s) + 1 THEN x ELSE s[i]
  OBVIOUS
<1>3. Append(s, x)[Len(s) + 1] = x /\ \A i \in 1..Len(s) : Append(s, x)[i] = s[i]
  BY <1>1, <1>2
<1>4. QED
  BY <1>1, <1>2, <1>3 DEF Range

\* The part of the types that is about the queue and the batch, and what the writer takes.
LEMMA TakeMoves ==
  ASSUME TypeInv, Take
  PROVE  /\ batch' \in Seq(Entries) /\ logQueue' \in Seq(Lines)
         /\ \E k \in 0..Len(logQueue) :
              /\ Len(batch') = Len(batch) + k /\ Len(logQueue') = Len(logQueue) - k
              /\ \A i \in 1..Len(batch) : batch'[i] = batch[i]
              /\ \A i \in 1..k : batch'[Len(batch) + i] = logQueue[i]
              /\ \A i \in 1..(Len(logQueue) - k) : logQueue'[i] = logQueue[k + i]
<1> DEFINE k == IF Len(logQueue) < MAX_BUFFER_SIZE THEN Len(logQueue) ELSE MAX_BUFFER_SIZE
           first == SubSeq(logQueue, 1, k)
           rest == SubSeq(logQueue, k + 1, Len(logQueue))
<1>1. /\ batch \in Seq(Entries) /\ logQueue \in Seq(Lines) /\ Lines \subseteq Entries
      /\ Len(logQueue) \in Nat /\ Len(batch) \in Nat
  BY DEF TypeInv, TypeOK, Lines, Entries
<1>2. k \in 0..Len(logQueue)
  BY <1>1, LoggerAssumption
<1>3. batch' = batch \o first /\ logQueue' = rest
  BY DEF Take
<1> HIDE DEF k
<1>4. /\ first \in Seq(Entries) /\ Len(first) = k
      /\ \A i \in 1..k : first[i] = logQueue[i]
  <2>1. \A i \in 1..k : logQueue[i] \in Entries
    BY <1>1, <1>2
  <2>2. 1 \in Int /\ k \in Int
    BY <1>1, <1>2
  <2>3. /\ first \in Seq(Entries)
        /\ Len(first) = IF 1 <= k THEN k - 1 + 1 ELSE 0
        /\ \A i \in 1..(k - 1 + 1) : first[i] = logQueue[1 + i - 1]
    BY ONLY <2>1, <2>2, SubSeqProperties
  <2>4. QED
    BY <1>1, <1>2, <2>3
<1>5. /\ rest \in Seq(Lines) /\ Len(rest) = Len(logQueue) - k
      /\ \A i \in 1..(Len(logQueue) - k) : rest[i] = logQueue[k + i]
  <2>1. \A i \in (k + 1)..Len(logQueue) : logQueue[i] \in Lines
    BY <1>1, <1>2
  <2>2. k + 1 \in Int /\ Len(logQueue) \in Int
    BY <1>1, <1>2
  <2>3. /\ rest \in Seq(Lines)
        /\ Len(rest) = IF k + 1 <= Len(logQueue) THEN Len(logQueue) - (k + 1) + 1 ELSE 0
        /\ \A i \in 1..(Len(logQueue) - (k + 1) + 1) : rest[i] = logQueue[k + 1 + i - 1]
    BY ONLY <2>1, <2>2, SubSeqProperties
  <2>4. QED
    BY <1>1, <1>2, <2>3
<1>6. /\ batch' \in Seq(Entries) /\ Len(batch') = Len(batch) + k
      /\ \A i \in 1..Len(batch) : batch'[i] = batch[i]
      /\ \A i \in 1..k : batch'[Len(batch) + i] = logQueue[i]
  BY <1>1, <1>2, <1>3, <1>4, ConcatProperties
<1>7. QED
  BY <1>2, <1>3, <1>5, <1>6


LEMMA InitTypes == Init => TypeInv
<1> SUFFICES ASSUME Init PROVE TypeInv
  OBVIOUS
<1>1. DOMAIN files = IF oldSize = 0 THEN {} ELSE {<<1, 0>>}
  BY DEF Init
<1>2. DOMAIN files \subseteq Names /\ \A name \in DOMAIN files : files[name] \in Seq(Entries)
  BY <1>1, LoggerAssumption DEF Init, Names
<1>3. IsFiniteSet(DOMAIN files)
  <2>1. IsFiniteSet({}) /\ IsFiniteSet({<<1, 0>>})
    BY FS_EmptySet, FS_Singleton
  <2>2. QED
    BY <1>1, <2>1
<1>4. \A d : Numbered(d, 0)
  BY <1>1 DEF Numbered
<1>5. NameInv
  BY <1>3, <1>4 DEF Init, NameInv
<1>6. TypeOK
  <2>1. batch = <<Banner>> /\ batch \in Seq(Entries) /\ Len(batch) = 1 /\ <<>> \in Seq(Lines)
    BY LoggerAssumption DEF Init, Entries, Banner
  <2>2. 1 \in 1..MaxDay /\ 0 \in 0..MaxDay /\ 0 \in 0..MaxLines /\ 0 \in 0..MaxFailures /\ 0 \in 0..1
    BY LoggerAssumption
  <2>3. logging \in [Threads -> 0..MaxLines]
    BY <2>2 DEF Init
  <2>4. QED
    BY <1>2, <2>1, <2>2, <2>3 DEF Init, TypeOK, Exits
<1>7. QED
  BY <1>5, <1>6 DEF TypeInv

\* The files, in every step that may change them.
LEMMA OpensOrAdds ==
  ASSUME TypeInv, NEW name,
         \/ name \in DOMAIN files
         \/ name = <<day, 0>>
         \/ currentDateStr \in 1..MaxDay /\ name = Candidate,
         Opened(name) \/ (\E line \in Entries : Added(name, line))
  PROVE  /\ IsFiniteSet(DOMAIN files') /\ DOMAIN files' \subseteq Names
         /\ name \in DOMAIN files' /\ name \in Names
         /\ \A d \in 1..MaxDay : \E n \in Nat : Numbered(d, n)'
         /\ \A n \in DOMAIN files' : files'[n] \in Seq(Entries)
<1>1. DOMAIN files' = DOMAIN files \cup {name}
  BY DEF Opened, Added
<1>2. \A n \in DOMAIN files : files[n] \in Seq(Entries)
  BY DEF TypeInv, TypeOK
<1>3. \A n \in DOMAIN files' : files'[n] \in Seq(Entries)
  <2>1. CASE Opened(name)
    <3>1. <<>> \in Seq(Entries)
      OBVIOUS
    <3>2. QED
      BY <1>1, <1>2, <2>1, <3>1 DEF Opened
  <2>2. ASSUME NEW line \in Entries, Added(name, line)
        PROVE  \A n \in DOMAIN files' : files'[n] \in Seq(Entries)
    <3>1. Append(IF name \in DOMAIN files THEN files[name] ELSE <<>>, line) \in Seq(Entries)
      BY <1>2
    <3>2. QED
      BY <1>1, <1>2, <2>2, <3>1 DEF Added
  <2>3. QED
    BY <2>1, <2>2
<1>4. QED
  BY <1>1, <1>3, NamesLast

LEMMA WriteLineTypes ==
  ASSUME TypeInv, WriteLine
  PROVE  TypeInv'
<1>1. /\ running' = running /\ queueVars' = queueVars /\ day' = day /\ oldSize' = oldSize /\ closer' = closer
      /\ writer \in {"write", "exitWrite"}
  BY DEF WriteLine
<1>2. CASE closer = "timedOut" /\ BatchOver /\ UNCHANGED <<fileVars, failures>>
  <2>1. NameInv'
    BY <1>2 DEF fileVars, TypeInv, NameInv, Numbered
  <2>2. TypeOK'
    BY <1>1, <1>2 DEF fileVars, queueVars, TypeInv, TypeOK, BatchOver, Exiting, Exits
  <2>3. QED
    BY <2>1, <2>2 DEF TypeInv
<1>3. CASE NullPointer /\ UNCHANGED <<fileVars, failures>>
  <2>1. NameInv'
    BY <1>3 DEF fileVars, TypeInv, NameInv, Numbered
  <2>2. TypeOK'
    BY <1>1, <1>3 DEF fileVars, queueVars, TypeInv, TypeOK, NullPointer, Exiting, Exits
  <2>3. QED
    BY <2>1, <2>2 DEF TypeInv
<1>4. ASSUME NEW name \in {currentFile, Candidate}, WritesLine(name) \/ FailsToWrite(name)
      PROVE  TypeInv'
  <2>1. /\ currentFile' = name /\ currentDateStr' = currentDateStr /\ currentDateStr \in 1..MaxDay
        /\ name \in DOMAIN files \/ name = Candidate
    BY <1>4 DEF WritesLine, FailsToWrite, Into, TypeInv, TypeOK, NameInv
  <2>2. name[1] = currentDateStr
    BY <1>4, <2>1 DEF WritesLine, FailsToWrite, Into, TypeInv, NameInv, Candidate
  <2>3. name \in Names
    <3>1. CASE name = Candidate
      <4>1. PICK k \in Nat : Numbered(currentDateStr, k)
        BY <2>1 DEF TypeInv, NameInv
      <4>2. QED
        BY <2>1, <3>1, <4>1, NextIndexIsNext DEF Candidate, Names
    <3>2. QED
      BY <2>1, <3>1 DEF TypeInv, TypeOK
  <2>4. /\ IsFiniteSet(DOMAIN files') /\ DOMAIN files' \subseteq Names
        /\ \A d \in 1..MaxDay : \E n \in Nat : Numbered(d, n)'
        /\ \A n \in DOMAIN files' : files'[n] \in Seq(Entries)
        /\ fos' => name \in DOMAIN files'
    <3>1. CASE UNCHANGED files /\ ~fos'
      BY <3>1 DEF TypeInv, TypeOK, NameInv, Numbered
    <3>2. CASE Opened(name) \/ Added(name, batch[pos + 1])
      BY <2>1, <3>2, OpensOrAdds, WriteLineDoes
    <3>3. QED
      BY <1>4, <3>1, <3>2 DEF WritesLine, FailsToWrite
  <2>5. fos' \in BOOLEAN /\ failures' \in 0..MaxFailures
    <3>1. failures \in 0..MaxFailures /\ MaxFailures \in Nat
      BY LoggerAssumption DEF TypeInv, TypeOK
    <3>2. QED
      <4>1. failures' = failures \/ (failures < MaxFailures /\ failures' = failures + 1)
        BY <1>4 DEF WritesLine, FailsToWrite, IOFails
      <4>2. fos' = TRUE \/ fos' = FALSE
        BY <1>4 DEF WritesLine, FailsToWrite
      <4>3. failures' \in 0..MaxFailures
        BY <3>1, <4>1
      <4>4. fos' \in BOOLEAN
        BY <4>2
      <4>5. QED
        BY <4>3, <4>4
  <2>6. /\ writer' \in {"check", "take", "roll", "write"} \cup Exits
        /\ batch' \in Seq(Entries) /\ pos' \in 0..Len(batch')
        /\ writer' \in Exits => ~running'
    <3>1. /\ running' = running /\ writer \in Exits => ~running
          /\ batch \in Seq(Entries) /\ pos \in 0..Len(batch) /\ pos < Len(batch)
      BY <1>1, WriteLineDoes DEF TypeInv, TypeOK
    <3>2. CASE WritesLine(name)
      BY <1>1, <3>1, <3>2 DEF WritesLine, Exits
    <3>3. CASE FailsToWrite(name)
      BY <1>1, <3>1, <3>3 DEF FailsToWrite, BatchOver, Exiting, Exits
    <3>4. QED
      BY <1>4, <3>2, <3>3
  <2>7. NameInv'
    BY <2>1, <2>2, <2>4 DEF NameInv
  <2>8. TypeOK'
    BY <1>1, <2>1, <2>3, <2>4, <2>5, <2>6 DEF TypeInv, TypeOK, queueVars
  <2>9. QED
    BY <2>7, <2>8 DEF TypeInv
<1>5. QED
  BY <1>2, <1>3, <1>4, WriteLineDoes


LEMMA RollTypes ==
  ASSUME TypeInv, Roll
  PROVE  TypeInv'
<1>1. /\ running' = running /\ queueVars' = queueVars /\ day' = day /\ oldSize' = oldSize /\ closer' = closer
      /\ writer \in {"roll", "exitRoll"} /\ day \in 1..MaxDay
  BY DEF Roll, TypeInv, TypeOK
<1>2. CASE /\ writer' = IF Exiting THEN "exitWrite" ELSE "write"
           /\ UNCHANGED <<batch, pos, fileVars, failures>>
  <2>1. NameInv'
    BY <1>2 DEF fileVars, TypeInv, NameInv, Numbered
  <2>2. TypeOK'
    BY <1>1, <1>2 DEF fileVars, queueVars, TypeInv, TypeOK, Exiting, Exits
  <2>3. QED
    BY <2>1, <2>2 DEF TypeInv
<1>3. ASSUME currentDateStr' = day, currentFile' = <<day, 0>>,
             \/ /\ OpenFile(<<day, 0>>)
                /\ writer' = IF Exiting THEN "exitWrite" ELSE "write"
                /\ UNCHANGED <<batch, pos, failures>>
             \/ /\ IOFails /\ fos' = FALSE /\ BatchOver /\ UNCHANGED files
      PROVE  TypeInv'
  <2>1. <<day, 0>> \in Names /\ <<day, 0>>[1] = day
    BY <1>1 DEF Names
  <2>2. /\ IsFiniteSet(DOMAIN files') /\ DOMAIN files' \subseteq Names
        /\ \A d \in 1..MaxDay : \E n \in Nat : Numbered(d, n)'
        /\ \A n \in DOMAIN files' : files'[n] \in Seq(Entries)
        /\ fos' => <<day, 0>> \in DOMAIN files'
        /\ fos' \in BOOLEAN
    <3>1. CASE UNCHANGED files /\ fos' = FALSE
      BY <3>1 DEF TypeInv, TypeOK, NameInv, Numbered
    <3>2. CASE OpenFile(<<day, 0>>)
      BY <3>2, OpensOrAdds, OpenFileOpens
    <3>3. QED
      BY <1>3, <3>1, <3>2
  <2>3. failures' \in 0..MaxFailures
    <3>1. failures \in 0..MaxFailures /\ MaxFailures \in Nat
      BY LoggerAssumption DEF TypeInv, TypeOK
    <3>2. QED
      BY <1>3, <3>1 DEF IOFails
  <2>4. /\ writer' \in {"check", "take", "roll", "write"} \cup Exits
        /\ batch' \in Seq(Entries) /\ pos' \in 0..Len(batch')
        /\ writer' \in Exits => ~running'
    <3>1. (writer \in Exits => ~running) /\ batch \in Seq(Entries) /\ pos \in 0..Len(batch)
      BY DEF TypeInv, TypeOK
    <3>2. QED
      <4>1. \/ writer' = (IF writer = "roll" THEN "write" ELSE "exitWrite") /\ UNCHANGED <<batch, pos>>
            \/ writer' = (IF writer = "roll" THEN "check" ELSE "ended") /\ batch' = <<>> /\ pos' = 0
        BY <1>1, <1>3 DEF BatchOver, Exiting, Exits
      <4>2. <<>> \in Seq(Entries) /\ 0 \in 0..Len(<<>>)
        OBVIOUS
      <4>3. QED
        BY <1>1, <3>1, <4>1, <4>2 DEF Exits
  <2>5. NameInv'
    BY <1>1, <1>3, <2>1, <2>2 DEF NameInv
  <2>6. TypeOK'
    BY <1>1, <1>3, <2>1, <2>2, <2>3, <2>4 DEF TypeInv, TypeOK, queueVars
  <2>7. QED
    BY <2>5, <2>6 DEF TypeInv
<1>4. QED
  BY <1>2, <1>3 DEF Roll

\* The steps that leave the files alone.
LEMMA OtherTypes ==
  ASSUME TypeInv,
         \/ \E t \in Threads : CheckRunning(t) \/ Add(t)
         \/ Check \/ Take \/ Drain \/ Flush \/ Close \/ Joined \/ Midnight
         \/ UNCHANGED vars
  PROVE  TypeInv'
<1> USE DEF TypeInv
<1>1. UNCHANGED <<currentDateStr, files>> /\ (currentFile' = currentFile \/ currentFile' = NoFile)
  BY DEF CheckRunning, Add, Check, Take, Drain, Flush, Close, Joined, Midnight, BatchOver, NullPointer,
     fileVars, vars
<1>2. NameInv'
  BY <1>1 DEF NameInv, Numbered
<1>3. ASSUME NEW t \in Threads, CheckRunning(t) PROVE TypeOK'
  <2>1. called' \in 0..MaxLines /\ logging' \in [Threads -> 0..MaxLines]
    BY <1>3, LoggerAssumption DEF CheckRunning, TypeOK
  <2>2. QED
    BY <1>3, <2>1 DEF CheckRunning, TypeOK, writerVars, fileVars
<1>4. ASSUME NEW t \in Threads, Add(t) PROVE TypeOK'
  <2>1. logging[t] \in Lines /\ logging' \in [Threads -> 0..MaxLines]
    BY <1>4, LoggerAssumption DEF Add, TypeOK, Lines
  <2>2. /\ accepted' \in Seq(Lines) /\ Range(accepted') = Range(accepted) \cup {logging[t]}
        /\ logQueue' \in Seq(Lines)
    <3>1. accepted' = Append(accepted, logging[t]) /\ logQueue' \in {logQueue, Append(logQueue, logging[t])}
      BY <1>4 DEF Add
    <3>2. accepted \in Seq(Lines) /\ logQueue \in Seq(Lines)
      BY DEF TypeOK
    <3>3. \A q \in Seq(Lines) : Append(q, logging[t]) \in Seq(Lines) /\ Range(Append(q, logging[t])) = Range(q) \cup {logging[t]}
      BY <2>1, AppendRange
    <3>4. QED
      BY <3>1, <3>2, <3>3
  <2>3. late' \subseteq Range(accepted')
    BY <1>4, <2>2 DEF Add, TypeOK
  <2>4. QED
    BY <1>4, <2>1, <2>2, <2>3 DEF Add, TypeOK, writerVars, fileVars
<1>5. ASSUME Check PROVE TypeOK'
  BY <1>5 DEF Check, TypeOK, Exits, queueVars, fileVars
<1>6. ASSUME Take PROVE TypeOK'
  <2>1. /\ writer' \in {"check", "roll"} /\ pos' = 0
        /\ UNCHANGED <<running, logging, called, accepted, late, day, fileVars, oldSize, closer, failures>>
    BY <1>6 DEF Take
  <2>2. batch' \in Seq(Entries) /\ logQueue' \in Seq(Lines) /\ 0 \in 0..Len(batch')
    BY <1>6, TakeMoves
  <2>3. QED
    BY <2>1, <2>2 DEF TypeOK, Exits, fileVars
<1>7. ASSUME Drain PROVE TypeOK'
  <2>1. /\ writer' \in {"exitDrain", "exitRoll", "ended"} /\ pos' = 0 /\ writer = "exitDrain"
        /\ UNCHANGED <<running, logging, called, accepted, late, day, fileVars, oldSize, closer, failures>>
    BY <1>7 DEF Drain
  <2>2. batch' \in Seq(Entries) /\ logQueue' \in Seq(Lines) /\ 0 \in 0..Len(batch')
    <3>1. batch \in Seq(Entries) /\ logQueue \in Seq(Lines) /\ Lines \subseteq Entries
      BY DEF TypeOK, Lines, Entries
    <3>2. logQueue # <<>> => Head(logQueue) \in Lines /\ Tail(logQueue) \in Seq(Lines)
      BY <3>1
    <3>3. logQueue # <<>> => Append(batch, Head(logQueue)) \in Seq(Entries)
      BY <3>1, <3>2
    <3>4. QED
      <4>1. \/ logQueue # <<>> /\ logQueue' = Tail(logQueue) /\ batch' = Append(batch, Head(logQueue))
            \/ UNCHANGED <<logQueue, batch>>
        BY <1>7 DEF Drain
      <4>2. \A q \in Seq(Entries) : 0 \in 0..Len(q)
        OBVIOUS
      <4>3. QED
        BY <3>1, <3>2, <3>3, <4>1, <4>2
  <2>3. QED
    BY <2>1, <2>2 DEF TypeOK, Exits, fileVars
<1>8. ASSUME Flush PROVE TypeOK'
  <2>1. /\ writer' \in {"check", "ended", "dead"} /\ (writer' \in Exits => writer \in Exits)
        /\ batch' \in {<<>>, batch} /\ pos' = 0
        /\ UNCHANGED <<running, queueVars, day, fileVars, oldSize, closer, failures>>
    BY <1>8 DEF Flush, Exits, Exiting, BatchOver, NullPointer
  <2>2. batch' \in Seq(Entries) /\ 0 \in 0..Len(batch')
    <3>1. \A q \in Seq(Entries) : 0 \in 0..Len(q)
      OBVIOUS
    <3>2. batch \in Seq(Entries) /\ <<>> \in Seq(Entries)
      BY DEF TypeOK
    <3>3. QED
      BY <2>1, <3>1, <3>2
  <2>3. QED
    BY <2>1, <2>2 DEF TypeOK, Exits, queueVars, fileVars
<1>9. ASSUME Close PROVE TypeOK'
  BY <1>9 DEF Close, TypeOK, queueVars, writerVars, fileVars
<1>10. ASSUME Joined PROVE TypeOK'
  BY <1>10 DEF Joined, TypeOK, queueVars, writerVars
<1>11. ASSUME Midnight PROVE TypeOK'
  BY <1>11, LoggerAssumption DEF Midnight, TypeOK, queueVars, writerVars, fileVars
<1>12. ASSUME UNCHANGED vars PROVE TypeOK'
  BY <1>12 DEF vars, TypeOK, queueVars, writerVars, fileVars
<1>13. QED
  BY <1>2, <1>3, <1>4, <1>5, <1>6, <1>7, <1>8, <1>9, <1>10, <1>11, <1>12

LEMMA NextTypes == TypeInv /\ [Next]_vars => TypeInv'
  BY WriteLineTypes, RollTypes, OtherTypes DEF Next, Writer

\* The state always has its type; a stream is open to a file that exists, and
\* the writer leaves its loop only when the logger is no longer running.
THEOREM LoggerTypes == Spec => []TypeOK
<1>1. TypeInv => TypeOK
  BY DEF TypeInv
<1>2. QED
  BY InitTypes, NextTypes, <1>1, PTL DEF Spec

-----------------------------------------------------------------------------
(* What is lost.                                                           *)

\* The writer has taken the last look at the queue.
Left == {"exitRoll", "exitWrite", "ended", "dead"}
Kept(line) == line \in Written \/ line \in Range(batch) \/ (writer \notin Left /\ line \in Range(logQueue))
\* Without trouble the writer always has a stream, so that no batch is given up:
\* it writes its batch to the end, and leaves with an empty one.
KeptInv ==
  ~Troubled =>
    /\ writer # "dead"
    /\ closer = "returned" => writer = "ended"
    /\ writer = "ended" => batch = <<>>
    /\ currentFile # NoFile /\ closer # "returned" => fos
    /\ writer \in {"write", "exitWrite"} => currentFile # NoFile
    /\ \A i \in 1..pos : batch[i] \in Written
    /\ \A line \in Range(accepted) \ late : Kept(line)

LEMMA ElementsOf ==
  ASSUME NEW S, NEW s \in Seq(S)
  PROVE  \A x : x \in Range(s) <=> \E i \in 1..Len(s) : s[i] = x
  BY RangeEquality

LEMMA SeqTypes ==
  ASSUME TypeInv
  PROVE  /\ Banner \in Entries
         /\ batch \in Seq(Entries) /\ logQueue \in Seq(Lines) /\ accepted \in Seq(Lines)
         /\ Lines \subseteq Entries /\ Len(batch) \in Nat /\ Len(logQueue) \in Nat /\ Len(accepted) \in Nat
         /\ pos \in 0..Len(batch)
         /\ \A n \in DOMAIN files : files[n] \in Seq(Entries)
  BY LoggerAssumption DEF TypeInv, TypeOK, Lines, Entries, Banner

LEMMA WrittenGrows ==
  ASSUME TypeInv, NEW name, NEW line \in Entries
  PROVE  /\ Opened(name) => Written \subseteq Written'
         /\ Added(name, line) => Written \cup {line} \subseteq Written'
<1>1. ASSUME Opened(name) PROVE Written \subseteq Written'
  BY <1>1 DEF Opened, Written
<1>2. ASSUME Added(name, line) PROVE Written \cup {line} \subseteq Written'
  <2>1. PICK s : s = IF name \in DOMAIN files THEN files[name] ELSE <<>>
    OBVIOUS
  <2>2. Range(files'[name]) = Range(s) \cup {line} /\ name \in DOMAIN files'
    <3>1. s \in Seq(Entries)
      BY <2>1, SeqTypes
    <3>2. files'[name] = Append(s, line) /\ name \in DOMAIN files'
      BY <1>2, <2>1 DEF Added
    <3>3. QED
      BY <3>1, <3>2, AppendRange
  <2>3. \A n \in DOMAIN files : Range(files[n]) \subseteq Range(files'[n]) /\ n \in DOMAIN files'
    BY <1>2, <2>1, <2>2 DEF Added
  <2>4. QED
    BY <2>2, <2>3 DEF Written
<1>3. QED
  BY <1>1, <1>2

\* What a step keeps, it keeps for all lines at once.
LEMMA KeptLasts ==
  ASSUME NEW line, Kept(line), Written \subseteq Written', Range(batch) \subseteq Range(batch') \cup Written',
         writer \notin Left => \/ writer' \notin Left /\ Range(logQueue) \subseteq Range(logQueue') \cup Range(batch')
                               \/ Range(logQueue) = {}
  PROVE  Kept(line)'
  BY DEF Kept

LEMMA UntroubledWriteLine ==
  ASSUME TypeInv, KeptInv, WriteLine, ~Troubled'
  PROVE  /\ \E name : WritesLine(name)
         /\ pos + 1 \in 1..Len(batch) /\ batch[pos + 1] \in Entries
         /\ writer \in {"write", "exitWrite"} /\ UNCHANGED <<running, queueVars, closer>>
<1>1. closer' = closer /\ writer \in {"write", "exitWrite"} /\ UNCHANGED <<running, queueVars>>
  BY DEF WriteLine
<1>2. failures \in Nat
  BY LoggerAssumption DEF TypeInv, TypeOK
<1>3. ~Troubled /\ ~IOFails
  <2>1. failures' = 0 \/ failures' # 0
    OBVIOUS
  <2>2. ~IOFails
    BY <1>2 DEF IOFails, Troubled
  <2>3. failures' = failures
    BY <2>2, WriteLineDoes DEF WritesLine, FailsToWrite
  <2>4. QED
    BY <1>1, <2>2, <2>3 DEF Troubled
<1>4. currentFile # NoFile /\ fos
  BY <1>1, <1>3 DEF KeptInv
<1>5. QED
  BY <1>1, <1>3, <1>4, WriteLineDoes DEF FailsToWrite, Troubled

LEMMA WriteLineKeeps ==
  ASSUME TypeInv, KeptInv, WriteLine, ~Troubled'
  PROVE  KeptInv'
<1>1. PICK name : WritesLine(name)
  BY UntroubledWriteLine
<1>2. /\ pos + 1 \in 1..Len(batch) /\ batch[pos + 1] \in Entries /\ pos \in Nat /\ pos' = pos + 1
      /\ writer \in {"write", "exitWrite"}
      /\ UNCHANGED <<logQueue, accepted, late, closer, writer, batch, failures>>
      /\ currentFile' = name /\ fos' = TRUE
  BY <1>1, UntroubledWriteLine, SeqTypes DEF WritesLine, Into, queueVars
<1>3. Written \subseteq Written' /\ batch[pos + 1] \in Written'
  BY <1>1, <1>2, WrittenGrows DEF WritesLine
<1>4. currentFile' # NoFile
  <2>1. currentDateStr \in 1..MaxDay
    BY <1>1 DEF WritesLine, Into, TypeInv, NameInv
  <2>2. QED
    BY <1>1, <2>1, LoggerAssumption DEF WritesLine, Into, Candidate, NoFile
<1>5. ~Troubled
  BY <1>2 DEF Troubled
<1>6. \A i \in 1..pos' : batch'[i] \in Written'
  BY <1>2, <1>3, <1>5 DEF KeptInv
<1>7. \A line \in Range(accepted') \ late' : Kept(line)'
  BY <1>2, <1>3, <1>5, KeptLasts DEF KeptInv
<1>8. QED
  BY <1>2, <1>4, <1>5, <1>6, <1>7 DEF KeptInv

LEMMA RollKeeps ==
  ASSUME TypeInv, KeptInv, Roll, ~Troubled'
  PROVE  KeptInv'
<1>1. /\ UNCHANGED <<running, queueVars, day, oldSize, closer>> /\ writer \in {"roll", "exitRoll"}
      /\ failures \in Nat
  BY LoggerAssumption DEF Roll, TypeInv, TypeOK
<1>2. /\ writer' = (IF writer = "exitRoll" THEN "exitWrite" ELSE "write") /\ UNCHANGED <<batch, pos, failures>>
      /\ \/ UNCHANGED fileVars /\ currentFile # NoFile
         \/ currentFile' = <<day, 0>> /\ OpenFile(<<day, 0>>)
  <2>1. ~IOFails
    BY <1>1 DEF IOFails, Troubled
  <2>2. QED
    BY <1>1, <2>1 DEF Roll, Exiting, Exits
<1>3. ~Troubled
  BY <1>1, <1>2 DEF Troubled
<1>4. Written \subseteq Written' /\ currentFile' # NoFile /\ (currentFile' # NoFile /\ closer' # "returned" => fos')
  <2>1. CASE UNCHANGED fileVars /\ currentFile # NoFile
    BY <1>1, <1>3, <2>1 DEF fileVars, Written, KeptInv
  <2>2. CASE currentFile' = <<day, 0>> /\ OpenFile(<<day, 0>>)
    <3>1. fos' = TRUE /\ Written \subseteq Written'
      BY <2>2, OpenFileOpens, WrittenGrows, SeqTypes
    <3>2. <<day, 0>> # NoFile
      BY LoggerAssumption DEF TypeInv, TypeOK, NoFile
    <3>3. QED
      BY <2>2, <3>1, <3>2
  <2>3. QED
    BY <1>2, <2>1, <2>2
<1>5. \A i \in 1..pos' : batch'[i] \in Written'
  BY <1>2, <1>3, <1>4 DEF KeptInv
<1>6. \A line \in Range(accepted') \ late' : Kept(line)'
  <2>1. writer \notin Left => writer' \notin Left
    BY <1>1, <1>2 DEF Left
  <2>2. UNCHANGED <<accepted, late, logQueue>>
    BY <1>1 DEF queueVars
  <2>3. QED
    BY <1>2, <1>3, <1>4, <2>1, <2>2, KeptLasts DEF KeptInv
<1>7. closer' # "returned"
  BY <1>1, <1>3 DEF KeptInv
<1>8. QED
  BY <1>2, <1>1, <1>3, <1>4, <1>5, <1>6, <1>7 DEF KeptInv

LEMMA FlushKeeps ==
  ASSUME TypeInv, KeptInv, Flush, ~Troubled'
  PROVE  KeptInv'
<1>1. /\ UNCHANGED <<running, queueVars, fileVars, day, oldSize, closer, failures>>
      /\ writer \in {"write", "exitWrite"} /\ pos = Len(batch)
  BY DEF Flush
<1>2. ~Troubled
  BY <1>1 DEF Troubled
<1>3. fos /\ closer # "returned"
  BY <1>1, <1>2 DEF KeptInv
<1>4. writer' = (IF writer = "exitWrite" THEN "ended" ELSE "check") /\ batch' = <<>> /\ pos' = 0
  BY <1>1, <1>3 DEF Flush, BatchOver, Exiting, Exits
<1>5. Range(batch) \subseteq Written' /\ Written' = Written
  <2>1. Written' = Written
    BY <1>1 DEF Written, fileVars
  <2>2. \A i \in 1..Len(batch) : batch[i] \in Written
    BY <1>1, <1>2 DEF KeptInv
  <2>3. \A x \in Range(batch) : \E i \in 1..Len(batch) : batch[i] = x
    BY SeqTypes, ElementsOf
  <2>4. QED
    BY <2>1, <2>2, <2>3
<1>6. \A line \in Range(accepted') \ late' : Kept(line)'
  <2>1. writer \notin Left => writer' \notin Left
    BY <1>1, <1>4 DEF Left
  <2>2. UNCHANGED <<accepted, late, logQueue>>
    BY <1>1 DEF queueVars
  <2>3. QED
    BY <1>2, <1>5, <2>1, <2>2, KeptLasts DEF KeptInv
<1>7. QED
  BY <1>1, <1>2, <1>3, <1>4, <1>6 DEF KeptInv, fileVars

\* Lines move from the head of the queue to the end of the batch.
Moves(k) ==
  /\ Len(batch') = Len(batch) + k /\ Len(logQueue') = Len(logQueue) - k
  /\ \A i \in 1..Len(batch) : batch'[i] = batch[i]
  /\ \A i \in 1..k : batch'[Len(batch) + i] = logQueue[i]
  /\ \A i \in 1..(Len(logQueue) - k) : logQueue'[i] = logQueue[k + i]

LEMMA TakesMove ==
  ASSUME TypeInv, TypeInv', Take \/ Drain
  PROVE  \E k \in 0..Len(logQueue) : Moves(k)
<1>1. CASE Take
  BY <1>1, TakeMoves DEF Moves
<1>2. CASE Drain /\ logQueue = <<>>
  <2>1. UNCHANGED <<logQueue, batch>> /\ Len(logQueue) = 0
    BY <1>2 DEF Drain
  <2>2. Moves(0)
    BY <2>1, SeqTypes DEF Moves
  <2>3. QED
    BY <2>1, <2>2
<1>3. CASE Drain /\ logQueue # <<>>
  <2>1. logQueue' = Tail(logQueue) /\ batch' = Append(batch, Head(logQueue))
    BY <1>3 DEF Drain
  <2>2. /\ Len(logQueue') = Len(logQueue) - 1 /\ 1 \in 0..Len(logQueue) /\ Head(logQueue) = logQueue[1]
        /\ \A i \in 1..(Len(logQueue) - 1) : logQueue'[i] = logQueue[1 + i]
    BY <1>3, <2>1, SeqTypes
  <2>3. /\ Len(batch') = Len(batch) + 1
        /\ \A i \in 1..Len(batch) : batch'[i] = batch[i]
        /\ batch'[Len(batch) + 1] = logQueue[1]
    <3>1. Head(logQueue) \in Entries
      BY <2>2, SeqTypes
    <3>2. QED
      BY <2>1, <2>2, <3>1, SeqTypes
  <2>4. Moves(1)
    BY <2>2, <2>3 DEF Moves
  <2>5. QED
    BY <2>2, <2>4
<1>4. QED
  BY <1>1, <1>2, <1>3

LEMMA TakeKeeps ==
  ASSUME TypeInv, TypeInv', KeptInv, Take \/ Drain, ~Troubled'
  PROVE  KeptInv'
<1>1. /\ UNCHANGED <<running, logging, called, accepted, late, day, fileVars, oldSize, closer, failures>> /\ pos' = 0
      /\ \/ writer = "take" /\ writer' \in {"check", "roll"}
         \/ writer = "exitDrain" /\ writer' = "exitDrain"
         \/ writer = "exitDrain" /\ writer' \in {"exitRoll", "ended"} /\ logQueue = <<>> /\ (writer' = "ended" => batch' = <<>>)
  BY DEF Take, Drain
<1>2. ~Troubled
  BY <1>1 DEF Troubled
<1>3. Written' = Written
  BY <1>1 DEF Written, fileVars
<1>4. PICK k \in 0..Len(logQueue) : Moves(k)
  BY TakesMove
<1>5. /\ \A x : x \in Range(batch) <=> \E i \in 1..Len(batch) : batch[i] = x
      /\ \A x : x \in Range(batch') <=> \E i \in 1..Len(batch') : batch'[i] = x
      /\ \A x : x \in Range(logQueue) <=> \E i \in 1..Len(logQueue) : logQueue[i] = x
      /\ \A x : x \in Range(logQueue') <=> \E i \in 1..Len(logQueue') : logQueue'[i] = x
  <2>1. batch' \in Seq(Entries) /\ logQueue' \in Seq(Lines) /\ batch \in Seq(Entries) /\ logQueue \in Seq(Lines)
    BY DEF TypeInv, TypeOK
  <2>2. \A q \in Seq(Entries) : \A x : x \in Range(q) <=> \E i \in 1..Len(q) : q[i] = x
    BY ElementsOf
  <2>3. \A q \in Seq(Lines) : \A x : x \in Range(q) <=> \E i \in 1..Len(q) : q[i] = x
    BY ElementsOf
  <2>4. QED
    BY <2>1, <2>2, <2>3
<1>6. Range(batch) \subseteq Range(batch')
  <2>1. \A i \in 1..Len(batch) : i \in 1..Len(batch') /\ batch'[i] = batch[i]
    BY <1>4, SeqTypes DEF Moves
  <2>2. QED
    BY <1>5, <2>1
<1>7. Range(logQueue) \subseteq Range(logQueue') \cup Range(batch')
  <2>1. ASSUME NEW i \in 1..Len(logQueue)
        PROVE  logQueue[i] \in Range(logQueue') \cup Range(batch')
    <3>1. CASE i <= k
      <4>1. Len(batch) + i \in 1..Len(batch') /\ batch'[Len(batch) + i] = logQueue[i]
        BY <1>4, <3>1, SeqTypes DEF Moves
      <4>2. QED
        BY <1>5, <4>1
    <3>2. CASE i > k
      <4>1. i - k \in 1..Len(logQueue') /\ i - k \in 1..(Len(logQueue) - k) /\ k + (i - k) = i
        BY <1>4, <3>2, SeqTypes DEF Moves
      <4>2. logQueue'[i - k] = logQueue[i]
        BY <1>4, <4>1 DEF Moves
      <4>3. QED
        BY <1>5, <4>1, <4>2
    <3>3. QED
      BY <3>1, <3>2, SeqTypes
  <2>2. QED
    BY <1>5, <2>1
<1>8. \A line \in Range(accepted') \ late' : Kept(line)'
  <2>1. writer \notin Left => writer' \notin Left \/ Range(logQueue) = {}
    BY <1>1, <1>5 DEF Left
  <2>2. QED
    BY <1>1, <1>2, <1>3, <1>6, <1>7, <2>1, KeptLasts DEF KeptInv
<1>9. QED
  BY <1>1, <1>2, <1>8 DEF KeptInv, fileVars

LEMMA AddKeeps ==
  ASSUME TypeInv, KeptInv, NEW t \in Threads, Add(t), ~Troubled'
  PROVE  KeptInv'
<1>1. /\ UNCHANGED <<running, called, writerVars, day, fileVars, oldSize, closer, failures>>
      /\ late' = IF writer \in Exits THEN late \cup {logging[t]} ELSE late
      /\ logging[t] \in Lines
  BY LoggerAssumption DEF Add, TypeInv, TypeOK, Lines
<1>2. ~Troubled /\ Written' = Written
  BY <1>1 DEF Troubled, Written, fileVars
<1>3. \A q \in Seq(Lines) : Range(Append(q, logging[t])) = Range(q) \cup {logging[t]}
  BY <1>1, AppendRange
<1>4. /\ Range(accepted') = Range(accepted) \cup {logging[t]}
      /\ Range(logQueue) \subseteq Range(logQueue')
      /\ writer \notin Exits => logging[t] \in Range(logQueue')
  BY <1>3, SeqTypes DEF Add, Exits
<1>5. \A line \in Range(accepted) \ late : Kept(line)'
  BY <1>1, <1>2, <1>4, KeptLasts DEF KeptInv, writerVars
<1>6. ASSUME NEW line \in Range(accepted') \ late' PROVE Kept(line)'
  <2>1. CASE line \in Range(accepted) \ late
    BY <1>5, <2>1
  <2>2. CASE line = logging[t] /\ writer \notin Exits
    <3>1. writer' \notin Left
      BY <1>1, <2>2 DEF writerVars, Exits, Left
    <3>2. QED
      BY <1>4, <2>2, <3>1 DEF Kept
  <2>3. QED
    BY <1>1, <1>4, <1>6, <2>1, <2>2
<1>7. QED
  BY <1>1, <1>2, <1>6 DEF KeptInv, writerVars, fileVars

LEMMA JoinedKeeps ==
  ASSUME TypeInv, KeptInv, Joined, ~Troubled'
  PROVE  KeptInv'
<1>1. /\ UNCHANGED <<running, queueVars, writerVars, day, currentDateStr, files, oldSize, failures>>
      /\ closer' = "returned" /\ closer = "joining" /\ writer \in {"ended", "dead"}
  BY DEF Joined, Troubled
<1>2. ~Troubled /\ Written' = Written
  BY <1>1 DEF Troubled, Written
<1>3. writer = "ended" /\ batch = <<>>
  BY <1>1, <1>2 DEF KeptInv
<1>4. \A line \in Range(accepted') \ late' : Kept(line)'
  BY <1>1, <1>2, KeptLasts DEF KeptInv, queueVars, writerVars
<1>5. QED
  BY <1>1, <1>2, <1>3, <1>4 DEF KeptInv, writerVars

LEMMA NextKept ==
  ASSUME TypeInv, TypeInv', KeptInv, [Next]_vars
  PROVE  KeptInv'
<1> SUFFICES ASSUME ~Troubled' PROVE KeptInv'
  BY DEF KeptInv
<1>1. ASSUME UNCHANGED <<logQueue, accepted, late, batch, pos, fileVars, failures>>,
             UNCHANGED <<writer, closer>>
               \/ Check
               \/ Close
      PROVE  KeptInv'
  <2>1. /\ closer' = closer \/ (closer' = "joining" /\ closer = "no")
        /\ \/ writer' = writer
           \/ writer = "check" /\ writer' \in {"take", "exitDrain"}
    BY <1>1 DEF Check, Close, writerVars
  <2>2. ~Troubled /\ Written' = Written
    BY <1>1, <2>1 DEF Troubled, Written, fileVars
  <2>3. \A line \in Range(accepted') \ late' : Kept(line)'
    <3>1. writer \notin Left => writer' \notin Left
      BY <2>1 DEF Left
    <3>2. QED
      BY <1>1, <2>2, <3>1, KeptLasts DEF KeptInv
  <2>4. QED
    BY <1>1, <2>1, <2>2, <2>3 DEF KeptInv, fileVars
<1>2. ASSUME NEW t \in Threads, CheckRunning(t) PROVE KeptInv'
  BY <1>1, <1>2 DEF CheckRunning, writerVars
<1>3. CASE Check
  BY <1>1, <1>3 DEF Check, queueVars
<1>4. CASE Close
  BY <1>1, <1>4 DEF Close, queueVars, writerVars
<1>5. CASE Midnight
  BY <1>1, <1>5 DEF Midnight, queueVars, writerVars
<1>6. CASE UNCHANGED vars
  BY <1>1, <1>6 DEF vars, queueVars, writerVars
<1>7. QED
  BY <1>2, <1>3, <1>4, <1>5, <1>6, AddKeeps, JoinedKeeps, TakeKeeps, RollKeeps, WriteLineKeeps, FlushKeeps
     DEF Next, Writer

LEMMA InitKept == Init => KeptInv
<1> SUFFICES ASSUME Init PROVE KeptInv
  OBVIOUS
<1>1. Range(accepted) = {}
  BY DEF Init, Range
<1>2. pos = 0 /\ writer = "check" /\ closer = "no" /\ currentFile = NoFile
  BY DEF Init
<1>3. QED
  BY <1>1, <1>2 DEF KeptInv

\* Without a failed file operation and a join that timed out, a line that was
\* accepted before the writer left its loop is queued, in the batch or on disk,
\* and on disk once close() has returned.
THEOREM NothingIsLostQuietly == Spec => []LostOnlyInTrouble
<1>1. TypeInv /\ KeptInv => LostOnlyInTrouble
  <2> SUFFICES ASSUME TypeInv, KeptInv, ~Troubled, NEW line \in Range(accepted) \ late
               PROVE  OnDisk(line) \/ (line \in Held /\ closer # "returned")
    BY DEF LostOnlyInTrouble
  <2>1. Kept(line)
    BY DEF KeptInv
  <2>2. CASE closer = "returned"
    <3>1. writer = "ended" /\ Range(batch) = {}
      BY <2>2 DEF KeptInv, Range
    <3>2. QED
      BY <2>1, <3>1 DEF Kept, Left, OnDisk
  <2>3. CASE closer # "returned"
    BY <2>1, <2>3 DEF Kept, OnDisk, Held
  <2>4. QED
    BY <2>2, <2>3
<1>2. TypeInv /\ KeptInv /\ [Next]_vars => TypeInv' /\ KeptInv'
  BY NextTypes, NextKept
<1>3. QED
  BY InitTypes, InitKept, <1>1, <1>2, PTL DEF Spec

-----------------------------------------------------------------------------
(* The order of the lines.                                                 *)

\* The file in use is the last one, and once a line of a batch has been written
\* the rest of the batch is not given back.
LastInv ==
  closer # "timedOut" =>
    /\ currentDateStr <= day
    /\ \A n \in DOMAIN files : currentFile # NoFile =>
         n[1] < currentDateStr \/ (n[1] = currentDateStr /\ n[2] <= currentFile[2])
    /\ currentFile = NoFile /\ writer \notin {"ended", "dead"} => DOMAIN files \subseteq {<<1, 0>>}
    /\ pos > 0 => writer \in {"write", "exitWrite"} /\ fos /\ currentFile # NoFile

Before(acc, x, y) == y # Banner => x = Banner \/ \E m, n \in DOMAIN acc : m < n /\ acc[m] = x /\ acc[n] = y
LoggedIn(acc, x) == x = Banner \/ \E m \in DOMAIN acc : acc[m] = x
Earlier(a, i, b, j) == a[1] < b[1] \/ (a[1] = b[1] /\ a[2] < b[2]) \/ (a = b /\ i < j)

\* The files, what is left of the batch, and the queue, one after the other, hold
\* lines of the history in its order.
AllLogged ==
  /\ \A a \in DOMAIN files : \A i \in DOMAIN files[a] : LoggedIn(accepted, files[a][i])
  /\ \A i \in 1..Len(batch) : LoggedIn(accepted, batch[i])
  /\ \A i \in 1..Len(logQueue) : LoggedIn(accepted, logQueue[i])
FilesInOrder ==
  \A a, b \in DOMAIN files : \A i \in DOMAIN files[a], j \in DOMAIN files[b] :
    Earlier(a, i, b, j) => Before(accepted, files[a][i], files[b][j])
FilesBeforeBatch ==
  \A a \in DOMAIN files : \A i \in DOMAIN files[a], j \in (pos + 1)..Len(batch) :
    Before(accepted, files[a][i], batch[j])
FilesBeforeQueue ==
  \A a \in DOMAIN files : \A i \in DOMAIN files[a], j \in 1..Len(logQueue) :
    Before(accepted, files[a][i], logQueue[j])
BatchInOrder == \A i, j \in 1..Len(batch) : i < j => Before(accepted, batch[i], batch[j])
BatchBeforeQueue == \A i \in 1..Len(batch), j \in 1..Len(logQueue) : Before(accepted, batch[i], logQueue[j])
QueueInOrder == \A i, j \in 1..Len(logQueue) : i < j => Before(accepted, logQueue[i], logQueue[j])
OrderInv ==
  closer # "timedOut" =>
    /\ AllLogged
    /\ FilesInOrder /\ FilesBeforeBatch /\ FilesBeforeQueue
    /\ BatchInOrder /\ BatchBeforeQueue
    /\ QueueInOrder

LEMMA WriteLineLast ==
  ASSUME TypeInv, LastInv, WriteLine, closer # "timedOut"
  PROVE  LastInv'
<1>1. UNCHANGED <<day, closer>> /\ writer \in {"write", "exitWrite"}
  BY DEF WriteLine
<1>2. CASE (currentFile = NoFile \/ ~fos) /\ NullPointer /\ UNCHANGED <<fileVars, failures>>
  BY <1>1, <1>2 DEF LastInv, NullPointer, fileVars
<1>3. ASSUME NEW name \in {currentFile, Candidate}, WritesLine(name) \/ FailsToWrite(name)
      PROVE  LastInv'
  <2>1. /\ currentFile # NoFile /\ currentFile' = name /\ currentDateStr' = currentDateStr
        /\ currentDateStr \in 1..MaxDay
        /\ DOMAIN files' \subseteq DOMAIN files \cup {name}
        /\ currentFile' # NoFile
        /\ \/ pos' = pos + 1 /\ fos' = TRUE /\ writer' = writer
           \/ pos' = 0
    <3>1. currentFile # NoFile /\ currentFile' = name /\ currentDateStr' = currentDateStr
      BY <1>3 DEF WritesLine, FailsToWrite, Into
    <3>2. currentDateStr \in 1..MaxDay
      BY <3>1 DEF TypeInv, NameInv
    <3>3. name # NoFile
      BY <3>1, <3>2, LoggerAssumption DEF Candidate, NoFile
    <3>4. DOMAIN files' \subseteq DOMAIN files \cup {name}
      BY <1>3 DEF WritesLine, FailsToWrite, Opened, Added
    <3>5. \/ pos' = pos + 1 /\ fos' = TRUE /\ writer' = writer
          \/ pos' = 0
      BY <1>3 DEF WritesLine, FailsToWrite, BatchOver
    <3>6. QED
      BY <3>1, <3>2, <3>3, <3>4, <3>5
  <2>2. name[1] = currentDateStr /\ name[2] \in Nat
    <3>1. CASE name = currentFile
      BY <2>1, <3>1 DEF TypeInv, TypeOK, NameInv, Names
    <3>2. CASE name = Candidate
      <4>1. PICK k \in Nat : Numbered(currentDateStr, k)
        BY <2>1 DEF TypeInv, NameInv
      <4>2. QED
        BY <2>1, <3>2, <4>1, NextIndexIsNext DEF Candidate
    <3>3. QED
      BY <3>1, <3>2
  <2>3. ASSUME NEW n \in DOMAIN files'
        PROVE  n[1] < currentDateStr \/ (n[1] = currentDateStr /\ n[2] <= name[2])
    <3>1. CASE n = name
      BY <2>2, <3>1
    <3>2. CASE n \in DOMAIN files /\ name = currentFile
      BY <1>1, <2>1, <3>2 DEF LastInv
    <3>3. CASE n \in DOMAIN files /\ name = Candidate
      <4>1. PICK k \in Nat : Numbered(currentDateStr, k)
        BY <2>1 DEF TypeInv, NameInv
      <4>2. name = <<currentDateStr, k + 1>>
        BY <2>1, <3>3, <4>1, NextIndexIsNext DEF Candidate
      <4>3. n = <<n[1], n[2]>> /\ n[2] \in Nat
        BY <3>3 DEF TypeInv, TypeOK, Names
      <4>4. n[1] = currentDateStr => n[2] <= k
        <5>1. n[2] \in Nat \ {0} /\ n[1] = currentDateStr => n[2] <= k
          BY <3>3, <4>1, <4>3 DEF Numbered
        <5>2. QED
          BY <4>1, <4>3, <5>1
      <4>5. n[1] < currentDateStr \/ n[1] = currentDateStr
        BY <2>1, <3>3 DEF LastInv
      <4>6. QED
        BY <4>1, <4>2, <4>3, <4>4, <4>5
    <3>4. QED
      BY <1>3, <2>1, <3>1, <3>2, <3>3
  <2>4. QED
    BY <1>1, <2>1, <2>3 DEF LastInv
<1>4. QED
  BY <1>2, <1>3, WriteLineDoes

LEMMA NextLast ==
  ASSUME TypeInv, LastInv, [Next]_vars
  PROVE  LastInv'
<1> SUFFICES ASSUME closer' # "timedOut" PROVE LastInv'
  BY DEF LastInv
<1>1. closer # "timedOut" /\ currentDateStr \in Nat /\ day \in Nat
  <2>1. closer = "timedOut" => closer' = "timedOut"
    BY DEF Next, Writer, CheckRunning, Add, Check, Take, Drain, Roll, WriteLine, Flush, Close, Joined,
       Midnight, vars
  <2>2. QED
    BY <2>1 DEF TypeInv, TypeOK
<1>2. CASE WriteLine
  BY <1>1, <1>2, WriteLineLast
<1>3. CASE Roll
  <2>1. UNCHANGED <<day, closer>> /\ writer \in {"roll", "exitRoll"} /\ day \in 1..MaxDay
    BY <1>3 DEF Roll, TypeInv, TypeOK
  <2>2. pos = 0 /\ pos' = 0
    BY <1>1, <1>3, <2>1, SeqTypes DEF LastInv, Roll, BatchOver
  <2>3. CASE UNCHANGED fileVars /\ currentFile # NoFile
    BY <1>1, <2>1, <2>2, <2>3 DEF LastInv, fileVars
  <2>4. CASE /\ currentFile = NoFile \/ currentDateStr # day
             /\ currentDateStr' = day /\ currentFile' = <<day, 0>>
             /\ DOMAIN files' \subseteq DOMAIN files \cup {<<day, 0>>}
    <3>1. ASSUME NEW n \in DOMAIN files' PROVE n[1] < day \/ (n[1] = day /\ n[2] <= 0)
      <4>1. CASE n = <<day, 0>>
        BY <4>1
      <4>2. CASE n \in DOMAIN files /\ currentFile = NoFile
        BY <1>1, <2>1, <4>2 DEF LastInv
      <4>3. CASE n \in DOMAIN files /\ currentFile # NoFile
        <5>1. currentDateStr < day /\ (n[1] < currentDateStr \/ n[1] = currentDateStr)
          BY <1>1, <2>4, <4>3 DEF LastInv
        <5>2. n[1] \in Nat
          BY <4>3 DEF TypeInv, TypeOK, Names
        <5>3. QED
          BY <1>1, <5>1, <5>2
      <4>4. QED
        BY <2>4, <4>1, <4>2, <4>3
    <3>2. <<day, 0>> # NoFile /\ <<day, 0>>[1] = day /\ <<day, 0>>[2] = 0
      BY <2>1 DEF NoFile
    <3>3. QED
      BY <1>1, <2>1, <2>2, <2>4, <3>1, <3>2 DEF LastInv
  <2>5. QED
    BY <1>3, <2>3, <2>4, OpenFileOpens DEF Roll, Opened, fileVars
<1>4. CASE Joined
  <2>1. /\ UNCHANGED <<files, day, currentDateStr, pos, writer>> /\ writer \in {"ended", "dead"}
        /\ currentFile' = NoFile \/ currentFile' = currentFile
    BY <1>4 DEF Joined, writerVars
  <2>2. ~(pos > 0)
    BY <1>1, <2>1 DEF LastInv
  <2>3. QED
    BY <1>1, <2>1, <2>2 DEF LastInv
<1>5. ASSUME UNCHANGED <<fileVars, closer>>, day' \in Nat, day <= day',
             \/ pos' = 0 /\ (writer \in {"ended", "dead"} => writer' = writer)
             \/ UNCHANGED <<pos, writer>>
      PROVE  LastInv'
  BY <1>1, <1>5 DEF LastInv, fileVars
<1>6. CASE \/ \E t \in Threads : CheckRunning(t) \/ Add(t)
           \/ UNCHANGED vars
  BY <1>1, <1>5, <1>6 DEF CheckRunning, Add, vars, writerVars
<1>7. CASE Take \/ Drain \/ Flush
  BY <1>1, <1>5, <1>7 DEF Take, Drain, Flush, BatchOver, NullPointer
<1>8. CASE Check
  <2>1. pos' = pos /\ ~(pos > 0)
    BY <1>1, <1>8 DEF Check, LastInv
  <2>2. pos = 0
    BY <2>1, SeqTypes
  <2>3. QED
    BY <1>1, <1>5, <1>8, <2>1, <2>2 DEF Check
<1>9. CASE Midnight
  BY <1>1, <1>5, <1>9 DEF Midnight, writerVars
<1>10. CASE Close
  BY <1>1, <1>10 DEF Close, LastInv, writerVars, fileVars
<1>11. QED
  BY <1>2, <1>3, <1>4, <1>6, <1>7, <1>8, <1>9, <1>10 DEF Next, Writer


\* An entry of a file is one that was there before the step.
Old(a, i) == a \in DOMAIN files /\ i \in DOMAIN files[a] /\ files'[a][i] = files[a][i]

LEMMA HistoryGrows ==
  ASSUME NEW acc \in Seq(Lines), NEW line \in Lines
  PROVE  /\ \A x, y : Before(acc, x, y) => Before(Append(acc, line), x, y)
         /\ \A x : LoggedIn(acc, x) => LoggedIn(Append(acc, line), x) /\ Before(Append(acc, line), x, line)
         /\ LoggedIn(Append(acc, line), line)
<1> DEFINE more == Append(acc, line)
<1>1. /\ DOMAIN acc = 1..Len(acc) /\ DOMAIN more = 1..(Len(acc) + 1) /\ Len(acc) \in Nat
      /\ more[Len(acc) + 1] = line
      /\ \A m \in 1..Len(acc) : more[m] = acc[m]
  OBVIOUS
<1> HIDE DEF more
<1>2. /\ \A m \in DOMAIN acc : m \in DOMAIN more /\ more[m] = acc[m] /\ m < Len(acc) + 1
      /\ Len(acc) + 1 \in DOMAIN more
  BY <1>1
<1>3. \A x, y : Before(acc, x, y) => Before(more, x, y)
  BY <1>2 DEF Before
<1>4. \A x : LoggedIn(acc, x) => LoggedIn(more, x) /\ Before(more, x, line)
  BY <1>1, <1>2 DEF Before, LoggedIn
<1>5. LoggedIn(more, line)
  BY <1>1, <1>2 DEF LoggedIn
<1>6. QED
  BY <1>3, <1>4, <1>5 DEF more

LEMMA OldEntries ==
  ASSUME TypeInv, NEW name
  PROVE  /\ UNCHANGED files \/ Opened(name) => \A a \in DOMAIN files' : \A i \in DOMAIN files'[a] : Old(a, i)
         /\ \A line \in Entries :
              Added(name, line) =>
                \E len \in Nat :
                  /\ \A a \in DOMAIN files' : \A i \in DOMAIN files'[a] : Old(a, i) \/ (a = name /\ i = len + 1)
                  /\ \A i \in DOMAIN files'[name] : i <= len + 1
                  /\ files'[name][len + 1] = line
<1>1. UNCHANGED files => \A a \in DOMAIN files' : \A i \in DOMAIN files'[a] : Old(a, i)
  BY DEF Old
<1>2. Opened(name) => \A a \in DOMAIN files' : \A i \in DOMAIN files'[a] : Old(a, i)
  BY DEF Opened, Old
<1>3. ASSUME NEW line \in Entries, Added(name, line)
      PROVE  \E len \in Nat :
               /\ \A a \in DOMAIN files' : \A i \in DOMAIN files'[a] : Old(a, i) \/ (a = name /\ i = len + 1)
               /\ \A i \in DOMAIN files'[name] : i <= len + 1
               /\ files'[name][len + 1] = line
  <2>1. PICK s : s = IF name \in DOMAIN files THEN files[name] ELSE <<>>
    OBVIOUS
  <2>2. s \in Seq(Entries)
    BY <2>1, SeqTypes
  <2>3. files'[name] = Append(s, line) /\ DOMAIN files' = DOMAIN files \cup {name}
    BY <1>3, <2>1 DEF Added
  <2>4. /\ Len(s) \in Nat /\ DOMAIN files'[name] = 1..(Len(s) + 1) /\ DOMAIN s = 1..Len(s)
        /\ files'[name][Len(s) + 1] = line
        /\ \A i \in 1..Len(s) : files'[name][i] = s[i]
    BY <2>2, <2>3
  <2>5. ASSUME NEW i \in DOMAIN files'[name], i # Len(s) + 1 PROVE Old(name, i)
    <3>1. i \in DOMAIN s /\ files'[name][i] = s[i]
      BY <2>4, <2>5
    <3>2. name \in DOMAIN files
      BY <2>1, <3>1
    <3>3. QED
      BY <2>1, <3>1, <3>2 DEF Old
  <2>6. \A a \in DOMAIN files' : a # name => \A i \in DOMAIN files'[a] : Old(a, i)
    BY <1>3, <2>3 DEF Added, Old
  <2>7. \A i \in DOMAIN files'[name] : i <= Len(s) + 1
    BY <2>4
  <2>8. QED
    BY <2>4, <2>5, <2>6, <2>7
<1>4. QED
  BY <1>1, <1>2, <1>3

\* Nothing is written and nothing moves; at most the batch is over.
LEMMA QuietOrder ==
  ASSUME OrderInv, closer # "timedOut", UNCHANGED <<logQueue, accepted>>,
         UNCHANGED <<batch, pos>> \/ (batch' = <<>> /\ pos' = 0),
         \A a \in DOMAIN files' : \A i \in DOMAIN files'[a] : Old(a, i)
  PROVE  OrderInv'
<1>1. /\ AllLogged /\ FilesInOrder /\ FilesBeforeBatch /\ FilesBeforeQueue
      /\ BatchInOrder /\ BatchBeforeQueue /\ QueueInOrder
  BY DEF OrderInv
<1>2. \A i \in 1..Len(batch') : UNCHANGED <<batch, pos>>
  OBVIOUS
<1>3. AllLogged'
  <2>1. \A a \in DOMAIN files' : \A i \in DOMAIN files'[a] : LoggedIn(accepted', files'[a][i])
    BY <1>1 DEF Old, AllLogged
  <2>2. \A i \in 1..Len(batch') : LoggedIn(accepted', batch'[i])
    BY <1>1, <1>2 DEF AllLogged
  <2>3. QED
    BY <1>1, <2>1, <2>2 DEF AllLogged
<1>4. FilesInOrder'
  BY <1>1 DEF Old, FilesInOrder
<1>5. FilesBeforeBatch'
  <2>1. CASE UNCHANGED <<batch, pos>>
    BY <1>1, <2>1 DEF Old, FilesBeforeBatch
  <2>2. CASE batch' = <<>> /\ pos' = 0
    <3>1. ASSUME NEW j \in (pos' + 1)..Len(batch') PROVE FALSE
      BY <2>2
    <3>2. QED
      BY <3>1 DEF FilesBeforeBatch
  <2>3. QED
    BY <2>1, <2>2
<1>6. FilesBeforeQueue'
  BY <1>1 DEF Old, FilesBeforeQueue
<1>7. BatchInOrder' /\ BatchBeforeQueue'
  BY <1>1, <1>2 DEF BatchInOrder, BatchBeforeQueue
<1>8. QueueInOrder'
  BY <1>1 DEF QueueInOrder
<1>9. QED
  BY <1>3, <1>4, <1>5, <1>6, <1>7, <1>8 DEF OrderInv

\* The next line of the batch is written: it is last in the last file.
LEMMA WritesOrder ==
  ASSUME TypeInv, TypeInv', LastInv', OrderInv, closer # "timedOut", closer' = closer,
         UNCHANGED <<logQueue, accepted>>, NEW name, WritesLine(name),
         pos \in Nat, pos + 1 \in 1..Len(batch), batch[pos + 1] \in Entries
  PROVE  OrderInv'
<1> DEFINE line == batch[pos + 1]
<1>1. /\ AllLogged /\ FilesInOrder /\ FilesBeforeBatch /\ FilesBeforeQueue
      /\ BatchInOrder /\ BatchBeforeQueue /\ QueueInOrder
  BY DEF OrderInv
<1>2. batch' = batch /\ pos' = pos + 1 /\ currentFile' = name /\ Added(name, line) /\ Len(batch) \in Nat
  BY SeqTypes DEF WritesLine, Into
<1>3. PICK len \in Nat : /\ \A a \in DOMAIN files' : \A i \in DOMAIN files'[a] : Old(a, i) \/ (a = name /\ i = len + 1)
                         /\ \A i \in DOMAIN files'[name] : i <= len + 1
                         /\ files'[name][len + 1] = line
  BY <1>2, OldEntries
<1>4. \A a \in DOMAIN files' : a[1] < name[1] \/ (a[1] = name[1] /\ a[2] <= name[2])
  <2>1. currentFile # NoFile /\ name # NoFile /\ currentFile' # NoFile /\ currentDateStr' = currentDateStr
    <3>1. currentDateStr \in 1..MaxDay
      BY DEF WritesLine, Into, TypeInv, NameInv
    <3>2. QED
      BY <1>2, <3>1, LoggerAssumption DEF WritesLine, Into, Candidate, NoFile
  <2>2. name[1] = currentDateStr
    BY <2>1 DEF WritesLine, Into, Candidate, TypeInv, NameInv
  <2>3. QED
    BY <1>2, <2>1, <2>2 DEF LastInv
<1>5. LoggedIn(accepted, line)
  BY <1>1 DEF AllLogged
<1>6. \A j \in (pos' + 1)..Len(batch') :
        /\ Before(accepted, line, batch'[j])
        /\ j \in (pos + 1)..Len(batch) /\ batch'[j] = batch[j]
  <2>1. ASSUME NEW j \in (pos' + 1)..Len(batch')
        PROVE  j \in (pos + 1)..Len(batch) /\ j \in 1..Len(batch) /\ pos + 1 < j
    BY <1>2
  <2>2. QED
    BY <1>1, <1>2, <2>1 DEF BatchInOrder
<1>7. \A a \in DOMAIN files : \A i \in DOMAIN files[a] : Before(accepted, files[a][i], line)
  <2>1. pos + 1 \in (pos + 1)..Len(batch)
    BY <1>2
  <2>2. QED
    BY <1>1, <2>1 DEF FilesBeforeBatch
<1>8. AllLogged'
  <2>1. \A a \in DOMAIN files' : \A i \in DOMAIN files'[a] : LoggedIn(accepted', files'[a][i])
    BY <1>1, <1>3, <1>5 DEF Old, AllLogged
  <2>2. QED
    BY <1>1, <1>2, <2>1 DEF AllLogged
<1>9. FilesInOrder'
  <2>1. ASSUME NEW a \in DOMAIN files', NEW b \in DOMAIN files', NEW i \in DOMAIN files'[a], NEW j \in DOMAIN files'[b],
               Earlier(a, i, b, j)
        PROVE  Before(accepted', files'[a][i], files'[b][j])
    <3>1. CASE Old(a, i) /\ Old(b, j)
      BY <1>1, <2>1, <3>1 DEF Old, FilesInOrder
    <3>2. CASE Old(a, i) /\ b = name /\ j = len + 1
      BY <1>3, <1>7, <3>2 DEF Old
    <3>3. CASE a = name /\ i = len + 1
      <4>1. /\ a[1] = name[1] /\ a[2] = name[2]
            /\ ~(a[1] < b[1] \/ (a[1] = b[1] /\ a[2] < b[2]))
            /\ ~(a = b /\ i < j)
        <5>1. a[1] \in Nat /\ a[2] \in Nat /\ b[1] \in Nat /\ b[2] \in Nat
          <6>1. a \in Names /\ b \in Names
            BY DEF TypeInv, TypeOK
          <6>2. QED
            BY <6>1, LoggerAssumption DEF Names
        <5>2. b[1] < a[1] \/ (b[1] = a[1] /\ b[2] <= a[2])
          BY <1>4, <3>3
        <5>3. a = b => j \in Nat /\ j <= i
          <6>1. files'[b] \in Seq(Entries)
            BY DEF TypeInv, TypeOK
          <6>2. j \in Nat
            BY <6>1
          <6>3. QED
            BY <1>3, <3>3, <6>2
        <5>4. QED
          BY <3>3, <5>1, <5>2, <5>3
      <4>2. QED
        BY <2>1, <4>1 DEF Earlier
    <3>4. QED
      BY <1>3, <3>1, <3>2, <3>3
  <2>2. QED
    BY <2>1 DEF FilesInOrder
<1>10. FilesBeforeBatch'
  <2>1. ASSUME NEW a \in DOMAIN files', NEW i \in DOMAIN files'[a], NEW j \in (pos' + 1)..Len(batch')
        PROVE  Before(accepted', files'[a][i], batch'[j])
    <3>1. CASE Old(a, i)
      BY <1>1, <1>6, <3>1 DEF Old, FilesBeforeBatch
    <3>2. CASE a = name /\ i = len + 1
      BY <1>3, <1>6, <3>2
    <3>3. QED
      BY <1>3, <3>1, <3>2
  <2>2. QED
    BY <2>1 DEF FilesBeforeBatch
<1>11. FilesBeforeQueue'
  <2>1. ASSUME NEW a \in DOMAIN files', NEW i \in DOMAIN files'[a], NEW j \in 1..Len(logQueue')
        PROVE  Before(accepted', files'[a][i], logQueue'[j])
    <3>1. CASE Old(a, i)
      BY <1>1, <3>1 DEF Old, FilesBeforeQueue
    <3>2. CASE a = name /\ i = len + 1
      BY <1>1, <1>3, <3>2 DEF BatchBeforeQueue
    <3>3. QED
      BY <1>3, <3>1, <3>2
  <2>2. QED
    BY <2>1 DEF FilesBeforeQueue
<1>12. BatchInOrder' /\ BatchBeforeQueue' /\ QueueInOrder'
  BY <1>1, <1>2 DEF BatchInOrder, BatchBeforeQueue, QueueInOrder
<1>13. QED
  BY <1>8, <1>9, <1>10, <1>11, <1>12 DEF OrderInv

\* The writer takes lines from the head of the queue, none of its batch being written.
LEMMA MovesOrder ==
  ASSUME TypeInv, OrderInv, closer # "timedOut", UNCHANGED <<accepted, files>>, pos = 0, pos' = 0,
         NEW k \in 0..Len(logQueue), Moves(k)
  PROVE  OrderInv'
<1>1. /\ AllLogged /\ FilesInOrder /\ FilesBeforeBatch /\ FilesBeforeQueue
      /\ BatchInOrder /\ BatchBeforeQueue /\ QueueInOrder
  BY DEF OrderInv
<1>2. Len(batch) \in Nat /\ Len(logQueue) \in Nat
  BY SeqTypes
<1>3. \A j \in 1..Len(batch') :
        \/ j \in 1..Len(batch) /\ batch'[j] = batch[j]
        \/ j - Len(batch) \in 1..Len(logQueue) /\ j - Len(batch) <= k /\ j > Len(batch)
           /\ batch'[j] = logQueue[j - Len(batch)]
  <2>1. ASSUME NEW j \in 1..Len(batch'), j > Len(batch)
        PROVE  j - Len(batch) \in 1..k /\ j = Len(batch) + (j - Len(batch))
    BY <1>2, <2>1 DEF Moves
  <2>2. QED
    BY <1>2, <2>1 DEF Moves
<1>4. \A j \in 1..Len(logQueue') : k + j \in 1..Len(logQueue) /\ logQueue'[j] = logQueue[k + j]
  BY <1>2 DEF Moves
<1>5. AllLogged'
  <2>1. \A i \in 1..Len(batch') : LoggedIn(accepted', batch'[i])
    BY <1>1, <1>3 DEF AllLogged
  <2>2. \A i \in 1..Len(logQueue') : LoggedIn(accepted', logQueue'[i])
    BY <1>1, <1>4 DEF AllLogged
  <2>3. QED
    BY <1>1, <2>1, <2>2 DEF AllLogged
<1>6. FilesInOrder'
  BY <1>1 DEF FilesInOrder
<1>7. FilesBeforeBatch'
  <2>1. ASSUME NEW a \in DOMAIN files, NEW i \in DOMAIN files[a], NEW j \in (pos' + 1)..Len(batch')
        PROVE  Before(accepted, files[a][i], batch'[j])
    <3>1. j \in 1..Len(batch') /\ (j \in 1..Len(batch) => j \in (pos + 1)..Len(batch))
      BY <1>2
    <3>2. CASE j \in 1..Len(batch) /\ batch'[j] = batch[j]
      BY <1>1, <3>1, <3>2 DEF FilesBeforeBatch
    <3>3. CASE j - Len(batch) \in 1..Len(logQueue) /\ batch'[j] = logQueue[j - Len(batch)]
      BY <1>1, <3>3 DEF FilesBeforeQueue
    <3>4. QED
      BY <1>3, <3>1, <3>2, <3>3
  <2>2. QED
    BY <2>1 DEF FilesBeforeBatch
<1>8. FilesBeforeQueue'
  BY <1>1, <1>4 DEF FilesBeforeQueue
<1>9. BatchInOrder'
  <2>1. ASSUME NEW i \in 1..Len(batch'), NEW j \in 1..Len(batch'), i < j
        PROVE  Before(accepted, batch'[i], batch'[j])
    <3>1. CASE j \in 1..Len(batch) /\ batch'[j] = batch[j]
      <4>1. i \in 1..Len(batch) /\ ~(i > Len(batch))
        BY <1>2, <2>1, <3>1
      <4>2. QED
        BY <1>1, <1>3, <2>1, <3>1, <4>1 DEF BatchInOrder
    <3>2. CASE j - Len(batch) \in 1..Len(logQueue) /\ batch'[j] = logQueue[j - Len(batch)]
      <4>1. CASE i \in 1..Len(batch) /\ batch'[i] = batch[i]
        BY <1>1, <3>2, <4>1 DEF BatchBeforeQueue
      <4>2. CASE i - Len(batch) \in 1..Len(logQueue) /\ batch'[i] = logQueue[i - Len(batch)]
        <5>1. i - Len(batch) < j - Len(batch)
          BY <1>2, <2>1
        <5>2. QED
          BY <1>1, <3>2, <4>2, <5>1 DEF QueueInOrder
      <4>3. QED
        BY <1>3, <4>1, <4>2
    <3>3. QED
      BY <1>3, <3>1, <3>2
  <2>2. QED
    BY <2>1 DEF BatchInOrder
<1>10. BatchBeforeQueue'
  <2>1. ASSUME NEW i \in 1..Len(batch'), NEW j \in 1..Len(logQueue')
        PROVE  Before(accepted, batch'[i], logQueue'[j])
    <3>1. CASE i \in 1..Len(batch) /\ batch'[i] = batch[i]
      BY <1>1, <1>4, <3>1 DEF BatchBeforeQueue
    <3>2. CASE i - Len(batch) \in 1..Len(logQueue) /\ i - Len(batch) <= k /\ batch'[i] = logQueue[i - Len(batch)]
      <4>1. i - Len(batch) < k + j
        BY <1>2, <3>2
      <4>2. QED
        BY <1>1, <1>4, <3>2, <4>1 DEF QueueInOrder
    <3>3. QED
      BY <1>3, <3>1, <3>2
  <2>2. QED
    BY <2>1 DEF BatchBeforeQueue
<1>11. QueueInOrder'
  <2>1. ASSUME NEW i \in 1..Len(logQueue'), NEW j \in 1..Len(logQueue'), i < j
        PROVE  Before(accepted, logQueue'[i], logQueue'[j])
    <3>1. k + i < k + j
      BY <1>2, <2>1
    <3>2. QED
      BY <1>1, <1>4, <3>1 DEF QueueInOrder
  <2>2. QED
    BY <2>1 DEF QueueInOrder
<1>12. QED
  BY <1>5, <1>6, <1>7, <1>8, <1>9, <1>10, <1>11 DEF OrderInv

\* A line goes to the end of the history, and of the queue unless it is lost there.
LEMMA AddOrder ==
  ASSUME TypeInv, OrderInv, closer # "timedOut", UNCHANGED <<files, batch, pos>>, NEW line \in Lines,
         accepted' = Append(accepted, line),
         logQueue' = Append(logQueue, line) \/ UNCHANGED logQueue
  PROVE  OrderInv'
<1>1. /\ AllLogged /\ FilesInOrder /\ FilesBeforeBatch /\ FilesBeforeQueue
      /\ BatchInOrder /\ BatchBeforeQueue /\ QueueInOrder
  BY DEF OrderInv
<1>2. /\ \A x, y : Before(accepted, x, y) => Before(accepted', x, y)
      /\ \A x : LoggedIn(accepted, x) => LoggedIn(accepted', x) /\ Before(accepted', x, line)
      /\ LoggedIn(accepted', line)
  BY HistoryGrows, SeqTypes
<1>3. Len(logQueue) \in Nat /\ \A j \in 1..Len(logQueue') :
        \/ j \in 1..Len(logQueue) /\ logQueue'[j] = logQueue[j]
        \/ j = Len(logQueue) + 1 /\ logQueue'[j] = line
  BY SeqTypes
<1>4. AllLogged'
  <2>1. \A i \in 1..Len(logQueue') : LoggedIn(accepted', logQueue'[i])
    BY <1>1, <1>2, <1>3 DEF AllLogged
  <2>2. QED
    BY <1>1, <1>2, <2>1 DEF AllLogged
<1>5. FilesInOrder'
  BY <1>1, <1>2 DEF FilesInOrder
<1>6. FilesBeforeBatch'
  BY <1>1, <1>2 DEF FilesBeforeBatch
<1>7. FilesBeforeQueue'
  <2>1. ASSUME NEW a \in DOMAIN files, NEW i \in DOMAIN files[a], NEW j \in 1..Len(logQueue')
        PROVE  Before(accepted', files[a][i], logQueue'[j])
    <3>1. CASE j \in 1..Len(logQueue) /\ logQueue'[j] = logQueue[j]
      BY <1>1, <1>2, <3>1 DEF FilesBeforeQueue
    <3>2. CASE logQueue'[j] = line
      BY <1>1, <1>2, <3>2 DEF AllLogged
    <3>3. QED
      BY <1>3, <3>1, <3>2
  <2>2. QED
    BY <2>1 DEF FilesBeforeQueue
<1>8. BatchInOrder'
  BY <1>1, <1>2 DEF BatchInOrder
<1>9. BatchBeforeQueue'
  <2>1. ASSUME NEW i \in 1..Len(batch), NEW j \in 1..Len(logQueue')
        PROVE  Before(accepted', batch[i], logQueue'[j])
    <3>1. CASE j \in 1..Len(logQueue) /\ logQueue'[j] = logQueue[j]
      BY <1>1, <1>2, <3>1 DEF BatchBeforeQueue
    <3>2. CASE logQueue'[j] = line
      BY <1>1, <1>2, <3>2 DEF AllLogged
    <3>3. QED
      BY <1>3, <3>1, <3>2
  <2>2. QED
    BY <2>1 DEF BatchBeforeQueue
<1>10. QueueInOrder'
  <2>1. ASSUME NEW i \in 1..Len(logQueue'), NEW j \in 1..Len(logQueue'), i < j
        PROVE  Before(accepted', logQueue'[i], logQueue'[j])
    <3>1. i \in 1..Len(logQueue) /\ logQueue'[i] = logQueue[i]
      BY <1>3, <2>1
    <3>2. CASE j \in 1..Len(logQueue) /\ logQueue'[j] = logQueue[j]
      BY <1>1, <1>2, <2>1, <3>1, <3>2 DEF QueueInOrder
    <3>3. CASE logQueue'[j] = line
      BY <1>1, <1>2, <3>1, <3>3 DEF AllLogged
    <3>4. QED
      BY <1>3, <3>2, <3>3
  <2>2. QED
    BY <2>1 DEF QueueInOrder
<1>11. QED
  BY <1>4, <1>5, <1>6, <1>7, <1>8, <1>9, <1>10 DEF OrderInv

LEMMA TimedOutForGood == [Next]_vars /\ closer = "timedOut" => closer' = "timedOut"
  BY DEF Next, Writer, CheckRunning, Add, Check, Take, Drain, Roll, WriteLine, Flush, Close, Joined,
     Midnight, vars

LEMMA NextOrder ==
  ASSUME TypeInv, TypeInv', LastInv, LastInv', OrderInv, [Next]_vars
  PROVE  OrderInv'
<1> SUFFICES ASSUME closer' # "timedOut" PROVE OrderInv'
  BY DEF OrderInv
<1>1. closer # "timedOut" /\ pos \in Nat
  BY TimedOutForGood, SeqTypes
<1>2. ~(pos > 0) => pos = 0
  BY <1>1
<1>3. ASSUME NEW name, UNCHANGED <<logQueue, accepted>>, UNCHANGED files \/ Opened(name),
             UNCHANGED <<batch, pos>> \/ (batch' = <<>> /\ pos' = 0)
      PROVE  OrderInv'
  BY <1>1, <1>3, OldEntries, QuietOrder
<1>4. CASE Flush
  <2>1. UNCHANGED <<logQueue, accepted, files>>
    BY <1>4 DEF Flush, queueVars, fileVars
  <2>2. UNCHANGED <<batch, pos>> \/ (batch' = <<>> /\ pos' = 0)
    BY <1>1, <1>2, <1>4 DEF Flush, LastInv, BatchOver, NullPointer
  <2>3. QED
    BY <1>3, <2>1, <2>2
<1>5. CASE Roll
  <2>1. UNCHANGED <<logQueue, accepted>>
    BY <1>5 DEF Roll, queueVars
  <2>2. UNCHANGED files \/ Opened(<<day, 0>>)
    BY <1>5, OpenFileOpens DEF Roll, fileVars
  <2>3. UNCHANGED <<batch, pos>> \/ (batch' = <<>> /\ pos' = 0)
    BY <1>5 DEF Roll, BatchOver
  <2>4. QED
    BY <1>3, <2>1, <2>2, <2>3
<1>6. CASE WriteLine
  <2>1. UNCHANGED <<logQueue, accepted, closer>>
    BY <1>6 DEF WriteLine, queueVars
  <2>2. CASE (currentFile = NoFile \/ ~fos) /\ NullPointer /\ UNCHANGED fileVars
    <3>1. UNCHANGED <<batch, pos, files>>
      BY <1>1, <1>2, <2>2 DEF LastInv, NullPointer, fileVars
    <3>2. QED
      BY <1>3, <2>1, <3>1
  <2>3. ASSUME NEW name, FailsToWrite(name) PROVE OrderInv'
    BY <1>3, <2>1, <2>3 DEF FailsToWrite, BatchOver
  <2>4. ASSUME NEW name, WritesLine(name) PROVE OrderInv'
    BY <1>1, <1>6, <2>1, <2>4, WriteLineDoes, WritesOrder
  <2>5. QED
    BY <1>1, <1>6, <2>2, <2>3, <2>4, WriteLineDoes
<1>7. CASE Take \/ Drain
  <2>1. UNCHANGED <<accepted, files>> /\ pos' = 0 /\ writer \in {"take", "exitDrain"}
    BY <1>7 DEF Take, Drain, fileVars
  <2>2. pos = 0
    BY <1>1, <1>2, <2>1 DEF LastInv
  <2>3. QED
    BY <1>1, <1>7, <2>1, <2>2, TakesMove, MovesOrder
<1>8. ASSUME NEW t \in Threads, Add(t) PROVE OrderInv'
  <2>1. logging[t] \in Lines
    BY <1>8, LoggerAssumption DEF Add, TypeInv, TypeOK, Lines
  <2>2. /\ UNCHANGED <<files, batch, pos>> /\ accepted' = Append(accepted, logging[t])
        /\ logQueue' = Append(logQueue, logging[t]) \/ UNCHANGED logQueue
    BY <1>8 DEF Add, fileVars, writerVars
  <2>3. QED
    BY <1>1, <2>1, <2>2, AddOrder
<1>9. ASSUME UNCHANGED <<logQueue, accepted, files, batch, pos>> PROVE OrderInv'
  BY <1>3, <1>9
<1>10. ASSUME NEW t \in Threads, CheckRunning(t) PROVE OrderInv'
  BY <1>9, <1>10 DEF CheckRunning, writerVars, fileVars
<1>11. CASE Check
  BY <1>9, <1>11 DEF Check, queueVars, fileVars
<1>12. CASE Close
  BY <1>9, <1>12 DEF Close, queueVars, writerVars, fileVars
<1>13. CASE Joined
  BY <1>9, <1>13 DEF Joined, queueVars, writerVars
<1>14. CASE Midnight \/ UNCHANGED vars
  BY <1>9, <1>14 DEF Midnight, vars, queueVars, writerVars, fileVars
<1>15. QED
  BY <1>4, <1>5, <1>6, <1>7, <1>8, <1>10, <1>11, <1>12, <1>13, <1>14 DEF Next, Writer

LEMMA InitOrder == Init => LastInv /\ OrderInv
<1> SUFFICES ASSUME Init PROVE LastInv /\ OrderInv
  OBVIOUS
<1>1. DOMAIN files \subseteq {<<1, 0>>} /\ \A a \in DOMAIN files : DOMAIN files[a] = {}
  BY DEF Init
<1>2. batch = <<Banner>> /\ Len(batch) = 1 /\ batch[1] = Banner /\ Len(logQueue) = 0 /\ pos = 0
  BY DEF Init
<1>3. LastInv
  BY <1>1, <1>2 DEF Init, LastInv
<1>4. AllLogged
  BY <1>1, <1>2 DEF AllLogged, LoggedIn
<1>5. FilesInOrder /\ FilesBeforeBatch /\ FilesBeforeQueue
  BY <1>1 DEF FilesInOrder, FilesBeforeBatch, FilesBeforeQueue
<1>6. BatchInOrder /\ BatchBeforeQueue /\ QueueInOrder
  BY <1>2 DEF BatchInOrder, BatchBeforeQueue, QueueInOrder
<1>7. QED
  BY <1>3, <1>4, <1>5, <1>6 DEF OrderInv

\* Unless close() gave up waiting, the files of a day read by index, and the days
\* in order, hold the lines in the order they were logged:
\* across rollovers, midnights, failed file operations and batches kept for later.
THEOREM FilesKeepTheOrder == Spec => []FilesReadInOrder
<1>1. OrderInv => FilesReadInOrder
  BY DEF OrderInv, FilesInOrder, FilesReadInOrder, Earlier, Before
<1>2. TypeInv /\ LastInv /\ OrderInv /\ [Next]_vars => TypeInv' /\ LastInv' /\ OrderInv'
  BY NextTypes, NextLast, NextOrder
<1>3. QED
  BY InitTypes, InitOrder, <1>1, <1>2, PTL DEF Spec

-----------------------------------------------------------------------------
(* The lengths of the files.                                               *)

\* Induction, for sets: each property below is that of being in one.
LEMMA NatSets ==
  ASSUME NEW S, 0 \in S, \A n \in Nat : n \in S => n + 1 \in S
  PROVE  Nat \subseteq S
<1> SUFFICES ASSUME Nat \ S # {} PROVE FALSE
  OBVIOUS
<1>1. PICK x \in Nat \ S : \A y \in Nat \ S : ~(<<y, x>> \in OpToRel(<, Nat))
  BY NatLessThanWellFounded, WFMin
<1>2. \A y \in Nat \ S : ~(y < x)
  BY <1>1 DEF OpToRel
<1>3. x # 0 /\ x - 1 \in Nat /\ x - 1 < x /\ x - 1 + 1 = x
  OBVIOUS
<1>4. QED
  BY <1>2, <1>3

\* The sums of which Total is the last.
Sums(before, lines, f, k) ==
  f = [n \in 0..k |-> IF n = 0 THEN before ELSE f[n - 1] + SizeOf[lines[n]]]

LEMMA SumsExist ==
  ASSUME NEW before, NEW lines, NEW k \in Nat
  PROVE  \E f : Sums(before, lines, f, k)
<1> DEFINE S == {j \in Nat : \E f : Sums(before, lines, f, j)}
<1>1. 0 \in S
  <2>1. Sums(before, lines, [n \in 0..0 |-> before], 0)
    BY DEF Sums
  <2>2. QED
    BY <2>1
<1>2. ASSUME NEW j \in Nat, j \in S PROVE j + 1 \in S
  <2>1. PICK f : Sums(before, lines, f, j)
    BY <1>2
  <2> DEFINE g == [n \in 0..(j + 1) |-> IF n = j + 1 THEN f[j] + SizeOf[lines[j + 1]] ELSE f[n]]
  <2>2. ASSUME NEW n \in 0..(j + 1)
        PROVE  g[n] = IF n = 0 THEN before ELSE g[n - 1] + SizeOf[lines[n]]
    <3>1. CASE n = j + 1
      <4>1. n # 0 /\ n - 1 = j /\ j \in 0..(j + 1) /\ j # j + 1
        BY <3>1
      <4>2. QED
        BY <3>1, <4>1
    <3>2. CASE n \in 0..j
      <4>1. n # j + 1 /\ (n # 0 => n - 1 \in 0..(j + 1) /\ n - 1 # j + 1)
        BY <3>2
      <4>2. f[n] = IF n = 0 THEN before ELSE f[n - 1] + SizeOf[lines[n]]
        BY <2>1, <3>2 DEF Sums
      <4>3. QED
        BY <3>2, <4>1, <4>2
    <3>3. QED
      BY <3>1, <3>2
  <2>3. Sums(before, lines, g, j + 1)
    BY <2>2 DEF Sums
  <2>4. QED
    BY <2>3
<1> HIDE DEF S
<1>3. Nat \subseteq S
  BY <1>1, <1>2, NatSets
<1>4. QED
  BY <1>3 DEF S

LEMMA TotalIsLast ==
  ASSUME NEW before, NEW lines, Len(lines) \in Nat
  PROVE  \E f : Sums(before, lines, f, Len(lines)) /\ Total(before, lines) = f[Len(lines)]
<1> DEFINE f == CHOOSE u : u = [n \in 0..Len(lines) |-> IF n = 0 THEN before ELSE u[n - 1] + SizeOf[lines[n]]]
<1>1. Total(before, lines) = f[Len(lines)]
  BY DEF Total
<1>2. Sums(before, lines, f, Len(lines))
  <2>1. \E u : u = [n \in 0..Len(lines) |-> IF n = 0 THEN before ELSE u[n - 1] + SizeOf[lines[n]]]
    <3>1. PICK u : Sums(before, lines, u, Len(lines))
      BY SumsExist
    <3>2. QED
      BY <3>1 DEF Sums
  <2>2. QED
    BY <2>1 DEF Sums
<1>3. QED
  BY <1>1, <1>2

LEMMA TotalGrows ==
  ASSUME NEW before \in Nat, NEW lines \in Seq(Entries), NEW line \in Entries
  PROVE  Total(before, Append(lines, line)) = Total(before, lines) + SizeOf[line]
<1> DEFINE more == Append(lines, line)
           k == Len(lines)
<1>1. k \in Nat /\ Len(more) = k + 1 /\ more[k + 1] = line /\ \A n \in 1..k : more[n] = lines[n]
  OBVIOUS
<1>2. PICK f : Sums(before, lines, f, k) /\ Total(before, lines) = f[k]
  BY <1>1, TotalIsLast
<1> HIDE DEF more, k
<1>3. PICK g : Sums(before, more, g, k + 1) /\ Total(before, more) = g[k + 1]
  <2>1. Len(more) \in Nat
    BY <1>1
  <2>2. PICK g : Sums(before, more, g, Len(more)) /\ Total(before, more) = g[Len(more)]
    BY <2>1, TotalIsLast
  <2>3. QED
    BY <1>1, <2>2
<1> DEFINE S == {n \in Nat : n <= k => f[n] = g[n]}
<1>4. \A n \in 0..k : f[n] = IF n = 0 THEN before ELSE f[n - 1] + SizeOf[lines[n]]
  BY <1>2 DEF Sums
<1>5. \A n \in 0..(k + 1) : g[n] = IF n = 0 THEN before ELSE g[n - 1] + SizeOf[more[n]]
  BY <1>3 DEF Sums
<1>6. 0 \in S
  BY <1>1, <1>4, <1>5
<1>7. ASSUME NEW n \in Nat, n \in S PROVE n + 1 \in S
  <2>1. SUFFICES ASSUME n + 1 <= k PROVE f[n + 1] = g[n + 1]
    OBVIOUS
  <2>2. n + 1 \in 0..k /\ n + 1 \in 0..(k + 1) /\ n + 1 \in 1..k /\ n + 1 # 0 /\ n + 1 - 1 = n /\ n <= k
    BY <1>1, <2>1
  <2>3. f[n + 1] = f[n] + SizeOf[lines[n + 1]] /\ g[n + 1] = g[n] + SizeOf[more[n + 1]]
    BY <1>4, <1>5, <2>2
  <2>4. QED
    BY <1>1, <1>7, <2>2, <2>3
<1>8. f[k] = g[k]
  <2> HIDE DEF S
  <2>1. Nat \subseteq S
    BY <1>6, <1>7, NatSets
  <2>2. QED
    BY <1>1, <2>1 DEF S
<1>9. g[k + 1] = g[k] + SizeOf[line]
  <2>1. k + 1 \in 0..(k + 1) /\ k + 1 # 0 /\ k + 1 - 1 = k
    BY <1>1
  <2>2. QED
    BY <1>1, <1>5, <2>1
<1>10. QED
  BY <1>2, <1>3, <1>8, <1>9 DEF more

LEMMA TotalOfNothing == \A before \in Nat : Total(before, <<>>) = before
<1> SUFFICES ASSUME NEW before \in Nat PROVE Total(before, <<>>) = before
  OBVIOUS
<1>1. PICK f : Sums(before, <<>>, f, Len(<<>>)) /\ Total(before, <<>>) = f[Len(<<>>)]
  BY TotalIsLast
<1>2. Len(<<>>) = 0 /\ 0 \in 0..0
  OBVIOUS
<1>3. QED
  BY <1>1, <1>2 DEF Sums

LEMMA TotalTypes == \A before \in Nat : \A lines \in Seq(Entries) : Total(before, lines) \in Nat
<1> SUFFICES ASSUME NEW before \in Nat, NEW lines \in Seq(Entries) PROVE Total(before, lines) \in Nat
  OBVIOUS
<1>1. PICK f : Sums(before, lines, f, Len(lines)) /\ Total(before, lines) = f[Len(lines)]
  BY TotalIsLast
<1>2. \A n \in 1..Len(lines) : SizeOf[lines[n]] \in Nat
  BY LoggerAssumption DEF Entries
<1> DEFINE S == {n \in Nat : n <= Len(lines) => f[n] \in Nat}
<1>3. \A n \in 0..Len(lines) : f[n] = IF n = 0 THEN before ELSE f[n - 1] + SizeOf[lines[n]]
  BY <1>1 DEF Sums
<1>4. 0 \in S
  BY <1>3
<1>5. ASSUME NEW n \in Nat, n \in S PROVE n + 1 \in S
  <2>1. SUFFICES ASSUME n + 1 <= Len(lines) PROVE f[n + 1] \in Nat
    OBVIOUS
  <2>2. n + 1 \in 0..Len(lines) /\ n + 1 \in 1..Len(lines) /\ n + 1 # 0 /\ n + 1 - 1 = n /\ n <= Len(lines)
    BY <2>1
  <2>3. f[n + 1] = f[n] + SizeOf[lines[n + 1]] /\ SizeOf[lines[n + 1]] \in Nat /\ f[n] \in Nat
    BY <1>2, <1>3, <1>5, <2>2
  <2>4. QED
    BY <2>3
<1> HIDE DEF S
<1>6. Nat \subseteq S
  BY <1>4, <1>5, NatSets
<1>7. QED
  BY <1>1, <1>6 DEF S

\* What a file held when the logger started.
Start(name) == IF name = <<1, 0>> THEN oldSize ELSE 0

LEMMA NextWithinLimit ==
  ASSUME TypeInv, FilesWithinLimit, [Next]_vars
  PROVE  FilesWithinLimit'
<1>1. oldSize' = oldSize /\ \A name : Start(name) \in Nat
  <2>1. oldSize' = oldSize
    BY DEF Next, Writer, CheckRunning, Add, Check, Take, Drain, Roll, WriteLine, Flush, Close, Joined,
       Midnight, vars
  <2>2. QED
    BY <2>1, LoggerAssumption DEF Start, TypeInv, TypeOK
<1>2. \A name \in DOMAIN files : LengthOf(name) = Total(Start(name), files[name]) /\ LengthOf(name) \in Nat
  BY <1>1, SeqTypes, TotalTypes DEF LengthOf, Start
<1>3. \A name \in DOMAIN files' : LengthOf(name)' = Total(Start(name), files'[name])
  BY <1>1 DEF LengthOf, Start
<1>4. ASSUME NEW name \in DOMAIN files, files'[name] = files[name], name \in DOMAIN files',
             files'[name] # <<>>, Total(Start(name), files'[name]) > maxFileSize
      PROVE  name[2] > 0 /\ Len(files'[name]) = 1
  BY <1>2, <1>4 DEF FilesWithinLimit
<1>5. ASSUME NEW opened, UNCHANGED files \/ Opened(opened) PROVE FilesWithinLimit'
  BY <1>3, <1>4, <1>5 DEF FilesWithinLimit, Opened
<1>6. CASE WriteLine
  <2>1. CASE closer = "timedOut" /\ UNCHANGED fileVars
    BY <1>5, <2>1 DEF fileVars
  <2>2. CASE NullPointer /\ UNCHANGED fileVars
    BY <1>5, <2>2 DEF fileVars
  <2>3. ASSUME NEW name, FailsToWrite(name) PROVE FilesWithinLimit'
    BY <1>5, <2>3 DEF FailsToWrite
  <2>4. ASSUME NEW name, WritesLine(name), NEW line \in Entries, line = batch[pos + 1]
        PROVE  FilesWithinLimit'
    <3>1. /\ Added(name, line) /\ currentFile # NoFile /\ currentDateStr \in 1..MaxDay
          /\ \/ name = currentFile /\ fos /\ ~Full(line)
             \/ name = Candidate
      BY <2>4 DEF WritesLine, Into, TypeInv, NameInv
    <3>2. ASSUME Total(Start(name), files'[name]) > maxFileSize PROVE name[2] > 0 /\ Len(files'[name]) = 1
      <4>1. CASE name = Candidate
        <5>1. PICK n \in Nat : Numbered(currentDateStr, n)
          BY <3>1 DEF TypeInv, NameInv
        <5>2. name = <<currentDateStr, n + 1>>
          BY <3>1, <4>1, <5>1, NextIndexIsNext DEF Candidate
        <5>3. name \notin DOMAIN files
          <6>1. PICK d : d = currentDateStr
            OBVIOUS
          <6>2. <<d, n + 1>> \notin DOMAIN files
            BY <5>1, <6>1 DEF Numbered
          <6>3. QED
            BY <5>2, <6>1, <6>2
        <5>4. files'[name] = Append(<<>>, line) /\ Len(Append(<<>>, line)) = 1
          BY <3>1, <5>3 DEF Added
        <5>5. QED
          BY <5>2, <5>4
      <4>2. CASE name = currentFile /\ fos /\ ~Full(line)
        <5>1. name \in DOMAIN files
          BY <4>2 DEF TypeInv, TypeOK
        <5>2. files'[name] = Append(files[name], line) /\ files[name] \in Seq(Entries)
          BY <3>1, <5>1, SeqTypes DEF Added
        <5>3. Total(Start(name), files'[name]) = LengthOf(name) + SizeOf[line]
          BY <1>1, <1>2, <5>1, <5>2, TotalGrows
        <5>4. LengthOf(name) + SizeOf[line] \in Nat /\ maxFileSize \in Nat
          BY <1>2, <5>1, LoggerAssumption DEF Entries
        <5>5. ~(LengthOf(name) + SizeOf[line] > maxFileSize)
          BY <4>2 DEF Full
        <5>6. QED
          BY <3>2, <5>3, <5>4, <5>5
      <4>3. QED
        BY <3>1, <4>1, <4>2
    <3>3. \A n \in DOMAIN files' : n # name => n \in DOMAIN files /\ files'[n] = files[n]
      BY <3>1 DEF Added
    <3>4. QED
      BY <1>3, <1>4, <3>2, <3>3 DEF FilesWithinLimit
  <2>5. QED
    BY <1>6, <2>1, <2>2, <2>3, <2>4, WriteLineDoes
<1>7. CASE Roll
  BY <1>5, <1>7, OpenFileOpens DEF Roll, fileVars
<1>8. CASE ~WriteLine /\ ~Roll
  <2>1. UNCHANGED files
    BY <1>8 DEF Next, Writer, CheckRunning, Add, Check, Take, Drain, Flush, Close, Joined, Midnight, vars,
       fileVars
  <2>2. QED
    BY <1>5, <2>1
<1>9. QED
  BY <1>6, <1>7, <1>8

\* No file grows past the limit, but for one that holds a single line or was that
\* long before: by induction over the lines of a file for its length.
THEOREM FilesStayWithinLimit == Spec => []FilesWithinLimit
<1>1. Init => FilesWithinLimit
  <2>1. Init => \A name \in DOMAIN files : files[name] = <<>>
    BY DEF Init
  <2>2. QED
    BY <2>1 DEF FilesWithinLimit
<1>2. TypeInv /\ FilesWithinLimit /\ [Next]_vars => TypeInv' /\ FilesWithinLimit'
  BY NextTypes, NextWithinLimit
<1>3. QED
  BY InitTypes, <1>1, <1>2, PTL DEF Spec
=============================================================================
