--------------------------- MODULE RollingLogger ---------------------------
(***************************************************************************)
(* One BufferedDailyRollingLogger: threads of the app add lines to a queue *)
(* under queueLock, a writer thread drains it in batches and writes them   *)
(* to a file per day, starting a numbered file when one is full, and some  *)
(* thread closes the logger.  The writer holds no lock while it writes.    *)
(*                                                                         *)
(* The writer's waits are timed (500 ms), so a flush or a notify only      *)
(* makes it take a batch sooner: taking one is always possible here.       *)
(* Lines are numbered in the order log() is called; line 0 is the banner   *)
(* the writer starts with, OldLine what an earlier process left in today's *)
(* file.                                                                   *)
(***************************************************************************)
EXTENDS Naturals, FiniteSets, Sequences, SequencesExt, TLC

CONSTANTS
  Threads,       \* threads that log
  MaxLines,      \* bound: calls of log
  MaxDay,        \* bound: days considered, 1..MaxDay
  MaxFailures,   \* bound: file operations that fail
  MAX_BUFFER_SIZE,   \* lines taken in one batch
  maxFileSize,   \* of a file, in the units of SizeOf
  SizeOf,        \* SizeOf[l]: length of line l
  OldSizes,      \* lengths today's file may have when the logger starts
  JoinMayTimeOut \* writerThread.join(5000) may end with the writer at work

ASSUME LoggerAssumption ==
  /\ MaxLines \in Nat /\ MaxDay \in Nat \ {0} /\ MaxFailures \in Nat
  /\ MAX_BUFFER_SIZE \in Nat \ {0}
  /\ maxFileSize \in Nat
  /\ SizeOf \in [0..MaxLines -> Nat \ {0}]
  /\ OldSizes \subseteq Nat
  /\ JoinMayTimeOut \in BOOLEAN

Banner == 0
Lines == 1..MaxLines
Entries == 0..MaxLines
\* Names: the day, and 0 for the day's own file or the index of a numbered one.
Names == (1..MaxDay) \X Nat
NoFile == <<0, 0>>

VARIABLES
  running,
  logQueue,
  logging,      \* logging[t]: the line thread t has found the logger running for, or 0
  called,       \* number of calls of log
  accepted,     \* history: the lines in the order they were added to the queue
  late,         \* history: those added once the writer had left its loop
  writer,       \* where the writer thread is
  batch, pos,   \* its batch, and how many lines of it are written
  day,          \* the date
  currentFile, currentDateStr,
  fos,          \* fos is not null
  files,        \* the log directory: contents of the files that exist
  oldSize,      \* length of today's file when the logger started
  closer,       \* close(): "no", "joining", "timedOut", "returned"
  failures      \* number of file operations that failed

queueVars == <<logQueue, logging, called, accepted, late>>
writerVars == <<writer, batch, pos>>
fileVars == <<currentFile, currentDateStr, fos, files>>
vars == <<running, queueVars, writerVars, day, fileVars, oldSize, closer, failures>>

Exits == {"exitDrain", "exitRoll", "exitWrite", "ended", "dead"}

\* The types of the state; an open stream is one to a file that exists, and the
\* writer leaves its loop only when the logger is no longer running.
TypeOK ==
  /\ running \in BOOLEAN
  /\ logQueue \in Seq(Lines)
  /\ logging \in [Threads -> 0..MaxLines]
  /\ called \in 0..MaxLines
  /\ accepted \in Seq(Lines)
  /\ late \subseteq Range(accepted)
  /\ writer \in {"check", "take", "roll", "write"} \cup Exits
  /\ batch \in Seq(Entries) /\ pos \in 0..Len(batch)
  /\ day \in 1..MaxDay
  /\ currentFile \in Names \cup {NoFile}
  /\ currentDateStr \in 0..MaxDay
  /\ fos \in BOOLEAN
  /\ DOMAIN files \subseteq Names
  /\ \A name \in DOMAIN files : files[name] \in Seq(Entries)
  /\ fos => currentFile \in DOMAIN files
  /\ oldSize \in OldSizes
  /\ closer \in {"no", "joining", "timedOut", "returned"}
  /\ failures \in 0..MaxFailures
  /\ writer \in Exits => ~running

Init ==
  /\ running = TRUE
  /\ logQueue = <<>> /\ logging = [t \in Threads |-> 0] /\ called = 0 /\ accepted = <<>> /\ late = {}
  /\ writer = "check" /\ batch = <<Banner>> /\ pos = 0
  /\ day = 1
  /\ currentFile = NoFile /\ currentDateStr = 0 /\ fos = FALSE
  /\ oldSize \in OldSizes
  /\ files = [n \in (IF oldSize = 0 THEN {} ELSE {<<1, 0>>}) |-> <<>>]
  /\ closer = "no" /\ failures = 0

-----------------------------------------------------------------------------
(* log(): the logger is found running, then the line is added.             *)
CheckRunning(t) ==
  /\ logging[t] = 0
  /\ called < MaxLines
  /\ running
  /\ called' = called + 1
  /\ logging' = [logging EXCEPT ![t] = called + 1]
  /\ UNCHANGED <<running, logQueue, accepted, late, writerVars, day, fileVars, oldSize, closer, failures>>

(* Under queueLock.  The writer's last look at the queue does not take the *)
(* lock: an add that races with it may leave the line in the list or not.  *)
Add(t) ==
  /\ logging[t] # 0
  /\ \/ logQueue' = Append(logQueue, logging[t])
     \/ writer = "exitDrain" /\ UNCHANGED logQueue
  /\ accepted' = Append(accepted, logging[t])
  /\ late' = IF writer \in Exits THEN late \cup {logging[t]} ELSE late
  /\ logging' = [logging EXCEPT ![t] = 0]
  /\ UNCHANGED <<running, called, writerVars, day, fileVars, oldSize, closer, failures>>

-----------------------------------------------------------------------------
(* writerLoop().                                                           *)
Check ==
  /\ writer = "check"
  /\ writer' = IF running THEN "take" ELSE "exitDrain"
  /\ UNCHANGED <<running, queueVars, batch, pos, day, fileVars, oldSize, closer, failures>>

\* Mutants: what the writer kept goes after what it takes; it takes full batches only.
TakeKeptLast ==
  LET drainCount == IF Len(logQueue) < MAX_BUFFER_SIZE THEN Len(logQueue) ELSE MAX_BUFFER_SIZE
  IN /\ writer = "take"
     /\ batch' = SubSeq(logQueue, 1, drainCount) \o batch
     /\ logQueue' = SubSeq(logQueue, drainCount + 1, Len(logQueue))
     /\ writer' = "roll"
     /\ pos' = 0
     /\ UNCHANGED <<running, logging, called, accepted, late, day, fileVars, oldSize, closer, failures>>

TakeFull ==
  /\ writer = "take"
  /\ Len(logQueue) >= MAX_BUFFER_SIZE \/ ~running
  /\ batch' = batch \o logQueue
  /\ logQueue' = <<>>
  /\ writer' = "roll"
  /\ pos' = 0
  /\ UNCHANGED <<running, logging, called, accepted, late, day, fileVars, oldSize, closer, failures>>

\* A batch is taken, or the wait ends with none: that may be too early to do anything.
Take ==
  LET drainCount == IF Len(logQueue) < MAX_BUFFER_SIZE THEN Len(logQueue) ELSE MAX_BUFFER_SIZE
      taken == batch \o SubSeq(logQueue, 1, drainCount)
  IN /\ writer = "take"
     /\ batch' = taken
     /\ logQueue' = SubSeq(logQueue, drainCount + 1, Len(logQueue))
     /\ writer' \in IF taken = <<>> THEN {"check", "roll"} ELSE {"roll"}
     /\ pos' = 0
     /\ UNCHANGED <<running, logging, called, accepted, late, day, fileVars, oldSize, closer, failures>>

\* Mutant: the writer leaves the queue as it is.
DrainNothing ==
  /\ writer = "exitDrain"
  /\ writer' = IF batch = <<>> THEN "ended" ELSE "exitRoll"
  /\ UNCHANGED <<running, queueVars, batch, pos, day, fileVars, oldSize, closer, failures>>

\* After the loop, the queue is polled, line by line and without the lock.
Drain ==
  /\ writer = "exitDrain"
  /\ IF logQueue = <<>>
       THEN /\ writer' = IF batch = <<>> THEN "ended" ELSE "exitRoll"
            /\ UNCHANGED <<logQueue, batch>>
       ELSE /\ logQueue' = Tail(logQueue)
            /\ batch' = Append(batch, Head(logQueue))
            /\ UNCHANGED writer
  /\ pos' = 0
  /\ UNCHANGED <<running, logging, called, accepted, late, day, fileVars, oldSize, closer, failures>>

-----------------------------------------------------------------------------
(* writeBatchToDisk(), in the loop or after it.                            *)
Exiting == writer \in Exits

\* The batch has been written, or given up on an IOException: it is cleared.
BatchOver ==
  /\ writer' = IF Exiting THEN "ended" ELSE "check"
  /\ batch' = <<>> /\ pos' = 0

\* A NullPointerException is caught by the loop, which keeps the batch; after
\* the loop nothing catches it.
NullPointer ==
  /\ writer' = IF Exiting THEN "dead" ELSE "check"
  /\ UNCHANGED batch
  /\ pos' = 0

IOFails == failures < MaxFailures /\ failures' = failures + 1

\* new FileOutputStream: creates the file, or keeps what it holds.
OpenFile(name) ==
  /\ fos' = TRUE
  /\ files' = [n \in DOMAIN files \cup {name} |-> IF n \in DOMAIN files THEN files[n] ELSE <<>>]

Roll ==
  /\ writer \in {"roll", "exitRoll"}
  /\ IF currentFile = NoFile \/ currentDateStr # day
       THEN /\ currentDateStr' = day
            /\ currentFile' = <<day, 0>>
            /\ \/ /\ OpenFile(<<day, 0>>)
                  /\ writer' = IF Exiting THEN "exitWrite" ELSE "write"
                  /\ UNCHANGED <<batch, pos, failures>>
               \/ /\ IOFails
                  /\ fos' = FALSE
                  /\ BatchOver
                  /\ UNCHANGED files
       ELSE /\ writer' = IF Exiting THEN "exitWrite" ELSE "write"
            /\ UNCHANGED <<batch, pos, fileVars, failures>>
  /\ UNCHANGED <<running, queueVars, day, oldSize, closer>>

\* The length of lines after what a file held before.
Total(before, lines) ==
  LET upTo[n \in 0..Len(lines)] == IF n = 0 THEN before ELSE upTo[n - 1] + SizeOf[lines[n]] IN
  upTo[Len(lines)]
LengthOf(name) ==
  IF name \in DOMAIN files THEN Total(IF name = <<1, 0>> THEN oldSize ELSE 0, files[name]) ELSE 0

\* The first index that is free: rollOverSameDay counts up from 1.
NextIndex == CHOOSE i \in 1..(Cardinality(DOMAIN files) + 1) :
               /\ <<currentDateStr, i>> \notin DOMAIN files
               /\ \A j \in 1..(i - 1) : <<currentDateStr, j>> \in DOMAIN files

\* Mutant: the size is compared before the line is counted.
FullBefore(line) == LengthOf(currentFile) > maxFileSize
Full(line) == LengthOf(currentFile) + SizeOf[line] > maxFileSize

\* write() to the file, created if it is a new one; the line is in it, or it failed.
Write(name, line) ==
  \/ /\ files' = [n \in DOMAIN files \cup {name} |->
                   (IF n \in DOMAIN files THEN files[n] ELSE <<>>) \o (IF n = name THEN <<line>> ELSE <<>>)]
     /\ pos' = pos + 1
     /\ UNCHANGED <<writer, batch, failures>>
  \/ /\ IOFails
     /\ OpenFile(name)
     /\ BatchOver

\* The next line of the batch.  close() may have taken the file away after a
\* join that timed out, even while the line is being written.
WriteLine ==
  LET line == batch[pos + 1]
      candidate == <<currentDateStr, NextIndex>>
  IN /\ writer \in {"write", "exitWrite"}
     /\ pos < Len(batch)
     /\ \/ /\ closer = "timedOut"
           /\ BatchOver
           /\ UNCHANGED <<fileVars, failures>>
        \/ /\ currentFile = NoFile \/ (~fos /\ ~Full(line))
           /\ NullPointer
           /\ UNCHANGED <<fileVars, failures>>
        \/ /\ currentFile # NoFile /\ Full(line)
           /\ currentFile' = candidate
           /\ \/ fos' = TRUE /\ Write(candidate, line)
              \/ fos' = FALSE /\ IOFails /\ BatchOver /\ UNCHANGED files
           /\ UNCHANGED currentDateStr
        \/ /\ currentFile # NoFile /\ fos /\ ~Full(line)
           /\ Write(currentFile, line)
           /\ UNCHANGED <<currentFile, currentDateStr, fos>>
     /\ UNCHANGED <<running, queueVars, day, oldSize, closer>>

\* fos.flush(), which needs the stream as well.
Flush ==
  /\ writer \in {"write", "exitWrite"}
  /\ pos = Len(batch)
  /\ IF fos THEN BatchOver ELSE NullPointer
  /\ UNCHANGED <<running, queueVars, day, fileVars, oldSize, closer, failures>>

-----------------------------------------------------------------------------
(* close(): running is cleared, the writer joined, the stream closed.      *)
Close ==
  /\ closer = "no"
  /\ closer' = "joining"
  /\ running' = FALSE
  /\ UNCHANGED <<queueVars, writerVars, day, fileVars, oldSize, failures>>

\* Mutant: the file is forgotten and its stream kept.
JoinedKeepingStream ==
  /\ closer = "joining"
  /\ closer' = IF writer \in {"ended", "dead"} THEN "returned" ELSE "timedOut"
  /\ currentFile' = IF fos THEN NoFile ELSE currentFile
  /\ UNCHANGED <<running, queueVars, writerVars, day, currentDateStr, fos, files, oldSize, failures>>

Joined ==
  /\ closer = "joining"
  /\ \/ writer \in {"ended", "dead"} /\ closer' = "returned"
     \/ JoinMayTimeOut /\ writer \notin {"ended", "dead"} /\ closer' = "timedOut"
  /\ fos' = FALSE
  /\ currentFile' = IF fos THEN NoFile ELSE currentFile
  /\ UNCHANGED <<running, queueVars, writerVars, day, currentDateStr, files, oldSize, failures>>

Midnight ==
  /\ day < MaxDay
  /\ day' = day + 1
  /\ UNCHANGED <<running, queueVars, writerVars, fileVars, oldSize, closer, failures>>

Writer == Check \/ Take \/ Drain \/ Roll \/ WriteLine \/ Flush

Next ==
  \/ \E t \in Threads : CheckRunning(t) \/ Add(t)
  \/ Writer
  \/ Close
  \/ Joined
  \/ Midnight

Spec == Init /\ [][Next]_vars

\* The writer is a thread of its own and its waits are timed; a thread that is in
\* log() comes out of it.
FairSpec == Spec /\ WF_vars(Writer) /\ \A t \in Threads : WF_vars(Add(t))

-----------------------------------------------------------------------------
(* Properties.                                                             *)

Written == UNION {Range(files[name]) : name \in DOMAIN files}
OnDisk(line) == line \in Written
Held == Range(logQueue) \cup Range(batch)
Troubled == failures > 0 \/ closer = "timedOut"

(* Reading the files of a day by index, and the days in order, gives the   *)
(* lines in the order they were logged: rolling over, midnight between two *)
(* batches or in the middle of one, and a file left by an earlier process  *)
(* never put a later line before an earlier one, nor one line twice: not   *)
(* even after a NullPointerException, when a batch is written again.       *)
(* A close() that gave up waiting takes the file from under the writer.    *)
FilesReadInOrder ==
  closer # "timedOut" =>
    \A a, b \in DOMAIN files : \A i \in DOMAIN files[a], j \in DOMAIN files[b] :
      LET before == a[1] < b[1] \/ (a[1] = b[1] /\ a[2] < b[2]) \/ (a = b /\ i < j)
          x == files[a][i]
          y == files[b][j]
      IN before /\ y # Banner =>
           \/ x = Banner
           \/ \E m, n \in DOMAIN accepted : m < n /\ accepted[m] = x /\ accepted[n] = y

(* What was accepted before the writer left its loop is queued, in the     *)
(* writer's batch, or on disk, and on disk once close() has returned: only *)
(* a failed file operation or a join that timed out loses such a line.     *)
LostOnlyInTrouble ==
  ~Troubled => \A line \in Range(accepted) \ late :
                 OnDisk(line) \/ (line \in Held /\ closer # "returned")

(* No file grows past maxFileSize, unless it holds a single line that is   *)
(* longer; today's own file was perhaps that long already.                 *)
FilesWithinLimit ==
  \A name \in DOMAIN files :
    files[name] # <<>> /\ LengthOf(name) > maxFileSize => name[2] > 0 /\ Len(files[name]) = 1

(* A line that is accepted is written soon, without waiting for the queue  *)
(* to fill or for a flush: unless a file operation failed (after a failed  *)
(* rollover nothing is written until the next day), or close() came.       *)
AcceptedIsWritten ==
  \A line \in Lines :
    line \in Range(accepted) ~> OnDisk(line) \/ failures > 0 \/ ~running

(* The comment on close(): it stops accepting lines and waits for the      *)
(* buffer to be written.  (A line that passed the check of running before  *)
(* close() may be added after the writer has ended.)                       *)
CloseWaitsForTheBuffer ==
  closer = "returned" => Held = {} /\ \A line \in Range(accepted) : OnDisk(line)
=============================================================================
