--------------------------------- MODULE Sink ---------------------------------
(***************************************************************************)
(* logtaker/src/sink.py: RotatingJsonlSink appends lines to a file and,    *)
(* when the next line would not fit or the interval has passed, renames    *)
(* the file to <path>.1 after shifting the older copies up to              *)
(* <path>.<max_files>.                                                     *)
(*                                                                         *)
(* A line is its number, in the order of the calls.  One thread calls      *)
(* write().  Every system call is a step and the process can end between   *)
(* two of them.  Renames and deletions that fail are only logged; a write  *)
(* or flush that fails (a full disk) raises, and the line may stay in the  *)
(* buffer of the open file and reach it later.  A line goes out whole: a   *)
(* flush that breaks off inside one counts as breaking off before it.      *)
(***************************************************************************)
EXTENDS Integers, Sequences, SequencesExt, FiniteSetsExt

CONSTANTS MaxBytes,      \* max_bytes, 0 for no limit
          MaxFiles,      \* max_files
          ByInterval,    \* rotate_interval > 0
          MaxLine,       \* bound of the model: lines
          LineSize,      \* the sizes a line may have
          SinkFaults,    \* the calls that may fail
          MaxFailure,    \* bound of the model: failed calls
          MaxExit        \* bound of the model: ends of the process

ASSUME SinkAssumption ==
  /\ MaxBytes \in Nat /\ MaxFiles \in Nat \ {0} /\ ByInterval \in BOOLEAN
  /\ LineSize \subseteq Nat \ {0}
  /\ SinkFaults \subseteq {"write", "unlink", "shift", "rename", "open"}
  /\ MaxLine \in Nat /\ MaxFailure \in Nat /\ MaxExit \in Nat

VARIABLES
  files,     \* disk: 0 is the path, i is <path>.i -> the lines of each that exists
  lineSize,  \* history: the size of each line given to write()
  buffered,  \* the lines in the buffer of the open file
  late,      \* history: the lines whose write() raised in its own write or flush
  sinkSize,  \* _size
  stage,     \* what the writer does next
  shifting,  \* rotate's loop variable
  failed,    \* history: the calls that have failed
  failures,  \* how often
  exits

sinkVars ==
  <<files, lineSize, buffered, late, sinkSize, stage, shifting, failed, failures, exits>>

\* "broken": open() has failed after the old file was closed, and every later
\* write flushes, and fails on, the closed file.
Stages == {"ready", "rotate", "shift", "open", "append", "broken"}

\* A file holds lines that were written, the loop stays within the copies.
SinkTypeOK ==
  /\ DOMAIN files \subseteq 0 .. MaxFiles
  /\ \A i \in DOMAIN files : Range(files[i]) \subseteq 1 .. Len(lineSize)
  /\ lineSize \in Seq(LineSize) /\ Len(lineSize) <= MaxLine
  /\ buffered \in Seq(late) /\ late \subseteq 1 .. Len(lineSize)
  /\ sinkSize \in Nat /\ stage \in Stages /\ shifting \in 0 .. MaxFiles
  /\ failed \subseteq SinkFaults /\ failures \in 0 .. MaxFailure
  /\ exits \in 0 .. MaxExit

-----------------------------------------------------------------------------
SizeOf(lines, size) == FoldLeft(LAMBDA n, l : n + size[l], 0, lines)

\* path.stat().st_size.
SizeOnDisk == IF 0 \in DOMAIN files THEN SizeOf(files[0], lineSize) ELSE 0

Removed(fs, i) == [j \in DOMAIN fs \ {i} |-> fs[j]]

SinkInit ==
  /\ files = [k \in {0} |-> << >>] /\ lineSize = << >> /\ buffered = << >> /\ late = {}
  /\ sinkSize = 0 /\ stage = "ready" /\ shifting = 0 /\ failed = {} /\ failures = 0 /\ exits = 0

Succeeds == UNCHANGED <<failed, failures>>

Fails(call) ==
  /\ call \in SinkFaults /\ failures < MaxFailure
  /\ failures' = failures + 1 /\ failed' = failed \cup {call}

-----------------------------------------------------------------------------
(* Wrong variants: slips in the definitions below, which the properties      *)
(* reject.                                                                   *)

\* The file is copied, not renamed.
Copied(fs, i, j) == [k \in DOMAIN fs \cup {j} |-> IF k = j THEN fs[i] ELSE fs[k]]

\* The limit is compared with the size without the line.
TooBigAfterwards(size) == MaxBytes > 0 /\ sinkSize > MaxBytes

\* The file is opened with mode "w".
WithFileAnew(fs) == [k \in DOMAIN fs \cup {0} |-> IF k = 0 THEN << >> ELSE fs[k]]

-----------------------------------------------------------------------------
\* open(path, "a").
WithFile(fs) == [k \in DOMAIN fs \cup {0} |-> IF k \in DOMAIN fs THEN fs[k] ELSE << >>]

\* os.replace(src, dst): dst is overwritten.
Replaced(fs, i, j) ==
  [k \in (DOMAIN fs \ {i}) \cup {j} |-> IF k = j THEN fs[i] ELSE fs[k]]

\* _should_rotate
TooBig(size) == MaxBytes > 0 /\ sinkSize > 0 /\ sinkSize + size > MaxBytes

\* _interval_elapsed, at any time.
Elapsed == ByInterval /\ sinkSize > 0

\* write(): the line that is about to be appended is the last of lineSize.
WriteLine(size) ==
  /\ stage = "ready" /\ Len(lineSize) < MaxLine
  /\ lineSize' = Append(lineSize, size)
  /\ \/ (TooBig(size) \/ Elapsed) /\ stage' = "rotate"
     \/ ~TooBig(size) /\ stage' = "append"
  /\ UNCHANGED <<files, buffered, late, sinkSize, shifting, failed, failures, exits>>

\* A line that an earlier flush left in the buffer goes out: with flush() and close(),
\* or by write() and rotate(), which flush before they do more.
LineOut ==
  /\ stage \in {"ready", "rotate", "append"} /\ buffered # << >>
  /\ files' = [files EXCEPT ![0] = Append(@, Head(buffered))] /\ buffered' = Tail(buffered)
  /\ UNCHANGED <<lineSize, late, sinkSize, stage, shifting, failed, failures, exits>>

\* The flush of rotate() or the write and flush of the line fail, and write() raises:
\* _size stays.  The line is lost, or in the buffer.
WriteFails ==
  /\ \/ stage = "rotate" /\ buffered # << >> /\ UNCHANGED buffered
     \/ stage = "append" /\ buffered' \in {buffered, Append(buffered, Len(lineSize))}
  /\ Fails("write") /\ late' = late \cup {Len(lineSize)} /\ stage' = "ready"
  /\ UNCHANGED <<files, lineSize, sinkSize, shifting, exits>>

Oldest == MaxFiles

FirstShift == MaxFiles - 1

UnlinkOldest ==
  /\ stage = "rotate" /\ buffered = << >>
  /\ \/ files' = Removed(files, Oldest) /\ Succeeds
     \/ Fails("unlink") /\ Oldest \in DOMAIN files /\ UNCHANGED files
  /\ stage' = "shift" /\ shifting' = FirstShift
  /\ UNCHANGED <<lineSize, buffered, late, sinkSize, exits>>

ShiftCopy ==
  /\ stage = "shift" /\ shifting > 0
  /\ \/ files' = (IF shifting \in DOMAIN files THEN Replaced(files, shifting, shifting + 1)
                  ELSE files) /\ Succeeds
     \/ Fails("shift") /\ shifting \in DOMAIN files /\ UNCHANGED files
  /\ shifting' = shifting - 1
  /\ UNCHANGED <<lineSize, buffered, late, sinkSize, stage, exits>>

\* A failure leaves the file where it is, to be appended to.
RenameFile ==
  /\ stage = "shift" /\ shifting = 0
  /\ \/ 0 \in DOMAIN files /\ files' = Replaced(files, 0, 1) /\ Succeeds
     \/ Fails("rename") /\ UNCHANGED files
  /\ stage' = "open"
  /\ UNCHANGED <<lineSize, buffered, late, sinkSize, shifting, exits>>

OpenFile ==
  /\ stage = "open"
  /\ files' = WithFile(files) /\ sinkSize' = SizeOnDisk /\ stage' = "append"
  /\ UNCHANGED <<lineSize, buffered, late, shifting, failed, failures, exits>>

OpenFails ==
  /\ stage = "open" /\ Fails("open") /\ stage' = "broken"
  /\ UNCHANGED <<files, lineSize, buffered, late, sinkSize, shifting, exits>>

AppendLine ==
  /\ stage = "append" /\ buffered = << >>
  /\ files' = [files EXCEPT ![0] = Append(@, Len(lineSize))]
  /\ sinkSize' = sinkSize + Last(lineSize) /\ stage' = "ready"
  /\ UNCHANGED <<lineSize, buffered, late, shifting, failed, failures, exits>>

\* The process ends and a new one opens the file.  A line in hand has not been
\* written: it does not count.  Buffered lines are lost, or went out before.
ExitAndOpen ==
  /\ exits < MaxExit /\ exits' = exits + 1
  /\ files' = WithFile(files) /\ sinkSize' = SizeOnDisk
  /\ lineSize' = IF stage = "ready" THEN lineSize ELSE Front(lineSize)
  /\ buffered' = << >> /\ stage' = "ready" /\ shifting' = 0
  /\ UNCHANGED <<late, failed, failures>>

SinkNext ==
  \/ \E size \in LineSize : WriteLine(size)
  \/ UnlinkOldest \/ ShiftCopy \/ RenameFile \/ OpenFile \/ OpenFails
  \/ LineOut \/ AppendLine \/ WriteFails \/ ExitAndOpen

SinkSpec == SinkInit /\ [][SinkNext]_sinkVars

-----------------------------------------------------------------------------
(* Properties *)

\* The copies stay in order whatever fails and wherever the process ends in
\* rotate() (sink.py:106): a line stands once, before all later ones of its file and
\* of the files with smaller numbers.
CopiesInOrder ==
  \A i, j \in DOMAIN files : \A k \in DOMAIN files[i], l \in DOMAIN files[j] :
    i > j \/ (i = j /\ k < l) => files[i][k] < files[j][l]

\* All the lines there are.
AllLines == UNION {Range(files[i]) : i \in DOMAIN files}

\* Lines leave only by their age, from the oldest on, and only when all max_files
\* copies are there; a line whose write() raised (sink.py:91-92, 110) need not be there.
\* A failed shift (sink.py:128) is an exception to the first, for the next rename
\* overwrites the copy that stayed; any failure, and the end of the process inside
\* rotate(), to the second.
OnlyOldestDropped ==
  stage = "ready" =>
    /\ "shift" \notin failed =>
         \A n \in AllLines : n .. Len(lineSize) \subseteq AllLines \cup late
    /\ failed = {} /\ exits = 0 /\ AllLines # 1 .. Len(lineSize) =>
         0 .. MaxFiles \subseteq DOMAIN files

\* What write() has added to _size for a line: nothing if it raised (sink.py:91-93).
CountedSize == [l \in DOMAIN lineSize |-> IF l \in late THEN 0 ELSE lineSize[l]]

\* The lines of a file that write() has counted are larger than max_bytes only if there
\* is one of them, unless a rename failed (sink.py:134 goes on appending).  What a
\* raised write() left in the buffer (sink.py:91-93) is not counted, and comes on top:
\* with it the file itself can be larger.
FilesWithinLimit ==
  MaxBytes > 0 /\ "rename" \notin failed =>
    \A i \in DOMAIN files :
      \/ SizeOf(files[i], CountedSize) <= MaxBytes
      \/ \E n \in Range(files[i]) : Range(files[i]) \ late \subseteq {n}

=============================================================================
