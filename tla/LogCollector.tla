---------------------------- MODULE LogCollector ----------------------------
(***************************************************************************)
(* logcollector/src/logcollector.py and state.py: how the agent follows a  *)
(* log file and where it resumes after a restart.                          *)
(*                                                                         *)
(* The file thread reads what the file has grown by, cuts it into lines,   *)
(* puts each line in the disk queue and notes, under the number the queue  *)
(* gave it, the offset at the end of what was read (a pending ack).  When  *)
(* the sender acks a number, the offset noted last becomes the offset of   *)
(* the source.  Another thread writes the offset, and then the pending     *)
(* acks, to disk from time to time.  The file can be rotated or truncated  *)
(* and the process can die between any two of these steps.                 *)
(*                                                                         *)
(* One source with a line reader (SyslogReader); no line is empty.  A line *)
(* is two positions of the file, its beginning and its end, so that it can *)
(* be read half.  Only the current file is written to.                     *)
(***************************************************************************)
EXTENDS Integers, FiniteSets, SequencesExt

CONSTANTS MaxFile,      \* bound of the model: files the path has named
          Lengths,      \* bound of the model: the lengths that each file may have
          MaxPut,       \* bound of the model: messages queued
          MaxStop,      \* bound of the model: ends of the process
          MaxChange,    \* bound of the model: rotations and truncations
          MaxLost,      \* bound of the model: no refusal when so many lines are given up
          Faults,       \* what may go wrong: a "full" queue, a failed "save"
          NoState       \* there is no state file

ASSUME CollectorAssumption ==
  /\ MaxFile \in Nat \ {0} /\ Lengths \in [1 .. MaxFile -> SUBSET Nat] /\ MaxPut \in Nat
  /\ MaxStop \in Nat /\ MaxChange \in Nat /\ MaxLost \in Nat
  /\ Faults \subseteq {"full", "save"}

File == 1 .. MaxFile
Offset == {0} \cup UNION {Lengths[f] : f \in File}
Seq_ == 1 .. MaxPut

\* A message: a whole line of a file, or anything else that was cut out of one.
Garbled == <<0, 0>>
Line == UNION {{<<f, k>> : k \in UNION {1 .. n \div 2 : n \in Lengths[f]}} : f \in File}

\* What a reader holds back: nothing, the first half of a line (with its
\* position), or a mixture.
Nothing == <<0, 0>>
Mixture == <<0, 1>>

NoChunk == [offset |-> 0, size |-> 0]

\* A size that is not known, in a pending ack.
NoSize == -1

VARIABLES
  length,     \* files: the length of each
  path,       \* files: the one the source's path names
  truncated,  \* files: those that were truncated
  gone,       \* files: those that were deleted when the path got another file
  state,      \* SourceState in memory: offset, inode and size
  stateDisk,  \* its file
  pending,    \* PendingAckStore in memory: number -> offset and size
  pendingDisk, \* its file
  readOffset, \* fs.read_offset
  handle,     \* fs.file: the file that is open
  buffer,     \* the reader's _buffer
  pc,         \* what the file thread is about to do
  hand,       \* the messages it has still to put
  mode,       \* where they come from
  chunk,      \* offset and size to note with the message
  next,       \* queue: the number of the next message
  head,       \* queue: the first number that is not acked
  acking,     \* the number an ack_seqs in progress goes up to, or 0
  flushing,   \* is the flush thread between its two writes
  put,        \* history: the lines put in the queue
  twice,      \* history: those put more than once
  lost,       \* history: the lines a step below has given up
  stops

files == <<length, path, truncated, gone>>
disk == <<stateDisk, pendingDisk>>
reading == <<readOffset, handle, buffer>>
thread == <<pc, hand, mode, chunk>>
queue == <<next, head, acking>>
history == <<put, twice, lost, stops>>
vars == <<files, state, disk, pending, reading, thread, queue, flushing, history>>

State == [offset : Offset, inode : File, size : Offset]
ASSUME NoStateAssumption == NoState \notin State

Mode == {"poll", "rotate", "start", "truncate", "stop"}
Note == [offset : Offset, size : Offset \cup {NoSize}]

\* Offsets are lengths a file has had, and a size is never "not known" outside of
\* a pending ack (587-591).
TypeOK ==
  /\ length \in [File -> Offset] /\ path \in File
  /\ truncated \subseteq File /\ gone \subseteq File
  /\ state \in State \cup {NoState} /\ stateDisk \in State \cup {NoState}
  /\ DOMAIN pending \subseteq Seq_ /\ pending \in [DOMAIN pending -> Note]
  /\ DOMAIN pendingDisk \subseteq Seq_ /\ pendingDisk \in [DOMAIN pendingDisk -> Note]
  /\ readOffset \in Offset /\ handle \in File
  /\ buffer \in {Nothing, Mixture} \cup (File \X Offset)
  /\ pc \in {"down", "up", "idle", "size", "read", "put", "add", "set_inode", "set_size",
             "stopping", "stopped"}
  /\ hand \in Seq(Line \cup {Garbled})
  /\ mode \in Mode /\ chunk \in Note
  /\ next \in 1 .. MaxPut + 1 /\ head \in 1 .. next /\ acking \in 0 .. MaxPut
  /\ flushing \in BOOLEAN
  /\ put \subseteq Line /\ twice \subseteq put /\ lost \subseteq Line
  /\ stops \in 0 .. MaxStop

-----------------------------------------------------------------------------
(* Reading *)

Larger(a, b) == IF a > b THEN a ELSE b

\* SyslogReader.read of the positions after a, up to b, of file f: one message for
\* each line that ends there, the first of which may join on to the buffer.
Messages(f, a, b, buf) ==
  [n \in 1 .. b \div 2 - a \div 2 |->
     LET k == a \div 2 + n
         whole == IF 2 * k - 1 = a THEN buf = <<f, a>>
                  ELSE 2 * k - 2 > a \/ buf = Nothing
     IN IF whole THEN <<f, k>> ELSE Garbled]

\* The buffer after that.
Rest(f, a, b, buf) ==
  IF a = b THEN buf
  ELSE IF b % 2 = 0 THEN Nothing
  ELSE IF b = a + 1 /\ buf # Nothing THEN Mixture ELSE <<f, b>>

\* SyslogReader.flush
Flushed(buf) == IF buf = Nothing THEN << >> ELSE <<Garbled>>

\* The lines of f that have begun by position b, and the one the buffer holds half of.
Begun(f, b) == {l \in Line : l[1] = f /\ 2 * l[2] - 1 <= b}
HalfRead == {l \in Line : buffer = <<l[1], 2 * l[2] - 1>>}

\* What an end of the process gives up.
InHand == (ToSet(hand) \cap Line) \cup HalfRead

Init ==
  /\ length = [f \in File |-> 0] /\ path = 1 /\ truncated = {} /\ gone = {}
  /\ state = NoState /\ stateDisk = NoState /\ pending = << >> /\ pendingDisk = << >>
  /\ readOffset = 0 /\ handle = 1 /\ buffer = Nothing
  /\ pc = "down" /\ hand = << >> /\ mode = "poll" /\ chunk = NoChunk
  /\ next = 1 /\ head = 1 /\ acking = 0 /\ flushing = FALSE
  /\ put = {} /\ twice = {} /\ lost = {} /\ stops = 0

-----------------------------------------------------------------------------
(* What happens to the files *)

Write ==
  /\ \E n \in Lengths[path] : n > length[path] /\ length' = [length EXCEPT ![path] = n]
  /\ UNCHANGED <<path, truncated, gone, state, disk, pending, reading, thread, queue,
                 flushing, history>>

\* The old file keeps its inode under another name, or is deleted.
Rotate ==
  /\ path < MaxFile /\ path + Cardinality(truncated) <= MaxChange
  /\ path' = path + 1
  /\ gone' = gone \/ gone' = gone \cup {path}
  /\ UNCHANGED <<length, truncated, state, disk, pending, reading, thread, queue,
                 flushing, history>>

Truncate ==
  /\ length[path] > 0 /\ path \notin truncated /\ path + Cardinality(truncated) <= MaxChange
  /\ length' = [length EXCEPT ![path] = 0] /\ truncated' = truncated \cup {path}
  /\ UNCHANGED <<path, gone, state, disk, pending, reading, thread, queue, flushing,
                 history>>

-----------------------------------------------------------------------------
(* Starting: _init_file_position *)

\* What _handle_rotation reads of the file that st tells of: the rest of it after
\* st.offset, if it is still there, and what the reader then holds back.
Drained(st, buf) ==
  LET f == st.inode
      end == IF f \in gone THEN st.offset ELSE Larger(st.offset, length[f])
  IN Messages(f, st.offset, end, buf) \o Flushed(Rest(f, st.offset, end, buf))

\* Where a new process resumes: max_pending_offset.
Resume(st, notes) ==
  LET offsets == {st.offset} \cup {notes[s].offset : s \in DOMAIN notes}
  IN CHOOSE o \in offsets : \A p \in offsets : p <= o

\* StateStore.get: a state that is not in memory is read from its file.
Known == IF state = NoState THEN stateDisk ELSE state

\* The process runs; the pending acks are read at once, the source is registered by
\* another thread, and acks may come before that.
Boot ==
  /\ pc = "down" /\ pc' = "up" /\ pending' = pendingDisk
  /\ UNCHANGED <<files, state, disk, reading, hand, mode, chunk, queue, flushing, history>>

\* The source is registered under the lock that an ack takes.
Registering == pc = "up" /\ acking = 0 /\ handle' = path /\ buffer' = Nothing

Fresh(st, o) ==
  /\ state' = st /\ readOffset' = o
  /\ pc' = "idle" /\ UNCHANGED <<hand, mode, chunk>>

\* A source seen for the first time is followed from its present end.
StartFirst ==
  /\ Registering /\ Known = NoState
  /\ Fresh([offset |-> length[path], inode |-> path, size |-> length[path]], length[path])
  /\ lost' = lost \cup UNION {Begun(f, length[f]) : f \in 1 .. path}
  /\ UNCHANGED <<files, disk, pending, queue, flushing, put, twice, stops>>

StartRotated ==
  /\ Registering /\ Known # NoState /\ Known.inode # path
  /\ state' = Known /\ readOffset' = Resume(Known, pending)
  /\ hand' = Drained(Known, Nothing) /\ mode' = "start" /\ pc' = "put"
  /\ UNCHANGED <<files, disk, pending, chunk, queue, flushing, history>>

StartTruncated ==
  /\ Registering /\ Known # NoState /\ Known.inode = path
  /\ length[path] < Known.size
  /\ Fresh([Known EXCEPT !.offset = 0, !.size = length[path]], 0)
  /\ UNCHANGED <<files, disk, pending, queue, flushing, history>>

\* Wrong variant: what was written while the process was down is skipped.
StartAtEnd ==
  /\ Registering /\ Known # NoState /\ Known.inode = path
  /\ length[path] >= Known.size
  /\ Fresh([Known EXCEPT !.size = length[path]], length[path])
  /\ UNCHANGED <<files, disk, pending, queue, flushing, history>>

StartResumed ==
  /\ Registering /\ Known # NoState /\ Known.inode = path
  /\ length[path] >= Known.size
  /\ LET o == Resume(Known, pending) IN
     Fresh([Known EXCEPT !.size = length[path]], IF o > length[path] THEN length[path] ELSE o)
  /\ UNCHANGED <<files, disk, pending, queue, flushing, history>>

-----------------------------------------------------------------------------
(* The file thread: _poll_sources *)

\* Wrong variant: what is left of the old file is not read.
NoticeRotationOnly ==
  /\ pc = "idle" /\ state.inode # path
  /\ hand' = Flushed(buffer) /\ buffer' = Nothing
  /\ mode' = "rotate" /\ pc' = "put"
  /\ UNCHANGED <<files, state, disk, pending, readOffset, handle, chunk, queue, flushing,
                 history>>

\* The old file is read again from the acked offset, not from readOffset; what
\* the reader held back is joined to the line there, which is lost when it is
\* not the rest of that very line.
NoticeRotation ==
  /\ pc = "idle" /\ state.inode # path
  /\ hand' = Drained(state, buffer) /\ buffer' = Nothing
  /\ lost' = IF buffer \in {Nothing, <<state.inode, state.offset>>} THEN lost
             ELSE lost \cup {l \in Line : l = <<state.inode, state.offset \div 2 + 1>>}
  /\ mode' = "rotate" /\ pc' = "put"
  /\ UNCHANGED <<files, state, disk, pending, readOffset, handle, chunk, queue, flushing,
                 put, twice, stops>>

NoticeInode ==
  /\ pc = "idle" /\ state.inode = path
  /\ pc' = "size"
  /\ UNCHANGED <<files, state, disk, pending, reading, hand, mode, chunk, queue, flushing,
                 history>>

\* The size of the file that the path names by now.  What the reader held back is put
\* as it is.
NoticeTruncation ==
  /\ pc = "size" /\ length[path] < state.size
  /\ hand' = Flushed(buffer) /\ buffer' = Nothing /\ lost' = lost \cup HalfRead
  /\ mode' = "truncate" /\ pc' = "put"
  /\ UNCHANGED <<files, state, disk, pending, readOffset, handle, chunk, queue, flushing,
                 put, twice, stops>>

NoticeNothing ==
  /\ pc = "size" /\ length[path] >= state.size
  /\ pc' = "read"
  /\ UNCHANGED <<files, state, disk, pending, reading, hand, mode, chunk, queue, flushing,
                 history>>

ReadFrom == Larger(state.offset, readOffset)

\* Up to the size of the file the path names, of the file that is open.
ReadTo == IF length[path] < length[handle] THEN length[path] ELSE length[handle]

ReadNothing ==
  /\ pc = "read" /\ ReadTo <= ReadFrom /\ pc' = "idle"
  /\ UNCHANGED <<files, state, disk, pending, reading, hand, mode, chunk, queue, flushing,
                 history>>

\* Wrong variant: the position of the file is not advanced.
ReadForgets ==
  /\ pc = "read" /\ ReadTo > ReadFrom
  /\ hand' = Messages(handle, ReadFrom, ReadTo, buffer)
  /\ buffer' = Rest(handle, ReadFrom, ReadTo, buffer)
  /\ chunk' = [offset |-> ReadTo, size |-> length[path]]
  /\ mode' = "poll" /\ pc' = "put"
  /\ UNCHANGED <<files, state, disk, pending, readOffset, handle, queue, flushing, history>>

Read ==
  /\ pc = "read" /\ ReadTo > ReadFrom
  /\ hand' = Messages(handle, ReadFrom, ReadTo, buffer)
  /\ buffer' = Rest(handle, ReadFrom, ReadTo, buffer)
  /\ readOffset' = ReadTo
  /\ chunk' = [offset |-> ReadTo, size |-> length[path]]
  /\ mode' = "poll" /\ pc' = "put"
  /\ UNCHANGED <<files, state, disk, pending, handle, queue, flushing, history>>

\* What is noted with a message: new_offset and new_size.
NewNote ==
  CASE mode = "poll" -> chunk
    [] mode = "truncate" -> [offset |-> 0, size |-> NoSize]
    [] OTHER -> [offset |-> state.offset, size |-> NoSize]

\* _process_message: the message gets a number,
PutMessage ==
  /\ pc = "put" /\ hand # << >> /\ next <= MaxPut
  /\ next' = next + 1 /\ hand' = Tail(hand) /\ chunk' = NewNote /\ pc' = "add"
  /\ LET new == {Head(hand)} \cap Line IN
     put' = put \cup new /\ twice' = twice \cup (put \cap new)
  /\ UNCHANGED <<files, state, disk, pending, reading, mode, head, acking, flushing, lost,
                 stops>>

\* or is dropped,
PutRefused ==
  /\ "full" \in Faults /\ Cardinality(lost) < MaxLost
  /\ pc = "put" /\ hand # << >>
  /\ hand' = Tail(hand) /\ lost' = lost \cup ({Head(hand)} \cap Line)
  /\ UNCHANGED <<files, state, disk, pending, reading, pc, mode, chunk, queue, flushing,
                 put, twice, stops>>

\* and its offset is noted under the number.
AddPending ==
  /\ pc = "add" /\ pc' = "put"
  /\ pending' = [s \in DOMAIN pending \cup {next - 1} |->
                   IF s = next - 1 THEN chunk ELSE pending[s]]
  /\ UNCHANGED <<files, state, disk, reading, hand, mode, chunk, queue, flushing, history>>

\* The end of a handler, and of its local variables.
Done(label) ==
  /\ pc = "put" /\ hand = << >> /\ pc' = label
  /\ mode' = "poll" /\ chunk' = NoChunk /\ UNCHANGED hand

DonePolling ==
  /\ mode = "poll" /\ Done("idle")
  /\ UNCHANGED <<files, state, disk, pending, reading, queue, flushing, history>>

\* The new file is opened and its inode and size are looked up; then offset, inode
\* and size are set, without the lock that a save or an ack takes.
DoneRotating ==
  /\ pc = "put" /\ mode \in {"rotate", "start"} /\ hand = << >>
  /\ handle' = path /\ chunk' = [offset |-> 0, size |-> length[path]]
  /\ state' = [state EXCEPT !.offset = 0] /\ pc' = "set_inode"
  /\ UNCHANGED <<files, disk, pending, readOffset, buffer, hand, mode, queue, flushing,
                 history>>

SetInode ==
  /\ pc = "set_inode" /\ pc' = "set_size"
  /\ state' = [state EXCEPT !.inode = handle]
  /\ UNCHANGED <<files, disk, pending, reading, hand, mode, chunk, queue, flushing, history>>

SetSize ==
  /\ pc = "set_size" /\ pc' = "idle"
  /\ state' = [state EXCEPT !.size = chunk.size] /\ readOffset' = 0
  /\ mode' = "poll" /\ chunk' = NoChunk
  /\ UNCHANGED <<files, disk, pending, handle, buffer, hand, queue, flushing, history>>

DoneTruncating ==
  /\ mode = "truncate" /\ Done("read")
  /\ readOffset' = 0 /\ state' = [state EXCEPT !.offset = 0, !.size = length[path]]
  /\ UNCHANGED <<files, disk, pending, handle, buffer, queue, flushing, history>>

-----------------------------------------------------------------------------
(* The sender's thread: ack_seqs *)

\* The collector's lock is held while a start or a stop puts its messages.
Locked == mode \in {"start", "stop"}

Covered(s) == {n \in DOMAIN pending : n <= s}

AckUnnoted(s) ==
  /\ pc # "down" /\ ~Locked /\ acking = 0 /\ s \in head .. next - 1
  /\ Covered(s) = {} /\ head' = s + 1
  /\ UNCHANGED <<files, state, disk, pending, reading, thread, next, acking, flushing,
                 history>>

\* Wrong variant: a size that is not known is not told apart.
AckUnknownSize(s) ==
  /\ pc # "down" /\ ~Locked /\ acking = 0 /\ s \in head .. next - 1
  /\ Covered(s) # {} /\ acking' = s
  /\ \E n \in Covered(s) :
       /\ \A m \in Covered(s) : m <= n
       /\ IF Known = NoState THEN UNCHANGED state
          ELSE state' = [Known EXCEPT !.offset = pending[n].offset, !.size = pending[n].size]
  /\ UNCHANGED <<files, disk, pending, reading, thread, next, head, flushing, history>>

\* The newest of the notes goes to the state, if there is one,
AckState(s) ==
  /\ pc # "down" /\ ~Locked /\ acking = 0 /\ s \in head .. next - 1
  /\ Covered(s) # {} /\ acking' = s
  /\ \E n \in Covered(s) :
       /\ \A m \in Covered(s) : m <= n
       /\ IF Known = NoState THEN UNCHANGED state
          ELSE state' = [Known EXCEPT !.offset = pending[n].offset,
                           !.size = IF pending[n].size = NoSize THEN @ ELSE pending[n].size]
  /\ UNCHANGED <<files, disk, pending, reading, thread, next, head, flushing, history>>

\* and then the notes and the messages go.
AckRemove ==
  /\ acking > 0
  /\ pending' = [n \in DOMAIN pending \ Covered(acking) |-> pending[n]]
  /\ head' = acking + 1 /\ acking' = 0
  /\ UNCHANGED <<files, state, disk, reading, thread, next, flushing, history>>

-----------------------------------------------------------------------------
(* Saving, and the end of the process.  A failed save is logged. *)

SaveState == stateDisk' = Known \/ ("save" \in Faults /\ UNCHANGED stateDisk)

SavePending == pendingDisk' = pending \/ ("save" \in Faults /\ UNCHANGED pendingDisk)

\* Bound of the model: none after the last end of the process.
FlushState ==
  /\ pc # "down" /\ stops < MaxStop /\ ~flushing /\ flushing' = TRUE
  /\ SaveState
  /\ UNCHANGED <<files, state, pendingDisk, pending, reading, thread, queue, history>>

FlushPending ==
  /\ flushing /\ flushing' = FALSE
  /\ SavePending
  /\ UNCHANGED <<files, state, stateDisk, pending, reading, thread, queue, history>>

\* stop(): the reader gives up what it holds back, everything is saved once more.
Stop ==
  /\ pc = "idle" /\ acking = 0 /\ stops < MaxStop /\ stops' = stops + 1
  /\ hand' = Flushed(buffer) /\ buffer' = Nothing /\ lost' = lost \cup HalfRead
  /\ mode' = "stop" /\ pc' = "put"
  /\ UNCHANGED <<files, state, disk, pending, readOffset, handle, chunk, queue, flushing,
                 put, twice>>

DoneStopping ==
  /\ mode = "stop" /\ ~flushing /\ Done("stopping")
  /\ UNCHANGED <<files, state, disk, pending, reading, queue, flushing, history>>

StopState ==
  /\ pc = "stopping" /\ pc' = "stopped"
  /\ SaveState
  /\ UNCHANGED <<files, state, pendingDisk, pending, reading, hand, mode, chunk, queue,
                 flushing, history>>

Forgotten ==
  /\ pc' = "down" /\ state' = NoState /\ pending' = << >>
  /\ readOffset' = 0 /\ handle' = 1 /\ buffer' = Nothing
  /\ hand' = << >> /\ mode' = "poll" /\ chunk' = NoChunk
  /\ acking' = 0 /\ flushing' = FALSE

StopPending ==
  /\ pc = "stopped" /\ Forgotten
  /\ SavePending
  /\ UNCHANGED <<files, stateDisk, next, head, history>>

Crash ==
  /\ pc # "down" /\ stops < MaxStop /\ stops' = stops + 1
  /\ Forgotten /\ lost' = lost \cup InHand
  /\ UNCHANGED <<files, disk, next, head, put, twice>>

-----------------------------------------------------------------------------
Start == Boot \/ StartFirst \/ StartRotated \/ StartTruncated \/ StartResumed

FileThread ==
  \/ NoticeRotation \/ NoticeInode \/ NoticeTruncation \/ NoticeNothing
  \/ ReadNothing \/ Read
  \/ PutMessage \/ PutRefused \/ AddPending
  \/ DonePolling \/ DoneRotating \/ SetInode \/ SetSize \/ DoneTruncating
  \/ DoneStopping \/ StopState \/ StopPending

Ack == AckRemove \/ \E s \in Seq_ : AckUnnoted(s) \/ AckState(s)

Flush == FlushState \/ FlushPending

Next ==
  \/ Write \/ Rotate \/ Truncate
  \/ Start \/ FileThread \/ Ack \/ Flush \/ Stop \/ Crash

Spec == Init /\ [][Next]_vars

\* The process is started again, its file thread runs, and what the other threads
\* have begun they end.
FairSpec ==
  Spec /\ WF_vars(Start) /\ WF_vars(FileThread) /\ WF_vars(AckRemove) /\ WF_vars(FlushPending)

-----------------------------------------------------------------------------
(* Properties, of the file that was there when collection began *)

Kept == 1 \notin truncated \cup gone

\* How far the running process, and one that resumed from the disk as it is,
\* would have left the first file behind.
Behind ==
  LET inMemory == IF pc \in {"down", "up"} THEN 0
                  ELSE IF state.inode # 1 THEN length[1]
                  ELSE IF mode = "start" THEN state.offset
                  ELSE readOffset
      onDisk == IF stateDisk = NoState THEN 0
                ELSE IF stateDisk.inode # 1 THEN length[1]
                ELSE IF path = 1 THEN Resume(stateDisk, pendingDisk) ELSE stateDisk.offset
  IN Larger(inMemory, onDisk)

\* A line that reading has passed, now or after a crash at this point, has been
\* put in the queue, is about to be, or is one of those the code gives up: in
\* hand or half read when the process ended, refused by a full queue, joined to
\* a half line at a rotation, or written before the source was first seen.
NothingElseLost ==
  Kept => {<<1, k>> : k \in {j \in 1 .. length[1] \div 2 : 2 * j <= Behind}}
            \subseteq put \cup lost \cup InHand

\* Until the process ends or the path gets another file, no line is queued twice.
PutOnce == (stops = 0 /\ path = 1 /\ truncated = {}) => twice = {}

\* Every line of that file is queued, if it is not given up, rotation or not: such
\* a line stays queued or given up, so it is enough that none is left again and
\* again.
EventuallyPut ==
  []<>(\A l \in Line : l[1] = 1 /\ 2 * l[2] <= length[1] => ~Kept \/ l \in put \cup lost)

=============================================================================
