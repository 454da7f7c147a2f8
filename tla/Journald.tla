------------------------------- MODULE Journald -------------------------------
(***************************************************************************)
(* How the collector reads the systemd journal: logcollector.py            *)
(* (_journald_loop, _read_journald_source, _process_message, ack_seqs) and *)
(* read_journald.py.                                                       *)
(*                                                                         *)
(* Every turn opens a new JournaldReader at the cursor of the state, skips *)
(* the entry found there, waits for the next one, puts it in the queue and *)
(* then notes the pending ack.  The cursor that a turn begins at is read   *)
(* before the journal is opened; acks and flushes may come in between.     *)
(* The cursor moves only when the event is acked: the same entry is put    *)
(* again every second until then.  Without a cursor a turn starts at the   *)
(* end of the journal.                                                     *)
(*                                                                         *)
(* An entry is its place in the journal; there is one journald source, and *)
(* the journal loses no entries.  A pending ack is the entry whose cursor  *)
(* it carries; pending acks are in the order of their sequence numbers, of *)
(* which nothing else matters.                                             *)
(***************************************************************************)
EXTENDS Naturals, Sequences

CONSTANTS MaxEntry,     \* bound of the model: entries
          Unfit,        \* the entries that never get into the queue: too large for it,
                        \* or they cannot be encoded
          MaxNotes,     \* bound of the model: pending acks; the queue takes no more then
          MaxRestart    \* bound of the model: crashes

ASSUME JournaldAssumption ==
  /\ MaxEntry \in Nat /\ Unfit \subseteq 1 .. MaxEntry
  /\ MaxNotes \in Nat \ {0} /\ MaxRestart \in Nat

VARIABLES
  journal,     \* external: the entries so far are 1 .. journal
  cursor,      \* state.cursor, 0 if there is none
  notes,       \* PendingAckStore: new_cursor of each event in the queue
  disk,        \* the cursor and the notes that were saved last
  turn,        \* "between" two turns, "opened" with a cursor, "reading", or "noting"
  place,       \* the cursor of the reader, and then the entry it has passed last
  inserted,    \* history: the entries put in the queue
  base,        \* history: the last entry put that was read without a cursor
  blind,       \* this turn began without a cursor
  restarts

journaldVars == <<journal, cursor, notes, disk, turn, place, inserted, base, blind, restarts>>

Entry0 == 0 .. MaxEntry

\* Cursors and notes are those of entries that were put.
JournaldTypeOK ==
  /\ journal \in Entry0 /\ restarts \in 0 .. MaxRestart
  /\ inserted \subseteq 1 .. journal
  /\ {cursor, disk.cursor, base} \subseteq inserted \cup {0}
  /\ \A s \in {notes, disk.notes} : s \in Seq(inserted) /\ Len(s) <= MaxNotes
  /\ turn \in {"between", "opened", "reading", "noting"} /\ place \in 0 .. journal /\ blind \in BOOLEAN

JournaldInit ==
  /\ journal \in Entry0 /\ cursor = 0 /\ notes = << >>
  /\ disk = [cursor |-> 0, notes |-> << >>]
  /\ turn = "between" /\ place = 0 /\ blind = FALSE /\ inserted = {} /\ base = 0
  /\ restarts = 0

-----------------------------------------------------------------------------
(* Wrong variants: slips in the definitions below, which the properties      *)
(* reject.                                                                   *)

\* The entry after the one at the cursor is skipped, too.
AfterCursorTwice == IF place + 1 <= journal THEN place + 1 ELSE place

\* Only the first ack sets the cursor.
AckNotesOnce(n) ==
  /\ n \in 1 .. Len(notes)
  /\ cursor' = (IF cursor = 0 THEN notes[n] ELSE cursor)
  /\ notes' = SubSeq(notes, n + 1, Len(notes))
  /\ UNCHANGED <<journal, disk, turn, place, inserted, base, blind, restarts>>

-----------------------------------------------------------------------------
AppendEntry ==
  /\ journal < MaxEntry /\ journal' = journal + 1
  /\ UNCHANGED <<cursor, notes, disk, turn, place, inserted, base, blind, restarts>>

\* The reader is made with the cursor of the state.
Turn ==
  /\ turn = "between"
  /\ turn' = "opened" /\ place' = cursor /\ blind' = (cursor = 0)
  /\ UNCHANGED <<journal, cursor, notes, disk, inserted, base, restarts>>

\* seek_cursor and one next(): the entry at the cursor.
AfterCursor == place

\* Or seek_tail, and the last entry.
Seek ==
  /\ turn = "opened"
  /\ turn' = "reading" /\ place' = IF blind THEN journal ELSE AfterCursor
  /\ UNCHANGED <<journal, cursor, notes, disk, inserted, base, blind, restarts>>

\* The next entry, as soon as there is one, is put in the queue.
Insert ==
  /\ turn = "reading" /\ place < journal
  /\ place + 1 \notin Unfit /\ Len(notes) < MaxNotes
  /\ turn' = "noting" /\ inserted' = inserted \cup {place + 1}
  /\ base' = IF blind THEN place + 1 ELSE base
  /\ UNCHANGED <<journal, cursor, notes, disk, place, blind, restarts>>

\* The entry is not encoded, the queue is full or it fails: the next turn comes to
\* the same entry again.
Refuse ==
  /\ turn = "reading" /\ place < journal /\ turn' = "between"
  /\ UNCHANGED <<journal, cursor, notes, disk, place, inserted, base, blind, restarts>>

NoteOf(e) == e

\* The pending ack of the entry that was put, which may have been acked by now.
Note ==
  /\ turn = "noting" /\ turn' = "between"
  /\ notes' = Append(notes, NoteOf(place + 1))
  /\ UNCHANGED <<journal, cursor, disk, place, inserted, base, blind, restarts>>

\* ack_seqs up to the n-th event: its cursor becomes the state's, whatever that was.
AckNotes(n) ==
  /\ n \in 1 .. Len(notes)
  /\ cursor' = notes[n] /\ notes' = SubSeq(notes, n + 1, Len(notes))
  /\ UNCHANGED <<journal, disk, turn, place, inserted, base, blind, restarts>>

\* StateStore.flush: the cursor and the notes are written one after the other.
SaveCursor ==
  /\ disk' = [cursor |-> cursor, notes |-> disk.notes]
  /\ UNCHANGED <<journal, cursor, notes, turn, place, inserted, base, blind, restarts>>

SaveNotes ==
  /\ disk' = [cursor |-> disk.cursor, notes |-> notes]
  /\ UNCHANGED <<journal, cursor, notes, turn, place, inserted, base, blind, restarts>>

\* A note that was saved and acked comes back, and goes with the next ack.
RestartReader ==
  /\ restarts < MaxRestart /\ restarts' = restarts + 1
  /\ cursor' = disk.cursor /\ notes' = disk.notes
  /\ turn' = "between" /\ place' = 0 /\ blind' = FALSE
  /\ UNCHANGED <<journal, disk, inserted, base>>

ReadOn == Turn \/ Seek \/ Note

JournaldNext ==
  \/ AppendEntry \/ ReadOn \/ Insert \/ Refuse \/ SaveCursor \/ SaveNotes \/ RestartReader
  \/ \E n \in 1 .. MaxNotes : AckNotes(n)

JournaldSpec == JournaldInit /\ [][JournaldNext]_journaldVars

\* The thread takes its turns, and what is in the queue is acked in the end.  A put
\* that has room again and again does not fail for ever.
JournaldFairness ==
  WF_journaldVars(ReadOn) /\ SF_journaldVars(Insert)
    /\ WF_journaldVars(\E n \in 1 .. MaxNotes : AckNotes(n))

JournaldFairSpec == JournaldSpec /\ JournaldFairness

-----------------------------------------------------------------------------
(* Properties *)

\* Once a turn has begun with a cursor (logcollector.py:492), acks in any pieces,
\* repeated entries, refusals and restarts never carry the cursor past an entry
\* that was not put.  The entries before the last one that was read without a
\* cursor are the exception: a turn without one starts at the end.
CursorSkipsNothing == \A e \in 1 .. MaxEntry : base < e /\ e <= cursor => e \in inserted

\* Every entry after those is put in the end, and no entry is left out again and
\* again: that one entry comes back until it is acked, that puts fail now and then
\* and that the cursor can go back do not keep the reader from going on.  Only an
\* entry that never fits does, for ever: it is not passed over
\* (logcollector.py:538-552).  And only a turn that began without a cursor may sit at
\* the end of the journal and wait for one entry more.
EventuallyInserted ==
  []<>(\/ base = 0
       \/ \A e \in base + 1 .. journal : e \in inserted \/ \E f \in base + 1 .. e : f \in Unfit
       \/ blind /\ turn = "reading")

=============================================================================
