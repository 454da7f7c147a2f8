-------------------------------- MODULE Agent --------------------------------
(***************************************************************************)
(* The agent from end to end: LogCollector, DiskQueue and LogSender put    *)
(* together.                                                               *)
(*                                                                         *)
(* The collector puts the lines of a file in the queue, the sender packs   *)
(* and posts them, its ack deletes them from the queue and moves the       *)
(* offset, and offset and pending acks are saved from time to time.  The   *)
(* sender is the module LogSender; what is added here is which line a      *)
(* sequence number stands for, how far the collector has read, and what    *)
(* happens when the queue loses its numbering: meta.json is not synced,    *)
(* and it is rebuilt from the items that are left.                         *)
(*                                                                         *)
(* The collector is cut down to what this takes: one file that is only     *)
(* appended to, read line by line, whose state was saved once; an offset   *)
(* is a number of lines, and the two halves of ack_seqs are one step.      *)
(* LogCollector and DiskQueue have the rest.  What fails is what fails in  *)
(* LogSender: spool files, dead letters, acks, and items of the queue that *)
(* cannot be read or decoded.                                              *)
(***************************************************************************)
EXTENDS LogSender

CONSTANTS MaxLine       \* bound of the model: lines of the file

ASSUME AgentAssumption == MaxLine \in Nat

VARIABLES
  pos,        \* fs.read_offset: the lines read so far
  noting,     \* a line has been put and its pending ack is still to be added
  item,       \* disk: the line that each number stands for, or last stood for
  carries,    \* batch -> its lines
  deadLines,  \* disk: the lines that have a copy in the dead letters
  notes,      \* PendingAckStore: number -> offset
  offset,     \* SourceState.offset
  saved,      \* disk: offset and notes
  flushing,   \* between the two writes of StateStore.flush
  metaLost,   \* meta.json cannot be read
  stale,      \* history: the largest number in the spool when numbering began anew
  atRisk      \* history: lines that were given such a number, or given up

collector == <<pos, noting, notes, offset, saved, flushing>>
lines == <<item, carries, deadLines>>
numbering == <<metaLost, stale, atRisk>>
agentVars == <<vars, collector, lines, numbering>>

Line == 1 .. MaxLine

AgentTypeOK ==
  /\ TypeOK
  /\ pos \in 0 .. MaxLine /\ noting \in BOOLEAN /\ flushing \in BOOLEAN
  /\ item \in [1 .. MaxEvent -> 0 .. MaxLine]
  /\ DOMAIN carries = DOMAIN sent /\ carries \in [DOMAIN sent -> SUBSET Line]
  /\ deadLines \subseteq Line
  /\ \A n \in {notes, saved.notes} :
       DOMAIN n \subseteq 1 .. MaxEvent /\ n \in [DOMAIN n -> 1 .. pos]
  /\ {offset, saved.offset} \subseteq 0 .. pos
  /\ metaLost \in BOOLEAN /\ stale \in 0 .. MaxEvent /\ atRisk \subseteq Line

AgentInit ==
  /\ Init
  /\ pos = 0 /\ noting = FALSE /\ item = [e \in 1 .. MaxEvent |-> 0] /\ carries = << >>
  /\ deadLines = {} /\ notes = << >> /\ offset = 0
  /\ saved = [offset |-> 0, notes |-> << >>] /\ flushing = FALSE
  /\ metaLost = FALSE /\ stale = 0 /\ atRisk = {}

Largest(S) == CHOOSE m \in S \cup {0} : \A n \in S : n <= m

-----------------------------------------------------------------------------
(* Wrong variants: slips in the definitions below, which the properties      *)
(* reject.                                                                   *)

\* Numbering begins anew although there are items.
LastNumberForgotten == 0

\* The offset noted with a line is that of the line after it.
NextOffset == pos + 1

-----------------------------------------------------------------------------
(* The collector *)

\* _process_message: the next line is put,
PutLine ==
  /\ Produce /\ ~noting /\ pos < MaxLine
  /\ pos' = pos + 1 /\ noting' = TRUE
  /\ item' = [item EXCEPT ![produced + 1] = pos + 1]
  /\ atRisk' = atRisk \cup IF produced + 1 <= stale THEN {pos + 1} ELSE {}
  /\ UNCHANGED <<notes, offset, saved, flushing, carries, deadLines, metaLost, stale>>

NewOffset == pos

\* and its offset is noted under the number it got.
NoteLine ==
  /\ noting /\ noting' = FALSE
  /\ notes' = With(notes, produced, NewOffset)
  /\ UNCHANGED <<vars, pos, offset, saved, flushing, lines, numbering>>

\* StateStore.flush: the offset is written, and then the notes.
SaveOffset ==
  /\ mpc # "down" /\ ~flushing /\ flushing' = TRUE
  /\ saved' = [saved EXCEPT !.offset = offset]
  /\ UNCHANGED <<vars, pos, noting, notes, offset, lines, numbering>>

SaveNotes ==
  /\ flushing /\ flushing' = FALSE
  /\ saved' = [saved EXCEPT !.notes = notes]
  /\ UNCHANGED <<vars, pos, noting, notes, offset, lines, numbering>>

\* Where a new process goes on: max_pending_offset.
ResumeAt == Largest({saved.offset} \cup {saved.notes[n] : n \in DOMAIN saved.notes})

-----------------------------------------------------------------------------
(* The steps of the sender that touch lines or offsets *)

PackLines(b) ==
  /\ WriteBin(b)
  /\ carries' = With(carries, b, {item[e] : e \in local})
  /\ UNCHANGED <<collector, item, deadLines, numbering>>

SaveRejectedLines ==
  /\ SaveRejected
  /\ deadLines' = deadLines \cup IF rpc' = "unlink_rejected" THEN carries[cur] ELSE {}
  /\ UNCHANGED <<collector, item, carries, numbering>>

\* The lines of these items are given up: the spool and the dead letters have no
\* copy of them, and an ack of a later item may delete the one in the queue.
GiveUp(S) ==
  /\ atRisk' = atRisk \cup {item[e] : e \in S}
  /\ UNCHANGED <<collector, lines, metaLost, stale>>

PeekLines == Peek /\ GiveUp(queue \cap dropped')

SpoolFailsLines == SpoolFails /\ GiveUp(IF mpc = "bin" THEN local ELSE {})

DecodePoisonLines == DecodePoison /\ GiveUp(local)

DecodeCorruptSaved(e) ==
  /\ DecodeCorrupt(e) /\ e \in dead' /\ dropped' = dropped
  /\ deadLines' = deadLines \cup {item[e]}
  /\ UNCHANGED <<collector, item, carries, numbering>>

DecodeCorruptLost(e) ==
  /\ DecodeCorrupt(e) /\ "dead_letter" \in Faults /\ e \in dropped' /\ dead' = dead
  /\ GiveUp({e})

\* LogCollector.ack_seqs: the newest note up to the number becomes the offset, and
\* the notes and the items up to there go; an exception can come only from the
\* queue, which is last (595).
AckLines ==
  /\ Ack
  /\ LET covered == DOMAIN notes \cap UpTo(curSeqs)
     IN /\ offset' = IF covered = {} THEN offset ELSE notes[Largest(covered)]
        /\ notes' = [n \in DOMAIN notes \ covered |-> notes[n]]
  /\ UNCHANGED <<pos, noting, saved, flushing, lines, numbering>>

-----------------------------------------------------------------------------
(* The process *)

CrashAgent ==
  /\ Crash
  /\ pos' = ResumeAt /\ notes' = saved.notes /\ offset' = saved.offset
  /\ noting' = FALSE /\ flushing' = FALSE
  /\ metaLost' \in BOOLEAN
  /\ UNCHANGED <<saved, lines, stale, atRisk>>

\* The last number that is given out, as the items show it.
LastNumber == Largest(queue)

\* DiskQueue._rebuild_from_disk, before the sender starts.
RebuildNumbers ==
  /\ metaLost /\ metaLost' = FALSE
  /\ produced' = LastNumber /\ dropped' = dropped \cap queue
  /\ stale' = IF LastNumber < produced THEN Largest(EventsOf(metas)) ELSE stale
  /\ UNCHANGED <<disk, inFlight, main, resend, accepted, sent, packed, crashes, collector,
                 lines, atRisk>>

StartAgent == ~metaLost /\ Start /\ UNCHANGED <<collector, lines, numbering>>

\* The other steps of the sender.
SenderStep ==
  /\ \/ Snapshot \/ Extend \/ Flush \/ Decoded
     \/ \E b \in Batch : WriteMeta(b) \/ ReadSpool(b) \/ ReadTorn(b) \/ ReadFails(b)
     \/ Scan \/ ScanDone \/ Discard
     \/ UnlinkBin \/ UnlinkMeta \/ UnlinkFails \/ UnlinkRejected
     \/ PostAccepted \/ PostRejected \/ PostFails
  /\ UNCHANGED <<collector, lines, numbering>>

AgentNext ==
  \/ PutLine \/ NoteLine \/ SaveOffset \/ SaveNotes
  \/ AckLines \/ SaveRejectedLines \/ \E b \in Batch : PackLines(b)
  \/ PeekLines \/ SpoolFailsLines \/ DecodePoisonLines
  \/ \E e \in Event : DecodeCorruptSaved(e) \/ DecodeCorruptLost(e)
  \/ CrashAgent \/ RebuildNumbers \/ StartAgent \/ SenderStep

AgentSpec == AgentInit /\ [][AgentNext]_agentVars

-----------------------------------------------------------------------------
(* Properties *)

LinesOf(B) == UNION {carries[b] : b \in B}

OnDisk == {item[e] : e \in queue} \cup LinesOf(DOMAIN bins)
Arrived == LinesOf(accepted) \cup deadLines

\* From the log file to the server no line is lost: one that has been read, and that
\* a crash now would not make the agent read again, is an item of the queue, in the
\* spool, at the server or in the dead letters; whatever order the acks, the saves
\* of offsets and notes and the crashes come in, whatever the sender fails at, and
\* when numbering begins anew (queue.py:293).  After that, the ack of a batch that
\* was in the spool all along deletes new items that no one has sent: lines with a
\* number up to the largest in the spool at that time are one exception.  The other
\* is what the sender gives up, because it could not read it (queue.py:212), write
\* its batch (logsender.py:282), decode it (238) or save what did not decode (242).
NoLineLost ==
  1 .. pos \subseteq OnDisk \cup Arrived \cup atRisk

TheRelay ==
  INSTANCE Relay WITH taken <- pos, held <- OnDisk, delivered <- Arrived, excused <- atRisk

\* Step by step the agent is a relay of lines: but for the lines excused above, a line
\* arrives only from a copy on disk, and the last copy (an item, or a .bin in the
\* spool) goes only after the line has arrived (logsender.py:378-396).
IsRelay == TheRelay!Spec

=============================================================================
