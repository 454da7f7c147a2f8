------------------------------ MODULE LogSender ------------------------------
(***************************************************************************)
(* logcollector/src/logsender.py: how events get from the disk queue to    *)
(* the server.                                                             *)
(*                                                                         *)
(* The main thread peeks at the queue, leaving the events there, gathers   *)
(* them in a buffer and writes the buffer to the spool as a batch: a .bin  *)
(* file and then a .meta file with the batch's sequence numbers.  The      *)
(* resend thread posts every .bin it finds and, when the server accepts    *)
(* one, acks the largest number in its .meta: the queue then deletes that  *)
(* event and all older ones.  Between the two, _in_flight holds the        *)
(* numbers the main thread must not take again.                            *)
(*                                                                         *)
(* An event is its sequence number.  The queue is the durable FIFO that    *)
(* DurableQueue specifies, without its limits; numbers are not reused.     *)
(* stop() is a flush followed by the end of the process: Flush and Crash.  *)
(***************************************************************************)
EXTENDS Integers, FiniteSets

CONSTANTS MaxEvent,     \* bound of the model: events produced
          MaxBatch,     \* bound of the model: batches written
          MaxCrash,     \* bound of the model: crashes
          BatchSize,    \* LogSenderConfig.batch_size
          MaxRetries,   \* LogSenderConfig.max_retries, 0 for no limit
          Corrupt,      \* events whose payload decodes to a JSON or gzip header error
          Poison,       \* events whose payload raises what _flush does not catch
                        \* (one that is in both sets may do either)
          Unreadable,   \* events whose file in the queue may fail to be read
          Faults        \* what may go wrong, a subset of FaultKind

\* A spool file that cannot be read, a failed write to the spool or to the dead
\* letters, an ack that raises, a file that cannot be deleted, and .meta files,
\* which are not synced, found torn after a crash.
FaultKind == {"read", "spool", "dead_letter", "ack", "unlink", "torn_meta"}

ASSUME SenderAssumption ==
  /\ MaxEvent \in Nat /\ MaxBatch \in Nat /\ MaxCrash \in Nat
  /\ BatchSize \in Nat \ {0} /\ MaxRetries \in Nat
  /\ Faults \subseteq FaultKind

Event == 1 .. MaxEvent
Batch == 1 .. MaxBatch

VARIABLES
  produced,   \* events put in the queue so far are 1 .. produced
  queue,      \* disk: the events in the queue
  bins,       \* disk: spooled batch -> its events (batch-<id>.bin)
  metas,      \* disk: spooled batch -> sequence numbers (batch-<id>.meta)
  torn,       \* disk: the batches whose .meta does not parse
  dead,       \* disk: events saved to the dead letters
  inFlight,   \* _in_flight
  buffer,     \* _buffer
  mpc,        \* what the main thread is about to do
  local,      \* its local set: the _in_flight snapshot, or the batch in hand
  rpc,        \* what the resend thread is about to do
  todo,       \* the spool files of its present scan
  cur,        \* the batch it is sending
  curSeqs,    \* the sequence numbers it read from that batch's .meta
  attempt,    \* failed posts of it, counted when there is a limit
  accepted,   \* server: the batches it has accepted
  sent,       \* history: every batch ever written -> its events
  packed,     \* history: events this process wrote, or found, in the spool
  dropped,    \* history: events the code itself gave up, with no copy of its own
  crashes

disk == <<queue, bins, metas, torn, dead>>
main == <<buffer, mpc, local>>
resend == <<rpc, todo, cur, curSeqs, attempt>>
history == <<accepted, sent, packed, dropped, crashes>>
vars == <<produced, disk, inFlight, main, resend, history>>

MainState == {"down", "idle", "peek", "extend", "decode", "bin", "meta"}
ResendState == {"down", "died", "scan", "next", "post", "ack", "discard", "unlink_bin",
                "unlink_meta", "save_rejected", "unlink_rejected"}

\* The queue holds only numbers it has given out, batches hold events, attempts
\* stay within max_retries (370-373); every variable keeps its shape.
TypeOK ==
  /\ produced \in 0 .. MaxEvent /\ queue \subseteq 1 .. produced
  /\ DOMAIN bins \subseteq Batch /\ bins \in [DOMAIN bins -> SUBSET Event]
  /\ DOMAIN metas \subseteq Batch /\ metas \in [DOMAIN metas -> SUBSET Event]
  /\ dead \subseteq Event /\ inFlight \subseteq Event
  /\ torn \subseteq DOMAIN metas /\ dropped \subseteq Event
  /\ buffer \subseteq Event /\ local \subseteq Event
  /\ mpc \in MainState /\ rpc \in ResendState
  /\ todo \subseteq Batch /\ cur \in Batch \cup {0} /\ curSeqs \subseteq Event
  /\ attempt \in 0 .. MaxRetries
  /\ DOMAIN sent \subseteq Batch /\ sent \in [DOMAIN sent -> SUBSET Event]
  /\ accepted \subseteq DOMAIN sent
  /\ packed \subseteq Event /\ crashes \in 0 .. MaxCrash

-----------------------------------------------------------------------------
With(f, b, S) == [c \in DOMAIN f \cup {b} |-> IF c = b THEN S ELSE f[c]]
Without(f, b) == [c \in DOMAIN f \ {b} |-> f[c]]
EventsOf(f) == UNION {f[b] : b \in DOMAIN f}

\* The n smallest elements of S.
First(S, n) == {e \in S : Cardinality({d \in S : d < e}) < n}

UpTo(S) == {e \in Event : \E m \in S : e <= m}

Delivered == UNION {sent[b] : b \in accepted}

Init ==
  /\ produced = 0 /\ queue = {} /\ bins = << >> /\ metas = << >> /\ torn = {} /\ dead = {}
  /\ inFlight = {} /\ buffer = {} /\ mpc = "down" /\ local = {}
  /\ rpc = "down" /\ todo = {} /\ cur = 0 /\ curSeqs = {} /\ attempt = 0
  /\ accepted = {} /\ sent = << >> /\ packed = {} /\ dropped = {}
  /\ crashes = 0

-----------------------------------------------------------------------------
(* Wrong variants: slips in the actions below, which the properties reject. *)

\* The first event gets the number 0.
ProduceFromZero ==
  /\ mpc # "down" /\ produced < MaxEvent
  /\ produced' = produced + 1 /\ queue' = queue \cup {produced}
  /\ UNCHANGED <<bins, metas, torn, dead, inFlight, main, resend, history>>

\* peek_batch without skip_seqs.
SnapshotForgets ==
  /\ mpc = "idle" /\ Cardinality(buffer) < BatchSize
  /\ local' = {} /\ mpc' = "peek"
  /\ UNCHANGED <<produced, disk, inFlight, buffer, resend, history>>

\* No batch_timeout.
FlushWhenFull ==
  /\ mpc = "idle" /\ Cardinality(buffer) >= BatchSize
  /\ local' = buffer /\ buffer' = {} /\ mpc' = "decode"
  /\ UNCHANGED <<produced, disk, inFlight, resend, history>>

\* A rejected batch is deleted without a copy in the dead letters.
PostRejectedDrops ==
  /\ rpc = "post" /\ rpc' = "unlink_rejected"
  /\ UNCHANGED <<produced, disk, inFlight, main, todo, cur, curSeqs, attempt, history>>

\* The result of _save_to_dead_letter is not looked at.
SaveRejectedAnyway ==
  /\ rpc = "save_rejected" /\ rpc' = "unlink_rejected"
  /\ dead' = dead \cup bins[cur] \/ ("dead_letter" \in Faults /\ UNCHANGED dead)
  /\ UNCHANGED <<produced, queue, bins, metas, torn, inFlight, main, todo, cur, curSeqs,
                 attempt, history>>

\* Everything in the queue at the start is taken to be in flight.
StartClaimsQueue ==
  /\ mpc = "down" /\ mpc' = "idle" /\ rpc' = "scan"
  /\ inFlight' = queue /\ packed' = EventsOf(metas)
  /\ UNCHANGED <<produced, disk, buffer, local, todo, cur, curSeqs, attempt,
                 accepted, sent, dropped, crashes>>

\* A batch whose .meta does not parse is thrown away.
ReadTornDeletes(b) ==
  /\ rpc = "next" /\ b \in todo \cap torn
  /\ bins' = Without(bins, b) /\ metas' = Without(metas, b)
  /\ torn' = torn \ {b} /\ todo' = todo \ {b}
  /\ UNCHANGED <<produced, queue, dead, inFlight, main, rpc, cur, curSeqs, attempt, history>>

-----------------------------------------------------------------------------
(* The collector *)

Produce ==
  /\ mpc # "down" /\ produced < MaxEvent
  /\ produced' = produced + 1 /\ queue' = queue \cup {produced + 1}
  /\ UNCHANGED <<bins, metas, torn, dead, inFlight, main, resend, history>>

-----------------------------------------------------------------------------
(* The main thread *)

\* _collect_from_queue, under the lock: is there room, and what is in flight.
Snapshot ==
  /\ mpc = "idle" /\ Cardinality(buffer) < BatchSize
  /\ local' = inFlight /\ mpc' = "peek"
  /\ UNCHANGED <<produced, disk, inFlight, buffer, resend, history>>

\* peek_batch, which leaves out an item it cannot read.
Peek ==
  /\ mpc = "peek"
  /\ \E skipped \in SUBSET (queue \cap Unreadable) : LET readable == queue \ skipped IN
       /\ local' = First(readable \ local, BatchSize - Cardinality(buffer))
       /\ dropped' = dropped \cup (skipped \ local)
  /\ mpc' = IF local' = {} THEN "idle" ELSE "extend"
  /\ UNCHANGED <<produced, disk, inFlight, buffer, resend, accepted, sent, packed, crashes>>

Extend ==
  /\ mpc = "extend"
  /\ buffer' = buffer \cup local /\ inFlight' = inFlight \cup local
  /\ local' = {} /\ mpc' = "idle"
  /\ UNCHANGED <<produced, disk, resend, history>>

\* _flush_buffer_to_spool takes the buffer when it is full or batch_timeout has
\* passed since its first event.
Flush ==
  /\ mpc = "idle" /\ buffer # {}
  /\ local' = buffer /\ buffer' = {} /\ mpc' = "decode"
  /\ UNCHANGED <<produced, disk, inFlight, resend, history>>

\* An event that does not decode is left out of the batch and saved to the dead
\* letters; a failure to save it is only logged.
DecodeCorrupt(e) ==
  /\ mpc = "decode" /\ e \in local \cap Corrupt
  /\ local' = local \ {e}
  /\ \/ dead' = dead \cup {e} /\ UNCHANGED dropped
     \/ "dead_letter" \in Faults /\ dropped' = dropped \cup {e} /\ UNCHANGED dead
  /\ UNCHANGED <<produced, queue, bins, metas, torn, inFlight, buffer, mpc, resend,
                 accepted, sent, packed, crashes>>

\* EOFError, zlib.error and UnicodeDecodeError leave the function, and the loop
\* of the main thread logs them: the buffer has been emptied.
DecodePoison ==
  /\ mpc = "decode" /\ local \cap Poison # {}
  /\ dropped' = dropped \cup local
  /\ local' = {} /\ mpc' = "idle"
  /\ UNCHANGED <<produced, disk, inFlight, buffer, resend, accepted, sent, packed, crashes>>

Decoded ==
  /\ mpc = "decode" /\ local \cap (Corrupt \cup Poison) = {}
  /\ mpc' = IF local = {} THEN "idle" ELSE "bin"
  /\ UNCHANGED <<produced, disk, inFlight, buffer, local, resend, history>>

\* The .bin file, synced and renamed, becomes visible before the .meta file.
WriteBin(b) ==
  /\ mpc = "bin" /\ b \in Batch /\ \A c \in Batch : c < b <=> c \in DOMAIN sent
  /\ bins' = With(bins, b, local) /\ sent' = With(sent, b, local)
  /\ packed' = packed \cup local /\ dropped' = dropped \ local
  /\ mpc' = "meta"
  /\ UNCHANGED <<produced, queue, metas, torn, dead, inFlight, buffer, local, resend,
                 accepted, crashes>>

WriteMeta(b) ==
  /\ mpc = "meta" /\ b \in DOMAIN sent /\ \A c \in DOMAIN sent : c <= b
  /\ metas' = With(metas, b, local)
  /\ local' = {} /\ mpc' = "idle"
  /\ UNCHANGED <<produced, queue, bins, torn, dead, inFlight, buffer, resend, history>>

\* Either write failed: a warning, and the events stay in _in_flight.  Without the
\* .bin no copy of them is left but the one in the queue.
SpoolFails ==
  /\ "spool" \in Faults /\ mpc \in {"bin", "meta"}
  /\ dropped' = dropped \cup IF mpc = "bin" THEN local ELSE {}
  /\ local' = {} /\ mpc' = "idle"
  /\ UNCHANGED <<produced, disk, inFlight, buffer, resend, accepted, sent, packed, crashes>>

-----------------------------------------------------------------------------
(* The resend thread *)

\* _send_one_spool_file returns.
Return == rpc' = "next" /\ cur' = 0 /\ curSeqs' = {} /\ attempt' = 0

Scan ==
  /\ rpc = "scan"
  /\ todo' = DOMAIN bins /\ rpc' = "next"
  /\ UNCHANGED <<produced, disk, inFlight, main, cur, curSeqs, attempt, history>>

ScanDone ==
  /\ rpc = "next" /\ todo = {}
  /\ rpc' = "scan"
  /\ UNCHANGED <<produced, disk, inFlight, main, todo, cur, curSeqs, attempt, history>>

\* Files are taken in the order of their names, which are random: in any order.
\* Without a .meta, or before it is written, the batch has no sequence numbers.
ReadSpool(b) ==
  /\ rpc = "next" /\ b \in todo \ torn
  /\ todo' = todo \ {b} /\ cur' = b /\ attempt' = 0
  /\ curSeqs' = IF b \in DOMAIN metas THEN metas[b] ELSE {}
  /\ rpc' = "post"
  /\ UNCHANGED <<produced, disk, inFlight, main, history>>

\* json.JSONDecodeError is a ValueError, which nothing on this thread catches.
ReadTorn(b) ==
  /\ rpc = "next" /\ b \in todo \cap torn
  /\ rpc' = "died" /\ todo' = {}
  /\ UNCHANGED <<produced, disk, inFlight, main, cur, curSeqs, attempt, history>>

\* The file, or its .meta, cannot be read: a warning, and on to the next one.
ReadFails(b) ==
  /\ "read" \in Faults /\ rpc = "next" /\ b \in todo
  /\ todo' = todo \ {b}
  /\ UNCHANGED <<produced, disk, inFlight, main, rpc, cur, curSeqs, attempt, history>>

PostAccepted ==
  /\ rpc = "post"
  /\ accepted' = accepted \cup {cur}
  /\ rpc' = IF curSeqs = {} THEN "unlink_bin" ELSE "ack"
  /\ UNCHANGED <<produced, disk, inFlight, main, todo, cur, curSeqs, attempt, sent,
                 packed, dropped, crashes>>

\* A 4xx answer.
PostRejected ==
  /\ rpc = "post"
  /\ rpc' = "save_rejected"
  /\ UNCHANGED <<produced, disk, inFlight, main, todo, cur, curSeqs, attempt, history>>

\* A network error, before or after the server accepted the batch, or another
\* answer: wait and post again, unless that was the last attempt.
PostFails ==
  /\ rpc = "post"
  /\ accepted' = accepted \/ accepted' = accepted \cup {cur}
  /\ \/ MaxRetries = 0 /\ UNCHANGED <<rpc, cur, curSeqs, attempt>>
     \/ attempt + 1 < MaxRetries /\ attempt' = attempt + 1 /\ UNCHANGED <<rpc, cur, curSeqs>>
     \/ MaxRetries > 0 /\ attempt + 1 >= MaxRetries /\ Return
  /\ UNCHANGED <<produced, disk, inFlight, main, todo, sent, packed, dropped, crashes>>

\* An ack cut short has deleted some of its events, the oldest first, or none.
AckPart == UNCHANGED queue \/ \E e \in UpTo(curSeqs) : queue' = queue \ UpTo({e})

\* ack_seqs(max(seqs)): the queue deletes that event and all older ones.  An
\* exception from it is logged, and the thread goes on as after a success.
Ack ==
  /\ rpc = "ack"
  /\ queue' = queue \ UpTo(curSeqs) \/ ("ack" \in Faults /\ AckPart)
  /\ rpc' = "discard"
  /\ UNCHANGED <<produced, bins, metas, torn, dead, inFlight, main, todo, cur, curSeqs,
                 attempt, history>>

Discard ==
  /\ rpc = "discard"
  /\ inFlight' = inFlight \ curSeqs
  /\ rpc' = "unlink_bin"
  /\ UNCHANGED <<produced, disk, main, todo, cur, curSeqs, attempt, history>>

UnlinkBin ==
  /\ rpc = "unlink_bin"
  /\ bins' = Without(bins, cur) /\ rpc' = "unlink_meta"
  /\ UNCHANGED <<produced, queue, metas, torn, dead, inFlight, main, todo, cur, curSeqs,
                 attempt, history>>

UnlinkMeta ==
  /\ rpc = "unlink_meta"
  /\ metas' = Without(metas, cur) /\ Return
  /\ UNCHANGED <<produced, queue, bins, torn, dead, inFlight, main, todo, history>>

\* A failed unlink is logged.  After it the sent batch keeps its other file too;
\* a rejected batch still loses its .meta.
UnlinkFails ==
  /\ "unlink" \in Faults
  /\ \/ rpc = "unlink_rejected" /\ rpc' = "unlink_meta" /\ UNCHANGED <<cur, curSeqs, attempt>>
     \/ rpc \in {"unlink_bin", "unlink_meta"} /\ Return
  /\ UNCHANGED <<produced, disk, inFlight, main, todo, history>>

\* The .bin of a rejected batch goes to the dead letters and is deleted; its
\* .meta is deleted even when the .bin could not be saved.
SaveRejected ==
  /\ rpc = "save_rejected"
  /\ \/ dead' = dead \cup bins[cur] /\ rpc' = "unlink_rejected"
     \/ "dead_letter" \in Faults /\ UNCHANGED dead /\ rpc' = "unlink_meta"
  /\ UNCHANGED <<produced, queue, bins, metas, torn, inFlight, main, todo, cur, curSeqs,
                 attempt, history>>

UnlinkRejected ==
  /\ rpc = "unlink_rejected"
  /\ bins' = Without(bins, cur) /\ rpc' = "unlink_meta"
  /\ UNCHANGED <<produced, queue, metas, torn, dead, inFlight, main, todo, cur, curSeqs,
                 attempt, history>>

-----------------------------------------------------------------------------
(* The process *)

\* start(): what the .meta files list is in flight; one it cannot read, or parse,
\* is skipped.
Start ==
  /\ mpc = "down"
  /\ \E R \in {DOMAIN metas \ torn} \cup
            IF "read" \in Faults THEN SUBSET (DOMAIN metas \ torn) ELSE {} :
       inFlight' = UNION {metas[b] : b \in R}
  /\ packed' = inFlight'
  /\ mpc' = "idle" /\ rpc' = "scan"
  /\ UNCHANGED <<produced, disk, buffer, local, todo, cur, curSeqs, attempt,
                 accepted, sent, dropped, crashes>>

\* The process ends, perhaps in the middle of an ack.  A .meta file is not synced
\* before it is renamed: the machine's end may leave it empty.
Crash ==
  /\ mpc # "down" /\ crashes < MaxCrash
  /\ UNCHANGED queue \/ (rpc = "ack" /\ AckPart)
  /\ \E T \in IF "torn_meta" \in Faults THEN SUBSET DOMAIN metas ELSE {{}} :
       torn' = torn \cup T
  /\ mpc' = "down" /\ rpc' = "down" /\ crashes' = crashes + 1
  /\ inFlight' = {} /\ buffer' = {} /\ local' = {} /\ todo' = {} /\ cur' = 0
  /\ curSeqs' = {} /\ attempt' = 0 /\ packed' = {}
  /\ UNCHANGED <<produced, bins, metas, dead, accepted, sent, dropped>>

MainStep ==
  \/ Snapshot \/ Peek \/ Extend \/ Decoded \/ DecodePoison \/ SpoolFails
  \/ \E e \in Event : DecodeCorrupt(e)
  \/ \E b \in Batch : WriteBin(b) \/ WriteMeta(b)

ResendStep ==
  \/ Scan \/ ScanDone \/ Ack \/ Discard \/ UnlinkBin \/ UnlinkMeta \/ UnlinkFails
  \/ SaveRejected \/ UnlinkRejected
  \/ \E b \in Batch : ReadSpool(b) \/ ReadTorn(b) \/ ReadFails(b)

Next ==
  \/ Produce \/ Start \/ Crash \/ MainStep \/ Flush \/ ResendStep
  \/ PostAccepted \/ PostRejected \/ PostFails

Spec == Init /\ [][Next]_vars

\* Both threads run, the process is started again, and batch_timeout passes while
\* there is something in the buffer.  The server is reachable in the end: a batch
\* that is being posted is answered.  Nothing forces a failure or a crash.
Fairness ==
  /\ WF_vars(Start) /\ WF_vars(MainStep) /\ SF_vars(Flush)
  /\ WF_vars(ResendStep) /\ WF_vars(PostAccepted \/ PostRejected)

FairSpec == Spec /\ Fairness

-----------------------------------------------------------------------------
(* Properties *)

\* An event leaves the queue (ack_seqs(max(seqs)), logsender.py:381, takes all
\* older ones with it) only when it is at the server, in the dead letters or in
\* a spool file, so that a crash at any point loses none: not those another
\* batch holds, not those still in the buffer.  Whatever files fail, the only
\* exceptions are the events the code itself has let go of: one peek_batch skipped
\* (queue.py:212), and those of a batch it could not write (282), could not decode
\* (238) or could not save (242).
NoEventLost ==
  1 .. produced \subseteq queue \cup EventsOf(bins) \cup Delivered \cup dead \cup dropped

\* An event the main thread must not take again (_in_flight, logsender.py:84) is
\* in someone's hands, on disk as a batch, or done with: none waits in the queue
\* for a thread that has forgotten it.
NothingForgotten ==
  queue \cap inFlight \subseteq
    buffer \cup local \cup EventsOf(bins) \cup Delivered \cup dead

NewBatchIsNew ==
  \A b \in DOMAIN sent' \ DOMAIN sent : sent'[b] \cap packed = {}

\* The main thread never puts in a new batch (220-288) an event that this
\* process has put in one before, or that it found in a .meta file when it
\* started: the server removes duplicates of a batch, never of an event.
NoRepacking == [][NewBatchIsNew]_vars

\* A .bin leaves the spool only when the server has accepted it or the dead
\* letters have all its events (310-396), whatever writes and deletions fail.
SpoolKeepsBatches ==
  [][\A b \in DOMAIN bins \ DOMAIN bins' : b \in accepted \/ bins[b] \subseteq dead]_vars

\* Every event of the queue reaches the server or the dead letters.
EventuallyHandled ==
  \A e \in Event : e <= produced ~> e \in Delivered \cup dead

\* logsender.py:239-240 says of an event that does not decode: "НЕ ack'аем. seq
\* остаётся в очереди (и в _in_flight) для ручного разбора" (it is not acked and
\* stays in the queue, to be looked at by hand).
CorruptStaysQueued == Corrupt \cap dead \subseteq queue

=============================================================================
