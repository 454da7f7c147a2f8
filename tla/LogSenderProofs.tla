--------------------------- MODULE LogSenderProofs ---------------------------
(***************************************************************************)
(* Proofs about LogSender, for every number of events, batches and         *)
(* crashes, every batch size and retry limit, every set of events that do  *)
(* not decode or cannot be read, and, except where a theorem says          *)
(* otherwise, whatever files fail.                                         *)
(***************************************************************************)
EXTENDS LogSender, FiniteSetTheorems, TLAPS

-----------------------------------------------------------------------------
(* The inductive invariants *)

\* A spool file is a batch that was written, and has the events it was written with.
SpoolIsSent ==
  /\ DOMAIN bins \subseteq DOMAIN sent
  /\ \A b \in DOMAIN bins : bins[b] = sent[b]

\* Sequence numbers, in a .meta file or read from one, are those of a batch.
SeqsAreSent ==
  /\ EventsOf(metas) \cup curSeqs \subseteq EventsOf(sent)
  /\ mpc = "meta" => local \subseteq EventsOf(sent)

\* The file the resend thread is sending, whose .meta it could parse, is there
\* until it unlinks it, after the server or the dead letters have the batch.
CurInSpool ==
  /\ todo \subseteq DOMAIN bins /\ cur \notin todo \cup torn
  /\ rpc \in {"down", "died", "scan", "next"} => cur = 0
  /\ rpc \in {"post", "ack", "discard", "unlink_bin", "save_rejected", "unlink_rejected"} =>
       cur \in DOMAIN bins
  /\ rpc \in {"ack", "discard", "unlink_bin"} => cur \in accepted
  /\ rpc = "unlink_rejected" => bins[cur] \subseteq dead

\* Between the end of the process and its start it has no memory, and a flush
\* has the whole buffer in its hands.
DownIsEmpty ==
  /\ mpc = "down" => rpc = "down" /\ local = {}
  /\ mpc \in {"down", "decode", "bin", "meta"} => buffer = {}

SpoolInv == TypeOK /\ SpoolIsSent /\ SeqsAreSent /\ CurInSpool /\ DownIsEmpty

\* What has a copy outside the queue and the memory of the process.
Kept == EventsOf(bins) \cup Delivered \cup dead
Safe == Kept \cup dropped

\* What the main thread has taken from the queue and not yet written.
Hand == buffer \cup IF mpc \in {"extend", "decode", "bin"} THEN local ELSE {}

\* An ack deletes every older event too: all that is older than an event of a
\* batch must be safe, and all that is older than one in hand safe or in hand.
OlderIsSafe ==
  /\ UpTo(EventsOf(sent)) \subseteq Safe
  /\ UpTo(Hand) \subseteq Safe \cup Hand

\* What is skipped as being in flight is in hand or has a copy.
FlightIn(S) ==
  /\ inFlight \subseteq S \cup Hand
  /\ mpc = "peek" => local \subseteq S \cup Hand

SentIsKept == EventsOf(sent) \subseteq Kept

OrderInv == SpoolInv /\ SentIsKept /\ NoEventLost /\ OlderIsSafe /\ FlightIn(Safe)

FlightInv == OrderInv /\ FlightIn(Kept)

\* Numbers come from the queue, and what the main thread has claimed is not taken
\* again: it is in flight, or no longer in the queue, and an ack has taken it off
\* before it leaves the flight.
Claimed == packed \cup buffer \cup IF mpc \in {"decode", "bin"} THEN local ELSE {}

ClaimedOnce ==
  /\ EventsOf(sent) \cup inFlight \cup packed \cup buffer \cup local \subseteq 1 .. produced
  /\ packed \cap Hand = {}
  /\ queue \cap Claimed \subseteq inFlight
  /\ mpc = "peek" => queue \cap Claimed \subseteq local
  /\ rpc = "discard" => queue \cap curSeqs = {}

-----------------------------------------------------------------------------
(* Facts about the operators *)

LEMMA EventsFinite ==
  ASSUME NEW S, S \subseteq Event
  PROVE  IsFiniteSet(S) /\ Cardinality(S) \in Nat
<1>1. IsFiniteSet(Event)
  BY SenderAssumption, FS_Interval DEF SenderAssumption, Event
<1> QED
  BY <1>1, FS_Subset, FS_CardinalityType

\* Putting a batch in a table of batches, and taking one out.
LEMMA WithType ==
  ASSUME NEW f, DOMAIN f \subseteq Batch, f \in [DOMAIN f -> SUBSET Event],
         NEW b \in Batch, NEW S, S \subseteq Event
  PROVE  /\ DOMAIN With(f, b, S) = DOMAIN f \cup {b}
         /\ DOMAIN With(f, b, S) \subseteq Batch
         /\ With(f, b, S) \in [DOMAIN With(f, b, S) -> SUBSET Event]
         /\ With(f, b, S)[b] = S
         /\ \A c \in DOMAIN f \ {b} : With(f, b, S)[c] = f[c]
  BY DEF With

LEMMA WithoutType ==
  ASSUME NEW f, DOMAIN f \subseteq Batch, f \in [DOMAIN f -> SUBSET Event], NEW b
  PROVE  /\ DOMAIN Without(f, b) = DOMAIN f \ {b}
         /\ DOMAIN Without(f, b) \subseteq Batch
         /\ Without(f, b) \in [DOMAIN Without(f, b) -> SUBSET Event]
         /\ \A c \in DOMAIN f \ {b} : Without(f, b)[c] = f[c]
  BY DEF Without

LEMMA WithEvents ==
  ASSUME NEW f, NEW b, NEW S
  PROVE  /\ EventsOf(With(f, b, S)) \subseteq EventsOf(f) \cup S
         /\ S \subseteq EventsOf(With(f, b, S))
         /\ b \notin DOMAIN f => EventsOf(f) \subseteq EventsOf(With(f, b, S))
  BY DEF With, EventsOf

LEMMA WithoutEvents ==
  ASSUME NEW f, NEW b
  PROVE  /\ EventsOf(Without(f, b)) \subseteq EventsOf(f)
         /\ EventsOf(f) \subseteq EventsOf(Without(f, b)) \cup f[b]
  BY DEF Without, EventsOf

LEMMA EmptyType ==
  /\ DOMAIN << >> = {} /\ << >> \in [DOMAIN << >> -> SUBSET Event]
  /\ EventsOf(<< >>) = {}
  BY DEF EventsOf

-----------------------------------------------------------------------------
(* Types and the spool *)

LEMMA SpoolInit == Init => SpoolInv
  BY EmptyType, SenderAssumption
  DEF Init, SpoolInv, TypeOK, SpoolIsSent, SeqsAreSent, CurInSpool, DownIsEmpty,
      MainState, ResendState, SenderAssumption

\* What writing a batch, and deleting the file being sent, do to the tables.
LEMMA BatchWritten ==
  ASSUME SpoolInv, NEW b \in Batch, WriteBin(b)
  PROVE  /\ b \notin DOMAIN sent
         /\ DOMAIN bins' = DOMAIN bins \cup {b} /\ DOMAIN sent' = DOMAIN sent \cup {b}
         /\ bins' \in [DOMAIN bins' -> SUBSET Event] /\ sent' \in [DOMAIN sent' -> SUBSET Event]
         /\ bins'[b] = local /\ sent'[b] = local
         /\ \A c \in DOMAIN bins \ {b} : bins'[c] = bins[c]
         /\ \A c \in DOMAIN sent \ {b} : sent'[c] = sent[c]
         /\ EventsOf(sent') = EventsOf(sent) \cup local
         /\ EventsOf(bins') = EventsOf(bins) \cup local
<1>1. b \notin DOMAIN sent
  BY DEF WriteBin, Batch
<1>2. /\ bins' = With(bins, b, local) /\ sent' = With(sent, b, local) /\ local \subseteq Event
      /\ DOMAIN bins \subseteq Batch /\ bins \in [DOMAIN bins -> SUBSET Event]
      /\ DOMAIN sent \subseteq Batch /\ sent \in [DOMAIN sent -> SUBSET Event]
      /\ DOMAIN bins \subseteq DOMAIN sent
  BY DEF WriteBin, SpoolInv, TypeOK, SpoolIsSent
<1>3. EventsOf(sent') = EventsOf(sent) \cup local /\ EventsOf(bins') = EventsOf(bins) \cup local
  BY <1>1, <1>2, WithEvents
<1>4. /\ DOMAIN bins' = DOMAIN bins \cup {b} /\ bins' \in [DOMAIN bins' -> SUBSET Event]
      /\ bins'[b] = local /\ \A c \in DOMAIN bins \ {b} : bins'[c] = bins[c]
  BY <1>2 DEF With
<1>5. /\ DOMAIN sent' = DOMAIN sent \cup {b} /\ sent' \in [DOMAIN sent' -> SUBSET Event]
      /\ sent'[b] = local /\ \A c \in DOMAIN sent \ {b} : sent'[c] = sent[c]
  BY <1>2 DEF With
<1> QED
  BY <1>1, <1>3, <1>4, <1>5

LEMMA BinDeleted ==
  ASSUME SpoolInv, bins' = Without(bins, cur)
  PROVE  /\ DOMAIN bins' = DOMAIN bins \ {cur} /\ DOMAIN bins' \subseteq Batch
         /\ bins' \in [DOMAIN bins' -> SUBSET Event]
         /\ \A c \in DOMAIN bins \ {cur} : bins'[c] = bins[c]
         /\ EventsOf(bins) \subseteq EventsOf(bins') \cup bins[cur]
<1>1. DOMAIN bins \subseteq Batch /\ bins \in [DOMAIN bins -> SUBSET Event]
  BY DEF SpoolInv, TypeOK
<1> QED
  BY <1>1, WithoutType, WithoutEvents

LEMMA MetaDeleted ==
  ASSUME SpoolInv, metas' = Without(metas, cur)
  PROVE  /\ DOMAIN metas' = DOMAIN metas \ {cur} /\ DOMAIN metas' \subseteq Batch
         /\ metas' \in [DOMAIN metas' -> SUBSET Event]
         /\ EventsOf(metas') \subseteq EventsOf(metas)
<1>1. DOMAIN metas \subseteq Batch /\ metas \in [DOMAIN metas -> SUBSET Event]
  BY DEF SpoolInv, TypeOK
<1> QED
  BY <1>1, WithoutType, WithoutEvents

LEMMA ZeroNoBatch == 0 \notin Batch /\ 0 \in 0 .. MaxRetries
  BY SenderAssumption DEF Batch, SenderAssumption

LEMMA SpoolMain ==
  ASSUME SpoolInv, Produce \/ MainStep \/ Flush
  PROVE  SpoolInv'
<1> USE DEF SpoolInv, TypeOK, SpoolIsSent, SeqsAreSent, CurInSpool, DownIsEmpty, MainState,
            ResendState, disk, main, resend, history
<1>1. CASE Produce
  BY <1>1, SenderAssumption DEF Produce, Event, SenderAssumption
<1>2. CASE Snapshot
  BY <1>2 DEF Snapshot
<1>3. CASE Peek
  <2>1. local' \subseteq Event /\ dropped' \subseteq Event
    BY <1>3, SenderAssumption DEF Peek, First, Event, SenderAssumption
  <2> QED
    BY <1>3, <2>1 DEF Peek
<1>4. CASE Extend
  BY <1>4 DEF Extend
<1>5. CASE Decoded
  BY <1>5 DEF Decoded
<1>6. CASE DecodePoison
  BY <1>6 DEF DecodePoison
<1>7. CASE SpoolFails
  BY <1>7 DEF SpoolFails
<1>8. ASSUME NEW e \in Event, DecodeCorrupt(e) PROVE SpoolInv'
  BY <1>8 DEF DecodeCorrupt
<1>9. ASSUME NEW b \in Batch, WriteBin(b) PROVE SpoolInv'
  <2>1. TypeOK'
    <3>1. /\ DOMAIN bins' \subseteq Batch /\ bins' \in [DOMAIN bins' -> SUBSET Event]
          /\ DOMAIN sent' \subseteq Batch /\ sent' \in [DOMAIN sent' -> SUBSET Event]
          /\ DOMAIN sent \subseteq DOMAIN sent'
      BY ZenonT(40), <1>9, BatchWritten
    <3> QED
      BY <1>9, <3>1 DEF WriteBin
  <2>2. SpoolIsSent'
    BY <1>9, BatchWritten
  <2>3. SeqsAreSent'
    BY <1>9, BatchWritten DEF WriteBin
  <2>4. CurInSpool' /\ DownIsEmpty'
    BY <1>9, BatchWritten DEF WriteBin
  <2> QED
    BY <2>1, <2>2, <2>3, <2>4
<1>10. ASSUME NEW b \in Batch, WriteMeta(b) PROVE SpoolInv'
  <2>1. /\ DOMAIN metas' = DOMAIN metas \cup {b} /\ DOMAIN metas' \subseteq Batch
        /\ metas' \in [DOMAIN metas' -> SUBSET Event]
    BY <1>10, WithType DEF WriteMeta
  <2>2. EventsOf(metas') \subseteq EventsOf(metas) \cup local
    BY <1>10, WithEvents DEF WriteMeta
  <2> QED
    BY <1>10, <2>1, <2>2 DEF WriteMeta
<1>11. CASE Flush
  BY <1>11 DEF Flush
<1> QED
  BY <1>1, <1>2, <1>3, <1>4, <1>5, <1>6, <1>7, <1>8, <1>9, <1>10, <1>11 DEF MainStep

LEMMA SpoolResend ==
  ASSUME SpoolInv, ResendStep \/ PostAccepted \/ PostRejected \/ PostFails
  PROVE  SpoolInv'
<1> USE DEF SpoolInv, TypeOK, SpoolIsSent, SeqsAreSent, CurInSpool, DownIsEmpty, MainState,
            ResendState, disk, main, resend, history
<1>1. CASE Scan
  BY <1>1, ZeroNoBatch DEF Scan
<1>2. CASE ScanDone
  BY <1>2 DEF ScanDone
<1>3. CASE Ack
  BY <1>3 DEF Ack, AckPart
<1>4. CASE Discard
  BY <1>4 DEF Discard
<1>5. CASE UnlinkBin
  <2>1. TypeOK'
    BY <1>5, BinDeleted DEF UnlinkBin
  <2>2. SpoolIsSent' /\ SeqsAreSent'
    BY <1>5, BinDeleted DEF UnlinkBin
  <2>3. CurInSpool' /\ DownIsEmpty'
    BY <1>5, BinDeleted DEF UnlinkBin
  <2> QED
    BY <2>1, <2>2, <2>3
<1>6. CASE UnlinkMeta
  <2>1. TypeOK'
    BY <1>6, MetaDeleted, ZeroNoBatch DEF UnlinkMeta, Return
  <2>2. SpoolIsSent' /\ SeqsAreSent'
    BY <1>6, MetaDeleted DEF UnlinkMeta, Return
  <2>3. CurInSpool' /\ DownIsEmpty'
    BY <1>6, ZeroNoBatch DEF UnlinkMeta, Return
  <2> QED
    BY <2>1, <2>2, <2>3
<1>7. CASE UnlinkFails
  BY <1>7, ZeroNoBatch DEF UnlinkFails, Return
<1>8. CASE SaveRejected
  BY <1>8 DEF SaveRejected
<1>9. CASE UnlinkRejected
  <2>1. TypeOK'
    BY <1>9, BinDeleted DEF UnlinkRejected
  <2>2. SpoolIsSent' /\ SeqsAreSent'
    BY <1>9, BinDeleted DEF UnlinkRejected
  <2>3. CurInSpool' /\ DownIsEmpty'
    BY <1>9, BinDeleted DEF UnlinkRejected
  <2> QED
    BY <2>1, <2>2, <2>3
<1>10. ASSUME NEW b \in Batch, ReadSpool(b) PROVE SpoolInv'
  <2>1. (b \in DOMAIN metas => metas[b] \subseteq EventsOf(metas) /\ metas[b] \subseteq Event)
    BY DEF EventsOf
  <2> QED
    BY <1>10, <2>1, SenderAssumption DEF ReadSpool, SenderAssumption
<1>11. ASSUME NEW b \in Batch, ReadTorn(b) PROVE SpoolInv'
  BY <1>11 DEF ReadTorn
<1>12. ASSUME NEW b \in Batch, ReadFails(b) PROVE SpoolInv'
  BY <1>12 DEF ReadFails
<1>13. CASE PostAccepted
  BY <1>13 DEF PostAccepted
<1>14. CASE PostRejected
  BY <1>14 DEF PostRejected
<1>15. CASE PostFails
  <2>1. attempt' \in 0 .. MaxRetries
    BY <1>15, SenderAssumption DEF PostFails, Return, SenderAssumption
  <2>2. /\ accepted \subseteq accepted' /\ accepted' \subseteq DOMAIN sent
        /\ \/ UNCHANGED <<rpc, cur, curSeqs>>
           \/ rpc' = "next" /\ cur' = 0 /\ curSeqs' = {}
        /\ UNCHANGED <<produced, disk, inFlight, main, todo, sent, packed, dropped, crashes>>
    BY <1>15 DEF PostFails, Return
  <2>3. TypeOK'
    BY <2>1, <2>2
  <2>4. SpoolIsSent' /\ SeqsAreSent' /\ DownIsEmpty'
    BY <1>15, <2>2 DEF PostFails
  <2>5. CurInSpool'
    BY <2>2, ZeroNoBatch
  <2> QED
    BY <2>3, <2>4, <2>5
<1> QED
  BY <1>1, <1>2, <1>3, <1>4, <1>5, <1>6, <1>7, <1>8, <1>9, <1>10, <1>11, <1>12, <1>13,
     <1>14, <1>15 DEF ResendStep

LEMMA SpoolProcess ==
  ASSUME SpoolInv, Start \/ Crash
  PROVE  SpoolInv'
<1> USE DEF SpoolInv, TypeOK, SpoolIsSent, SeqsAreSent, CurInSpool, DownIsEmpty, MainState,
            ResendState, disk, main, resend, history
<1>1. CASE Start
  <2>1. inFlight' \subseteq Event
    BY <1>1 DEF Start
  <2> QED
    BY <1>1, <2>1 DEF Start
<1>2. CASE Crash
  <2>1. crashes' \in 0 .. MaxCrash
    BY <1>2, SenderAssumption DEF Crash, SenderAssumption
  <2>2. queue' \subseteq queue /\ torn' \subseteq DOMAIN metas
    BY <1>2 DEF Crash, AckPart
  <2> QED
    BY <1>2, <2>1, <2>2, ZeroNoBatch DEF Crash
<1> QED
  BY <1>1, <1>2

LEMMA SpoolNext == SpoolInv /\ [Next]_vars => SpoolInv'
<1>1. ASSUME SpoolInv, UNCHANGED vars PROVE SpoolInv'
  BY <1>1 DEF SpoolInv, TypeOK, SpoolIsSent, SeqsAreSent, CurInSpool, DownIsEmpty, vars,
              disk, main, resend, history
<1> QED
  BY <1>1, SpoolMain, SpoolResend, SpoolProcess DEF Next

\* Every variable of the sender stays of its type, whatever fails and whenever
\* the process ends.
THEOREM SenderTypeCorrect == Spec => []TypeOK
  BY SpoolInit, SpoolNext, PTL DEF Spec, SpoolInv

\* A spool file is deleted (logsender.py:310-396) only after the server has
\* accepted its batch or the dead letters have every event of it.
THEOREM SpoolIsKept == Spec => SpoolKeepsBatches
<1> DEFINE Keeps == \A b \in DOMAIN bins \ DOMAIN bins' : b \in accepted \/ bins[b] \subseteq dead
<1>1. ASSUME SpoolInv, [Next]_vars PROVE [Keeps]_vars
  <2>1. \/ DOMAIN bins \subseteq DOMAIN bins'
        \/ UnlinkBin \/ UnlinkRejected
    <3>1. ASSUME NEW b \in Batch, WriteBin(b) PROVE DOMAIN bins \subseteq DOMAIN bins'
      BY <1>1, <3>1, BatchWritten
    <3> QED
      BY <1>1, <3>1
      DEF Next, MainStep, ResendStep, vars, disk, main, resend, history, Produce, Start, Crash,
          Snapshot, Peek, Extend, Decoded, DecodePoison, SpoolFails, DecodeCorrupt, WriteMeta,
          Flush, Scan, ScanDone, Ack, Discard, UnlinkMeta, UnlinkFails, SaveRejected,
          ReadSpool, ReadTorn, ReadFails, PostAccepted, PostRejected, PostFails
  <2>2. ASSUME UnlinkBin PROVE Keeps
    BY <1>1, <2>2, BinDeleted DEF UnlinkBin, SpoolInv, CurInSpool
  <2>3. ASSUME UnlinkRejected PROVE Keeps
    BY <1>1, <2>3, BinDeleted DEF UnlinkRejected, SpoolInv, CurInSpool
  <2> QED
    BY <2>1, <2>2, <2>3
<1> QED
  BY <1>1, SpoolInit, SpoolNext, PTL DEF Spec, SpoolKeepsBatches

-----------------------------------------------------------------------------
(* No event is lost *)

\* A copy outside the queue is never given up.
LEMMA KeptGrows ==
  ASSUME SpoolInv, [Next]_vars
  PROVE  Kept \subseteq Kept'
<1>1. /\ dead \subseteq dead' /\ accepted \subseteq accepted'
      /\ bins' = bins \/ UnlinkBin \/ UnlinkRejected \/ \E b \in Batch : WriteBin(b)
      /\ sent' = sent \/ \E b \in Batch : WriteBin(b)
  BY DEF Next, MainStep, ResendStep, vars, disk, main, resend, history, Produce, Start, Crash,
         Snapshot, Peek, Extend, Decoded, DecodePoison, SpoolFails, DecodeCorrupt, WriteBin,
         WriteMeta, Flush, Scan, ScanDone, Ack, Discard, UnlinkBin, UnlinkMeta, UnlinkFails,
         SaveRejected, UnlinkRejected, ReadSpool, ReadTorn, ReadFails, PostAccepted,
         PostRejected, PostFails
<1>2. accepted \subseteq DOMAIN sent
  BY DEF SpoolInv, TypeOK
<1>3. Delivered \subseteq Delivered'
  <2>1. \A b \in DOMAIN sent : sent'[b] = sent[b]
    BY <1>1, BatchWritten
  <2> QED
    BY <1>1, <1>2, <2>1 DEF Delivered
<1>4. EventsOf(bins) \subseteq EventsOf(bins') \cup Delivered \cup dead
  <2>1. CASE UnlinkBin
    <3>1. cur \in accepted /\ cur \in DOMAIN bins /\ bins[cur] = sent[cur]
      BY <2>1 DEF UnlinkBin, SpoolInv, CurInSpool, SpoolIsSent
    <3>2. bins[cur] \subseteq Delivered
      BY <3>1 DEF Delivered
    <3> QED
      BY <2>1, <3>2, BinDeleted DEF UnlinkBin
  <2>2. CASE UnlinkRejected
    BY <2>2, BinDeleted DEF UnlinkRejected, SpoolInv, CurInSpool
  <2>3. ASSUME NEW b \in Batch, WriteBin(b) PROVE EventsOf(bins) \subseteq EventsOf(bins')
    BY <2>3, BatchWritten
  <2> QED
    BY <1>1, <2>1, <2>2, <2>3
<1> QED
  BY <1>1, <1>3, <1>4 DEF Kept

LEMMA SafeGrows ==
  ASSUME SpoolInv, [Next]_vars
  PROVE  Safe \subseteq Safe'
<1>1. dropped \subseteq dropped' \/ \E b \in Batch : WriteBin(b)
  BY DEF Next, MainStep, ResendStep, vars, disk, main, resend, history, Produce, Start, Crash,
         Snapshot, Peek, Extend, Decoded, DecodePoison, SpoolFails, DecodeCorrupt, WriteMeta,
         Flush, Scan, ScanDone, Ack, Discard, UnlinkBin, UnlinkMeta, UnlinkFails,
         SaveRejected, UnlinkRejected, ReadSpool, ReadTorn, ReadFails, PostAccepted,
         PostRejected, PostFails
<1>2. ASSUME NEW b \in Batch, WriteBin(b) PROVE dropped \subseteq dropped' \cup EventsOf(bins')
  BY <1>2, BatchWritten DEF WriteBin
<1> QED
  BY <1>1, <1>2, KeptGrows DEF Safe, Kept

\* While the process runs, what leaves the main thread's hands is safe; it is
\* kept if no payload raises an exception and no copy fails to be written.
LEMMA HandedOn ==
  ASSUME SpoolInv, [Next]_vars
  PROVE  \/ Crash
         \/ /\ Hand \subseteq Safe' \cup Hand'
            /\ Poison = {} /\ Faults \cap {"spool", "dead_letter"} = {} =>
                 Hand \subseteq Kept' \cup Hand'
<1> USE DEF Hand
<1>1. \/ Crash \/ DecodePoison \/ SpoolFails \/ Hand \subseteq Hand'
      \/ (\E e \in Event : DecodeCorrupt(e)) \/ (\E b \in Batch : WriteBin(b))
  BY DEF SpoolInv, DownIsEmpty,
         Next, MainStep, ResendStep, vars, disk, main, resend, history, Produce, Start,
         Snapshot, Peek, Extend, Decoded, WriteMeta,
         Flush, Scan, ScanDone, Ack, Discard, UnlinkBin, UnlinkMeta, UnlinkFails,
         SaveRejected, UnlinkRejected, ReadSpool, ReadTorn, ReadFails, PostAccepted,
         PostRejected, PostFails
<1>2. ASSUME NEW e \in Event, DecodeCorrupt(e)
      PROVE  Hand \subseteq dead' \cup dropped' \cup Hand' /\
             ("dead_letter" \notin Faults => Hand \subseteq dead' \cup Hand')
  BY <1>2 DEF DecodeCorrupt
<1>3. ASSUME NEW b \in Batch, WriteBin(b) PROVE Hand \subseteq EventsOf(bins') \cup Hand'
  BY <1>3, BatchWritten DEF WriteBin
<1>4. CASE DecodePoison
  BY <1>4 DEF DecodePoison, Safe
<1>5. CASE SpoolFails
  BY <1>5 DEF SpoolFails, Safe
<1> QED
  BY <1>1, <1>2, <1>3, <1>4, <1>5 DEF Safe, Kept

\* Only what an ack may delete leaves the queue.
LEMMA QueueNext ==
  ASSUME SpoolInv, [Next]_vars
  PROVE  queue \subseteq queue' \cup UpTo(EventsOf(sent))
<1>1. queue' = queue \ UpTo(curSeqs) \/ AckPart \/ queue \subseteq queue'
  BY DEF Next, MainStep, ResendStep, vars, disk, main, resend, history, Produce, Start, Crash,
         Snapshot, Peek, Extend, Decoded, DecodePoison, SpoolFails, DecodeCorrupt, WriteBin,
         WriteMeta, Flush, Scan, ScanDone, Ack, Discard, UnlinkBin, UnlinkMeta, UnlinkFails,
         SaveRejected, UnlinkRejected, ReadSpool, ReadTorn, ReadFails, PostAccepted,
         PostRejected, PostFails
<1>2. curSeqs \subseteq EventsOf(sent)
  BY DEF SpoolInv, SeqsAreSent
<1>3. UpTo(curSeqs) \subseteq UpTo(EventsOf(sent))
  BY <1>2 DEF UpTo
<1>4. ASSUME NEW e \in UpTo(curSeqs) PROVE UpTo({e}) \subseteq UpTo(curSeqs)
  <2>1. e \in Event /\ \E m \in curSeqs : e <= m
    BY DEF UpTo
  <2>2. curSeqs \subseteq Event
    BY DEF SpoolInv, TypeOK
  <2> QED
    BY <2>1, <2>2 DEF UpTo, Event
<1> QED
  BY <1>1, <1>3, <1>4 DEF AckPart

LEMMA SentIsWritten ==
  ASSUME [Next]_vars
  PROVE  sent' = sent \/ \E b \in Batch : WriteBin(b)
  BY DEF Next, MainStep, ResendStep, vars, disk, main, resend, history, Produce, Start, Crash,
         Snapshot, Peek, Extend, Decoded, DecodePoison, SpoolFails, DecodeCorrupt,
         WriteMeta, Flush, Scan, ScanDone, Ack, Discard, UnlinkBin, UnlinkMeta, UnlinkFails,
         SaveRejected, UnlinkRejected, ReadSpool, ReadTorn, ReadFails, PostAccepted,
         PostRejected, PostFails

LEMMA SentNext ==
  ASSUME SpoolInv, [Next]_vars, SentIsKept
  PROVE  /\ SentIsKept'
         /\ EventsOf(sent') = EventsOf(sent) \/ (mpc = "bin" /\ EventsOf(sent') = EventsOf(sent) \cup local)
<1>1. sent' = sent \/ \E b \in Batch : WriteBin(b)
  BY SentIsWritten
<1>2. ASSUME NEW b \in Batch, WriteBin(b)
      PROVE  /\ mpc = "bin" /\ EventsOf(sent') = EventsOf(sent) \cup local
             /\ local \subseteq EventsOf(bins')
  BY <1>2, BatchWritten DEF WriteBin
<1> QED
  BY <1>1, <1>2, KeptGrows DEF SentIsKept, Kept

\* The n smallest elements of a set are older than its others.
LEMMA FirstIsOldest ==
  ASSUME NEW S, S \subseteq Event, NEW n \in Int, NEW e \in First(S, n), NEW d \in S, d <= e
  PROVE  d \in First(S, n)
<1> DEFINE Older(x) == {c \in S : c < x}
<1>1. Older(e) \subseteq Event /\ e \in Event /\ d \in Event
  BY DEF First
<1>2. Older(d) \subseteq Older(e)
  <2>1. \A c \in Event : c < d => c < e
    BY <1>1 DEF Event
  <2> QED
    BY <2>1
<1>3. IsFiniteSet(Older(e)) /\ Cardinality(Older(e)) \in Nat /\ Cardinality(Older(d)) \in Nat
  BY <1>1, <1>2, EventsFinite
<1>4. Cardinality(Older(d)) <= Cardinality(Older(e))
  BY <1>2, <1>3, FS_Subset
<1>5. Cardinality(Older(e)) < n
  BY DEF First
<1>6. Cardinality(Older(d)) < n
  <2> HIDE DEF Older
  <2> QED
    BY <1>3, <1>4, <1>5
<1> QED
  BY <1>6 DEF First

\* Peek takes the oldest events of the queue that are neither in flight nor
\* skipped: all that is older than one of them is with it, in hand or safe.
LEMMA PeekTakesOldest ==
  ASSUME OrderInv, Peek
  PROVE  UpTo(Hand') \subseteq Safe' \cup Hand'
<1>1. PICK skipped \in SUBSET (queue \cap Unreadable) :
        /\ local' = First((queue \ skipped) \ local, BatchSize - Cardinality(buffer))
        /\ dropped' = dropped \cup (skipped \ local)
  BY DEF Peek
<1> DEFINE new == (queue \ skipped) \ local
           n == BatchSize - Cardinality(buffer)
<1>2. /\ mpc = "peek" /\ UNCHANGED buffer
      /\ Hand = buffer /\ Hand' = buffer \cup local' /\ queue \subseteq Event
      /\ local \subseteq Safe \cup buffer /\ UpTo(buffer) \subseteq Safe \cup buffer
  <2>1. mpc = "peek" /\ mpc' \in {"idle", "extend"} /\ UNCHANGED buffer
        /\ (mpc' = "idle" => local' = {})
    BY DEF Peek
  <2>2. Hand = buffer /\ Hand' = buffer \cup local'
    BY <2>1 DEF Hand
  <2>3. local \subseteq Safe \cup buffer /\ UpTo(buffer) \subseteq Safe \cup buffer
    BY <2>1, <2>2 DEF OrderInv, FlightIn, OlderIsSafe
  <2>4. queue \subseteq Event
    BY SenderAssumption DEF OrderInv, SpoolInv, TypeOK, Event, SenderAssumption
  <2> QED
    BY <2>1, <2>2, <2>3, <2>4
<1>3. Safe \subseteq Safe' /\ skipped \ local \subseteq Safe'
  BY <1>1, SafeGrows DEF Next, MainStep, OrderInv, Safe
<1>4. ASSUME NEW e \in local', NEW d \in Event, d <= e
      PROVE  d \in Safe' \cup Hand'
  <2>1. e \in new
    BY <1>1, <1>4 DEF First
  <2>2. d \in 1 .. produced
    <3>1. e \in 1 .. produced /\ produced \in Nat
      BY <2>1, SenderAssumption DEF OrderInv, SpoolInv, TypeOK, SenderAssumption
    <3> QED
      BY <1>4, <3>1 DEF Event
  <2>3. d \in queue \cup Safe
    BY <2>2 DEF OrderInv, NoEventLost, Safe, Kept
  <2>4. CASE d \in new
    <3>1. n \in Int /\ new \subseteq Event /\ e \in First(new, n)
      <4>1. Cardinality(buffer) \in Nat
        BY EventsFinite DEF OrderInv, SpoolInv, TypeOK
      <4>2. n \in Int
        BY <4>1, SenderAssumption DEF SenderAssumption
      <4> QED
        BY <1>1, <1>2, <1>4, <4>2
    <3>2. d \in First(new, n)
      BY <1>4, <2>4, <3>1, FirstIsOldest
    <3> QED
      BY <1>1, <1>2, <3>2
  <2> QED
    BY <1>2, <1>3, <2>3, <2>4
<1>5. UpTo(buffer) \subseteq Safe' \cup Hand'
  BY <1>2, <1>3
<1> QED
  BY <1>2, <1>4, <1>5 DEF UpTo

\* Nothing but a peek puts more in hand.
LEMMA HandNext ==
  ASSUME SpoolInv, [Next]_vars
  PROVE  Peek \/ Hand' \subseteq Hand
  BY DEF Hand, SpoolInv, DownIsEmpty,
         Next, MainStep, ResendStep, vars, disk, main, resend, history, Produce, Start, Crash,
         Snapshot, Extend, Decoded, DecodePoison, SpoolFails, DecodeCorrupt, WriteBin,
         WriteMeta, Flush, Scan, ScanDone, Ack, Discard, UnlinkBin, UnlinkMeta, UnlinkFails,
         SaveRejected, UnlinkRejected, ReadSpool, ReadTorn, ReadFails, PostAccepted,
         PostRejected, PostFails

LEMMA OlderNext ==
  ASSUME OrderInv, [Next]_vars
  PROVE  OlderIsSafe'
<1>1. /\ SpoolInv /\ SentIsKept /\ Safe \subseteq Safe'
      /\ UpTo(EventsOf(sent)) \subseteq Safe /\ UpTo(Hand) \subseteq Safe \cup Hand
  BY SafeGrows DEF OrderInv, OlderIsSafe
<1>2. UpTo(EventsOf(sent')) \subseteq Safe'
  <2>1. CASE EventsOf(sent') = EventsOf(sent)
    BY <1>1, <2>1
  <2>2. CASE mpc = "bin" /\ EventsOf(sent') = EventsOf(sent) \cup local
    <3>1. Hand = local
      BY <1>1, <2>2 DEF Hand, SpoolInv, DownIsEmpty
    <3>2. UpTo(EventsOf(sent) \cup local) \subseteq UpTo(EventsOf(sent)) \cup UpTo(local)
      BY DEF UpTo
    <3>3. local \subseteq Safe'
      BY <1>1, <2>2, SentNext DEF SentIsKept, Safe
    <3> QED
      BY <1>1, <2>2, <3>1, <3>2, <3>3
  <2> QED
    BY <1>1, <2>1, <2>2, SentNext
<1>3. UpTo(Hand') \subseteq Safe' \cup Hand'
  <2>1. CASE Hand' \subseteq Hand /\ Hand \subseteq Safe' \cup Hand'
    <3>1. UpTo(Hand') \subseteq UpTo(Hand)
      BY <2>1 DEF UpTo
    <3> QED
      BY <1>1, <2>1, <3>1
  <2>2. CASE Crash
    <3>1. Hand' = {}
      BY <2>2 DEF Crash, Hand
    <3> QED
      BY <3>1 DEF UpTo
  <2> QED
    BY <1>1, <2>1, <2>2, HandedOn, HandNext, PeekTakesOldest
<1> QED
  BY <1>2, <1>3 DEF OlderIsSafe

\* S is Safe or Kept before the step, and T after it.
LEMMA FlightNext ==
  ASSUME SpoolInv, [Next]_vars, NEW S, NEW T, S \subseteq T, FlightIn(S),
         EventsOf(sent) \subseteq S, Crash \/ Hand \subseteq T \cup Hand'
  PROVE  inFlight' \subseteq T \cup Hand' /\ (mpc' = "peek" => local' \subseteq T \cup Hand')
<1>1. CASE Crash
  BY <1>1 DEF Crash
<1>2. CASE Start
  <2>1. inFlight' \subseteq EventsOf(metas)
    BY <1>2 DEF Start, EventsOf
  <2> QED
    BY <1>2, <2>1 DEF Start, SpoolInv, SeqsAreSent
<1>3. CASE Hand \subseteq T \cup Hand' /\ ~Crash /\ ~Start
  <2>1. inFlight' \subseteq inFlight \cup Hand'
    BY <1>3 DEF Hand, Next, MainStep, ResendStep, vars, disk, main, resend, history, Produce,
         Snapshot, Peek, Extend, Decoded, DecodePoison, SpoolFails, DecodeCorrupt, WriteBin,
         WriteMeta, Flush, Scan, ScanDone, Ack, Discard, UnlinkBin, UnlinkMeta, UnlinkFails,
         SaveRejected, UnlinkRejected, ReadSpool, ReadTorn, ReadFails, PostAccepted,
         PostRejected, PostFails
  <2>2. mpc' = "peek" => local' = inFlight \/ (mpc = "peek" /\ local' = local)
    BY <1>3 DEF Next, MainStep, ResendStep, vars, disk, main, resend, history, Produce,
         Snapshot, Peek, Extend, Decoded, DecodePoison, SpoolFails, DecodeCorrupt, WriteBin,
         WriteMeta, Flush, Scan, ScanDone, Ack, Discard, UnlinkBin, UnlinkMeta, UnlinkFails,
         SaveRejected, UnlinkRejected, ReadSpool, ReadTorn, ReadFails, PostAccepted,
         PostRejected, PostFails
  <2> QED
    BY <1>3, <2>1, <2>2 DEF FlightIn
<1> QED
  BY <1>1, <1>2, <1>3

LEMMA NoLossNext ==
  ASSUME OrderInv, [Next]_vars
  PROVE  NoEventLost'
<1>1. produced' = produced \/ Produce
  BY DEF Next, MainStep, ResendStep, vars, disk, main, resend, history, Start, Crash,
         Snapshot, Peek, Extend, Decoded, DecodePoison, SpoolFails, DecodeCorrupt, WriteBin,
         WriteMeta, Flush, Scan, ScanDone, Ack, Discard, UnlinkBin, UnlinkMeta, UnlinkFails,
         SaveRejected, UnlinkRejected, ReadSpool, ReadTorn, ReadFails, PostAccepted,
         PostRejected, PostFails
<1>2. 1 .. produced' \subseteq 1 .. produced \cup queue'
  <2>1. CASE Produce
    <3>1. produced \in Nat
      BY SenderAssumption DEF OrderInv, SpoolInv, TypeOK, SenderAssumption
    <3> QED
      BY <2>1, <3>1 DEF Produce
  <2> QED
    BY <1>1, <2>1
<1>3. 1 .. produced \subseteq queue' \cup Safe'
  BY QueueNext, SafeGrows DEF OrderInv, NoEventLost, OlderIsSafe, Safe, Kept
<1> QED
  BY <1>2, <1>3 DEF NoEventLost, Safe, Kept

LEMMA OrderInit == Init => FlightInv
  BY SpoolInit, EmptyType
  DEF Init, FlightInv, OrderInv, SentIsKept, NoEventLost, OlderIsSafe, FlightIn, Hand, UpTo,
      Safe, Kept

LEMMA OrderNext == OrderInv /\ [Next]_vars => OrderInv'
<1> SUFFICES ASSUME OrderInv, [Next]_vars PROVE OrderInv'
  OBVIOUS
<1>1. SpoolInv /\ SpoolInv' /\ SentIsKept /\ SentIsKept'
  BY SpoolNext, SentNext DEF OrderInv
<1>2. FlightIn(Safe)'
  <2>1. FlightIn(Safe) /\ EventsOf(sent) \subseteq Safe /\ Safe \subseteq Safe'
    BY <1>1, SafeGrows DEF OrderInv, SentIsKept, Safe
  <2> QED
    BY <1>1, <2>1, HandedOn, FlightNext DEF FlightIn
<1> QED
  BY <1>1, <1>2, NoLossNext, OlderNext DEF OrderInv

\* Whatever fails and whenever the process ends, an event is in the queue, at the
\* server, in the dead letters or in a spool file, or the code itself has let go
\* of it: an ack, which deletes all older events too (logsender.py:381), takes
\* off the queue only events with a copy elsewhere.
THEOREM EventsAreSafe == Spec => []NoEventLost
<1>1. OrderInv => NoEventLost
  BY DEF OrderInv
<1>2. Init => OrderInv
  BY OrderInit DEF FlightInv
<1> QED
  BY <1>1, <1>2, OrderNext, PTL DEF Spec

-----------------------------------------------------------------------------
(* Nothing is forgotten in flight *)

LEMMA FlightInvNext ==
  ASSUME Poison = {}, Faults \cap {"spool", "dead_letter"} = {}
  PROVE  FlightInv /\ [Next]_vars => FlightInv'
<1> SUFFICES ASSUME FlightInv, [Next]_vars PROVE FlightInv'
  OBVIOUS
<1>1. OrderInv /\ OrderInv' /\ SpoolInv /\ FlightIn(Kept)
  BY OrderNext DEF FlightInv, OrderInv
<1>2. FlightIn(Kept)'
  <2>1. EventsOf(sent) \subseteq Kept /\ Kept \subseteq Kept'
    BY <1>1, KeptGrows DEF OrderInv, SentIsKept
  <2>2. Crash \/ Hand \subseteq Kept' \cup Hand'
    BY <1>1, HandedOn
  <2> QED
    BY <1>1, <2>1, <2>2, FlightNext DEF FlightIn
<1> QED
  BY <1>1, <1>2 DEF FlightInv

\* As long as the payloads decode and the spool and the dead letters can be
\* written, an event of the queue that the main thread must not take again
\* (_in_flight) is in its hands or has a copy; whatever else fails.  Otherwise the
\* code leaves events in _in_flight on purpose (logsender.py:239).
THEOREM FlightIsHeld ==
  ASSUME Poison = {}, Faults \cap {"spool", "dead_letter"} = {}
  PROVE  Spec => []NothingForgotten
<1>1. FlightInv => NothingForgotten
  BY DEF FlightInv, FlightIn, Hand, Kept, NothingForgotten
<1>2. FlightInv /\ [Next]_vars => FlightInv'
  BY FlightInvNext
<1> QED
  BY <1>1, <1>2, OrderInit, PTL DEF Spec

-----------------------------------------------------------------------------
(* No event is packed twice *)

ClaimInv == SpoolInv /\ ClaimedOnce

LEMMA ClaimInit == Init => ClaimInv
  BY SpoolInit, EmptyType DEF Init, ClaimInv, ClaimedOnce, Claimed, Hand

LEMMA ClaimNext ==
  ASSUME "ack" \notin Faults
  PROVE  ClaimInv /\ [Next]_vars => ClaimInv'
<1> SUFFICES ASSUME ClaimInv, [Next]_vars PROVE ClaimedOnce'
  BY SpoolNext DEF ClaimInv
<1> USE DEF ClaimedOnce, Claimed, Hand, disk, main, resend, history
<1>1. /\ ClaimedOnce /\ DownIsEmpty /\ queue \subseteq 1 .. produced /\ produced \in Nat
      /\ curSeqs \subseteq UpTo(curSeqs) /\ EventsOf(metas) \cup curSeqs \subseteq EventsOf(sent)
  <2>1. curSeqs \subseteq Event
    BY DEF ClaimInv, SpoolInv, TypeOK
  <2>2. \A e \in Event : e <= e
    BY DEF Event
  <2> QED
    BY <2>1, <2>2, SenderAssumption
    DEF ClaimInv, SpoolInv, TypeOK, SeqsAreSent, UpTo, SenderAssumption
<1>2. CASE Produce
  <2>1. produced + 1 \notin 1 .. produced /\ 1 .. produced \subseteq 1 .. produced + 1
    BY <1>1
  <2> QED
    BY <1>1, <1>2, <2>1 DEF Produce
<1>3. CASE Start
  <2>1. inFlight' \subseteq EventsOf(metas)
    BY <1>3 DEF Start, EventsOf
  <2> QED
    BY <1>1, <1>3, <2>1 DEF Start, DownIsEmpty
<1>4. CASE Crash
  BY <1>1, <1>4 DEF Crash
<1>5. CASE Snapshot
  BY <1>1, <1>5 DEF Snapshot
<1>6. CASE Peek
  BY <1>1, <1>6 DEF Peek, First
<1>7. CASE Extend
  BY <1>1, <1>7 DEF Extend
<1>8. CASE Decoded \/ DecodePoison \/ SpoolFails \/ \E e \in Event : DecodeCorrupt(e)
  BY <1>1, <1>8 DEF Decoded, DecodePoison, SpoolFails, DecodeCorrupt, DownIsEmpty
<1>9. ASSUME NEW b \in Batch, WriteBin(b) \/ WriteMeta(b) PROVE ClaimedOnce'
  <2>1. CASE WriteBin(b)
    <3>1. EventsOf(sent') = EventsOf(sent) \cup local
      BY <2>1, BatchWritten DEF ClaimInv
    <3> QED
      BY <1>1, <2>1, <3>1 DEF WriteBin, DownIsEmpty
  <2>2. CASE WriteMeta(b)
    BY <1>1, <2>2 DEF WriteMeta, DownIsEmpty
  <2> QED
    BY <1>9, <2>1, <2>2
<1>10. CASE Flush
  BY <1>1, <1>10 DEF Flush
<1>11. CASE Ack
  BY <1>1, <1>11 DEF Ack
<1>12. CASE Discard
  BY <1>1, <1>12 DEF Discard
<1>13. CASE Scan \/ ScanDone \/ UnlinkBin \/ UnlinkMeta \/ UnlinkFails \/ SaveRejected
            \/ UnlinkRejected \/ \E b \in Batch : ReadSpool(b) \/ ReadTorn(b) \/ ReadFails(b)
  BY <1>1, <1>13
  DEF Scan, ScanDone, UnlinkBin, UnlinkMeta, UnlinkFails, SaveRejected, UnlinkRejected,
      ReadSpool, ReadTorn, ReadFails, Return
<1>14. CASE PostAccepted \/ PostRejected \/ PostFails
  BY <1>1, <1>14 DEF PostAccepted, PostRejected, PostFails, Return
<1>15. CASE UNCHANGED vars
  BY <1>1, <1>15 DEF vars
<1> QED
  BY <1>2, <1>3, <1>4, <1>5, <1>6, <1>7, <1>8, <1>9, <1>10, <1>11, <1>12, <1>13, <1>14,
     <1>15 DEF Next, MainStep, ResendStep

\* As long as the queue's ack_seqs raises nothing, a new batch has no event that
\* this process has packed before or found packed when it started; whatever else
\* fails.  An ack that raised has left events in the queue that Discard takes out of
\* _in_flight.
THEOREM EventsArePackedOnce ==
  ASSUME "ack" \notin Faults
  PROVE  Spec => NoRepacking
<1>1. ASSUME ClaimInv, [Next]_vars PROVE [NewBatchIsNew]_vars
  <2>1. sent' = sent \/ \E b \in Batch : WriteBin(b)
    BY <1>1, SentIsWritten DEF ClaimInv
  <2>2. ASSUME NEW b \in Batch, WriteBin(b) PROVE NewBatchIsNew
    <3>1. DOMAIN sent' \ DOMAIN sent \subseteq {b} /\ sent'[b] = local
      BY <1>1, <2>2, BatchWritten DEF ClaimInv
    <3>2. local \cap packed = {}
      BY <1>1, <2>2 DEF ClaimInv, ClaimedOnce, Hand, WriteBin
    <3> QED
      BY <3>1, <3>2 DEF NewBatchIsNew
  <2> QED
    BY <2>1, <2>2 DEF NewBatchIsNew
<1>2. ClaimInv /\ [Next]_vars => ClaimInv'
  BY ClaimNext
<1> QED
  BY <1>1, <1>2, ClaimInit, PTL DEF Spec, NoRepacking

=============================================================================
