----------------------------- MODULE AgentProofs -----------------------------
(***************************************************************************)
(* Proofs about Agent, for every number of events, lines, batches and      *)
(* crashes, every batch size and retry limit, every set of events that do  *)
(* not decode or cannot be read, and every set of failures of the sender.  *)
(*                                                                         *)
(* A step of the agent is a step of the sender, or leaves the sender       *)
(* alone, or begins the numbering anew: what LogSenderProofs shows of the  *)
(* spool holds here too.  Its invariants on numbers do not, because a      *)
(* number comes again; what takes their place speaks of lines.             *)
(***************************************************************************)
EXTENDS Agent, LogSenderProofs

-----------------------------------------------------------------------------
(* The inductive invariant *)

\* Lines with a copy outside the queue, or excused.
SafeLines == LinesOf(DOMAIN bins) \cup Arrived \cup atRisk

\* The numbers that an ack may come with, now or later.
Ackable == EventsOf(metas) \cup curSeqs \cup IF mpc = "meta" THEN local ELSE {}

\* The numbers that the main thread will not take from the queue.
Skipped == inFlight \cup IF mpc = "peek" THEN local ELSE {}

\* Numbers in memory and on disk are of events of the present numbering, or are
\* no larger than the largest in the spool when it began.
NumbersKnown ==
  /\ \A m \in Ackable \cup Skipped : m <= produced \/ m <= stale
  /\ Hand \subseteq 1 .. produced

\* An ack deletes all older items too, so what is older than a number it may come
\* with has a copy elsewhere.
AckIsSafe == \A e \in queue \cap UpTo(Ackable) : item[e] \in SafeLines

\* The main thread has the oldest items: what is older than one of them is in its
\* hands too, or has a copy; and these are items, or have a copy.
HandIsOldest ==
  /\ \A e \in queue \cap UpTo(Hand) : e \in Hand \/ item[e] \in SafeLines
  /\ \A e \in Hand : e \in queue \/ item[e] \in SafeLines

\* What is skipped is in hand or has a copy.
SkippedIsHeld == \A e \in queue \cap Skipped : e \in Hand \/ item[e] \in SafeLines

\* A number that is in use stands for a line, and every batch has its lines.
ItemsAreLines == \A e \in queue \cup Hand : item[e] \in Line

\* A process that does not run has no memory; a batch is deleted as rejected
\* only if it is in the dead letters; a line is noted after it was put.
ProcessState ==
  /\ mpc = "down" => inFlight = {} /\ curSeqs = {} /\ ~noting
  /\ metaLost => mpc = "down"
  /\ rpc = "unlink_rejected" => carries[cur] \subseteq deadLines
  /\ noting => pos >= 1 /\ produced >= 1
  /\ saved = [offset |-> saved.offset, notes |-> saved.notes]

RelayInv ==
  /\ SpoolInv /\ AgentTypeOK /\ NumbersKnown /\ AckIsSafe /\ HandIsOldest
  /\ SkippedIsHeld /\ ItemsAreLines /\ ProcessState /\ NoLineLost

-----------------------------------------------------------------------------
(* Facts about the operators *)

\* A set of numbers with a bound has a largest one, or 0 if it is empty.
LEMMA LargestIs ==
  ASSUME NEW n \in Nat, NEW S, S \subseteq 0 .. n
  PROVE  /\ Largest(S) \in S \cup {0} /\ Largest(S) \in 0 .. n
         /\ \A m \in S : m <= Largest(S)
<1> DEFINE bounds == {k \in Nat : \A m \in S : m <= k}
<1>1. n \in bounds
  OBVIOUS
<1>2. PICK k \in bounds : \A j \in bounds : ~(j < k)
  <2>1. PICK k \in bounds : \A j \in bounds : <<j, k>> \notin OpToRel(<, Nat)
    <3> HIDE DEF bounds
    <3>1. bounds \subseteq Nat /\ bounds # {}
      BY <1>1 DEF bounds
    <3> QED
      BY <3>1, WFMin, NatLessThanWellFounded
  <2> QED
    BY <2>1 DEF OpToRel
<1>3. k \in S \cup {0}
  <2>1. CASE k = 0
    BY <2>1
  <2>2. CASE k # 0 /\ k \notin S
    <3>1. k - 1 \in bounds
      BY <2>2
    <3> QED
      BY <1>2, <3>1
  <2> QED
    BY <2>1, <2>2
<1>4. k \in S \cup {0} /\ \A m \in S : m <= k
  BY <1>3
<1>5. Largest(S) \in S \cup {0} /\ \A m \in S : m <= Largest(S)
  BY <1>4 DEF Largest
<1>6. S \cup {0} \subseteq 0 .. n
  OBVIOUS
<1> HIDE DEF bounds
<1> QED
  BY <1>5, <1>6

-----------------------------------------------------------------------------
(* Steps of the agent and steps of the sender *)

LEMMA LineBound == MaxLine \in Nat
  BY AgentAssumption DEF AgentAssumption

LEMMA SenderMoves == [AgentNext]_agentVars => [Next]_vars \/ RebuildNumbers
  BY DEF agentVars, AgentNext, PutLine, NoteLine, SaveOffset, SaveNotes, AckLines,
         SaveRejectedLines, PackLines, CrashAgent, StartAgent, SenderStep, PeekLines,
         SpoolFailsLines, DecodePoisonLines, DecodeCorruptSaved, DecodeCorruptLost, GiveUp,
         Next, MainStep, ResendStep

\* Numbering goes on after the last item.
LEMMA Renumbered ==
  ASSUME RelayInv, RebuildNumbers
  PROVE  /\ produced' \in 0 .. produced /\ queue \subseteq 1 .. produced'
         /\ LastNumber < produced \/ LastNumber = produced
         /\ LastNumber < produced =>
              stale' \in 0 .. MaxEvent /\ \A m \in EventsOf(metas) : m <= stale'
         /\ LastNumber = produced => produced' = produced /\ stale' = stale
         /\ UNCHANGED <<disk, inFlight, main, resend, accepted, sent, packed, crashes,
                         collector, lines, atRisk>>
         /\ dropped' \subseteq dropped
<1>1. produced \in Nat /\ queue \subseteq 1 .. produced
  BY SenderAssumption DEF RelayInv, SpoolInv, TypeOK, SenderAssumption
<1>2. LastNumber \in 0 .. produced /\ \A e \in queue : e <= LastNumber
  <2>1. queue \subseteq 0 .. produced
    BY <1>1
  <2> QED
    BY <1>1, <2>1, LargestIs DEF LastNumber
<1>3. Largest(EventsOf(metas)) \in 0 .. MaxEvent
      /\ \A m \in EventsOf(metas) : m <= Largest(EventsOf(metas))
  <2>1. EventsOf(metas) \subseteq 0 .. MaxEvent
    <3>1. \A b \in DOMAIN metas : metas[b] \subseteq Event
      BY DEF RelayInv, SpoolInv, TypeOK
    <3>2. Event \subseteq 0 .. MaxEvent
      BY DEF Event
    <3> QED
      BY <3>1, <3>2 DEF EventsOf
  <2>2. MaxEvent \in Nat
    BY SenderAssumption DEF SenderAssumption
  <2> QED
    BY <2>1, <2>2, LargestIs
<1>4. queue \subseteq 1 .. LastNumber
  BY <1>1, <1>2
<1> QED
  BY <1>1, <1>2, <1>3, <1>4 DEF RebuildNumbers

LEMMA SpoolMoves == RelayInv /\ [AgentNext]_agentVars => SpoolInv'
<1>1. ASSUME RelayInv, RebuildNumbers PROVE SpoolInv'
  <2>1. /\ produced' \in 0 .. MaxEvent /\ queue' \subseteq 1 .. produced'
        /\ UNCHANGED <<disk, inFlight, main, resend, accepted, sent, packed, crashes>>
        /\ dropped' \subseteq dropped
    BY <1>1, Renumbered, SenderAssumption
    DEF RelayInv, SpoolInv, TypeOK, SenderAssumption, disk
  <2> QED
    BY <1>1, <2>1 DEF RelayInv, SpoolInv, TypeOK, SpoolIsSent, SeqsAreSent, CurInSpool,
                      DownIsEmpty, disk, main, resend, history
<1> QED
  BY <1>1, SenderMoves, SpoolNext DEF RelayInv

\* Which steps touch what.
LEMMA LinesMove ==
  ASSUME [AgentNext]_agentVars
  PROVE  /\ item' = item \/ PutLine
         /\ (carries' = carries) \/ \E b \in Batch : PackLines(b)
         /\ bins' = bins \/ UnlinkBin \/ UnlinkRejected \/ \E b \in Batch : PackLines(b)
         /\ deadLines' = deadLines \/ SaveRejectedLines
            \/ \E e \in Event : DecodeCorruptSaved(e)
         /\ deadLines \subseteq deadLines' /\ accepted \subseteq accepted'
         /\ atRisk \subseteq atRisk'
  BY DEF agentVars, AgentNext, PutLine, NoteLine, SaveOffset, SaveNotes, AckLines,
         SaveRejectedLines, PackLines, CrashAgent, RebuildNumbers, StartAgent, SenderStep,
         PeekLines, SpoolFailsLines, DecodePoisonLines, DecodeCorruptSaved,
         DecodeCorruptLost, GiveUp, vars, collector, lines, numbering, disk, main, resend,
         history, Produce, Start, Crash, Snapshot, DecodePoison, SpoolFails, DecodeCorrupt,
         ReadTorn, ReadFails, UnlinkFails, Peek, Extend, Decoded, WriteBin, WriteMeta, Flush,
         Scan, ScanDone, Ack, Discard, UnlinkBin, UnlinkMeta, SaveRejected, UnlinkRejected,
         ReadSpool, PostAccepted, PostRejected, PostFails

\* Lines are given up only of items in the queue or in hand.
LEMMA LinesGivenUp ==
  ASSUME RelayInv, [AgentNext]_agentVars
  PROVE  \/ atRisk' = atRisk \/ PutLine
         \/ /\ \E S \in SUBSET (queue \cup Hand) : GiveUp(S)
            /\ UNCHANGED <<queue, bins, accepted>>
<1>1. CASE PeekLines
  BY <1>1 DEF PeekLines, Peek, disk
<1>2. CASE SpoolFailsLines
  BY <1>2 DEF SpoolFailsLines, SpoolFails, Hand, disk
<1>3. CASE DecodePoisonLines
  BY <1>3 DEF DecodePoisonLines, DecodePoison, Hand, disk
<1>4. ASSUME NEW e \in Event, DecodeCorruptLost(e)
      PROVE  /\ \E S \in SUBSET (queue \cup Hand) : GiveUp(S)
             /\ UNCHANGED <<queue, bins, accepted>>
  <2>1. {e} \in SUBSET (queue \cup Hand) /\ GiveUp({e})
    BY <1>4 DEF DecodeCorruptLost, DecodeCorrupt, Hand
  <2> QED
    BY <1>4, <2>1 DEF DecodeCorruptLost, DecodeCorrupt
<1> QED
  BY <1>1, <1>2, <1>3, <1>4
  DEF agentVars, AgentNext, NoteLine, SaveOffset, SaveNotes, AckLines, SaveRejectedLines,
      PackLines, CrashAgent, RebuildNumbers, StartAgent, SenderStep, DecodeCorruptSaved,
      numbering

\* A batch is written once, with the lines of its items.
LEMMA BatchPacked ==
  ASSUME RelayInv, NEW b \in Batch, PackLines(b)
  PROVE  /\ b \notin DOMAIN carries /\ DOMAIN carries' = DOMAIN carries \cup {b}
         /\ carries'[b] = {item[e] : e \in local}
         /\ \A c \in DOMAIN carries : carries'[c] = carries[c]
         /\ DOMAIN bins' = DOMAIN bins \cup {b} /\ mpc = "bin" /\ Hand = local
         /\ UNCHANGED <<item, queue, metas, curSeqs, inFlight, accepted, deadLines, atRisk>>
<1>1. b \notin DOMAIN carries /\ DOMAIN bins' = DOMAIN bins \cup {b}
  BY BatchWritten DEF RelayInv, AgentTypeOK, PackLines
<1>2. mpc = "bin" /\ Hand = local
  BY DEF PackLines, WriteBin, RelayInv, SpoolInv, DownIsEmpty, Hand
<1>3. carries' = With(carries, b, {item[e] : e \in local})
  BY DEF PackLines
<1>4. /\ DOMAIN carries' = DOMAIN carries \cup {b}
      /\ carries'[b] = {item[e] : e \in local}
      /\ \A c \in DOMAIN carries : carries'[c] = carries[c]
  BY <1>1, <1>3 DEF With
<1> QED
  BY <1>1, <1>2, <1>4 DEF PackLines, WriteBin, resend, numbering

\* A batch leaves the spool when its lines have arrived.
LEMMA BinsMove ==
  ASSUME RelayInv, [AgentNext]_agentVars
  PROVE  \A b \in DOMAIN bins : b \in DOMAIN bins' \/ carries[b] \subseteq Arrived
<1>1. ASSUME UnlinkBin \/ UnlinkRejected
      PROVE  DOMAIN bins' = DOMAIN bins \ {cur} /\ carries[cur] \subseteq Arrived
  <2>1. DOMAIN bins' = DOMAIN bins \ {cur}
    BY <1>1, BinDeleted DEF UnlinkBin, UnlinkRejected, RelayInv
  <2>2. cur \in accepted \/ carries[cur] \subseteq deadLines
    BY <1>1 DEF UnlinkBin, UnlinkRejected, RelayInv, SpoolInv, CurInSpool, ProcessState
  <2> QED
    BY <2>1, <2>2 DEF Arrived, LinesOf
<1> QED
  BY <1>1, LinesMove, BatchPacked

\* A copy outside the queue is never given up.
LEMMA SafeLinesGrow ==
  ASSUME RelayInv, [AgentNext]_agentVars
  PROVE  SafeLines \subseteq SafeLines'
<1>1. \A b \in DOMAIN carries : b \in DOMAIN carries' /\ carries'[b] = carries[b]
  BY LinesMove, BatchPacked
<1>2. DOMAIN bins \cup accepted \subseteq DOMAIN carries
  BY DEF RelayInv, SpoolInv, SpoolIsSent, TypeOK, AgentTypeOK
<1>3. Arrived \subseteq Arrived' /\ atRisk \subseteq atRisk'
  BY <1>1, <1>2, LinesMove DEF Arrived, LinesOf
<1>4. \A b \in DOMAIN bins : b \in DOMAIN bins' \/ carries[b] \subseteq Arrived
  BY BinsMove
<1>5. LinesOf(DOMAIN bins) \subseteq LinesOf(DOMAIN bins)' \cup Arrived
  BY <1>1, <1>2, <1>4 DEF LinesOf
<1> QED
  BY <1>3, <1>5 DEF SafeLines

-----------------------------------------------------------------------------
(* Items, and the numbers in memory *)

\* A line that is put gets the next number, or its number was in the spool when
\* numbering began anew.  What leaves the queue has a copy.
LEMMA LinePut ==
  ASSUME RelayInv, PutLine
  PROVE  /\ produced + 1 \in Event /\ produced + 1 \notin queue /\ mpc # "down"
         /\ queue' = queue \cup {produced + 1} /\ item'[produced + 1] = pos + 1
         /\ \A e \in 1 .. produced : item'[e] = item[e]
         /\ produced + 1 <= stale => pos + 1 \in SafeLines'
         /\ pos + 1 \in Line
<1>1. /\ produced \in Nat /\ queue \subseteq 1 .. produced
      /\ item \in [Event -> 0 .. MaxLine] /\ pos \in 0 .. MaxLine
      /\ MaxEvent \in Nat /\ MaxLine \in Nat
  BY SenderAssumption, LineBound
  DEF RelayInv, SpoolInv, TypeOK, AgentTypeOK, SenderAssumption, Event
<1>2. produced + 1 \in Event /\ pos + 1 \in Line
  BY <1>1 DEF PutLine, Produce, Event, Line
<1> QED
  BY <1>1, <1>2 DEF PutLine, Produce, SafeLines

LEMMA QueueMoves ==
  ASSUME RelayInv, [AgentNext]_agentVars
  PROVE  /\ \A e \in queue' : \/ e \in queue /\ item'[e] = item[e]
                              \/ PutLine /\ e = produced + 1
         /\ \A e \in queue : e \in queue' \/ item[e] \in SafeLines
         /\ \A e \in queue \cup Hand : item'[e] = item[e]
<1>1. queue' = queue \/ PutLine \/ AckLines \/ CrashAgent
  BY DEF agentVars, AgentNext, NoteLine, SaveOffset, SaveNotes, SaveRejectedLines, PackLines,
         RebuildNumbers, StartAgent, SenderStep, PeekLines, SpoolFailsLines,
         DecodePoisonLines, DecodeCorruptSaved, DecodeCorruptLost, GiveUp, vars, disk, Start,
         Snapshot, DecodePoison, SpoolFails, DecodeCorrupt, ReadTorn, ReadFails, UnlinkFails,
         Peek, Extend, Decoded, WriteBin, WriteMeta, Flush, Scan, ScanDone, Discard,
         UnlinkBin, UnlinkMeta, SaveRejected, UnlinkRejected, ReadSpool, PostAccepted,
         PostRejected, PostFails
<1>2. queue \cup Hand \subseteq 1 .. produced
  BY DEF RelayInv, SpoolInv, TypeOK, NumbersKnown
<1>3. \A e \in queue \cup Hand : item'[e] = item[e]
  BY <1>2, LinesMove, LinePut
<1>4. CASE AckLines \/ CrashAgent
  <2>1. /\ queue' \subseteq queue
        /\ \/ queue \subseteq queue'
           \/ queue \ UpTo(curSeqs) \subseteq queue'
           \/ \E e \in UpTo(curSeqs) : queue' = queue \ UpTo({e})
    BY <1>4 DEF AckLines, CrashAgent, Ack, Crash, AckPart
  <2>2. \A e \in UpTo(curSeqs) : UpTo({e}) \subseteq UpTo(curSeqs)
    <3>1. curSeqs \subseteq Event
      BY DEF RelayInv, SpoolInv, TypeOK
    <3> QED
      BY <3>1 DEF UpTo, Event
  <2>3. UpTo(curSeqs) \subseteq UpTo(Ackable)
    BY DEF UpTo, Ackable
  <2>4. \A e \in queue : e \in queue' \/ item[e] \in SafeLines
    BY <2>1, <2>2, <2>3 DEF RelayInv, AckIsSafe
  <2> QED
    BY <1>3, <2>1, <2>4
<1> QED
  BY <1>1, <1>3, <1>4, LinePut

LEMMA HandMoves ==
  ASSUME RelayInv, [AgentNext]_agentVars
  PROVE  /\ PeekLines \/ Hand' \subseteq Hand
         /\ \/ CrashAgent \/ \E b \in Batch : PackLines(b)
            \/ \A e \in Hand : e \in Hand' \/ item[e] \in SafeLines'
<1>1. PeekLines \/ Hand' \subseteq Hand
  <2>1. Peek \/ Hand' \subseteq Hand
    BY SenderMoves, HandNext DEF RelayInv, RebuildNumbers, main, Hand
  <2>2. Peek => PeekLines
    BY DEF agentVars, AgentNext, PutLine, NoteLine,
         SaveOffset, SaveNotes, AckLines, SaveRejectedLines, PackLines, CrashAgent,
         RebuildNumbers, StartAgent, SenderStep, PeekLines, SpoolFailsLines,
         DecodePoisonLines, DecodeCorruptSaved, DecodeCorruptLost, vars, main, Produce, Start,
         Crash, Snapshot, DecodePoison, SpoolFails, DecodeCorrupt, ReadTorn, ReadFails,
         UnlinkFails, Peek, Extend, Decoded, WriteBin,
         WriteMeta, Flush, Scan, ScanDone, Ack, Discard, UnlinkBin, UnlinkMeta,
         SaveRejected, UnlinkRejected, ReadSpool, PostAccepted, PostRejected, PostFails
  <2> QED
    BY <2>1, <2>2
<1>2. \/ CrashAgent \/ \E b \in Batch : PackLines(b)
      \/ SpoolFailsLines \/ DecodePoisonLines
      \/ \E e \in Event : DecodeCorruptSaved(e) \/ DecodeCorruptLost(e)
      \/ Hand \subseteq Hand'
  BY DEF Hand, RelayInv, SpoolInv, DownIsEmpty, agentVars, AgentNext, PutLine, NoteLine,
         SaveOffset, SaveNotes, AckLines, SaveRejectedLines, RebuildNumbers, StartAgent,
         SenderStep, PeekLines, ReadTorn, ReadFails, UnlinkFails,
         vars, main, Produce, Start, Snapshot, Peek, Extend, Decoded,
         WriteMeta, Flush, Scan, ScanDone, Ack, Discard, UnlinkBin, UnlinkMeta,
         SaveRejected, UnlinkRejected, ReadSpool, PostAccepted, PostRejected, PostFails
<1>3. CASE SpoolFailsLines
  <2>1. /\ mpc \in {"bin", "meta"} /\ buffer = {}
        /\ atRisk' = atRisk \cup {item[e] : e \in IF mpc = "bin" THEN local ELSE {}}
    BY <1>3 DEF SpoolFailsLines, SpoolFails, GiveUp, RelayInv, SpoolInv, DownIsEmpty
  <2>2. Hand = IF mpc = "bin" THEN local ELSE {}
    BY <2>1 DEF Hand
  <2>3. \A e \in Hand : item[e] \in atRisk'
    BY <2>1, <2>2
  <2> QED
    BY <1>1, <2>3 DEF SafeLines
<1>4. CASE DecodePoisonLines
  <2>1. /\ mpc = "decode" /\ buffer = {}
        /\ atRisk' = atRisk \cup {item[e] : e \in local}
    BY <1>4 DEF DecodePoisonLines, DecodePoison, GiveUp, RelayInv, SpoolInv, DownIsEmpty
  <2>2. \A e \in Hand : item[e] \in atRisk'
    BY <2>1 DEF Hand
  <2> QED
    BY <1>1, <2>2 DEF SafeLines
<1>5. ASSUME NEW d \in Event, DecodeCorruptSaved(d) \/ DecodeCorruptLost(d)
      PROVE  \A e \in Hand : e \in Hand' \/ item[e] \in SafeLines'
  <2>1. /\ mpc = "decode" /\ mpc' = mpc /\ buffer' = buffer /\ local' = local \ {d}
        /\ item[d] \in deadLines' \cup atRisk'
    BY <1>5 DEF DecodeCorruptSaved, DecodeCorruptLost, DecodeCorrupt, GiveUp
  <2> QED
    BY <2>1 DEF Hand, SafeLines, Arrived
<1> QED
  BY <1>1, <1>2, <1>3, <1>4, <1>5

LEMMA AckableMoves ==
  ASSUME RelayInv, [AgentNext]_agentVars
  PROVE  \/ Ackable' \subseteq Ackable
         \/ (\E b \in Batch : PackLines(b)) /\ Ackable' \subseteq Ackable \cup local
<1>1. \/ UnlinkMeta \/ (\E b \in Batch : WriteMeta(b)) \/ (\E b \in Batch : ReadSpool(b))
      \/ \E b \in Batch : PackLines(b)
      \/ /\ metas' = metas /\ curSeqs' \subseteq curSeqs
         /\ mpc' = "meta" => mpc = "meta" /\ local' = local
  BY DEF agentVars, AgentNext, PutLine, NoteLine, SaveOffset, SaveNotes, AckLines,
         SaveRejectedLines, CrashAgent, RebuildNumbers, StartAgent, SenderStep, PeekLines,
         SpoolFailsLines, DecodePoisonLines, DecodeCorruptSaved, DecodeCorruptLost, GiveUp,
         vars, disk, main, resend, Produce, Start, Crash, Snapshot, DecodePoison, SpoolFails,
         DecodeCorrupt, ReadTorn, ReadFails, UnlinkFails, Peek, Extend, Decoded, Flush, Scan,
         ScanDone, Ack, Discard, UnlinkBin, SaveRejected, UnlinkRejected, PostAccepted,
         PostRejected, PostFails, Return
<1>2. CASE UnlinkMeta
  <2>1. EventsOf(metas') \subseteq EventsOf(metas)
    BY <1>2, MetaDeleted DEF UnlinkMeta, RelayInv
  <2> QED
    BY <1>2, <2>1 DEF UnlinkMeta, Return, Ackable, main
<1>3. ASSUME NEW b \in Batch, WriteMeta(b) PROVE Ackable' \subseteq Ackable
  <2>1. EventsOf(metas') \subseteq EventsOf(metas) \cup local
    BY <1>3, WithEvents DEF WriteMeta
  <2> QED
    BY <1>3, <2>1 DEF WriteMeta, Ackable, resend
<1>4. ASSUME NEW b \in Batch, ReadSpool(b) PROVE Ackable' \subseteq Ackable
  <2>1. curSeqs' \subseteq EventsOf(metas)
    BY <1>4 DEF ReadSpool, EventsOf
  <2> QED
    BY <1>4, <2>1 DEF ReadSpool, Ackable, disk, main
<1>5. ASSUME NEW b \in Batch, PackLines(b) PROVE Ackable' \subseteq Ackable \cup local
  BY <1>5 DEF PackLines, WriteBin, Ackable, resend
<1> QED
  BY <1>1, <1>2, <1>3, <1>4, <1>5 DEF Ackable

LEMMA SkippedMoves ==
  ASSUME RelayInv, [AgentNext]_agentVars
  PROVE  Skipped' \subseteq Skipped \cup Ackable \cup Hand
<1>1. CASE StartAgent
  <2>1. inFlight' \subseteq EventsOf(metas)
    BY <1>1 DEF StartAgent, Start, EventsOf
  <2> QED
    BY <1>1, <2>1 DEF StartAgent, Start, Skipped, Ackable
<1>2. CASE ~StartAgent
  BY <1>2
  DEF Skipped, Hand, agentVars, AgentNext, PutLine, NoteLine, SaveOffset, SaveNotes,
      AckLines, SaveRejectedLines, PackLines, CrashAgent, RebuildNumbers, SenderStep,
      PeekLines, SpoolFailsLines, DecodePoisonLines, DecodeCorruptSaved, DecodeCorruptLost,
      GiveUp, vars, main, Produce, Crash, Snapshot, DecodePoison, SpoolFails, DecodeCorrupt,
      ReadTorn, ReadFails, UnlinkFails, Peek, Extend, Decoded, WriteBin, WriteMeta, Flush,
      Scan, ScanDone, Ack, Discard, UnlinkBin, UnlinkMeta, SaveRejected, UnlinkRejected,
      ReadSpool, PostAccepted, PostRejected, PostFails
<1> QED
  BY <1>1, <1>2

-----------------------------------------------------------------------------
(* The parts of the invariant *)

LEMMA NumbersNext ==
  ASSUME RelayInv, [AgentNext]_agentVars
  PROVE  NumbersKnown'
<1>1. produced \in Nat /\ stale \in Nat /\ queue \subseteq 1 .. produced /\ NumbersKnown
  BY SenderAssumption DEF RelayInv, SpoolInv, TypeOK, AgentTypeOK, SenderAssumption
<1>2. CASE RebuildNumbers
  <2>1. /\ Ackable' = EventsOf(metas) /\ Ackable = EventsOf(metas) /\ Skipped' = {} /\ Hand' = {}
    BY <1>2 DEF RebuildNumbers, disk, main, resend, RelayInv, SpoolInv, DownIsEmpty,
                ProcessState, Ackable, Skipped, Hand
  <2>3. \A m \in EventsOf(metas) : m <= produced' \/ m <= stale'
    <3>1. CASE LastNumber < produced
      BY <1>2, <3>1, Renumbered
    <3>2. CASE LastNumber = produced
      BY <1>1, <1>2, <2>1, <3>2, Renumbered DEF NumbersKnown
    <3> QED
      BY <1>2, <3>1, <3>2, Renumbered
  <2> QED
    BY <2>1, <2>3 DEF NumbersKnown
<1>3. CASE ~RebuildNumbers
  <2>1. produced' \in Nat /\ produced <= produced' /\ stale' = stale
    <3>1. (produced' = produced \/ PutLine) /\ stale' = stale
      BY <1>3
      DEF agentVars, AgentNext, PutLine, NoteLine, SaveOffset, SaveNotes, AckLines,
          SaveRejectedLines, PackLines, CrashAgent, StartAgent, SenderStep, PeekLines,
          SpoolFailsLines, DecodePoisonLines, DecodeCorruptSaved, DecodeCorruptLost, GiveUp,
          vars, numbering, Start, Crash, Snapshot, DecodePoison, SpoolFails, DecodeCorrupt,
          ReadTorn, ReadFails, UnlinkFails, Peek, Extend, Decoded, WriteBin, WriteMeta,
          Flush, Scan, ScanDone, Ack, Discard, UnlinkBin, UnlinkMeta, SaveRejected,
          UnlinkRejected, ReadSpool, PostAccepted, PostRejected, PostFails
    <3>2. PutLine => produced' = produced + 1
      BY DEF PutLine, Produce
    <3> QED
      BY <1>1, <3>1, <3>2
  <2>2. Hand' \subseteq Hand \cup queue
    BY HandMoves DEF PeekLines, Peek, First, Hand
  <2>3. Ackable' \cup Skipped' \subseteq Ackable \cup Skipped \cup Hand
    BY AckableMoves, SkippedMoves, BatchPacked
  <2>4. Hand \cup queue \subseteq 1 .. produced'
    BY <1>1, <2>1 DEF NumbersKnown
  <2>5. Event \subseteq Nat /\ Ackable \cup Skipped \subseteq Event
    <3>1. EventsOf(metas) \subseteq Event
      BY DEF RelayInv, SpoolInv, TypeOK, EventsOf
    <3> QED
      BY <3>1 DEF RelayInv, SpoolInv, TypeOK, Ackable, Skipped, Event
  <2>6. ASSUME NEW m \in Ackable \cup Skipped PROVE m <= produced' \/ m <= stale'
    <3>1. m \in Nat /\ (m <= produced \/ m <= stale)
      BY <1>1, <2>5 DEF NumbersKnown
    <3> QED
      BY <1>1, <2>1, <3>1
  <2>7. \A m \in Hand : m <= produced'
    BY <2>1, <2>4
  <2> QED
    BY <2>2, <2>3, <2>4, <2>6, <2>7 DEF NumbersKnown
<1> QED
  BY <1>2, <1>3

\* A new item is safe if it is no newer than a number that was known.
LEMMA NewItemSafe ==
  ASSUME RelayInv, PutLine, NEW m \in Ackable \cup Skipped, produced + 1 <= m
  PROVE  item'[produced + 1] \in SafeLines'
<1>1. produced \in Nat /\ stale \in Nat /\ m \in Nat
  <2>1. EventsOf(metas) \subseteq Event
    BY DEF RelayInv, SpoolInv, TypeOK, EventsOf
  <2> QED
    BY <2>1, SenderAssumption
    DEF RelayInv, SpoolInv, TypeOK, AgentTypeOK, SenderAssumption, Ackable, Skipped, Event
<1>2. produced + 1 <= stale
  BY <1>1 DEF RelayInv, NumbersKnown
<1> QED
  BY <1>2, LinePut

LEMMA AckIsSafeNext ==
  ASSUME RelayInv, [AgentNext]_agentVars
  PROVE  AckIsSafe'
<1>1. ASSUME NEW e \in queue', e \in UpTo(Ackable')
      PROVE  item'[e] \in SafeLines'
  <2>1. PICK m \in Ackable' : e <= m
    BY <1>1 DEF UpTo
  <2>2. CASE e \in queue /\ item'[e] = item[e]
    <3>1. CASE m \in Ackable
      <4>1. e \in UpTo(Ackable)
        BY <1>1, <2>1, <3>1 DEF UpTo
      <4> QED
        BY <2>2, <4>1, SafeLinesGrow DEF RelayInv, AckIsSafe
    <3>2. ASSUME NEW b \in Batch, PackLines(b), m \in local PROVE item'[e] \in SafeLines'
      <4>1. e \in UpTo(Hand)
        BY <1>1, <2>1, <3>2, BatchPacked DEF UpTo
      <4>2. e \in local \/ item[e] \in SafeLines
        BY <2>2, <3>2, <4>1, BatchPacked DEF RelayInv, HandIsOldest
      <4>3. {item[d] : d \in local} \subseteq SafeLines'
        BY <3>2, BatchPacked DEF SafeLines, LinesOf
      <4> QED
        BY <2>2, <4>2, <4>3, SafeLinesGrow
    <3> QED
      BY <2>1, <3>1, <3>2, AckableMoves
  <2>3. CASE PutLine /\ e = produced + 1
    <3>1. Ackable' = Ackable
      BY <2>3 DEF PutLine, Produce, Ackable, main, resend
    <3> QED
      BY <2>1, <2>3, <3>1, NewItemSafe
  <2> QED
    BY <1>1, <2>2, <2>3, QueueMoves
<1> QED
  BY <1>1 DEF AckIsSafe

LEMMA SkippedIsHeldNext ==
  ASSUME RelayInv, [AgentNext]_agentVars
  PROVE  SkippedIsHeld'
<1>1. ASSUME NEW e \in queue', e \in Skipped'
      PROVE  e \in Hand' \/ item'[e] \in SafeLines'
  <2>1. CASE e \in queue /\ item'[e] = item[e]
    <3>1. e \in Hand \/ item[e] \in SafeLines
      <4>1. CASE e \in Skipped \cup Hand
        BY <2>1, <4>1 DEF RelayInv, SkippedIsHeld
      <4>2. CASE e \in Ackable
        <5>1. e \in Event
          BY <2>1, SenderAssumption DEF RelayInv, SpoolInv, TypeOK, SenderAssumption, Event
        <5>2. e \in UpTo(Ackable)
          BY <4>2, <5>1 DEF UpTo, Event
        <5> QED
          BY <2>1, <5>2 DEF RelayInv, AckIsSafe
      <4> QED
        BY <1>1, <4>1, <4>2, SkippedMoves
    <3>2. CASE e \in Hand
      <4>1. ASSUME NEW b \in Batch, PackLines(b) PROVE item[e] \in SafeLines'
        <5>1. {item[d] : d \in local} \subseteq SafeLines'
          BY <4>1, BatchPacked DEF SafeLines, LinesOf
        <5> QED
          BY <3>2, <4>1, <5>1, BatchPacked
      <4>2. CASE CrashAgent
        BY <1>1, <4>2 DEF CrashAgent, Crash, Skipped
      <4> QED
        BY <2>1, <3>2, <4>1, <4>2, HandMoves
    <3> QED
      BY <2>1, <3>1, <3>2, SafeLinesGrow
  <2>2. CASE PutLine /\ e = produced + 1
    <3>1. Skipped' = Skipped
      BY <2>2 DEF PutLine, Produce, Skipped, main
    <3>2. e <= e
      BY <2>2, LinePut DEF Event
    <3> QED
      BY <1>1, <2>2, <3>1, <3>2, NewItemSafe
  <2> QED
    BY <1>1, <2>1, <2>2, QueueMoves
<1> QED
  BY <1>1 DEF SkippedIsHeld

\* Peek takes the oldest of the items that are neither in flight nor skipped, and
\* the lines of those that it skipped are given up.
LEMMA PeekTakesItems ==
  ASSUME RelayInv, PeekLines
  PROVE  /\ \A e \in queue \cap UpTo(Hand') : e \in Hand' \/ item[e] \in SafeLines'
         /\ Hand' \subseteq Hand \cup queue /\ queue' = queue /\ item' = item
<1>1. PICK skipped \in SUBSET (queue \cap Unreadable) :
        /\ local' = First((queue \ skipped) \ local, BatchSize - Cardinality(buffer))
        /\ dropped' = dropped \cup (skipped \ local)
  BY DEF PeekLines, Peek
<1> DEFINE new == (queue \ skipped) \ local
           n == BatchSize - Cardinality(buffer)
<1>2. /\ mpc = "peek" /\ mpc' \in {"idle", "extend"} /\ buffer' = buffer /\ queue' = queue
      /\ mpc' = "idle" => local' = {}
      /\ item' = item /\ atRisk' = atRisk \cup {item[e] : e \in queue \cap dropped'}
  BY DEF PeekLines, Peek, disk, GiveUp, lines
<1>3. Hand = buffer /\ Hand' = buffer \cup local' /\ Skipped = inFlight \cup local
  BY <1>2 DEF Hand, Skipped
<1>4. n \in Int /\ new \subseteq Event
  <2>1. Cardinality(buffer) \in Nat /\ queue \subseteq Event
    BY EventsFinite, SenderAssumption
    DEF RelayInv, SpoolInv, TypeOK, SenderAssumption, Event
  <2> QED
    BY <2>1, SenderAssumption DEF SenderAssumption
<1>5. SafeLines \subseteq SafeLines'
  BY SafeLinesGrow DEF AgentNext
<1>6. ASSUME NEW e \in queue, e \in UpTo(Hand')
      PROVE  e \in Hand' \/ item[e] \in SafeLines'
  <2>1. PICK m \in Hand' : e <= m
    BY <1>6 DEF UpTo
  <2>2. CASE m \in Hand
    <3>1. e \in UpTo(Hand)
      BY <1>6, <2>1, <2>2 DEF UpTo
    <3> QED
      BY <1>3, <1>5, <3>1 DEF RelayInv, HandIsOldest
  <2>3. CASE m \in local' /\ e \in new
    <3> HIDE DEF new, n
    <3>1. e \in First(new, n)
      BY <1>1, <1>4, <2>1, <2>3, FirstIsOldest DEF new, n
    <3> QED
      BY <1>1, <1>3, <3>1 DEF new, n
  <2>4. CASE e \in local
    BY <1>3, <1>5, <2>4 DEF RelayInv, SkippedIsHeld
  <2>5. CASE e \in skipped \ local
    BY <1>1, <1>2, <2>5 DEF SafeLines
  <2> QED
    BY <1>3, <2>1, <2>2, <2>3, <2>4, <2>5
<1>7. Hand' \subseteq Hand \cup queue
  BY <1>1, <1>3 DEF First
<1> QED
  BY <1>2, <1>6, <1>7

LEMMA HandIsOldestNext ==
  ASSUME RelayInv, [AgentNext]_agentVars
  PROVE  HandIsOldest'
<1>1. CASE PeekLines
  <2>1. \A e \in queue' \cap UpTo(Hand') : e \in Hand' \/ item'[e] \in SafeLines'
    BY <1>1, PeekTakesItems, SafeLinesGrow
  <2>2. \A e \in Hand' : e \in queue' \/ item'[e] \in SafeLines'
    BY <1>1, PeekTakesItems, SafeLinesGrow DEF RelayInv, HandIsOldest
  <2> QED
    BY <2>1, <2>2 DEF HandIsOldest
<1>2. CASE Hand' \subseteq Hand
  <2>1. ASSUME NEW e \in queue', e \in UpTo(Hand')
        PROVE  e \in Hand' \/ item'[e] \in SafeLines'
    <3>1. PICK m \in Hand' : e <= m
      BY <2>1 DEF UpTo
    <3>2. m \in Hand /\ m \in 1 .. produced /\ produced \in Nat
      BY <1>2, <3>1, SenderAssumption
      DEF RelayInv, NumbersKnown, SpoolInv, TypeOK, SenderAssumption
    <3>3. e \in queue /\ item'[e] = item[e]
      BY <2>1, <3>1, <3>2, QueueMoves
    <3>4. e \in UpTo(Hand)
      BY <2>1, <3>1, <3>2 DEF UpTo
    <3>5. e \in Hand \/ item[e] \in SafeLines
      BY <3>3, <3>4 DEF RelayInv, HandIsOldest
    <3>6. \A d \in Hand : d \in Hand' \/ item[d] \in SafeLines'
      <4>1. CASE CrashAgent
        BY <3>1, <4>1 DEF CrashAgent, Crash, Hand
      <4>2. ASSUME NEW b \in Batch, PackLines(b) PROVE Hand' = {}
        BY <4>2 DEF PackLines, WriteBin, RelayInv, SpoolInv, DownIsEmpty, Hand
      <4> QED
        BY <3>1, <4>1, <4>2, HandMoves
    <3> QED
      BY <3>3, <3>5, <3>6, SafeLinesGrow
  <2>2. \A e \in Hand' : e \in queue' \/ item'[e] \in SafeLines'
    BY <1>2, QueueMoves, SafeLinesGrow DEF RelayInv, HandIsOldest
  <2> QED
    BY <2>1, <2>2 DEF HandIsOldest
<1> QED
  BY <1>1, <1>2, HandMoves

LEMMA ItemsAreLinesNext ==
  ASSUME RelayInv, [AgentNext]_agentVars
  PROVE  ItemsAreLines'
<1>1. Hand' \subseteq Hand \cup queue
  BY HandMoves DEF PeekLines, Peek, First, Hand
<1>2. PutLine => item'[produced + 1] \in Line
  BY LinePut
<1> QED
  BY <1>1, <1>2, QueueMoves DEF RelayInv, ItemsAreLines

LEMMA NoLineLostNext ==
  ASSUME RelayInv, [AgentNext]_agentVars, pos' \in 0 .. pos \/ PutLine
  PROVE  NoLineLost'
<1> DEFINE Items == {item[e] : e \in queue}
<1>1. \A l \in SafeLines : l \in SafeLines'
  BY SafeLinesGrow
<1>2. Items \subseteq Items' \cup SafeLines'
  BY <1>1, QueueMoves
<1>3. OnDisk \cup Arrived \cup atRisk = Items \cup SafeLines
  BY DEF OnDisk, SafeLines
<1>4. (OnDisk \cup Arrived \cup atRisk)' = Items' \cup SafeLines'
  BY DEF OnDisk, SafeLines
<1>5. pos \in Nat /\ 1 .. pos \subseteq Items \cup SafeLines
  BY <1>3, LineBound DEF RelayInv, AgentTypeOK, NoLineLost
<1>6. 1 .. pos' \subseteq 1 .. pos \cup Items'
  <2>1. CASE PutLine
    <3>1. pos + 1 \in Items'
      BY <2>1, LinePut
    <3>2. pos' = pos + 1
      BY <2>1 DEF PutLine
    <3> HIDE DEF Items
    <3> QED
      BY <1>5, <3>1, <3>2
  <2>2. CASE pos' \in 0 .. pos
    BY <1>5, <2>2
  <2> QED
    BY <2>1, <2>2
<1> HIDE DEF Items
<1> QED
  BY <1>1, <1>2, <1>4, <1>5, <1>6 DEF NoLineLost

-----------------------------------------------------------------------------
(* The collector: offsets, notes and types *)

LEMMA ProcessStateNext ==
  ASSUME RelayInv, [AgentNext]_agentVars
  PROVE  ProcessState'
<1>1. SpoolInv /\ ProcessState /\ deadLines \subseteq deadLines'
  BY LinesMove DEF RelayInv
<1>2. /\ (mpc = "down" => inFlight = {} /\ curSeqs = {} /\ ~noting)'
      /\ (metaLost => mpc = "down")'
  <2>1. CASE CrashAgent
    BY <2>1 DEF CrashAgent, Crash
  <2>2. CASE StartAgent
    BY <2>2 DEF StartAgent, Start, numbering
  <2>3. CASE mpc = "down" /\ ~StartAgent
    <3>1. rpc = "down"
      BY <1>1, <2>3 DEF SpoolInv, DownIsEmpty
    <3>2. NoteLine \/ SaveNotes \/ RebuildNumbers \/ UNCHANGED agentVars
      BY <2>3, <3>1
      DEF AgentNext, PutLine, SaveOffset, AckLines, SaveRejectedLines, PackLines, CrashAgent,
          SenderStep, PeekLines, SpoolFailsLines, DecodePoisonLines, DecodeCorruptSaved,
          DecodeCorruptLost, GiveUp, Produce, Crash, Snapshot, DecodePoison, SpoolFails,
          DecodeCorrupt, ReadTorn, ReadFails, UnlinkFails, Peek, Extend, Decoded, WriteBin,
          WriteMeta, Flush, Scan, ScanDone, Ack, Discard, UnlinkBin, UnlinkMeta,
          SaveRejected, UnlinkRejected, ReadSpool, PostAccepted, PostRejected, PostFails
    <3> QED
      BY <1>1, <2>3, <3>2
      DEF ProcessState, NoteLine, SaveNotes, RebuildNumbers, agentVars, vars, collector,
          numbering, main, resend
  <2>4. CASE mpc # "down" /\ ~CrashAgent
    <3>1. mpc' # "down" /\ metaLost' = metaLost
      BY <1>1, <2>4
      DEF ProcessState, agentVars, AgentNext, PutLine, NoteLine, SaveOffset, SaveNotes,
          AckLines, SaveRejectedLines, PackLines, RebuildNumbers, StartAgent, SenderStep,
          PeekLines, SpoolFailsLines, DecodePoisonLines, DecodeCorruptSaved,
          DecodeCorruptLost, GiveUp, vars, numbering, main, Produce, Start, Snapshot,
          DecodePoison, SpoolFails, DecodeCorrupt, ReadTorn, ReadFails, UnlinkFails, Peek,
          Extend, Decoded, WriteBin, WriteMeta, Flush, Scan, ScanDone, Ack, Discard,
          UnlinkBin, UnlinkMeta, SaveRejected, UnlinkRejected, ReadSpool, PostAccepted,
          PostRejected, PostFails
    <3> QED
      BY <1>1, <2>4, <3>1 DEF ProcessState
  <2> QED
    BY <2>1, <2>2, <2>3, <2>4
<1>3. (rpc = "unlink_rejected" => carries[cur] \subseteq deadLines)'
  <2>1. CASE SaveRejectedLines
    BY <2>1 DEF SaveRejectedLines, SaveRejected
  <2>2. CASE ~SaveRejectedLines
    <3>1. rpc' = "unlink_rejected" => rpc = "unlink_rejected" /\ cur' = cur
      BY <2>2 DEF agentVars, AgentNext, PutLine, NoteLine, SaveOffset, SaveNotes, AckLines,
                  PackLines, CrashAgent, RebuildNumbers, StartAgent, SenderStep, PeekLines,
                  SpoolFailsLines, DecodePoisonLines, DecodeCorruptSaved, DecodeCorruptLost,
                  GiveUp, vars, resend, Produce, Start, Crash, Snapshot, DecodePoison,
                  SpoolFails, DecodeCorrupt, ReadTorn, ReadFails, UnlinkFails, Peek, Extend,
                  Decoded, WriteBin, WriteMeta, Flush, Scan, ScanDone, Ack, Discard,
                  UnlinkBin, UnlinkMeta, UnlinkRejected, ReadSpool, PostAccepted,
                  PostRejected, PostFails, Return
    <3>2. rpc = "unlink_rejected" => carries'[cur] = carries[cur]
      <4>1. rpc = "unlink_rejected" => cur \in DOMAIN carries
        BY <1>1 DEF SpoolInv, CurInSpool, SpoolIsSent, RelayInv, AgentTypeOK
      <4> QED
        BY <4>1, LinesMove, BatchPacked
    <3> QED
      BY <1>1, <3>1, <3>2 DEF ProcessState
  <2> QED
    BY <2>1, <2>2
<1>4. (noting => pos >= 1 /\ produced >= 1)'
  <2>1. CASE PutLine
    <3>1. pos \in Nat /\ produced \in Nat
      BY LineBound, SenderAssumption
      DEF RelayInv, SpoolInv, TypeOK, AgentTypeOK, SenderAssumption
    <3> QED
      BY <2>1, <3>1 DEF PutLine, Produce
  <2>2. CASE ~PutLine
    <3>1. noting' => noting /\ pos' = pos /\ produced' = produced
      BY <1>1, <2>2 DEF ProcessState, agentVars, AgentNext, NoteLine, SaveOffset, SaveNotes,
                        AckLines, SaveRejectedLines, PackLines, CrashAgent, RebuildNumbers,
                        StartAgent, SenderStep, PeekLines, SpoolFailsLines,
                        DecodePoisonLines, DecodeCorruptSaved, DecodeCorruptLost, GiveUp,
                        vars, collector, Start, Crash, Snapshot, DecodePoison, SpoolFails,
                        DecodeCorrupt, ReadTorn, ReadFails, UnlinkFails, Peek, Extend,
                        Decoded, WriteBin, WriteMeta, Flush, Scan, ScanDone, Ack, Discard,
                        UnlinkBin, UnlinkMeta, SaveRejected, UnlinkRejected, ReadSpool,
                        PostAccepted, PostRejected, PostFails
    <3> QED
      BY <1>1, <3>1 DEF ProcessState
  <2> QED
    BY <2>1, <2>2
<1>5. (saved = [offset |-> saved.offset, notes |-> saved.notes])'
  <2>1. \/ saved' = saved
        \/ saved' = [saved EXCEPT !.offset = offset]
        \/ saved' = [saved EXCEPT !.notes = notes]
    BY DEF agentVars, AgentNext, PutLine, NoteLine, SaveOffset, SaveNotes, AckLines,
           SaveRejectedLines, PackLines, CrashAgent, RebuildNumbers, StartAgent, SenderStep,
           PeekLines, SpoolFailsLines, DecodePoisonLines, DecodeCorruptSaved,
           DecodeCorruptLost, GiveUp, vars, collector
  <2>2. saved = [offset |-> saved.offset, notes |-> saved.notes]
    BY <1>1 DEF ProcessState
  <2>3. CASE saved' = [saved EXCEPT !.offset = offset]
    BY <2>2, <2>3
  <2>4. CASE saved' = [saved EXCEPT !.notes = notes]
    BY <2>2, <2>4
  <2> QED
    BY <2>1, <2>2, <2>3, <2>4
<1> QED
  BY <1>2, <1>3, <1>4, <1>5 DEF ProcessState

\* What AgentTypeOK says of the notes, and of offset and notes as they were saved.
NotesUpTo(n, p) == DOMAIN n \subseteq Event /\ n \in [DOMAIN n -> 1 .. p]

OffsetsKnown ==
  /\ pos \in 0 .. MaxLine /\ NotesUpTo(notes, pos) /\ NotesUpTo(saved.notes, pos)
  /\ offset \in 0 .. pos /\ saved.offset \in 0 .. pos

LEMMA NotesWeaken ==
  ASSUME NEW n, NEW p \in Nat, NEW q \in Nat, p <= q, NotesUpTo(n, p)
  PROVE  NotesUpTo(n, q)
<1>1. \A k \in DOMAIN n : n[k] \in 1 .. q
  BY DEF NotesUpTo
<1> QED
  BY <1>1 DEF NotesUpTo

LEMMA OffsetsAre == RelayInv => OffsetsKnown /\ pos \in Nat
  BY LineBound DEF RelayInv, AgentTypeOK, OffsetsKnown, NotesUpTo, Event

\* A new process goes on where the saved offset and notes say, and not after that.
LEMMA ResumeIsKnown ==
  ASSUME RelayInv
  PROVE  /\ ResumeAt \in 0 .. pos /\ saved.offset <= ResumeAt
         /\ NotesUpTo(saved.notes, ResumeAt)
<1> DEFINE S == {saved.offset} \cup {saved.notes[n] : n \in DOMAIN saved.notes}
<1>1. /\ pos \in Nat /\ saved.offset \in 0 .. pos /\ NotesUpTo(saved.notes, pos)
  BY OffsetsAre DEF OffsetsKnown
<1>2. S \subseteq 0 .. pos /\ ResumeAt = Largest(S)
  BY <1>1 DEF ResumeAt, NotesUpTo
<1>3. ResumeAt \in 0 .. pos /\ \A m \in S : m <= ResumeAt
  <2> HIDE DEF S
  <2> QED
    BY <1>1, <1>2, LargestIs
<1>4. \A k \in DOMAIN saved.notes : saved.notes[k] \in 1 .. ResumeAt
  BY <1>1, <1>3 DEF NotesUpTo
<1> QED
  BY <1>1, <1>3, <1>4 DEF NotesUpTo

\* An ack takes the offset from the newest note that it covers.
LEMMA AckedNotes ==
  ASSUME RelayInv, AckLines
  PROVE  offset' \in 0 .. pos /\ NotesUpTo(notes', pos)
<1> DEFINE covered == DOMAIN notes \cap UpTo(curSeqs)
<1>1. /\ pos \in Nat /\ offset \in 0 .. pos /\ DOMAIN notes \subseteq Event
      /\ \A k \in DOMAIN notes : notes[k] \in 1 .. pos
  BY OffsetsAre DEF OffsetsKnown, NotesUpTo
<1>2. /\ offset' = IF covered = {} THEN offset ELSE notes[Largest(covered)]
      /\ notes' = [n \in DOMAIN notes \ covered |-> notes[n]]
  BY DEF AckLines
<1>3. covered # {} => Largest(covered) \in DOMAIN notes
  <2>1. covered \subseteq 0 .. MaxEvent /\ MaxEvent \in Nat /\ 0 \notin covered
        /\ \A m \in covered : m >= 1
    BY <1>1, SenderAssumption DEF SenderAssumption, Event
  <2>2. covered \subseteq DOMAIN notes
    OBVIOUS
  <2> HIDE DEF covered
  <2>3. Largest(covered) \in covered \cup {0} /\ \A m \in covered : m <= Largest(covered)
    BY <2>1, LargestIs
  <2>4. covered # {} => Largest(covered) # 0
    <3>1. \A m \in covered : m \in Nat /\ m >= 1
      BY <2>1
    <3> QED
      BY <2>3, <3>1
  <2> QED
    BY <2>2, <2>3, <2>4
<1>4. offset' \in 0 .. pos
  <2> HIDE DEF covered
  <2>1. CASE covered = {}
    BY <1>1, <1>2, <2>1
  <2>2. CASE covered # {}
    <3>1. offset' = notes[Largest(covered)] /\ notes[Largest(covered)] \in 1 .. pos
      BY <1>1, <1>2, <1>3, <2>2
    <3> QED
      BY <1>1, <3>1
  <2> QED
    BY <2>1, <2>2
<1>5. NotesUpTo(notes', pos)
  BY <1>1, <1>2 DEF NotesUpTo
<1> QED
  BY <1>4, <1>5

LEMMA OffsetsNext ==
  ASSUME RelayInv, [AgentNext]_agentVars
  PROVE  OffsetsKnown' /\ (pos' \in 0 .. pos \/ PutLine)
<1>1. OffsetsKnown /\ pos \in Nat /\ produced \in 0 .. MaxEvent /\ MaxEvent \in Nat
  BY OffsetsAre, SenderAssumption DEF RelayInv, SpoolInv, TypeOK, SenderAssumption
<1>2. CASE PutLine
  <2>1. pos' = pos + 1 /\ pos' \in 0 .. MaxLine /\ UNCHANGED <<notes, offset, saved>>
    BY <1>1, <1>2, LineBound DEF OffsetsKnown, PutLine
  <2>2. pos' \in Nat /\ pos <= pos'
    BY <1>1, <2>1
  <2> QED
    BY <1>1, <1>2, <2>1, <2>2, NotesWeaken DEF OffsetsKnown
<1>3. CASE NoteLine
  <2>1. produced \in Event /\ pos \in 1 .. pos
    BY <1>1, <1>3 DEF NoteLine, RelayInv, ProcessState, Event
  <2>2. NotesUpTo(With(notes, produced, pos), pos)
    BY <1>1, <2>1 DEF With, OffsetsKnown, NotesUpTo
  <2> QED
    BY <1>1, <1>3, <2>2 DEF NoteLine, NewOffset, OffsetsKnown
<1>4. CASE SaveOffset \/ SaveNotes
  <2>1. saved = [offset |-> saved.offset, notes |-> saved.notes]
    BY DEF RelayInv, ProcessState
  <2>2. /\ UNCHANGED <<pos, notes, offset>>
        /\ saved'.offset \in {offset, saved.offset} /\ saved'.notes \in {notes, saved.notes}
    BY <1>4, <2>1 DEF SaveOffset, SaveNotes
  <2> QED
    BY <1>1, <2>2 DEF OffsetsKnown
<1>5. CASE AckLines
  <2>1. UNCHANGED <<pos, saved>>
    BY <1>5 DEF AckLines
  <2> QED
    BY <1>1, <1>5, <2>1, AckedNotes DEF OffsetsKnown
<1>6. CASE CrashAgent
  <2>1. pos' = ResumeAt /\ notes' = saved.notes /\ offset' = saved.offset /\ saved' = saved
    BY <1>6 DEF CrashAgent
  <2>2. pos' \in 0 .. pos /\ pos' \in 0 .. MaxLine /\ offset' \in 0 .. pos'
    BY <1>1, <2>1, ResumeIsKnown, LineBound DEF OffsetsKnown
  <2> QED
    BY <2>1, <2>2, ResumeIsKnown DEF OffsetsKnown
<1>7. CASE UNCHANGED collector
  BY <1>1, <1>7 DEF OffsetsKnown, collector
<1> QED
  BY <1>2, <1>3, <1>4, <1>5, <1>6, <1>7
  DEF agentVars, AgentNext, SaveRejectedLines, PackLines, RebuildNumbers, StartAgent,
      SenderStep, PeekLines, SpoolFailsLines, DecodePoisonLines, DecodeCorruptSaved,
      DecodeCorruptLost, GiveUp

LEMMA LinesTyped ==
  ASSUME RelayInv, [AgentNext]_agentVars
  PROVE  /\ DOMAIN carries' = DOMAIN sent' /\ carries' \in [DOMAIN sent' -> SUBSET Line]
         /\ deadLines' \subseteq Line
         /\ item' \in [1 .. MaxEvent -> 0 .. MaxLine] /\ atRisk' \subseteq Line
<1>1. /\ DOMAIN carries = DOMAIN sent /\ carries \in [DOMAIN sent -> SUBSET Line]
      /\ deadLines \subseteq Line /\ item \in [1 .. MaxEvent -> 0 .. MaxLine]
      /\ atRisk \subseteq Line /\ SpoolInv
      /\ \A e \in queue \cup Hand : item[e] \in Line
  BY DEF RelayInv, AgentTypeOK, ItemsAreLines
<1>2. /\ DOMAIN carries' = DOMAIN sent' /\ carries' \in [DOMAIN sent' -> SUBSET Line]
      /\ DOMAIN sent \subseteq DOMAIN sent'
  <2>1. CASE carries' = carries /\ sent' = sent
    BY <1>1, <2>1
  <2>2. ASSUME NEW b \in Batch, PackLines(b)
        PROVE  /\ DOMAIN carries' = DOMAIN sent' /\ carries' \in [DOMAIN sent' -> SUBSET Line]
               /\ DOMAIN sent \subseteq DOMAIN sent'
    <3>1. DOMAIN sent' = DOMAIN sent \cup {b}
      BY <1>1, <2>2, BatchWritten DEF PackLines
    <3>2. {item[e] : e \in local} \subseteq Line
      BY ZenonT(40), <2>2, BatchPacked DEF RelayInv, ItemsAreLines
    <3>3. carries' = With(carries, b, {item[e] : e \in local})
      BY <2>2 DEF PackLines
    <3> QED
      BY <1>1, <3>1, <3>2, <3>3 DEF With
  <2>3. sent' = sent \/ \E b \in Batch : PackLines(b)
    BY DEF agentVars, AgentNext, PutLine, NoteLine, SaveOffset, SaveNotes, AckLines,
           SaveRejectedLines, CrashAgent, RebuildNumbers, StartAgent, SenderStep, PeekLines,
           SpoolFailsLines, DecodePoisonLines, DecodeCorruptSaved, DecodeCorruptLost, GiveUp,
           vars, history, Produce, Start, Crash, Snapshot, DecodePoison, SpoolFails,
           DecodeCorrupt, ReadTorn, ReadFails, UnlinkFails, Peek, Extend, Decoded, WriteMeta,
           Flush, Scan, ScanDone, Ack, Discard, UnlinkBin, UnlinkMeta, SaveRejected,
           UnlinkRejected, ReadSpool, PostAccepted, PostRejected, PostFails
  <2> QED
    BY <2>1, <2>2, <2>3, LinesMove
<1>3. deadLines' \subseteq Line
  <2>1. SaveRejectedLines => deadLines' \subseteq deadLines \cup carries[cur] /\ cur \in DOMAIN sent
    BY <1>1 DEF SaveRejectedLines, SaveRejected, SpoolInv, CurInSpool, SpoolIsSent
  <2>2. ASSUME NEW e \in Event, DecodeCorruptSaved(e) PROVE deadLines' \subseteq Line
    BY <1>1, <2>2 DEF DecodeCorruptSaved, DecodeCorrupt, Hand
  <2> QED
    BY <1>1, <2>1, <2>2, LinesMove
<1>4. item' \in [1 .. MaxEvent -> 0 .. MaxLine] /\ atRisk' \subseteq Line
  <2>1. CASE PutLine
    <3>1. pos + 1 \in Line /\ pos + 1 \in 0 .. MaxLine
      BY <2>1, LinePut, LineBound DEF Line
    <3> QED
      BY <1>1, <2>1, <3>1 DEF PutLine
  <2>2. ASSUME NEW S \in SUBSET (queue \cup Hand), GiveUp(S) PROVE atRisk' \subseteq Line
    BY <1>1, <2>2 DEF GiveUp
  <2> QED
    BY <1>1, <2>1, <2>2, LinesMove, LinesGivenUp
<1> QED
  BY <1>2, <1>3, <1>4

LEMMA FlagsTyped ==
  ASSUME RelayInv, [AgentNext]_agentVars
  PROVE  noting' \in BOOLEAN /\ flushing' \in BOOLEAN /\ metaLost' \in BOOLEAN
         /\ stale' \in 0 .. MaxEvent
<1>1. /\ noting \in BOOLEAN /\ flushing \in BOOLEAN /\ metaLost \in BOOLEAN
      /\ stale \in 0 .. MaxEvent
  BY DEF RelayInv, AgentTypeOK
<1>2. noting' \in BOOLEAN /\ flushing' \in BOOLEAN /\ metaLost' \in BOOLEAN
  BY <1>1
  DEF agentVars, AgentNext, PutLine, NoteLine, SaveOffset, SaveNotes, AckLines,
      SaveRejectedLines, PackLines, CrashAgent, RebuildNumbers, StartAgent, SenderStep,
      PeekLines, SpoolFailsLines, DecodePoisonLines, DecodeCorruptSaved, DecodeCorruptLost,
      GiveUp, collector, numbering
<1>3. stale' = stale \/ RebuildNumbers
  BY DEF agentVars, AgentNext, PutLine, NoteLine, SaveOffset, SaveNotes, AckLines,
         SaveRejectedLines, PackLines, CrashAgent, StartAgent, SenderStep, PeekLines,
         SpoolFailsLines, DecodePoisonLines, DecodeCorruptSaved, DecodeCorruptLost, GiveUp,
         numbering
<1>4. RebuildNumbers => stale' \in 0 .. MaxEvent
  BY <1>1, Renumbered
<1> QED
  BY <1>1, <1>2, <1>3, <1>4

LEMMA AgentTypeNext ==
  ASSUME RelayInv, [AgentNext]_agentVars
  PROVE  AgentTypeOK'
<1>1. TypeOK'
  BY SpoolMoves DEF SpoolInv
<1>2. OffsetsKnown'
  BY OffsetsNext
<1> QED
  BY <1>1, <1>2, LinesTyped, FlagsTyped DEF AgentTypeOK, OffsetsKnown, NotesUpTo, Event

LEMMA RelayInit == AgentInit => RelayInv
<1> SUFFICES ASSUME AgentInit PROVE RelayInv
  OBVIOUS
<1>1. SpoolInv /\ Init
  BY SpoolInit DEF AgentInit
<1>2. EventsOf(metas) = {} /\ queue = {} /\ Hand = {} /\ Skipped = {} /\ Ackable = {}
  BY <1>1, EmptyType DEF Init, Hand, Skipped, Ackable
<1>3. AgentTypeOK
  <2>1. \A n \in {notes, saved.notes} : n = << >>
    BY DEF AgentInit
  <2>2. DOMAIN << >> = {}
    BY EmptyType
  <2>3. carries = << >> /\ sent = << >> /\ carries \in [DOMAIN sent -> SUBSET Line]
    BY <1>1, EmptyType DEF AgentInit, Init
  <2>4. \A n \in {notes, saved.notes} :
          DOMAIN n \subseteq 1 .. MaxEvent /\ n \in [DOMAIN n -> 1 .. pos]
    <3>1. << >> \in [DOMAIN << >> -> 1 .. pos]
      OBVIOUS
    <3> QED
      BY <2>1, <2>2, <3>1
  <2>5. {offset, saved.offset} \subseteq 0 .. pos /\ pos \in 0 .. MaxLine
    BY LineBound DEF AgentInit
  <2>6. item \in [1 .. MaxEvent -> 0 .. MaxLine] /\ stale \in 0 .. MaxEvent
    BY LineBound, SenderAssumption DEF AgentInit, SenderAssumption
  <2> QED
    BY <1>1, <2>2, <2>3, <2>4, <2>5, <2>6 DEF AgentInit, AgentTypeOK, SpoolInv
<1>4. NoLineLost
  BY DEF NoLineLost, AgentInit
<1> QED
  BY <1>1, <1>2, <1>3, <1>4
  DEF RelayInv, NumbersKnown, AckIsSafe, HandIsOldest, SkippedIsHeld, ItemsAreLines,
      ProcessState, AgentInit, Init

LEMMA RelayNext == RelayInv /\ [AgentNext]_agentVars => RelayInv'
<1> SUFFICES ASSUME RelayInv, [AgentNext]_agentVars PROVE RelayInv'
  OBVIOUS
<1>1. SpoolInv' /\ AgentTypeOK' /\ NumbersKnown'
  BY SpoolMoves, AgentTypeNext, NumbersNext
<1>2. AckIsSafe' /\ HandIsOldest' /\ SkippedIsHeld'
  BY AckIsSafeNext, HandIsOldestNext, SkippedIsHeldNext
<1>3. ItemsAreLines' /\ ProcessState' /\ NoLineLost'
  BY ItemsAreLinesNext, ProcessStateNext, OffsetsNext, NoLineLostNext
<1> QED
  BY <1>1, <1>2, <1>3 DEF RelayInv

LEMMA RelayAlways == AgentSpec => []RelayInv
  BY RelayInit, RelayNext, PTL DEF AgentSpec

\* Every variable of the agent stays of its type; no offset, in memory or saved,
\* and no note is beyond the lines that have been read.
THEOREM AgentTypeCorrect == AgentSpec => []AgentTypeOK
  BY RelayAlways, PTL DEF RelayInv

\* From the log file to the server no line is lost, in whatever order acks, saves
\* and crashes come (logsender.py:378-396, logcollector.py:453), whatever reads,
\* writes, acks and deletions of the sender fail and whichever events do not decode,
\* but for the lines the sender gives up itself, and those that get a number which
\* was in the spool when numbering began anew.
THEOREM NoLineIsLost == AgentSpec => []NoLineLost
  BY RelayAlways, PTL DEF RelayInv

-----------------------------------------------------------------------------
(* The agent is a relay *)

LEMMA CopiesMove ==
  ASSUME RelayInv, [AgentNext]_agentVars, ~PutLine, UNCHANGED atRisk
  PROVE  /\ OnDisk \subseteq OnDisk' \cup Arrived \cup atRisk
         /\ UNCHANGED item
<1>1. UNCHANGED item
  BY LinesMove
<1>2. \A e \in queue : e \in queue' \/ item[e] \in SafeLines
  BY QueueMoves
<1>3. \A b \in DOMAIN carries : b \in DOMAIN carries' /\ carries'[b] = carries[b]
  BY LinesMove, BatchPacked
<1>4. \A b \in DOMAIN bins : b \in DOMAIN bins' \/ carries[b] \subseteq Arrived
  BY BinsMove
<1>5. DOMAIN bins \subseteq DOMAIN carries
  BY DEF RelayInv, SpoolInv, SpoolIsSent, AgentTypeOK
<1>6. LinesOf(DOMAIN bins) \subseteq LinesOf(DOMAIN bins)' \cup Arrived
  BY <1>3, <1>4, <1>5 DEF LinesOf
<1>7. {item[e] : e \in queue} \subseteq {item[e] : e \in queue}' \cup LinesOf(DOMAIN bins)
                                          \cup Arrived \cup atRisk
  BY <1>1, <1>2 DEF SafeLines
<1> QED
  BY <1>1, <1>6, <1>7 DEF OnDisk

\* What is in hand has a copy on disk, has arrived or is excused.
LEMMA HandOnDisk ==
  ASSUME RelayInv
  PROVE  \A e \in Hand : item[e] \in OnDisk \cup Arrived \cup atRisk
<1>1. \A e \in Hand : e \in queue \/ item[e] \in SafeLines
  BY DEF RelayInv, HandIsOldest
<1> QED
  BY <1>1 DEF SafeLines, OnDisk

LEMMA RelayStep ==
  ASSUME RelayInv, RelayInv', [AgentNext]_agentVars
  PROVE  [TheRelay!Next]_<<pos, OnDisk, Arrived, atRisk>>
<1> USE DEF TheRelay!Next
<1>1. pos \in Nat
  BY OffsetsAre
<1>2. CASE PutLine
  <2>1. OnDisk' = OnDisk \cup {pos + 1}
    <3>1. LinesOf(DOMAIN bins)' = LinesOf(DOMAIN bins)
      BY <1>2 DEF PutLine, Produce, LinesOf
    <3>2. {item[e] : e \in queue}' = {item[e] : e \in queue} \cup {pos + 1}
      BY <1>2, LinePut, QueueMoves
    <3> QED
      BY <3>1, <3>2 DEF OnDisk
  <2>2. Arrived' = Arrived
    BY <1>2 DEF PutLine, Produce, history, Arrived, LinesOf
  <2>3. pos' = pos + 1 /\ atRisk' \in {atRisk, atRisk \cup {pos + 1}}
    BY <1>2 DEF PutLine
  <2>4. TheRelay!Take
    BY <2>1, <2>2, <2>3 DEF TheRelay!Take
  <2> QED
    BY <2>4
<1>3. CASE accepted' # accepted \/ deadLines' # deadLines
  <2>1. /\ UNCHANGED <<pos, queue, bins, item, carries, atRisk>>
        /\ \/ /\ accepted \subseteq accepted' /\ accepted' \subseteq accepted \cup {cur}
              /\ deadLines \subseteq deadLines' /\ deadLines' \subseteq deadLines \cup carries[cur]
              /\ rpc \in {"post", "save_rejected"}
           \/ accepted' = accepted /\ \E e \in Hand : deadLines' = deadLines \cup {item[e]}
    BY <1>3
    DEF agentVars, AgentNext, PutLine, NoteLine, SaveOffset, SaveNotes, AckLines,
      SaveRejectedLines, PackLines, CrashAgent, RebuildNumbers, StartAgent, SenderStep,
      PeekLines, SpoolFailsLines, DecodePoisonLines, DecodeCorruptSaved, DecodeCorruptLost,
      GiveUp, vars, collector, lines, numbering, disk, history, Produce, Start, Crash,
      Snapshot, DecodePoison, SpoolFails, DecodeCorrupt, ReadTorn, ReadFails, UnlinkFails,
      Peek, Extend, Decoded, WriteBin, WriteMeta, Flush, Scan, ScanDone, Ack, Discard,
      UnlinkBin, UnlinkMeta, SaveRejected, UnlinkRejected, ReadSpool, PostAccepted,
      PostRejected, PostFails, Hand
  <2>2. CASE /\ accepted' \subseteq accepted \cup {cur}
             /\ accepted \subseteq accepted' /\ deadLines \subseteq deadLines'
             /\ deadLines' \subseteq deadLines \cup carries[cur]
             /\ rpc \in {"post", "save_rejected"}
    <3>1. cur \in DOMAIN bins
      BY <2>2 DEF RelayInv, SpoolInv, CurInSpool
    <3>2. carries[cur] \subseteq OnDisk
      BY <3>1 DEF OnDisk, LinesOf
    <3>3. Arrived' \subseteq Arrived \cup carries[cur] /\ Arrived \subseteq Arrived'
      BY <2>1, <2>2 DEF Arrived, LinesOf
    <3> QED
      BY <2>1, <3>2, <3>3 DEF TheRelay!Deliver, OnDisk, LinesOf
  <2>3. CASE accepted' = accepted /\ \E e \in Hand : deadLines' = deadLines \cup {item[e]}
    <3>1. PICK e \in Hand : deadLines' = deadLines \cup {item[e]}
      BY <2>3
    <3>2. item[e] \in OnDisk \cup Arrived \cup atRisk
      BY HandOnDisk
    <3>3. Arrived' = Arrived \cup {item[e]}
      BY <2>1, <2>3, <3>1 DEF Arrived, LinesOf
    <3> QED
      BY <2>1, <3>2, <3>3 DEF TheRelay!Deliver, OnDisk, LinesOf
  <2> QED
    BY <2>1, <2>2, <2>3
<1>4. CASE ~PutLine /\ atRisk' # atRisk
  <2>1. PICK S \in SUBSET (queue \cup Hand) : GiveUp(S)
    BY <1>4, LinesGivenUp
  <2>2. UNCHANGED <<queue, bins, accepted, pos, item, carries, deadLines>>
    BY <1>4, <2>1, LinesGivenUp DEF GiveUp, collector, lines
  <2>3. {item[e] : e \in S} \subseteq OnDisk \cup Arrived \cup atRisk
    BY HandOnDisk DEF OnDisk
  <2>4. atRisk \subseteq atRisk' /\ atRisk' \subseteq atRisk \cup OnDisk \cup Arrived
    BY <2>1, <2>3 DEF GiveUp
  <2>5. OnDisk' = OnDisk /\ Arrived' = Arrived
    BY <2>2 DEF OnDisk, Arrived, LinesOf
  <2>6. TheRelay!GiveUp
    BY <2>2, <2>4, <2>5 DEF TheRelay!GiveUp
  <2> QED
    BY <2>6
<1>5. CASE ~PutLine /\ accepted' = accepted /\ deadLines' = deadLines /\ UNCHANGED atRisk
  <2>1. \A b \in DOMAIN carries : carries'[b] = carries[b]
    BY LinesMove, BatchPacked
  <2>2. Arrived' = Arrived
    BY <1>5, <2>1 DEF RelayInv, SpoolInv, TypeOK, AgentTypeOK, Arrived, LinesOf
  <2>3. pos' \in 0 .. pos
    BY <1>5, OffsetsNext
  <2>4. OnDisk' \subseteq OnDisk \cup Arrived \cup atRisk
    <3>1. {item[e] : e \in queue}' \subseteq {item[e] : e \in queue}
      BY <1>5, QueueMoves
    <3>2. LinesOf(DOMAIN bins)' \subseteq OnDisk \cup Arrived \cup atRisk
      <4>1. ASSUME NEW b \in Batch, PackLines(b)
            PROVE  LinesOf(DOMAIN bins)' \subseteq LinesOf(DOMAIN bins) \cup {item[e] : e \in local}
        <5>1. DOMAIN bins \subseteq DOMAIN carries
          BY DEF RelayInv, SpoolInv, SpoolIsSent, AgentTypeOK
        <5>2. /\ DOMAIN bins' = DOMAIN bins \cup {b} /\ b \notin DOMAIN carries
              /\ carries'[b] = {item[e] : e \in local}
          BY <4>1, BatchPacked
        <5> QED
          BY <2>1, <5>1, <5>2 DEF LinesOf
      <4>2. ASSUME NEW b \in Batch, PackLines(b)
            PROVE  {item[e] : e \in local} \subseteq OnDisk \cup Arrived \cup atRisk
        <5>1. local = Hand
          BY <4>2, BatchPacked
        <5>2. \A e \in local : item[e] \in OnDisk \cup Arrived \cup atRisk
          BY <5>1, HandOnDisk
        <5> QED
          BY <5>2
      <4>3. CASE DOMAIN bins' \subseteq DOMAIN bins
        <5>1. DOMAIN bins \subseteq DOMAIN carries
          BY DEF RelayInv, SpoolInv, SpoolIsSent, AgentTypeOK
        <5> QED
          BY <2>1, <4>3, <5>1 DEF LinesOf, OnDisk
      <4>4. UnlinkBin \/ UnlinkRejected => DOMAIN bins' \subseteq DOMAIN bins
        BY BinDeleted DEF UnlinkBin, UnlinkRejected, RelayInv
      <4> QED
        BY <4>1, <4>2, <4>3, <4>4, LinesMove DEF OnDisk
    <3> QED
      BY <3>1, <3>2 DEF OnDisk
  <2>5. TheRelay!Release
    BY <1>5, <2>2, <2>3, <2>4, CopiesMove DEF TheRelay!Release
  <2> QED
    BY <2>5
<1> QED
  BY <1>2, <1>3, <1>4, <1>5

\* Step by step the agent is a relay of lines: each of its steps takes a line,
\* delivers lines it holds, gives lines up, or lets go of copies of lines that have
\* arrived or are excused (logsender.py:378-396).
THEOREM AgentIsRelay == AgentSpec => IsRelay
<1>1. AgentInit => TheRelay!Init
  BY EmptyType DEF AgentInit, Init, TheRelay!Init, OnDisk, Arrived, LinesOf
<1>2. RelayInv /\ RelayInv' /\ [AgentNext]_agentVars =>
        [TheRelay!Next]_<<pos, OnDisk, Arrived, atRisk>>
  BY RelayStep
<1>3. TheRelay!relay = <<pos, OnDisk, Arrived, atRisk>>
  BY DEF TheRelay!relay
<1> QED
  BY <1>1, <1>2, <1>3, RelayAlways, PTL DEF AgentSpec, IsRelay, TheRelay!Spec, TheRelay!relay

=============================================================================
