------------------------------ MODULE LogTaker ------------------------------
(***************************************************************************)
(* logtaker/src/logtaker.py: how the server takes a batch in.              *)
(*                                                                         *)
(* ThreadingHTTPServer gives every request a thread of its own.  A handler *)
(* marks the batch id in the window of BatchDedup, puts the events in the  *)
(* in-memory queue (or, when that is full, takes the mark back), adds them *)
(* to the tail that GET /events shows, and answers.  The steps are not     *)
(* under one lock.  Whoever embeds the server takes events from the queue. *)
(*                                                                         *)
(* Requests that fail validation change nothing here and are left out, as  *)
(* are the metrics.  A batch is its id and holds one event.  The client    *)
(* posts a batch until it sees a 200.                                      *)
(***************************************************************************)
EXTENDS BatchDedup

CONSTANTS Handler,      \* request threads
          QueueSize,    \* internal_queue_size
          TailSize,     \* tail_size
          Overlap,      \* may a client post again while a request of its is served
          MaxRestart,   \* bound of the model: restarts of the server
          NoBatch       \* an idle handler's batch

ASSUME TakerAssumption ==
  /\ QueueSize \in Nat \ {0} /\ TailSize \in Nat \ {0}
  /\ Overlap \in BOOLEAN /\ MaxRestart \in Nat /\ NoBatch \notin Id

VARIABLES
  pc,         \* what each handler is about to do
  batch,      \* the batch it serves
  read,       \* the time it has read for check_and_mark
  queue,      \* _events_queue
  tail,       \* _tail
  acceptedSeq, \* history: the batches put in the queue, in order
  answered,   \* client: the batches it has seen a 200 for
  restarts

handlerVars == <<pc, batch, read>>
clientVars == <<acceptedSeq, answered, restarts>>
vars == <<dedupVars, handlerVars, queue, tail, clientVars>>

Pc == {"idle", "mark", "put", "unmark", "tail", "ok", "duplicate", "refused"}

\* Neither the queue (551) nor the tail (238-239) grows beyond its size.
TypeOK ==
  /\ DedupTypeOK
  /\ pc \in [Handler -> Pc] /\ batch \in [Handler -> Id \cup {NoBatch}]
  /\ read \in [Handler -> Time]
  /\ queue \in Seq(Id) /\ Len(queue) <= QueueSize
  /\ tail \in Seq(Id) /\ Len(tail) <= TailSize
  /\ acceptedSeq \in Seq(Id) /\ answered \subseteq Id
  /\ restarts \in 0 .. MaxRestart

Accepted == ToSet(acceptedSeq)

Goto(x, label) == pc' = [pc EXCEPT ![x] = label]

Init ==
  /\ DedupInit
  /\ pc = [x \in Handler |-> "idle"] /\ batch = [x \in Handler |-> NoBatch]
  /\ read = [x \in Handler |-> 0]
  /\ queue = << >> /\ tail = << >>
  /\ acceptedSeq = << >> /\ answered = {} /\ restarts = 0

-----------------------------------------------------------------------------
\* A request for b arrives, is valid, and check_and_mark reads the clock.
Receive(x, b) ==
  /\ pc[x] = "idle" /\ b \notin answered
  /\ Overlap \/ \A y \in Handler : batch[y] # b
  /\ Goto(x, "mark") /\ batch' = [batch EXCEPT ![x] = b] /\ read' = [read EXCEPT ![x] = clock]
  /\ UNCHANGED <<dedupVars, queue, tail, clientVars>>

\* Wrong variant: a duplicate goes on like a new batch.
DuplicateIngested(x) ==
  /\ pc[x] = "mark" /\ MarkDuplicate(batch[x], read[x]) /\ Goto(x, "put")
  /\ UNCHANGED <<batch, read, queue, tail, clientVars>>

CheckNew(x) ==
  /\ pc[x] = "mark" /\ MarkNew(batch[x], read[x]) /\ Goto(x, "put")
  /\ UNCHANGED <<batch, read, queue, tail, clientVars>>

CheckDuplicate(x) ==
  /\ pc[x] = "mark" /\ MarkDuplicate(batch[x], read[x]) /\ Goto(x, "duplicate")
  /\ UNCHANGED <<batch, read, queue, tail, clientVars>>

\* Wrong variant: one batch more than fits.
PutNowaitOffByOne(x) ==
  /\ pc[x] = "put" /\ Len(queue) <= QueueSize
  /\ queue' = Append(queue, batch[x]) /\ acceptedSeq' = Append(acceptedSeq, batch[x])
  /\ Goto(x, "tail")
  /\ UNCHANGED <<dedupVars, batch, read, tail, answered, restarts>>

PutNowait(x) ==
  /\ pc[x] = "put" /\ Len(queue) < QueueSize
  /\ queue' = Append(queue, batch[x]) /\ acceptedSeq' = Append(acceptedSeq, batch[x])
  /\ Goto(x, "tail")
  /\ UNCHANGED <<dedupVars, batch, read, tail, answered, restarts>>

\* Wrong variant: the mark is not taken back.
QueueFullKeepsMark(x) ==
  /\ pc[x] = "put" /\ Len(queue) = QueueSize /\ Goto(x, "refused")
  /\ UNCHANGED <<dedupVars, batch, read, queue, tail, clientVars>>

QueueFull(x) ==
  /\ pc[x] = "put" /\ Len(queue) = QueueSize /\ Goto(x, "unmark")
  /\ UNCHANGED <<dedupVars, batch, read, queue, tail, clientVars>>

TakeMarkBack(x) ==
  /\ pc[x] = "unmark" /\ Unmark(batch[x]) /\ Goto(x, "refused")
  /\ UNCHANGED <<batch, read, queue, tail, clientVars>>

\* Wrong variant: the batch is added a second time.
TailExtendTwice(x) ==
  /\ pc[x] = "tail" /\ tail' = LastN(tail \o <<batch[x], batch[x]>>, TailSize) /\ Goto(x, "ok")
  /\ UNCHANGED <<dedupVars, batch, read, queue, clientVars>>

\* The tail is a deque that keeps the last TailSize events.
TailExtend(x) ==
  /\ pc[x] = "tail" /\ tail' = LastN(Append(tail, batch[x]), TailSize) /\ Goto(x, "ok")
  /\ UNCHANGED <<dedupVars, batch, read, queue, clientVars>>

\* 200 for a batch that was taken in and for a duplicate, 503 for a refused one.
\* The client may have gone away.
Reply(x) ==
  /\ pc[x] \in {"ok", "duplicate", "refused"}
  /\ \/ UNCHANGED answered
     \/ pc[x] # "refused" /\ answered' = answered \cup {batch[x]}
  /\ Goto(x, "idle") /\ batch' = [batch EXCEPT ![x] = NoBatch] /\ read' = [read EXCEPT ![x] = 0]
  /\ UNCHANGED <<dedupVars, queue, tail, acceptedSeq, restarts>>

\* get_events, by whoever embeds the server.
GetEvents ==
  /\ queue # << >> /\ queue' = Tail(queue)
  /\ UNCHANGED <<dedupVars, handlerVars, tail, clientVars>>

\* The server's process ends, and another one starts from the journal.
Restart ==
  /\ restarts < MaxRestart /\ restarts' = restarts + 1
  /\ DedupRestart
  /\ pc' = [x \in Handler |-> "idle"] /\ batch' = [x \in Handler |-> NoBatch]
  /\ read' = [x \in Handler |-> 0]
  /\ queue' = << >> /\ tail' = << >>
  /\ UNCHANGED <<acceptedSeq, answered>>

Handle(x) ==
  \/ CheckNew(x) \/ CheckDuplicate(x) \/ PutNowait(x) \/ QueueFull(x)
  \/ TakeMarkBack(x) \/ TailExtend(x) \/ Reply(x)

Clock == Tick /\ UNCHANGED <<handlerVars, queue, tail, clientVars>>

Next ==
  \/ \E x \in Handler : Handle(x) \/ \E b \in Id : Receive(x, b)
  \/ GetEvents \/ Restart \/ Clock

Spec == Init /\ [][Next]_vars

\* Handlers run, the client posts again what it has no 200 for and does not go
\* away for ever, and the embedding program keeps taking events.  A queue that
\* has room again and again has room for a batch that keeps coming.
FairSpec ==
  /\ Spec
  /\ \A x \in Handler : WF_vars(Handle(x)) /\ SF_vars(PutNowait(x))
  /\ \A b \in Id : SF_vars(\E x \in Handler : Receive(x, b))
  /\ WF_vars(GetEvents)

-----------------------------------------------------------------------------
\* Within the window a batch is put in the queue at most once ("at-most-once в
\* пределах окна", logtaker.py:91), however often and however concurrently it is
\* posted, across refusals, late unmarks and restarts.  Stated where no id
\* expires or is pushed out: TTL > MaxTime and MaxEntries ids are enough.
AcceptedOnce ==
  \A i, j \in DOMAIN acceptedSeq : acceptedSeq[i] = acceptedSeq[j] => i = j

\* Every event in the tail is one that was accepted, none is there twice, and
\* when no handler is at work the tail has as many as fit (227-242).
TailHoldsAccepted ==
  /\ ToSet(tail) \subseteq Accepted
  /\ \A i, j \in DOMAIN tail : tail[i] = tail[j] => i = j
  /\ (restarts = 0 /\ \A x \in Handler : pc[x] = "idle") =>
       Len(tail) = IF Len(acceptedSeq) < TailSize THEN Len(acceptedSeq) ELSE TailSize

\* A client that has seen a 200 for a batch has had it accepted, as long as it
\* does not post a batch again while the server is still busy with it.
AnsweredWasAccepted == answered \subseteq Accepted

\* logtaker.py:556-557 says why a refused batch is unmarked: "иначе ретраи этой
\* пачки навсегда проглатывались бы как дубликаты" (or else its retries would be
\* swallowed as duplicates).  So a batch that the client has seen a 200 for, and
\* that no handler still serves, has not been refused: it was accepted.
RetryNotSwallowed ==
  \A b \in answered : b \in Accepted \/ \E x \in Handler : batch[x] = b

\* Every batch is accepted in the end, queue full or not.
EventuallyAccepted == \A b \in Id : <>(b \in Accepted)

=============================================================================
