------------------------------ MODULE DiskQueue ------------------------------
(***************************************************************************)
(* logcollector/src/queue.py: the queue on disk between the collector (the *)
(* only producer) and the sender (the only consumer).                      *)
(*                                                                         *)
(* One file per item, named by its sequence number, and meta.json with the *)
(* head, the tail and two counters, written after every change.  A lock    *)
(* serialises the calls, so calls never interleave; the process can die    *)
(* between any two writes, which is why each call is several steps here.   *)
(*                                                                         *)
(* Item files are written to a temporary name, synced and renamed: an item *)
(* file is whole or absent.  meta.json is renamed without a sync: it is    *)
(* replaced at once when the process dies, and a power cut may leave it    *)
(* unreadable (fault "meta_lost").                                         *)
(***************************************************************************)
EXTENDS Integers, FiniteSets

CONSTANTS Payload,      \* what an item may hold
          Size,         \* Size[p]: bytes of payload p
          MaxItems,     \* QueueLimits.max_items, or NoLimit
          MaxBytes,     \* QueueLimits.max_bytes, or NoLimit
          NoLimit,      \* stands for None
          NoMeta,       \* meta.json is missing or unreadable
          Faults,       \* what may go wrong, a subset of FaultKind
          Ops,          \* of the calls the agent does not make, those in use
          SeqBound      \* bound of the model: sequence numbers are below it

FaultKind == {"save_meta", "unlink", "read", "meta_lost"}

ASSUME QueueAssumption ==
  /\ Size \in [Payload -> Nat]
  /\ MaxItems \in Nat \cup {NoLimit} /\ NoLimit \notin Nat
  /\ MaxBytes \in Nat \cup {NoLimit}
  /\ Faults \subseteq FaultKind
  /\ Ops \subseteq {"get", "clear"}
  /\ SeqBound \in Nat

SeqNo == 0 .. SeqBound - 1

Counters == [head: Nat, tail: Nat, count: Nat, bytes: Nat]

ASSUME NoMetaAssumption == NoMeta \notin Counters

Zero == [head |-> 0, tail |-> 0, count |-> 0, bytes |-> 0]

VARIABLES
  items,   \* disk: sequence number -> payload, one file each
  meta,    \* disk: what meta.json holds
  mem,     \* _head, _tail, _count and _total_bytes of the running process
  op,      \* the call in progress, "idle" or "down"
  upTo,    \* the last sequence number the ack in progress removes
  owed     \* history: items whose put returned and that nobody has released

vars == <<items, meta, mem, op, upTo, owed>>

\* What a call in progress is doing: "put" has written its item and not yet
\* counted it, "ack" and "clear" are deleting files, "saving" is about to
\* write meta.json.
OpState == {"down", "idle", "put", "ack", "clear", "saving"}

\* The counters never fall below zero (181-186), and no call leaves the files,
\* meta.json or its own place in another shape.
TypeOK ==
  /\ DOMAIN items \subseteq SeqNo /\ items \in [DOMAIN items -> Payload]
  /\ meta \in Counters \cup {NoMeta}
  /\ mem \in Counters
  /\ op \in OpState
  /\ upTo \in Int
  /\ DOMAIN owed \subseteq SeqNo /\ owed \in [DOMAIN owed -> Payload]

-----------------------------------------------------------------------------
\* The bytes of the items in S, as a set: the sum of the sizes is its cardinality.
Bytes(S) == UNION {{s} \X (1 .. Size[items[s]]) : s \in S}

SizeOf(S) == Cardinality(Bytes(S))

\* The item files between the head and the tail of the counters c.
Held(c) == {s \in DOMAIN items : c.head <= s /\ s < c.tail}

\* Wrong variants.  Each stands before the definition it is a variant of, and is
\* a slip that a change to the code could make; a property below rejects it.

\* Without the max(0, ...).
Subtract(a, b) == a - b

\* meta.json written in place: a failed write leaves nothing readable.
SaveMetaInPlace(c) == meta' = c \/ ("save_meta" \in Faults /\ meta' = NoMeta)

\* The tail taken from the number of files.
RebuildByCount(lo, hi) ==
  /\ op = "down" /\ meta = NoMeta /\ lo \in DOMAIN items /\ hi \in DOMAIN items
  /\ \A s \in DOMAIN items : lo <= s /\ s <= hi
  /\ LET n == Cardinality(DOMAIN items) IN
     mem' = [head |-> lo, tail |-> n, count |-> n, bytes |-> SizeOf(DOMAIN items)]
  /\ meta' = mem' /\ op' = "idle"
  /\ UNCHANGED <<items, upTo, owed>>

\* One item too many.
HasRoomOffByOne(p) == mem.count <= MaxItems /\ mem.bytes + Size[p] <= MaxBytes

\* Without the min(seq, tail - 1).
AckBeginUnclamped(s) ==
  /\ op = "idle" /\ upTo' = s /\ op' = "ack" /\ owed' = [t \in DOMAIN owed \ 0 .. s |-> owed[t]]
  /\ UNCHANGED <<items, meta, mem>>

\* Any item rather than the first.
AnyHeld(s) == s \in Held(mem)

\* max(0, a - b)
Minus(a, b) == IF b > a THEN 0 ELSE a - b

Without(f, S) == [s \in DOMAIN f \ S |-> f[s]]

With(f, s, p) == [t \in DOMAIN f \cup {s} |-> IF t = s THEN p ELSE f[t]]

\* _save_meta logs an OSError and goes on.
SaveMeta(c) == meta' = c \/ ("save_meta" \in Faults /\ UNCHANGED meta)

\* unlink() of the files in S, which may be refused: callers log it and go on.
Unlink(S) == items' = Without(items, S) \/ ("unlink" \in Faults /\ UNCHANGED items)

-----------------------------------------------------------------------------
Init ==
  /\ items = << >> /\ meta = NoMeta
  /\ mem = Zero /\ op = "down" /\ upTo = -1
  /\ owed = << >>

\* __init__ with a readable meta.json, whose numbers are believed.
OpenFromMeta ==
  /\ op = "down" /\ meta # NoMeta
  /\ mem' = meta /\ op' = "idle"
  /\ UNCHANGED <<items, meta, upTo, owed>>

\* __init__ without one: count the item files.  With none of them the counters
\* are zero and nothing is saved.
OpenEmpty ==
  /\ op = "down" /\ meta = NoMeta /\ DOMAIN items = {}
  /\ mem' = Zero /\ op' = "idle"
  /\ UNCHANGED <<items, meta, upTo, owed>>

Rebuild(lo, hi) ==
  /\ op = "down" /\ meta = NoMeta
  /\ \A s \in DOMAIN items : lo <= s /\ s <= hi
  /\ mem' = [head |-> lo, tail |-> hi + 1,
             count |-> Cardinality(DOMAIN items), bytes |-> SizeOf(DOMAIN items)]
  /\ SaveMeta(mem') /\ op' = "idle"
  /\ UNCHANGED <<items, upTo, owed>>

-----------------------------------------------------------------------------
\* Neither limit lets put raise QueueFullError.  The test of the byte limit is
\* guarded by max_items, and raises TypeError when max_bytes is None.
HasRoom(p) ==
  MaxItems # NoLimit =>
    /\ mem.count < MaxItems
    /\ MaxBytes # NoLimit
    /\ mem.bytes + Size[p] <= MaxBytes

\* put, up to the rename that makes the item file visible.  A file already
\* there is replaced.
PutWrite(p) ==
  /\ op = "idle" /\ HasRoom(p) /\ mem.tail < SeqBound
  /\ items' = With(items, mem.tail, p)
  /\ op' = "put"
  /\ UNCHANGED <<meta, mem, upTo, owed>>

\* put, the rest: count the item, save and return its number.
PutCommit ==
  /\ op = "put"
  /\ mem' = [mem EXCEPT !.tail = @ + 1, !.count = @ + 1,
                        !.bytes = @ + Size[items[mem.tail]]]
  /\ SaveMeta(mem') /\ op' = "idle"
  /\ owed' = With(owed, mem.tail, items[mem.tail])
  /\ UNCHANGED <<items, upTo>>

\* ack(s): everything up to s is the queue's to delete.
AckBegin(s) ==
  /\ op = "idle"
  /\ upTo' = IF s < mem.tail THEN s ELSE mem.tail - 1
  /\ op' = "ack"
  /\ owed' = Without(owed, 0 .. s)
  /\ UNCHANGED <<items, meta, mem>>

\* One turn of ack's loop.  The counters lose an item that is missing, or that
\* could not be deleted, as they do one that was deleted; the bytes do not.
AckItem ==
  /\ op = "ack" /\ mem.head <= upTo
  /\ Unlink({mem.head})
  /\ mem' = [mem EXCEPT
       !.head = @ + 1, !.count = Minus(@, 1),
       !.bytes = IF mem.head \in DOMAIN items \ DOMAIN items'
                 THEN Minus(@, Size[items[mem.head]]) ELSE @]
  /\ UNCHANGED <<meta, op, upTo, owed>>

AckDone ==
  /\ op = "ack" /\ mem.head > upTo
  /\ op' = "saving"
  /\ UNCHANGED <<items, meta, mem, upTo, owed>>

\* The write of meta.json that ends ack, get and clear.
FinishSave ==
  /\ op = "saving"
  /\ SaveMeta(mem) /\ op' = "idle"
  /\ UNCHANGED <<items, mem, upTo, owed>>

-----------------------------------------------------------------------------
\* The head gets to the first file there is, s, past the missing ones.
FirstHeld(s) == s \in Held(mem) /\ \A t \in Held(mem) : s <= t

\* get finds no file where the counters promised one, and resets them.
GetNothing ==
  /\ "get" \in Ops /\ op = "idle" /\ mem.count > 0
  /\ Held(mem) = {}
  /\ mem' = [mem EXCEPT !.head = IF mem.tail > @ THEN mem.tail ELSE @,
                        !.count = 0, !.bytes = 0]
  /\ op' = "saving"
  /\ UNCHANGED <<items, meta, upTo, owed>>

\* get skips the missing files and then cannot read the next one.
GetUnreadable ==
  /\ "get" \in Ops /\ "read" \in Faults /\ op = "idle" /\ mem.count > 0
  /\ \E s \in SeqNo : FirstHeld(s) /\ mem' = [mem EXCEPT !.head = s]
  /\ UNCHANGED <<items, meta, op, upTo, owed>>

\* get deletes the item it returns; this is the consumer's release.
GetItem(s) ==
  /\ "get" \in Ops /\ op = "idle" /\ mem.count > 0
  /\ FirstHeld(s)
  /\ Unlink({s})
  /\ mem' = [mem EXCEPT !.head = s + 1, !.count = @ - 1,
                        !.bytes = Minus(@, Size[items[s]])]
  /\ owed' = Without(owed, {s})
  /\ op' = "saving"
  /\ UNCHANGED <<meta, upTo>>

\* clear deletes the item files in the order the directory lists them.
ClearBegin ==
  /\ "clear" \in Ops /\ op = "idle"
  /\ op' = "clear" /\ owed' = << >>
  /\ UNCHANGED <<items, meta, mem, upTo>>

ClearItem(s) ==
  /\ op = "clear" /\ s \in DOMAIN items
  /\ items' = Without(items, {s})
  /\ UNCHANGED <<meta, mem, op, upTo, owed>>

ClearDone ==
  /\ op = "clear" /\ (DOMAIN items = {} \/ "unlink" \in Faults)
  /\ mem' = Zero /\ op' = "saving"
  /\ UNCHANGED <<items, meta, upTo, owed>>

-----------------------------------------------------------------------------
\* The process dies, or is stopped, between two writes.
Crash ==
  /\ op # "down"
  /\ op' = "down" /\ mem' = Zero /\ upTo' = -1
  /\ meta' = meta \/ ("meta_lost" \in Faults /\ meta' = NoMeta)
  /\ UNCHANGED <<items, owed>>

Open == OpenFromMeta \/ OpenEmpty \/ \E lo, hi \in DOMAIN items : Rebuild(lo, hi)

Put == PutCommit \/ \E p \in Payload : PutWrite(p)

Ack == AckItem \/ AckDone \/ \E s \in SeqNo : AckBegin(s)

Get == GetNothing \/ GetUnreadable \/ \E s \in SeqNo : GetItem(s)

Clear == ClearBegin \/ ClearDone \/ \E s \in SeqNo : ClearItem(s)

Next == Open \/ Put \/ Ack \/ Get \/ Clear \/ FinishSave \/ Crash

Spec == Init /\ [][Next]_vars

-----------------------------------------------------------------------------
(* Safety *)

\* The counters a restart would find: those in meta.json or, without it, the
\* span of the files.
InWindow(c, s) == c.head <= s /\ s < c.tail

OwedOnDisk == \A s \in DOMAIN owed : s \in DOMAIN items /\ items[s] = owed[s]

OwedInMem == op # "down" => \A s \in DOMAIN owed : InWindow(mem, s)

OwedInMeta == meta # NoMeta => \A s \in DOMAIN owed : InWindow(meta, s)

\* An item whose put has returned and that nobody released (put, queue.py:53-76)
\* is on disk with the payload it was given, and both the running process and
\* the one that a crash at this very point would leave to start look at it:
\* neither a crash inside put, ack, get or clear, nor a lost meta.json, nor a
\* file that cannot be deleted, loses or overwrites it.
NothingLost == OwedOnDisk /\ OwedInMem /\ OwedInMeta

NewestIsLargest ==
  \A s \in DOMAIN owed' \ DOMAIN owed : \A t \in DOMAIN owed : t < s

\* The numbers put returns (queue.py:67-76) grow across crashes as long as the
\* consumer still owes an answer for an earlier one, which is what makes the
\* sender's cumulative ack(max(seqs)) mean "these and all older ones".
SeqsIncrease == [][NewestIsLargest]_vars

\* What the limits are for (queue.py:59-65): the counters put tests never fall
\* below what the queue really holds, so that it never holds more than
\* max_items items or max_bytes bytes, however often an ack was interrupted.
LimitsHold ==
  /\ op # "down" => Cardinality(Held(mem)) <= mem.count
                 /\ SizeOf(Held(mem)) <= mem.bytes
  /\ MaxItems # NoLimit => Cardinality(Held(mem)) <= MaxItems
                        /\ SizeOf(Held(mem)) <= MaxBytes

\* Even when writes of meta.json fail (_save_meta, queue.py:323, logs and goes
\* on), an item that one successful save has counted stays where a restart
\* finds it until it is released; only items accepted since the last successful
\* save are at stake.
SavedNotLost ==
  [][\A s \in DOMAIN owed \cap DOMAIN owed' :
       (meta # NoMeta /\ InWindow(meta, s)) =>
         /\ s \in DOMAIN items' /\ items'[s] = owed[s]
         /\ meta' # NoMeta /\ InWindow(meta', s)]_vars

-----------------------------------------------------------------------------
(* Refinement *)

\* The abstract queue holds what the process sees or, while it is down, what the
\* next one will see.
Visible ==
  IF op # "down" THEN Held(mem)
  ELSE IF meta # NoMeta THEN Held(meta) ELSE DOMAIN items

Abstract == INSTANCE DurableQueue WITH q <- [s \in Visible |-> items[s]]

\* The disk queue implements the durable FIFO: every step of put, ack, get, a
\* crash and a restart is a step of it or changes nothing its users can see.
IsDurableQueue == Abstract!Spec

=============================================================================
