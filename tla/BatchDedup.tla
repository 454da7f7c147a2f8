----------------------------- MODULE BatchDedup -----------------------------
(***************************************************************************)
(* logtaker/src/dedup.py: the server's window of batch ids it has seen.    *)
(*                                                                         *)
(* An OrderedDict from id to expiry, oldest mark first, limited to         *)
(* max_entries; and a journal on disk from which the window is rebuilt     *)
(* when the server is started again.  Every call holds the lock, but       *)
(* check_and_mark reads the clock before it takes it, so the time it works *)
(* with can be older than that of a call that went before it.              *)
(*                                                                         *)
(* The monotonic clock and the wall clock are one clock here.              *)
(***************************************************************************)
EXTENDS Integers, SequencesExt

CONSTANTS Id,             \* batch ids
          TTL,            \* seconds an id is remembered
          MaxEntries,     \* most ids remembered
          MaxErrors,      \* PERSIST_MAX_CONSECUTIVE_ERRORS
          Persist,        \* is there a journal
          JournalFails,   \* may writing or reading it fail
          MaxTime,        \* bound of the model: the last second
          MaxJournal,     \* bound of the model: lines of the journal
          MaxLag          \* bound of the model: how old a clock reading can be

ASSUME DedupAssumption ==
  /\ TTL \in Nat \ {0} /\ MaxEntries \in Nat \ {0} /\ MaxErrors \in Nat \ {0}
  /\ Persist \in BOOLEAN /\ JournalFails \in BOOLEAN
  /\ MaxTime \in Nat /\ MaxJournal \in Nat /\ MaxLag \in Nat

VARIABLES
  clock,      \* seconds
  entries,    \* _entries: sequence of ids with their expiry
  lastSweep,  \* _last_sweep
  journal,    \* the lines of the file, does the last one lack its newline, the errors
              \*   in a row, is it still written, and (history) the ids whose last
              \*   call it may not hold
  marked,     \* history: when each id was last marked, while it should be known
  unmarked    \* history: the ids whose last call was unmark

dedupVars == <<clock, entries, lastSweep, journal, marked, unmarked>>

Time == 0 .. MaxTime
Expiry == 0 .. MaxTime + TTL
Entry == [id : Id, exp : Expiry]
Line == Entry \cup [id : Id, del : {TRUE}] \cup [cut : {TRUE}]

\* The window and the journal keep their shape, and the window never holds more
\* than max_entries ids (151-153).
DedupTypeOK ==
  /\ clock \in Time /\ lastSweep \in Time
  /\ entries \in Seq(Entry) /\ Len(entries) <= MaxEntries
  /\ \A i, j \in DOMAIN entries : entries[i].id = entries[j].id => i = j
  /\ journal.log \in Seq(Line) /\ journal.errors \in 0 .. MaxErrors
  /\ journal.on = (Persist /\ journal.errors < MaxErrors) /\ journal.lost \subseteq Id
  /\ journal.torn \in BOOLEAN /\ (journal.torn => journal.log # << >>)
  /\ DOMAIN marked \subseteq Id /\ unmarked \subseteq Id

-----------------------------------------------------------------------------
(* The window *)

Known(b, es) == \E i \in DOMAIN es : es[i].id = b

\* An entry for b that has not expired at time t.
Remembered(b, es, t) == \E i \in DOMAIN es : es[i].id = b /\ es[i].exp > t

WithoutId(es, b) == RemoveFirstMatch(es, LAMBDA e : e.id = b)

\* The last n elements.
LastN(es, n) == IF Len(es) <= n THEN es ELSE SubSeq(es, Len(es) - n + 1, Len(es))

\* Wrong variants: the newest entries are dropped, or none.
DropNewest(es) == IF Len(es) <= MaxEntries THEN es ELSE SubSeq(es, 1, MaxEntries)
Unbounded(es) == es

\* _enforce_bound drops the oldest entries.
Bounded(es) == LastN(es, MaxEntries)

\* b goes to the end of the order with a new expiry.
MoveToEnd(es, b, exp) == Append(WithoutId(es, b), [id |-> b, exp |-> exp])

SweepDue(t) == 2 * (t - lastSweep) >= TTL

\* _sweep_expired stops at the first entry, in order, that has not expired.
Swept(t) ==
  IF SweepDue(t)
  THEN LET live == {i \in DOMAIN entries : entries[i].exp > t}
       IN IF live = {} THEN << >> ELSE SubSeq(entries, Min(live), Len(entries))
  ELSE entries

-----------------------------------------------------------------------------
(* The journal: each operator is the set of journals it may leave *)

\* What does not parse: a piece of a line, or two that have grown together.
Piece == [cut |-> TRUE]

IdOf(line) == IF "id" \in DOMAIN line THEN {line.id} ELSE {}

\* A write that fails is counted, and MaxErrors in a row end the writing for good.
Failed(j) == [j EXCEPT !.errors = @ + 1, !.on = j.errors + 1 < MaxErrors]

\* One more line, which joins a line that lacks its newline: then neither can be
\* read.
Longer(j, line) ==
  IF j.torn THEN [j EXCEPT !.log = Append(Front(@), Piece),
                           !.lost = @ \cup IdOf(Last(j.log)) \cup IdOf(line)]
  ELSE [j EXCEPT !.log = Append(@, line), !.lost = @ \ IdOf(line)]

\* _journal_write.  When the disk is full nothing, a part or all but the newline of
\* the line has reached the file.
Logged(j, line) ==
  LET unlogged == [j EXCEPT !.lost = @ \cup IdOf(line)]
      partly == {[Longer(unlogged, part) EXCEPT !.torn = TRUE, !.lost = @ \cup IdOf(line)] :
                   part \in {line, Piece}}
  IN IF ~j.on THEN {unlogged}
     ELSE {[Longer(j, line) EXCEPT !.torn = FALSE, !.errors = 0]}
          \cup (IF JournalFails THEN {Failed(k) : k \in {unlogged} \cup partly} ELSE {})

\* _compact_journal, after a sweep at time t.  A failure leaves the old file.
Compacted(j, es, t) ==
  IF SweepDue(t) /\ j.on
  THEN {[j EXCEPT !.log = [i \in DOMAIN es |-> [es[i] EXCEPT !.exp = clock + (@ - t)]],
                  !.torn = FALSE, !.lost = {}, !.errors = 0]}
       \cup (IF JournalFails THEN {Failed(j)} ELSE {})
  ELSE {j}

\* One line of the journal, read back.
Replay(es, line) ==
  CASE "exp" \in DOMAIN line -> MoveToEnd(es, line.id, line.exp)
    [] "del" \in DOMAIN line -> WithoutId(es, line.id)
    [] "cut" \in DOMAIN line -> es

\* _load_journal reads line by line,
Replayed(log) ==
  LET after[n \in 0 .. Len(log)] == IF n = 0 THEN << >> ELSE Replay(after[n - 1], log[n])
  IN after[Len(log)]

\* and then keeps, in their order, the ids that have not expired,
Unexpired(es, t) ==
  LET kept[n \in 0 .. Len(es)] ==
        IF n = 0 THEN << >>
        ELSE IF es[n].exp > t THEN Append(kept[n - 1], es[n]) ELSE kept[n - 1]
  IN kept[Len(es)]

\* before max_entries is enforced.
Restored == Unexpired(Replayed(journal.log), clock)

Loaded == Bounded(Restored)

-----------------------------------------------------------------------------
(* The calls.  t is the time the caller read. *)

Forget(f, S) == [b \in DOMAIN f \ S |-> f[b]]

\* What both outcomes of check_and_mark do: es is the window after the sweep.
\* The expiry in the journal is counted from the present time.
Mark(b, es, t) ==
  LET new == Bounded(MoveToEnd(es, b, t + TTL)) IN
  /\ entries' = new
  /\ lastSweep' = IF SweepDue(t) THEN t ELSE lastSweep
  /\ journal' \in UNION {Logged(j, [id |-> b, exp |-> clock + TTL]) : j \in Compacted(journal, es, t)}
  /\ marked' = [c \in (DOMAIN marked \cup {b}) \ {c \in Id : Known(c, es) /\ ~Known(c, new)}
                  |-> IF c = b THEN clock ELSE marked[c]]
  /\ unmarked' = unmarked \ {b}
  /\ UNCHANGED clock

JournalHasRoom == journal.on => Len(journal.log) < MaxJournal

\* check_and_mark returns True: the id is new, or has expired.
MarkNew(b, t) ==
  /\ JournalHasRoom
  /\ ~Remembered(b, Swept(t), t)
  /\ Mark(b, Swept(t), t)

\* check_and_mark returns False, and the id is remembered for longer.
MarkDuplicate(b, t) ==
  /\ JournalHasRoom
  /\ Remembered(b, Swept(t), t)
  /\ Mark(b, Swept(t), t)

\* Wrong variant: nothing is written.
UnmarkInMemory(b) ==
  /\ entries' = WithoutId(entries, b)
  /\ marked' = Forget(marked, {b}) /\ unmarked' = unmarked \cup {b}
  /\ UNCHANGED <<clock, lastSweep, journal>>

Unmark(b) ==
  /\ JournalHasRoom
  /\ entries' = WithoutId(entries, b)
  /\ journal' \in Logged(journal, [id |-> b, del |-> TRUE])
  /\ marked' = Forget(marked, {b}) /\ unmarked' = unmarked \cup {b}
  /\ UNCHANGED <<clock, lastSweep>>

\* size(), called for /health, sweeps as well.
Size(t) ==
  /\ SweepDue(t)
  /\ entries' = Swept(t) /\ lastSweep' = t
  /\ journal' \in Compacted(journal, Swept(t), t)
  /\ UNCHANGED <<clock, marked, unmarked>>

\* The server is started again; a journal it cannot read is as good as none.  Calls
\* whose line the file does not hold are forgotten; and an unmark of that kind may
\* leave in the file an id too many, which pushes out an older one.
DedupRestart ==
  /\ \E read \in {TRUE} \cup (IF JournalFails THEN {FALSE} ELSE {}) :
       /\ entries' = IF read THEN Loaded ELSE << >>
       /\ marked' = Forget(marked,
            IF ~read \/ (journal.lost # {} /\ Len(Restored) > MaxEntries) THEN Id
            ELSE journal.lost)
       /\ unmarked' = IF read THEN unmarked \ journal.lost ELSE {}
  /\ journal' = [journal EXCEPT !.errors = 0, !.on = Persist, !.lost = {}]
  /\ lastSweep' = clock
  /\ UNCHANGED clock

Tick ==
  /\ clock < MaxTime /\ clock' = clock + 1
  /\ UNCHANGED <<entries, lastSweep, journal, marked, unmarked>>

DedupInit ==
  /\ clock = 0 /\ entries = << >> /\ lastSweep = 0
  /\ journal = [log |-> << >>, torn |-> FALSE, errors |-> 0, on |-> Persist, lost |-> {}]
  /\ marked = << >> /\ unmarked = {}

Recent == {t \in Time : t <= clock /\ clock <= t + MaxLag}

DedupNext ==
  \/ \E b \in Id, t \in Recent : MarkNew(b, t) \/ MarkDuplicate(b, t)
  \/ \E b \in Id : Unmark(b)
  \/ Size(clock) \/ DedupRestart \/ Tick

DedupSpec == DedupInit /\ [][DedupNext]_dedupVars

-----------------------------------------------------------------------------
\* An id that was marked is recognised for ttl seconds (67-94), less the age of
\* the clock reading, whatever was marked, swept or compacted since and across
\* restarts, unless it was unmarked or max_entries newer ids pushed it out.
WindowHolds ==
  \A b \in DOMAIN marked :
    clock + MaxLag < marked[b] + TTL => Remembered(b, entries, clock)

\* An id that was unmarked (96-105), and not marked again, is not recognised,
\* not even after a restart: a batch the server refused can be sent again.
UnmarkForgets == \A b \in unmarked : ~Remembered(b, entries, clock)

=============================================================================
