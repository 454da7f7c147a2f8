# A formal model of tarakan-SIEM

The repository is a log agent (`src/src/logcollector`) and a log server
(`src/src/logtaker`), both in Python. This directory holds TLA+ models of the
parts whose correctness depends on crashes, failures and interleavings, the TLC
runs that check them on small instances, and proofs of some of their properties
for every value of the constants. Paths below leave out
`src/src/logcollector/src/` and `src/src/logtaker/src/`.

## The system

```
 log files --> LogCollector --put--> DiskQueue --peek_batch--> LogSender --POST--> LogTaker
                  |    ^                 ^                         |                 |  |
                  v    '--------------- ack_seqs(max(seqs)) -------'                 |  '-> BatchDedupCache
           StateStore, PendingAckStore                                     queue in memory, tail
```

| component | state | operations | what makes it correct |
|---|---|---|---|
| DiskQueue (`queue.py`) | one file per item, `meta.json`, four counters in memory | put, get, peek, peek_batch, ack, clear, reload | an item that put accepted stays until it is released, in order, through any crash; numbers grow; the limits hold |
| LogSender (`logsender.py`) | buffer, `_in_flight`, spool (`.bin`, `.meta`), dead letters | main loop (read, pack), resend loop (post, ack, delete), start, stop | a cumulative ack removes only events that are safe elsewhere; every event gets to the server or the dead letters |
| LogTaker (`logtaker.py`) | queue in memory, tail, window of batch ids, metrics | POST /ingest, GET /events and others, get_events | a batch is accepted at most once in the window; 200 means accepted |
| BatchDedupCache (`dedup.py`) | ids with expiries in order, journal | check_and_mark, unmark, sweep, compact, load | an id is known for its ttl, an unmarked one is not, across restarts |
| LogCollector (`logcollector.py`) | per source: open file, reading position, reader | sync, poll, rotation, truncation, `_process_message`, ack_seqs | each line is queued, and again only after a restart or a rotation |
| StateStore, PendingAckStore (`state.py`) | offset, inode and size per source; number -> offset | update, add, remove_up_to, flush, load | a restart resumes where nothing acked is missing |
| Readers (`base_reader.py`, `read_*.py`) | the text held back | read, flush | messages are the same whatever the chunks are |
| JournaldReader (`read_journald.py`) | cursor | iter_entries | the cursor never passes an entry that was not queued |
| AgentLogConfig (`config.py`) | entries, modification times, sources, entries to try again | load, validate, retry | the sources are those of the `.conf` files and of the log files there are |
| RotatingJsonlSink (`sink.py`) | current file and copies | write, rotate | lines stay in order, and only the oldest go |
| LogTakerMetrics (`metrics.py`) | counters | inc, set, render | - |

The collector is the queue's only producer and the sender its only consumer. The
sender acks through the collector (`ack_seqs`), which moves the offset of the
source before it releases the items. What is hard: the process may die between
any two writes; acks are cumulative while batches are posted in no particular
order; the collector's file, sync, flush and sender threads and the server's
handlers share state between steps that no single lock covers; an answer can be
lost after the server has taken the batch. `PROJECT.json` lists these hazards one
by one, at the line where each bites, with the property that covers it or the
reason why none does.

## Modules

| module | models |
|---|---|
| `DurableQueue` | what a durable bounded FIFO promises, with nothing of how it is done |
| `DiskQueue` | `queue.py`, one action per write; implements `DurableQueue` |
| `DiskQueueProofs` | theorems about `DiskQueue` |
| `LogSender` | `logsender.py`, both threads |
| `LogSenderProofs` | theorems about `LogSender` |
| `BatchDedup` | `dedup.py`: window and journal |
| `LogTaker` | `logtaker.py`'s POST /ingest, composed with `BatchDedup` (it EXTENDS it and calls its operations) |
| `LogTakerProofs` | theorems about `BatchDedup` and `LogTaker` |
| `LogCollector` | `logcollector.py` and `state.py` for one source read by `read_syslog.py` |
| `LogCollectorProofs` | theorems about `LogCollector` |
| `Relay` | what the agent promises for the lines of a log, with nothing of how it is done |
| `Agent` | collector, queue and sender together (it EXTENDS `LogSender`); implements `Relay` |
| `AgentProofs` | theorems about `Agent`; it EXTENDS `LogSenderProofs` for the sender's invariant |
| `Sources` | `config.py`, and `_sync_sources` of `logcollector.py` |
| `SourcesProofs` | theorems about `Sources` |
| `Readers` | the four readers on the bytes of a file |
| `ReadersProofs` | theorems about `Readers` and `Journald`, and the types of `MCParts` |
| `Journald` | the journald thread of `logcollector.py`, and `read_journald.py` |
| `Sink` | `sink.py` |
| `SinkProofs` | theorems about `Sink` |
| `MC...` | the constants of the runs; `MCParts` puts `Sources`, `Readers`, `Journald` and `Sink`, which share no state, in one run |

**DiskQueue.** `items` is the directory (an item is renamed into place, so it is
whole or absent), `meta` is `meta.json`, `mem` the four counters. A call holds a
lock, so calls do not interleave, but each is several steps with `op` between
them, and `Crash` is possible at each. `Open` is the constructor: counters from
`meta.json` or, if that is gone, rebuilt from the files. `owed` is a history
variable: what put accepted and nobody released. The constant `Faults` says what
may go wrong besides a crash. `peek`, `peek_batch`, `size` and `is_full` change
nothing; what a consumer can see of the queue is `Visible`.

**LogSender.** `mpc` and `rpc` are the places of the two threads. The main thread
takes a snapshot of `_in_flight` (`Snapshot`), reads the queue (`Peek`), takes
over (`Extend`), and packs (`Flush`, decoding, `WriteBin`, `WriteMeta`). The
resend thread scans the spool (`Scan`), reads one batch, posts it, acks,
discards the numbers and deletes the files, each a step of its own. The queue
is abstract here: a set of numbers from which an ack removes all up to the
largest; `AckPart` is an ack that a failure cuts short. A batch is the set
of its events. `Unreadable` are items that `peek_batch` skips for a while (`Return`
ends it), `torn` the `.meta` files that a power cut has damaged: the one that
is read ends the resend thread (`ReadTorn`), and only a restart brings it back.
`dropped` is a history variable: the events that failed calls and poison payloads
have taken out of the buffer, and the items that were skipped.

**BatchDedup.** `entries` is the OrderedDict, as a sequence; `journal` the lines
on disk; `clock` advances with `Tick`, and a call uses a reading up to `MaxLag`
old, since the code reads the clock before it takes the lock. Failed writes count
up to `MaxErrors`, after which the journal is switched off. A write that a full disk
cuts short leaves a line without its end, and the next line joins it (`torn`,
`Longer`). `journal.lost` is a history: the ids whose last call the file may not hold.

**LogTaker.** A handler goes through mark, put, unmark or tail, and the answer;
these steps of several handlers interleave. Clients post until they see 200;
`Overlap` says whether one may post again while the server still serves it.

**LogCollector.** Every line is two positions of its file, so that a poll can
see half of it. `pc` is the place of the file thread: it looks at the inode
(`NoticeRotation`, `NoticeInode`) and then at the size (`NoticeTruncation`,
`NoticeNothing`), between which the file may be rotated, so that a truncation is seen
that never was; it reads (`Read`), and for each line puts it (`PutMessage`)
and notes the offset under its number (`AddPending`), two steps, between which
the sender may ack it. After a rotation offset, inode and size are set one by one
(`DoneRotating`, `SetInode`, `SetSize`), and a save may come in between. `Boot` is the
start of the process, which loads the pending acks; acks are possible from then on, and
use the state as it is in its file (`Known`) until the source is registered
(`Registering`) by one of the branches of `_init_file_position` (`Start...`). `AckState` and
`AckRemove` are ack_seqs; `FlushState` and `FlushPending` the two files of the flush
thread; `Stop...` the last flush; `Crash` may come anywhere.
Messages that are not exactly one line (halves, joined pieces) are `Garbled`. One step
each are: what a start looks up of its file; open and the two lookups at the end of a
rotation; the two assignments at the end of a truncation; the fields that one save
takes.

**Agent.** The sender is `LogSender`, action by action. Around it, `pos` is how far
the collector has read, `item` the line each number stands for, `notes` and
`offset` the pending acks and the offset, which are saved in two writes and
reloaded by `CrashAgent`. When `meta.json` is lost, `RebuildNumbers` numbers on from
the largest item that is left, or from 0. `stale` is the largest number the spool
still held then: the lines that get such numbers are `atRisk`, because an old
batch's ack deletes them from the queue. The other lines `atRisk` are those the
sender gives up (`GiveUp`): because it cannot read the item (`PeekLines`), write the
spool (`SpoolFailsLines`), decode the buffer (`DecodePoisonLines`) or save what did not
decode (`DecodeCorruptLost`); what it can save is in `deadLines`. That these lines can be
lost is what the code does; `NoLineLost` and `Relay` (where they are `excused`) say that
no others are.

**Sources.** An entry of a `.conf` file stands for its `dedup_key()`. `valid`, `owned`
and `unvalid` are the three tables of AgentLogConfig. The lock is held entry by
entry (`phase`, `todo`), since log files come and go meanwhile. `Load` covers both
watchers and the timer: each calls `_load_conf_dir`, which compares modification
times (`noticed`). A `.conf` file that cannot be opened makes it raise
(`LoadRaises`) with the new times already recorded, a stat that fails (`StatRaises`)
without. `Sync` opens and closes files.

**Readers.** The state is a reader's own; `Feed` is one call of `read` with any
chunk, so every text up to the bound is tried with every way to cut it. `Decode`
garbles a character that a cut divides, as `decode_chunk` does. The constant `Pattern`
is the set of lines that the regex of a source matches.

**Journald.** Each turn reads the cursor of the state (`Turn`), opens a reader there and
skips the entry (`Seek`), puts the next one (`Insert`) and notes its cursor (`Note`);
acks and saves may come between any two of these. The same entry is put again every turn
until it is acked. Any put can be refused (`Refuse`), and those of the entries in `Unfit`
(too large for the queue, or not encodable) always are.

**Sink.** Each system call of `write` and `rotate` is an action that can fail (`Fails`) or be
the last of the process (`ExitAndOpen`). A write or flush that fails (`WriteFails`: a full
disk) raises, `_size` stays as it is, and the line is lost or stays in the buffer of the
open file (`buffered`), which a later flush writes (`LineOut`). `late` is a history
variable: the lines whose `write()` raised in this way.

## Runs

Every property has a mutant (see `PROJECT.json`): a wrong variant of one
definition, kept in the module beside the right one and marked "Wrong variant",
under which TLC finds the property violated.

| run | what it shows | bounds |
|---|---|---|
| `disk_queue_refine` | nothing accepted is lost, numbers grow, limits hold, and the queue implements `DurableQueue`; crashes anywhere, `meta.json` lost, unreadable items | 6 numbers, 2 items, 3 bytes, payloads of 1 and 2 |
| `disk_queue_save` | failed saves endanger only what was accepted since the last good one; all calls, undeletable files | 4 numbers |
| `sender` | cumulative acks lose nothing, nothing is repacked or forgotten, everything arrives | 3 events, 3 batches of up to 2, one crash, one corrupt event, undeletable files |
| `sender_faults` | a batch leaves the spool only when it is safe; of the events only those the code lets go of are lost | 2 batches, all faults but undeletable files (these are in `sender`), a poison payload, an unreadable item, torn `.meta`, one retry |
| `sender_corrupt` | violation, see below | |
| `dedup` | ids known for the window, unmarked ids not | 3 ids, 2 entries, ttl 3, 4 ticks, 3 journal lines |
| `taker_overlap` | no batch accepted twice | 3 handlers, 2 ids, one restart |
| `taker_live` | 200 means accepted, the tail is right, every batch gets in | 2 handlers, 3 ids, queue of 1, tail of 2 |
| `taker_swallow` | violation, see below | |
| `collector` | the lines passed over are only of the kinds listed, none twice before a restart, every other line is queued in the end | 2 files, 2 lines and 1 line (the first file's second may come in halves), 3 puts, one rotation or truncation, one end of the process, failed saves, a full queue while no line is given up |
| `agent` | no line lost between the file and the server, but those `atRisk`; the whole implements `Relay` | 2 lines, 3 numbers, 2 batches of up to 2, one crash, `meta.json` lost or not; a corrupt and a poison event, an unreadable item, spool and dead letters that cannot be written |
| `parts`: Sources | no source without an entry, none missing, everything followed in the end | 2 `.conf` files, 3 entries (glob, plain, journald), 2 log files, 2 edits, one change of a log file |
| `parts`: Readers | the same messages however the bytes are cut | texts of 5 bytes (JSON: 6), chunks of 1 or 2; a pattern that looks at the first character, which a cut may divide |
| `parts`: Sink | lines in order, only the oldest dropped, what `_size` counts within the limit; writes, flushes, renames, deletions and opens fail | 5 lines of 1 or 4 bytes, limit 3, 3 copies, 2 failures, one end |
| `parts`: Journald | the cursor skips nothing, every entry that fits is put in the end | 4 entries, one of which never fits, 2 in the queue, one restart |

The largest, `agent` (3.9 million states), `dedup` (3.0), `collector` (3.0) and
`parts` (0.5 million, of four parts that do not mix: the initial state says which one
runs), take one to three minutes each with two workers.

Why the bounds are enough: each hazard needs few actors. Two items and three bytes
make item and byte limits bind in either order; six numbers allow a full queue, an
interrupted ack, a crash and a refill. Three events in batches of two give batches
whose acks overtake each other. Three handlers are a batch, its retry, and one
that fills the queue. Three ids against two entries push one out. A chunk with a
whole line and half of another, and one with two whole lines, are the cases a
chunk-end offset tells apart. In `agent` two batches and three numbers give an old
batch in the spool, a restart from number 0 and a new item under one of its numbers;
the faults that are not in that run are in `sender_faults`, and the theorem about the
agent is for all of them. Five
bytes hold two lines with a carriage return or a divided character; six characters
of JSON hold an object with a string that has a brace or an escaped quote in it, or
two objects. Five lines fill three copies and drop the oldest.

Bounds that stop the system. `dedup`, the LogTaker runs, `collector` and `parts`
say `CHECK_DEADLOCK FALSE`: the clock and the journal are bounded, clients
that have seen 200 stop posting, numbers for puts run out, texts and logs end. The
DiskQueue, LogSender and `agent` runs check deadlock. `SeqBound`, `MaxEvent`,
`MaxBatch`, `MaxCrash`, `MaxTime`, `MaxJournal`, `MaxRestart`, `MaxFile`, `Lengths`,
`MaxPut`, `MaxStop`, `MaxLost`, `MaxLine`, `MaxEdit`, `MaxChange`, `MaxText`, `MaxJson`,
`MaxChunk`, `MaxFailure`, `MaxExit`, `MaxEntry` and, for the journal's queue,
`MaxNotes` are bounds of the models and not of the code.

Fairness. LogSender: a process that died is started again; both threads run
(daemon loops that nothing ends but a stop); batch_timeout passes in the end while
the buffer holds something (strong, because the main loop leaves and re-enters the
state where it tests it); a post is answered in the end, accepted or rejected, and
nothing forces failures. LogTaker: handlers run, clients post again, the embedding
program keeps taking events; strong for the put, because a queue that is drained
has room again and again. LogCollector: start, file thread and flush thread; an ack that has
begun ends (a start waits for its lock), but acks, rotations and writes are never forced. Sources: the loops of `config.py` and
`_sync_loop` wait for seconds between two turns, so a thread finds the lock free
again and again (strong); what it does once it has the lock is weakly fair.
Journald: the thread takes its turns, what is queued is acked, and a put that has room
again and again does not fail for ever (strong). `Agent`, `Sink`
and `Readers` have safety properties only.

### Violations: where the code and its comments disagree

- `sender_corrupt`: `logsender.py:239-240` says an event that does not decode
  stays in the queue; the ack of any later batch removes it there. Its copy in the
  dead letters remains.
- `taker_swallow`: `logtaker.py:556-557` unmarks a refused batch so that its retries
  are not swallowed; a retry that arrives between mark and unmark is. In the trace the
  retry is answered 200, another batch takes the last place of the queue, the first
  attempt is refused and unmarks, and nobody is left to post the batch again.

### What the properties leave out, on purpose

- `NoEventLost` names what the code itself lets go of (`dropped`): events whose spool
  file could not be written (`logsender.py:282`) or that shared a buffer with a
  payload that fails outside the per-event `except` (constant `Poison`). They stay
  in `_in_flight`, and a later ack removes them from the queue; so does it with items
  that `peek_batch` could not read when their turn came (constant `Unreadable`).
- `NothingElseLost` names the lines the code gives up: those in hand or half read
  when the process ends (the offset noted with an earlier line of the chunk already
  covers them), those a full queue refuses, those joined to a half line at a
  rotation, those half read when a truncation is seen, real or not, and those written
  before the source was first seen.
- After a rotation an ack of an old line sets the offset of the *new* file
  (`logcollector.py:585`), so lines of the new file can be skipped. The model has
  this behaviour; the properties of LogCollector are therefore about the file that
  was there first, as long as it was not truncated or deleted.
- `WindowHolds` and `UnmarkForgets` except, after a restart, the ids whose own line was
  lost by a failed write or by joining one; and if an unmark was lost so that the file
  holds more than `max_entries` ids, all marks.
- `AcceptedOnce` is checked where no id expires: a handler delayed beyond the window
  can unmark what another has marked. `AnsweredWasAccepted` is checked without a
  restart: the mark is in the journal before the batch is in the queue in memory.
- `NoLineLost` excepts the lines that get numbers an old batch in the spool still
  acks, after `meta.json` was lost with an empty directory, and the lines that the
  sender gives up, as `NoEventLost` does.
- `MissingOnlyIfContended` and `EventuallyAsConfigured` except sources that two
  entries have claimed: when one entry goes, the source goes, and the other entry
  is not validated again. `EventuallyAsConfigured` supposes that the last load did
  not raise: after one that did, and if it ended the watch thread, nothing is
  loaded any more. Until the next change of a `.conf` file after a load that raised the
  tables are behind the files, and no property speaks of that time but `NoOrphan`.
- `LinesSurviveCuts` counts a character that a cut divides as replacement characters:
  `decode_chunk` decodes each chunk by itself (`base_reader.py:29`).
- `OnlyOldestDropped` excepts a shift that failed: the next rename overwrites the copy
  that stayed. After `open` has failed (`sink.py:136`) the sink is stuck until a
  restart (stage "broken").
- `FilesWithinLimit` is about the lines that `_size` counts. A line whose `write()` raised
  can still reach the file with the next flush, uncounted, and the file itself is then
  larger than `max_bytes` (`sink.py:91-93`).
- `CursorSkipsNothing` begins with the first acked entry: a turn without a cursor
  starts at the end of the journal. `EventuallyInserted` ends before an entry that never
  fits: it is tried every second and not passed over (`logcollector.py:538-552`).

## Proofs

Each theorem below holds for every value of the constants, so for every number of
items, lines, ids, threads, crashes and failures. The assumptions on constants that
the modules declare (`QueueAssumption`, `SenderAssumption` and so on) give types and
ranges, and say that a value that stands for "none" (`NoMeta`, `NoState`, `NoBatch`) is none of the
others; `SourcesAssumption` adds that a plain entry names one location and that the
format of a journald entry is its own. None rules a failure out. TLC evaluates them in
every run. A condition beyond them is named
here, with the reason why the theorem needs it; each is one that the code's
configuration or its disk can meet, and the run of the property meets it. The pattern
is always the same: an inductive invariant, one lemma for each action (and under it
one step for each conjunct that the action can disturb), and a last step that
combines them. The invariants were checked with TLC on the constants of the runs
before they were proved.

**DiskQueueProofs**

| theorem | states | condition |
|---|---|---|
| `TypeCorrect` | `TypeOK` | |
| `NothingIsLost` | `NothingLost` | meta.json can be written (`"save_meta" \notin Faults`) |
| `NumbersGrow` | `SeqsIncrease` | the same |
| `SavedIsKept` | `SavedNotLost` | meta.json stays (`"meta_lost" \notin Faults`) |
| `LimitsAreKept` | `LimitsHold` | meta.json can be written, files deleted, no clear, and max_bytes set if max_items is |
| `ImplementsDurableQueue` | `IsDurableQueue` | meta.json can be written, files deleted, no clear, max_items set |

- Types: the counters of the next step of a put that is half done are numbers only
  because its file is there (`PutWritten`).
- `NothingLost` is not inductive: an ack that is half done deletes files, so one must know
  that they are not owed (`AckSparesOwed`), that clear owes nothing (`ClearOwesNothing`),
  and that the windows of `mem` and `meta` are ordered (`Ordered`). With saves that fail it
  is false, and `SavedNotLost` says what remains.
- `LimitsHold` needs that what lies between the counters is one block of files
  (`Block`, `NoGap`) and that the counters count it (`Counted`). Files that cannot be
  deleted stay behind and a rebuild counts them. clear deletes in any order, so that a
  crash leaves gaps, and without meta.json the rebuilt window has more numbers than
  files. With max_items set and max_bytes None every `put` raises TypeError, and there
  is no number of bytes to compare with.
- The refinement maps the queue to the files in the window; `LimitsInv` and `QueueInv`
  together show that each step is a step of the FIFO or none. The FIFO is bounded by
  max_items, which therefore has to be a number.

**LogSenderProofs**

| theorem | states | condition |
|---|---|---|
| `SenderTypeCorrect` | `TypeOK` | |
| `SpoolIsKept` | `SpoolKeepsBatches` | |
| `EventsAreSafe` | `NoEventLost` | |
| `FlightIsHeld` | `NothingForgotten` | no poison payload, spool and dead letters can be written |
| `EventsArePackedOnce` | `NoRepacking` | acks do not fail (`"ack" \notin Faults`) |

`SpoolInv` ties the file that is being sent to its batch (`CurInSpool`) and the numbers
of a `.meta` to those of a batch that was written. `NoEventLost` is about the events of
one batch, an ack about all older ones; what makes it inductive is that everything
older than an event of any batch is safe, and everything older than an event in
hand safe or in hand (`OlderIsSafe`). The two conditions are behaviours of the code: it
leaves what could not be written or decoded in `_in_flight` on purpose
(`logsender.py:239`), and an ack that raises leaves events in the queue whose numbers
are discarded from `_in_flight` all the same.

**LogCollectorProofs**

| theorem | states | condition |
|---|---|---|
| `CollectorTypeCorrect` | `TypeOK` | |
| `NoOtherLineIsLost` | `NothingElseLost` | |
| `LinesArePutOnce` | `PutOnce` | |

`NothingElseLost` asks where a crash at this point would read on; the invariant
asks it of every offset that can still become the state's: in memory, in the pending acks,
in the chunk (`Following`), of a process that reads the rest of an old file (`Leaving`),
and of state and notes in memory and on disk (`Stored`), with the sizes, because a size
beyond the length would be taken for a truncation. After a rotation has been taken for a
truncation the first file is read again from 0, and acked offsets can be ahead of the
reading position; they are harmless as long as all lines up to them are settled
(`Ahead`). The steps of a rotation that sets offset, inode and size one by one are told
apart by `ThreadState`. `FirstRun` says for `PutOnce` that what
is put was read before what is in hand.

**AgentProofs**

| theorem | states | condition |
|---|---|---|
| `AgentTypeCorrect` | `AgentTypeOK` | |
| `NoLineIsLost` | `NoLineLost` | |
| `AgentIsRelay` | `IsRelay` | |

`SpoolInv` is taken from `LogSenderProofs`, through a lemma that a step of the agent is
one of the sender or leaves its variables alone. `RelayInv` adds which numbers are in use
(`NumbersKnown`), that what an ack can still cover in the queue is safe elsewhere
(`AckIsSafe`), that the hand holds the oldest lines (`HandIsOldest`), and that items
stand for lines that were read (`ItemsAreLines`). Safe is what the spool, the server or
the dead letters have, or what is `atRisk`. The theorems hold for every set of `Faults`, and
of events that do not decode or cannot be read. For the refinement, each step takes
a line, delivers, gives lines up, or lets go of copies of what has arrived.

**LogTakerProofs**

| theorem | states | condition |
|---|---|---|
| `DedupTypeCorrect` | `DedupTypeOK` | |
| `UnmarkedIsForgotten` | `UnmarkForgets` | |
| `WindowIsKept` | `WindowHolds` | |
| `NewOnceInWindow` | `check_and_mark` calls an id new at most once in the window | |
| `TakerTypeCorrect` | `TypeOK` | |
| `AcceptedAtMostOnce` | `AcceptedOnce` | `WindowSuffices` |
| `TailIsComplete` | `TailHoldsAccepted` | `WindowSuffices` |
| `OkMeansAccepted` | `AnsweredWasAccepted` | `ClientsWait` |

- The window: what a restart would load is the journal replayed line by line, so the
  invariant ties journal and memory id by id (`InJournal`, `InWindow`), and in the order
  of the marks, since loading drops the oldest beyond `max_entries` (`InOrder`). `Replayed`
  and `Unexpired` are recursive functions; lemmas give what each does with one line more.
- `WindowSuffices`: no id expires (`TTL > MaxTime`) or is pushed out (no more ids than
  `MaxEntries`), and a restart, if there is one, finds a journal whose writes have not
  failed. Without it the property is false: a handler delayed beyond the window can
  unmark what another has marked. The invariant says that a mark
  belongs to a handler or to an accepted batch (`MarksAreHeld`, `AcceptedIsKnown`) and that
  the window and the journal keep it (`WindowLasts`).
- `ClientsWait`: nobody posts a batch while the server still serves it, and no mark
  outlives its process. Without the first a retry between mark and unmark is answered
  as a duplicate (`taker_swallow`), without the second one after a crash.

**SourcesProofs**

| theorem | states | condition |
|---|---|---|
| `SourcesTypeCorrect` | `SourcesTypeOK` | |
| `NothingIsOrphaned` | `NoOrphan` | |
| `MissingIsContended` | `MissingOnlyIfContended` | |

A source is missing when an entry that shared it has gone; the invariant therefore
counts as contended what two entries own, or own without its being valid
(`ClaimsNoted`), and says what the turns of the lock have left to do (`TodoListed`,
`PlainFound`).

**ReadersProofs**

| theorem | states | condition |
|---|---|---|
| `ObjectsAreThoseOfOnePass` | `ObjectsSurviveCuts` | |
| `LinesAreThoseOfTheText` | `LinesSurviveCuts` | |
| `MessagesAreTheUnits` | `MessagesAreUnits` | |
| `MessagesDoNotDependOnCuts` | `CutsDoNotMatter`, in the same module | for the regex reader, a pattern that ignores cuts (`PatternIgnoresCuts`) |
| `JournaldTypeCorrect` | `JournaldTypeOK` | |
| `CursorNeverSkips` | `CursorSkipsNothing` | |
| `PartsTypeCorrect` | `PartsTypeOK` | |

- Induction over a text. The induction theorems of the library take an operator as a
  parameter, which the provers cannot instantiate; `AllNumbers` and `AllSequences` take a
  set instead, and follow from there being a least number outside it. A fold is given by
  the sequence of its states (`Steps`, `Final`), for which `FinalAppend` and
  `FinalConcat` say what one element more and a text in two parts come to. The
  community modules define `FoldLeft` by recursion over sets of places; `SetFoldExists`
  and `SetFoldIs` show that it ends where the sequence does, once for each operator that
  the readers fold (`ScanFold`, `PassFold`, `TakeFold`, `SplitFold`, `GroupFold`), and
  `FlattenIs` does the same for `FlattenSeq`.
- JSON: the invariant (`ObjectsFound`) is the property itself with the type of the text;
  what is hard is that `find_object_end` is a search for the first place where the depth
  is 0, begun again for each object and each chunk. `TakeKeeps` says that one round of
  it moves an object from the buffer to the messages as one pass does, `TakeSettled` that
  after as many rounds as there are characters nothing is left to find, and `PassInTwo`
  that a pass may stop and go on from the open object.
- Lines: `LinesKept` says that messages, unfinished message and half line are the whole
  text in parts. A feed keeps it because `DecodeIs` (a cut inside a character changes
  that character only), `SplitBlurs` and `StrippedBlurs` (blurring, splitting and
  stripping can be exchanged) and `FeedSplits` (the half line and the chunk give the
  lines that the text gives) describe what `FeedLines` computes, and `GatherJoins` that
  the three loops neither lose lines nor add any. `UnitStates` is the invariant of the
  loops that `MessagesAreUnits` needs: the unfinished message is short of a unit, or
  begins with a line that matches once there is a message.
- `CutsDoNotMatter` is more than these together say of the messages: they are what one run of the
  loop over the lines of the whole text returns. `GroupHazes` shows that the loops
  treat a line as they treat the line blurred, so that the messages of the chunks and those of
  the text in one piece can be compared. For the regex reader this is true only of patterns
  that match a line as they match it with U+FFFD for its divided characters
  (`PatternIgnoresCuts`); with any other pattern, as the one of the run, a cut can move the
  boundary between two messages, and what remains are the theorems above.
- Journald: `CursorSkipsNothing` speaks of the cursor only, which acks and restarts overwrite with notes
  and with what was saved; the invariant says of all of these that everything up to
  them has been put (`CursorsFilled`), and that a turn reads on from such a place
  (`TurnFromFilled`).

**SinkProofs**

| theorem | states | condition |
|---|---|---|
| `CopiesStayInOrder` | `CopiesInOrder` | |
| `OldestGoFirst` | `OnlyOldestDropped` | |
| `SinkTypeCorrect` | `SinkTypeOK` | |
| `FilesKeepLimit` | `FilesWithinLimit` | |

`OnlyOldestDropped` speaks of the time between two calls of `write`. Inside `rotate()` one
number is free, and moves down from `max_files` to 0 (`Hole`, `NoOtherGap`); a move
overwrites nothing but the oldest copy (`PlaceIsFree`), unless a shift failed. The lines in
the buffer are newer than all in the files, and since the first of them every `write()` has
raised (`Buffered`). For the limit, `LimitInv` adds that `_size` is at least the size of what
the open file has of the lines it counts (`SizeKnown`), that a line about to be appended fits or is the first (`NextFits`), and that a rotation leaves
no file at the path (`MovedAway`). The size is a fold over the lines: `AmountIs`
shows that it is the last of a row of sums, from which follow what one line more adds
(`AmountAppend`) and that the sizes of later lines do not matter (`AmountSame`).

Every safety and action property that a passing run checks is stated by a theorem. Left to TLC, and why:

- Liveness (`Eventually...`): the proof of a property under fairness needs ENABLED, which
  the provers do not support.
- `CorruptStaysQueued` and `RetryNotSwallowed` are false, see "Violations".

## Not modelled, and why

- A source removed while the file thread reads it (`logcollector.py:239`): the
  file it would read is in `LogCollector`, which files are followed in `Sources`. A
  source whose reader changes while its location stays (`logcollector.py:201`): the
  old reader goes on; no document says what should happen.
- In `Agent`: failing saves of the collector, and everything of a file but that it grows.
  Each is in the module of its component; together they are out of TLC's reach.
- In `LogCollector`: the fresh state of a first start (`state.py:199`) saved before its fields
  are set, and a bound on refusals (`MaxLost`).
- In `Sink`: a flush that breaks off inside a line (the model takes it as one before the
  line), and `close()` or `stat()` failing by themselves.
- Metrics and the configuration getters: no state that anything depends on.
- HTTP parsing, gzip limits, TLS, logging: I/O whose failures are the models' fault actions.
- Damage by power cuts to the dedup journal and to the state files, threads that outlive `stop()`, a journal that drops old entries.

Read in the code and outside the models: `queue_max_bytes` in the shipped
`agent.conf` is an expression that `int()` does not accept; the comment at
`logtaker.py:526-528` says the sender sends a batch id header, which it does not
set (the id in the body serves); `logtaker.py:245` calls the tail chronological, but
two handlers can extend it in another order than they queued; the inotify watcher's
loop ends after a second without an event (`config.py:390`), so that only the
scan every `conf_scan_interval` seconds notices later changes.

## Plan

1. Proofs: a weaker condition than `WindowSuffices`, with ids that expire; the
   refinements as one, from the agent with a queue on disk to `Relay`.
2. A source removed under the file thread; the late threads of `stop()`.
3. `Agent` with rotation, and with the server's window of ids: a line reaches the
   server once unless the agent reads it again.
