-------------------------- MODULE LogCollectorProofs --------------------------
(***************************************************************************)
(* Proofs about LogCollector, for every number of files, messages, ends of *)
(* the process and changes of files, every set of lengths that a file may  *)
(* have, and whatever fails.                                               *)
(***************************************************************************)
EXTENDS LogCollector, WellFoundedInduction, TLAPS

-----------------------------------------------------------------------------
(* The inductive invariant *)

Running == pc \notin {"down", "up"}

\* Only the handlers that put messages have any; they, and the end of the process,
\* leave nothing in the reader, unless it was a poll.  The file that is open is the
\* one the state tells of, but for a start that finds another one and for the end of
\* a rotation.
ThreadState ==
  /\ pc \notin {"put", "add"} => hand = << >>
  /\ pc \notin {"put", "add", "set_inode", "set_size"} => mode = "poll"
  /\ pc \in {"set_inode", "set_size"} =>
       mode \in {"rotate", "start"} /\ handle # 1 /\ chunk.size \in Offset
  /\ mode # "poll" \/ pc \in {"down", "up", "stopping", "stopped"} => buffer = Nothing
  /\ pc = "down" => acking = 0 /\ ~flushing /\ state = NoState
  /\ ~Running => chunk = NoChunk
  /\ Running => state \in State
  /\ (mode \in {"rotate", "start"} /\ pc # "set_size") => state.inode # path
  /\ pc = "set_size" \/ (Running /\ pc # "set_inode" /\ mode # "start") => handle = state.inode
  /\ buffer \in {Nothing, Mixture} \cup ({handle} \X Offset)
  /\ pc = "add" => next > 1
  /\ acking < next

\* A file has a length it may have, and none is known before the path names it.
FilesKnown ==
  /\ \A f \in File : length[f] \in {0} \cup Lengths[f]
  /\ state # NoState => state.inode <= path
  /\ stateDisk # NoState => stateDisk.inode <= path
  /\ handle <= path /\ gone \subseteq 1 .. path - 1

CollectorTypes == TypeOK /\ ThreadState /\ FilesKnown

\* The lines of the first file that have begun by position x, but for one that the
\* next file has cut off; the path names file p and the first has length n.
DueIn(p, n, x) == {l \in Line : l[1] = 1 /\ 2 * l[2] - 1 <= x /\ (p = 1 \/ 2 * l[2] <= n)}
Due(x) == DueIn(path, length[1], x)

\* The lines that are put, given up or still to put; and with the one that the reader
\* holds half of.
Settled == put \cup lost \cup (ToSet(hand) \cap Line)
Held == put \cup lost \cup InHand

\* An offset beyond what was read: the first file is read again because the path named
\* a shorter one when its size was looked up, and an older note was acked.
Ahead(o) ==
  /\ path # 1 /\ (pc \in {"size", "read"} => buffer = Nothing)
  /\ o <= length[1] /\ Due(o) \subseteq Settled

\* The process follows the first file: it has all lines up to where it has read, and
\* to every offset that may be acked.
Following ==
  (Running /\ state.inode = 1 /\ mode # "start") =>
    /\ readOffset <= length[1] /\ Due(readOffset) \subseteq Held
    /\ buffer = Nothing \/ (buffer = <<1, readOffset>> /\ readOffset % 2 = 1)
    /\ \A o \in {state.offset, chunk.offset} \cup {pending[s].offset : s \in DOMAIN pending} :
         o <= readOffset \/ Ahead(o)
    /\ mode = "truncate" => path # 1

\* It is done with it, or has the rest of it in hand.
Leaving ==
  (Running /\ (state.inode # 1 \/ mode \in {"rotate", "start"})) => Due(length[1]) \subseteq Held

\* No line is missing up to the offset of a state or of a note; and while there is only
\* the first file no size is beyond its length, so that it is not taken to be truncated.
StateHeld(p, n, held, st) ==
  st # NoState =>
    /\ p = 1 => st.offset <= n /\ st.size <= n
    /\ DueIn(p, n, IF st.inode = 1 THEN st.offset ELSE n) \subseteq held
NoteHeld(p, n, held, note) ==
  /\ p = 1 => note.offset <= n /\ note.size <= n
  /\ DueIn(p, n, note.offset) \subseteq held
NotesHeld(p, n, held, notes) == \A s \in DOMAIN notes : NoteHeld(p, n, held, notes[s])

Stored ==
  /\ StateHeld(path, length[1], Held, state)
  /\ StateHeld(path, length[1], Held, stateDisk)
  /\ NotesHeld(path, length[1], Held, pending)
  /\ NotesHeld(path, length[1], Held, pendingDisk)
  /\ NoteHeld(path, length[1], Held, chunk)

FileInv == Following /\ Leaving /\ Stored
FirstFile == Kept => FileInv

\* Before the first end of the process and the first rotation, what is put was read
\* before what is in hand, and nothing is in hand twice.
FirstRun ==
  (stops = 0 /\ path = 1 /\ truncated = {}) =>
    /\ ~Running => state = NoState /\ stateDisk = NoState /\ put = {}
    /\ mode = "poll" /\ pc \notin {"stopping", "stopped"} /\ twice = {}
    /\ \A l \in put \cup (ToSet(hand) \cap Line) : 2 * l[2] <= readOffset
    /\ put \cap ToSet(hand) = {}
    /\ \A i, j \in DOMAIN hand : hand[i] = hand[j] /\ hand[i] \in Line => i = j

CollectorInv == CollectorTypes /\ FirstFile /\ FirstRun

-----------------------------------------------------------------------------
(* Facts about the operators *)

LEMMA Positions ==
  /\ 0 \in Offset /\ Offset \subseteq Nat /\ 1 \in File /\ MaxFile \in Nat
  /\ \A f \in File : Lengths[f] \subseteq Offset
  /\ MaxPut \in Nat /\ MaxStop \in Nat
  BY CollectorAssumption DEF CollectorAssumption, Offset, File

LEMMA Halves ==
  ASSUME NEW a \in Nat
  PROVE  /\ a \div 2 \in Nat /\ a % 2 = a - 2 * (a \div 2)
         /\ a = 2 * (a \div 2) \/ a = 2 * (a \div 2) + 1
  OBVIOUS

LEMMA LinesAre ==
  /\ \A l \in Line : l = <<l[1], l[2]>> /\ l[1] \in File /\ l[2] \in Nat /\ l[2] >= 1
  /\ \A f \in File : \A n \in Lengths[f] : \A k \in 1 .. n \div 2 : <<f, k>> \in Line
  /\ Garbled \notin Line
<1>1. ASSUME NEW l \in Line
      PROVE  l = <<l[1], l[2]>> /\ l[1] \in File /\ l[2] \in Nat /\ l[2] >= 1
  <2>1. PICK f \in File : l \in {<<f, k>> : k \in UNION {1 .. n \div 2 : n \in Lengths[f]}}
    BY DEF Line
  <2>2. PICK n \in Lengths[f] : \E k \in 1 .. n \div 2 : l = <<f, k>>
    BY <2>1
  <2>3. n \in Nat /\ n \div 2 \in Nat
    BY Positions, Halves
  <2>4. PICK k \in 1 .. n \div 2 : l = <<f, k>>
    BY <2>2
  <2> QED
    BY <2>3, <2>4
<1>2. ASSUME NEW f \in File, NEW n \in Lengths[f], NEW k \in 1 .. n \div 2
      PROVE  <<f, k>> \in Line
  BY DEF Line
<1>3. Garbled \notin Line
  BY <1>1 DEF Garbled
<1> QED
  BY <1>1, <1>2, <1>3

LEMMA Joined ==
  ASSUME NEW S, NEW s \in Seq(S), NEW t \in Seq(S)
  PROVE  s \o t \in Seq(S) /\ ToSet(s \o t) = ToSet(s) \cup ToSet(t)
<1>1. ASSUME NEW x \in ToSet(s) PROVE x \in ToSet(s \o t)
  <2>1. PICK i \in 1 .. Len(s) : x = s[i]
    BY DEF ToSet
  <2> QED
    BY <2>1 DEF ToSet
<1>2. ASSUME NEW x \in ToSet(t) PROVE x \in ToSet(s \o t)
  <2>1. PICK i \in 1 .. Len(t) : x = t[i]
    BY DEF ToSet
  <2>2. (s \o t)[Len(s) + i] = x /\ Len(s) + i \in 1 .. Len(s \o t)
    BY <2>1
  <2> QED
    BY <2>2 DEF ToSet
<1>3. ASSUME NEW x \in ToSet(s \o t) PROVE x \in ToSet(s) \cup ToSet(t)
  BY DEF ToSet
<1> QED
  BY <1>1, <1>2, <1>3

LEMMA FirstOf ==
  ASSUME NEW S, NEW s \in Seq(S), s # << >>
  PROVE  /\ Head(s) \in S /\ Tail(s) \in Seq(S) /\ ToSet(s) = {Head(s)} \cup ToSet(Tail(s))
         /\ \A i \in DOMAIN Tail(s) : i + 1 \in DOMAIN s /\ Tail(s)[i] = s[i + 1]
<1>1. /\ Head(s) = s[1] /\ 1 \in DOMAIN s /\ Tail(s) \in Seq(S)
      /\ \A i \in DOMAIN Tail(s) : i + 1 \in DOMAIN s /\ Tail(s)[i] = s[i + 1]
  OBVIOUS
<1>2. ASSUME NEW i \in DOMAIN s, i # 1 PROVE s[i] \in ToSet(Tail(s))
  <2>1. i - 1 \in DOMAIN Tail(s) /\ Tail(s)[i - 1] = s[i]
    BY <1>2
  <2> QED
    BY <2>1 DEF ToSet
<1>3. ToSet(s) \subseteq {Head(s)} \cup ToSet(Tail(s))
  BY <1>1, <1>2 DEF ToSet
<1>4. {Head(s)} \cup ToSet(Tail(s)) \subseteq ToSet(s)
  BY <1>1 DEF ToSet
<1> QED
  BY <1>1, <1>3, <1>4

\* Whether reading from a makes a message of line k.
WholeLine(f, a, buf, k) ==
  IF 2 * k - 1 = a THEN buf = <<f, a>> ELSE 2 * k - 2 > a \/ buf = Nothing

LEMMA MessagesAre ==
  ASSUME NEW f, NEW a \in Nat, NEW b \in Nat, a <= b, NEW buf
  PROVE  /\ DOMAIN Messages(f, a, b, buf) = 1 .. b \div 2 - a \div 2
         /\ \A n \in 1 .. b \div 2 - a \div 2 :
              Messages(f, a, b, buf)[n] =
                IF WholeLine(f, a, buf, a \div 2 + n) THEN <<f, a \div 2 + n>> ELSE Garbled
         /\ \A S : (\A n \in 1 .. b \div 2 - a \div 2 : Messages(f, a, b, buf)[n] \in S)
                     => Messages(f, a, b, buf) \in Seq(S)
         /\ \A k \in Nat : a < 2 * k /\ 2 * k <= b /\ WholeLine(f, a, buf, k)
                             => <<f, k>> \in ToSet(Messages(f, a, b, buf))
         /\ \A x \in ToSet(Messages(f, a, b, buf)) :
              x = Garbled \/ \E k \in Nat : x = <<f, k>> /\ a < 2 * k /\ 2 * k <= b
<1> DEFINE m == Messages(f, a, b, buf)
           len == b \div 2 - a \div 2
<1>1. len \in Nat /\ a \div 2 \in Nat /\ b \div 2 \in Nat
  BY Halves
<1>2. m = [n \in 1 .. len |-> IF WholeLine(f, a, buf, a \div 2 + n) THEN <<f, a \div 2 + n>> ELSE Garbled]
  BY DEF Messages, WholeLine
<1>3. DOMAIN m = 1 .. len
      /\ \A n \in 1 .. len : m[n] = IF WholeLine(f, a, buf, a \div 2 + n) THEN <<f, a \div 2 + n>> ELSE Garbled
  BY <1>2
<1>4. ASSUME NEW S, \A n \in 1 .. len : m[n] \in S PROVE m \in Seq(S)
  <2> HIDE DEF m, len
  <2>1. m \in [1 .. len -> S]
    BY <1>2, <1>3, <1>4
  <2> QED
    BY <1>1, <2>1
<1>5. ASSUME NEW k \in Nat, a < 2 * k, 2 * k <= b, WholeLine(f, a, buf, k)
      PROVE  <<f, k>> \in ToSet(m)
  <2>1. k - a \div 2 \in 1 .. len /\ a \div 2 + (k - a \div 2) = k
    BY <1>5, Halves
  <2>2. m[k - a \div 2] = <<f, k>>
    BY <1>3, <1>5, <2>1
  <2> QED
    BY <1>3, <2>1, <2>2 DEF ToSet
<1>6. ASSUME NEW x \in ToSet(m)
      PROVE  x = Garbled \/ \E k \in Nat : x = <<f, k>> /\ a < 2 * k /\ 2 * k <= b
  <2>1. PICK n \in 1 .. len : x = m[n]
    BY <1>3 DEF ToSet
  <2>2. a \div 2 + n \in Nat /\ a < 2 * (a \div 2 + n) /\ 2 * (a \div 2 + n) <= b
    BY <1>1, Halves
  <2> QED
    BY <1>3, <2>1, <2>2
<1> QED
  BY <1>3, <1>4, <1>5, <1>6

\* A new process resumes at the largest of the offsets it finds.
LEMMA ResumeIs ==
  ASSUME NEW st, st.offset \in Offset, NEW notes, DOMAIN notes \subseteq Seq_,
         \A s \in DOMAIN notes : notes[s].offset \in Offset
  PROVE  /\ Resume(st, notes) \in {st.offset} \cup {notes[s].offset : s \in DOMAIN notes}
         /\ Resume(st, notes) \in Offset /\ st.offset <= Resume(st, notes)
         /\ \A s \in DOMAIN notes : notes[s].offset <= Resume(st, notes)
<1> DEFINE offsets == {st.offset} \cup {notes[s].offset : s \in DOMAIN notes}
           Bound(k, o) == st.offset <= o /\ \A s \in DOMAIN notes : s <= k => notes[s].offset <= o
           bad == {k \in Nat : ~\E o \in offsets : Bound(k, o)}
<1>1. Offset \subseteq Nat /\ MaxPut \in Nat /\ offsets \subseteq Nat /\ offsets \subseteq Offset
  BY Positions
<1>2. bad = {}
  <2>1. SUFFICES ASSUME bad # {} PROVE FALSE
    OBVIOUS
  <2>2. PICK k \in bad : \A j \in bad : ~(j < k)
    <3>1. PICK k \in bad : \A j \in bad : <<j, k>> \notin OpToRel(<, Nat)
      <4> HIDE DEF bad
      <4>1. bad \subseteq Nat
        BY DEF bad
      <4> QED
        BY <2>1, <4>1, WFMin, NatLessThanWellFounded
    <3> QED
      BY <3>1 DEF OpToRel
  <2>3. CASE k = 0
    <3>1. Bound(0, st.offset) /\ st.offset \in offsets
      BY <1>1 DEF Seq_
    <3> QED
      BY <2>2, <2>3, <3>1
  <2>4. CASE k > 0
    <3>1. k - 1 \in Nat /\ k - 1 < k /\ k \in Nat
      BY <2>2, <2>4
    <3>2. PICK o \in offsets : Bound(k - 1, o)
      BY <2>2, <3>1
    <3>3. CASE k \in DOMAIN notes /\ notes[k].offset > o
      <4>1. notes[k].offset \in offsets /\ notes[k].offset \in Nat /\ o \in Nat /\ st.offset \in Nat
        BY <1>1, <3>3
      <4>2. ASSUME NEW s \in DOMAIN notes, s <= k PROVE notes[s].offset <= notes[k].offset
        <5>1. s = k \/ s <= k - 1
          BY <3>1, <4>2 DEF Seq_
        <5>2. notes[s].offset \in Nat
          BY <1>1
        <5> QED
          BY <3>2, <3>3, <4>1, <5>1, <5>2
      <4>3. Bound(k, notes[k].offset)
        BY <3>2, <3>3, <4>1, <4>2
      <4> QED
        BY <2>2, <4>1, <4>3
    <3>4. CASE k \notin DOMAIN notes \/ ~(notes[k].offset > o)
      <4>1. ASSUME NEW s \in DOMAIN notes, s <= k PROVE notes[s].offset <= o
        <5>1. s = k \/ s <= k - 1
          BY <3>1, <4>1 DEF Seq_
        <5>2. notes[s].offset \in Nat /\ o \in Nat
          BY <1>1
        <5> QED
          BY <3>2, <3>4, <5>1, <5>2
      <4>2. Bound(k, o)
        BY <3>2, <4>1
      <4> QED
        BY <2>2, <4>2
    <3> QED
      BY <3>3, <3>4
  <2> QED
    BY <2>2, <2>3, <2>4
<1>3. PICK o \in offsets : Bound(MaxPut, o)
  BY <1>1, <1>2
<1>4. \A p \in offsets : p <= o
  BY <1>1, <1>3 DEF Seq_
<1>5. Resume(st, notes) \in offsets /\ \A p \in offsets : p <= Resume(st, notes)
  <2>1. Resume(st, notes) = CHOOSE q \in offsets : \A p \in offsets : p <= q
    BY DEF Resume
  <2> HIDE DEF offsets
  <2> QED
    BY <1>4, <2>1
<1> QED
  BY <1>1, <1>5

LEMMA DrainedIs ==
  ASSUME CollectorTypes, NEW st \in State, NEW buf
  PROVE  /\ Drained(st, buf) \in Seq(Line \cup {Garbled})
         /\ st.inode \notin gone =>
              \A k \in Nat : st.offset < 2 * k /\ 2 * k <= length[st.inode]
                               /\ WholeLine(st.inode, st.offset, buf, k)
                             => <<st.inode, k>> \in ToSet(Drained(st, buf))
<1> DEFINE f == st.inode
           a == st.offset
           end == IF f \in gone THEN a ELSE Larger(a, length[f])
           m == Messages(f, a, end, buf)
           g == Flushed(Rest(f, a, end, buf))
<1>1. /\ f \in File /\ a \in Nat /\ length[f] \in Nat /\ length[f] \in {0} \cup Lengths[f]
  BY Positions DEF CollectorTypes, TypeOK, FilesKnown, State
<1>2. end \in Nat /\ a <= end /\ (end = a \/ (end > 0 /\ end \in Lengths[f]))
      /\ (f \notin gone => length[f] <= end)
  BY <1>1 DEF Larger
<1>3. Drained(st, buf) = m \o g
  BY DEF Drained
<1>4. g \in Seq(Line \cup {Garbled})
  BY DEF Flushed
<1> HIDE DEF end
<1>5. m \in Seq(Line \cup {Garbled})
  <2> HIDE DEF f, a, m
  <2>2. /\ \A n \in 1 .. end \div 2 - a \div 2 :
             m[n] = IF WholeLine(f, a, buf, a \div 2 + n) THEN <<f, a \div 2 + n>> ELSE Garbled
        /\ \A S : (\A n \in 1 .. end \div 2 - a \div 2 : m[n] \in S) => m \in Seq(S)
    BY <1>1, <1>2, MessagesAre DEF m
  <2>1. ASSUME NEW n \in 1 .. end \div 2 - a \div 2
        PROVE  m[n] \in Line \cup {Garbled}
    <3>1. end \in Lengths[f] /\ a \div 2 + n \in 1 .. end \div 2
      BY <1>1, <1>2, Halves
    <3>2. <<f, a \div 2 + n>> \in Line
      BY <1>1, <3>1, LinesAre
    <3>3. m[n] = IF WholeLine(f, a, buf, a \div 2 + n) THEN <<f, a \div 2 + n>> ELSE Garbled
      BY <2>2
    <3> QED
      BY <3>2, <3>3
  <2> QED
    BY <2>2, <2>1
<1>6. ASSUME f \notin gone, NEW k \in Nat, a < 2 * k, 2 * k <= length[f], WholeLine(f, a, buf, k)
      PROVE  <<f, k>> \in ToSet(Drained(st, buf))
  <2>1. 2 * k <= end
    BY <1>1, <1>2, <1>6
  <2>2. <<f, k>> \in ToSet(m)
    BY <1>1, <1>2, <1>6, <2>1, MessagesAre
  <2> HIDE DEF m, g
  <2>3. ToSet(m \o g) = ToSet(m) \cup ToSet(g)
    BY <1>4, <1>5, Joined
  <2> QED
    BY <1>3, <2>2, <2>3
<1> QED
  BY <1>3, <1>4, <1>5, <1>6, Joined

-----------------------------------------------------------------------------
(* Types *)

LEMMA TypesFiles ==
  ASSUME CollectorTypes, Write \/ Rotate \/ Truncate
  PROVE  CollectorTypes'
<1> USE Positions DEF CollectorTypes, TypeOK, ThreadState, FilesKnown, disk, reading, thread,
                      queue, history
<1>1. CASE Write
  <2>1. PICK n \in Lengths[path] : length' = [length EXCEPT ![path] = n]
    BY <1>1 DEF Write
  <2>2. length' \in [File -> Offset] /\ \A f \in File : length'[f] \in {0} \cup Lengths[f]
    BY <2>1
  <2> QED
    BY SMTT(30), <1>1, <2>2 DEF Write, Running
<1>2. CASE Rotate
  <2>1. path' \in File /\ path' = path + 1 /\ path \in Nat
    BY <1>2 DEF Rotate, File
  <2>2. gone' \subseteq 1 .. path' - 1 /\ gone' \subseteq File /\ handle <= path'
    BY SMTT(30), <1>2, <2>1 DEF Rotate, File
  <2>3. /\ state # NoState => state.inode <= path'
        /\ stateDisk # NoState => stateDisk.inode <= path'
    <3>1. /\ state # NoState => state.inode \in File
          /\ stateDisk # NoState => stateDisk.inode \in File
      BY DEF State
    <3> QED
      BY SMTT(30), <2>1, <3>1 DEF File
  <2>4. Running /\ state.inode <= path => state.inode # path'
    BY SMTT(30), <2>1 DEF State, File
  <2>5. mode \in {"rotate", "start"} => Running /\ state # NoState
    BY NoStateAssumption DEF Running
  <2> QED
    BY SMTT(30), <1>2, <2>1, <2>2, <2>3, <2>4, <2>5 DEF Rotate, Running
<1>3. CASE Truncate
  <2>1. length' = [length EXCEPT ![path] = 0]
    BY <1>3 DEF Truncate
  <2>2. length' \in [File -> Offset] /\ \A f \in File : length'[f] \in {0} \cup Lengths[f]
    BY <2>1
  <2> QED
    BY SMTT(30), <1>3, <2>2 DEF Truncate, Running
<1> QED
  BY <1>1, <1>2, <1>3

LEMMA FlushedTyped ==
  ASSUME NEW buf
  PROVE  Flushed(buf) \in Seq(Line \cup {Garbled})
         /\ << >> \in Seq(Line \cup {Garbled}) /\ ToSet(<< >>) = {}
         /\ ToSet(Flushed(buf)) \subseteq {Garbled}
<1>1. << >> \in Seq(Line \cup {Garbled}) /\ <<Garbled>> \in Seq(Line \cup {Garbled})
  OBVIOUS
<1>2. ToSet(<< >>) = {} /\ ToSet(<<Garbled>>) = {Garbled}
  BY DEF ToSet
<1> QED
  BY <1>1, <1>2 DEF Flushed

LEMMA NoteTyped ==
  /\ DOMAIN << >> \subseteq Seq_ /\ << >> \in [DOMAIN << >> -> Note] /\ DOMAIN << >> = {}
  /\ NoChunk \in Note
  BY Positions DEF NoChunk, Note

LEMMA ForgottenTyped ==
  ASSUME CollectorTypes, Forgotten
  PROVE  /\ state' = NoState /\ pc' = "down" /\ acking' = 0 /\ flushing' = FALSE /\ mode' = "poll"
         /\ DOMAIN pending' \subseteq Seq_ /\ pending' \in [DOMAIN pending' -> Note]
         /\ readOffset' \in Offset /\ buffer' = Nothing /\ handle' = 1 /\ 1 \in File
         /\ hand' \in Seq(Line \cup {Garbled}) /\ hand' = << >> /\ chunk' = NoChunk /\ chunk' \in Note
  BY NoteTyped, FlushedTyped, Positions DEF Forgotten

\* Where a new process resumes is a position.
LEMMA ResumeTyped ==
  ASSUME CollectorTypes, NEW st \in State
  PROVE  /\ Resume(st, pending) \in {st.offset} \cup {pending[s].offset : s \in DOMAIN pending}
         /\ Resume(st, pending) \in Offset /\ st.offset <= Resume(st, pending)
         /\ \A s \in DOMAIN pending : pending[s].offset <= Resume(st, pending)
<1>1. \A s \in DOMAIN pending : pending[s].offset \in Offset
  BY DEF CollectorTypes, TypeOK, Note
<1>2. st.offset \in Offset /\ DOMAIN pending \subseteq Seq_
  BY <1>1 DEF CollectorTypes, TypeOK, State
<1> QED
  BY <1>1, <1>2, ResumeIs

\* What is known of the source is in memory or on the disk.
LEMMA KnownIs ==
  ASSUME CollectorTypes
  PROVE  /\ Known \in {state, stateDisk} /\ Known \in State \cup {NoState}
         /\ Known # NoState => Known \in State /\ Known.inode <= path
         /\ Running => Known = state /\ state # NoState
         /\ Known = NoState => state = NoState /\ stateDisk = NoState
  BY NoStateAssumption DEF Known, CollectorTypes, TypeOK, ThreadState, FilesKnown

LEMMA TypesStart ==
  ASSUME CollectorTypes, Start
  PROVE  CollectorTypes'
<1> USE Positions DEF CollectorTypes, TypeOK, ThreadState, FilesKnown, disk, reading, thread,
                      queue, history, Registering, files, Running
<1>1. length[path] \in Offset /\ path \in File /\ path \in Nat
  BY DEF File
<1>2. CASE Boot
  BY <1>2 DEF Boot
<1>3. CASE StartFirst
  <2>1. state' \in State /\ state'.inode = path /\ readOffset' \in Offset
    BY <1>1, <1>3 DEF StartFirst, Fresh, State
  <2>2. lost' \subseteq Line
    BY <1>3 DEF StartFirst, Begun
  <2> QED
    BY <1>1, <1>3, <2>1, <2>2 DEF StartFirst, Fresh
<1>4. Known # NoState => /\ Known \in State /\ Known.inode \in File /\ Known.inode <= path
                         /\ Resume(Known, pending) \in Offset
  BY KnownIs, ResumeTyped DEF State
<1>5. CASE StartRotated
  <2>1. Known \in State /\ Known.inode <= path /\ Known.inode # path /\ readOffset' \in Offset
    BY <1>4, <1>5 DEF StartRotated
  <2>2. hand' \in Seq(Line \cup {Garbled})
    BY <1>5, <2>1, DrainedIs DEF StartRotated
  <2>3. state' = Known /\ mode' = "start" /\ pc' = "put" /\ handle' = path /\ buffer' = Nothing
    BY <1>5 DEF StartRotated
  <2>4. UNCHANGED <<files, disk, pending, chunk, queue, flushing, history>>
    BY <1>5 DEF StartRotated
  <2> HIDE DEF Known
  <2> QED
    BY SMTT(30), <1>1, <2>1, <2>2, <2>3, <2>4 DEF Mode
<1>6. CASE StartTruncated
  <2>1. state' \in State /\ state'.inode = path /\ readOffset' \in Offset
    BY <1>1, <1>4, <1>6 DEF StartTruncated, Fresh, State
  <2> QED
    BY <1>1, <1>6, <2>1 DEF StartTruncated, Fresh
<1>7. CASE StartResumed
  <2>1. state' \in State /\ state'.inode = path
    BY <1>1, <1>4, <1>7 DEF StartResumed, Fresh, State
  <2>2. readOffset' \in Offset
    BY <1>1, <1>4, <1>7 DEF StartResumed, Fresh
  <2> QED
    BY <1>1, <1>7, <2>1, <2>2 DEF StartResumed, Fresh
<1> QED
  BY <1>2, <1>3, <1>5, <1>6, <1>7 DEF Start

LEMMA ReadTyped ==
  ASSUME CollectorTypes, pc = "read"
  PROVE  /\ ReadFrom \in Offset /\ ReadTo \in Offset /\ ReadFrom \in Nat /\ ReadTo \in Nat
         /\ ReadTo <= length[handle] /\ ReadTo <= length[path]
         /\ length[handle] \in Nat /\ length[path] \in Nat
         /\ ReadTo > ReadFrom => Messages(handle, ReadFrom, ReadTo, buffer) \in Seq(Line \cup {Garbled})
         /\ Rest(handle, ReadFrom, ReadTo, buffer) \in {Nothing, Mixture} \cup ({handle} \X Offset)
<1>1. /\ state \in State /\ state.offset \in Offset /\ readOffset \in Offset /\ handle \in File
      /\ length[handle] \in Offset /\ length[path] \in Offset
      /\ length[handle] \in {0} \cup Lengths[handle]
      /\ buffer \in {Nothing, Mixture} \cup ({handle} \X Offset)
  BY DEF CollectorTypes, TypeOK, ThreadState, FilesKnown, State, Running
<1>2. /\ ReadFrom \in Offset /\ ReadTo \in Offset /\ ReadFrom \in Nat /\ ReadTo \in Nat
      /\ ReadTo <= length[handle] /\ ReadTo <= length[path]
      /\ length[handle] \in Nat /\ length[path] \in Nat
  <2>1. Offset \subseteq Nat
    BY Positions
  <2>2. ReadFrom \in Offset
    BY <1>1 DEF ReadFrom, Larger
  <2>3. /\ ReadTo \in Offset /\ length[handle] \in Nat /\ length[path] \in Nat
    BY <1>1, <2>1 DEF ReadTo
  <2>4. ReadTo <= length[handle] /\ ReadTo <= length[path]
    BY <2>3 DEF ReadTo
  <2> QED
    BY <2>1, <2>2, <2>3, <2>4
<1> DEFINE f == handle
           a == ReadFrom
           b == ReadTo
           m == Messages(f, a, b, buffer)
<1>3. ASSUME b > a PROVE m \in Seq(Line \cup {Garbled})
  <2> HIDE DEF f, a, b, m
  <2>1. a \in Nat /\ b \in Nat /\ a <= b /\ f \in File /\ length[f] \in Lengths[f]
        /\ b <= length[f]
    BY <1>1, <1>2, <1>3 DEF a, b, f
  <2>2. /\ \A n \in 1 .. b \div 2 - a \div 2 :
             m[n] = IF WholeLine(f, a, buffer, a \div 2 + n) THEN <<f, a \div 2 + n>> ELSE Garbled
        /\ \A S : (\A n \in 1 .. b \div 2 - a \div 2 : m[n] \in S) => m \in Seq(S)
    BY <2>1, MessagesAre DEF m
  <2>3. ASSUME NEW n \in 1 .. b \div 2 - a \div 2 PROVE m[n] \in Line \cup {Garbled}
    <3>1. a \div 2 + n \in 1 .. length[f] \div 2
      BY <1>2, <2>1, Halves DEF f
    <3>2. <<f, a \div 2 + n>> \in Line
      BY <2>1, <3>1, LinesAre
    <3> QED
      BY <2>2, <3>2
  <2> QED
    BY <2>2, <2>3
<1>4. Rest(f, a, b, buffer) \in {Nothing, Mixture} \cup ({handle} \X Offset)
  BY <1>1, <1>2 DEF Rest
<1> QED
  BY <1>2, <1>3, <1>4

LEMMA TypesThread ==
  ASSUME CollectorTypes, FileThread
  PROVE  CollectorTypes'
<1> USE Positions DEF CollectorTypes, TypeOK, ThreadState, FilesKnown, disk, reading, thread,
                      queue, history, files, Running
<1>1. CASE NoticeRotation
  <2>1. state \in State /\ hand' = Drained(state, buffer)
    BY <1>1 DEF NoticeRotation
  <2>2. hand' \in Seq(Line \cup {Garbled})
    BY <2>1, DrainedIs
  <2>3. lost' \subseteq Line
    BY <1>1 DEF NoticeRotation
  <2> QED
    BY <1>1, <2>1, <2>2, <2>3 DEF NoticeRotation, Mode
<1>2. CASE NoticeTruncation
  <2>1. hand' \in Seq(Line \cup {Garbled}) /\ lost' \subseteq Line
    BY <1>2, FlushedTyped DEF NoticeTruncation, HalfRead
  <2> QED
    BY <1>2, <2>1 DEF NoticeTruncation, Mode
<1>3. CASE NoticeNothing \/ NoticeInode
  BY <1>3 DEF NoticeNothing, NoticeInode
<1>4. CASE ReadNothing
  BY <1>4 DEF ReadNothing
<1>5. CASE Read
  <2>1. /\ hand' \in Seq(Line \cup {Garbled}) /\ readOffset' \in Offset /\ chunk' \in Note
        /\ buffer' \in {Nothing, Mixture} \cup ({handle} \X Offset)
        /\ buffer' \in {Nothing, Mixture} \cup (File \X Offset)
    <3>1. /\ ReadTo \in Offset /\ length[path] \in Offset
          /\ Messages(handle, ReadFrom, ReadTo, buffer) \in Seq(Line \cup {Garbled})
          /\ Rest(handle, ReadFrom, ReadTo, buffer) \in {Nothing, Mixture} \cup ({handle} \X Offset)
      BY <1>5, ReadTyped DEF Read
    <3> QED
      BY <1>5, <3>1 DEF Read, Note
  <2> QED
    BY <1>5, <2>1 DEF Read, Mode
<1>6. CASE PutMessage
  <2>1. hand' \in Seq(Line \cup {Garbled})
    BY <1>6, FirstOf DEF PutMessage
  <2>2. chunk' \in Note
    BY <1>6 DEF PutMessage, NewNote, Note, State
  <2>3. next' \in 1 .. MaxPut + 1 /\ head \in 1 .. next' /\ next' > 1 /\ acking < next'
    BY SMTT(30), <1>6 DEF PutMessage
  <2>4. put' \subseteq Line /\ twice' \subseteq put'
    BY <1>6 DEF PutMessage
  <2> QED
    BY <1>6, <2>1, <2>2, <2>3, <2>4 DEF PutMessage
<1>7. CASE PutRefused
  <2>1. hand' \in Seq(Line \cup {Garbled}) /\ lost' \subseteq Line
    BY <1>7, FirstOf DEF PutRefused
  <2> QED
    BY <1>7, <2>1 DEF PutRefused
<1>8. CASE AddPending
  <2>1. next - 1 \in Seq_
    BY <1>8 DEF AddPending, Seq_
  <2>2. DOMAIN pending' \subseteq Seq_ /\ pending' \in [DOMAIN pending' -> Note]
    BY <1>8, <2>1 DEF AddPending
  <2> QED
    BY <1>8, <2>2 DEF AddPending
<1>9. NoChunk \in Note
  BY NoteTyped
<1>10. length[path] \in Offset /\ path \in Nat
  BY DEF File
<1>11. CASE DonePolling
  BY <1>9, <1>11 DEF DonePolling, Done, Mode
<1>12. CASE DoneRotating
  <2>1. state \in State /\ state' = [state EXCEPT !.offset = 0] /\ state # NoState
    BY <1>12, NoStateAssumption DEF DoneRotating
  <2>2. /\ state' \in State /\ state'.inode = state.inode /\ state.inode \in Nat
        /\ state.inode >= 1 /\ state.inode # path /\ state.inode <= path
    <3>1. pc = "put" /\ mode \in {"rotate", "start"}
      BY <1>12 DEF DoneRotating
    <3>2. state.inode # path /\ state.inode <= path
      BY <2>1, <3>1
    <3>3. state.inode \in File /\ state' \in State /\ state'.inode = state.inode
      BY <2>1 DEF State
    <3> QED
      BY <3>2, <3>3 DEF File
  <2>3. chunk' \in Note /\ chunk'.size \in Offset
    BY <1>10, <1>12 DEF DoneRotating, Note
  <2>4. path # 1 /\ buffer = Nothing
    BY <1>10, <1>12, <2>2 DEF DoneRotating
  <2>5. /\ handle' = path /\ pc' = "set_inode" /\ mode \in {"rotate", "start"} /\ hand = << >>
        /\ UNCHANGED <<files, disk, pending, readOffset, buffer, hand, mode, queue, flushing,
                       history>>
    BY <1>12 DEF DoneRotating
  <2> QED
    BY SMTT(30), <1>10, <2>2, <2>3, <2>4, <2>5
<1>17. CASE SetInode
  <2>1. state \in State /\ state' = [state EXCEPT !.inode = handle]
    BY <1>17 DEF SetInode
  <2>2. state' \in State /\ state'.inode = handle
    BY <2>1 DEF State
  <2> QED
    BY <1>17, <2>2 DEF SetInode
<1>18. CASE SetSize
  <2>1. state \in State /\ state' = [state EXCEPT !.size = chunk.size] /\ chunk.size \in Offset
    BY <1>18 DEF SetSize
  <2>2. state' \in State /\ state'.inode = state.inode
    BY <2>1 DEF State
  <2> QED
    BY <1>9, <1>18, <2>2 DEF SetSize, Mode
<1>13. CASE DoneTruncating
  <2>1. state' \in State /\ state'.inode = state.inode
    BY <1>10, <1>13 DEF DoneTruncating, Done, State
  <2> QED
    BY <1>9, <1>13, <2>1 DEF DoneTruncating, Done, Mode
<1>14. CASE DoneStopping
  BY <1>9, <1>14 DEF DoneStopping, Done, Mode
<1>15. CASE StopState
  <2>1. stateDisk' \in {state, stateDisk}
    BY <1>15, KnownIs DEF StopState, SaveState
  <2> QED
    BY <1>15, <2>1 DEF StopState
<1>16. CASE StopPending
  <2>1. /\ UNCHANGED <<files, stateDisk, next, head, history>>
        /\ pendingDisk' \in {pending, pendingDisk} /\ Forgotten
    BY <1>16 DEF StopPending, SavePending
  <2>2. /\ state' = NoState /\ pc' = "down" /\ acking' = 0 /\ flushing' = FALSE /\ mode' = "poll"
        /\ DOMAIN pending' \subseteq Seq_ /\ pending' \in [DOMAIN pending' -> Note]
        /\ readOffset' \in Offset /\ buffer' = Nothing /\ handle' = 1 /\ 1 \in File
        /\ hand' \in Seq(Line \cup {Garbled}) /\ hand' = << >> /\ chunk' = NoChunk /\ chunk' \in Note
    BY <2>1, ForgottenTyped
  <2>3. TypeOK'
    <3>1. /\ mode' \in Mode
          /\ DOMAIN pendingDisk' \subseteq Seq_ /\ pendingDisk' \in [DOMAIN pendingDisk' -> Note]
      BY <2>1, <2>2 DEF Mode
    <3>2. /\ length' = length /\ path' = path /\ truncated' = truncated /\ gone' = gone
          /\ stateDisk' = stateDisk /\ next' = next /\ head' = head /\ put' = put
          /\ twice' = twice /\ lost' = lost /\ stops' = stops
      BY <2>1
    <3>3. state' \in State \cup {NoState} /\ stateDisk' \in State \cup {NoState}
      BY <2>2, <3>2
    <3>4. buffer' \in {Nothing, Mixture} \cup (File \X Offset)
      BY <2>2, <3>2
    <3>5. next' \in 1 .. MaxPut + 1 /\ head' \in 1 .. next' /\ acking' \in 0 .. MaxPut
      BY <2>2, <3>2
    <3>6. pc' \in {"down", "up", "idle", "size", "read", "put", "add", "set_inode", "set_size",
                 "stopping", "stopped"} /\ flushing' \in BOOLEAN
      BY <2>2, <3>2
    <3> QED
      BY <2>2, <3>1, <3>2, <3>3, <3>4, <3>5, <3>6
  <2>4. ThreadState'
    BY <2>1, <2>2
  <2>5. FilesKnown'
    <3>1. path \in Nat /\ path >= 1
      BY DEF File
    <3> QED
      BY <2>1, <2>2, <3>1
  <2> QED
    BY <2>3, <2>4, <2>5
<1> QED
  BY <1>1, <1>2, <1>3, <1>4, <1>5, <1>6, <1>7, <1>8, <1>11, <1>12, <1>13, <1>14, <1>15, <1>16,
     <1>17, <1>18
  DEF FileThread

\* The note that an ack takes is one of those it covers, if it takes one.
LEMMA AckIs ==
  ASSUME CollectorTypes, NEW s \in Seq_, AckState(s)
  PROVE  /\ \/ UNCHANGED state
            \/ \E n \in DOMAIN pending :
                 /\ Known # NoState /\ state' \in State /\ state'.inode = Known.inode
                 /\ state'.offset = pending[n].offset
                 /\ state'.size = IF pending[n].size = NoSize THEN Known.size ELSE pending[n].size
         /\ Known = NoState => UNCHANGED state
         /\ pc # "down" /\ ~Locked /\ acking' = s /\ s < next
         /\ UNCHANGED <<files, disk, pending, reading, thread, next, head, flushing, history>>
<1>1. pending \in [DOMAIN pending -> Note]
  BY DEF CollectorTypes, TypeOK
<1>2. PICK n \in DOMAIN pending :
        IF Known = NoState THEN UNCHANGED state
        ELSE state' = [Known EXCEPT !.offset = pending[n].offset,
                         !.size = IF pending[n].size = NoSize THEN @ ELSE pending[n].size]
  BY DEF AckState, Covered
<1>3. pending[n] \in Note
  BY <1>1
<1>4. ASSUME Known # NoState
      PROVE  /\ state'.offset = pending[n].offset
             /\ state'.size = IF pending[n].size = NoSize THEN Known.size ELSE pending[n].size
             /\ state' \in State /\ state'.inode = Known.inode
  <2>1. Known \in State
    BY <1>4, KnownIs
  <2> HIDE DEF Known
  <2> QED
    BY <1>2, <1>3, <1>4, <2>1 DEF State, Note
<1>5. s < next
  BY DEF AckState, CollectorTypes, TypeOK, Seq_
<1>6. Known = NoState => UNCHANGED state
  BY <1>2
<1> QED
  BY <1>4, <1>5, <1>6 DEF AckState

LEMMA TypesRest ==
  ASSUME CollectorTypes, Ack \/ Flush \/ Stop \/ Crash \/ UNCHANGED vars
  PROVE  CollectorTypes'
<1> USE Positions DEF CollectorTypes, TypeOK, ThreadState, FilesKnown, disk, reading, thread,
                      queue, history, files, Running
<1>1. CASE AckRemove
  <2>1. DOMAIN pending' \subseteq Seq_ /\ pending' \in [DOMAIN pending' -> Note]
    BY <1>1 DEF AckRemove
  <2>2. head' \in 1 .. next
    BY <1>1 DEF AckRemove
  <2>3. /\ acking' = 0 /\ UNCHANGED <<files, state, disk, reading, thread, next, flushing, history>>
    BY <1>1 DEF AckRemove
  <2> QED
    BY SMTT(30), <2>1, <2>2, <2>3
<1>2. ASSUME NEW s \in Seq_, AckUnnoted(s) PROVE CollectorTypes'
  <2>1. head' \in 1 .. next
    BY <1>2 DEF AckUnnoted, Seq_
  <2> QED
    BY SMTT(30), <1>2, <2>1 DEF AckUnnoted
<1>3. ASSUME NEW s \in Seq_, AckState(s) PROVE CollectorTypes'
  <2>1. /\ acking' = s /\ s < next /\ pc # "down"
        /\ UNCHANGED <<files, disk, pending, reading, thread, next, head, flushing, history>>
    BY <1>3, AckIs
  <2>2. \/ UNCHANGED state
        \/ state' \in State /\ state'.inode <= path /\ (Running => state'.inode = state.inode)
    BY <1>3, AckIs, KnownIs
  <2> QED
    BY SMTT(30), <2>1, <2>2 DEF Seq_
<1>4. CASE FlushState
  <2>1. stateDisk' \in {state, stateDisk}
    BY <1>4, KnownIs DEF FlushState, SaveState
  <2> QED
    BY <1>4, <2>1 DEF FlushState
<1>5. CASE FlushPending
  BY ZenonT(40), <1>5 DEF FlushPending, SavePending
<1>6. CASE Stop
  <2>1. hand' \in Seq(Line \cup {Garbled}) /\ lost' \subseteq Line /\ stops' \in 0 .. MaxStop
    BY <1>6, FlushedTyped DEF Stop, HalfRead
  <2> QED
    BY <1>6, <2>1 DEF Stop, Mode
<1>7. CASE Crash
  <2>1. lost' \subseteq Line /\ stops' \in 0 .. MaxStop
    BY <1>7 DEF Crash, InHand, HalfRead
  <2>2. UNCHANGED <<files, disk, next, head, put, twice>> /\ Forgotten
    BY <1>7 DEF Crash
  <2>3. /\ state' = NoState /\ pc' = "down" /\ acking' = 0 /\ flushing' = FALSE /\ mode' = "poll"
        /\ DOMAIN pending' \subseteq Seq_ /\ pending' \in [DOMAIN pending' -> Note]
        /\ readOffset' \in Offset /\ buffer' = Nothing /\ handle' = 1 /\ 1 \in File
        /\ hand' \in Seq(Line \cup {Garbled}) /\ hand' = << >> /\ chunk' = NoChunk /\ chunk' \in Note
    BY <2>2, ForgottenTyped
  <2>4. TypeOK'
    <3>1. mode' \in Mode
      BY <2>3 DEF Mode
    <3>2. /\ length' = length /\ path' = path /\ truncated' = truncated /\ gone' = gone
          /\ stateDisk' = stateDisk /\ pendingDisk' = pendingDisk /\ next' = next /\ head' = head
          /\ put' = put /\ twice' = twice
      BY <2>2
    <3>3. state' \in State \cup {NoState} /\ stateDisk' \in State \cup {NoState}
      BY <2>3, <3>2
    <3>4. buffer' \in {Nothing, Mixture} \cup (File \X Offset)
      BY <2>3, <3>2
    <3>5. next' \in 1 .. MaxPut + 1 /\ head' \in 1 .. next' /\ acking' \in 0 .. MaxPut
      BY <2>3, <3>2
    <3>6. pc' \in {"down", "up", "idle", "size", "read", "put", "add", "set_inode", "set_size",
                 "stopping", "stopped"} /\ flushing' \in BOOLEAN
      BY <2>3, <3>2
    <3> QED
      BY <2>1, <2>3, <3>1, <3>2, <3>3, <3>4, <3>5, <3>6
  <2>5. ThreadState'
    BY <2>2, <2>3
  <2>6. FilesKnown'
    <3>1. path \in Nat /\ path >= 1
      BY DEF File
    <3> QED
      BY <2>2, <2>3, <3>1
  <2> QED
    BY <2>4, <2>5, <2>6
<1>8. CASE UNCHANGED vars
  BY <1>8 DEF vars
<1> QED
  BY <1>1, <1>2, <1>3, <1>4, <1>5, <1>6, <1>7, <1>8 DEF Ack, Flush

LEMMA TypesNext == CollectorTypes /\ [Next]_vars => CollectorTypes'
  BY TypesFiles, TypesStart, TypesThread, TypesRest DEF Next

LEMMA TypesInit == Init => CollectorTypes
<1> SUFFICES ASSUME Init PROVE CollectorTypes
  OBVIOUS
<1>1. TypeOK
  <2>1. length \in [File -> Offset]
    BY Positions DEF Init
  <2>2. /\ DOMAIN pending \subseteq Seq_ /\ pending \in [DOMAIN pending -> Note]
        /\ DOMAIN pendingDisk \subseteq Seq_ /\ pendingDisk \in [DOMAIN pendingDisk -> Note]
        /\ hand \in Seq(Line \cup {Garbled}) /\ chunk \in Note
    BY NoteTyped, FlushedTyped DEF Init
  <2>3. /\ path \in File /\ readOffset \in Offset /\ handle \in File /\ buffer = Nothing
        /\ state = NoState /\ stateDisk = NoState /\ pc = "down" /\ mode \in Mode
        /\ next = 1 /\ head = 1 /\ acking = 0 /\ flushing = FALSE /\ stops = 0
        /\ put = {} /\ twice = {} /\ lost = {} /\ truncated = {} /\ gone = {}
    BY Positions DEF Init, Mode
  <2>10. length \in [File -> Offset] /\ path \in File
    BY <2>1, <2>2, <2>3, Positions
  <2>11. truncated \subseteq File /\ gone \subseteq File
    BY <2>1, <2>2, <2>3, Positions
  <2>12. state \in State \cup {NoState}
    BY <2>1, <2>2, <2>3, Positions
  <2>13. stateDisk \in State \cup {NoState}
    BY <2>1, <2>2, <2>3, Positions
  <2>14. DOMAIN pending \subseteq Seq_ /\ pending \in [DOMAIN pending -> Note]
    BY <2>1, <2>2, <2>3, Positions
  <2>15. readOffset \in Offset /\ handle \in File
    BY <2>1, <2>2, <2>3, Positions
  <2>16. buffer \in {Nothing, Mixture} \cup (File \X Offset)
    BY <2>1, <2>2, <2>3, Positions
  <2>17. pc \in {"down", "up", "idle", "size", "read", "put", "add", "set_inode", "set_size",
                 "stopping", "stopped"}
    BY <2>1, <2>2, <2>3, Positions
  <2>18. hand \in Seq(Line \cup {Garbled})
    BY <2>1, <2>2, <2>3, Positions
  <2>19. mode \in Mode /\ chunk \in Note
    BY <2>1, <2>2, <2>3, Positions
  <2>20. next \in 1 .. MaxPut + 1 /\ head \in 1 .. next /\ acking \in 0 .. MaxPut
    BY <2>1, <2>2, <2>3, Positions
  <2>21. flushing \in BOOLEAN
    BY <2>1, <2>2, <2>3, Positions
  <2>22. put \subseteq Line /\ twice \subseteq put /\ lost \subseteq Line
    BY <2>1, <2>2, <2>3, Positions
  <2>23. stops \in 0 .. MaxStop
    BY <2>1, <2>2, <2>3, Positions
  <2> QED
    BY <2>1, <2>2, <2>3, <2>10, <2>11, <2>12, <2>13, <2>14, <2>15, <2>16, <2>17, <2>18, <2>19, <2>20, <2>21, <2>22, <2>23 DEF TypeOK
<1>2. ThreadState /\ FilesKnown
  <2>1. ThreadState
    BY DEF Init, ThreadState, Running
  <2>2. FilesKnown
    BY Positions DEF Init, FilesKnown
  <2> QED
    BY <2>1, <2>2
<1> QED
  BY <1>1, <1>2 DEF CollectorTypes

\* Every variable of the collector stays of its type: offsets (state.py) are
\* positions in files, whatever files change, writes fail and processes end in
\* between.
THEOREM CollectorTypeCorrect == Spec => []TypeOK
  BY TypesInit, TypesNext, PTL DEF Spec, CollectorTypes
-----------------------------------------------------------------------------
(* The first file *)

\* The values that the invariant compares are numbers.
LEMMA Numbers ==
  ASSUME CollectorTypes
  PROVE  /\ length[1] \in Nat /\ path \in Nat /\ path >= 1 /\ length[path] \in Nat
         /\ readOffset \in Nat
         /\ Running => state \in State /\ state # NoState
         /\ \A st \in {state, stateDisk} : st # NoState =>
              /\ st \in State /\ st.inode \in Nat /\ st.inode >= 1 /\ st.inode <= path
              /\ st.offset \in Nat /\ st.size \in Nat
         /\ chunk.offset \in Nat /\ chunk.size \in Int
         /\ \A s \in DOMAIN pending : pending[s].offset \in Nat /\ pending[s].size \in Int
         /\ \A s \in DOMAIN pendingDisk :
              pendingDisk[s].offset \in Nat /\ pendingDisk[s].size \in Int
<1> USE Positions DEF CollectorTypes, TypeOK, ThreadState, FilesKnown
<1>1. /\ length[1] \in Nat /\ path \in Nat /\ path >= 1 /\ length[path] \in Nat
      /\ readOffset \in Nat
  BY SMTT(30) DEF File
<1>2. \A n \in Note : n.offset \in Nat /\ n.size \in Int
  BY DEF Note, NoSize
<1>3. \A st \in State : st.inode \in Nat /\ st.inode >= 1 /\ st.offset \in Nat /\ st.size \in Nat
  BY DEF State, File
<1>4. chunk \in Note /\ pending \in [DOMAIN pending -> Note]
      /\ pendingDisk \in [DOMAIN pendingDisk -> Note]
  OBVIOUS
<1>5. Running => state \in State /\ state # NoState
  BY NoStateAssumption
<1>6. \A st \in {state, stateDisk} : st # NoState => st \in State /\ st.inode <= path
  OBVIOUS
<1> HIDE DEF CollectorTypes, TypeOK, ThreadState, FilesKnown
<1>7. chunk.offset \in Nat /\ chunk.size \in Int
  BY <1>2, <1>4
<1>8. \A s \in DOMAIN pending : pending[s].offset \in Nat /\ pending[s].size \in Int
  BY <1>2, <1>4
<1>9. \A s \in DOMAIN pendingDisk : pendingDisk[s].offset \in Nat /\ pendingDisk[s].size \in Int
  BY <1>2, <1>4
<1> QED
  BY <1>1, <1>3, <1>5, <1>6, <1>7, <1>8, <1>9

LEMMA DueGrows ==
  ASSUME NEW p, NEW n \in Nat, NEW x
  PROVE  /\ \A y \in Nat : x \in Nat /\ x <= y => DueIn(p, n, x) \subseteq DueIn(p, n, y)
         /\ p # 1 => DueIn(p, n, x) \subseteq DueIn(p, n, n)
         /\ DueIn(p, n, 0) = {}
<1>1. ASSUME NEW z, NEW l \in DueIn(p, n, z)
      PROVE  /\ l \in Line /\ l[1] = 1 /\ l[2] \in Nat /\ l[2] >= 1 /\ 2 * l[2] - 1 <= z
             /\ p # 1 => 2 * l[2] <= n
  BY <1>1, LinesAre DEF DueIn
<1>2. DueIn(p, n, 0) = {}
  BY <1>1
<1>3. p # 1 => DueIn(p, n, x) \subseteq DueIn(p, n, n)
  BY <1>1 DEF DueIn
<1>4. \A y \in Nat : x \in Nat /\ x <= y => DueIn(p, n, x) \subseteq DueIn(p, n, y)
  BY <1>1 DEF DueIn
<1> QED
  BY <1>2, <1>3, <1>4

\* When the thread has nothing to put and the reader holds nothing back, the process
\* has no line in hand; and a half line of the first file is read from that file.
LEMMA InHandIs ==
  ASSUME CollectorTypes
  PROVE  /\ buffer = Nothing => HalfRead = {} /\ Held = Settled
         /\ pc \notin {"put", "add"} => InHand = HalfRead /\ Settled = put \cup lost
         /\ pc \in {"down", "up", "stopping", "stopped"} => InHand = {}
         /\ \A l \in HalfRead : l[1] = 1 => handle = 1
         /\ mode # "poll" => HalfRead = {}
         /\ Settled \subseteq Held
<1>1. ASSUME NEW l \in HalfRead
      PROVE  l \in Line /\ buffer = <<l[1], 2 * l[2] - 1>> /\ l[1] \in File /\ l[2] \in Nat
  BY LinesAre DEF HalfRead
<1>2. 0 \notin File
  BY DEF File
<1>3. buffer = Nothing => HalfRead = {}
  BY <1>1, <1>2 DEF Nothing
<1>4. ASSUME NEW l \in HalfRead, l[1] = 1 PROVE handle = 1
  <2>1. buffer \in {Nothing, Mixture} \cup ({handle} \X Offset)
    BY DEF CollectorTypes, ThreadState
  <2> QED
    BY <1>1, <1>4, <2>1 DEF Nothing, Mixture
<1>5. /\ mode # "poll" \/ pc \in {"down", "up", "stopping", "stopped"} => buffer = Nothing
      /\ pc \notin {"put", "add"} => hand = << >>
  BY DEF CollectorTypes, ThreadState
<1>6. hand = << >> => InHand = HalfRead /\ Settled = put \cup lost
  BY FlushedTyped DEF InHand, Settled
<1>7. Held = Settled \cup HalfRead
  BY DEF Held, Settled, InHand
<1> QED
  BY <1>3, <1>4, <1>5, <1>6, <1>7

\* What is held up to an offset stays so as long as the lines up to it are held.
LEMMA HeldStays ==
  ASSUME NEW p, NEW n, NEW held, NEW held2,
         \A x : DueIn(p, n, x) \subseteq held => DueIn(p, n, x) \subseteq held2
  PROVE  /\ \A st : StateHeld(p, n, held, st) => StateHeld(p, n, held2, st)
         /\ \A note : NoteHeld(p, n, held, note) => NoteHeld(p, n, held2, note)
         /\ \A notes : NotesHeld(p, n, held, notes) => NotesHeld(p, n, held2, notes)
  BY DEF StateHeld, NoteHeld, NotesHeld

\* The steps that leave the files alone and save nothing but what is in memory.
LEMMA StoredStays ==
  ASSUME Stored, UNCHANGED <<length, path>>,
         \A x : DueIn(path, length[1], x) \subseteq Held => DueIn(path, length[1], x) \subseteq Held',
         state' = NoState \/ state' \in {state, stateDisk}
           \/ StateHeld(path, length[1], Held', state'),
         stateDisk' \in {state, stateDisk},
         pendingDisk' \in {pending, pendingDisk},
         pending' \in {pending, pendingDisk} \/ NotesHeld(path, length[1], Held', pending'),
         chunk' = chunk \/ NoteHeld(path, length[1], Held', chunk')
  PROVE  Stored'
<1>1. \A st \in {state, stateDisk} : StateHeld(path, length[1], Held', st)
  BY HeldStays DEF Stored
<1>2. \A notes \in {pending, pendingDisk} : NotesHeld(path, length[1], Held', notes)
  BY HeldStays DEF Stored
<1>3. NoteHeld(path, length[1], Held', chunk)
  BY HeldStays DEF Stored
<1>4. StateHeld(path, length[1], Held', state')
  <2>1. state' = NoState => StateHeld(path, length[1], Held', state')
    BY DEF StateHeld
  <2> QED
    BY <1>1, <2>1
<1> QED
  BY <1>1, <1>2, <1>3, <1>4 DEF Stored

\* Nothing is due to an offset of 0, and a first file that is left stays as it is.
LEMMA NoNote ==
  ASSUME CollectorTypes, NEW held
  PROVE  /\ NoteHeld(path, length[1], held, NoChunk)
         /\ NotesHeld(path, length[1], held, << >>)
<1>1. DueIn(path, length[1], 0) = {} /\ length[1] \in Nat
  BY Numbers, DueGrows
<1> QED
  BY <1>1, NoteTyped DEF NoteHeld, NotesHeld, NoChunk

\* When the process has left the first file, or is about to, the path names another.
LEMMA Left ==
  ASSUME CollectorTypes, Running, state.inode # 1 \/ mode \in {"rotate", "start"}
  PROVE  path # 1
<1>1. state \in State /\ state.inode \in Nat /\ state.inode >= 1 /\ state.inode <= path
      /\ path \in Nat
  BY Numbers
<1>2. (mode \in {"rotate", "start"} /\ pc # "set_size") => state.inode # path
  BY DEF CollectorTypes, ThreadState
<1>3. pc = "set_size" => state.inode # 1
  BY DEF CollectorTypes, ThreadState
<1> QED
  BY <1>1, <1>2, <1>3

LEMMA FilesKeepFirst ==
  ASSUME CollectorTypes, FileInv, Write \/ Rotate \/ Truncate, Kept'
  PROVE  FileInv'
<1>1. /\ UNCHANGED <<state, disk, pending, reading, thread, queue, flushing, history>>
      /\ Held' = Held /\ Settled' = Settled
  BY DEF Write, Rotate, Truncate, history, thread, reading, Held, Settled, InHand, HalfRead
<1>2. /\ path' \in Nat /\ path <= path' /\ length'[1] \in Nat /\ length[1] \in Nat /\ path >= 1
      /\ path' = 1 => path = 1 /\ length[1] <= length'[1]
      /\ path' # 1 => length'[1] = length[1]
  <2>1. CASE Write
    <3>1. PICK n \in Lengths[path] : n > length[path] /\ length' = [length EXCEPT ![path] = n]
      BY <2>1 DEF Write
    <3>2. length \in [File -> Offset] /\ 1 \in File /\ path \in File /\ n \in Nat /\ length[path] \in Nat
      BY Positions DEF CollectorTypes, TypeOK
    <3>3. path' = path
      BY <2>1 DEF Write
    <3> QED
      BY <3>1, <3>2, <3>3, Numbers
  <2>2. CASE Rotate
    BY <2>2, Numbers DEF Rotate
  <2>3. CASE Truncate
    <3>1. path # 1 /\ path' = path /\ length' = [length EXCEPT ![path] = 0]
      BY <2>3 DEF Truncate, Kept
    <3>2. length \in [File -> Offset] /\ 1 \in File
      BY Positions DEF CollectorTypes, TypeOK
    <3> QED
      BY <3>1, <3>2, Numbers
  <2> QED
    BY <2>1, <2>2, <2>3
<1>3. \A x : DueIn(path', length'[1], x) \subseteq DueIn(path, length[1], x)
  BY <1>2, LinesAre DEF DueIn
<1>5. UNCHANGED <<state, stateDisk, pendingDisk, pending, readOffset, handle, buffer, pc, mode, chunk>>
  BY <1>1 DEF disk, reading, thread
<1>6. Following'
  <2>1. \A o : Ahead(o) => Ahead(o)'
    BY <1>1, <1>2, <1>3, <1>5 DEF Ahead, Due
  <2> QED
    BY <1>1, <1>2, <1>3, <1>5, <2>1, Numbers DEF FileInv, Following, Running, Due
<1>7. Leaving'
  <2>1. SUFFICES ASSUME Running, state.inode # 1 \/ mode \in {"rotate", "start"}
                 PROVE  DueIn(path', length'[1], length'[1]) \subseteq Held
    BY <1>1, <1>5 DEF Leaving, Running, Due
  <2>2. path # 1 /\ Due(length[1]) \subseteq Held
    BY <2>1, Left DEF FileInv, Leaving
  <2> QED
    BY <1>2, <1>3, <2>2 DEF Due
<1>8. Stored'
  <2>1. ASSUME NEW st \in {state, stateDisk}
        PROVE  StateHeld(path', length'[1], Held, st)
    <3>1. st # NoState => st.inode <= path /\ st.offset \in Nat /\ st.size \in Nat
                          /\ st.inode \in Nat /\ st.inode >= 1
      BY Numbers
    <3>2. StateHeld(path, length[1], Held, st)
      BY DEF FileInv, Stored
    <3> QED
      BY <1>2, <1>3, <3>1, <3>2 DEF StateHeld
  <2>2. ASSUME NEW note, NoteHeld(path, length[1], Held, note), note.offset \in Nat, note.size \in Int
        PROVE  NoteHeld(path', length'[1], Held, note)
    BY <1>2, <1>3, <2>2 DEF NoteHeld
  <2>3. /\ NoteHeld(path', length'[1], Held, chunk)
        /\ NotesHeld(path', length'[1], Held, pending)
        /\ NotesHeld(path', length'[1], Held, pendingDisk)
    BY <2>2, Numbers DEF FileInv, Stored, NotesHeld
  <2> QED
    BY <1>1, <1>5, <2>1, <2>3 DEF Stored
<1> QED
  BY <1>6, <1>7, <1>8 DEF FileInv

LEMMA StartKeepsFirst ==
  ASSUME CollectorTypes, FileInv, Start, Kept
  PROVE  FileInv'
<1>1. /\ ~Running /\ UNCHANGED <<length, path, stateDisk, pendingDisk, chunk>>
      /\ put' = put /\ lost \subseteq lost' /\ Held = put \cup lost
  <2>1. pc \in {"down", "up"} /\ UNCHANGED <<files, disk, chunk>> /\ put' = put /\ lost \subseteq lost'
    BY DEF Start, Boot, StartFirst, StartRotated, StartTruncated, StartResumed, Fresh, Registering,
           history
  <2> QED
    BY <2>1, InHandIs DEF Running, Held, files, disk
<1>2. \A x : DueIn(path, length[1], x) \subseteq Held => DueIn(path, length[1], x) \subseteq Held'
  BY <1>1 DEF Held
<1>3. /\ chunk = NoChunk /\ mode = "poll" /\ hand = << >> /\ NoChunk.offset = 0
      /\ Stored /\ StateHeld(path, length[1], Held, Known)
      /\ NotesHeld(path, length[1], Held, pending)
  BY <1>1, KnownIs DEF CollectorTypes, ThreadState, Running, FileInv, Stored, NoChunk
<1>4. CASE Boot
  <2>1. pc' = "up" /\ pending' = pendingDisk /\ UNCHANGED state
    BY <1>4 DEF Boot
  <2>2. Stored'
    BY <1>1, <1>2, <1>3, <2>1, StoredStays
  <2> QED
    BY <2>1, <2>2 DEF FileInv, Following, Leaving, Running
<1>5. ASSUME Registering, UNCHANGED pending, StateHeld(path, length[1], Held', state')
      PROVE  Stored' /\ buffer' = Nothing /\ handle' = path
  BY <1>1, <1>2, <1>3, <1>5, StoredStays DEF Registering
<1>6. CASE StartFirst
  <2>1. /\ state' = [offset |-> length[path], inode |-> path, size |-> length[path]]
        /\ readOffset' = length[path] /\ mode' = mode /\ Registering /\ UNCHANGED pending
        /\ lost' = lost \cup UNION {Begun(f, length[f]) : f \in 1 .. path}
    BY <1>6 DEF StartFirst, Fresh
  <2>2. DueIn(path, length[1], length[1]) \subseteq Held'
    <3>1. 1 \in 1 .. path
      BY Numbers
    <3>2. DueIn(path, length[1], length[1]) \subseteq Begun(1, length[1])
      BY DEF DueIn, Begun
    <3> QED
      BY <2>1, <3>1, <3>2 DEF Held
  <2>3. StateHeld(path, length[1], Held', state')
    BY <2>1, <2>2, Numbers DEF StateHeld
  <2>4. Stored' /\ buffer' = Nothing
    BY <1>5, <2>1, <2>3
  <2>5. Following'
    <3>1. path = 1 => \A s \in DOMAIN pending : pending[s].offset <= length[1]
      BY <1>3 DEF NotesHeld, NoteHeld
    <3> QED
      BY <1>1, <1>3, <2>1, <2>2, <2>4, <3>1, Numbers DEF Following, Due
  <2>6. Leaving'
    BY <1>1, <1>3, <2>1, <2>2 DEF Leaving, Due
  <2> QED
    BY <2>4, <2>5, <2>6 DEF FileInv
<1>7. CASE StartRotated
  <2>1. /\ state' = Known /\ mode' = "start" /\ hand' = Drained(Known, Nothing)
        /\ lost' = lost /\ Known # NoState /\ Known.inode # path /\ Registering /\ UNCHANGED pending
    BY <1>7 DEF StartRotated, history
  <2>2. /\ path # 1 /\ Known \in State /\ Known.offset \in Nat /\ length[1] \in Nat
    BY <2>1, KnownIs, Numbers
  <2>3. DueIn(path, length[1], length[1]) \subseteq Held'
    <3>1. CASE Known.inode # 1
      BY <1>2, <1>3, <2>1, <3>1 DEF StateHeld
    <3>2. CASE Known.inode = 1
      <4>1. DueIn(path, length[1], Known.offset) \subseteq Held /\ 1 \notin gone
        BY <1>3, <2>1, <3>2 DEF StateHeld, Kept
      <4>2. ASSUME NEW l \in DueIn(path, length[1], length[1]) PROVE l \in Held'
        <5>1. /\ l \in Line /\ l = <<1, l[2]>> /\ l[2] \in Nat /\ 2 * l[2] <= length[1]
          BY <2>2, <4>2, LinesAre DEF DueIn
        <5>2. CASE 2 * l[2] - 1 <= Known.offset
          BY <1>2, <4>1, <5>1, <5>2 DEF DueIn
        <5>3. CASE ~(2 * l[2] - 1 <= Known.offset)
          <6>1. Known.offset < 2 * l[2]
                /\ WholeLine(Known.inode, Known.offset, Nothing, l[2])
            BY <2>2, <5>1, <5>3 DEF WholeLine
          <6>2. <<1, l[2]>> \in ToSet(hand')
            BY <2>1, <2>2, <3>2, <4>1, <5>1, <6>1, DrainedIs
          <6> QED
            BY <5>1, <6>2 DEF Held, InHand
        <5> QED
          BY <5>2, <5>3
      <4> QED
        BY <4>2
    <3> QED
      BY <3>1, <3>2
  <2>4. Stored'
    BY <1>2, <1>3, <1>5, <2>1, HeldStays
  <2>5. Following' /\ Leaving'
    BY <1>1, <2>1, <2>3 DEF Following, Leaving, Due
  <2> QED
    BY <2>4, <2>5 DEF FileInv
<1>8. CASE StartTruncated
  <2>1. /\ state' = [Known EXCEPT !.offset = 0, !.size = length[path]]
        /\ Known # NoState /\ Known.inode = path /\ length[path] < Known.size
        /\ Registering /\ UNCHANGED pending /\ mode' = mode
    BY <1>8 DEF StartTruncated, Fresh
  <2>2. Known \in State /\ Known.size \in Nat /\ length[path] \in Nat
    BY <2>1, KnownIs, Numbers
  <2>3. path # 1 /\ state'.inode = path
    BY <1>3, <2>1, <2>2 DEF StateHeld, State
  <2>4. DueIn(path, length[1], length[1]) \subseteq Held'
    BY <1>2, <1>3, <2>1, <2>3 DEF StateHeld
  <2>5. Stored'
    BY <1>5, <2>1, <2>3, <2>4 DEF StateHeld
  <2>6. Following' /\ Leaving'
    BY <1>1, <2>3, <2>4 DEF Following, Leaving, Due
  <2> QED
    BY <2>5, <2>6 DEF FileInv
<1>9. CASE StartResumed
  <2> DEFINE o == Resume(Known, pending)
  <2>1. /\ state' = [Known EXCEPT !.size = length[path]]
        /\ readOffset' = IF o > length[path] THEN length[path] ELSE o
        /\ Known # NoState /\ Known.inode = path
        /\ Registering /\ UNCHANGED pending /\ mode' = mode
    BY <1>9 DEF StartResumed, Fresh
  <2>2. Known \in State
    BY <2>1, KnownIs
  <2>3. /\ o \in {Known.offset} \cup {pending[s].offset : s \in DOMAIN pending}
        /\ o \in Nat /\ Known.offset <= o /\ \A s \in DOMAIN pending : pending[s].offset <= o
    BY <2>2, ResumeTyped, Positions
  <2> HIDE DEF o
  <2>4. state'.inode = path /\ state'.offset = Known.offset /\ state'.size = length[path]
    BY <2>1, <2>2 DEF State
  <2>5. CASE path = 1
    <3>1. o <= length[1] /\ DueIn(path, length[1], o) \subseteq Held
      BY <1>3, <2>1, <2>3, <2>5 DEF StateHeld, NotesHeld, NoteHeld
    <3>2. readOffset' = o
      BY <2>1, <2>3, <2>5, <3>1, Numbers
    <3>3. StateHeld(path, length[1], Held', state')
      BY <1>2, <1>3, <2>1, <2>4, <2>5, Numbers DEF StateHeld
    <3>4. Stored' /\ buffer' = Nothing
      BY <1>5, <2>1, <3>3
    <3>5. Following'
      BY <1>1, <1>2, <1>3, <2>1, <2>3, <2>4, <3>1, <3>2, <3>4, Numbers DEF Following, Due
    <3>6. Leaving'
      BY <1>3, <2>1, <2>4, <2>5 DEF Leaving
    <3> QED
      BY <3>4, <3>5, <3>6 DEF FileInv
  <2>6. CASE path # 1
    <3>1. DueIn(path, length[1], length[1]) \subseteq Held'
      BY <1>2, <1>3, <2>1, <2>6 DEF StateHeld
    <3>2. Stored'
      BY <1>5, <2>1, <2>4, <2>6, <3>1 DEF StateHeld
    <3>3. Following' /\ Leaving'
      BY <1>1, <2>4, <2>6, <3>1 DEF Following, Leaving, Due
    <3> QED
      BY <3>2, <3>3 DEF FileInv
  <2> QED
    BY <2>5, <2>6
<1> QED
  BY <1>4, <1>6, <1>7, <1>8, <1>9 DEF Start

LEMMA RotationKeepsFirst ==
  ASSUME CollectorTypes, FileInv, NoticeRotation, Kept
  PROVE  FileInv'
<1>1. /\ pc = "idle" /\ state.inode # path /\ hand' = Drained(state, buffer)
      /\ buffer' = Nothing /\ mode' = "rotate" /\ pc' = "put" /\ put' = put
      /\ lost' = IF buffer \in {Nothing, <<state.inode, state.offset>>} THEN lost
                 ELSE lost \cup {l \in Line : l = <<state.inode, state.offset \div 2 + 1>>}
      /\ UNCHANGED <<length, path, state, stateDisk, pendingDisk, pending, readOffset, handle, chunk>>
  BY DEF NoticeRotation, files, disk
<1>2. /\ Running /\ mode = "poll" /\ hand = << >> /\ InHand = HalfRead /\ Settled = put \cup lost
      /\ handle = state.inode
  BY <1>1, InHandIs DEF CollectorTypes, ThreadState, Running
<1>3. path # 1 /\ state.offset \in Nat /\ state \in State /\ readOffset \in Nat
  BY <1>1, <1>2, Numbers
<1>4. lost \subseteq lost' /\ put \cup lost \subseteq Held' /\ Settled \subseteq Settled'
  BY <1>1, <1>2 DEF Held, Settled
<1>5. DueIn(path, length[1], length[1]) \subseteq Held'
  <2>1. CASE state.inode # 1
    <3>1. DueIn(path, length[1], length[1]) \subseteq Held
      BY <1>2, <2>1 DEF FileInv, Leaving, Due
    <3>2. ASSUME NEW l \in DueIn(path, length[1], length[1]) PROVE l \notin HalfRead
      BY <1>2, <2>1, <3>2, InHandIs DEF DueIn
    <3> QED
      BY <1>2, <1>4, <3>1, <3>2 DEF Held
  <2>2. CASE state.inode = 1
    <3>1. /\ readOffset <= length[1] /\ DueIn(path, length[1], readOffset) \subseteq Held
          /\ buffer = Nothing \/ (buffer = <<1, readOffset>> /\ readOffset % 2 = 1)
          /\ state.offset <= readOffset \/ DueIn(path, length[1], state.offset) \subseteq Settled
          /\ 1 \notin gone
      BY <1>1, <1>2, <2>2 DEF FileInv, Following, Ahead, Due, Kept
    <3>2. ASSUME NEW l \in DueIn(path, length[1], length[1]), l \notin put \cup lost
          PROVE  l \in Held'
      <4>1. /\ l \in Line /\ l = <<1, l[2]>> /\ l[2] \in Nat /\ 2 * l[2] <= length[1]
        BY <1>3, <3>2, LinesAre DEF DueIn
      <4>2. 2 * l[2] - 1 <= readOffset => buffer = <<1, 2 * l[2] - 1>>
        <5>1. 2 * l[2] - 1 <= readOffset => l \in DueIn(path, length[1], readOffset)
          BY <4>1 DEF DueIn
        <5> QED
          BY <1>2, <3>1, <3>2, <4>1, <5>1 DEF Held, HalfRead
      <4>3. 2 * l[2] - 1 <= readOffset => 2 * l[2] - 1 = readOffset
        BY <3>1, <4>1, <4>2 DEF Nothing
      <4>4. state.offset <= readOffset \/ state.offset < 2 * l[2] - 1
        <5>1. ASSUME DueIn(path, length[1], state.offset) \subseteq Settled
              PROVE  ~(2 * l[2] - 1 <= state.offset)
          BY <1>2, <3>2, <4>1, <5>1 DEF DueIn
        <5> QED
          BY <1>3, <3>1, <4>1, <5>1
      <4>5. state.offset < 2 * l[2]
        BY <1>3, <4>1, <4>3, <4>4
      <4>6. CASE WholeLine(state.inode, state.offset, buffer, l[2])
        <5>1. <<1, l[2]>> \in ToSet(hand')
          BY <1>1, <1>3, <2>2, <3>1, <4>1, <4>5, <4>6, DrainedIs
        <5> QED
          BY <4>1, <5>1 DEF Held, InHand
      <4>7. CASE ~WholeLine(state.inode, state.offset, buffer, l[2])
        <5>1. state.offset # 2 * l[2] - 1
          BY <1>3, <2>2, <4>1, <4>2, <4>4, <4>7 DEF WholeLine
        <5>2. state.offset = 2 * l[2] - 2 /\ buffer # Nothing
          BY <1>3, <4>1, <4>5, <4>7, <5>1 DEF WholeLine
        <5>3. state.offset \div 2 + 1 = l[2] /\ state.offset % 2 = 0
          BY <1>3, <4>1, <5>2, Halves
        <5>4. buffer # <<state.inode, state.offset>>
          BY <2>2, <3>1, <5>2, <5>3
        <5>5. l \in lost'
          BY <1>1, <2>2, <4>1, <5>2, <5>3, <5>4
        <5> QED
          BY <5>5 DEF Held
      <4> QED
        BY <4>6, <4>7
    <3> QED
      BY <1>4, <3>2
  <2> QED
    BY <2>1, <2>2
<1>6. \A x : DueIn(path, length[1], x) \subseteq Held'
  BY <1>3, <1>5, DueGrows, Numbers
<1>7. Following'
  <2>1. \A o : Ahead(o) => Ahead(o)'
    BY <1>1, <1>4 DEF Ahead, Due
  <2> QED
    BY <1>1, <1>2, <1>6, <2>1 DEF FileInv, Following, Running, Due
<1>8. Leaving'
  BY <1>1, <1>5 DEF Leaving, Due
<1>9. Stored'
  BY <1>1, <1>6, StoredStays DEF FileInv
<1> QED
  BY <1>7, <1>8, <1>9 DEF FileInv

LEMMA ReadKeepsFirst ==
  ASSUME CollectorTypes, FileInv, Read, Kept
  PROVE  FileInv'
<1> DEFINE a == ReadFrom
           b == ReadTo
<1>1. /\ pc = "read" /\ b > a /\ hand' = Messages(handle, a, b, buffer)
      /\ buffer' = Rest(handle, a, b, buffer) /\ readOffset' = b
      /\ chunk' = [offset |-> b, size |-> length[path]] /\ mode' = "poll" /\ pc' = "put"
      /\ put' = put /\ lost' = lost
      /\ UNCHANGED <<length, path, state, stateDisk, pendingDisk, pending, handle>>
  BY DEF Read, files, disk, history
<1>2. /\ Running /\ mode = "poll" /\ hand = << >> /\ InHand = HalfRead /\ Settled = put \cup lost
      /\ handle = state.inode
      /\ buffer \in {Nothing, Mixture} \cup ({handle} \X Offset)
  BY <1>1, InHandIs DEF CollectorTypes, ThreadState, Running
<1>3. /\ a \in Nat /\ b \in Nat /\ a <= b /\ b <= length[handle] /\ b <= length[path]
      /\ state.offset \in Nat /\ state \in State /\ readOffset \in Nat /\ length[path] \in Nat
      /\ length[1] \in Nat
      /\ a = IF state.offset > readOffset THEN state.offset ELSE readOffset
  BY <1>1, <1>2, ReadTyped, Numbers DEF ReadFrom, Larger
<1>4. ASSUME \A x : DueIn(path, length[1], x) \subseteq Held => DueIn(path, length[1], x) \subseteq Held',
             DueIn(path, length[1], b) \subseteq Held'
      PROVE  Stored'
  <2>1. NoteHeld(path, length[1], Held', chunk')
    BY <1>1, <1>3, <1>4 DEF NoteHeld
  <2> HIDE DEF a, b
  <2> QED
    BY <1>1, <1>4, <2>1, StoredStays DEF FileInv
<1>5. CASE state.inode # 1
  <2>1. path # 1
    BY <1>2, <1>5, Left
  <2>2. ASSUME NEW x, DueIn(path, length[1], x) \subseteq Held
        PROVE  DueIn(path, length[1], x) \subseteq Held'
    <3>1. ASSUME NEW l \in DueIn(path, length[1], x) PROVE l \notin HalfRead
      BY <1>2, <1>5, <3>1, InHandIs DEF DueIn
    <3> QED
      BY <1>1, <1>2, <2>2, <3>1 DEF Held
  <2>3. DueIn(path, length[1], length[1]) \subseteq Held'
    <3>1. DueIn(path, length[1], length[1]) \subseteq Held
      BY <1>2, <1>5 DEF FileInv, Leaving, Due
    <3> QED
      BY <2>2, <3>1
  <2>4. Following' /\ Leaving'
    BY <1>1, <1>5, <2>3 DEF Following, Leaving, Due
  <2>5. Stored'
    BY <1>3, <1>4, <2>1, <2>2, <2>3, DueGrows
  <2> QED
    BY <2>4, <2>5 DEF FileInv
<1>6. CASE state.inode = 1
  <2>1. /\ readOffset <= length[1] /\ DueIn(path, length[1], readOffset) \subseteq Held
        /\ buffer = Nothing \/ (buffer = <<1, readOffset>> /\ readOffset % 2 = 1)
        /\ \A o \in {state.offset} \cup {pending[s].offset : s \in DOMAIN pending} :
             o <= readOffset
               \/ (path # 1 /\ buffer = Nothing /\ o <= length[1]
                   /\ DueIn(path, length[1], o) \subseteq Settled)
    BY <1>1, <1>2, <1>6 DEF FileInv, Following, Ahead, Due
  <2>2. handle = 1
    BY <1>2, <1>6
  <2>3. /\ DueIn(path, length[1], a) \subseteq Held
        /\ buffer = Nothing \/ (buffer = <<1, a>> /\ a % 2 = 1)
    <3>1. CASE state.offset <= readOffset
      <4>1. a = readOffset
        BY <1>3, <3>1
      <4> QED
        BY <2>1, <4>1
    <3>2. CASE ~(state.offset <= readOffset)
      <4>1. a = state.offset
        BY <1>3, <3>2
      <4> QED
        BY <2>1, <3>2, <4>1, InHandIs
    <3> QED
      BY <3>1, <3>2
  <2>4. readOffset <= a /\ state.offset <= a
    BY <1>3
  <2> HIDE DEF a, b
  <2>5. ASSUME NEW k \in Nat, a < 2 * k, 2 * k <= b, <<1, k>> \in Line,
               a # 2 * k - 1 \/ buffer = <<1, a>>
        PROVE  <<1, k>> \in Held'
    <3>1. WholeLine(handle, a, buffer, k)
      BY <1>3, <2>2, <2>3, <2>5 DEF WholeLine
    <3>2. <<handle, k>> \in ToSet(Messages(handle, a, b, buffer))
      BY <1>3, <2>5, <3>1, MessagesAre
    <3> QED
      BY <1>1, <2>2, <2>5, <3>2 DEF Held, InHand
  <2>6. ASSUME NEW l \in Held, l \in Line, l[1] = 1 PROVE l \in Held'
    <3>1. CASE l \in HalfRead
      <4>1. l[2] \in Nat /\ l = <<1, l[2]>> /\ a = 2 * l[2] - 1 /\ buffer = <<1, a>>
        BY <2>2, <2>3, <2>6, <3>1, LinesAre DEF HalfRead, Nothing
      <4> QED
        BY <1>1, <1>3, <2>5, <2>6, <4>1
    <3> QED
      BY <1>1, <1>2, <2>6, <3>1 DEF Held
  <2>7. b % 2 = 1 => buffer' = <<1, b>>
    <3>1. b % 2 = 1 /\ b = a + 1 => buffer = Nothing
      BY <1>3, <2>2, <2>3
    <3> QED
      BY <1>1, <1>3, <2>2, <3>1 DEF Rest
  <2>8. buffer' = Nothing \/ (buffer' = <<1, b>> /\ b % 2 = 1)
    BY <1>1, <1>3, <2>7 DEF Rest
  <2>9. DueIn(path, length[1], b) \subseteq Held'
    <3>1. ASSUME NEW l \in DueIn(path, length[1], b) PROVE l \in Held'
      <4>1. l \in Line /\ l = <<1, l[2]>> /\ l[2] \in Nat /\ 2 * l[2] - 1 <= b
        BY <3>1, LinesAre DEF DueIn
      <4>2. CASE 2 * l[2] - 1 <= a
        BY <2>2, <2>3, <2>6, <3>1, <4>1, <4>2 DEF DueIn
      <4>3. CASE a < 2 * l[2] - 1 /\ 2 * l[2] <= b
        BY <1>3, <2>5, <4>1, <4>3
      <4>4. CASE 2 * l[2] - 1 = b
        <5>1. b % 2 = 1
          BY <4>1, <4>4
        <5>2. l[1] = 1 /\ buffer' = <<l[1], 2 * l[2] - 1>>
          BY <2>7, <4>1, <4>4, <5>1
        <5> QED
          BY <4>1, <5>2 DEF Held, InHand, HalfRead
      <4> QED
        BY <1>3, <4>1, <4>2, <4>3, <4>4
    <3> QED
      BY <3>1
  <2>10. ASSUME NEW x, DueIn(path, length[1], x) \subseteq Held
        PROVE  DueIn(path, length[1], x) \subseteq Held'
    BY <2>6, <2>10 DEF DueIn
  <2>11. Following'
    <3>1. Settled \subseteq Settled'
      BY <1>1, <1>2 DEF Settled
    <3>2. ASSUME NEW o \in {state.offset, b} \cup {pending[s].offset : s \in DOMAIN pending}, o \in Nat
          PROVE  o <= b \/ Ahead(o)'
      <4>1. CASE o = state.offset \/ o = b \/ o <= readOffset
        BY <1>1, <1>3, <2>4, <3>2, <4>1
      <4>2. CASE ~(o = state.offset \/ o = b \/ o <= readOffset)
        <5>1. path # 1 /\ o <= length[1] /\ DueIn(path, length[1], o) \subseteq Settled
          BY <2>1, <4>2
        <5> QED
          BY <1>1, <3>1, <5>1 DEF Ahead, Due
      <4> QED
        BY <4>1, <4>2
    <3>3. \A s \in DOMAIN pending : pending[s].offset \in Nat
      BY Numbers
    <3> QED
      BY <1>1, <1>3, <2>2, <2>8, <2>9, <3>2, <3>3 DEF Following, Due
  <2>12. Leaving'
    BY <1>1, <1>6 DEF Leaving
  <2>13. Stored'
    BY <1>4, <2>9, <2>10
  <2> QED
    BY <2>11, <2>12, <2>13 DEF FileInv
<1> QED
  BY <1>5, <1>6

LEMMA ThreadKeepsFirst ==
  ASSUME CollectorTypes, FileInv, Kept,
         \/ NoticeInode \/ NoticeTruncation \/ NoticeNothing \/ ReadNothing \/ PutMessage
         \/ PutRefused \/ AddPending \/ DonePolling \/ DoneRotating \/ SetInode \/ SetSize
         \/ DoneTruncating \/ DoneStopping
  PROVE  FileInv'
<1>1. /\ UNCHANGED <<length, path, stateDisk, pendingDisk>> /\ Running /\ Running'
  BY DEF NoticeInode, NoticeTruncation, NoticeNothing, ReadNothing, PutMessage, PutRefused,
         AddPending, DonePolling, DoneRotating, SetInode, SetSize, DoneTruncating, DoneStopping,
         Done, files, disk, Running
<1>2. /\ Following /\ Leaving /\ Stored /\ StateHeld(path, length[1], Held, state)
      /\ state \in State /\ state # NoState /\ state.inode \in Nat /\ state.inode >= 1
      /\ state.inode <= path /\ state.offset \in Nat /\ state.size \in Nat
      /\ path \in Nat /\ path >= 1 /\ length[1] \in Nat /\ length[path] \in Nat /\ readOffset \in Nat
  BY <1>1, Numbers DEF FileInv, Stored
<1>3. CASE NoticeInode \/ NoticeNothing \/ ReadNothing
  <2>1. /\ UNCHANGED <<state, pending, readOffset, buffer, hand, mode, chunk, put, lost>>
        /\ NoticeInode \/ (pc' \in {"size", "read"} => pc \in {"size", "read"})
        /\ NoticeInode => state.inode = path
    BY <1>3 DEF NoticeInode, NoticeNothing, ReadNothing, reading, history
  <2>2. Held' = Held /\ Settled' = Settled
    BY <2>1 DEF Held, Settled, InHand, HalfRead
  <2>3. Following'
    <3>1. state.inode = 1 => \A o : Ahead(o) => Ahead(o)'
      BY <1>1, <1>2, <2>1, <2>2 DEF Ahead, Due
    <3> QED
      BY <1>1, <1>2, <2>1, <2>2, <3>1 DEF Following, Due
  <2>4. Leaving'
    BY <1>1, <1>2, <2>1, <2>2 DEF Leaving, Due
  <2>5. Stored'
    BY <1>1, <1>2, <2>1, <2>2, StoredStays
  <2> QED
    BY <2>3, <2>4, <2>5 DEF FileInv
<1>4. CASE NoticeTruncation
  <2>1. /\ length[path] < state.size /\ buffer' = Nothing /\ mode' = "truncate" /\ put' = put
        /\ lost' = lost \cup HalfRead /\ pc = "size" /\ pc' = "put"
        /\ UNCHANGED <<state, pending, readOffset, chunk>>
    BY <1>4 DEF NoticeTruncation
  <2>2. path # 1
    BY <1>2, <2>1 DEF StateHeld
  <2>3. Held \subseteq Held' /\ Settled \subseteq Settled' /\ mode = "poll"
    BY <2>1, InHandIs DEF Held, Settled, CollectorTypes, ThreadState
  <2>4. Following'
    <3>1. \A o : Ahead(o) => Ahead(o)'
      BY <1>1, <2>1, <2>3 DEF Ahead, Due
    <3> QED
      BY <1>1, <1>2, <2>1, <2>2, <2>3, <3>1 DEF Following, Due
  <2>5. Leaving'
    BY <1>1, <1>2, <2>1, <2>3 DEF Leaving, Due
  <2>6. Stored'
    BY <1>1, <1>2, <2>1, <2>3, StoredStays
  <2> QED
    BY <2>4, <2>5, <2>6 DEF FileInv
<1>5. CASE PutMessage \/ PutRefused
  <2>1. /\ hand # << >> /\ hand' = Tail(hand) /\ chunk' \in {chunk, NewNote}
        /\ put' \cup lost' = put \cup lost \cup ({Head(hand)} \cap Line)
        /\ pc = "put" /\ pc' \in {"put", "add"}
        /\ UNCHANGED <<state, pending, readOffset, buffer, mode>>
    BY <1>5 DEF PutMessage, PutRefused, reading
  <2>2. ToSet(hand) = {Head(hand)} \cup ToSet(hand')
    BY <2>1, FirstOf DEF CollectorTypes, TypeOK
  <2>3. Held' = Held /\ Settled' = Settled
    BY <2>1, <2>2 DEF Held, Settled, InHand, HalfRead
  <2>4. chunk' \in {chunk, [offset |-> 0, size |-> NoSize], [offset |-> state.offset, size |-> NoSize]}
    BY <2>1 DEF NewNote
  <2>5. /\ chunk'.offset \in {chunk.offset, 0, state.offset}
        /\ chunk' = chunk \/ (chunk'.size = NoSize /\ chunk'.offset \in {0, state.offset})
    BY <2>4
  <2>6. Following'
    <3>1. \A o : Ahead(o) => Ahead(o)'
      BY <1>1, <2>1, <2>3 DEF Ahead, Due
    <3> QED
      BY <1>1, <1>2, <2>1, <2>3, <2>5, <3>1 DEF Following, Due
  <2>7. Leaving'
    BY <1>1, <1>2, <2>1, <2>3 DEF Leaving, Due
  <2>8. Stored'
    <3>1. ASSUME chunk'.size = NoSize, chunk'.offset \in {0, state.offset}
          PROVE  NoteHeld(path, length[1], Held, chunk')
      <4>1. DueIn(path, length[1], state.offset) \subseteq Held
            /\ (path = 1 => state.offset <= length[1])
        <5>1. state.inode # 1 => path # 1
          BY <1>1, Left
        <5> QED
          BY <1>2, <5>1, DueGrows DEF StateHeld
      <4> QED
        BY <1>2, <3>1, <4>1, DueGrows DEF NoteHeld, NoSize
    <3> QED
      BY <1>1, <1>2, <2>1, <2>3, <2>5, <3>1, StoredStays
  <2> QED
    BY <2>6, <2>7, <2>8 DEF FileInv
<1>6. CASE AddPending
  <2>1. /\ UNCHANGED <<state, readOffset, buffer, hand, mode, chunk, put, lost>>
        /\ pending' = [s \in DOMAIN pending \cup {next - 1} |->
                         IF s = next - 1 THEN chunk ELSE pending[s]]
        /\ pc' = "put"
    BY <1>6 DEF AddPending, reading, history
  <2>2. Held' = Held /\ Settled' = Settled
    BY <2>1 DEF Held, Settled, InHand, HalfRead
  <2>3. ASSUME NEW s \in DOMAIN pending'
        PROVE  pending'[s] = chunk \/ (s \in DOMAIN pending /\ pending'[s] = pending[s])
    BY <2>1
  <2>4. Following'
    <3>1. \A o : Ahead(o) => Ahead(o)'
      BY <1>1, <2>1, <2>2 DEF Ahead, Due
    <3> QED
      BY <1>1, <1>2, <2>1, <2>2, <2>3, <3>1 DEF Following, Due
  <2>5. Leaving'
    BY <1>1, <1>2, <2>1, <2>2 DEF Leaving, Due
  <2>6. Stored'
    <3>1. NotesHeld(path, length[1], Held, pending')
      BY <1>2, <2>3 DEF Stored, NotesHeld
    <3> QED
      BY <1>1, <1>2, <2>1, <2>2, <3>1, StoredStays
  <2> QED
    BY <2>4, <2>5, <2>6 DEF FileInv
<1>7. CASE DonePolling \/ DoneStopping
  <2>1. /\ UNCHANGED <<state, pending, readOffset, buffer, hand, put, lost>>
        /\ mode \in {"poll", "stop"} /\ mode' = "poll" /\ chunk' = NoChunk
        /\ pc' \notin {"size", "read"}
    BY <1>7 DEF DonePolling, DoneStopping, Done, reading, history
  <2>2. Held' = Held /\ Settled' = Settled
    BY <2>1 DEF Held, Settled, InHand, HalfRead
  <2>3. Following'
    <3>1. \A o : Ahead(o) => Ahead(o)'
      BY <1>1, <2>1, <2>2 DEF Ahead, Due
    <3>2. chunk'.offset = 0
      BY <2>1 DEF NoChunk
    <3> QED
      BY <1>1, <1>2, <2>1, <2>2, <3>1, <3>2 DEF Following, Due
  <2>4. Leaving'
    BY <1>1, <1>2, <2>1, <2>2 DEF Leaving, Due
  <2>5. Stored'
    BY <1>1, <1>2, <2>1, <2>2, NoNote, StoredStays
  <2> QED
    BY <2>3, <2>4, <2>5 DEF FileInv
<1>8. CASE DoneTruncating
  <2>1. /\ UNCHANGED <<pending, buffer, hand, put, lost>> /\ mode = "truncate" /\ mode' = "poll"
        /\ state' = [state EXCEPT !.offset = 0, !.size = length[path]] /\ readOffset' = 0
        /\ chunk' = NoChunk /\ pc' = "read"
    BY <1>8 DEF DoneTruncating, Done, history
  <2>2. state'.inode = state.inode /\ state'.offset = 0 /\ state'.size = length[path]
        /\ chunk'.offset = 0
    BY <1>2, <2>1 DEF State, NoChunk
  <2>3. Held' = Held /\ Settled' = Settled /\ buffer = Nothing /\ Held = Settled
    BY <2>1, InHandIs DEF Held, Settled, InHand, HalfRead, CollectorTypes, ThreadState
  <2>4. Due(0) = {}
    BY <1>2, DueGrows DEF Due
  <2>5. Following'
    <3>1. SUFFICES ASSUME state.inode = 1 PROVE Following'
      BY <2>2 DEF Following
    <3>2. ASSUME NEW o \in {pending[s].offset : s \in DOMAIN pending}, o \in Nat
          PROVE  Ahead(o)'
      <4>1. o <= length[1] /\ DueIn(path, length[1], o) \subseteq Settled /\ path # 1
        <5>1. CASE o <= readOffset
          BY <1>1, <1>2, <2>1, <2>3, <3>1, <3>2, <5>1, DueGrows DEF Following, Due
        <5>2. CASE ~(o <= readOffset)
          BY <1>1, <1>2, <2>1, <3>1, <3>2, <5>2 DEF Following, Ahead, Due
        <5> QED
          BY <5>1, <5>2
      <4> QED
        BY <1>1, <2>1, <2>3, <4>1 DEF Ahead, Due
    <3>3. \A s \in DOMAIN pending : pending[s].offset \in Nat
      BY Numbers
    <3>4. Due(0)' = {}
      BY <1>1, <2>4 DEF Due
    <3> QED
      BY <1>1, <1>2, <2>1, <2>2, <2>3, <3>2, <3>3, <3>4 DEF Following
  <2>6. Leaving'
    BY <1>1, <1>2, <2>1, <2>2, <2>3 DEF Leaving, Due
  <2>7. Stored'
    <3>1. StateHeld(path, length[1], Held, state')
      BY <1>2, <2>2, <2>4 DEF StateHeld, Due
    <3> QED
      BY <1>1, <1>2, <2>1, <2>3, <3>1, NoNote, StoredStays
  <2> QED
    BY <2>5, <2>6, <2>7 DEF FileInv
<1>9. CASE DoneRotating \/ SetInode \/ SetSize
  <2>1. /\ UNCHANGED <<pending, buffer, hand, put, lost>> /\ mode \in {"rotate", "start"}
        /\ DoneRotating => UNCHANGED <<readOffset, mode>> /\ pc' = "set_inode"
        /\ SetInode => UNCHANGED <<chunk, mode>> /\ handle # 1
        /\ SetSize => chunk' = NoChunk /\ state.inode # 1
    BY <1>9 DEF DoneRotating, SetInode, SetSize, reading, history, CollectorTypes, ThreadState
  <2>2. path # 1 /\ Due(length[1]) \subseteq Held
    BY <1>1, <1>2, <2>1, Left DEF Leaving
  <2>3. Held' = Held /\ Settled' = Settled
    BY <2>1 DEF Held, Settled, InHand, HalfRead
  <2>4. DoneRotating =>
          /\ state'.offset = 0 /\ state'.inode = state.inode /\ chunk'.offset = 0
    BY <1>2 DEF DoneRotating, State
  <2>5. SetInode \/ SetSize => state'.inode # 1
    BY <1>2, <2>1 DEF SetInode, SetSize, State
  <2>6. Following'
    <3>1. CASE SetInode \/ SetSize
      BY <2>5, <3>1 DEF Following
    <3>2. CASE DoneRotating
      <4>1. \A o : Ahead(o) => Ahead(o)'
        BY <1>1, <2>1, <2>3, <3>2 DEF Ahead, Due
      <4> QED
        BY <1>1, <1>2, <2>1, <2>3, <2>4, <3>2, <4>1 DEF Following, Due
    <3> QED
      BY <1>9, <3>1, <3>2
  <2>7. Leaving'
    BY <1>1, <2>2, <2>3 DEF Leaving, Due
  <2>8. Stored'
    <3>1. \A x : DueIn(path, length[1], x) \subseteq Held
      BY <1>2, <2>2, DueGrows DEF Due
    <3>2. StateHeld(path, length[1], Held, state') /\ NoteHeld(path, length[1], Held, chunk')
      BY <2>2, <3>1 DEF StateHeld, NoteHeld
    <3> QED
      BY <1>1, <1>2, <2>1, <2>3, <3>2, StoredStays
  <2> QED
    BY <2>6, <2>7, <2>8 DEF FileInv
<1> QED
  BY <1>3, <1>4, <1>5, <1>6, <1>7, <1>8, <1>9

LEMMA RestKeepsFirst ==
  ASSUME CollectorTypes, FileInv, Kept,
         \/ StopState \/ StopPending \/ Ack \/ Flush \/ Stop \/ Crash \/ UNCHANGED vars
  PROVE  FileInv'
<1>1. Following /\ Leaving /\ Stored
  BY DEF FileInv
\* Nothing changes in memory but the notes, of which some may go.
<1>2. ASSUME UNCHANGED <<length, path, state, readOffset, buffer, hand, mode, chunk, put, lost>>,
             pc' = pc \/ (Running /\ Running' /\ pc' = "stopped"),
             stateDisk' \in {state, stateDisk}, pendingDisk' \in {pending, pendingDisk},
             \A s \in DOMAIN pending' : s \in DOMAIN pending /\ pending'[s] = pending[s]
      PROVE  FileInv'
  <2>1. Held' = Held /\ Settled' = Settled /\ (Running' <=> Running)
    BY <1>2 DEF Held, Settled, InHand, HalfRead, Running
  <2>2. \A o : Ahead(o) => Ahead(o)'
    BY <1>2, <2>1 DEF Ahead, Due
  <2>3. Following'
    BY <1>1, <1>2, <2>1, <2>2 DEF Following, Due
  <2>4. Leaving'
    BY <1>1, <1>2, <2>1 DEF Leaving, Due
  <2>5. NotesHeld(path, length[1], Held, pending')
    BY <1>1, <1>2 DEF Stored, NotesHeld
  <2>6. Stored'
    BY <1>1, <1>2, <2>1, <2>5, StoredStays
  <2> QED
    BY <2>3, <2>4, <2>6 DEF FileInv
<1>3. CASE StopState \/ FlushState \/ FlushPending
  <2>1. /\ UNCHANGED <<length, path, state, pending, readOffset, buffer, hand, mode, chunk, put, lost>>
        /\ stateDisk' \in {state, stateDisk} /\ pendingDisk' \in {pending, pendingDisk}
        /\ pc' = pc \/ (Running /\ Running' /\ pc' = "stopped")
    BY <1>3, KnownIs DEF StopState, FlushState, FlushPending, SaveState, SavePending, files, reading,
                         thread, history, Running
  <2> QED
    BY <1>2, <2>1
<1>4. CASE AckRemove \/ (\E s \in Seq_ : AckUnnoted(s)) \/ UNCHANGED vars
  <2>1. /\ UNCHANGED <<length, path, stateDisk, pendingDisk, state, readOffset, buffer, hand, mode,
                       chunk, put, lost, pc>>
        /\ \A s \in DOMAIN pending' : s \in DOMAIN pending /\ pending'[s] = pending[s]
    BY <1>4 DEF AckRemove, AckUnnoted, vars, files, disk, reading, thread, history
  <2> QED
    BY <1>2, <2>1
<1>5. CASE StopPending \/ Crash
  <2>1. /\ UNCHANGED <<length, path, stateDisk, put>> /\ Forgotten
        /\ pendingDisk' \in {pending, pendingDisk}
        /\ Crash => lost' = lost \cup InHand
        /\ StopPending => pc = "stopped" /\ lost' = lost
    BY <1>5 DEF StopPending, Crash, SavePending, files, disk, history
  <2>2. pc' = "down" /\ pending' = << >> /\ state' = NoState /\ chunk' = NoChunk
    BY <2>1 DEF Forgotten
  <2>3. Held \subseteq put' \cup lost'
    BY <1>5, <2>1, InHandIs DEF Held
  <2>4. Held \subseteq Held'
    BY <2>3 DEF Held
  <2>5. Following' /\ Leaving'
    BY <2>2 DEF Following, Leaving, Running
  <2>6. Stored'
    BY <1>1, <2>1, <2>2, <2>4, NoNote, StoredStays
  <2> QED
    BY <2>5, <2>6 DEF FileInv
<1>6. CASE Stop
  <2>1. /\ UNCHANGED <<length, path, stateDisk, pendingDisk, state, pending, readOffset, chunk, put>>
        /\ lost' = lost \cup HalfRead /\ buffer' = Nothing /\ mode' = "stop"
        /\ pc = "idle" /\ pc' = "put"
    BY <1>6 DEF Stop, files, disk
  <2>2. Held \subseteq Held' /\ Settled \subseteq Settled' /\ Running /\ Running'
    BY <2>1, InHandIs DEF Held, Settled, Running
  <2>3. Following'
    <3>1. \A o : Ahead(o) => Ahead(o)'
      BY <2>1, <2>2 DEF Ahead, Due
    <3>2. mode = "poll"
      BY <2>1 DEF CollectorTypes, ThreadState
    <3> QED
      BY <1>1, <2>1, <2>2, <3>1, <3>2 DEF Following, Due
  <2>4. Leaving'
    BY <1>1, <2>1, <2>2 DEF Leaving, Due, CollectorTypes, ThreadState
  <2>5. Stored'
    BY <1>1, <2>1, <2>2, StoredStays
  <2> QED
    BY <2>3, <2>4, <2>5 DEF FileInv
<1>7. ASSUME NEW s \in Seq_, AckState(s) PROVE FileInv'
  <2>1. /\ UNCHANGED <<length, path, stateDisk, pendingDisk, pending, readOffset, buffer, hand, mode,
                       chunk, put, lost, pc>>
        /\ mode # "start"
    BY <1>7, AckIs DEF files, disk, reading, thread, history, Locked
  <2>2. Held' = Held /\ Settled' = Settled /\ (Running' <=> Running)
    BY <2>1 DEF Held, Settled, InHand, HalfRead, Running
  <2>3. CASE UNCHANGED state
    BY <1>2, <2>1, <2>3
  <2>4. ASSUME NEW n \in DOMAIN pending,
               Known # NoState, state' \in State, state'.inode = Known.inode,
               state'.offset = pending[n].offset,
               state'.size = IF pending[n].size = NoSize THEN Known.size ELSE pending[n].size
        PROVE  FileInv'
    <3>1. /\ StateHeld(path, length[1], Held, Known)
          /\ NoteHeld(path, length[1], Held, pending[n])
      BY <1>1, KnownIs DEF Stored, NotesHeld
    <3>2. StateHeld(path, length[1], Held, state')
      BY <2>4, <3>1 DEF StateHeld, NoteHeld
    <3>3. Stored'
      BY <1>1, <2>1, <2>2, <3>2, StoredStays
    <3>4. Running => state'.inode = state.inode
      BY <2>4, KnownIs
    <3>5. Following'
      <4>1. \A o : Ahead(o) => Ahead(o)'
        BY <2>1, <2>2 DEF Ahead, Due
      <4> QED
        BY <1>1, <2>1, <2>2, <2>4, <3>4, <4>1 DEF Following, Due
    <3>6. Leaving'
      BY <1>1, <2>1, <2>2, <3>4 DEF Leaving, Due
    <3> QED
      BY <3>3, <3>5, <3>6 DEF FileInv
  <2> QED
    BY <1>7, <2>3, <2>4, AckIs
<1> QED
  BY <1>3, <1>4, <1>5, <1>6, <1>7 DEF Ack, Flush

LEMMA FirstFileNext ==
  ASSUME CollectorTypes, FirstFile, [Next]_vars
  PROVE  FirstFile'
<1>1. Kept' => Kept
  <2>1. truncated \subseteq truncated' /\ gone \subseteq gone'
    <3>1. CASE Write \/ Rotate \/ Truncate
      BY <3>1 DEF Write, Rotate, Truncate
    <3>2. CASE Start
      BY <3>2 DEF Start, Boot, StartFirst, StartRotated, StartTruncated, StartResumed, files
    <3>3. CASE FileThread
      BY <3>3 DEF FileThread, NoticeRotation, NoticeInode, NoticeTruncation, NoticeNothing,
        ReadNothing, Read, PutMessage, PutRefused, AddPending, DonePolling, DoneRotating, SetInode,
        SetSize, DoneTruncating, DoneStopping, StopState, StopPending, files
    <3>4. CASE Ack \/ Flush \/ Stop \/ Crash \/ UNCHANGED vars
      BY <3>4 DEF Ack, AckRemove, AckUnnoted, AckState, Flush, FlushState, FlushPending, Stop, Crash,
        vars, files
    <3> QED
      BY <3>1, <3>2, <3>3, <3>4 DEF Next
  <2> QED
    BY <2>1 DEF Kept
<1> SUFFICES ASSUME Kept' PROVE FileInv'
  BY DEF FirstFile
<1>2. FileInv /\ Kept
  BY <1>1 DEF FirstFile
<1>3. CASE Write \/ Rotate \/ Truncate
  BY <1>2, <1>3, FilesKeepFirst
<1>4. CASE Start
  BY <1>2, <1>4, StartKeepsFirst
<1>5. CASE FileThread
  BY <1>2, <1>5, RotationKeepsFirst, ReadKeepsFirst, ThreadKeepsFirst, RestKeepsFirst DEF FileThread
<1>6. CASE Ack \/ Flush \/ Stop \/ Crash \/ UNCHANGED vars
  BY <1>2, <1>6, RestKeepsFirst
<1> QED
  BY <1>3, <1>4, <1>5, <1>6 DEF Next

LEMMA FirstFileInit == Init => FirstFile
<1> SUFFICES ASSUME Init PROVE FileInv
  BY DEF FirstFile
<1>1. /\ ~Running /\ state = NoState /\ stateDisk = NoState /\ pending = << >>
      /\ pendingDisk = << >> /\ chunk = NoChunk
  BY DEF Init, Running
<1>2. Following /\ Leaving
  BY <1>1 DEF Following, Leaving
<1>3. Stored
  BY <1>1, NoNote, TypesInit DEF Stored, StateHeld
<1> QED
  BY <1>2, <1>3 DEF FileInv

\* What is held up to a position are all the lines that end there.
LEMMA HeldUpTo ==
  ASSUME CollectorTypes, NEW x \in Nat, DueIn(path, length[1], x) \subseteq Held
  PROVE  {<<1, k>> : k \in {j \in 1 .. length[1] \div 2 : 2 * j <= x}} \subseteq Held
<1>1. ASSUME NEW k \in 1 .. length[1] \div 2, 2 * k <= x PROVE <<1, k>> \in Held
  <2>1. length[1] \in {0} \cup Lengths[1] /\ length[1] \in Nat /\ length[1] \div 2 \in Nat
    BY Positions, Numbers, Halves DEF CollectorTypes, FilesKnown
  <2>2. k \in Nat /\ 2 * k <= length[1] /\ length[1] \in Lengths[1]
    BY <2>1, Halves
  <2>3. <<1, k>> \in Line
    BY <2>2, LinesAre, Positions
  <2>4. <<1, k>> \in DueIn(path, length[1], x)
    BY <1>1, <2>2, <2>3 DEF DueIn
  <2> QED
    BY <2>4
<1> QED
  BY <1>1

LEMMA HeldIsEnough ==
  ASSUME CollectorTypes, FirstFile
  PROVE  NothingElseLost
<1> DEFINE UpTo(x) == {<<1, k>> : k \in {j \in 1 .. length[1] \div 2 : 2 * j <= x}}
<1> SUFFICES ASSUME Kept
             PROVE  UpTo(Behind) \subseteq Held
  BY DEF NothingElseLost, Held
<1> DEFINE inMemory == IF pc \in {"down", "up"} THEN 0
                       ELSE IF state.inode # 1 THEN length[1]
                       ELSE IF mode = "start" THEN state.offset
                       ELSE readOffset
           onDisk == IF stateDisk = NoState THEN 0
                     ELSE IF stateDisk.inode # 1 THEN length[1]
                     ELSE IF path = 1 THEN Resume(stateDisk, pendingDisk) ELSE stateDisk.offset
<1>1. /\ Following /\ Leaving /\ Stored /\ length[1] \in Nat /\ readOffset \in Nat
      /\ DueIn(path, length[1], 0) = {}
  BY Numbers, DueGrows DEF FirstFile, FileInv
<1>2. inMemory \in Nat /\ DueIn(path, length[1], inMemory) \subseteq Held
  <2>1. CASE ~Running
    BY <1>1, <2>1 DEF Running
  <2>2. CASE Running /\ state.inode # 1
    BY <1>1, <2>2 DEF Leaving, Due, Running
  <2>3. CASE Running /\ state.inode = 1 /\ mode = "start"
    BY <1>1, <2>3, Numbers DEF Stored, StateHeld, Running
  <2>4. CASE Running /\ state.inode = 1 /\ mode # "start"
    BY <1>1, <2>4 DEF Following, Due, Running
  <2> QED
    BY <2>1, <2>2, <2>3, <2>4
<1>3. onDisk \in Nat /\ DueIn(path, length[1], onDisk) \subseteq Held
  <2>1. CASE stateDisk = NoState
    BY <1>1, <2>1
  <2>2. CASE stateDisk # NoState /\ stateDisk.inode # 1
    BY <1>1, <2>2 DEF Stored, StateHeld
  <2>3. CASE stateDisk # NoState /\ stateDisk.inode = 1
    <3>1. stateDisk.offset \in Nat /\ DueIn(path, length[1], stateDisk.offset) \subseteq Held
      BY <1>1, <2>3, Numbers DEF Stored, StateHeld
    <3>2. CASE path = 1
      <4> DEFINE o == Resume(stateDisk, pendingDisk)
      <4>1. /\ stateDisk.offset \in Offset /\ DOMAIN pendingDisk \subseteq Seq_
            /\ \A s \in DOMAIN pendingDisk : pendingDisk[s].offset \in Offset
        <5>1. stateDisk \in State /\ DOMAIN pendingDisk \subseteq Seq_
              /\ pendingDisk \in [DOMAIN pendingDisk -> Note]
          BY <2>3 DEF CollectorTypes, TypeOK
        <5> QED
          BY <5>1 DEF State, Note
      <4>2. o \in {stateDisk.offset} \cup {pendingDisk[s].offset : s \in DOMAIN pendingDisk}
            /\ o \in Nat
        BY <4>1, ResumeIs, Positions
      <4>3. \A s \in DOMAIN pendingDisk : DueIn(path, length[1], pendingDisk[s].offset) \subseteq Held
        BY <1>1 DEF Stored, NotesHeld, NoteHeld
      <4> HIDE DEF o
      <4>4. DueIn(path, length[1], o) \subseteq Held
        BY <3>1, <4>2, <4>3
      <4> QED
        BY <2>3, <3>2, <4>2, <4>4 DEF o
    <3> QED
      BY <2>3, <3>1, <3>2
  <2> QED
    BY <2>1, <2>2, <2>3
<1>4. Behind = inMemory \/ Behind = onDisk
  BY DEF Behind, Larger
<1> HIDE DEF inMemory, onDisk
<1>5. UpTo(inMemory) \subseteq Held /\ UpTo(onDisk) \subseteq Held
  BY <1>2, <1>3, HeldUpTo
<1> QED
  BY <1>4, <1>5

\* A line that reading has passed, now or after a crash at this point, is queued, in
\* hand, or one of those that the code gives up: no order of reads, acks, saves,
\* rotations, ends and starts of the process (logcollector.py:268-597) loses another.
THEOREM NoOtherLineIsLost == Spec => []NothingElseLost
<1>1. CollectorTypes /\ FirstFile /\ [Next]_vars => (CollectorTypes /\ FirstFile)'
  BY TypesNext, FirstFileNext
<1>2. Init => CollectorTypes /\ FirstFile
  BY TypesInit, FirstFileInit
<1>3. CollectorTypes /\ FirstFile => NothingElseLost
  BY HeldIsEnough
<1> QED
  BY <1>1, <1>2, <1>3, PTL DEF Spec

-----------------------------------------------------------------------------
(* The first run of the process *)

LEMMA FirstRunNext ==
  ASSUME CollectorTypes, FirstFile, FirstRun, [Next]_vars, CollectorTypes'
  PROVE  FirstRun'
<1> SUFFICES ASSUME stops' = 0, path' = 1, truncated' = {} PROVE FirstRun'
  BY DEF FirstRun
<1>1. stops = 0 /\ path = 1 /\ truncated = {}
  <2>1. path \in Nat /\ path >= 1 /\ stops \in Nat
    <3>1. stops \in 0 .. MaxStop
      BY DEF CollectorTypes, TypeOK
    <3> QED
      BY <3>1, Numbers, Positions
  <2>2. CASE Write \/ Rotate \/ Truncate
    BY <2>1, <2>2 DEF Write, Rotate, Truncate, history
  <2>3. CASE Start
    BY <2>3 DEF Start, Boot, StartFirst, StartRotated, StartTruncated, StartResumed, files, history
  <2>4. CASE FileThread
    BY <2>4 DEF FileThread, NoticeRotation, NoticeInode, NoticeTruncation, NoticeNothing,
      ReadNothing, Read, PutMessage, PutRefused, AddPending, DonePolling, DoneRotating, SetInode,
      SetSize, DoneTruncating, DoneStopping, StopState, StopPending, files, history
  <2>5. CASE Ack \/ Flush \/ UNCHANGED vars
    BY <2>5 DEF Ack, AckRemove, AckUnnoted, AckState, Flush, FlushState, FlushPending, vars, files,
      history
  <2>6. CASE Stop \/ Crash
    BY <2>1, <2>6 DEF Stop, Crash
  <2> QED
    BY <2>2, <2>3, <2>4, <2>5, <2>6 DEF Next
<1>2. /\ ~Running => state = NoState /\ stateDisk = NoState /\ put = {}
      /\ mode = "poll" /\ pc \notin {"stopping", "stopped"} /\ twice = {}
      /\ \A l \in put \cup (ToSet(hand) \cap Line) : 2 * l[2] <= readOffset
      /\ put \cap ToSet(hand) = {}
      /\ \A i, j \in DOMAIN hand : hand[i] = hand[j] /\ hand[i] \in Line => i = j
      /\ put \subseteq Line
  BY <1>1 DEF FirstRun, CollectorTypes, TypeOK
<1>3. /\ Running => state.inode = 1 /\ state # NoState
      /\ pc \notin {"put", "add"} => hand = << >>
      /\ Kept /\ FileInv
  <2>1. Kept
    BY <1>1, Positions DEF CollectorTypes, FilesKnown, Kept
  <2> QED
    BY <1>1, <2>1, Numbers DEF FirstFile, CollectorTypes, ThreadState
\* Nothing is read, put or started.
<1>4. ASSUME UNCHANGED <<readOffset, hand, mode, put, twice>>, pc' \notin {"stopping", "stopped"},
             Running' \/ (UNCHANGED <<pc, state>> /\ stateDisk' \in {state, stateDisk})
      PROVE  FirstRun'
  BY <1>2, <1>4 DEF FirstRun, Running
<1>5. CASE Write \/ Rotate \/ Truncate
  <2>1. UNCHANGED <<state, stateDisk, readOffset, hand, mode, put, twice, pc>>
    BY <1>5 DEF Write, Rotate, Truncate, disk, reading, thread, history
  <2> QED
    BY <1>2, <1>4, <2>1
<1>6. CASE Start
  <2>1. /\ ~Running /\ state = NoState /\ stateDisk = NoState /\ hand = << >> /\ put = {}
        /\ Known = NoState
    BY <1>2, <1>3, <1>6 DEF Start, Boot, StartFirst, StartRotated, StartTruncated, StartResumed,
                            Registering, Running, Known
  <2>2. Boot \/ StartFirst
    BY <1>6, <2>1 DEF Start, StartRotated, StartTruncated, StartResumed
  <2>3. /\ put' = put /\ twice' = twice /\ hand' = hand /\ mode' = mode
        /\ pc' \in {"up", "idle"}
        /\ Boot => UNCHANGED <<state, stateDisk>> /\ pc' = "up"
        /\ StartFirst => pc' = "idle"
    BY <2>2 DEF Boot, StartFirst, Fresh, disk, history
  <2>4. ToSet(hand') = {} /\ DOMAIN hand' = {}
    BY <2>1, <2>3, FlushedTyped
  <2> QED
    BY <1>2, <2>1, <2>2, <2>3, <2>4 DEF FirstRun, Running
<1>7. CASE Read
  <2> DEFINE a == ReadFrom
             b == ReadTo
             m == Messages(handle, a, b, buffer)
  <2>1. /\ pc = "read" /\ b > a /\ hand' = m /\ readOffset' = b
        /\ mode' = "poll" /\ pc' = "put" /\ put' = put /\ twice' = twice
    BY <1>7 DEF Read, history
  <2>2. a \in Nat /\ b \in Nat /\ a <= b /\ readOffset \in Nat /\ state.offset \in Nat
    BY <2>1, ReadTyped, Numbers DEF Running
  <2>3. readOffset <= a
    BY <2>1, <2>2 DEF ReadFrom, Larger
  <2>4. /\ DOMAIN m = 1 .. b \div 2 - a \div 2
        /\ \A n \in 1 .. b \div 2 - a \div 2 :
             m[n] = IF WholeLine(handle, a, buffer, a \div 2 + n) THEN <<handle, a \div 2 + n>>
                    ELSE Garbled
        /\ \A x \in ToSet(m) :
             x = Garbled \/ \E k \in Nat : x = <<handle, k>> /\ a < 2 * k /\ 2 * k <= b
    BY <2>2, MessagesAre
  <2> HIDE DEF a, b, m
  <2>5. \A x \in ToSet(m) : x \in Line => a < 2 * x[2] /\ 2 * x[2] <= b
    BY <2>4, LinesAre
  <2>6. \A l \in put : 2 * l[2] <= a /\ 2 * l[2] <= b
    <3>1. \A l \in put : l[2] \in Nat /\ 2 * l[2] <= readOffset
      BY <1>2, LinesAre
    <3> QED
      BY <2>2, <2>3, <3>1
  <2>7. put' \cap ToSet(hand') = {}
    <3>1. \A l \in put : l[2] \in Nat
      BY <1>2, LinesAre
    <3> QED
      BY <1>2, <2>1, <2>2, <2>5, <2>6, <3>1
  <2>8. ASSUME NEW i \in DOMAIN m, NEW j \in DOMAIN m, m[i] = m[j], m[i] \in Line
        PROVE  i = j
    <3>1. m[i] = <<handle, a \div 2 + i>> /\ m[j] = <<handle, a \div 2 + j>>
      BY <2>4, <2>8, LinesAre
    <3>2. i \in Int /\ j \in Int /\ a \div 2 \in Int
      <4>1. a \div 2 \in Nat /\ b \div 2 \in Nat
        BY <2>2, Halves
      <4> QED
        BY <2>4, <4>1
    <3>3. m[i][2] = a \div 2 + i /\ m[j][2] = a \div 2 + j
      BY <3>1
    <3>4. a \div 2 + i = a \div 2 + j
      BY <2>8, <3>3
    <3>5. ASSUME NEW h \in Int, NEW x \in Int, NEW y \in Int, h + x = h + y PROVE x = y
      BY <3>5
    <3> QED
      BY <3>2, <3>4, <3>5
  <2> QED
    BY <1>2, <2>1, <2>5, <2>6, <2>7, <2>8 DEF FirstRun, Running
<1>8. CASE PutMessage \/ PutRefused
  <2>1. /\ pc = "put" /\ hand # << >> /\ hand' = Tail(hand) /\ pc' \in {"put", "add"}
        /\ \/ put' = put /\ twice' = twice
           \/ put' = put \cup ({Head(hand)} \cap Line)
              /\ twice' = twice \cup (put \cap ({Head(hand)} \cap Line))
        /\ UNCHANGED <<readOffset, mode>>
    BY <1>8 DEF PutMessage, PutRefused, reading
  <2>2. /\ Head(hand) = hand[1] /\ 1 \in DOMAIN hand
        /\ ToSet(hand) = {Head(hand)} \cup ToSet(hand')
        /\ \A i \in DOMAIN hand' : i + 1 \in DOMAIN hand /\ hand'[i] = hand[i + 1] /\ i \in Nat /\ i >= 1
    <3>1. hand \in Seq(Line \cup {Garbled})
      BY DEF CollectorTypes, TypeOK
    <3>2. Head(hand) = hand[1] /\ 1 \in DOMAIN hand /\ hand' \in Seq(Line \cup {Garbled})
      BY <2>1, <3>1
    <3>3. \A i \in DOMAIN hand' : i \in Nat /\ i >= 1
      BY <3>2
    <3> QED
      BY <2>1, <3>1, <3>2, <3>3, FirstOf
  <2>3. twice' = {}
    BY <1>2, <2>1, <2>2
  <2>4. Head(hand) \in Line => Head(hand) \notin ToSet(hand')
    <3>1. ASSUME NEW i \in DOMAIN hand', Head(hand) \in Line PROVE hand'[i] # Head(hand)
      <4>1. i + 1 \in DOMAIN hand /\ hand'[i] = hand[i + 1] /\ i + 1 # 1
        BY <2>2, <3>1
      <4> QED
        BY <1>2, <2>2, <3>1, <4>1
    <3>2. hand' \in Seq(Line \cup {Garbled})
      BY DEF CollectorTypes, TypeOK
    <3>3. \A x \in ToSet(hand') : \E i \in DOMAIN hand' : x = hand'[i]
      BY <3>2 DEF ToSet
    <3> QED
      BY <3>1, <3>3
  <2>5. put' \cap ToSet(hand') = {}
    BY <1>2, <2>1, <2>2, <2>4
  <2>6. \A l \in put' \cup (ToSet(hand') \cap Line) : 2 * l[2] <= readOffset
    BY <1>2, <2>1, <2>2
  <2>7. ASSUME NEW i \in DOMAIN hand', NEW j \in DOMAIN hand', hand'[i] = hand'[j], hand'[i] \in Line
        PROVE  i = j
    <3>1. /\ i + 1 \in DOMAIN hand /\ hand'[i] = hand[i + 1] /\ i \in Nat
          /\ j + 1 \in DOMAIN hand /\ hand'[j] = hand[j + 1] /\ j \in Nat
      BY <2>2
    <3>2. i + 1 = j + 1
      BY <1>2, <2>7, <3>1
    <3> QED
      BY <3>1, <3>2
  <2> QED
    BY <1>2, <2>1, <2>3, <2>5, <2>6, <2>7 DEF FirstRun, Running
<1>9. CASE NoticeInode \/ NoticeNothing \/ ReadNothing \/ AddPending \/ DonePolling
  <2>1. /\ UNCHANGED <<readOffset, hand, mode, put, twice>> /\ Running'
        /\ pc' \notin {"stopping", "stopped"}
    BY <1>2, <1>9 DEF NoticeInode, NoticeNothing, ReadNothing, AddPending, DonePolling, Done, reading,
                      history, Running
  <2> QED
    BY <1>4, <2>1
<1>10. ~NoticeRotation
  BY <1>1, <1>3 DEF NoticeRotation, Running
<1>11. ~NoticeTruncation
  <2>1. SUFFICES ASSUME Running, length[path] < state.size PROVE FALSE
    BY DEF NoticeTruncation, Running
  <2>2. state.size <= length[1] /\ state.size \in Nat /\ length[1] \in Nat
    BY <1>1, <1>3, <2>1, Numbers DEF FileInv, Stored, StateHeld
  <2> QED
    BY <1>1, <2>1, <2>2
<1>12. /\ ~DoneRotating /\ ~DoneTruncating /\ ~DoneStopping /\ ~StopState /\ ~StopPending
       /\ ~SetInode /\ ~SetSize
  BY <1>2 DEF DoneRotating, DoneTruncating, DoneStopping, StopState, StopPending, SetInode, SetSize,
              CollectorTypes, ThreadState
<1>13. CASE Ack \/ Flush
  <2>1. UNCHANGED <<readOffset, hand, mode, put, twice, pc>>
    BY <1>13 DEF Ack, AckRemove, AckUnnoted, AckState, Flush, FlushState, FlushPending, reading,
                 thread, history
  <2>2. stateDisk' \in {state, stateDisk}
    BY <1>13, KnownIs DEF Ack, AckRemove, AckUnnoted, AckState, Flush, FlushState, FlushPending,
                          SaveState, disk
  <2>3. ~Running => UNCHANGED state
    <3>1. ~Running => Known = NoState
      BY <1>2 DEF Known
    <3>2. ASSUME NEW s \in Seq_, AckState(s) PROVE Known = NoState => UNCHANGED state
      BY <3>2, AckIs
    <3> QED
      BY <1>13, <3>1, <3>2 DEF Ack, AckRemove, AckUnnoted, Flush, FlushState, FlushPending
  <2> QED
    BY <1>2, <1>4, <2>1, <2>2, <2>3 DEF Running
<1>14. ~Stop /\ ~Crash
  <2>1. stops \in Nat
    BY Positions DEF CollectorTypes, TypeOK
  <2> QED
    BY <1>1, <2>1 DEF Stop, Crash
<1>15. CASE UNCHANGED vars
  <2>1. UNCHANGED <<state, stateDisk, readOffset, hand, mode, put, twice, pc>>
    BY <1>15 DEF vars, disk, reading, thread, history
  <2> QED
    BY <1>2, <1>4, <2>1
<1> QED
  BY <1>5, <1>6, <1>7, <1>8, <1>9, <1>10, <1>11, <1>12, <1>13, <1>14, <1>15 DEF Next, FileThread

LEMMA FirstRunInit == Init => FirstRun
<1> SUFFICES ASSUME Init PROVE FirstRun
  OBVIOUS
<1>1. /\ pc = "down" /\ state = NoState /\ stateDisk = NoState /\ put = {} /\ twice = {}
      /\ mode = "poll" /\ hand = << >>
  BY DEF Init
<1>2. ToSet(hand) = {} /\ DOMAIN hand = {}
  BY <1>1, FlushedTyped
<1> QED
  BY <1>1, <1>2 DEF FirstRun

\* Until the process ends or the path gets another file, no line is queued twice:
\* every read begins where the one before has ended (logcollector.py:436-455).
THEOREM LinesArePutOnce == Spec => []PutOnce
<1>1. CollectorInv /\ [Next]_vars => CollectorInv'
  BY TypesNext, FirstFileNext, FirstRunNext DEF CollectorInv
<1>2. Init => CollectorInv
  BY TypesInit, FirstFileInit, FirstRunInit DEF CollectorInv
<1>3. CollectorInv => PutOnce
  BY DEF CollectorInv, FirstRun, PutOnce
<1> QED
  BY <1>1, <1>2, <1>3, PTL DEF Spec

=============================================================================
