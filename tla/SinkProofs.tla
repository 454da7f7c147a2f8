------------------------------ MODULE SinkProofs ------------------------------
(***************************************************************************)
(* Proofs about the server's log files (Sink), for every number of copies, *)
(* lines, failures and ends of the process and every size of the lines.    *)
(***************************************************************************)
EXTENDS Sink, SequenceTheorems, WellFoundedInduction, TLAPS

\* How many lines have been written: the last one given to write() is in hand until
\* it is appended.
Written == IF stage = "ready" THEN Len(lineSize) ELSE Len(lineSize) - 1

SinkTypes ==
  /\ DOMAIN files \subseteq 0 .. MaxFiles
  /\ \A i \in DOMAIN files : files[i] \in Seq(1 .. Written)
  /\ lineSize \in Seq(LineSize) /\ (stage # "ready" => lineSize # << >>)
  /\ stage \in {"ready", "rotate", "append"} => 0 \in DOMAIN files
  /\ shifting \in 0 .. MaxFiles /\ (stage = "shift" => shifting < MaxFiles)
  /\ exits \in Nat

\* The files of fs, and all of their lines.
InOrder(fs) ==
  \A i, j \in DOMAIN fs : \A k \in DOMAIN fs[i], l \in DOMAIN fs[j] :
    i > j \/ (i = j /\ k < l) => fs[i][k] < fs[j][l]
LinesOf(fs) == UNION {Range(fs[i]) : i \in DOMAIN fs}

\* In the loop the place a copy moves to is free, but for the oldest's.
PlaceIsFree ==
  stage = "shift" /\ "shift" \notin failed /\ shifting + 1 \in DOMAIN files =>
    shifting + 1 = MaxFiles

\* Of the lines that were written the newest are there, from some line on.
NewestAreThere ==
  "shift" \notin failed => \A n \in AllLines : n .. Written \subseteq AllLines \cup late

\* The copy that is missing while the files move up.
Hole == IF stage = "shift" THEN shifting + 1 ELSE IF stage = "open" THEN 0 ELSE -1

\* Without a failure and an end of the process no other copy is missing between two
\* that are there, and none at all once lines have gone.
NoOtherGap ==
  failed = {} /\ exits = 0 =>
    /\ Hole \notin DOMAIN files
    /\ \A i \in DOMAIN files : \A j \in 0 .. i : j \in DOMAIN files \/ j = Hole
    /\ AllLines # 1 .. Written => \A j \in 0 .. MaxFiles : j \in DOMAIN files \/ j = Hole

SinkInv ==
  SinkTypes /\ InOrder(files) /\ PlaceIsFree /\ NewestAreThere /\ NoOtherGap

\* The lines in the buffer come after all lines of the files, and since the first of them
\* every write() has raised.  rotate() has flushed before it moves files.
Buffered ==
  /\ late \subseteq 1 .. Written /\ buffered \in Seq(late)
  /\ buffered # << >> => failed # {} /\ stage \in {"ready", "rotate", "append"}
  /\ \A k \in DOMAIN buffered :
       /\ \A m \in AllLines : m < buffered[k]
       /\ buffered[k] .. Written \subseteq late
       /\ \A l \in DOMAIN buffered : k < l => buffered[k] < buffered[l]

-----------------------------------------------------------------------------
(* The operations on the files *)

\* A file moves up to the next number: the order stays, and what goes is what was
\* in the file of that number.
LEMMA ReplacedIs ==
  ASSUME DOMAIN files \subseteq Nat, InOrder(files), NEW i \in DOMAIN files,
         files' = Replaced(files, i, i + 1)
  PROVE  /\ DOMAIN files' = (DOMAIN files \ {i}) \cup {i + 1}
         /\ \A k \in DOMAIN files' : \E g \in DOMAIN files : files'[k] = files[g]
         /\ InOrder(files') /\ LinesOf(files') \subseteq LinesOf(files)
         /\ i + 1 \notin DOMAIN files => LinesOf(files') = LinesOf(files)
         /\ \A n \in LinesOf(files') : \E g \in DOMAIN files \ {i + 1} : n \in Range(files[g])
         /\ \A m \in LinesOf(files) \ LinesOf(files') : i + 1 \in DOMAIN files /\ m \in Range(files[i + 1])
<1> DEFINE from(k) == IF k = i + 1 THEN i ELSE k
<1>1. i \in Nat /\ i + 1 # i
  OBVIOUS
<1>2. /\ DOMAIN files' = (DOMAIN files \ {i}) \cup {i + 1}
      /\ \A k \in DOMAIN files' : files'[k] = files[from(k)]
  BY <1>1 DEF Replaced
<1>3. \A k \in DOMAIN files' : k \in Nat /\ from(k) \in DOMAIN files \ {i + 1} /\ from(k) \in Nat
  BY <1>1, <1>2
<1>4. \A k, l \in DOMAIN files' : (k > l => from(k) > from(l)) /\ (k = l => from(k) = from(l))
  BY <1>1, <1>2, <1>3
<1>5. \A g \in DOMAIN files \ {i + 1} : \E k \in DOMAIN files' : from(k) = g
  BY <1>1, <1>2
<1> HIDE DEF from
<1>6. InOrder(files')
  <2> SUFFICES ASSUME NEW k \in DOMAIN files', NEW l \in DOMAIN files',
                      NEW p \in DOMAIN files'[k], NEW q \in DOMAIN files'[l],
                      k > l \/ (k = l /\ p < q)
               PROVE  files'[k][p] < files'[l][q]
    BY DEF InOrder
  <2>1. /\ from(k) \in DOMAIN files /\ from(l) \in DOMAIN files
        /\ files'[k] = files[from(k)] /\ files'[l] = files[from(l)]
        /\ from(k) > from(l) \/ (from(k) = from(l) /\ p < q)
    BY <1>2, <1>3, <1>4
  <2> QED
    BY <2>1 DEF InOrder
<1>7. \A n \in LinesOf(files') : \E g \in DOMAIN files \ {i + 1} : n \in Range(files[g])
  <2> SUFFICES ASSUME NEW k \in DOMAIN files', NEW n \in Range(files'[k])
               PROVE  \E g \in DOMAIN files \ {i + 1} : n \in Range(files[g])
    BY DEF LinesOf
  <2> QED
    BY <1>2, <1>3
<1>8. \A g \in DOMAIN files \ {i + 1} : \A n \in Range(files[g]) : n \in LinesOf(files')
  <2> SUFFICES ASSUME NEW g \in DOMAIN files \ {i + 1}, NEW n \in Range(files[g])
               PROVE  n \in LinesOf(files')
    OBVIOUS
  <2>1. PICK k \in DOMAIN files' : from(k) = g
    BY <1>5
  <2>2. n \in Range(files'[k])
    BY <1>2, <2>1
  <2> QED
    BY <2>2 DEF LinesOf
<1>9. \A m \in LinesOf(files) : \E g \in DOMAIN files : m \in Range(files[g])
  BY DEF LinesOf
<1>10. LinesOf(files') \subseteq LinesOf(files)
  BY <1>7 DEF LinesOf
<1>11. \A m \in LinesOf(files) \ LinesOf(files') : i + 1 \in DOMAIN files /\ m \in Range(files[i + 1])
  BY <1>8, <1>9
<1> QED
  BY <1>2, <1>3, <1>6, <1>7, <1>10, <1>11

\* If what goes is older than all that stays, the newest are there still.
LEMMA OldestGo ==
  ASSUME NEW L \in SUBSET Int, NEW R \in SUBSET L, NEW w \in Int, NEW E,
         \A n \in L : n .. w \subseteq L \cup E,
         \A m \in L \ R : \A n \in R : m < n
  PROVE  \A n \in R : n .. w \subseteq R \cup E
<1> SUFFICES ASSUME NEW n \in R, NEW m \in n .. w, m \notin R, m \notin E PROVE FALSE
  OBVIOUS
<1>1. m \in L
  OBVIOUS
<1>2. m < n /\ m \in Int /\ n \in Int /\ n <= m
  BY <1>1
<1> QED
  BY <1>2

\* Opening for append adds at most an empty file.
LEMMA WithFileIs ==
  ASSUME files' = WithFile(files)
  PROVE  /\ DOMAIN files' = DOMAIN files \cup {0}
         /\ \A k \in DOMAIN files : files'[k] = files[k]
         /\ 0 \notin DOMAIN files => files'[0] = << >>
         /\ LinesOf(files') = LinesOf(files)
         /\ InOrder(files) => InOrder(files')
<1>1. /\ DOMAIN files' = DOMAIN files \cup {0} /\ \A k \in DOMAIN files : files'[k] = files[k]
      /\ 0 \notin DOMAIN files => files'[0] = << >>
  BY DEF WithFile
<1>2. DOMAIN << >> = {} /\ Range(<< >>) = {}
  BY DEF Range
<1>3. LinesOf(files') = LinesOf(files)
  <2>1. \A n \in LinesOf(files') : n \in LinesOf(files)
    <3> SUFFICES ASSUME NEW k \in DOMAIN files', NEW n \in Range(files'[k]) PROVE n \in LinesOf(files)
      BY DEF LinesOf
    <3>1. k \in DOMAIN files
      BY <1>1, <1>2
    <3> QED
      BY <1>1, <3>1 DEF LinesOf
  <2>2. \A n \in LinesOf(files) : n \in LinesOf(files')
    <3> SUFFICES ASSUME NEW k \in DOMAIN files, NEW n \in Range(files[k]) PROVE n \in LinesOf(files')
      BY DEF LinesOf
    <3>1. k \in DOMAIN files' /\ files'[k] = files[k]
      BY <1>1
    <3> QED
      BY <3>1 DEF LinesOf
  <2> QED
    BY <2>1, <2>2
<1>4. ASSUME InOrder(files) PROVE InOrder(files')
  <2> SUFFICES ASSUME NEW k \in DOMAIN files', NEW l \in DOMAIN files',
                      NEW p \in DOMAIN files'[k], NEW q \in DOMAIN files'[l],
                      k > l \/ (k = l /\ p < q)
               PROVE  files'[k][p] < files'[l][q]
    BY DEF InOrder
  <2>1. k \in DOMAIN files /\ l \in DOMAIN files
    BY <1>1, <1>2
  <2> QED
    BY <1>1, <1>4, <2>1 DEF InOrder
<1> QED
  BY <1>1, <1>3, <1>4

LEMMA ElementsOf ==
  ASSUME NEW S, NEW s \in Seq(S)
  PROVE  /\ Range(s) \subseteq S /\ \A k \in DOMAIN s : s[k] \in S
         /\ \A T : S \subseteq T => s \in Seq(T)
<1>1. DOMAIN s = 1 .. Len(s) /\ \A k \in 1 .. Len(s) : s[k] \in S
  OBVIOUS
<1>2. Range(s) \subseteq S
  BY <1>1 DEF Range
<1>3. ASSUME NEW T, S \subseteq T PROVE s \in Seq(T)
  BY <1>3
<1> QED
  BY <1>1, <1>2, <1>3

LEMMA AppendRange ==
  ASSUME NEW S, NEW s \in Seq(S), NEW e
  PROVE  Range(Append(s, e)) = Range(s) \cup {e}
<1> DEFINE t == Append(s, e)
<1>1. /\ Len(s) \in Nat /\ DOMAIN s = 1 .. Len(s) /\ DOMAIN t = 1 .. Len(s) + 1
      /\ t[Len(s) + 1] = e /\ \A k \in DOMAIN s : t[k] = s[k]
  OBVIOUS
<1> HIDE DEF t
<1>2. \A k \in DOMAIN t : k \in DOMAIN s \/ k = Len(s) + 1
  BY <1>1
<1>3. Len(s) + 1 \in DOMAIN t /\ DOMAIN s \subseteq DOMAIN t
  BY <1>1
<1>4. Range(t) = Range(s) \cup {e}
  BY <1>1, <1>2, <1>3 DEF Range
<1> QED
  BY <1>4 DEF t

LEMMA LinesAre ==
  ASSUME SinkTypes
  PROVE  /\ AllLines = LinesOf(files) /\ AllLines \subseteq 1 .. Written /\ AllLines \subseteq Int
         /\ Written \in Nat /\ Len(lineSize) \in Nat /\ MaxFiles \in Nat /\ MaxFiles > 0
         /\ DOMAIN files \subseteq Nat
         /\ \A i \in DOMAIN files : \A n \in Range(files[i]) : n \in AllLines
<1>1. Len(lineSize) \in Nat /\ (stage # "ready" => Len(lineSize) > 0)
  BY DEF SinkTypes
<1>2. Written \in Nat
  BY <1>1 DEF Written
<1>3. \A i \in DOMAIN files : Range(files[i]) \subseteq 1 .. Written
  <2> SUFFICES ASSUME NEW i \in DOMAIN files PROVE Range(files[i]) \subseteq 1 .. Written
    OBVIOUS
  <2>1. files[i] \in Seq(1 .. Written)
    BY DEF SinkTypes
  <2> QED
    BY <2>1, ElementsOf
<1>4. MaxFiles \in Nat /\ MaxFiles > 0
  BY SinkAssumption DEF SinkAssumption
<1>5. AllLines = LinesOf(files)
  BY DEF AllLines, LinesOf
<1>6. AllLines \subseteq 1 .. Written
  BY <1>3 DEF AllLines
<1>7. AllLines \subseteq Int
  BY <1>6
<1>8. \A i \in DOMAIN files : \A n \in Range(files[i]) : n \in AllLines
  BY DEF AllLines
<1>9. DOMAIN files \subseteq Nat
  BY <1>4 DEF SinkTypes
<1> QED
  BY <1>1, <1>2, <1>4, <1>5, <1>6, <1>7, <1>8, <1>9

\* The lines of the oldest copy come before all others.
LEMMA OldestFirst ==
  ASSUME SinkTypes, InOrder(files), MaxFiles \in DOMAIN files
  PROVE  \A m \in Range(files[MaxFiles]) : \A g \in DOMAIN files \ {MaxFiles} :
           \A n \in Range(files[g]) : m < n
<1> SUFFICES ASSUME NEW m \in Range(files[MaxFiles]), NEW g \in DOMAIN files \ {MaxFiles},
                    NEW n \in Range(files[g])
             PROVE  m < n
  OBVIOUS
<1>1. MaxFiles > g
  <2>1. g \in 0 .. MaxFiles /\ MaxFiles \in Nat
    BY LinesAre DEF SinkTypes
  <2> QED
    BY <2>1
<1>2. PICK k \in DOMAIN files[MaxFiles] : files[MaxFiles][k] = m
  BY DEF Range
<1>3. PICK l \in DOMAIN files[g] : files[g][l] = n
  BY DEF Range
<1> QED
  BY <1>1, <1>2, <1>3 DEF InOrder

-----------------------------------------------------------------------------
(* The steps *)

\* What the others keep as long as files, lines and failures stay.
LEMMA SameFiles ==
  ASSUME SinkTypes, InOrder(files), NewestAreThere,
         files' = files, Written' = Written, late' = late,
         "shift" \notin failed' => "shift" \notin failed
  PROVE  InOrder(files)' /\ NewestAreThere' /\ AllLines' = AllLines
<1>1. AllLines' = AllLines
  BY DEF AllLines
<1>2. NewestAreThere'
  <2> HIDE DEF Written, AllLines
  <2> QED
    BY <1>1 DEF NewestAreThere
<1> QED
  BY <1>1, <1>2 DEF InOrder

LEMMA SinkInitially == SinkInit => SinkInv
<1> SUFFICES ASSUME SinkInit PROVE SinkInv
  OBVIOUS
<1>1. /\ files = [k \in {0} |-> << >>] /\ lineSize = << >> /\ stage = "ready"
      /\ shifting = 0 /\ MaxFiles \in Nat /\ exits = 0
  BY SinkAssumption DEF SinkInit, SinkAssumption
<1>2. DOMAIN files = {0} /\ files[0] = << >> /\ Written = 0 /\ Hole = -1
  BY <1>1 DEF Written, Hole
<1>3. AllLines = {}
  <2>1. Range(files[0]) = {}
    BY <1>2 DEF Range
  <2> QED
    BY <1>2, <2>1 DEF AllLines
<1>4. SinkTypes
  <2>1. \A i \in DOMAIN files : files[i] \in Seq(1 .. Written)
    BY <1>2
  <2>2. lineSize \in Seq(LineSize)
    BY <1>1
  <2> QED
    BY <1>1, <1>2, <2>1, <2>2 DEF SinkTypes
<1>5. InOrder(files)
  BY <1>2 DEF InOrder
<1>6. PlaceIsFree /\ NewestAreThere
  BY <1>1, <1>3 DEF PlaceIsFree, NewestAreThere
<1>7. NoOtherGap
  <2>1. 1 .. Written = {}
    BY <1>2
  <2>2. \A i \in DOMAIN files : \A j \in 0 .. i : j \in DOMAIN files
    BY <1>2
  <2> QED
    BY <1>2, <1>3, <2>1, <2>2 DEF NoOtherGap
<1> QED
  BY <1>4, <1>5, <1>6, <1>7 DEF SinkInv

LEMMA WriteLineKeeps ==
  ASSUME SinkInv, NEW size \in LineSize, WriteLine(size) PROVE SinkInv'
<1>1. /\ stage = "ready" /\ stage' \in {"rotate", "append"}
      /\ lineSize' = Append(lineSize, size)
      /\ UNCHANGED <<files, late, shifting, failed, exits>>
  BY DEF WriteLine
<1>2. /\ SinkTypes /\ InOrder(files) /\ PlaceIsFree /\ NewestAreThere /\ NoOtherGap
  BY DEF SinkInv
<1>3. lineSize' \in Seq(LineSize) /\ Len(lineSize') = Len(lineSize) + 1 /\ lineSize' # << >>
  BY <1>1, <1>2 DEF SinkTypes
<1>4. Written' = Written
  BY <1>1, <1>2, <1>3, LinesAre DEF Written
<1>5. InOrder(files)' /\ NewestAreThere' /\ AllLines' = AllLines
  BY <1>1, <1>2, <1>4, SameFiles
<1>6. SinkTypes'
  <2>1. \A i \in DOMAIN files' : files'[i] \in Seq(1 .. Written')
    BY <1>1, <1>2, <1>4 DEF SinkTypes
  <2> HIDE DEF Written
  <2> QED
    BY <1>1, <1>2, <1>3, <2>1 DEF SinkTypes
<1>7. PlaceIsFree'
  BY <1>1 DEF PlaceIsFree
<1>8. NoOtherGap'
  <2>1. Hole' = Hole
    BY <1>1 DEF Hole
  <2> HIDE DEF Hole, Written, AllLines
  <2> QED
    BY <1>1, <1>2, <1>4, <1>5, <2>1 DEF NoOtherGap
<1> QED
  BY <1>5, <1>6, <1>7, <1>8 DEF SinkInv

\* The deletion of the oldest copy.
LEMMA RemovedIs ==
  ASSUME NEW i, files' = Removed(files, i)
  PROVE  /\ DOMAIN files' = DOMAIN files \ {i}
         /\ \A k \in DOMAIN files' : files'[k] = files[k]
         /\ InOrder(files) => InOrder(files')
         /\ LinesOf(files') \subseteq LinesOf(files)
         /\ i \notin DOMAIN files => LinesOf(files') = LinesOf(files)
         /\ \A n \in LinesOf(files') : \E g \in DOMAIN files \ {i} : n \in Range(files[g])
         /\ \A m \in LinesOf(files) \ LinesOf(files') : i \in DOMAIN files /\ m \in Range(files[i])
<1>1. DOMAIN files' = DOMAIN files \ {i} /\ \A k \in DOMAIN files' : files'[k] = files[k]
  BY DEF Removed
<1>2. \A n \in LinesOf(files') : \E g \in DOMAIN files \ {i} : n \in Range(files[g])
  BY <1>1 DEF LinesOf
<1>3. \A g \in DOMAIN files \ {i} : \A n \in Range(files[g]) : n \in LinesOf(files')
  <2> SUFFICES ASSUME NEW g \in DOMAIN files \ {i}, NEW n \in Range(files[g])
               PROVE  n \in LinesOf(files')
    OBVIOUS
  <2>1. g \in DOMAIN files' /\ n \in Range(files'[g])
    BY <1>1
  <2> QED
    BY <2>1 DEF LinesOf
<1>4. \A m \in LinesOf(files) : \E g \in DOMAIN files : m \in Range(files[g])
  BY DEF LinesOf
<1>5. LinesOf(files') \subseteq LinesOf(files)
  BY <1>2 DEF LinesOf
<1>6. \A m \in LinesOf(files) \ LinesOf(files') : i \in DOMAIN files /\ m \in Range(files[i])
  BY <1>3, <1>4
<1>7. InOrder(files) => InOrder(files')
  BY <1>1 DEF InOrder
<1> QED
  BY <1>1, <1>2, <1>5, <1>6, <1>7

\* Where a step takes lines away, they were in one file, and while no shift has
\* failed this is the oldest copy: the newest lines are there still.
LEMMA OnlyTheOldestGo ==
  ASSUME SinkTypes, InOrder(files), NewestAreThere,
         NEW i, "shift" \notin failed /\ i \in DOMAIN files => i = MaxFiles,
         LinesOf(files') \subseteq LinesOf(files),
         \A n \in LinesOf(files') : \E g \in DOMAIN files \ {i} : n \in Range(files[g]),
         \A m \in LinesOf(files) \ LinesOf(files') : i \in DOMAIN files /\ m \in Range(files[i]),
         Written' = Written, late' = late, "shift" \notin failed' => "shift" \notin failed
  PROVE  NewestAreThere'
<1> SUFFICES ASSUME "shift" \notin failed'
             PROVE  \A n \in AllLines' : n .. Written \subseteq AllLines' \cup late
  BY DEF NewestAreThere
<1>1. AllLines = LinesOf(files) /\ AllLines \subseteq Int /\ Written \in Int
  BY LinesAre
<1>2. AllLines' = LinesOf(files')
  BY DEF AllLines, LinesOf
<1>3. \A n \in AllLines : n .. Written \subseteq AllLines \cup late
  BY DEF NewestAreThere
<1>4. \A m \in AllLines \ AllLines' : \A n \in AllLines' : m < n
  <2> SUFFICES ASSUME NEW m \in AllLines \ AllLines', NEW n \in AllLines' PROVE m < n
    OBVIOUS
  <2>1. i \in DOMAIN files /\ m \in Range(files[i]) /\ i = MaxFiles
    BY <1>1, <1>2
  <2>2. PICK g \in DOMAIN files \ {i} : n \in Range(files[g])
    BY <1>2
  <2> QED
    BY <2>1, <2>2, OldestFirst
<1>5. AllLines' \subseteq AllLines
  BY <1>1, <1>2
<1> HIDE DEF Written, AllLines, LinesOf
<1> QED
  BY <1>1, <1>3, <1>4, <1>5, OldestGo

\* The types of the files that a step keeps or moves.
LEMMA MovedFiles ==
  ASSUME SinkTypes, Written' = Written, DOMAIN files' \subseteq 0 .. MaxFiles,
         \A k \in DOMAIN files' : \E g \in DOMAIN files : files'[k] = files[g]
  PROVE  \A i \in DOMAIN files' : files'[i] \in Seq(1 .. Written')
<1> HIDE DEF Written
<1> QED
  BY DEF SinkTypes

LEMMA UnlinkOldestKeeps ==
  ASSUME SinkInv, UnlinkOldest PROVE SinkInv'
<1>1. /\ stage = "rotate" /\ stage' = "shift" /\ shifting' = MaxFiles - 1
      /\ UNCHANGED <<lineSize, late, exits>>
      /\ "shift" \notin failed' => "shift" \notin failed
  BY DEF UnlinkOldest, FirstShift, Succeeds, Fails
<1>2. /\ SinkTypes /\ InOrder(files) /\ PlaceIsFree /\ NewestAreThere /\ NoOtherGap
  BY DEF SinkInv
<1>3. MaxFiles \in Nat /\ MaxFiles > 0 /\ MaxFiles - 1 \in 0 .. MaxFiles /\ MaxFiles - 1 < MaxFiles
      /\ MaxFiles - 1 + 1 = MaxFiles
  BY <1>2, LinesAre
<1>4. Written' = Written
  BY <1>1 DEF Written
<1>5. Hole = -1 /\ Hole' = MaxFiles
  BY <1>1, <1>3 DEF Hole
<1>6. PlaceIsFree'
  BY <1>1, <1>3 DEF PlaceIsFree
<1>7. ASSUME files' = files, failed' # {} PROVE SinkInv'
  <2>1. InOrder(files)' /\ NewestAreThere'
    BY <1>1, <1>2, <1>4, <1>7, SameFiles
  <2>2. SinkTypes'
    <3>1. \A i \in DOMAIN files' : files'[i] \in Seq(1 .. Written')
      BY <1>2, <1>4, <1>7 DEF SinkTypes
    <3> HIDE DEF Written
    <3> QED
      BY <1>1, <1>2, <1>3, <1>7, <3>1 DEF SinkTypes
  <2>3. NoOtherGap'
    BY <1>7 DEF NoOtherGap
  <2> QED
    BY <1>6, <2>1, <2>2, <2>3 DEF SinkInv
<1>8. ASSUME files' = Removed(files, MaxFiles), failed' = failed PROVE SinkInv'
  <2>1. /\ DOMAIN files' = DOMAIN files \ {MaxFiles}
        /\ \A k \in DOMAIN files' : files'[k] = files[k]
        /\ InOrder(files')
        /\ LinesOf(files') \subseteq LinesOf(files)
        /\ MaxFiles \notin DOMAIN files => LinesOf(files') = LinesOf(files)
        /\ \A n \in LinesOf(files') : \E g \in DOMAIN files \ {MaxFiles} : n \in Range(files[g])
        /\ \A m \in LinesOf(files) \ LinesOf(files') :
             MaxFiles \in DOMAIN files /\ m \in Range(files[MaxFiles])
    BY <1>2, <1>8, RemovedIs
  <2>2. NewestAreThere'
    BY <1>1, <1>2, <1>4, <2>1, OnlyTheOldestGo
  <2>3. InOrder(files)'
    BY <2>1 DEF InOrder
  <2>4. SinkTypes'
    <3>1. DOMAIN files' \subseteq 0 .. MaxFiles
      BY <1>2, <2>1 DEF SinkTypes
    <3>2. \A i \in DOMAIN files' : files'[i] \in Seq(1 .. Written')
      BY <1>2, <1>4, <2>1, <3>1, MovedFiles
    <3> HIDE DEF Written
    <3> QED
      BY <1>1, <1>2, <1>3, <3>1, <3>2 DEF SinkTypes
  <2>5. NoOtherGap'
    <3> SUFFICES ASSUME failed = {}, exits = 0
                 PROVE  /\ MaxFiles \notin DOMAIN files'
                        /\ \A i \in DOMAIN files' : \A j \in 0 .. i : j \in DOMAIN files' \/ j = MaxFiles
                        /\ AllLines' # 1 .. Written =>
                             \A j \in 0 .. MaxFiles : j \in DOMAIN files' \/ j = MaxFiles
      BY <1>1, <1>4, <1>5, <1>8 DEF NoOtherGap
    <3>1. /\ \A i \in DOMAIN files : \A j \in 0 .. i : j \in DOMAIN files \/ j = -1
          /\ AllLines # 1 .. Written => \A j \in 0 .. MaxFiles : j \in DOMAIN files \/ j = -1
      BY <1>2, <1>5 DEF NoOtherGap
    <3>2. \A j \in Nat : j # -1
      OBVIOUS
    <3>3. \A i \in DOMAIN files : i \in Nat /\ \A j \in 0 .. i : j \in Nat
      BY <1>2, LinesAre
    <3>4. \A i \in DOMAIN files : \A j \in 0 .. i : j \in DOMAIN files
      BY <3>1, <3>2, <3>3
    <3>5. ASSUME AllLines' # 1 .. Written
          PROVE  \A j \in 0 .. MaxFiles : j \in DOMAIN files
      <4>1. CASE MaxFiles \in DOMAIN files
        BY <3>4, <4>1
      <4>2. CASE MaxFiles \notin DOMAIN files
        <5>1. AllLines' = AllLines
          BY <2>1, <4>2 DEF AllLines, LinesOf
        <5> QED
          BY <1>3, <3>1, <3>5, <5>1
      <4> QED
        BY <4>1, <4>2
    <3> QED
      BY <2>1, <3>4, <3>5
  <2> QED
    BY <1>6, <2>2, <2>3, <2>4, <2>5 DEF SinkInv
<1> QED
  BY <1>7, <1>8 DEF UnlinkOldest, Oldest, Succeeds, Fails

\* A file moves up in rotate(), and leaves its place free.
LEMMA MoveKeeps ==
  ASSUME SinkInv, NEW i \in DOMAIN files, i < MaxFiles, files' = Replaced(files, i, i + 1),
         Written' = Written, late' = late, failed' = failed, exits' = exits,
         "shift" \notin failed /\ i + 1 \in DOMAIN files => i + 1 = MaxFiles,
         Hole = i + 1, Hole' = i
  PROVE  /\ DOMAIN files' \subseteq 0 .. MaxFiles /\ i \notin DOMAIN files'
         /\ \A k \in DOMAIN files' : files'[k] \in Seq(1 .. Written')
         /\ InOrder(files)' /\ NewestAreThere' /\ NoOtherGap'
<1>1. SinkTypes /\ InOrder(files) /\ NewestAreThere /\ NoOtherGap
  BY DEF SinkInv
<1>2. DOMAIN files \subseteq Nat /\ i \in Nat /\ MaxFiles \in Nat /\ i + 1 # i
      /\ i + 1 \in 0 .. MaxFiles
  BY <1>1, LinesAre
<1>3. /\ DOMAIN files' = (DOMAIN files \ {i}) \cup {i + 1}
      /\ \A k \in DOMAIN files' : \E g \in DOMAIN files : files'[k] = files[g]
      /\ InOrder(files') /\ LinesOf(files') \subseteq LinesOf(files)
      /\ i + 1 \notin DOMAIN files => LinesOf(files') = LinesOf(files)
      /\ \A n \in LinesOf(files') : \E g \in DOMAIN files \ {i + 1} : n \in Range(files[g])
      /\ \A m \in LinesOf(files) \ LinesOf(files') :
           i + 1 \in DOMAIN files /\ m \in Range(files[i + 1])
  BY <1>1, <1>2, ReplacedIs
<1>4. DOMAIN files' \subseteq 0 .. MaxFiles /\ i \notin DOMAIN files'
  BY <1>1, <1>2, <1>3 DEF SinkTypes
<1>5. \A k \in DOMAIN files' : files'[k] \in Seq(1 .. Written')
  BY <1>1, <1>3, <1>4, MovedFiles
<1>6. NewestAreThere'
  BY <1>1, <1>3, OnlyTheOldestGo
<1>7. InOrder(files)'
  BY <1>3 DEF InOrder
<1>8. NoOtherGap'
  <2> HIDE DEF Hole, Written
  <2> SUFFICES ASSUME failed = {}, exits = 0
               PROVE  /\ i \notin DOMAIN files'
                      /\ \A g \in DOMAIN files' : \A j \in 0 .. g : j \in DOMAIN files' \/ j = i
                      /\ AllLines' # 1 .. Written =>
                           \A j \in 0 .. MaxFiles : j \in DOMAIN files' \/ j = i
    BY DEF NoOtherGap
  <2>1. /\ i + 1 \notin DOMAIN files
        /\ \A g \in DOMAIN files : \A j \in 0 .. g : j \in DOMAIN files \/ j = i + 1
        /\ AllLines # 1 .. Written =>
             \A j \in 0 .. MaxFiles : j \in DOMAIN files \/ j = i + 1
    BY <1>1 DEF NoOtherGap
  <2>2. AllLines' = AllLines
    BY <1>3, <2>1 DEF AllLines, LinesOf
  <2>3. \A g \in DOMAIN files' : \A j \in 0 .. g : j \in DOMAIN files' \/ j = i
    <3> SUFFICES ASSUME NEW g \in DOMAIN files', NEW j \in 0 .. g, j # i
                 PROVE  j \in DOMAIN files'
      OBVIOUS
    <3>1. CASE g = i + 1
      <4>1. j = i + 1 \/ j \in 0 .. i
        BY <1>2, <3>1
      <4> QED
        BY <1>3, <2>1, <4>1
    <3>2. CASE g # i + 1
      <4>1. g \in DOMAIN files
        BY <1>3, <3>2
      <4> QED
        BY <1>3, <2>1, <4>1
    <3> QED
      BY <3>1, <3>2
  <2> QED
    BY <1>3, <1>4, <2>1, <2>2, <2>3
<1> QED
  BY <1>4, <1>5, <1>6, <1>7, <1>8

LEMMA ShiftCopyKeeps ==
  ASSUME SinkInv, ShiftCopy PROVE SinkInv'
<1>1. /\ stage = "shift" /\ stage' = "shift" /\ shifting > 0 /\ shifting' = shifting - 1
      /\ UNCHANGED <<lineSize, late, exits>>
  BY DEF ShiftCopy
<1>2. /\ SinkTypes /\ InOrder(files) /\ PlaceIsFree /\ NewestAreThere /\ NoOtherGap
  BY DEF SinkInv
<1>3. /\ MaxFiles \in Nat /\ DOMAIN files \subseteq Nat /\ shifting \in Nat
      /\ shifting < MaxFiles
  BY <1>1, <1>2, LinesAre DEF SinkTypes
<1>4. Written' = Written
  BY <1>1 DEF Written
<1>5. Hole = shifting + 1 /\ Hole' = shifting /\ shifting' + 1 = shifting
  BY <1>1, <1>3 DEF Hole
<1>6. shifting' \in 0 .. MaxFiles /\ shifting' < MaxFiles
  BY <1>1, <1>3
<1>7. ASSUME DOMAIN files' \subseteq 0 .. MaxFiles,
             \A k \in DOMAIN files' : files'[k] \in Seq(1 .. Written')
      PROVE  SinkTypes'
  <2> HIDE DEF Written
  <2> QED
    BY <1>1, <1>2, <1>6, <1>7 DEF SinkTypes
<1>8. ASSUME files' = files, "shift" \in failed' \/ (failed' = failed /\ shifting \notin DOMAIN files)
      PROVE  SinkInv'
  <2>1. "shift" \notin failed' => "shift" \notin failed
    BY <1>8
  <2>2. InOrder(files)' /\ NewestAreThere' /\ AllLines' = AllLines
    BY <1>1, <1>2, <1>4, <1>8, <2>1, SameFiles
  <2>3. SinkTypes'
    <3>1. DOMAIN files' \subseteq 0 .. MaxFiles
      BY <1>2, <1>8 DEF SinkTypes
    <3>2. \A k \in DOMAIN files' : files'[k] \in Seq(1 .. Written')
      BY <1>2, <1>4, <1>8 DEF SinkTypes
    <3> QED
      BY <1>7, <3>1, <3>2
  <2>4. PlaceIsFree'
    BY <1>5, <1>8 DEF PlaceIsFree
  <2>5. NoOtherGap'
    <3> HIDE DEF Hole, Written, AllLines
    <3> SUFFICES ASSUME failed' = {}, exits = 0
                 PROVE  /\ shifting \notin DOMAIN files
                        /\ \A g \in DOMAIN files : \A j \in 0 .. g : j \in DOMAIN files \/ j = shifting
                        /\ AllLines # 1 .. Written =>
                             \A j \in 0 .. MaxFiles : j \in DOMAIN files \/ j = shifting
      BY <1>1, <1>4, <1>5, <1>8, <2>2 DEF NoOtherGap
    <3>1. failed = {} /\ shifting \notin DOMAIN files
      BY <1>8
    <3>2. /\ \A g \in DOMAIN files : \A j \in 0 .. g : j \in DOMAIN files \/ j = shifting + 1
          /\ AllLines # 1 .. Written =>
               \A j \in 0 .. MaxFiles : j \in DOMAIN files \/ j = shifting + 1
      BY <1>2, <1>5, <3>1 DEF NoOtherGap
    <3>3. shifting # shifting + 1 /\ shifting \in 0 .. MaxFiles
      BY <1>3
    <3>4. AllLines = 1 .. Written
      BY <3>1, <3>2, <3>3
    <3>5. ASSUME NEW g \in DOMAIN files, NEW j \in 0 .. g, j # shifting
          PROVE  j \in DOMAIN files
      <4>1. CASE j # shifting + 1
        BY <3>2, <4>1
      <4>2. CASE j = shifting + 1
        <5>1. shifting \in 0 .. g
          BY <1>3, <4>2
        <5> QED
          BY <3>1, <3>2, <3>3, <5>1
      <4> QED
        BY <4>1, <4>2
    <3> QED
      BY <3>1, <3>4, <3>5
  <2> QED
    BY <2>2, <2>3, <2>4, <2>5 DEF SinkInv
<1>9. ASSUME shifting \in DOMAIN files, files' = Replaced(files, shifting, shifting + 1),
             failed' = failed
      PROVE  SinkInv'
  <2>1. "shift" \notin failed /\ shifting + 1 \in DOMAIN files => shifting + 1 = MaxFiles
    BY <1>1, <1>2 DEF PlaceIsFree
  <2>2. exits' = exits /\ late' = late
    BY <1>1
  <2>3. /\ DOMAIN files' \subseteq 0 .. MaxFiles /\ shifting \notin DOMAIN files'
        /\ \A k \in DOMAIN files' : files'[k] \in Seq(1 .. Written')
        /\ InOrder(files)' /\ NewestAreThere' /\ NoOtherGap'
    BY <1>3, <1>4, <1>5, <1>9, <2>1, <2>2, MoveKeeps
  <2>4. SinkTypes'
    BY <1>7, <2>3
  <2>5. PlaceIsFree'
    BY <1>5, <2>3 DEF PlaceIsFree
  <2> QED
    BY <2>3, <2>4, <2>5 DEF SinkInv
<1>10. \/ shifting \in DOMAIN files /\ files' = Replaced(files, shifting, shifting + 1)
          /\ failed' = failed
       \/ shifting \notin DOMAIN files /\ files' = files /\ failed' = failed
       \/ files' = files /\ "shift" \in failed'
  BY DEF ShiftCopy, Succeeds, Fails
<1> QED
  BY <1>8, <1>9, <1>10

LEMMA RenameFileKeeps ==
  ASSUME SinkInv, RenameFile PROVE SinkInv'
<1>1. /\ stage = "shift" /\ stage' = "open" /\ shifting = 0 /\ shifting' = 0
      /\ UNCHANGED <<lineSize, late, exits>>
      /\ "shift" \notin failed' => "shift" \notin failed
  BY DEF RenameFile, Succeeds, Fails
<1>2. /\ SinkTypes /\ InOrder(files) /\ PlaceIsFree /\ NewestAreThere /\ NoOtherGap
  BY DEF SinkInv
<1>3. MaxFiles \in Nat /\ MaxFiles > 0 /\ 0 \in 0 .. MaxFiles
  BY <1>2, LinesAre
<1>4. Written' = Written
  BY <1>1 DEF Written
<1>5. Hole = 0 + 1 /\ Hole' = 0
  BY <1>1, <1>3 DEF Hole
<1>6. PlaceIsFree'
  BY <1>1 DEF PlaceIsFree
<1>7. ASSUME DOMAIN files' \subseteq 0 .. MaxFiles,
             \A k \in DOMAIN files' : files'[k] \in Seq(1 .. Written')
      PROVE  SinkTypes'
  <2> HIDE DEF Written
  <2> QED
    BY <1>1, <1>2, <1>3, <1>7 DEF SinkTypes
<1>8. ASSUME files' = files, failed' # {} PROVE SinkInv'
  <2>1. InOrder(files)' /\ NewestAreThere'
    BY <1>1, <1>2, <1>4, <1>8, SameFiles
  <2>2. DOMAIN files' \subseteq 0 .. MaxFiles
    BY <1>2, <1>8 DEF SinkTypes
  <2>3. \A k \in DOMAIN files' : files'[k] \in Seq(1 .. Written')
    BY <1>2, <1>4, <1>8 DEF SinkTypes
  <2>4. NoOtherGap'
    BY <1>8 DEF NoOtherGap
  <2> QED
    BY <1>6, <1>7, <2>1, <2>2, <2>3, <2>4 DEF SinkInv
<1>9. ASSUME 0 \in DOMAIN files, files' = Replaced(files, 0, 0 + 1), failed' = failed
      PROVE  SinkInv'
  <2>1. "shift" \notin failed /\ 0 + 1 \in DOMAIN files => 0 + 1 = MaxFiles
    BY <1>1, <1>2 DEF PlaceIsFree
  <2>2. exits' = exits /\ late' = late
    BY <1>1
  <2>3. /\ DOMAIN files' \subseteq 0 .. MaxFiles
        /\ \A k \in DOMAIN files' : files'[k] \in Seq(1 .. Written')
        /\ InOrder(files)' /\ NewestAreThere' /\ NoOtherGap'
    BY <1>3, <1>4, <1>5, <1>9, <2>1, <2>2, MoveKeeps
  <2> QED
    BY <1>6, <1>7, <2>3 DEF SinkInv
<1>10. \/ 0 \in DOMAIN files /\ files' = Replaced(files, 0, 1) /\ failed' = failed
       \/ files' = files /\ failed' # {}
  BY DEF RenameFile, Succeeds, Fails
<1>11. 0 + 1 = 1
  OBVIOUS
<1> QED
  BY <1>8, <1>9, <1>10, <1>11

\* open(path, "a"), in rotate() and when a process starts.
LEMMA OpenKeeps ==
  ASSUME SinkInv, files' = WithFile(files), Written' = Written, late' = late, failed' = failed
  PROVE  /\ DOMAIN files' \subseteq 0 .. MaxFiles /\ 0 \in DOMAIN files'
         /\ \A k \in DOMAIN files' : files'[k] \in Seq(1 .. Written')
         /\ InOrder(files)' /\ NewestAreThere' /\ AllLines' = AllLines
<1>1. SinkTypes /\ InOrder(files) /\ NewestAreThere
  BY DEF SinkInv
<1>2. MaxFiles \in Nat
  BY <1>1, LinesAre
<1>3. /\ DOMAIN files' = DOMAIN files \cup {0}
      /\ \A k \in DOMAIN files : files'[k] = files[k]
      /\ 0 \notin DOMAIN files => files'[0] = << >>
      /\ LinesOf(files') = LinesOf(files)
      /\ InOrder(files')
  BY <1>1, WithFileIs
<1>4. DOMAIN files' \subseteq 0 .. MaxFiles /\ 0 \in DOMAIN files'
  BY <1>1, <1>2, <1>3 DEF SinkTypes
<1>5. \A k \in DOMAIN files' : files'[k] \in Seq(1 .. Written')
  <2> HIDE DEF Written
  <2>1. << >> \in Seq(1 .. Written)
    OBVIOUS
  <2>2. \A k \in DOMAIN files : files[k] \in Seq(1 .. Written)
    BY <1>1 DEF SinkTypes
  <2>3. \A k \in DOMAIN files' : files'[k] = << >> \/ (k \in DOMAIN files /\ files'[k] = files[k])
    BY <1>3
  <2> QED
    BY <2>1, <2>2, <2>3
<1>6. AllLines' = AllLines
  BY <1>3 DEF AllLines, LinesOf
<1>7. NewestAreThere'
  <2> HIDE DEF Written, AllLines
  <2> QED
    BY <1>1, <1>6 DEF NewestAreThere
<1>8. InOrder(files)'
  BY <1>3 DEF InOrder
<1> QED
  BY <1>4, <1>5, <1>6, <1>7, <1>8

LEMMA OpenFileKeeps ==
  ASSUME SinkInv, OpenFile PROVE SinkInv'
<1>1. /\ stage = "open" /\ stage' = "append" /\ files' = WithFile(files)
      /\ UNCHANGED <<lineSize, late, shifting, failed, exits>>
  BY DEF OpenFile
<1>2. SinkTypes /\ NoOtherGap
  BY DEF SinkInv
<1>3. Written' = Written
  BY <1>1 DEF Written
<1>4. /\ DOMAIN files' \subseteq 0 .. MaxFiles /\ 0 \in DOMAIN files'
      /\ \A k \in DOMAIN files' : files'[k] \in Seq(1 .. Written')
      /\ InOrder(files)' /\ NewestAreThere' /\ AllLines' = AllLines
  BY <1>1, <1>3, OpenKeeps
<1>5. SinkTypes'
  <2> HIDE DEF Written
  <2> QED
    BY <1>1, <1>2, <1>4 DEF SinkTypes
<1>6. PlaceIsFree'
  BY <1>1 DEF PlaceIsFree
<1>7. NoOtherGap'
  <2> HIDE DEF Written, AllLines
  <2>1. Hole = 0 /\ Hole' = -1
    BY <1>1 DEF Hole
  <2>2. DOMAIN files' = DOMAIN files \cup {0} /\ -1 \notin DOMAIN files'
    <3>1. DOMAIN files' = DOMAIN files \cup {0}
      BY <1>1 DEF WithFile
    <3> QED
      BY <1>4, <3>1
  <2> SUFFICES ASSUME failed = {}, exits = 0
               PROVE  /\ \A i \in DOMAIN files' : \A j \in 0 .. i : j \in DOMAIN files'
                      /\ AllLines # 1 .. Written => \A j \in 0 .. MaxFiles : j \in DOMAIN files'
    BY <1>1, <1>3, <1>4, <2>1, <2>2 DEF NoOtherGap
  <2>3. /\ \A i \in DOMAIN files : \A j \in 0 .. i : j \in DOMAIN files \/ j = 0
        /\ AllLines # 1 .. Written => \A j \in 0 .. MaxFiles : j \in DOMAIN files \/ j = 0
    BY <1>2, <2>1 DEF NoOtherGap
  <2>4. \A j \in 0 .. 0 : j = 0
    OBVIOUS
  <2> QED
    BY <2>2, <2>3, <2>4
<1> QED
  BY <1>4, <1>5, <1>6, <1>7 DEF SinkInv

\* A line in hand when the process ends was never written.
LEMMA ExitWrites ==
  ASSUME SinkInv, ExitAndOpen
  PROVE  /\ Written' = Written /\ lineSize' \in Seq(LineSize)
         /\ \A l \in 1 .. Written : lineSize'[l] = lineSize[l]
<1>1. /\ stage' = "ready" /\ SinkTypes
      /\ lineSize' = IF stage = "ready" THEN lineSize ELSE Front(lineSize)
  BY DEF ExitAndOpen, SinkInv
<1>2. SinkTypes
  BY <1>1
<1>3. Len(lineSize) \in Nat
  BY <1>2, LinesAre
<1>4. /\ lineSize' \in Seq(LineSize)
      /\ Len(lineSize') = IF stage = "ready" THEN Len(lineSize) ELSE Len(lineSize) - 1
  <2>1. CASE stage = "ready"
    BY <1>1, <1>2, <2>1 DEF SinkTypes
  <2>2. CASE stage # "ready"
    <3>1. lineSize \in Seq(LineSize) /\ lineSize # << >>
      BY <1>2, <2>2 DEF SinkTypes
    <3>2. Len(lineSize) > 0
      BY <3>1
    <3>3. lineSize' = SubSeq(lineSize, 1, Len(lineSize) - 1)
      BY <1>1, <2>2 DEF Front
    <3>4. /\ Len(lineSize) \in Nat \ {0} /\ 1 .. Len(lineSize) - 1 \subseteq 1 .. Len(lineSize)
          /\ \A l \in Nat \ {0} : (IF 1 <= l - 1 THEN l - 1 - 1 + 1 ELSE 0) = l - 1
      BY <3>1, <3>2
    <3>5. lineSize' \in Seq(LineSize) /\ Len(lineSize') = Len(lineSize) - 1
      <4>1. \A i \in 1 .. Len(lineSize) - 1 : lineSize[i] \in LineSize
        BY <3>1, <3>4
      <4>2. 1 \in Int /\ Len(lineSize) - 1 \in Int
        BY <3>4
      <4>3. /\ SubSeq(lineSize, 1, Len(lineSize) - 1) \in Seq(LineSize)
            /\ Len(SubSeq(lineSize, 1, Len(lineSize) - 1)) =
                 IF 1 <= Len(lineSize) - 1 THEN Len(lineSize) - 1 - 1 + 1 ELSE 0
        BY <4>1, <4>2, SubSeqProperties
      <4>4. (IF 1 <= Len(lineSize) - 1 THEN Len(lineSize) - 1 - 1 + 1 ELSE 0) = Len(lineSize) - 1
        BY <3>4
      <4> QED
        BY ONLY <3>3, <4>3, <4>4
    <3> QED
      BY <2>2, <3>5
  <2> QED
    BY <2>1, <2>2
<1>5. Written' = Written
  BY <1>1, <1>4 DEF Written
<1>6. \A l \in 1 .. Written : lineSize'[l] = lineSize[l]
  <2>1. CASE stage = "ready"
    BY <1>1, <2>1
  <2>2. CASE stage # "ready"
    <3>1. lineSize' = SubSeq(lineSize, 1, Len(lineSize) - 1) /\ Written = Len(lineSize) - 1
      BY <1>1, <2>2 DEF Front, Written
    <3>2. Len(lineSize) \in Nat /\ lineSize \in Seq(LineSize)
      BY <1>2, LinesAre DEF SinkTypes
    <3>3. /\ 1 \in Int /\ Len(lineSize) - 1 \in Int
          /\ \A l \in 1 .. Len(lineSize) - 1 : lineSize[l] \in LineSize
      BY <3>2
    <3>4. \A l \in 1 .. Len(lineSize) - 1 - 1 + 1 :
            SubSeq(lineSize, 1, Len(lineSize) - 1)[l] = lineSize[1 + l - 1]
      BY <3>3, SubSeqProperties
    <3>5. Len(lineSize) - 1 - 1 + 1 = Len(lineSize) - 1
      BY <3>2
    <3>6. \A l \in 1 .. Len(lineSize) - 1 : 1 + l - 1 = l
      OBVIOUS
    <3> QED
      BY <3>1, <3>4, <3>5, <3>6
  <2> QED
    BY <2>1, <2>2
<1> QED
  BY <1>4, <1>5, <1>6

LEMMA ExitAndOpenKeeps ==
  ASSUME SinkInv, ExitAndOpen PROVE SinkInv'
<1>1. /\ stage' = "ready" /\ files' = WithFile(files) /\ shifting' = 0
      /\ lineSize' = IF stage = "ready" THEN lineSize ELSE Front(lineSize)
      /\ late' = late /\ failed' = failed /\ exits < MaxExit /\ exits' = exits + 1
  BY DEF ExitAndOpen
<1>2. SinkTypes
  BY DEF SinkInv
<1>3. MaxFiles \in Nat /\ Len(lineSize) \in Nat
  BY <1>2, LinesAre
<1>4. Written' = Written /\ lineSize' \in Seq(LineSize)
  BY ExitWrites
<1>6. /\ DOMAIN files' \subseteq 0 .. MaxFiles /\ 0 \in DOMAIN files'
      /\ \A k \in DOMAIN files' : files'[k] \in Seq(1 .. Written')
      /\ InOrder(files)' /\ NewestAreThere'
  BY <1>1, <1>4, OpenKeeps
<1>7. SinkTypes'
  <2> HIDE DEF Written
  <2>1. 0 \in 0 .. MaxFiles
    BY <1>3
  <2>2. exits' \in Nat
    BY <1>1, <1>2 DEF SinkTypes
  <2> QED
    BY <1>1, <1>4, <1>6, <2>1, <2>2 DEF SinkTypes
<1>8. PlaceIsFree'
  BY <1>1 DEF PlaceIsFree
<1>9. NoOtherGap'
  <2>1. exits \in Nat
    BY <1>2 DEF SinkTypes
  <2>2. exits' # 0
    BY <1>1, <2>1
  <2> QED
    BY <2>2 DEF NoOtherGap
<1> QED
  BY <1>6, <1>7, <1>8, <1>9 DEF SinkInv

\* A line that comes after all others becomes the last of the file that is written.
LEMMA AppendedIs ==
  ASSUME SinkTypes, InOrder(files), 0 \in DOMAIN files, NEW w \in Nat, Written <= w,
         NEW n \in 1 .. w, \A m \in AllLines : m < n,
         files' = [files EXCEPT ![0] = Append(@, n)]
  PROVE  /\ DOMAIN files' = DOMAIN files /\ files'[0] = Append(files[0], n)
         /\ \A k \in DOMAIN files : k # 0 => files'[k] = files[k]
         /\ \A k \in DOMAIN files : files'[k] \in Seq(1 .. w)
         /\ InOrder(files') /\ AllLines' = AllLines \cup {n}
<1>1. Written \in Nat /\ \A k \in DOMAIN files : files[k] \in Seq(1 .. Written)
  BY LinesAre DEF SinkTypes
<1> HIDE DEF Written
<1>2. /\ DOMAIN files' = DOMAIN files /\ files'[0] = Append(files[0], n)
      /\ \A k \in DOMAIN files : k # 0 => files'[k] = files[k]
  OBVIOUS
<1>3. 1 .. Written \subseteq 1 .. w
  BY <1>1
<1>4. \A k \in DOMAIN files : files[k] \in Seq(1 .. w)
  BY <1>1, <1>3, ElementsOf
<1>5. \A k \in DOMAIN files' : files'[k] \in Seq(1 .. w)
  <2>1. Append(files[0], n) \in Seq(1 .. w)
    BY <1>4
  <2> QED
    BY <1>2, <1>4, <2>1
\* The new line at its place, all others where they were.
<1>6. \A k \in DOMAIN files' : \A p \in DOMAIN files'[k] :
        \/ k = 0 /\ p = Len(files[0]) + 1 /\ files'[k][p] = n
        \/ k \in DOMAIN files /\ p \in DOMAIN files[k] /\ files'[k][p] = files[k][p]
  <2> SUFFICES ASSUME NEW k \in DOMAIN files, NEW p \in DOMAIN files'[k]
               PROVE  \/ k = 0 /\ p = Len(files[0]) + 1 /\ files'[k][p] = n
                      \/ p \in DOMAIN files[k] /\ files'[k][p] = files[k][p]
    BY <1>2
  <2>1. CASE k = 0
    BY <1>4, <1>2, <2>1
  <2>2. CASE k # 0
    BY <1>2, <2>2
  <2> QED
    BY <2>1, <2>2
<1>7. \A k \in DOMAIN files : \A p \in DOMAIN files[k] :
        p \in DOMAIN files'[k] /\ files'[k][p] = files[k][p]
  <2> SUFFICES ASSUME NEW k \in DOMAIN files, NEW p \in DOMAIN files[k]
               PROVE  p \in DOMAIN files'[k] /\ files'[k][p] = files[k][p]
    OBVIOUS
  <2>1. CASE k = 0
    BY <1>4, <1>2, <2>1
  <2>2. CASE k # 0
    BY <1>2, <2>2
  <2> QED
    BY <2>1, <2>2
<1>8. \A k \in DOMAIN files : \A p \in DOMAIN files[k] : files[k][p] \in AllLines
  BY DEF AllLines, Range
<1>9. InOrder(files')
  <2> SUFFICES ASSUME NEW i \in DOMAIN files', NEW j \in DOMAIN files',
                      NEW k \in DOMAIN files'[i], NEW l \in DOMAIN files'[j],
                      i > j \/ (i = j /\ k < l)
               PROVE  files'[i][k] < files'[j][l]
    BY DEF InOrder
  <2>1. CASE i = 0 /\ k = Len(files[0]) + 1
    <3>1. i = j /\ k < l
      <4>1. j \in Nat
        BY <1>2, LinesAre
      <4> QED
        BY <2>1, <4>1
    <3>2. l \in DOMAIN files'[0] /\ DOMAIN files'[0] = 1 .. Len(files[0]) + 1 /\ Len(files[0]) \in Nat
      BY <1>4, <1>2, <2>1, <3>1
    <3> QED
      BY <2>1, <3>1, <3>2
  <2>2. CASE ~(i = 0 /\ k = Len(files[0]) + 1)
    <3>1. i \in DOMAIN files /\ k \in DOMAIN files[i] /\ files'[i][k] = files[i][k]
      BY <1>6, <2>2
    <3>2. files[i][k] \in AllLines
      BY <1>8, <3>1
    <3> HIDE DEF AllLines
    <3>3. CASE files'[j][l] = n
      BY <3>1, <3>2, <3>3
    <3>4. CASE j \in DOMAIN files /\ l \in DOMAIN files[j] /\ files'[j][l] = files[j][l]
      BY <3>1, <3>4 DEF InOrder
    <3> QED
      BY <1>6, <3>3, <3>4
  <2> QED
    BY <2>1, <2>2
<1>10. AllLines' = AllLines \cup {n}
  <2>1. AllLines' \subseteq AllLines \cup {n}
    <3> SUFFICES ASSUME NEW k \in DOMAIN files', NEW m \in Range(files'[k])
                 PROVE  m \in AllLines \cup {n}
      BY DEF AllLines
    <3>1. PICK p \in DOMAIN files'[k] : m = files'[k][p]
      BY DEF Range
    <3>2. m = n \/ (k \in DOMAIN files /\ p \in DOMAIN files[k] /\ m = files[k][p])
      BY <1>6, <3>1
    <3> QED
      BY <1>8, <3>2
  <2>2. \A k \in DOMAIN files' : \A p \in DOMAIN files'[k] : files'[k][p] \in AllLines'
    BY DEF AllLines, Range
  <2>3. AllLines \subseteq AllLines'
    <3> SUFFICES ASSUME NEW k \in DOMAIN files, NEW m \in Range(files[k])
                 PROVE  m \in AllLines'
      BY DEF AllLines
    <3>1. PICK p \in DOMAIN files[k] : m = files[k][p]
      BY DEF Range
    <3> QED
      BY <1>2, <1>7, <2>2, <3>1
  <2>4. n \in AllLines'
    <3>1. Len(files[0]) + 1 \in DOMAIN files'[0] /\ files'[0][Len(files[0]) + 1] = n
      BY <1>4, <1>2
    <3> QED
      BY <1>2, <2>2, <3>1
  <2> QED
    BY <2>1, <2>3, <2>4
<1> QED
  BY <1>2, <1>5, <1>9, <1>10

\* The line in hand is the newest.
LEMMA AppendLineKeeps ==
  ASSUME SinkInv, AppendLine PROVE SinkInv'
<1> DEFINE n == Len(lineSize)
<1>1. /\ stage = "append" /\ stage' = "ready"
      /\ files' = [files EXCEPT ![0] = Append(@, n)]
      /\ UNCHANGED <<lineSize, late, shifting, failed, exits>>
  BY DEF AppendLine
<1>2. SinkTypes /\ InOrder(files) /\ NewestAreThere /\ NoOtherGap
  BY DEF SinkInv
<1>3. n \in Nat /\ n > 0 /\ Written = n - 1 /\ Written' = n /\ 0 \in DOMAIN files
  BY <1>1, <1>2, LinesAre DEF Written, SinkTypes
<1> HIDE DEF n
<1>4. AllLines \subseteq 1 .. n - 1
  BY <1>2, <1>3, LinesAre
<1>5. /\ DOMAIN files' = DOMAIN files
      /\ \A k \in DOMAIN files : files'[k] \in Seq(1 .. n)
      /\ InOrder(files') /\ AllLines' = AllLines \cup {n}
  <2>1. Written <= n /\ n \in 1 .. n /\ \A m \in AllLines : m < n
    BY <1>3, <1>4
  <2> HIDE DEF Written, AllLines
  <2> QED
    BY <1>1, <1>2, <1>3, <2>1, AppendedIs
<1>6. SinkTypes'
  <2>1. \A i \in DOMAIN files' : files'[i] \in Seq(1 .. Written')
    BY <1>3, <1>5
  <2> HIDE DEF Written
  <2> QED
    BY <1>1, <1>2, <1>5, <2>1 DEF SinkTypes
<1>7. PlaceIsFree'
  BY <1>1 DEF PlaceIsFree
<1>8. NewestAreThere'
  <2> SUFFICES ASSUME "shift" \notin failed, NEW m \in AllLines'
               PROVE  m .. n \subseteq AllLines' \cup late
    BY <1>1, <1>3 DEF NewestAreThere
  <2>1. CASE m \in AllLines
    <3>1. m .. n - 1 \subseteq AllLines \cup late /\ m \in Int
      BY <1>2, <1>3, <1>4, <2>1 DEF NewestAreThere
    <3>2. \A h \in m .. n : h \in m .. n - 1 \/ h = n
      BY <1>3, <3>1
    <3> HIDE DEF AllLines
    <3> QED
      BY <1>5, <3>1, <3>2
  <2>2. CASE m = n
    <3>1. \A h \in m .. n : h = n
      BY <1>3, <2>2
    <3> HIDE DEF AllLines
    <3> QED
      BY <1>5, <3>1
  <2> HIDE DEF AllLines
  <2> QED
    BY <1>5, <2>1, <2>2
<1>9. NoOtherGap'
  <2>1. Hole = -1 /\ Hole' = -1
    BY <1>1 DEF Hole
  <2>2. ASSUME AllLines = 1 .. Written PROVE AllLines' = 1 .. Written'
    <3>1. 1 .. n = (1 .. n - 1) \cup {n}
      BY <1>3
    <3> HIDE DEF AllLines, Written
    <3> QED
      BY <1>3, <1>5, <2>2, <3>1
  <2> HIDE DEF Hole, AllLines, Written
  <2> QED
    BY <1>1, <1>2, <1>5, <2>1, <2>2 DEF NoOtherGap
<1>10. InOrder(files)'
  BY <1>5 DEF InOrder
<1> QED
  BY <1>6, <1>7, <1>8, <1>9, <1>10 DEF SinkInv

\* The first line of the buffer comes after those of the files.
LEMMA FirstBuffered ==
  ASSUME SinkTypes, Buffered, buffered # << >>
  PROVE  /\ Head(buffered) \in late /\ Head(buffered) \in 1 .. Written
         /\ \A m \in AllLines : m < Head(buffered)
         /\ Head(buffered) .. Written \subseteq late
         /\ Tail(buffered) \in Seq(late)
         /\ \A k \in DOMAIN Tail(buffered) :
              /\ k \in Nat /\ k + 1 \in DOMAIN buffered /\ Tail(buffered)[k] = buffered[k + 1]
              /\ Head(buffered) < Tail(buffered)[k]
<1>1. buffered \in Seq(late) /\ late \subseteq 1 .. Written
  BY DEF Buffered
<1> HIDE DEF Written
<1>2. Head(buffered) = buffered[1] /\ 1 \in DOMAIN buffered /\ Head(buffered) \in late
  BY <1>1
<1>3. Tail(buffered) \in Seq(late)
  BY <1>1
<1>4. \A k \in DOMAIN Tail(buffered) :
        /\ k \in Nat /\ k + 1 \in DOMAIN buffered /\ Tail(buffered)[k] = buffered[k + 1]
        /\ 1 < k + 1
  BY <1>1
<1>5. /\ \A m \in AllLines : m < buffered[1]
      /\ buffered[1] .. Written \subseteq late
      /\ \A l \in DOMAIN buffered : 1 < l => buffered[1] < buffered[l]
  BY <1>2 DEF Buffered
<1> HIDE DEF AllLines
<1> QED
  BY <1>1, <1>2, <1>3, <1>4, <1>5

LEMMA LineOutKeeps ==
  ASSUME SinkInv, Buffered, LineOut PROVE SinkInv' /\ Buffered'
<1> DEFINE h == Head(buffered)
<1>1. /\ stage \in {"ready", "rotate", "append"} /\ buffered # << >>
      /\ files' = [files EXCEPT ![0] = Append(@, h)] /\ buffered' = Tail(buffered)
      /\ UNCHANGED <<lineSize, late, stage, shifting, failed, exits>>
  BY DEF LineOut
<1>2. SinkTypes /\ InOrder(files) /\ NewestAreThere /\ 0 \in DOMAIN files /\ failed # {}
  BY <1>1 DEF SinkInv, SinkTypes, Buffered
<1>3. Written \in Nat /\ AllLines \subseteq Int
  BY <1>2, LinesAre
<1>4. /\ h \in late /\ h \in 1 .. Written
      /\ \A m \in AllLines : m < h
      /\ h .. Written \subseteq late
      /\ Tail(buffered) \in Seq(late)
      /\ \A k \in DOMAIN Tail(buffered) :
           /\ k \in Nat /\ k + 1 \in DOMAIN buffered /\ Tail(buffered)[k] = buffered[k + 1]
           /\ h < Tail(buffered)[k]
  BY <1>1, <1>2, FirstBuffered
<1> HIDE DEF h
<1>5. /\ DOMAIN files' = DOMAIN files
      /\ \A k \in DOMAIN files : files'[k] \in Seq(1 .. Written)
      /\ InOrder(files') /\ AllLines' = AllLines \cup {h}
  <2>1. Written <= Written
    BY <1>3
  <2> HIDE DEF Written, AllLines
  <2> QED
    BY <1>1, <1>2, <1>3, <1>4, <2>1, AppendedIs
<1>6. Written' = Written
  BY <1>1 DEF Written
<1>7. SinkTypes'
  <2> HIDE DEF Written
  <2> QED
    BY <1>1, <1>2, <1>5, <1>6 DEF SinkTypes
<1>8. PlaceIsFree' /\ NoOtherGap' /\ InOrder(files)'
  BY <1>1, <1>2, <1>5 DEF PlaceIsFree, NoOtherGap, InOrder
<1>9. NewestAreThere'
  <2> HIDE DEF Written, AllLines
  <2> QED
    BY <1>1, <1>2, <1>4, <1>5, <1>6 DEF NewestAreThere
<1>10. Buffered'
  <2> SUFFICES ASSUME NEW k \in DOMAIN Tail(buffered)
               PROVE  /\ \A m \in AllLines \cup {h} : m < Tail(buffered)[k]
                      /\ Tail(buffered)[k] .. Written \subseteq late
                      /\ \A l \in DOMAIN Tail(buffered) :
                           k < l => Tail(buffered)[k] < Tail(buffered)[l]
    <3>1. late' \subseteq 1 .. Written' /\ buffered' \in Seq(late')
      BY <1>1, <1>4, <1>6 DEF Buffered
    <3> HIDE DEF Written, AllLines
    <3> QED
      BY <1>1, <1>2, <1>5, <1>6, <3>1 DEF Buffered
  <2>1. /\ \A m \in AllLines : m < buffered[k + 1]
        /\ buffered[k + 1] .. Written \subseteq late
        /\ \A l \in DOMAIN buffered : k + 1 < l => buffered[k + 1] < buffered[l]
    BY <1>4 DEF Buffered
  <2>2. \A l \in DOMAIN Tail(buffered) : k < l => k + 1 < l + 1
    BY <1>4
  <2> HIDE DEF Written, AllLines
  <2> QED
    BY <1>4, <2>1, <2>2
<1> QED
  BY <1>7, <1>8, <1>9, <1>10 DEF SinkInv

\* A line whose write() raises is written, or not, later than those before it.
LEMMA WriteFailsKeeps ==
  ASSUME SinkInv, Buffered, WriteFails PROVE SinkInv' /\ Buffered'
<1> DEFINE n == Len(lineSize)
<1>1. /\ stage \in {"rotate", "append"} /\ stage' = "ready" /\ failed' # {}
      /\ buffered' = buffered \/ buffered' = Append(buffered, n)
      /\ late' = late \cup {n} /\ UNCHANGED <<files, lineSize, shifting, exits>>
      /\ "shift" \notin failed' => "shift" \notin failed
  BY DEF WriteFails, Fails
<1>2. SinkTypes /\ InOrder(files) /\ NewestAreThere /\ 0 \in DOMAIN files
  BY <1>1 DEF SinkInv, SinkTypes
<1>3. n \in Nat /\ n > 0 /\ Written = n - 1 /\ Written' = n
  BY <1>1, <1>2, LinesAre DEF Written, SinkTypes
<1> HIDE DEF n
<1>4. /\ AllLines' = AllLines /\ AllLines \subseteq 1 .. n - 1
      /\ 1 .. n - 1 \subseteq 1 .. n /\ n \in 1 .. n
  <2>1. AllLines \subseteq 1 .. n - 1
    BY <1>2, <1>3, LinesAre
  <2> QED
    BY <1>1, <1>3, <2>1 DEF AllLines
<1>5. SinkTypes'
  <2>1. \A i \in DOMAIN files : files[i] \in Seq(1 .. Written)
    BY <1>2 DEF SinkTypes
  <2> HIDE DEF Written
  <2>2. \A i \in DOMAIN files : files[i] \in Seq(1 .. n)
    BY <1>3, <1>4, <2>1, ElementsOf
  <2> QED
    BY <1>1, <1>2, <1>3, <2>2 DEF SinkTypes
<1>6. PlaceIsFree' /\ NoOtherGap' /\ InOrder(files)'
  BY <1>1, <1>2 DEF PlaceIsFree, NoOtherGap, InOrder
\* Up to the line that is new the lines are those there were.
<1>7. \A i : i \in Int => \A m \in i .. n : m \in i .. n - 1 \/ m = n
  BY <1>3
<1>8. NewestAreThere'
  <2> SUFFICES ASSUME "shift" \notin failed, NEW i \in AllLines
               PROVE  i .. n \subseteq AllLines \cup late'
    BY <1>1, <1>3, <1>4 DEF NewestAreThere
  <2>1. i .. n - 1 \subseteq AllLines \cup late /\ i \in Int
    BY <1>2, <1>3, <1>4 DEF NewestAreThere
  <2> HIDE DEF AllLines
  <2> QED
    BY <1>1, <1>7, <2>1
<1>9. late \subseteq 1 .. n - 1 /\ buffered \in Seq(late) /\ buffered \in Seq(late')
  <2>1. late \subseteq 1 .. n - 1 /\ buffered \in Seq(late)
    BY <1>3 DEF Buffered
  <2>2. late \subseteq late'
    BY <1>1
  <2> QED
    BY <2>1, <2>2, ElementsOf
<1>10. /\ buffered' \in Seq(late')
       /\ \A k \in DOMAIN buffered' :
            \/ k \in DOMAIN buffered /\ buffered'[k] = buffered[k]
            \/ k = Len(buffered) + 1 /\ buffered'[k] = n
  <2>1. n \in late'
    BY <1>1
  <2> QED
    BY <1>1, <1>9, <2>1
<1>11. \A k \in DOMAIN buffered : buffered[k] \in 1 .. n - 1 /\ k \in 1 .. Len(buffered)
  <2>1. \A k \in DOMAIN buffered : buffered[k] \in late
    BY <1>9, ElementsOf
  <2>2. DOMAIN buffered = 1 .. Len(buffered)
    BY <1>9
  <2> QED
    BY <1>9, <2>1, <2>2
<1>12. Len(buffered) \in Nat
  BY <1>9
<1>13. Buffered'
  <2> SUFFICES ASSUME NEW k \in DOMAIN buffered'
               PROVE  /\ \A m \in AllLines : m < buffered'[k]
                      /\ buffered'[k] .. n \subseteq late'
                      /\ \A l \in DOMAIN buffered' : k < l => buffered'[k] < buffered'[l]
    <3>1. late' \subseteq 1 .. n
      BY <1>1, <1>4, <1>9
    <3> HIDE DEF Written, AllLines
    <3> QED
      BY <1>1, <1>3, <1>4, <1>10, <3>1 DEF Buffered
  <2>1. CASE k \in DOMAIN buffered /\ buffered'[k] = buffered[k]
    <3>1. /\ \A m \in AllLines : m < buffered[k]
          /\ buffered[k] .. n - 1 \subseteq late
          /\ \A l \in DOMAIN buffered : k < l => buffered[k] < buffered[l]
      BY <1>3, <2>1 DEF Buffered
    <3>2. buffered[k] \in 1 .. n - 1 /\ buffered[k] < n
      BY <1>3, <1>11, <2>1
    <3>3. buffered[k] .. n \subseteq late'
      BY <1>1, <1>7, <3>1, <3>2
    <3> HIDE DEF AllLines
    <3> QED
      BY <1>10, <2>1, <3>1, <3>2, <3>3
  <2>2. CASE k = Len(buffered) + 1 /\ buffered'[k] = n
    <3>1. \A m \in AllLines : m < n
      BY <1>3, <1>4
    <3>2. \A m \in n .. n : m = n
      BY <1>3
    <3>3. \A l \in DOMAIN buffered' : ~(k < l)
      BY <1>10, <1>11, <1>12, <2>2
    <3> HIDE DEF AllLines
    <3> QED
      BY <1>1, <2>2, <3>1, <3>2, <3>3
  <2> QED
    BY <1>10, <2>1, <2>2
<1> QED
  BY <1>5, <1>6, <1>8, <1>13 DEF SinkInv

\* The other steps leave the buffer as it is, or empty.
LEMMA EmptyBuffer ==
  ASSUME Buffered, Written \in Nat, Written' \in Nat, Written <= Written', late' = late,
         buffered' = << >>
  PROVE  Buffered'
<1>1. late \subseteq 1 .. Written'
  <2> HIDE DEF Written
  <2>1. 1 .. Written \subseteq 1 .. Written'
    OBVIOUS
  <2> QED
    BY <2>1 DEF Buffered
<1>2. << >> \in Seq(late) /\ DOMAIN << >> = {}
  OBVIOUS
<1> HIDE DEF Written
<1> QED
  BY <1>1, <1>2 DEF Buffered

LEMMA BufferSteps ==
  ASSUME SinkInv, SinkInv', Buffered, [SinkNext]_sinkVars PROVE Buffered'
<1>1. Written \in Nat /\ Written' \in Nat /\ Len(lineSize) \in Nat
  <2>1. SinkTypes /\ SinkTypes'
    BY DEF SinkInv
  <2>2. Len(lineSize') \in Nat /\ (stage' # "ready" => Len(lineSize') > 0)
    BY <2>1 DEF SinkTypes
  <2> QED
    BY <2>1, <2>2, LinesAre DEF Written
<1>2. ASSUME NEW size \in LineSize, WriteLine(size) PROVE Buffered'
  <2>1. /\ stage = "ready" /\ stage' \in {"rotate", "append"}
        /\ lineSize' = Append(lineSize, size) /\ UNCHANGED <<files, buffered, late, failed>>
    BY <1>2 DEF WriteLine
  <2>2. Written' = Written
    <3>1. Len(lineSize') = Len(lineSize) + 1
      BY <2>1 DEF SinkInv, SinkTypes
    <3> QED
      BY <1>1, <2>1, <3>1 DEF Written
  <2>3. AllLines' = AllLines
    BY <2>1 DEF AllLines
  <2> HIDE DEF Written, AllLines
  <2> QED
    BY <2>1, <2>2, <2>3 DEF Buffered
<1>3. ASSUME UnlinkOldest \/ ShiftCopy \/ RenameFile \/ OpenFile \/ OpenFails PROVE Buffered'
  <2>1. buffered = << >> /\ UNCHANGED <<lineSize, buffered, late>> /\ stage # "ready" /\ stage' # "ready"
    BY <1>3 DEF UnlinkOldest, ShiftCopy, RenameFile, OpenFile, OpenFails, Buffered
  <2>2. Written' = Written
    BY <2>1 DEF Written
  <2> HIDE DEF Written
  <2> QED
    BY <1>1, <2>1, <2>2, EmptyBuffer
<1>4. ASSUME AppendLine PROVE Buffered'
  <2>1. stage = "append" /\ stage' = "ready" /\ buffered = << >> /\ UNCHANGED <<lineSize, buffered, late>>
    BY <1>4 DEF AppendLine
  <2>2. Written <= Written'
    BY <1>1, <2>1 DEF Written
  <2> HIDE DEF Written
  <2> QED
    BY <1>1, <2>1, <2>2, EmptyBuffer
<1>5. ASSUME ExitAndOpen PROVE Buffered'
  <2>1. Written' = Written
    BY <1>5, ExitWrites
  <2>2. late' = late /\ buffered' = << >>
    BY <1>5 DEF ExitAndOpen
  <2> HIDE DEF Written
  <2> QED
    BY <1>1, <2>1, <2>2, EmptyBuffer
<1>6. ASSUME UNCHANGED sinkVars PROVE Buffered'
  BY <1>6 DEF sinkVars, Buffered, Written, AllLines
<1> QED
  BY <1>2, <1>3, <1>4, <1>5, <1>6, LineOutKeeps, WriteFailsKeeps DEF SinkNext

LEMMA SinkSteps ==
  ASSUME SinkInv, Buffered, [SinkNext]_sinkVars PROVE SinkInv'
<1>1. ASSUME OpenFails PROVE SinkInv'
  <2>1. /\ stage = "open" /\ stage' = "broken" /\ failed' # {}
        /\ UNCHANGED <<files, lineSize, late, shifting, exits>>
        /\ "shift" \notin failed' => "shift" \notin failed
    BY <1>1 DEF OpenFails, Fails
  <2>2. SinkTypes /\ InOrder(files) /\ NewestAreThere
    BY DEF SinkInv
  <2>3. Written' = Written
    BY <2>1 DEF Written
  <2>4. InOrder(files)' /\ NewestAreThere'
    BY <2>1, <2>2, <2>3, SameFiles
  <2>5. SinkTypes'
    <3>1. \A i \in DOMAIN files' : files'[i] \in Seq(1 .. Written')
      BY <2>1, <2>2, <2>3 DEF SinkTypes
    <3> HIDE DEF Written
    <3> QED
      BY <2>1, <2>2, <3>1 DEF SinkTypes
  <2>6. PlaceIsFree' /\ NoOtherGap'
    BY <2>1 DEF PlaceIsFree, NoOtherGap
  <2> QED
    BY <2>4, <2>5, <2>6 DEF SinkInv
<1>2. ASSUME UNCHANGED sinkVars PROVE SinkInv'
  BY <1>2 DEF sinkVars, SinkInv, SinkTypes, InOrder, PlaceIsFree, NewestAreThere,
     NoOtherGap, Hole, Written, AllLines
<1> QED
  BY <1>1, <1>2, WriteLineKeeps, UnlinkOldestKeeps, ShiftCopyKeeps, RenameFileKeeps,
     OpenFileKeeps, LineOutKeeps, WriteFailsKeeps, AppendLineKeeps, ExitAndOpenKeeps DEF SinkNext

LEMMA BufferInitially == SinkInit => Buffered
<1> SUFFICES ASSUME SinkInit PROVE Buffered
  OBVIOUS
<1>1. buffered = << >> /\ late = {} /\ << >> \in Seq({}) /\ DOMAIN << >> = {}
  BY DEF SinkInit
<1> QED
  BY <1>1 DEF Buffered

THEOREM SinkIsInvariant == SinkSpec => [](SinkInv /\ Buffered)
<1>1. SinkInit => SinkInv /\ Buffered
  BY SinkInitially, BufferInitially
<1>2. SinkInv /\ Buffered /\ [SinkNext]_sinkVars => (SinkInv /\ Buffered)'
  BY SinkSteps, BufferSteps
<1> QED
  BY <1>1, <1>2, PTL DEF SinkSpec

\* The copies are in order after every step of rotate(), whatever fails and wherever
\* the process ends (sink.py:106).
THEOREM CopiesStayInOrder == SinkSpec => []CopiesInOrder
<1>1. SinkInv => CopiesInOrder
  BY DEF SinkInv, InOrder, CopiesInOrder
<1> QED
  BY <1>1, SinkIsInvariant, PTL

\* Lines leave from the oldest on, unless a shift failed, and without any failure or
\* end of the process only when all max_files copies are there (sink.py:118-140).
THEOREM OldestGoFirst == SinkSpec => []OnlyOldestDropped
<1>1. SinkInv => OnlyOldestDropped
  <2> SUFFICES ASSUME SinkInv, stage = "ready"
               PROVE  /\ "shift" \notin failed =>
                           \A n \in AllLines : n .. Len(lineSize) \subseteq AllLines \cup late
                      /\ failed = {} /\ exits = 0 /\ AllLines # 1 .. Len(lineSize) =>
                           0 .. MaxFiles \subseteq DOMAIN files
    BY DEF OnlyOldestDropped
  <2>1. Written = Len(lineSize) /\ Hole = -1
    BY DEF Written, Hole
  <2>2. "shift" \notin failed =>
          \A n \in AllLines : n .. Len(lineSize) \subseteq AllLines \cup late
    <3> HIDE DEF AllLines
    <3> QED
      BY <2>1 DEF SinkInv, NewestAreThere
  <2>3. ASSUME failed = {}, exits = 0, AllLines # 1 .. Len(lineSize)
        PROVE  0 .. MaxFiles \subseteq DOMAIN files
    <3>1. \A j \in 0 .. MaxFiles : j \in DOMAIN files \/ j = -1
      BY <2>1, <2>3 DEF SinkInv, NoOtherGap
    <3>2. \A j \in 0 .. MaxFiles : j # -1
      BY SinkAssumption DEF SinkAssumption
    <3> QED
      BY <3>1, <3>2
  <2> QED
    BY <2>2, <2>3
<1> QED
  BY <1>1, SinkIsInvariant, PTL

-----------------------------------------------------------------------------
(* The size of a file *)

\* The fold's own function on the sets of places up to n, and the sums that it runs
\* through.
Folds(f, n, lines, sizes) ==
  f = [s \in SUBSET (1 .. n) |->
         IF s = {} THEN 0 ELSE f[s \ {Max(s)}] + sizes[lines[Max(s)]]]

Sums(c, lines, sizes) ==
  /\ c[0] = 0
  /\ \A k \in 1 .. Len(lines) : c[k] = c[k - 1] + sizes[lines[k]]

\* A set of naturals that is not empty has a least member.
LEMMA LeastOf ==
  ASSUME NEW S, S \subseteq Nat, S # {}
  PROVE  \E k \in S : \A j \in S : ~(j < k)
<1>1. PICK k \in S : \A j \in S : <<j, k>> \notin OpToRel(<, Nat)
  BY WFMin, NatLessThanWellFounded
<1> QED
  BY <1>1 DEF OpToRel

LEMMA MaxIs ==
  ASSUME NEW n \in Nat, NEW s, s \subseteq 1 .. n, s # {}
  PROVE  Max(s) \in s /\ \A m \in s : m <= Max(s)
<1> DEFINE bounds == {k \in Nat : \A m \in s : m <= k}
<1>1. n \in bounds
  OBVIOUS
<1>2. PICK k \in bounds : \A j \in bounds : ~(j < k)
  <2>1. bounds \subseteq Nat /\ bounds # {}
    BY <1>1
  <2> HIDE DEF bounds
  <2> QED
    BY <2>1, LeastOf
<1>3. k \in s
  <2>1. PICK m \in s : m \in 1 .. n /\ m <= k
    OBVIOUS
  <2>2. k > 0
    BY <2>1
  <2>3. ASSUME k \notin s PROVE k - 1 \in bounds
    BY <2>2, <2>3
  <2> QED
    BY <1>2, <2>2, <2>3
<1>4. k \in s /\ \A m \in s : k >= m
  BY <1>3
<1>5. Max(s) \in s /\ \A m \in s : Max(s) >= m
  BY <1>4 DEF Max
<1> QED
  BY <1>5

LEMMA FoldExists ==
  ASSUME NEW lines, NEW sizes, NEW n \in Nat
  PROVE  \E f : Folds(f, n, lines, sizes)
<1> DEFINE bad == {m \in Nat : ~ \E f : Folds(f, m, lines, sizes)}
<1>1. SUFFICES ASSUME bad # {} PROVE FALSE
  OBVIOUS
<1>2. PICK k \in bad : \A j \in bad : ~(j < k)
  <2>1. bad \subseteq Nat
    OBVIOUS
  <2> HIDE DEF bad
  <2> QED
    BY <1>1, <2>1, LeastOf
<1>3. k # 0
  <2>1. Folds([s \in SUBSET (1 .. 0) |-> 0], 0, lines, sizes)
    <3>1. \A s \in SUBSET (1 .. 0) : s = {}
      OBVIOUS
    <3> QED
      BY <3>1 DEF Folds
  <2> QED
    BY <2>1
<1>4. k \in Nat /\ k > 0 /\ k - 1 \in Nat /\ k - 1 < k
  BY <1>3
<1>5. PICK f : Folds(f, k - 1, lines, sizes)
  BY <1>2, <1>4
<1> DEFINE g == [s \in SUBSET (1 .. k) |->
                   IF k \in s THEN f[s \ {k}] + sizes[lines[k]] ELSE f[s]]
<1>6. \A s \in SUBSET (1 .. k) : k \notin s => s \in SUBSET (1 .. k - 1)
  BY <1>4
<1>7. ASSUME NEW s \in SUBSET (1 .. k)
      PROVE  g[s] = IF s = {} THEN 0 ELSE g[s \ {Max(s)}] + sizes[lines[Max(s)]]
  <2>1. CASE k \in s
    <3>1. Max(s) = k
      <4>1. Max(s) \in 1 .. k /\ k <= Max(s)
        BY <1>4, <2>1, MaxIs
      <4> QED
        BY <1>4, <4>1
    <3>2. s \ {k} \in SUBSET (1 .. k) /\ k \notin s \ {k}
      OBVIOUS
    <3>3. g[s \ {k}] = f[s \ {k}]
      BY <3>2
    <3>4. g[s] = f[s \ {k}] + sizes[lines[k]]
      BY <2>1
    <3> HIDE DEF g
    <3> QED
      BY <2>1, <3>1, <3>3, <3>4
  <2>2. CASE k \notin s
    <3>1. s \in SUBSET (1 .. k - 1) /\ g[s] = f[s]
      BY <1>6, <2>2
    <3>2. f[s] = IF s = {} THEN 0 ELSE f[s \ {Max(s)}] + sizes[lines[Max(s)]]
      BY <1>5, <3>1 DEF Folds
    <3>3. s \ {Max(s)} \in SUBSET (1 .. k) /\ k \notin s \ {Max(s)}
      BY <2>2
    <3>4. g[s \ {Max(s)}] = f[s \ {Max(s)}]
      BY <3>3
    <3> HIDE DEF g
    <3> QED
      BY <3>1, <3>2, <3>4
  <2> QED
    BY <2>1, <2>2
<1>8. Folds(g, k, lines, sizes)
  <2> DEFINE h == [s \in SUBSET (1 .. k) |->
                     IF s = {} THEN 0 ELSE g[s \ {Max(s)}] + sizes[lines[Max(s)]]]
  <2>1. \A s \in SUBSET (1 .. k) : g[s] = h[s]
    BY <1>7
  <2>2. g = h
    <3>1. g = [s \in SUBSET (1 .. k) |-> g[s]]
      OBVIOUS
    <3> HIDE DEF g
    <3> QED
      BY <2>1, <3>1
  <2> HIDE DEF g
  <2> QED
    BY <2>2 DEF Folds
<1> HIDE DEF g
<1> QED
  BY <1>8

\* The size of a file is the last of the sums of the sizes of its lines.
LEMMA SizeIs ==
  ASSUME NEW lines, Len(lines) \in Nat, DOMAIN lines = 1 .. Len(lines), NEW sizes
  PROVE  \E c : Sums(c, lines, sizes) /\ SizeOf(lines, sizes) = c[Len(lines)]
<1> DEFINE f == CHOOSE g : Folds(g, Len(lines), lines, sizes)
           c == [k \in 0 .. Len(lines) |-> f[1 .. k]]
<1>1. Folds(f, Len(lines), lines, sizes)
  BY FoldExists
<1>2. SizeOf(lines, sizes) = f[1 .. Len(lines)]
  <2>1. SizeOf(lines, sizes) =
          (CHOOSE g : g = [s \in SUBSET DOMAIN lines |->
             IF s = {} THEN 0 ELSE g[s \ {Max(s)}] + sizes[lines[Max(s)]]])[DOMAIN lines]
    BY DEF SizeOf, FoldLeft, MapThenFoldSet
  <2> QED
    BY <2>1 DEF Folds
<1> HIDE DEF f
<1>3. ASSUME NEW s \in SUBSET (1 .. Len(lines))
      PROVE  f[s] = IF s = {} THEN 0 ELSE f[s \ {Max(s)}] + sizes[lines[Max(s)]]
  BY <1>1 DEF Folds
<1>4. f[1 .. 0] = 0
  <2>1. 1 .. 0 = {}
    OBVIOUS
  <2> QED
    BY <1>3, <2>1
<1>5. ASSUME NEW k \in 1 .. Len(lines)
      PROVE  f[1 .. k] = f[1 .. k - 1] + sizes[lines[k]]
  <2>1. /\ 1 .. k \in SUBSET (1 .. Len(lines)) /\ 1 .. k # {} /\ k \in 1 .. k
        /\ (1 .. k) \ {k} = 1 .. k - 1
    <3>1. k \in Nat /\ k >= 1 /\ k <= Len(lines)
      OBVIOUS
    <3>2. \A l \in Nat : k <= l => 1 .. k \in SUBSET (1 .. l)
      BY ONLY <3>1
    <3>3. 1 .. k # {} /\ k \in 1 .. k
      BY ONLY <3>1
    <3>4. (1 .. k) \ {k} = 1 .. k - 1
      BY ONLY <3>1
    <3> QED
      BY <3>1, <3>2, <3>3, <3>4
  <2>2. Max(1 .. k) = k
    <3>1. Max(1 .. k) \in 1 .. k /\ k <= Max(1 .. k)
      BY <2>1, MaxIs
    <3> QED
      BY <3>1
  <2> QED
    BY <1>3, <2>1, <2>2
<1>6. Sums(c, lines, sizes)
  <2>1. \A k \in 1 .. Len(lines) : k \in 0 .. Len(lines) /\ k - 1 \in 0 .. Len(lines)
    OBVIOUS
  <2>2. c[0] = 0
    BY <1>4
  <2> QED
    BY <1>5, <2>1, <2>2 DEF Sums
<1>7. c[Len(lines)] = f[1 .. Len(lines)]
  OBVIOUS
<1> QED
  BY <1>2, <1>6, <1>7

\* Sums over the same sizes agree.
LEMMA SumsAgree ==
  ASSUME NEW c, NEW d, NEW n \in Nat, c[0] = d[0],
         \A k \in 1 .. n : c[k - 1] = d[k - 1] => c[k] = d[k]
  PROVE  c[n] = d[n]
<1> DEFINE bad == {k \in 0 .. n : c[k] # d[k]}
<1> SUFFICES ASSUME bad # {} PROVE FALSE
  OBVIOUS
<1>1. PICK k \in bad : \A j \in bad : ~(j < k)
  <2>1. bad \subseteq Nat
    OBVIOUS
  <2> HIDE DEF bad
  <2> QED
    BY <2>1, LeastOf
<1>2. k \in 1 .. n /\ k - 1 \in 0 .. n /\ k - 1 < k
  BY <1>1
<1>3. c[k - 1] = d[k - 1]
  BY <1>1, <1>2
<1> QED
  BY <1>1, <1>2, <1>3

\* Sums do not shrink.
LEMMA SumsGrow ==
  ASSUME NEW c, NEW n \in Nat, c[0] = 0, NEW m \in 0 .. n,
         \A k \in 1 .. n : c[k - 1] \in Nat => c[k] \in Nat /\ c[k] >= c[k - 1]
  PROVE  c[m] \in Nat /\ c[n] \in Nat /\ c[n] >= c[m]
<1>1. ASSUME NEW k \in 0 .. n PROVE c[k] \in Nat
  <2> DEFINE bad == {g \in 0 .. n : c[g] \notin Nat}
  <2> SUFFICES ASSUME bad # {} PROVE FALSE
    OBVIOUS
  <2>1. PICK g \in bad : \A j \in bad : ~(j < g)
    <3>1. bad \subseteq Nat
      OBVIOUS
    <3> HIDE DEF bad
    <3> QED
      BY <3>1, LeastOf
  <2>2. g # 0
    BY <2>1
  <2>3. g \in 1 .. n /\ g - 1 \in 0 .. n /\ g - 1 < g
    BY <2>1, <2>2
  <2> QED
    BY <2>1, <2>3
<1> DEFINE bad == {g \in m .. n : ~(c[g] >= c[m])}
<1> SUFFICES ASSUME bad # {} PROVE FALSE
  BY <1>1
<1>2. PICK g \in bad : \A j \in bad : ~(j < g)
  <2>1. bad \subseteq Nat
    OBVIOUS
  <2> HIDE DEF bad
  <2> QED
    BY <2>1, LeastOf
<1>3. g # m
  BY <1>1, <1>2
<1>4. g \in 1 .. n /\ g - 1 \in m .. n /\ g - 1 < g /\ g - 1 \in 0 .. n
  BY <1>2, <1>3
<1>5. c[g - 1] >= c[m] /\ c[g] >= c[g - 1]
  BY <1>1, <1>2, <1>4
<1>6. c[g] \in Nat /\ c[g - 1] \in Nat /\ c[m] \in Nat
  BY <1>1, <1>4
<1> QED
  BY <1>2, <1>5, <1>6

\* A file is as large as any of its lines.
LEMMA SizeNat ==
  ASSUME NEW w \in Nat, NEW lines \in Seq(1 .. w), NEW sizes,
         \A l \in 1 .. w : sizes[l] \in Nat
  PROVE  /\ SizeOf(lines, sizes) \in Nat
         /\ \A l \in Range(lines) : SizeOf(lines, sizes) >= sizes[l]
<1>1. Len(lines) \in Nat /\ DOMAIN lines = 1 .. Len(lines)
  OBVIOUS
<1>2. \A k \in 1 .. Len(lines) : sizes[lines[k]] \in Nat
  BY <1>1, ElementsOf
<1>3. PICK c : Sums(c, lines, sizes) /\ SizeOf(lines, sizes) = c[Len(lines)]
  BY <1>1, SizeIs
<1>4. /\ c[0] = 0
      /\ \A k \in 1 .. Len(lines) : c[k] = c[k - 1] + sizes[lines[k]]
  BY <1>3 DEF Sums
<1>5. ASSUME NEW k \in 1 .. Len(lines), c[k - 1] \in Nat PROVE c[k] \in Nat /\ c[k] >= c[k - 1]
  <2>1. c[k] = c[k - 1] + sizes[lines[k]] /\ sizes[lines[k]] \in Nat
    BY <1>2, <1>4
  <2> QED
    BY <1>5, <2>1
<1>6. \A m \in 0 .. Len(lines) : c[m] \in Nat /\ c[Len(lines)] \in Nat /\ c[Len(lines)] >= c[m]
  BY <1>1, <1>4, <1>5, SumsGrow
<1>7. ASSUME NEW k \in 1 .. Len(lines) PROVE c[Len(lines)] >= sizes[lines[k]]
  <2>1. k \in 0 .. Len(lines) /\ k - 1 \in 0 .. Len(lines)
    BY <1>1
  <2>2. c[k - 1] \in Nat /\ c[k] \in Nat /\ c[Len(lines)] \in Nat /\ c[Len(lines)] >= c[k]
    BY <1>6, <2>1
  <2>3. c[k] = c[k - 1] + sizes[lines[k]] /\ sizes[lines[k]] \in Nat
    BY <1>2, <1>4
  <2> QED
    BY <2>2, <2>3
<1>8. 0 \in 0 .. Len(lines)
  BY <1>1
<1>9. \A l \in Range(lines) : \E k \in 1 .. Len(lines) : l = lines[k]
  BY <1>1 DEF Range
<1>10. \A l \in Range(lines) : c[Len(lines)] >= sizes[l]
  BY <1>7, <1>9
<1> QED
  BY <1>3, <1>6, <1>8, <1>10

\* Sizes that are smaller make a sum that is not larger.
LEMMA SizeAtMost ==
  ASSUME NEW w \in Nat, NEW lines \in Seq(1 .. w), NEW sizes, NEW others,
         \A l \in 1 .. w : sizes[l] \in Nat /\ others[l] \in Nat /\ sizes[l] <= others[l]
  PROVE  SizeOf(lines, sizes) <= SizeOf(lines, others)
<1>1. Len(lines) \in Nat /\ DOMAIN lines = 1 .. Len(lines)
  OBVIOUS
<1>2. \A k \in 1 .. Len(lines) :
        /\ sizes[lines[k]] \in Nat /\ others[lines[k]] \in Nat
        /\ sizes[lines[k]] <= others[lines[k]]
  BY <1>1, ElementsOf
<1>3. PICK c : Sums(c, lines, sizes) /\ SizeOf(lines, sizes) = c[Len(lines)]
  BY <1>1, SizeIs
<1>4. PICK d : Sums(d, lines, others) /\ SizeOf(lines, others) = d[Len(lines)]
  BY <1>1, SizeIs
<1> DEFINE bad == {k \in 0 .. Len(lines) :
                     ~(c[k] \in Nat /\ d[k] \in Nat /\ c[k] <= d[k])}
<1> SUFFICES ASSUME bad # {} PROVE FALSE
  BY <1>1, <1>3, <1>4
<1>5. PICK k \in bad : \A j \in bad : ~(j < k)
  <2>1. bad \subseteq Nat
    BY <1>1
  <2> HIDE DEF bad
  <2> QED
    BY <2>1, LeastOf
<1>6. c[0] = 0 /\ d[0] = 0
  BY <1>3, <1>4 DEF Sums
<1>7. k # 0
  BY <1>5, <1>6
<1>8. k \in 1 .. Len(lines) /\ k - 1 \in 0 .. Len(lines) /\ k - 1 < k
  BY <1>1, <1>5, <1>7
<1>9. c[k - 1] \in Nat /\ d[k - 1] \in Nat /\ c[k - 1] <= d[k - 1]
  BY <1>5, <1>8
<1>10. c[k] = c[k - 1] + sizes[lines[k]] /\ d[k] = d[k - 1] + others[lines[k]]
  BY <1>3, <1>4, <1>8 DEF Sums
<1>11. c[k] \in Nat /\ d[k] \in Nat /\ c[k] <= d[k]
  <2>1. /\ sizes[lines[k]] \in Nat /\ others[lines[k]] \in Nat
        /\ sizes[lines[k]] <= others[lines[k]]
    BY <1>2, <1>8
  <2>2. \A a, b, x, y \in Nat : a <= b /\ x <= y => a + x \in Nat /\ b + y \in Nat /\ a + x <= b + y
    OBVIOUS
  <2> QED
    BY <1>9, <1>10, <2>1, <2>2
<1> QED
  BY <1>5, <1>11

LEMMA SizeSame ==
  ASSUME NEW w \in Nat, NEW lines \in Seq(1 .. w), NEW sizes, NEW others,
         \A l \in 1 .. w : sizes[l] = others[l]
  PROVE  SizeOf(lines, sizes) = SizeOf(lines, others)
<1>1. Len(lines) \in Nat /\ DOMAIN lines = 1 .. Len(lines)
  OBVIOUS
<1>2. \A k \in 1 .. Len(lines) : sizes[lines[k]] = others[lines[k]]
  BY <1>1, ElementsOf
<1>3. PICK c : Sums(c, lines, sizes) /\ SizeOf(lines, sizes) = c[Len(lines)]
  BY <1>1, SizeIs
<1>4. PICK d : Sums(d, lines, others) /\ SizeOf(lines, others) = d[Len(lines)]
  BY <1>1, SizeIs
<1>5. /\ c[0] = d[0]
      /\ \A k \in 1 .. Len(lines) : c[k - 1] = d[k - 1] => c[k] = d[k]
  BY <1>2, <1>3, <1>4 DEF Sums
<1> QED
  BY <1>1, <1>3, <1>4, <1>5, SumsAgree

\* One line more.
LEMMA SizeAppended ==
  ASSUME NEW w \in Nat, NEW lines \in Seq(1 .. w), NEW l, NEW sizes
  PROVE  SizeOf(Append(lines, l), sizes) = SizeOf(lines, sizes) + sizes[l]
<1> DEFINE more == Append(lines, l)
           n == Len(lines)
<1>1. n \in Nat /\ DOMAIN lines = 1 .. n
  OBVIOUS
<1>2. /\ Len(more) = n + 1 /\ DOMAIN more = 1 .. n + 1 /\ more[n + 1] = l
      /\ \A k \in 1 .. n : more[k] = lines[k]
  OBVIOUS
<1> HIDE DEF more
<1>3. Len(more) \in Nat /\ DOMAIN more = 1 .. Len(more)
  BY <1>1, <1>2
<1>4. PICK c : Sums(c, lines, sizes) /\ SizeOf(lines, sizes) = c[n]
  BY <1>1, SizeIs
<1>5. PICK d : Sums(d, more, sizes) /\ SizeOf(more, sizes) = d[Len(more)]
  BY <1>3, SizeIs
<1> HIDE DEF n
<1>6. \A k \in 1 .. n : k \in 1 .. n + 1
  BY <1>1
<1>7. \A k \in 1 .. n : c[k - 1] = d[k - 1] => c[k] = d[k]
  <2>1. \A k \in 1 .. n : c[k] = c[k - 1] + sizes[lines[k]]
    BY <1>4 DEF Sums, n
  <2>2. \A k \in 1 .. n + 1 : d[k] = d[k - 1] + sizes[more[k]]
    BY <1>2, <1>5 DEF Sums
  <2> QED
    BY <1>2, <1>6, <2>1, <2>2
<1>8. c[n] = d[n]
  <2>1. c[0] = d[0]
    BY <1>4, <1>5 DEF Sums
  <2> QED
    BY <1>1, <1>7, <2>1, SumsAgree
<1>9. d[n + 1] = d[n] + sizes[l]
  <2>1. n + 1 \in 1 .. n + 1 /\ n + 1 - 1 = n
    BY <1>1
  <2>2. \A k \in 1 .. n + 1 : d[k] = d[k - 1] + sizes[more[k]]
    BY <1>2, <1>5 DEF Sums
  <2>3. ASSUME NEW m \in Nat, m = n + 1 PROVE d[m] = d[n] + sizes[l]
    <3>1. m \in 1 .. n + 1 /\ m - 1 = n
      BY <1>1, <2>3
    <3>2. d[m] = d[m - 1] + sizes[more[m]]
      BY <2>2, <3>1
    <3> QED
      BY <1>2, <2>3, <3>1, <3>2
  <2>4. n + 1 \in Nat
    BY <1>1
  <2> QED
    BY <2>3, <2>4
<1> QED
  BY <1>2, <1>4, <1>5, <1>8, <1>9 DEF more, n

LEMMA SizeEmpty ==
  ASSUME NEW sizes
  PROVE  SizeOf(<< >>, sizes) = 0
<1>1. Len(<< >>) = 0 /\ Len(<< >>) \in Nat /\ DOMAIN << >> = 1 .. Len(<< >>)
  OBVIOUS
<1>2. PICK c : Sums(c, << >>, sizes) /\ SizeOf(<< >>, sizes) = c[Len(<< >>)]
  BY <1>1, SizeIs
<1> QED
  BY <1>1, <1>2 DEF Sums

-----------------------------------------------------------------------------
(* The limit of a file *)

\* The variables that the order of the lines does not depend on.
CountersTyped ==
  /\ sinkSize \in Nat /\ Len(lineSize) <= MaxLine /\ stage \in Stages
  /\ failed \subseteq SinkFaults /\ failures \in 0 .. MaxFailure /\ exits \in 0 .. MaxExit

\* _size is at least what the open file has of the lines it counts.
SizeKnown ==
  stage \in {"ready", "rotate", "append"} => SizeOf(files[0], CountedSize) <= sinkSize

\* The file is renamed away before a new one is opened.
MovedAway == stage = "open" /\ "rename" \notin failed => 0 \notin DOMAIN files

\* The next line fits, or is the first of the file that counts.
NextFits ==
  stage = "append" /\ MaxBytes > 0 /\ "rename" \notin failed =>
    sinkSize = 0 \/ sinkSize + lineSize[Len(lineSize)] <= MaxBytes

FitsIn(lines, sizes, uncounted) ==
  \/ SizeOf(lines, sizes) <= MaxBytes
  \/ \E n \in Range(lines) : Range(lines) \ uncounted \subseteq {n}

FilesFit ==
  MaxBytes > 0 /\ "rename" \notin failed =>
    \A i \in DOMAIN files : FitsIn(files[i], CountedSize, late)

LimitInv ==
  SinkInv /\ Buffered /\ CountersTyped /\ SizeKnown /\ MovedAway /\ NextFits /\ FilesFit

\* Sizes in a state of the sink.
LEMMA SizesAre ==
  ASSUME SinkInv
  PROVE  /\ Written \in Nat /\ Written <= Len(lineSize) /\ Len(lineSize) \in Nat
         /\ \A l \in 1 .. Len(lineSize) :
              /\ lineSize[l] \in Nat \ {0}
              /\ CountedSize[l] = IF l \in late THEN 0 ELSE lineSize[l]
         /\ \A l \in 1 .. Written :
              /\ lineSize[l] \in Nat /\ CountedSize[l] \in Nat /\ CountedSize[l] <= lineSize[l]
              /\ l \notin late => CountedSize[l] > 0
         /\ \A i \in DOMAIN files :
              /\ files[i] \in Seq(1 .. Written)
              /\ SizeOf(files[i], CountedSize) \in Nat
              /\ SizeOf(files[i], CountedSize) = 0 => Range(files[i]) \subseteq late
              /\ SizeOf(files[i], CountedSize) <= SizeOf(files[i], lineSize)
         /\ SizeOnDisk \in Nat
         /\ SizeOnDisk = IF 0 \in DOMAIN files THEN SizeOf(files[0], lineSize) ELSE 0
         /\ MaxBytes \in Nat
<1>1. SinkTypes
  BY DEF SinkInv
<1>2. Written \in Nat /\ Len(lineSize) \in Nat
  BY <1>1, LinesAre
<1>3. Written <= Len(lineSize)
  BY <1>2 DEF Written
<1>4. /\ \A l \in 1 .. Len(lineSize) : lineSize[l] \in Nat \ {0}
      /\ DOMAIN lineSize = 1 .. Len(lineSize)
  <2>1. lineSize \in Seq(LineSize) /\ LineSize \subseteq Nat \ {0}
    BY <1>1, SinkAssumption DEF SinkTypes, SinkAssumption
  <2>2. DOMAIN lineSize = 1 .. Len(lineSize) /\ \A l \in DOMAIN lineSize : lineSize[l] \in LineSize
    BY <2>1, ElementsOf
  <2> QED
    BY <2>1, <2>2
<1>5. \A l \in 1 .. Len(lineSize) : CountedSize[l] = IF l \in late THEN 0 ELSE lineSize[l]
  BY <1>4 DEF CountedSize
<1>6. \A i \in DOMAIN files : files[i] \in Seq(1 .. Written)
  BY <1>1 DEF SinkTypes
<1> HIDE DEF Written
<1>7. \A l \in 1 .. Written :
        /\ lineSize[l] \in Nat /\ CountedSize[l] \in Nat /\ CountedSize[l] <= lineSize[l]
        /\ l \notin late => CountedSize[l] > 0
  <2>1. \A l \in 1 .. Written : l \in 1 .. Len(lineSize)
    BY <1>2, <1>3
  <2> QED
    BY <1>4, <1>5, <2>1
<1>8. ASSUME NEW i \in DOMAIN files
      PROVE  /\ SizeOf(files[i], CountedSize) \in Nat /\ SizeOf(files[i], lineSize) \in Nat
             /\ SizeOf(files[i], CountedSize) = 0 => Range(files[i]) \subseteq late
             /\ SizeOf(files[i], CountedSize) <= SizeOf(files[i], lineSize)
  <2>1. files[i] \in Seq(1 .. Written) /\ Range(files[i]) \subseteq 1 .. Written
    BY <1>6, ElementsOf
  <2>2. /\ SizeOf(files[i], CountedSize) \in Nat
        /\ \A l \in Range(files[i]) : SizeOf(files[i], CountedSize) >= CountedSize[l]
    BY <1>2, <1>7, <2>1, SizeNat
  <2>3. SizeOf(files[i], lineSize) \in Nat
    BY <1>2, <1>7, <2>1, SizeNat
  <2>4. SizeOf(files[i], CountedSize) <= SizeOf(files[i], lineSize)
    BY <1>2, <1>7, <2>1, SizeAtMost
  <2>5. ASSUME SizeOf(files[i], CountedSize) = 0, NEW l \in Range(files[i]) PROVE l \in late
    <3>1. CountedSize[l] \in Nat /\ 0 >= CountedSize[l] /\ (l \notin late => CountedSize[l] > 0)
      BY <1>7, <2>1, <2>2, <2>5
    <3> QED
      BY <3>1
  <2> QED
    BY <2>2, <2>3, <2>4, <2>5
<1>9. SizeOnDisk = IF 0 \in DOMAIN files THEN SizeOf(files[0], lineSize) ELSE 0
  BY DEF SizeOnDisk
<1>10. SizeOnDisk \in Nat
  BY <1>8, <1>9
<1>11. MaxBytes \in Nat
  BY SinkAssumption DEF SinkAssumption
<1> QED
  BY <1>2, <1>3, <1>4, <1>5, <1>6, <1>7, <1>8, <1>9, <1>10, <1>11

\* The sizes of the lines in the files do not change, nor what is counted of them.
LEMMA SameSizes ==
  ASSUME SinkInv, SinkInv', Written <= Written',
         \A l \in 1 .. Written : lineSize'[l] = lineSize[l] /\ (l \in late' <=> l \in late)
  PROVE  /\ \A i \in DOMAIN files :
              /\ SizeOf(files[i], CountedSize') = SizeOf(files[i], CountedSize)
              /\ Range(files[i]) \ late' = Range(files[i]) \ late
              /\ SizeOf(files[i], lineSize') = SizeOf(files[i], lineSize)
         /\ \A l \in 1 .. Written : CountedSize'[l] = CountedSize[l]
<1>1. /\ Written \in Nat /\ Written <= Len(lineSize) /\ Len(lineSize) \in Nat
      /\ \A i \in DOMAIN files : files[i] \in Seq(1 .. Written)
      /\ \A l \in 1 .. Len(lineSize) : CountedSize[l] = IF l \in late THEN 0 ELSE lineSize[l]
  BY SizesAre
<1>2. Written' \in Nat /\ Written' <= Len(lineSize') /\ Len(lineSize') \in Nat
      /\ DOMAIN lineSize' = 1 .. Len(lineSize')
  <2>1. lineSize' \in Seq(LineSize) /\ (stage' # "ready" => lineSize' # << >>)
    BY DEF SinkInv, SinkTypes
  <2>2. Len(lineSize') \in Nat /\ DOMAIN lineSize' = 1 .. Len(lineSize')
        /\ (stage' # "ready" => Len(lineSize') > 0)
    BY <2>1
  <2> QED
    BY <2>2 DEF Written
<1> HIDE DEF Written
<1>3. \A l \in 1 .. Written : l \in 1 .. Len(lineSize) /\ l \in 1 .. Len(lineSize')
  BY <1>1, <1>2
<1>4. \A l \in 1 .. Written : CountedSize'[l] = CountedSize[l]
  <2>1. \A l \in 1 .. Len(lineSize') :
          CountedSize'[l] = IF l \in late' THEN 0 ELSE lineSize'[l]
    BY <1>2 DEF CountedSize
  <2> QED
    BY <1>1, <1>3, <2>1
<1>5. ASSUME NEW i \in DOMAIN files
      PROVE  /\ SizeOf(files[i], CountedSize') = SizeOf(files[i], CountedSize)
             /\ SizeOf(files[i], lineSize') = SizeOf(files[i], lineSize)
  <2>1. Written \in Nat /\ files[i] \in Seq(1 .. Written)
    BY <1>1
  <2>2. SizeOf(files[i], CountedSize') = SizeOf(files[i], CountedSize)
    BY <1>4, <2>1, SizeSame
  <2>3. \A l \in 1 .. Written : lineSize'[l] = lineSize[l]
    OBVIOUS
  <2>4. SizeOf(files[i], lineSize') = SizeOf(files[i], lineSize)
    BY <2>1, <2>3, SizeSame
  <2> QED
    BY <2>2, <2>4
<1>6. ASSUME NEW i \in DOMAIN files
      PROVE  Range(files[i]) \ late' = Range(files[i]) \ late
  <2>1. Range(files[i]) \subseteq 1 .. Written
    BY <1>1, ElementsOf
  <2> QED
    BY <2>1
<1> QED
  BY <1>4, <1>5, <1>6

\* Where each file has the lines of one that was there, or none, all fit.
LEMMA StillFit ==
  ASSUME SinkInv, SinkInv', FilesFit, Written <= Written',
         \A l \in 1 .. Written : lineSize'[l] = lineSize[l] /\ (l \in late' <=> l \in late),
         "rename" \notin failed' => "rename" \notin failed,
         \A k \in DOMAIN files' :
           files'[k] = << >> \/ \E g \in DOMAIN files : files'[k] = files[g]
  PROVE  FilesFit'
<1> SUFFICES ASSUME MaxBytes > 0, "rename" \notin failed, NEW k \in DOMAIN files'
             PROVE  FitsIn(files'[k], CountedSize', late')
  BY DEF FilesFit
<1>1. CASE files'[k] = << >>
  <2>1. SizeOf(<< >>, CountedSize') = 0
    BY SizeEmpty
  <2> QED
    BY <1>1, <2>1, SizesAre DEF FitsIn
<1>2. CASE \E g \in DOMAIN files : files'[k] = files[g]
  <2>1. PICK g \in DOMAIN files : files'[k] = files[g]
    BY <1>2
  <2>2. /\ SizeOf(files[g], CountedSize') = SizeOf(files[g], CountedSize)
        /\ Range(files[g]) \ late' = Range(files[g]) \ late
    BY SameSizes
  <2>3. FitsIn(files[g], CountedSize, late)
    BY DEF FilesFit
  <2> HIDE DEF CountedSize
  <2> QED
    BY <2>1, <2>2, <2>3 DEF FitsIn
<1> QED
  BY <1>1, <1>2

LEMMA LimitInitially == SinkInit => LimitInv
<1> SUFFICES ASSUME SinkInit PROVE LimitInv
  OBVIOUS
<1>1. SinkInv /\ Buffered
  BY SinkInitially, BufferInitially
<1>2. /\ DOMAIN files = {0} /\ files[0] = << >> /\ lineSize = << >> /\ sinkSize = 0
      /\ stage = "ready" /\ failed = {} /\ failures = 0 /\ exits = 0
  BY DEF SinkInit
<1>3. CountersTyped
  BY <1>2, SinkAssumption DEF CountersTyped, Stages, SinkAssumption
<1>4. SizeOf(files[0], CountedSize) = 0
  BY <1>2, SizeEmpty
<1>5. SizeKnown /\ MovedAway /\ NextFits
  <2> HIDE DEF CountedSize
  <2> QED
    BY <1>2, <1>4 DEF SizeKnown, MovedAway, NextFits
<1>6. FilesFit
  <2>1. MaxBytes \in Nat
    BY <1>1, SizesAre
  <2> HIDE DEF CountedSize
  <2> QED
    BY <1>2, <1>4, <2>1 DEF FilesFit, FitsIn
<1> QED
  BY <1>1, <1>3, <1>5, <1>6 DEF LimitInv

LEMMA CountersStep ==
  ASSUME LimitInv, [SinkNext]_sinkVars PROVE CountersTyped'
<1>1. SinkInv /\ CountersTyped
  BY DEF LimitInv
<1>2. /\ Len(lineSize) \in Nat /\ SizeOnDisk \in Nat /\ lineSize \in Seq(LineSize)
      /\ MaxLine \in Nat /\ MaxFailure \in Nat /\ MaxExit \in Nat /\ LineSize \subseteq Nat \ {0}
  BY <1>1, SizesAre, SinkAssumption DEF SinkAssumption, SinkInv, SinkTypes
<1>3. ASSUME NEW call, Fails(call)
      PROVE  failed' \subseteq SinkFaults /\ failures' \in 0 .. MaxFailure
  BY <1>1, <1>2, <1>3 DEF Fails, CountersTyped
<1>4. ASSUME Succeeds PROVE failed' \subseteq SinkFaults /\ failures' \in 0 .. MaxFailure
  BY <1>1, <1>4 DEF Succeeds, CountersTyped
<1>5. ASSUME NEW size \in LineSize, WriteLine(size) PROVE CountersTyped'
  <2>1. Len(lineSize') = Len(lineSize) + 1 /\ Len(lineSize) < MaxLine
    BY <1>2, <1>5 DEF WriteLine
  <2>2. Len(lineSize') <= MaxLine
    BY <1>2, <2>1
  <2> QED
    BY <1>1, <1>5, <2>2 DEF WriteLine, CountersTyped, Stages
<1>6. ASSUME UnlinkOldest \/ ShiftCopy \/ RenameFile \/ OpenFails \/ WriteFails
      PROVE  CountersTyped'
  <2>1. failed' \subseteq SinkFaults /\ failures' \in 0 .. MaxFailure
    BY <1>3, <1>4, <1>6 DEF UnlinkOldest, ShiftCopy, RenameFile, OpenFails, WriteFails
  <2>2. UNCHANGED <<sinkSize, lineSize, exits>> /\ stage' \in Stages
    BY <1>1, <1>6
       DEF UnlinkOldest, ShiftCopy, RenameFile, OpenFails, WriteFails, Stages, CountersTyped
  <2> QED
    BY <1>1, <2>1, <2>2 DEF CountersTyped
<1>7. ASSUME OpenFile PROVE CountersTyped'
  BY <1>1, <1>2, <1>7 DEF OpenFile, CountersTyped, Stages
<1>8. ASSUME AppendLine PROVE CountersTyped'
  <2>1. lineSize[Len(lineSize)] \in Nat
    <3>1. lineSize # << >>
      BY <1>1, <1>8 DEF AppendLine, SinkInv, SinkTypes
    <3>2. Len(lineSize) \in 1 .. Len(lineSize)
      BY <1>2, <3>1
    <3> QED
      BY <1>1, <3>2, SizesAre
  <2>2. sinkSize' \in Nat
    BY <1>1, <1>8, <2>1 DEF AppendLine, Last, CountersTyped
  <2> QED
    BY <1>1, <1>8, <2>2 DEF AppendLine, CountersTyped, Stages
<1>9. ASSUME ExitAndOpen PROVE CountersTyped'
  <2>1. /\ stage' = "ready" /\ sinkSize' \in Nat /\ exits' \in 0 .. MaxExit
        /\ UNCHANGED <<failed, failures>>
    BY <1>1, <1>2, <1>9 DEF ExitAndOpen, CountersTyped
  <2>2. Len(lineSize') = Written' /\ Written' = Written /\ Written <= Len(lineSize)
    BY <1>1, <1>9, <2>1, ExitWrites, SizesAre DEF Written
  <2>3. Len(lineSize') <= MaxLine
    <3> HIDE DEF Written
    <3> QED
      BY <1>1, <1>2, <2>2, SizesAre DEF CountersTyped
  <2> QED
    BY <1>1, <2>1, <2>3 DEF CountersTyped, Stages
<1>10. ASSUME LineOut \/ UNCHANGED sinkVars PROVE CountersTyped'
  BY <1>1, <1>10 DEF LineOut, sinkVars, CountersTyped
<1> QED
  BY <1>5, <1>6, <1>7, <1>8, <1>9, <1>10 DEF SinkNext

LEMMA WriteLineFits ==
  ASSUME LimitInv, SinkInv', NEW size \in LineSize, WriteLine(size)
  PROVE  SizeKnown' /\ MovedAway' /\ NextFits' /\ FilesFit'
<1>1. SinkInv /\ CountersTyped /\ SizeKnown /\ FilesFit
  BY DEF LimitInv
<1>2. /\ stage = "ready" /\ lineSize' = Append(lineSize, size)
      /\ stage' = "rotate" \/ (stage' = "append" /\ ~TooBig(size))
      /\ UNCHANGED <<files, late, sinkSize, failed>>
  BY DEF WriteLine
<1>3. Written = Len(lineSize) /\ Len(lineSize) \in Nat /\ 0 \in DOMAIN files
  BY <1>1, <1>2, SizesAre DEF Written, SinkInv, SinkTypes
<1>4. /\ \A l \in 1 .. Len(lineSize) : lineSize'[l] = lineSize[l]
      /\ lineSize'[Len(lineSize')] = size /\ Len(lineSize') = Len(lineSize) + 1
  <2>1. lineSize \in Seq(LineSize)
    BY <1>1 DEF SinkInv, SinkTypes
  <2> QED
    BY <1>2, <2>1
<1>5. /\ \A l \in 1 .. Written : lineSize'[l] = lineSize[l] /\ (l \in late' <=> l \in late)
      /\ Written <= Written'
  BY <1>2, <1>3, <1>4 DEF Written
<1>6. SizeKnown'
  <2>1. SizeOf(files[0], CountedSize') = SizeOf(files[0], CountedSize)
    BY <1>1, <1>3, <1>5, SameSizes
  <2> HIDE DEF CountedSize
  <2> QED
    BY <1>1, <1>2, <2>1 DEF SizeKnown
<1>7. MovedAway'
  BY <1>2 DEF MovedAway
<1>8. NextFits'
  <2> SUFFICES ASSUME stage' = "append", MaxBytes > 0
               PROVE  sinkSize = 0 \/ sinkSize + size <= MaxBytes
    BY <1>2, <1>4 DEF NextFits
  <2>1. ~(sinkSize > 0 /\ sinkSize + size > MaxBytes)
    BY <1>2 DEF TooBig
  <2>2. sinkSize \in Nat /\ size \in Nat /\ MaxBytes \in Nat
    BY <1>1, SizesAre, SinkAssumption DEF CountersTyped, SinkAssumption
  <2> QED
    BY <2>1, <2>2
<1>9. FilesFit'
  <2>1. \A k \in DOMAIN files' : \E g \in DOMAIN files : files'[k] = files[g]
    BY <1>2
  <2>2. "rename" \notin failed' => "rename" \notin failed
    BY <1>2
  <2> HIDE DEF Written
  <2> QED
    BY <1>1, <1>5, <2>1, <2>2, StillFit
<1> QED
  BY <1>6, <1>7, <1>8, <1>9

\* The calls that move and delete files.
LEMMA RotateFits ==
  ASSUME LimitInv, SinkInv', UnlinkOldest \/ ShiftCopy \/ RenameFile
  PROVE  SizeKnown' /\ MovedAway' /\ NextFits' /\ FilesFit'
<1>1. SinkInv /\ FilesFit
  BY DEF LimitInv
<1>2. /\ stage # "ready" /\ stage' \in {"shift", "open"} /\ UNCHANGED <<lineSize, late>>
      /\ "rename" \notin failed' => "rename" \notin failed
      /\ stage' = "open" => RenameFile
  BY DEF UnlinkOldest, ShiftCopy, RenameFile, Succeeds, Fails
<1>3. \/ files' = files \/ files' = Removed(files, MaxFiles)
      \/ \E i \in DOMAIN files : files' = Replaced(files, i, i + 1)
  <2>1. 0 + 1 = 1
    OBVIOUS
  <2> QED
    BY <2>1 DEF UnlinkOldest, ShiftCopy, RenameFile, Oldest
<1>4. \A k \in DOMAIN files' : \E g \in DOMAIN files : files'[k] = files[g]
  <2>1. ASSUME files' = Removed(files, MaxFiles)
        PROVE  \A k \in DOMAIN files' : k \in DOMAIN files /\ files'[k] = files[k]
    BY <2>1 DEF Removed
  <2>2. ASSUME NEW i \in DOMAIN files, files' = Replaced(files, i, i + 1)
        PROVE  \A k \in DOMAIN files' : \E g \in DOMAIN files : files'[k] = files[g]
    BY <2>2 DEF Replaced
  <2> QED
    BY <1>3, <2>1, <2>2
<1>5. FilesFit'
  <2>1. /\ \A l \in 1 .. Written : lineSize'[l] = lineSize[l] /\ (l \in late' <=> l \in late)
        /\ Written <= Written'
    BY <1>1, <1>2, SizesAre DEF Written
  <2> HIDE DEF Written
  <2> QED
    BY <1>1, <1>2, <1>4, <2>1, StillFit
<1>6. SizeKnown' /\ NextFits'
  BY <1>2 DEF SizeKnown, NextFits
<1>7. MovedAway'
  <2> SUFFICES ASSUME stage' = "open", "rename" \notin failed' PROVE 0 \notin DOMAIN files'
    BY DEF MovedAway
  <2>1. files' = Replaced(files, 0, 1)
    BY <1>2 DEF RenameFile, Fails
  <2> QED
    BY <2>1 DEF Replaced
<1> QED
  BY <1>5, <1>6, <1>7

LEMMA OpenFits ==
  ASSUME LimitInv, SinkInv', OpenFile
  PROVE  SizeKnown' /\ MovedAway' /\ NextFits' /\ FilesFit'
<1>1. SinkInv /\ MovedAway /\ FilesFit
  BY DEF LimitInv
<1>2. /\ stage = "open" /\ stage' = "append" /\ files' = WithFile(files)
      /\ sinkSize' = SizeOnDisk /\ UNCHANGED <<lineSize, late, failed>>
  BY DEF OpenFile
<1>3. /\ DOMAIN files' = DOMAIN files \cup {0}
      /\ \A k \in DOMAIN files : files'[k] = files[k]
      /\ 0 \notin DOMAIN files => files'[0] = << >>
  BY <1>2, WithFileIs
<1>4. CountedSize' = CountedSize
  BY <1>2 DEF CountedSize
<1>5. SizeKnown'
  <2>1. /\ SizeOnDisk = IF 0 \in DOMAIN files THEN SizeOf(files[0], lineSize) ELSE 0
        /\ 0 \in DOMAIN files => SizeOf(files[0], CountedSize) <= SizeOf(files[0], lineSize)
    BY <1>1, SizesAre
  <2>2. SizeOf(<< >>, CountedSize) = 0
    BY SizeEmpty
  <2> HIDE DEF CountedSize
  <2> QED
    BY <1>2, <1>3, <1>4, <2>1, <2>2 DEF SizeKnown
<1>6. MovedAway'
  BY <1>2 DEF MovedAway
<1>7. NextFits'
  <2>1. SizeOnDisk = IF 0 \in DOMAIN files THEN SizeOf(files[0], lineSize) ELSE 0
    BY <1>1, SizesAre
  <2> QED
    BY <1>1, <1>2, <2>1 DEF NextFits, MovedAway
<1>8. FilesFit'
  <2>1. /\ \A l \in 1 .. Written : lineSize'[l] = lineSize[l] /\ (l \in late' <=> l \in late)
        /\ Written <= Written'
    BY <1>1, <1>2, SizesAre DEF Written
  <2>2. \A k \in DOMAIN files' :
          files'[k] = << >> \/ \E g \in DOMAIN files : files'[k] = files[g]
    BY <1>3
  <2>3. "rename" \notin failed' => "rename" \notin failed
    BY <1>2
  <2> HIDE DEF Written
  <2> QED
    BY <1>1, <2>1, <2>2, <2>3, StillFit
<1> QED
  BY <1>5, <1>6, <1>7, <1>8

\* A line that is not counted comes to a file: what counts stays as it is.
LEMMA LineOutFits ==
  ASSUME LimitInv, LineOut
  PROVE  SizeKnown' /\ MovedAway' /\ NextFits' /\ FilesFit'
<1> DEFINE h == Head(buffered)
<1>1. SinkInv /\ Buffered /\ CountersTyped /\ SizeKnown /\ NextFits /\ FilesFit
  BY DEF LimitInv
<1>2. /\ stage \in {"ready", "rotate", "append"} /\ buffered # << >>
      /\ files' = [files EXCEPT ![0] = Append(@, h)]
      /\ UNCHANGED <<lineSize, late, sinkSize, stage, failed>>
  BY DEF LineOut
<1>3. SinkTypes /\ 0 \in DOMAIN files
  BY <1>1, <1>2 DEF SinkInv, SinkTypes
<1>4. h \in late /\ h \in 1 .. Written
  BY <1>1, <1>2, <1>3, FirstBuffered
<1>5. /\ Written \in Nat /\ Written <= Len(lineSize) /\ Len(lineSize) \in Nat
      /\ files[0] \in Seq(1 .. Written)
      /\ SizeOf(files[0], CountedSize) \in Nat /\ CountedSize[h] = 0
  <2>1. h \in 1 .. Len(lineSize)
    <3>1. Written <= Len(lineSize) /\ Written \in Nat /\ Len(lineSize) \in Nat
      BY <1>1, SizesAre
    <3> HIDE DEF h, Written
    <3> QED
      BY <1>4, <3>1
  <2> HIDE DEF h, Written, CountedSize
  <2> QED
    BY <1>1, <1>3, <1>4, <2>1, SizesAre
<1>6. CountedSize' = CountedSize
  BY <1>2 DEF CountedSize
<1> HIDE DEF h, Written, CountedSize
<1>7. /\ DOMAIN files' = DOMAIN files /\ files'[0] = Append(files[0], h)
      /\ \A k \in DOMAIN files : k # 0 => files'[k] = files[k]
  BY <1>2, <1>3
<1>8. SizeOf(files'[0], CountedSize) = SizeOf(files[0], CountedSize)
  <2>1. SizeOf(Append(files[0], h), CountedSize) = SizeOf(files[0], CountedSize) + CountedSize[h]
    BY <1>5, SizeAppended
  <2> QED
    BY <1>5, <1>7, <2>1
<1>9. Range(files'[0]) = Range(files[0]) \cup {h}
  BY <1>5, <1>7, AppendRange
<1>10. SizeKnown'
  BY <1>1, <1>2, <1>6, <1>8 DEF SizeKnown
<1>11. MovedAway' /\ NextFits'
  BY <1>1, <1>2 DEF MovedAway, NextFits
<1>12. FilesFit'
  <2> SUFFICES ASSUME MaxBytes > 0, "rename" \notin failed, NEW k \in DOMAIN files
               PROVE  FitsIn(files'[k], CountedSize, late)
    BY <1>2, <1>6, <1>7 DEF FilesFit
  <2>1. FitsIn(files[k], CountedSize, late)
    BY <1>1 DEF FilesFit
  <2>2. CASE k = 0
    BY <1>4, <1>8, <1>9, <2>1, <2>2 DEF FitsIn
  <2>3. CASE k # 0
    BY <1>7, <2>1, <2>3
  <2> QED
    BY <2>2, <2>3
<1> QED
  BY <1>10, <1>11, <1>12

\* A line whose write() raises does not count, in the buffer or lost.
LEMMA WriteFailsFits ==
  ASSUME LimitInv, SinkInv', WriteFails
  PROVE  SizeKnown' /\ MovedAway' /\ NextFits' /\ FilesFit'
<1>1. SinkInv /\ SizeKnown /\ FilesFit
  BY DEF LimitInv
<1>2. /\ stage \in {"rotate", "append"} /\ stage' = "ready"
      /\ late' = late \cup {Len(lineSize)} /\ UNCHANGED <<files, lineSize, sinkSize>>
      /\ "rename" \notin failed' => "rename" \notin failed
  BY DEF WriteFails, Fails
<1>3. /\ Written = Len(lineSize) - 1 /\ Written' = Len(lineSize) /\ Len(lineSize) \in Nat
      /\ 0 \in DOMAIN files
  BY <1>1, <1>2, SizesAre DEF Written, SinkInv, SinkTypes
<1>4. /\ \A l \in 1 .. Written : lineSize'[l] = lineSize[l] /\ (l \in late' <=> l \in late)
      /\ Written <= Written'
  <2>1. \A l \in 1 .. Len(lineSize) - 1 : l # Len(lineSize)
    BY <1>3
  <2> HIDE DEF Written
  <2> QED
    BY <1>2, <1>3, <2>1
<1> HIDE DEF Written
<1>5. SizeKnown'
  <2>1. SizeOf(files[0], CountedSize') = SizeOf(files[0], CountedSize)
    BY <1>1, <1>3, <1>4, SameSizes
  <2> HIDE DEF CountedSize
  <2> QED
    BY <1>1, <1>2, <2>1 DEF SizeKnown
<1>6. MovedAway' /\ NextFits'
  BY <1>2 DEF MovedAway, NextFits
<1>7. FilesFit'
  <2>1. \A k \in DOMAIN files' : \E g \in DOMAIN files : files'[k] = files[g]
    BY <1>2
  <2> QED
    BY <1>1, <1>2, <1>4, <2>1, StillFit
<1> QED
  BY <1>5, <1>6, <1>7

LEMMA AppendFits ==
  ASSUME LimitInv, AppendLine
  PROVE  SizeKnown' /\ MovedAway' /\ NextFits' /\ FilesFit'
<1> DEFINE n == Len(lineSize)
<1>1. SinkInv /\ Buffered /\ CountersTyped /\ SizeKnown /\ NextFits /\ FilesFit
  BY DEF LimitInv
<1>2. /\ stage = "append" /\ stage' = "ready"
      /\ files' = [files EXCEPT ![0] = Append(@, n)]
      /\ sinkSize' = sinkSize + lineSize[n] /\ UNCHANGED <<lineSize, late, failed>>
  BY DEF AppendLine, Last
<1>3. /\ 0 \in DOMAIN files /\ n \in 1 .. n /\ lineSize[n] \in Nat \ {0} /\ n \notin late
      /\ CountedSize[n] = lineSize[n]
  <2>1. 0 \in DOMAIN files /\ lineSize # << >> /\ lineSize \in Seq(LineSize)
    BY <1>1, <1>2 DEF SinkInv, SinkTypes
  <2>2. n \in 1 .. n
    BY <2>1
  <2>3. n \notin late
    <3>1. late \subseteq 1 .. n - 1 /\ n \in Nat
      BY <1>1, <1>2, SizesAre DEF Buffered, Written
    <3> QED
      BY <3>1
  <2> HIDE DEF CountedSize
  <2> QED
    BY <1>1, <2>1, <2>2, <2>3, SizesAre
<1>4. /\ Written \in Nat /\ files[0] \in Seq(1 .. Written) /\ MaxBytes \in Nat
      /\ SizeOf(files[0], CountedSize) \in Nat
      /\ SizeOf(files[0], CountedSize) = 0 => Range(files[0]) \subseteq late
  BY <1>1, <1>3, SizesAre
<1>5. CountedSize' = CountedSize
  BY <1>2 DEF CountedSize
<1> HIDE DEF n, Written, CountedSize
<1>6. /\ DOMAIN files' = DOMAIN files /\ files'[0] = Append(files[0], n)
      /\ \A k \in DOMAIN files : k # 0 => files'[k] = files[k]
  BY <1>2, <1>3
<1>7. SizeOf(files'[0], CountedSize) = SizeOf(files[0], CountedSize) + lineSize[n]
  BY <1>3, <1>4, <1>6, SizeAppended
<1>8. SizeOf(files[0], CountedSize) <= sinkSize /\ sinkSize \in Nat
  BY <1>1, <1>2 DEF SizeKnown, CountersTyped
<1>9. SizeKnown'
  BY <1>2, <1>3, <1>4, <1>5, <1>7, <1>8 DEF SizeKnown
<1>10. MovedAway' /\ NextFits'
  BY <1>2 DEF MovedAway, NextFits
<1>11. Range(files'[0]) = Range(files[0]) \cup {n}
  BY <1>4, <1>6, AppendRange
<1>12. FilesFit'
  <2> SUFFICES ASSUME MaxBytes > 0, "rename" \notin failed, NEW k \in DOMAIN files
               PROVE  FitsIn(files'[k], CountedSize, late)
    BY <1>2, <1>5, <1>6 DEF FilesFit
  <2>1. CASE k = 0
    <3>1. sinkSize = 0 \/ sinkSize + lineSize[n] <= MaxBytes
      BY <1>1, <1>2 DEF NextFits, n
    <3>2. CASE sinkSize = 0
      <4>1. Range(files[0]) \subseteq late
        BY <1>4, <1>8, <3>2
      <4>2. n \in Range(files'[0]) /\ Range(files'[0]) \ late \subseteq {n}
        BY <1>11, <4>1
      <4> QED
        BY <2>1, <4>2 DEF FitsIn
    <3>3. CASE sinkSize + lineSize[n] <= MaxBytes
      <4>1. SizeOf(files'[0], CountedSize) <= MaxBytes
        BY <1>3, <1>4, <1>7, <1>8, <3>3
      <4> QED
        BY <2>1, <4>1 DEF FitsIn
    <3> QED
      BY <3>1, <3>2, <3>3
  <2>2. CASE k # 0
    BY <1>1, <1>6, <2>2 DEF FilesFit
  <2> QED
    BY <2>1, <2>2
<1> QED
  BY <1>9, <1>10, <1>12

LEMMA ExitFits ==
  ASSUME LimitInv, SinkInv', ExitAndOpen
  PROVE  SizeKnown' /\ MovedAway' /\ NextFits' /\ FilesFit'
<1>1. SinkInv /\ FilesFit
  BY DEF LimitInv
<1>2. /\ stage' = "ready" /\ files' = WithFile(files) /\ sinkSize' = SizeOnDisk
      /\ late' = late /\ failed' = failed
  BY DEF ExitAndOpen
<1>3. /\ DOMAIN files' = DOMAIN files \cup {0}
      /\ \A k \in DOMAIN files : files'[k] = files[k]
      /\ 0 \notin DOMAIN files => files'[0] = << >>
  BY <1>2, WithFileIs
<1>4. /\ \A l \in 1 .. Written : lineSize'[l] = lineSize[l] /\ (l \in late' <=> l \in late)
      /\ Written <= Written'
  <2>1. Written' = Written /\ \A l \in 1 .. Written : lineSize'[l] = lineSize[l]
    BY <1>1, ExitWrites
  <2>2. Written \in Nat
    BY <1>1, SizesAre
  <2> HIDE DEF Written
  <2> QED
    BY <1>2, <2>1, <2>2
<1> HIDE DEF Written
<1>5. SizeKnown'
  <2>1. /\ SizeOnDisk = IF 0 \in DOMAIN files THEN SizeOf(files[0], lineSize) ELSE 0
        /\ 0 \in DOMAIN files => SizeOf(files[0], CountedSize) <= SizeOf(files[0], lineSize)
    BY <1>1, SizesAre
  <2>2. 0 \in DOMAIN files => SizeOf(files[0], CountedSize') = SizeOf(files[0], CountedSize)
    BY <1>1, <1>4, SameSizes
  <2>3. SizeOf(<< >>, CountedSize') = 0
    BY SizeEmpty
  <2> HIDE DEF CountedSize
  <2> QED
    BY <1>2, <1>3, <2>1, <2>2, <2>3 DEF SizeKnown
<1>6. MovedAway' /\ NextFits'
  BY <1>2 DEF MovedAway, NextFits
<1>7. FilesFit'
  <2>1. \A k \in DOMAIN files' :
          files'[k] = << >> \/ \E g \in DOMAIN files : files'[k] = files[g]
    BY <1>3
  <2>2. "rename" \notin failed' => "rename" \notin failed
    BY <1>2
  <2> QED
    BY <1>1, <1>4, <2>1, <2>2, StillFit
<1> QED
  BY <1>5, <1>6, <1>7

LEMMA LimitSteps ==
  ASSUME LimitInv, [SinkNext]_sinkVars PROVE LimitInv'
<1>1. SinkInv' /\ Buffered' /\ CountersTyped'
  <2>1. SinkInv'
    BY SinkSteps DEF LimitInv
  <2> QED
    BY <2>1, BufferSteps, CountersStep DEF LimitInv
<1>2. ASSUME OpenFails PROVE SizeKnown' /\ MovedAway' /\ NextFits' /\ FilesFit'
  <2>1. /\ stage' = "broken" /\ UNCHANGED <<files, lineSize, late>>
        /\ "rename" \notin failed' => "rename" \notin failed
    BY <1>2 DEF OpenFails, Fails
  <2>2. FilesFit
    BY DEF LimitInv
  <2> QED
    BY <2>1, <2>2 DEF SizeKnown, MovedAway, NextFits, FilesFit, CountedSize
<1>3. ASSUME UNCHANGED sinkVars PROVE SizeKnown' /\ MovedAway' /\ NextFits' /\ FilesFit'
  BY <1>3 DEF LimitInv, sinkVars, SizeKnown, MovedAway, NextFits, FilesFit, CountedSize
<1>4. SizeKnown' /\ MovedAway' /\ NextFits' /\ FilesFit'
  BY <1>1, <1>2, <1>3, WriteLineFits, RotateFits, OpenFits, LineOutFits, WriteFailsFits,
     AppendFits, ExitFits DEF SinkNext
<1> QED
  BY <1>1, <1>4 DEF LimitInv

THEOREM LimitIsInvariant == SinkSpec => []LimitInv
<1> QED
  BY LimitInitially, LimitSteps, PTL DEF SinkSpec

LEMMA LimitTypes ==
  ASSUME LimitInv PROVE SinkTypeOK
<1>1. SinkInv /\ Buffered /\ CountersTyped /\ SinkTypes
  BY DEF LimitInv, SinkInv
<1>2. Written \in Nat /\ Written <= Len(lineSize) /\ Len(lineSize) \in Nat
  BY <1>1, SizesAre
<1>3. 1 .. Written \subseteq 1 .. Len(lineSize)
  <2> HIDE DEF Written
  <2> QED
    BY <1>2
<1>4. \A i \in DOMAIN files : Range(files[i]) \subseteq 1 .. Len(lineSize)
  <2> HIDE DEF Written
  <2>1. \A i \in DOMAIN files : Range(files[i]) \subseteq 1 .. Written
    BY <1>1, ElementsOf DEF SinkTypes
  <2> QED
    BY <1>3, <2>1
<1>5. buffered \in Seq(late) /\ late \subseteq 1 .. Len(lineSize)
  <2> HIDE DEF Written
  <2> QED
    BY <1>1, <1>3 DEF Buffered
<1> QED
  BY <1>1, <1>4, <1>5 DEF SinkTypes, CountersTyped, SinkTypeOK

\* The files hold lines that were written, and the counters stay in their ranges,
\* whatever fails.
THEOREM SinkTypeCorrect == SinkSpec => []SinkTypeOK
<1> QED
  BY LimitTypes, LimitIsInvariant, PTL

\* Unless a rename failed, the lines of a file that write() has counted in _size are
\* larger than max_bytes only if there is one of them (sink.py:91-93, 134, 145-153),
\* whatever writes and flushes fail and however often the process ends inside rotate().
THEOREM FilesKeepLimit == SinkSpec => []FilesWithinLimit
<1>1. LimitInv => FilesWithinLimit
  BY DEF LimitInv, FilesFit, FitsIn, FilesWithinLimit
<1> QED
  BY <1>1, LimitIsInvariant, PTL

=============================================================================
