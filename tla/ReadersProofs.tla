--------------------------- MODULE ReadersProofs ---------------------------
(***************************************************************************)
(* Theorems about what the agent reads: the readers of log files           *)
(* (Readers), for every text and every way to cut it; the journald thread  *)
(* (Journald), for every number of entries and restarts and every size of  *)
(* the queue; and the types of the parts of MCParts together.              *)
(***************************************************************************)
EXTENDS MCParts, SourcesProofs, SinkProofs

-----------------------------------------------------------------------------
(* Induction over numbers and sequences, with a set for the property *)

LEMMA AllNumbers ==
  ASSUME NEW S, 0 \in S, \A n \in Nat : n \in S => n + 1 \in S
  PROVE  \A n \in Nat : n \in S
<1> DEFINE bad == Nat \ S
<1>1. SUFFICES ASSUME bad # {} PROVE FALSE
  OBVIOUS
<1>2. PICK k \in bad : \A j \in bad : ~(j < k)
  <2>1. bad \subseteq Nat
    OBVIOUS
  <2> HIDE DEF bad
  <2> QED
    BY <1>1, <2>1, LeastOf
<1>3. k \in Nat /\ k \notin S /\ k # 0
  OBVIOUS
<1>4. k - 1 \in Nat /\ k - 1 < k /\ (k - 1) + 1 = k
  BY <1>3
<1>5. k - 1 \in S
  BY <1>2, <1>4
<1> QED
  BY <1>3, <1>4, <1>5

LEMMA AllSequences ==
  ASSUME NEW E, NEW S, << >> \in S,
         \A s \in Seq(E) : \A e \in E : s \in S => Append(s, e) \in S
  PROVE  \A s \in Seq(E) : s \in S
<1> DEFINE good == {n \in Nat : \A s \in Seq(E) : Len(s) = n => s \in S}
<1>1. 0 \in good
  <2>1. ASSUME NEW s \in Seq(E), Len(s) = 0 PROVE s \in S
    <3>1. s = << >>
      BY <2>1
    <3> QED
      BY <3>1
  <2> QED
    BY <2>1
<1>2. ASSUME NEW n \in Nat, n \in good PROVE n + 1 \in good
  <2>1. ASSUME NEW s \in Seq(E), Len(s) = n + 1 PROVE s \in S
    <3>1. s # << >>
      BY <2>1
    <3>2. PICK t \in Seq(E), e \in E : s = Append(t, e)
      BY <3>1, SequenceEmptyOrAppend
    <3>3. Len(s) = Len(t) + 1 /\ Len(t) \in Nat
      BY <3>2
    <3>4. Len(t) = n
      BY <2>1, <3>3
    <3> QED
      BY <1>2, <3>2, <3>4
  <2> QED
    BY <2>1
<1>3. \A n \in Nat : n \in good
  <2> HIDE DEF good
  <2> QED
    BY <1>1, <1>2, AllNumbers
<1>4. ASSUME NEW s \in Seq(E) PROVE s \in S
  <2>1. Len(s) \in Nat
    OBVIOUS
  <2> QED
    BY <1>3, <2>1
<1> QED
  BY <1>4

-----------------------------------------------------------------------------
(* Folds: what a function of a state and an element makes of a sequence *)

Steps(c, F, initial, seq) ==
  c = [k \in 0 .. Len(seq) |-> IF k = 0 THEN initial ELSE F[<<c[k - 1], seq[k]>>]]

Final(F, initial, seq) == (CHOOSE c : Steps(c, F, initial, seq))[Len(seq)]

LEMMA StepsExist ==
  ASSUME NEW F, NEW initial, NEW seq, Len(seq) \in Nat
  PROVE  \E c : Steps(c, F, initial, seq)
<1> DEFINE R(c, n) == c = [k \in 0 .. n |-> IF k = 0 THEN initial ELSE F[<<c[k - 1], seq[k]>>]]
           good == {n \in Nat : \E c : R(c, n)}
<1>1. 0 \in good
  <2> DEFINE c == [k \in 0 .. 0 |-> initial]
  <2>1. R(c, 0)
    OBVIOUS
  <2> QED
    BY <2>1
<1>2. ASSUME NEW n \in Nat, n \in good PROVE n + 1 \in good
  <2>1. PICK c : R(c, n)
    BY <1>2
  <2> DEFINE d == [k \in 0 .. n + 1 |-> IF k = n + 1 THEN F[<<c[n], seq[n + 1]>>] ELSE c[k]]
  <2>2. ASSUME NEW k \in 0 .. n + 1
        PROVE  d[k] = IF k = 0 THEN initial ELSE F[<<d[k - 1], seq[k]>>]
    <3>1. CASE k = n + 1
      <4>1. k # 0 /\ k - 1 = n /\ n \in 0 .. n + 1 /\ n # n + 1
        BY <3>1
      <4>2. d[n] = c[n]
        BY <4>1
      <4> QED
        BY <3>1, <4>1, <4>2
    <3>2. CASE k # n + 1
      <4>1. k \in 0 .. n /\ (k # 0 => k - 1 \in 0 .. n + 1 /\ k - 1 # n + 1)
        BY <3>2
      <4>2. c[k] = IF k = 0 THEN initial ELSE F[<<c[k - 1], seq[k]>>]
        BY <2>1, <4>1
      <4>3. d[k] = c[k] /\ (k # 0 => d[k - 1] = c[k - 1])
        BY <3>2, <4>1
      <4> QED
        BY <4>2, <4>3
    <3> QED
      BY <3>1, <3>2
  <2>3. R(d, n + 1)
    <3> DEFINE h == [k \in 0 .. n + 1 |-> IF k = 0 THEN initial ELSE F[<<d[k - 1], seq[k]>>]]
    <3>1. \A k \in 0 .. n + 1 : d[k] = h[k]
      BY <2>2
    <3>2. d = [k \in 0 .. n + 1 |-> d[k]]
      OBVIOUS
    <3> HIDE DEF d
    <3> QED
      BY <3>1, <3>2
  <2> HIDE DEF d, R
  <2> QED
    BY <2>3
<1>3. \A n \in Nat : n \in good
  <2> HIDE DEF good
  <2> QED
    BY <1>1, <1>2, AllNumbers
<1> QED
  BY <1>3 DEF Steps

\* The steps of two folds with the same beginning are the same.
LEMMA StepsAgree ==
  ASSUME NEW F, NEW initial, NEW s, NEW t, Len(s) \in Nat, Len(t) \in Nat,
         NEW c, NEW d, Steps(c, F, initial, s), Steps(d, F, initial, t),
         NEW n \in Nat, n <= Len(s), n <= Len(t), \A k \in 1 .. n : s[k] = t[k]
  PROVE  \A k \in 0 .. n : c[k] = d[k]
<1> DEFINE good == {k \in Nat : k <= n => c[k] = d[k]}
<1>1. 0 \in good
  BY DEF Steps
<1>2. ASSUME NEW k \in Nat, k \in good PROVE k + 1 \in good
  <2>1. SUFFICES ASSUME k + 1 <= n PROVE c[k + 1] = d[k + 1]
    OBVIOUS
  <2>2. /\ k + 1 \in 0 .. Len(s) /\ k + 1 \in 0 .. Len(t) /\ k + 1 # 0 /\ (k + 1) - 1 = k
        /\ k + 1 \in 1 .. n /\ k <= n
    BY <2>1
  <2>3. c[k] = d[k] /\ s[k + 1] = t[k + 1]
    BY <1>2, <2>2
  <2>4. c[k + 1] = F[<<c[k], s[k + 1]>>]
    BY <2>2 DEF Steps
  <2>5. d[k + 1] = F[<<d[k], t[k + 1]>>]
    BY <2>2 DEF Steps
  <2> QED
    BY <2>3, <2>4, <2>5
<1>3. \A k \in Nat : k \in good
  <2> HIDE DEF good
  <2> QED
    BY <1>1, <1>2, AllNumbers
<1> QED
  BY <1>3

LEMMA FinalEmpty == ASSUME NEW F, NEW initial PROVE Final(F, initial, << >>) = initial
<1>1. Len(<< >>) = 0
  OBVIOUS
<1>2. Steps(CHOOSE c : Steps(c, F, initial, << >>), F, initial, << >>)
  BY <1>1, StepsExist
<1> QED
  BY <1>1, <1>2 DEF Final, Steps

LEMMA FinalAppend ==
  ASSUME NEW F, NEW initial, NEW E, NEW s \in Seq(E), NEW e \in E
  PROVE  Final(F, initial, Append(s, e)) = F[<<Final(F, initial, s), e>>]
<1> DEFINE t == Append(s, e)
           c == CHOOSE x : Steps(x, F, initial, s)
           d == CHOOSE x : Steps(x, F, initial, t)
<1>1. /\ Len(s) \in Nat /\ Len(t) = Len(s) + 1 /\ t[Len(s) + 1] = e
      /\ \A k \in 1 .. Len(s) : s[k] = t[k]
  OBVIOUS
<1> HIDE DEF t
<1>2. Steps(c, F, initial, s) /\ Steps(d, F, initial, t)
  BY <1>1, StepsExist
<1> HIDE DEF c, d
<1>3. \A k \in 0 .. Len(s) : c[k] = d[k]
  BY <1>1, <1>2, StepsAgree
<1>4. d[Len(s) + 1] = F[<<d[Len(s)], e>>]
  <2>1. Len(s) + 1 \in 0 .. Len(t) /\ Len(s) + 1 # 0 /\ (Len(s) + 1) - 1 = Len(s)
    BY <1>1
  <2> QED
    BY <1>1, <1>2, <2>1 DEF Steps
<1>5. d[Len(s)] = c[Len(s)]
  BY <1>1, <1>3
<1>6. Final(F, initial, s) = c[Len(s)] /\ Final(F, initial, t) = d[Len(s) + 1]
  BY <1>1 DEF Final, c, d
<1>7. Final(F, initial, t) = F[<<Final(F, initial, s), e>>]
  BY <1>4, <1>5, <1>6
<1> QED
  BY <1>7 DEF t

\* What every step keeps the end has.
LEMMA FinalIn ==
  ASSUME NEW F, NEW E, NEW I, NEW initial \in I, \A x \in I : \A e \in E : F[<<x, e>>] \in I
  PROVE  \A s \in Seq(E) : Final(F, initial, s) \in I
<1> DEFINE S == {s \in Seq(E) : Final(F, initial, s) \in I}
<1>1. << >> \in S
  BY FinalEmpty
<1>2. ASSUME NEW s \in Seq(E), NEW e \in E, s \in S PROVE Append(s, e) \in S
  <2>1. Final(F, initial, Append(s, e)) = F[<<Final(F, initial, s), e>>]
    BY FinalAppend
  <2>2. Final(F, initial, s) \in I
    BY <1>2
  <2>3. Append(s, e) \in Seq(E)
    OBVIOUS
  <2> QED
    BY <2>1, <2>2, <2>3
<1>3. \A s \in Seq(E) : s \in S
  <2> HIDE DEF S
  <2> QED
    BY <1>1, <1>2, AllSequences
<1> QED
  BY <1>3

LEMMA ConcatAppend ==
  ASSUME NEW E, NEW s \in Seq(E), NEW t \in Seq(E), NEW e \in E
  PROVE  s \o t \in Seq(E) /\ s \o Append(t, e) = Append(s \o t, e)
<1>1. <<e>> \in Seq(E) /\ s \o t \in Seq(E)
  OBVIOUS
<1>2. (s \o t) \o <<e>> = s \o (t \o <<e>>)
  BY <1>1, ConcatAssociative
<1>3. Append(t, e) = t \o <<e>> /\ Append(s \o t, e) = (s \o t) \o <<e>>
  BY <1>1, AppendIsConcat
<1> QED
  BY <1>1, <1>2, <1>3

\* A sequence in two parts can be folded one part after the other.
LEMMA FinalConcat ==
  ASSUME NEW F, NEW initial, NEW E, NEW s \in Seq(E)
  PROVE  \A t \in Seq(E) : Final(F, initial, s \o t) = Final(F, Final(F, initial, s), t)
<1> DEFINE S == {t \in Seq(E) : Final(F, initial, s \o t) = Final(F, Final(F, initial, s), t)}
<1>1. << >> \in S
  BY FinalEmpty, ConcatEmptySeq
<1>2. ASSUME NEW t \in Seq(E), NEW e \in E, t \in S PROVE Append(t, e) \in S
  <2>1. s \o t \in Seq(E) /\ s \o Append(t, e) = Append(s \o t, e)
    BY ConcatAppend
  <2>2. \A u \in Seq(E) : Final(F, initial, Append(u, e)) = F[<<Final(F, initial, u), e>>]
    BY FinalAppend
  <2>3. Final(F, Final(F, initial, s), Append(t, e)) = F[<<Final(F, Final(F, initial, s), t), e>>]
    BY FinalAppend
  <2>4. Final(F, initial, s \o t) = Final(F, Final(F, initial, s), t)
    BY <1>2
  <2>5. Append(t, e) \in Seq(E)
    OBVIOUS
  <2> QED
    BY <2>1, <2>2, <2>3, <2>4, <2>5
<1>3. \A t \in Seq(E) : t \in S
  <2> HIDE DEF S
  <2> QED
    BY <1>1, <1>2, AllSequences
<1> QED
  BY <1>3

-----------------------------------------------------------------------------
(* FoldLeft of the community modules takes the places of a sequence from the *)
(* largest down, by recursion over the sets of places                        *)

Solves(g, F, initial, seq) ==
  \A s \in SUBSET (1 .. Len(seq)) :
    g[s] = IF s = {} THEN initial ELSE F[<<g[s \ {Max(s)}], seq[Max(s)]>>]

\* With a function for the operator the recursion has a solution.
LEMMA SetFoldExists ==
  ASSUME NEW T, NEW E, NEW F \in [T \X E -> T], NEW initial \in T, NEW seq \in Seq(E)
  PROVE  \E g \in [SUBSET (1 .. Len(seq)) -> T] : Solves(g, F, initial, seq)
<1> DEFINE R(g, n) == \A s \in SUBSET (1 .. n) :
                        g[s] = IF s = {} THEN initial ELSE F[<<g[s \ {Max(s)}], seq[Max(s)]>>]
           Has(n) == \E g \in [SUBSET (1 .. n) -> T] : R(g, n)
           good == {n \in Nat : n <= Len(seq) => Has(n)}
<1>1. 0 \in good
  <2> DEFINE g == [s \in SUBSET (1 .. 0) |-> initial]
  <2>1. R(g, 0)
    OBVIOUS
  <2>2. g \in [SUBSET (1 .. 0) -> T]
    OBVIOUS
  <2> QED
    BY <2>1, <2>2
<1>2. ASSUME NEW n \in Nat, n \in good PROVE n + 1 \in good
  <2> HIDE DEF Has
  <2>1. SUFFICES ASSUME n + 1 <= Len(seq) PROVE Has(n + 1)
    OBVIOUS
  <2>2. n <= Len(seq) /\ seq[n + 1] \in E
    BY <2>1
  <2>21. Has(n)
    BY <1>2, <2>2
  <2>3. PICK f \in [SUBSET (1 .. n) -> T] : R(f, n)
    BY <2>21 DEF Has
  <2> DEFINE g == [s \in SUBSET (1 .. n + 1) |->
                     IF n + 1 \in s THEN F[<<f[s \ {n + 1}], seq[n + 1]>>] ELSE f[s]]
  <2>4. \A s \in SUBSET (1 .. n + 1) : s \ {n + 1} \in SUBSET (1 .. n)
    OBVIOUS
  <2>5. \A s \in SUBSET (1 .. n + 1) : n + 1 \notin s => s \in SUBSET (1 .. n)
    OBVIOUS
  <2>6. g \in [SUBSET (1 .. n + 1) -> T]
    BY <2>2, <2>4, <2>5
  <2>7. ASSUME NEW s \in SUBSET (1 .. n + 1)
        PROVE  g[s] = IF s = {} THEN initial ELSE F[<<g[s \ {Max(s)}], seq[Max(s)]>>]
    <3>1. CASE n + 1 \in s
      <4>1. Max(s) = n + 1
        <5>1. n + 1 \in Nat /\ s \subseteq 1 .. n + 1 /\ s # {}
          BY <3>1
        <5>2. Max(s) \in s /\ n + 1 <= Max(s)
          BY <3>1, <5>1, MaxIs
        <5>3. Max(s) \in 1 .. n + 1
          BY <5>1, <5>2
        <5> QED
          BY ONLY <5>2, <5>3, n \in Nat
      <4>2. g[s \ {n + 1}] = f[s \ {n + 1}]
        <5>1. s \ {n + 1} \in SUBSET (1 .. n + 1) /\ n + 1 \notin s \ {n + 1}
          OBVIOUS
        <5> QED
          BY <5>1
      <4>3. g[s] = F[<<f[s \ {n + 1}], seq[n + 1]>>]
        BY <3>1
      <4> HIDE DEF g
      <4> QED
        BY <3>1, <4>1, <4>2, <4>3
    <3>2. CASE n + 1 \notin s
      <4>1. s \in SUBSET (1 .. n) /\ g[s] = f[s]
        BY <2>5, <3>2
      <4>2. f[s] = IF s = {} THEN initial ELSE F[<<f[s \ {Max(s)}], seq[Max(s)]>>]
        BY <2>3, <4>1
      <4>3. g[s \ {Max(s)}] = f[s \ {Max(s)}]
        <5>1. s \ {Max(s)} \in SUBSET (1 .. n + 1) /\ n + 1 \notin s \ {Max(s)}
          BY <3>2
        <5> QED
          BY <5>1
      <4> HIDE DEF g
      <4> QED
        BY <4>1, <4>2, <4>3
    <3> QED
      BY <3>1, <3>2
  <2> HIDE DEF g
  <2> QED
    BY <2>6, <2>7 DEF Has
<1>3. \A n \in Nat : n \in good
  <2> HIDE DEF good
  <2> QED
    BY <1>1, <1>2, AllNumbers
<1>4. Len(seq) \in Nat
  OBVIOUS
<1>5. Has(Len(seq))
  <2> HIDE DEF Has
  <2> QED
    BY <1>3, <1>4
<1> QED
  BY <1>5 DEF Solves

\* A solution, whatever it is outside the states, ends where the fold ends.
LEMMA SetFoldIs ==
  ASSUME NEW T, NEW E, NEW F \in [T \X E -> T], NEW initial \in T, NEW seq \in Seq(E), NEW g,
         \A s \in SUBSET (1 .. Len(seq)) :
           IF s = {} THEN g[s] = initial
           ELSE g[s \ {Max(s)}] \in T => g[s] = F[<<g[s \ {Max(s)}], seq[Max(s)]>>]
  PROVE  g[1 .. Len(seq)] = Final(F, initial, seq) /\ Final(F, initial, seq) \in T
<1> DEFINE c == CHOOSE x : Steps(x, F, initial, seq)
           good == {n \in Nat : n <= Len(seq) => g[1 .. n] = c[n] /\ c[n] \in T}
<1>1. Len(seq) \in Nat
  OBVIOUS
<1>2. Steps(c, F, initial, seq)
  BY <1>1, StepsExist
<1>3. Final(F, initial, seq) = c[Len(seq)]
  BY DEF Final
<1> HIDE DEF c
<1>4. 0 \in good
  <2>1. 1 .. 0 = {} /\ {} \in SUBSET (1 .. Len(seq))
    OBVIOUS
  <2>2. g[{}] = initial
    BY <2>1
  <2>3. c[0] = initial
    BY <1>1, <1>2 DEF Steps
  <2> QED
    BY <2>1, <2>2, <2>3
<1>5. ASSUME NEW n \in Nat, n \in good PROVE n + 1 \in good
  <2>1. SUFFICES ASSUME n + 1 <= Len(seq) PROVE g[1 .. n + 1] = c[n + 1] /\ c[n + 1] \in T
    OBVIOUS
  <2> DEFINE s == 1 .. n + 1
  <2>2. n + 1 \in Nat /\ n + 1 \in s
    OBVIOUS
  <2>3. Max(s) = n + 1
    <3>1. Max(s) \in 1 .. n + 1 /\ n + 1 <= Max(s)
      BY <2>2, MaxIs
    <3> QED
      BY <3>1
  <2>10. s \in SUBSET (1 .. Len(seq)) /\ s # {}
    <3>1. \A k \in 1 .. n + 1 : k \in 1 .. Len(seq)
      BY ONLY <1>1, <2>1, n \in Nat
    <3> QED
      BY <2>2, <3>1
  <2>4. s \ {n + 1} = 1 .. n
    OBVIOUS
  <2> HIDE DEF s
  <2>5. g[1 .. n] = c[n] /\ c[n] \in T
    BY <1>1, <1>5, <2>1
  <2>6. g[s] = F[<<c[n], seq[n + 1]>>]
    BY <2>10, <2>3, <2>4, <2>5
  <2>7. c[n + 1] = F[<<c[n], seq[n + 1]>>]
    <3>1. n + 1 \in 0 .. Len(seq) /\ n + 1 # 0 /\ (n + 1) - 1 = n
      BY <1>1, <2>1
    <3> QED
      BY <1>2, <3>1 DEF Steps
  <2>8. seq[n + 1] \in E
    BY <2>1
  <2>9. c[n + 1] \in T
    BY <2>5, <2>7, <2>8
  <2> QED
    BY <2>6, <2>7, <2>9 DEF s
<1>6. \A n \in Nat : n \in good
  <2> HIDE DEF good
  <2> QED
    BY <1>4, <1>5, AllNumbers
<1> QED
  BY <1>1, <1>3, <1>6

-----------------------------------------------------------------------------
(* What the folds of the JSON reader come to *)

JsonText == Seq(JsonByte)

ScanState == [depth : Int, string : BOOLEAN, escape : BOOLEAN]
ScanF == [p \in ScanState \X JsonByte |-> Scan(p[1], p[2])]

PassState == [out : Seq(Seq(JsonText)), open : JsonText, scan : ScanState]
PassF == [p \in PassState \X JsonByte |-> OnePass(p[1], p[2])]

TakeState == [out : Seq(JsonText), rest : JsonText]
TakeF == [p \in TakeState \X Nat |-> ExtractOne(p[1])]

LEMMA MinIs ==
  ASSUME NEW s \in SUBSET Nat, s # {}
  PROVE  Min(s) \in s /\ \A m \in s : Min(s) <= m
<1>1. PICK k \in s : \A j \in s : ~(j < k)
  BY LeastOf
<1>2. k \in s /\ \A j \in s : k <= j
  BY <1>1
<1>3. Min(s) \in s /\ \A m \in s : Min(s) =< m
  BY <1>2 DEF Min
<1> QED
  BY <1>3

LEMMA ScanType ==
  ASSUME NEW x \in ScanState, NEW ch \in JsonByte
  PROVE  Scan(x, ch) \in ScanState
<1> DEFINE y == Scan(x, ch)
<1>1. /\ x.depth \in Int /\ x.string \in BOOLEAN /\ x.escape \in BOOLEAN
      /\ x = [depth |-> x.depth, string |-> x.string, escape |-> x.escape]
  BY DEF ScanState
<1>2. \E d \in Int : \E a, b \in BOOLEAN : y = [depth |-> d, string |-> a, escape |-> b]
  <2>1. CASE x.string
    <3>1. y \in {[x EXCEPT !.escape = FALSE], [x EXCEPT !.escape = TRUE], [x EXCEPT !.string = FALSE], x}
      BY <2>1 DEF Scan
    <3> QED
      BY <1>1, <3>1
  <2>2. CASE ~x.string
    <3>1. y \in {[x EXCEPT !.string = TRUE], [x EXCEPT !.depth = x.depth + 1],
                 [x EXCEPT !.depth = x.depth - 1], x}
      BY <2>2 DEF Scan
    <3> HIDE DEF y
    <3>2. x.depth + 1 \in Int /\ x.depth - 1 \in Int
      BY <1>1
    <3> QED
      BY <1>1, <3>1, <3>2
  <2> QED
    BY <2>1, <2>2
<1> QED
  BY <1>2 DEF ScanState

LEMMA ScanTyped == ScanF \in [ScanState \X JsonByte -> ScanState] /\ Outside \in ScanState
<1>1. \A p \in ScanState \X JsonByte : Scan(p[1], p[2]) \in ScanState
  BY ScanType
<1> QED
  BY <1>1 DEF ScanF, Outside, ScanState

LEMMA ScanFold ==
  ASSUME NEW initial \in ScanState, NEW seq \in JsonText
  PROVE  /\ FoldLeft(Scan, initial, seq) = Final(ScanF, initial, seq)
         /\ Final(ScanF, initial, seq) \in ScanState
<1> DEFINE R(g) == g = [s \in SUBSET DOMAIN seq |->
                          IF s = {} THEN initial ELSE Scan(g[s \ {Max(s)}], seq[Max(s)])]
           f == CHOOSE g : R(g)
<1>1. FoldLeft(Scan, initial, seq) = f[DOMAIN seq]
  BY DEF FoldLeft, MapThenFoldSet
<1>2. DOMAIN seq = 1 .. Len(seq) /\ Len(seq) \in Nat /\ \A k \in 1 .. Len(seq) : seq[k] \in JsonByte
  BY DEF JsonText
<1>3. \A s \in SUBSET (1 .. Len(seq)) : s # {} => seq[Max(s)] \in JsonByte
  BY <1>2, MaxIs
<1>4. seq \in Seq(JsonByte)
  BY DEF JsonText
<1>5. PICK h \in [SUBSET (1 .. Len(seq)) -> ScanState] : Solves(h, ScanF, initial, seq)
  BY <1>4, ScanTyped, SetFoldExists
<1>6. \A s \in SUBSET (1 .. Len(seq)) :
        h[s] = IF s = {} THEN initial ELSE Scan(h[s \ {Max(s)}], seq[Max(s)])
  <2> SUFFICES ASSUME NEW s \in SUBSET (1 .. Len(seq)), s # {}
               PROVE  h[s] = Scan(h[s \ {Max(s)}], seq[Max(s)])
    BY <1>5 DEF Solves
  <2>1. h[s \ {Max(s)}] \in ScanState
    OBVIOUS
  <2>2. h[s] = ScanF[<<h[s \ {Max(s)}], seq[Max(s)]>>]
    BY <1>5 DEF Solves
  <2> QED
    BY <1>3, <2>1, <2>2 DEF ScanF
<1>7. R(f)
  <2>1. h = [s \in SUBSET (1 .. Len(seq)) |-> h[s]]
    OBVIOUS
  <2>2. R(h)
    BY <1>2, <1>6, <2>1
  <2> HIDE DEF R
  <2> QED
    BY <2>2
<1> HIDE DEF f
<1>8. \A s \in SUBSET (1 .. Len(seq)) :
        IF s = {} THEN f[s] = initial
        ELSE f[s \ {Max(s)}] \in ScanState => f[s] = ScanF[<<f[s \ {Max(s)}], seq[Max(s)]>>]
  <2> SUFFICES ASSUME NEW s \in SUBSET (1 .. Len(seq))
               PROVE  IF s = {} THEN f[s] = initial
                      ELSE f[s \ {Max(s)}] \in ScanState
                             => f[s] = ScanF[<<f[s \ {Max(s)}], seq[Max(s)]>>]
    OBVIOUS
  <2>1. f[s] = IF s = {} THEN initial ELSE Scan(f[s \ {Max(s)}], seq[Max(s)])
    BY <1>2, <1>7
  <2> QED
    BY <1>3, <2>1 DEF ScanF
<1>9. f[1 .. Len(seq)] = Final(ScanF, initial, seq) /\ Final(ScanF, initial, seq) \in ScanState
  BY <1>4, <1>8, ScanTyped, SetFoldIs
<1> QED
  BY <1>1, <1>2, <1>9

LEMMA PassType ==
  ASSUME NEW x \in PassState, NEW ch \in JsonByte
  PROVE  OnePass(x, ch) \in PassState
<1>1. /\ x.out \in Seq(Seq(JsonText)) /\ x.open \in JsonText /\ x.scan \in ScanState
      /\ x = [out |-> x.out, open |-> x.open, scan |-> x.scan]
  BY DEF PassState
<1>2. Append(x.open, ch) \in JsonText /\ Scan(x.scan, ch) \in ScanState /\ Outside \in ScanState
  BY <1>1, ScanType, ScanTyped DEF JsonText
<1>3. <<Append(x.open, ch)>> \in Seq(JsonText) /\ << >> \in JsonText
  BY <1>2 DEF JsonText
<1>4. Append(x.out, <<Append(x.open, ch)>>) \in Seq(Seq(JsonText))
  BY <1>1, <1>3
<1>5. OnePass(x, ch) \in
        {x, [out |-> Append(x.out, <<Append(x.open, ch)>>), open |-> << >>, scan |-> Outside],
         [out |-> x.out, open |-> Append(x.open, ch), scan |-> Scan(x.scan, ch)]}
  BY <1>1 DEF OnePass
<1>6. [out |-> Append(x.out, <<Append(x.open, ch)>>), open |-> << >>, scan |-> Outside] \in PassState
  BY <1>2, <1>3, <1>4 DEF PassState
<1>7. [out |-> x.out, open |-> Append(x.open, ch), scan |-> Scan(x.scan, ch)] \in PassState
  BY <1>1, <1>2 DEF PassState
<1> QED
  BY <1>5, <1>6, <1>7

LEMMA PassTyped == PassF \in [PassState \X JsonByte -> PassState]
<1>1. \A p \in PassState \X JsonByte : OnePass(p[1], p[2]) \in PassState
  BY PassType
<1> QED
  BY <1>1 DEF PassF

LEMMA PassFold ==
  ASSUME NEW initial \in PassState, NEW seq \in JsonText
  PROVE  /\ FoldLeft(OnePass, initial, seq) = Final(PassF, initial, seq)
         /\ Final(PassF, initial, seq) \in PassState
<1> DEFINE R(g) == g = [s \in SUBSET DOMAIN seq |->
                          IF s = {} THEN initial ELSE OnePass(g[s \ {Max(s)}], seq[Max(s)])]
           f == CHOOSE g : R(g)
<1>1. FoldLeft(OnePass, initial, seq) = f[DOMAIN seq]
  BY DEF FoldLeft, MapThenFoldSet
<1>2. DOMAIN seq = 1 .. Len(seq) /\ Len(seq) \in Nat /\ \A k \in 1 .. Len(seq) : seq[k] \in JsonByte
  BY DEF JsonText
<1>3. \A s \in SUBSET (1 .. Len(seq)) : s # {} => seq[Max(s)] \in JsonByte
  BY <1>2, MaxIs
<1>4. seq \in Seq(JsonByte)
  BY DEF JsonText
<1>5. PICK h \in [SUBSET (1 .. Len(seq)) -> PassState] : Solves(h, PassF, initial, seq)
  BY <1>4, PassTyped, SetFoldExists
<1>6. \A s \in SUBSET (1 .. Len(seq)) :
        h[s] = IF s = {} THEN initial ELSE OnePass(h[s \ {Max(s)}], seq[Max(s)])
  <2> SUFFICES ASSUME NEW s \in SUBSET (1 .. Len(seq)), s # {}
               PROVE  h[s] = OnePass(h[s \ {Max(s)}], seq[Max(s)])
    BY <1>5 DEF Solves
  <2>1. h[s \ {Max(s)}] \in PassState
    OBVIOUS
  <2>2. h[s] = PassF[<<h[s \ {Max(s)}], seq[Max(s)]>>]
    BY <1>5 DEF Solves
  <2> QED
    BY <1>3, <2>1, <2>2 DEF PassF
<1>7. R(f)
  <2>1. h = [s \in SUBSET (1 .. Len(seq)) |-> h[s]]
    OBVIOUS
  <2>2. R(h)
    BY <1>2, <1>6, <2>1
  <2> HIDE DEF R
  <2> QED
    BY <2>2
<1> HIDE DEF f
<1>8. \A s \in SUBSET (1 .. Len(seq)) :
        IF s = {} THEN f[s] = initial
        ELSE f[s \ {Max(s)}] \in PassState => f[s] = PassF[<<f[s \ {Max(s)}], seq[Max(s)]>>]
  <2> SUFFICES ASSUME NEW s \in SUBSET (1 .. Len(seq))
               PROVE  IF s = {} THEN f[s] = initial
                      ELSE f[s \ {Max(s)}] \in PassState
                             => f[s] = PassF[<<f[s \ {Max(s)}], seq[Max(s)]>>]
    OBVIOUS
  <2>1. f[s] = IF s = {} THEN initial ELSE OnePass(f[s \ {Max(s)}], seq[Max(s)])
    BY <1>2, <1>7
  <2> QED
    BY <1>3, <2>1 DEF PassF
<1>9. f[1 .. Len(seq)] = Final(PassF, initial, seq) /\ Final(PassF, initial, seq) \in PassState
  BY <1>4, <1>8, PassTyped, SetFoldIs
<1> QED
  BY <1>1, <1>2, <1>9

LEMMA TakeType ==
  ASSUME NEW x \in TakeState
  PROVE  ExtractOne(x) \in TakeState
<1> DEFINE starts == {i \in 1 .. Len(x.rest) : x.rest[i] = "lbrace"}
           i == Min(starts)
           ends == ObjectEnds(x.rest, i)
<1>1. /\ x.out \in Seq(JsonText) /\ x.rest \in Seq(JsonByte) /\ Len(x.rest) \in Nat
      /\ x = [out |-> x.out, rest |-> x.rest]
  BY DEF TakeState, JsonText
<1>2. \A m \in Nat \ {0}, n \in Nat : n <= Len(x.rest) => SubSeq(x.rest, m, n) \in JsonText
  <2> SUFFICES ASSUME NEW m \in Nat \ {0}, NEW n \in Nat, n <= Len(x.rest)
               PROVE  SubSeq(x.rest, m, n) \in JsonText
    OBVIOUS
  <2>1. \A k \in m .. n : x.rest[k] \in JsonByte
    BY <1>1
  <2> QED
    BY <2>1, SubSeqProperties DEF JsonText
<1>3. starts # {} => i \in 1 .. Len(x.rest)
  <2>0. starts \subseteq 1 .. Len(x.rest)
    OBVIOUS
  <2> HIDE DEF starts
  <2>1. starts \in SUBSET Nat
    BY <1>1, <2>0
  <2>2. starts # {} => i \in starts
    BY <2>1, MinIs
  <2> QED
    BY <2>2 DEF starts
<1>4. starts # {} /\ ends # {} => Min(ends) \in 1 .. Len(x.rest)
  <2> HIDE DEF starts, i
  <2>0. starts # {} => ends \subseteq i .. Len(x.rest)
    BY DEF ObjectEnds
  <2>1. starts # {} => ends \in SUBSET Nat /\ ends \subseteq 1 .. Len(x.rest)
    <3> HIDE DEF ends
    <3> QED
      BY <1>1, <1>3, <2>0
  <2> HIDE DEF ends, starts
  <2> QED
    BY <2>1, MinIs
<1>5. ExtractOne(x) =
        IF starts = {} THEN [out |-> x.out, rest |-> << >>]
        ELSE IF ends = {} THEN [out |-> x.out, rest |-> SubSeq(x.rest, i, Len(x.rest))]
        ELSE [out |-> Append(x.out, SubSeq(x.rest, i, Min(ends))),
              rest |-> SubSeq(x.rest, Min(ends) + 1, Len(x.rest))]
  <2>1. \A r : [x EXCEPT !.rest = r] = [out |-> x.out, rest |-> r]
    BY <1>1
  <2>2. ExtractOne(x) =
          IF starts = {} THEN [x EXCEPT !.rest = << >>]
          ELSE IF ends = {} THEN [x EXCEPT !.rest = SubSeq(x.rest, i, Len(x.rest))]
          ELSE [out |-> Append(x.out, SubSeq(x.rest, i, Min(ends))),
                rest |-> SubSeq(x.rest, Min(ends) + 1, Len(x.rest))]
    BY DEF ExtractOne
  <2> HIDE DEF starts, i, ends
  <2> QED
    BY <2>1, <2>2
<1> HIDE DEF starts, i, ends
<1>6. << >> \in JsonText
  BY DEF JsonText
<1>7. CASE starts = {}
  BY <1>1, <1>5, <1>6, <1>7 DEF TakeState
<1>8. CASE starts # {} /\ ends = {}
  <2>1. SubSeq(x.rest, i, Len(x.rest)) \in JsonText
    BY <1>1, <1>2, <1>3, <1>8
  <2> QED
    BY <1>1, <1>5, <1>8, <2>1 DEF TakeState
<1>9. CASE starts # {} /\ ends # {}
  <2>1. i \in Nat \ {0} /\ Min(ends) \in Nat /\ Min(ends) <= Len(x.rest)
    BY <1>1, <1>3, <1>4, <1>9
  <2>2. SubSeq(x.rest, i, Min(ends)) \in JsonText
    BY <1>2, <2>1
  <2>3. Min(ends) + 1 \in Nat \ {0}
    BY <2>1
  <2>4. SubSeq(x.rest, Min(ends) + 1, Len(x.rest)) \in JsonText
    BY <1>1, <1>2, <2>3
  <2> QED
    BY <1>1, <1>5, <1>9, <2>2, <2>4 DEF TakeState
<1> QED
  BY <1>7, <1>8, <1>9

LEMMA TakeTyped == TakeF \in [TakeState \X Nat -> TakeState]
<1>1. \A p \in TakeState \X Nat : ExtractOne(p[1]) \in TakeState
  BY TakeType
<1> QED
  BY <1>1 DEF TakeF

LEMMA TakeFold ==
  ASSUME NEW initial \in TakeState, NEW seq \in Seq(Nat)
  PROVE  /\ FoldLeft(LAMBDA st, k : ExtractOne(st), initial, seq) = Final(TakeF, initial, seq)
         /\ Final(TakeF, initial, seq) \in TakeState
<1> DEFINE R(g) == g = [s \in SUBSET DOMAIN seq |->
                          IF s = {} THEN initial ELSE ExtractOne(g[s \ {Max(s)}])]
           f == CHOOSE g : R(g)
<1>1. FoldLeft(LAMBDA st, k : ExtractOne(st), initial, seq) = f[DOMAIN seq]
  BY DEF FoldLeft, MapThenFoldSet
<1>2. DOMAIN seq = 1 .. Len(seq) /\ Len(seq) \in Nat /\ \A k \in 1 .. Len(seq) : seq[k] \in Nat
  OBVIOUS
<1>3. \A s \in SUBSET (1 .. Len(seq)) : s # {} => seq[Max(s)] \in Nat
  BY <1>2, MaxIs
<1>4. seq \in Seq(Nat)
  OBVIOUS
<1>5. PICK h \in [SUBSET (1 .. Len(seq)) -> TakeState] : Solves(h, TakeF, initial, seq)
  BY <1>4, TakeTyped, SetFoldExists
<1>6. \A s \in SUBSET (1 .. Len(seq)) :
        h[s] = IF s = {} THEN initial ELSE ExtractOne(h[s \ {Max(s)}])
  <2> SUFFICES ASSUME NEW s \in SUBSET (1 .. Len(seq)), s # {}
               PROVE  h[s] = ExtractOne(h[s \ {Max(s)}])
    BY <1>5 DEF Solves
  <2>1. h[s \ {Max(s)}] \in TakeState
    OBVIOUS
  <2>2. h[s] = TakeF[<<h[s \ {Max(s)}], seq[Max(s)]>>]
    BY <1>5 DEF Solves
  <2> QED
    BY <1>3, <2>1, <2>2 DEF TakeF
<1>7. R(f)
  <2>1. h = [s \in SUBSET (1 .. Len(seq)) |-> h[s]]
    OBVIOUS
  <2>2. R(h)
    BY <1>2, <1>6, <2>1
  <2> HIDE DEF R
  <2> QED
    BY <2>2
<1> HIDE DEF f
<1>8. \A s \in SUBSET (1 .. Len(seq)) :
        IF s = {} THEN f[s] = initial
        ELSE f[s \ {Max(s)}] \in TakeState => f[s] = TakeF[<<f[s \ {Max(s)}], seq[Max(s)]>>]
  <2> SUFFICES ASSUME NEW s \in SUBSET (1 .. Len(seq))
               PROVE  IF s = {} THEN f[s] = initial
                      ELSE f[s \ {Max(s)}] \in TakeState
                             => f[s] = TakeF[<<f[s \ {Max(s)}], seq[Max(s)]>>]
    OBVIOUS
  <2>1. f[s] = IF s = {} THEN initial ELSE ExtractOne(f[s \ {Max(s)}])
    BY <1>2, <1>7
  <2> QED
    BY <1>3, <2>1 DEF TakeF
<1>9. f[1 .. Len(seq)] = Final(TakeF, initial, seq) /\ Final(TakeF, initial, seq) \in TakeState
  BY <1>4, <1>8, TakeTyped, SetFoldIs
<1> QED
  BY <1>1, <1>2, <1>9

-----------------------------------------------------------------------------
(* One pass over a text that comes in pieces *)

Begin(out) == [out |-> out, open |-> << >>, scan |-> Outside]
Pass(x, text) == Final(PassF, x, text)

\* The state x after the messages of out.
After(out, x) == [out |-> out \o x.out, open |-> x.open, scan |-> x.scan]

\* A state of which no message is known.
Bare(x) == [out |-> << >>, open |-> x.open, scan |-> x.scan]

LEMMA PassParts ==
  ASSUME NEW x \in PassState
  PROVE  /\ x.out \in Seq(Seq(JsonText)) /\ x.open \in JsonText /\ x.scan \in ScanState
         /\ x = [out |-> x.out, open |-> x.open, scan |-> x.scan]
         /\ \A out \in Seq(Seq(JsonText)) : After(out, x) \in PassState
         /\ Bare(x) \in PassState /\ After(x.out, Bare(x)) = x
<1>1. /\ x.out \in Seq(Seq(JsonText)) /\ x.open \in JsonText /\ x.scan \in ScanState
      /\ x = [out |-> x.out, open |-> x.open, scan |-> x.scan]
  BY DEF PassState
<1>2. \A out \in Seq(Seq(JsonText)) : After(out, x) \in PassState
  <2>1. \A out \in Seq(Seq(JsonText)) : out \o x.out \in Seq(Seq(JsonText))
    BY <1>1, ConcatProperties
  <2> QED
    BY <1>1, <2>1 DEF After, PassState
<1>3. Bare(x) \in PassState
  BY <1>1 DEF Bare, PassState
<1>4. After(x.out, Bare(x)) = x
  <2>1. x.out \o << >> = x.out
    BY <1>1, ConcatEmptySeq
  <2> QED
    BY <1>1, <2>1 DEF After, Bare
<1> QED
  BY <1>1, <1>2, <1>3, <1>4

LEMMA BeginIs ==
  ASSUME NEW out \in Seq(Seq(JsonText)) PROVE Begin(out) \in PassState
<1>1. << >> \in JsonText
  BY DEF JsonText
<1> QED
  BY <1>1, ScanTyped DEF Begin, PassState

LEMMA BeginNone == Begin(<< >>) \in PassState /\ Pass(Begin(<< >>), << >>) = Begin(<< >>)
<1>1. << >> \in Seq(Seq(JsonText))
  OBVIOUS
<1>2. Begin(<< >>) \in PassState
  BY <1>1, BeginIs
<1> QED
  BY <1>2, FinalEmpty DEF Pass

LEMMA PassIs ==
  ASSUME NEW x \in PassState
  PROVE  /\ Pass(x, << >>) = x
         /\ \A t \in JsonText : Pass(x, t) \in PassState
         /\ \A t \in JsonText : \A ch \in JsonByte : Pass(x, Append(t, ch)) = OnePass(Pass(x, t), ch)
         /\ \A t, u \in JsonText : t \o u \in JsonText /\ Pass(x, t \o u) = Pass(Pass(x, t), u)
<1>1. Pass(x, << >>) = x
  BY FinalEmpty DEF Pass
<1>2. \A t \in JsonText : Pass(x, t) \in PassState
  BY PassFold DEF Pass
<1>3. ASSUME NEW t \in JsonText, NEW ch \in JsonByte
      PROVE  Pass(x, Append(t, ch)) = OnePass(Pass(x, t), ch)
  <2>1. Pass(x, Append(t, ch)) = PassF[<<Pass(x, t), ch>>]
    BY FinalAppend DEF Pass, JsonText
  <2> QED
    BY <1>2, <2>1 DEF PassF
<1>4. \A t, u \in JsonText : t \o u \in JsonText /\ Pass(x, t \o u) = Pass(Pass(x, t), u)
  BY ConcatProperties, FinalConcat DEF Pass, JsonText
<1> QED
  BY <1>1, <1>2, <1>3, <1>4

\* What was found before makes no difference to what is found.
LEMMA PassAfter ==
  ASSUME NEW x \in PassState, NEW out \in Seq(Seq(JsonText))
  PROVE  \A t \in JsonText : Pass(After(out, x), t) = After(out, Pass(x, t))
<1> DEFINE S == {t \in JsonText : Pass(After(out, x), t) = After(out, Pass(x, t))}
<1>1. << >> \in S
  <2>1. << >> \in JsonText /\ After(out, x) \in PassState
    BY PassParts DEF JsonText
  <2> QED
    BY <2>1, PassIs
<1>2. ASSUME NEW t \in JsonText, NEW ch \in JsonByte, t \in S PROVE Append(t, ch) \in S
  <2> DEFINE y == Pass(x, t)
  <2>01. t \in JsonText /\ Pass(After(out, x), t) = After(out, y)
    BY <1>2
  <2>02. After(out, x) \in PassState
    BY PassParts
  <2>03. Append(t, ch) \in JsonText
    BY <2>01 DEF JsonText
  <2>04. y \in PassState
    BY <2>01, PassIs
  <2>1. y \in PassState /\ After(out, x) \in PassState /\ Append(t, ch) \in JsonText
    BY <2>02, <2>03, <2>04
  <2>2. Pass(After(out, x), Append(t, ch)) = OnePass(After(out, y), ch)
    BY <2>01, <2>02, PassIs
  <2>3. Pass(x, Append(t, ch)) = OnePass(y, ch)
    BY PassIs
  <2> HIDE DEF y
  <2>4. OnePass(After(out, y), ch) = After(out, OnePass(y, ch))
    <3> DEFINE s == Scan(y.scan, ch)
               a == After(out, y)
    <3>1. /\ y.out \in Seq(Seq(JsonText)) /\ y.open \in JsonText
          /\ y = [out |-> y.out, open |-> y.open, scan |-> y.scan]
      BY <2>1, PassParts
    <3>2. a.out = out \o y.out /\ a.open = y.open /\ a.scan = y.scan
          /\ a = [out |-> a.out, open |-> a.open, scan |-> a.scan]
      BY DEF After
    <3> SUFFICES OnePass(a, ch) = After(out, OnePass(y, ch))
      OBVIOUS
    <3> HIDE DEF a
    <3>3. <<Append(y.open, ch)>> \in Seq(JsonText)
      BY <3>1 DEF JsonText
    <3>4. Append(out \o y.out, <<Append(y.open, ch)>>) = out \o Append(y.out, <<Append(y.open, ch)>>)
      <4>1. \A e \in Seq(JsonText) : out \o Append(y.out, e) = Append(out \o y.out, e)
        <5> DEFINE E == Seq(JsonText)
        <5> HIDE DEF E
        <5>1. out \in Seq(E) /\ y.out \in Seq(E)
          BY <3>1 DEF E
        <5>2. \A e \in E : out \o Append(y.out, e) = Append(out \o y.out, e)
          BY <5>1, ConcatAppend
        <5> QED
          BY <5>2 DEF E
      <4> QED
        BY <3>3, <4>1
    <3>5. CASE y.scan.depth = 0 /\ ch # "lbrace"
      <4>1. OnePass(y, ch) = y /\ OnePass(a, ch) = a
        BY <3>2, <3>5 DEF OnePass
      <4> QED
        BY <3>2, <4>1 DEF After
    <3>6. CASE ~(y.scan.depth = 0 /\ ch # "lbrace") /\ s.depth = 0
      <4> DEFINE r == <<Append(y.open, ch)>>
      <4>1. OnePass(y, ch) = [out |-> Append(y.out, r), open |-> << >>, scan |-> Outside]
        BY <3>6 DEF OnePass
      <4>2. OnePass(a, ch) = [out |-> Append(a.out, r), open |-> << >>, scan |-> Outside]
        BY <3>2, <3>6 DEF OnePass
      <4>3. Append(a.out, r) = out \o Append(y.out, r)
        BY <3>2, <3>4
      <4> HIDE DEF r
      <4> QED
        BY <4>1, <4>2, <4>3 DEF After
    <3>7. CASE ~(y.scan.depth = 0 /\ ch # "lbrace") /\ s.depth # 0
      <4>1. OnePass(y, ch) = [out |-> y.out, open |-> Append(y.open, ch), scan |-> s]
        BY <3>1, <3>7 DEF OnePass
      <4>2. OnePass(a, ch) = [out |-> a.out, open |-> Append(a.open, ch), scan |-> s]
        BY <3>2, <3>7 DEF OnePass
      <4> QED
        BY <3>2, <4>1, <4>2 DEF After
    <3> QED
      BY <3>5, <3>6, <3>7
  <2> QED
    BY <2>1, <2>2, <2>3, <2>4
<1>3. \A t \in JsonText : t \in S
  <2> HIDE DEF S
  <2> QED
    BY <1>1, <1>2, AllSequences DEF JsonText
<1> QED
  BY <1>3

\* The open object is all that a pass has to know of what it has seen.
LEMMA PassReopens ==
  \A t \in JsonText : Pass(Begin(<< >>), Pass(Begin(<< >>), t).open) = Bare(Pass(Begin(<< >>), t))
<1> DEFINE I == {x \in PassState : Pass(Begin(<< >>), x.open) = Bare(x)}
<1>1. Begin(<< >>) \in I
  <2>1. Begin(<< >>) \in PassState /\ Begin(<< >>).open = << >>
    BY BeginNone DEF Begin
  <2>2. Pass(Begin(<< >>), << >>) = Begin(<< >>)
    BY BeginNone
  <2> QED
    BY <2>1, <2>2 DEF Bare, Begin
<1>2. ASSUME NEW x \in I, NEW ch \in JsonByte PROVE OnePass(x, ch) \in I
  <2> DEFINE s == Scan(x.scan, ch)
  <2>1. /\ x \in PassState /\ x.open \in JsonText /\ Pass(Begin(<< >>), x.open) = Bare(x)
        /\ x = [out |-> x.out, open |-> x.open, scan |-> x.scan]
    BY PassParts
  <2>2. OnePass(x, ch) \in PassState
    BY <2>1, PassType
  <2>3. CASE x.scan.depth = 0 /\ ch # "lbrace"
    <3>1. OnePass(x, ch) = x
      BY <2>3 DEF OnePass
    <3> QED
      BY <3>1
  <2>4. CASE ~(x.scan.depth = 0 /\ ch # "lbrace") /\ s.depth = 0
    <3>1. OnePass(x, ch) = Begin(Append(x.out, <<Append(x.open, ch)>>))
      BY <2>4 DEF OnePass, Begin
    <3>2. OnePass(x, ch).open = << >> /\ Bare(OnePass(x, ch)) = Begin(<< >>)
      BY <3>1 DEF Begin, Bare
    <3>3. Pass(Begin(<< >>), << >>) = Begin(<< >>)
      BY BeginNone
    <3> QED
      BY <2>2, <3>2, <3>3
  <2>5. CASE ~(x.scan.depth = 0 /\ ch # "lbrace") /\ s.depth # 0
    <3>1. OnePass(x, ch) = [out |-> x.out, open |-> Append(x.open, ch), scan |-> s]
      BY <2>1, <2>5 DEF OnePass
    <3>2. Begin(<< >>) \in PassState
      BY BeginNone
    <3>3. Pass(Begin(<< >>), Append(x.open, ch)) = OnePass(Bare(x), ch)
      BY <2>1, <3>2, PassIs
    <3>4. OnePass(Bare(x), ch) = [out |-> << >>, open |-> Append(x.open, ch), scan |-> s]
      BY <2>5 DEF OnePass, Bare
    <3>5. OnePass(x, ch).open = Append(x.open, ch) /\ Bare(OnePass(x, ch)) = OnePass(Bare(x), ch)
      BY <3>1, <3>4 DEF Bare
    <3> QED
      BY <2>2, <3>3, <3>5
  <2> QED
    BY <2>3, <2>4, <2>5
<1>3. \A x \in I : \A ch \in JsonByte : PassF[<<x, ch>>] \in I
  <2>1. \A x \in I : \A ch \in JsonByte : PassF[<<x, ch>>] = OnePass(x, ch)
    BY DEF PassF
  <2> QED
    BY <1>2, <2>1
<1>4. \A t \in JsonText : Pass(Begin(<< >>), t) \in I
  <2> HIDE DEF I
  <2> QED
    BY <1>1, <1>3, FinalIn DEF Pass, JsonText
<1> QED
  BY <1>4

\* A text in two parts: the second with the open object of the first before it.
LEMMA PassInTwo ==
  ASSUME NEW t \in JsonText, NEW u \in JsonText
  PROVE  LET x == Pass(Begin(<< >>), t)
         IN /\ x \in PassState
            /\ Pass(Begin(<< >>), t \o u) = After(x.out, Pass(Begin(<< >>), x.open \o u))
<1> DEFINE x == Pass(Begin(<< >>), t)
<1>1. Begin(<< >>) \in PassState /\ x \in PassState
  BY BeginNone, PassIs
<1>2. Pass(Begin(<< >>), t \o u) = Pass(x, u)
  BY <1>1, PassIs
<1>3. Pass(Begin(<< >>), x.open) = Bare(x)
  BY PassReopens
<1> HIDE DEF x
<1>4. /\ x.out \in Seq(Seq(JsonText)) /\ x.open \in JsonText /\ Bare(x) \in PassState
      /\ After(x.out, Bare(x)) = x
  BY <1>1, PassParts
<1>5. Pass(x, u) = After(x.out, Pass(Bare(x), u))
  BY <1>4, PassAfter
<1>6. Pass(Bare(x), u) = Pass(Begin(<< >>), x.open \o u)
  <2>1. Pass(Begin(<< >>), x.open \o u) = Pass(Pass(Begin(<< >>), x.open), u)
    <3>1. \A v, w \in JsonText : Pass(Begin(<< >>), v \o w) = Pass(Pass(Begin(<< >>), v), w)
      BY <1>1, PassIs
    <3> QED
      BY <1>4, <3>1
  <2> QED
    BY <1>3, <2>1
<1> QED
  BY <1>1, <1>2, <1>5, <1>6 DEF x

-----------------------------------------------------------------------------
(* What one pass finds, the search for the ends of objects finds too *)

Scanned(u) == Final(ScanF, Outside, u)

\* The object that begins with u may end with its k-th character.
EndsAt(u, k) == u[k] = "rbrace" /\ Scanned(SubSeq(u, 1, k)).depth = 0

\* An object has begun and does not end.
Unclosed(u) == u # << >> /\ u[1] = "lbrace" /\ \A k \in 1 .. Len(u) : ~EndsAt(u, k)

LEMMA ScannedIs ==
  /\ Scanned(<< >>) = Outside
  /\ \A u \in JsonText : Scanned(u) \in ScanState
  /\ \A u \in JsonText : \A ch \in JsonByte : Scanned(Append(u, ch)) = Scan(Scanned(u), ch)
<1>1. Scanned(<< >>) = Outside
  BY FinalEmpty DEF Scanned
<1>2. \A u \in JsonText : Scanned(u) \in ScanState
  BY ScanTyped, ScanFold DEF Scanned
<1>3. ASSUME NEW u \in JsonText, NEW ch \in JsonByte
      PROVE  Scanned(Append(u, ch)) = Scan(Scanned(u), ch)
  <2>1. Scanned(Append(u, ch)) = ScanF[<<Scanned(u), ch>>]
    BY FinalAppend DEF Scanned, JsonText
  <2> QED
    BY <1>2, <2>1 DEF ScanF
<1> QED
  BY <1>1, <1>2, <1>3

\* The beginnings of a text are those of the text with one character more.
LEMMA Beginnings ==
  ASSUME NEW E, NEW u \in Seq(E), NEW e \in E
  PROVE  /\ \A k \in 1 .. Len(u) : SubSeq(Append(u, e), 1, k) = SubSeq(u, 1, k)
         /\ SubSeq(Append(u, e), 1, Len(u) + 1) = Append(u, e)
<1>1. Append(u, e) \in Seq(E) /\ Len(Append(u, e)) = Len(u) + 1 /\ Len(u) \in Nat
      /\ \A k \in 1 .. Len(u) : Append(u, e)[k] = u[k]
  OBVIOUS
<1>2. SubSeq(Append(u, e), 1, Len(u) + 1) = Append(u, e)
  BY <1>1, SubSeqFull
<1>3. ASSUME NEW k \in 1 .. Len(u) PROVE SubSeq(Append(u, e), 1, k) = SubSeq(u, 1, k)
  <2> DEFINE a == SubSeq(Append(u, e), 1, k)
             b == SubSeq(u, 1, k)
  <2>1. a \in Seq(E) /\ Len(a) = k /\ \A i \in 1 .. k : a[i] = Append(u, e)[i]
    BY <1>1
  <2>2. b \in Seq(E) /\ Len(b) = k /\ \A i \in 1 .. k : b[i] = u[i]
    BY <1>1
  <2>3. \A i \in 1 .. k : a[i] = b[i]
    BY <1>1, <2>1, <2>2
  <2> HIDE DEF a, b
  <2>4. a = b
    BY <2>1, <2>2, <2>3, SeqEqual
  <2> QED
    BY <2>4 DEF a, b
<1> QED
  BY <1>2, <1>3

LEMMA ScanDepth ==
  ASSUME NEW x \in ScanState, NEW ch
  PROVE  /\ x.depth \in Int
         /\ \/ Scan(x, ch).depth = x.depth
            \/ Scan(x, ch).depth = x.depth + 1
            \/ Scan(x, ch).depth = x.depth - 1 /\ ch = "rbrace"
<1>1. x.depth \in Int /\ x = [depth |-> x.depth, string |-> x.string, escape |-> x.escape]
  BY DEF ScanState
<1>2. CASE x.string
  <2>1. Scan(x, ch) \in {[x EXCEPT !.escape = FALSE], [x EXCEPT !.escape = TRUE], [x EXCEPT !.string = FALSE], x}
    BY <1>2 DEF Scan
  <2>2. Scan(x, ch).depth = x.depth
    BY <1>1, <2>1
  <2> QED
    BY <1>1, <2>2
<1>3. CASE ~x.string /\ ch = "rbrace"
  <2>1. Scan(x, ch) = [x EXCEPT !.depth = x.depth - 1]
    BY <1>3 DEF Scan
  <2>2. Scan(x, ch).depth = x.depth - 1
    BY <1>1, <2>1
  <2> QED
    BY <1>1, <1>3, <2>2
<1>4. CASE ~x.string /\ ch # "rbrace"
  <2>1. Scan(x, ch) \in {[x EXCEPT !.string = TRUE], [x EXCEPT !.depth = x.depth + 1], x}
    BY <1>4 DEF Scan
  <2>2. Scan(x, ch).depth \in {x.depth, x.depth + 1}
    BY <1>1, <2>1
  <2> QED
    BY <1>1, <2>2
<1> QED
  BY <1>2, <1>3, <1>4

\* A pass with these messages and this open object.
Held(out, open, scan) == [out |-> out, open |-> open, scan |-> scan]

LEMMA HeldIs ==
  ASSUME NEW out, NEW open, NEW scan
  PROVE  LET x == Held(out, open, scan)
         IN /\ x.out = out /\ x.open = open /\ x.scan = scan
            /\ x = [out |-> x.out, open |-> x.open, scan |-> x.scan]
BY DEF Held

LEMMA OnePassHolds ==
  ASSUME NEW out, NEW open, NEW scan, NEW ch, scan.depth # 0 \/ ch = "lbrace",
         Scan(scan, ch).depth # 0
  PROVE  OnePass(Held(out, open, scan), ch) = Held(out, Append(open, ch), Scan(scan, ch))
<1> DEFINE x == Held(out, open, scan)
<1>1. /\ x.out = out /\ x.open = open /\ x.scan = scan
      /\ x = [out |-> x.out, open |-> x.open, scan |-> x.scan]
  BY HeldIs
<1> HIDE DEF x
<1>2. OnePass(x, ch) = Held(out, Append(open, ch), Scan(scan, ch))
  BY <1>1 DEF OnePass, Held
<1> QED
  BY <1>2 DEF x

LEMMA OnePassCloses ==
  ASSUME NEW out, NEW open, NEW scan, NEW ch, scan.depth # 0 \/ ch = "lbrace",
         Scan(scan, ch).depth = 0
  PROVE  OnePass(Held(out, open, scan), ch) = Begin(Append(out, <<Append(open, ch)>>))
<1> DEFINE x == Held(out, open, scan)
<1>1. x.out = out /\ x.open = open /\ x.scan = scan
  BY HeldIs
<1> HIDE DEF x
<1>2. OnePass(x, ch) = Begin(Append(out, <<Append(open, ch)>>))
  BY <1>1 DEF OnePass, Begin
<1> QED
  BY <1>2 DEF x

LEMMA EndsAtBegins ==
  ASSUME NEW u \in JsonText, NEW ch \in JsonByte
  PROVE  /\ Append(u, ch) \in JsonText
         /\ \A k \in 1 .. Len(u) : EndsAt(Append(u, ch), k) <=> EndsAt(u, k)
         /\ EndsAt(Append(u, ch), Len(u) + 1)
              <=> ch = "rbrace" /\ Scan(Scanned(u), ch).depth = 0
<1>1. u \in Seq(JsonByte) /\ Append(u, ch) \in JsonText
  BY DEF JsonText
<1>2. /\ \A k \in 1 .. Len(u) : Append(u, ch)[k] = u[k]
      /\ Append(u, ch)[Len(u) + 1] = ch
  BY <1>1
<1>3. /\ \A k \in 1 .. Len(u) : SubSeq(Append(u, ch), 1, k) = SubSeq(u, 1, k)
      /\ SubSeq(Append(u, ch), 1, Len(u) + 1) = Append(u, ch)
  BY <1>1, Beginnings
<1>4. Scanned(Append(u, ch)) = Scan(Scanned(u), ch)
  BY ScannedIs
<1> QED
  BY <1>1, <1>2, <1>3, <1>4 DEF EndsAt

\* An object that has not ended is the open one of the pass.
LEMMA UnclosedIsOpen ==
  ASSUME NEW out \in Seq(Seq(JsonText))
  PROVE  \A u \in JsonText : Unclosed(u) =>
           /\ Pass(Begin(out), u) = Held(out, u, Scanned(u))
           /\ Scanned(u).depth > 0
<1> DEFINE Good(u) == Unclosed(u) =>
             /\ Pass(Begin(out), u) = Held(out, u, Scanned(u))
             /\ Scanned(u).depth > 0
           S == {u \in JsonText : Good(u)}
<1>1. << >> \in S
  BY DEF Unclosed, JsonText
<1>2. ASSUME NEW u \in JsonText, NEW ch \in JsonByte, u \in S PROVE Append(u, ch) \in S
  <2> DEFINE v == Append(u, ch)
             s == Scan(Scanned(u), ch)
  <2>1. /\ v \in JsonText /\ Len(v) = Len(u) + 1 /\ Len(u) \in Nat /\ v[Len(u) + 1] = ch
        /\ \A k \in 1 .. Len(u) : v[k] = u[k]
    BY DEF JsonText
  <2>2. /\ \A k \in 1 .. Len(u) : EndsAt(v, k) <=> EndsAt(u, k)
        /\ EndsAt(v, Len(u) + 1) <=> ch = "rbrace" /\ s.depth = 0
    BY EndsAtBegins
  <2>3. Scanned(v) = s /\ Scanned(u) \in ScanState
    BY ScannedIs
  <2>4. Begin(out) \in PassState
    BY BeginIs
  <2>5. Pass(Begin(out), v) = OnePass(Pass(Begin(out), u), ch)
    BY <2>4, PassIs
  <2> SUFFICES ASSUME Unclosed(v)
               PROVE  /\ Pass(Begin(out), v) = Held(out, v, s)
                      /\ s.depth > 0
    BY <2>1, <2>3
  <2>8. v = Append(u, ch) /\ s = Scan(Scanned(u), ch)
    OBVIOUS
  <2> HIDE DEF v, s
  <2>6. CASE u = << >>
    <3>1. ch = "lbrace"
      <4>1. v[1] = ch
        BY <2>1, <2>6
      <4> QED
        BY <4>1 DEF Unclosed
    <3>2. Scanned(u) = Outside /\ Pass(Begin(out), u) = Begin(out)
      BY <2>4, <2>6, ScannedIs, PassIs
    <3>3. s.depth = 1
      <4>1. s = Scan(Outside, "lbrace")
        BY <2>8, <3>1, <3>2
      <4> QED
        BY <4>1 DEF Scan, Outside
    <3>4. OnePass(Begin(out), ch) = Held(out, v, s)
      <4>1. s.depth # 0
        BY <3>3
      <4>2. Scan(Outside, ch).depth # 0
        BY <2>8, <3>2, <4>1
      <4>3. OnePass(Held(out, u, Outside), ch) = Held(out, v, s)
        BY <2>8, <3>1, <3>2, <4>2, OnePassHolds
      <4>4. Begin(out) = Held(out, u, Outside)
        BY <2>6 DEF Begin, Held
      <4> QED
        BY <4>3, <4>4
    <3> QED
      BY <2>5, <3>2, <3>3, <3>4
  <2>7. CASE u # << >>
    <3>1. Len(u) > 0
      BY <2>7 DEF JsonText
    <3>2. Unclosed(u)
      <4>0. 1 \in 1 .. Len(u)
        BY <2>1, <3>1
      <4>1. u[1] = "lbrace"
        BY <2>1, <4>0 DEF Unclosed
      <4>2. \A k \in 1 .. Len(u) : k \in 1 .. Len(v)
        BY <2>1
      <4>3. \A k \in 1 .. Len(u) : ~EndsAt(u, k)
        BY <2>2, <4>2 DEF Unclosed
      <4> QED
        BY <2>7, <4>1, <4>3 DEF Unclosed
    <3>3. /\ Pass(Begin(out), u) = Held(out, u, Scanned(u))
          /\ Scanned(u).depth > 0
      BY <1>2, <3>2
    <3>4. ~(ch = "rbrace" /\ s.depth = 0)
      <4>1. Len(u) + 1 \in 1 .. Len(v)
        BY <2>1
      <4> QED
        BY <2>2, <4>1 DEF Unclosed
    <3>5. s.depth > 0
      <4> DEFINE d == Scanned(u).depth
                 e == s.depth
      <4>1. d \in Int /\ (e = d \/ e = d + 1 \/ (e = d - 1 /\ ch = "rbrace"))
        BY <2>3, <2>8, ScanDepth
      <4>2. d > 0
        BY <3>3
      <4> SUFFICES e > 0
        OBVIOUS
      <4> HIDE DEF d, e
      <4>3. e \in Int /\ e >= 0
        BY <4>1, <4>2
      <4>4. e = 0 => ch = "rbrace"
        BY <4>1, <4>2
      <4>5. e # 0
        BY <3>4, <4>4 DEF e
      <4> QED
        BY <4>3, <4>5
    <3>6. OnePass(Pass(Begin(out), u), ch) = Held(out, v, s)
      <4>1. s.depth # 0 /\ Scanned(u).depth # 0
        BY <3>3, <3>5
      <4> QED
        BY <2>8, <3>3, <4>1, OnePassHolds
    <3> QED
      BY <2>5, <3>5, <3>6
  <2> QED
    BY <2>6, <2>7
<1>3. \A u \in JsonText : u \in S
  <2> HIDE DEF S
  <2> QED
    BY <1>1, <1>2, AllSequences DEF JsonText
<1> QED
  BY <1>3

\* The pass returns an object with the character that closes it.
LEMMA ClosedIsFound ==
  ASSUME NEW out \in Seq(Seq(JsonText)), NEW u \in JsonText, NEW ch \in JsonByte, Unclosed(u),
         EndsAt(Append(u, ch), Len(u) + 1)
  PROVE  Pass(Begin(out), Append(u, ch)) = Begin(Append(out, <<Append(u, ch)>>))
<1>1. Pass(Begin(out), u) = Held(out, u, Scanned(u)) /\ Scanned(u).depth > 0
  BY UnclosedIsOpen
<1>2. Begin(out) \in PassState
  BY BeginIs
<1>3. Pass(Begin(out), Append(u, ch)) = OnePass(Pass(Begin(out), u), ch)
  BY <1>2, PassIs
<1>4. Scan(Scanned(u), ch).depth = 0
  BY EndsAtBegins
<1>5. Scanned(u).depth # 0
  BY <1>1
<1> QED
  BY <1>1, <1>3, <1>4, <1>5, OnePassCloses

\* What is not in an object goes without a trace.
LEMMA PassSkips ==
  ASSUME NEW out \in Seq(Seq(JsonText))
  PROVE  \A t \in JsonText : (\A k \in 1 .. Len(t) : t[k] # "lbrace") => Pass(Begin(out), t) = Begin(out)
<1> DEFINE Good(t) == (\A k \in 1 .. Len(t) : t[k] # "lbrace") => Pass(Begin(out), t) = Begin(out)
           S == {t \in JsonText : Good(t)}
<1>1. << >> \in S
  <2>1. << >> \in JsonText /\ Begin(out) \in PassState
    BY BeginIs DEF JsonText
  <2> QED
    BY <2>1, PassIs
<1>2. ASSUME NEW t \in JsonText, NEW ch \in JsonByte, t \in S PROVE Append(t, ch) \in S
  <2> DEFINE v == Append(t, ch)
  <2>1. /\ v \in JsonText /\ Len(v) = Len(t) + 1 /\ Len(t) \in Nat /\ v[Len(t) + 1] = ch
        /\ \A k \in 1 .. Len(t) : v[k] = t[k]
    BY DEF JsonText
  <2>2. Begin(out) \in PassState
    BY BeginIs
  <2>3. Pass(Begin(out), v) = OnePass(Pass(Begin(out), t), ch)
    BY <2>2, PassIs
  <2> HIDE DEF v
  <2>4. ASSUME \A k \in 1 .. Len(v) : v[k] # "lbrace" PROVE Pass(Begin(out), v) = Begin(out)
    <3>0. Len(t) + 1 \in 1 .. Len(v) /\ \A k \in 1 .. Len(t) : k \in 1 .. Len(v)
      BY <2>1
    <3>1. ch # "lbrace" /\ \A k \in 1 .. Len(t) : t[k] # "lbrace"
      BY <2>1, <2>4, <3>0
    <3>2. Pass(Begin(out), t) = Begin(out)
      BY <1>2, <3>1
    <3>3. OnePass(Begin(out), ch) = Begin(out)
      BY <3>1 DEF OnePass, Begin, Outside
    <3> QED
      BY <2>3, <3>2, <3>3
  <2> QED
    BY <2>1, <2>4 DEF v
<1>3. \A t \in JsonText : t \in S
  <2> HIDE DEF S
  <2> QED
    BY <1>1, <1>2, AllSequences DEF JsonText
<1> QED
  BY <1>3

\* The parts of a text from a place on.
LEMMA Suffix ==
  ASSUME NEW t \in JsonText, NEW i \in 1 .. Len(t)
  PROVE  LET u == SubSeq(t, i, Len(t))
         IN /\ u \in JsonText /\ Len(u) = Len(t) - i + 1 /\ Len(t) \in Nat
            /\ \A k \in 1 .. Len(u) : u[k] = t[i + k - 1]
            /\ \A k \in 1 .. Len(u) : EndsAt(u, k) <=> i + k - 1 \in ObjectEnds(t, i)
            /\ \A j \in ObjectEnds(t, i) : j - i + 1 \in 1 .. Len(u)
<1> DEFINE u == SubSeq(t, i, Len(t))
<1>1. t \in Seq(JsonByte) /\ Len(t) \in Nat /\ Len(t) \in 1 .. Len(t)
  BY DEF JsonText
<1>2. u \in Seq(JsonByte) /\ Len(u) = Len(t) - i + 1 /\ \A k \in 1 .. Len(u) : u[k] = t[i + k - 1]
  <2>1. \A k \in i .. Len(t) : t[k] \in JsonByte
    BY <1>1
  <2>2. /\ u \in Seq(JsonByte) /\ Len(u) = IF i <= Len(t) THEN Len(t) - i + 1 ELSE 0
        /\ \A k \in 1 .. Len(t) - i + 1 : u[k] = t[i + k - 1]
    BY <1>1, <2>1, SubSeqProperties
  <2> HIDE DEF u
  <2>3. i <= Len(t)
    BY <1>1
  <2>4. Len(u) = Len(t) - i + 1
    BY <2>2, <2>3
  <2> QED
    BY <2>2, <2>4
<1>3. ASSUME NEW k \in 1 .. Len(u) PROVE EndsAt(u, k) <=> i + k - 1 \in ObjectEnds(t, i)
  <2>1. k \in 1 .. Len(t) - i + 1 /\ 1 \in 1 .. Len(t) - i + 1
    BY <1>1, <1>2
  <2>2. SubSeq(u, 1, k) = SubSeq(t, i + 1 - 1, i + k - 1)
    BY <1>1, <2>1, SubSeqOfSubSeq
  <2>3. i + 1 - 1 = i /\ i + k - 1 \in i .. Len(t)
    BY <1>1, <2>1
  <2>4. SubSeq(t, i, i + k - 1) \in JsonText
    <3>1. \A m \in i .. i + k - 1 : t[m] \in JsonByte
      BY <1>1, <2>3
    <3> QED
      BY <2>3, <3>1, SubSeqProperties DEF JsonText
  <2>5. FoldLeft(Scan, Outside, SubSeq(t, i, i + k - 1)) = Scanned(SubSeq(t, i, i + k - 1))
    BY <2>4, ScanFold, ScanTyped DEF Scanned
  <2>6. u[k] = t[i + k - 1]
    BY <1>2
  <2>7. i + k - 1 \in ObjectEnds(t, i) <=>
          t[i + k - 1] = "rbrace" /\ Scanned(SubSeq(t, i, i + k - 1)).depth = 0
    BY <2>3, <2>5 DEF ObjectEnds
  <2> HIDE DEF u
  <2> QED
    BY <2>2, <2>3, <2>6, <2>7 DEF EndsAt
<1>4. ASSUME NEW j \in ObjectEnds(t, i) PROVE j - i + 1 \in 1 .. Len(u)
  <2>1. j \in i .. Len(t)
    BY DEF ObjectEnds
  <2> HIDE DEF u
  <2> QED
    BY <1>1, <1>2, <2>1
<1> QED
  BY <1>1, <1>2, <1>3, <1>4 DEF JsonText

\* ExtractOne, told by the first brace and the first end.
LEMMA TakeIs ==
  ASSUME NEW x \in TakeState
  PROVE  /\ (\A k \in 1 .. Len(x.rest) : x.rest[k] # "lbrace")
              => ExtractOne(x) = [out |-> x.out, rest |-> << >>]
         /\ \A i \in 1 .. Len(x.rest) :
              x.rest[i] = "lbrace" /\ (\A k \in 1 .. i - 1 : x.rest[k] # "lbrace") =>
                /\ ObjectEnds(x.rest, i) = {} =>
                     ExtractOne(x) = [out |-> x.out, rest |-> SubSeq(x.rest, i, Len(x.rest))]
                /\ \A j \in ObjectEnds(x.rest, i) :
                     (\A k \in ObjectEnds(x.rest, i) : j <= k) =>
                       ExtractOne(x) = [out  |-> Append(x.out, SubSeq(x.rest, i, j)),
                                        rest |-> SubSeq(x.rest, j + 1, Len(x.rest))]
<1> DEFINE starts == {k \in 1 .. Len(x.rest) : x.rest[k] = "lbrace"}
<1>1. /\ x.rest \in Seq(JsonByte) /\ Len(x.rest) \in Nat
      /\ x = [out |-> x.out, rest |-> x.rest]
  BY DEF TakeState, JsonText
<1>2. \A r : [x EXCEPT !.rest = r] = [out |-> x.out, rest |-> r]
  BY <1>1
<1>3. ExtractOne(x) =
        IF starts = {} THEN [x EXCEPT !.rest = << >>]
        ELSE IF ObjectEnds(x.rest, Min(starts)) = {}
             THEN [x EXCEPT !.rest = SubSeq(x.rest, Min(starts), Len(x.rest))]
        ELSE [out |-> Append(x.out, SubSeq(x.rest, Min(starts), Min(ObjectEnds(x.rest, Min(starts))))),
              rest |-> SubSeq(x.rest, Min(ObjectEnds(x.rest, Min(starts))) + 1, Len(x.rest))]
  BY DEF ExtractOne
<1>4. ASSUME \A k \in 1 .. Len(x.rest) : x.rest[k] # "lbrace" PROVE starts = {}
  BY <1>4
<1>5. ASSUME NEW i \in 1 .. Len(x.rest), x.rest[i] = "lbrace",
             \A k \in 1 .. i - 1 : x.rest[k] # "lbrace"
      PROVE  starts # {} /\ Min(starts) = i
  <2>1. i \in starts /\ starts \subseteq 1 .. Len(x.rest)
    BY <1>5
  <2>2. \A k \in starts : i <= k
    <3> SUFFICES ASSUME NEW k \in starts, ~(i <= k) PROVE FALSE
      OBVIOUS
    <3>1. k \in 1 .. i - 1
      BY <1>1, <2>1
    <3> QED
      BY <1>5, <3>1
  <2> HIDE DEF starts
  <2>3. starts \in SUBSET Nat /\ starts # {}
    BY <2>1
  <2>4. Min(starts) \in starts /\ Min(starts) <= i
    BY <2>1, <2>3, MinIs
  <2>5. Min(starts) \in Nat /\ i \in Nat /\ i <= Min(starts)
    BY <2>1, <2>2, <2>3, <2>4
  <2> QED
    BY <2>3, <2>4, <2>5
<1>6. ASSUME NEW i \in 1 .. Len(x.rest), NEW j \in ObjectEnds(x.rest, i),
             \A k \in ObjectEnds(x.rest, i) : j <= k
      PROVE  ObjectEnds(x.rest, i) # {} /\ Min(ObjectEnds(x.rest, i)) = j
  <2> DEFINE ends == ObjectEnds(x.rest, i)
  <2>1. ends \subseteq i .. Len(x.rest)
    BY DEF ObjectEnds
  <2>2. j \in ends /\ \A k \in ends : j <= k
    BY <1>6
  <2> HIDE DEF ends
  <2>3. ends \in SUBSET Nat /\ ends # {}
    BY <1>1, <2>1, <2>2
  <2>4. Min(ends) \in ends /\ Min(ends) <= j
    BY <2>2, <2>3, MinIs
  <2>5. Min(ends) \in Nat /\ j \in Nat /\ j <= Min(ends)
    BY <2>2, <2>3, <2>4
  <2>6. ends # {} /\ Min(ends) = j
    BY <2>3, <2>4, <2>5
  <2> QED
    BY <2>6 DEF ends
<1> HIDE DEF starts
<1>7. ASSUME \A k \in 1 .. Len(x.rest) : x.rest[k] # "lbrace"
      PROVE  ExtractOne(x) = [out |-> x.out, rest |-> << >>]
  BY <1>2, <1>3, <1>4, <1>7
<1>8. ASSUME NEW i \in 1 .. Len(x.rest), x.rest[i] = "lbrace",
             \A k \in 1 .. i - 1 : x.rest[k] # "lbrace"
      PROVE  /\ ObjectEnds(x.rest, i) = {} =>
                  ExtractOne(x) = [out |-> x.out, rest |-> SubSeq(x.rest, i, Len(x.rest))]
             /\ \A j \in ObjectEnds(x.rest, i) :
                  (\A k \in ObjectEnds(x.rest, i) : j <= k) =>
                    ExtractOne(x) = [out  |-> Append(x.out, SubSeq(x.rest, i, j)),
                                     rest |-> SubSeq(x.rest, j + 1, Len(x.rest))]
  <2>1. starts # {} /\ Min(starts) = i
    BY <1>5, <1>8
  <2>2. CASE ObjectEnds(x.rest, i) = {}
    BY <1>2, <1>3, <2>1, <2>2
  <2>3. ASSUME NEW j \in ObjectEnds(x.rest, i), \A k \in ObjectEnds(x.rest, i) : j <= k
        PROVE  ExtractOne(x) = [out  |-> Append(x.out, SubSeq(x.rest, i, j)),
                                rest |-> SubSeq(x.rest, j + 1, Len(x.rest))]
    <3>1. ObjectEnds(x.rest, i) # {} /\ Min(ObjectEnds(x.rest, i)) = j
      BY <1>6, <2>3
    <3> QED
      BY <1>3, <2>1, <3>1
  <2> QED
    BY <2>2, <2>3
<1> QED
  BY <1>7, <1>8

-----------------------------------------------------------------------------
(* The loop of _extract_objects finds what one pass finds *)

\* Objects as the messages they become.
Wrap(out) == [k \in 1 .. Len(out) |-> <<out[k]>>]

LEMMA WrapIs ==
  ASSUME NEW out \in Seq(JsonText)
  PROVE  /\ Wrap(out) \in Seq(Seq(JsonText))
         /\ \A e \in JsonText : Wrap(Append(out, e)) = Append(Wrap(out), <<e>>)
<1>1. /\ Len(out) \in Nat /\ \A k \in 1 .. Len(out) : out[k] \in JsonText
  OBVIOUS
<1>2. \A e \in JsonText : <<e>> \in Seq(JsonText)
  OBVIOUS
<1>3. Wrap(out) \in Seq(Seq(JsonText)) /\ Len(Wrap(out)) = Len(out)
  <2> DEFINE E == Seq(JsonText)
  <2>1. \A k \in 1 .. Len(out) : <<out[k]>> \in E
    BY <1>1, <1>2
  <2> HIDE DEF E
  <2>2. Wrap(out) \in Seq(E) /\ Len(Wrap(out)) = Len(out)
    BY <1>1, <2>1 DEF Wrap
  <2> QED
    BY <2>2 DEF E
<1>4. ASSUME NEW e \in JsonText PROVE Wrap(Append(out, e)) = Append(Wrap(out), <<e>>)
  <2> DEFINE a == Append(out, e)
             w == Wrap(out)
             E == Seq(JsonText)
  <2>1. Len(a) = Len(out) + 1 /\ a[Len(out) + 1] = e /\ \A k \in 1 .. Len(out) : a[k] = out[k]
    BY <1>1
  <2>2. \A k \in 1 .. Len(out) : w[k] = <<out[k]>>
    BY <1>1 DEF Wrap
  <2>3. w \in Seq(E) /\ <<e>> \in E /\ Len(w) = Len(out)
    BY <1>2, <1>3
  <2> SUFFICES Wrap(a) = Append(w, <<e>>)
    OBVIOUS
  <2> DEFINE b == Append(w, <<e>>)
  <2> HIDE DEF a, w, E
  <2>4. /\ b \in Seq(E) /\ Len(b) = Len(out) + 1 /\ b[Len(out) + 1] = <<e>>
        /\ \A k \in 1 .. Len(out) : b[k] = w[k]
    BY <1>1, <2>3
  <2> HIDE DEF b
  <2>5. \A k \in 1 .. Len(out) + 1 : b[k] = <<a[k]>>
    <3> SUFFICES ASSUME NEW k \in 1 .. Len(out) + 1 PROVE b[k] = <<a[k]>>
      OBVIOUS
    <3>1. k \in 1 .. Len(out) \/ k = Len(out) + 1
      BY <1>1
    <3> QED
      BY <2>1, <2>2, <2>4, <3>1
  <2>6. b = [k \in 1 .. Len(out) + 1 |-> b[k]]
    BY <2>4
  <2>7. b = [k \in 1 .. Len(out) + 1 |-> <<a[k]>>]
    BY <2>5, <2>6
  <2> QED
    BY <2>1, <2>7 DEF Wrap, b
<1> QED
  BY <1>3, <1>4

\* The pass over an object and what follows it.
LEMMA ObjectFound ==
  ASSUME NEW out \in Seq(Seq(JsonText)), NEW u \in JsonText, NEW m \in 1 .. Len(u),
         u[1] = "lbrace", EndsAt(u, m), \A k \in 1 .. m - 1 : ~EndsAt(u, k)
  PROVE  /\ SubSeq(u, 1, m) \in JsonText /\ SubSeq(u, m + 1, Len(u)) \in JsonText
         /\ Pass(Begin(out), u)
              = Pass(Begin(Append(out, <<SubSeq(u, 1, m)>>)), SubSeq(u, m + 1, Len(u)))
<1> DEFINE b == SubSeq(u, 1, m - 1)
           c == SubSeq(u, 1, m)
           v == SubSeq(u, m + 1, Len(u))
<1>1. u \in Seq(JsonByte) /\ Len(u) \in Nat /\ m \in Nat
  BY DEF JsonText
<1>2. m # 1 /\ m - 1 \in 1 .. Len(u) /\ m - 1 \in Nat
  <2>1. u[1] # "rbrace"
    OBVIOUS
  <2>2. m # 1
    BY <2>1 DEF EndsAt
  <2> QED
    BY <1>1, <2>2
<1>3. /\ b \in Seq(JsonByte) /\ Len(b) = m - 1 /\ \A k \in 1 .. m - 1 : b[k] = u[k]
  <2>1. \A k \in 1 .. m - 1 : u[k] \in JsonByte
    BY <1>1, <1>2
  <2>2. /\ b \in Seq(JsonByte) /\ Len(b) = IF 1 <= m - 1 THEN m - 1 - 1 + 1 ELSE 0
        /\ \A k \in 1 .. m - 1 - 1 + 1 : b[k] = u[1 + k - 1]
    BY <1>2, <2>1, SubSeqProperties
  <2>3. 1 <= m - 1 /\ m - 1 - 1 + 1 = m - 1
    BY <1>2
  <2>4. \A k \in 1 .. m - 1 : u[1 + k - 1] = u[k]
    BY <1>2
  <2> HIDE DEF b
  <2> QED
    BY <2>2, <2>3, <2>4
<1>4. /\ c \in Seq(JsonByte) /\ Len(c) = m /\ \A k \in 1 .. m : c[k] = u[k]
  <2>1. \A k \in 1 .. m : u[k] \in JsonByte
    BY <1>1
  <2>2. /\ c \in Seq(JsonByte) /\ Len(c) = IF 1 <= m THEN m - 1 + 1 ELSE 0
        /\ \A k \in 1 .. m - 1 + 1 : c[k] = u[1 + k - 1]
    BY <1>1, <2>1, SubSeqProperties
  <2>3. 1 <= m /\ m - 1 + 1 = m
    BY <1>1
  <2>4. \A k \in 1 .. m : u[1 + k - 1] = u[k]
    BY <1>1
  <2> HIDE DEF c
  <2> QED
    BY <2>2, <2>3, <2>4
<1>5. v \in Seq(JsonByte)
  <2>1. \A k \in m + 1 .. Len(u) : u[k] \in JsonByte
    BY <1>1
  <2> QED
    BY <1>1, <2>1, SubSeqProperties
<1>6. u = c \o v
  <2>1. SubSeq(u, 1, m) \o SubSeq(u, m + 1, Len(u)) = SubSeq(u, 1, Len(u))
    <3>1. /\ 1 \in 1 .. Len(u) + 1 /\ m \in 1 - 1 .. Len(u) /\ Len(u) \in m .. Len(u)
      BY <1>1
    <3> QED
      BY <1>1, <3>1, ConcatAdjacentSubSeq
  <2>2. SubSeq(u, 1, Len(u)) = u
    BY <1>1, SubSeqFull
  <2> QED
    BY <2>1, <2>2
<1>7. \A k \in 1 .. m - 1 : SubSeq(b, 1, k) = SubSeq(u, 1, k)
  <2> SUFFICES ASSUME NEW k \in 1 .. m - 1 PROVE SubSeq(b, 1, k) = SubSeq(u, 1, k)
    OBVIOUS
  <2>1. /\ 1 \in 1 .. Len(u) /\ 1 \in 1 .. (m - 1) - 1 + 1 /\ k \in 1 .. (m - 1) - 1 + 1
    BY <1>1, <1>2
  <2>2. SubSeq(b, 1, k) = SubSeq(u, 1 + 1 - 1, 1 + k - 1)
    BY <1>1, <1>2, <2>1, SubSeqOfSubSeq
  <2>3. 1 + 1 - 1 = 1 /\ 1 + k - 1 = k
    BY <1>2
  <2> QED
    BY <2>2, <2>3
<1>8. SubSeq(c, 1, m) = c
  BY <1>4, SubSeqFull
<1>9. c = Append(b, u[m])
  <2> DEFINE a == Append(b, u[m])
  <2>0. u[m] \in JsonByte
    BY <1>1
  <2> HIDE DEF b, c
  <2>1. a \in Seq(JsonByte) /\ Len(a) = Len(b) + 1 /\ a[Len(b) + 1] = u[m]
        /\ \A k \in 1 .. Len(b) : a[k] = b[k]
    BY <1>3, <2>0
  <2> HIDE DEF a
  <2>2. Len(b) + 1 = m
    BY <1>1, <1>3
  <2>3. \A k \in 1 .. m : a[k] = c[k]
    <3> SUFFICES ASSUME NEW k \in 1 .. m PROVE a[k] = c[k]
      OBVIOUS
    <3>1. k = m \/ k \in 1 .. m - 1
      BY <1>1
    <3> QED
      BY <1>3, <1>4, <2>1, <2>2, <3>1
  <2>4. a = c
    BY <1>4, <2>1, <2>2, <2>3, SeqEqual
  <2> QED
    BY <2>4 DEF a
<1>10. Unclosed(b)
  <2>1. b # << >> /\ b[1] = "lbrace"
    <3>1. 1 \in 1 .. m - 1
      BY <1>2
    <3>2. b[1] = u[1] /\ Len(b) # 0
      BY <1>2, <1>3, <3>1
    <3> HIDE DEF b
    <3> QED
      BY <3>2
  <2>2. \A k \in 1 .. m - 1 : ~EndsAt(b, k)
    BY <1>3, <1>7 DEF EndsAt
  <2> HIDE DEF b
  <2> QED
    BY <1>3, <2>1, <2>2 DEF Unclosed
<1>11. EndsAt(Append(b, u[m]), Len(b) + 1)
  <2>1. Len(b) + 1 = m
    BY <1>1, <1>3
  <2>2. EndsAt(c, m)
    <3>1. u[m] = "rbrace" /\ Scanned(c).depth = 0
      BY DEF EndsAt
    <3>2. c[m] = u[m]
      BY <1>1, <1>4
    <3> HIDE DEF c
    <3> QED
      BY <1>8, <3>1, <3>2 DEF EndsAt
  <2> HIDE DEF b, c
  <2> QED
    BY <1>9, <2>1, <2>2
<1>12. u[m] \in JsonByte /\ b \in JsonText /\ c \in JsonText /\ v \in JsonText
  BY <1>1, <1>3, <1>4, <1>5 DEF JsonText
<1> HIDE DEF b, c, v
<1>13. Pass(Begin(out), c) = Begin(Append(out, <<c>>))
  BY <1>9, <1>10, <1>11, <1>12, ClosedIsFound
<1>14. Pass(Begin(out), c \o v) = Pass(Pass(Begin(out), c), v)
  <2>1. Begin(out) \in PassState
    BY BeginIs
  <2>2. \A w, z \in JsonText : Pass(Begin(out), w \o z) = Pass(Pass(Begin(out), w), z)
    BY <2>1, PassIs
  <2> QED
    BY <1>12, <2>2
<1>15. Pass(Begin(out), u) = Pass(Begin(Append(out, <<c>>)), v)
  BY <1>6, <1>13, <1>14
<1> QED
  BY <1>12, <1>15 DEF c, v

\* Nothing more can be taken from what is left.
Settled(rest) == rest = << >> \/ Unclosed(rest)

\* An object taken leaves what one pass finds as it is, and less to search.
LEMMA TakeKeeps ==
  ASSUME NEW x \in TakeState
  PROVE  LET y == ExtractOne(x)
         IN /\ y \in TakeState
            /\ Pass(Begin(Wrap(y.out)), y.rest) = Pass(Begin(Wrap(x.out)), x.rest)
            /\ Settled(y.rest) \/ Len(y.rest) < Len(x.rest)
<1> DEFINE y == ExtractOne(x)
           W == Wrap(x.out)
           P(out, rest) == Pass(Begin(Wrap(out)), rest)
<1>1. /\ x.out \in Seq(JsonText) /\ x.rest \in JsonText /\ x.rest \in Seq(JsonByte)
      /\ Len(x.rest) \in Nat
  BY DEF TakeState, JsonText
<1>2. y \in TakeState
  BY TakeType
<1>3. W \in Seq(Seq(JsonText)) /\ Begin(W) \in PassState
  BY <1>1, WrapIs, BeginIs
<1>4. CASE \A k \in 1 .. Len(x.rest) : x.rest[k] # "lbrace"
  <2>1. y = [out |-> x.out, rest |-> << >>]
    BY <1>4, TakeIs
  <2>2. Pass(Begin(W), x.rest) = Begin(W)
    BY <1>1, <1>3, <1>4, PassSkips
  <2>3. Pass(Begin(W), << >>) = Begin(W)
    BY <1>3, PassIs
  <2>4. y.out = x.out /\ y.rest = << >>
    BY <2>1
  <2> HIDE DEF y
  <2> QED
    BY <1>2, <2>2, <2>3, <2>4 DEF Settled, y
<1>5. CASE \E k \in 1 .. Len(x.rest) : x.rest[k] = "lbrace"
  <2>1. PICK i \in 1 .. Len(x.rest) : x.rest[i] = "lbrace" /\ \A k \in 1 .. i - 1 : x.rest[k] # "lbrace"
    <3> DEFINE starts == {k \in 1 .. Len(x.rest) : x.rest[k] = "lbrace"}
    <3>1. starts \subseteq Nat /\ starts # {}
      BY <1>5
    <3> HIDE DEF starts
    <3>2. PICK i \in starts : \A k \in starts : ~(k < i)
      BY <3>1, LeastOf
    <3>3. i \in 1 .. Len(x.rest) /\ x.rest[i] = "lbrace"
      BY DEF starts
    <3>4. ASSUME NEW k \in 1 .. i - 1 PROVE x.rest[k] # "lbrace"
      <4>1. k < i /\ k \in 1 .. Len(x.rest)
        BY <1>1, <3>3
      <4>2. k \notin starts
        BY <3>2, <4>1
      <4> QED
        BY <4>1, <4>2 DEF starts
    <3> QED
      BY <3>3, <3>4
  <2> DEFINE p == SubSeq(x.rest, 1, i - 1)
             u == SubSeq(x.rest, i, Len(x.rest))
  <2>2. /\ u \in JsonText /\ Len(u) = Len(x.rest) - i + 1
        /\ \A k \in 1 .. Len(u) : u[k] = x.rest[i + k - 1]
        /\ \A k \in 1 .. Len(u) : EndsAt(u, k) <=> i + k - 1 \in ObjectEnds(x.rest, i)
        /\ \A j \in ObjectEnds(x.rest, i) : j - i + 1 \in 1 .. Len(u)
    BY <1>1, Suffix
  <2>3. /\ p \in JsonText /\ \A k \in 1 .. Len(p) : p[k] # "lbrace"
    <3>1. \A k \in 1 .. i - 1 : x.rest[k] \in JsonByte /\ x.rest[k] # "lbrace"
      <4>1. \A k \in 1 .. i - 1 : k \in 1 .. Len(x.rest)
        BY <1>1
      <4> QED
        BY <1>1, <2>1, <4>1
    <3>2. i - 1 \in Int /\ i \in Nat \ {0}
      BY <1>1
    <3>3. /\ p \in Seq(JsonByte) /\ Len(p) = IF 1 <= i - 1 THEN i - 1 - 1 + 1 ELSE 0
          /\ \A k \in 1 .. i - 1 - 1 + 1 : p[k] = x.rest[1 + k - 1]
      BY <3>1, <3>2, SubSeqProperties
    <3> HIDE DEF p
    <3>4. Len(p) = i - 1 /\ \A k \in 1 .. i - 1 : p[k] = x.rest[k]
      <4>1. i - 1 - 1 + 1 = i - 1 /\ (~(1 <= i - 1) => i - 1 = 0)
        BY <3>2
      <4>2. \A k \in 1 .. i - 1 : p[k] = x.rest[1 + k - 1] /\ 1 + k - 1 = k
        BY <3>2, <3>3, <4>1
      <4> QED
        BY <3>3, <4>1, <4>2
    <3> QED
      BY <3>1, <3>3, <3>4 DEF JsonText
  <2>4. x.rest = p \o u
    <3>1. SubSeq(x.rest, 1, i - 1) \o SubSeq(x.rest, i - 1 + 1, Len(x.rest)) = SubSeq(x.rest, 1, Len(x.rest))
      <4>1. /\ 1 \in 1 .. Len(x.rest) + 1 /\ i - 1 \in 1 - 1 .. Len(x.rest)
            /\ Len(x.rest) \in i - 1 .. Len(x.rest)
        BY <1>1
      <4> QED
        BY <1>1, <4>1, ConcatAdjacentSubSeq
    <3>2. SubSeq(x.rest, 1, Len(x.rest)) = x.rest /\ i - 1 + 1 = i
      BY <1>1, SubSeqFull
    <3> QED
      BY <3>1, <3>2
  <2>5. Pass(Begin(W), x.rest) = Pass(Begin(W), u)
    <3> HIDE DEF p, u, W
    <3>1. Pass(Begin(W), p \o u) = Pass(Pass(Begin(W), p), u)
      BY <1>3, <2>2, <2>3, PassIs
    <3>2. Pass(Begin(W), p) = Begin(W)
      BY <1>3, <2>3, PassSkips
    <3> QED
      BY <2>4, <3>1, <3>2
  <2>6. u # << >> /\ u[1] = "lbrace" /\ 1 \in 1 .. Len(u)
    <3> HIDE DEF u
    <3>1. 1 \in 1 .. Len(u) /\ i + 1 - 1 = i /\ Len(u) # 0
      BY <1>1, <2>2
    <3>2. u[1] = x.rest[i + 1 - 1]
      BY <2>2, <3>1
    <3>3. u[1] = "lbrace"
      BY <2>1, <3>1, <3>2
    <3>4. u # << >>
      BY <3>1
    <3> QED
      BY <3>1, <3>3, <3>4
  <2>7. CASE ObjectEnds(x.rest, i) = {}
    <3>1. y = [out |-> x.out, rest |-> u]
      BY <2>1, <2>7, TakeIs
    <3>2. Unclosed(u)
      <4>1. \A k \in 1 .. Len(u) : ~EndsAt(u, k)
        BY <2>2, <2>7
      <4> QED
        BY <2>6, <4>1 DEF Unclosed
    <3>3. y.out = x.out /\ y.rest = u
      BY <3>1
    <3> HIDE DEF y
    <3> QED
      BY <1>2, <2>5, <3>2, <3>3 DEF Settled, y
  <2>8. CASE ObjectEnds(x.rest, i) # {}
    <3>1. PICK j \in ObjectEnds(x.rest, i) : \A k \in ObjectEnds(x.rest, i) : j <= k
      <4> DEFINE ends == ObjectEnds(x.rest, i)
      <4>1. ends \subseteq Nat
        BY <1>1 DEF ObjectEnds
      <4> HIDE DEF ends
      <4>2. PICK j \in ends : \A k \in ends : ~(k < j)
        BY <2>8, <4>1, LeastOf DEF ends
      <4>3. \A k \in ends : j <= k
        BY <4>1, <4>2
      <4> QED
        BY <4>2, <4>3 DEF ends
    <3>2. y = [out |-> Append(x.out, SubSeq(x.rest, i, j)), rest |-> SubSeq(x.rest, j + 1, Len(x.rest))]
      BY <2>1, <3>1, TakeIs
    <3> DEFINE m == j - i + 1
    <3>3. j \in i .. Len(x.rest) /\ m \in 1 .. Len(u) /\ m \in Nat /\ i + m - 1 = j /\ i \in Nat /\ j \in Nat
      <4>1. j \in i .. Len(x.rest) /\ m \in 1 .. Len(u)
        BY <2>2 DEF ObjectEnds
      <4> HIDE DEF u
      <4>2. m \in Nat /\ i + m - 1 = j
        BY <1>1, <4>1
      <4> QED
        BY <1>1, <4>1, <4>2
    <3>4. EndsAt(u, m)
      BY <2>2, <3>3
    <3>5. ASSUME NEW k \in 1 .. m - 1 PROVE ~EndsAt(u, k)
      <4>0. Len(u) \in Nat
        BY <2>2 DEF JsonText
      <4>1. k \in 1 .. Len(u) /\ ~(j <= i + k - 1)
        <5> HIDE DEF u
        <5> QED
          BY <1>1, <3>3, <4>0
      <4> QED
        BY <2>2, <3>1, <4>1
    <3>6. SubSeq(u, 1, m) = SubSeq(x.rest, i, j)
      <4>1. 1 \in 1 .. Len(x.rest) - i + 1 /\ m \in 1 .. Len(x.rest) - i + 1 /\ Len(x.rest) \in 1 .. Len(x.rest)
        BY <1>1, <2>2, <3>3
      <4>2. SubSeq(u, 1, m) = SubSeq(x.rest, i + 1 - 1, i + m - 1)
        BY <1>1, <4>1, SubSeqOfSubSeq
      <4>3. i + 1 - 1 = i
        BY <3>3
      <4> QED
        BY <3>3, <4>2, <4>3
    <3>7. SubSeq(u, m + 1, Len(u)) = SubSeq(x.rest, j + 1, Len(x.rest))
      <4>1. CASE m = Len(u)
        <5>1. Len(u) < m + 1 /\ j = Len(x.rest) /\ Len(x.rest) < j + 1
          BY <1>1, <2>2, <3>3, <4>1
        <5>2. SubSeq(u, m + 1, Len(u)) = << >> /\ SubSeq(x.rest, j + 1, Len(x.rest)) = << >>
          BY <1>1, <2>2, <3>3, <5>1, SubSeqEmpty
        <5> QED
          BY <5>2
      <4>2. CASE m # Len(u)
        <5>1. /\ m + 1 \in 1 .. Len(x.rest) - i + 1 /\ Len(u) \in 1 .. Len(x.rest) - i + 1
              /\ Len(x.rest) \in 1 .. Len(x.rest)
          <6> HIDE DEF u
          <6> QED
            BY <1>1, <2>2, <3>3, <4>2
        <5>2. SubSeq(u, m + 1, Len(u)) = SubSeq(x.rest, i + (m + 1) - 1, i + Len(u) - 1)
          <6> DEFINE n == m + 1
                     l == Len(u)
          <6>1. n \in 1 .. Len(x.rest) - i + 1 /\ l \in 1 .. Len(x.rest) - i + 1
            BY <5>1
          <6> HIDE DEF n, l
          <6>2. SubSeq(SubSeq(x.rest, i, Len(x.rest)), n, l) = SubSeq(x.rest, i + n - 1, i + l - 1)
            BY <1>1, <5>1, <6>1, SubSeqOfSubSeq
          <6> QED
            BY <6>2 DEF n, l
        <5>3. i + (m + 1) - 1 = j + 1 /\ i + Len(u) - 1 = Len(x.rest)
          BY <1>1, <2>2, <3>3
        <5> QED
          BY <5>2, <5>3
      <4> QED
        BY <4>1, <4>2
    <3>8. /\ SubSeq(u, 1, m) \in JsonText
          /\ Pass(Begin(W), u) = Pass(Begin(Append(W, <<SubSeq(u, 1, m)>>)), SubSeq(u, m + 1, Len(u)))
      <4> HIDE DEF u, m, W
      <4> QED
        BY <1>3, <2>2, <2>6, <3>3, <3>4, <3>5, ObjectFound
    <3>9. Wrap(Append(x.out, SubSeq(x.rest, i, j))) = Append(W, <<SubSeq(x.rest, i, j)>>)
      BY <1>1, <3>6, <3>8, WrapIs
    <3>10. Pass(Begin(Wrap(y.out)), y.rest) = Pass(Begin(W), x.rest)
      <4> HIDE DEF y, W, u, m
      <4>1. y.out = Append(x.out, SubSeq(x.rest, i, j)) /\ y.rest = SubSeq(x.rest, j + 1, Len(x.rest))
        BY <3>2
      <4> QED
        BY <2>5, <3>6, <3>7, <3>8, <3>9, <4>1
    <3>11. Len(y.rest) < Len(x.rest)
      <4> HIDE DEF y
      <4>1. y.rest = SubSeq(x.rest, j + 1, Len(x.rest))
        BY <3>2
      <4>2. \A k \in j + 1 .. Len(x.rest) : x.rest[k] \in JsonByte
        BY <1>1, <3>3
      <4>3. Len(SubSeq(x.rest, j + 1, Len(x.rest))) = IF j + 1 <= Len(x.rest) THEN Len(x.rest) - (j + 1) + 1 ELSE 0
        BY <1>1, <3>3, <4>2, SubSeqProperties
      <4>4. 1 <= j /\ j <= Len(x.rest)
        BY <1>1, <3>3
      <4> QED
        BY <1>1, <3>3, <4>1, <4>3, <4>4
    <3> QED
      BY <1>2, <3>10, <3>11
  <2> QED
    BY <2>7, <2>8
<1> QED
  BY <1>4, <1>5

\* What is settled stays.
LEMMA TakeSettled ==
  ASSUME NEW x \in TakeState, Settled(x.rest) PROVE ExtractOne(x) = x
<1>1. x.rest \in JsonText /\ x.rest \in Seq(JsonByte) /\ x = [out |-> x.out, rest |-> x.rest]
  BY DEF TakeState, JsonText
<1>2. CASE x.rest = << >>
  <2>1. ExtractOne(x) = [out |-> x.out, rest |-> << >>]
    <3>1. \A k \in 1 .. Len(x.rest) : x.rest[k] # "lbrace"
      BY <1>2
    <3> QED
      BY <3>1, TakeIs
  <2> QED
    BY <1>1, <1>2, <2>1
<1>3. CASE Unclosed(x.rest)
  <2>1. 1 \in 1 .. Len(x.rest) /\ x.rest[1] = "lbrace"
    BY <1>1, <1>3 DEF Unclosed
  <2>2. SubSeq(x.rest, 1, Len(x.rest)) = x.rest
    BY <1>1, SubSeqFull
  <2>3. ObjectEnds(x.rest, 1) = {}
    <3>1. /\ \A k \in 1 .. Len(x.rest) : EndsAt(x.rest, k) <=> 1 + k - 1 \in ObjectEnds(x.rest, 1)
      BY <1>1, <2>1, <2>2, Suffix
    <3>2. \A k \in ObjectEnds(x.rest, 1) : k \in 1 .. Len(x.rest) /\ 1 + k - 1 = k
      BY DEF ObjectEnds
    <3> QED
      BY <1>3, <3>1, <3>2 DEF Unclosed
  <2>4. ExtractOne(x) = [out |-> x.out, rest |-> SubSeq(x.rest, 1, Len(x.rest))]
    <3>1. \A k \in 1 .. 1 - 1 : x.rest[k] # "lbrace"
      OBVIOUS
    <3> QED
      BY <2>1, <2>3, <3>1, TakeIs
  <2> QED
    BY <1>1, <2>2, <2>4
<1> QED
  BY <1>2, <1>3 DEF Settled

LEMMA SettledPass ==
  ASSUME NEW out \in Seq(Seq(JsonText)), NEW rest \in JsonText, Settled(rest)
  PROVE  Pass(Begin(out), rest).out = out /\ Pass(Begin(out), rest).open = rest
<1>1. CASE rest = << >>
  <2>1. Pass(Begin(out), rest) = Begin(out)
    BY <1>1, BeginIs, PassIs
  <2> QED
    BY <1>1, <2>1 DEF Begin
<1>2. CASE Unclosed(rest)
  <2>1. Pass(Begin(out), rest) = Held(out, rest, Scanned(rest))
    BY <1>2, UnclosedIsOpen
  <2> QED
    BY <2>1 DEF Held
<1> QED
  BY <1>1, <1>2 DEF Settled

Numbers(n) == [k \in 1 .. n |-> k]

LEMMA NumbersIs ==
  ASSUME NEW n \in Nat
  PROVE  Numbers(n) \in Seq(Nat) /\ Numbers(n + 1) = Append(Numbers(n), n + 1)
<1>1. \A k \in 1 .. n + 1 : k \in Nat
  OBVIOUS
<1>2. Numbers(n) \in Seq(Nat) /\ Len(Numbers(n)) = n /\ \A k \in 1 .. n : Numbers(n)[k] = k
  BY DEF Numbers
<1>3. Numbers(n + 1) \in Seq(Nat) /\ Len(Numbers(n + 1)) = n + 1
      /\ \A k \in 1 .. n + 1 : Numbers(n + 1)[k] = k
  BY DEF Numbers
<1> DEFINE a == Numbers(n)
           b == Numbers(n + 1)
           c == Append(Numbers(n), n + 1)
<1>4. c \in Seq(Nat) /\ Len(c) = n + 1 /\ c[n + 1] = n + 1 /\ \A k \in 1 .. n : c[k] = k
  BY <1>2
<1> HIDE DEF c
<1>5. \A k \in 1 .. n + 1 : b[k] = c[k]
  <2> SUFFICES ASSUME NEW k \in 1 .. n + 1 PROVE b[k] = c[k]
    OBVIOUS
  <2>1. k \in 1 .. n \/ k = n + 1
    OBVIOUS
  <2> QED
    BY <1>3, <1>4, <2>1
<1>6. b = c
  BY <1>3, <1>4, <1>5, SeqEqual
<1> QED
  BY <1>2, <1>6 DEF c

\* _extract_objects takes what one pass over the text finds, and leaves what is open.
LEMMA ExtractIs ==
  ASSUME NEW text \in JsonText
  PROVE  LET done == ExtractObjects(text)
             x == Pass(Begin(<< >>), text)
         IN done \in TakeState /\ Wrap(done.out) = x.out /\ done.rest = x.open
<1> DEFINE initial == [out |-> << >>, rest |-> text]
           At(n) == Final(TakeF, initial, Numbers(n))
           Same(y) == Pass(Begin(Wrap(y.out)), y.rest) = Pass(Begin(<< >>), text)
           good == {n \in Nat : /\ At(n) \in TakeState /\ Same(At(n))
                                /\ Settled(At(n).rest) \/ Len(At(n).rest) + n <= Len(text)}
<1>0. text \in Seq(JsonByte) /\ Len(text) \in Nat
  BY DEF JsonText
<1>1. initial \in TakeState /\ initial.out = << >> /\ initial.rest = text /\ Wrap(<< >>) = << >>
  BY DEF TakeState, Wrap
<1>2. 0 \in good
  <2>1. Numbers(0) = << >>
    BY DEF Numbers
  <2> HIDE DEF initial
  <2>2. At(0) = initial
    BY <2>1, FinalEmpty
  <2> HIDE DEF At
  <2> QED
    BY <1>0, <1>1, <2>2
<1>3. ASSUME NEW n \in Nat, n \in good PROVE n + 1 \in good
  <2>1. Numbers(n) \in Seq(Nat) /\ Numbers(n + 1) = Append(Numbers(n), n + 1) /\ n + 1 \in Nat
    <3>1. n \in Nat /\ n + 1 \in Nat
      OBVIOUS
    <3>2. \A i \in Nat : Numbers(i) \in Seq(Nat) /\ Numbers(i + 1) = Append(Numbers(i), i + 1)
      BY NumbersIs
    <3> HIDE DEF good
    <3> QED
      BY <3>1, <3>2
  <2> HIDE DEF initial
  <2>2. Final(TakeF, initial, Append(Numbers(n), n + 1)) = TakeF[<<Final(TakeF, initial, Numbers(n)), n + 1>>]
    BY <2>1, FinalAppend
  <2>3. At(n + 1) = TakeF[<<At(n), n + 1>>]
    BY <2>1, <2>2
  <2> DEFINE x == At(n)
             y == At(n + 1)
  <2>4. x \in TakeState /\ Same(x) /\ (Settled(x.rest) \/ Len(x.rest) + n <= Len(text))
    BY <1>3
  <2> HIDE DEF At
  <2>5. y = ExtractOne(x)
    BY <2>1, <2>3, <2>4 DEF TakeF
  <2>6. /\ ExtractOne(x) \in TakeState
        /\ Pass(Begin(Wrap(ExtractOne(x).out)), ExtractOne(x).rest) = Pass(Begin(Wrap(x.out)), x.rest)
        /\ Settled(ExtractOne(x).rest) \/ Len(ExtractOne(x).rest) < Len(x.rest)
    BY <2>4, TakeKeeps
  <2>7. y \in TakeState /\ Same(y)
    BY <2>4, <2>5, <2>6
  <2>8. Settled(y.rest) \/ Len(y.rest) + (n + 1) <= Len(text)
    <3>1. CASE Settled(x.rest)
      <4>1. y = x
        BY <2>4, <2>5, <3>1, TakeSettled
      <4> QED
        BY <3>1, <4>1
    <3>2. CASE Len(x.rest) + n <= Len(text) /\ Len(y.rest) < Len(x.rest)
      <4>1. Len(y.rest) \in Nat /\ Len(x.rest) \in Nat
        BY <2>4, <2>7 DEF TakeState, JsonText
      <4> DEFINE lx == Len(x.rest)
                 ly == Len(y.rest)
                 lt == Len(text)
      <4>2. n \in Nat /\ lt \in Nat /\ lx \in Nat /\ ly \in Nat /\ lx + n <= lt /\ ly < lx
        BY <1>0, <3>2, <4>1
      <4> HIDE DEF lx, ly, lt
      <4>3. ly + (n + 1) <= lt
        BY <4>2
      <4> QED
        BY <4>3 DEF lx, ly, lt
    <3> QED
      BY <2>4, <2>5, <2>6, <3>1, <3>2
  <2>9. n + 1 \in Nat
    OBVIOUS
  <2> HIDE DEF Same
  <2> QED
    BY <2>7, <2>8, <2>9
<1>4. \A n \in Nat : n \in good
  <2> HIDE DEF good
  <2> QED
    BY <1>2, <1>3, AllNumbers
<1> DEFINE done == At(Len(text))
<1>5. done \in TakeState /\ Same(done) /\ (Settled(done.rest) \/ Len(done.rest) + Len(text) <= Len(text))
  BY <1>0, <1>4
<1>6. ExtractObjects(text) = done
  <2>1. Numbers(Len(text)) \in Seq(Nat)
    BY <1>0, NumbersIs
  <2> HIDE DEF initial
  <2>2. FoldLeft(LAMBDA st, k : ExtractOne(st), initial, Numbers(Len(text))) = done
    BY <1>1, <2>1, TakeFold
  <2> QED
    BY <2>2 DEF ExtractObjects, Numbers, initial
<1> HIDE DEF At, initial
<1>7. done.out \in Seq(JsonText) /\ done.rest \in JsonText
  BY <1>5 DEF TakeState
<1>8. Settled(done.rest)
  <2>1. done.rest \in Seq(JsonByte) /\ Len(done.rest) \in Nat
    BY <1>7 DEF JsonText
  <2>2. Len(done.rest) + Len(text) <= Len(text) => done.rest = << >>
    <3> HIDE DEF done
    <3>1. Len(done.rest) + Len(text) <= Len(text) => Len(done.rest) = 0
      BY <1>0, <2>1
    <3> QED
      BY <2>1, <3>1
  <2> QED
    BY <1>5, <2>2 DEF Settled
<1>9. Wrap(done.out) \in Seq(Seq(JsonText))
  BY <1>7, WrapIs
<1>10. Pass(Begin(Wrap(done.out)), done.rest).out = Wrap(done.out)
       /\ Pass(Begin(Wrap(done.out)), done.rest).open = done.rest
  BY <1>7, <1>8, <1>9, SettledPass
<1> HIDE DEF done
<1> QED
  BY <1>5, <1>6, <1>10

-----------------------------------------------------------------------------
(* JsonReader: what it has returned and what it keeps are those of one pass *)

ObjectsFound ==
  kind = "json" =>
    /\ fed \in JsonText
    /\ ~flushed => /\ messages = Pass(Begin(<< >>), fed).out
                   /\ half = Pass(Begin(<< >>), fed).open

LEMMA ChunkIs ==
  ASSUME NEW bytes \in Chunk, NEW E, Range(bytes) \subseteq E, MaxChunk \in Nat
  PROVE  bytes \in Seq(E)
<1>1. PICK n \in 1 .. MaxChunk : bytes \in [1 .. n -> LineByte \cup JsonByte]
  BY DEF Chunk
<1>2. n \in Nat /\ DOMAIN bytes = 1 .. n
  BY <1>1
<1>3. \A k \in 1 .. n : bytes[k] \in E
  BY <1>2 DEF Range
<1>4. bytes \in [1 .. n -> E]
  BY <1>1, <1>3
<1> QED
  BY <1>2, <1>4

LEMMA ObjectsStep ==
  ASSUME ObjectsFound, ReadersNext
  PROVE  ObjectsFound'
<1> SUFFICES ASSUME kind' = "json" PROVE ObjectsFound'
  BY DEF ObjectsFound
<1>1. kind = "json"
  BY DEF ReadersNext, Feed, FlushLines, FlushJson
<1>2. ASSUME NEW bytes \in Chunk, Range(bytes) \subseteq JsonByte, Feed(bytes) PROVE ObjectsFound'
  <2>1. bytes \in JsonText
    BY <1>2, ChunkIs, ReadersAssumption DEF JsonText
  <2> DEFINE x == Pass(Begin(<< >>), fed)
             text == half \o bytes
             done == ExtractObjects(text)
             z == Pass(Begin(<< >>), text)
  <2>2. fed \in JsonText /\ ~flushed /\ ~flushed' /\ messages = x.out /\ half = x.open
    BY <1>1, <1>2 DEF ObjectsFound, Feed
  <2>3. x \in PassState /\ Pass(Begin(<< >>), fed \o bytes) = After(x.out, Pass(Begin(<< >>), x.open \o bytes))
    BY <2>1, <2>2, PassInTwo
  <2> HIDE DEF x
  <2>4. x.open \in JsonText
    BY <2>3 DEF PassState
  <2>5. text \in JsonText /\ fed \o bytes \in JsonText
    BY <2>1, <2>2, <2>4, ConcatProperties DEF JsonText
  <2> HIDE DEF text
  <2>6. Wrap(done.out) = z.out /\ done.rest = z.open
    BY <2>5, ExtractIs
  <2>7. fed' = fed \o bytes /\ messages' = messages \o Wrap(done.out) /\ half' = done.rest
    BY <1>1, <1>2 DEF Feed, FeedJson, Joined, Wrap, text
  <2>8. Pass(Begin(<< >>), fed') = After(x.out, z)
    BY <2>2, <2>3, <2>7 DEF text
  <2>9. messages' = Pass(Begin(<< >>), fed').out /\ half' = Pass(Begin(<< >>), fed').open
    <3> HIDE DEF z, done
    <3>1. After(x.out, z).out = x.out \o z.out /\ After(x.out, z).open = z.open
      BY DEF After
    <3> QED
      BY <2>2, <2>6, <2>7, <2>8, <3>1
  <2> QED
    BY <2>2, <2>5, <2>7, <2>9 DEF ObjectsFound
<1>3. CASE FlushLines
  BY <1>1, <1>3 DEF FlushLines
<1>4. CASE FlushJson
  BY <1>1, <1>4 DEF FlushJson, ObjectsFound
<1> QED
  BY <1>1, <1>2, <1>3, <1>4 DEF ReadersNext

\* JsonReader: however the bytes are cut, it has returned the objects that one pass
\* over the whole file finds, and keeps the open one (read_json.py:46).
THEOREM ObjectsAreThoseOfOnePass == ReadersSpec => []ObjectsSurviveCuts
<1>1. ReadersInit => ObjectsFound
  <2> SUFFICES ASSUME ReadersInit PROVE ObjectsFound
    OBVIOUS
  <2>1. fed = << >> /\ messages = << >> /\ half = << >>
    BY DEF ReadersInit
  <2>2. Pass(Begin(<< >>), << >>).out = << >> /\ Pass(Begin(<< >>), << >>).open = << >>
    BY BeginNone DEF Begin
  <2> QED
    BY <2>1, <2>2 DEF ObjectsFound, JsonText
<1>2. ObjectsFound /\ [ReadersNext]_readerVars => ObjectsFound'
  <2>1. CASE ReadersNext
    BY <2>1, ObjectsStep
  <2>2. CASE UNCHANGED readerVars
    BY <2>2 DEF readerVars, ObjectsFound
  <2> QED
    BY <2>1, <2>2
<1>3. ObjectsFound => ObjectsSurviveCuts
  <2> SUFFICES ASSUME ObjectsFound, kind = "json", ~flushed PROVE ObjectsSurviveCuts
    BY DEF ObjectsSurviveCuts
  <2> DEFINE b == Begin(<< >>)
  <2>1. b \in PassState /\ fed \in JsonText
    BY BeginNone DEF ObjectsFound
  <2> HIDE DEF b
  <2>2. FoldLeft(OnePass, b, fed) = Pass(b, fed)
    BY <2>1, PassFold DEF Pass
  <2>3. messages = Pass(b, fed).out /\ half = Pass(b, fed).open
    BY DEF ObjectsFound, b
  <2>4. messages = FoldLeft(OnePass, b, fed).out /\ half = FoldLeft(OnePass, b, fed).open
    BY <2>2, <2>3
  <2> QED
    BY <2>4 DEF ObjectsSurviveCuts, b, Begin
<1> QED
  BY <1>1, <1>2, <1>3, PTL DEF ReadersSpec

-----------------------------------------------------------------------------
(* Sequences of sequences joined, and sequences mapped *)

CatF(E) == [p \in Seq(E) \X Seq(E) |-> p[1] \o p[2]]

LEMMA FlattenIs ==
  ASSUME NEW E, NEW ss \in Seq(Seq(E))
  PROVE  FlattenSeq(ss) = Final(CatF(E), << >>, ss) /\ FlattenSeq(ss) \in Seq(E)
<1> DEFINE S == Seq(E)
           F == CatF(E)
           none == << >>
           n == Len(ss)
           c == CHOOSE x : Steps(x, F, none, ss)
           R(f) == f = [i \in 1 .. n |-> IF i = 1 THEN ss[i] ELSE f[i - 1] \o ss[i]]
           f == CHOOSE x : R(x)
<1>1. n \in Nat /\ \A k \in 1 .. n : ss[k] \in S
  OBVIOUS
<1>2. none \in S /\ \A s \in S : none \o s = s
  BY ConcatEmptySeq
<1>3. \A s, t \in S : s \o t \in S /\ F[<<s, t>>] = s \o t
  BY ConcatProperties DEF CatF
<1>4. FlattenSeq(ss) = IF n = 0 THEN ss ELSE f[n]
  BY DEF FlattenSeq
<1>5. Final(F, none, ss) = c[n]
  BY DEF Final
<1>6. Steps(c, F, none, ss)
  BY <1>1, StepsExist
<1>7. n = 0 => ss = none
  BY <1>1
<1>17. Len(ss) = n
  OBVIOUS
<1> HIDE DEF c, F, S, n, f, none
<1>8. c[0] = none /\ \A k \in 1 .. n : c[k] = F[<<c[k - 1], ss[k]>>]
  <2>1. c[0] = none
    BY <1>1, <1>6, <1>17 DEF Steps
  <2>2. ASSUME NEW k \in 1 .. n PROVE c[k] = F[<<c[k - 1], ss[k]>>]
    <3>1. k \in 0 .. n /\ k # 0
      BY <1>1
    <3> QED
      BY <1>6, <1>17, <3>1 DEF Steps
  <2> QED
    BY <2>1, <2>2
<1>9. \A k \in 0 .. n : c[k] \in S
  <2> DEFINE good == {k \in Nat : k <= n => c[k] \in S}
  <2>1. 0 \in good
    BY <1>2, <1>8
  <2>2. ASSUME NEW k \in Nat, k \in good PROVE k + 1 \in good
    <3> SUFFICES ASSUME k + 1 <= n PROVE c[k + 1] \in S
      OBVIOUS
    <3>1. k + 1 \in 1 .. n /\ (k + 1) - 1 = k /\ k <= n
      BY <1>1
    <3>2. c[k] \in S /\ ss[k + 1] \in S
      BY <1>1, <2>2, <3>1
    <3>3. c[k + 1] = F[<<c[k], ss[k + 1]>>]
      BY <1>8, <3>1
    <3>4. F[<<c[k], ss[k + 1]>>] = c[k] \o ss[k + 1] /\ c[k] \o ss[k + 1] \in S
      BY <1>3, <3>2
    <3> QED
      BY <3>3, <3>4
  <2>3. \A k \in Nat : k \in good
    <3> HIDE DEF good
    <3> QED
      BY <2>1, <2>2, AllNumbers
  <2> QED
    BY <1>1, <2>3
<1>10. \A k \in 1 .. n : c[k] = c[k - 1] \o ss[k] /\ c[k - 1] \in S
  <2> SUFFICES ASSUME NEW k \in 1 .. n PROVE c[k] = c[k - 1] \o ss[k] /\ c[k - 1] \in S
    OBVIOUS
  <2>1. k - 1 \in 0 .. n
    BY <1>1
  <2>2. c[k - 1] \in S /\ ss[k] \in S
    BY <1>1, <1>9, <2>1
  <2> QED
    BY <1>3, <1>8, <2>2
<1>11. R(f)
  <2> DEFINE h == [i \in 1 .. n |-> c[i]]
  <2>1. \A i \in 1 .. n : h[i] = IF i = 1 THEN ss[i] ELSE h[i - 1] \o ss[i]
    <3> SUFFICES ASSUME NEW i \in 1 .. n
                 PROVE  h[i] = IF i = 1 THEN ss[i] ELSE h[i - 1] \o ss[i]
      OBVIOUS
    <3>1. h[i] = c[i] /\ c[i] = c[i - 1] \o ss[i]
      BY <1>10
    <3>2. CASE i = 1
      <4>1. c[i - 1] = none
        BY <1>8, <3>2
      <4>2. c[i] = ss[i]
        BY <1>1, <1>2, <3>1, <4>1
      <4> QED
        BY <3>1, <3>2, <4>2
    <3>3. CASE i # 1
      <4>1. i - 1 \in 1 .. n
        BY <1>1, <3>3
      <4>2. h[i - 1] = c[i - 1]
        BY <4>1
      <4> HIDE DEF h
      <4> QED
        BY <3>1, <3>3, <4>2
    <3> QED
      BY <3>2, <3>3
  <2>2. h = [i \in 1 .. n |-> h[i]]
    OBVIOUS
  <2> HIDE DEF h
  <2>3. h = [i \in 1 .. n |-> IF i = 1 THEN ss[i] ELSE h[i - 1] \o ss[i]]
    BY <2>1, <2>2
  <2>4. R(h)
    BY <2>3
  <2> HIDE DEF R
  <2> QED
    BY <2>4 DEF f
<1>12. \A k \in 1 .. n : f[k] = c[k]
  <2> DEFINE good == {k \in Nat : k \in 1 .. n => f[k] = c[k]}
  <2>1. 0 \in good
    OBVIOUS
  <2>2. ASSUME NEW k \in Nat, k \in good PROVE k + 1 \in good
    <3> SUFFICES ASSUME k + 1 \in 1 .. n PROVE f[k + 1] = c[k + 1]
      OBVIOUS
    <3>1. (k + 1) - 1 = k
      OBVIOUS
    <3>2. f[k + 1] = IF k + 1 = 1 THEN ss[k + 1] ELSE f[k] \o ss[k + 1]
      BY <1>11, <3>1
    <3>3. c[k + 1] = c[k] \o ss[k + 1]
      BY <1>10, <3>1
    <3>4. CASE k = 0
      <4>1. c[k] = none /\ f[k + 1] = ss[k + 1]
        BY <1>8, <3>2, <3>4
      <4> QED
        BY <1>1, <1>2, <3>3, <4>1
    <3>5. CASE k # 0
      <4>1. k \in 1 .. n /\ k + 1 # 1
        BY <1>1, <3>5
      <4> QED
        BY <2>2, <3>2, <3>3, <4>1
    <3> QED
      BY <3>4, <3>5
  <2>3. \A k \in Nat : k \in good
    <3> HIDE DEF good
    <3> QED
      BY <2>1, <2>2, AllNumbers
  <2> QED
    BY <2>3
<1>13. (IF n = 0 THEN ss ELSE f[n]) = c[n] /\ c[n] \in S
  <2>1. CASE n = 0
    BY <1>2, <1>7, <1>8, <2>1
  <2>2. CASE n # 0
    <3>1. n \in 1 .. n /\ n \in 0 .. n
      BY <1>1, <2>2
    <3> QED
      BY <1>9, <1>12, <2>2, <3>1
  <2> QED
    BY <2>1, <2>2
<1> QED
  BY <1>4, <1>5, <1>13 DEF F, S, none

LEMMA FlattenEmpty == FlattenSeq(<< >>) = << >>
BY DEF FlattenSeq

LEMMA FlattenAppend ==
  ASSUME NEW E, NEW ss \in Seq(Seq(E)), NEW s \in Seq(E)
  PROVE  FlattenSeq(Append(ss, s)) = FlattenSeq(ss) \o s
<1> DEFINE S == Seq(E)
<1>1. Append(ss, s) \in Seq(S) /\ ss \in Seq(S) /\ s \in S
  OBVIOUS
<1>2. FlattenSeq(ss) = Final(CatF(E), << >>, ss) /\ FlattenSeq(ss) \in Seq(E)
  BY FlattenIs
<1>3. FlattenSeq(Append(ss, s)) = Final(CatF(E), << >>, Append(ss, s))
  BY <1>1, FlattenIs
<1> HIDE DEF S
<1>4. Final(CatF(E), << >>, Append(ss, s)) = CatF(E)[<<Final(CatF(E), << >>, ss), s>>]
  BY <1>1, FinalAppend
<1>5. \A t \in Seq(E) : CatF(E)[<<t, s>>] = t \o s
  BY DEF CatF
<1> QED
  BY <1>2, <1>3, <1>4, <1>5

LEMMA FlattenConcat ==
  ASSUME NEW E, NEW ss \in Seq(Seq(E)), NEW tt \in Seq(Seq(E))
  PROVE  FlattenSeq(ss \o tt) = FlattenSeq(ss) \o FlattenSeq(tt)
<1> DEFINE D == Seq(E)
           S == {r \in Seq(D) : FlattenSeq(ss \o r) = FlattenSeq(ss) \o FlattenSeq(r)}
<1>1. ss \in Seq(D) /\ tt \in Seq(D)
  OBVIOUS
<1>2. \A r \in Seq(D) : FlattenSeq(r) \in Seq(E)
  BY FlattenIs
<1>3. \A r \in Seq(D) : \A d \in D : FlattenSeq(Append(r, d)) = FlattenSeq(r) \o d
  BY FlattenAppend
<1>8. \A a, b, d \in D : (a \o b) \o d = a \o (b \o d)
  BY ConcatAssociative
<1>9. \A r \in Seq(D) : FlattenSeq(r) \in D
  BY <1>2
<1>10. \A a \in D : a \o << >> = a
  BY ConcatEmptySeq
<1> HIDE DEF D
<1>4. << >> \in S
  <2>1. ss \o << >> = ss
    BY <1>1, ConcatEmptySeq
  <2>2. FlattenSeq(<< >>) = << >>
    BY FlattenEmpty
  <2>3. FlattenSeq(ss) \o << >> = FlattenSeq(ss)
    BY <1>1, <1>9, <1>10
  <2>4. FlattenSeq(ss \o << >>) = FlattenSeq(ss) \o FlattenSeq(<< >>)
    BY <2>1, <2>2, <2>3
  <2>5. << >> \in Seq(D)
    OBVIOUS
  <2> QED
    BY <2>4, <2>5
<1>5. ASSUME NEW r \in Seq(D), NEW d \in D, r \in S PROVE Append(r, d) \in S
  <2>1. ss \o r \in Seq(D) /\ ss \o Append(r, d) = Append(ss \o r, d)
    BY <1>1, ConcatAppend
  <2>2. FlattenSeq(ss \o r) = FlattenSeq(ss) \o FlattenSeq(r)
    BY <1>5
  <2>3. FlattenSeq(Append(ss \o r, d)) = FlattenSeq(ss \o r) \o d
    BY <1>3, <2>1
  <2>4. FlattenSeq(Append(r, d)) = FlattenSeq(r) \o d
    BY <1>3
  <2>5. (FlattenSeq(ss) \o FlattenSeq(r)) \o d = FlattenSeq(ss) \o (FlattenSeq(r) \o d)
    BY <1>1, <1>8, <1>9
  <2>6. Append(r, d) \in Seq(D)
    OBVIOUS
  <2> QED
    BY <2>1, <2>2, <2>3, <2>4, <2>5, <2>6
<1>6. \A r \in Seq(D) : r \in S
  <2> HIDE DEF S
  <2> QED
    BY <1>4, <1>5, AllSequences
<1> QED
  BY <1>1, <1>6

Mapped(f, s) == [k \in 1 .. Len(s) |-> f[s[k]]]

LEMMA MappedIs ==
  ASSUME NEW D, NEW E, NEW f, \A d \in D : f[d] \in E, NEW s \in Seq(D)
  PROVE  Mapped(f, s) \in Seq(E)
<1>1. Len(s) \in Nat /\ \A k \in 1 .. Len(s) : s[k] \in D
  OBVIOUS
<1> QED
  BY <1>1 DEF Mapped

LEMMA MappedAppend ==
  ASSUME NEW D, NEW f, NEW s \in Seq(D), NEW d \in D
  PROVE  Mapped(f, Append(s, d)) = Append(Mapped(f, s), f[d])
<1> DEFINE E == {f[x] : x \in D}
           a == Append(s, d)
           m == Mapped(f, s)
           b == Append(m, f[d])
<1>0. \A x \in D : f[x] \in E
  OBVIOUS
<1> HIDE DEF E
<1>1. Len(s) \in Nat /\ \A k \in 1 .. Len(s) : s[k] \in D
  OBVIOUS
<1>2. Len(a) = Len(s) + 1 /\ a[Len(s) + 1] = d /\ \A k \in 1 .. Len(s) : a[k] = s[k]
  BY <1>1
<1>3. m \in Seq(E) /\ f[d] \in E /\ Len(m) = Len(s) /\ \A k \in 1 .. Len(s) : m[k] = f[s[k]]
  BY <1>0, <1>1 DEF Mapped
<1> SUFFICES Mapped(f, a) = b
  OBVIOUS
<1> HIDE DEF a, m
<1>4. /\ b \in Seq(E) /\ Len(b) = Len(s) + 1 /\ b[Len(s) + 1] = f[d]
      /\ \A k \in 1 .. Len(s) : b[k] = m[k]
  BY <1>1, <1>3
<1> HIDE DEF b
<1>5. \A k \in 1 .. Len(s) + 1 : b[k] = f[a[k]]
  <2> SUFFICES ASSUME NEW k \in 1 .. Len(s) + 1 PROVE b[k] = f[a[k]]
    OBVIOUS
  <2>1. k \in 1 .. Len(s) \/ k = Len(s) + 1
    BY <1>1
  <2> QED
    BY <1>2, <1>3, <1>4, <2>1
<1>6. b = [k \in 1 .. Len(s) + 1 |-> b[k]]
  BY <1>4
<1>7. b = [k \in 1 .. Len(s) + 1 |-> f[a[k]]]
  BY <1>5, <1>6
<1> QED
  BY <1>2, <1>7 DEF Mapped

LEMMA MappedConcat ==
  ASSUME NEW D, NEW f, NEW s \in Seq(D), NEW u \in Seq(D)
  PROVE  Mapped(f, s \o u) = Mapped(f, s) \o Mapped(f, u)
<1> DEFINE E == {f[d] : d \in D}
<1>0. \A d \in D : f[d] \in E
  OBVIOUS
<1> HIDE DEF E
<1> DEFINE S == {t \in Seq(D) : Mapped(f, s \o t) = Mapped(f, s) \o Mapped(f, t)}
<1>1. \A t \in Seq(D) : Mapped(f, t) \in Seq(E)
  BY <1>0, MappedIs
<1>2. \A t \in Seq(D) : \A d \in D : Mapped(f, Append(t, d)) = Append(Mapped(f, t), f[d])
  BY MappedAppend
<1>3. << >> \in S
  <2>1. s \o << >> = s
    BY ConcatEmptySeq
  <2>2. Mapped(f, << >>) = << >>
    BY DEF Mapped
  <2>3. Mapped(f, s) \o << >> = Mapped(f, s)
    BY <1>1, ConcatEmptySeq
  <2>4. Mapped(f, s \o << >>) = Mapped(f, s) \o Mapped(f, << >>)
    BY <2>1, <2>2, <2>3
  <2>5. << >> \in Seq(D)
    OBVIOUS
  <2> QED
    BY <2>4, <2>5
<1>4. ASSUME NEW t \in Seq(D), NEW d \in D, t \in S PROVE Append(t, d) \in S
  <2>1. s \o t \in Seq(D) /\ s \o Append(t, d) = Append(s \o t, d) /\ Append(t, d) \in Seq(D)
    BY ConcatAppend
  <2>2. Mapped(f, Append(s \o t, d)) = Append(Mapped(f, s \o t), f[d])
    BY <1>2, <2>1
  <2>3. Mapped(f, Append(t, d)) = Append(Mapped(f, t), f[d])
    BY <1>2
  <2>4. Mapped(f, s) \o Append(Mapped(f, t), f[d]) = Append(Mapped(f, s) \o Mapped(f, t), f[d])
    <3>1. Mapped(f, s) \in Seq(E) /\ Mapped(f, t) \in Seq(E) /\ f[d] \in E
      BY <1>0, <1>1
    <3> QED
      BY <3>1, ConcatAppend
  <2>5. Mapped(f, s \o t) = Mapped(f, s) \o Mapped(f, t)
    BY <1>4
  <2> QED
    BY <2>1, <2>2, <2>3, <2>4, <2>5
<1>5. \A t \in Seq(D) : t \in S
  <2> HIDE DEF S
  <2> QED
    BY <1>3, <1>4, AllSequences
<1> QED
  BY <1>5

-----------------------------------------------------------------------------
(* Characters in two halves *)

LineChar == LineByte \cup {"ab", "?"}
LineText == Seq(LineChar)

Blur(ch) == IF ch = "ab" THEN <<"?", "?">> ELSE IF ch \in {"a", "b"} THEN <<"?">> ELSE <<ch>>
BlurF == [ch \in LineChar |-> Blur(ch)]

LEMMA BlurType == BlurF \in [LineChar -> LineText]
<1>1. ASSUME NEW ch \in LineChar PROVE Blur(ch) \in LineText
  <2>1. "?" \in LineChar
    BY DEF LineChar
  <2>2. <<"?", "?">> \in LineText /\ <<"?">> \in LineText /\ <<ch>> \in LineText
    BY <2>1 DEF LineText
  <2> QED
    BY <2>2 DEF Blur
<1> QED
  BY <1>1 DEF BlurF

LEMMA BlurredIs ==
  ASSUME NEW t \in LineText
  PROVE  /\ Blurred(t) \in LineText /\ Blurred(<< >>) = << >>
         /\ \A ch \in LineChar : Append(t, ch) \in LineText /\ Blurred(Append(t, ch)) = Blurred(t) \o Blur(ch)
         /\ \A u \in LineText : t \o u \in LineText /\ Blurred(t \o u) = Blurred(t) \o Blurred(u)
<1>1. \A u \in LineText : Blurred(u) = FlattenSeq(Mapped(BlurF, u))
  <2> SUFFICES ASSUME NEW u \in LineText PROVE Blurred(u) = FlattenSeq(Mapped(BlurF, u))
    OBVIOUS
  <2>1. \A i \in 1 .. Len(u) : BlurF[u[i]] = Blur(u[i])
    BY DEF LineText, BlurF
  <2>2. Mapped(BlurF, u) = [i \in 1 .. Len(u) |-> Blur(u[i])]
    BY <2>1 DEF Mapped
  <2> QED
    BY <2>2 DEF Blurred, Blur
<1>2. \A u \in Seq(LineChar) : Mapped(BlurF, u) \in Seq(LineText)
  BY BlurType, MappedIs
<1>3. \A ss \in Seq(LineText) : FlattenSeq(ss) \in LineText
  BY FlattenIs DEF LineText
<1>4. \A u \in LineText : Mapped(BlurF, u) \in Seq(LineText) /\ Blurred(u) \in LineText
  BY <1>1, <1>2, <1>3 DEF LineText
<1>5. Blurred(<< >>) = << >>
  <2>1. Mapped(BlurF, << >>) = << >> /\ << >> \in LineText
    BY DEF Mapped, LineText
  <2> QED
    BY <1>1, <2>1, FlattenEmpty
<1>6. ASSUME NEW ch \in LineChar
      PROVE  Append(t, ch) \in LineText /\ Blurred(Append(t, ch)) = Blurred(t) \o Blur(ch)
  <2>1. Append(t, ch) \in LineText /\ t \in Seq(LineChar)
    BY DEF LineText
  <2>2. Mapped(BlurF, Append(t, ch)) = Append(Mapped(BlurF, t), BlurF[ch])
    BY <2>1, MappedAppend
  <2>3. BlurF[ch] = Blur(ch) /\ Blur(ch) \in LineText
    <3>1. BlurF[ch] = Blur(ch)
      BY DEF BlurF
    <3>2. BlurF[ch] \in LineText
      BY BlurType
    <3> QED
      BY <3>1, <3>2
  <2>4. \A ss \in Seq(LineText) : \A s \in LineText : FlattenSeq(Append(ss, s)) = FlattenSeq(ss) \o s
    BY FlattenAppend DEF LineText
  <2>5. FlattenSeq(Append(Mapped(BlurF, t), Blur(ch))) = FlattenSeq(Mapped(BlurF, t)) \o Blur(ch)
    BY <1>4, <2>3, <2>4
  <2> QED
    BY <1>1, <2>1, <2>2, <2>3, <2>5
<1>7. ASSUME NEW u \in LineText
      PROVE  t \o u \in LineText /\ Blurred(t \o u) = Blurred(t) \o Blurred(u)
  <2>1. t \o u \in LineText /\ t \in Seq(LineChar) /\ u \in Seq(LineChar)
    BY ConcatProperties DEF LineText
  <2>2. Mapped(BlurF, t \o u) = Mapped(BlurF, t) \o Mapped(BlurF, u)
    BY <2>1, MappedConcat
  <2>3. \A ss, tt \in Seq(LineText) : FlattenSeq(ss \o tt) = FlattenSeq(ss) \o FlattenSeq(tt)
    BY FlattenConcat DEF LineText
  <2>4. FlattenSeq(Mapped(BlurF, t) \o Mapped(BlurF, u)) = FlattenSeq(Mapped(BlurF, t)) \o FlattenSeq(Mapped(BlurF, u))
    BY <1>4, <2>3
  <2> QED
    BY <1>1, <2>1, <2>2, <2>4
<1> QED
  BY <1>4, <1>5, <1>6, <1>7

\* The beginning of a sequence with one element more.
LEMMA OneMore ==
  ASSUME NEW E, NEW s \in Seq(E), NEW n \in Nat, n + 1 <= Len(s)
  PROVE  /\ SubSeq(s, 1, n) \in Seq(E) /\ s[n + 1] \in E
         /\ SubSeq(s, 1, n + 1) = Append(SubSeq(s, 1, n), s[n + 1])
<1>1. Len(s) \in Nat /\ 1 \in 1 .. Len(s) /\ n + 1 \in 1 .. Len(s) /\ (n + 1) - 1 = n
  OBVIOUS
<1>2. SubSeq(s, 1, n) \in Seq(E) /\ s[n + 1] \in E
  <2>1. \A i \in 1 .. n : s[i] \in E
    BY <1>1
  <2> QED
    BY <1>1, <2>1, SubSeqProperties
<1>3. SubSeq(s, 1, n + 1) = SubSeq(s, 1, (n + 1) - 1) \o << s[n + 1] >>
  BY <1>1, SubSeqRecursiveSecond
<1>4. Append(SubSeq(s, 1, n), s[n + 1]) = SubSeq(s, 1, n) \o << s[n + 1] >>
  BY <1>2, AppendIsConcat
<1> QED
  BY <1>1, <1>2, <1>3, <1>4

\* decode_chunk makes no difference but where a cut is inside a character.
LEMMA DecodeIs ==
  ASSUME NEW bytes \in Seq(LineByte)
  PROVE  Decode(bytes) \in LineText /\ Blurred(Decode(bytes)) = Blurred(bytes)
<1> DEFINE Whole(i) == i \in 1 .. Len(bytes) - 1 /\ bytes[i] = "a" /\ bytes[i + 1] = "b"
           piece(i) == IF Whole(i) THEN <<"ab">>
                       ELSE IF Whole(i - 1) THEN << >>
                       ELSE IF bytes[i] \in {"a", "b"} THEN <<"?">>
                       ELSE <<bytes[i]>>
           p == [i \in 1 .. Len(bytes) |-> piece(i)]
           D(n) == FlattenSeq(SubSeq(p, 1, n))
           B(n) == Blurred(SubSeq(bytes, 1, n))
           none == << >>
           q == <<"?">>
           good == {n \in Nat : n <= Len(bytes) =>
                      D(n) \in LineText /\ Blurred(D(n)) = B(n) \o (IF Whole(n) THEN q ELSE none)}
<1>1. Len(bytes) \in Nat /\ \A i \in 1 .. Len(bytes) : bytes[i] \in LineByte
  OBVIOUS
<1>2. Decode(bytes) = FlattenSeq(p)
  BY DEF Decode
<1>3. bytes \in LineText /\ bytes \in Seq(LineChar)
  <2>1. LineByte \subseteq LineChar
    BY DEF LineChar
  <2> QED
    BY <2>1, SeqMonotonic DEF LineText
<1>4. p \in Seq(LineText) /\ Len(p) = Len(bytes) /\ \A i \in 1 .. Len(bytes) : p[i] = piece(i)
  <2>1. ASSUME NEW i \in 1 .. Len(bytes) PROVE piece(i) \in LineText
    <3>1. "ab" \in LineChar /\ "?" \in LineChar /\ bytes[i] \in LineChar
      BY <1>1 DEF LineChar
    <3>2. <<"ab">> \in LineText /\ <<"?">> \in LineText /\ <<bytes[i]>> \in LineText /\ << >> \in LineText
      BY <3>1 DEF LineText
    <3> HIDE DEF Whole
    <3> QED
      BY <3>2
  <2> HIDE DEF piece
  <2> QED
    BY <1>1, <2>1
<1>5. q \in LineText /\ none \in LineText /\ \A s \in LineText : s \o none = s
  BY ConcatEmptySeq DEF LineText, LineChar
<1>6. Blur("ab") = q \o q /\ Blur("a") = q /\ Blur("b") = q /\ Blur("?") = q
  BY DEF Blur
<1>7. \A ch \in LineByte : ch \notin {"a", "b"} => Blur(ch) = <<ch>>
  BY DEF Blur, LineByte
<1>8. \A s \in LineText : (s \o q) \o q = s \o (q \o q)
  BY <1>5, ConcatAssociative DEF LineText
<1>9. Blurred(none) = none
  BY <1>5, BlurredIs
<1>10. \A ch \in LineChar : Blurred(<<ch>>) = Blur(ch)
  <2> SUFFICES ASSUME NEW ch \in LineChar PROVE Blurred(<<ch>>) = Blur(ch)
    OBVIOUS
  <2>1. Append(none, ch) = <<ch>>
    OBVIOUS
  <2>2. Blur(ch) \in LineText
    BY BlurType DEF BlurF
  <2>3. none \o Blur(ch) = Blur(ch)
    BY <2>2, ConcatEmptySeq DEF LineText
  <2>4. Blurred(Append(none, ch)) = Blurred(none) \o Blur(ch)
    BY <1>5, BlurredIs
  <2> QED
    BY <1>9, <2>1, <2>3, <2>4
<1> HIDE DEF p, q, none, piece
<1>11. 0 \in good
  <2>1. SubSeq(p, 1, 0) = none /\ SubSeq(bytes, 1, 0) = none
    BY SubSeqEmpty DEF none
  <2>2. D(0) = none
    BY <2>1, FlattenEmpty DEF none
  <2>3. B(0) = none /\ ~Whole(0) /\ none \o none = none
    <3>1. B(0) = none
      BY <1>9, <2>1
    <3>2. none \o none = none
      BY <1>5
    <3>3. ~Whole(0)
      BY <1>1
    <3> QED
      BY <3>1, <3>2, <3>3
  <2> HIDE DEF D, B, Whole
  <2> QED
    BY <1>5, <1>9, <2>2, <2>3
<1>12. ASSUME NEW n \in Nat, n \in good PROVE n + 1 \in good
  <2>0. n + 1 \in Nat
    OBVIOUS
  <2> HIDE DEF D, B, Whole
  <2> SUFFICES ASSUME n + 1 <= Len(bytes)
               PROVE  /\ D(n + 1) \in LineText
                      /\ Blurred(D(n + 1)) = B(n + 1) \o (IF Whole(n + 1) THEN q ELSE none)
    BY <2>0
  <2> USE DEF D, B, Whole
  <2> DEFINE ch == bytes[n + 1]
             pc == p[n + 1]
  <2>1. n + 1 \in 1 .. Len(bytes) /\ (n + 1) - 1 = n /\ n <= Len(bytes)
    BY <1>1
  <2>2. ch \in LineByte /\ ch \in LineChar /\ pc \in LineText
    BY <1>1, <1>3, <1>4, <2>1
  <2>3. pc = IF Whole(n + 1) THEN <<"ab">> ELSE IF Whole(n) THEN none
             ELSE IF ch \in {"a", "b"} THEN q ELSE <<ch>>
    BY <1>4, <2>1 DEF piece, none, q
  <2>4. D(n) \in LineText /\ Blurred(D(n)) = B(n) \o (IF Whole(n) THEN q ELSE none)
    BY <1>12, <2>1
  <2>5. SubSeq(p, 1, n) \in Seq(LineText) /\ D(n + 1) = D(n) \o pc
    <3>1. /\ SubSeq(p, 1, n) \in Seq(LineText)
          /\ SubSeq(p, 1, n + 1) = Append(SubSeq(p, 1, n), p[n + 1])
      BY <1>4, OneMore
    <3>2. \A ss \in Seq(LineText) : \A s \in LineText : FlattenSeq(Append(ss, s)) = FlattenSeq(ss) \o s
      BY FlattenAppend DEF LineText
    <3> QED
      BY <2>2, <3>1, <3>2
  <2>6. SubSeq(bytes, 1, n) \in LineText /\ B(n + 1) = B(n) \o Blur(ch) /\ B(n) \in LineText
    <3>1. /\ SubSeq(bytes, 1, n) \in Seq(LineChar)
          /\ SubSeq(bytes, 1, n + 1) = Append(SubSeq(bytes, 1, n), ch)
      BY <1>3, OneMore
    <3> HIDE DEF ch
    <3> QED
      BY <2>2, <3>1, BlurredIs DEF LineText
  <2>7. D(n + 1) \in LineText /\ Blurred(D(n + 1)) = Blurred(D(n)) \o Blurred(pc)
    <3> HIDE DEF D, pc
    <3> QED
      BY <2>2, <2>4, <2>5, BlurredIs
  <2>8. Whole(n + 1) => ch = "a" /\ ~Whole(n)
    BY <2>1
  <2>9. Whole(n) => ch = "b"
    BY <2>1
  <2> HIDE DEF D, B, Whole, ch, pc
  <2>10. CASE Whole(n + 1)
    <3>1. Blurred(pc) = q \o q /\ Blurred(D(n)) = B(n)
      <4>1. "ab" \in LineChar
        BY DEF LineChar
      <4> QED
        BY <1>5, <1>6, <1>10, <2>3, <2>4, <2>6, <2>8, <2>10, <4>1
    <3>2. B(n + 1) = B(n) \o q
      BY <1>6, <2>6, <2>8, <2>10
    <3> QED
      BY <1>8, <2>6, <2>7, <2>10, <3>1, <3>2
  <2>11. CASE Whole(n) /\ ~Whole(n + 1)
    <3>1. Blurred(pc) = none /\ Blurred(D(n)) = B(n) \o q
      BY <1>9, <2>3, <2>4, <2>11
    <3>2. B(n + 1) = B(n) \o q
      BY <1>6, <2>6, <2>9, <2>11
    <3>3. D(n + 1) \in LineText /\ Blurred(D(n)) \in LineText
      BY <2>4, <2>7, BlurredIs
    <3> QED
      BY <1>5, <2>7, <2>11, <3>1, <3>2, <3>3
  <2>12. CASE ~Whole(n) /\ ~Whole(n + 1)
    <3>1. Blurred(pc) = Blur(ch) /\ Blurred(D(n)) = B(n)
      <4>1. Blurred(D(n)) = B(n)
        BY <1>5, <2>4, <2>6, <2>12
      <4>2. CASE ch \in {"a", "b"}
        <5>1. pc = <<"?">> /\ "?" \in LineChar
          BY <2>3, <2>12, <4>2 DEF q, LineChar
        <5> QED
          BY <1>6, <1>10, <4>1, <4>2, <5>1
      <4>3. CASE ch \notin {"a", "b"}
        <5>1. pc = <<ch>>
          BY <2>3, <2>12, <4>3
        <5> QED
          BY <1>10, <2>2, <4>1, <5>1
      <4> QED
        BY <4>2, <4>3
    <3>2. B(n + 1) \in LineText
      <4>1. Blur(ch) \in LineText
        BY <2>2, BlurType DEF BlurF
      <4> QED
        BY <2>6, <4>1, ConcatProperties DEF LineText
    <3> QED
      BY <1>5, <2>6, <2>7, <2>12, <3>1, <3>2
  <2> QED
    BY <2>10, <2>11, <2>12
<1>13. \A n \in Nat : n \in good
  <2> HIDE DEF good
  <2> QED
    BY <1>11, <1>12, AllNumbers
<1>14. SubSeq(p, 1, Len(bytes)) = p /\ SubSeq(bytes, 1, Len(bytes)) = bytes
  BY <1>4, SubSeqFull
<1>16. ~Whole(Len(bytes))
  BY <1>1
<1> HIDE DEF D, B, Whole
<1>15. D(Len(bytes)) \in LineText /\ Blurred(D(Len(bytes))) = B(Len(bytes)) \o (IF Whole(Len(bytes)) THEN q ELSE none)
  BY <1>1, <1>13
<1>17. Blurred(bytes) \in LineText
  BY <1>3, BlurredIs
<1> QED
  BY <1>2, <1>5, <1>14, <1>15, <1>16, <1>17 DEF D, B

-----------------------------------------------------------------------------
(* split_lines, over a text that comes in pieces and over a blurred one *)

SplitState == [lines : Seq(LineText), rest : LineText]
SplitF == [p \in SplitState \X LineChar |-> SplitAt(p[1], p[2])]
Split(x, t) == Final(SplitF, x, t)

\* A state of split_lines with these lines and this rest.
Cut(lines, rest) == [lines |-> lines, rest |-> rest]

LEMMA CutIs ==
  ASSUME NEW lines, NEW rest
  PROVE  Cut(lines, rest).lines = lines /\ Cut(lines, rest).rest = rest
BY DEF Cut

LEMMA CutState ==
  ASSUME NEW x \in SplitState
  PROVE  x.lines \in Seq(LineText) /\ x.rest \in LineText /\ x = Cut(x.lines, x.rest)
BY DEF SplitState, Cut

LEMMA CutType ==
  ASSUME NEW lines \in Seq(LineText), NEW rest \in LineText
  PROVE  Cut(lines, rest) \in SplitState
BY DEF SplitState, Cut

LEMMA SplitAtIs ==
  ASSUME NEW lines, NEW rest, NEW ch
  PROVE  /\ ch = "n" => SplitAt(Cut(lines, rest), ch) = Cut(Append(lines, rest), << >>)
         /\ ch # "n" => SplitAt(Cut(lines, rest), ch) = Cut(lines, Append(rest, ch))
BY DEF SplitAt, Cut

LEMMA SplitType ==
  ASSUME NEW x \in SplitState, NEW ch \in LineChar
  PROVE  SplitAt(x, ch) \in SplitState
<1>1. x.lines \in Seq(LineText) /\ x.rest \in LineText /\ x = Cut(x.lines, x.rest)
  BY CutState
<1>2. Append(x.lines, x.rest) \in Seq(LineText)
  BY <1>1
<1>3. Append(x.rest, ch) \in LineText /\ << >> \in LineText
  BY <1>1 DEF LineText
<1>4. Cut(Append(x.lines, x.rest), << >>) \in SplitState /\ Cut(x.lines, Append(x.rest, ch)) \in SplitState
  BY <1>1, <1>2, <1>3, CutType
<1>5. SplitAt(x, ch) \in {Cut(Append(x.lines, x.rest), << >>), Cut(x.lines, Append(x.rest, ch))}
  BY <1>1, SplitAtIs
<1> QED
  BY <1>4, <1>5

LEMMA SplitTyped == SplitF \in [SplitState \X LineChar -> SplitState]
<1>1. \A p \in SplitState \X LineChar : SplitAt(p[1], p[2]) \in SplitState
  BY SplitType
<1> QED
  BY <1>1 DEF SplitF

LEMMA SplitFold ==
  ASSUME NEW initial \in SplitState, NEW seq \in LineText
  PROVE  /\ FoldLeft(SplitAt, initial, seq) = Final(SplitF, initial, seq)
         /\ Final(SplitF, initial, seq) \in SplitState
<1> DEFINE R(g) == g = [s \in SUBSET DOMAIN seq |->
                          IF s = {} THEN initial ELSE SplitAt(g[s \ {Max(s)}], seq[Max(s)])]
           f == CHOOSE g : R(g)
<1>1. FoldLeft(SplitAt, initial, seq) = f[DOMAIN seq]
  BY DEF FoldLeft, MapThenFoldSet
<1>2. DOMAIN seq = 1 .. Len(seq) /\ Len(seq) \in Nat /\ \A k \in 1 .. Len(seq) : seq[k] \in LineChar
  BY DEF LineText
<1>3. \A s \in SUBSET (1 .. Len(seq)) : s # {} => seq[Max(s)] \in LineChar
  BY <1>2, MaxIs
<1>4. seq \in Seq(LineChar)
  BY DEF LineText
<1>5. PICK h \in [SUBSET (1 .. Len(seq)) -> SplitState] : Solves(h, SplitF, initial, seq)
  BY <1>4, SplitTyped, SetFoldExists
<1>6. \A s \in SUBSET (1 .. Len(seq)) :
        h[s] = IF s = {} THEN initial ELSE SplitAt(h[s \ {Max(s)}], seq[Max(s)])
  <2> SUFFICES ASSUME NEW s \in SUBSET (1 .. Len(seq)), s # {}
               PROVE  h[s] = SplitAt(h[s \ {Max(s)}], seq[Max(s)])
    BY <1>5 DEF Solves
  <2>1. h[s \ {Max(s)}] \in SplitState
    OBVIOUS
  <2>2. h[s] = SplitF[<<h[s \ {Max(s)}], seq[Max(s)]>>]
    BY <1>5 DEF Solves
  <2> QED
    BY <1>3, <2>1, <2>2 DEF SplitF
<1>7. R(f)
  <2>1. h = [s \in SUBSET (1 .. Len(seq)) |-> h[s]]
    OBVIOUS
  <2>2. R(h)
    BY <1>2, <1>6, <2>1
  <2> HIDE DEF R
  <2> QED
    BY <2>2
<1> HIDE DEF f
<1>8. \A s \in SUBSET (1 .. Len(seq)) :
        IF s = {} THEN f[s] = initial
        ELSE f[s \ {Max(s)}] \in SplitState => f[s] = SplitF[<<f[s \ {Max(s)}], seq[Max(s)]>>]
  <2> SUFFICES ASSUME NEW s \in SUBSET (1 .. Len(seq))
               PROVE  IF s = {} THEN f[s] = initial
                      ELSE f[s \ {Max(s)}] \in SplitState
                             => f[s] = SplitF[<<f[s \ {Max(s)}], seq[Max(s)]>>]
    OBVIOUS
  <2>1. f[s] = IF s = {} THEN initial ELSE SplitAt(f[s \ {Max(s)}], seq[Max(s)])
    BY <1>2, <1>7
  <2> QED
    BY <1>3, <2>1 DEF SplitF
<1>9. f[1 .. Len(seq)] = Final(SplitF, initial, seq) /\ Final(SplitF, initial, seq) \in SplitState
  BY <1>4, <1>8, SplitTyped, SetFoldIs
<1> QED
  BY <1>1, <1>2, <1>9

LEMMA SplitIs ==
  ASSUME NEW x \in SplitState
  PROVE  /\ Split(x, << >>) = x
         /\ \A t \in LineText : Split(x, t) \in SplitState
         /\ \A t \in LineText : \A ch \in LineChar : Split(x, Append(t, ch)) = SplitAt(Split(x, t), ch)
         /\ \A t, u \in LineText : Split(x, t \o u) = Split(Split(x, t), u)
<1>1. Split(x, << >>) = x
  BY FinalEmpty DEF Split
<1>2. \A t \in LineText : Split(x, t) \in SplitState
  BY SplitFold DEF Split
<1>3. ASSUME NEW t \in LineText, NEW ch \in LineChar
      PROVE  Split(x, Append(t, ch)) = SplitAt(Split(x, t), ch)
  <2>1. Split(x, Append(t, ch)) = SplitF[<<Split(x, t), ch>>]
    BY FinalAppend DEF Split, LineText
  <2> QED
    BY <1>2, <2>1 DEF SplitF
<1>4. \A t, u \in LineText : Split(x, t \o u) = Split(Split(x, t), u)
  BY FinalConcat DEF Split, LineText
<1> QED
  BY <1>1, <1>2, <1>3, <1>4

LEMMA TextIs ==
  /\ << >> \in LineText
  /\ \A t \in LineText : \A ch \in LineChar : Append(t, ch) \in LineText
  /\ \A t \in LineText : t \o << >> = t /\ << >> \o t = t
  /\ \A t, u \in LineText : t \o u \in LineText
<1>1. << >> \in LineText /\ \A t \in LineText : \A ch \in LineChar : Append(t, ch) \in LineText
  BY DEF LineText
<1>2. \A t \in LineText : t \o << >> = t /\ << >> \o t = t
  BY ConcatEmptySeq DEF LineText
<1>3. \A t, u \in LineText : t \o u \in LineText
  BY ConcatProperties DEF LineText
<1> QED
  BY <1>1, <1>2, <1>3

\* No newline in it.
Plain(t) == \A k \in 1 .. Len(t) : t[k] # "n"

LEMMA PlainIs ==
  ASSUME NEW t \in LineText, NEW ch \in LineChar
  PROVE  Plain(<< >>) /\ (Plain(Append(t, ch)) <=> Plain(t) /\ ch # "n")
<1>1. Plain(<< >>)
  BY DEF Plain
<1> DEFINE a == Append(t, ch)
<1>2. Len(t) \in Nat /\ Len(a) = Len(t) + 1 /\ a[Len(t) + 1] = ch /\ \A k \in 1 .. Len(t) : a[k] = t[k]
  BY DEF LineText
<1> HIDE DEF a
<1>3. Plain(a) <=> Plain(t) /\ ch # "n"
  <2>1. Len(t) + 1 \in 1 .. Len(a) /\ \A k \in 1 .. Len(t) : k \in 1 .. Len(a)
    BY <1>2
  <2>2. \A k \in 1 .. Len(a) : k \in 1 .. Len(t) \/ k = Len(t) + 1
    BY <1>2
  <2> QED
    BY <1>2, <2>1, <2>2 DEF Plain
<1> QED
  BY <1>1, <1>3 DEF a

\* The rest of a split has no newline.
LEMMA SplitPlainRest ==
  ASSUME NEW x \in SplitState, Plain(x.rest)
  PROVE  \A t \in LineText : Plain(Split(x, t).rest)
<1> DEFINE I == {y \in SplitState : Plain(y.rest)}
<1>1. x \in I
  OBVIOUS
<1>2. ASSUME NEW y \in I, NEW ch \in LineChar PROVE SplitF[<<y, ch>>] \in I
  <2>1. y.lines \in Seq(LineText) /\ y.rest \in LineText /\ y = Cut(y.lines, y.rest)
    BY CutState
  <2>2. SplitF[<<y, ch>>] = SplitAt(y, ch) /\ SplitAt(y, ch) \in SplitState
    BY SplitType DEF SplitF
  <2>3. CASE ch = "n"
    <3>1. SplitAt(y, ch) = Cut(Append(y.lines, y.rest), << >>)
      BY <2>1, <2>3, SplitAtIs
    <3>2. SplitAt(y, ch).rest = << >>
      BY <3>1, CutIs
    <3> QED
      BY <2>1, <2>2, <3>2, PlainIs
  <2>4. CASE ch # "n"
    <3>1. SplitAt(y, ch) = Cut(y.lines, Append(y.rest, ch))
      BY <2>1, <2>4, SplitAtIs
    <3>2. SplitAt(y, ch).rest = Append(y.rest, ch)
      BY <3>1, CutIs
    <3>3. Plain(Append(y.rest, ch))
      BY <2>1, <2>4, PlainIs
    <3> QED
      BY <2>2, <3>2, <3>3
  <2> QED
    BY <2>3, <2>4
<1>3. \A t \in LineText : Split(x, t) \in I
  <2> HIDE DEF I
  <2> QED
    BY <1>1, <1>2, FinalIn DEF Split, LineText
<1> QED
  BY <1>3

\* A text with no newline only makes the rest longer.
LEMMA SplitPlain ==
  ASSUME NEW lines \in Seq(LineText), NEW rest \in LineText
  PROVE  \A t \in LineText : Plain(t) => Split(Cut(lines, rest), t) = Cut(lines, rest \o t)
<1> DEFINE x == Cut(lines, rest)
           S == {t \in LineText : Plain(t) => Split(x, t) = Cut(lines, rest \o t)}
<1>0. x \in SplitState
  BY CutType
<1> HIDE DEF x
<1>1. << >> \in S
  <2>1. Split(x, << >>) = x /\ rest \o << >> = rest
    BY <1>0, SplitIs, TextIs
  <2>2. Split(x, << >>) = Cut(lines, rest \o << >>)
    BY <2>1 DEF x
  <2> QED
    BY <2>2, TextIs
<1>2. ASSUME NEW t \in LineText, NEW ch \in LineChar, t \in S PROVE Append(t, ch) \in S
  <2>1. Append(t, ch) \in LineText
    BY TextIs
  <2> SUFFICES ASSUME Plain(Append(t, ch))
               PROVE  Split(x, Append(t, ch)) = Cut(lines, rest \o Append(t, ch))
    BY <2>1
  <2>2. Plain(t) /\ ch # "n"
    BY PlainIs
  <2>3. Split(x, t) = Cut(lines, rest \o t)
    BY <1>2, <2>2
  <2>4. Split(x, Append(t, ch)) = SplitAt(Split(x, t), ch)
    BY <1>0, SplitIs
  <2>5. SplitAt(Cut(lines, rest \o t), ch) = Cut(lines, Append(rest \o t, ch))
    BY <2>2, SplitAtIs
  <2>6. rest \o Append(t, ch) = Append(rest \o t, ch)
    BY ConcatAppend DEF LineText
  <2> QED
    BY <2>3, <2>4, <2>5, <2>6
<1>3. \A t \in LineText : t \in S
  <2> HIDE DEF S
  <2> QED
    BY <1>1, <1>2, AllSequences DEF LineText
<1> QED
  BY <1>3 DEF x

\* The lines before make no difference to the lines that come.
LEMMA SplitAfter ==
  ASSUME NEW lines \in Seq(LineText), NEW rest \in LineText
  PROVE  \A t \in LineText :
           LET x == Split(Cut(<< >>, rest), t)
           IN Split(Cut(lines, rest), t) = Cut(lines \o x.lines, x.rest)
<1> DEFINE x(t) == Split(Cut(<< >>, rest), t)
           S == {t \in LineText : Split(Cut(lines, rest), t) = Cut(lines \o x(t).lines, x(t).rest)}
           none == << >>
<1>0. Cut(<< >>, rest) \in SplitState /\ Cut(lines, rest) \in SplitState /\ none \in Seq(LineText)
  <2>1. none \in Seq(LineText)
    OBVIOUS
  <2> QED
    BY <2>1, CutType
<1>1. << >> \in S
  <2>1. Split(Cut(lines, rest), << >>) = Cut(lines, rest) /\ x(<< >>) = Cut(<< >>, rest)
    BY <1>0, SplitIs
  <2>2. x(<< >>).lines = << >> /\ x(<< >>).rest = rest
    BY <2>1, CutIs
  <2>3. lines \o << >> = lines
    BY ConcatEmptySeq
  <2> HIDE DEF x
  <2>4. Split(Cut(lines, rest), << >>) = Cut(lines \o x(<< >>).lines, x(<< >>).rest)
    BY <2>1, <2>2, <2>3
  <2> QED
    BY <2>4, TextIs
<1>2. ASSUME NEW t \in LineText, NEW ch \in LineChar, t \in S PROVE Append(t, ch) \in S
  <2>1. Append(t, ch) \in LineText
    BY TextIs
  <2>2. Split(Cut(lines, rest), t) = Cut(lines \o x(t).lines, x(t).rest)
    BY <1>2
  <2>3. Split(Cut(lines, rest), Append(t, ch)) = SplitAt(Split(Cut(lines, rest), t), ch)
    BY <1>0, SplitIs
  <2>4. x(Append(t, ch)) = SplitAt(x(t), ch) /\ x(t) \in SplitState
    BY <1>0, SplitIs
  <2> HIDE DEF x
  <2>5. x(t).lines \in Seq(LineText) /\ x(t).rest \in LineText /\ x(t) = Cut(x(t).lines, x(t).rest)
    BY <2>4, CutState
  <2>6. CASE ch = "n"
    <3>1. SplitAt(Cut(lines \o x(t).lines, x(t).rest), ch) = Cut(Append(lines \o x(t).lines, x(t).rest), << >>)
      BY <2>6, SplitAtIs
    <3>2. x(Append(t, ch)) = Cut(Append(x(t).lines, x(t).rest), << >>)
      BY <2>4, <2>5, <2>6, SplitAtIs
    <3>3. x(Append(t, ch)).lines = Append(x(t).lines, x(t).rest) /\ x(Append(t, ch)).rest = << >>
      BY <3>2 DEF Cut
    <3>4. lines \o Append(x(t).lines, x(t).rest) = Append(lines \o x(t).lines, x(t).rest)
      BY <2>5, ConcatAppend
    <3>5. Split(Cut(lines, rest), Append(t, ch)) = Cut(lines \o x(Append(t, ch)).lines, x(Append(t, ch)).rest)
      BY <2>2, <2>3, <3>1, <3>3, <3>4
    <3> QED
      BY <2>1, <3>5
  <2>7. CASE ch # "n"
    <3>1. SplitAt(Cut(lines \o x(t).lines, x(t).rest), ch) = Cut(lines \o x(t).lines, Append(x(t).rest, ch))
      BY <2>7, SplitAtIs
    <3>2. x(Append(t, ch)) = Cut(x(t).lines, Append(x(t).rest, ch))
      BY <2>4, <2>5, <2>7, SplitAtIs
    <3>3. x(Append(t, ch)).lines = x(t).lines /\ x(Append(t, ch)).rest = Append(x(t).rest, ch)
      BY <3>2 DEF Cut
    <3>4. Split(Cut(lines, rest), Append(t, ch)) = Cut(lines \o x(Append(t, ch)).lines, x(Append(t, ch)).rest)
      BY <2>2, <2>3, <3>1, <3>3
    <3> QED
      BY <2>1, <3>4
  <2> QED
    BY <2>6, <2>7
<1>3. \A t \in LineText : t \in S
  <2> HIDE DEF S
  <2> QED
    BY <1>1, <1>2, AllSequences DEF LineText
<1> QED
  BY <1>3

BlurredF == [l \in LineText |-> Blurred(l)]

LEMMA BlurredLinesIs ==
  ASSUME NEW s \in Seq(LineText)
  PROVE  /\ BlurredLines(s) \in Seq(LineText) /\ BlurredLines(<< >>) = << >>
         /\ \A l \in LineText : BlurredLines(Append(s, l)) = Append(BlurredLines(s), Blurred(l))
         /\ \A t \in Seq(LineText) : BlurredLines(s \o t) = BlurredLines(s) \o BlurredLines(t)
<1>1. \A t \in Seq(LineText) : BlurredLines(t) = Mapped(BlurredF, t)
  <2> SUFFICES ASSUME NEW t \in Seq(LineText) PROVE BlurredLines(t) = Mapped(BlurredF, t)
    OBVIOUS
  <2>1. \A k \in 1 .. Len(t) : BlurredF[t[k]] = Blurred(t[k])
    BY DEF BlurredF
  <2> QED
    BY <2>1 DEF BlurredLines, Mapped
<1>2. \A l \in LineText : BlurredF[l] \in LineText /\ BlurredF[l] = Blurred(l)
  BY BlurredIs DEF BlurredF
<1>3. Mapped(BlurredF, s) \in Seq(LineText)
  BY <1>2, MappedIs
<1>4. ASSUME NEW l \in LineText PROVE BlurredLines(Append(s, l)) = Append(BlurredLines(s), Blurred(l))
  <2>1. Mapped(BlurredF, Append(s, l)) = Append(Mapped(BlurredF, s), BlurredF[l])
    BY MappedAppend
  <2>2. Append(s, l) \in Seq(LineText)
    OBVIOUS
  <2> QED
    BY <1>1, <1>2, <2>1, <2>2
<1>5. ASSUME NEW t \in Seq(LineText) PROVE BlurredLines(s \o t) = BlurredLines(s) \o BlurredLines(t)
  <2>1. Mapped(BlurredF, s \o t) = Mapped(BlurredF, s) \o Mapped(BlurredF, t)
    BY MappedConcat
  <2>2. s \o t \in Seq(LineText)
    OBVIOUS
  <2> QED
    BY <1>1, <2>1, <2>2
<1>6. BlurredLines(<< >>) = << >>
  BY DEF BlurredLines
<1> QED
  BY <1>1, <1>3, <1>4, <1>5, <1>6

LEMMA BlurIs ==
  /\ Blur("n") = <<"n">>
  /\ \A ch \in LineChar : Blur(ch) \in LineText /\ Blur(ch) # << >>
  /\ \A ch \in LineChar : ch # "n" => Plain(Blur(ch))
<1>1. Blur("n") = <<"n">>
  BY DEF Blur
<1>2. ASSUME NEW ch \in LineChar PROVE Blur(ch) \in LineText
  BY BlurType DEF BlurF
<1>3. ASSUME NEW ch \in LineChar PROVE Blur(ch) # << >>
  BY DEF Blur
<1>4. ASSUME NEW ch \in LineChar, ch # "n" PROVE Plain(Blur(ch))
  <2>1. Plain(<<"?", "?">>) /\ Plain(<<"?">>) /\ Plain(<<ch>>)
    BY <1>4 DEF Plain
  <2> QED
    BY <2>1 DEF Blur
<1> QED
  BY <1>1, <1>2, <1>3, <1>4

\* Blurring before the split and after it are the same.
LEMMA SplitBlurs ==
  \A t \in LineText :
    LET x == Split(Cut(<< >>, << >>), t)
    IN Split(Cut(<< >>, << >>), Blurred(t)) = Cut(BlurredLines(x.lines), Blurred(x.rest))
<1> DEFINE none == << >>
           first == Cut(none, none)
           x(t) == Split(first, t)
           S == {t \in LineText : Split(first, Blurred(t)) = Cut(BlurredLines(x(t).lines), Blurred(x(t).rest))}
<1>0. first \in SplitState /\ first.lines = none /\ first.rest = none /\ none \in LineText
  <2>1. none \in Seq(LineText) /\ none \in LineText
    BY DEF LineText
  <2> HIDE DEF none
  <2> QED
    BY <2>1, CutType, CutIs
<1>10. Blurred(none) = none /\ BlurredLines(none) = none
  <2>1. none \in LineText /\ none \in Seq(LineText)
    BY DEF LineText
  <2> QED
    BY <2>1, BlurredIs, BlurredLinesIs
<1>11. \A s \in Seq(LineText), l \in LineText : Cut(s, l) \in SplitState
  BY CutType
<1> HIDE DEF first, none
<1>1. none \in S
  <2>1. Split(first, none) = first
    BY <1>0, SplitIs DEF none
  <2>2. x(none) = first /\ first = Cut(none, none)
    BY <2>1 DEF first
  <2>3. Split(first, Blurred(none)) = Cut(BlurredLines(x(none).lines), Blurred(x(none).rest))
    <3>1. x(none).lines = none /\ x(none).rest = none
      BY <1>0, <2>2
    <3> HIDE DEF x
    <3> QED
      BY <1>10, <2>1, <2>2, <3>1
  <2> QED
    BY <1>0, <2>3
<1>2. ASSUME NEW t \in LineText, NEW ch \in LineChar, t \in S PROVE Append(t, ch) \in S
  <2> DEFINE y == Cut(BlurredLines(x(t).lines), Blurred(x(t).rest))
             a == Append(t, ch)
  <2>1. a \in LineText /\ Blurred(a) = Blurred(t) \o Blur(ch) /\ Blurred(t) \in LineText
    BY BlurredIs
  <2>2. Split(first, Blurred(t)) = y
    BY <1>2
  <2>3. Blur(ch) \in LineText
    BY BlurIs
  <2>4. Split(first, Blurred(a)) = Split(y, Blur(ch))
    <3>1. \A u, v \in LineText : Split(first, u \o v) = Split(Split(first, u), v)
      BY <1>0, SplitIs
    <3>2. Split(first, Blurred(t) \o Blur(ch)) = Split(Split(first, Blurred(t)), Blur(ch))
      BY <2>1, <2>3, <3>1
    <3> QED
      BY <2>1, <2>2, <3>2
  <2>5. x(t) \in SplitState /\ x(a) = SplitAt(x(t), ch)
    BY <1>0, SplitIs
  <2> HIDE DEF x, a
  <2>6. x(t).lines \in Seq(LineText) /\ x(t).rest \in LineText /\ x(t) = Cut(x(t).lines, x(t).rest)
    BY <2>5, CutState
  <2>7. BlurredLines(x(t).lines) \in Seq(LineText) /\ Blurred(x(t).rest) \in LineText
    BY <2>6, BlurredLinesIs, BlurredIs
  <2>8. y \in SplitState
    BY <1>11, <2>7
  <2>9. CASE ch = "n"
    <3>1. x(a) = Cut(Append(x(t).lines, x(t).rest), none)
      BY <2>5, <2>6, <2>9, SplitAtIs DEF none
    <3>2. x(a).lines = Append(x(t).lines, x(t).rest) /\ x(a).rest = none
      BY <3>1 DEF Cut
    <3>3. Split(y, Blur(ch)) = SplitAt(y, "n")
      <4>1. Blur(ch) = Append(none, "n") /\ "n" \in LineChar
        BY <2>9, BlurIs DEF none, LineChar, LineByte
      <4>2. Split(y, none) = y
        BY <2>8, SplitIs DEF none
      <4>3. Split(y, Append(none, "n")) = SplitAt(Split(y, none), "n")
        BY <1>0, <2>8, <4>1, SplitIs
      <4> HIDE DEF y
      <4> QED
        BY <4>1, <4>2, <4>3
    <3>4. SplitAt(y, "n") = Cut(Append(BlurredLines(x(t).lines), Blurred(x(t).rest)), none)
      BY SplitAtIs DEF none
    <3>5. BlurredLines(x(a).lines) = Append(BlurredLines(x(t).lines), Blurred(x(t).rest))
      BY <2>6, <3>2, BlurredLinesIs
    <3> HIDE DEF y
    <3>6. Split(first, Blurred(a)) = Cut(BlurredLines(x(a).lines), Blurred(x(a).rest))
      BY <1>10, <2>4, <3>2, <3>3, <3>4, <3>5
    <3> QED
      BY <2>1, <3>6 DEF a
  <2>10. CASE ch # "n"
    <3>1. x(a) = Cut(x(t).lines, Append(x(t).rest, ch))
      BY <2>5, <2>6, <2>10, SplitAtIs
    <3>2. x(a).lines = x(t).lines /\ x(a).rest = Append(x(t).rest, ch)
      BY <3>1 DEF Cut
    <3>3. Split(y, Blur(ch)) = Cut(BlurredLines(x(t).lines), Blurred(x(t).rest) \o Blur(ch))
      <4>1. Plain(Blur(ch))
        BY <2>10, BlurIs
      <4> QED
        BY <2>3, <2>7, <4>1, SplitPlain
    <3>4. Blurred(Append(x(t).rest, ch)) = Blurred(x(t).rest) \o Blur(ch)
      BY <2>6, BlurredIs
    <3> HIDE DEF y
    <3>5. Split(first, Blurred(a)) = Cut(BlurredLines(x(a).lines), Blurred(x(a).rest))
      BY <2>4, <3>2, <3>3, <3>4
    <3> QED
      BY <2>1, <3>5 DEF a
  <2> QED
    BY <2>9, <2>10
<1>3. \A t \in LineText : t \in S
  <2> HIDE DEF S
  <2> QED
    BY <1>1, <1>2, AllSequences DEF LineText, none
<1> QED
  BY <1>3 DEF first, none

-----------------------------------------------------------------------------
(* str.rstrip("\r"), which makes no difference to blurring either *)

LEMMA StrippedIs ==
  ASSUME NEW l \in LineText
  PROVE  /\ Stripped(<< >>) = << >> /\ Stripped(l) \in LineText
         /\ \A ch \in LineChar : ch = "r" => Stripped(Append(l, ch)) = Stripped(l)
         /\ \A ch \in LineChar : ch # "r" => Stripped(Append(l, ch)) = Append(l, ch)
<1> DEFINE M(t) == {0} \cup {i \in 1 .. Len(t) : t[i] # "r"}
<1>1. \A t : Stripped(t) = SubSeq(t, 1, Max(M(t)))
  BY DEF Stripped
<1>2. \A t \in LineText : Max(M(t)) \in 0 .. Len(t) /\ Max(M(t)) \in M(t) /\ \A k \in M(t) : k <= Max(M(t))
  <2> SUFFICES ASSUME NEW t \in LineText
               PROVE  Max(M(t)) \in 0 .. Len(t) /\ Max(M(t)) \in M(t) /\ \A k \in M(t) : k <= Max(M(t))
    OBVIOUS
  <2> DEFINE s == M(t)
  <2>1. Len(t) \in Nat /\ s \subseteq 0 .. Len(t) /\ s # {}
    BY DEF LineText
  <2>2. 0 \in s
    OBVIOUS
  <2> HIDE DEF s
  <2>3. PICK k \in s : \A j \in s : k >= j
    <3> DEFINE r == s \ {0}
    <3>1. r \subseteq 1 .. Len(t)
      BY <2>1
    <3>2. CASE r = {}
      <4>1. \A j \in s : j = 0
        BY <3>2
      <4> QED
        BY <2>2, <4>1
    <3>3. CASE r # {}
      <4> HIDE DEF r
      <4>1. Max(r) \in r /\ \A j \in r : j <= Max(r)
        BY <2>1, <3>1, <3>3, MaxIs
      <4>2. Max(r) \in s /\ Max(r) \in 1 .. Len(t)
        BY <3>1, <4>1 DEF r
      <4>3. \A j \in s : Max(r) >= j
        <5>1. \A j \in s : j = 0 \/ j \in r
          BY DEF r
        <5>2. \A j \in r : j \in 1 .. Len(t)
          BY <3>1
        <5> QED
          BY <4>1, <4>2, <5>1, <5>2
      <4> QED
        BY <4>2, <4>3
    <3> QED
      BY <3>2, <3>3
  <2>4. Max(s) \in s /\ \A j \in s : Max(s) >= j
    BY <2>3 DEF Max
  <2>5. Max(s) \in s /\ Max(s) \in 0 .. Len(t) /\ \A j \in s : j \in 0 .. Len(t)
    BY <2>1, <2>4
  <2>6. \A j \in s : j <= Max(s)
    BY <2>1, <2>4, <2>5
  <2> QED
    BY <2>5, <2>6 DEF s
<1>3. Stripped(<< >>) = << >>
  <2>1. M(<< >>) = {0} /\ << >> \in LineText
    BY TextIs
  <2>2. Max(M(<< >>)) = 0
    BY <1>2, <2>1
  <2> QED
    BY <1>1, <2>2, SubSeqEmpty
<1>4. Len(l) \in Nat /\ l \in Seq(LineChar)
  BY DEF LineText
<1>5. Stripped(l) \in LineText
  <2> DEFINE m == Max(M(l))
  <2>1. m \in 0 .. Len(l)
    BY <1>2
  <2> HIDE DEF m
  <2>2. \A i \in 1 .. m : l[i] \in LineChar
    BY <1>4, <2>1
  <2>3. SubSeq(l, 1, m) \in LineText
    BY <2>1, <2>2, SubSeqProperties DEF LineText
  <2> QED
    BY <1>1, <2>3 DEF m
<1>6. ASSUME NEW ch \in LineChar PROVE /\ ch = "r" => Stripped(Append(l, ch)) = Stripped(l)
                                       /\ ch # "r" => Stripped(Append(l, ch)) = Append(l, ch)
  <2> DEFINE a == Append(l, ch)
  <2>1. a \in LineText /\ Len(a) = Len(l) + 1 /\ a[Len(l) + 1] = ch /\ \A k \in 1 .. Len(l) : a[k] = l[k]
    BY <1>4, TextIs
  <2>2. /\ \A k \in 1 .. Len(l) : SubSeq(a, 1, k) = SubSeq(l, 1, k)
        /\ SubSeq(a, 1, Len(l) + 1) = a
    BY <1>4, Beginnings
  <2>3. SubSeq(a, 1, 0) = << >> /\ SubSeq(l, 1, 0) = << >>
    BY SubSeqEmpty
  <2> HIDE DEF a
  <2>4. CASE ch = "r"
    <3>1. M(a) = M(l)
      <4>1. \A i \in 1 .. Len(a) : i \in 1 .. Len(l) \/ i = Len(l) + 1
        BY <1>4, <2>1
      <4>2. \A i \in 1 .. Len(l) : i \in 1 .. Len(a)
        BY <1>4, <2>1
      <4> QED
        BY <2>1, <2>4, <4>1, <4>2
    <3> DEFINE m == Max(M(l))
    <3>2. m \in 0 .. Len(l) /\ Stripped(a) = SubSeq(a, 1, m) /\ Stripped(l) = SubSeq(l, 1, m)
      BY <1>1, <1>2, <3>1
    <3> HIDE DEF m
    <3>3. m = 0 \/ m \in 1 .. Len(l)
      BY <1>4, <3>2
    <3>4. SubSeq(a, 1, m) = SubSeq(l, 1, m)
      BY <2>2, <2>3, <3>3
    <3> QED
      BY <2>4, <3>2, <3>4 DEF a
  <2>5. CASE ch # "r"
    <3>1. Len(l) + 1 \in M(a)
      <4>1. Len(l) + 1 \in 1 .. Len(a)
        BY <1>4, <2>1
      <4> QED
        BY <2>1, <2>5, <4>1
    <3> DEFINE m == Max(M(a))
    <3>2. m \in 0 .. Len(a) /\ Len(l) + 1 <= m /\ Stripped(a) = SubSeq(a, 1, m)
      BY <1>1, <1>2, <2>1, <3>1
    <3> HIDE DEF m
    <3>3. m = Len(l) + 1
      BY <1>4, <2>1, <3>2
    <3> QED
      BY <2>2, <2>5, <3>2, <3>3 DEF a
  <2> QED
    BY <2>4, <2>5 DEF a
<1> QED
  BY <1>3, <1>5, <1>6

LEMMA StrippedBlurs == \A l \in LineText : Stripped(Blurred(l)) = Blurred(Stripped(l))
<1> DEFINE S == {l \in LineText : Stripped(Blurred(l)) = Blurred(Stripped(l))}
           none == << >>
<1>0. none \in LineText
  BY TextIs
<1>1. none \in S
  <2>1. Stripped(none) = none /\ Blurred(none) = none
    BY <1>0, StrippedIs, BlurredIs
  <2> QED
    BY <1>0, <2>1
<1>2. ASSUME NEW l \in LineText, NEW ch \in LineChar, l \in S PROVE Append(l, ch) \in S
  <2> DEFINE b == Blurred(l)
  <2>1. Append(l, ch) \in LineText /\ Blurred(Append(l, ch)) = b \o Blur(ch) /\ b \in LineText
    BY BlurredIs
  <2>2. Stripped(b) = Blurred(Stripped(l))
    BY <1>2
  <2> HIDE DEF b
  <2>3. \A c \in LineChar : b \o <<c>> = Append(b, c)
    <3> SUFFICES ASSUME NEW c \in LineChar PROVE b \o <<c>> = Append(b, c)
      OBVIOUS
    <3>1. b \in Seq(LineChar)
      BY <2>1 DEF LineText
    <3> QED
      BY <3>1, AppendIsConcat
  <2>4. CASE ch = "r"
    <3>1. Blur(ch) = <<ch>>
      BY <2>4 DEF Blur
    <3>2. Stripped(Append(b, ch)) = Stripped(b) /\ Stripped(Append(l, ch)) = Stripped(l)
      BY <2>1, <2>4, StrippedIs
    <3>3. Stripped(Blurred(Append(l, ch))) = Blurred(Stripped(Append(l, ch)))
      BY <2>1, <2>2, <2>3, <3>1, <3>2
    <3> QED
      BY <2>1, <3>3
  <2>5. CASE ch # "r"
    <3>1. Stripped(Append(l, ch)) = Append(l, ch)
      BY <2>5, StrippedIs
    <3>2. \A t \in LineText, c \in LineChar : c # "r" => Stripped(Append(t, c)) = Append(t, c)
      BY StrippedIs
    <3>3. Stripped(b \o Blur(ch)) = b \o Blur(ch)
      <4>0. "?" \in LineChar /\ "?" # "r"
        BY DEF LineChar
      <4>1. CASE ch = "ab"
        <5> DEFINE d == Append(b, "?")
        <5>1. d \in LineText
          BY <2>1, <4>0, TextIs
        <5>2. Blur(ch) = <<"?", "?">>
          BY <4>1 DEF Blur
        <5>3. b \o <<"?", "?">> = Append(d, "?")
          <6>1. b \in Seq(LineChar)
            BY <2>1 DEF LineText
          <6> DEFINE q == <<"?">>
          <6>2. q \in Seq(LineChar) /\ <<"?", "?">> = q \o q
            BY <4>0
          <6>3. b \o q = d /\ d \o q = Append(d, "?")
            <7>1. d \in Seq(LineChar)
              BY <5>1 DEF LineText
            <7> HIDE DEF d
            <7>2. d \o q = Append(d, "?")
              BY <4>0, <7>1, AppendIsConcat
            <7> QED
              BY <2>3, <4>0, <7>2 DEF d
          <6> HIDE DEF q, d
          <6>4. (b \o q) \o q = b \o (q \o q)
            BY <6>1, <6>2, ConcatAssociative
          <6> QED
            BY <6>2, <6>3, <6>4
        <5> HIDE DEF d
        <5>4. Stripped(Append(d, "?")) = Append(d, "?")
          BY <3>2, <4>0, <5>1
        <5> QED
          BY <5>2, <5>3, <5>4
      <4>2. CASE ch \in {"a", "b"}
        <5>1. Blur(ch) = <<"?">>
          BY <4>2 DEF Blur
        <5> QED
          BY <2>1, <2>3, <3>2, <4>0, <5>1
      <4>3. CASE ch \notin {"ab", "a", "b"}
        <5>1. Blur(ch) = <<ch>>
          BY <4>3 DEF Blur
        <5> QED
          BY <2>1, <2>3, <2>5, <3>2, <5>1
      <4> QED
        BY <4>1, <4>2, <4>3
    <3>4. Stripped(Blurred(Append(l, ch))) = Blurred(Stripped(Append(l, ch)))
      BY <2>1, <3>1, <3>3
    <3> QED
      BY <2>1, <3>4
  <2> QED
    BY <2>4, <2>5
<1>3. \A l \in LineText : l \in S
  <2> HIDE DEF S
  <2> QED
    BY <1>1, <1>2, AllSequences DEF LineText
<1> QED
  BY <1>3

StrippedLines(s) == [k \in 1 .. Len(s) |-> Stripped(s[k])]
StrippedF == [l \in LineText |-> Stripped(l)]

LEMMA StrippedLinesIs ==
  ASSUME NEW s \in Seq(LineText)
  PROVE  /\ StrippedLines(s) \in Seq(LineText)
         /\ \A t \in Seq(LineText) : StrippedLines(s \o t) = StrippedLines(s) \o StrippedLines(t)
         /\ StrippedLines(BlurredLines(s)) = BlurredLines(StrippedLines(s))
<1>1. \A t \in Seq(LineText) : StrippedLines(t) = Mapped(StrippedF, t)
  <2> SUFFICES ASSUME NEW t \in Seq(LineText) PROVE StrippedLines(t) = Mapped(StrippedF, t)
    OBVIOUS
  <2>1. \A k \in 1 .. Len(t) : StrippedF[t[k]] = Stripped(t[k])
    BY DEF StrippedF
  <2> QED
    BY <2>1 DEF StrippedLines, Mapped
<1>2. \A l \in LineText : StrippedF[l] \in LineText /\ StrippedF[l] = Stripped(l)
  BY StrippedIs DEF StrippedF
<1>3. \A t \in Seq(LineText) : StrippedLines(t) \in Seq(LineText)
  BY <1>1, <1>2, MappedIs
<1>4. ASSUME NEW t \in Seq(LineText) PROVE StrippedLines(s \o t) = StrippedLines(s) \o StrippedLines(t)
  <2>1. Mapped(StrippedF, s \o t) = Mapped(StrippedF, s) \o Mapped(StrippedF, t)
    BY MappedConcat
  <2>2. s \o t \in Seq(LineText)
    OBVIOUS
  <2> QED
    BY <1>1, <2>1, <2>2
<1>5. StrippedLines(BlurredLines(s)) = BlurredLines(StrippedLines(s))
  <2>1. \A k \in 1 .. Len(s) : s[k] \in LineText
    OBVIOUS
  <2>2. Len(BlurredLines(s)) = Len(s) /\ \A k \in 1 .. Len(s) : BlurredLines(s)[k] = Blurred(s[k])
    BY DEF BlurredLines
  <2>3. Len(StrippedLines(s)) = Len(s) /\ \A k \in 1 .. Len(s) : StrippedLines(s)[k] = Stripped(s[k])
    BY DEF StrippedLines
  <2>4. \A k \in 1 .. Len(s) : Stripped(Blurred(s[k])) = Blurred(Stripped(s[k]))
    BY <2>1, StrippedBlurs
  <2>5. StrippedLines(BlurredLines(s)) = [k \in 1 .. Len(s) |-> Stripped(Blurred(s[k]))]
    BY <2>2 DEF StrippedLines
  <2>6. BlurredLines(StrippedLines(s)) = [k \in 1 .. Len(s) |-> Blurred(Stripped(s[k]))]
    BY <2>3 DEF BlurredLines
  <2> QED
    BY <2>4, <2>5, <2>6
<1> QED
  BY <1>3, <1>4, <1>5

-----------------------------------------------------------------------------
(* The loops of the line readers *)

LineKinds == {"syslog", "unit", "regex"}

GroupState == [out : Seq(Seq(LineText)), current : Seq(LineText)]
GroupF == [p \in GroupState \X LineText |-> Group(p[1], p[2])]
Gather(x, lines) == Final(GroupF, x, lines)

\* A reader that has returned these messages and gathers this one.
Bunch(out, open) == [out |-> out, current |-> open]

LEMMA BunchState ==
  ASSUME NEW x \in GroupState
  PROVE  x.out \in Seq(Seq(LineText)) /\ x.current \in Seq(LineText) /\ x = Bunch(x.out, x.current)
BY DEF GroupState, Bunch

LEMMA BunchType ==
  ASSUME NEW out \in Seq(Seq(LineText)), NEW open \in Seq(LineText)
  PROVE  Bunch(out, open) \in GroupState
BY DEF GroupState, Bunch

LEMMA SyslogIs ==
  ASSUME NEW out, NEW open, NEW line, kind = "syslog"
  PROVE  Group(Bunch(out, open), line) = Bunch(Append(out, <<line>>), << >>)
BY DEF Group, GroupSyslog, Bunch

LEMMA UnitIs ==
  ASSUME NEW out, NEW open, NEW line, kind = "unit"
  PROVE  /\ Len(Append(open, line)) >= UnitLines =>
              Group(Bunch(out, open), line) = Bunch(Append(out, Append(open, line)), << >>)
         /\ ~(Len(Append(open, line)) >= UnitLines) =>
              Group(Bunch(out, open), line) = Bunch(out, Append(open, line))
<1> DEFINE x == Bunch(out, open)
           a == Append(open, line)
<1>1. x.out = out /\ x.current = open
  BY DEF Bunch
<1>2. Group(x, line) = GroupUnit(x, line)
  BY DEF Group
<1> HIDE DEF x
<1>3. GroupUnit(x, line) = IF Len(a) >= UnitLines THEN Bunch(Append(out, a), << >>) ELSE Bunch(out, a)
  BY <1>1 DEF GroupUnit, Bunch
<1> HIDE DEF a
<1>4. /\ Len(a) >= UnitLines => Group(x, line) = Bunch(Append(out, a), << >>)
      /\ ~(Len(a) >= UnitLines) => Group(x, line) = Bunch(out, a)
  BY <1>2, <1>3
<1> QED
  BY <1>4 DEF x, a

LEMMA RegexIs ==
  ASSUME NEW out, NEW open, NEW line, kind = "regex"
  PROVE  /\ Matches(line) /\ open # << >> =>
              Group(Bunch(out, open), line) = Bunch(Append(out, open), <<line>>)
         /\ ~(Matches(line) /\ open # << >>) =>
              Group(Bunch(out, open), line) = Bunch(out, Append(open, line))
<1> DEFINE x == Bunch(out, open)
<1>1. x.out = out /\ x.current = open
  BY DEF Bunch
<1>2. Group(x, line) = GroupRegex(x, line)
  BY DEF Group
<1> HIDE DEF x
<1>3. GroupRegex(x, line) = IF Matches(line) /\ open # << >> THEN Bunch(Append(out, open), <<line>>)
                            ELSE Bunch(out, Append(open, line))
  BY <1>1 DEF GroupRegex, Bunch
<1>4. /\ Matches(line) /\ open # << >> => Group(x, line) = Bunch(Append(out, open), <<line>>)
      /\ ~(Matches(line) /\ open # << >>) => Group(x, line) = Bunch(out, Append(open, line))
  BY <1>2, <1>3
<1> QED
  BY <1>4 DEF x

\* What a line can do to a state: begin, end or continue a message.
LEMMA GroupIs ==
  ASSUME kind \in LineKinds, NEW x \in GroupState, NEW l \in LineText
  PROVE  /\ Group(x, l) \in GroupState
         /\ \/ kind = "syslog" /\ Group(x, l) = Bunch(Append(x.out, <<l>>), << >>)
            \/ kind = "unit" /\ Len(x.current) + 1 >= UnitLines
               /\ Group(x, l) = Bunch(Append(x.out, Append(x.current, l)), << >>)
            \/ kind = "unit" /\ ~(Len(x.current) + 1 >= UnitLines)
               /\ Group(x, l) = Bunch(x.out, Append(x.current, l))
            \/ kind = "regex" /\ Matches(l) /\ x.current # << >>
               /\ Group(x, l) = Bunch(Append(x.out, x.current), <<l>>)
            \/ kind = "regex" /\ ~(Matches(l) /\ x.current # << >>)
               /\ Group(x, l) = Bunch(x.out, Append(x.current, l))
<1> DEFINE E == Seq(LineText)
           none == << >>
<1>1. x.out \in Seq(E) /\ x.current \in E /\ x = Bunch(x.out, x.current)
  BY BunchState
<1>2. Append(x.current, l) \in E /\ <<l>> \in E /\ none \in E /\ Len(Append(x.current, l)) = Len(x.current) + 1
  BY <1>1
<1> DEFINE a == Append(x.current, l)
           o == <<l>>
<1> HIDE DEF E, a, o
<1>3. /\ Append(x.out, o) \in Seq(E) /\ Append(x.out, a) \in Seq(E) /\ Append(x.out, x.current) \in Seq(E)
  BY <1>1, <1>2 DEF a, o
<1>4. \A out \in Seq(E), open \in E : Bunch(out, open) \in GroupState
  BY BunchType DEF E
<1> HIDE DEF none
<1>5. /\ Bunch(Append(x.out, o), none) \in GroupState /\ Bunch(Append(x.out, a), none) \in GroupState
      /\ Bunch(Append(x.out, x.current), o) \in GroupState /\ Bunch(x.out, a) \in GroupState
  BY <1>1, <1>2, <1>3, <1>4 DEF a, o
<1>6. CASE kind = "syslog"
  <2>1. Group(x, l) = Bunch(Append(x.out, o), none)
    BY <1>1, <1>6, SyslogIs DEF o, none
  <2> QED
    BY <1>5, <1>6, <2>1 DEF o, none
<1>7. CASE kind = "unit"
  <2>1. CASE Len(x.current) + 1 >= UnitLines
    <3>1. Group(x, l) = Bunch(Append(x.out, a), none)
      BY <1>1, <1>2, <1>7, <2>1, UnitIs DEF a, none
    <3> QED
      BY <1>5, <1>7, <2>1, <3>1 DEF a, none
  <2>2. CASE ~(Len(x.current) + 1 >= UnitLines)
    <3>1. Group(x, l) = Bunch(x.out, a)
      BY <1>1, <1>2, <1>7, <2>2, UnitIs DEF a
    <3> QED
      BY <1>5, <1>7, <2>2, <3>1 DEF a
  <2> QED
    BY <2>1, <2>2
<1>8. CASE kind = "regex"
  <2>1. CASE Matches(l) /\ x.current # << >>
    <3>1. Group(x, l) = Bunch(Append(x.out, x.current), o)
      BY <1>1, <1>8, <2>1, RegexIs DEF o
    <3> QED
      BY <1>5, <1>8, <2>1, <3>1 DEF o
  <2>2. CASE ~(Matches(l) /\ x.current # << >>)
    <3> DEFINE c == x.current
               o2 == x.out
    <3>0. x = Bunch(o2, c) /\ a = Append(c, l) /\ ~(Matches(l) /\ c # << >>)
      BY <1>1, <2>2 DEF a
    <3> HIDE DEF c, o2
    <3>2. Group(Bunch(o2, c), l) = Bunch(o2, Append(c, l))
      BY <1>8, <3>0, RegexIs
    <3>1. Group(x, l) = Bunch(x.out, a)
      BY <3>0, <3>2 DEF o2
    <3> QED
      BY <1>5, <1>8, <2>2, <3>1 DEF a
  <2> QED
    BY <2>1, <2>2
<1> QED
  BY <1>6, <1>7, <1>8 DEF LineKinds

LEMMA GroupTyped ==
  ASSUME kind \in LineKinds
  PROVE  GroupF \in [GroupState \X LineText -> GroupState]
<1>1. \A p \in GroupState \X LineText : Group(p[1], p[2]) \in GroupState
  BY GroupIs
<1> QED
  BY <1>1 DEF GroupF

LEMMA GroupFold ==
  ASSUME kind \in LineKinds, NEW initial \in GroupState, NEW seq \in Seq(LineText)
  PROVE  /\ FoldLeft(Group, initial, seq) = Final(GroupF, initial, seq)
         /\ Final(GroupF, initial, seq) \in GroupState
<1> DEFINE R(g) == g = [s \in SUBSET DOMAIN seq |->
                          IF s = {} THEN initial ELSE Group(g[s \ {Max(s)}], seq[Max(s)])]
           f == CHOOSE g : R(g)
<1>1. FoldLeft(Group, initial, seq) = f[DOMAIN seq]
  BY DEF FoldLeft, MapThenFoldSet
<1>2. DOMAIN seq = 1 .. Len(seq) /\ Len(seq) \in Nat /\ \A k \in 1 .. Len(seq) : seq[k] \in LineText
  OBVIOUS
<1>3. \A s \in SUBSET (1 .. Len(seq)) : s # {} => seq[Max(s)] \in LineText
  BY <1>2, MaxIs
<1>4. seq \in Seq(LineText)
  OBVIOUS
<1>5. PICK h \in [SUBSET (1 .. Len(seq)) -> GroupState] : Solves(h, GroupF, initial, seq)
  BY <1>4, GroupTyped, SetFoldExists
<1>6. \A s \in SUBSET (1 .. Len(seq)) :
        h[s] = IF s = {} THEN initial ELSE Group(h[s \ {Max(s)}], seq[Max(s)])
  <2> SUFFICES ASSUME NEW s \in SUBSET (1 .. Len(seq)), s # {}
               PROVE  h[s] = Group(h[s \ {Max(s)}], seq[Max(s)])
    BY <1>5 DEF Solves
  <2>1. h[s \ {Max(s)}] \in GroupState
    OBVIOUS
  <2>2. h[s] = GroupF[<<h[s \ {Max(s)}], seq[Max(s)]>>]
    BY <1>5 DEF Solves
  <2> QED
    BY <1>3, <2>1, <2>2 DEF GroupF
<1>7. R(f)
  <2>1. h = [s \in SUBSET (1 .. Len(seq)) |-> h[s]]
    OBVIOUS
  <2>2. R(h)
    BY <1>2, <1>6, <2>1
  <2> HIDE DEF R
  <2> QED
    BY <2>2
<1> HIDE DEF f
<1>8. \A s \in SUBSET (1 .. Len(seq)) :
        IF s = {} THEN f[s] = initial
        ELSE f[s \ {Max(s)}] \in GroupState => f[s] = GroupF[<<f[s \ {Max(s)}], seq[Max(s)]>>]
  <2> SUFFICES ASSUME NEW s \in SUBSET (1 .. Len(seq))
               PROVE  IF s = {} THEN f[s] = initial
                      ELSE f[s \ {Max(s)}] \in GroupState
                             => f[s] = GroupF[<<f[s \ {Max(s)}], seq[Max(s)]>>]
    OBVIOUS
  <2>1. f[s] = IF s = {} THEN initial ELSE Group(f[s \ {Max(s)}], seq[Max(s)])
    BY <1>2, <1>7
  <2> QED
    BY <1>3, <2>1 DEF GroupF
<1>9. f[1 .. Len(seq)] = Final(GroupF, initial, seq) /\ Final(GroupF, initial, seq) \in GroupState
  BY <1>4, <1>8, GroupTyped, SetFoldIs
<1> QED
  BY <1>1, <1>2, <1>9

LEMMA GatherIs ==
  ASSUME kind \in LineKinds, NEW x \in GroupState
  PROVE  /\ Gather(x, << >>) = x
         /\ \A t \in Seq(LineText) : Gather(x, t) \in GroupState
         /\ \A t \in Seq(LineText) : \A l \in LineText : Gather(x, Append(t, l)) = Group(Gather(x, t), l)
<1>1. Gather(x, << >>) = x
  BY FinalEmpty DEF Gather
<1>2. \A t \in Seq(LineText) : Gather(x, t) \in GroupState
  BY GroupFold DEF Gather
<1>3. ASSUME NEW t \in Seq(LineText), NEW l \in LineText
      PROVE  Gather(x, Append(t, l)) = Group(Gather(x, t), l)
  <2>1. Gather(x, Append(t, l)) = GroupF[<<Gather(x, t), l>>]
    BY FinalAppend DEF Gather
  <2> QED
    BY <1>2, <2>1 DEF GroupF
<1> QED
  BY <1>1, <1>2, <1>3

\* A line either makes the unfinished message longer or ends one.
LEMMA GroupMoves ==
  ASSUME kind \in LineKinds, NEW open \in Seq(LineText), NEW l \in LineText
  PROVE  \E c \in Seq(LineText) :
           \/ /\ \A out \in Seq(Seq(LineText)) : Group(Bunch(out, open), l) = Bunch(out, c)
              /\ c = Append(open, l)
           \/ \E m \in Seq(LineText) :
                /\ \A out \in Seq(Seq(LineText)) : Group(Bunch(out, open), l) = Bunch(Append(out, m), c)
                /\ (kind = "syslog" => open = << >>) => m \o c = Append(open, l)
<1> DEFINE E == Seq(LineText)
           none == << >>
           one == <<l>>
           a == Append(open, l)
<1>1. none \in E /\ one \in E /\ a \in E /\ Len(a) = Len(open) + 1 /\ Append(none, l) = one
  OBVIOUS
<1>2. a \o none = a /\ one \o none = one /\ open \o one = a
  BY <1>1, ConcatEmptySeq, AppendIsConcat
<1>3. open = none => a = one
  OBVIOUS
<1> DEFINE Longer(c) == (\A out \in Seq(E) : Group(Bunch(out, open), l) = Bunch(out, c)) /\ c = a
           Ends(m, c) == /\ \A out \in Seq(E) : Group(Bunch(out, open), l) = Bunch(Append(out, m), c)
                         /\ (kind = "syslog" => open = none) => m \o c = a
<1> SUFFICES \E c \in E : Longer(c) \/ \E m \in E : Ends(m, c)
  OBVIOUS
<1>4. CASE kind = "syslog"
  <2>1. \A out : Group(Bunch(out, open), l) = Bunch(Append(out, one), none)
    BY <1>4, SyslogIs
  <2>2. Ends(one, none)
    BY <1>2, <1>3, <1>4, <2>1
  <2> HIDE DEF Ends, Longer, E, none, one
  <2> QED
    BY <1>1, <2>2
<1>5. CASE kind = "unit"
  <2>1. CASE Len(a) >= UnitLines
    <3>1. \A out : Group(Bunch(out, open), l) = Bunch(Append(out, a), none)
      BY <1>5, <2>1, UnitIs
    <3>2. Ends(a, none)
      BY <1>2, <3>1
    <3> HIDE DEF Ends, Longer, E, none, a
    <3> QED
      BY <1>1, <3>2
  <2>2. CASE ~(Len(a) >= UnitLines)
    <3>1. \A out : Group(Bunch(out, open), l) = Bunch(out, a)
      BY <1>5, <2>2, UnitIs
    <3>2. Longer(a)
      BY <3>1
    <3> HIDE DEF Ends, Longer, E, none, a
    <3> QED
      BY <1>1, <3>2
  <2> QED
    BY <2>1, <2>2
<1>6. CASE kind = "regex"
  <2>1. CASE Matches(l) /\ open # << >>
    <3>1. \A out : Group(Bunch(out, open), l) = Bunch(Append(out, open), one)
      BY <1>6, <2>1, RegexIs
    <3>2. Ends(open, one)
      BY <1>2, <3>1
    <3> HIDE DEF Ends, Longer, none, one
    <3> QED
      BY <1>1, <3>2
  <2>2. CASE ~(Matches(l) /\ open # << >>)
    <3>1. \A out : Group(Bunch(out, open), l) = Bunch(out, a)
      BY <1>6, <2>2, RegexIs
    <3>2. Longer(a)
      BY <3>1
    <3> HIDE DEF Ends, Longer, E, none, a
    <3> QED
      BY <1>1, <3>2
  <2> QED
    BY <2>1, <2>2
<1> QED
  BY <1>4, <1>5, <1>6 DEF LineKinds

\* What was returned before makes no difference to what is.
LEMMA GatherAfter ==
  ASSUME kind \in LineKinds, NEW out \in Seq(Seq(LineText)), NEW open \in Seq(LineText)
  PROVE  \A t \in Seq(LineText) :
           LET x == Gather(Bunch(<< >>, open), t)
           IN Gather(Bunch(out, open), t) = Bunch(out \o x.out, x.current)
<1> DEFINE E == Seq(LineText)
           none == << >>
           first == Bunch(none, open)
           start == Bunch(out, open)
           x(t) == Gather(first, t)
           S == {t \in Seq(LineText) : Gather(start, t) = Bunch(out \o x(t).out, x(t).current)}
<1>1. first \in GroupState /\ start \in GroupState
  <2>1. none \in Seq(E)
    OBVIOUS
  <2> QED
    BY <2>1, BunchType
<1>2. first.out = none /\ first.current = open
  BY DEF Bunch
<1>3. none \in Seq(LineText) /\ out \o none = out
  BY ConcatEmptySeq
<1>9. start = Bunch(out, open)
  OBVIOUS
<1> HIDE DEF first, start, none
<1>4. none \in S
  <2>1. Gather(start, none) = start /\ x(none) = first
    BY <1>1, GatherIs DEF none
  <2>2. Gather(start, none) = Bunch(out \o x(none).out, x(none).current)
    BY <1>2, <1>3, <1>9, <2>1
  <2> QED
    BY <1>3, <2>2
<1>5. ASSUME NEW t \in Seq(LineText), NEW l \in LineText, t \in S PROVE Append(t, l) \in S
  <2> DEFINE a == Append(t, l)
  <2>1. a \in Seq(LineText) /\ x(t) \in GroupState /\ x(a) = Group(x(t), l)
    BY <1>1, GatherIs
  <2>2. Gather(start, a) = Group(Gather(start, t), l)
    BY <1>1, GatherIs
  <2>3. Gather(start, t) = Bunch(out \o x(t).out, x(t).current)
    BY <1>5
  <2> HIDE DEF x, a
  <2>4. x(t).out \in Seq(E) /\ x(t).current \in Seq(LineText) /\ x(t) = Bunch(x(t).out, x(t).current)
    BY <2>1, BunchState
  <2> HIDE DEF E
  <2>5. out \in Seq(E) /\ out \o x(t).out \in Seq(E)
    BY <2>4, ConcatProperties DEF E
  <2>6. PICK c \in Seq(LineText) :
           \/ \A o \in Seq(E) : Group(Bunch(o, x(t).current), l) = Bunch(o, c)
           \/ \E m \in E : \A o \in Seq(E) : Group(Bunch(o, x(t).current), l) = Bunch(Append(o, m), c)
    <3> DEFINE cur == x(t).current
    <3>1. cur \in Seq(LineText)
      BY <2>4
    <3> HIDE DEF cur
    <3>2. PICK c \in Seq(LineText) :
             \/ /\ \A o \in Seq(Seq(LineText)) : Group(Bunch(o, cur), l) = Bunch(o, c)
                /\ c = Append(cur, l)
             \/ \E m \in Seq(LineText) :
                  /\ \A o \in Seq(Seq(LineText)) : Group(Bunch(o, cur), l) = Bunch(Append(o, m), c)
                  /\ (kind = "syslog" => cur = << >>) => m \o c = Append(cur, l)
      BY <3>1, GroupMoves
    <3>3. \/ \A o \in Seq(Seq(LineText)) : Group(Bunch(o, cur), l) = Bunch(o, c)
          \/ \E m \in Seq(LineText) : \A o \in Seq(Seq(LineText)) : Group(Bunch(o, cur), l) = Bunch(Append(o, m), c)
      BY <3>2
    <3> QED
      BY <3>3 DEF cur, E
  <2>7. CASE \A o \in Seq(E) : Group(Bunch(o, x(t).current), l) = Bunch(o, c)
    <3>1. x(a) = Bunch(x(t).out, c) /\ Gather(start, a) = Bunch(out \o x(t).out, c)
      BY <2>1, <2>2, <2>3, <2>4, <2>5, <2>7
    <3>2. x(a).out = x(t).out /\ x(a).current = c
      BY <3>1 DEF Bunch
    <3>3. Gather(start, a) = Bunch(out \o x(a).out, x(a).current)
      BY <3>1, <3>2
    <3> QED
      BY <2>1, <3>3 DEF a
  <2>8. CASE \E m \in E : \A o \in Seq(E) : Group(Bunch(o, x(t).current), l) = Bunch(Append(o, m), c)
    <3>0. PICK m \in E : \A o \in Seq(E) : Group(Bunch(o, x(t).current), l) = Bunch(Append(o, m), c)
      BY <2>8
    <3>1. x(a) = Bunch(Append(x(t).out, m), c) /\ Gather(start, a) = Bunch(Append(out \o x(t).out, m), c)
      BY <2>1, <2>2, <2>3, <2>4, <2>5, <3>0
    <3>2. x(a).out = Append(x(t).out, m) /\ x(a).current = c
      BY <3>1 DEF Bunch
    <3>3. out \o Append(x(t).out, m) = Append(out \o x(t).out, m)
      BY <2>4, <2>5, ConcatAppend
    <3>4. Gather(start, a) = Bunch(out \o x(a).out, x(a).current)
      BY <3>1, <3>2, <3>3
    <3> QED
      BY <2>1, <3>4 DEF a
  <2> QED
    BY <2>6, <2>7, <2>8
<1>6. \A t \in Seq(LineText) : t \in S
  <2> HIDE DEF S
  <2> QED
    BY <1>4, <1>5, AllSequences DEF none
<1> QED
  BY <1>6 DEF first, start, none

-----------------------------------------------------------------------------
(* The messages of each reader *)

\* A matching line, or the first of the log, and lines that do not match.
RegexUnit(m) == m # << >> /\ \A k \in 2 .. Len(m) : ~Matches(m[k])

UnitStates ==
  {x \in GroupState :
     /\ kind = "syslog" => x.current = << >>
     /\ kind = "unit" => /\ Len(x.current) < UnitLines
                         /\ \A k \in 1 .. Len(x.out) : Len(x.out[k]) = UnitLines
     /\ kind = "regex" => /\ \A k \in 1 .. Len(x.out) : RegexUnit(x.out[k])
                          /\ \A k \in 2 .. Len(x.out) : Matches(x.out[k][1])
                          /\ x.current # << >> => RegexUnit(x.current)
                          /\ x.out # << >> => x.current # << >> /\ Matches(x.current[1])}

LEMMA UnitsKept ==
  ASSUME kind \in LineKinds, UnitLines \in Nat \ {0}, NEW x \in UnitStates, NEW l \in LineText
  PROVE  Group(x, l) \in UnitStates
<1> DEFINE E == Seq(LineText)
           y == Group(x, l)
           none == << >>
<1>1. x \in GroupState /\ x.out \in Seq(E) /\ x.current \in E /\ x.current \in Seq(LineText)
  BY BunchState DEF UnitStates
<1>2. y \in GroupState
  BY <1>1, GroupIs
<1>3. \A o, c : Bunch(o, c).out = o /\ Bunch(o, c).current = c
  BY DEF Bunch
<1> DEFINE a == Append(x.current, l)
           one == <<l>>
<1>4. a \in E /\ one \in E /\ none \in E /\ Len(a) = Len(x.current) + 1 /\ Len(x.current) \in Nat
      /\ a[Len(x.current) + 1] = l /\ \A k \in 1 .. Len(x.current) : a[k] = x.current[k]
  BY <1>1
<1>14. Len(one) = 1 /\ Len(none) = 0 /\ one[1] = l /\ one # none /\ (x.current = none => a = one)
  <2>1. Append(none, l) = one
    OBVIOUS
  <2>2. x.current = none => a = one
    <3> SUFFICES ASSUME x.current = none PROVE a = one
      OBVIOUS
    <3> HIDE DEF none, one
    <3> QED
      BY <2>1
  <2>3. Len(one) = 1 /\ Len(none) = 0 /\ one[1] = l
    OBVIOUS
  <2>4. one # none
    <3> HIDE DEF none, one
    <3> QED
      BY <2>3
  <2> QED
    BY <2>2, <2>3, <2>4
<1>15. none = << >>
  OBVIOUS
<1> HIDE DEF E, none
<1>5. \A m \in E : /\ Len(Append(x.out, m)) = Len(x.out) + 1 /\ Append(x.out, m)[Len(x.out) + 1] = m
                   /\ \A k \in 1 .. Len(x.out) : Append(x.out, m)[k] = x.out[k]
  BY <1>1
<1>6. Len(x.out) \in Nat /\ (x.out = none <=> Len(x.out) = 0)
  BY <1>1, <1>15
<1> HIDE DEF y, a, one
<1>7. \/ kind = "syslog" /\ y = Bunch(Append(x.out, one), none)
      \/ kind = "unit" /\ Len(x.current) + 1 >= UnitLines /\ y = Bunch(Append(x.out, a), none)
      \/ kind = "unit" /\ ~(Len(x.current) + 1 >= UnitLines) /\ y = Bunch(x.out, a)
      \/ kind = "regex" /\ Matches(l) /\ x.current # none /\ y = Bunch(Append(x.out, x.current), one)
      \/ kind = "regex" /\ ~(Matches(l) /\ x.current # none) /\ y = Bunch(x.out, a)
  BY <1>1, GroupIs DEF y, a, one, none
<1>8. CASE kind = "syslog" /\ y = Bunch(Append(x.out, one), none)
  BY <1>2, <1>3, <1>8, <1>15 DEF UnitStates, y
<1>9. CASE kind = "unit" /\ Len(x.current) + 1 >= UnitLines /\ y = Bunch(Append(x.out, a), none)
  <2>1. Len(x.current) < UnitLines /\ \A k \in 1 .. Len(x.out) : Len(x.out[k]) = UnitLines
    BY <1>9 DEF UnitStates
  <2>2. y.current = none /\ y.out = Append(x.out, a) /\ Len(a) = UnitLines
    <3>1. Len(x.current) + 1 = UnitLines
      BY <1>4, <1>9, <2>1
    <3> QED
      BY <1>3, <1>4, <1>9, <3>1
  <2>3. \A k \in 1 .. Len(y.out) : k \in 1 .. Len(x.out) \/ k = Len(x.out) + 1
    BY <1>4, <1>5, <1>6, <2>2
  <2>4. \A k \in 1 .. Len(y.out) : Len(y.out[k]) = UnitLines
    BY <1>4, <1>5, <2>1, <2>2, <2>3
  <2>5. Len(y.current) < UnitLines
    BY <1>14, <2>2
  <2> QED
    BY <1>2, <1>9, <2>4, <2>5 DEF UnitStates, y
<1>10. CASE kind = "unit" /\ ~(Len(x.current) + 1 >= UnitLines) /\ y = Bunch(x.out, a)
  <2>1. Len(x.current) < UnitLines /\ \A k \in 1 .. Len(x.out) : Len(x.out[k]) = UnitLines
    BY <1>10 DEF UnitStates
  <2>2. y.current = a /\ y.out = x.out /\ Len(a) < UnitLines
    <3>1. Len(x.current) + 1 < UnitLines
      BY <1>4, <1>10
    <3> QED
      BY <1>3, <1>4, <1>10, <3>1
  <2> QED
    BY <1>2, <1>10, <2>1, <2>2 DEF UnitStates, y
<1>11. CASE kind = "regex" /\ Matches(l) /\ x.current # none /\ y = Bunch(Append(x.out, x.current), one)
  <2>1. /\ \A k \in 1 .. Len(x.out) : RegexUnit(x.out[k])
        /\ \A k \in 2 .. Len(x.out) : Matches(x.out[k][1])
        /\ RegexUnit(x.current)
        /\ x.out # << >> => Matches(x.current[1])
    BY <1>11, <1>15 DEF UnitStates
  <2>2. y.current = one /\ y.out = Append(x.out, x.current)
    BY <1>3, <1>11
  <2>3. \A k \in 1 .. Len(y.out) : k \in 1 .. Len(x.out) \/ k = Len(x.out) + 1
    BY <1>1, <1>5, <1>6, <2>2
  <2>4. \A k \in 1 .. Len(y.out) : RegexUnit(y.out[k])
    BY <1>1, <1>5, <2>1, <2>2, <2>3
  <2>5. \A k \in 2 .. Len(y.out) : Matches(y.out[k][1])
    <3> SUFFICES ASSUME NEW k \in 2 .. Len(y.out) PROVE Matches(y.out[k][1])
      OBVIOUS
    <3>1. k \in 2 .. Len(x.out) \/ k = Len(x.out) + 1
      BY <1>1, <1>5, <1>6, <2>2
    <3>2. CASE k \in 2 .. Len(x.out)
      <4>1. y.out[k] = x.out[k]
        BY <1>1, <1>5, <1>6, <2>2, <3>2
      <4> QED
        BY <2>1, <3>2, <4>1
    <3>3. CASE k = Len(x.out) + 1
      <4>1. y.out[k] = x.current /\ Len(x.out) # 0
        BY <1>1, <1>5, <1>6, <2>2, <3>3
      <4> QED
        BY <1>6, <1>15, <2>1, <4>1
    <3> QED
      BY <3>1, <3>2, <3>3
  <2>6. RegexUnit(one) /\ one # << >> /\ Matches(one[1])
    <3>1. \A k \in 2 .. Len(one) : FALSE
      BY <1>14
    <3> QED
      BY <1>11, <1>14, <1>15, <3>1 DEF RegexUnit
  <2> QED
    BY <1>2, <1>11, <2>2, <2>4, <2>5, <2>6 DEF UnitStates, y
<1>12. CASE kind = "regex" /\ ~(Matches(l) /\ x.current # none) /\ y = Bunch(x.out, a)
  <2>1. /\ \A k \in 1 .. Len(x.out) : RegexUnit(x.out[k])
        /\ \A k \in 2 .. Len(x.out) : Matches(x.out[k][1])
        /\ x.current # << >> => RegexUnit(x.current)
        /\ x.out # << >> => x.current # << >> /\ Matches(x.current[1])
    BY <1>12 DEF UnitStates
  <2>2. y.current = a /\ y.out = x.out
    BY <1>3, <1>12
  <2>3. RegexUnit(a) /\ a # << >>
    <3>1. a # << >>
      BY <1>4
    <3>2. CASE x.current = none
      <4>1. Len(a) = 1
        BY <1>14, <3>2
      <4>2. \A k \in 2 .. Len(a) : FALSE
        BY <4>1
      <4> QED
        BY <3>1, <4>2 DEF RegexUnit
    <3>3. CASE x.current # none
      <4>1. \A k \in 2 .. Len(x.current) : ~Matches(x.current[k])
        BY <1>15, <2>1, <3>3 DEF RegexUnit
      <4>2. ~Matches(l)
        BY <1>12, <3>3
      <4>3. \A k \in 2 .. Len(a) : ~Matches(a[k])
        <5> SUFFICES ASSUME NEW k \in 2 .. Len(a) PROVE ~Matches(a[k])
          OBVIOUS
        <5>1. (k \in 2 .. Len(x.current) /\ k \in 1 .. Len(x.current)) \/ k = Len(x.current) + 1
          BY <1>4
        <5> QED
          BY <1>4, <4>1, <4>2, <5>1
      <4> QED
        BY <3>1, <4>3 DEF RegexUnit
    <3> QED
      BY <3>2, <3>3
  <2>4. x.out # << >> => Matches(a[1])
    <3> SUFFICES ASSUME x.out # << >> PROVE Matches(a[1])
      OBVIOUS
    <3>1. x.current # << >> /\ Matches(x.current[1])
      BY <2>1
    <3>2. 1 \in 1 .. Len(x.current)
      BY <1>1, <3>1
    <3> QED
      BY <1>4, <3>1, <3>2
  <2> QED
    BY <1>2, <1>12, <2>1, <2>2, <2>3, <2>4 DEF UnitStates, y
<1> QED
  BY <1>7, <1>8, <1>9, <1>10, <1>11, <1>12 DEF y

LEMMA GatherUnits ==
  ASSUME kind \in LineKinds, UnitLines \in Nat \ {0}, NEW x \in UnitStates
  PROVE  \A t \in Seq(LineText) : Gather(x, t) \in UnitStates
<1>1. \A y \in UnitStates : \A l \in LineText : GroupF[<<y, l>>] \in UnitStates
  <2> SUFFICES ASSUME NEW y \in UnitStates, NEW l \in LineText PROVE GroupF[<<y, l>>] \in UnitStates
    OBVIOUS
  <2>1. y \in GroupState
    BY DEF UnitStates
  <2>2. GroupF[<<y, l>>] = Group(y, l)
    BY <2>1 DEF GroupF
  <2> QED
    BY <2>2, UnitsKept
<1> QED
  BY <1>1, FinalIn DEF Gather

\* No line is lost and none is added: the messages and the unfinished one, joined,
\* are the lines there were and those that came.
LEMMA GatherJoins ==
  ASSUME kind \in LineKinds, UnitLines \in Nat \ {0}, NEW x \in UnitStates
  PROVE  \A t \in Seq(LineText) :
           FlattenSeq(Gather(x, t).out) \o Gather(x, t).current
             = (FlattenSeq(x.out) \o x.current) \o t
<1> DEFINE L == Seq(LineText)
           F == FlattenSeq(x.out) \o x.current
           y(t) == Gather(x, t)
           S == {t \in L : FlattenSeq(y(t).out) \o y(t).current = F \o t}
           none == << >>
<1>1. \A ss \in Seq(L) : FlattenSeq(ss) \in L
  BY FlattenIs
<1>2. \A ss \in Seq(L), s \in L : FlattenSeq(Append(ss, s)) = FlattenSeq(ss) \o s
  BY FlattenAppend
<1>3. \A a, b \in L : a \o b \in L
  BY ConcatProperties
<1>4. \A a, b, c \in L : (a \o b) \o c = a \o (b \o c)
  BY ConcatAssociative
<1>5. \A a, b \in L, l \in LineText : a \o Append(b, l) = Append(a \o b, l) /\ Append(b, l) \in L
  BY ConcatAppend
<1>6. none \in L /\ \A a \in L : a \o none = a
  BY ConcatEmptySeq
<1>7. \A u \in UnitStates : u \in GroupState /\ u.out \in Seq(L) /\ u.current \in L /\ u = Bunch(u.out, u.current)
                            /\ (kind = "syslog" => u.current = none)
  <2> SUFFICES ASSUME NEW u \in UnitStates
               PROVE  /\ u \in GroupState /\ u.out \in Seq(L) /\ u.current \in L /\ u = Bunch(u.out, u.current)
                      /\ kind = "syslog" => u.current = none
    OBVIOUS
  <2>1. u \in GroupState /\ (kind = "syslog" => u.current = none)
    BY DEF UnitStates
  <2> QED
    BY <2>1, BunchState
<1>8. \A t \in L : y(t) \in UnitStates
  BY GatherUnits
<1>9. y(none) = x /\ \A t \in L, l \in LineText : y(Append(t, l)) = Group(y(t), l)
  <2>1. x \in GroupState
    BY DEF UnitStates
  <2> QED
    BY <2>1, GatherIs
<1>10. \A cur \in L, l \in LineText : \E c \in L :
           \/ /\ \A o \in Seq(L) : Group(Bunch(o, cur), l) = Bunch(o, c)
              /\ c = Append(cur, l)
           \/ \E m \in L :
                /\ \A o \in Seq(L) : Group(Bunch(o, cur), l) = Bunch(Append(o, m), c)
                /\ (kind = "syslog" => cur = none) => m \o c = Append(cur, l)
  BY GroupMoves
<1>11. F \in L
  BY <1>1, <1>3, <1>7
<1> HIDE DEF y, L, none, F
<1>12. none \in S
  <2>1. FlattenSeq(y(none).out) \o y(none).current = F
    BY <1>9 DEF F
  <2>2. F \o none = F
    BY <1>6, <1>11
  <2> QED
    BY <1>6, <2>1, <2>2
<1>13. ASSUME NEW t \in L, NEW l \in LineText, t \in S PROVE Append(t, l) \in S
  <2>1. /\ y(t) \in UnitStates /\ y(t).out \in Seq(L) /\ y(t).current \in L
        /\ y(t) = Bunch(y(t).out, y(t).current) /\ (kind = "syslog" => y(t).current = none)
    BY <1>7, <1>8
  <2>2. FlattenSeq(y(t).out) \o y(t).current = F \o t /\ FlattenSeq(y(t).out) \in L
    BY <1>1, <1>13, <2>1
  <2>3. y(Append(t, l)) = Group(y(t), l)
    BY <1>9
  <2>4. F \o Append(t, l) = Append(F \o t, l) /\ Append(t, l) \in L
    BY <1>5, <1>11
  <2> DEFINE cur == y(t).current
             o == y(t).out
             f == FlattenSeq(o)
             z == y(Append(t, l))
  <2>5. /\ cur \in L /\ o \in Seq(L) /\ f \in L /\ f \o cur = F \o t /\ (kind = "syslog" => cur = none)
        /\ z = Group(Bunch(o, cur), l)
    BY <2>1, <2>2, <2>3
  <2>6. FlattenSeq(z.out) \o z.current = Append(f \o cur, l)
    <3>0. f = FlattenSeq(o)
      OBVIOUS
    <3> HIDE DEF cur, o, f, z
    <3>1. PICK c \in L :
             \/ /\ \A p \in Seq(L) : Group(Bunch(p, cur), l) = Bunch(p, c)
                /\ c = Append(cur, l)
             \/ \E m \in L :
                  /\ \A p \in Seq(L) : Group(Bunch(p, cur), l) = Bunch(Append(p, m), c)
                  /\ (kind = "syslog" => cur = none) => m \o c = Append(cur, l)
      BY <1>10, <2>5
    <3>2. f \o Append(cur, l) = Append(f \o cur, l)
      BY <1>5, <2>5
    <3>3. CASE (\A p \in Seq(L) : Group(Bunch(p, cur), l) = Bunch(p, c)) /\ c = Append(cur, l)
      <4>1. z = Bunch(o, c) /\ c = Append(cur, l)
        BY <2>5, <3>3
      <4>2. z.out = o /\ z.current = c
        BY <4>1 DEF Bunch
      <4> QED
        BY <3>0, <3>2, <4>1, <4>2
    <3>4. ASSUME NEW m \in L, \A p \in Seq(L) : Group(Bunch(p, cur), l) = Bunch(Append(p, m), c),
                 (kind = "syslog" => cur = none) => m \o c = Append(cur, l)
          PROVE  FlattenSeq(z.out) \o z.current = Append(f \o cur, l)
      <4>1. z = Bunch(Append(o, m), c) /\ m \o c = Append(cur, l)
        BY <2>5, <3>4
      <4>2. z.out = Append(o, m) /\ z.current = c
        BY <4>1 DEF Bunch
      <4>3. FlattenSeq(z.out) = f \o m
        BY <1>2, <2>5, <3>0, <4>2
      <4>4. (f \o m) \o c = f \o (m \o c)
        BY <1>4, <2>5
      <4> QED
        BY <3>2, <4>1, <4>2, <4>3, <4>4
    <3> QED
      BY <3>1, <3>3, <3>4
  <2>7. FlattenSeq(z.out) \o z.current = F \o Append(t, l)
    BY <2>4, <2>5, <2>6
  <2> QED
    BY <2>4, <2>7
<1>14. \A t \in L : t \in S
  <2> HIDE DEF S
  <2> QED
    BY <1>12, <1>13, AllSequences DEF L, none
<1> QED
  BY <1>14 DEF L, y, F

-----------------------------------------------------------------------------
(* What the line readers keep: the whole text in parts *)

\* The lines of the text so far, and the half line.
Whole == Split(Cut(<< >>, << >>), Blurred(fed))

LinesKept ==
  kind # "json" =>
    /\ kind \in LineKinds /\ fed \in Seq(LineByte)
    /\ ~flushed =>
         /\ Bunch(messages, current) \in UnitStates /\ half \in LineText
         /\ BlurredLines(FlattenSeq(messages) \o current) = StrippedLines(Whole.lines)
         /\ Blurred(half) = Whole.rest
    /\ flushed =>
         BlurredLines(FlattenSeq(messages))
           = StrippedLines(Whole.lines)
               \o (IF Whole.rest = << >> THEN << >> ELSE <<Stripped(Whole.rest)>>)

LEMMA FedText == ASSUME NEW bytes \in Seq(LineByte) PROVE bytes \in LineText
<1>1. LineByte \subseteq LineChar
  BY DEF LineChar
<1> QED
  BY <1>1, SeqMonotonic DEF LineText

LEMMA CutNone == Cut(<< >>, << >>) \in SplitState /\ Plain(<< >>)
<1> DEFINE none == << >>
<1>1. none \in Seq(LineText) /\ none \in LineText
  BY DEF LineText
<1>2. Plain(none)
  BY DEF Plain
<1> HIDE DEF none
<1>3. Cut(none, none) \in SplitState
  BY <1>1, CutType
<1> QED
  BY <1>2, <1>3 DEF none

LEMMA SplitLinesIs ==
  ASSUME NEW t \in LineText
  PROVE  SplitLines(t) = Split(Cut(<< >>, << >>), t)
<1> DEFINE first == Cut(<< >>, << >>)
<1>1. SplitLines(t) = FoldLeft(SplitAt, first, t)
  BY DEF SplitLines, Cut
<1>2. first \in SplitState
  BY CutNone
<1> HIDE DEF first
<1>3. SplitLines(t) = Split(first, t)
  BY <1>1, <1>2, SplitFold DEF Split
<1> QED
  BY <1>3 DEF first

\* A chunk adds its lines to the lines of the text, and what it leaves is the half line.
LEMMA FeedSplits ==
  ASSUME NEW text \in Seq(LineByte), NEW bytes \in Seq(LineByte), NEW left \in LineText,
         Blurred(left) = Split(Cut(<< >>, << >>), Blurred(text)).rest
  PROVE  LET whole == Split(Cut(<< >>, << >>), Blurred(text))
             split == Split(Cut(<< >>, << >>), left \o Decode(bytes))
         IN /\ text \o bytes \in Seq(LineByte) /\ split \in SplitState /\ whole \in SplitState
            /\ Split(Cut(<< >>, << >>), Blurred(text \o bytes))
                 = Cut(whole.lines \o BlurredLines(split.lines), Blurred(split.rest))
<1> DEFINE none == << >>
           first == Cut(none, none)
           whole == Split(first, Blurred(text))
           joined == left \o Decode(bytes)
           split == Split(first, joined)
           mid == Cut(none, Blurred(left))
           z == Split(mid, Blurred(bytes))
<1>1. text \o bytes \in Seq(LineByte) /\ text \in LineText /\ bytes \in LineText
  BY FedText, ConcatProperties
<1>2. Decode(bytes) \in LineText /\ Blurred(Decode(bytes)) = Blurred(bytes)
  BY DecodeIs
<1>3. first \in SplitState /\ Plain(first.rest) /\ first = Cut(none, none) /\ none \in LineText
  <2>1. first.rest = none
    BY DEF Cut
  <2> QED
    BY <2>1, CutNone, TextIs
<1>4. joined \in LineText /\ Blurred(joined) = Blurred(left) \o Blurred(bytes)
  BY <1>2, BlurredIs
<1>5. Blurred(text \o bytes) = Blurred(text) \o Blurred(bytes)
  BY <1>1, BlurredIs
<1>6. Blurred(text) \in LineText /\ Blurred(bytes) \in LineText /\ Blurred(left) \in LineText
  BY <1>1, BlurredIs
<1>7. Blurred(left) = whole.rest
  OBVIOUS
<1>20. none \in Seq(LineText) /\ \A t \in LineText : none \o t = t
  BY TextIs
<1>21. \A t \in LineText :
         Split(first, Blurred(t)) = Cut(BlurredLines(Split(first, t).lines), Blurred(Split(first, t).rest))
  BY SplitBlurs
<1>22. \A lines \in Seq(LineText), rest \in LineText : \A t \in LineText :
         Split(Cut(lines, rest), t)
           = Cut(lines \o Split(Cut(none, rest), t).lines, Split(Cut(none, rest), t).rest)
  BY SplitAfter
<1> HIDE DEF first, none, joined
<1>8. whole \in SplitState /\ split \in SplitState /\ Plain(whole.rest)
  BY <1>3, <1>4, <1>6, SplitIs, SplitPlainRest
<1>9. Split(first, Blurred(text \o bytes)) = Split(whole, Blurred(bytes))
  BY <1>3, <1>5, <1>6, SplitIs
<1>10. Split(first, Blurred(left)) = mid
  <2>1. Plain(Blurred(left))
    BY <1>7, <1>8
  <2>2. Split(Cut(none, none), Blurred(left)) = Cut(none, none \o Blurred(left))
    BY <1>3, <1>6, <1>20, <2>1, SplitPlain
  <2> QED
    BY <1>3, <1>6, <1>20, <2>2
<1>11. Split(first, Blurred(joined)) = z
  BY <1>3, <1>4, <1>6, <1>10, SplitIs
<1>12. z = Cut(BlurredLines(split.lines), Blurred(split.rest))
  BY <1>4, <1>11, <1>21
<1>13. z.lines = BlurredLines(split.lines) /\ z.rest = Blurred(split.rest)
  <2> HIDE DEF z, split
  <2> QED
    BY <1>12 DEF Cut
<1>14. whole.lines \in Seq(LineText) /\ whole.rest \in LineText /\ whole = Cut(whole.lines, whole.rest)
  BY <1>8, CutState
<1>15. Split(whole, Blurred(bytes)) = Cut(whole.lines \o z.lines, z.rest)
  <2> HIDE DEF whole, z
  <2>1. Split(Cut(whole.lines, whole.rest), Blurred(bytes))
          = Cut(whole.lines \o Split(Cut(none, whole.rest), Blurred(bytes)).lines,
                Split(Cut(none, whole.rest), Blurred(bytes)).rest)
    BY <1>6, <1>14, <1>22
  <2>2. z = Split(Cut(none, whole.rest), Blurred(bytes))
    BY <1>7 DEF z
  <2> QED
    BY <1>14, <2>1, <2>2
<1> HIDE DEF z, whole, split
<1>16. Split(first, Blurred(text \o bytes)) = Cut(whole.lines \o BlurredLines(split.lines), Blurred(split.rest))
  BY <1>9, <1>13, <1>15
<1> QED
  BY <1>1, <1>8, <1>16 DEF first, none, whole, split, joined

\* No character is blurred away.
LEMMA BlurKeeps == \A t \in LineText : Blurred(t) = << >> <=> t = << >>
<1> DEFINE none == << >>
           S == {t \in LineText : Blurred(t) = none <=> t = none}
<1>1. none \in S
  BY TextIs, BlurredIs
<1>2. ASSUME NEW t \in S, NEW ch \in LineChar PROVE Append(t, ch) \in S
  <2>1. t \in LineText /\ Append(t, ch) \in LineText /\ Blurred(Append(t, ch)) = Blurred(t) \o Blur(ch)
    BY BlurredIs
  <2>2. Blurred(t) \in LineText /\ Blur(ch) \in LineText /\ Blur(ch) # none
    BY <2>1, BlurredIs, BlurIs
  <2>3. Blurred(t) \o Blur(ch) # none
    <3> DEFINE p == Blurred(t)
               q == Blur(ch)
    <3>1. Len(q) # 0
      BY <2>2, EmptySeq DEF LineText
    <3>2. Len(p \o q) = Len(p) + Len(q) /\ Len(p) \in Nat /\ Len(q) \in Nat
      BY <2>2, ConcatProperties DEF LineText
    <3>3. Len(none) = 0
      OBVIOUS
    <3> HIDE DEF p, q, none
    <3>4. Len(p \o q) # Len(none)
      BY <3>1, <3>2, <3>3
    <3> QED
      BY <3>4 DEF p, q
  <2>4. Append(t, ch) # none
    <3>1. Len(Append(t, ch)) = Len(t) + 1 /\ Len(t) \in Nat
      BY <2>1 DEF LineText
    <3>2. Len(none) = 0
      OBVIOUS
    <3> DEFINE q == Append(t, ch)
    <3>3. Len(q) # 0
      BY <3>1
    <3> HIDE DEF none, q
    <3>4. q # none
      BY <3>2, <3>3
    <3> QED
      BY <3>4 DEF q
  <2> QED
    BY <2>1, <2>3, <2>4
<1> HIDE DEF none
<1>3. LineText \subseteq S
  <2>1. << >> \in S
    BY <1>1 DEF none
  <2> HIDE DEF S
  <2> QED
    BY <1>2, <2>1, AllSequences DEF LineText
<1> QED
  BY <1>3 DEF none

LEMMA UnitStatesSame == kind' = kind => UnitStates' = UnitStates
BY DEF UnitStates

\* What a chunk does: its lines, stripped, are grouped after those of the text so far.
LEMMA FeedGathers ==
  ASSUME LinesKept, kind # "json", NEW bytes \in Seq(LineByte), Feed(bytes)
  PROVE  \E lines \in Seq(LineText) :
           /\ Gather(Bunch(messages, current), lines) = Bunch(messages', current')
           /\ StrippedLines(Whole'.lines) = StrippedLines(Whole.lines) \o BlurredLines(lines)
           /\ half' \in LineText /\ Blurred(half') = Whole'.rest
           /\ kind' = kind /\ fed' \in Seq(LineByte) /\ ~flushed /\ ~flushed'
<1> DEFINE none == << >>
           L == Seq(LineText)
           first == Cut(none, none)
           text == half \o Decode(bytes)
           split == Split(first, text)
           lines == StrippedLines(split.lines)
           open == Bunch(none, current)
           done == Gather(open, lines)
           next == Gather(Bunch(messages, current), lines)
<1>1. /\ kind \in LineKinds /\ fed \in Seq(LineByte) /\ ~flushed /\ half \in LineText
      /\ Bunch(messages, current) \in UnitStates
      /\ Blurred(half) = Whole.rest
  BY DEF LinesKept, Feed
<1>2. /\ kind' = kind /\ fed' = fed \o bytes /\ ~flushed' /\ FeedLines(bytes)
  BY <1>1 DEF Feed
<1>4. Bunch(messages, current) \in GroupState /\ messages \in Seq(L) /\ current \in L
  <2>1. Bunch(messages, current) \in GroupState
    BY <1>1 DEF UnitStates
  <2>2. Bunch(messages, current).out = messages /\ Bunch(messages, current).current = current
    BY DEF Bunch
  <2> QED
    BY <2>1, <2>2, BunchState
<1>5. /\ fed \o bytes \in Seq(LineByte) /\ split \in SplitState /\ Whole \in SplitState
      /\ Split(first, Blurred(fed \o bytes)) = Cut(Whole.lines \o BlurredLines(split.lines), Blurred(split.rest))
  BY <1>1, FeedSplits DEF Whole
<1>6. text \in LineText
  BY <1>1, DecodeIs, TextIs
<1>7. first \in SplitState /\ none \in Seq(L) /\ none \in L
  <2>1. first \in SplitState
    BY CutNone
  <2> QED
    BY <2>1 DEF L
<1>8. SplitLines(text) = split
  BY <1>6, SplitLinesIs
<1> HIDE DEF split, first, none, L, text
<1>9. split.lines \in Seq(LineText) /\ split.rest \in LineText
  BY <1>5, CutState
<1>10. lines \in Seq(LineText)
  BY <1>9, StrippedLinesIs
<1>11. open \in GroupState
  BY <1>4, <1>7, BunchType DEF L
<1>12. FoldLeft(Group, open, lines) = done
  <2> HIDE DEF open, lines
  <2> QED
    BY <1>1, <1>10, <1>11, GroupFold DEF Gather
<1>13. messages' = messages \o done.out /\ current' = done.current /\ half' = split.rest
  <2>1. [out |-> << >>, current |-> current] = open
    BY DEF Bunch, none
  <2>2. [k \in 1 .. Len(split.lines) |-> Stripped(split.lines[k])] = lines
    BY DEF StrippedLines
  <2>3. Joined(Decode(bytes)) = text
    BY DEF Joined, text
  <2> HIDE DEF open, lines, done
  <2> QED
    BY <1>2, <1>8, <1>12, <2>1, <2>2, <2>3 DEF FeedLines
<1>14. next = Bunch(messages', current')
  <2>1. \A t \in Seq(LineText) :
          Gather(Bunch(messages, current), t)
            = Bunch(messages \o Gather(Bunch(<< >>, current), t).out, Gather(Bunch(<< >>, current), t).current)
    BY <1>1, <1>4, GatherAfter DEF L
  <2>2. next = Bunch(messages \o done.out, done.current)
    BY <1>10, <2>1 DEF none
  <2> HIDE DEF next, done
  <2> QED
    BY <1>13, <2>2
<1>19. Whole.lines \in L
  BY <1>5, CutState DEF L
<1>20. StrippedLines(Whole.lines \o BlurredLines(split.lines))
         = StrippedLines(Whole.lines) \o BlurredLines(lines)
  <2>1. BlurredLines(lines) = StrippedLines(BlurredLines(split.lines))
    BY <1>9, StrippedLinesIs
  <2>2. BlurredLines(split.lines) \in L
    BY <1>9, BlurredLinesIs DEF L
  <2>3. StrippedLines(Whole.lines \o BlurredLines(split.lines))
          = StrippedLines(Whole.lines) \o StrippedLines(BlurredLines(split.lines))
    BY <1>19, <2>2, StrippedLinesIs DEF L
  <2> QED
    BY <2>1, <2>3
<1>21. Whole' = Cut(Whole.lines \o BlurredLines(split.lines), Blurred(split.rest))
  <2>1. Whole' = Split(first, Blurred(fed'))
    BY DEF Whole, first, none, Cut, Split, Blurred
  <2> QED
    BY <1>2, <1>5, <2>1
<1>22. Whole'.lines = Whole.lines \o BlurredLines(split.lines) /\ Whole'.rest = Blurred(split.rest)
  BY <1>21 DEF Cut
<1>23. half' \in LineText /\ Blurred(half') = Whole'.rest
  BY <1>9, <1>13, <1>22
<1> HIDE DEF next, lines
<1>24. StrippedLines(Whole'.lines) = StrippedLines(Whole.lines) \o BlurredLines(lines)
  BY <1>20, <1>22
<1> QED
  BY <1>1, <1>2, <1>5, <1>10, <1>14, <1>23, <1>24 DEF next

LEMMA LinesFed ==
  ASSUME LinesKept, kind # "json", NEW bytes \in Seq(LineByte), Feed(bytes)
  PROVE  LinesKept'
<1> DEFINE L == Seq(LineText)
           x == Bunch(messages, current)
           old == FlattenSeq(messages) \o current
<1>1. PICK lines \in Seq(LineText) :
        /\ Gather(x, lines) = Bunch(messages', current')
        /\ StrippedLines(Whole'.lines) = StrippedLines(Whole.lines) \o BlurredLines(lines)
        /\ half' \in LineText /\ Blurred(half') = Whole'.rest
        /\ kind' = kind /\ fed' \in Seq(LineByte) /\ ~flushed /\ ~flushed'
  BY FeedGathers
<1>2. /\ kind \in LineKinds /\ x \in UnitStates
      /\ BlurredLines(old) = StrippedLines(Whole.lines)
  BY <1>1 DEF LinesKept
<1>3. UnitLines \in Nat \ {0}
  BY ReadersAssumption
<1>4. x.out = messages /\ x.current = current
  BY DEF Bunch
<1>5. messages \in Seq(L) /\ current \in L
  <2>1. x \in GroupState
    BY <1>2 DEF UnitStates
  <2> QED
    BY <1>4, <2>1, BunchState
<1>6. old \in L
  <2>1. FlattenSeq(messages) \in L
    BY <1>5, FlattenIs DEF L
  <2> QED
    BY <1>5, <2>1, ConcatProperties DEF L
<1> DEFINE next == Gather(x, lines)
<1>7. next \in UnitStates
  BY <1>2, <1>3, GatherUnits
<1>8. next = Bunch(messages', current')
  BY <1>1
<1>9. FlattenSeq(next.out) \o next.current = old \o lines
  <2> HIDE DEF x
  <2> QED
    BY <1>2, <1>3, <1>4, GatherJoins
<1> HIDE DEF next
<1>10. next.out = messages' /\ next.current = current'
  BY <1>8 DEF Bunch
<1>11. Bunch(messages', current') \in UnitStates'
  BY <1>1, <1>7, <1>8, UnitStatesSame
<1>12. FlattenSeq(messages') \o current' = old \o lines
  BY <1>9, <1>10
<1> HIDE DEF old, L
<1>13. BlurredLines(old \o lines) = BlurredLines(old) \o BlurredLines(lines)
  BY <1>6, BlurredLinesIs DEF L
<1>14. BlurredLines(FlattenSeq(messages') \o current') = StrippedLines(Whole'.lines)
  BY <1>1, <1>2, <1>12, <1>13
<1> QED
  BY <1>1, <1>2, <1>11, <1>14 DEF LinesKept

LEMMA LinesFlushed ==
  ASSUME LinesKept, FlushLines
  PROVE  LinesKept'
<1> DEFINE none == << >>
           L == Seq(LineText)
           one == IF current = << >> THEN << >> ELSE <<current>>
           two == IF half = << >> THEN << >> ELSE <<<<Stripped(half)>>>>
           tail == IF half = << >> THEN << >> ELSE <<Stripped(half)>>
<1>1. /\ kind \in LineKinds /\ fed \in Seq(LineByte) /\ half \in LineText
      /\ Bunch(messages, current) \in UnitStates
      /\ BlurredLines(FlattenSeq(messages) \o current) = StrippedLines(Whole.lines)
      /\ Blurred(half) = Whole.rest
  BY DEF LinesKept, FlushLines
<1>2. kind' = kind /\ fed' = fed /\ flushed' /\ messages' = (messages \o one) \o two
  BY DEF FlushLines
<1>3. messages \in Seq(L) /\ current \in L
  <2>1. Bunch(messages, current) \in GroupState
    BY <1>1 DEF UnitStates
  <2>2. Bunch(messages, current).out = messages /\ Bunch(messages, current).current = current
    BY DEF Bunch
  <2> QED
    BY <2>1, <2>2, BunchState
<1>4. Stripped(half) \in LineText
  BY <1>1, StrippedIs
<1>5. FlattenSeq(messages) \in L /\ FlattenSeq(messages) \o current \in L
  <2>1. FlattenSeq(messages) \in L
    BY <1>3, FlattenIs DEF L
  <2> QED
    BY <1>3, <2>1, ConcatProperties DEF L
<1>6. messages \o one \in Seq(L) /\ FlattenSeq(messages \o one) = FlattenSeq(messages) \o current
  <2>1. CASE current = << >>
    <3>1. messages \o << >> = messages /\ FlattenSeq(messages) \o << >> = FlattenSeq(messages)
      BY <1>3, <1>5, ConcatEmptySeq DEF L
    <3> QED
      BY <1>3, <2>1, <3>1
  <2>2. CASE current # << >>
    <3>1. messages \o <<current>> = Append(messages, current) /\ Append(messages, current) \in Seq(L)
      BY <1>3, OneMore
    <3>2. FlattenSeq(Append(messages, current)) = FlattenSeq(messages) \o current
      BY <1>3, FlattenAppend DEF L
    <3> QED
      BY <2>2, <3>1, <3>2
  <2> QED
    BY <2>1, <2>2
<1> DEFINE ms == messages \o one
           all == FlattenSeq(messages) \o current
<1>7. FlattenSeq(ms \o two) = all \o tail /\ tail \in L
  <2> HIDE DEF ms, all
  <2>1. ms \in Seq(L) /\ FlattenSeq(ms) = all /\ all \in L
    BY <1>5, <1>6 DEF ms, all
  <2>2. CASE half = << >>
    <3>1. ms \o << >> = ms /\ all \o << >> = all
      BY <2>1, ConcatEmptySeq DEF L
    <3>2. << >> \in L
      BY DEF L
    <3> QED
      BY <2>1, <2>2, <3>1, <3>2
  <2>3. CASE half # << >>
    <3> DEFINE s == <<Stripped(half)>>
    <3>1. s \in L
      BY <1>4 DEF L
    <3> HIDE DEF s
    <3>2. ms \o <<s>> = Append(ms, s)
      BY <2>1, <3>1, OneMore
    <3>3. FlattenSeq(Append(ms, s)) = FlattenSeq(ms) \o s
      BY <2>1, <3>1, FlattenAppend DEF L
    <3>4. two = <<s>> /\ tail = s
      BY <2>3 DEF s
    <3> QED
      BY <2>1, <3>1, <3>2, <3>3, <3>4
  <2> QED
    BY <2>2, <2>3
<1>8. BlurredLines(tail) = IF Whole.rest = << >> THEN << >> ELSE <<Stripped(Whole.rest)>>
  <2>1. Whole.rest = << >> <=> half = << >>
    BY <1>1, BlurKeeps
  <2>2. Stripped(Whole.rest) = Blurred(Stripped(half))
    BY <1>1, StrippedBlurs
  <2>3. BlurredLines(<< >>) = << >>
    BY DEF BlurredLines
  <2>4. BlurredLines(<<Stripped(half)>>) = <<Blurred(Stripped(half))>>
    BY DEF BlurredLines
  <2> QED
    BY <2>1, <2>2, <2>3, <2>4
<1>9. Whole' = Whole
  BY <1>2 DEF Whole, Cut, Split, Blurred
<1> HIDE DEF two, tail, ms, all, one
<1>10. FlattenSeq(messages') = all \o tail
  BY <1>2, <1>7 DEF ms
<1>11. BlurredLines(all \o tail) = BlurredLines(all) \o BlurredLines(tail)
  <2>1. all \in L
    BY <1>5 DEF all
  <2> QED
    BY <1>7, <2>1, BlurredLinesIs DEF L
<1>12. BlurredLines(FlattenSeq(messages'))
         = StrippedLines(Whole'.lines)
             \o (IF Whole'.rest = << >> THEN << >> ELSE <<Stripped(Whole'.rest)>>)
  BY <1>1, <1>8, <1>9, <1>10, <1>11 DEF all
<1> QED
  BY <1>1, <1>2, <1>12 DEF LinesKept

LEMMA LinesBegin == ReadersInit => LinesKept
<1> SUFFICES ASSUME ReadersInit, kind # "json" PROVE LinesKept
  BY DEF LinesKept
<1> DEFINE none == << >>
           L == Seq(LineText)
<1>1. /\ kind \in LineKinds /\ ~flushed
      /\ fed = none /\ half = none /\ messages = none /\ current = none
  BY ReadersAssumption DEF ReadersInit, LineKinds
<1>2. /\ none \in LineText /\ none \in L /\ none \in Seq(L) /\ none \in Seq(LineByte)
      /\ Len(none) = 0 /\ none \o none = none
  <2>1. none \in LineText /\ none \o none = none
    BY TextIs
  <2>2. none \in L /\ none \in Seq(L) /\ none \in Seq(LineByte) /\ Len(none) = 0
    BY EmptySeq
  <2> QED
    BY <2>1, <2>2
<1>3. Bunch(none, none).out = none /\ Bunch(none, none).current = none
  BY DEF Bunch
<1>4. Blurred(none) = none /\ BlurredLines(none) = none /\ StrippedLines(none) = none
      /\ FlattenSeq(none) = none
  BY FlattenEmpty DEF Blurred, BlurredLines, StrippedLines
<1>5. UnitLines \in Nat \ {0}
  BY ReadersAssumption
<1>6. Cut(none, none) \in SplitState /\ Cut(none, none).lines = none /\ Cut(none, none).rest = none
  BY CutNone, CutIs
<1>7. Split(Cut(none, none), none) = Cut(none, none)
  BY <1>6, SplitIs
<1> HIDE DEF none, L
<1>8. Bunch(none, none) \in UnitStates
  <2>1. Bunch(none, none) \in GroupState
    BY <1>2, BunchType DEF L
  <2> QED
    BY <1>2, <1>3, <1>5, <2>1 DEF UnitStates, none
<1>9. Whole = Cut(none, none)
  BY <1>1, <1>4, <1>7 DEF Whole, none
<1>10. BlurredLines(FlattenSeq(messages) \o current) = StrippedLines(Whole.lines)
  BY <1>1, <1>2, <1>4, <1>6, <1>9
<1>11. Blurred(half) = Whole.rest
  BY <1>1, <1>4, <1>6, <1>9
<1> QED
  BY <1>1, <1>2, <1>8, <1>10, <1>11 DEF LinesKept

LEMMA LinesStep ==
  ASSUME LinesKept, ReadersNext
  PROVE  LinesKept'
<1> SUFFICES ASSUME kind' # "json" PROVE LinesKept'
  BY DEF LinesKept
<1>1. kind # "json"
  BY DEF ReadersNext, Feed, FlushLines, FlushJson
<1>2. ASSUME NEW bytes \in Chunk, Range(bytes) \subseteq LineByte, Feed(bytes) PROVE LinesKept'
  <2>1. bytes \in Seq(LineByte)
    BY <1>2, ChunkIs, ReadersAssumption
  <2> QED
    BY <1>1, <1>2, <2>1, LinesFed
<1>3. CASE FlushLines
  BY <1>3, LinesFlushed
<1>4. CASE FlushJson
  BY <1>1, <1>4 DEF FlushJson
<1> QED
  BY <1>1, <1>2, <1>3, <1>4 DEF ReadersNext

\* LinesKept is an inductive invariant.
THEOREM LinesAreKept == ReadersSpec => []LinesKept
<1>1. LinesKept /\ [ReadersNext]_readerVars => LinesKept'
  <2>1. CASE ReadersNext
    BY <2>1, LinesStep
  <2>2. CASE UNCHANGED readerVars
    BY <2>2 DEF readerVars, LinesKept, Whole, Cut, Split, Blurred, UnitStates
  <2> QED
    BY <2>1, <2>2
<1> QED
  BY <1>1, LinesBegin, PTL DEF ReadersSpec

\* SyslogReader, MultilineUnitReader and MultilineRegexReader: however the bytes are
\* cut, what has been returned, the unfinished message and the half line are the
\* lines of the whole text (read_syslog.py:15, read_multiline_unit.py:18,
\* read_multiline_regex.py:19).
THEOREM LinesAreThoseOfTheText == ReadersSpec => []LinesSurviveCuts
<1>1. LinesKept => LinesSurviveCuts
  <2> SUFFICES ASSUME LinesKept, kind # "json" PROVE LinesSurviveCuts
    BY DEF LinesSurviveCuts
  <2>1. fed \in LineText /\ Blurred(fed) \in LineText
    BY FedText, BlurredIs DEF LinesKept
  <2>2. SplitLines(Blurred(fed)) = Whole
    BY <2>1, SplitLinesIs DEF Whole
  <2>3. StrippedLines(Whole.lines) = [k \in 1 .. Len(Whole.lines) |-> Stripped(Whole.lines[k])]
    BY DEF StrippedLines
  <2> QED
    BY <2>2, <2>3 DEF LinesSurviveCuts, LinesKept
<1> QED
  BY <1>1, LinesAreKept, PTL

\* MultilineUnitReader returns UnitLines lines at a time (read_multiline_unit.py:33),
\* MultilineRegexReader a matching line and those that follow it and do not match
\* (read_multiline_regex.py:34), wherever the chunks are cut.
THEOREM MessagesAreTheUnits == ReadersSpec => []MessagesAreUnits
<1>1. LinesKept => MessagesAreUnits
  <2> SUFFICES ASSUME LinesKept, ~flushed, kind \in {"unit", "regex"}, NEW m \in Range(messages)
               PROVE  /\ kind = "unit" => Len(m) = UnitLines
                      /\ kind = "regex" => m # << >> /\ \A k \in 2 .. Len(m) : ~Matches(m[k])
                      /\ kind = "regex" /\ m # messages[1] => Matches(m[1])
    BY DEF MessagesAreUnits
  <2> DEFINE x == Bunch(messages, current)
  <2>1. x \in UnitStates
    BY DEF LinesKept
  <2>2. x.out = messages
    BY DEF Bunch
  <2> HIDE DEF x
  <2>3. messages \in Seq(Seq(LineText))
    BY <2>1, <2>2 DEF UnitStates, GroupState
  <2>4. PICK i \in 1 .. Len(messages) : m = messages[i]
    BY <2>3 DEF Range
  <2>5. CASE kind = "unit"
    BY <2>1, <2>2, <2>4, <2>5 DEF UnitStates
  <2>6. CASE kind = "regex"
    <3>1. RegexUnit(m)
      BY <2>1, <2>2, <2>4, <2>6 DEF UnitStates
    <3>2. m # messages[1] => i \in 2 .. Len(messages)
      BY <2>3, <2>4
    <3>3. m # messages[1] => Matches(m[1])
      BY <2>1, <2>2, <2>4, <2>6, <3>2 DEF UnitStates
    <3> QED
      BY <2>6, <3>1, <3>3 DEF RegexUnit
  <2> QED
    BY <2>5, <2>6
<1> QED
  BY <1>1, LinesAreKept, PTL

-----------------------------------------------------------------------------
(* Grouping a blurred text: the messages are those of the text in one piece *)

BlurredMessages(ms) == [k \in 1 .. Len(ms) |-> BlurredLines(ms[k])]
BlurredLinesF == [m \in Seq(LineText) |-> BlurredLines(m)]

\* A state of a reader, blurred.
Hazed(x) == Bunch(BlurredMessages(x.out), BlurredLines(x.current))

LEMMA BlurredMessagesIs ==
  ASSUME NEW s \in Seq(Seq(LineText))
  PROVE  /\ BlurredMessages(s) \in Seq(Seq(LineText)) /\ BlurredMessages(<< >>) = << >>
         /\ \A m \in Seq(LineText) :
              BlurredMessages(Append(s, m)) = Append(BlurredMessages(s), BlurredLines(m))
<1>1. \A t \in Seq(Seq(LineText)) : BlurredMessages(t) = Mapped(BlurredLinesF, t)
  <2> SUFFICES ASSUME NEW t \in Seq(Seq(LineText)) PROVE BlurredMessages(t) = Mapped(BlurredLinesF, t)
    OBVIOUS
  <2>1. \A k \in 1 .. Len(t) : BlurredLinesF[t[k]] = BlurredLines(t[k])
    BY DEF BlurredLinesF
  <2> QED
    BY <2>1 DEF BlurredMessages, Mapped
<1>2. \A m \in Seq(LineText) : BlurredLinesF[m] \in Seq(LineText) /\ BlurredLinesF[m] = BlurredLines(m)
  BY BlurredLinesIs DEF BlurredLinesF
<1>3. Mapped(BlurredLinesF, s) \in Seq(Seq(LineText))
  BY <1>2, MappedIs
<1>4. ASSUME NEW m \in Seq(LineText)
      PROVE  BlurredMessages(Append(s, m)) = Append(BlurredMessages(s), BlurredLines(m))
  <2>1. Mapped(BlurredLinesF, Append(s, m)) = Append(Mapped(BlurredLinesF, s), BlurredLinesF[m])
    BY MappedAppend
  <2>2. Append(s, m) \in Seq(Seq(LineText))
    OBVIOUS
  <2> QED
    BY <1>1, <1>2, <2>1, <2>2
<1>5. BlurredMessages(<< >>) = << >>
  BY DEF BlurredMessages
<1> QED
  BY <1>1, <1>3, <1>4, <1>5

\* A line matches the pattern as it does when it is blurred: the pattern does not
\* look at what a cut inside a character changes.
PatternIgnoresCuts ==
  kind = "regex" => \A l \in LineText : Matches(Blurred(l)) <=> Matches(l)

LEMMA HazedIs ==
  ASSUME NEW x \in GroupState
  PROVE  /\ Hazed(x) \in GroupState
         /\ Hazed(x).out = BlurredMessages(x.out) /\ Hazed(x).current = BlurredLines(x.current)
         /\ Len(BlurredLines(x.current)) = Len(x.current)
         /\ BlurredLines(x.current) = << >> <=> x.current = << >>
<1>1. x.out \in Seq(Seq(LineText)) /\ x.current \in Seq(LineText)
  BY BunchState
<1>2. BlurredMessages(x.out) \in Seq(Seq(LineText)) /\ BlurredLines(x.current) \in Seq(LineText)
  BY <1>1, BlurredMessagesIs, BlurredLinesIs
<1>3. Hazed(x) \in GroupState
  BY <1>2, BunchType DEF Hazed
<1>4. Hazed(x).out = BlurredMessages(x.out) /\ Hazed(x).current = BlurredLines(x.current)
  BY DEF Hazed, Bunch
<1>5. Len(BlurredLines(x.current)) = Len(x.current)
  BY <1>1 DEF BlurredLines
<1>6. BlurredLines(x.current) = << >> <=> x.current = << >>
  <2> DEFINE c == x.current
             b == BlurredLines(c)
  <2>1. c \in Seq(LineText) /\ b \in Seq(LineText) /\ Len(b) = Len(c)
    BY <1>1, <1>2, <1>5
  <2> HIDE DEF b, c
  <2>2. b = << >> <=> Len(b) = 0
    BY <2>1, EmptySeq
  <2>3. c = << >> <=> Len(c) = 0
    BY <2>1, EmptySeq
  <2> QED
    BY <2>1, <2>2, <2>3 DEF b, c
<1> QED
  BY <1>3, <1>4, <1>5, <1>6

\* A blurred line does to a blurred state what the line does to the state.
LEMMA GroupHazes ==
  ASSUME kind \in LineKinds, PatternIgnoresCuts, NEW x \in GroupState, NEW l \in LineText
  PROVE  Group(Hazed(x), Blurred(l)) = Hazed(Group(x, l))
<1> DEFINE o == x.out
           c == x.current
           h == Hazed(x)
           b == Blurred(l)
           a == Append(c, l)
           none == << >>
           y == Group(x, l)
           z == Group(h, b)
<1>1. /\ o \in Seq(Seq(LineText)) /\ c \in Seq(LineText) /\ b \in LineText
  BY BunchState, BlurredIs
<1>2. /\ h \in GroupState /\ h.out = BlurredMessages(o) /\ h.current = BlurredLines(c)
      /\ Len(h.current) = Len(c) /\ (h.current = none <=> c = none)
  BY HazedIs
<1>3. kind = "regex" => (Matches(b) <=> Matches(l))
  BY DEF PatternIgnoresCuts
<1>4. a \in Seq(LineText) /\ <<l>> \in Seq(LineText) /\ none \in Seq(LineText)
  BY <1>1
<1>5. BlurredLines(a) = Append(h.current, b) /\ BlurredLines(none) = none /\ BlurredLines(<<l>>) = <<b>>
  <2>1. BlurredLines(a) = Append(BlurredLines(c), b) /\ BlurredLines(none) = none
    BY <1>1, BlurredLinesIs
  <2>2. BlurredLines(<<l>>) = <<b>>
    BY DEF BlurredLines
  <2> QED
    BY <1>2, <2>1, <2>2
<1>6. \A m \in Seq(LineText) : BlurredMessages(Append(o, m)) = Append(h.out, BlurredLines(m))
  BY <1>1, <1>2, BlurredMessagesIs
<1>7. \A out, open : Hazed(Bunch(out, open)) = Bunch(BlurredMessages(out), BlurredLines(open))
  BY DEF Hazed, Bunch
<1> DEFINE one == <<l>>
           bone == <<b>>
           ha == Append(h.current, b)
<1>8. \/ kind = "syslog" /\ y = Bunch(Append(o, one), none)
      \/ kind = "unit" /\ Len(c) + 1 >= UnitLines /\ y = Bunch(Append(o, a), none)
      \/ kind = "unit" /\ ~(Len(c) + 1 >= UnitLines) /\ y = Bunch(o, a)
      \/ kind = "regex" /\ (Matches(l) /\ c # none) /\ y = Bunch(Append(o, c), one)
      \/ kind = "regex" /\ ~(Matches(l) /\ c # none) /\ y = Bunch(o, a)
  BY GroupIs
<1>9. \/ kind = "syslog" /\ z = Bunch(Append(h.out, bone), none)
      \/ kind = "unit" /\ Len(h.current) + 1 >= UnitLines /\ z = Bunch(Append(h.out, ha), none)
      \/ kind = "unit" /\ ~(Len(h.current) + 1 >= UnitLines) /\ z = Bunch(h.out, ha)
      \/ kind = "regex" /\ (Matches(b) /\ h.current # none) /\ z = Bunch(Append(h.out, h.current), bone)
      \/ kind = "regex" /\ ~(Matches(b) /\ h.current # none) /\ z = Bunch(h.out, ha)
  <2> HIDE DEF h, b
  <2> QED
    BY <1>1, <1>2, GroupIs
<1>10. /\ BlurredLines(a) = ha /\ BlurredLines(none) = none /\ BlurredLines(one) = bone
       /\ BlurredLines(c) = h.current /\ BlurredMessages(o) = h.out
       /\ a \in Seq(LineText) /\ one \in Seq(LineText) /\ c \in Seq(LineText)
  BY <1>1, <1>2, <1>4, <1>5
<1>11. Len(h.current) = Len(c) /\ (h.current = none <=> c = none)
  BY <1>2
<1> HIDE DEF o, c, h, b, a, none, y, z, one, bone, ha
<1>12. CASE kind = "syslog"
  <2>1. y = Bunch(Append(o, one), none) /\ z = Bunch(Append(h.out, bone), none)
    BY <1>8, <1>9, <1>12
  <2>2. Hazed(y) = Bunch(BlurredMessages(Append(o, one)), none)
    BY <1>7, <1>10, <2>1
  <2>3. BlurredMessages(Append(o, one)) = Append(h.out, bone)
    BY <1>6, <1>10
  <2> QED
    BY <2>1, <2>2, <2>3 DEF y, z, h, b
<1>13. CASE kind = "unit" /\ Len(c) + 1 >= UnitLines
  <2>1. y = Bunch(Append(o, a), none) /\ z = Bunch(Append(h.out, ha), none)
    BY <1>8, <1>9, <1>11, <1>13
  <2>2. Hazed(y) = Bunch(BlurredMessages(Append(o, a)), none)
    BY <1>7, <1>10, <2>1
  <2>3. BlurredMessages(Append(o, a)) = Append(h.out, ha)
    BY <1>6, <1>10
  <2> QED
    BY <2>1, <2>2, <2>3 DEF y, z, h, b
<1>14. CASE kind = "unit" /\ ~(Len(c) + 1 >= UnitLines)
  <2>1. y = Bunch(o, a) /\ z = Bunch(h.out, ha)
    BY <1>8, <1>9, <1>11, <1>14
  <2>2. Hazed(y) = Bunch(h.out, ha)
    BY <1>7, <1>10, <2>1
  <2> QED
    BY <2>1, <2>2 DEF y, z, h, b
<1>15. CASE kind = "regex" /\ (Matches(l) /\ c # none)
  <2>1. y = Bunch(Append(o, c), one) /\ z = Bunch(Append(h.out, h.current), bone)
    BY <1>3, <1>8, <1>9, <1>11, <1>15
  <2>2. Hazed(y) = Bunch(BlurredMessages(Append(o, c)), bone)
    BY <1>7, <1>10, <2>1
  <2>3. BlurredMessages(Append(o, c)) = Append(h.out, h.current)
    BY <1>6, <1>10
  <2> QED
    BY <2>1, <2>2, <2>3 DEF y, z, h, b
<1>16. CASE kind = "regex" /\ ~(Matches(l) /\ c # none)
  <2>1. y = Bunch(o, a) /\ z = Bunch(h.out, ha)
    BY <1>3, <1>8, <1>9, <1>11, <1>16
  <2>2. Hazed(y) = Bunch(h.out, ha)
    BY <1>7, <1>10, <2>1
  <2> QED
    BY <2>1, <2>2 DEF y, z, h, b
<1> QED
  BY <1>12, <1>13, <1>14, <1>15, <1>16 DEF LineKinds

LEMMA GatherHazes ==
  ASSUME kind \in LineKinds, PatternIgnoresCuts, NEW x \in GroupState
  PROVE  \A t \in Seq(LineText) : Gather(Hazed(x), BlurredLines(t)) = Hazed(Gather(x, t))
<1> DEFINE none == << >>
           L == Seq(LineText)
           h == Hazed(x)
           S == {t \in L : Gather(h, BlurredLines(t)) = Hazed(Gather(x, t))}
<1>1. h \in GroupState
  BY HazedIs
<1>2. none \in L /\ BlurredLines(none) = none
  BY DEF BlurredLines
<1>3. none \in S
  <2>1. Gather(x, << >>) = x
    BY GatherIs
  <2> HIDE DEF h
  <2>2. Gather(h, << >>) = h
    BY <1>1, GatherIs
  <2> QED
    BY <1>2, <2>1, <2>2 DEF h
<1>4. ASSUME NEW t \in L, NEW l \in LineText, t \in S PROVE Append(t, l) \in S
  <2>1. /\ BlurredLines(t) \in L /\ Blurred(l) \in LineText
        /\ BlurredLines(Append(t, l)) = Append(BlurredLines(t), Blurred(l))
    BY BlurredLinesIs, BlurredIs
  <2>2. Gather(x, Append(t, l)) = Group(Gather(x, t), l) /\ Gather(x, t) \in GroupState
    BY GatherIs
  <2>3. Gather(h, BlurredLines(t)) = Hazed(Gather(x, t))
    BY <1>4
  <2> HIDE DEF h
  <2>4. Gather(h, Append(BlurredLines(t), Blurred(l))) = Group(Gather(h, BlurredLines(t)), Blurred(l))
    BY <1>1, <2>1, GatherIs
  <2>5. Group(Hazed(Gather(x, t)), Blurred(l)) = Hazed(Group(Gather(x, t), l))
    BY <2>2, GroupHazes
  <2>6. Append(t, l) \in L
    OBVIOUS
  <2> QED
    BY <2>1, <2>2, <2>3, <2>4, <2>5, <2>6
<1>5. \A t \in L : t \in S
  <2>1. << >> \in S
    BY <1>3
  <2> HIDE DEF S
  <2> QED
    BY <1>4, <2>1, AllSequences DEF L
<1> QED
  BY <1>5

\* The readers after the text in one piece, and what it has returned and holds.
InOnePiece == Gather(Bunch(<< >>, << >>), StrippedLines(Whole.lines))

\* What flush() adds to the messages.
Remainder(open, rest) ==
  (IF open = << >> THEN << >> ELSE <<open>>) \o (IF rest = << >> THEN << >> ELSE <<<<Stripped(rest)>>>>)

\* The messages of the line readers, flushed or not, are those of the text in one
\* piece: SplitLines over the whole text and one run of the reader's loop over its lines.
\* For MultilineRegexReader this takes a pattern that ignores cuts.
CutsDoNotMatter ==
  kind # "json" /\ PatternIgnoresCuts =>
    LET whole == SplitLines(Blurred(fed))
        one == FoldLeft(Group, [out |-> << >>, current |-> << >>],
                        [k \in 1 .. Len(whole.lines) |-> Stripped(whole.lines[k])])
    IN IF flushed
       THEN BlurredMessages(messages) = one.out \o Remainder(one.current, whole.rest)
       ELSE BlurredMessages(messages) = one.out /\ BlurredLines(current) = one.current

CutsHidden ==
  kind # "json" /\ PatternIgnoresCuts =>
    /\ ~flushed => Hazed(Bunch(messages, current)) = InOnePiece
    /\ flushed => BlurredMessages(messages)
                    = InOnePiece.out \o Remainder(InOnePiece.current, Whole.rest)

LEMMA OnePieceSame ==
  ASSUME kind' = kind, fed' = fed
  PROVE  Whole' = Whole /\ InOnePiece' = InOnePiece
<1>1. Whole' = Whole
  BY DEF Whole, Cut, Split, Blurred
<1>2. GroupF' = GroupF
  BY DEF GroupF, Group, GroupSyslog, GroupUnit, GroupRegex, Matches
<1> QED
  BY <1>1, <1>2 DEF InOnePiece, Gather, Bunch, StrippedLines, Stripped

LEMMA PatternSame == kind' = kind => (PatternIgnoresCuts' <=> PatternIgnoresCuts)
  BY DEF PatternIgnoresCuts, Matches, Blurred

LEMMA CutsFed ==
  ASSUME LinesKept, CutsHidden, PatternIgnoresCuts, kind # "json", NEW bytes \in Seq(LineByte), Feed(bytes)
  PROVE  CutsHidden'
<1> DEFINE x == Bunch(messages, current)
           first == Bunch(<< >>, << >>)
           old == StrippedLines(Whole.lines)
<1>1. PICK lines \in Seq(LineText) :
        /\ Gather(x, lines) = Bunch(messages', current')
        /\ StrippedLines(Whole'.lines) = old \o BlurredLines(lines)
        /\ half' \in LineText /\ Blurred(half') = Whole'.rest
        /\ kind' = kind /\ fed' \in Seq(LineByte) /\ ~flushed /\ ~flushed'
  BY FeedGathers
<1>2. kind \in LineKinds /\ x \in GroupState /\ fed \in Seq(LineByte) /\ Hazed(x) = InOnePiece
  BY <1>1 DEF LinesKept, CutsHidden, UnitStates
<1>3. InOnePiece = Gather(first, old)
  BY DEF InOnePiece
<1>4. InOnePiece' = Gather(first, StrippedLines(Whole'.lines))
  <2>1. GroupF' = GroupF
    BY <1>1 DEF GroupF, Group, GroupSyslog, GroupUnit, GroupRegex, Matches
  <2> QED
    BY <2>1 DEF InOnePiece, Gather, Bunch, StrippedLines, Stripped
<1>5. old \in Seq(LineText) /\ BlurredLines(lines) \in Seq(LineText)
  <2>1. Whole \in SplitState
    <3>1. Blurred(fed) \in LineText
      BY <1>2, FedText, BlurredIs
    <3> QED
      BY <3>1, CutNone, SplitIs DEF Whole
  <2>2. Whole.lines \in Seq(LineText)
    BY <2>1, CutState
  <2> QED
    BY <2>2, StrippedLinesIs, BlurredLinesIs
<1>6. Gather(first, old \o BlurredLines(lines)) = Gather(Gather(first, old), BlurredLines(lines))
  BY <1>5, FinalConcat DEF Gather
<1>7. Gather(Hazed(x), BlurredLines(lines)) = Hazed(Gather(x, lines))
  BY <1>2, GatherHazes
<1>8. Hazed(Bunch(messages, current))' = Hazed(Bunch(messages', current'))
  BY DEF Hazed, Bunch, BlurredMessages, BlurredLines, Blurred
<1> HIDE DEF x, first, old
<1>9. InOnePiece' = Hazed(Bunch(messages', current'))
  BY <1>1, <1>2, <1>3, <1>4, <1>6, <1>7
<1> QED
  BY <1>1, <1>8, <1>9 DEF CutsHidden

LEMMA CutsFlushed ==
  ASSUME LinesKept, CutsHidden, PatternIgnoresCuts, FlushLines
  PROVE  CutsHidden'
<1> DEFINE none == << >>
           L == Seq(LineText)
           one == IF current = none THEN none ELSE <<current>>
           two == IF half = none THEN none ELSE <<<<Stripped(half)>>>>
           x == Bunch(messages, current)
<1>1. /\ kind # "json" /\ kind' = kind /\ fed' = fed /\ ~flushed /\ flushed'
      /\ messages' = (messages \o one) \o two
  BY DEF FlushLines
<1>2. x \in GroupState /\ half \in LineText /\ Blurred(half) = Whole.rest /\ Hazed(x) = InOnePiece
  BY <1>1 DEF LinesKept, CutsHidden, UnitStates
<1>3. x.out = messages /\ x.current = current
  BY DEF Bunch
<1> HIDE DEF x
<1>4. messages \in Seq(L) /\ current \in L
  BY <1>2, <1>3, BunchState
<1>5. /\ InOnePiece.out = BlurredMessages(messages) /\ InOnePiece.current = BlurredLines(current)
      /\ (InOnePiece.current = none <=> current = none)
  BY <1>2, <1>3, HazedIs
<1>6. \A s \in Seq(L), m \in L :
        /\ s \o <<m>> \in Seq(L) /\ BlurredMessages(s) \in Seq(L)
        /\ BlurredMessages(s \o <<m>>) = BlurredMessages(s) \o <<BlurredLines(m)>>
  <2> SUFFICES ASSUME NEW s \in Seq(L), NEW m \in L
               PROVE  /\ s \o <<m>> \in Seq(L) /\ BlurredMessages(s) \in Seq(L)
                      /\ BlurredMessages(s \o <<m>>) = BlurredMessages(s) \o <<BlurredLines(m)>>
    OBVIOUS
  <2>1. BlurredMessages(s) \in Seq(L) /\ BlurredMessages(Append(s, m)) = Append(BlurredMessages(s), BlurredLines(m))
    BY BlurredMessagesIs
  <2>2. BlurredLines(m) \in L
    BY BlurredLinesIs
  <2> HIDE DEF L
  <2>3. Append(s, m) = s \o <<m>> /\ Append(s, m) \in Seq(L)
    BY AppendIsConcat
  <2>4. Append(BlurredMessages(s), BlurredLines(m)) = BlurredMessages(s) \o <<BlurredLines(m)>>
    BY <2>1, <2>2, AppendIsConcat
  <2> QED
    BY <2>1, <2>3, <2>4
<1>7. \A s \in Seq(L) : s \o none = s
  BY ConcatEmptySeq
<1> DEFINE ms == messages \o one
           bone == IF InOnePiece.current = none THEN none ELSE <<InOnePiece.current>>
           btwo == IF Whole.rest = none THEN none ELSE <<<<Stripped(Whole.rest)>>>>
<1>8. ms \in Seq(L) /\ BlurredMessages(ms) = BlurredMessages(messages) \o bone
  <2> HIDE DEF L
  <2>1. CASE current = none
    <3>1. one = none /\ bone = none
      BY <1>5, <2>1
    <3> HIDE DEF none, one, bone
    <3>2. ms = messages /\ BlurredMessages(messages) \o none = BlurredMessages(messages)
      BY <1>4, <1>6, <1>7, <3>1
    <3> QED
      BY <1>4, <3>1, <3>2
  <2>2. CASE current # none
    <3>1. one = <<current>> /\ bone = <<BlurredLines(current)>>
      BY <1>5, <2>2
    <3> HIDE DEF none, one, bone
    <3> QED
      BY <1>4, <1>6, <3>1
  <2> QED
    BY <2>1, <2>2
<1>9. Whole.rest = none <=> half = none
  BY <1>2, BlurKeeps
<1>10. Stripped(Whole.rest) = Blurred(Stripped(half)) /\ Stripped(half) \in LineText
  BY <1>2, StrippedBlurs, StrippedIs
<1> HIDE DEF ms
<1>11. BlurredMessages(ms \o two) = BlurredMessages(ms) \o btwo
  <2>1. CASE half = none
    <3>1. two = none /\ btwo = none
      BY <1>9, <2>1
    <3>2. BlurredMessages(ms) \in Seq(L)
      BY <1>8, BlurredMessagesIs
    <3> HIDE DEF none, two, btwo, L
    <3> QED
      BY <1>7, <1>8, <3>1, <3>2
  <2>2. CASE half # none
    <3> DEFINE s == <<Stripped(half)>>
               b == <<Stripped(Whole.rest)>>
    <3>1. two = <<s>> /\ btwo = <<b>>
      BY <1>9, <2>2
    <3>2. s \in L
      BY <1>10
    <3>3. BlurredLines(s) = b
      BY <1>10 DEF BlurredLines
    <3> HIDE DEF two, btwo, L, s, b
    <3> QED
      BY <1>6, <1>8, <3>1, <3>2, <3>3
  <2> QED
    BY <2>1, <2>2
<1>12. (BlurredMessages(messages) \o bone) \o btwo = BlurredMessages(messages) \o (bone \o btwo)
  <2>1. bone \in Seq(L)
    <3>1. InOnePiece.current \in L
      BY <1>4, <1>5, BlurredLinesIs
    <3>2. none \in Seq(L) /\ <<InOnePiece.current>> \in Seq(L)
      BY <3>1
    <3> QED
      BY <3>2
  <2>2. btwo \in Seq(L)
    <3>1. Stripped(Whole.rest) \in LineText
      BY <1>10, BlurredIs
    <3>2. <<Stripped(Whole.rest)>> \in L
      BY <3>1
    <3>3. none \in Seq(L) /\ <<<<Stripped(Whole.rest)>>>> \in Seq(L)
      BY <3>2
    <3> QED
      BY <3>3
  <2>3. BlurredMessages(messages) \in Seq(L)
    BY <1>4, <1>6
  <2> HIDE DEF bone, btwo, L
  <2> QED
    BY <2>1, <2>2, <2>3, ConcatAssociative
<1>13. Remainder(InOnePiece.current, Whole.rest) = bone \o btwo
  BY DEF Remainder
<1>14. Whole' = Whole /\ InOnePiece' = InOnePiece
  BY <1>1, OnePieceSame
<1>15. Remainder(InOnePiece.current, Whole.rest)' = Remainder(InOnePiece.current, Whole.rest)
  BY <1>14 DEF Remainder, Stripped
<1>16. BlurredMessages(messages)' = BlurredMessages(messages')
  BY DEF BlurredMessages, BlurredLines, Blurred
<1>17. messages' = ms \o two
  BY <1>1 DEF ms
<1> HIDE DEF bone, btwo, two
<1>18. BlurredMessages(messages') = InOnePiece.out \o Remainder(InOnePiece.current, Whole.rest)
  BY <1>5, <1>8, <1>11, <1>12, <1>13, <1>17
<1>19. BlurredMessages(messages)' = InOnePiece'.out \o Remainder(InOnePiece.current, Whole.rest)'
  BY <1>14, <1>15, <1>16, <1>18
<1> QED
  BY <1>1, <1>19 DEF CutsHidden

LEMMA CutsBegin == ReadersInit => CutsHidden
<1> SUFFICES ASSUME ReadersInit, kind # "json" PROVE CutsHidden
  BY DEF CutsHidden
<1> DEFINE none == << >>
           x == Bunch(none, none)
<1>1. /\ ~flushed /\ fed = none /\ messages = none /\ current = none /\ kind \in LineKinds
  BY ReadersAssumption DEF ReadersInit, LineKinds
<1>2. Blurred(none) = none /\ StrippedLines(none) = none /\ BlurredMessages(none) = none
      /\ BlurredLines(none) = none
  <2>1. none \in LineText /\ none \in Seq(LineText) /\ none \in Seq(Seq(LineText))
    BY TextIs, EmptySeq
  <2>2. StrippedLines(none) = none
    BY DEF StrippedLines
  <2> QED
    BY <2>1, <2>2, BlurredIs, BlurredLinesIs, BlurredMessagesIs
<1>3. Cut(none, none) \in SplitState /\ Cut(none, none).lines = none
  BY CutNone, CutIs
<1>4. Split(Cut(none, none), none) = Cut(none, none)
  BY <1>3, SplitIs
<1>5. x.out = none /\ x.current = none
  BY DEF Bunch
<1>6. Gather(x, none) = x
  BY FinalEmpty DEF Gather
<1>7. Whole = Cut(none, none)
  BY <1>1, <1>2, <1>4 DEF Whole
<1>8. InOnePiece = x
  BY <1>2, <1>3, <1>6, <1>7 DEF InOnePiece
<1>9. Hazed(x) = x
  BY <1>2, <1>5 DEF Hazed
<1> QED
  BY <1>1, <1>8, <1>9 DEF CutsHidden

LEMMA CutsStep ==
  ASSUME LinesKept, CutsHidden, ReadersNext
  PROVE  CutsHidden'
<1> SUFFICES ASSUME kind' # "json", PatternIgnoresCuts' PROVE CutsHidden'
  BY DEF CutsHidden
<1>1. kind # "json" /\ PatternIgnoresCuts
  <2>1. kind' = kind
    BY DEF ReadersNext, Feed, FlushLines, FlushJson
  <2> QED
    BY <2>1, PatternSame
<1>2. ASSUME NEW bytes \in Chunk, Range(bytes) \subseteq LineByte, Feed(bytes) PROVE CutsHidden'
  <2>1. bytes \in Seq(LineByte)
    BY <1>2, ChunkIs, ReadersAssumption
  <2> QED
    BY <1>1, <1>2, <2>1, CutsFed
<1>3. CASE FlushLines
  BY <1>1, <1>3, CutsFlushed
<1>4. CASE FlushJson
  BY <1>1, <1>4 DEF FlushJson
<1> QED
  BY <1>1, <1>2, <1>3, <1>4 DEF ReadersNext

\* SyslogReader and MultilineUnitReader: the messages, as messages, are those that
\* the text gives in one piece, wherever the chunks are cut and whenever the reader
\* is flushed (base_reader.py:22, read_multiline_unit.py:33).  So are those of
\* MultilineRegexReader (read_multiline_regex.py:34), whatever lines its pattern
\* matches, as long as none of them matches or not by a character that a cut has
\* made into two replacements: that character decides where a message begins.
THEOREM MessagesDoNotDependOnCuts == ReadersSpec => []CutsDoNotMatter
<1> DEFINE whole == SplitLines(Blurred(fed))
           one == FoldLeft(Group, [out |-> << >>, current |-> << >>],
                           [k \in 1 .. Len(whole.lines) |-> Stripped(whole.lines[k])])
<1>1. LinesKept /\ CutsHidden /\ [ReadersNext]_readerVars => CutsHidden'
  <2> SUFFICES ASSUME LinesKept, CutsHidden, [ReadersNext]_readerVars PROVE CutsHidden'
    OBVIOUS
  <2>1. CASE ReadersNext
    BY <2>1, CutsStep
  <2>2. CASE UNCHANGED readerVars
    <3>1. /\ kind' = kind /\ fed' = fed /\ messages' = messages /\ current' = current
          /\ flushed' = flushed
      BY <2>2 DEF readerVars
    <3>2. Whole' = Whole /\ InOnePiece' = InOnePiece
      BY <3>1, OnePieceSame
    <3>3. PatternIgnoresCuts' <=> PatternIgnoresCuts
      BY <3>1, PatternSame
    <3>4. /\ Hazed(Bunch(messages, current))' = Hazed(Bunch(messages, current))
          /\ BlurredMessages(messages)' = BlurredMessages(messages)
          /\ Remainder(InOnePiece.current, Whole.rest)' = Remainder(InOnePiece.current, Whole.rest)
      BY <3>1, <3>2 DEF Hazed, Bunch, BlurredMessages, BlurredLines, Blurred, Remainder, Stripped
    <3> QED
      BY <3>1, <3>2, <3>3, <3>4 DEF CutsHidden
  <2> QED
    BY <2>1, <2>2
<1>2. LinesKept /\ CutsHidden => CutsDoNotMatter
  <2> SUFFICES ASSUME LinesKept, CutsHidden, kind # "json", PatternIgnoresCuts
               PROVE  IF flushed
                      THEN BlurredMessages(messages) = one.out \o Remainder(one.current, whole.rest)
                      ELSE BlurredMessages(messages) = one.out /\ BlurredLines(current) = one.current
    BY DEF CutsDoNotMatter
  <2>1. kind \in LineKinds /\ fed \in LineText /\ Blurred(fed) \in LineText
    BY FedText, BlurredIs DEF LinesKept
  <2>2. whole = Whole
    BY <2>1, SplitLinesIs DEF Whole
  <2>3. Whole.lines \in Seq(LineText)
    <3>1. Whole \in SplitState
      BY <2>1, CutNone, SplitIs DEF Whole
    <3> QED
      BY <3>1, CutState
  <2> DEFINE lines == StrippedLines(Whole.lines)
             first == Bunch(<< >>, << >>)
  <2>4. lines \in Seq(LineText)
    BY <2>3, StrippedLinesIs
  <2>5. first \in GroupState
    <3> DEFINE none == << >>
    <3>1. none \in Seq(LineText) /\ none \in Seq(Seq(LineText))
      BY EmptySeq
    <3> HIDE DEF none
    <3>2. Bunch(none, none) \in GroupState
      BY <3>1, BunchType
    <3> QED
      BY <3>2 DEF none
  <2>6. one = FoldLeft(Group, first, lines)
    BY <2>2 DEF Bunch, StrippedLines
  <2>7. InOnePiece = Gather(first, lines)
    BY DEF InOnePiece
  <2> HIDE DEF lines, first, one, whole
  <2>8. one = InOnePiece
    BY <2>1, <2>4, <2>5, <2>6, <2>7, GroupFold DEF Gather
  <2>9. ~flushed => BlurredMessages(messages) = one.out /\ BlurredLines(current) = one.current
    <3> SUFFICES ASSUME ~flushed PROVE BlurredMessages(messages) = one.out /\ BlurredLines(current) = one.current
      OBVIOUS
    <3>1. Hazed(Bunch(messages, current)) = one
      BY <2>8 DEF CutsHidden
    <3>2. /\ Hazed(Bunch(messages, current)).out = BlurredMessages(messages)
          /\ Hazed(Bunch(messages, current)).current = BlurredLines(current)
      BY DEF Hazed, Bunch
    <3> QED
      BY <3>1, <3>2
  <2>10. flushed => BlurredMessages(messages) = one.out \o Remainder(one.current, whole.rest)
    BY <2>2, <2>8 DEF CutsHidden
  <2> QED
    BY <2>9, <2>10
<1> QED
  BY <1>1, <1>2, CutsBegin, LinesAreKept, PTL DEF ReadersSpec

-----------------------------------------------------------------------------
(* The journald thread *)

\* Everything after base, up to c, has been put in the queue.
Filled(c) == \A e \in 1 .. MaxEntry : base < e /\ e <= c => e \in inserted

\* All that can become the cursor is filled: the notes, and what the disk brings
\* back.
CursorsFilled ==
  /\ Filled(cursor) /\ Filled(disk.cursor)
  /\ \A s \in {notes, disk.notes} : \A i \in 1 .. Len(s) : Filled(s[i])

\* A turn reads on from a filled place, or behind everything that was put without
\* a cursor; what it is about to note fills one place more.
TurnFromFilled ==
  /\ turn = "opened" /\ ~blind => Filled(place)
  /\ turn = "reading" => IF blind THEN base <= place ELSE Filled(place)
  /\ turn = "noting" => /\ place + 1 \in inserted /\ Filled(place + 1)
                        /\ Len(notes) < MaxNotes

JournaldInv == JournaldTypeOK /\ CursorsFilled /\ TurnFromFilled

-----------------------------------------------------------------------------
\* Taking the first n notes leaves notes, and dropping none or adding one keeps
\* them notes of entries that were put.
LEMMA TailOfNotes ==
  ASSUME NEW S, NEW s \in Seq(S), NEW n \in 1 .. Len(s)
  PROVE  /\ SubSeq(s, n + 1, Len(s)) \in Seq(S)
         /\ Len(SubSeq(s, n + 1, Len(s))) = Len(s) - n
         /\ \A i \in 1 .. Len(s) - n : SubSeq(s, n + 1, Len(s))[i] = s[n + i]
  OBVIOUS

\* Notes of entries that were put stay so when more entries are put.
LEMMA MoreInserted ==
  ASSUME NEW S, NEW T, S \subseteq T, NEW s \in Seq(S)
  PROVE  s \in Seq(T)
  OBVIOUS

\* What is filled stays so when more entries are put and base does not go back.
LEMMA FilledStays ==
  ASSUME base \in Nat, base' \in Nat, base <= base', inserted \subseteq inserted',
         NEW c \in Nat, Filled(c)
  PROVE  Filled(c)'
  BY DEF Filled

\* The parts of the invariant in the form that the proofs below use.
LEMMA Ranges ==
  ASSUME JournaldTypeOK
  PROVE  /\ journal \in Nat /\ journal <= MaxEntry /\ inserted \subseteq 1 .. journal
         /\ cursor \in Nat /\ disk.cursor \in Nat /\ base \in Nat /\ base <= journal
         /\ cursor \in inserted \cup {0} /\ disk.cursor \in inserted \cup {0}
         /\ base \in inserted \cup {0} /\ place \in Nat /\ place <= journal
         /\ notes \in Seq(inserted) /\ disk.notes \in Seq(inserted)
         /\ Len(notes) <= MaxNotes /\ Len(disk.notes) <= MaxNotes
         /\ \A i \in 1 .. Len(notes) : notes[i] \in inserted
         /\ \A i \in 1 .. Len(disk.notes) : disk.notes[i] \in inserted
<1>1. journal \in Nat /\ journal <= MaxEntry /\ inserted \subseteq 1 .. journal
  BY JournaldAssumption DEF JournaldTypeOK, Entry0
<1>2. /\ cursor \in inserted \cup {0} /\ disk.cursor \in inserted \cup {0}
      /\ base \in inserted \cup {0}
  BY DEF JournaldTypeOK
<1>3. ASSUME NEW c \in inserted \cup {0} PROVE c \in Nat /\ c <= journal
  BY <1>1
<1>4. place \in Nat /\ place <= journal
  BY <1>1 DEF JournaldTypeOK
<1>5. /\ notes \in Seq(inserted) /\ disk.notes \in Seq(inserted)
      /\ Len(notes) <= MaxNotes /\ Len(disk.notes) <= MaxNotes
  BY DEF JournaldTypeOK
<1>6. /\ \A i \in 1 .. Len(notes) : notes[i] \in inserted
      /\ \A i \in 1 .. Len(disk.notes) : disk.notes[i] \in inserted
  BY <1>5
<1>7. /\ cursor \in Nat /\ disk.cursor \in Nat /\ base \in Nat /\ base <= journal
  BY <1>2, <1>3
<1>8. QED  BY <1>1, <1>2, <1>4, <1>5, <1>6, <1>7

-----------------------------------------------------------------------------
\* The invariant holds at the start, when nothing has been put.
LEMMA JournaldInitInv == JournaldInit => JournaldInv
<1>1. SUFFICES ASSUME JournaldInit PROVE JournaldInv
  OBVIOUS
<1>2. JournaldTypeOK
  <2>1. disk.cursor = 0 /\ disk.notes = << >>
    BY <1>1 DEF JournaldInit
  <2>2. notes \in Seq(inserted) /\ disk.notes \in Seq(inserted)
        /\ Len(notes) <= MaxNotes /\ Len(disk.notes) <= MaxNotes
    BY <1>1, <2>1, JournaldAssumption DEF JournaldInit
  <2>3. {cursor, disk.cursor, base} \subseteq inserted \cup {0}
    BY <1>1, <2>1 DEF JournaldInit
  <2>4. journal \in Entry0 /\ restarts \in 0 .. MaxRestart /\ inserted \subseteq 1 .. journal
        /\ place \in 0 .. journal
    BY <1>1, JournaldAssumption DEF JournaldInit, Entry0
  <2>5. QED
    BY <1>1, <2>2, <2>3, <2>4 DEF JournaldInit, JournaldTypeOK
<1>3. CursorsFilled
  BY <1>1, JournaldAssumption DEF JournaldInit, CursorsFilled, Filled
<1>4. TurnFromFilled
  BY <1>1 DEF JournaldInit, TurnFromFilled
<1>5. QED  BY <1>2, <1>3, <1>4 DEF JournaldInv

\* An entry more in the journal.
LEMMA AppendEntryInv == JournaldInv /\ AppendEntry => JournaldInv'
<1>1. SUFFICES ASSUME JournaldInv, AppendEntry PROVE JournaldInv'
  OBVIOUS
<1>2. JournaldTypeOK'
  BY <1>1, Ranges, JournaldAssumption DEF JournaldInv, AppendEntry, JournaldTypeOK, Entry0
<1>3. CursorsFilled' /\ TurnFromFilled'
  BY <1>1 DEF JournaldInv, AppendEntry, CursorsFilled, TurnFromFilled, Filled
<1>4. QED  BY <1>2, <1>3 DEF JournaldInv

\* A turn takes the cursor, and then goes to it or to the end of the journal.
LEMMA TurnInv == JournaldInv /\ (Turn \/ Seek) => JournaldInv'
<1>1. SUFFICES ASSUME JournaldInv, Turn \/ Seek PROVE JournaldInv'
  OBVIOUS
<1>2. UNCHANGED <<journal, cursor, notes, disk, inserted, base, restarts>>
  BY <1>1 DEF Turn, Seek
<1>3. \/ turn' = "opened" /\ place' = cursor /\ blind' = (cursor = 0)
      \/ turn = "opened" /\ turn' = "reading" /\ blind' = blind
           /\ place' = IF blind THEN journal ELSE place
  BY <1>1 DEF Turn, Seek, AfterCursor
<1>4. JournaldTypeOK'
  <2>1. place' \in 0 .. journal /\ blind' \in BOOLEAN /\ turn' \in {"opened", "reading"}
    <3>1. CASE Turn
      BY <1>1, <3>1, Ranges DEF JournaldInv, Turn
    <3>2. CASE Seek
      BY <1>1, <3>2, Ranges DEF JournaldInv, Seek, AfterCursor, JournaldTypeOK
    <3>3. QED  BY <1>1, <3>1, <3>2
  <2>2. QED  BY <1>1, <1>2, <2>1 DEF JournaldInv, JournaldTypeOK
<1>5. CursorsFilled'
  BY <1>1, <1>2 DEF JournaldInv, CursorsFilled, Filled
<1>6. TurnFromFilled'
  BY <1>1, <1>2, <1>3, Ranges DEF JournaldInv, CursorsFilled, TurnFromFilled, Filled
<1>7. QED  BY <1>4, <1>5, <1>6 DEF JournaldInv

\* An entry is refused.
LEMMA RefuseInv == JournaldInv /\ Refuse => JournaldInv'
  BY DEF JournaldInv, Refuse, JournaldTypeOK, CursorsFilled, TurnFromFilled, Filled, Entry0

\* An entry is put.
LEMMA InsertInv == JournaldInv /\ Insert => JournaldInv'
<1>1. SUFFICES ASSUME JournaldInv, Insert PROVE JournaldInv'
  OBVIOUS
<1>2. /\ turn = "reading" /\ place < journal /\ turn' = "noting" /\ Len(notes) < MaxNotes
      /\ inserted' = inserted \cup {place + 1}
      /\ base' = IF blind THEN place + 1 ELSE base
      /\ UNCHANGED <<journal, cursor, notes, disk, place, blind, restarts>>
  BY <1>1 DEF Insert
<1>3. place + 1 \in 1 .. journal /\ inserted' \subseteq 1 .. journal
  BY <1>1, <1>2, Ranges DEF JournaldInv
<1>4. base \in Nat /\ base' \in Nat /\ base <= base' /\ base' \in inserted' \cup {0}
  BY <1>1, <1>2, Ranges DEF JournaldInv, TurnFromFilled
<1>5. notes \in Seq(inserted') /\ disk.notes \in Seq(inserted')
  BY <1>1, <1>2, Ranges, MoreInserted DEF JournaldInv
<1>6. JournaldTypeOK'
  BY <1>1, <1>2, <1>3, <1>4, <1>5, Ranges DEF JournaldInv, JournaldTypeOK, Entry0
<1>7. ASSUME NEW c \in Nat, Filled(c) PROVE Filled(c)'
  BY <1>2, <1>4, <1>7, FilledStays
<1>8. Filled(place + 1)'
  <2>1. CASE blind
    BY <1>1, <1>2, <2>1, Ranges DEF JournaldInv, Filled
  <2>2. CASE ~blind
    BY <1>1, <1>2, <2>2, Ranges DEF JournaldInv, TurnFromFilled, Filled
  <2>3. QED  BY <2>1, <2>2
<1>9. /\ \A i \in 1 .. Len(notes) : Filled(notes[i])'
      /\ \A i \in 1 .. Len(disk.notes) : Filled(disk.notes[i])'
  <2>1. ASSUME NEW s \in {notes, disk.notes}, NEW i \in 1 .. Len(s) PROVE Filled(s[i])'
    <3>1. s[i] \in Nat /\ Filled(s[i]) /\ s' = s
      BY <1>1, <1>2, Ranges DEF JournaldInv, CursorsFilled
    <3>2. QED  BY <1>2, <1>7, <3>1 DEF Filled
  <2>2. QED  BY <1>2, <2>1 DEF Filled
<1>10. Filled(cursor)' /\ Filled(disk.cursor)'
  <2>1. Filled(cursor) /\ Filled(disk.cursor)
    BY <1>1 DEF JournaldInv, CursorsFilled
  <2>2. QED  BY <1>1, <1>2, <1>4, <2>1, Ranges DEF JournaldInv, Filled
<1>11. CursorsFilled'
  BY <1>2, <1>9, <1>10 DEF CursorsFilled
<1>12. TurnFromFilled'
  BY <1>2, <1>8 DEF TurnFromFilled
<1>13. QED  BY <1>6, <1>11, <1>12 DEF JournaldInv

\* The entry that was put is noted.
LEMMA NoteInv == JournaldInv /\ Note => JournaldInv'
<1>1. SUFFICES ASSUME JournaldInv, Note PROVE JournaldInv'
  OBVIOUS
<1>2. /\ turn = "noting" /\ turn' = "between" /\ notes' = Append(notes, place + 1)
      /\ UNCHANGED <<journal, cursor, disk, place, inserted, base, blind, restarts>>
  BY <1>1 DEF Note, NoteOf
<1>3. place + 1 \in inserted /\ Filled(place + 1) /\ Len(notes) < MaxNotes
  BY <1>1, <1>2 DEF JournaldInv, TurnFromFilled
<1>4. notes' \in Seq(inserted) /\ Len(notes') = Len(notes) + 1
  BY <1>1, <1>2, <1>3, Ranges DEF JournaldInv
<1>5. Len(notes') <= MaxNotes
  BY <1>1, <1>3, <1>4, Ranges, JournaldAssumption DEF JournaldInv
<1>6. JournaldTypeOK'
  BY <1>1, <1>2, <1>4, <1>5, Ranges DEF JournaldInv, JournaldTypeOK, Entry0
<1>7. \A i \in 1 .. Len(notes') : Filled(notes'[i])
  <2>1. TAKE i \in 1 .. Len(notes')
  <2>2. CASE i = Len(notes')
    <3>1. notes'[i] = place + 1
      BY <1>1, <1>2, <1>4, <2>2, Ranges DEF JournaldInv
    <3>2. QED  BY <1>3, <3>1
  <2>3. CASE i # Len(notes')
    <3>1. i \in 1 .. Len(notes)
      BY <1>1, <1>4, <2>1, <2>3, Ranges DEF JournaldInv
    <3>2. notes'[i] = notes[i]
      BY <1>1, <1>2, <3>1, Ranges DEF JournaldInv
    <3>3. QED  BY <1>1, <3>1, <3>2 DEF JournaldInv, CursorsFilled
  <2>4. QED  BY <2>2, <2>3
<1>8. CursorsFilled'
  BY <1>1, <1>2, <1>7 DEF JournaldInv, CursorsFilled, Filled
<1>9. QED  BY <1>2, <1>6, <1>8 DEF JournaldInv, TurnFromFilled

\* An acked note becomes the cursor.
LEMMA AckNotesInv ==
  ASSUME JournaldInv, NEW n \in 1 .. MaxNotes, AckNotes(n)
  PROVE  JournaldInv'
<1>1. /\ n \in 1 .. Len(notes) /\ cursor' = notes[n]
      /\ notes' = SubSeq(notes, n + 1, Len(notes))
      /\ UNCHANGED <<journal, disk, turn, place, inserted, base, blind, restarts>>
  BY DEF AckNotes
<1>2. notes \in Seq(inserted) /\ Len(notes) \in Nat /\ Len(notes) <= MaxNotes
  BY Ranges DEF JournaldInv
<1>3. /\ notes' \in Seq(inserted) /\ Len(notes') = Len(notes) - n
      /\ \A i \in 1 .. Len(notes) - n : notes'[i] = notes[n + i]
  BY <1>1, <1>2, TailOfNotes
<1>4. Len(notes') <= MaxNotes
  BY <1>1, <1>2, <1>3, JournaldAssumption
<1>5. JournaldTypeOK'
  BY <1>1, <1>3, <1>4, Ranges DEF JournaldInv, JournaldTypeOK, Entry0
<1>6. \A i \in 1 .. Len(notes') : Filled(notes'[i])
  <2>1. TAKE i \in 1 .. Len(notes')
  <2>2. n + i \in 1 .. Len(notes) /\ notes'[i] = notes[n + i]
    BY <1>1, <1>2, <1>3
  <2>3. QED  BY <2>2 DEF JournaldInv, CursorsFilled
<1>7. CursorsFilled'
  BY <1>1, <1>6 DEF JournaldInv, CursorsFilled, Filled
<1>8. TurnFromFilled'
  <2>1. turn = "noting" => Len(notes') < MaxNotes
    BY <1>1, <1>2, <1>3, JournaldAssumption DEF JournaldInv, TurnFromFilled
  <2>2. QED  BY <1>1, <2>1 DEF JournaldInv, TurnFromFilled, Filled
<1>9. QED  BY <1>5, <1>7, <1>8 DEF JournaldInv

\* The cursor or the notes are saved.
LEMMA SaveInv == JournaldInv /\ (SaveCursor \/ SaveNotes) => JournaldInv'
<1>1. SUFFICES ASSUME JournaldInv, SaveCursor \/ SaveNotes PROVE JournaldInv'
  OBVIOUS
<1>2. UNCHANGED <<journal, cursor, notes, turn, place, inserted, base, blind, restarts>>
  BY <1>1 DEF SaveCursor, SaveNotes
<1>3. disk'.cursor \in {cursor, disk.cursor} /\ disk'.notes \in {notes, disk.notes}
  BY <1>1 DEF SaveCursor, SaveNotes, JournaldInv, JournaldTypeOK
<1>4. QED
  BY <1>1, <1>2, <1>3
  DEF JournaldInv, JournaldTypeOK, CursorsFilled, TurnFromFilled, Filled, Entry0

\* A new process starts from what was saved.
LEMMA RestartReaderInv == JournaldInv /\ RestartReader => JournaldInv'
<1>1. SUFFICES ASSUME JournaldInv, RestartReader PROVE JournaldInv'
  OBVIOUS
<1>2. JournaldTypeOK'
  <2>1. /\ cursor' = disk.cursor /\ notes' = disk.notes /\ turn' = "between" /\ place' = 0
        /\ blind' = FALSE /\ UNCHANGED <<journal, disk, inserted, base>>
    BY <1>1 DEF RestartReader
  <2>2. restarts' \in 0 .. MaxRestart
    BY <1>1, JournaldAssumption DEF RestartReader, JournaldInv, JournaldTypeOK
  <2>3. place' \in 0 .. journal
    BY <1>1, <2>1, Ranges DEF JournaldInv
  <2>4. QED  BY <1>1, <2>1, <2>2, <2>3 DEF JournaldInv, JournaldTypeOK, Entry0
<1>3. CursorsFilled' /\ TurnFromFilled'
  BY <1>1 DEF RestartReader, JournaldInv, CursorsFilled, TurnFromFilled, Filled
<1>4. QED  BY <1>2, <1>3 DEF JournaldInv

\* Every step keeps the invariant.
LEMMA JournaldNextInv == JournaldInv /\ [JournaldNext]_journaldVars => JournaldInv'
<1>1. SUFFICES ASSUME JournaldInv, [JournaldNext]_journaldVars PROVE JournaldInv'
  OBVIOUS
<1>2. CASE AppendEntry  BY <1>1, <1>2, AppendEntryInv
<1>3. CASE ReadOn  BY <1>1, <1>3, TurnInv, NoteInv DEF ReadOn
<1>4. CASE Insert \/ Refuse  BY <1>1, <1>4, InsertInv, RefuseInv
<1>5. CASE SaveCursor \/ SaveNotes  BY <1>1, <1>5, SaveInv
<1>6. CASE RestartReader  BY <1>1, <1>6, RestartReaderInv
<1>7. ASSUME NEW n \in 1 .. MaxNotes, AckNotes(n) PROVE JournaldInv'
  BY <1>1, <1>7, AckNotesInv
<1>8. CASE UNCHANGED journaldVars
  BY <1>1, <1>8 DEF journaldVars, JournaldInv, JournaldTypeOK, CursorsFilled,
     TurnFromFilled, Filled, Entry0
<1>9. QED
  BY <1>1, <1>2, <1>3, <1>4, <1>5, <1>6, <1>7, <1>8 DEF JournaldNext

-----------------------------------------------------------------------------
\* Cursors, pending acks and the place of the reader are, in every reachable state,
\* those of entries of the journal that were put.
THEOREM JournaldTypeCorrect == JournaldSpec => []JournaldTypeOK
<1>1. JournaldInv => JournaldTypeOK  BY DEF JournaldInv
<1>2. QED  BY JournaldInitInv, JournaldNextInv, <1>1, PTL DEF JournaldSpec

\* Whatever is acked, repeated, refused, saved and restarted, the cursor never passes
\* an entry that was not put (logcollector.py:486-516, 563-597).
THEOREM CursorNeverSkips == JournaldSpec => []CursorSkipsNothing
<1>1. JournaldInv => CursorSkipsNothing
  BY DEF JournaldInv, CursorsFilled, Filled, CursorSkipsNothing
<1>2. QED  BY JournaldInitInv, JournaldNextInv, <1>1, PTL DEF JournaldSpec

-----------------------------------------------------------------------------
(* The parts together *)

PartsInv == SourcesInv /\ LimitInv /\ JournaldInv

\* Whichever part takes the steps, the tables of the configuration, the files of the
\* server's log, and cursors and pending acks keep their shapes.
THEOREM PartsTypeCorrect == PartsSpec => []PartsTypeOK
<1>1. PartsInit => PartsInv
  BY SourcesInitInv, LimitInitially, JournaldInitInv DEF PartsInit, PartsInv
<1>2. PartsInv /\ [PartsNext]_partsVars => PartsInv'
  <2> SUFFICES ASSUME PartsInv, [PartsNext]_partsVars PROVE PartsInv'
    OBVIOUS
  <2>1. /\ [SourcesNext]_vars /\ [SinkNext]_sinkVars /\ [JournaldNext]_journaldVars
    BY DEF PartsNext, partsVars, SourcesStep, JournaldStep
  <2> QED
    BY <2>1, SourcesNextInv, LimitSteps, JournaldNextInv DEF PartsInv
<1>3. PartsInv => PartsTypeOK
  BY LimitTypes DEF PartsInv, SourcesInv, JournaldInv, PartsTypeOK
<1> QED
  BY <1>1, <1>2, <1>3, PTL DEF PartsSpec

=============================================================================
