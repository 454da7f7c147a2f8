---------------------------- MODULE LogTakerProofs ----------------------------
(***************************************************************************)
(* Proofs about the server: the window of batch ids (BatchDedup) and the   *)
(* requests that use it (LogTaker), for every set of ids and of handlers   *)
(* and every size, time and bound.                                         *)
(***************************************************************************)
EXTENDS LogTaker, FiniteSetTheorems, SequenceTheorems, TLAPS

-----------------------------------------------------------------------------
(* The window as a sequence *)

\* A sequence of entries in which no id comes twice.
IsWindow(es) ==
  /\ es \in Seq(Entry)
  /\ \A i, j \in DOMAIN es : es[i].id = es[j].id => i = j

\* b is in es with expiry x; c comes after b.
Holds(es, b, x) == \E i \in DOMAIN es : es[i].id = b /\ es[i].exp = x
After(es, b, c) == \E i, j \in DOMAIN es : i < j /\ es[i].id = b /\ es[j].id = c

LEMMA WindowFacts ==
  ASSUME NEW es, IsWindow(es)
  PROVE  /\ Len(es) \in Nat /\ DOMAIN es = 1 .. Len(es)
         /\ \A i \in 1 .. Len(es) : es[i] \in Entry /\ es[i].id \in Id /\ es[i].exp \in Expiry
         /\ \A b, x : Holds(es, b, x) => Known(b, es) /\ b \in Id /\ x \in Expiry
         /\ \A b : Known(b, es) => \E x \in Expiry : Holds(es, b, x)
         /\ \A b, x, y : Holds(es, b, x) /\ Holds(es, b, y) => x = y
         /\ \A b, c : After(es, b, c) => Known(b, es) /\ Known(c, es) /\ b # c
         /\ \A b, c : ~(After(es, b, c) /\ After(es, c, b))
         /\ \A b, c : Known(b, es) /\ Known(c, es) /\ b # c => After(es, b, c) \/ After(es, c, b)
         /\ \A b, t : Remembered(b, es, t) <=> \E x \in Expiry : Holds(es, b, x) /\ x > t
<1>1. Len(es) \in Nat /\ DOMAIN es = 1 .. Len(es)
  BY DEF IsWindow
<1>2. \A i \in 1 .. Len(es) : es[i] \in Entry /\ es[i].id \in Id /\ es[i].exp \in Expiry
  <2>1. \A i \in 1 .. Len(es) : es[i] \in Entry
    BY <1>1 DEF IsWindow
  <2>2. \A e \in Entry : e.id \in Id /\ e.exp \in Expiry
    BY DEF Entry
  <2> QED
    BY <2>1, <2>2
<1>3. \A i, j \in 1 .. Len(es) : es[i].id = es[j].id => i = j
  BY <1>1 DEF IsWindow
<1>4. /\ \A b, x : Holds(es, b, x) => Known(b, es) /\ b \in Id /\ x \in Expiry
      /\ \A b : Known(b, es) => \E x \in Expiry : Holds(es, b, x)
      /\ \A b, t : Remembered(b, es, t) <=> \E x \in Expiry : Holds(es, b, x) /\ x > t
  BY <1>1, <1>2 DEF Holds, Known, Remembered
<1>5. \A b, x, y : Holds(es, b, x) /\ Holds(es, b, y) => x = y
  BY <1>1, <1>3 DEF Holds
<1>6. \A b, c : After(es, b, c) => Known(b, es) /\ Known(c, es) /\ b # c
  BY <1>1, <1>3 DEF After, Known
<1>7. \A b, c : ~(After(es, b, c) /\ After(es, c, b))
  BY <1>1, <1>3 DEF After
<1>8. \A b, c : Known(b, es) /\ Known(c, es) /\ b # c => After(es, b, c) \/ After(es, c, b)
  BY <1>1 DEF After, Known
<1> QED
  BY <1>1, <1>2, <1>4, <1>5, <1>6, <1>7, <1>8

\* A suffix keeps what it holds in the order it had, and all that comes after.
LEMMA SuffixIs ==
  ASSUME NEW es, IsWindow(es), NEW k \in 1 .. Len(es) + 1
  PROVE  LET r == SubSeq(es, k, Len(es))
         IN /\ IsWindow(r) /\ Len(r) = Len(es) - k + 1
            /\ \A i \in 1 .. Len(r) : r[i] = es[k + i - 1]
            /\ \A b, x : Holds(r, b, x) <=> Known(b, r) /\ Holds(es, b, x)
            /\ \A b, c : After(r, b, c) <=> Known(b, r) /\ After(es, b, c)
            /\ \A b, c : Known(b, r) /\ After(es, b, c) => Known(c, r)
<1> DEFINE r == SubSeq(es, k, Len(es))
<1>1. Len(es) \in Nat /\ DOMAIN es = 1 .. Len(es) /\ \A i \in 1 .. Len(es) : es[i] \in Entry
  BY DEF IsWindow
<1>2. /\ r \in Seq(Entry) /\ Len(r) = Len(es) - k + 1
      /\ \A i \in 1 .. Len(r) : r[i] = es[k + i - 1]
  BY <1>1, SubSeqProperties
<1> HIDE DEF r
<1>3. Len(r) \in Nat /\ DOMAIN r = 1 .. Len(r)
  BY <1>2
<1>4. \A i, j \in 1 .. Len(es) : es[i].id = es[j].id => i = j
  BY <1>1 DEF IsWindow
<1>5. \A i \in 1 .. Len(r) : k + i - 1 \in 1 .. Len(es)
  BY <1>1, <1>2
<1>6. IsWindow(r)
  <2>1. ASSUME NEW i \in 1 .. Len(r), NEW j \in 1 .. Len(r), r[i].id = r[j].id PROVE i = j
    <3>1. k + i - 1 = k + j - 1
      BY <1>2, <1>4, <1>5, <2>1
    <3> QED
      BY <3>1, <1>3
  <2> QED
    BY <1>2, <1>3, <2>1 DEF IsWindow
<1>7. \A i \in k .. Len(es) : i - k + 1 \in 1 .. Len(r) /\ r[i - k + 1] = es[i]
  BY <1>1, <1>2
<1>8. ASSUME NEW b, NEW x PROVE Holds(r, b, x) <=> Known(b, r) /\ Holds(es, b, x)
  <2>1. ASSUME Holds(r, b, x) PROVE Known(b, r) /\ Holds(es, b, x)
    BY <1>1, <1>2, <1>3, <1>5, <2>1 DEF Holds, Known
  <2>2. ASSUME Known(b, r), Holds(es, b, x) PROVE Holds(r, b, x)
    <3>1. PICK i \in 1 .. Len(r) : r[i].id = b
      BY <1>3, <2>2 DEF Known
    <3>2. PICK j \in 1 .. Len(es) : es[j].id = b /\ es[j].exp = x
      BY <1>1, <2>2 DEF Holds
    <3>3. k + i - 1 = j
      BY <1>2, <1>4, <1>5, <3>1, <3>2
    <3> QED
      BY <1>2, <1>3, <3>1, <3>2, <3>3 DEF Holds
  <2> QED
    BY <2>1, <2>2
<1>9. ASSUME NEW b, NEW c, After(r, b, c) PROVE Known(b, r) /\ After(es, b, c)
  <2>1. PICK i, j \in 1 .. Len(r) : i < j /\ r[i].id = b /\ r[j].id = c
    BY <1>3, <1>9 DEF After
  <2>2. k + i - 1 < k + j - 1 /\ es[k + i - 1].id = b /\ es[k + j - 1].id = c
    BY <1>2, <2>1
  <2> QED
    BY <1>1, <1>3, <1>5, <2>1, <2>2 DEF After, Known
<1>10. ASSUME NEW b, NEW c, Known(b, r), After(es, b, c) PROVE After(r, b, c) /\ Known(c, r)
  <2>1. PICK i, j \in 1 .. Len(es) : i < j /\ es[i].id = b /\ es[j].id = c
    BY <1>1, <1>10 DEF After
  <2>2. PICK m \in 1 .. Len(r) : r[m].id = b
    BY <1>3, <1>10 DEF Known
  <2>3. k + m - 1 = i
    BY <1>2, <1>4, <1>5, <2>1, <2>2
  <2>4. i \in k .. Len(es) /\ j \in k .. Len(es)
    BY <1>1, <2>1, <2>2, <2>3
  <2>5. i - k + 1 < j - k + 1 /\ r[i - k + 1].id = b /\ r[j - k + 1].id = c
    BY <1>7, <2>1, <2>4
  <2> QED
    BY <1>3, <1>7, <2>4, <2>5 DEF After, Known
<1> QED
  BY <1>2, <1>6, <1>8, <1>9, <1>10 DEF r

\* Removing an id leaves the others in their order.
LEMMA WithoutIdIs ==
  ASSUME NEW es, IsWindow(es), NEW b
  PROVE  LET r == WithoutId(es, b)
         IN /\ IsWindow(r) /\ Len(r) <= Len(es) /\ (Known(b, es) => Len(r) = Len(es) - 1)
            /\ ~Known(b, r)
            /\ \A c, x : Holds(r, c, x) <=> c # b /\ Holds(es, c, x)
            /\ \A c, d : After(r, c, d) <=> c # b /\ d # b /\ After(es, c, d)
<1> DEFINE r == WithoutId(es, b)
<1>1. Len(es) \in Nat /\ DOMAIN es = 1 .. Len(es) /\ \A i \in 1 .. Len(es) : es[i] \in Entry
  BY DEF IsWindow
<1>2. \A i, j \in 1 .. Len(es) : es[i].id = es[j].id => i = j
  BY <1>1 DEF IsWindow
<1>3. CASE ~Known(b, es)
  <2>1. r = es
    BY <1>1, <1>3 DEF Known, WithoutId, RemoveFirstMatch
  <2>2. /\ \A c, x : Holds(es, c, x) => c # b
        /\ \A c, d : After(es, c, d) => c # b /\ d # b
    BY <1>1, <1>3 DEF Known, Holds, After
  <2> HIDE DEF r
  <2> SUFFICES /\ IsWindow(r) /\ Len(r) <= Len(es) /\ (Known(b, es) => Len(r) = Len(es) - 1)
               /\ ~Known(b, r)
               /\ \A c, x : Holds(r, c, x) <=> c # b /\ Holds(es, c, x)
               /\ \A c, d : After(r, c, d) <=> c # b /\ d # b /\ After(es, c, d)
    BY DEF r
  <2>3. /\ Len(r) <= Len(es) /\ (Known(b, es) => Len(r) = Len(es) - 1)
        /\ ~Known(b, r) /\ IsWindow(r)
    <3>1. ~Known(b, r) /\ IsWindow(r) /\ Len(r) = Len(es)
      BY <1>3, <2>1
    <3>2. Len(es) \in Nat
      BY <1>1
    <3> QED
      BY <1>3, <3>1, <3>2
  <2>4. \A c, x : Holds(r, c, x) <=> c # b /\ Holds(es, c, x)
    BY <2>1, <2>2
  <2>5. \A c, d : After(r, c, d) <=> c # b /\ d # b /\ After(es, c, d)
    BY <2>1, <2>2
  <2> QED
    BY <2>3, <2>4, <2>5
<1>4. CASE Known(b, es)
  <2>1. PICK k \in 1 .. Len(es) : es[k].id = b
    BY <1>1, <1>4 DEF Known
  <2>2. {i \in 1 .. Len(es) : es[i].id = b} = {k}
    BY <1>2, <2>1
  <2>3. Min({k}) = k
    BY <2>1 DEF Min
  <2>4. r = RemoveAt(es, k)
    BY <2>1, <2>2, <2>3 DEF WithoutId, RemoveFirstMatch, SelectInSeq
  <2> DEFINE s == SubSeq(es, 1, k - 1)
             u == SubSeq(es, k + 1, Len(es))
  <2>5. /\ s \in Seq(Entry) /\ Len(s) = k - 1 /\ \A i \in 1 .. k - 1 : s[i] = es[i]
        /\ u \in Seq(Entry) /\ Len(u) = Len(es) - k
        /\ \A i \in 1 .. Len(es) - k : u[i] = es[k + i]
    <3>1. /\ s \in Seq(Entry) /\ Len(s) = k - 1 /\ \A i \in 1 .. k - 1 : s[i] = es[i]
      <4>1. \A i \in 1 .. k - 1 : es[i] \in Entry
        BY <1>1, <2>1
      <4>2. /\ s \in Seq(Entry) /\ Len(s) = (IF 1 <= k - 1 THEN k - 1 - 1 + 1 ELSE 0)
            /\ \A i \in 1 .. k - 1 - 1 + 1 : s[i] = es[1 + i - 1]
        BY <1>1, <2>1, <4>1, SubSeqProperties
      <4> QED
        BY <2>1, <4>2
    <3>2. /\ u \in Seq(Entry) /\ Len(u) = Len(es) - k
          /\ \A i \in 1 .. Len(es) - k : u[i] = es[k + i]
      <4>1. \A i \in k + 1 .. Len(es) : es[i] \in Entry
        BY <1>1, <2>1
      <4>2. /\ u \in Seq(Entry) /\ Len(u) = (IF k + 1 <= Len(es) THEN Len(es) - (k + 1) + 1 ELSE 0)
            /\ \A i \in 1 .. Len(es) - (k + 1) + 1 : u[i] = es[k + 1 + i - 1]
        BY <1>1, <2>1, <4>1, SubSeqProperties
      <4>3. Len(u) = Len(es) - k
        <5> HIDE DEF u
        <5>1. CASE k + 1 <= Len(es)
          BY <1>1, <2>1, <4>2, <5>1
        <5>2. CASE ~(k + 1 <= Len(es))
          <6>1. k = Len(es)
            <7>1. Len(es) \in Nat
              BY <1>1
            <7> QED
              BY <5>2, <7>1
          <6> QED
            BY <1>1, <4>2, <5>2, <6>1
        <5> QED
          BY <5>1, <5>2
      <4>4. ASSUME NEW i \in 1 .. Len(es) - k PROVE u[i] = es[k + i]
        <5>1. i \in 1 .. Len(es) - (k + 1) + 1 /\ k + 1 + i - 1 = k + i
          BY <1>1, <2>1
        <5> HIDE DEF u
        <5> QED
          BY <4>2, <5>1
      <4> QED
        BY <4>2, <4>3, <4>4
    <3> QED
      BY <3>1, <3>2
  <2>6. r = s \o u
    BY <2>4 DEF RemoveAt
  <2> HIDE DEF s, u, r
  <2>7. /\ r \in Seq(Entry) /\ Len(r) = Len(es) - 1
        /\ \A i \in 1 .. Len(es) - 1 : r[i] = IF i <= k - 1 THEN s[i] ELSE u[i - (k - 1)]
    <3>1. /\ s \o u \in Seq(Entry) /\ Len(s \o u) = Len(s) + Len(u)
          /\ \A i \in 1 .. Len(s) + Len(u) :
               (s \o u)[i] = IF i <= Len(s) THEN s[i] ELSE u[i - Len(s)]
      BY <2>5, ConcatProperties
    <3>2. Len(s) + Len(u) = Len(es) - 1
      BY <1>1, <2>1, <2>5
    <3> QED
      BY <2>5, <2>6, <3>1, <3>2
  <2>8. \A i \in 1 .. Len(es) - 1 : r[i] = IF i < k THEN es[i] ELSE es[i + 1]
    BY <1>1, <2>1, <2>5, <2>7
  <2>9. DOMAIN r = 1 .. Len(es) - 1
    BY <2>7
  <2>10. /\ \A i \in 1 .. Len(es) : i < k => i \in DOMAIN r /\ r[i] = es[i]
         /\ \A i \in 1 .. Len(es) : i > k => i - 1 \in DOMAIN r /\ r[i - 1] = es[i]
    BY <1>1, <2>1, <2>8, <2>9
  <2>11. /\ \A i \in DOMAIN r : i < k => i \in 1 .. Len(es) /\ i # k /\ r[i] = es[i]
         /\ \A i \in DOMAIN r : i >= k => i + 1 \in 1 .. Len(es) /\ i + 1 # k /\ r[i] = es[i + 1]
    BY <1>1, <2>1, <2>8, <2>9
  <2>12. \A i, j \in DOMAIN r : r[i].id = r[j].id => i = j
    BY <1>2, <2>1, <2>9, <2>11
  <2>13. ~Known(b, r)
    BY <1>2, <2>1, <2>9, <2>11 DEF Known
  <2>14. ASSUME NEW c, NEW x PROVE Holds(r, c, x) <=> c # b /\ Holds(es, c, x)
    <3>1. ASSUME Holds(r, c, x) PROVE c # b /\ Holds(es, c, x)
      BY <1>1, <2>9, <2>11, <2>13, <3>1 DEF Holds, Known
    <3>2. ASSUME c # b, Holds(es, c, x) PROVE Holds(r, c, x)
      BY <1>1, <2>1, <2>10, <3>2 DEF Holds
    <3> QED
      BY <3>1, <3>2
  <2>15. ASSUME NEW c, NEW d PROVE After(r, c, d) <=> c # b /\ d # b /\ After(es, c, d)
    <3>1. ASSUME After(r, c, d) PROVE c # b /\ d # b /\ After(es, c, d)
      BY <1>1, <2>1, <2>9, <2>11, <2>13, <3>1 DEF After, Known
    <3>2. ASSUME c # b, d # b, After(es, c, d) PROVE After(r, c, d)
      BY <1>1, <2>1, <2>9, <2>10, <3>2, SMTT(30) DEF After
    <3> QED
      BY <3>1, <3>2
  <2> QED
    BY <1>1, <2>7, <2>12, <2>13, <2>14, <2>15 DEF IsWindow, r
<1> QED
  BY <1>3, <1>4

LEMMA AppendIs ==
  ASSUME NEW es, IsWindow(es), NEW e \in Entry, ~Known(e.id, es)
  PROVE  LET r == Append(es, e)
         IN /\ IsWindow(r) /\ Len(r) = Len(es) + 1
            /\ \A c : Known(c, r) <=> Known(c, es) \/ c = e.id
            /\ \A c, x : Holds(r, c, x) <=> Holds(es, c, x) \/ (c = e.id /\ x = e.exp)
            /\ \A c, d : After(r, c, d) <=> After(es, c, d) \/ (Known(c, es) /\ d = e.id)
<1> DEFINE r == Append(es, e)
<1>1. Len(es) \in Nat /\ DOMAIN es = 1 .. Len(es)
  BY DEF IsWindow
<1>2. /\ r \in Seq(Entry) /\ Len(r) = Len(es) + 1 /\ DOMAIN r = 1 .. Len(es) + 1
      /\ \A i \in 1 .. Len(es) : r[i] = es[i]
      /\ r[Len(es) + 1] = e
  BY <1>1, AppendProperties DEF IsWindow
<1> HIDE DEF r
<1>3. \A i, j \in DOMAIN r : r[i].id = r[j].id => i = j
  BY <1>1, <1>2 DEF IsWindow, Known
<1>4. \A c : Known(c, r) <=> Known(c, es) \/ c = e.id
  BY <1>1, <1>2 DEF Known
<1>5. \A c, x : Holds(r, c, x) <=> Holds(es, c, x) \/ (c = e.id /\ x = e.exp)
  BY <1>1, <1>2 DEF Holds
<1>6. ASSUME NEW c, NEW d
      PROVE  After(r, c, d) <=> After(es, c, d) \/ (Known(c, es) /\ d = e.id)
  <2>1. ASSUME After(r, c, d) PROVE After(es, c, d) \/ (Known(c, es) /\ d = e.id)
    BY <1>1, <1>2, <2>1 DEF After, Known
  <2>2. ASSUME After(es, c, d) \/ (Known(c, es) /\ d = e.id) PROVE After(r, c, d)
    BY <1>1, <1>2, <2>2 DEF After, Known
  <2> QED
    BY <2>1, <2>2
<1> QED
  BY <1>2, <1>3, <1>4, <1>5, <1>6 DEF IsWindow, r

LEMMA MoveToEndIs ==
  ASSUME NEW es, IsWindow(es), NEW b \in Id, NEW x \in Expiry
  PROVE  LET r == MoveToEnd(es, b, x)
         IN /\ IsWindow(r) /\ Len(r) <= Len(es) + 1 /\ Len(r) > 0
            /\ \A c : Known(c, r) <=> Known(c, es) \/ c = b
            /\ \A c, y : Holds(r, c, y) <=> (IF c = b THEN y = x ELSE Holds(es, c, y))
            /\ \A c, d : After(r, c, d) <=>
                 c # b /\ IF d = b THEN Known(c, es) ELSE After(es, c, d)
<1> DEFINE u == WithoutId(es, b)
           e == [id |-> b, exp |-> x]
           r == Append(u, e)
<1>1. /\ IsWindow(u) /\ Len(u) <= Len(es) /\ ~Known(b, u)
      /\ \A c, y : Holds(u, c, y) <=> c # b /\ Holds(es, c, y)
      /\ \A c, d : After(u, c, d) <=> c # b /\ d # b /\ After(es, c, d)
  BY WithoutIdIs
<1>2. e \in Entry /\ e.id = b /\ e.exp = x
  BY DEF Entry
<1>3. MoveToEnd(es, b, x) = r
  BY DEF MoveToEnd
<1> HIDE DEF u, e
<1>4. /\ IsWindow(r) /\ Len(r) = Len(u) + 1
      /\ \A c : Known(c, r) <=> Known(c, u) \/ c = b
      /\ \A c, y : Holds(r, c, y) <=> Holds(u, c, y) \/ (c = b /\ y = x)
      /\ \A c, d : After(r, c, d) <=> After(u, c, d) \/ (Known(c, u) /\ d = b)
  BY <1>1, <1>2, AppendIs
<1> HIDE DEF r
<1>5. \A c : Known(c, u) <=> Known(c, es) /\ c # b
  BY <1>1, WindowFacts
<1>6. Len(u) \in Nat /\ Len(es) \in Nat
  BY <1>1, WindowFacts
<1>7. Len(r) <= Len(es) + 1 /\ Len(r) > 0
  BY <1>1, <1>4, <1>6
<1>8. \A c : Known(c, r) <=> Known(c, es) \/ c = b
  BY <1>4, <1>5
<1>9. \A c, y : Holds(r, c, y) <=> (IF c = b THEN y = x ELSE Holds(es, c, y))
  BY <1>1, <1>4
<1>10. \A c, d : After(r, c, d) <=> c # b /\ IF d = b THEN Known(c, es) ELSE After(es, c, d)
  BY <1>1, <1>4, <1>5
<1> QED
  BY <1>3, <1>4, <1>7, <1>8, <1>9, <1>10

\* Enforcing the bound keeps a suffix, of which the last entry is one.
LEMMA BoundedIs ==
  ASSUME NEW es, IsWindow(es)
  PROVE  LET r == Bounded(es)
         IN /\ IsWindow(r) /\ Len(r) <= MaxEntries
            /\ Len(r) = IF Len(es) <= MaxEntries THEN Len(es) ELSE MaxEntries
            /\ Len(es) <= MaxEntries => r = es
            /\ \A b, x : Holds(r, b, x) <=> Known(b, r) /\ Holds(es, b, x)
            /\ \A b, c : After(r, b, c) <=> Known(b, r) /\ After(es, b, c)
            /\ \A b, c : Known(b, r) /\ After(es, b, c) => Known(c, r)
            /\ \A i \in 1 .. Len(es) : i > Len(es) - MaxEntries => Known(es[i].id, r)
<1> DEFINE r == Bounded(es)
<1>1. Len(es) \in Nat /\ MaxEntries \in Nat /\ MaxEntries > 0
  BY WindowFacts, DedupAssumption DEF DedupAssumption
<1>2. CASE Len(es) <= MaxEntries
  <2>1. r = es
    BY <1>2 DEF Bounded, LastN
  <2> HIDE DEF r
  <2>2. \A b, x : Holds(es, b, x) => Known(b, es)
    BY WindowFacts
  <2>3. \A b, c : After(es, b, c) => Known(b, es) /\ Known(c, es)
    BY WindowFacts
  <2>4. \A i \in 1 .. Len(es) : Known(es[i].id, es)
    BY WindowFacts DEF Known
  <2>5. /\ \A b, x : Holds(r, b, x) <=> Known(b, r) /\ Holds(es, b, x)
        /\ \A b, c : After(r, b, c) <=> Known(b, r) /\ After(es, b, c)
        /\ \A b, c : Known(b, r) /\ After(es, b, c) => Known(c, r)
        /\ \A i \in 1 .. Len(es) : Known(es[i].id, r)
    BY <2>1, <2>2, <2>3, <2>4
  <2>6. IsWindow(r) /\ Len(r) = Len(es)
    BY <2>1
  <2> QED
    BY <1>1, <1>2, <2>1, <2>5, <2>6 DEF r
<1>3. CASE ~(Len(es) <= MaxEntries)
  <2> DEFINE k == Len(es) - MaxEntries + 1
  <2>1. k \in 1 .. Len(es) + 1 /\ Len(es) - k + 1 = MaxEntries
    BY <1>1, <1>3
  <2>2. r = SubSeq(es, k, Len(es))
    BY <1>3 DEF Bounded, LastN
  <2> HIDE DEF r, k
  <2>3. /\ IsWindow(r) /\ Len(r) = MaxEntries
        /\ \A i \in 1 .. Len(r) : r[i] = es[k + i - 1]
        /\ \A b, x : Holds(r, b, x) <=> Known(b, r) /\ Holds(es, b, x)
        /\ \A b, c : After(r, b, c) <=> Known(b, r) /\ After(es, b, c)
        /\ \A b, c : Known(b, r) /\ After(es, b, c) => Known(c, r)
    BY <2>1, <2>2, SuffixIs
  <2>4. ASSUME NEW i \in 1 .. Len(es), i > Len(es) - MaxEntries PROVE Known(es[i].id, r)
    <3>1. i - k + 1 \in 1 .. Len(r) /\ k + (i - k + 1) - 1 = i
      BY <1>1, <1>3, <2>3, <2>4 DEF k
    <3>2. r[i - k + 1] = es[i]
      BY <2>3, <3>1
    <3>3. DOMAIN r = 1 .. Len(r)
      BY <2>3, WindowFacts
    <3> QED
      BY <3>1, <3>2, <3>3 DEF Known
  <2> QED
    BY <1>1, <1>3, <2>3, <2>4 DEF r
<1> QED
  BY <1>2, <1>3

-----------------------------------------------------------------------------
(* What replaying the journal yields *)

\* The last line of the first n lines that speaks of b is p, and it gives an expiry.
FinalIn(log, n, p, b) ==
  /\ p \in 1 .. n /\ log[p] \in Entry /\ log[p].id = b
  /\ \A q \in p + 1 .. n : b \notin IdOf(log[q])

\* The ids of es are those with such a line, in the order of these lines.
Yields(log, n, es) ==
  /\ IsWindow(es)
  /\ \A b, x : Holds(es, b, x) <=> \E p : FinalIn(log, n, p, b) /\ log[p].exp = x
  /\ \A b, c, p, q : FinalIn(log, n, p, b) /\ FinalIn(log, n, q, c) /\ p < q => After(es, b, c)

LEMMA LineKinds ==
  ASSUME NEW line \in Line, NEW es
  PROVE  \/ /\ line \in Entry /\ line.id \in Id /\ line.exp \in Expiry
            /\ IdOf(line) = {line.id} /\ Replay(es, line) = MoveToEnd(es, line.id, line.exp)
         \/ /\ line \notin Entry /\ line.id \in Id
            /\ IdOf(line) = {line.id} /\ Replay(es, line) = WithoutId(es, line.id)
         \/ line \notin Entry /\ IdOf(line) = {} /\ Replay(es, line) = es
<1>1. CASE line \in Entry
  <2>1. "exp" \in DOMAIN line /\ "id" \in DOMAIN line /\ line.id \in Id /\ line.exp \in Expiry
    BY <1>1 DEF Entry
  <2>2. "del" \notin DOMAIN line /\ "cut" \notin DOMAIN line
    BY <1>1 DEF Entry
  <2>3. IdOf(line) = {line.id}
    BY <2>1 DEF IdOf
  <2>4. Replay(es, line) = MoveToEnd(es, line.id, line.exp)
    BY <2>1, <2>2 DEF Replay
  <2> QED
    BY <1>1, <2>1, <2>3, <2>4
<1>2. CASE line \in [id : Id, del : {TRUE}]
  <2>1. /\ "del" \in DOMAIN line /\ "exp" \notin DOMAIN line /\ "id" \in DOMAIN line
        /\ "cut" \notin DOMAIN line /\ line.id \in Id
    BY <1>2
  <2>2. line \notin Entry
    BY <2>1 DEF Entry
  <2>3. IdOf(line) = {line.id}
    BY <2>1 DEF IdOf
  <2>4. Replay(es, line) = WithoutId(es, line.id)
    BY <2>1 DEF Replay
  <2> QED
    BY <2>1, <2>2, <2>3, <2>4
<1>3. CASE line \in [cut : {TRUE}]
  <2>1. /\ "cut" \in DOMAIN line /\ "exp" \notin DOMAIN line /\ "id" \notin DOMAIN line
        /\ "del" \notin DOMAIN line
    BY <1>3
  <2>2. line \notin Entry
    BY <2>1 DEF Entry
  <2> QED
    BY <2>1, <2>2 DEF IdOf, Replay
<1> QED
  BY <1>1, <1>2, <1>3 DEF Line

LEMMA ReplayStep ==
  ASSUME NEW log \in Seq(Line), NEW n \in Nat, n + 1 <= Len(log),
         NEW es, Yields(log, n, es)
  PROVE  Yields(log, n + 1, Replay(es, log[n + 1]))
<1> DEFINE line == log[n + 1]
           r == Replay(es, line)
<1>1. line \in Line /\ Len(log) \in Nat
  BY ElementOfSeq
<1>2. /\ IsWindow(es)
      /\ \A b, x : Holds(es, b, x) <=> \E p : FinalIn(log, n, p, b) /\ log[p].exp = x
      /\ \A b, c, p, q : FinalIn(log, n, p, b) /\ FinalIn(log, n, q, c) /\ p < q => After(es, b, c)
  BY DEF Yields
<1>3. \A p, b : FinalIn(log, n, p, b) => p \in 1 .. n /\ p # n + 1 /\ p < n + 1
  BY DEF FinalIn
<1>4. ASSUME NEW p, NEW b
      PROVE  FinalIn(log, n + 1, p, b) <=>
               \/ p = n + 1 /\ line \in Entry /\ line.id = b
               \/ FinalIn(log, n, p, b) /\ b \notin IdOf(line)
  <2>1. ASSUME FinalIn(log, n + 1, p, b), p # n + 1
        PROVE  FinalIn(log, n, p, b) /\ b \notin IdOf(line)
    BY <2>1 DEF FinalIn
  <2>2. ASSUME FinalIn(log, n, p, b), b \notin IdOf(line)
        PROVE  FinalIn(log, n + 1, p, b)
    <3>1. \A q \in p + 1 .. n + 1 : q \in p + 1 .. n \/ q = n + 1
      BY <2>2 DEF FinalIn
    <3> QED
      BY <2>2, <3>1 DEF FinalIn
  <2>3. FinalIn(log, n + 1, n + 1, b) <=> line \in Entry /\ line.id = b
    BY DEF FinalIn
  <2> QED
    BY <2>1, <2>2, <2>3
<1> HIDE DEF line, r
<1>5. CASE /\ line \in Entry /\ line.id \in Id /\ line.exp \in Expiry
           /\ IdOf(line) = {line.id} /\ r = MoveToEnd(es, line.id, line.exp)
  <2>1. /\ IsWindow(r)
        /\ \A c, y : Holds(r, c, y) <=> (IF c = line.id THEN y = line.exp ELSE Holds(es, c, y))
        /\ \A c, d : After(r, c, d) <=>
             c # line.id /\ IF d = line.id THEN Known(c, es) ELSE After(es, c, d)
    BY <1>2, <1>5, MoveToEndIs
  <2>2. ASSUME NEW p, NEW b
        PROVE  FinalIn(log, n + 1, p, b) <=>
                 IF b = line.id THEN p = n + 1 ELSE FinalIn(log, n, p, b)
    BY <1>3, <1>4, <1>5
  <2>3. \A b, x : Holds(r, b, x) <=> \E p : FinalIn(log, n + 1, p, b) /\ log[p].exp = x
    BY <1>2, <2>1, <2>2 DEF line
  <2>4. ASSUME NEW b, NEW c, NEW p, NEW q,
               FinalIn(log, n + 1, p, b), FinalIn(log, n + 1, q, c), p < q
        PROVE  After(r, b, c)
    <3>1. CASE c = line.id
      <4>1. b # line.id
        BY <2>2, <2>4, <3>1
      <4>2. FinalIn(log, n, p, b)
        BY <2>2, <2>4, <4>1
      <4>3. Holds(es, b, log[p].exp)
        BY <1>2, <4>2
      <4>4. Known(b, es)
        BY <1>2, <4>3, WindowFacts
      <4> QED
        BY <2>1, <3>1, <4>1, <4>4
    <3>2. CASE c # line.id
      <4>1. FinalIn(log, n, q, c)
        BY <2>2, <2>4, <3>2
      <4>2. b # line.id
        BY <1>3, <2>2, <2>4, <4>1
      <4> QED
        BY <1>2, <2>1, <2>2, <2>4, <3>2, <4>1, <4>2
    <3> QED
      BY <3>1, <3>2
  <2> QED
    BY <2>1, <2>3, <2>4 DEF Yields, r, line
<1>6. CASE /\ line \notin Entry /\ line.id \in Id
           /\ IdOf(line) = {line.id} /\ r = WithoutId(es, line.id)
  <2>1. /\ IsWindow(r)
        /\ \A c, x : Holds(r, c, x) <=> c # line.id /\ Holds(es, c, x)
        /\ \A c, d : After(r, c, d) <=> c # line.id /\ d # line.id /\ After(es, c, d)
    BY <1>2, <1>6, WithoutIdIs
  <2>2. \A p, b : FinalIn(log, n + 1, p, b) <=> b # line.id /\ FinalIn(log, n, p, b)
    BY <1>4, <1>6
  <2>3. \A b, x : Holds(r, b, x) <=> \E p : FinalIn(log, n + 1, p, b) /\ log[p].exp = x
    BY <1>2, <2>1, <2>2
  <2>4. \A b, c, p, q : FinalIn(log, n + 1, p, b) /\ FinalIn(log, n + 1, q, c) /\ p < q
          => After(r, b, c)
    BY <1>2, <2>1, <2>2
  <2> QED
    BY <2>1, <2>3, <2>4 DEF Yields, r, line
<1>7. CASE line \notin Entry /\ IdOf(line) = {} /\ r = es
  <2>1. \A p, b : FinalIn(log, n + 1, p, b) <=> FinalIn(log, n, p, b)
    BY <1>4, <1>7
  <2>2. Yields(log, n + 1, es)
    BY <1>2, <2>1 DEF Yields
  <2> QED
    BY <1>7, <2>2 DEF r, line
<1> QED
  BY <1>1, <1>5, <1>6, <1>7, LineKinds DEF r

\* The function that Replayed is defined with exists.
LEMMA ReplayExists ==
  ASSUME NEW log \in Seq(Line)
  PROVE  \E f : f = [n \in 0 .. Len(log) |-> IF n = 0 THEN << >> ELSE Replay(f[n - 1], log[n])]
<1> DEFINE Upto(m, f) == f = [n \in 0 .. m |-> IF n = 0 THEN << >> ELSE Replay(f[n - 1], log[n])]
           bad == {m \in Nat : ~ \E f : Upto(m, f)}
<1>1. bad = {}
  <2> SUFFICES ASSUME bad # {} PROVE FALSE
    OBVIOUS
  <2>1. PICK k \in bad : \A j \in bad : ~(j < k)
    <3>1. PICK k \in bad : \A j \in bad : <<j, k>> \notin OpToRel(<, Nat)
      <4>1. bad \subseteq Nat
        OBVIOUS
      <4> HIDE DEF bad
      <4> QED
        BY <4>1, WFMin, NatLessThanWellFounded
    <3> QED
      BY <3>1 DEF OpToRel
  <2>2. k # 0
    <3> DEFINE f == [n \in 0 .. 0 |-> << >>]
    <3>1. Upto(0, f)
      OBVIOUS
    <3> QED
      BY <3>1
  <2>3. PICK f : Upto(k - 1, f)
    <3>1. k - 1 \in Nat /\ k - 1 < k
      BY <2>2
    <3>2. k - 1 \notin bad
      BY <2>1, <3>1
    <3> QED
      BY <3>1, <3>2
  <2> DEFINE g == [n \in 0 .. k |-> IF n = k THEN Replay(f[k - 1], log[k]) ELSE f[n]]
  <2>4. \A n \in 0 .. k : g[n] = IF n = 0 THEN << >> ELSE Replay(g[n - 1], log[n])
    <3>1. f[0] = << >> /\ \A n \in 1 .. k - 1 : f[n] = Replay(f[n - 1], log[n])
      BY <2>2, <2>3
    <3>2. /\ \A n \in 0 .. k - 1 : g[n] = f[n]
          /\ g[k] = Replay(f[k - 1], log[k])
      OBVIOUS
    <3> HIDE DEF g
    <3> QED
      BY <2>2, <3>1, <3>2
  <2>5. Upto(k, g)
    <3> DEFINE h == [n \in 0 .. k |-> IF n = 0 THEN << >> ELSE Replay(g[n - 1], log[n])]
    <3>1. \A n \in 0 .. k : g[n] = h[n]
      BY <2>4
    <3>2. g = [n \in 0 .. k |-> g[n]] /\ h = [n \in 0 .. k |-> h[n]]
      OBVIOUS
    <3> HIDE DEF g, h
    <3>3. g = h
      BY <3>1, <3>2
    <3> QED
      BY <3>3 DEF h
  <2> QED
    BY <2>5
<1>2. Len(log) \in Nat
  OBVIOUS
<1> QED
  BY <1>1, <1>2

\* Replaying a journal yields the ids of its final lines, in their order.
LEMMA ReplayedIs ==
  ASSUME NEW log \in Seq(Line)
  PROVE  Yields(log, Len(log), Replayed(log))
<1> DEFINE Steps(f) == f = [n \in 0 .. Len(log) |-> IF n = 0 THEN << >> ELSE Replay(f[n - 1], log[n])]
           f == CHOOSE f : Steps(f)
           bad == {m \in 0 .. Len(log) : ~Yields(log, m, f[m])}
<1>1. Steps(f)
  BY ReplayExists
<1>2. Replayed(log) = f[Len(log)]
  BY DEF Replayed
<1> HIDE DEF f
<1>3. f[0] = << >> /\ \A n \in 1 .. Len(log) : f[n] = Replay(f[n - 1], log[n])
  BY <1>1
<1>4. bad = {}
  <2> SUFFICES ASSUME bad # {} PROVE FALSE
    OBVIOUS
  <2>1. PICK k \in bad : \A j \in bad : ~(j < k)
    <3>1. PICK k \in bad : \A j \in bad : <<j, k>> \notin OpToRel(<, Nat)
      <4>1. bad \subseteq Nat
        OBVIOUS
      <4> HIDE DEF bad
      <4> QED
        BY <4>1, WFMin, NatLessThanWellFounded
    <3>2. \A j \in bad : j \in Nat
      OBVIOUS
    <3> HIDE DEF bad
    <3> QED
      BY <3>1, <3>2 DEF OpToRel
  <2>2. Yields(log, 0, << >>)
    BY EmptySeq DEF Yields, FinalIn, IsWindow, Holds
  <2>3. k # 0
    BY <1>3, <2>2
  <2>4. k - 1 \in 0 .. Len(log) /\ k - 1 + 1 = k
    BY <2>3
  <2>5. Yields(log, k - 1, f[k - 1])
    BY <2>1, <2>4
  <2>6. Yields(log, k - 1 + 1, Replay(f[k - 1], log[k - 1 + 1]))
    BY <2>3, <2>4, <2>5, ReplayStep
  <2> QED
    BY <1>3, <2>3, <2>4, <2>6
<1>5. Len(log) \in 0 .. Len(log)
  OBVIOUS
<1> QED
  BY <1>2, <1>4, <1>5

\* What is kept of the first n entries at time t.
Keeps(es, n, t, r) ==
  /\ IsWindow(r)
  /\ \A b, x : Holds(r, b, x) <=> \E i \in 1 .. n : es[i].id = b /\ es[i].exp = x /\ x > t
  /\ \A b, c : After(r, b, c) <=>
       \E i, j \in 1 .. n : i < j /\ es[i].id = b /\ es[j].id = c /\ es[i].exp > t /\ es[j].exp > t

Kept(f, es, t, n) == IF es[n].exp > t THEN Append(f[n - 1], es[n]) ELSE f[n - 1]

LEMMA KeepStep ==
  ASSUME NEW es, IsWindow(es), NEW n \in Nat, n + 1 <= Len(es), NEW t \in Int,
         NEW r, Keeps(es, n, t, r)
  PROVE  Keeps(es, n + 1, t, IF es[n + 1].exp > t THEN Append(r, es[n + 1]) ELSE r)
<1> DEFINE e == es[n + 1]
<1>1. /\ IsWindow(r)
      /\ \A b, x : Holds(r, b, x) <=> \E i \in 1 .. n : es[i].id = b /\ es[i].exp = x /\ x > t
      /\ \A b, c : After(r, b, c) <=>
           \E i, j \in 1 .. n : i < j /\ es[i].id = b /\ es[j].id = c /\ es[i].exp > t /\ es[j].exp > t
  BY DEF Keeps
<1>2. /\ Len(es) \in Nat /\ DOMAIN es = 1 .. Len(es)
      /\ \A i \in 1 .. Len(es) : es[i] \in Entry
  BY WindowFacts
<1>3. \A i, j \in 1 .. Len(es) : es[i].id = es[j].id => i = j
  BY <1>2 DEF IsWindow
<1>4. e \in Entry
  BY <1>2
<1>5. \A i \in 1 .. n + 1 : i \in 1 .. n \/ i = n + 1
  OBVIOUS
<1>6. \A i \in 1 .. n : i \in 1 .. n + 1 /\ i < n + 1 /\ ~(n + 1 < i)
  OBVIOUS
<1>7. n + 1 \in 1 .. n + 1 /\ ~(n + 1 < n + 1)
  OBVIOUS
<1> HIDE DEF e
<1>8. CASE ~(e.exp > t)
  <2>1. \A b, x : Holds(r, b, x) <=> \E i \in 1 .. n + 1 : es[i].id = b /\ es[i].exp = x /\ x > t
    BY <1>1, <1>5, <1>6, <1>8 DEF e
  <2>2. \A b, c : After(r, b, c) <=>
          \E i, j \in 1 .. n + 1 :
            i < j /\ es[i].id = b /\ es[j].id = c /\ es[i].exp > t /\ es[j].exp > t
    BY <1>1, <1>5, <1>6, <1>8 DEF e
  <2>3. Keeps(es, n + 1, t, r)
    BY <1>1, <2>1, <2>2 DEF Keeps
  <2> QED
    BY <1>8, <2>3 DEF e
<1>9. CASE e.exp > t
  <2> DEFINE u == Append(r, e)
  <2>1. \A b : Known(b, r) <=> \E i \in 1 .. n : es[i].id = b /\ es[i].exp > t
    <3>1. \A b : Known(b, r) <=> \E x : Holds(r, b, x)
      BY <1>1, WindowFacts
    <3>2. ASSUME NEW b, NEW i \in 1 .. n, es[i].id = b, es[i].exp > t PROVE Holds(r, b, es[i].exp)
      BY <1>1, <3>2
    <3>3. ASSUME NEW b, NEW x, Holds(r, b, x)
          PROVE  \E i \in 1 .. n : es[i].id = b /\ es[i].exp > t
      BY <1>1, <3>3
    <3> QED
      BY <3>1, <3>2, <3>3
  <2>2. ~Known(e.id, r)
    <3>1. \A i \in 1 .. n : i \in 1 .. Len(es) /\ i # n + 1
      BY <1>2
    <3>2. n + 1 \in 1 .. Len(es)
      BY <1>2
    <3> QED
      BY <1>3, <2>1, <3>1, <3>2, SMTT(30) DEF e
  <2>3. /\ IsWindow(u)
        /\ \A c, x : Holds(u, c, x) <=> Holds(r, c, x) \/ (c = e.id /\ x = e.exp)
        /\ \A c, d : After(u, c, d) <=> After(r, c, d) \/ (Known(c, r) /\ d = e.id)
    BY <1>1, <1>4, <2>2, AppendIs
  <2> HIDE DEF u
  <2>4. \A b, x : Holds(u, b, x) <=> \E i \in 1 .. n + 1 : es[i].id = b /\ es[i].exp = x /\ x > t
    BY <1>1, <1>5, <1>6, <1>7, <1>9, <2>3 DEF e
  <2>5. ASSUME NEW b, NEW c
        PROVE  After(u, b, c) <=>
          \E i, j \in 1 .. n + 1 :
            i < j /\ es[i].id = b /\ es[j].id = c /\ es[i].exp > t /\ es[j].exp > t
    <3>1. ASSUME After(u, b, c)
          PROVE  \E i, j \in 1 .. n + 1 :
                   i < j /\ es[i].id = b /\ es[j].id = c /\ es[i].exp > t /\ es[j].exp > t
      <4>1. CASE After(r, b, c)
        BY <1>1, <1>6, <4>1
      <4>2. CASE Known(b, r) /\ c = e.id
        BY <1>6, <1>7, <1>9, <2>1, <4>2 DEF e
      <4> QED
        BY <2>3, <3>1, <4>1, <4>2
    <3>2. ASSUME NEW i \in 1 .. n + 1, NEW j \in 1 .. n + 1, i < j,
                 es[i].id = b, es[j].id = c, es[i].exp > t, es[j].exp > t
          PROVE  After(u, b, c)
      <4>1. i \in 1 .. n
        BY <3>2
      <4>2. CASE j = n + 1
        BY <2>1, <2>3, <3>2, <4>1, <4>2 DEF e
      <4>3. CASE j # n + 1
        BY <1>1, <1>5, <2>3, <3>2, <4>1, <4>3
      <4> QED
        BY <4>2, <4>3
    <3> QED
      BY <3>1, <3>2
  <2>6. Keeps(es, n + 1, t, u)
    BY <2>3, <2>4, <2>5 DEF Keeps
  <2> QED
    BY <1>9, <2>6 DEF e, u
<1> QED
  BY <1>8, <1>9

\* The function that Unexpired is defined with exists.
LEMMA UnexpiredExists ==
  ASSUME NEW es, Len(es) \in Nat, NEW t
  PROVE  \E f : f = [n \in 0 .. Len(es) |->
                       IF n = 0 THEN << >>
                       ELSE IF es[n].exp > t THEN Append(f[n - 1], es[n]) ELSE f[n - 1]]
<1> DEFINE Upto(m, f) == f = [n \in 0 .. m |->
                                IF n = 0 THEN << >>
                                ELSE IF es[n].exp > t THEN Append(f[n - 1], es[n]) ELSE f[n - 1]]
           bad == {m \in Nat : ~ \E f : Upto(m, f)}
<1>1. bad = {}
  <2> SUFFICES ASSUME bad # {} PROVE FALSE
    OBVIOUS
  <2>1. PICK k \in bad : \A j \in bad : ~(j < k)
    <3>1. PICK k \in bad : \A j \in bad : <<j, k>> \notin OpToRel(<, Nat)
      <4>1. bad \subseteq Nat
        OBVIOUS
      <4> HIDE DEF bad
      <4> QED
        BY <4>1, WFMin, NatLessThanWellFounded
    <3>2. \A j \in bad : j \in Nat
      OBVIOUS
    <3> HIDE DEF bad
    <3> QED
      BY <3>1, <3>2 DEF OpToRel
  <2>2. k # 0
    <3> DEFINE f == [n \in 0 .. 0 |-> << >>]
    <3>1. Upto(0, f)
      OBVIOUS
    <3> QED
      BY <3>1
  <2>3. PICK f : Upto(k - 1, f)
    <3>1. k - 1 \in Nat /\ k - 1 < k
      BY <2>2
    <3>2. k - 1 \notin bad
      BY <2>1, <3>1
    <3> QED
      BY <3>1, <3>2
  <2> DEFINE g == [n \in 0 .. k |-> IF n = k THEN Kept(f, es, t, k) ELSE f[n]]
  <2>4. \A n \in 0 .. k : g[n] = IF n = 0 THEN << >> ELSE Kept(g, es, t, n)
    <3>1. f[0] = << >> /\ \A n \in 1 .. k - 1 : f[n] = Kept(f, es, t, n)
      <4>1. /\ f[0] = << >>
            /\ \A n \in 1 .. k - 1 :
                 f[n] = IF es[n].exp > t THEN Append(f[n - 1], es[n]) ELSE f[n - 1]
        <5> DEFINE F(n) == IF n = 0 THEN << >>
                           ELSE IF es[n].exp > t THEN Append(f[n - 1], es[n]) ELSE f[n - 1]
        <5>1. f = [n \in 0 .. k - 1 |-> F(n)]
          BY <2>3
        <5> HIDE DEF F
        <5>2. \A n \in 0 .. k - 1 : f[n] = F(n)
          BY <5>1
        <5>3. F(0) = << >> /\ 0 \in 0 .. k - 1
          BY <2>2 DEF F
        <5>4. \A n \in 1 .. k - 1 :
                n \in 0 .. k - 1 /\ F(n) = IF es[n].exp > t THEN Append(f[n - 1], es[n]) ELSE f[n - 1]
          BY DEF F
        <5> QED
          BY <5>2, <5>3, <5>4
      <4> QED
        BY <4>1 DEF Kept
    <3>2. /\ \A n \in 0 .. k - 1 : g[n] = f[n]
          /\ g[k] = Kept(f, es, t, k)
      OBVIOUS
    <3> HIDE DEF g
    <3>3. \A n \in 1 .. k : Kept(g, es, t, n) = Kept(f, es, t, n)
      BY <3>2 DEF Kept
    <3> QED
      BY <2>2, <3>1, <3>2, <3>3
  <2>5. Upto(k, g)
    <3> DEFINE h == [n \in 0 .. k |->
                       IF n = 0 THEN << >>
                       ELSE IF es[n].exp > t THEN Append(g[n - 1], es[n]) ELSE g[n - 1]]
    <3>1. \A n \in 0 .. k : g[n] = h[n]
      BY <2>4 DEF Kept
    <3>2. g = [n \in 0 .. k |-> g[n]] /\ h = [n \in 0 .. k |-> h[n]]
      OBVIOUS
    <3> HIDE DEF g, h
    <3>3. g = h
      BY <3>1, <3>2
    <3> QED
      BY <3>3 DEF h
  <2> QED
    BY <2>5
<1> QED
  BY <1>1

LEMMA UnexpiredIs ==
  ASSUME NEW es, IsWindow(es), NEW t \in Int
  PROVE  LET r == Unexpired(es, t)
         IN /\ IsWindow(r)
            /\ \A b, x : Holds(r, b, x) <=> Holds(es, b, x) /\ x > t
            /\ \A b, c : After(r, b, c) <=> After(es, b, c) /\ Known(b, r) /\ Known(c, r)
<1> DEFINE Steps(f) == f = [n \in 0 .. Len(es) |->
                              IF n = 0 THEN << >>
                              ELSE IF es[n].exp > t THEN Append(f[n - 1], es[n]) ELSE f[n - 1]]
           f == CHOOSE f : Steps(f)
           r == f[Len(es)]
           bad == {m \in 0 .. Len(es) : ~Keeps(es, m, t, f[m])}
<1>0. Len(es) \in Nat /\ DOMAIN es = 1 .. Len(es)
  BY WindowFacts
<1>1. Steps(f)
  BY <1>0, UnexpiredExists
<1>2. Unexpired(es, t) = r
  BY DEF Unexpired
<1> HIDE DEF f
<1>3. f[0] = << >> /\ \A n \in 1 .. Len(es) : f[n] = Kept(f, es, t, n)
  <2>1. /\ f[0] = << >>
        /\ \A n \in 1 .. Len(es) :
             f[n] = IF es[n].exp > t THEN Append(f[n - 1], es[n]) ELSE f[n - 1]
    <3> DEFINE F(n) == IF n = 0 THEN << >>
                       ELSE IF es[n].exp > t THEN Append(f[n - 1], es[n]) ELSE f[n - 1]
    <3>1. f = [n \in 0 .. Len(es) |-> F(n)]
      BY <1>1
    <3> HIDE DEF F
    <3>2. \A n \in 0 .. Len(es) : f[n] = F(n)
      BY <3>1
    <3>3. F(0) = << >> /\ 0 \in 0 .. Len(es)
      BY <1>0 DEF F
    <3>4. \A n \in 1 .. Len(es) :
            n \in 0 .. Len(es) /\ F(n) = IF es[n].exp > t THEN Append(f[n - 1], es[n]) ELSE f[n - 1]
      BY <1>0 DEF F
    <3> QED
      BY <3>2, <3>3, <3>4
  <2> QED
    BY <2>1 DEF Kept
<1>4. bad = {}
  <2> SUFFICES ASSUME bad # {} PROVE FALSE
    OBVIOUS
  <2>1. PICK k \in bad : \A j \in bad : ~(j < k)
    <3>1. PICK k \in bad : \A j \in bad : <<j, k>> \notin OpToRel(<, Nat)
      <4>1. bad \subseteq Nat
        BY <1>0
      <4> HIDE DEF bad
      <4> QED
        BY <4>1, WFMin, NatLessThanWellFounded
    <3>2. \A j \in bad : j \in Nat
      BY <1>0
    <3> HIDE DEF bad
    <3> QED
      BY <3>1, <3>2 DEF OpToRel
  <2>2. Keeps(es, 0, t, << >>)
    BY EmptySeq DEF Keeps, IsWindow, Holds, After
  <2>3. k # 0
    BY <1>3, <2>2
  <2>4. k - 1 \in 0 .. Len(es) /\ k - 1 + 1 = k /\ k - 1 < k
    BY <1>0, <2>3
  <2>5. Keeps(es, k - 1, t, f[k - 1])
    BY <2>1, <2>4
  <2>6. Keeps(es, k, t, IF es[k].exp > t THEN Append(f[k - 1], es[k]) ELSE f[k - 1])
    BY <1>0, <2>3, <2>4, <2>5, KeepStep
  <2> QED
    BY <1>3, <2>3, <2>6 DEF Kept
<1>5. Keeps(es, Len(es), t, r)
  BY <1>0, <1>4
<1> HIDE DEF r
<1>6. /\ IsWindow(r)
      /\ \A b, x : Holds(r, b, x) <=> \E i \in 1 .. Len(es) : es[i].id = b /\ es[i].exp = x /\ x > t
      /\ \A b, c : After(r, b, c) <=>
           \E i, j \in 1 .. Len(es) :
             i < j /\ es[i].id = b /\ es[j].id = c /\ es[i].exp > t /\ es[j].exp > t
  BY <1>5 DEF Keeps
<1>7. \A b, x : Holds(r, b, x) <=> Holds(es, b, x) /\ x > t
  BY <1>0, <1>6 DEF Holds
<1>8. ASSUME NEW b, NEW c
      PROVE  After(r, b, c) <=> After(es, b, c) /\ Known(b, r) /\ Known(c, r)
  <2>1. ASSUME After(r, b, c) PROVE After(es, b, c) /\ Known(b, r) /\ Known(c, r)
    <3>1. Known(b, r) /\ Known(c, r)
      BY <1>6, <2>1, WindowFacts
    <3>2. PICK i, j \in 1 .. Len(es) : i < j /\ es[i].id = b /\ es[j].id = c
      BY <1>6, <2>1
    <3>3. After(es, b, c)
      BY <1>0, <3>2 DEF After
    <3> QED
      BY <3>1, <3>3
  <2>2. ASSUME After(es, b, c), Known(b, r), Known(c, r) PROVE After(r, b, c)
    <3>1. ~After(es, c, b) /\ b # c
      BY <2>2, WindowFacts
    <3>2. ASSUME After(r, c, b) PROVE After(es, c, b)
      <4>1. PICK i, j \in 1 .. Len(es) : i < j /\ es[i].id = c /\ es[j].id = b
        BY <1>6, <3>2
      <4> QED
        BY <1>0, <4>1 DEF After
    <3> QED
      BY <1>6, <2>2, <3>1, <3>2, WindowFacts
  <2> QED
    BY <2>1, <2>2
<1> QED
  BY <1>2, <1>6, <1>7, <1>8

\* The last line of the journal for b is p, and it gives an expiry.
FinalAt(log, p, b) == FinalIn(log, Len(log), p, b)

LEMMA RestoredIs ==
  ASSUME journal.log \in Seq(Line), clock \in Int
  PROVE  /\ IsWindow(Restored)
         /\ \A b, x : Holds(Restored, b, x) <=>
              x > clock /\ \E p : FinalAt(journal.log, p, b) /\ journal.log[p].exp = x
         /\ \A b, c, p, q :
              /\ FinalAt(journal.log, p, b) /\ journal.log[p].exp > clock
              /\ FinalAt(journal.log, q, c) /\ journal.log[q].exp > clock
              /\ p < q
              => After(Restored, b, c)
         /\ \A b, c : After(Restored, b, c) =>
              \E p, q : /\ FinalAt(journal.log, p, b) /\ FinalAt(journal.log, q, c) /\ p < q
                        /\ journal.log[p].exp > clock /\ journal.log[q].exp > clock
<1> DEFINE log == journal.log
           all == Replayed(log)
           r == Restored
<1>1. /\ IsWindow(all)
      /\ \A b, x : Holds(all, b, x) <=> \E p : FinalAt(log, p, b) /\ log[p].exp = x
      /\ \A b, c, p, q : FinalAt(log, p, b) /\ FinalAt(log, q, c) /\ p < q => After(all, b, c)
  BY ReplayedIs DEF Yields, FinalAt
<1>2. /\ IsWindow(r)
      /\ \A b, x : Holds(r, b, x) <=> Holds(all, b, x) /\ x > clock
      /\ \A b, c : After(r, b, c) <=> After(all, b, c) /\ Known(b, r) /\ Known(c, r)
  BY <1>1, UnexpiredIs DEF Restored
<1> HIDE DEF all, r, log
<1>3. \A b, x : Holds(r, b, x) <=> x > clock /\ \E p : FinalAt(log, p, b) /\ log[p].exp = x
  BY <1>1, <1>2
<1>4. \A b, p : FinalAt(log, p, b) /\ log[p].exp > clock => Known(b, r)
  <2>1. \A b, x : Holds(r, b, x) => Known(b, r)
    BY <1>2, WindowFacts
  <2> QED
    BY <1>3, <2>1
<1>5. \A b, c, p, q : /\ FinalAt(log, p, b) /\ log[p].exp > clock
                      /\ FinalAt(log, q, c) /\ log[q].exp > clock
                      /\ p < q
                      => After(r, b, c)
  BY <1>1, <1>2, <1>4
<1>6. ASSUME NEW b, NEW c, After(r, b, c)
      PROVE  \E p, q : /\ FinalAt(log, p, b) /\ FinalAt(log, q, c) /\ p < q
                       /\ log[p].exp > clock /\ log[q].exp > clock
  <2>1. Known(b, r) /\ Known(c, r) /\ b # c /\ ~After(r, c, b)
    BY <1>2, <1>6, WindowFacts
  <2>2. (\E x \in Expiry : Holds(r, b, x)) /\ (\E y \in Expiry : Holds(r, c, y))
    BY <1>2, <2>1, WindowFacts
  <2>3. PICK p : FinalAt(log, p, b) /\ log[p].exp > clock
    BY <1>3, <2>2
  <2>4. PICK q : FinalAt(log, q, c) /\ log[q].exp > clock
    BY <1>3, <2>2
  <2>5. p \in Int /\ q \in Int /\ p # q
    <3>1. /\ p \in 1 .. Len(log) /\ log[p].id = b
          /\ q \in 1 .. Len(log) /\ log[q].id = c
      BY <2>3, <2>4 DEF FinalAt, FinalIn
    <3>2. p # q
      BY <2>1, <3>1
    <3> QED
      BY <3>1, <3>2
  <2>6. ~(q < p)
    BY <1>5, <2>1, <2>3, <2>4
  <2>7. p < q
    BY <2>5, <2>6
  <2> QED
    BY <2>3, <2>4, <2>7
<1> QED
  BY <1>2, <1>3, <1>5, <1>6 DEF r, log

\* If all that follows b in one window follows it in another one, b is as near to the
\* end of the first as of the second.
LEMMA NearTheEnd ==
  ASSUME NEW r, IsWindow(r), NEW es, IsWindow(es), NEW i \in 1 .. Len(r), Known(r[i].id, es),
         \A c : After(r, r[i].id, c) => After(es, r[i].id, c)
  PROVE  Len(r) - i < Len(es)
<1> DEFINE b == r[i].id
<1>1. /\ Len(r) \in Nat /\ DOMAIN r = 1 .. Len(r)
      /\ Len(es) \in Nat /\ DOMAIN es = 1 .. Len(es)
  BY WindowFacts
<1>2. /\ \A k, n \in 1 .. Len(r) : r[k].id = r[n].id => k = n
      /\ \A k, n \in 1 .. Len(es) : es[k].id = es[n].id => k = n
  BY <1>1 DEF IsWindow
<1>3. \A k \in i .. Len(r) : Known(r[k].id, es)
  <2>1. ASSUME NEW k \in i .. Len(r), k # i PROVE Known(r[k].id, es)
    <3>1. After(r, b, r[k].id)
      BY <1>1, <2>1 DEF After
    <3>2. After(es, b, r[k].id)
      BY <3>1
    <3> QED
      BY <3>2, WindowFacts
  <2> QED
    BY <2>1
<1> DEFINE f == [k \in i .. Len(r) |-> CHOOSE n \in 1 .. Len(es) : es[n].id = r[k].id]
<1>4. \A k \in i .. Len(r) : f[k] \in 1 .. Len(es) /\ es[f[k]].id = r[k].id
  BY <1>1, <1>3 DEF Known
<1>5. f \in Injection(i .. Len(r), 1 .. Len(es))
  <2>1. f \in [i .. Len(r) -> 1 .. Len(es)]
    BY <1>4
  <2>2. DOMAIN f = i .. Len(r)
    OBVIOUS
  <2> HIDE DEF f
  <2>3. \A k, n \in i .. Len(r) : f[k] = f[n] => k = n
    <3>1. \A k \in i .. Len(r) : k \in 1 .. Len(r)
      BY <1>1
    <3> QED
      BY <1>2, <1>4, <3>1
  <2> QED
    BY <2>1, <2>2, <2>3 DEF Injection, IsInjective
<1>6. IsFiniteSet(1 .. Len(es)) /\ Cardinality(1 .. Len(es)) = Len(es)
  <2>1. 1 \in Int /\ Len(es) \in Int
    BY <1>1
  <2>2. /\ IsFiniteSet(1 .. Len(es))
        /\ Cardinality(1 .. Len(es)) = IF 1 > Len(es) THEN 0 ELSE Len(es) - 1 + 1
    BY <2>1, FS_Interval
  <2>3. Len(es) \in Nat
    BY <1>1
  <2>4. (IF 1 > Len(es) THEN 0 ELSE Len(es) - 1 + 1) = Len(es)
    BY <2>3
  <2> QED
    BY <2>2, <2>4
<1>7. Cardinality(i .. Len(r)) = Len(r) - i + 1
  <2>1. i \in Int /\ Len(r) \in Int
    BY <1>1
  <2>2. Cardinality(i .. Len(r)) = IF i > Len(r) THEN 0 ELSE Len(r) - i + 1
    BY <2>1, FS_Interval
  <2> QED
    BY <1>1, <2>2
<1>8. Cardinality(i .. Len(r)) <= Cardinality(1 .. Len(es))
  <2> HIDE DEF f
  <2> QED
    BY <1>5, <1>6, FS_Injection
<1> QED
  BY <1>1, <1>6, <1>7, <1>8

-----------------------------------------------------------------------------
(* What the operations do to the journal *)

Journal == [log : Seq(Line), torn : BOOLEAN, errors : 0 .. MaxErrors, on : BOOLEAN, lost : SUBSET Id]

JournalShape(j) ==
  /\ j \in Journal
  /\ j.on = (Persist /\ j.errors < MaxErrors)
  /\ j.torn => j.log # << >>

\* Every entry in the log is e or is in the older log.
NothingElse(log, older, e) ==
  \A p \in DOMAIN log : log[p] \in Entry => log[p] = e \/ \E q \in DOMAIN older : log[p] = older[q]

\* A line for b has been written to j, as far as the ids know that are not lost.
Wrote(k, j, line, b) ==
  /\ JournalShape(k) /\ NothingElse(k.log, j.log, line)
  /\ \A c \in Id \ k.lost : c # b =>
       /\ c \notin j.lost
       /\ \A p : FinalAt(k.log, p, c) <=> FinalAt(j.log, p, c)
       /\ \A p : FinalAt(k.log, p, c) => k.log[p] = j.log[p] /\ p <= Len(j.log)
  /\ b \notin k.lost =>
       /\ Len(k.log) = Len(j.log) + 1 /\ k.log[Len(k.log)] = line
       /\ \A p : FinalAt(k.log, p, b) <=> p = Len(k.log) /\ line \in Entry

LEMMA PieceIs == Piece \in Line /\ IdOf(Piece) = {} /\ Piece \notin Entry
<1>1. Piece \in [cut : {TRUE}] /\ DOMAIN Piece = {"cut"}
  BY DEF Piece
<1>2. Piece \notin Entry
  BY <1>1 DEF Entry
<1> QED
  BY <1>1, <1>2 DEF Line, IdOf

\* Appending a line disturbs the final lines of its own ids only,
LEMMA AppendLine ==
  ASSUME NEW log \in Seq(Line), NEW line \in Line
  PROVE  /\ Append(log, line) \in Seq(Line) /\ Len(Append(log, line)) = Len(log) + 1
         /\ Append(log, line)[Len(log) + 1] = line
         /\ NothingElse(Append(log, line), log, line)
         /\ \A c, p : c \notin IdOf(line) =>
              (FinalAt(Append(log, line), p, c) <=> FinalAt(log, p, c))
         /\ \A p \in 1 .. Len(log) : Append(log, line)[p] = log[p]
         /\ \A c, p : FinalAt(log, p, c) => p \in 1 .. Len(log)
         /\ \A p : \A c \in IdOf(line) :
              FinalAt(Append(log, line), p, c) <=> p = Len(log) + 1 /\ line \in Entry
<1> DEFINE r == Append(log, line)
<1>1. /\ r \in Seq(Line) /\ Len(r) = Len(log) + 1 /\ DOMAIN r = 1 .. Len(log) + 1
      /\ r[Len(log) + 1] = line /\ \A p \in 1 .. Len(log) : r[p] = log[p]
      /\ Len(log) \in Nat /\ DOMAIN log = 1 .. Len(log)
  BY AppendProperties
<1> HIDE DEF r
<1>2. NothingElse(r, log, line)
  BY <1>1 DEF NothingElse
<1>3. ASSUME NEW c, NEW p, c \notin IdOf(line) PROVE FinalAt(r, p, c) <=> FinalAt(log, p, c)
  <2>1. line \in Entry => line.id # c
    BY <1>3, LineKinds
  <2>2. ASSUME FinalAt(r, p, c) PROVE FinalAt(log, p, c)
    BY <1>1, <2>1, <2>2 DEF FinalAt, FinalIn
  <2>3. ASSUME FinalAt(log, p, c) PROVE FinalAt(r, p, c)
    <3>1. \A q \in p + 1 .. Len(log) + 1 : q \in p + 1 .. Len(log) \/ q = Len(log) + 1
      BY <1>1, <2>3 DEF FinalAt, FinalIn
    <3>2. \A q \in p + 1 .. Len(log) : q \in 1 .. Len(log)
      BY <1>1, <2>3 DEF FinalAt, FinalIn
    <3> QED
      BY <1>1, <1>3, <2>3, <3>1, <3>2 DEF FinalAt, FinalIn
  <2> QED
    BY <2>2, <2>3
<1>4. ASSUME NEW c \in IdOf(line), NEW p
      PROVE  FinalAt(r, p, c) <=> p = Len(log) + 1 /\ line \in Entry
  <2>1. line \in Entry => line.id = c
    BY LineKinds
  <2>2. ASSUME FinalAt(r, p, c) PROVE p = Len(log) + 1 /\ line \in Entry
    BY <1>1, <2>2 DEF FinalAt, FinalIn
  <2>3. ASSUME p = Len(log) + 1, line \in Entry PROVE FinalAt(r, p, c)
    BY <1>1, <2>1, <2>3 DEF FinalAt, FinalIn
  <2> QED
    BY <2>2, <2>3
<1>5. \A c, p : FinalAt(log, p, c) => p \in 1 .. Len(log)
  BY DEF FinalAt, FinalIn
<1> QED
  BY <1>1, <1>2, <1>3, <1>4, <1>5 DEF r

\* and so does spoiling the last line by a piece.
LEMMA SpoilLast ==
  ASSUME NEW log \in Seq(Line), log # << >>
  PROVE  LET r == Append(Front(log), Piece)
         IN /\ r \in Seq(Line) /\ Len(r) = Len(log) /\ NothingElse(r, log, Piece)
            /\ \A p \in DOMAIN r : r[p] \in Entry => \E q \in DOMAIN log : r[p] = log[q]
            /\ \A c, p : c \notin IdOf(Last(log)) =>
                 /\ FinalAt(r, p, c) <=> FinalAt(log, p, c)
                 /\ FinalAt(r, p, c) => r[p] = log[p] /\ p <= Len(log)
            /\ Last(log) \in Line /\ IdOf(Last(log)) \subseteq Id
<1> DEFINE n == Len(log) - 1
           u == Front(log)
           r == Append(u, Piece)
<1>1. /\ Len(log) \in Nat /\ Len(log) > 0 /\ DOMAIN log = 1 .. Len(log)
      /\ \A i \in 1 .. Len(log) : log[i] \in Line
  BY EmptySeq
<1>2. u \in Seq(Line) /\ Len(u) = n /\ \A i \in 1 .. n : u[i] = log[i]
  <2>1. \A i \in 1 .. Len(log) - 1 : log[i] \in Line
    BY <1>1
  <2>2. /\ u \in Seq(Line)
        /\ Len(u) = IF 1 <= Len(log) - 1 THEN Len(log) - 1 - 1 + 1 ELSE 0
        /\ \A i \in 1 .. Len(log) - 1 - 1 + 1 : u[i] = log[1 + i - 1]
    BY <1>1, <2>1, SubSeqProperties DEF Front
  <2> HIDE DEF u
  <2>3. Len(log) \in Nat /\ Len(log) > 0
    BY <1>1
  <2>4. Len(u) = Len(log) - 1
    <3> DEFINE m == Len(log)
    <3>1. (IF 1 <= m - 1 THEN m - 1 - 1 + 1 ELSE 0) = m - 1
      <4> HIDE DEF m
      <4>1. m \in Nat /\ m > 0
        BY <2>3 DEF m
      <4> QED
        BY <4>1
    <3> QED
      BY <2>2, <3>1
  <2>5. \A i \in 1 .. Len(log) - 1 : i \in 1 .. Len(log) - 1 - 1 + 1 /\ 1 + i - 1 = i
    BY <2>3
  <2> QED
    BY <2>2, <2>4, <2>5
<1>3. n \in Nat /\ n + 1 = Len(log)
  BY <1>1
<1>4. Last(log) \in Line /\ Last(log) = log[Len(log)]
  BY <1>1 DEF Last
<1> HIDE DEF u, n
<1>5. /\ r \in Seq(Line) /\ Len(r) = n + 1 /\ DOMAIN r = 1 .. n + 1
      /\ r[n + 1] = Piece /\ \A p \in 1 .. n : r[p] = log[p]
  BY <1>2, <1>3, PieceIs, AppendProperties
<1> HIDE DEF r
<1>6. \A p \in DOMAIN r : r[p] \in Entry => \E q \in DOMAIN log : r[p] = log[q]
  <2> SUFFICES ASSUME NEW p \in 1 .. n + 1, r[p] \in Entry PROVE \E q \in DOMAIN log : r[p] = log[q]
    BY <1>5
  <2>1. p \in 1 .. n
    BY <1>3, <1>5, PieceIs
  <2>2. p \in DOMAIN log
    BY <1>1, <1>3, <2>1
  <2> QED
    BY <1>5, <2>1, <2>2
<1>7. ASSUME NEW c, NEW p, c \notin IdOf(Last(log))
      PROVE  /\ FinalAt(r, p, c) <=> FinalAt(log, p, c)
             /\ FinalAt(r, p, c) => r[p] = log[p] /\ p <= Len(log)
  <2>1. log[n + 1] \in Entry => log[n + 1].id # c
    BY <1>3, <1>4, <1>7, LineKinds
  <2>2. ASSUME FinalAt(r, p, c) PROVE FinalAt(log, p, c) /\ r[p] = log[p] /\ p <= Len(log)
    <3>1. p \in 1 .. n
      BY <1>3, <1>5, <2>2, PieceIs DEF FinalAt, FinalIn
    <3>2. \A q \in p + 1 .. n + 1 : q \in p + 1 .. n \/ q = n + 1
      BY <1>3, <3>1
    <3>3. \A q \in p + 1 .. n : q \in 1 .. n /\ q \in p + 1 .. n + 1
      BY <1>3, <3>1
    <3>4. \A q \in p + 1 .. n + 1 : c \notin IdOf(log[q])
      BY <1>3, <1>4, <1>5, <1>7, <2>2, <3>2, <3>3 DEF FinalAt, FinalIn
    <3> QED
      BY <1>3, <1>5, <2>2, <3>1, <3>4 DEF FinalAt, FinalIn
  <2>3. ASSUME FinalAt(log, p, c) PROVE FinalAt(r, p, c)
    <3>1. p \in 1 .. n
      BY <1>3, <2>1, <2>3 DEF FinalAt, FinalIn
    <3>2. \A q \in p + 1 .. n + 1 : q \in p + 1 .. n \/ q = n + 1
      BY <1>3, <3>1
    <3>3. \A q \in p + 1 .. n : q \in 1 .. n /\ q \in p + 1 .. n + 1
      BY <1>3, <3>1
    <3>4. \A q \in p + 1 .. n + 1 : c \notin IdOf(r[q])
      BY <1>3, <1>5, <2>3, <3>2, <3>3, PieceIs DEF FinalAt, FinalIn
    <3> QED
      BY <1>3, <1>5, <2>3, <3>1, <3>4 DEF FinalAt, FinalIn
  <2> QED
    BY <2>2, <2>3
<1>8. IdOf(Last(log)) \subseteq Id
  BY <1>4, LineKinds
<1>9. NothingElse(r, log, Piece)
  BY <1>6 DEF NothingElse
<1> QED
  BY <1>3, <1>4, <1>5, <1>6, <1>7, <1>8, <1>9 DEF r, u

\* k is x with the line l added.
Lengthened(k, x, l) ==
  /\ k \in Journal /\ k.log # << >> /\ k.errors = x.errors /\ k.on = x.on
  /\ \A p \in DOMAIN k.log : k.log[p] \in Entry =>
       k.log[p] = l \/ \E q \in DOMAIN x.log : k.log[p] = x.log[q]
  /\ \A c \in Id \ k.lost : c \notin IdOf(l) =>
       /\ c \notin x.lost
       /\ \A p : FinalAt(k.log, p, c) <=> FinalAt(x.log, p, c)
       /\ \A p : FinalAt(k.log, p, c) => k.log[p] = x.log[p] /\ p <= Len(x.log)
  /\ \A c \in IdOf(l) \ k.lost :
       /\ Len(k.log) = Len(x.log) + 1 /\ k.log[Len(k.log)] = l
       /\ \A p : FinalAt(k.log, p, c) <=> p = Len(k.log) /\ l \in Entry

LEMMA LongerIs ==
  ASSUME NEW x \in Journal, x.torn => x.log # << >>, NEW l \in Line, NEW k, k = Longer(x, l)
  PROVE  Lengthened(k, x, l)
<1>1. /\ x.log \in Seq(Line) /\ Len(x.log) \in Nat /\ x.lost \subseteq Id /\ IdOf(l) \subseteq Id
      /\ x.torn \in BOOLEAN
  BY LineKinds DEF Journal
<1>2. CASE x.torn
  <2> DEFINE r == Append(Front(x.log), Piece)
             lost == x.lost \cup IdOf(Last(x.log)) \cup IdOf(l)
  <2>1. /\ r \in Seq(Line) /\ Len(r) = Len(x.log) /\ NothingElse(r, x.log, Piece)
        /\ \A p \in DOMAIN r : r[p] \in Entry => \E q \in DOMAIN x.log : r[p] = x.log[q]
        /\ \A c, p : c \notin IdOf(Last(x.log)) =>
             /\ FinalAt(r, p, c) <=> FinalAt(x.log, p, c)
             /\ FinalAt(r, p, c) => r[p] = x.log[p] /\ p <= Len(x.log)
        /\ IdOf(Last(x.log)) \subseteq Id
    BY <1>1, <1>2, SpoilLast
  <2>2. k = [x EXCEPT !.log = r, !.lost = lost]
    BY <1>2 DEF Longer
  <2>3. r # << >>
    BY <1>1, <1>2, <2>1, EmptySeq
  <2> HIDE DEF r
  <2>4. lost \subseteq Id
    BY <1>1, <2>1
  <2>5. \A c : c \notin lost => c \notin x.lost /\ c \notin IdOf(Last(x.log)) /\ c \notin IdOf(l)
    OBVIOUS
  <2> HIDE DEF lost
  <2>6. k \in Journal /\ k.log = r /\ k.lost = lost /\ k.errors = x.errors /\ k.on = x.on
    BY <2>1, <2>2, <2>4 DEF Journal
  <2> QED
    BY <2>1, <2>3, <2>5, <2>6 DEF Lengthened
<1>3. CASE ~x.torn
  <2> DEFINE r == Append(x.log, l)
             lost == x.lost \ IdOf(l)
  <2>1. /\ r \in Seq(Line) /\ Len(r) = Len(x.log) + 1 /\ r[Len(x.log) + 1] = l
        /\ NothingElse(r, x.log, l)
        /\ \A c, p : c \notin IdOf(l) => (FinalAt(r, p, c) <=> FinalAt(x.log, p, c))
        /\ \A p \in 1 .. Len(x.log) : r[p] = x.log[p]
        /\ \A c, p : FinalAt(x.log, p, c) => p \in 1 .. Len(x.log)
        /\ \A p : \A c \in IdOf(l) : FinalAt(r, p, c) <=> p = Len(x.log) + 1 /\ l \in Entry
    BY <1>1, AppendLine
  <2>2. k = [x EXCEPT !.log = r, !.lost = lost]
    BY <1>3 DEF Longer
  <2>3. r # << >>
    BY <1>1, <2>1, EmptySeq
  <2> HIDE DEF r
  <2>4. k \in Journal /\ k.log = r /\ k.lost = lost /\ k.errors = x.errors /\ k.on = x.on
    BY <1>1, <2>1, <2>2 DEF Journal
  <2>5. \A p \in DOMAIN r : r[p] \in Entry => r[p] = l \/ \E q \in DOMAIN x.log : r[p] = x.log[q]
    BY <2>1 DEF NothingElse
  <2>6. \A c \in Id \ lost : c \notin IdOf(l) =>
          /\ c \notin x.lost
          /\ \A p : FinalAt(r, p, c) <=> FinalAt(x.log, p, c)
          /\ \A p : FinalAt(r, p, c) => r[p] = x.log[p] /\ p <= Len(x.log)
    <3>1. \A p \in 1 .. Len(x.log) : p <= Len(x.log)
      OBVIOUS
    <3> QED
      BY <2>1, <3>1
  <2>7. \A c \in IdOf(l) \ lost :
          /\ Len(r) = Len(x.log) + 1 /\ r[Len(r)] = l
          /\ \A p : FinalAt(r, p, c) <=> p = Len(r) /\ l \in Entry
    BY <2>1
  <2> HIDE DEF lost
  <2> QED
    BY <2>3, <2>4, <2>5, <2>6, <2>7 DEF Lengthened
<1> QED
  BY <1>1, <1>2, <1>3 DEF Journal

LEMMA LoggedIs ==
  ASSUME NEW j, JournalShape(j), NEW line \in Line, NEW b \in Id, IdOf(line) = {b},
         NEW k \in Logged(j, line)
  PROVE  /\ Wrote(k, j, line, b)
         /\ j.on /\ ~JournalFails /\ b \notin j.lost /\ ~j.torn => b \notin k.lost
<1> DEFINE unlogged == [j EXCEPT !.lost = @ \cup {b}]
           Partly(part) == [Longer(unlogged, part) EXCEPT !.torn = TRUE, !.lost = @ \cup {b}]
           whole == [Longer(j, line) EXCEPT !.torn = FALSE, !.errors = 0]
<1>1. /\ j \in Journal /\ j.log \in Seq(Line) /\ j.errors \in 0 .. MaxErrors /\ j.on \in BOOLEAN
      /\ j.lost \subseteq Id /\ (j.torn => j.log # << >>)
      /\ j.on = (Persist /\ j.errors < MaxErrors) /\ j.torn \in BOOLEAN
      /\ MaxErrors \in Nat /\ MaxErrors > 0 /\ Persist \in BOOLEAN
  BY DedupAssumption DEF JournalShape, Journal, DedupAssumption
<1>2. /\ unlogged \in Journal /\ unlogged.log = j.log /\ unlogged.lost = j.lost \cup {b}
      /\ unlogged.errors = j.errors /\ unlogged.on = j.on /\ unlogged.torn = j.torn
  BY <1>1 DEF Journal
<1> HIDE DEF unlogged
<1>3. JournalShape(unlogged)
  BY <1>1, <1>2 DEF JournalShape
<1>4. Wrote(unlogged, j, line, b)
  <2>1. \A c, p : FinalAt(j.log, p, c) => p <= Len(j.log)
    <3>1. Len(j.log) \in Nat
      BY <1>1
    <3> QED
      BY <3>1 DEF FinalAt, FinalIn
  <2> QED
    BY <1>2, <1>3, <2>1 DEF Wrote, NothingElse
<1>5. ASSUME NEW part \in {line, Piece}
      PROVE  /\ Wrote(Partly(part), j, line, b) /\ Partly(part).errors = j.errors
             /\ Partly(part).on = j.on /\ Partly(part).log # << >>
  <2> DEFINE x == Longer(unlogged, part)
             y == Partly(part)
  <2>1. part \in Line /\ IdOf(part) \subseteq {b} /\ (part = line \/ part \notin Entry)
    BY PieceIs
  <2>x. x = Longer(unlogged, part) /\ y = [x EXCEPT !.torn = TRUE, !.lost = @ \cup {b}]
    OBVIOUS
  <2> HIDE DEF x, y
  <2>2. /\ x \in Journal /\ x.log # << >> /\ x.errors = j.errors /\ x.on = j.on
        /\ \A p \in DOMAIN x.log : x.log[p] \in Entry =>
              x.log[p] = part \/ \E q \in DOMAIN j.log : x.log[p] = j.log[q]
        /\ \A c \in Id \ x.lost : c \notin IdOf(part) =>
              /\ c \notin unlogged.lost
              /\ \A p : FinalAt(x.log, p, c) <=> FinalAt(j.log, p, c)
              /\ \A p : FinalAt(x.log, p, c) => x.log[p] = j.log[p] /\ p <= Len(j.log)
    <3>1. unlogged.torn => unlogged.log # << >>
      BY <1>1, <1>2
    <3> QED
      <4>1. Lengthened(x, unlogged, part)
        BY <1>2, <2>1, <2>x, <3>1, LongerIs
      <4> HIDE DEF Partly, whole
      <4> QED
        BY <1>2, <4>1 DEF Lengthened
  <2>4. /\ y \in Journal /\ y.log = x.log /\ y.lost = x.lost \cup {b} /\ y.errors = j.errors
        /\ y.on = j.on /\ y.torn = TRUE
    BY <2>2, <2>x DEF Journal
  <2>5. JournalShape(y)
    BY <1>1, <2>2, <2>4 DEF JournalShape
  <2>6. NothingElse(y.log, j.log, line)
    BY <2>1, <2>2, <2>4 DEF NothingElse
  <2>7. Wrote(y, j, line, b)
    BY <1>2, <2>1, <2>2, <2>4, <2>5, <2>6 DEF Wrote
  <2> QED
    BY <2>2, <2>4, <2>7 DEF y
<1>6. ASSUME j.on PROVE Wrote(whole, j, line, b) /\ (b \notin j.lost /\ ~j.torn => b \notin whole.lost)
  <2> DEFINE x == Longer(j, line)
             y == whole
  <2>x. x = Longer(j, line) /\ y = [x EXCEPT !.torn = FALSE, !.errors = 0]
    OBVIOUS
  <2> HIDE DEF x, y
  <2>1. /\ x \in Journal /\ x.log # << >> /\ x.errors = j.errors /\ x.on = j.on
        /\ \A p \in DOMAIN x.log : x.log[p] \in Entry =>
              x.log[p] = line \/ \E q \in DOMAIN j.log : x.log[p] = j.log[q]
        /\ \A c \in Id \ x.lost : c \notin IdOf(line) =>
              /\ c \notin j.lost
              /\ \A p : FinalAt(x.log, p, c) <=> FinalAt(j.log, p, c)
              /\ \A p : FinalAt(x.log, p, c) => x.log[p] = j.log[p] /\ p <= Len(j.log)
        /\ \A c \in IdOf(line) \ x.lost :
              /\ Len(x.log) = Len(j.log) + 1 /\ x.log[Len(x.log)] = line
              /\ \A p : FinalAt(x.log, p, c) <=> p = Len(x.log) /\ line \in Entry
    <3>1. j \in Journal /\ (j.torn => j.log # << >>)
      BY <1>1
    <3>2. Lengthened(x, j, line)
      BY <2>x, <3>1, LongerIs
    <3> QED
      BY <3>2 DEF Lengthened
  <2>2. ~j.torn => x.lost = j.lost \ {b}
    BY <1>1, <2>x DEF Longer, Journal
  <2>3. 0 \in 0 .. MaxErrors
    BY <1>1
  <2>4. /\ y \in Journal /\ y.log = x.log /\ y.lost = x.lost /\ y.errors = 0
        /\ y.on = j.on /\ y.torn = FALSE
    BY <2>1, <2>3, <2>x DEF Journal
  <2>5. JournalShape(y)
    BY <1>1, <1>6, <2>4 DEF JournalShape
  <2>6. NothingElse(y.log, j.log, line)
    BY <2>1, <2>4 DEF NothingElse
  <2>7. Wrote(y, j, line, b)
    BY <2>1, <2>4, <2>5, <2>6 DEF Wrote
  <2> QED
    BY <2>2, <2>4, <2>7 DEF y
<1>7. ASSUME NEW x, Wrote(x, j, line, b), x.errors = j.errors, x.on = j.on, j.on
      PROVE  Wrote(Failed(x), j, line, b)
  <2> DEFINE y == Failed(x)
  <2>1. x \in Journal /\ (x.torn => x.log # << >>)
    BY <1>7 DEF Wrote, JournalShape
  <2>2. y = [x EXCEPT !.errors = @ + 1, !.on = j.errors + 1 < MaxErrors]
    BY <1>7 DEF Failed
  <2> HIDE DEF y
  <2>3. /\ y \in Journal /\ y.log = x.log /\ y.lost = x.lost /\ y.torn = x.torn
        /\ y.errors = j.errors + 1 /\ y.on = (j.errors + 1 < MaxErrors)
    <3>0. j.errors < MaxErrors
      BY <1>1, <1>7
    <3>1. j.errors + 1 \in 0 .. MaxErrors /\ (j.errors + 1 < MaxErrors) \in BOOLEAN
      BY <1>1, <3>0
    <3> QED
      BY <1>7, <2>1, <2>2, <3>1 DEF Journal
  <2>4. JournalShape(y)
    BY <1>1, <1>7, <2>1, <2>3 DEF JournalShape
  <2>5. Wrote(y, j, line, b)
    BY <1>7, <2>3, <2>4 DEF Wrote
  <2> QED
    BY <2>5 DEF y
<1>8. \/ ~j.on /\ k = unlogged
      \/ j.on /\ k = whole
      \/ j.on /\ JournalFails /\ \E x \in {unlogged, Partly(line), Partly(Piece)} : k = Failed(x)
  BY <1>1 DEF Logged, unlogged
<1> HIDE DEF Partly, whole
<1>9. \A x \in {unlogged, Partly(line), Partly(Piece)} :
        Wrote(x, j, line, b) /\ x.errors = j.errors /\ x.on = j.on
  BY <1>2, <1>4, <1>5
<1> QED
  BY <1>4, <1>6, <1>7, <1>8, <1>9

\* The journal k holds the window es and nothing else, at time t.
Fresh(k, es, t) ==
  /\ k.lost = {} /\ ~k.torn /\ k.on /\ Len(k.log) = Len(es)
  /\ \A i \in 1 .. Len(es) :
       k.log[i] \in Entry /\ k.log[i].id = es[i].id /\ k.log[i].exp = clock + (es[i].exp - t)
  /\ \A p, c : FinalAt(k.log, p, c) <=> p \in 1 .. Len(es) /\ es[p].id = c

Unchanged(k, j) == k.log = j.log /\ k.lost = j.lost /\ (~JournalFails => k = j)

LEMMA CompactedIs ==
  ASSUME NEW j, JournalShape(j), NEW es, IsWindow(es), NEW t \in Time, clock \in Time, t <= clock,
         SweepDue(t) => \A i \in 1 .. Len(es) : es[i].exp < t + TTL,
         NEW k \in Compacted(j, es, t)
  PROVE  JournalShape(k) /\ (Unchanged(k, j) \/ (SweepDue(t) /\ Fresh(k, es, t)))
<1>1. /\ j \in Journal /\ j.log \in Seq(Line) /\ j.errors \in 0 .. MaxErrors /\ j.on \in BOOLEAN
      /\ j.lost \subseteq Id /\ (j.torn => j.log # << >>)
      /\ j.on = (Persist /\ j.errors < MaxErrors) /\ j.torn \in BOOLEAN
      /\ MaxErrors \in Nat /\ MaxErrors > 0 /\ Persist \in BOOLEAN
      /\ TTL \in Nat /\ MaxTime \in Nat
  BY DedupAssumption DEF JournalShape, Journal, DedupAssumption
<1>2. CASE k = j
  BY <1>1, <1>2 DEF Unchanged
<1>3. CASE j.on /\ JournalFails /\ k = Failed(j)
  <2>1. j.errors < MaxErrors
    BY <1>1, <1>3
  <2>2. j.errors + 1 \in 0 .. MaxErrors /\ (j.errors + 1 < MaxErrors) \in BOOLEAN
    BY <1>1, <2>1
  <2>3. k = [j EXCEPT !.errors = @ + 1, !.on = j.errors + 1 < MaxErrors]
    BY <1>3 DEF Failed
  <2>4. /\ k \in Journal /\ k.log = j.log /\ k.lost = j.lost /\ k.torn = j.torn
        /\ k.errors = j.errors + 1 /\ k.on = (j.errors + 1 < MaxErrors)
    BY <1>1, <2>2, <2>3 DEF Journal
  <2>5. JournalShape(k)
    BY <1>1, <1>3, <2>4 DEF JournalShape
  <2> QED
    BY <1>3, <2>4, <2>5 DEF Unchanged
<1> DEFINE log == [i \in DOMAIN es |-> [es[i] EXCEPT !.exp = clock + (@ - t)]]
<1>4. CASE /\ SweepDue(t) /\ j.on
           /\ k = [j EXCEPT !.log = log, !.torn = FALSE, !.lost = {}, !.errors = 0]
  <2>1. /\ Len(es) \in Nat /\ DOMAIN es = 1 .. Len(es)
        /\ \A i \in 1 .. Len(es) : es[i] \in Entry /\ es[i].id \in Id /\ es[i].exp \in Expiry
    BY WindowFacts
  <2>2. \A i, m \in 1 .. Len(es) : es[i].id = es[m].id => i = m
    BY <2>1 DEF IsWindow
  <2>3. ASSUME NEW i \in 1 .. Len(es)
        PROVE  /\ log[i] \in Entry /\ log[i].id = es[i].id
               /\ log[i].exp = clock + (es[i].exp - t)
    <3>1. log[i] = [es[i] EXCEPT !.exp = clock + (es[i].exp - t)]
      BY <2>1, <2>3
    <3>2. clock + (es[i].exp - t) \in Expiry
      <4>1. es[i].exp < t + TTL /\ es[i].exp \in Nat /\ clock \in Nat /\ t \in Nat /\ clock <= MaxTime
        BY <1>4, <2>1, <2>3 DEF Expiry, Time
      <4> QED
        BY <1>1, <4>1 DEF Expiry
    <3> HIDE DEF log
    <3>3. es[i] \in [id : Id, exp : Expiry]
      BY <2>1, <2>3 DEF Entry
    <3> QED
      BY <3>1, <3>2, <3>3 DEF Entry
  <2>4. log \in [1 .. Len(es) -> Line]
    <3>1. DOMAIN log = 1 .. Len(es) /\ log = [i \in 1 .. Len(es) |-> log[i]]
      BY <2>1
    <3> HIDE DEF log
    <3>2. \A i \in 1 .. Len(es) : log[i] \in Line
      BY <2>3 DEF Line
    <3> QED
      BY <3>1, <3>2
  <2> HIDE DEF log
  <2>5. log \in Seq(Line) /\ Len(log) = Len(es)
    BY <2>1, <2>4
  <2>6. \A i \in 1 .. Len(es) : IdOf(log[i]) = {es[i].id}
    BY <2>3, <2>4, LineKinds
  <2>7. ASSUME NEW p, NEW c PROVE FinalAt(log, p, c) <=> p \in 1 .. Len(es) /\ es[p].id = c
    <3>1. ASSUME FinalAt(log, p, c) PROVE p \in 1 .. Len(es) /\ es[p].id = c
      BY <2>3, <2>5, <3>1 DEF FinalAt, FinalIn
    <3>2. ASSUME p \in 1 .. Len(es), es[p].id = c PROVE FinalAt(log, p, c)
      <4>1. \A q \in p + 1 .. Len(es) : q \in 1 .. Len(es) /\ q # p
        BY <2>1, <3>2
      <4>2. ASSUME NEW q \in p + 1 .. Len(es) PROVE c \notin IdOf(log[q])
        <5>1. q \in 1 .. Len(es) /\ q # p
          BY <4>1
        <5>2. es[q].id # c
          BY <2>2, <3>2, <5>1
        <5> QED
          BY <2>6, <5>1, <5>2
      <4> QED
        BY <2>3, <2>5, <3>2, <4>2 DEF FinalAt, FinalIn
    <3> QED
      BY <3>1, <3>2
  <2>8. 0 \in 0 .. MaxErrors
    BY <1>1
  <2>9. /\ k \in Journal /\ k.log = log /\ k.lost = {} /\ k.torn = FALSE /\ k.errors = 0
        /\ k.on = j.on
    BY <1>1, <1>4, <2>5, <2>8 DEF Journal
  <2>10. JournalShape(k)
    BY <1>1, <1>4, <2>9 DEF JournalShape
  <2> QED
    BY <1>4, <2>3, <2>5, <2>7, <2>9, <2>10 DEF Fresh
<1> HIDE DEF log
<1>5. \/ k = j
      \/ j.on /\ JournalFails /\ k = Failed(j)
      \/ /\ SweepDue(t) /\ j.on
         /\ k = [j EXCEPT !.log = log, !.torn = FALSE, !.lost = {}, !.errors = 0]
  BY DEF Compacted, log
<1> QED
  BY <1>2, <1>3, <1>4, <1>5

\* A sweep keeps a suffix, in which is everything that has not expired.
LEMMA SweptIs ==
  ASSUME IsWindow(entries), NEW t \in Int
  PROVE  LET r == Swept(t)
         IN /\ IsWindow(r) /\ Len(r) <= Len(entries)
            /\ \A b, x : Holds(r, b, x) <=> Known(b, r) /\ Holds(entries, b, x)
            /\ \A b, c : After(r, b, c) <=> Known(b, r) /\ After(entries, b, c)
            /\ \A b, c : Known(b, r) /\ After(entries, b, c) => Known(c, r)
            /\ \A b : Known(b, r) => Known(b, entries)
            /\ \A b, x : Holds(entries, b, x) /\ x > t => Known(b, r)
<1> DEFINE live == {i \in DOMAIN entries : entries[i].exp > t}
           r == Swept(t)
<1>1. /\ Len(entries) \in Nat /\ DOMAIN entries = 1 .. Len(entries)
      /\ \A b, x : Holds(entries, b, x) => Known(b, entries)
      /\ \A b, c : After(entries, b, c) => Known(b, entries) /\ Known(c, entries)
  BY WindowFacts
<1>2. CASE r = entries
  <2> HIDE DEF r
  <2>1. Len(r) <= Len(entries)
    <3>1. Len(r) = Len(entries) /\ Len(entries) \in Nat
      BY <1>1, <1>2
    <3> QED
      BY <3>1
  <2>2. /\ \A b, x : Holds(r, b, x) <=> Known(b, r) /\ Holds(entries, b, x)
        /\ \A b, c : After(r, b, c) <=> Known(b, r) /\ After(entries, b, c)
        /\ \A b, c : Known(b, r) /\ After(entries, b, c) => Known(c, r)
        /\ \A b : Known(b, r) => Known(b, entries)
        /\ \A b, x : Holds(entries, b, x) /\ x > t => Known(b, r)
    BY <1>1, <1>2
  <2> QED
    BY <1>2, <2>1, <2>2 DEF r
<1>3. ASSUME NEW k \in 1 .. Len(entries) + 1, r = SubSeq(entries, k, Len(entries)),
             \A i \in live : i >= k
      PROVE  /\ IsWindow(r) /\ Len(r) <= Len(entries)
             /\ \A b, x : Holds(r, b, x) <=> Known(b, r) /\ Holds(entries, b, x)
             /\ \A b, c : After(r, b, c) <=> Known(b, r) /\ After(entries, b, c)
             /\ \A b, c : Known(b, r) /\ After(entries, b, c) => Known(c, r)
             /\ \A b : Known(b, r) => Known(b, entries)
             /\ \A b, x : Holds(entries, b, x) /\ x > t => Known(b, r)
  <2> HIDE DEF r
  <2>1. /\ IsWindow(r) /\ Len(r) = Len(entries) - k + 1
        /\ \A i \in 1 .. Len(r) : r[i] = entries[k + i - 1]
        /\ \A b, x : Holds(r, b, x) <=> Known(b, r) /\ Holds(entries, b, x)
        /\ \A b, c : After(r, b, c) <=> Known(b, r) /\ After(entries, b, c)
        /\ \A b, c : Known(b, r) /\ After(entries, b, c) => Known(c, r)
    BY <1>3, SuffixIs
  <2>2. Len(r) <= Len(entries)
    <3>1. Len(entries) \in Nat
      BY <1>1
    <3> QED
      BY <2>1, <3>1
  <2>3. \A b : Known(b, r) => Known(b, entries)
    BY <1>1, <2>1, WindowFacts
  <2>4. ASSUME NEW b, NEW x, Holds(entries, b, x), x > t PROVE Known(b, r)
    <3>1. PICK i \in 1 .. Len(entries) : entries[i].id = b /\ entries[i].exp = x
      BY <1>1, <2>4 DEF Holds
    <3>2. i >= k
      BY <1>1, <1>3, <2>4, <3>1
    <3>3. i - k + 1 \in 1 .. Len(r) /\ k + (i - k + 1) - 1 = i
      BY <1>1, <2>1, <3>1, <3>2
    <3>4. r[i - k + 1] = entries[i]
      BY <2>1, <3>3
    <3>5. DOMAIN r = 1 .. Len(r)
      BY <2>1, WindowFacts
    <3> QED
      BY <3>1, <3>3, <3>4, <3>5 DEF Known
  <2> QED
    BY <2>1, <2>2, <2>3, <2>4
<1>4. CASE SweepDue(t) /\ live = {}
  <2>1. r = << >>
    BY <1>4 DEF Swept
  <2>2. SubSeq(entries, Len(entries) + 1, Len(entries)) = << >>
    BY <1>1, SubSeqEmpty
  <2>3. Len(entries) + 1 \in 1 .. Len(entries) + 1
    BY <1>1
  <2> HIDE DEF r
  <2> QED
    BY <1>3, <1>4, <2>1, <2>2, <2>3 DEF r
<1>5. CASE SweepDue(t) /\ live # {}
  <2>1. r = SubSeq(entries, Min(live), Len(entries))
    BY <1>5 DEF Swept
  <2>2. Min(live) \in live /\ \A i \in live : i >= Min(live)
    <3>1. live \subseteq Nat
      BY <1>1
    <3>2. PICK m \in live : \A i \in live : ~(i < m)
      <4>1. PICK m \in live : \A i \in live : <<i, m>> \notin OpToRel(<, Nat)
        <5> HIDE DEF live
        <5> QED
          BY <1>5, <3>1, WFMin, NatLessThanWellFounded
      <4> HIDE DEF live
      <4> QED
        BY <3>1, <4>1 DEF OpToRel
    <3> HIDE DEF live
    <3>3. \A i \in live : m <= i
      BY <3>1, <3>2
    <3>4. Min(live) \in live /\ \A i \in live : Min(live) <= i
      BY <3>3 DEF Min
    <3> QED
      BY <3>1, <3>4
  <2>3. Min(live) \in 1 .. Len(entries) + 1
    BY <1>1, <2>2
  <2> HIDE DEF r, live
  <2> QED
    BY <1>3, <2>1, <2>2, <2>3 DEF r
<1>6. ~SweepDue(t) => r = entries
  BY DEF Swept
<1> QED
  BY <1>2, <1>4, <1>5, <1>6

-----------------------------------------------------------------------------
(* The invariant of the window *)

\* The expiries of the journal and of the window are not too far ahead: what a sweep
\* at time t leaves was marked before t.
LogBound(j) == \A p \in DOMAIN j.log : j.log[p] \in Entry => j.log[p].exp <= clock + TTL

DedupTypes ==
  /\ DedupTypeOK /\ JournalShape(journal) /\ LogBound(journal)
  /\ \A b \in DOMAIN marked : marked[b] \in Time
  /\ lastSweep <= clock
  /\ \A b, x : Holds(entries, b, x) => 2 * (x - TTL - lastSweep) < TTL

\* An id that was unmarked is not in the window, and has no final line in the journal,
\* unless it is not known what the journal holds of it.
Forgotten(es, j) ==
  /\ \A b \in unmarked : ~Known(b, es)
  /\ \A b \in unmarked \ j.lost : \A p : ~FinalAt(j.log, p, b)

\* The ids that are still to be recognised at time now.
Live(m, now) == {b \in DOMAIN m : now + MaxLag < m[b] + TTL}

\* They are in the window es, with an expiry that is no older than the lag, and in the
\* journal j; and what follows them there, and has not expired, follows them in es too.
InWindow(es, m, now) == \A b \in Live(m, now) : Remembered(b, es, m[b] + TTL - MaxLag - 1)
InJournal(j, m, now) ==
  \A b \in Live(m, now) \ j.lost :
    \E p : FinalAt(j.log, p, b) /\ j.log[p].exp + MaxLag >= m[b] + TTL
InOrder(es, j, m, now) ==
  \A b \in Live(m, now) \ j.lost : \A c \in Id \ j.lost : \A p, q :
    FinalAt(j.log, p, b) /\ FinalAt(j.log, q, c) /\ p < q /\ j.log[q].exp > now => After(es, b, c)

Backed(es, j, m, now) == InWindow(es, m, now) /\ InJournal(j, m, now) /\ InOrder(es, j, m, now)

Numbers ==
  TTL \in Nat /\ TTL > 0 /\ MaxTime \in Nat /\ MaxLag \in Nat /\ MaxEntries \in Nat /\ MaxEntries > 0

LEMMA NumbersAre == Numbers
  BY DedupAssumption DEF DedupAssumption, Numbers

LEMMA TypesGive ==
  ASSUME DedupTypes
  PROVE  /\ IsWindow(entries) /\ clock \in Time /\ clock \in Nat /\ lastSweep \in Nat
         /\ lastSweep \in Time /\ DOMAIN marked \subseteq Id /\ unmarked \subseteq Id
         /\ JournalShape(journal) /\ journal.log \in Seq(Line)
         /\ DOMAIN journal.log = 1 .. Len(journal.log) /\ Len(journal.log) \in Nat
         /\ \A b \in DOMAIN marked : marked[b] \in Nat
         /\ Time \subseteq Nat /\ Expiry \subseteq Nat
<1>1. Time \subseteq Nat /\ Expiry \subseteq Nat
  BY NumbersAre DEF Time, Expiry, Numbers
<1>2. journal.log \in Seq(Line)
  BY DEF DedupTypes, DedupTypeOK
<1>3. DOMAIN journal.log = 1 .. Len(journal.log) /\ Len(journal.log) \in Nat
  BY <1>2
<1> QED
  BY <1>1, <1>2, <1>3 DEF DedupTypes, DedupTypeOK, IsWindow

\* A sweep, and the compaction that follows it, keep the invariant.
LEMMA SweepStep ==
  ASSUME DedupTypes, NEW t \in Time, t <= clock, NEW j \in Compacted(journal, Swept(t), t)
  PROVE  /\ IsWindow(Swept(t)) /\ JournalShape(j) /\ LogBound(j)
         /\ \A b, x : Holds(Swept(t), b, x) =>
              2 * (x - TTL - (IF SweepDue(t) THEN t ELSE lastSweep)) < TTL
         /\ Len(Swept(t)) <= Len(entries)
         /\ Unchanged(j, journal) \/ (SweepDue(t) /\ Fresh(j, Swept(t), t))
         /\ Forgotten(entries, journal) => Forgotten(Swept(t), j)
         /\ Backed(entries, journal, marked, clock) => Backed(Swept(t), j, marked, clock)
<1> DEFINE es == Swept(t)
<1>1. /\ IsWindow(es) /\ Len(es) <= Len(entries)
      /\ \A b, x : Holds(es, b, x) <=> Known(b, es) /\ Holds(entries, b, x)
      /\ \A b, c : After(es, b, c) <=> Known(b, es) /\ After(entries, b, c)
      /\ \A b : Known(b, es) => Known(b, entries)
      /\ \A b, x : Holds(entries, b, x) /\ x > t => Known(b, es)
  <2>1. IsWindow(entries) /\ t \in Int
    BY TypesGive
  <2> QED
    BY <2>1, SweptIs
<1>2. t \in Nat /\ clock \in Nat /\ lastSweep \in Nat /\ TTL \in Nat /\ TTL > 0 /\ MaxLag \in Nat
  BY TypesGive, NumbersAre DEF Numbers
<1>3. \A b, x : Holds(entries, b, x) => x \in Nat /\ 2 * (x - TTL - lastSweep) < TTL
  BY TypesGive, WindowFacts DEF DedupTypes
<1>4. SweepDue(t) => \A b, x : Holds(entries, b, x) => x < t + TTL
  <2> SUFFICES ASSUME SweepDue(t), NEW b, NEW x, Holds(entries, b, x) PROVE x < t + TTL
    OBVIOUS
  <2>1. 2 * (t - lastSweep) >= TTL
    BY DEF SweepDue
  <2>2. x \in Nat /\ 2 * (x - TTL - lastSweep) < TTL
    BY <1>3
  <2> QED
    BY <1>2, <2>1, <2>2
<1>5. ASSUME NEW b, NEW x, Holds(es, b, x)
      PROVE  2 * (x - TTL - (IF SweepDue(t) THEN t ELSE lastSweep)) < TTL
  <2>1. Holds(entries, b, x)
    BY <1>1, <1>5
  <2>2. CASE SweepDue(t)
    <3>1. x < t + TTL /\ x \in Nat
      BY <1>3, <1>4, <2>1, <2>2
    <3>2. 2 * (x - TTL - t) < TTL
      BY <1>2, <3>1
    <3> QED
      BY <2>2, <3>2
  <2>3. CASE ~SweepDue(t)
    BY <1>3, <2>1, <2>3
  <2> QED
    BY <2>2, <2>3
<1> HIDE DEF es
<1>6. /\ Len(es) \in Nat /\ DOMAIN es = 1 .. Len(es)
      /\ \A i \in 1 .. Len(es) : es[i].id \in Id /\ es[i].exp \in Expiry
      /\ \A i \in 1 .. Len(es) : Known(es[i].id, es) /\ Holds(es, es[i].id, es[i].exp)
  <2>1. /\ Len(es) \in Nat /\ DOMAIN es = 1 .. Len(es)
        /\ \A i \in 1 .. Len(es) : es[i].id \in Id /\ es[i].exp \in Expiry
    BY <1>1, WindowFacts
  <2> QED
    BY <2>1 DEF Known, Holds
<1>7. SweepDue(t) => \A i \in 1 .. Len(es) : es[i].exp < t + TTL
  BY <1>1, <1>4, <1>6
<1>8. /\ JournalShape(j)
      /\ Unchanged(j, journal) \/ (SweepDue(t) /\ Fresh(j, es, t))
  BY <1>1, <1>7, TypesGive, CompactedIs DEF es
<1>9. LogBound(j)
  <2>1. CASE Unchanged(j, journal)
    BY <2>1 DEF Unchanged, LogBound, DedupTypes
  <2>2. CASE SweepDue(t) /\ Fresh(j, es, t)
    <3>1. DOMAIN j.log = 1 .. Len(es)
      <4>1. j.log \in Seq(Line) /\ Len(j.log) = Len(es)
        BY <1>8, <2>2 DEF JournalShape, Journal, Fresh
      <4> QED
        BY <4>1
    <3>2. ASSUME NEW p \in 1 .. Len(es) PROVE j.log[p].exp <= clock + TTL
      <4>1. /\ j.log[p].exp = clock + (es[p].exp - t) /\ es[p].exp < t + TTL
            /\ es[p].exp \in Nat
        BY <1>6, <1>7, <2>2, TypesGive DEF Fresh
      <4> QED
        BY <1>2, <4>1
    <3> QED
      BY <3>1, <3>2 DEF LogBound
  <2> QED
    BY <1>8, <2>1, <2>2
<1>10. ASSUME Forgotten(entries, journal) PROVE Forgotten(es, j)
  <2>1. \A b \in unmarked : ~Known(b, es)
    BY <1>1, <1>10 DEF Forgotten
  <2>2. CASE Unchanged(j, journal)
    BY <1>10, <2>1, <2>2 DEF Forgotten, Unchanged
  <2>3. CASE SweepDue(t) /\ Fresh(j, es, t)
    <3>1. \A p, b : FinalAt(j.log, p, b) => Known(b, es)
      BY <1>6, <2>3 DEF Fresh
    <3> QED
      BY <2>1, <3>1 DEF Forgotten
  <2> QED
    BY <1>8, <2>2, <2>3
<1>11. ASSUME Backed(entries, journal, marked, clock) PROVE Backed(es, j, marked, clock)
  <2>1. ASSUME NEW b \in Live(marked, clock)
        PROVE  \E x : Holds(es, b, x) /\ x \in Nat /\ x > marked[b] + TTL - MaxLag - 1 /\ x > t
    <3>1. Remembered(b, entries, marked[b] + TTL - MaxLag - 1)
      BY <1>11 DEF Backed, InWindow
    <3>2. PICK x \in Expiry : Holds(entries, b, x) /\ x > marked[b] + TTL - MaxLag - 1
      BY <3>1, TypesGive, WindowFacts
    <3>3. x \in Nat /\ marked[b] \in Nat /\ clock + MaxLag < marked[b] + TTL
      BY <3>2, TypesGive DEF Live
    <3>4. x > t
      BY <1>2, <3>2, <3>3
    <3> QED
      BY <1>1, <3>2, <3>3, <3>4
  <2>2. \A b \in Live(marked, clock) : Known(b, es)
    BY <1>1, <2>1
  <2>3. InWindow(es, marked, clock)
    <3> SUFFICES ASSUME NEW b \in Live(marked, clock)
                 PROVE  Remembered(b, es, marked[b] + TTL - MaxLag - 1)
      BY DEF InWindow
    <3> QED
      BY <1>1, <2>1, WindowFacts
  <2>4. CASE Unchanged(j, journal)
    <3>1. InJournal(j, marked, clock)
      BY <1>11, <2>4 DEF Backed, InJournal, Unchanged
    <3>2. InOrder(es, j, marked, clock)
      BY <1>1, <1>11, <2>2, <2>4 DEF Backed, InOrder, Unchanged
    <3> QED
      BY <2>3, <3>1, <3>2 DEF Backed
  <2>5. CASE SweepDue(t) /\ Fresh(j, es, t)
    <3>1. ASSUME NEW b \in Live(marked, clock)
          PROVE  \E p : FinalAt(j.log, p, b) /\ j.log[p].exp + MaxLag >= marked[b] + TTL
      <4>1. PICK x : Holds(es, b, x) /\ x \in Nat /\ x > marked[b] + TTL - MaxLag - 1
        BY <2>1
      <4>2. PICK p \in 1 .. Len(es) : es[p].id = b /\ es[p].exp = x
        BY <1>6, <4>1 DEF Holds
      <4>3. FinalAt(j.log, p, b) /\ j.log[p].exp = clock + (x - t)
        BY <2>5, <4>2 DEF Fresh
      <4>4. marked[b] \in Nat
        BY TypesGive DEF Live
      <4>5. clock + (x - t) + MaxLag >= marked[b] + TTL
        BY <1>2, <4>1, <4>4
      <4> QED
        BY <4>3, <4>5
    <3>2. InJournal(j, marked, clock)
      BY <3>1 DEF InJournal
    <3>3. \A b, c, p, q : FinalAt(j.log, p, b) /\ FinalAt(j.log, q, c) /\ p < q => After(es, b, c)
      BY <1>6, <2>5 DEF Fresh, After
    <3>4. InOrder(es, j, marked, clock)
      BY <3>3 DEF InOrder
    <3> QED
      BY <2>3, <3>2, <3>4 DEF Backed
  <2> QED
    BY <1>8, <2>4, <2>5
<1> QED
  BY <1>1, <1>5, <1>8, <1>9, <1>10, <1>11 DEF es

LEMMA NewWindowIs ==
  ASSUME NEW es, IsWindow(es), NEW b \in Id, NEW x \in Expiry, NEW new,
         new = Bounded(MoveToEnd(es, b, x))
  PROVE  /\ IsWindow(new) /\ Len(new) <= MaxEntries /\ Known(b, new)
         /\ \A c, y : Holds(new, c, y) <=>
              Known(c, new) /\ (IF c = b THEN y = x ELSE Holds(es, c, y))
         /\ \A c : Known(c, new) => c = b \/ Known(c, es)
         /\ \A c, d : After(new, c, d) <=>
              Known(c, new) /\ c # b /\ (IF d = b THEN Known(c, es) ELSE After(es, c, d))
<1> DEFINE r == MoveToEnd(es, b, x)
<1>1. /\ IsWindow(r) /\ Len(r) > 0
      /\ \A c : Known(c, r) <=> Known(c, es) \/ c = b
      /\ \A c, y : Holds(r, c, y) <=> (IF c = b THEN y = x ELSE Holds(es, c, y))
      /\ \A c, d : After(r, c, d) <=> c # b /\ IF d = b THEN Known(c, es) ELSE After(es, c, d)
  BY MoveToEndIs
<1> HIDE DEF r
<1>2. Len(r) \in Nat /\ DOMAIN r = 1 .. Len(r) /\ MaxEntries \in Nat /\ MaxEntries > 0
  BY <1>1, WindowFacts, NumbersAre DEF Numbers
<1>3. r[Len(r)].id = b
  <2>1. PICK i \in 1 .. Len(r) : r[i].id = b
    BY <1>1, <1>2 DEF Known
  <2>2. ASSUME i # Len(r) PROVE After(r, b, r[Len(r)].id)
    <3>1. Len(r) \in DOMAIN r /\ i \in DOMAIN r /\ i < Len(r)
      <4>1. Len(r) \in Nat /\ Len(r) > 0
        BY <1>1, <1>2
      <4>2. Len(r) \in 1 .. Len(r) /\ i < Len(r)
        BY <2>2, <4>1
      <4> QED
        BY <1>2, <4>2
    <3> QED
      BY <2>1, <3>1 DEF After
  <2> QED
    BY <1>1, <2>1, <2>2
<1>4. /\ IsWindow(new) /\ Len(new) <= MaxEntries
      /\ \A c, y : Holds(new, c, y) <=> Known(c, new) /\ Holds(r, c, y)
      /\ \A c, d : After(new, c, d) <=> Known(c, new) /\ After(r, c, d)
      /\ \A i \in 1 .. Len(r) : i > Len(r) - MaxEntries => Known(r[i].id, new)
  BY <1>1, BoundedIs DEF r
<1>5. Known(b, new)
  <2>1. Len(r) \in 1 .. Len(r) /\ Len(r) > Len(r) - MaxEntries
    BY <1>1, <1>2
  <2> QED
    BY <1>3, <1>4, <2>1
<1>6. \A c : Known(c, new) => c = b \/ Known(c, es)
  <2> SUFFICES ASSUME NEW c, Known(c, new) PROVE c = b \/ Known(c, es)
    OBVIOUS
  <2>1. PICK y \in Expiry : Holds(new, c, y)
    BY <1>4, WindowFacts
  <2>2. Known(c, r)
    BY <1>1, <1>4, <2>1, WindowFacts
  <2> QED
    BY <1>1, <2>2
<1>7. \A c, y : Holds(new, c, y) <=> Known(c, new) /\ (IF c = b THEN y = x ELSE Holds(es, c, y))
  BY <1>1, <1>4
<1>8. \A c, d : After(new, c, d) <=>
        Known(c, new) /\ c # b /\ (IF d = b THEN Known(c, es) ELSE After(es, c, d))
  BY <1>1, <1>4
<1> QED
  BY <1>4, <1>5, <1>6, <1>7, <1>8

\* What a call at time t puts in the window: b with expiry t + TTL.
LEMMA MarkStep ==
  ASSUME DedupTypes, NEW b \in Id, NEW t \in Time, t <= clock, Mark(b, Swept(t), t)
  PROVE  /\ DedupTypes'
         /\ Forgotten(entries, journal) => Forgotten(entries, journal)'
         /\ clock <= t + MaxLag /\ Backed(entries, journal, marked, clock)
              => Backed(entries, journal, marked, clock)'
<1> DEFINE es == Swept(t)
           new == entries'
           k == journal'
           line == [id |-> b, exp |-> clock + TTL]
           evicted == {c \in Id : Known(c, es) /\ ~Known(c, new)}
<1>1. t \in Nat /\ clock \in Nat /\ TTL \in Nat /\ TTL > 0 /\ MaxLag \in Nat /\ MaxTime \in Nat
      /\ clock <= MaxTime /\ lastSweep \in Nat
  BY TypesGive, NumbersAre DEF Numbers, Time
<1>2. t + TTL \in Expiry /\ clock + TTL \in Expiry
  BY <1>1 DEF Expiry
<1>3. line \in Line /\ line \in Entry /\ IdOf(line) = {b} /\ line.exp = clock + TTL /\ line.id = b
  <2>1. line \in Entry /\ line.exp = clock + TTL /\ line.id = b
    BY <1>2 DEF Entry
  <2> HIDE DEF line
  <2>2. line \in Line
    BY <2>1 DEF Line
  <2>3. IdOf(line) = {b}
    BY <2>1, <2>2, LineKinds
  <2> QED
    BY <2>1, <2>2, <2>3
<1>4. PICK j \in Compacted(journal, es, t) : k \in Logged(j, line)
  BY DEF Mark
<1>5. /\ new = Bounded(MoveToEnd(es, b, t + TTL))
      /\ lastSweep' = (IF SweepDue(t) THEN t ELSE lastSweep)
      /\ marked' = [c \in (DOMAIN marked \cup {b}) \ evicted |-> IF c = b THEN clock ELSE marked[c]]
      /\ unmarked' = unmarked \ {b} /\ clock' = clock
  BY DEF Mark
<1>6. /\ IsWindow(es) /\ JournalShape(j) /\ LogBound(j)
      /\ \A c, x : Holds(es, c, x) =>
           2 * (x - TTL - (IF SweepDue(t) THEN t ELSE lastSweep)) < TTL
      /\ Forgotten(entries, journal) => Forgotten(es, j)
      /\ Backed(entries, journal, marked, clock) => Backed(es, j, marked, clock)
  BY <1>4, SweepStep
<1> HIDE DEF es, line
<1>7. /\ IsWindow(new) /\ Len(new) <= MaxEntries /\ Known(b, new)
      /\ \A c, y : Holds(new, c, y) <=>
           Known(c, new) /\ (IF c = b THEN y = t + TTL ELSE Holds(es, c, y))
      /\ \A c : Known(c, new) => c = b \/ Known(c, es)
      /\ \A c, d : After(new, c, d) <=>
           Known(c, new) /\ c # b /\ (IF d = b THEN Known(c, es) ELSE After(es, c, d))
  BY <1>2, <1>5, <1>6, NewWindowIs
<1>8. Wrote(k, j, line, b)
  BY <1>3, <1>4, <1>6, LoggedIs
<1> HIDE DEF new, k
<1>9. LogBound(k)
  BY <1>3, <1>6, <1>8, <1>1 DEF Wrote, NothingElse, LogBound
<1>10. \A c, x : Holds(new, c, x) => 2 * (x - TTL - lastSweep') < TTL
  <2> SUFFICES ASSUME NEW c, NEW x, Holds(new, c, x) PROVE 2 * (x - TTL - lastSweep') < TTL
    OBVIOUS
  <2>1. CASE c = b
    <3>1. x = t + TTL
      BY <1>7, <2>1
    <3>2. SweepDue(t) => lastSweep' = t
      BY <1>5
    <3>3. ~SweepDue(t) => lastSweep' = lastSweep /\ 2 * (t - lastSweep) < TTL
      BY <1>1, <1>5 DEF SweepDue
    <3> QED
      BY <1>1, <3>1, <3>2, <3>3
  <2>2. CASE c # b
    BY <1>5, <1>6, <1>7, <2>2
  <2> QED
    BY <2>1, <2>2
<1>11. DOMAIN marked' \subseteq Id /\ \A c \in DOMAIN marked' : marked'[c] \in Time
  <2>1. DOMAIN marked \subseteq Id /\ clock \in Time /\ \A c \in DOMAIN marked : marked[c] \in Time
    BY TypesGive DEF DedupTypes
  <2> HIDE DEF evicted
  <2> QED
    BY <1>5, <2>1
<1>12. DedupTypes'
  <2>1. new \in Seq(Entry) /\ (\A c, d \in DOMAIN new : new[c].id = new[d].id => c = d)
    BY <1>7 DEF IsWindow
  <2>2. lastSweep' \in Time /\ lastSweep' <= clock' /\ clock' \in Time /\ unmarked' \subseteq Id
    BY <1>5, TypesGive DEF DedupTypes
  <2>3. JournalShape(k)
    BY <1>8 DEF Wrote
  <2>4. /\ k.log \in Seq(Line) /\ k.errors \in 0 .. MaxErrors
        /\ k.on = (Persist /\ k.errors < MaxErrors) /\ k.lost \subseteq Id
        /\ k.torn \in BOOLEAN /\ (k.torn => k.log # << >>)
    BY <2>3 DEF JournalShape, Journal
  <2>5. DedupTypeOK'
    BY <1>7, <1>11, <2>1, <2>2, <2>4 DEF DedupTypeOK, new, k
  <2>6. JournalShape(journal)'
    BY <2>3 DEF JournalShape, k
  <2>7. LogBound(journal)'
    BY <1>5, <1>9 DEF LogBound, k
  <2>8. (\A c, x : Holds(entries, c, x) => 2 * (x - TTL - lastSweep) < TTL)'
    BY <1>10 DEF new, Holds
  <2> QED
    BY <1>11, <2>2, <2>5, <2>6, <2>7, <2>8 DEF DedupTypes
<1>13. ASSUME Forgotten(entries, journal) PROVE Forgotten(entries, journal)'
  <2>1. \A c \in unmarked \ {b} : ~Known(c, new)
    BY <1>6, <1>7, <1>13 DEF Forgotten
  <2>2. \A c \in (unmarked \ {b}) \ k.lost : \A p : ~FinalAt(k.log, p, c)
    <3>1. unmarked \subseteq Id
      BY TypesGive
    <3> QED
      BY <1>6, <1>8, <1>13, <3>1 DEF Forgotten, Wrote
  <2> QED
    BY <1>5, <2>1, <2>2 DEF Forgotten, new, k, Known, FinalAt, FinalIn
<1>14. ASSUME clock <= t + MaxLag, Backed(entries, journal, marked, clock)
       PROVE  Backed(entries, journal, marked, clock)'
  <2> DEFINE m == marked'
  <2>1. Backed(es, j, marked, clock)
    BY <1>6, <1>14
  <2>2. m = [c \in (DOMAIN marked \cup {b}) \ evicted |-> IF c = b THEN clock ELSE marked[c]]
    BY <1>5
  <2> HIDE DEF m
  <2>3. ASSUME NEW c \in Live(m, clock), c # b
        PROVE  c \in Live(marked, clock) /\ m[c] = marked[c] /\ ~(Known(c, es) /\ ~Known(c, new))
    <3>1. c \in (DOMAIN marked \cup {b}) \ evicted
      BY <2>2 DEF Live
    <3>2. c \in DOMAIN marked /\ c \notin evicted /\ c \in Id
      BY <2>3, <3>1, TypesGive
    <3>3. m[c] = marked[c]
      BY <2>2, <2>3, <3>1
    <3> QED
      BY <3>2, <3>3 DEF Live
  <2>4. b \in DOMAIN m /\ m[b] = clock
    BY <1>7, <2>2
  <2>5. \A c \in Live(m, clock) : c \in Id
    BY <2>2, TypesGive DEF Live
  <2>6. ASSUME NEW c \in Live(m, clock), c # b PROVE Known(c, es) /\ Known(c, new)
    <3>1. Remembered(c, es, marked[c] + TTL - MaxLag - 1)
      BY <2>1, <2>3, <2>6 DEF Backed, InWindow
    <3>2. Known(c, es)
      BY <3>1 DEF Remembered, Known
    <3> QED
      BY <2>3, <2>6, <3>2
  <2>7. InWindow(new, m, clock)
    <3> SUFFICES ASSUME NEW c \in Live(m, clock) PROVE Remembered(c, new, m[c] + TTL - MaxLag - 1)
      BY DEF InWindow
    <3>1. CASE c = b
      <4>1. Holds(new, b, t + TTL)
        BY <1>7
      <4>2. t + TTL > m[b] + TTL - MaxLag - 1
        BY <1>1, <1>14, <2>4
      <4> QED
        BY <1>2, <1>7, <3>1, <4>1, <4>2, WindowFacts
    <3>2. CASE c # b
      <4>1. Remembered(c, es, m[c] + TTL - MaxLag - 1)
        BY <2>1, <2>3, <3>2 DEF Backed, InWindow
      <4>2. PICK x \in Expiry : Holds(es, c, x) /\ x > m[c] + TTL - MaxLag - 1
        BY <1>6, <4>1, WindowFacts
      <4>3. Holds(new, c, x)
        BY <1>7, <2>6, <3>2, <4>2
      <4> QED
        BY <1>7, <4>2, <4>3, WindowFacts
    <3> QED
      BY <3>1, <3>2
  <2>8. InJournal(k, m, clock)
    <3> SUFFICES ASSUME NEW c \in Live(m, clock) \ k.lost
                 PROVE  \E p : FinalAt(k.log, p, c) /\ k.log[p].exp + MaxLag >= m[c] + TTL
      BY DEF InJournal
    <3>1. CASE c = b
      <4>1. FinalAt(k.log, Len(k.log), b) /\ k.log[Len(k.log)] = line
        BY <1>3, <1>8, <3>1 DEF Wrote
      <4>2. clock + TTL + MaxLag >= m[b] + TTL
        BY <1>1, <2>4
      <4> QED
        BY <1>3, <3>1, <4>1, <4>2
    <3>2. CASE c # b
      <4>1. c \notin j.lost /\ c \in Live(marked, clock) /\ m[c] = marked[c]
        BY <1>8, <2>3, <2>5, <3>2 DEF Wrote
      <4>2. PICK p : FinalAt(j.log, p, c) /\ j.log[p].exp + MaxLag >= m[c] + TTL
        BY <2>1, <4>1 DEF Backed, InJournal
      <4>3. FinalAt(k.log, p, c) /\ k.log[p] = j.log[p]
        BY <1>8, <2>5, <3>2, <4>2 DEF Wrote
      <4> QED
        BY <4>2, <4>3
    <3> QED
      BY <3>1, <3>2
  <2>9. InOrder(new, k, m, clock)
    <3> SUFFICES ASSUME NEW c \in Live(m, clock) \ k.lost, NEW d \in Id \ k.lost, NEW p, NEW q,
                        FinalAt(k.log, p, c), FinalAt(k.log, q, d), p < q, k.log[q].exp > clock
                 PROVE  After(new, c, d)
      BY DEF InOrder
    <3>1. q \in 1 .. Len(k.log) /\ p \in 1 .. Len(k.log)
      BY DEF FinalAt, FinalIn
    <3>2. c # b
      <4> SUFFICES ASSUME c = b PROVE FALSE
        OBVIOUS
      <4>1. p = Len(k.log)
        BY <1>8 DEF Wrote
      <4>2. Len(k.log) \in Nat
        BY <1>8 DEF Wrote, JournalShape, Journal
      <4> QED
        BY <3>1, <4>1, <4>2
    <3>3. Known(c, es) /\ Known(c, new)
      BY <2>6, <3>2
    <3>4. CASE d = b
      BY <1>7, <3>2, <3>3, <3>4
    <3>5. CASE d # b
      <4>1. /\ c \notin j.lost /\ d \notin j.lost /\ FinalAt(j.log, p, c)
            /\ FinalAt(j.log, q, d) /\ k.log[q] = j.log[q]
        BY <1>8, <2>5, <3>2, <3>5 DEF Wrote
      <4>2. After(es, c, d)
        BY <2>1, <2>3, <3>2, <4>1 DEF Backed, InOrder
      <4> QED
        BY <1>7, <3>2, <3>3, <3>5, <4>2
    <3> QED
      BY <3>4, <3>5
  <2>10. Backed(new, k, m, clock)
    BY <2>7, <2>8, <2>9 DEF Backed
  <2> QED
    BY <1>5, <2>10 DEF new, k, m
<1> QED
  BY <1>12, <1>13, <1>14

LEMMA UnmarkStep ==
  ASSUME DedupTypes, NEW b \in Id, Unmark(b)
  PROVE  /\ DedupTypes'
         /\ Forgotten(entries, journal) => Forgotten(entries, journal)'
         /\ Backed(entries, journal, marked, clock) => Backed(entries, journal, marked, clock)'
<1> DEFINE new == entries'
           j == journal
           k == journal'
           m == marked'
           line == [id |-> b, del |-> TRUE]
<1>1. line \in Line /\ line \notin Entry /\ IdOf(line) = {b}
  <2>1. line \in [id : Id, del : {TRUE}] /\ "exp" \notin DOMAIN line /\ "id" \in DOMAIN line
        /\ line.id = b
    OBVIOUS
  <2> HIDE DEF line
  <2> QED
    BY <2>1 DEF Line, Entry, IdOf
<1>2. /\ new = WithoutId(entries, b) /\ k \in Logged(j, line)
      /\ m = [c \in DOMAIN marked \ {b} |-> marked[c]] /\ unmarked' = unmarked \cup {b}
      /\ clock' = clock /\ lastSweep' = lastSweep
  BY DEF Unmark, Forget
<1> HIDE DEF line
<1>3. /\ IsWindow(new) /\ Len(new) <= Len(entries) /\ ~Known(b, new)
      /\ \A c, x : Holds(new, c, x) <=> c # b /\ Holds(entries, c, x)
      /\ \A c, d : After(new, c, d) <=> c # b /\ d # b /\ After(entries, c, d)
  BY <1>2, TypesGive, WithoutIdIs
<1>4. Wrote(k, j, line, b)
  BY <1>1, <1>2, TypesGive, LoggedIs
<1>5. DOMAIN m = DOMAIN marked \ {b} /\ \A c \in DOMAIN m : m[c] = marked[c]
  BY <1>2
<1> HIDE DEF new, k, m
<1>6. LogBound(k)
  BY <1>1, <1>4 DEF Wrote, NothingElse, LogBound, DedupTypes
<1>7. Len(new) <= MaxEntries
  <2>1. Len(new) \in Nat /\ Len(entries) \in Nat /\ Len(entries) <= MaxEntries
    BY <1>3, TypesGive, WindowFacts DEF DedupTypes, DedupTypeOK
  <2> QED
    BY <1>3, <2>1, NumbersAre DEF Numbers
<1>8. DedupTypes'
  <2>1. new \in Seq(Entry) /\ (\A c, d \in DOMAIN new : new[c].id = new[d].id => c = d)
    BY <1>3 DEF IsWindow
  <2>2. lastSweep' \in Time /\ lastSweep' <= clock' /\ clock' \in Time /\ unmarked' \subseteq Id
    BY <1>2, TypesGive DEF DedupTypes
  <2>3. JournalShape(k)
    BY <1>4 DEF Wrote
  <2>4. /\ k.log \in Seq(Line) /\ k.errors \in 0 .. MaxErrors
        /\ k.on = (Persist /\ k.errors < MaxErrors) /\ k.lost \subseteq Id
        /\ k.torn \in BOOLEAN /\ (k.torn => k.log # << >>)
    BY <2>3 DEF JournalShape, Journal
  <2>5. DOMAIN marked' \subseteq Id /\ \A c \in DOMAIN marked' : marked'[c] \in Time
    BY <1>5, TypesGive DEF DedupTypes, m
  <2>6. DedupTypeOK'
    BY <1>7, <2>1, <2>2, <2>4, <2>5 DEF DedupTypeOK, new, k
  <2>7. JournalShape(journal)'
    BY <2>3 DEF k
  <2>8. LogBound(journal)'
    BY <1>2, <1>6 DEF LogBound, k
  <2>9. \A c, x : Holds(new, c, x) => 2 * (x - TTL - lastSweep') < TTL
    BY <1>2, <1>3 DEF DedupTypes
  <2>10. (\A c, x : Holds(entries, c, x) => 2 * (x - TTL - lastSweep) < TTL)'
    BY <2>9 DEF new
  <2> QED
    BY <2>2, <2>5, <2>6, <2>7, <2>8, <2>10 DEF DedupTypes
<1>9. \A c : Known(c, new) => Known(c, entries)
  <2> SUFFICES ASSUME NEW c, Known(c, new) PROVE Known(c, entries)
    OBVIOUS
  <2>1. PICK y \in Expiry : Holds(new, c, y)
    BY <1>3, WindowFacts
  <2> QED
    BY <1>3, <2>1, TypesGive, WindowFacts
<1>10. ASSUME Forgotten(entries, journal) PROVE Forgotten(entries, journal)'
  <2>1. \A c \in unmarked \cup {b} : ~Known(c, new)
    BY <1>3, <1>9, <1>10 DEF Forgotten
  <2>2. ASSUME NEW c \in (unmarked \cup {b}) \ k.lost, NEW p PROVE ~FinalAt(k.log, p, c)
    <3>1. CASE c = b
      BY <1>1, <1>4, <2>2, <3>1 DEF Wrote
    <3>2. CASE c # b
      <4>1. c \in unmarked /\ c \in Id
        BY <2>2, <3>2, TypesGive
      <4>2. c \notin j.lost /\ (FinalAt(k.log, p, c) <=> FinalAt(j.log, p, c))
        BY <1>4, <2>2, <3>2, <4>1 DEF Wrote
      <4> QED
        BY <1>10, <4>1, <4>2 DEF Forgotten
    <3> QED
      BY <3>1, <3>2
  <2> QED
    BY <1>2, <2>1, <2>2 DEF Forgotten, new, k
<1>11. ASSUME Backed(entries, journal, marked, clock)
       PROVE  Backed(entries, journal, marked, clock)'
  <2>1. \A c \in Live(m, clock) : c \in Live(marked, clock) /\ m[c] = marked[c] /\ c # b /\ c \in Id
    BY <1>5, TypesGive DEF Live
  <2>2. InWindow(new, m, clock)
    <3> SUFFICES ASSUME NEW c \in Live(m, clock) PROVE Remembered(c, new, m[c] + TTL - MaxLag - 1)
      BY DEF InWindow
    <3>1. Remembered(c, entries, m[c] + TTL - MaxLag - 1)
      BY <1>11, <2>1 DEF Backed, InWindow
    <3>2. PICK x \in Expiry : Holds(entries, c, x) /\ x > m[c] + TTL - MaxLag - 1
      BY <3>1, TypesGive, WindowFacts
    <3> QED
      BY <1>3, <2>1, <3>2, WindowFacts
  <2>3. InJournal(k, m, clock)
    <3> SUFFICES ASSUME NEW c \in Live(m, clock) \ k.lost
                 PROVE  \E p : FinalAt(k.log, p, c) /\ k.log[p].exp + MaxLag >= m[c] + TTL
      BY DEF InJournal
    <3>1. c \notin j.lost /\ c \in Live(marked, clock) /\ m[c] = marked[c]
      BY <1>4, <2>1 DEF Wrote
    <3>2. PICK p : FinalAt(j.log, p, c) /\ j.log[p].exp + MaxLag >= m[c] + TTL
      BY <1>11, <3>1 DEF Backed, InJournal
    <3>3. FinalAt(k.log, p, c) /\ k.log[p] = j.log[p]
      BY <1>4, <2>1, <3>2 DEF Wrote
    <3> QED
      BY <3>2, <3>3
  <2>4. InOrder(new, k, m, clock)
    <3> SUFFICES ASSUME NEW c \in Live(m, clock) \ k.lost, NEW d \in Id \ k.lost, NEW p, NEW q,
                        FinalAt(k.log, p, c), FinalAt(k.log, q, d), p < q, k.log[q].exp > clock
                 PROVE  After(new, c, d)
      BY DEF InOrder
    <3>1. d # b
      BY <1>1, <1>4 DEF Wrote
    <3>2. /\ c \notin j.lost /\ d \notin j.lost /\ FinalAt(j.log, p, c)
          /\ FinalAt(j.log, q, d) /\ k.log[q] = j.log[q]
      BY <1>4, <2>1, <3>1 DEF Wrote
    <3>3. After(entries, c, d)
      BY <1>11, <2>1, <3>2 DEF Backed, InOrder
    <3> QED
      BY <1>3, <2>1, <3>1, <3>3
  <2>5. Backed(new, k, m, clock)
    BY <2>2, <2>3, <2>4 DEF Backed
  <2> QED
    BY <1>2, <2>5 DEF new, k, m
<1> QED
  BY <1>8, <1>10, <1>11

\* size() sweeps and compacts.
LEMMA SizeStep ==
  ASSUME DedupTypes, Size(clock)
  PROVE  /\ DedupTypes'
         /\ Forgotten(entries, journal) => Forgotten(entries, journal)'
         /\ Backed(entries, journal, marked, clock) => Backed(entries, journal, marked, clock)'
<1> DEFINE new == entries'
           k == journal'
<1>1. /\ SweepDue(clock) /\ new = Swept(clock) /\ k \in Compacted(journal, new, clock)
      /\ lastSweep' = clock /\ clock' = clock /\ marked' = marked /\ unmarked' = unmarked
  BY DEF Size
<1>2. clock \in Time /\ clock <= clock
  BY TypesGive
<1>3. /\ IsWindow(new) /\ JournalShape(k) /\ LogBound(k)
      /\ \A b, x : Holds(new, b, x) => 2 * (x - TTL - clock) < TTL
      /\ Len(new) <= Len(entries)
      /\ Forgotten(entries, journal) => Forgotten(new, k)
      /\ Backed(entries, journal, marked, clock) => Backed(new, k, marked, clock)
  BY <1>1, <1>2, SweepStep
<1> HIDE DEF new, k
<1>4. Len(new) <= MaxEntries
  <2>1. Len(new) \in Nat /\ Len(entries) \in Nat /\ Len(entries) <= MaxEntries
    BY <1>3, TypesGive, WindowFacts DEF DedupTypes, DedupTypeOK
  <2> QED
    BY <1>3, <2>1, NumbersAre DEF Numbers
<1>5. DedupTypes'
  <2>1. new \in Seq(Entry) /\ (\A c, d \in DOMAIN new : new[c].id = new[d].id => c = d)
    BY <1>3 DEF IsWindow
  <2>2. lastSweep' \in Time /\ lastSweep' <= clock' /\ clock' \in Time /\ unmarked' \subseteq Id
    BY <1>1, <1>2, TypesGive DEF DedupTypes
  <2>4. /\ k.log \in Seq(Line) /\ k.errors \in 0 .. MaxErrors
        /\ k.on = (Persist /\ k.errors < MaxErrors) /\ k.lost \subseteq Id
        /\ k.torn \in BOOLEAN /\ (k.torn => k.log # << >>)
    BY <1>3 DEF JournalShape, Journal
  <2>5. DOMAIN marked' \subseteq Id /\ \A c \in DOMAIN marked' : marked'[c] \in Time
    BY <1>1, TypesGive DEF DedupTypes
  <2>6. DedupTypeOK'
    BY <1>4, <2>1, <2>2, <2>4, <2>5 DEF DedupTypeOK, new, k
  <2>7. JournalShape(journal)'
    BY <1>3 DEF k
  <2>8. LogBound(journal)'
    BY <1>1, <1>3 DEF LogBound, k
  <2>9. (\A c, x : Holds(entries, c, x) => 2 * (x - TTL - lastSweep) < TTL)'
    BY <1>1, <1>3 DEF new
  <2> QED
    BY <2>2, <2>5, <2>6, <2>7, <2>8, <2>9 DEF DedupTypes
<1>6. Forgotten(entries, journal) => Forgotten(entries, journal)'
  BY <1>1, <1>3 DEF Forgotten, new, k
<1>7. Backed(entries, journal, marked, clock) => Backed(entries, journal, marked, clock)'
  BY <1>1, <1>3 DEF new, k
<1> QED
  BY <1>5, <1>6, <1>7

LEMMA TickStep ==
  ASSUME DedupTypes, Tick
  PROVE  /\ DedupTypes'
         /\ Forgotten(entries, journal) => Forgotten(entries, journal)'
         /\ Backed(entries, journal, marked, clock) => Backed(entries, journal, marked, clock)'
<1>1. /\ clock < MaxTime /\ clock' = clock + 1
      /\ UNCHANGED <<entries, lastSweep, journal, marked, unmarked>>
  BY DEF Tick
<1>2. clock \in Nat /\ MaxTime \in Nat /\ TTL \in Nat /\ MaxLag \in Nat /\ lastSweep \in Nat
  BY TypesGive, NumbersAre DEF Numbers
<1>3. DedupTypes'
  <2>1. clock' \in Time /\ lastSweep <= clock'
    BY <1>1, <1>2 DEF Time, DedupTypes
  <2>2. DedupTypeOK'
    BY <1>1, <2>1 DEF DedupTypes, DedupTypeOK
  <2>3. LogBound(journal)'
    <3>1. \A e \in Entry : e.exp \in Nat
      BY TypesGive DEF Entry
    <3>2. \A p \in DOMAIN journal.log : journal.log[p] \in Entry => journal.log[p].exp <= clock + 1 + TTL
      BY <1>2, <3>1 DEF DedupTypes, LogBound
    <3> QED
      BY <1>1, <3>2 DEF LogBound
  <2>4. JournalShape(journal)'
    BY <1>1 DEF DedupTypes
  <2>5. (\A b, x : Holds(entries, b, x) => 2 * (x - TTL - lastSweep) < TTL)'
    BY <1>1 DEF DedupTypes
  <2>6. \A b \in DOMAIN marked' : marked'[b] \in Time
    BY <1>1 DEF DedupTypes
  <2> QED
    BY <1>1, <2>1, <2>2, <2>3, <2>4, <2>5, <2>6 DEF DedupTypes
<1>4. Forgotten(entries, journal) => Forgotten(entries, journal)'
  BY <1>1 DEF Forgotten
<1>5. ASSUME Backed(entries, journal, marked, clock)
      PROVE  Backed(entries, journal, marked, clock)'
  <2>1. \A b \in Live(marked, clock + 1) : b \in Live(marked, clock)
    BY <1>2, TypesGive DEF Live
  <2>2. InWindow(entries, marked, clock + 1) /\ InJournal(journal, marked, clock + 1)
    BY <1>5, <2>1 DEF Backed, InWindow, InJournal
  <2>3. InOrder(entries, journal, marked, clock + 1)
    <3> SUFFICES ASSUME NEW c \in Live(marked, clock + 1) \ journal.lost, NEW d \in Id \ journal.lost,
                        NEW p, NEW q, FinalAt(journal.log, p, c), FinalAt(journal.log, q, d), p < q,
                        journal.log[q].exp > clock + 1
                 PROVE  After(entries, c, d)
      BY DEF InOrder
    <3>1. journal.log[q].exp \in Nat
      BY TypesGive DEF FinalAt, FinalIn, Entry
    <3>2. journal.log[q].exp > clock
      BY <1>2, <3>1
    <3> QED
      BY <1>5, <2>1, <3>2 DEF Backed, InOrder
  <2> QED
    BY <1>1, <2>2, <2>3 DEF Backed
<1> QED
  BY <1>3, <1>4, <1>5

\* A restart rebuilds the window from the journal.
LEMMA RestartStep ==
  ASSUME DedupTypes, DedupRestart
  PROVE  /\ DedupTypes'
         /\ Forgotten(entries, journal) => Forgotten(entries, journal)'
         /\ Backed(entries, journal, marked, clock) => Backed(entries, journal, marked, clock)'
<1> DEFINE r == Restored
           log == journal.log
           lost == journal.lost
           new == entries'
           k == journal'
           m == marked'
<1>1. PICK readable \in BOOLEAN :
        /\ new = IF readable THEN Loaded ELSE << >>
        /\ m = Forget(marked, IF ~readable \/ (lost # {} /\ Len(Restored) > MaxEntries) THEN Id
                              ELSE lost)
        /\ unmarked' = IF readable THEN unmarked \ lost ELSE {}
  BY DEF DedupRestart
<1>2. /\ k = [journal EXCEPT !.errors = 0, !.on = Persist, !.lost = {}]
      /\ lastSweep' = clock /\ clock' = clock
  BY DEF DedupRestart
<1>3. /\ IsWindow(r)
      /\ \A b, x : Holds(r, b, x) <=> x > clock /\ \E p : FinalAt(log, p, b) /\ log[p].exp = x
      /\ \A b, c, p, q : /\ FinalAt(log, p, b) /\ log[p].exp > clock
                         /\ FinalAt(log, q, c) /\ log[q].exp > clock
                         /\ p < q
                         => After(r, b, c)
      /\ \A b, c : After(r, b, c) =>
           \E p, q : /\ FinalAt(log, p, b) /\ FinalAt(log, q, c) /\ p < q
                     /\ log[p].exp > clock /\ log[q].exp > clock
  BY TypesGive, RestoredIs
<1> DEFINE u == Bounded(r)
<1>4. /\ IsWindow(u) /\ Len(u) <= MaxEntries /\ (Len(r) <= MaxEntries => u = r)
      /\ \A b, x : Holds(u, b, x) <=> Known(b, u) /\ Holds(r, b, x)
      /\ \A b, c : After(u, b, c) <=> Known(b, u) /\ After(r, b, c)
      /\ \A b, c : Known(b, u) /\ After(r, b, c) => Known(c, u)
      /\ \A i \in 1 .. Len(r) : i > Len(r) - MaxEntries => Known(r[i].id, u)
  BY <1>3, BoundedIs
<1>5. readable => new = u
  BY <1>1 DEF Loaded
<1> HIDE DEF new, m, k, u, r
<1>6. /\ MaxErrors \in Nat /\ MaxErrors > 0 /\ Persist \in BOOLEAN
      /\ clock \in Nat /\ TTL \in Nat /\ TTL > 0 /\ MaxEntries \in Nat /\ MaxLag \in Nat
  BY DedupAssumption, TypesGive, NumbersAre DEF DedupAssumption, Numbers
<1>7. JournalShape(k) /\ k.log = log /\ k.lost = {}
  <2>1. journal \in Journal /\ (journal.torn => log # << >>)
    BY TypesGive DEF JournalShape
  <2>2. 0 \in 0 .. MaxErrors /\ {} \in SUBSET Id
    BY <1>6
  <2>3. /\ k \in Journal /\ k.log = log /\ k.lost = {} /\ k.torn = journal.torn
        /\ k.on = Persist /\ k.errors = 0
    BY <1>2, <1>6, <2>1, <2>2 DEF Journal
  <2>4. k.on = (Persist /\ k.errors < MaxErrors)
    BY <1>6, <2>3
  <2> QED
    BY <2>1, <2>3, <2>4 DEF JournalShape
<1>8. IsWindow(new) /\ Len(new) <= MaxEntries
  <2>1. CASE readable
    BY <1>4, <1>5, <2>1
  <2>2. CASE ~readable
    <3>1. new = << >>
      BY <1>1, <2>2
    <3>2. << >> \in Seq(Entry) /\ Len(<< >>) = 0 /\ DOMAIN << >> = {}
      BY EmptySeq
    <3> QED
      BY <1>6, <3>1, <3>2 DEF IsWindow
  <2> QED
    BY <2>1, <2>2
<1>9. \A b, x : Holds(new, b, x) => Holds(r, b, x)
  <2>1. ~readable => new = << >>
    BY <1>1
  <2>2. \A b, x : ~Holds(<< >>, b, x)
    BY DEF Holds
  <2> QED
    BY <1>4, <1>5, <2>1, <2>2
<1>10. \A b, x : Holds(r, b, x) => x \in Nat /\ x <= clock + TTL
  <2> SUFFICES ASSUME NEW b, NEW x, Holds(r, b, x) PROVE x \in Nat /\ x <= clock + TTL
    OBVIOUS
  <2>1. PICK p : FinalAt(log, p, b) /\ log[p].exp = x
    BY <1>3
  <2>2. p \in DOMAIN log /\ log[p] \in Entry
    BY <2>1, TypesGive DEF FinalAt, FinalIn
  <2> QED
    BY <2>1, <2>2, TypesGive DEF LogBound, DedupTypes, Entry
<1>11. DOMAIN m \subseteq DOMAIN marked /\ \A b \in DOMAIN m : m[b] = marked[b]
  BY <1>1 DEF Forget
<1>12. DedupTypes'
  <2>1. new \in Seq(Entry) /\ (\A c, d \in DOMAIN new : new[c].id = new[d].id => c = d)
    BY <1>8 DEF IsWindow
  <2>2. lastSweep' \in Time /\ lastSweep' <= clock' /\ clock' \in Time
    BY <1>2, <1>6, TypesGive
  <2>3. unmarked' \subseteq Id
    BY <1>1, TypesGive
  <2>4. /\ k.log \in Seq(Line) /\ k.errors \in 0 .. MaxErrors
        /\ k.on = (Persist /\ k.errors < MaxErrors) /\ k.lost \subseteq Id
        /\ k.torn \in BOOLEAN /\ (k.torn => k.log # << >>)
    BY <1>7 DEF JournalShape, Journal
  <2>5. DOMAIN marked' \subseteq Id /\ \A c \in DOMAIN marked' : marked'[c] \in Time
    BY <1>11, TypesGive DEF DedupTypes, m
  <2>6. DedupTypeOK'
    BY <1>8, <2>1, <2>2, <2>3, <2>4, <2>5 DEF DedupTypeOK, new, k
  <2>7. JournalShape(journal)'
    BY <1>7 DEF k
  <2>8. LogBound(journal)'
    BY <1>2, <1>7 DEF LogBound, DedupTypes, k
  <2>9. \A b, x : Holds(new, b, x) => 2 * (x - TTL - clock) < TTL
    <3> SUFFICES ASSUME NEW b, NEW x, Holds(new, b, x) PROVE 2 * (x - TTL - clock) < TTL
      OBVIOUS
    <3>1. x \in Nat /\ x <= clock + TTL
      BY <1>9, <1>10
    <3> QED
      BY <1>6, <3>1
  <2>10. (\A b, x : Holds(entries, b, x) => 2 * (x - TTL - lastSweep) < TTL)'
    BY <1>2, <2>9 DEF new
  <2> QED
    BY <2>2, <2>5, <2>6, <2>7, <2>8, <2>10 DEF DedupTypes
<1>13. ASSUME Forgotten(entries, journal) PROVE Forgotten(entries, journal)'
  <2>1. unmarked' \subseteq unmarked \ lost
    BY <1>1
  <2>2. \A b \in unmarked \ lost : \A p : ~FinalAt(log, p, b)
    BY <1>13 DEF Forgotten
  <2>3. \A b, x : Holds(r, b, x) => \E p : FinalAt(log, p, b)
    BY <1>3
  <2>4. \A b \in unmarked' : ~Known(b, new)
    BY <1>8, <1>9, <2>1, <2>2, <2>3, WindowFacts
  <2> QED
    BY <1>7, <2>1, <2>2, <2>4 DEF Forgotten, new, k
<1>14. ASSUME Backed(entries, journal, marked, clock)
       PROVE  Backed(entries, journal, marked, clock)'
  <2>1. ASSUME NEW b \in Live(m, clock)
        PROVE  /\ readable /\ b \in Live(marked, clock) \ lost /\ m[b] = marked[b] /\ b \in Id
               /\ lost = {} \/ Len(r) <= MaxEntries
    <3>1. b \in DOMAIN m /\ b \in DOMAIN marked /\ b \in Id /\ m[b] = marked[b]
      BY <1>11, TypesGive DEF Live
    <3>2. readable /\ ~(lost # {} /\ Len(r) > MaxEntries) /\ b \notin lost
      BY <1>1, <3>1 DEF Forget, r
    <3>3. Len(r) \in Nat
      BY <1>3, WindowFacts
    <3>4. lost = {} \/ Len(r) <= MaxEntries
      BY <1>6, <3>2, <3>3
    <3> QED
      BY <3>1, <3>2, <3>4 DEF Live
  <2>2. ASSUME NEW b \in Live(m, clock)
        PROVE  \E p : /\ FinalAt(log, p, b) /\ log[p].exp + MaxLag >= m[b] + TTL
                      /\ log[p].exp \in Nat /\ log[p].exp > clock
    <3>1. PICK p : FinalAt(log, p, b) /\ log[p].exp + MaxLag >= m[b] + TTL
      BY <1>14, <2>1 DEF Backed, InJournal
    <3>2. log[p].exp \in Nat
      BY <3>1, TypesGive DEF FinalAt, FinalIn, Entry
    <3>3. clock + MaxLag < m[b] + TTL /\ m[b] \in Nat
      BY <2>1, TypesGive DEF Live
    <3>4. log[p].exp > clock
      BY <1>6, <3>1, <3>2, <3>3
    <3> QED
      BY <3>1, <3>2, <3>4
  <2>3. ASSUME NEW b \in Live(m, clock)
        PROVE  Known(b, r) /\ Known(b, u)
    <3>1. PICK p : FinalAt(log, p, b) /\ log[p].exp > clock
      BY <2>2
    <3>2. Known(b, r)
      <4>1. Holds(r, b, log[p].exp)
        BY <1>3, <3>1
      <4> QED
        BY <1>3, <4>1, WindowFacts
    <3>3. CASE Len(r) <= MaxEntries
      BY <1>4, <3>2, <3>3
    <3>4. CASE lost = {}
      <4>1. PICK i \in 1 .. Len(r) : r[i].id = b
        BY <1>3, <3>2, WindowFacts DEF Known
      <4>2. Known(b, entries)
        <5>1. Remembered(b, entries, marked[b] + TTL - MaxLag - 1)
          BY <1>14, <2>1 DEF Backed, InWindow
        <5> QED
          BY <5>1 DEF Remembered, Known
      <4>3. \A c : After(r, b, c) => After(entries, b, c)
        <5> SUFFICES ASSUME NEW c, After(r, b, c) PROVE After(entries, b, c)
          OBVIOUS
        <5>1. PICK q1, q2 : /\ FinalAt(log, q1, b) /\ FinalAt(log, q2, c) /\ q1 < q2
                            /\ log[q1].exp > clock /\ log[q2].exp > clock
          BY <1>3
        <5>2. c \in Id
          BY <5>1 DEF FinalAt, FinalIn, Entry
        <5> QED
          BY <1>14, <2>1, <3>4, <5>1, <5>2 DEF Backed, InOrder
      <4>4. Len(r) - i < Len(entries)
        BY <1>3, <4>1, <4>2, <4>3, TypesGive, NearTheEnd
      <4>5. i > Len(r) - MaxEntries
        <5>1. Len(r) \in Nat /\ Len(entries) \in Nat /\ Len(entries) <= MaxEntries
          BY <1>3, TypesGive, WindowFacts DEF DedupTypes, DedupTypeOK
        <5> QED
          BY <1>6, <4>4, <5>1
      <4>6. Known(b, u)
        BY <1>4, <4>1, <4>5
      <4> QED
        BY <3>2, <4>6
    <3> QED
      BY <2>1, <3>3, <3>4
  <2>4. InWindow(new, m, clock)
    <3> SUFFICES ASSUME NEW b \in Live(m, clock) PROVE Remembered(b, new, m[b] + TTL - MaxLag - 1)
      BY DEF InWindow
    <3>1. PICK p : /\ FinalAt(log, p, b) /\ log[p].exp + MaxLag >= m[b] + TTL
                   /\ log[p].exp \in Nat /\ log[p].exp > clock
      BY <2>2
    <3>2. Holds(r, b, log[p].exp)
      BY <1>3, <3>1
    <3>3. Holds(new, b, log[p].exp)
      BY <1>4, <1>5, <2>1, <2>3, <3>2
    <3>4. log[p].exp > m[b] + TTL - MaxLag - 1
      <4>1. m[b] \in Nat
        BY <2>1, TypesGive DEF Live
      <4> QED
        BY <1>6, <3>1, <4>1
    <3> QED
      BY <1>8, <3>3, <3>4, WindowFacts
  <2>5. InJournal(k, m, clock)
    BY <1>7, <2>2 DEF InJournal
  <2>6. InOrder(new, k, m, clock)
    <3> SUFFICES ASSUME NEW b \in Live(m, clock), NEW c, NEW p, NEW q,
                        FinalAt(log, p, b), FinalAt(log, q, c), p < q, log[q].exp > clock
                 PROVE  After(new, b, c)
      BY <1>7 DEF InOrder
    <3>1. log[p].exp > clock
      <4>1. PICK p1 : FinalAt(log, p1, b) /\ log[p1].exp > clock
        BY <2>2
      <4>2. Holds(r, b, log[p1].exp)
        BY <1>3, <4>1
      <4>3. p1 = p
        <5>1. /\ p1 \in 1 .. Len(log) /\ p \in 1 .. Len(log)
              /\ IdOf(log[p]) = {b} /\ IdOf(log[p1]) = {b}
          <6>1. /\ p1 \in 1 .. Len(log) /\ log[p1] \in Entry /\ log[p1].id = b
                /\ p \in 1 .. Len(log) /\ log[p] \in Entry /\ log[p].id = b
            BY <4>1 DEF FinalAt, FinalIn
          <6>2. log[p1] \in Line /\ log[p] \in Line
            BY <6>1 DEF Line
          <6>3. IdOf(log[p]) = {log[p].id}
            BY <6>1, <6>2, LineKinds
          <6>4. IdOf(log[p1]) = {log[p1].id}
            BY <6>1, <6>2, LineKinds
          <6> QED
            BY <6>1, <6>3, <6>4
        <5>2. Len(log) \in Nat
          BY TypesGive
        <5>3. ~(p < p1) /\ ~(p1 < p)
          BY <4>1, <5>1, <5>2 DEF FinalAt, FinalIn
        <5> QED
          BY <5>1, <5>2, <5>3
      <4> QED
        BY <4>1, <4>3
    <3>2. After(r, b, c)
      BY <1>3, <3>1
    <3> QED
      BY <1>4, <1>5, <2>1, <2>3, <3>2
  <2>7. Backed(new, k, m, clock)
    BY <2>4, <2>5, <2>6 DEF Backed
  <2> QED
    BY <1>2, <2>7 DEF new, k, m
<1> QED
  BY <1>12, <1>13, <1>14

LEMMA DedupInitially ==
  ASSUME DedupInit
  PROVE  /\ DedupTypes /\ Forgotten(entries, journal)
         /\ Backed(entries, journal, marked, clock)
<1>1. /\ clock = 0 /\ entries = << >> /\ lastSweep = 0
      /\ journal = [log |-> << >>, torn |-> FALSE, errors |-> 0, on |-> Persist, lost |-> {}]
      /\ marked = << >> /\ unmarked = {}
  BY DEF DedupInit
<1>2. /\ MaxErrors \in Nat /\ MaxErrors > 0 /\ Persist \in BOOLEAN /\ MaxTime \in Nat
      /\ TTL \in Nat /\ TTL > 0 /\ MaxEntries \in Nat
  BY DedupAssumption DEF DedupAssumption
<1>3. DOMAIN << >> = {} /\ << >> \in Seq(Line) /\ << >> \in Seq(Entry) /\ Len(<< >>) = 0
  BY EmptySeq
<1>4. 0 \in Time /\ 0 \in 0 .. MaxErrors
  BY <1>2 DEF Time
<1>5. JournalShape(journal)
  BY <1>1, <1>2, <1>3, <1>4 DEF JournalShape, Journal
<1>6. DedupTypeOK
  BY <1>1, <1>2, <1>3, <1>4 DEF DedupTypeOK
<1>7. DedupTypes
  BY <1>1, <1>3, <1>5, <1>6 DEF DedupTypes, LogBound, Holds
<1>8. Forgotten(entries, journal)
  BY <1>1 DEF Forgotten
<1>9. Backed(entries, journal, marked, clock)
  <2>1. Live(marked, clock) = {}
    BY <1>1, <1>3 DEF Live
  <2> QED
    BY <2>1 DEF Backed, InWindow, InJournal, InOrder
<1> QED
  BY <1>7, <1>8, <1>9

-----------------------------------------------------------------------------
(* The window: theorems *)

WindowInv ==
  DedupTypes /\ Forgotten(entries, journal) /\ Backed(entries, journal, marked, clock)

LEMMA DedupStep == WindowInv /\ [DedupNext]_dedupVars => WindowInv'
<1> SUFFICES ASSUME DedupTypes, Forgotten(entries, journal),
                    Backed(entries, journal, marked, clock), [DedupNext]_dedupVars
             PROVE  WindowInv'
  BY DEF WindowInv
<1>1. ASSUME NEW b \in Id, NEW t \in Recent, MarkNew(b, t) \/ MarkDuplicate(b, t)
      PROVE  WindowInv'
  <2>1. Mark(b, Swept(t), t)
    BY <1>1 DEF MarkNew, MarkDuplicate
  <2>2. t \in Time /\ t <= clock /\ clock <= t + MaxLag
    BY DEF Recent
  <2> QED
    BY <2>1, <2>2, MarkStep DEF WindowInv
<1>2. ASSUME NEW b \in Id, Unmark(b) PROVE WindowInv'
  BY <1>2, UnmarkStep DEF WindowInv
<1>3. CASE Size(clock)
  BY <1>3, SizeStep DEF WindowInv
<1>4. CASE DedupRestart
  BY <1>4, RestartStep DEF WindowInv
<1>5. CASE Tick
  BY <1>5, TickStep DEF WindowInv
<1>6. CASE UNCHANGED dedupVars
  <2>1. /\ clock' = clock /\ entries' = entries /\ lastSweep' = lastSweep
        /\ journal' = journal /\ marked' = marked /\ unmarked' = unmarked
    BY <1>6 DEF dedupVars
  <2> QED
    BY <2>1 DEF WindowInv, DedupTypes, DedupTypeOK, LogBound, Forgotten
<1> QED
  BY <1>1, <1>2, <1>3, <1>4, <1>5, <1>6 DEF DedupNext

THEOREM DedupInvariant == DedupSpec => []WindowInv
<1>1. DedupInit => WindowInv
  BY DedupInitially DEF WindowInv
<1> QED
  BY <1>1, DedupStep, PTL DEF DedupSpec

\* The window and the journal keep their shape: max_entries holds after every mark,
\* and after every restart from whatever the journal then is (dedup.py:151-153, 269).
THEOREM DedupTypeCorrect == DedupSpec => []DedupTypeOK
<1>1. WindowInv => DedupTypeOK
  BY DEF WindowInv, DedupTypes
<1> QED
  BY <1>1, DedupInvariant, PTL

\* What was unmarked is not recognised, not even after a restart (dedup.py:96-105),
\* whatever the ids, the sizes and the failures of the disk are.
THEOREM UnmarkedIsForgotten == DedupSpec => []UnmarkForgets
<1>1. ASSUME WindowInv PROVE UnmarkForgets
  <2>1. \A b \in unmarked : ~Known(b, entries)
    BY <1>1 DEF WindowInv, Forgotten
  <2> QED
    BY <2>1 DEF UnmarkForgets, Remembered, Known
<1> QED
  BY <1>1, DedupInvariant, PTL

\* What was marked is recognised for ttl seconds, less the age of the clock reading,
\* through sweeps, compactions, failing writes and restarts (dedup.py:67-94, 209-269).
THEOREM WindowIsKept == DedupSpec => []WindowHolds
<1>1. ASSUME WindowInv PROVE WindowHolds
  <2>1. DedupTypes /\ InWindow(entries, marked, clock)
    BY <1>1 DEF WindowInv, Backed
  <2> SUFFICES ASSUME NEW b \in DOMAIN marked, clock + MaxLag < marked[b] + TTL
               PROVE  Remembered(b, entries, clock)
    BY DEF WindowHolds
  <2>2. PICK x \in Expiry : Holds(entries, b, x) /\ x > marked[b] + TTL - MaxLag - 1
    BY <2>1, TypesGive, WindowFacts DEF InWindow, Live
  <2>3. x > clock
    <3>1. x \in Nat /\ clock \in Nat /\ marked[b] \in Nat /\ TTL \in Nat /\ MaxLag \in Nat
      BY <2>1, TypesGive, NumbersAre DEF Numbers
    <3> QED
      BY <2>2, <3>1
  <2> QED
    BY <2>1, <2>2, <2>3, TypesGive, WindowFacts
<1> QED
  BY <1>1, DedupInvariant, PTL

\* check_and_mark says "new" at most once of an id in ttl seconds, less the age of the
\* clock reading: two requests with the same batch are never both new, whatever is swept,
\* compacted, lost by a failing write or loaded again in between, unless the id was
\* unmarked or pushed out in the meantime (dedup.py:67-94, logtaker.py:536).
THEOREM NewOnceInWindow ==
  DedupSpec => [][\A b \in DOMAIN marked, t \in Recent :
                    MarkNew(b, t) => marked[b] + TTL <= clock + MaxLag]_dedupVars
<1>1. ASSUME WindowInv, WindowHolds, NEW b \in DOMAIN marked, NEW t \in Recent, MarkNew(b, t)
      PROVE  marked[b] + TTL <= clock + MaxLag
  <2>1. /\ IsWindow(entries) /\ clock \in Nat /\ marked[b] \in Nat
        /\ TTL \in Nat /\ MaxLag \in Nat /\ Time \subseteq Nat
    BY <1>1, TypesGive, NumbersAre DEF WindowInv, Numbers
  <2> SUFFICES ASSUME clock + MaxLag < marked[b] + TTL PROVE FALSE
    BY <2>1
  <2>2. t \in Nat /\ t \in Int /\ t <= clock
    BY <2>1 DEF Recent
  <2>3. Remembered(b, entries, clock)
    BY <1>1 DEF WindowHolds
  <2>4. PICK x \in Expiry : Holds(entries, b, x) /\ x > clock
    BY <2>1, <2>3, WindowFacts
  <2>5. x > t
    <3>1. x \in Nat
      BY <1>1, TypesGive DEF WindowInv
    <3> QED
      BY <2>1, <2>2, <2>4, <3>1
  <2>6. IsWindow(Swept(t)) /\ Holds(Swept(t), b, x)
    BY <2>1, <2>2, <2>4, <2>5, SweptIs
  <2>7. Remembered(b, Swept(t), t)
    BY <2>5, <2>6, WindowFacts
  <2> QED
    BY <1>1, <2>7 DEF MarkNew
<1>2. WindowInv /\ WindowHolds =>
        \A b \in DOMAIN marked, t \in Recent :
          MarkNew(b, t) => marked[b] + TTL <= clock + MaxLag
  BY <1>1
<1> QED
  BY <1>2, DedupInvariant, WindowIsKept, PTL

-----------------------------------------------------------------------------
(* The requests: types *)

TakerTypes ==
  /\ DedupTypes /\ TypeOK
  /\ \A x \in Handler : read[x] <= clock
  /\ \A x \in Handler : pc[x] # "idle" => batch[x] \in Id

LEMMA LastNIs ==
  ASSUME NEW S, NEW s \in Seq(S), NEW n \in Nat
  PROVE  LET r == LastN(s, n)
         IN /\ r \in Seq(S) /\ Len(r) = IF Len(s) <= n THEN Len(s) ELSE n
            /\ \A i \in 1 .. Len(r) : r[i] = s[Len(s) - Len(r) + i]
<1>1. Len(s) \in Nat
  OBVIOUS
<1>2. CASE Len(s) <= n
  BY <1>1, <1>2 DEF LastN
<1>3. CASE ~(Len(s) <= n)
  <2> DEFINE k == Len(s) - n + 1
             r == SubSeq(s, k, Len(s))
  <2>1. k \in 1 .. Len(s) + 1 /\ Len(s) - k + 1 = n
    BY <1>1, <1>3
  <2>2. r \in Seq(S) /\ Len(r) = n
    BY <1>1, <2>1, SubSeqProperties
  <2>3. \A i \in 1 .. Len(r) : r[i] = s[k + i - 1]
    BY <1>1, <2>1, <2>2, SubSeqProperties
  <2>4. LastN(s, n) = r
    BY <1>3 DEF LastN
  <2>5. \A i \in 1 .. Len(r) : k + i - 1 = Len(s) - Len(r) + i
    BY <1>1, <2>2
  <2> QED
    BY <1>3, <2>2, <2>3, <2>4, <2>5
<1> QED
  BY <1>2, <1>3

\* What the window's operations do is proved above: each keeps its types.
LEMMA TakerDedupStep ==
  ASSUME TakerTypes, [Next]_vars
  PROVE  DedupTypes' /\ clock' \in Time /\ clock <= clock'
<1>1. DedupTypes /\ clock \in Nat
  BY TypesGive DEF TakerTypes
<1>2. \A x \in Handler : /\ read[x] \in Time /\ read[x] <= clock
                         /\ pc[x] # "idle" => batch[x] \in Id
  BY DEF TakerTypes, TypeOK
<1>3. ASSUME NEW x \in Handler, CheckNew(x) \/ CheckDuplicate(x)
      PROVE  DedupTypes' /\ clock' = clock
  <2>1. Mark(batch[x], Swept(read[x]), read[x]) /\ batch[x] \in Id
    BY <1>2, <1>3 DEF CheckNew, CheckDuplicate, MarkNew, MarkDuplicate
  <2> QED
    BY <1>1, <1>2, <2>1, MarkStep DEF Mark
<1>4. ASSUME NEW x \in Handler, TakeMarkBack(x) PROVE DedupTypes' /\ clock' = clock
  <2>1. Unmark(batch[x]) /\ batch[x] \in Id
    BY <1>2, <1>4 DEF TakeMarkBack
  <2> QED
    BY <1>1, <2>1, UnmarkStep DEF Unmark
<1>5. ASSUME Restart PROVE DedupTypes' /\ clock' = clock
  BY <1>1, <1>5, RestartStep DEF Restart, DedupRestart
<1>6. CASE Clock
  <2>1. DedupTypes' /\ clock' = clock + 1
    BY <1>1, <1>6, TickStep DEF Clock, Tick
  <2> QED
    BY <1>1, <2>1, <1>6 DEF DedupTypes, DedupTypeOK
<1>7. ASSUME UNCHANGED dedupVars PROVE DedupTypes' /\ clock' = clock
  <2>1. /\ clock' = clock /\ entries' = entries /\ lastSweep' = lastSweep
        /\ journal' = journal /\ marked' = marked /\ unmarked' = unmarked
    BY <1>7 DEF dedupVars
  <2> QED
    BY <1>1, <2>1 DEF DedupTypes, DedupTypeOK, LogBound
<1>8. ASSUME DedupTypes', clock' = clock PROVE DedupTypes' /\ clock' \in Time /\ clock <= clock'
  BY <1>1, <1>8 DEF DedupTypes, DedupTypeOK
<1>9. CASE UNCHANGED vars
  BY <1>7, <1>8, <1>9 DEF vars
<1>10. ASSUME NEW x \in Handler, Handle(x) PROVE DedupTypes' /\ clock' = clock
  BY <1>3, <1>4, <1>7, <1>10
  DEF Handle, PutNowait, QueueFull, TailExtend, Reply
<1>11. ASSUME NEW x \in Handler, NEW b \in Id, Receive(x, b) PROVE DedupTypes' /\ clock' = clock
  BY <1>7, <1>11 DEF Receive
<1>12. CASE GetEvents
  BY <1>7, <1>8, <1>12 DEF GetEvents
<1> QED
  BY <1>5, <1>6, <1>8, <1>9, <1>10, <1>11, <1>12 DEF Next

LEMMA TakerTypesStep == TakerTypes /\ [Next]_vars => TakerTypes'
<1> SUFFICES ASSUME TakerTypes, [Next]_vars PROVE TakerTypes'
  OBVIOUS
<1>1. DedupTypes' /\ DedupTypeOK' /\ clock' \in Nat /\ clock \in Nat /\ clock <= clock'
      /\ clock \in Time /\ 0 \in Time /\ Time \subseteq Nat
  <2>1. DedupTypes' /\ clock' \in Time /\ clock <= clock' /\ clock \in Nat /\ clock \in Time
        /\ Time \subseteq Nat
    BY TakerDedupStep, TypesGive DEF TakerTypes
  <2>2. 0 \in Time
    BY NumbersAre DEF Time, Numbers
  <2> QED
    BY <2>1, <2>2 DEF DedupTypes
<1>2. /\ pc \in [Handler -> Pc] /\ batch \in [Handler -> Id \cup {NoBatch}]
      /\ read \in [Handler -> Time]
      /\ queue \in Seq(Id) /\ Len(queue) <= QueueSize
      /\ tail \in Seq(Id) /\ Len(tail) <= TailSize
      /\ acceptedSeq \in Seq(Id) /\ answered \subseteq Id
      /\ restarts \in 0 .. MaxRestart
      /\ \A x \in Handler : read[x] <= clock
      /\ \A x \in Handler : pc[x] # "idle" => batch[x] \in Id
      /\ QueueSize \in Nat /\ TailSize \in Nat /\ MaxRestart \in Nat
  BY TakerAssumption DEF TakerTypes, TypeOK, TakerAssumption
<1>3. ASSUME NEW x \in Handler, NEW y \in Pc, Goto(x, y), UNCHANGED <<batch, read>>,
             pc[x] # "idle"
      PROVE  /\ pc' \in [Handler -> Pc] /\ batch' \in [Handler -> Id \cup {NoBatch}]
             /\ read' \in [Handler -> Time]
             /\ \A z \in Handler : read'[z] <= clock'
             /\ \A z \in Handler : pc'[z] # "idle" => batch'[z] \in Id
  <2>1. pc' = [pc EXCEPT ![x] = y] /\ batch' = batch /\ read' = read
    BY <1>3 DEF Goto
  <2>2. \A z \in Handler : read[z] <= clock'
    <3> SUFFICES ASSUME NEW z \in Handler PROVE read[z] <= clock'
      OBVIOUS
    <3>1. read[z] \in Nat /\ read[z] <= clock
      BY <1>1, <1>2
    <3> QED
      BY <1>1, <3>1
  <2> QED
    BY <1>2, <1>3, <2>1, <2>2
<1>4. ASSUME NEW x \in Handler, Handle(x) PROVE TakerTypes'
  <2>1. CASE CheckNew(x) \/ CheckDuplicate(x) \/ QueueFull(x) \/ TakeMarkBack(x)
    <3>1. PICK y \in Pc : Goto(x, y) /\ pc[x] # "idle" /\ UNCHANGED <<batch, read>>
                          /\ UNCHANGED <<queue, tail, clientVars>>
      BY <2>1 DEF CheckNew, CheckDuplicate, QueueFull, TakeMarkBack, Pc
    <3>2. /\ queue' = queue /\ tail' = tail /\ acceptedSeq' = acceptedSeq
          /\ answered' = answered /\ restarts' = restarts
      BY <3>1 DEF clientVars
    <3> QED
      BY <1>1, <1>2, <1>3, <3>1, <3>2 DEF TakerTypes, TypeOK
  <2>2. CASE PutNowait(x)
    <3>1. /\ Goto(x, "tail") /\ pc[x] # "idle" /\ UNCHANGED <<batch, read>>
          /\ Len(queue) < QueueSize /\ tail' = tail /\ answered' = answered /\ restarts' = restarts
          /\ queue' = Append(queue, batch[x]) /\ acceptedSeq' = Append(acceptedSeq, batch[x])
      BY <2>2 DEF PutNowait
    <3>2. queue' \in Seq(Id) /\ Len(queue') = Len(queue) + 1 /\ acceptedSeq' \in Seq(Id)
      BY <1>2, <3>1
    <3>3. Len(queue) \in Nat
      BY <1>2
    <3>4. Len(queue') <= QueueSize
      BY <1>2, <3>1, <3>2, <3>3
    <3>5. "tail" \in Pc
      BY DEF Pc
    <3> QED
      BY <1>1, <1>2, <1>3, <3>1, <3>2, <3>4, <3>5 DEF TakerTypes, TypeOK
  <2>3. CASE TailExtend(x)
    <3>1. /\ Goto(x, "ok") /\ pc[x] # "idle" /\ UNCHANGED <<batch, read>>
          /\ queue' = queue /\ tail' = LastN(Append(tail, batch[x]), TailSize)
          /\ acceptedSeq' = acceptedSeq /\ answered' = answered /\ restarts' = restarts
      BY <2>3 DEF TailExtend, clientVars
    <3>2. Append(tail, batch[x]) \in Seq(Id)
      BY <1>2, <3>1
    <3>3. tail' \in Seq(Id) /\ Len(tail') <= TailSize
      <4>1. LET r == LastN(Append(tail, batch[x]), TailSize)
            IN r \in Seq(Id) /\ (Len(r) = IF Len(Append(tail, batch[x])) <= TailSize
                                          THEN Len(Append(tail, batch[x])) ELSE TailSize)
        BY <1>2, <3>2, LastNIs
      <4>2. Len(Append(tail, batch[x])) \in Nat
        BY <3>2
      <4> QED
        BY <1>2, <3>1, <4>1, <4>2
    <3>4. "ok" \in Pc
      BY DEF Pc
    <3> QED
      BY <1>1, <1>2, <1>3, <3>1, <3>3, <3>4 DEF TakerTypes, TypeOK
  <2>4. CASE Reply(x)
    <3>1. /\ pc' = [pc EXCEPT ![x] = "idle"] /\ batch' = [batch EXCEPT ![x] = NoBatch]
          /\ read' = [read EXCEPT ![x] = 0] /\ pc[x] # "idle"
          /\ answered' = answered \/ answered' = answered \cup {batch[x]}
          /\ queue' = queue /\ tail' = tail /\ acceptedSeq' = acceptedSeq
          /\ restarts' = restarts
      BY <2>4 DEF Reply, Goto
    <3>2. answered' \subseteq Id
      BY <1>2, <3>1
    <3>3. /\ pc' \in [Handler -> Pc] /\ batch' \in [Handler -> Id \cup {NoBatch}]
          /\ read' \in [Handler -> Time]
      BY <1>1, <1>2, <3>1 DEF Pc
    <3>4. \A z \in Handler : read'[z] <= clock'
      <4> SUFFICES ASSUME NEW z \in Handler PROVE read'[z] <= clock'
        OBVIOUS
      <4>1. read[z] \in Nat /\ read[z] <= clock
        BY <1>1, <1>2
      <4>2. read'[z] = 0 \/ read'[z] = read[z]
        BY <1>2, <3>1
      <4> QED
        BY <1>1, <4>1, <4>2
    <3>5. \A z \in Handler : pc'[z] # "idle" => batch'[z] \in Id
      BY <1>2, <3>1
    <3> QED
      BY <1>1, <1>2, <3>1, <3>2, <3>3, <3>4, <3>5 DEF TakerTypes, TypeOK
  <2> QED
    BY <1>4, <2>1, <2>2, <2>3, <2>4 DEF Handle
<1>5. ASSUME NEW x \in Handler, NEW b \in Id, Receive(x, b) PROVE TakerTypes'
  <2>1. /\ pc' = [pc EXCEPT ![x] = "mark"] /\ batch' = [batch EXCEPT ![x] = b]
        /\ read' = [read EXCEPT ![x] = clock]
        /\ queue' = queue /\ tail' = tail /\ acceptedSeq' = acceptedSeq
        /\ answered' = answered /\ restarts' = restarts
    BY <1>5 DEF Receive, Goto, clientVars
  <2>2. /\ pc' \in [Handler -> Pc] /\ batch' \in [Handler -> Id \cup {NoBatch}]
        /\ read' \in [Handler -> Time]
    BY <1>1, <1>2, <2>1 DEF Pc
  <2>3. \A z \in Handler : read'[z] <= clock'
    <3> SUFFICES ASSUME NEW z \in Handler PROVE read'[z] <= clock'
      OBVIOUS
    <3>1. read[z] \in Nat /\ read[z] <= clock
      BY <1>1, <1>2
    <3>2. read'[z] = clock \/ read'[z] = read[z]
      BY <1>2, <2>1
    <3> QED
      BY <1>1, <3>1, <3>2
  <2>4. \A z \in Handler : pc'[z] # "idle" => batch'[z] \in Id
    BY <1>2, <2>1
  <2> QED
    BY <1>1, <1>2, <2>1, <2>2, <2>3, <2>4 DEF TakerTypes, TypeOK
<1>6. ASSUME UNCHANGED <<handlerVars, tail, clientVars>>,
             queue' \in Seq(Id), Len(queue') <= QueueSize
      PROVE  TakerTypes'
  <2>1. /\ pc' = pc /\ batch' = batch /\ read' = read /\ tail' = tail /\ acceptedSeq' = acceptedSeq
        /\ answered' = answered /\ restarts' = restarts
    BY <1>6 DEF handlerVars, clientVars
  <2>2. \A z \in Handler : read[z] <= clock'
    <3> SUFFICES ASSUME NEW z \in Handler PROVE read[z] <= clock'
      OBVIOUS
    <3>1. read[z] \in Nat /\ read[z] <= clock
      BY <1>1, <1>2
    <3> QED
      BY <1>1, <3>1
  <2> QED
    BY <1>1, <1>2, <1>6, <2>1, <2>2 DEF TakerTypes, TypeOK
<1>7. CASE GetEvents
  <2>1. queue # << >> /\ queue' = Tail(queue) /\ UNCHANGED <<handlerVars, tail, clientVars>>
    BY <1>7 DEF GetEvents
  <2>2. queue' \in Seq(Id) /\ Len(queue') = Len(queue) - 1
    BY <1>2, <2>1
  <2>3. Len(queue) \in Nat
    BY <1>2
  <2>4. Len(queue') <= QueueSize
    BY <1>2, <2>2, <2>3
  <2> QED
    BY <1>6, <2>1, <2>2, <2>4
<1>8. CASE Clock \/ UNCHANGED vars
  BY <1>2, <1>6, <1>8 DEF Clock, vars
<1>9. CASE Restart
  <2>1. /\ pc' = [x \in Handler |-> "idle"] /\ batch' = [x \in Handler |-> NoBatch]
        /\ read' = [x \in Handler |-> 0] /\ queue' = << >> /\ tail' = << >>
        /\ acceptedSeq' = acceptedSeq /\ answered' = answered
        /\ restarts < MaxRestart /\ restarts' = restarts + 1
    BY <1>9 DEF Restart
  <2>2. << >> \in Seq(Id) /\ Len(<< >>) = 0
    OBVIOUS
  <2>3. restarts' \in 0 .. MaxRestart
    BY <1>2, <2>1
  <2>4. /\ pc' \in [Handler -> Pc] /\ batch' \in [Handler -> Id \cup {NoBatch}]
        /\ read' \in [Handler -> Time]
    BY <1>1, <2>1 DEF Pc
  <2>5. \A z \in Handler : read'[z] <= clock' /\ pc'[z] = "idle"
    BY <1>1, <2>1
  <2> QED
    BY <1>1, <1>2, <2>1, <2>2, <2>3, <2>4, <2>5 DEF TakerTypes, TypeOK
<1> QED
  BY <1>4, <1>5, <1>7, <1>8, <1>9 DEF Next

LEMMA TakerInitially == Init => TakerTypes
<1> SUFFICES ASSUME Init PROVE TakerTypes
  OBVIOUS
<1>1. DedupTypes /\ DedupTypeOK /\ clock = 0 /\ 0 \in Time
  <2>1. DedupInit
    BY DEF Init
  <2>2. DedupTypes
    BY <2>1, DedupInitially
  <2> QED
    BY <2>1, <2>2, NumbersAre DEF DedupTypes, DedupInit, Numbers, Time
<1>2. << >> \in Seq(Id) /\ Len(<< >>) = 0 /\ QueueSize \in Nat /\ TailSize \in Nat
      /\ MaxRestart \in Nat
  BY TakerAssumption DEF TakerAssumption
<1> QED
  BY <1>1, <1>2 DEF Init, TakerTypes, TypeOK, Pc

\* The window, the queue and the tail stay within their sizes and every handler keeps
\* its shape, whatever requests come and however they interleave (logtaker.py:551,
\* 238-239).
THEOREM TakerTypeCorrect == Spec => []TypeOK
<1>1. TakerTypes => TypeOK
  BY DEF TakerTypes
<1> QED
  BY <1>1, TakerInitially, TakerTypesStep, PTL DEF Spec

-----------------------------------------------------------------------------
(* The requests: a batch is accepted at most once *)

\* No id expires within the time of the model, or is pushed out.
Roomy == TTL > MaxTime /\ IsFiniteSet(Id) /\ Cardinality(Id) <= MaxEntries

Lasting(es) == \A b, x : Holds(es, b, x) => x >= TTL

\* The journal would give the window back.
OnDisk(es, j) ==
  /\ j.on /\ ~j.torn /\ j.lost = {}
  /\ \A p \in DOMAIN j.log : j.log[p] \in Entry => j.log[p].exp >= TTL
  /\ \A b : Known(b, es) => \E p : FinalAt(j.log, p, b)

LEMMA WindowFits ==
  ASSUME NEW es, IsWindow(es), Roomy
  PROVE  Len(es) <= MaxEntries
<1>1. /\ Len(es) \in Nat /\ DOMAIN es = 1 .. Len(es)
      /\ \A i \in 1 .. Len(es) : es[i].id \in Id
      /\ \A i, j \in 1 .. Len(es) : es[i].id = es[j].id => i = j
  <2>1. Len(es) \in Nat /\ DOMAIN es = 1 .. Len(es) /\ \A i \in 1 .. Len(es) : es[i].id \in Id
    BY WindowFacts
  <2> QED
    BY <2>1 DEF IsWindow
<1> DEFINE f == [i \in 1 .. Len(es) |-> es[i].id]
<1>2. f \in Injection(1 .. Len(es), Id)
  <2>1. f \in [1 .. Len(es) -> Id]
    BY <1>1
  <2>2. \A i, j \in 1 .. Len(es) : f[i] = f[j] => i = j
    BY <1>1
  <2> HIDE DEF f
  <2>3. DOMAIN f = 1 .. Len(es)
    BY <2>1
  <2> QED
    BY <2>1, <2>2, <2>3 DEF Injection, IsInjective
<1>3. Cardinality(1 .. Len(es)) <= Cardinality(Id)
  <2> HIDE DEF f
  <2> QED
    BY <1>2, FS_Injection DEF Roomy
<1>4. Cardinality(1 .. Len(es)) = Len(es)
  <2>1. 1 \in Int /\ Len(es) \in Int
    BY <1>1
  <2>2. Cardinality(1 .. Len(es)) = IF 1 > Len(es) THEN 0 ELSE Len(es) - 1 + 1
    BY <2>1, FS_Interval
  <2> QED
    BY <1>1, <2>2
<1>5. Cardinality(Id) \in Nat /\ MaxEntries \in Nat
  BY FS_CardinalityType, NumbersAre DEF Roomy, Numbers
<1> QED
  BY <1>1, <1>3, <1>4, <1>5 DEF Roomy

\* A sweep then removes nothing, and what is known is recognised.
LEMMA AllStay ==
  ASSUME DedupTypes, Roomy, Lasting(entries), NEW t \in Time
  PROVE  LET es == Swept(t)
         IN /\ Lasting(es)
            /\ \A b : Known(b, es) <=> Known(b, entries)
            /\ \A b : Remembered(b, es, t) <=> Known(b, entries)
<1> DEFINE es == Swept(t)
<1>1. IsWindow(entries) /\ t \in Nat /\ t <= MaxTime /\ TTL \in Nat /\ MaxTime \in Nat
      /\ TTL > MaxTime /\ Expiry \subseteq Nat
  BY TypesGive, NumbersAre DEF Numbers, Roomy, Time
<1>2. /\ IsWindow(es)
      /\ \A b, x : Holds(es, b, x) <=> Known(b, es) /\ Holds(entries, b, x)
      /\ \A b : Known(b, es) => Known(b, entries)
      /\ \A b, x : Holds(entries, b, x) /\ x > t => Known(b, es)
  BY <1>1, SweptIs
<1> HIDE DEF es
<1>3. \A b, x : Holds(entries, b, x) => x \in Nat /\ x > t
  <2> SUFFICES ASSUME NEW b, NEW x, Holds(entries, b, x) PROVE x \in Nat /\ x > t
    OBVIOUS
  <2>1. x \in Nat /\ x >= TTL
    BY <1>1, WindowFacts DEF Lasting
  <2> QED
    BY <1>1, <2>1
<1>4. \A b : Known(b, es) <=> Known(b, entries)
  BY <1>1, <1>2, <1>3, WindowFacts
<1>5. Lasting(es)
  BY <1>2 DEF Lasting
<1>6. \A b : Remembered(b, es, t) <=> Known(b, entries)
  <2>1. \A b : Remembered(b, es, t) <=> \E x \in Expiry : Holds(es, b, x) /\ x > t
    BY <1>2, WindowFacts
  <2>2. \A b : Known(b, es) => \E x \in Expiry : Holds(es, b, x)
    BY <1>2, WindowFacts
  <2>3. \A b, x : Holds(es, b, x) => Known(b, es) /\ x > t
    BY <1>2, <1>3
  <2> QED
    BY <1>4, <2>1, <2>2, <2>3
<1> QED
  BY <1>4, <1>5, <1>6 DEF es

LEMMA CompactKeeps ==
  ASSUME DedupTypes, Roomy, Lasting(entries), ~JournalFails, OnDisk(entries, journal),
         NEW t \in Time, t <= clock, NEW j \in Compacted(journal, Swept(t), t)
  PROVE  OnDisk(Swept(t), j)
<1> DEFINE es == Swept(t)
<1>1. /\ IsWindow(es) /\ JournalShape(j)
      /\ Unchanged(j, journal) \/ (SweepDue(t) /\ Fresh(j, es, t))
  BY SweepStep
<1>2. Lasting(es) /\ \A b : Known(b, es) <=> Known(b, entries)
  BY AllStay
<1> HIDE DEF es
<1>3. CASE Unchanged(j, journal)
  <2>1. j = journal
    BY <1>3 DEF Unchanged
  <2>2. \A b : Known(b, es) => \E p : FinalAt(journal.log, p, b)
    BY <1>2 DEF OnDisk
  <2> QED
    BY <2>1, <2>2 DEF OnDisk, es
<1>4. CASE Fresh(j, es, t)
  <2>1. j.on /\ ~j.torn /\ j.lost = {}
    BY <1>4 DEF Fresh
  <2>2. DOMAIN es = 1 .. Len(es) /\ \A i \in 1 .. Len(es) : es[i].exp \in Expiry
    BY <1>1, WindowFacts
  <2>3. DOMAIN j.log = 1 .. Len(es)
    <3>1. j.log \in Seq(Line) /\ Len(j.log) = Len(es)
      BY <1>1, <1>4 DEF JournalShape, Journal, Fresh
    <3> QED
      BY <3>1
  <2>4. ASSUME NEW p \in 1 .. Len(es) PROVE j.log[p].exp >= TTL
    <3>1. j.log[p].exp = clock + (es[p].exp - t)
      BY <1>4 DEF Fresh
    <3>2. Holds(es, es[p].id, es[p].exp)
      BY <2>2 DEF Holds
    <3>3. es[p].exp >= TTL /\ es[p].exp \in Nat
      BY <1>2, <2>2, <3>2, TypesGive DEF Lasting
    <3>4. t \in Nat /\ clock \in Nat /\ TTL \in Nat
      BY TypesGive, NumbersAre DEF Numbers
    <3> QED
      BY <3>1, <3>3, <3>4
  <2>5. ASSUME NEW b, Known(b, es) PROVE \E p : FinalAt(j.log, p, b)
    <3>1. PICK i \in 1 .. Len(es) : es[i].id = b
      BY <2>2, <2>5 DEF Known
    <3>2. FinalAt(j.log, i, b)
      BY <1>4, <3>1 DEF Fresh
    <3> QED
      BY <3>2
  <2> QED
    BY <2>1, <2>3, <2>4, <2>5 DEF OnDisk, es
<1> QED
  BY <1>1, <1>3, <1>4

\* One more line in a journal that does not fail.
LEMMA LineKeeps ==
  ASSUME ~JournalFails, NEW j, JournalShape(j), NEW es, OnDisk(es, j), NEW b \in Id,
         NEW line \in Line, IdOf(line) = {b}, line \in Entry => line.exp >= TTL,
         NEW k \in Logged(j, line), NEW new,
         \A c : Known(c, new) => c \in Id,
         \A c : Known(c, new) => (c # b /\ Known(c, es)) \/ (c = b /\ line \in Entry)
  PROVE  OnDisk(new, k)
<1>1. j.on /\ ~j.torn /\ j.lost = {} /\ j.log \in Seq(Line) /\ j \in Journal
  BY DEF OnDisk, JournalShape, Journal
<1>2. k = [Longer(j, line) EXCEPT !.torn = FALSE, !.errors = 0]
  BY <1>1 DEF Logged
<1>3. Longer(j, line) = [j EXCEPT !.log = Append(@, line), !.lost = @ \ IdOf(line)]
  BY <1>1 DEF Longer
<1>4. k.on /\ ~k.torn /\ k.lost = {}
  BY <1>1, <1>2, <1>3 DEF Journal
<1>5. Wrote(k, j, line, b)
  BY LoggedIs
<1>6. \A p \in DOMAIN k.log : k.log[p] \in Entry => k.log[p].exp >= TTL
  BY <1>5 DEF Wrote, NothingElse, OnDisk
<1>7. ASSUME NEW c, Known(c, new) PROVE \E p : FinalAt(k.log, p, c)
  <2>1. c \in Id
    BY <1>7
  <2>2. CASE c # b /\ Known(c, es)
    <3>1. \E p : FinalAt(j.log, p, c)
      BY <2>2 DEF OnDisk
    <3>2. \A p : FinalAt(k.log, p, c) <=> FinalAt(j.log, p, c)
      BY <1>4, <1>5, <2>1, <2>2 DEF Wrote
    <3> QED
      BY <3>1, <3>2
  <2>3. CASE c = b /\ line \in Entry
    BY <1>4, <1>5, <2>3 DEF Wrote
  <2> QED
    BY <1>7, <2>2, <2>3
<1> QED
  BY <1>4, <1>6, <1>7 DEF OnDisk

LEMMA MarkKeeps ==
  ASSUME DedupTypes, Roomy, Lasting(entries), NEW b \in Id, NEW t \in Time, t <= clock,
         Mark(b, Swept(t), t)
  PROVE  /\ Lasting(entries')
         /\ \A c : Known(c, entries') <=> c = b \/ Known(c, entries)
         /\ ~JournalFails /\ OnDisk(entries, journal) => OnDisk(entries', journal')
<1> DEFINE es == Swept(t)
           new == entries'
           line == [id |-> b, exp |-> clock + TTL]
<1>1. t \in Nat /\ clock \in Nat /\ TTL \in Nat /\ MaxTime \in Nat /\ t <= MaxTime /\ clock <= MaxTime
  BY TypesGive, NumbersAre DEF Numbers, Time
<1>2. t + TTL \in Expiry /\ clock + TTL \in Expiry /\ t + TTL >= TTL /\ clock + TTL >= TTL
  BY <1>1 DEF Expiry
<1>3. line \in Line /\ line \in Entry /\ IdOf(line) = {b} /\ line.exp = clock + TTL
  <2>1. line \in Entry /\ line.exp = clock + TTL /\ line.id = b
    BY <1>2 DEF Entry
  <2> HIDE DEF line
  <2>2. line \in Line
    BY <2>1 DEF Line
  <2>3. IdOf(line) = {b}
    BY <2>1, <2>2, LineKinds
  <2> QED
    BY <2>1, <2>2, <2>3
<1>4. PICK j \in Compacted(journal, es, t) : journal' \in Logged(j, line)
  BY DEF Mark
<1>5. new = Bounded(MoveToEnd(es, b, t + TTL))
  BY DEF Mark
<1>6. IsWindow(es) /\ JournalShape(j)
  BY <1>4, SweepStep
<1>7. Lasting(es) /\ \A c : Known(c, es) <=> Known(c, entries)
  BY AllStay
<1>8. ~JournalFails /\ OnDisk(entries, journal) => OnDisk(es, j)
  BY <1>4, CompactKeeps
<1> HIDE DEF es, line
<1>9. /\ IsWindow(MoveToEnd(es, b, t + TTL))
      /\ \A c : Known(c, MoveToEnd(es, b, t + TTL)) <=> Known(c, es) \/ c = b
      /\ \A c, y : Holds(MoveToEnd(es, b, t + TTL), c, y)
                     <=> (IF c = b THEN y = t + TTL ELSE Holds(es, c, y))
  BY <1>2, <1>6, MoveToEndIs
<1>10. new = MoveToEnd(es, b, t + TTL)
  <2>1. Len(MoveToEnd(es, b, t + TTL)) <= MaxEntries
    BY <1>9, WindowFits
  <2> QED
    BY <1>5, <1>9, <2>1, BoundedIs
<1> HIDE DEF new
<1>11. IsWindow(new) /\ Lasting(new) /\ \A c : Known(c, new) <=> c = b \/ Known(c, entries)
  BY <1>2, <1>7, <1>9, <1>10 DEF Lasting
<1>12. ASSUME ~JournalFails, OnDisk(entries, journal) PROVE OnDisk(new, journal')
  <2>1. \A c : Known(c, new) => c \in Id
    BY <1>11, WindowFacts
  <2>2. \A c : Known(c, new) => (c # b /\ Known(c, es)) \/ (c = b /\ line \in Entry)
    BY <1>3, <1>7, <1>11
  <2>3. line \in Entry => line.exp >= TTL
    BY <1>2, <1>3
  <2> QED
    BY <1>3, <1>4, <1>6, <1>8, <1>12, <2>1, <2>2, <2>3, LineKeeps
<1> QED
  BY <1>11, <1>12 DEF new

LEMMA UnmarkKeeps ==
  ASSUME DedupTypes, NEW b \in Id, Unmark(b)
  PROVE  /\ \A c : Known(c, entries') <=> c # b /\ Known(c, entries)
         /\ Lasting(entries) => Lasting(entries')
         /\ ~JournalFails /\ OnDisk(entries, journal) => OnDisk(entries', journal')
<1> DEFINE new == entries'
           line == [id |-> b, del |-> TRUE]
<1>1. line \in Line /\ line \notin Entry /\ IdOf(line) = {b}
  <2>1. line \in [id : Id, del : {TRUE}] /\ "exp" \notin DOMAIN line /\ "id" \in DOMAIN line
        /\ line.id = b
    OBVIOUS
  <2> HIDE DEF line
  <2> QED
    BY <2>1 DEF Line, Entry, IdOf
<1>2. new = WithoutId(entries, b) /\ journal' \in Logged(journal, line)
  BY DEF Unmark
<1> HIDE DEF line
<1>3. IsWindow(entries) /\ JournalShape(journal)
  BY TypesGive
<1>4. /\ IsWindow(new) /\ ~Known(b, new)
      /\ \A c, x : Holds(new, c, x) <=> c # b /\ Holds(entries, c, x)
  BY <1>2, <1>3, WithoutIdIs
<1> HIDE DEF new
<1>5. \A c : Known(c, new) <=> c # b /\ Known(c, entries)
  <2>1. \A c, x : Holds(new, c, x) => Known(c, new)
    BY <1>4, WindowFacts
  <2>2. \A c, x : Holds(entries, c, x) => Known(c, entries)
    BY <1>3, WindowFacts
  <2>3. \A c : Known(c, new) => \E x \in Expiry : Holds(new, c, x)
    BY <1>4, WindowFacts
  <2>4. \A c : Known(c, entries) => \E x \in Expiry : Holds(entries, c, x)
    BY <1>3, WindowFacts
  <2> QED
    BY <1>4, <2>1, <2>2, <2>3, <2>4
<1>6. Lasting(entries) => Lasting(new)
  BY <1>4 DEF Lasting
<1>7. ASSUME ~JournalFails, OnDisk(entries, journal) PROVE OnDisk(new, journal')
  <2>1. \A c : Known(c, new) => c \in Id
    BY <1>4, WindowFacts
  <2> QED
    BY <1>1, <1>2, <1>3, <1>5, <1>7, <2>1, LineKeeps
<1> QED
  BY <1>5, <1>6, <1>7 DEF new

\* A restart with a readable journal knows at least what was known.
LEMMA RestartKeeps ==
  ASSUME DedupTypes, Roomy, Persist, ~JournalFails, OnDisk(entries, journal), DedupRestart
  PROVE  /\ \A b : Known(b, entries) => Known(b, entries')
         /\ Lasting(entries') /\ OnDisk(entries', journal')
<1> DEFINE r == Restored
           log == journal.log
           new == entries'
<1>1. new = Loaded /\ journal' = [journal EXCEPT !.errors = 0, !.on = Persist, !.lost = {}]
  BY DEF DedupRestart
<1>2. /\ IsWindow(r)
      /\ \A b, x : Holds(r, b, x) <=> x > clock /\ \E p : FinalAt(log, p, b) /\ log[p].exp = x
  <2>1. journal.log \in Seq(Line) /\ clock \in Int
    BY TypesGive
  <2> QED
    BY <2>1, RestoredIs
<1> HIDE DEF r
<1>3. new = r
  <2>1. Len(r) <= MaxEntries
    BY <1>2, WindowFits
  <2> QED
    BY <1>1, <1>2, <2>1, BoundedIs DEF Loaded, r
<1> HIDE DEF new
<1>4. clock \in Nat /\ TTL \in Nat /\ TTL > clock
  <2>1. clock \in Nat /\ clock <= MaxTime /\ MaxTime \in Nat /\ TTL \in Nat /\ TTL > MaxTime
    BY TypesGive, NumbersAre DEF Numbers, Roomy, Time
  <2> QED
    BY <2>1
<1>5. \A b, p : FinalAt(log, p, b) => log[p].exp \in Nat /\ log[p].exp >= TTL
  BY TypesGive DEF FinalAt, FinalIn, OnDisk, Entry
<1>6. Lasting(new)
  BY <1>2, <1>3, <1>5 DEF Lasting
<1>7. \A b : Known(b, entries) => Known(b, new)
  <2> SUFFICES ASSUME NEW b, Known(b, entries) PROVE Known(b, new)
    OBVIOUS
  <2>1. PICK p : FinalAt(log, p, b)
    BY DEF OnDisk
  <2>2. log[p].exp > clock
    <3>1. log[p].exp \in Nat /\ log[p].exp >= TTL
      BY <1>5, <2>1
    <3> QED
      BY <1>4, <3>1
  <2>3. Holds(r, b, log[p].exp)
    BY <1>2, <2>1, <2>2
  <2> QED
    BY <1>2, <1>3, <2>3, WindowFacts
<1>8. OnDisk(new, journal')
  <2>1. journal \in Journal
    BY TypesGive DEF JournalShape
  <2>2. journal'.log = log /\ journal'.on /\ journal'.torn = journal.torn /\ journal'.lost = {}
    BY <1>1, <2>1 DEF Journal
  <2>3. \A b : Known(b, new) => \E p : FinalAt(log, p, b)
    <3>1. \A b : Known(b, r) => \E x \in Expiry : Holds(r, b, x)
      BY <1>2, WindowFacts
    <3> QED
      BY <1>2, <1>3, <3>1
  <2> QED
    BY <2>2, <2>3 DEF OnDisk
<1> QED
  BY <1>6, <1>7, <1>8 DEF new

Marking(x) == pc[x] \in {"put", "unmark"}

\* Who holds a mark holds it alone, for a batch that is not accepted; what is accepted
\* stays known, and where the server may start again, on disk.
MarksAreHeld ==
  /\ \A x \in Handler : Marking(x) => Known(batch[x], entries) /\ batch[x] \notin Accepted
  /\ \A x, y \in Handler : Marking(x) /\ Marking(y) /\ batch[x] = batch[y] => x = y
AcceptedIsKnown == \A b \in Accepted : Known(b, entries)
WindowLasts == Lasting(entries) /\ (MaxRestart > 0 => OnDisk(entries, journal))

\* A handler about to extend the tail does so for an accepted batch that is not there
\* yet, and no other handler does; as long as the tail has room, nothing is missing.
TailIsDue ==
  /\ ToSet(tail) \subseteq Accepted /\ IsInjective(tail)
  /\ \A x \in Handler : pc[x] = "tail" => batch[x] \in Accepted \ ToSet(tail)
  /\ \A x, y \in Handler : pc[x] = "tail" /\ pc[y] = "tail" /\ batch[x] = batch[y] => x = y
  /\ restarts = 0 /\ Len(tail) < TailSize =>
       \A b \in Accepted : b \in ToSet(tail) \/ \E x \in Handler : pc[x] = "tail" /\ batch[x] = b

OnceInv ==
  TakerTypes /\ MarksAreHeld /\ AcceptedIsKnown /\ WindowLasts /\ IsInjective(acceptedSeq) /\ TailIsDue

LEMMA AppendTo ==
  ASSUME NEW S, NEW s \in Seq(S), NEW e \in S
  PROVE  /\ ToSet(Append(s, e)) = ToSet(s) \cup {e}
         /\ IsInjective(s) /\ e \notin ToSet(s) => IsInjective(Append(s, e))
<1> DEFINE r == Append(s, e)
<1>1. /\ r \in Seq(S) /\ Len(r) = Len(s) + 1 /\ Len(s) \in Nat
      /\ \A i \in 1 .. Len(s) : r[i] = s[i]
      /\ r[Len(s) + 1] = e
  OBVIOUS
<1>2. DOMAIN s = 1 .. Len(s) /\ DOMAIN r = 1 .. Len(s) + 1
  BY <1>1
<1> HIDE DEF r
<1>3. ToSet(r) = ToSet(s) \cup {e}
  <2>1. ASSUME NEW v \in ToSet(r) PROVE v \in ToSet(s) \cup {e}
    BY <1>1, <1>2 DEF ToSet
  <2>2. ASSUME NEW v \in ToSet(s) PROVE v \in ToSet(r)
    <3>1. PICK i \in 1 .. Len(s) : s[i] = v
      BY <1>2 DEF ToSet
    <3>2. i \in 1 .. Len(s) + 1 /\ r[i] = v
      BY <1>1, <3>1
    <3> QED
      BY <1>2, <3>2 DEF ToSet
  <2>3. e \in ToSet(r)
    <3>1. Len(s) + 1 \in 1 .. Len(s) + 1
      BY <1>1
    <3> QED
      BY <1>1, <1>2, <3>1 DEF ToSet
  <2> QED
    BY <2>1, <2>2, <2>3
<1>4. ASSUME IsInjective(s), e \notin ToSet(s) PROVE IsInjective(r)
  <2>1. \A i \in 1 .. Len(s) : s[i] # e
    BY <1>2, <1>4 DEF ToSet
  <2>2. \A i, j \in 1 .. Len(s) : s[i] = s[j] => i = j
    BY <1>2, <1>4 DEF IsInjective
  <2>3. ASSUME NEW i \in 1 .. Len(s) + 1, NEW j \in 1 .. Len(s) + 1, r[i] = r[j]
        PROVE  i = j
    <3>1. (i \in 1 .. Len(s) \/ i = Len(s) + 1) /\ (j \in 1 .. Len(s) \/ j = Len(s) + 1)
      BY <1>1
    <3> QED
      BY <1>1, <2>1, <2>2, <2>3, <3>1
  <2> QED
    BY <1>2, <2>3 DEF IsInjective
<1> QED
  BY <1>3, <1>4 DEF r

LEMMA LastNKeeps ==
  ASSUME NEW S, NEW s \in Seq(S), NEW n \in Nat
  PROVE  /\ ToSet(LastN(s, n)) \subseteq ToSet(s)
         /\ IsInjective(s) => IsInjective(LastN(s, n))
         /\ Len(s) <= n => LastN(s, n) = s
<1> DEFINE r == LastN(s, n)
<1>1. /\ r \in Seq(S) /\ Len(r) = IF Len(s) <= n THEN Len(s) ELSE n
      /\ \A i \in 1 .. Len(r) : r[i] = s[Len(s) - Len(r) + i]
  BY LastNIs
<1>2. Len(s) <= n => r = s
  BY DEF LastN
<1> HIDE DEF r
<1>3. /\ Len(s) \in Nat /\ Len(r) \in Nat /\ DOMAIN s = 1 .. Len(s) /\ DOMAIN r = 1 .. Len(r)
  BY <1>1
<1>4. \A i \in 1 .. Len(r) : Len(s) - Len(r) + i \in 1 .. Len(s)
  <2>1. Len(r) <= Len(s)
    BY <1>1, <1>3
  <2> QED
    BY <1>3, <2>1
<1>5. ToSet(r) \subseteq ToSet(s)
  BY <1>1, <1>3, <1>4 DEF ToSet
<1>6. ASSUME IsInjective(s) PROVE IsInjective(r)
  <2>1. \A i, j \in 1 .. Len(s) : s[i] = s[j] => i = j
    BY <1>3, <1>6 DEF IsInjective
  <2>2. ASSUME NEW i \in 1 .. Len(r), NEW j \in 1 .. Len(r), r[i] = r[j] PROVE i = j
    <3>1. Len(s) - Len(r) + i = Len(s) - Len(r) + j
      BY <1>1, <1>4, <2>1, <2>2
    <3> QED
      BY <1>3, <3>1
  <2> QED
    BY <1>3, <2>2 DEF IsInjective
<1> QED
  BY <1>2, <1>5, <1>6 DEF r

LEMMA Counted ==
  ASSUME NEW S, NEW s \in Seq(S), IsInjective(s)
  PROVE  IsFiniteSet(ToSet(s)) /\ Cardinality(ToSet(s)) = Len(s)
<1>1. Len(s) \in Nat /\ DOMAIN s = 1 .. Len(s)
  OBVIOUS
<1>2. s \in [1 .. Len(s) -> ToSet(s)]
  BY <1>1 DEF ToSet
<1>3. s \in Bijection(1 .. Len(s), ToSet(s))
  BY <1>1, <1>2 DEF ToSet, Bijection, Injection, Surjection, IsInjective
<1>4. ExistsBijection(1 .. Len(s), ToSet(s))
  BY <1>3 DEF ExistsBijection
<1> QED
  BY <1>1, <1>4, FS_CountingElements, FS_NatBijection

\* No id is forgotten for its age or for want of room, nor by a restart.
WindowSuffices == Roomy /\ (MaxRestart = 0 \/ (Persist /\ ~JournalFails))

\* The steps that touch neither the window nor what is accepted, and begin no marking.
LEMMA MarksSame ==
  ASSUME MarksAreHeld, AcceptedIsKnown, entries' = entries, acceptedSeq' = acceptedSeq,
         \A z \in Handler : Marking(z)' => Marking(z) /\ batch'[z] = batch[z]
  PROVE  MarksAreHeld' /\ AcceptedIsKnown'
<1>1. Accepted' = Accepted
  BY DEF Accepted
<1>2. AcceptedIsKnown'
  BY <1>1 DEF AcceptedIsKnown
<1>3. \A x \in Handler : Marking(x)' => Known(batch'[x], entries') /\ batch'[x] \notin Accepted'
  BY <1>1 DEF MarksAreHeld
<1>4. \A x, y \in Handler : Marking(x)' /\ Marking(y)' /\ batch'[x] = batch'[y] => x = y
  BY DEF MarksAreHeld
<1> QED
  BY <1>2, <1>3, <1>4 DEF MarksAreHeld

LEMMA TailSame ==
  ASSUME TailIsDue, tail' = tail, acceptedSeq' = acceptedSeq, restarts' = restarts,
         \A z \in Handler : (pc'[z] = "tail") <=> (pc[z] = "tail"),
         \A z \in Handler : pc[z] = "tail" => batch'[z] = batch[z]
  PROVE  TailIsDue'
<1>1. Accepted' = Accepted
  BY DEF Accepted
<1>2. \A x \in Handler : pc'[x] = "tail" => batch'[x] \in Accepted \ ToSet(tail)
  BY DEF TailIsDue
<1>3. \A x, y \in Handler : pc'[x] = "tail" /\ pc'[y] = "tail" /\ batch'[x] = batch'[y] => x = y
  BY DEF TailIsDue
<1>4. restarts = 0 /\ Len(tail) < TailSize =>
        \A b \in Accepted : b \in ToSet(tail) \/ \E x \in Handler : pc'[x] = "tail" /\ batch'[x] = b
  BY DEF TailIsDue
<1> QED
  BY <1>1, <1>2, <1>3, <1>4 DEF TailIsDue

LEMMA CheckNewOnce ==
  ASSUME OnceInv, WindowSuffices, NEW x \in Handler, CheckNew(x)
  PROVE  /\ MarksAreHeld' /\ AcceptedIsKnown' /\ WindowLasts' /\ IsInjective(acceptedSeq')
         /\ TailIsDue'
<1> DEFINE b == batch[x]
           t == read[x]
<1>1. /\ DedupTypes /\ b \in Id /\ t \in Time /\ t <= clock /\ Roomy /\ Lasting(entries)
      /\ pc \in [Handler -> Pc]
  BY DEF OnceInv, TakerTypes, TypeOK, CheckNew, WindowSuffices, WindowLasts
<1>2. /\ pc[x] = "mark" /\ pc' = [pc EXCEPT ![x] = "put"] /\ batch' = batch
      /\ ~Remembered(b, Swept(t), t) /\ Mark(b, Swept(t), t)
      /\ tail' = tail /\ acceptedSeq' = acceptedSeq /\ restarts' = restarts
  BY DEF CheckNew, MarkNew, Goto, clientVars
<1>3. ~Known(b, entries)
  BY <1>1, <1>2, AllStay
<1>4. /\ Lasting(entries') /\ \A c : Known(c, entries') <=> c = b \/ Known(c, entries)
      /\ ~JournalFails /\ OnDisk(entries, journal) => OnDisk(entries', journal')
  BY <1>1, <1>2, MarkKeeps
<1>5. Accepted' = Accepted
  BY <1>2 DEF Accepted
<1>6. WindowLasts'
  <2>1. MaxRestart > 0 => ~JournalFails /\ OnDisk(entries, journal)
    BY DEF OnceInv, WindowLasts, WindowSuffices
  <2> QED
    BY <1>4, <2>1 DEF WindowLasts
<1>7. AcceptedIsKnown'
  BY <1>4, <1>5 DEF OnceInv, AcceptedIsKnown
<1>8. \A z \in Handler : Marking(z)' => z = x \/ (Marking(z) /\ z # x)
  BY <1>1, <1>2 DEF Marking
<1>9. \A z \in Handler : Marking(z) => batch[z] # b
  BY <1>3 DEF OnceInv, MarksAreHeld
<1>10. MarksAreHeld'
  <2>1. b \notin Accepted
    BY <1>3 DEF OnceInv, AcceptedIsKnown
  <2>2. ASSUME NEW y \in Handler, Marking(y)'
        PROVE  Known(batch'[y], entries') /\ batch'[y] \notin Accepted'
    BY <1>2, <1>4, <1>5, <1>8, <2>1, <2>2 DEF OnceInv, MarksAreHeld
  <2>3. ASSUME NEW y \in Handler, NEW z \in Handler, Marking(y)', Marking(z)', batch'[y] = batch'[z]
        PROVE  y = z
    BY <1>2, <1>8, <1>9, <2>3 DEF OnceInv, MarksAreHeld
  <2> QED
    BY <2>2, <2>3 DEF MarksAreHeld
<1>11. TailIsDue'
  <2>1. \A z \in Handler : (pc'[z] = "tail") <=> (pc[z] = "tail")
    BY <1>1, <1>2
  <2> QED
    BY <1>2, <2>1, TailSame DEF OnceInv
<1> QED
  BY <1>2, <1>6, <1>7, <1>10, <1>11 DEF OnceInv

LEMMA CheckDuplicateOnce ==
  ASSUME OnceInv, WindowSuffices, NEW x \in Handler, CheckDuplicate(x)
  PROVE  /\ MarksAreHeld' /\ AcceptedIsKnown' /\ WindowLasts' /\ IsInjective(acceptedSeq')
         /\ TailIsDue'
<1> DEFINE b == batch[x]
           t == read[x]
<1>1. /\ DedupTypes /\ b \in Id /\ t \in Time /\ t <= clock /\ Roomy /\ Lasting(entries)
      /\ pc \in [Handler -> Pc]
  BY DEF OnceInv, TakerTypes, TypeOK, CheckDuplicate, WindowSuffices, WindowLasts
<1>2. /\ pc[x] = "mark" /\ pc' = [pc EXCEPT ![x] = "duplicate"] /\ batch' = batch
      /\ Mark(b, Swept(t), t)
      /\ tail' = tail /\ acceptedSeq' = acceptedSeq /\ restarts' = restarts
  BY DEF CheckDuplicate, MarkDuplicate, Goto, clientVars
<1>3. /\ Lasting(entries') /\ \A c : Known(c, entries') <=> c = b \/ Known(c, entries)
      /\ ~JournalFails /\ OnDisk(entries, journal) => OnDisk(entries', journal')
  BY <1>1, <1>2, MarkKeeps
<1>4. Accepted' = Accepted
  BY <1>2 DEF Accepted
<1>5. WindowLasts'
  <2>1. MaxRestart > 0 => ~JournalFails /\ OnDisk(entries, journal)
    BY DEF OnceInv, WindowLasts, WindowSuffices
  <2> QED
    BY <1>3, <2>1 DEF WindowLasts
<1>6. AcceptedIsKnown'
  BY <1>3, <1>4 DEF OnceInv, AcceptedIsKnown
<1>7. \A z \in Handler : Marking(z)' => Marking(z)
  BY <1>1, <1>2 DEF Marking
<1>8. MarksAreHeld'
  <2>1. ASSUME NEW y \in Handler, Marking(y)'
        PROVE  Known(batch'[y], entries') /\ batch'[y] \notin Accepted'
    BY <1>2, <1>3, <1>4, <1>7, <2>1 DEF OnceInv, MarksAreHeld
  <2>2. ASSUME NEW y \in Handler, NEW z \in Handler, Marking(y)', Marking(z)', batch'[y] = batch'[z]
        PROVE  y = z
    BY <1>2, <1>7, <2>2 DEF OnceInv, MarksAreHeld
  <2> QED
    BY <2>1, <2>2 DEF MarksAreHeld
<1>9. TailIsDue'
  <2>1. \A z \in Handler : (pc'[z] = "tail") <=> (pc[z] = "tail")
    BY <1>1, <1>2
  <2> QED
    BY <1>2, <2>1, TailSame DEF OnceInv
<1> QED
  BY <1>2, <1>5, <1>6, <1>8, <1>9 DEF OnceInv

LEMMA PutOnce ==
  ASSUME OnceInv, NEW x \in Handler, PutNowait(x)
  PROVE  /\ MarksAreHeld' /\ AcceptedIsKnown' /\ WindowLasts' /\ IsInjective(acceptedSeq')
         /\ TailIsDue'
<1> DEFINE b == batch[x]
<1>1. /\ pc[x] = "put" /\ pc' = [pc EXCEPT ![x] = "tail"] /\ batch' = batch
      /\ acceptedSeq' = Append(acceptedSeq, b) /\ tail' = tail /\ restarts' = restarts
      /\ entries' = entries /\ journal' = journal
  BY DEF PutNowait, Goto, dedupVars
<1>2. pc \in [Handler -> Pc] /\ acceptedSeq \in Seq(Id) /\ b \in Id
  BY <1>1 DEF OnceInv, TakerTypes, TypeOK
<1>3. Marking(x) /\ Known(b, entries) /\ b \notin Accepted
  BY <1>1 DEF OnceInv, MarksAreHeld, Marking
<1>4. Accepted' = Accepted \cup {b} /\ IsInjective(acceptedSeq')
  BY <1>1, <1>2, <1>3, AppendTo DEF Accepted, OnceInv
<1>5. WindowLasts' /\ AcceptedIsKnown'
  BY <1>1, <1>3, <1>4 DEF OnceInv, WindowLasts, AcceptedIsKnown
<1>6. \A z \in Handler : Marking(z)' => Marking(z) /\ z # x
  BY <1>1, <1>2 DEF Marking
<1>7. MarksAreHeld'
  <2>1. \A z \in Handler : Marking(z) /\ z # x => batch[z] # b
    BY <1>3 DEF OnceInv, MarksAreHeld
  <2>2. ASSUME NEW y \in Handler, Marking(y)'
        PROVE  Known(batch'[y], entries') /\ batch'[y] \notin Accepted'
    BY <1>1, <1>4, <1>6, <2>1, <2>2 DEF OnceInv, MarksAreHeld
  <2>3. ASSUME NEW y \in Handler, NEW z \in Handler, Marking(y)', Marking(z)', batch'[y] = batch'[z]
        PROVE  y = z
    BY <1>1, <1>6, <2>3 DEF OnceInv, MarksAreHeld
  <2> QED
    BY <2>2, <2>3 DEF MarksAreHeld
<1>8. TailIsDue'
  <2>1. \A z \in Handler : pc'[z] = "tail" <=> z = x \/ pc[z] = "tail"
    BY <1>1, <1>2
  <2>2. b \notin ToSet(tail) /\ ToSet(tail) \subseteq Accepted'
    BY <1>3, <1>4 DEF OnceInv, TailIsDue
  <2>3. \A z \in Handler : pc[z] = "tail" => batch[z] \in Accepted \ ToSet(tail) /\ batch[z] # b
    BY <1>3 DEF OnceInv, TailIsDue
  <2>4. \A z \in Handler : pc'[z] = "tail" => batch'[z] \in Accepted' \ ToSet(tail')
    BY <1>1, <1>4, <2>1, <2>2, <2>3
  <2>5. \A y, z \in Handler : pc'[y] = "tail" /\ pc'[z] = "tail" /\ batch'[y] = batch'[z] => y = z
    <3>1. \A y, z \in Handler : pc[y] = "tail" /\ pc[z] = "tail" /\ batch[y] = batch[z] => y = z
      BY DEF OnceInv, TailIsDue
    <3> QED
      BY <1>1, <2>1, <2>3, <3>1
  <2>6. ASSUME restarts' = 0, Len(tail') < TailSize, NEW c \in Accepted'
        PROVE  c \in ToSet(tail') \/ \E z \in Handler : pc'[z] = "tail" /\ batch'[z] = c
    <3>1. CASE c = b
      BY <1>1, <2>1, <3>1
    <3>2. CASE c # b
      <4>1. c \in ToSet(tail) \/ \E z \in Handler : pc[z] = "tail" /\ batch[z] = c
        BY <1>1, <1>4, <2>6, <3>2 DEF OnceInv, TailIsDue
      <4> QED
        BY <1>1, <2>1, <4>1
    <3> QED
      BY <3>1, <3>2
  <2>7. IsInjective(tail')
    BY <1>1 DEF OnceInv, TailIsDue
  <2> QED
    BY <1>1, <2>2, <2>4, <2>5, <2>6, <2>7 DEF TailIsDue
<1> QED
  BY <1>4, <1>5, <1>7, <1>8

LEMMA TakeBackOnce ==
  ASSUME OnceInv, WindowSuffices, NEW x \in Handler, TakeMarkBack(x)
  PROVE  /\ MarksAreHeld' /\ AcceptedIsKnown' /\ WindowLasts' /\ IsInjective(acceptedSeq')
         /\ TailIsDue'
<1> DEFINE b == batch[x]
<1>1. /\ pc[x] = "unmark" /\ pc' = [pc EXCEPT ![x] = "refused"] /\ batch' = batch /\ Unmark(b)
      /\ tail' = tail /\ acceptedSeq' = acceptedSeq /\ restarts' = restarts
  BY DEF TakeMarkBack, Goto, clientVars
<1>2. DedupTypes /\ pc \in [Handler -> Pc] /\ b \in Id
  BY <1>1 DEF OnceInv, TakerTypes, TypeOK
<1>3. Marking(x) /\ b \notin Accepted
  BY <1>1 DEF OnceInv, MarksAreHeld, Marking
<1>4. /\ \A c : Known(c, entries') <=> c # b /\ Known(c, entries)
      /\ Lasting(entries) => Lasting(entries')
      /\ ~JournalFails /\ OnDisk(entries, journal) => OnDisk(entries', journal')
  BY <1>1, <1>2, UnmarkKeeps
<1>5. Accepted' = Accepted
  BY <1>1 DEF Accepted
<1>6. WindowLasts'
  <2>1. Lasting(entries) /\ (MaxRestart > 0 => ~JournalFails /\ OnDisk(entries, journal))
    BY DEF OnceInv, WindowLasts, WindowSuffices
  <2> QED
    BY <1>4, <2>1 DEF WindowLasts
<1>7. AcceptedIsKnown'
  BY <1>3, <1>4, <1>5 DEF OnceInv, AcceptedIsKnown
<1>8. \A z \in Handler : Marking(z)' => Marking(z) /\ z # x
  BY <1>1, <1>2 DEF Marking
<1>9. MarksAreHeld'
  <2>1. \A z \in Handler : Marking(z) /\ z # x => batch[z] # b
    BY <1>3 DEF OnceInv, MarksAreHeld
  <2>2. ASSUME NEW y \in Handler, Marking(y)'
        PROVE  Known(batch'[y], entries') /\ batch'[y] \notin Accepted'
    BY <1>1, <1>4, <1>5, <1>8, <2>1, <2>2 DEF OnceInv, MarksAreHeld
  <2>3. ASSUME NEW y \in Handler, NEW z \in Handler, Marking(y)', Marking(z)', batch'[y] = batch'[z]
        PROVE  y = z
    BY <1>1, <1>8, <2>3 DEF OnceInv, MarksAreHeld
  <2> QED
    BY <2>2, <2>3 DEF MarksAreHeld
<1>10. TailIsDue'
  <2>1. \A z \in Handler : (pc'[z] = "tail") <=> (pc[z] = "tail")
    BY <1>1, <1>2
  <2> QED
    BY <1>1, <2>1, TailSame DEF OnceInv
<1> QED
  BY <1>1, <1>6, <1>7, <1>9, <1>10 DEF OnceInv

LEMMA TailOnce ==
  ASSUME OnceInv, NEW x \in Handler, TailExtend(x)
  PROVE  /\ MarksAreHeld' /\ AcceptedIsKnown' /\ WindowLasts' /\ IsInjective(acceptedSeq')
         /\ TailIsDue'
<1> DEFINE b == batch[x]
           longer == Append(tail, b)
<1>1. /\ pc[x] = "tail" /\ pc' = [pc EXCEPT ![x] = "ok"] /\ batch' = batch
      /\ tail' = LastN(longer, TailSize)
      /\ acceptedSeq' = acceptedSeq /\ restarts' = restarts /\ entries' = entries /\ journal' = journal
  BY DEF TailExtend, Goto, clientVars, dedupVars
<1>2. pc \in [Handler -> Pc] /\ b \in Id /\ tail \in Seq(Id) /\ TailSize \in Nat
  BY <1>1, TakerAssumption DEF OnceInv, TakerTypes, TypeOK, TakerAssumption
<1>3. Accepted' = Accepted /\ WindowLasts'
  BY <1>1 DEF Accepted, OnceInv, WindowLasts
<1>4. \A z \in Handler : Marking(z)' => Marking(z) /\ batch'[z] = batch[z]
  BY <1>1, <1>2 DEF Marking
<1>5. MarksAreHeld' /\ AcceptedIsKnown'
  BY <1>1, <1>4, MarksSame DEF OnceInv
<1>6. b \in Accepted \ ToSet(tail) /\ ToSet(tail) \subseteq Accepted /\ IsInjective(tail)
  BY <1>1 DEF OnceInv, TailIsDue
<1>7. ToSet(longer) = ToSet(tail) \cup {b} /\ IsInjective(longer) /\ longer \in Seq(Id)
  BY <1>2, <1>6, AppendTo
<1>8. Len(longer) = Len(tail) + 1 /\ Len(tail) \in Nat
  BY <1>2
<1> HIDE DEF longer
<1>9. /\ ToSet(tail') \subseteq ToSet(longer) /\ IsInjective(tail')
      /\ Len(longer) <= TailSize => tail' = longer
      /\ Len(tail') = IF Len(longer) <= TailSize THEN Len(longer) ELSE TailSize
  BY <1>1, <1>2, <1>7, LastNKeeps, LastNIs
<1>10. \A z \in Handler : pc'[z] = "tail" <=> pc[z] = "tail" /\ z # x
  BY <1>1, <1>2
<1>11. \A z \in Handler : pc'[z] = "tail" => batch'[z] \in Accepted' \ ToSet(tail')
  <2>1. ASSUME NEW z \in Handler, pc'[z] = "tail" PROVE batch'[z] \in Accepted \ ToSet(longer)
    <3>1. pc[z] = "tail" /\ z # x /\ batch'[z] = batch[z]
      BY <1>1, <1>10, <2>1
    <3>2. batch[z] # b /\ batch[z] \in Accepted \ ToSet(tail)
      BY <1>1, <3>1 DEF OnceInv, TailIsDue
    <3> QED
      BY <1>7, <3>1, <3>2
  <2> QED
    BY <1>3, <1>9, <2>1
<1>12. \A y, z \in Handler : pc'[y] = "tail" /\ pc'[z] = "tail" /\ batch'[y] = batch'[z] => y = z
  BY <1>1, <1>10 DEF OnceInv, TailIsDue
<1>13. ASSUME restarts' = 0, Len(tail') < TailSize, NEW c \in Accepted'
       PROVE  c \in ToSet(tail') \/ \E z \in Handler : pc'[z] = "tail" /\ batch'[z] = c
  <2>1. Len(longer) <= TailSize /\ tail' = longer /\ Len(tail) < TailSize
    BY <1>2, <1>8, <1>9, <1>13
  <2>2. c \in ToSet(tail) \/ \E z \in Handler : pc[z] = "tail" /\ batch[z] = c
    BY <1>1, <1>3, <1>13, <2>1 DEF OnceInv, TailIsDue
  <2>3. CASE c \in ToSet(tail) \/ c = b
    BY <1>7, <2>1, <2>3
  <2>4. CASE c # b /\ \E z \in Handler : pc[z] = "tail" /\ batch[z] = c
    BY <1>1, <1>10, <2>4
  <2> QED
    BY <2>2, <2>3, <2>4
<1>14. TailIsDue'
  BY <1>3, <1>6, <1>7, <1>9, <1>11, <1>12, <1>13 DEF TailIsDue
<1> QED
  BY <1>1, <1>3, <1>5, <1>14 DEF OnceInv

LEMMA RestartOnce ==
  ASSUME OnceInv, WindowSuffices, Restart
  PROVE  /\ MarksAreHeld' /\ AcceptedIsKnown' /\ WindowLasts' /\ IsInjective(acceptedSeq')
         /\ TailIsDue'
<1>1. /\ DedupRestart /\ restarts < MaxRestart /\ restarts' = restarts + 1
      /\ pc' = [z \in Handler |-> "idle"] /\ tail' = << >> /\ acceptedSeq' = acceptedSeq
  BY DEF Restart
<1>2. restarts \in Nat /\ MaxRestart \in Nat /\ DedupTypes
  BY TakerAssumption DEF OnceInv, TakerTypes, TypeOK, TakerAssumption
<1>3. MaxRestart > 0 /\ Persist /\ ~JournalFails /\ Roomy
  BY <1>1, <1>2 DEF WindowSuffices
<1>4. OnDisk(entries, journal)
  BY <1>3 DEF OnceInv, WindowLasts
<1>5. /\ \A b : Known(b, entries) => Known(b, entries')
      /\ Lasting(entries') /\ OnDisk(entries', journal')
  BY <1>1, <1>2, <1>3, <1>4, RestartKeeps
<1>6. Accepted' = Accepted
  BY <1>1 DEF Accepted
<1>7. AcceptedIsKnown' /\ WindowLasts'
  BY <1>5, <1>6 DEF OnceInv, AcceptedIsKnown, WindowLasts
<1>8. \A z \in Handler : pc'[z] = "idle"
  BY <1>1
<1>9. MarksAreHeld'
  <2>1. \A z \in Handler : ~Marking(z)'
    BY <1>8 DEF Marking
  <2> QED
    BY <2>1 DEF MarksAreHeld
<1>10. TailIsDue'
  <2>1. DOMAIN tail' = {} /\ ToSet(tail') = {} /\ restarts' # 0
    BY <1>1, <1>2 DEF ToSet
  <2>2. IsInjective(tail')
    BY <2>1 DEF IsInjective
  <2> QED
    BY <1>8, <2>1, <2>2 DEF TailIsDue
<1> QED
  BY <1>1, <1>7, <1>9, <1>10 DEF OnceInv

LEMMA OnceStep == WindowSuffices /\ OnceInv /\ [Next]_vars => OnceInv'
<1> SUFFICES ASSUME WindowSuffices, OnceInv, [Next]_vars PROVE OnceInv'
  OBVIOUS
<1>1. TakerTypes' /\ pc \in [Handler -> Pc] /\ batch \in [Handler -> Id \cup {NoBatch}]
  BY TakerTypesStep DEF OnceInv, TakerTypes, TypeOK
<1>2. ASSUME entries' = entries, journal' = journal, acceptedSeq' = acceptedSeq, tail' = tail,
             restarts' = restarts,
             \A z \in Handler : Marking(z)' => Marking(z) /\ batch'[z] = batch[z],
             \A z \in Handler : (pc'[z] = "tail") <=> (pc[z] = "tail"),
             \A z \in Handler : pc[z] = "tail" => batch'[z] = batch[z]
      PROVE  OnceInv'
  <2>1. MarksAreHeld' /\ AcceptedIsKnown'
    BY <1>2, MarksSame DEF OnceInv
  <2>2. TailIsDue'
    BY <1>2, TailSame DEF OnceInv
  <2>3. WindowLasts' /\ IsInjective(acceptedSeq')
    BY <1>2 DEF OnceInv, WindowLasts
  <2> QED
    BY <1>1, <2>1, <2>2, <2>3 DEF OnceInv
<1>3. ASSUME NEW x \in Handler, QueueFull(x) PROVE OnceInv'
  <2>1. /\ pc[x] = "put" /\ pc' = [pc EXCEPT ![x] = "unmark"] /\ batch' = batch
        /\ entries' = entries /\ journal' = journal /\ acceptedSeq' = acceptedSeq
        /\ tail' = tail /\ restarts' = restarts
    BY <1>3 DEF QueueFull, Goto, dedupVars, clientVars
  <2>2. \A z \in Handler : pc'[z] = IF z = x THEN "unmark" ELSE pc[z]
    BY <1>1, <2>1
  <2>3. \A z \in Handler : Marking(z)' => Marking(z)
    BY <2>1, <2>2 DEF Marking
  <2> QED
    BY <1>2, <2>1, <2>2, <2>3
<1>4. ASSUME NEW x \in Handler, Reply(x) PROVE OnceInv'
  <2>1. /\ pc[x] \in {"ok", "duplicate", "refused"} /\ pc' = [pc EXCEPT ![x] = "idle"]
        /\ batch' = [batch EXCEPT ![x] = NoBatch]
        /\ entries' = entries /\ journal' = journal /\ acceptedSeq' = acceptedSeq
        /\ tail' = tail /\ restarts' = restarts
    BY <1>4 DEF Reply, Goto, dedupVars
  <2>2. /\ \A z \in Handler : pc'[z] = IF z = x THEN "idle" ELSE pc[z]
        /\ \A z \in Handler : z # x => batch'[z] = batch[z]
    BY <1>1, <2>1
  <2>3. \A z \in Handler : Marking(z)' => Marking(z) /\ z # x
    BY <2>2 DEF Marking
  <2> QED
    BY <1>2, <2>1, <2>2, <2>3
<1>5. ASSUME NEW x \in Handler, NEW b \in Id, Receive(x, b) PROVE OnceInv'
  <2>1. /\ pc[x] = "idle" /\ pc' = [pc EXCEPT ![x] = "mark"]
        /\ batch' = [batch EXCEPT ![x] = b]
        /\ entries' = entries /\ journal' = journal /\ acceptedSeq' = acceptedSeq
        /\ tail' = tail /\ restarts' = restarts
    BY <1>5 DEF Receive, Goto, dedupVars, clientVars
  <2>2. /\ \A z \in Handler : pc'[z] = IF z = x THEN "mark" ELSE pc[z]
        /\ \A z \in Handler : z # x => batch'[z] = batch[z]
    BY <1>1, <2>1
  <2>3. \A z \in Handler : Marking(z)' => Marking(z) /\ z # x
    BY <2>2 DEF Marking
  <2> QED
    BY <1>2, <2>1, <2>2, <2>3
<1>6. CASE GetEvents \/ Clock \/ UNCHANGED vars
  <2>1. /\ pc' = pc /\ batch' = batch
        /\ entries' = entries /\ journal' = journal /\ acceptedSeq' = acceptedSeq
        /\ tail' = tail /\ restarts' = restarts
    BY <1>6 DEF GetEvents, Clock, Tick, vars, dedupVars, handlerVars, clientVars
  <2>2. \A z \in Handler : Marking(z)' => Marking(z)
    BY <2>1 DEF Marking
  <2> QED
    BY <1>2, <2>1, <2>2
<1>7. ASSUME NEW x \in Handler, Handle(x) PROVE OnceInv'
  <2>1. CASE CheckNew(x)
    BY <1>1, <2>1, CheckNewOnce DEF OnceInv
  <2>2. CASE CheckDuplicate(x)
    BY <1>1, <2>2, CheckDuplicateOnce DEF OnceInv
  <2>3. CASE PutNowait(x)
    BY <1>1, <2>3, PutOnce DEF OnceInv
  <2>4. CASE TakeMarkBack(x)
    BY <1>1, <2>4, TakeBackOnce DEF OnceInv
  <2>5. CASE TailExtend(x)
    BY <1>1, <2>5, TailOnce DEF OnceInv
  <2> QED
    BY <1>3, <1>4, <1>7, <2>1, <2>2, <2>3, <2>4, <2>5 DEF Handle
<1>8. CASE Restart
  BY <1>1, <1>8, RestartOnce DEF OnceInv
<1> QED
  BY <1>5, <1>6, <1>7, <1>8 DEF Next

LEMMA OnceInitially == WindowSuffices /\ Init => OnceInv
<1> SUFFICES ASSUME WindowSuffices, Init PROVE OnceInv
  OBVIOUS
<1>1. TakerTypes
  BY TakerInitially
<1>2. /\ entries = << >> /\ tail = << >> /\ acceptedSeq = << >>
      /\ journal = [log |-> << >>, torn |-> FALSE, errors |-> 0, on |-> Persist, lost |-> {}]
      /\ \A z \in Handler : pc[z] = "idle"
  BY DEF Init, DedupInit
<1>3. DOMAIN << >> = {} /\ ToSet(<< >>) = {}
  BY DEF ToSet
<1>4. Accepted = {} /\ IsInjective(acceptedSeq) /\ IsInjective(tail) /\ ToSet(tail) = {}
  BY <1>2, <1>3 DEF Accepted, IsInjective
<1>5. \A b : ~Known(b, entries)
  BY <1>2, <1>3 DEF Known
<1>6. WindowLasts
  <2>1. Lasting(entries)
    BY <1>2, <1>3 DEF Lasting, Holds
  <2>2. MaxRestart > 0 => Persist
    BY TakerAssumption DEF WindowSuffices, TakerAssumption
  <2> QED
    BY <1>2, <1>3, <1>5, <2>1, <2>2 DEF WindowLasts, OnDisk
<1>7. MarksAreHeld /\ AcceptedIsKnown
  BY <1>2, <1>4 DEF MarksAreHeld, Marking, AcceptedIsKnown
<1>8. TailIsDue
  BY <1>2, <1>4 DEF TailIsDue
<1> QED
  BY <1>1, <1>4, <1>6, <1>7, <1>8 DEF OnceInv

\* A batch is put in the queue at most once ("at-most-once в пределах окна",
\* logtaker.py:91), however its posts, refusals, late unmarks and restarts interleave:
\* where no id expires or is pushed out, and a restart finds the journal whole.
THEOREM AcceptedAtMostOnce == ASSUME WindowSuffices PROVE Spec => []AcceptedOnce
<1>1. OnceInv => AcceptedOnce
  BY DEF OnceInv, IsInjective, AcceptedOnce
<1>2. Init => OnceInv
  BY OnceInitially
<1>3. OnceInv /\ [Next]_vars => OnceInv'
  BY OnceStep
<1> QED
  BY <1>1, <1>2, <1>3, PTL DEF Spec

\* The tail holds accepted events only, none twice, and as many as fit (logtaker.py:
\* 227-242), under the same conditions.
THEOREM TailIsComplete == ASSUME WindowSuffices PROVE Spec => []TailHoldsAccepted
<1>1. ASSUME OnceInv PROVE TailHoldsAccepted
  <2>1. /\ tail \in Seq(Id) /\ acceptedSeq \in Seq(Id) /\ Len(tail) <= TailSize /\ TailSize \in Nat
        /\ IsInjective(tail) /\ IsInjective(acceptedSeq) /\ ToSet(tail) \subseteq Accepted
    BY <1>1, TakerAssumption
    DEF OnceInv, TakerTypes, TypeOK, TailIsDue, TakerAssumption
  <2>2. /\ IsFiniteSet(Accepted) /\ Cardinality(Accepted) = Len(acceptedSeq)
        /\ Cardinality(ToSet(tail)) = Len(tail)
    BY <2>1, Counted DEF Accepted
  <2>3. Len(tail) \in Nat /\ Len(acceptedSeq) \in Nat
    BY <2>1
  <2>4. Len(tail) <= Len(acceptedSeq)
    BY <2>1, <2>2, FS_Subset
  <2>5. ASSUME restarts = 0, \A x \in Handler : pc[x] = "idle"
        PROVE  Len(tail) = IF Len(acceptedSeq) < TailSize THEN Len(acceptedSeq) ELSE TailSize
    <3>1. CASE Len(tail) < TailSize
      <4>1. Accepted \subseteq ToSet(tail)
        BY <1>1, <2>5, <3>1 DEF OnceInv, TailIsDue
      <4>2. Accepted = ToSet(tail)
        BY <2>1, <4>1
      <4>3. Len(acceptedSeq) = Len(tail)
        BY <2>2, <4>2
      <4> QED
        BY <3>1, <4>3
    <3>2. CASE ~(Len(tail) < TailSize)
      <4>1. Len(tail) = TailSize
        BY <2>1, <2>3, <3>2
      <4> QED
        BY <2>1, <2>3, <2>4, <4>1
    <3> QED
      BY <3>1, <3>2
  <2>6. \A i, j \in DOMAIN tail : tail[i] = tail[j] => i = j
    BY <2>1 DEF IsInjective
  <2> QED
    BY <2>1, <2>5, <2>6 DEF TailHoldsAccepted
<1>2. Init => OnceInv
  BY OnceInitially
<1>3. OnceInv /\ [Next]_vars => OnceInv'
  BY OnceStep
<1> QED
  BY <1>1, <1>2, <1>3, PTL DEF Spec

-----------------------------------------------------------------------------
(* The requests: a 200 means that the batch was accepted *)

\* Clients wait for their answers, and no mark outlives the process that made it.
ClientsWait == ~Overlap /\ (MaxRestart = 0 \/ ~Persist)

\* Whatever is known is accepted, or on its way and may still be refused; but then the
\* one handler that serves it is not the one that would call it a duplicate.
AnswerInv ==
  /\ TakerTypes
  /\ \A x, y \in Handler : batch[x] # NoBatch /\ batch[x] = batch[y] => x = y
  /\ \A b : Known(b, entries) => b \in Accepted \/ \E x \in Handler : Marking(x) /\ batch[x] = b
  /\ \A x \in Handler : pc[x] \in {"tail", "ok", "duplicate"} => batch[x] \in Accepted
  /\ answered \subseteq Accepted
  /\ ~Persist => journal.log = << >>

\* A mark makes no other id known, and writes nothing where there is no journal.
LEMMA MarkLimits ==
  ASSUME DedupTypes, NEW b \in Id, NEW t \in Time, t <= clock, Mark(b, Swept(t), t)
  PROVE  /\ \A c : Known(c, entries') => c = b \/ Known(c, entries)
         /\ ~Persist /\ journal.log = << >> => journal'.log = << >>
<1> DEFINE es == Swept(t)
           line == [id |-> b, exp |-> clock + TTL]
<1>1. t \in Int /\ IsWindow(entries) /\ t + TTL \in Expiry /\ JournalShape(journal)
  <2>1. t \in Nat /\ t <= MaxTime /\ TTL \in Nat /\ MaxTime \in Nat
    BY TypesGive, NumbersAre DEF Numbers, Time
  <2> QED
    BY <2>1, TypesGive DEF Expiry
<1>2. IsWindow(es) /\ \A c : Known(c, es) => Known(c, entries)
  BY <1>1, SweptIs
<1>3. /\ entries' = Bounded(MoveToEnd(es, b, t + TTL))
      /\ \E j \in Compacted(journal, es, t) : journal' \in Logged(j, line)
  BY DEF Mark
<1> HIDE DEF es, line
<1>4. \A c : Known(c, entries') => c = b \/ Known(c, es)
  BY <1>1, <1>2, <1>3, NewWindowIs
<1>5. ASSUME ~Persist, journal.log = << >> PROVE journal'.log = << >>
  <2>1. ~journal.on /\ journal \in Journal
    BY <1>1, <1>5 DEF JournalShape
  <2>2. Compacted(journal, es, t) = {journal}
    BY <2>1 DEF Compacted
  <2>3. journal' = [journal EXCEPT !.lost = @ \cup IdOf(line)]
    BY <1>3, <2>1, <2>2 DEF Logged
  <2> QED
    BY <1>5, <2>1, <2>3 DEF Journal
<1> QED
  BY <1>2, <1>4, <1>5

LEMMA AnswerStep == ClientsWait /\ AnswerInv /\ [Next]_vars => AnswerInv'
<1> SUFFICES ASSUME ClientsWait, AnswerInv, [Next]_vars PROVE AnswerInv'
  OBVIOUS
<1>1. /\ TakerTypes' /\ DedupTypes /\ pc \in [Handler -> Pc]
      /\ batch \in [Handler -> Id \cup {NoBatch}] /\ acceptedSeq \in Seq(Id) /\ NoBatch \notin Id
      /\ Overlap = FALSE
  BY TakerTypesStep, TakerAssumption
  DEF AnswerInv, TakerTypes, TypeOK, TakerAssumption, ClientsWait
<1>2. /\ \A x, y \in Handler : batch[x] # NoBatch /\ batch[x] = batch[y] => x = y
      /\ \A b : Known(b, entries) => b \in Accepted \/ \E x \in Handler : Marking(x) /\ batch[x] = b
      /\ \A x \in Handler : pc[x] \in {"tail", "ok", "duplicate"} => batch[x] \in Accepted
      /\ answered \subseteq Accepted
      /\ ~Persist => journal.log = << >>
      /\ \A x \in Handler : pc[x] # "idle" => batch[x] \in Id
      /\ \A x \in Handler : read[x] \in Time /\ read[x] <= clock
  BY DEF AnswerInv, TakerTypes, TypeOK
<1>3. ASSUME NEW x \in Handler, CheckNew(x) PROVE AnswerInv'
  <2> DEFINE b == batch[x]
  <2>1. /\ pc[x] = "mark" /\ pc' = [pc EXCEPT ![x] = "put"] /\ batch' = batch
        /\ Mark(b, Swept(read[x]), read[x])
        /\ acceptedSeq' = acceptedSeq /\ answered' = answered
    BY <1>3 DEF CheckNew, MarkNew, Goto, clientVars
  <2>2. /\ \A c : Known(c, entries') => c = b \/ Known(c, entries)
        /\ ~Persist => journal'.log = << >>
    <3>1. b \in Id /\ read[x] \in Time /\ read[x] <= clock
      BY <1>2, <2>1
    <3> QED
      BY <1>1, <1>2, <2>1, <3>1, MarkLimits
  <2>3. Accepted' = Accepted
    BY <2>1 DEF Accepted
  <2>4. \A z \in Handler : pc'[z] = IF z = x THEN "put" ELSE pc[z]
    BY <1>1, <2>1
  <2>5. \A c : Known(c, entries') =>
          c \in Accepted' \/ \E z \in Handler : Marking(z)' /\ batch'[z] = c
    <3>1. \A z \in Handler : Marking(z) \/ z = x => Marking(z)'
      BY <2>4 DEF Marking
    <3> QED
      BY <1>2, <2>1, <2>2, <2>3, <3>1
  <2> QED
    BY <1>1, <1>2, <2>1, <2>2, <2>3, <2>4, <2>5 DEF AnswerInv
<1>4. ASSUME NEW x \in Handler, CheckDuplicate(x) PROVE AnswerInv'
  <2> DEFINE b == batch[x]
             es == Swept(read[x])
  <2>1. /\ pc[x] = "mark" /\ pc' = [pc EXCEPT ![x] = "duplicate"] /\ batch' = batch
        /\ Mark(b, es, read[x]) /\ Remembered(b, es, read[x])
        /\ acceptedSeq' = acceptedSeq /\ answered' = answered
    BY <1>4 DEF CheckDuplicate, MarkDuplicate, Goto, clientVars
  <2>2. b \in Id /\ read[x] \in Time /\ read[x] <= clock
    BY <1>2, <2>1
  <2>3. /\ \A c : Known(c, entries') => c = b \/ Known(c, entries)
        /\ ~Persist => journal'.log = << >>
    BY <1>1, <1>2, <2>1, <2>2, MarkLimits
  <2>4. Known(b, entries)
    <3>1. IsWindow(entries) /\ read[x] \in Int
      BY <1>1, <2>2, TypesGive
    <3>2. \A c : Known(c, es) => Known(c, entries)
      BY <3>1, SweptIs
    <3>3. Known(b, es)
      BY <2>1 DEF Remembered, Known
    <3> QED
      BY <3>2, <3>3
  <2>5. b \in Accepted
    <3>1. \A z \in Handler : Marking(z) => batch[z] # b
      <4>1. b # NoBatch /\ ~Marking(x)
        BY <1>1, <2>1, <2>2 DEF Marking
      <4> QED
        BY <1>2, <4>1
    <3> QED
      BY <1>2, <2>4, <3>1
  <2>6. Accepted' = Accepted
    BY <2>1 DEF Accepted
  <2>7. \A z \in Handler : pc'[z] = IF z = x THEN "duplicate" ELSE pc[z]
    BY <1>1, <2>1
  <2>8. \A c : Known(c, entries') =>
          c \in Accepted' \/ \E z \in Handler : Marking(z)' /\ batch'[z] = c
    <3>1. \A z \in Handler : Marking(z) => Marking(z)'
      BY <2>1, <2>7 DEF Marking
    <3> QED
      BY <1>2, <2>1, <2>3, <2>5, <2>6, <3>1
  <2> HIDE DEF es
  <2> QED
    BY <1>1, <1>2, <2>1, <2>3, <2>5, <2>6, <2>7, <2>8 DEF AnswerInv
<1>5. ASSUME NEW x \in Handler, PutNowait(x) PROVE AnswerInv'
  <2> DEFINE b == batch[x]
  <2>1. /\ pc[x] = "put" /\ pc' = [pc EXCEPT ![x] = "tail"] /\ batch' = batch
        /\ acceptedSeq' = Append(acceptedSeq, b) /\ answered' = answered
        /\ entries' = entries /\ journal' = journal
    BY <1>5 DEF PutNowait, Goto, dedupVars
  <2>2. Accepted' = Accepted \cup {b}
    <3>1. b \in Id
      BY <1>2, <2>1
    <3> QED
      BY <1>1, <2>1, <3>1, AppendTo DEF Accepted
  <2>3. \A z \in Handler : pc'[z] = IF z = x THEN "tail" ELSE pc[z]
    BY <1>1, <2>1
  <2>4. \A c : Known(c, entries') =>
          c \in Accepted' \/ \E z \in Handler : Marking(z)' /\ batch'[z] = c
    <3>1. \A z \in Handler : Marking(z) /\ z # x => Marking(z)'
      BY <2>3 DEF Marking
    <3> QED
      BY <1>2, <2>1, <2>2, <3>1
  <2> QED
    BY <1>1, <1>2, <2>1, <2>2, <2>3, <2>4 DEF AnswerInv
<1>6. ASSUME NEW x \in Handler, TakeMarkBack(x) PROVE AnswerInv'
  <2> DEFINE b == batch[x]
  <2>1. /\ pc[x] = "unmark" /\ pc' = [pc EXCEPT ![x] = "refused"] /\ batch' = batch /\ Unmark(b)
        /\ acceptedSeq' = acceptedSeq /\ answered' = answered
    BY <1>6 DEF TakeMarkBack, Goto, clientVars
  <2>2. b \in Id
    BY <1>2, <2>1
  <2>3. \A c : Known(c, entries') <=> c # b /\ Known(c, entries)
    BY <1>1, <2>1, <2>2, UnmarkKeeps
  <2>4. ASSUME ~Persist PROVE journal'.log = << >>
    <3>1. ~journal.on /\ journal \in Journal /\ journal.log = << >>
      BY <1>1, <1>2, <2>4, TypesGive DEF JournalShape
    <3>2. PICK line : journal' \in Logged(journal, line)
      BY <2>1 DEF Unmark
    <3>3. journal' = [journal EXCEPT !.lost = @ \cup IdOf(line)]
      BY <3>1, <3>2 DEF Logged
    <3> QED
      BY <3>1, <3>3 DEF Journal
  <2>5. Accepted' = Accepted
    BY <2>1 DEF Accepted
  <2>6. \A z \in Handler : pc'[z] = IF z = x THEN "refused" ELSE pc[z]
    BY <1>1, <2>1
  <2>7. \A c : Known(c, entries') =>
          c \in Accepted' \/ \E z \in Handler : Marking(z)' /\ batch'[z] = c
    <3>1. \A z \in Handler : Marking(z) /\ z # x => Marking(z)'
      BY <2>6 DEF Marking
    <3> QED
      BY <1>2, <2>1, <2>3, <2>5, <3>1
  <2> QED
    BY <1>1, <1>2, <2>1, <2>4, <2>5, <2>6, <2>7 DEF AnswerInv
<1>7. ASSUME entries' = entries, journal' = journal, acceptedSeq' = acceptedSeq,
             answered' \subseteq Accepted,
             \A z \in Handler : Marking(z) => Marking(z)' /\ batch'[z] = batch[z],
             \A z \in Handler : pc'[z] \in {"tail", "ok", "duplicate"} =>
               pc[z] \in {"tail", "ok", "duplicate"} /\ batch'[z] = batch[z],
             \A x, y \in Handler : batch'[x] # NoBatch /\ batch'[x] = batch'[y] => x = y
      PROVE  AnswerInv'
  <2>1. Accepted' = Accepted
    BY <1>7 DEF Accepted
  <2>2. \A c : Known(c, entries') =>
          c \in Accepted' \/ \E z \in Handler : Marking(z)' /\ batch'[z] = c
    BY <1>2, <1>7, <2>1
  <2>3. \A z \in Handler : pc'[z] \in {"tail", "ok", "duplicate"} => batch'[z] \in Accepted'
    BY <1>2, <1>7, <2>1
  <2> QED
    BY <1>1, <1>2, <1>7, <2>1, <2>2, <2>3 DEF AnswerInv
<1>8. ASSUME NEW x \in Handler, QueueFull(x) PROVE AnswerInv'
  <2>1. /\ pc[x] = "put" /\ pc' = [pc EXCEPT ![x] = "unmark"] /\ batch' = batch
        /\ entries' = entries /\ journal' = journal /\ acceptedSeq' = acceptedSeq
        /\ answered' = answered
    BY <1>8 DEF QueueFull, Goto, dedupVars, clientVars
  <2>2. \A z \in Handler : pc'[z] = IF z = x THEN "unmark" ELSE pc[z]
    BY <1>1, <2>1
  <2>3. \A z \in Handler : Marking(z) => Marking(z)'
    BY <2>2 DEF Marking
  <2> QED
    BY <1>2, <1>7, <2>1, <2>2, <2>3
<1>9. ASSUME NEW x \in Handler, TailExtend(x) PROVE AnswerInv'
  <2>1. /\ pc[x] = "tail" /\ pc' = [pc EXCEPT ![x] = "ok"] /\ batch' = batch
        /\ entries' = entries /\ journal' = journal /\ acceptedSeq' = acceptedSeq
        /\ answered' = answered
    BY <1>9 DEF TailExtend, Goto, dedupVars, clientVars
  <2>2. \A z \in Handler : pc'[z] = IF z = x THEN "ok" ELSE pc[z]
    BY <1>1, <2>1
  <2>3. \A z \in Handler : Marking(z) => Marking(z)'
    BY <2>1, <2>2 DEF Marking
  <2> QED
    BY <1>2, <1>7, <2>1, <2>2, <2>3
<1>10. ASSUME NEW x \in Handler, Reply(x) PROVE AnswerInv'
  <2>1. /\ pc[x] \in {"ok", "duplicate", "refused"} /\ pc' = [pc EXCEPT ![x] = "idle"]
        /\ batch' = [batch EXCEPT ![x] = NoBatch]
        /\ entries' = entries /\ journal' = journal /\ acceptedSeq' = acceptedSeq
        /\ answered' = answered \/ (pc[x] # "refused" /\ answered' = answered \cup {batch[x]})
    BY <1>10 DEF Reply, Goto, dedupVars
  <2>2. /\ \A z \in Handler : pc'[z] = IF z = x THEN "idle" ELSE pc[z]
        /\ \A z \in Handler : batch'[z] = IF z = x THEN NoBatch ELSE batch[z]
    BY <1>1, <2>1
  <2>3. \A z \in Handler : Marking(z) => Marking(z)' /\ z # x
    BY <2>1, <2>2 DEF Marking
  <2>4. answered' \subseteq Accepted
    BY <1>2, <2>1
  <2> QED
    BY <1>2, <1>7, <2>1, <2>2, <2>3, <2>4
<1>11. ASSUME NEW x \in Handler, NEW b \in Id, Receive(x, b) PROVE AnswerInv'
  <2>1. /\ pc[x] = "idle" /\ pc' = [pc EXCEPT ![x] = "mark"]
        /\ batch' = [batch EXCEPT ![x] = b] /\ \A y \in Handler : batch[y] # b
        /\ entries' = entries /\ journal' = journal /\ acceptedSeq' = acceptedSeq
        /\ answered' = answered
    BY <1>1, <1>11 DEF Receive, Goto, dedupVars, clientVars
  <2>2. /\ \A z \in Handler : pc'[z] = IF z = x THEN "mark" ELSE pc[z]
        /\ \A z \in Handler : batch'[z] = IF z = x THEN b ELSE batch[z]
    BY <1>1, <2>1
  <2>3. \A z \in Handler : Marking(z) => Marking(z)' /\ z # x
    BY <2>1, <2>2 DEF Marking
  <2> QED
    BY <1>2, <1>7, <2>1, <2>2, <2>3
<1>12. CASE GetEvents \/ Clock \/ UNCHANGED vars
  <2>1. /\ pc' = pc /\ batch' = batch /\ answered' = answered
        /\ entries' = entries /\ journal' = journal /\ acceptedSeq' = acceptedSeq
    BY <1>12 DEF GetEvents, Clock, Tick, vars, dedupVars, handlerVars, clientVars
  <2>2. \A z \in Handler : Marking(z) => Marking(z)'
    BY <2>1 DEF Marking
  <2> QED
    BY <1>2, <1>7, <2>1, <2>2
<1>13. CASE Restart
  <2>1. /\ DedupRestart /\ restarts < MaxRestart
        /\ pc' = [z \in Handler |-> "idle"] /\ batch' = [z \in Handler |-> NoBatch]
        /\ acceptedSeq' = acceptedSeq /\ answered' = answered
    BY <1>13 DEF Restart
  <2>2. ~Persist /\ journal.log = << >>
    <3>1. restarts \in Nat /\ MaxRestart \in Nat
      BY TakerAssumption DEF AnswerInv, TakerTypes, TypeOK, TakerAssumption
    <3>2. MaxRestart # 0
      BY <2>1, <3>1
    <3> QED
      BY <1>2, <3>2 DEF ClientsWait
  <2>3. journal'.log = << >>
    <3>1. journal' = [journal EXCEPT !.errors = 0, !.on = Persist, !.lost = {}]
      BY <2>1 DEF DedupRestart
    <3>2. journal \in Journal
      BY <1>1, TypesGive DEF JournalShape
    <3> QED
      BY <2>2, <3>1, <3>2 DEF Journal
  <2>4. \A c : ~Known(c, entries')
    <3>1. /\ IsWindow(Restored)
          /\ \A b, x : Holds(Restored, b, x) =>
               \E p : FinalAt(journal.log, p, b)
      BY <1>1, TypesGive, RestoredIs
    <3>2. \A b, p : ~FinalAt(journal.log, p, b)
      BY <2>2 DEF FinalAt, FinalIn
    <3>3. \A c : ~Known(c, Restored)
      BY <3>1, <3>2, WindowFacts
    <3>4. \A c : ~Known(c, Bounded(Restored))
      <4>1. LET r == Bounded(Restored)
            IN IsWindow(r) /\ \A b, x : Holds(r, b, x) => Holds(Restored, b, x)
        BY <3>1, BoundedIs
      <4>2. \A c : Known(c, Bounded(Restored)) => \E x \in Expiry : Holds(Bounded(Restored), c, x)
        BY <4>1, WindowFacts
      <4> QED
        BY <3>1, <3>2, <4>1, <4>2
    <3>5. entries' = Bounded(Restored) \/ entries' = << >>
      BY <2>1 DEF DedupRestart, Loaded
    <3>6. \A c : ~Known(c, << >>)
      BY DEF Known
    <3> QED
      BY <3>4, <3>5, <3>6
  <2>5. Accepted' = Accepted
    BY <2>1 DEF Accepted
  <2> QED
    BY <1>1, <1>2, <2>1, <2>3, <2>4, <2>5 DEF AnswerInv
<1>14. ASSUME NEW x \in Handler, Handle(x) PROVE AnswerInv'
  BY <1>3, <1>4, <1>5, <1>6, <1>8, <1>9, <1>10, <1>14 DEF Handle
<1> QED
  BY <1>11, <1>12, <1>13, <1>14 DEF Next

\* A client that has seen a 200 has had its batch accepted, if it never posts a batch
\* while the server is busy with it and no mark outlives its process: what logtaker.py:
\* 556-557 wants of the unmark.
THEOREM OkMeansAccepted == ASSUME ClientsWait PROVE Spec => []AnsweredWasAccepted
<1>1. ASSUME Init PROVE AnswerInv
  <2>1. TakerTypes
    BY <1>1, TakerInitially
  <2>2. /\ entries = << >> /\ acceptedSeq = << >> /\ journal.log = << >> /\ answered = {}
        /\ \A z \in Handler : pc[z] = "idle" /\ batch[z] = NoBatch
    BY <1>1 DEF Init, DedupInit
  <2>3. \A b : ~Known(b, entries)
    BY <2>2 DEF Known
  <2> QED
    BY <2>1, <2>2, <2>3 DEF AnswerInv
<1>2. AnswerInv => AnsweredWasAccepted
  BY DEF AnswerInv, AnsweredWasAccepted
<1>3. AnswerInv /\ [Next]_vars => AnswerInv'
  BY AnswerStep
<1> QED
  BY <1>1, <1>2, <1>3, PTL DEF Spec

=============================================================================
