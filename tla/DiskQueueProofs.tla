--------------------------- MODULE DiskQueueProofs ---------------------------
(***************************************************************************)
(* Proofs about DiskQueue, for every set of payloads, size, limit and      *)
(* bound.  TypeOK holds whatever fails.  While meta.json can be written,   *)
(* nothing is lost and numbers grow; while it is there, what was saved is  *)
(* not lost.  While files can be deleted too, and clear is not called, the *)
(* limits hold and the queue implements DurableQueue.                      *)
(***************************************************************************)
EXTENDS DiskQueue, FiniteSetTheorems, TLAPS

-----------------------------------------------------------------------------
(* Facts about the operators *)

LEMMA SeqFinite ==
  ASSUME NEW S, S \subseteq SeqNo
  PROVE  IsFiniteSet(S) /\ Cardinality(S) \in Nat
<1>1. IsFiniteSet(SeqNo)
  BY QueueAssumption, FS_Interval DEF QueueAssumption, SeqNo
<1> QED
  BY <1>1, FS_Subset, FS_CardinalityType

\* The bytes of the items of f numbered in S, and how many they are: SizeOf for
\* any table of items.
BytesIn(f, S) == UNION {{s} \X (1 .. Size[f[s]]) : s \in S}

Amount(f, S) == Cardinality(BytesIn(f, S))

LEMMA SizeOfIs == ASSUME NEW S PROVE SizeOf(S) = Amount(items, S)
  BY DEF SizeOf, Bytes, Amount, BytesIn

LEMMA ColumnSize ==
  ASSUME NEW s, NEW n \in Nat
  PROVE  IsFiniteSet({s} \X (1 .. n)) /\ Cardinality({s} \X (1 .. n)) = n
<1> DEFINE A == {s}
           B == 1 .. n
<1>1. IsFiniteSet(B) /\ Cardinality(B) = IF 1 > n THEN 0 ELSE n - 1 + 1
  BY FS_Interval
<1>2. Cardinality(B) = n
  <2> HIDE DEF B
  <2> QED
    BY <1>1
<1>3. IsFiniteSet(A) /\ Cardinality(A) = 1
  BY FS_Singleton
<1>4. IsFiniteSet(A \X B) /\ Cardinality(A \X B) = Cardinality(A) * Cardinality(B)
  <2> HIDE DEF A, B
  <2> QED
    BY <1>1, <1>3, FS_Product
<1>5. Cardinality(A \X B) = n
  <2> HIDE DEF A, B
  <2> QED
    BY <1>2, <1>3, <1>4
<1> QED
  BY <1>4, <1>5

\* The bytes of one item.
LEMMA OneSize ==
  ASSUME NEW f, f \in [DOMAIN f -> Payload], NEW s \in DOMAIN f
  PROVE  /\ Size[f[s]] \in Nat
         /\ IsFiniteSet({s} \X (1 .. Size[f[s]]))
         /\ Cardinality({s} \X (1 .. Size[f[s]])) = Size[f[s]]
<1>1. Size[f[s]] \in Nat
  BY QueueAssumption DEF QueueAssumption
<1> QED
  BY <1>1, ColumnSize

\* The bytes of a finite set of items are finitely many.
LEMMA AmountNat ==
  ASSUME NEW f, f \in [DOMAIN f -> Payload], NEW S, S \subseteq DOMAIN f, S \subseteq SeqNo
  PROVE  IsFiniteSet(BytesIn(f, S)) /\ Amount(f, S) \in Nat
<1> DEFINE g == [s \in S |-> {s} \X (1 .. Size[f[s]])]
           T == {g[s] : s \in S}
<1>1. IsFiniteSet(S)
  BY SeqFinite
<1>2. g \in Surjection(S, T)
  BY DEF Surjection
<1>3. IsFiniteSet(T)
  BY <1>1, <1>2, FS_Surjection
<1>4. ASSUME NEW s \in S PROVE IsFiniteSet(g[s])
  BY OneSize
<1>5. BytesIn(f, S) = UNION T
  BY DEF BytesIn
<1>6. IsFiniteSet(BytesIn(f, S))
  <2> HIDE DEF T
  <2>1. \A U \in T : IsFiniteSet(U)
    BY <1>4 DEF T
  <2> QED
    BY <1>3, <1>5, <2>1, FS_UNION
<1> QED
  BY <1>6, FS_CardinalityType DEF Amount

\* More items have no fewer bytes.
LEMMA AmountMono ==
  ASSUME NEW f, f \in [DOMAIN f -> Payload], NEW T, T \subseteq DOMAIN f, T \subseteq SeqNo,
         NEW S, S \subseteq T
  PROVE  Amount(f, S) <= Amount(f, T)
<1>1. IsFiniteSet(BytesIn(f, T))
  BY AmountNat
<1>2. BytesIn(f, S) \subseteq BytesIn(f, T)
  BY DEF BytesIn
<1> QED
  BY <1>1, <1>2, FS_Subset DEF Amount

\* One item more adds its own bytes.
LEMMA AmountAdd ==
  ASSUME NEW f, f \in [DOMAIN f -> Payload], NEW S, S \subseteq DOMAIN f, S \subseteq SeqNo,
         NEW s \in DOMAIN f \ S
  PROVE  Amount(f, S \cup {s}) = Amount(f, S) + Size[f[s]]
<1> DEFINE B == {s} \X (1 .. Size[f[s]])
<1>1. IsFiniteSet(B) /\ Cardinality(B) = Size[f[s]] /\ Size[f[s]] \in Nat
  BY OneSize
<1>2. IsFiniteSet(BytesIn(f, S)) /\ Amount(f, S) \in Nat
  BY AmountNat
<1>3. BytesIn(f, S \cup {s}) = BytesIn(f, S) \cup B
  BY DEF BytesIn
<1>4. BytesIn(f, S) \cap B = {}
  BY DEF BytesIn
<1>5. Cardinality(BytesIn(f, S) \cup B)
        = Cardinality(BytesIn(f, S)) + Cardinality(B) - Cardinality(BytesIn(f, S) \cap B)
  <2> HIDE DEF B
  <2> QED
    BY <1>1, <1>2, FS_Union
<1>6. Cardinality(BytesIn(f, S) \cap B) = 0
  BY <1>4, FS_EmptySet
<1>7. Amount(f, S \cup {s}) = Cardinality(BytesIn(f, S) \cup B)
  BY <1>3 DEF Amount
<1>8. Amount(f, S) = Cardinality(BytesIn(f, S))
  BY DEF Amount
<1> HIDE DEF B
<1> QED
  BY <1>1, <1>2, <1>5, <1>6, <1>7, <1>8

\* The bytes of items depend on nothing but their payloads.
LEMMA AmountSame ==
  ASSUME NEW f, NEW g, NEW S, \A s \in S : f[s] = g[s]
  PROVE  Amount(f, S) = Amount(g, S)
<1>1. BytesIn(f, S) = BytesIn(g, S)
  BY DEF BytesIn
<1> QED
  BY <1>1 DEF Amount

LEMMA SizeOfNat ==
  ASSUME TypeOK, NEW S, S \subseteq DOMAIN items
  PROVE  SizeOf(S) \in Nat
<1>1. items \in [DOMAIN items -> Payload] /\ S \subseteq SeqNo
  BY DEF TypeOK
<1> QED
  BY <1>1, AmountNat, SizeOfIs

LEMMA MinusNat == ASSUME NEW a \in Nat, NEW b \in Nat PROVE Minus(a, b) \in Nat
  BY DEF Minus

\* Putting an item in, and taking items out, of a table of items.
LEMMA WithType ==
  ASSUME NEW f, DOMAIN f \subseteq SeqNo, f \in [DOMAIN f -> Payload],
         NEW s \in SeqNo, NEW p \in Payload
  PROVE  /\ DOMAIN With(f, s, p) = DOMAIN f \cup {s}
         /\ DOMAIN With(f, s, p) \subseteq SeqNo
         /\ With(f, s, p) \in [DOMAIN With(f, s, p) -> Payload]
         /\ With(f, s, p)[s] = p
         /\ \A t \in DOMAIN f : t # s => With(f, s, p)[t] = f[t]
  BY DEF With

LEMMA WithoutType ==
  ASSUME NEW f, DOMAIN f \subseteq SeqNo, f \in [DOMAIN f -> Payload], NEW S
  PROVE  /\ DOMAIN Without(f, S) = DOMAIN f \ S
         /\ DOMAIN Without(f, S) \subseteq SeqNo
         /\ Without(f, S) \in [DOMAIN Without(f, S) -> Payload]
         /\ \A t \in DOMAIN f \ S : Without(f, S)[t] = f[t]
  BY DEF Without

LEMMA UnlinkType ==
  ASSUME TypeOK, NEW S, Unlink(S)
  PROVE  /\ DOMAIN items' \subseteq SeqNo /\ items' \in [DOMAIN items' -> Payload]
         /\ DOMAIN items \ S \subseteq DOMAIN items'
         /\ \A t \in DOMAIN items \ S : items'[t] = items[t]
<1>1. CASE items' = Without(items, S)
  BY <1>1, WithoutType DEF TypeOK
<1>2. CASE UNCHANGED items
  BY <1>2 DEF TypeOK
<1> QED
  BY <1>1, <1>2 DEF Unlink

LEMMA EmptyType == DOMAIN << >> = {} /\ << >> \in [DOMAIN << >> -> Payload]
  OBVIOUS

-----------------------------------------------------------------------------
(* Types *)

\* While a put is half done, the item it wrote is there.
PutWritten == op = "put" => mem.tail \in DOMAIN items

TypeInv == TypeOK /\ PutWritten

LEMMA TypeInit == Init => TypeInv
  BY EmptyType DEF Init, TypeInv, TypeOK, PutWritten, OpState, Counters, Zero

LEMMA TypeNext == TypeInv /\ [Next]_vars => TypeInv'
<1> SUFFICES ASSUME TypeInv, [Next]_vars PROVE TypeInv'
  OBVIOUS
<1> USE DEF TypeInv, TypeOK, PutWritten, OpState, Counters
<1>1. CASE OpenFromMeta
  BY <1>1, NoMetaAssumption DEF OpenFromMeta
<1>2. CASE OpenEmpty
  BY <1>2 DEF OpenEmpty, Zero
<1>3. ASSUME NEW lo \in DOMAIN items, NEW hi \in DOMAIN items, Rebuild(lo, hi)
      PROVE TypeInv'
  <2>1. lo \in Nat /\ hi + 1 \in Nat
    BY QueueAssumption DEF QueueAssumption, SeqNo
  <2>2. Cardinality(DOMAIN items) \in Nat /\ SizeOf(DOMAIN items) \in Nat
    BY SeqFinite, SizeOfNat
  <2>3. mem' \in Counters
    BY <1>3, <2>1, <2>2 DEF Rebuild
  <2> QED
    BY <1>3, <2>3 DEF Rebuild, SaveMeta
<1>4. ASSUME NEW p \in Payload, PutWrite(p) PROVE TypeInv'
  <2>1. mem.tail \in SeqNo
    BY <1>4, QueueAssumption DEF PutWrite, QueueAssumption, SeqNo
  <2> DEFINE g == With(items, mem.tail, p)
  <2>2. DOMAIN g \subseteq SeqNo /\ g \in [DOMAIN g -> Payload]
    BY <2>1, WithType
  <2>3. DOMAIN g = DOMAIN items \cup {mem.tail}
    BY DEF With
  <2> QED
    BY <1>4, <2>2, <2>3 DEF PutWrite
<1>5. CASE PutCommit
  <2>1. Size[items[mem.tail]] \in Nat
    BY <1>5, QueueAssumption DEF PutCommit, QueueAssumption
  <2>2. mem' \in Counters
    <3>1. mem.tail + 1 \in Nat /\ mem.count + 1 \in Nat
          /\ mem.bytes + Size[items[mem.tail]] \in Nat
      BY <2>1
    <3>2. mem' = [mem EXCEPT !.tail = mem.tail + 1, !.count = mem.count + 1,
                             !.bytes = mem.bytes + Size[items[mem.tail]]]
      BY <1>5 DEF PutCommit
    <3> QED
      BY <3>1, <3>2
  <2>3. DOMAIN owed' \subseteq SeqNo /\ owed' \in [DOMAIN owed' -> Payload]
    <3>1. mem.tail \in SeqNo /\ items[mem.tail] \in Payload
      BY <1>5 DEF PutCommit
    <3> DEFINE g == With(owed, mem.tail, items[mem.tail])
    <3>2. DOMAIN g \subseteq SeqNo /\ g \in [DOMAIN g -> Payload]
      BY <3>1, WithType
    <3> QED
      BY <1>5, <3>2 DEF PutCommit
  <2> QED
    BY <1>5, <2>2, <2>3 DEF PutCommit, SaveMeta
<1>6. ASSUME NEW s \in SeqNo, AckBegin(s) PROVE TypeInv'
  <2>1. upTo' \in Int
    BY <1>6 DEF AckBegin, SeqNo
  <2> QED
    BY <1>6, <2>1, WithoutType DEF AckBegin
<1>7. CASE AckItem
  <2>1. DOMAIN items' \subseteq SeqNo /\ items' \in [DOMAIN items' -> Payload]
    BY <1>7, UnlinkType DEF AckItem
  <2>2. mem.head \in DOMAIN items => Size[items[mem.head]] \in Nat
    BY QueueAssumption DEF QueueAssumption
  <2>3. mem' \in Counters
    <3>1. Minus(mem.count, 1) \in Nat
      BY MinusNat
    <3>2. mem.head \in DOMAIN items => Minus(mem.bytes, Size[items[mem.head]]) \in Nat
      BY <2>2, MinusNat
    <3> DEFINE b == IF mem.head \in DOMAIN items \ DOMAIN items'
                    THEN Minus(mem.bytes, Size[items[mem.head]]) ELSE mem.bytes
    <3>3. mem' = [mem EXCEPT !.head = mem.head + 1, !.count = Minus(mem.count, 1),
                             !.bytes = b]
      BY <1>7 DEF AckItem
    <3>4. b \in Nat
      BY <3>2
    <3>5. mem.head + 1 \in Nat
      OBVIOUS
    <3> HIDE DEF b
    <3> QED
      BY <3>1, <3>3, <3>4, <3>5
  <2> QED
    BY <1>7, <2>1, <2>3 DEF AckItem
<1>8. CASE AckDone
  BY <1>8 DEF AckDone
<1>9. CASE FinishSave
  BY <1>9 DEF FinishSave, SaveMeta
<1>10. CASE GetNothing
  BY <1>10 DEF GetNothing
<1>11. CASE GetUnreadable
  BY <1>11, QueueAssumption DEF GetUnreadable, QueueAssumption, SeqNo
<1>12. ASSUME NEW s \in SeqNo, GetItem(s) PROVE TypeInv'
  <2>1. s \in DOMAIN items /\ s \in Nat
    BY <1>12, QueueAssumption DEF GetItem, FirstHeld, Held, QueueAssumption, SeqNo
  <2>2. DOMAIN items' \subseteq SeqNo /\ items' \in [DOMAIN items' -> Payload]
    BY <1>12, UnlinkType DEF GetItem
  <2>3. Size[items[s]] \in Nat
    BY <2>1, QueueAssumption DEF QueueAssumption
  <2>4. mem' \in Counters
    <3>1. Minus(mem.bytes, Size[items[s]]) \in Nat
      BY <2>3, MinusNat
    <3>2. mem' = [mem EXCEPT !.head = s + 1, !.count = mem.count - 1,
                             !.bytes = Minus(mem.bytes, Size[items[s]])]
      BY <1>12 DEF GetItem
    <3>3. s + 1 \in Nat /\ mem.count - 1 \in Nat
      BY <1>12, <2>1 DEF GetItem
    <3> QED
      BY <3>1, <3>2, <3>3
  <2>5. DOMAIN owed' \subseteq SeqNo /\ owed' \in [DOMAIN owed' -> Payload]
    BY <1>12, WithoutType DEF GetItem
  <2> QED
    BY <1>12, <2>2, <2>4, <2>5 DEF GetItem
<1>13. CASE ClearBegin
  BY <1>13, EmptyType DEF ClearBegin
<1>14. ASSUME NEW s \in SeqNo, ClearItem(s) PROVE TypeInv'
  BY <1>14, WithoutType DEF ClearItem
<1>15. CASE ClearDone
  BY <1>15 DEF ClearDone, Zero
<1>16. CASE Crash
  BY <1>16 DEF Crash, Zero
<1>17. CASE UNCHANGED vars
  BY <1>17 DEF vars
<1> QED
  BY <1>1, <1>2, <1>3, <1>4, <1>5, <1>6, <1>7, <1>8, <1>9, <1>10, <1>11, <1>12,
     <1>13, <1>14, <1>15, <1>16, <1>17 DEF Next, Open, Put, Ack, Get, Clear

\* Every variable keeps its type, the counters stay natural numbers, and the
\* clamps of ack and get (queue.py:110-112, 181, 186) are what keeps them so.
THEOREM TypeCorrect == Spec => []TypeOK
<1>1. TypeInv => TypeOK
  BY DEF TypeInv
<1> QED
  BY <1>1, TypeInit, TypeNext, PTL DEF Spec

-----------------------------------------------------------------------------
(* Nothing is lost *)

\* An ack in progress deletes nothing that is still owed, and while clear runs
\* nothing is.
AckSparesOwed == op = "ack" => \A s \in DOMAIN owed : s > upTo

ClearOwesNothing == op = "clear" => DOMAIN owed = {}

\* The head never passes the tail, in memory or in meta.json.
Ordered ==
  /\ mem.head <= mem.tail
  /\ meta # NoMeta => meta.head <= meta.tail
  /\ op = "ack" => upTo < mem.tail

QueueInv == TypeInv /\ Ordered /\ NothingLost /\ AckSparesOwed /\ ClearOwesNothing

LEMMA QueueInit == Init => QueueInv
  BY TypeInit DEF Init, QueueInv, Ordered, Zero, NothingLost, OwedOnDisk, OwedInMem, OwedInMeta,
                  AckSparesOwed, ClearOwesNothing

\* Releasing items keeps what is owed on disk and in both windows.
LEMMA ReleaseKeeps ==
  ASSUME TypeOK, NothingLost, op # "down", NEW S, owed' = Without(owed, S), UNCHANGED meta,
         \A s \in DOMAIN owed \ S : s \in DOMAIN items' /\ items'[s] = items[s],
         \A s \in DOMAIN owed \ S : InWindow(mem', s)
  PROVE  NothingLost' /\ DOMAIN owed' = DOMAIN owed \ S
<1>1. /\ DOMAIN owed' = DOMAIN owed \ S
      /\ \A s \in DOMAIN owed' : owed'[s] = owed[s]
  BY DEF Without
<1>2. OwedOnDisk'
  BY <1>1 DEF NothingLost, OwedOnDisk
<1>3. OwedInMem'
  BY <1>1 DEF OwedInMem
<1>4. OwedInMeta'
  BY <1>1 DEF NothingLost, OwedInMeta, InWindow
<1> QED
  BY <1>1, <1>2, <1>3, <1>4 DEF NothingLost

LEMMA OrderedNext == TypeInv /\ Ordered /\ [Next]_vars => Ordered'
<1> SUFFICES ASSUME TypeInv, Ordered, [Next]_vars PROVE Ordered'
  OBVIOUS
<1> USE DEF TypeInv, TypeOK, Counters, Ordered
<1>1. CASE OpenFromMeta
  BY <1>1 DEF OpenFromMeta
<1>2. CASE OpenEmpty
  BY <1>2 DEF OpenEmpty, Zero
<1>3. ASSUME NEW lo \in DOMAIN items, NEW hi \in DOMAIN items, Rebuild(lo, hi)
      PROVE Ordered'
  <2>1. lo \in Nat /\ hi \in Nat /\ lo <= hi
    BY <1>3, QueueAssumption DEF Rebuild, QueueAssumption, SeqNo
  <2>2. mem'.head = lo /\ mem'.tail = hi + 1 /\ op' = "idle"
        /\ (meta' = mem' \/ meta' = meta)
    BY <1>3 DEF Rebuild, SaveMeta
  <2> QED
    BY <2>1, <2>2
<1>4. ASSUME NEW p \in Payload, PutWrite(p) PROVE Ordered'
  BY <1>4 DEF PutWrite
<1>5. CASE PutCommit
  <2>1. mem'.head = mem.head /\ mem'.tail = mem.tail + 1 /\ op' = "idle"
        /\ (meta' = mem' \/ meta' = meta)
    BY <1>5 DEF PutCommit, SaveMeta
  <2> QED
    BY <2>1
<1>6. ASSUME NEW s \in SeqNo, AckBegin(s) PROVE Ordered'
  BY <1>6, QueueAssumption DEF AckBegin, SeqNo, QueueAssumption
<1>7. CASE AckItem
  <2>1. mem'.head = mem.head + 1 /\ mem'.tail = mem.tail
        /\ mem.head <= upTo /\ upTo < mem.tail /\ UNCHANGED <<meta, op, upTo>>
    BY <1>7 DEF AckItem
  <2> QED
    BY <2>1
<1>8. CASE AckDone
  BY <1>8 DEF AckDone
<1>9. CASE FinishSave
  BY <1>9 DEF FinishSave, SaveMeta
<1>10. CASE GetNothing
  BY <1>10 DEF GetNothing
<1>11. CASE GetUnreadable
  BY <1>11, QueueAssumption DEF GetUnreadable, FirstHeld, Held, QueueAssumption, SeqNo
<1>12. ASSUME NEW s \in SeqNo, GetItem(s) PROVE Ordered'
  <2>1. s \in Nat /\ s < mem.tail /\ mem'.head = s + 1 /\ mem'.tail = mem.tail
        /\ meta' = meta /\ op' = "saving"
    BY <1>12, QueueAssumption DEF GetItem, FirstHeld, Held, QueueAssumption, SeqNo
  <2> QED
    BY <2>1
<1>13. CASE ClearBegin
  BY <1>13 DEF ClearBegin
<1>14. ASSUME NEW s \in SeqNo, ClearItem(s) PROVE Ordered'
  BY <1>14 DEF ClearItem
<1>15. CASE ClearDone
  BY <1>15 DEF ClearDone, Zero
<1>16. CASE Crash
  BY <1>16 DEF Crash, Zero
<1>17. CASE UNCHANGED vars
  BY <1>17 DEF vars
<1> QED
  BY <1>1, <1>2, <1>3, <1>4, <1>5, <1>6, <1>7, <1>8, <1>9, <1>10, <1>11, <1>12,
     <1>13, <1>14, <1>15, <1>16, <1>17 DEF Next, Open, Put, Ack, Get, Clear

LEMMA QueueNext ==
  ASSUME "save_meta" \notin Faults
  PROVE  QueueInv /\ [Next]_vars => QueueInv'
<1> SUFFICES ASSUME QueueInv, [Next]_vars PROVE QueueInv'
  OBVIOUS
<1>0. TypeInv'
  BY TypeNext DEF QueueInv
<1>a. TypeOK /\ NothingLost /\ OwedOnDisk /\ OwedInMem /\ OwedInMeta
  BY DEF QueueInv, TypeInv, NothingLost
<1> SUFFICES NothingLost' /\ AckSparesOwed' /\ ClearOwesNothing'
  BY <1>0, OrderedNext DEF QueueInv
<1> DEFINE Kept == OwedOnDisk' /\ OwedInMem' /\ OwedInMeta'
<1>b. Kept => NothingLost'
  BY DEF NothingLost
\* With nothing owed there is nothing to lose.
<1>c. ASSUME owed' = owed, DOMAIN owed = {} PROVE NothingLost' /\ AckSparesOwed' /\ ClearOwesNothing'
  BY <1>c DEF NothingLost, OwedOnDisk, OwedInMem, OwedInMeta, AckSparesOwed, ClearOwesNothing
<1>1. CASE OpenFromMeta
  <2>1. Kept
    BY <1>1, <1>a DEF OpenFromMeta, OwedOnDisk, OwedInMem, OwedInMeta
  <2> QED
    BY <1>1, <1>b, <2>1 DEF OpenFromMeta, AckSparesOwed, ClearOwesNothing
<1>2. CASE OpenEmpty
  <2>1. DOMAIN owed = {}
    BY <1>2, <1>a DEF OpenEmpty, OwedOnDisk
  <2> QED
    BY <1>2, <1>c, <2>1 DEF OpenEmpty
<1>3. ASSUME NEW lo \in DOMAIN items, NEW hi \in DOMAIN items, Rebuild(lo, hi)
      PROVE NothingLost' /\ AckSparesOwed' /\ ClearOwesNothing'
  <2>1. /\ mem'.head = lo /\ mem'.tail = hi + 1 /\ meta' = mem'
        /\ items' = items /\ owed' = owed /\ op' = "idle"
    BY <1>3 DEF Rebuild, SaveMeta
  <2>2. \A s \in DOMAIN owed : lo <= s /\ s < hi + 1
    BY <1>3, <1>a, QueueAssumption DEF Rebuild, OwedOnDisk, TypeOK, QueueAssumption, SeqNo
  <2>3. Kept
    BY <1>a, <2>1, <2>2 DEF OwedOnDisk, OwedInMem, OwedInMeta, InWindow
  <2> QED
    BY <1>b, <2>1, <2>3 DEF AckSparesOwed, ClearOwesNothing
<1>4. ASSUME NEW p \in Payload, PutWrite(p)
      PROVE NothingLost' /\ AckSparesOwed' /\ ClearOwesNothing'
  <2>1. \A s \in DOMAIN owed : s # mem.tail
    BY <1>4, <1>a DEF PutWrite, OwedInMem, InWindow, TypeOK, Counters
  <2>2. \A s \in DOMAIN owed : s \in DOMAIN items' /\ items'[s] = items[s]
    BY <1>4, <1>a, <2>1 DEF PutWrite, With, OwedOnDisk
  <2>3. Kept
    BY <1>4, <1>a, <2>2 DEF PutWrite, OwedOnDisk, OwedInMem, OwedInMeta
  <2> QED
    BY <1>4, <1>b, <2>3 DEF PutWrite, AckSparesOwed, ClearOwesNothing
<1>5. CASE PutCommit
  <2>1. /\ items' = items /\ op' = "idle" /\ meta' = mem'
        /\ mem'.head = mem.head /\ mem'.tail = mem.tail + 1
    BY <1>5, <1>a DEF PutCommit, SaveMeta, TypeOK, Counters
  <2>2. /\ DOMAIN owed' = DOMAIN owed \cup {mem.tail}
        /\ owed'[mem.tail] = items[mem.tail] /\ mem.tail \in DOMAIN items
        /\ \A t \in DOMAIN owed : t # mem.tail => owed'[t] = owed[t]
    BY <1>5 DEF PutCommit, With, QueueInv, TypeInv, PutWritten
  <2>3. OwedOnDisk'
    BY <1>a, <2>1, <2>2 DEF OwedOnDisk
  <2>4. mem.head <= mem.tail
    BY DEF QueueInv, Ordered
  <2>5. \A s \in DOMAIN owed' : InWindow(mem', s)
    <3>1. mem.head \in Nat /\ mem.tail \in Nat
      BY <1>a DEF TypeOK, Counters
    <3>2. \A s \in DOMAIN owed : s \in Int /\ mem.head <= s /\ s < mem.tail
      BY <1>5, <1>a, QueueAssumption
         DEF PutCommit, OwedInMem, InWindow, TypeOK, SeqNo, QueueAssumption
    <3> QED
      BY <2>1, <2>2, <2>4, <3>1, <3>2 DEF InWindow
  <2> QED
    BY <1>b, <2>1, <2>3, <2>5 DEF OwedInMem, OwedInMeta, AckSparesOwed, ClearOwesNothing
<1>6. ASSUME NEW n \in SeqNo, AckBegin(n)
      PROVE NothingLost' /\ AckSparesOwed' /\ ClearOwesNothing'
  <2>1. NothingLost' /\ DOMAIN owed' = DOMAIN owed \ (0 .. n)
    BY <1>6, <1>a, ReleaseKeeps DEF AckBegin, OwedOnDisk, OwedInMem, InWindow
  <2>2. \A s \in DOMAIN owed' : s > n
    BY <1>a, <2>1, QueueAssumption DEF TypeOK, SeqNo, QueueAssumption
  <2>3. \A s \in DOMAIN owed' : s > upTo'
    BY <1>6, <1>a, <2>1, <2>2, QueueAssumption
       DEF AckBegin, TypeOK, Counters, SeqNo, QueueAssumption
  <2> QED
    BY <1>6, <2>1, <2>3 DEF AckBegin, AckSparesOwed, ClearOwesNothing
<1>7. CASE AckItem
  <2>1. \A s \in DOMAIN owed : s > upTo /\ s # mem.head /\ s \in Nat
    BY <1>7, <1>a, QueueAssumption
       DEF AckItem, QueueInv, AckSparesOwed, TypeOK, Counters, SeqNo, QueueAssumption
  <2>2. \A s \in DOMAIN owed : s \in DOMAIN items' /\ items'[s] = items[s]
    BY <1>7, <1>a, <2>1, UnlinkType DEF AckItem, OwedOnDisk
  <2>3. mem'.head = mem.head + 1 /\ mem'.tail = mem.tail
    BY <1>7, <1>a DEF AckItem, TypeOK, Counters
  <2>4. \A s \in DOMAIN owed : InWindow(mem', s)
    BY <1>7, <1>a, <2>1, <2>3 DEF AckItem, OwedInMem, InWindow, TypeOK, Counters
  <2>5. Kept
    BY <1>7, <1>a, <2>2, <2>4 DEF AckItem, OwedOnDisk, OwedInMem, OwedInMeta
  <2> QED
    BY <1>7, <1>b, <2>5 DEF AckItem, QueueInv, AckSparesOwed, ClearOwesNothing
<1>8. CASE AckDone
  <2>1. Kept
    BY <1>8, <1>a DEF AckDone, OwedOnDisk, OwedInMem, OwedInMeta
  <2> QED
    BY <1>8, <1>b, <2>1 DEF AckDone, AckSparesOwed, ClearOwesNothing
<1>9. CASE FinishSave
  <2>1. meta' = mem /\ UNCHANGED <<items, mem, owed>> /\ op = "saving" /\ op' = "idle"
    BY <1>9 DEF FinishSave, SaveMeta
  <2>2. Kept
    BY <1>a, <2>1 DEF OwedOnDisk, OwedInMem, OwedInMeta
  <2> QED
    BY <1>b, <2>1, <2>2 DEF AckSparesOwed, ClearOwesNothing
<1>10. CASE GetNothing
  <2>1. DOMAIN owed = {}
    BY <1>10, <1>a DEF GetNothing, Held, OwedOnDisk, OwedInMem, InWindow
  <2> QED
    BY <1>10, <1>c, <2>1 DEF GetNothing
<1>11. CASE GetUnreadable
  <2>1. PICK s \in SeqNo : FirstHeld(s) /\ mem' = [mem EXCEPT !.head = s]
    BY <1>11 DEF GetUnreadable
  <2>2. mem'.head = s /\ mem'.tail = mem.tail
    BY <1>a, <2>1 DEF TypeOK, Counters
  <2>3. \A t \in DOMAIN owed : t \in Held(mem)
    BY <1>11, <1>a DEF GetUnreadable, Held, OwedOnDisk, OwedInMem, InWindow
  <2>4. \A t \in DOMAIN owed : InWindow(mem', t)
    BY <2>1, <2>2, <2>3 DEF FirstHeld, Held, InWindow
  <2>5. Kept
    BY <1>11, <1>a, <2>4 DEF GetUnreadable, OwedOnDisk, OwedInMem, OwedInMeta
  <2> QED
    BY <1>11, <1>b, <2>5 DEF GetUnreadable, AckSparesOwed, ClearOwesNothing
<1>12. ASSUME NEW s \in SeqNo, GetItem(s)
      PROVE NothingLost' /\ AckSparesOwed' /\ ClearOwesNothing'
  <2>1. mem'.head = s + 1 /\ mem'.tail = mem.tail
    BY <1>12, <1>a DEF GetItem, TypeOK, Counters
  <2>2. \A t \in DOMAIN owed : t \in Held(mem) /\ s <= t
    BY <1>12, <1>a DEF GetItem, FirstHeld, Held, OwedOnDisk, OwedInMem, InWindow
  <2>3. \A t \in DOMAIN owed \ {s} : InWindow(mem', t)
    BY <1>12, <1>a, <2>1, <2>2, QueueAssumption
       DEF Held, InWindow, TypeOK, SeqNo, QueueAssumption
  <2>4. \A t \in DOMAIN owed \ {s} : t \in DOMAIN items' /\ items'[t] = items[t]
    BY <1>12, <1>a, UnlinkType DEF GetItem, OwedOnDisk
  <2>5. NothingLost'
    BY <1>12, <1>a, <2>3, <2>4, ReleaseKeeps DEF GetItem
  <2> QED
    BY <1>12, <2>5 DEF GetItem, AckSparesOwed, ClearOwesNothing
<1>13. CASE ClearBegin
  <2>1. DOMAIN owed' = {}
    BY <1>13 DEF ClearBegin
  <2> QED
    BY <2>1 DEF NothingLost, OwedOnDisk, OwedInMem, OwedInMeta, AckSparesOwed, ClearOwesNothing
<1>14. ASSUME NEW s \in SeqNo, ClearItem(s)
      PROVE NothingLost' /\ AckSparesOwed' /\ ClearOwesNothing'
  BY <1>14, <1>c DEF ClearItem, QueueInv, ClearOwesNothing
<1>15. CASE ClearDone
  BY <1>15, <1>c DEF ClearDone, QueueInv, ClearOwesNothing
<1>16. CASE Crash
  <2>1. Kept
    BY <1>16, <1>a DEF Crash, OwedOnDisk, OwedInMem, OwedInMeta
  <2> QED
    BY <1>16, <1>b, <2>1 DEF Crash, AckSparesOwed, ClearOwesNothing
<1>17. CASE UNCHANGED vars
  BY <1>17, <1>a DEF vars, QueueInv, NothingLost, OwedOnDisk, OwedInMem, OwedInMeta,
                     InWindow, AckSparesOwed, ClearOwesNothing
<1> QED
  BY <1>1, <1>2, <1>3, <1>4, <1>5, <1>6, <1>7, <1>8, <1>9, <1>10, <1>11, <1>12,
     <1>13, <1>14, <1>15, <1>16, <1>17 DEF Next, Open, Put, Ack, Get, Clear

\* While meta.json can be written, an item whose put returned is neither lost
\* nor overwritten until it is released, at whatever step of put, ack, get or
\* clear the process dies, with meta.json lost, files that cannot be deleted and
\* reads that fail.
THEOREM NothingIsLost ==
  ASSUME "save_meta" \notin Faults
  PROVE  Spec => []NothingLost
<1>1. QueueInv /\ [Next]_vars => QueueInv'
  BY QueueNext
<1>2. QueueInv => NothingLost
  BY DEF QueueInv
<1> QED
  BY <1>1, <1>2, QueueInit, PTL DEF Spec

LEMMA NewestNext ==
  ASSUME QueueInv, [Next]_vars
  PROVE  NewestIsLargest
<1>1. CASE PutCommit
  <2>1. DOMAIN owed' = DOMAIN owed \cup {mem.tail}
    BY <1>1 DEF PutCommit, With
  <2>2. \A t \in DOMAIN owed : t < mem.tail
    BY <1>1 DEF PutCommit, QueueInv, NothingLost, OwedInMem, InWindow
  <2> QED
    BY <2>1, <2>2 DEF NewestIsLargest
<1>2. ASSUME DOMAIN owed' \subseteq DOMAIN owed PROVE NewestIsLargest
  BY <1>2 DEF NewestIsLargest
<1>3. ASSUME NEW S, owed' = Without(owed, S) PROVE NewestIsLargest
  BY <1>2, <1>3 DEF Without
<1>4. CASE Open \/ AckItem \/ AckDone \/ GetNothing \/ GetUnreadable \/ FinishSave \/ Crash
  BY <1>2, <1>4 DEF Open, OpenFromMeta, OpenEmpty, Rebuild, AckItem, AckDone, GetNothing,
                    GetUnreadable, FinishSave, Crash
<1>5. CASE Clear
  <2>1. UNCHANGED owed \/ owed' = << >>
    BY <1>5 DEF Clear, ClearBegin, ClearItem, ClearDone
  <2> QED
    BY <1>2, <2>1, EmptyType
<1>6. ASSUME NEW p \in Payload, PutWrite(p) PROVE NewestIsLargest
  BY <1>2, <1>6 DEF PutWrite
<1>7. ASSUME NEW s \in SeqNo, AckBegin(s) PROVE NewestIsLargest
  BY <1>3, <1>7 DEF AckBegin
<1>8. ASSUME NEW s \in SeqNo, GetItem(s) PROVE NewestIsLargest
  BY <1>3, <1>8 DEF GetItem
<1>9. CASE UNCHANGED vars
  BY <1>2, <1>9 DEF vars
<1> QED
  BY <1>1, <1>4, <1>5, <1>6, <1>7, <1>8, <1>9 DEF Next, Put, Ack, Get

\* The sequence numbers of what is accepted and not released grow, across
\* crashes and restarts: an ack up to one of them covers exactly the older ones.
THEOREM NumbersGrow ==
  ASSUME "save_meta" \notin Faults
  PROVE  Spec => SeqsIncrease
<1>1. QueueInv /\ [Next]_vars => QueueInv'
  BY QueueNext
<1>2. QueueInv /\ [Next]_vars => [NewestIsLargest]_vars
  BY NewestNext
<1> QED
  BY <1>1, <1>2, QueueInit, PTL DEF Spec, SeqsIncrease

-----------------------------------------------------------------------------
(* Failing writes of meta.json *)

OnDisk(s) == s \in DOMAIN items /\ items[s] = owed[s]

\* What the running process looks at is there.
WindowOnDisk == op # "down" => \A s \in DOMAIN owed : InWindow(mem, s) => OnDisk(s)

\* What meta.json counts is there, and the running process looks at it too: it
\* may have moved the head past released items only.
MetaOnDisk ==
  meta # NoMeta =>
    \A s \in DOMAIN owed : InWindow(meta, s) => OnDisk(s) /\ (op # "down" => InWindow(mem, s))

\* Before the first save nothing has been overwritten.
UnsavedOnDisk == meta = NoMeta => OwedOnDisk /\ OwedInMem

SavedInv ==
  /\ TypeInv /\ Ordered /\ AckSparesOwed /\ ClearOwesNothing
  /\ WindowOnDisk /\ MetaOnDisk /\ UnsavedOnDisk

LEMMA SavedInit == Init => SavedInv
  BY TypeInit, QueueInit
  DEF Init, SavedInv, QueueInv, WindowOnDisk, MetaOnDisk, UnsavedOnDisk, NothingLost

\* A step that lets nothing in, touches no file of the window and keeps what is
\* owed of the window keeps the three.
LEMMA ShrinkSaved ==
  ASSUME WindowOnDisk, MetaOnDisk, UnsavedOnDisk, TypeOK', op # "down",
         DOMAIN owed' \subseteq DOMAIN owed,
         \A s \in DOMAIN owed' : owed'[s] = owed[s],
         \A s \in DOMAIN owed' : InWindow(mem, s) /\ s \in DOMAIN items =>
            s \in DOMAIN items' /\ items'[s] = items[s],
         \A s \in DOMAIN owed' : InWindow(mem, s) <=> InWindow(mem', s),
         meta' = meta \/ meta' = mem'
  PROVE  WindowOnDisk' /\ MetaOnDisk' /\ UnsavedOnDisk'
<1>1. ASSUME NEW s \in DOMAIN owed', InWindow(mem, s) PROVE OnDisk(s)' /\ InWindow(mem, s)'
  BY <1>1 DEF WindowOnDisk, OnDisk, InWindow
<1>2. WindowOnDisk'
  <2>1. \A s \in DOMAIN owed' : InWindow(mem, s)' => InWindow(mem, s)
    BY DEF InWindow
  <2> QED
    BY <1>1, <2>1 DEF WindowOnDisk
<1>3. ASSUME meta' = meta PROVE MetaOnDisk' /\ UnsavedOnDisk'
  <2>1. ASSUME meta # NoMeta, NEW s \in DOMAIN owed', InWindow(meta, s) PROVE InWindow(mem, s)
    BY <2>1 DEF MetaOnDisk
  <2>2. MetaOnDisk'
    BY <1>1, <1>3, <2>1 DEF MetaOnDisk, InWindow
  <2>3. ASSUME meta = NoMeta, NEW s \in DOMAIN owed' PROVE InWindow(mem, s)
    BY <2>3 DEF UnsavedOnDisk, OwedInMem
  <2>4. UnsavedOnDisk'
    BY <1>1, <1>3, <2>3 DEF UnsavedOnDisk, OwedOnDisk, OwedInMem, OnDisk
  <2> QED
    BY <2>2, <2>4
<1>4. ASSUME meta' = mem', meta' # meta PROVE MetaOnDisk' /\ UnsavedOnDisk'
  <2>1. \A s \in DOMAIN owed' : InWindow(meta, s)' => InWindow(mem, s)
    BY <1>4 DEF InWindow
  <2>2. MetaOnDisk'
    BY <1>1, <2>1 DEF MetaOnDisk
  <2>3. UnsavedOnDisk'
    BY <1>4, NoMetaAssumption DEF UnsavedOnDisk, TypeOK
  <2> QED
    BY <2>2, <2>3
<1> QED
  BY <1>2, <1>3, <1>4

LEMMA SavedNext ==
  ASSUME "meta_lost" \notin Faults
  PROVE  SavedInv /\ [Next]_vars => SavedInv'
<1> SUFFICES ASSUME SavedInv, [Next]_vars PROVE SavedInv'
  OBVIOUS
<1>0. TypeInv' /\ TypeOK' /\ Ordered'
  BY TypeNext, OrderedNext DEF SavedInv, TypeInv
<1>a. TypeInv /\ TypeOK /\ Ordered /\ AckSparesOwed /\ ClearOwesNothing
      /\ WindowOnDisk /\ MetaOnDisk /\ UnsavedOnDisk
  BY DEF SavedInv, TypeInv
<1>b. DOMAIN owed \subseteq Nat /\ mem.head \in Nat /\ mem.tail \in Nat
  BY <1>a, QueueAssumption DEF TypeOK, Counters, SeqNo, QueueAssumption
<1> DEFINE Saved == WindowOnDisk' /\ MetaOnDisk' /\ UnsavedOnDisk'
           Rest == AckSparesOwed' /\ ClearOwesNothing'
<1> SUFFICES Saved /\ Rest
  BY <1>0 DEF SavedInv
\* With nothing owed there is nothing to keep.
<1>c. ASSUME DOMAIN owed' = {} PROVE Saved /\ Rest
  BY <1>c DEF WindowOnDisk, MetaOnDisk, UnsavedOnDisk, OwedOnDisk, OwedInMem,
              AckSparesOwed, ClearOwesNothing
<1>d. ASSUME op' \notin {"ack", "clear"} PROVE Rest
  BY <1>d DEF AckSparesOwed, ClearOwesNothing
<1>1. CASE OpenFromMeta
  <2>1. UNCHANGED <<items, meta, owed>> /\ mem' = meta /\ op' = "idle" /\ meta # NoMeta
    BY <1>1 DEF OpenFromMeta
  <2>2. Saved
    BY <1>a, <2>1 DEF WindowOnDisk, MetaOnDisk, UnsavedOnDisk, OnDisk, InWindow
  <2> QED
    BY <1>d, <2>1, <2>2
<1>2. CASE OpenEmpty
  <2>1. DOMAIN owed' = {}
    BY <1>2, <1>a DEF OpenEmpty, UnsavedOnDisk, OwedOnDisk
  <2> QED
    BY <1>c, <2>1
<1>3. ASSUME NEW lo \in DOMAIN items, NEW hi \in DOMAIN items, Rebuild(lo, hi)
      PROVE Saved /\ Rest
  <2>1. /\ mem'.head = lo /\ mem'.tail = hi + 1 /\ (meta' = mem' \/ meta' = meta)
        /\ items' = items /\ owed' = owed /\ op' = "idle" /\ meta = NoMeta
    BY <1>3 DEF Rebuild, SaveMeta
  <2>2. \A s \in DOMAIN owed : s \in DOMAIN items /\ OnDisk(s)
    BY <1>a, <2>1 DEF UnsavedOnDisk, OwedOnDisk, OnDisk
  <2>3. \A s \in DOMAIN owed' : OnDisk(s)'
    BY <2>1, <2>2 DEF OnDisk
  <2>4. \A s \in DOMAIN owed' : InWindow(mem, s)'
    BY <1>3, <1>a, <2>1, <2>2, QueueAssumption
       DEF Rebuild, InWindow, TypeOK, QueueAssumption, SeqNo
  <2>5. Saved
    BY <2>1, <2>3, <2>4 DEF WindowOnDisk, MetaOnDisk, UnsavedOnDisk, OwedOnDisk, OwedInMem,
                            OnDisk, InWindow
  <2> QED
    BY <1>d, <2>1, <2>5
<1>4. ASSUME NEW p \in Payload, PutWrite(p) PROVE Saved /\ Rest
  <2>1. /\ op = "idle" /\ op' = "put" /\ UNCHANGED <<meta, mem, owed>>
        /\ items' = With(items, mem.tail, p)
    BY <1>4 DEF PutWrite
  <2>2. \A s \in DOMAIN items : s # mem.tail => s \in DOMAIN items' /\ items'[s] = items[s]
    BY <2>1 DEF With
  <2>3. \A s \in DOMAIN owed : InWindow(mem, s) => s # mem.tail
    BY <1>b DEF InWindow
  <2>4. Saved
    <3>1. \A s \in DOMAIN owed' : InWindow(mem, s) <=> InWindow(mem', s)
      BY <2>1
    <3> QED
      BY <1>a, <1>0, <2>1, <2>2, <2>3, <3>1, ShrinkSaved
  <2> QED
    BY <1>d, <2>1, <2>4
<1>5. CASE PutCommit
  <2>1. /\ op = "put" /\ op' = "idle" /\ items' = items /\ (meta' = mem' \/ meta' = meta)
        /\ mem'.head = mem.head /\ mem'.tail = mem.tail + 1
    BY <1>5, <1>a DEF PutCommit, SaveMeta, TypeOK, Counters
  <2>2. /\ DOMAIN owed' = DOMAIN owed \cup {mem.tail}
        /\ owed'[mem.tail] = items[mem.tail] /\ mem.tail \in DOMAIN items
        /\ \A t \in DOMAIN owed : t # mem.tail => owed'[t] = owed[t]
    BY <1>5, <1>a DEF PutCommit, With, TypeInv, PutWritten
  <2>3. \A s \in DOMAIN owed' : InWindow(mem, s)' => s = mem.tail \/ InWindow(mem, s)
    BY <1>b, <2>1, <2>2 DEF InWindow
  <2>4. ASSUME NEW s \in DOMAIN owed', s = mem.tail \/ InWindow(mem, s)
        PROVE  OnDisk(s)' /\ InWindow(mem, s)'
    <3>1. CASE s = mem.tail
      <4>1. mem.head <= mem.tail
        BY <1>a DEF Ordered
      <4> QED
        BY <1>b, <2>1, <2>2, <3>1, <4>1 DEF OnDisk, InWindow
    <3>2. CASE s # mem.tail
      BY <1>a, <1>b, <2>1, <2>2, <2>4, <3>2 DEF WindowOnDisk, OnDisk, InWindow
    <3> QED
      BY <3>1, <3>2
  <2>5. WindowOnDisk'
    BY <2>3, <2>4 DEF WindowOnDisk
  <2>6. ASSUME meta' # NoMeta, NEW s \in DOMAIN owed', InWindow(meta, s)'
        PROVE  s = mem.tail \/ InWindow(mem, s)
    <3>1. CASE meta' = mem'
      BY <2>3, <2>6, <3>1 DEF InWindow
    <3>2. CASE meta' = meta
      BY <1>a, <2>1, <2>2, <2>6, <3>2 DEF MetaOnDisk, InWindow
    <3> QED
      BY <2>1, <3>1, <3>2
  <2>7. MetaOnDisk'
    BY <2>4, <2>6 DEF MetaOnDisk
  <2>8. ASSUME meta' = NoMeta, NEW s \in DOMAIN owed' PROVE s = mem.tail \/ InWindow(mem, s)
    <3>1. meta = NoMeta
      BY <1>0, <2>1, <2>8, NoMetaAssumption DEF TypeOK
    <3> QED
      BY <1>a, <2>1, <2>2, <3>1 DEF UnsavedOnDisk, OwedInMem
  <2>9. UnsavedOnDisk'
    BY <2>4, <2>8 DEF UnsavedOnDisk, OwedOnDisk, OwedInMem, OnDisk, InWindow
  <2> QED
    BY <1>d, <2>1, <2>5, <2>7, <2>9
<1>6. ASSUME NEW n \in SeqNo, AckBegin(n) PROVE Saved /\ Rest
  <2>1. /\ op = "idle" /\ op' = "ack" /\ UNCHANGED <<items, meta, mem>>
        /\ DOMAIN owed' = DOMAIN owed \ (0 .. n)
        /\ \A s \in DOMAIN owed' : owed'[s] = owed[s]
    BY <1>6 DEF AckBegin, Without
  <2>2. \A s \in DOMAIN owed' : s > n
    BY <1>b, <2>1, QueueAssumption DEF SeqNo, QueueAssumption
  <2>3. n \in Int /\ upTo' \in Int /\ upTo' <= n
    BY <1>6, <1>b, QueueAssumption DEF AckBegin, SeqNo, QueueAssumption
  <2>4. Rest
    BY <1>b, <2>1, <2>2, <2>3 DEF AckSparesOwed, ClearOwesNothing
  <2>5. Saved
    <3>1. \A s \in DOMAIN owed' : InWindow(mem, s) <=> InWindow(mem', s)
      BY <2>1
    <3> QED
      BY <1>a, <1>0, <2>1, <3>1, ShrinkSaved
  <2> QED
    BY <2>4, <2>5
<1>7. CASE AckItem
  <2>1. /\ op = "ack" /\ Unlink({mem.head}) /\ UNCHANGED <<meta, op, upTo, owed>>
        /\ mem.head <= upTo /\ mem'.head = mem.head + 1 /\ mem'.tail = mem.tail
    BY <1>7, <1>a DEF AckItem, TypeOK, Counters
  <2>2. \A s \in DOMAIN owed : s > upTo /\ s # mem.head /\ s > mem.head
    BY <1>a, <1>b, <2>1 DEF AckSparesOwed, TypeOK
  <2>3. \A s \in DOMAIN owed' : InWindow(mem, s) <=> InWindow(mem', s)
    BY <1>b, <2>1, <2>2 DEF InWindow
  <2>4. \A s \in DOMAIN owed' : s \in DOMAIN items => s \in DOMAIN items' /\ items'[s] = items[s]
    BY <1>a, <2>1, <2>2, UnlinkType
  <2>5. Saved
    BY <1>a, <1>0, <2>1, <2>3, <2>4, ShrinkSaved
  <2>6. Rest
    BY <1>a, <2>1 DEF AckSparesOwed, ClearOwesNothing
  <2> QED
    BY <2>5, <2>6
<1>8. ASSUME AckDone \/ FinishSave PROVE Saved /\ Rest
  <2>1. /\ op \in {"ack", "saving"} /\ op' \in {"idle", "saving"}
        /\ UNCHANGED <<items, mem, owed>> /\ (meta' = meta \/ meta' = mem')
    BY <1>8 DEF AckDone, FinishSave, SaveMeta
  <2>2. Saved
    <3>1. \A s \in DOMAIN owed' : InWindow(mem, s) <=> InWindow(mem', s)
      BY <2>1
    <3> QED
      BY <1>a, <1>0, <2>1, <3>1, ShrinkSaved
  <2> QED
    BY <1>d, <2>1, <2>2
<1>9. CASE GetNothing
  <2>1. /\ op = "idle" /\ op' = "saving" /\ UNCHANGED <<items, meta, owed>> /\ Held(mem) = {}
        /\ mem'.tail = mem.tail /\ mem'.head >= mem.tail
    BY <1>9, <1>a DEF GetNothing, TypeOK, Counters
  <2>2. \A s \in DOMAIN owed : ~ InWindow(mem, s)
    BY <1>a, <2>1 DEF WindowOnDisk, OnDisk, Held, InWindow
  <2>3. \A s \in DOMAIN owed : ~ InWindow(mem', s)
    BY <1>b, <1>0, <2>1 DEF InWindow, TypeOK, Counters
  <2>4. Saved
    BY <1>a, <1>0, <2>1, <2>2, <2>3, ShrinkSaved
  <2> QED
    BY <1>d, <2>1, <2>4
<1>10. CASE GetUnreadable
  <2>1. PICK s \in SeqNo : FirstHeld(s) /\ mem' = [mem EXCEPT !.head = s]
    BY <1>10 DEF GetUnreadable
  <2>2. mem'.head = s /\ mem'.tail = mem.tail /\ s \in Nat /\ mem.head <= s
    BY <1>a, <2>1, QueueAssumption DEF TypeOK, Counters, SeqNo, QueueAssumption, FirstHeld, Held
  <2>3. \A t \in DOMAIN owed : InWindow(mem, t) => t \in Held(mem)
    BY <1>10, <1>a DEF GetUnreadable, WindowOnDisk, OnDisk, Held, InWindow
  <2>4. \A t \in DOMAIN owed : InWindow(mem, t) => s <= t
    BY <2>1, <2>3 DEF FirstHeld
  <2>5. \A t \in DOMAIN owed : InWindow(mem, t) <=> InWindow(mem', t)
    BY <1>b, <2>2, <2>4 DEF InWindow
  <2>6. op = "idle" /\ UNCHANGED <<items, meta, op, owed>>
    BY <1>10 DEF GetUnreadable
  <2>7. Saved
    BY <1>a, <1>0, <2>5, <2>6, ShrinkSaved
  <2> QED
    BY <1>d, <2>6, <2>7
<1>11. ASSUME NEW s \in SeqNo, GetItem(s) PROVE Saved /\ Rest
  <2>1. /\ op = "idle" /\ op' = "saving" /\ Unlink({s}) /\ meta' = meta /\ FirstHeld(s)
        /\ mem'.head = s + 1 /\ mem'.tail = mem.tail /\ owed' = Without(owed, {s})
    BY <1>11, <1>a DEF GetItem, TypeOK, Counters
  <2>2. DOMAIN owed' = DOMAIN owed \ {s} /\ \A t \in DOMAIN owed' : owed'[t] = owed[t]
    BY <2>1 DEF Without
  <2>3. \A t \in DOMAIN owed' : t \in DOMAIN items => t \in DOMAIN items' /\ items'[t] = items[t]
    BY <1>a, <2>1, <2>2, UnlinkType
  <2>4. \A t \in DOMAIN owed : InWindow(mem, t) => t \in Held(mem) /\ s <= t
    BY <1>a, <2>1 DEF WindowOnDisk, OnDisk, FirstHeld, Held, InWindow
  <2>5. s \in Nat /\ mem.head <= s
    BY <2>1, QueueAssumption DEF SeqNo, QueueAssumption, FirstHeld, Held
  <2>6. \A t \in DOMAIN owed' : InWindow(mem, t) <=> InWindow(mem', t)
    BY <1>b, <2>1, <2>2, <2>4, <2>5 DEF InWindow
  <2>7. Saved
    BY <1>a, <1>0, <2>1, <2>2, <2>3, <2>6, ShrinkSaved
  <2> QED
    BY <1>d, <2>1, <2>7
<1>12. CASE Clear
  <2>1. DOMAIN owed' = {}
    BY <1>12, <1>a, EmptyType DEF Clear, ClearBegin, ClearItem, ClearDone, ClearOwesNothing
  <2> QED
    BY <1>c, <2>1
<1>13. CASE Crash
  <2>1. op' = "down" /\ UNCHANGED <<items, meta, owed>>
    BY <1>13 DEF Crash
  <2>2. Saved
    BY <1>a, <1>13, <2>1 DEF Crash, WindowOnDisk, MetaOnDisk, UnsavedOnDisk, OwedOnDisk, OwedInMem,
                        OnDisk, InWindow
  <2> QED
    BY <1>d, <2>1, <2>2
<1>14. CASE UNCHANGED vars
  BY <1>14, <1>a DEF vars, WindowOnDisk, MetaOnDisk, UnsavedOnDisk, OwedOnDisk, OwedInMem,
                     OnDisk, InWindow, AckSparesOwed, ClearOwesNothing
<1> QED
  BY <1>1, <1>2, <1>3, <1>4, <1>5, <1>6, <1>7, <1>8, <1>9, <1>10, <1>11, <1>12,
     <1>13, <1>14 DEF Next, Open, Put, Ack, Get

\* What one step of the disk leaves of the items that meta.json counted.
SavedKept ==
  \A s \in DOMAIN owed \cap DOMAIN owed' :
    (meta # NoMeta /\ InWindow(meta, s)) =>
      /\ s \in DOMAIN items' /\ items'[s] = owed[s]
      /\ meta' # NoMeta /\ InWindow(meta', s)

\* A save writes the counters of the process, which still look at every item
\* that the file it replaces looked at.
LEMMA SavedStep ==
  ASSUME "meta_lost" \notin Faults, SavedInv, [Next]_vars
  PROVE  SavedKept
<1> SUFFICES ASSUME NEW s \in DOMAIN owed, s \in DOMAIN owed', meta # NoMeta, InWindow(meta, s)
             PROVE  /\ s \in DOMAIN items' /\ items'[s] = owed[s]
                    /\ meta' # NoMeta /\ InWindow(meta', s)
  BY DEF SavedKept
<1>1. SavedInv'
  BY SavedNext
<1>2. TypeOK /\ MetaOnDisk /\ MetaOnDisk'
  BY <1>1 DEF SavedInv, TypeInv
<1>3. op # "down" => InWindow(mem, s)
  BY <1>2 DEF MetaOnDisk
<1>4. s \in Nat
  BY <1>2, QueueAssumption DEF TypeOK, SeqNo, QueueAssumption
<1>5. CASE PutCommit
  <2>1. InWindow(mem, s)
    BY <1>3, <1>5 DEF PutCommit
  <2>2. s # mem.tail
    BY <1>2, <1>4, <2>1 DEF InWindow, TypeOK, Counters
  <2>3. owed'[s] = owed[s]
    BY <1>5, <2>2 DEF PutCommit, With
  <2>4. meta' # NoMeta /\ InWindow(meta', s)
    <3>1. mem' \in Counters /\ InWindow(mem', s)
      BY <1>1, <1>2, <1>4, <1>5, <2>1
         DEF PutCommit, InWindow, SavedInv, TypeInv, TypeOK, Counters
    <3> QED
      BY <1>5, <3>1, NoMetaAssumption DEF PutCommit, SaveMeta
  <2> QED
    BY <1>2, <2>3, <2>4 DEF MetaOnDisk, OnDisk, InWindow
<1>6. ASSUME owed'[s] = owed[s], meta' = meta \/ (op # "down" /\ meta' = mem /\ mem' = mem)
      PROVE  /\ s \in DOMAIN items' /\ items'[s] = owed[s]
             /\ meta' # NoMeta /\ InWindow(meta', s)
  <2>1. meta' # NoMeta /\ InWindow(meta', s)
    BY <1>2, <1>3, <1>6, NoMetaAssumption DEF TypeOK
  <2> QED
    BY <1>2, <1>6, <2>1 DEF MetaOnDisk, OnDisk, InWindow
<1>7. CASE Open \/ Crash \/ FinishSave \/ AckItem \/ AckDone \/ GetNothing \/ GetUnreadable
  BY <1>6, <1>7 DEF Open, OpenFromMeta, OpenEmpty, Rebuild, Crash, FinishSave, SaveMeta, AckItem,
                    AckDone, GetNothing, GetUnreadable
<1>8. CASE Clear
  <2>1. CASE ClearBegin
    BY <2>1, EmptyType DEF ClearBegin
  <2> QED
    BY <1>6, <1>8, <2>1 DEF Clear, ClearDone, ClearItem
<1>9. ASSUME NEW p \in Payload, PutWrite(p)
      PROVE  /\ s \in DOMAIN items' /\ items'[s] = owed[s]
             /\ meta' # NoMeta /\ InWindow(meta', s)
  BY <1>6, <1>9 DEF PutWrite
<1>10. ASSUME NEW S, owed' = Without(owed, S), meta' = meta
       PROVE  /\ s \in DOMAIN items' /\ items'[s] = owed[s]
              /\ meta' # NoMeta /\ InWindow(meta', s)
  <2>1. owed'[s] = owed[s]
    BY <1>10 DEF Without
  <2> QED
    BY <1>6, <1>10, <2>1
<1>11. ASSUME NEW n \in SeqNo, AckBegin(n) \/ GetItem(n)
       PROVE  /\ s \in DOMAIN items' /\ items'[s] = owed[s]
              /\ meta' # NoMeta /\ InWindow(meta', s)
  BY <1>10, <1>11 DEF AckBegin, GetItem
<1>12. CASE UNCHANGED vars
  BY <1>6, <1>12 DEF vars
<1> QED
  BY <1>5, <1>7, <1>8, <1>9, <1>11, <1>12 DEF Next, Put, Ack, Get

\* Even when writes of meta.json fail, an item that one successful save has
\* counted stays on disk and counted until it is released (_save_meta,
\* queue.py:323), whatever files cannot be deleted or read and wherever the
\* process dies: a later save never counts less of what is owed than the one
\* it replaces.
THEOREM SavedIsKept ==
  ASSUME "meta_lost" \notin Faults
  PROVE  Spec => SavedNotLost
<1>1. SavedInv /\ [Next]_vars => SavedInv'
  BY SavedNext
<1>2. SavedInv /\ [Next]_vars => [SavedKept]_vars
  BY SavedStep
<1> QED
  BY <1>1, <1>2, SavedInit, PTL DEF Spec, SavedNotLost, SavedKept

-----------------------------------------------------------------------------
(* Limits *)

\* The files D fill the window of the counters c from the first one there is, but
\* for one that a put cut short has left at the tail.
Block(D, c) == D \subseteq c.head .. c.tail /\ \A s \in D : s .. c.tail - 1 \subseteq D

\* The counters c never fall below what the table f of items holds, nor the
\* number of items below the width of the window: an ack counts one off for
\* every number it passes.
Counted(f, c) ==
  c.tail - c.head <= c.count /\ Amount(f, DOMAIN f \ {c.tail}) <= c.bytes

\* What a rebuild without meta.json relies on.
NoGap(D) == \A s, t \in D : s .. t \subseteq D

Fits(f) ==
  MaxItems # NoLimit =>
    /\ Cardinality(DOMAIN f) <= MaxItems
    /\ MaxBytes # NoLimit => Amount(f, DOMAIN f) <= MaxBytes

LimitsInv ==
  /\ TypeInv /\ Ordered /\ NoGap(DOMAIN items) /\ Fits(items) /\ op # "clear"
  /\ op # "down" => Block(DOMAIN items, mem) /\ Counted(items, mem)
  /\ op = "down" => mem = Zero
  /\ meta # NoMeta => Block(DOMAIN items, meta) /\ Counted(items, meta)
  /\ op # "down" /\ meta # NoMeta => meta.tail = mem.tail
  /\ op = "put" /\ MaxItems # NoLimit => mem.count < MaxItems

LEMMA AmountEmpty == ASSUME NEW f PROVE Amount(f, {}) = 0
<1>1. BytesIn(f, {}) = {}
  BY DEF BytesIn
<1> QED
  BY <1>1, FS_EmptySet DEF Amount

LEMMA BlockNoGap == ASSUME NEW D, D \subseteq Nat, NEW c \in Counters, Block(D, c) PROVE NoGap(D)
  BY DEF Block, NoGap, Counters

\* The first item leaves.
LEMMA DropFirst ==
  ASSUME NEW f, DOMAIN f \subseteq SeqNo, f \in [DOMAIN f -> Payload],
         NEW s \in Nat, \A t \in DOMAIN f : s <= t
  PROVE  /\ NoGap(DOMAIN f) => NoGap(DOMAIN Without(f, {s}))
         /\ Fits(f) => Fits(Without(f, {s}))
         /\ \A c \in Counters :
              /\ Block(DOMAIN f, c) => Block(DOMAIN Without(f, {s}), c)
              /\ Counted(f, c) => Counted(Without(f, {s}), c)
              /\ s \notin DOMAIN f =>
                   Amount(Without(f, {s}), DOMAIN Without(f, {s}) \ {c.tail})
                     = Amount(f, DOMAIN f \ {c.tail})
              /\ s \in DOMAIN f /\ s # c.tail =>
                   Amount(Without(f, {s}), DOMAIN Without(f, {s}) \ {c.tail}) + Size[f[s]]
                     = Amount(f, DOMAIN f \ {c.tail})
<1> DEFINE g == Without(f, {s})
           D == DOMAIN f
<1>1. DOMAIN g = D \ {s} /\ \A t \in D \ {s} : g[t] = f[t]
  BY DEF Without
<1>2. D \subseteq Nat
  BY QueueAssumption DEF SeqNo, QueueAssumption
<1>3. \A S \in SUBSET (D \ {s}) : Amount(g, S) = Amount(f, S)
  <2> SUFFICES ASSUME NEW S, S \subseteq D \ {s} PROVE Amount(g, S) = Amount(f, S)
    OBVIOUS
  <2>1. \A t \in S : g[t] = f[t]
    BY <1>1
  <2> HIDE DEF g
  <2> QED
    BY <2>1, AmountSame
<1> HIDE DEF g
<1>4. NoGap(D) => NoGap(DOMAIN g)
  BY <1>1, <1>2 DEF NoGap
<1>5. Fits(f) => Fits(g)
  <2>1. IsFiniteSet(D) /\ Cardinality(D) \in Nat /\ Cardinality(D \ {s}) \in Nat
    BY SeqFinite
  <2>2. Cardinality(DOMAIN g) <= Cardinality(D)
    BY <1>1, <2>1, FS_Subset
  <2>3. Amount(g, DOMAIN g) = Amount(f, D \ {s})
    BY <1>1, <1>3
  <2>4. Amount(f, D \ {s}) <= Amount(f, D)
    BY AmountMono
  <2>5. Amount(f, D \ {s}) \in Nat /\ Amount(f, D) \in Nat
    BY AmountNat
  <2> HIDE DEF D
  <2> QED
    BY <1>1, <2>1, <2>2, <2>3, <2>4, <2>5, QueueAssumption DEF Fits, D, QueueAssumption
<1>6. ASSUME NEW c \in Counters
      PROVE  /\ Block(D, c) => Block(DOMAIN g, c)
             /\ Counted(f, c) => Counted(g, c)
             /\ s \notin D => Amount(g, DOMAIN g \ {c.tail}) = Amount(f, D \ {c.tail})
             /\ s \in D /\ s # c.tail =>
                  Amount(g, DOMAIN g \ {c.tail}) + Size[f[s]] = Amount(f, D \ {c.tail})
  <2> DEFINE R == (D \ {s}) \ {c.tail}
  <2>1. Block(D, c) => Block(DOMAIN g, c)
    <3> SUFFICES ASSUME Block(D, c), NEW t \in D \ {s}
                 PROVE  t \in c.head .. c.tail /\ t .. c.tail - 1 \subseteq D \ {s}
      BY <1>1 DEF Block
    <3> QED
      BY <1>2 DEF Block, Counters
  <2>2. Amount(g, DOMAIN g \ {c.tail}) = Amount(f, R)
    BY <1>1, <1>3
  <2>3. Amount(f, R) \in Nat /\ Amount(f, D \ {c.tail}) \in Nat
    BY AmountNat
  <2>4. Amount(f, R) <= Amount(f, D \ {c.tail})
    BY AmountMono
  <2>5. Counted(f, c) => Counted(g, c)
    BY <2>2, <2>3, <2>4 DEF Counted, Counters
  <2>6. s \notin D => R = D \ {c.tail}
    OBVIOUS
  <2>7. ASSUME s \in D, s # c.tail
        PROVE  Amount(f, R) + Size[f[s]] = Amount(f, D \ {c.tail})
    <3>1. D \ {c.tail} = R \cup {s}
      BY <2>7
    <3>2. s \in D \ R /\ R \subseteq D /\ R \subseteq SeqNo
      BY <2>7
    <3> HIDE DEF R
    <3> QED
      BY <3>1, <3>2, AmountAdd
  <2> QED
    BY <2>1, <2>2, <2>5, <2>6, <2>7
<1> QED
  BY <1>4, <1>5, <1>6 DEF g

\* An item is put at the tail, where another may be.
LEMMA AddLast ==
  ASSUME NEW f, DOMAIN f \subseteq SeqNo, f \in [DOMAIN f -> Payload],
         NEW c \in Counters, c.tail \in SeqNo, NEW p \in Payload,
         c.head <= c.tail, Block(DOMAIN f, c), Counted(f, c)
  PROVE  /\ NoGap(DOMAIN With(f, c.tail, p))
         /\ Block(DOMAIN With(f, c.tail, p), c)
         /\ Counted(With(f, c.tail, p), c)
         /\ (MaxItems # NoLimit /\ c.count < MaxItems /\ c.bytes + Size[p] <= MaxBytes)
              => Fits(With(f, c.tail, p))
<1> DEFINE g == With(f, c.tail, p)
           D == DOMAIN f
           S == D \ {c.tail}
<1>1. DOMAIN g = D \cup {c.tail} /\ g \in [DOMAIN g -> Payload] /\ DOMAIN g \subseteq SeqNo
      /\ g[c.tail] = p /\ \A t \in S : g[t] = f[t]
  <2>1. DOMAIN g = D \cup {c.tail} /\ g[c.tail] = p /\ \A t \in S : g[t] = f[t]
    BY DEF With
  <2>2. DOMAIN g \subseteq SeqNo
    BY <2>1
  <2>3. g \in [DOMAIN g -> Payload]
    BY DEF With
  <2> QED
    BY <2>1, <2>2, <2>3
<1>2. D \subseteq Nat /\ c.tail \in Nat /\ c.head \in Nat /\ c.count \in Nat /\ c.bytes \in Nat
  BY QueueAssumption DEF SeqNo, QueueAssumption, Counters
<1> HIDE DEF g
<1>3. Block(DOMAIN g, c)
  BY <1>1, <1>2 DEF Block
<1>4. NoGap(DOMAIN g)
  <2>1. DOMAIN g \subseteq Nat
    BY <1>1, <1>2
  <2> QED
    BY <1>3, <2>1, BlockNoGap
<1>5. Amount(g, S) = Amount(f, S)
  BY <1>1, AmountSame
<1>6. DOMAIN g \ {c.tail} = S
  BY <1>1
<1>7. Counted(g, c)
  BY <1>5, <1>6 DEF Counted
<1>8. ASSUME MaxItems # NoLimit, c.count < MaxItems, c.bytes + Size[p] <= MaxBytes
      PROVE  Fits(g)
  <2>1. MaxItems \in Nat
    BY <1>8, QueueAssumption DEF QueueAssumption
  <2>2. Cardinality(DOMAIN g) <= MaxItems
    <3>1. DOMAIN g \subseteq c.head .. c.tail
      BY <1>3 DEF Block
    <3>2. /\ IsFiniteSet(c.head .. c.tail)
          /\ Cardinality(c.head .. c.tail) = IF c.head > c.tail THEN 0 ELSE c.tail - c.head + 1
      BY <1>2, FS_Interval
    <3>3. Cardinality(DOMAIN g) <= Cardinality(c.head .. c.tail)
      BY <3>1, <3>2, FS_Subset
    <3>4. Cardinality(DOMAIN g) \in Nat
      BY <1>1, SeqFinite
    <3>5. c.tail - c.head <= c.count
      BY DEF Counted
    <3> QED
      BY <1>2, <1>8, <2>1, <3>2, <3>3, <3>4, <3>5
  <2>3. Amount(g, S \cup {c.tail}) = Amount(g, S) + Size[g[c.tail]]
    <3>1. S \subseteq DOMAIN g /\ S \subseteq SeqNo /\ c.tail \in DOMAIN g \ S
      BY <1>1
    <3> HIDE DEF S
    <3> QED
      BY <1>1, <3>1, AmountAdd
  <2>4. S \cup {c.tail} = DOMAIN g
    BY <1>1
  <2>5. Amount(g, S) <= c.bytes
    BY <1>5 DEF Counted
  <2>6. Amount(g, S) \in Nat /\ Size[p] \in Nat
    <3>1. S \subseteq DOMAIN g /\ S \subseteq SeqNo
      BY <1>1
    <3>2. Amount(g, S) \in Nat
      BY <1>1, <3>1, AmountNat
    <3> QED
      BY <3>2, QueueAssumption DEF QueueAssumption
  <2>7. Amount(g, DOMAIN g) = Amount(g, S) + Size[p]
    BY <1>1, <2>3, <2>4
  <2>8. MaxBytes # NoLimit => MaxBytes \in Nat
    BY QueueAssumption DEF QueueAssumption
  <2>9. MaxBytes # NoLimit => Amount(g, DOMAIN g) <= MaxBytes
    BY <1>2, <1>8, <2>5, <2>6, <2>7, <2>8
  <2> QED
    BY <2>2, <2>9 DEF Fits
<1> QED
  BY <1>3, <1>4, <1>7, <1>8 DEF g

LEMMA LimitsInit == Init => LimitsInv
<1> SUFFICES ASSUME Init PROVE LimitsInv
  OBVIOUS
<1>1. DOMAIN items = {}
  BY EmptyType DEF Init
<1>2. Fits(items)
  BY <1>1, AmountEmpty, FS_EmptySet, QueueAssumption DEF Fits, QueueAssumption
<1>3. NoGap(DOMAIN items)
  BY <1>1 DEF NoGap
<1> QED
  BY <1>2, <1>3, TypeInit, QueueInit DEF Init, LimitsInv, QueueInv

\* The parts of LimitsInv that a step can disturb, with nothing of them when the
\* step changes no file and no counter.
LEMMA LimitsNext ==
  ASSUME "save_meta" \notin Faults, "unlink" \notin Faults, "clear" \notin Ops
  PROVE  LimitsInv /\ [Next]_vars => LimitsInv'
<1> SUFFICES ASSUME LimitsInv, [Next]_vars PROVE LimitsInv'
  OBVIOUS
<1>0. TypeInv' /\ Ordered'
  BY TypeNext, OrderedNext DEF LimitsInv
<1>a. /\ TypeInv /\ TypeOK /\ Ordered /\ NoGap(DOMAIN items) /\ Fits(items) /\ op # "clear"
      /\ mem \in Counters /\ mem.head \in Nat /\ mem.tail \in Nat /\ mem.count \in Nat
      /\ mem.bytes \in Nat /\ mem.head <= mem.tail
      /\ DOMAIN items \subseteq SeqNo /\ DOMAIN items \subseteq Nat
      /\ items \in [DOMAIN items -> Payload]
  BY QueueAssumption
     DEF LimitsInv, TypeInv, TypeOK, Counters, Ordered, SeqNo, QueueAssumption
<1>b. /\ op # "down" => Block(DOMAIN items, mem) /\ Counted(items, mem)
      /\ meta # NoMeta => meta \in Counters /\ Block(DOMAIN items, meta) /\ Counted(items, meta)
      /\ op # "down" /\ meta # NoMeta => meta.tail = mem.tail
      /\ op = "put" /\ MaxItems # NoLimit => mem.count < MaxItems
      /\ op = "down" => mem = Zero
  BY <1>a DEF LimitsInv, TypeOK
<1> DEFINE Files == NoGap(DOMAIN items') /\ Fits(items')
           OfMem == Block(DOMAIN items', mem') /\ Counted(items', mem')
           OfMeta == meta' # NoMeta => /\ Block(DOMAIN items', meta') /\ Counted(items', meta')
                                       /\ meta'.tail = mem'.tail
\* A step that leaves the queue open establishes these.
<1>c. ASSUME Files, OfMem, OfMeta, op' \notin {"down", "clear"},
             op' = "put" /\ MaxItems # NoLimit => mem'.count < MaxItems
      PROVE  LimitsInv'
  BY <1>0, <1>c DEF LimitsInv
\* One that changes neither files nor counters keeps them.
<1>d. ASSUME UNCHANGED <<items, mem>>, op # "down", meta' = meta \/ meta' = mem
      PROVE  Files /\ OfMem /\ OfMeta
  BY <1>a, <1>b, <1>d
<1>1. CASE OpenFromMeta
  <2>1. UNCHANGED <<items, meta>> /\ mem' = meta /\ op' = "idle" /\ meta # NoMeta
    BY <1>1 DEF OpenFromMeta
  <2> QED
    BY <1>a, <1>b, <1>c, <2>1
<1>2. CASE OpenEmpty
  <2>1. /\ UNCHANGED <<items, meta>> /\ mem' = Zero /\ op' = "idle" /\ meta = NoMeta
        /\ DOMAIN items = {}
    BY <1>2 DEF OpenEmpty
  <2>2. Block(DOMAIN items', mem')
    BY <2>1 DEF Block
  <2>3. Counted(items', mem')
    <3>1. Amount(items, {}) = 0
      BY AmountEmpty
    <3>2. DOMAIN items \ {Zero.tail} = {}
      BY <2>1
    <3> QED
      BY <2>1, <3>1, <3>2 DEF Counted, Zero
  <2> QED
    BY <1>a, <1>c, <2>1, <2>2, <2>3
<1>3. ASSUME NEW lo \in DOMAIN items, NEW hi \in DOMAIN items, Rebuild(lo, hi)
      PROVE LimitsInv'
  <2>1. /\ mem'.head = lo /\ mem'.tail = hi + 1 /\ meta' = mem' /\ items' = items /\ op' = "idle"
        /\ mem'.count = Cardinality(DOMAIN items) /\ mem'.bytes = SizeOf(DOMAIN items)
        /\ \A s \in DOMAIN items : lo <= s /\ s <= hi
    BY <1>3 DEF Rebuild, SaveMeta
  <2>2. DOMAIN items = lo .. hi
    <3>1. lo .. hi \subseteq DOMAIN items
      BY <1>a DEF NoGap
    <3>2. DOMAIN items \subseteq lo .. hi
      BY <1>a, <2>1
    <3> QED
      BY <3>1, <3>2
  <2>3. lo \in Int /\ hi \in Int /\ lo <= hi
    BY <1>a, <2>1
  <2>4. Block(DOMAIN items', mem')
    BY <2>1, <2>2, <2>3 DEF Block
  <2>5. Counted(items', mem')
    <3>1. Cardinality(lo .. hi) = IF lo > hi THEN 0 ELSE hi - lo + 1
      BY <2>3, FS_Interval
    <3>2. mem'.tail - mem'.head <= mem'.count
      BY <2>1, <2>2, <2>3, <3>1
    <3>3. DOMAIN items \ {hi + 1} = DOMAIN items
      BY <2>2, <2>3
    <3>4. Amount(items, DOMAIN items \ {hi + 1}) = SizeOf(DOMAIN items)
      BY <3>3, SizeOfIs
    <3>5. SizeOf(DOMAIN items) \in Nat
      BY <1>a, SizeOfNat
    <3> QED
      BY <2>1, <3>2, <3>4, <3>5 DEF Counted
  <2> QED
    BY <1>a, <1>c, <2>1, <2>4, <2>5
<1>4. ASSUME NEW p \in Payload, PutWrite(p) PROVE LimitsInv'
  <2>1. /\ op = "idle" /\ op' = "put" /\ UNCHANGED <<meta, mem>> /\ HasRoom(p)
        /\ items' = With(items, mem.tail, p) /\ mem.tail \in SeqNo
    BY <1>4, <1>a, QueueAssumption DEF PutWrite, SeqNo, QueueAssumption
  <2>2. NoGap(DOMAIN items') /\ Block(DOMAIN items', mem) /\ Counted(items', mem)
    BY <1>a, <1>b, <2>1, AddLast
  <2>3. Fits(items')
    <3>1. CASE MaxItems = NoLimit
      BY <3>1 DEF Fits
    <3>2. CASE MaxItems # NoLimit
      BY <1>a, <1>b, <2>1, <3>2, AddLast DEF HasRoom
    <3> QED
      BY <3>1, <3>2
  <2>4. ASSUME meta # NoMeta
        PROVE  Block(DOMAIN items', meta) /\ Counted(items', meta) /\ meta.tail = mem.tail
    <3>1. meta \in Counters /\ meta.head <= meta.tail /\ meta.tail = mem.tail
      BY <1>a, <1>b, <2>1, <2>4 DEF Ordered
    <3> QED
      BY <1>a, <1>b, <2>1, <2>4, <3>1, AddLast
  <2>5. MaxItems # NoLimit => mem'.count < MaxItems
    BY <2>1 DEF HasRoom
  <2> QED
    BY <1>c, <2>1, <2>2, <2>3, <2>4, <2>5
<1>5. CASE PutCommit
  <2>1. /\ op = "put" /\ op' = "idle" /\ UNCHANGED items /\ meta' = mem'
        /\ mem'.head = mem.head /\ mem'.tail = mem.tail + 1 /\ mem'.count = mem.count + 1
        /\ mem'.bytes = mem.bytes + Size[items[mem.tail]]
        /\ mem.tail \in DOMAIN items
    BY <1>5, <1>a DEF PutCommit, SaveMeta, Counters, TypeInv, PutWritten
  <2>2. Block(DOMAIN items, mem')
    BY <1>a, <1>b, <2>1 DEF Block
  <2> DEFINE S == DOMAIN items \ {mem.tail}
  <2>3. Amount(items, S \cup {mem.tail}) = Amount(items, S) + Size[items[mem.tail]]
    <3>1. S \subseteq DOMAIN items /\ S \subseteq SeqNo /\ mem.tail \in DOMAIN items \ S
      BY <1>a, <2>1
    <3> HIDE DEF S
    <3> QED
      BY <1>a, <3>1, AmountAdd
  <2>4. S \cup {mem.tail} = DOMAIN items \ {mem.tail + 1}
    BY <1>a, <1>b, <2>1 DEF Block
  <2>5. Amount(items, S) \in Nat /\ Size[items[mem.tail]] \in Nat
    BY <1>a, <2>1, AmountNat, OneSize
  <2>6. Counted(items, mem')
    <3>1. mem.tail - mem.head <= mem.count /\ Amount(items, S) <= mem.bytes
      BY <1>b, <2>1 DEF Counted
    <3>2. Amount(items, DOMAIN items \ {mem'.tail}) = Amount(items, S) + Size[items[mem.tail]]
      BY <2>1, <2>3, <2>4
    <3> HIDE DEF S
    <3>3. mem'.tail - mem'.head <= mem'.count
      BY <1>a, <2>1, <3>1
    <3>4. Amount(items, S) + Size[items[mem.tail]] <= mem'.bytes
      BY <1>a, <2>1, <2>5, <3>1
    <3> QED
      BY <3>2, <3>3, <3>4 DEF Counted
  <2> QED
    BY <1>a, <1>c, <2>1, <2>2, <2>6
<1>6. ASSUME NEW n \in SeqNo, AckBegin(n) PROVE LimitsInv'
  <2>1. op = "idle" /\ op' = "ack" /\ UNCHANGED <<items, meta, mem>>
    BY <1>6 DEF AckBegin
  <2> QED
    BY <1>c, <1>d, <2>1
<1>e. ASSUME NEW s \in Nat, items' = Without(items, {s}), meta' = meta, op # "down",
             op' \notin {"down", "put", "clear"}, mem' \in Counters,
             mem'.head = s + 1, mem'.tail = mem.tail, s < mem.tail,
             \A t \in DOMAIN items : s <= t, mem.head <= s,
             mem.tail - mem.head <= mem.count => mem.tail - (s + 1) <= mem'.count,
             mem'.bytes = IF s \in DOMAIN items THEN Minus(mem.bytes, Size[items[s]])
                          ELSE mem.bytes
      PROVE  LimitsInv'
  <2>1. Files
    BY <1>a, <1>e, DropFirst
  <2>2. OfMeta
    BY <1>a, <1>b, <1>e, DropFirst
  <2>3. Block(DOMAIN items', mem')
    <3>1. Block(DOMAIN items', mem)
      BY <1>a, <1>b, <1>e, DropFirst
    <3>2. DOMAIN items' = DOMAIN items \ {s}
      BY <1>e DEF Without
    <3>3. DOMAIN items' \subseteq s + 1 .. mem.tail
      <4> SUFFICES ASSUME NEW t \in DOMAIN items' PROVE t \in s + 1 .. mem.tail
        OBVIOUS
      <4>1. t \in Nat /\ s <= t /\ t # s
        BY <1>a, <1>e, <3>2
      <4>2. t \in mem.head .. mem.tail
        BY <3>1 DEF Block
      <4> QED
        BY <1>a, <4>1, <4>2
    <3> QED
      BY <1>e, <3>1, <3>3 DEF Block
  <2>4. Counted(items', mem')
    <3> DEFINE old == Amount(items, DOMAIN items \ {mem.tail})
               new == Amount(items', DOMAIN items' \ {mem.tail})
    <3>1. old \in Nat /\ old <= mem.bytes
      BY <1>a, <1>b, <1>e, AmountNat DEF Counted
    <3>2. s \notin DOMAIN items => new = old
      BY <1>a, <1>e, DropFirst
    <3>3. s \in DOMAIN items => new + Size[items[s]] = old /\ Size[items[s]] \in Nat
      <4>1. s \in DOMAIN items => Size[items[s]] \in Nat
        BY <1>a, OneSize
      <4>2. s # mem.tail
        BY <1>a, <1>e
      <4> QED
        BY <1>a, <1>e, <4>1, <4>2, DropFirst
    <3>4. new \in Nat
      <4>1. items' \in [DOMAIN items' -> Payload] /\ DOMAIN items' \subseteq SeqNo
        BY <1>0 DEF TypeInv, TypeOK
      <4> QED
        BY <4>1, AmountNat
    <3> HIDE DEF old, new
    <3>5. new <= mem'.bytes
      BY <1>a, <1>e, <3>1, <3>2, <3>3, <3>4 DEF Minus
    <3> QED
      BY <1>b, <1>e, <3>5 DEF Counted, new
  <2> QED
    BY <1>c, <1>e, <2>1, <2>2, <2>3, <2>4
<1>7. CASE AckItem
  <2>1. /\ op = "ack" /\ op' = "ack" /\ meta' = meta /\ items' = Without(items, {mem.head})
        /\ mem.head <= upTo /\ upTo < mem.tail /\ upTo \in Int
    BY <1>7, <1>a DEF AckItem, Unlink, Ordered, TypeOK
  <2>2. DOMAIN items \ DOMAIN items' = DOMAIN items \cap {mem.head}
    BY <2>1 DEF Without
  <2>3. /\ mem'.head = mem.head + 1 /\ mem'.tail = mem.tail /\ mem'.count = Minus(mem.count, 1)
        /\ mem'.bytes = IF mem.head \in DOMAIN items THEN Minus(mem.bytes, Size[items[mem.head]])
                        ELSE mem.bytes
    BY <1>7, <1>a, <2>2 DEF AckItem, Counters
  <2>4. \A t \in DOMAIN items : mem.head <= t
    BY <1>a, <1>b, <2>1 DEF Block
  <2>5. mem' \in Counters
    BY <1>0 DEF TypeInv, TypeOK
  <2>6. mem.tail - mem.head <= mem.count => mem.tail - (mem.head + 1) <= mem'.count
    BY <1>a, <2>3 DEF Minus
  <2>7. mem.head \in Nat /\ mem.head <= mem.head /\ mem.head < mem.tail
    BY <1>a, <2>1
  <2> QED
    BY <1>e, <2>1, <2>3, <2>4, <2>5, <2>6, <2>7
<1>8. ASSUME AckDone \/ FinishSave PROVE LimitsInv'
  <2>1. /\ op # "down" /\ op' \in {"idle", "saving"}
        /\ UNCHANGED <<items, mem>> /\ (meta' = meta \/ meta' = mem)
    BY <1>8 DEF AckDone, FinishSave, SaveMeta
  <2> QED
    BY <1>c, <1>d, <2>1
<1>9. CASE GetNothing
  <2>1. /\ op = "idle" /\ op' = "saving" /\ UNCHANGED <<items, meta>> /\ Held(mem) = {}
        /\ mem'.head = mem.tail /\ mem'.tail = mem.tail /\ mem'.count = 0 /\ mem'.bytes = 0
    BY <1>9, <1>a DEF GetNothing, Counters
  <2>2. DOMAIN items \subseteq {mem.tail}
    BY <1>a, <1>b, <2>1 DEF Block, Held
  <2>3. Block(DOMAIN items, mem')
    BY <1>a, <2>1, <2>2 DEF Block
  <2>4. Counted(items, mem')
    <3>1. DOMAIN items \ {mem.tail} = {}
      BY <2>2
    <3>2. Amount(items, DOMAIN items \ {mem'.tail}) = 0
      BY <2>1, <3>1, AmountEmpty
    <3> QED
      BY <1>a, <2>1, <3>2 DEF Counted
  <2> QED
    BY <1>a, <1>b, <1>c, <2>1, <2>3, <2>4
<1>10. CASE GetUnreadable
  <2>1. PICK s \in SeqNo : FirstHeld(s) /\ mem' = [mem EXCEPT !.head = s]
    BY <1>10 DEF GetUnreadable
  <2>2. /\ op = "idle" /\ op' = "idle" /\ UNCHANGED <<items, meta>>
        /\ mem'.head = s /\ mem'.tail = mem.tail /\ mem'.count = mem.count
        /\ mem'.bytes = mem.bytes
    BY <1>10, <1>a, <2>1 DEF GetUnreadable, Counters
  <2>3. /\ s \in Nat /\ mem.head <= s /\ s < mem.tail
        /\ \A t \in DOMAIN items : t < mem.tail => s <= t
    BY <1>a, <1>b, <2>1, <2>2 DEF FirstHeld, Held, Block
  <2>4. Block(DOMAIN items, mem')
    BY <1>a, <1>b, <2>2, <2>3 DEF Block
  <2>5. Counted(items, mem')
    BY <1>a, <1>b, <2>2, <2>3 DEF Counted
  <2> QED
    BY <1>a, <1>b, <1>c, <2>2, <2>4, <2>5
<1>11. ASSUME NEW s \in SeqNo, GetItem(s) PROVE LimitsInv'
  <2>1. /\ op = "idle" /\ op' = "saving" /\ meta' = meta /\ items' = Without(items, {s})
        /\ FirstHeld(s) /\ mem.count > 0
        /\ mem'.head = s + 1 /\ mem'.tail = mem.tail /\ mem'.count = mem.count - 1
        /\ mem'.bytes = Minus(mem.bytes, Size[items[s]])
    BY <1>11, <1>a DEF GetItem, Unlink, Counters
  <2>2. /\ s \in Nat /\ mem.head <= s /\ s < mem.tail /\ s \in DOMAIN items
        /\ \A t \in DOMAIN items : t < mem.tail => s <= t
    BY <1>a, <1>b, <2>1 DEF FirstHeld, Held, Block
  <2>3. \A t \in DOMAIN items : s <= t
    BY <1>a, <1>b, <2>1, <2>2 DEF Block
  <2>4. mem' \in Counters
    BY <1>0 DEF TypeInv, TypeOK
  <2>5. mem.tail - mem.head <= mem.count => mem.tail - (s + 1) <= mem'.count
    BY <1>a, <2>1, <2>2
  <2> QED
    BY <1>e, <2>1, <2>2, <2>3, <2>4, <2>5
<1>12. ASSUME Clear PROVE FALSE
  BY <1>12, <1>a DEF Clear, ClearBegin, ClearItem, ClearDone
<1>13. CASE Crash
  <2>1. op' = "down" /\ mem' = Zero /\ UNCHANGED items /\ (meta' = meta \/ meta' = NoMeta)
    BY <1>13 DEF Crash
  <2> QED
    BY <1>0, <1>a, <1>b, <2>1 DEF LimitsInv
<1>14. CASE UNCHANGED vars
  <2>1. UNCHANGED <<items, meta, mem, op>>
    BY <1>14 DEF vars
  <2> QED
    BY <1>0, <1>a, <1>b, <2>1 DEF LimitsInv
<1> QED
  BY <1>1, <1>2, <1>3, <1>4, <1>5, <1>6, <1>7, <1>8, <1>9, <1>10, <1>11, <1>12,
     <1>13, <1>14 DEF Next, Open, Put, Ack, Get

LEMMA LimitsImplied ==
  ASSUME MaxItems # NoLimit => MaxBytes # NoLimit, LimitsInv
  PROVE  LimitsHold
<1>a. /\ TypeOK /\ Ordered /\ Fits(items)
      /\ mem.head \in Nat /\ mem.tail \in Nat /\ mem.count \in Nat /\ mem.bytes \in Nat
      /\ mem.head <= mem.tail
      /\ DOMAIN items \subseteq SeqNo /\ DOMAIN items \subseteq Nat
      /\ items \in [DOMAIN items -> Payload]
  BY QueueAssumption
     DEF LimitsInv, TypeInv, TypeOK, Counters, Ordered, SeqNo, QueueAssumption
<1>1. Held(mem) \subseteq DOMAIN items \ {mem.tail}
  BY <1>a DEF Held
<1>2. Held(mem) \subseteq mem.head .. mem.tail - 1
  BY <1>a DEF Held
<1>3. Cardinality(Held(mem)) <= mem.tail - mem.head
  <2>1. /\ IsFiniteSet(mem.head .. mem.tail - 1)
        /\ Cardinality(mem.head .. mem.tail - 1) = IF mem.head > mem.tail - 1 THEN 0
                                                   ELSE (mem.tail - 1) - mem.head + 1
    BY <1>a, FS_Interval
  <2>2. Cardinality(Held(mem)) <= Cardinality(mem.head .. mem.tail - 1)
    BY <1>2, <2>1, FS_Subset
  <2>3. Held(mem) \subseteq SeqNo
    BY <1>a, <1>1
  <2>4. Cardinality(Held(mem)) \in Nat
    BY <2>3, SeqFinite
  <2> QED
    BY <1>a, <2>1, <2>2, <2>4
<1>4. Cardinality(Held(mem)) \in Nat
  <2>1. Held(mem) \subseteq SeqNo
    BY <1>a, <1>1
  <2> QED
    BY <2>1, SeqFinite
<1>5. SizeOf(Held(mem)) \in Nat
  BY <1>a, <1>1, SizeOfNat
<1>6. op # "down" => Cardinality(Held(mem)) <= mem.count
  BY <1>a, <1>3, <1>4 DEF LimitsInv, Counted
<1>7. op # "down" => SizeOf(Held(mem)) <= mem.bytes
  <2>1. Amount(items, Held(mem)) <= Amount(items, DOMAIN items \ {mem.tail})
    BY <1>a, <1>1, AmountMono
  <2>2. Amount(items, DOMAIN items \ {mem.tail}) \in Nat
    BY <1>a, AmountNat
  <2>3. SizeOf(Held(mem)) = Amount(items, Held(mem))
    BY SizeOfIs
  <2> QED
    BY <1>a, <1>5, <2>1, <2>2, <2>3 DEF LimitsInv, Counted
<1>8. ASSUME MaxItems # NoLimit
      PROVE  Cardinality(Held(mem)) <= MaxItems /\ SizeOf(Held(mem)) <= MaxBytes
  <2>1. MaxItems \in Nat /\ MaxBytes \in Nat /\ MaxBytes # NoLimit
    BY <1>8, QueueAssumption DEF QueueAssumption
  <2>2. IsFiniteSet(DOMAIN items) /\ Cardinality(DOMAIN items) \in Nat
    BY <1>a, SeqFinite
  <2>3. Cardinality(Held(mem)) <= Cardinality(DOMAIN items)
    BY <1>1, <2>2, FS_Subset
  <2>4. Amount(items, Held(mem)) <= Amount(items, DOMAIN items)
    BY <1>a, <1>1, AmountMono
  <2>5. Amount(items, DOMAIN items) \in Nat
    BY <1>a, AmountNat
  <2>6. SizeOf(Held(mem)) = Amount(items, Held(mem))
    BY SizeOfIs
  <2> QED
    BY <1>a, <1>4, <1>5, <1>8, <2>1, <2>2, <2>3, <2>4, <2>5, <2>6 DEF Fits
<1> QED
  BY <1>6, <1>7, <1>8 DEF LimitsHold

\* As long as item files can be deleted and meta.json written, and clear is not
\* called, the counters that put tests (queue.py:59-65) never fall below what
\* the queue holds, and it never holds more than its limits allow, wherever an
\* ack, a get or a put was cut short and whether meta.json survived or not.
THEOREM LimitsAreKept ==
  ASSUME "save_meta" \notin Faults, "unlink" \notin Faults, "clear" \notin Ops,
         MaxItems # NoLimit => MaxBytes # NoLimit
  PROVE  Spec => []LimitsHold
<1>1. LimitsInv /\ [Next]_vars => LimitsInv'
  BY LimitsNext
<1>2. LimitsInv => LimitsHold
  BY LimitsImplied
<1> QED
  BY <1>1, <1>2, LimitsInit, PTL DEF Spec

-----------------------------------------------------------------------------
(* Refinement *)

\* The abstract queue.
Table == [s \in Visible |-> items[s]]

LEMMA SameTable ==
  ASSUME Visible' = Visible, \A s \in Visible : items'[s] = items[s]
  PROVE  Table' = Table
  BY DEF Table

\* While the process runs, all the files but the one that a put cut short has
\* left are the queue's.
LEMMA VisibleIsBlock ==
  ASSUME LimitsInv, NEW c \in Counters, Block(DOMAIN items, c)
  PROVE  Held(c) = DOMAIN items \ {c.tail}
<1>1. DOMAIN items \subseteq Nat
  BY QueueAssumption DEF LimitsInv, TypeInv, TypeOK, SeqNo, QueueAssumption
<1> QED
  BY <1>1 DEF Block, Held, Counters

LEMMA RefineInit == Init => Abstract!Init
<1> SUFFICES ASSUME Init PROVE Abstract!Init
  OBVIOUS
<1>1. Visible = {}
  BY EmptyType DEF Init, Visible
<1>2. [s \in Visible |-> items[s]] = << >>
  BY <1>1
<1> QED
  BY <1>2 DEF Init, Abstract!Init

\* A step that changes neither what is visible nor what is owed.
LEMMA RefineStutter ==
  ASSUME Visible' = Visible, \A s \in Visible : items'[s] = items[s], UNCHANGED owed
  PROVE  UNCHANGED Abstract!vars
  BY DEF Abstract!vars

\* The first item leaves the table.
LEMMA RefineFirst ==
  ASSUME NEW s \in Visible, \A t \in Visible : s <= t, Visible' = Visible \ {s},
         \A t \in Visible \ {s} : items'[t] = items[t]
  PROVE  Abstract!IsOldest(s) /\ Table' = Abstract!Without(Table, {s})
<1>1. Abstract!IsOldest(s)
  BY DEF Abstract!IsOldest
<1>2. Table' = Abstract!Without(Table, {s})
  BY DEF Table, Abstract!Without
<1> QED
  BY <1>1, <1>2

\* The abstract queue counts as this module does.
LEMMA SameCardinality == \A S : Abstract!Cardinality(S) = Cardinality(S)
  BY DEF Abstract!Cardinality, Cardinality

\* An item joins the table, behind all others.
LEMMA RefineLast ==
  ASSUME NEW s, NEW p, p = items[s],
         \A t \in Visible : t < s, Visible' = Visible \cup {s}, s \notin Visible,
         \A t \in Visible \cup {s} : items'[t] = items[t], Cardinality(Visible) < MaxItems
  PROVE  Abstract!Append(s, p)
<1> DEFINE q == [t \in Visible |-> items[t]]
<1>1. DOMAIN q = Visible
  OBVIOUS
<1>2. q' = Abstract!With(q, s, p)
  BY DEF Abstract!With
<1>3. \A t \in DOMAIN q : t < s
  BY <1>1
<1>4. Cardinality(DOMAIN q) < MaxItems
  BY <1>1
<1> HIDE DEF q
<1> QED
  BY <1>2, <1>3, <1>4, SameCardinality DEF Abstract!Append, q

LEMMA RefineNext ==
  ASSUME "save_meta" \notin Faults, "unlink" \notin Faults, "clear" \notin Ops,
         MaxItems # NoLimit, LimitsInv, QueueInv, [Next]_vars
  PROVE  [Abstract!Next]_(Abstract!vars)
<1>0. LimitsInv'
  BY LimitsNext
<1>a. /\ TypeInv /\ TypeOK /\ Ordered /\ Fits(items) /\ op # "clear"
      /\ mem \in Counters /\ mem.head \in Nat /\ mem.tail \in Nat /\ mem.count \in Nat
      /\ mem.head <= mem.tail /\ MaxItems \in Nat
      /\ DOMAIN items \subseteq SeqNo /\ DOMAIN items \subseteq Nat
      /\ items \in [DOMAIN items -> Payload]
  BY QueueAssumption
     DEF LimitsInv, TypeInv, TypeOK, Counters, Ordered, SeqNo, QueueAssumption
<1>b. /\ op # "down" => Block(DOMAIN items, mem) /\ Counted(items, mem)
      /\ meta # NoMeta => meta \in Counters /\ Block(DOMAIN items, meta)
      /\ op # "down" /\ meta # NoMeta => meta.tail = mem.tail
      /\ op = "put" => mem.count < MaxItems
  BY <1>a DEF LimitsInv, TypeOK
<1>c. /\ op # "down" => Visible = Held(mem)
      /\ op' # "down" => Visible' = Held(mem)'
      /\ Held(mem) \subseteq DOMAIN items
  BY DEF Visible, Held
<1>1. CASE OpenFromMeta
  <2>1. UNCHANGED <<items, meta, owed>> /\ mem' = meta /\ op' = "idle" /\ meta # NoMeta
        /\ op = "down"
    BY <1>1 DEF OpenFromMeta
  <2>2. Visible' = Visible
    BY <2>1 DEF Visible, Held
  <2> QED
    BY <2>1, <2>2, RefineStutter
<1>2. CASE OpenEmpty
  <2>1. /\ UNCHANGED <<items, meta, owed>> /\ op = "down" /\ op' = "idle" /\ meta = NoMeta
        /\ DOMAIN items = {}
    BY <1>2 DEF OpenEmpty
  <2>2. Visible' = Visible
    BY <2>1 DEF Visible, Held
  <2> QED
    BY <2>1, <2>2, RefineStutter
<1>3. ASSUME NEW lo \in DOMAIN items, NEW hi \in DOMAIN items, Rebuild(lo, hi)
      PROVE  UNCHANGED Abstract!vars
  <2>1. /\ UNCHANGED <<items, owed>> /\ op = "down" /\ op' = "idle" /\ meta = NoMeta
        /\ mem'.head = lo /\ mem'.tail = hi + 1
        /\ \A s \in DOMAIN items : lo <= s /\ s <= hi
    BY <1>3 DEF Rebuild
  <2>2. \A s \in DOMAIN items : s < hi + 1
    BY <1>a, <2>1
  <2>3. Visible' = Visible
    BY <2>1, <2>2 DEF Visible, Held
  <2> QED
    BY <2>1, <2>3, RefineStutter
<1>4. ASSUME NEW p \in Payload, PutWrite(p) PROVE UNCHANGED Abstract!vars
  <2>1. /\ op = "idle" /\ op' = "put" /\ UNCHANGED <<mem, owed>>
        /\ items' = With(items, mem.tail, p)
    BY <1>4 DEF PutWrite
  <2>2. /\ DOMAIN items' = DOMAIN items \cup {mem.tail}
        /\ \A s \in DOMAIN items \ {mem.tail} : items'[s] = items[s]
    BY <2>1 DEF With
  <2>3. Visible' = Visible /\ mem.tail \notin Visible
    BY <1>a, <1>c, <2>1, <2>2 DEF Held
  <2> QED
    BY <1>c, <2>1, <2>2, <2>3, RefineStutter
<1>5. CASE PutCommit
  <2>1. /\ op = "put" /\ op' = "idle" /\ UNCHANGED items
        /\ mem'.head = mem.head /\ mem'.tail = mem.tail + 1
        /\ owed' = With(owed, mem.tail, items[mem.tail]) /\ mem.tail \in DOMAIN items
    BY <1>5, <1>a DEF PutCommit, Counters, TypeInv, PutWritten
  <2>2. Visible' = Visible \cup {mem.tail}
    BY <1>a, <1>c, <2>1 DEF Held
  <2>3. \A t \in Visible : t < mem.tail
    BY <1>c, <2>1 DEF Held
  <2>4. mem.tail \notin Visible
    BY <1>a, <2>3
  <2>5. Cardinality(Visible) < MaxItems
    <3>1. Visible \subseteq mem.head .. mem.tail - 1 /\ Visible \subseteq SeqNo
      BY <1>a, <1>c, <2>1 DEF Held
    <3>2. /\ IsFiniteSet(mem.head .. mem.tail - 1)
          /\ Cardinality(mem.head .. mem.tail - 1)
               = IF mem.head > mem.tail - 1 THEN 0 ELSE (mem.tail - 1) - mem.head + 1
      BY <1>a, FS_Interval
    <3>3. Cardinality(Visible) <= Cardinality(mem.head .. mem.tail - 1)
      BY <3>1, <3>2, FS_Subset
    <3>4. Cardinality(Visible) \in Nat
      BY <3>1, SeqFinite
    <3>5. mem.tail - mem.head <= mem.count /\ mem.count < MaxItems
      BY <1>b, <2>1 DEF Counted
    <3> QED
      BY <1>a, <3>2, <3>3, <3>4, <3>5
  <2>6. PICK n \in SeqNo, p \in Payload : n = mem.tail /\ p = items[mem.tail]
    BY <1>a, <2>1
  <2>7. Abstract!Append(n, p)
    BY <2>1, <2>2, <2>3, <2>4, <2>5, <2>6, RefineLast
  <2>8. Abstract!Put(n, p)
    BY <2>1, <2>6, <2>7 DEF Abstract!Put, Abstract!With, With
  <2> QED
    BY <2>8 DEF Abstract!Next, Abstract!SeqNo, SeqNo
<1>6. ASSUME NEW n \in SeqNo, AckBegin(n) PROVE Abstract!Next
  <2>1. /\ op = "idle" /\ op' = "ack" /\ UNCHANGED <<items, mem>>
        /\ owed' = Without(owed, 0 .. n)
    BY <1>6 DEF AckBegin
  <2>2. Visible' = Visible
    BY <1>c, <2>1 DEF Held
  <2>3. Abstract!Release(n)
    BY <2>1, <2>2 DEF Abstract!Release, Abstract!Without, Without
  <2> QED
    BY <2>3 DEF Abstract!Next, Abstract!SeqNo, SeqNo
<1>7. CASE AckItem
  <2>1. /\ op = "ack" /\ op' = "ack" /\ UNCHANGED owed
        /\ items' = Without(items, {mem.head})
        /\ mem.head <= upTo /\ upTo < mem.tail /\ upTo \in Int
        /\ mem'.head = mem.head + 1 /\ mem'.tail = mem.tail
    BY <1>7, <1>a DEF AckItem, Unlink, Ordered, TypeOK, Counters
  <2>2. /\ DOMAIN items' = DOMAIN items \ {mem.head}
        /\ \A t \in DOMAIN items \ {mem.head} : items'[t] = items[t]
    BY <2>1 DEF Without
  <2>3. Visible' = Visible \ {mem.head}
    BY <1>a, <1>c, <2>1, <2>2 DEF Held
  <2>4. CASE mem.head \in DOMAIN items
    <3>1. mem.head \in Visible /\ \A t \in Visible : mem.head <= t
      BY <1>a, <1>c, <2>1, <2>4 DEF Held
    <3>2. \A t \in Visible \ {mem.head} : items'[t] = items[t]
      BY <1>c, <2>1, <2>2
    <3>3. mem.head \notin DOMAIN owed
      BY <1>a, <2>1 DEF QueueInv, AckSparesOwed
    <3>4. PICK n \in SeqNo : n = mem.head
      BY <1>a, <2>4
    <3>5. Abstract!Drop(n)
      BY <2>1, <2>3, <3>1, <3>2, <3>3, <3>4, RefineFirst DEF Abstract!Drop, Table
    <3> QED
      BY <3>5 DEF Abstract!Next, Abstract!SeqNo, SeqNo
  <2>5. CASE mem.head \notin DOMAIN items
    <3>1. Visible' = Visible /\ \A s \in Visible : items'[s] = items[s]
      BY <1>c, <2>1, <2>2, <2>3, <2>5
    <3> QED
      BY <2>1, <3>1, RefineStutter
  <2> QED
    BY <2>4, <2>5
<1>8. CASE AckDone \/ FinishSave
  <2>1. op # "down" /\ op' # "down" /\ UNCHANGED <<items, mem, owed>>
    BY <1>8 DEF AckDone, FinishSave
  <2>2. Visible' = Visible
    BY <1>c, <2>1 DEF Held
  <2> QED
    BY <2>1, <2>2, RefineStutter
<1>9. CASE GetNothing
  <2>1. /\ op = "idle" /\ op' = "saving" /\ UNCHANGED <<items, owed>> /\ Held(mem) = {}
        /\ mem'.head = mem.tail /\ mem'.tail = mem.tail
    BY <1>9, <1>a DEF GetNothing, Counters
  <2>2. Held(mem)' = {}
    BY <1>a, <2>1 DEF Held
  <2>3. Visible' = Visible
    BY <1>c, <2>1, <2>2
  <2> QED
    BY <2>1, <2>3, RefineStutter
<1>10. CASE GetUnreadable
  <2>1. PICK s \in SeqNo : FirstHeld(s) /\ mem' = [mem EXCEPT !.head = s]
    BY <1>10 DEF GetUnreadable
  <2>2. /\ op = "idle" /\ op' = "idle" /\ UNCHANGED <<items, owed>>
        /\ mem'.head = s /\ mem'.tail = mem.tail
    BY <1>10, <1>a, <2>1 DEF GetUnreadable, Counters
  <2>3. s \in Nat /\ mem.head <= s /\ \A t \in Held(mem) : s <= t
    BY <1>a, <2>1 DEF FirstHeld, Held
  <2>4. Held(mem)' = Held(mem)
    BY <1>a, <2>2, <2>3 DEF Held
  <2>5. Visible' = Visible
    BY <1>c, <2>2, <2>4
  <2> QED
    BY <2>2, <2>5, RefineStutter
<1>11. ASSUME NEW s \in SeqNo, GetItem(s) PROVE Abstract!Next
  <2>1. /\ op = "idle" /\ op' = "saving" /\ items' = Without(items, {s}) /\ FirstHeld(s)
        /\ owed' = Without(owed, {s}) /\ mem'.head = s + 1 /\ mem'.tail = mem.tail
    BY <1>11, <1>a DEF GetItem, Unlink, Counters
  <2>2. /\ DOMAIN items' = DOMAIN items \ {s}
        /\ \A t \in DOMAIN items \ {s} : items'[t] = items[t]
    BY <2>1 DEF Without
  <2>3. s \in Visible /\ \A t \in Visible : s <= t
    BY <1>c, <2>1 DEF FirstHeld
  <2>4. Visible' = Visible \ {s}
    BY <1>a, <1>c, <2>1, <2>2, <2>3 DEF Held
  <2>5. \A t \in Visible \ {s} : items'[t] = items[t]
    BY <1>c, <2>1, <2>2
  <2>6. Abstract!Take(s)
    BY <2>1, <2>3, <2>4, <2>5, RefineFirst
       DEF Abstract!Take, Table, Abstract!Without, Without
  <2> QED
    BY <2>6 DEF Abstract!Next, Abstract!SeqNo, SeqNo
<1>12. ASSUME Clear PROVE FALSE
  BY <1>12, <1>a DEF Clear, ClearBegin, ClearItem, ClearDone
<1>13. CASE Crash
  <2>1. /\ op # "down" /\ op' = "down" /\ UNCHANGED <<items, owed>>
        /\ (meta' = meta \/ meta' = NoMeta)
    BY <1>13 DEF Crash
  <2>2. Visible = DOMAIN items \ {mem.tail}
    BY <1>a, <1>b, <1>c, <2>1, VisibleIsBlock
  <2>3. CASE meta' # NoMeta
    <3>1. meta' = meta /\ meta # NoMeta
      BY <2>1, <2>3
    <3>2. Held(meta) = DOMAIN items \ {mem.tail}
      BY <1>b, <2>1, <3>1, VisibleIsBlock
    <3>3. Visible' = Visible
      BY <2>1, <2>2, <3>1, <3>2 DEF Visible, Held
    <3> QED
      BY <2>1, <3>3, RefineStutter
  <2>4. CASE meta' = NoMeta /\ mem.tail \notin DOMAIN items
    <3>1. Visible' = Visible
      BY <2>1, <2>2, <2>4 DEF Visible
    <3> QED
      BY <2>1, <3>1, RefineStutter
  <2>5. CASE meta' = NoMeta /\ mem.tail \in DOMAIN items
    <3>1. Visible' = Visible \cup {mem.tail} /\ mem.tail \notin Visible
      BY <2>1, <2>2, <2>5 DEF Visible
    <3>2. \A t \in Visible : t < mem.tail
      BY <1>a, <1>b, <2>1, <2>2 DEF Block
    <3>3. Cardinality(Visible) < MaxItems
      <4>1. IsFiniteSet(DOMAIN items) /\ Cardinality(DOMAIN items) \in Nat
        BY <1>a, SeqFinite
      <4>2. Cardinality(Visible) = Cardinality(DOMAIN items) - 1
        BY <2>2, <2>5, <4>1, FS_RemoveElement
      <4>3. Cardinality(DOMAIN items) <= MaxItems
        BY <1>a DEF Fits
      <4> QED
        BY <1>a, <4>1, <4>2, <4>3
    <3>4. PICK n \in SeqNo, p \in Payload : n = mem.tail /\ p = items[mem.tail]
      BY <1>a, <2>5
    <3>5. Abstract!Append(n, p)
      BY <2>1, <3>1, <3>2, <3>3, <3>4, RefineLast
    <3>6. Abstract!PutUnacknowledged(n, p)
      BY <2>1, <3>5 DEF Abstract!PutUnacknowledged
    <3> QED
      BY <3>6 DEF Abstract!Next, Abstract!SeqNo, SeqNo
  <2> QED
    BY <2>3, <2>4, <2>5
<1>14. CASE UNCHANGED vars
  <2>1. UNCHANGED <<items, meta, mem, op, owed>>
    BY <1>14 DEF vars
  <2>2. Visible' = Visible
    BY <2>1 DEF Visible, Held
  <2> QED
    BY <2>1, <2>2, RefineStutter
<1> QED
  BY <1>1, <1>2, <1>3, <1>4, <1>5, <1>6, <1>7, <1>8, <1>9, <1>10, <1>11, <1>12,
     <1>13, <1>14 DEF Next, Open, Put, Ack, Get

\* The disk queue implements the durable FIFO, for every size of the limits: a
\* put takes effect when meta.json is written, or when the process dies before
\* that and meta.json is lost with it; an ack when it starts, after which the
\* items it covers leave one by one, the oldest first; a restart changes nothing.
THEOREM ImplementsDurableQueue ==
  ASSUME "save_meta" \notin Faults, "unlink" \notin Faults, "clear" \notin Ops,
         MaxItems # NoLimit
  PROVE  Spec => IsDurableQueue
<1>1. LimitsInv /\ [Next]_vars => LimitsInv'
  BY LimitsNext
<1>2. QueueInv /\ [Next]_vars => QueueInv'
  BY QueueNext
<1>3. LimitsInv /\ QueueInv /\ [Next]_vars => [Abstract!Next]_(Abstract!vars)
  BY RefineNext
<1> QED
  BY <1>1, <1>2, <1>3, LimitsInit, QueueInit, RefineInit, PTL
     DEF Spec, IsDurableQueue, Abstract!Spec

=============================================================================
