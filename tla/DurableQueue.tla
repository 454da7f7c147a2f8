---------------------------- MODULE DurableQueue ----------------------------
(***************************************************************************)
(* What a user of the agent's disk queue may rely on: a bounded FIFO of    *)
(* numbered items that keeps every item it has accepted until the          *)
(* consumer releases it, whatever crashes in between.                      *)
(*                                                                         *)
(* The specification has no files, no index and no memory: DiskQueue is    *)
(* shown to implement it.                                                  *)
(***************************************************************************)
EXTENDS Integers, FiniteSets

CONSTANTS Payload,      \* what an item may hold
          MaxItems,     \* most items that may be in the queue
          SeqBound      \* bound of the model: sequence numbers are below it

VARIABLES q,            \* item number -> payload, the items of the queue
          owed          \* item number -> payload, accepted and not released

vars == <<q, owed>>

SeqNo == 0 .. SeqBound - 1

Init == q = << >> /\ owed = << >>

\* The items of f without those numbered in S.
Without(f, S) == [s \in DOMAIN f \ S |-> f[s]]

\* f with the item s added.
With(f, s, p) == [t \in DOMAIN f \cup {s} |-> IF t = s THEN p ELSE f[t]]

IsOldest(s) == s \in DOMAIN q /\ \A t \in DOMAIN q : s <= t

\* A new item goes behind all others, and only while there is room.
Append(s, p) ==
  /\ \A t \in DOMAIN q : t < s
  /\ Cardinality(DOMAIN q) < MaxItems
  /\ q' = With(q, s, p)

\* The producer is told that item s was accepted.
Put(s, p) == Append(s, p) /\ owed' = With(owed, s, p)

\* A crash cut the call short, and the item is in the queue all the same.
PutUnacknowledged(s, p) == Append(s, p) /\ UNCHANGED owed

\* The consumer is done with every item up to s.
Release(s) == owed' = Without(owed, 0 .. s) /\ UNCHANGED q

\* Released items leave, the oldest first.
Drop(s) == IsOldest(s) /\ s \notin DOMAIN owed /\ q' = Without(q, {s}) /\ UNCHANGED owed

\* The oldest item is handed out and removed in one call.
Take(s) == IsOldest(s) /\ q' = Without(q, {s}) /\ owed' = Without(owed, {s})

Next ==
  \/ \E s \in SeqNo, p \in Payload : Put(s, p) \/ PutUnacknowledged(s, p)
  \/ \E s \in SeqNo : Release(s) \/ Drop(s) \/ Take(s)

Spec == Init /\ [][Next]_vars

=============================================================================
