-------------------------------- MODULE Relay --------------------------------
(***************************************************************************)
(* What the agent promises as a whole: a relay of the lines of a log.      *)
(*                                                                         *)
(* Lines are taken in their order and held until they have been delivered. *)
(* The agent may go back and take lines again, and deliver a line again;   *)
(* it never passes a line on to nobody, unless the line is excused.        *)
(***************************************************************************)
EXTENDS Naturals

VARIABLES
  taken,      \* the lines 1 .. taken will not be read again
  held,       \* the lines of which the agent has a copy on disk
  delivered,  \* those that have arrived
  excused     \* those that it may lose

relay == <<taken, held, delivered, excused>>

Init == taken = 0 /\ held = {} /\ delivered = {} /\ excused = {}

Take ==
  /\ taken' = taken + 1 /\ held' = held \cup {taken + 1}
  /\ excused' \in {excused, excused \cup {taken + 1}}
  /\ UNCHANGED delivered

\* What is held can be delivered, and stays held until it is released; a line that
\* is excused can arrive all the same.
Deliver ==
  /\ delivered \subseteq delivered' /\ delivered' \subseteq delivered \cup held \cup excused
  /\ UNCHANGED <<taken, held, excused>>

\* Copies go, or come again, only of lines that have arrived or are excused.  It may
\* be the last thing a process does, and the next one goes back.
Release ==
  /\ held \subseteq held' \cup delivered \cup excused
  /\ held' \subseteq held \cup delivered \cup excused
  /\ taken' \in 0 .. taken
  /\ UNCHANGED <<delivered, excused>>

\* Lines that it holds, or has delivered, are excused from now on.
GiveUp ==
  /\ excused \subseteq excused' /\ excused' \subseteq excused \cup held \cup delivered
  /\ UNCHANGED <<taken, held, delivered>>

Next == Take \/ Deliver \/ Release \/ GiveUp

Spec == Init /\ [][Next]_relay
=============================================================================
