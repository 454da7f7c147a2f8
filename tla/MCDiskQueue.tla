---------------------------- MODULE MCDiskQueue ----------------------------
(* DiskQueue with the constants of the TLC runs: a payload of one byte and   *)
(* one of two, so that the byte limit and the item limit both matter.        *)
EXTENDS DiskQueue

CONSTANTS short, long

MCPayload == {short, long}
MCSize == [p \in MCPayload |-> IF p = short THEN 1 ELSE 2]
=============================================================================
