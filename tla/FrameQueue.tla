----------------------------- MODULE FrameQueue -----------------------------
(***************************************************************************)
(* What a ring of Ethernet descriptors promises to the two sides that use  *)
(* it, without the ring: frames are numbered as they are offered, and are  *)
(* taken in that order, none of them twice and none before it was offered. *)
(* A lossy queue may skip frames.  A queue that is not lossy skips none    *)
(* and holds at most Capacity of them.  If it is direct, a frame may be    *)
(* taken in the moment in which it is offered.                             *)
(***************************************************************************)
EXTENDS Integers

CONSTANTS Lossy, Direct, Capacity

VARIABLES offered, taken   \* numbers of the last frame offered and taken

queueVars == <<offered, taken>>

QueueInit == offered = 0 /\ taken = 0

Offer ==
    /\ Lossy \/ offered - taken < Capacity
    /\ offered' = offered + 1
    /\ UNCHANGED taken

Take ==
    /\ taken' \in IF Lossy THEN taken + 1 .. offered ELSE {taken + 1}
    /\ taken' <= offered
    /\ UNCHANGED offered

Pass ==
    /\ Direct
    /\ Lossy \/ taken = offered
    /\ offered' = offered + 1
    /\ taken' = offered'

QueueNext == Offer \/ Take \/ Pass

QueueSpec == QueueInit /\ [][QueueNext]_queueVars
=============================================================================
