------------------------------ MODULE FrameFifo ------------------------------
(***************************************************************************)
(* What each of uhyve's two network rings promises to its two sides: a     *)
(* bounded first-in first-out channel.  Frames are numbered in the order   *)
(* in which they are put, so the channel's content is the interval         *)
(* taken+1 .. put and taking anything but frame taken+1 is not a step of   *)
(* this specification: no frame is lost, repeated or overtaken.            *)
(***************************************************************************)
EXTENDS Naturals

CONSTANT Capacity

VARIABLES put, taken

Init == put = 0 /\ taken = 0

Put ==
    /\ put - taken < Capacity
    /\ put' = put + 1
    /\ UNCHANGED taken

Take ==
    /\ taken < put
    /\ taken' = taken + 1
    /\ UNCHANGED put

Next == Put \/ Take

Spec == Init /\ [][Next]_<<put, taken>>
=============================================================================
