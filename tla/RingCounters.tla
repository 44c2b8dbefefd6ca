---------------------------- MODULE RingCounters ----------------------------
(***************************************************************************)
(* The counters of a shared_queue_t (uhyve-net.h), the ring that uhyve and *)
(* its guest share: "written" and "read" are free-running unsigned 64-bit  *)
(* integers, their difference is the number of frames in the ring and the  *)
(* slot of a frame is the counter modulo the ring's size.                  *)
(***************************************************************************)
EXTENDS Naturals

CONSTANTS
    QueueSize,     \* UHYVE_QUEUE_SIZE: slots in the ring
    CounterMod,    \* the counters wrap at this value (2^64 in the code)
    MaxFrames      \* bound: frames that pass a ring

\* 8 divides 2^64 and is smaller.
ASSUME RingAssumption ==
    /\ QueueSize \in Nat \ {0}
    /\ CounterMod \in Nat \ {0}
    /\ CounterMod % QueueSize = 0
    /\ CounterMod > QueueSize
    /\ MaxFrames \in Nat

Counters == 0 .. CounterMod - 1
Slots    == 0 .. QueueSize - 1

\* Subtraction of two uint64_t counters.
Distance(w, r) == (w + CounterMod - r) % CounterMod

\* atomic_uint64_inc.
Inc(counter) == (counter + 1) % CounterMod

\* The slot of the frame a counter stands for.
Idx(counter) == counter % QueueSize
=============================================================================
