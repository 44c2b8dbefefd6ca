-------------------------------- MODULE NetRx --------------------------------
(***************************************************************************)
(* The receive ring of uhyve's network device: the host thread             *)
(* recieve_packets (uhyve.c) copies frames from the TAP device into a ring *)
(* of UHYVE_QUEUE_SIZE slots in guest memory and raises an interrupt; the  *)
(* guest's driver takes them out.  The two share the ring without a lock:  *)
(* only the host increments "written", only the guest increments "read",   *)
(* and both counters are free-running 64-bit integers that wrap.           *)
(*                                                                         *)
(* Frames are numbered 1, 2, 3 ... in the order in which the TAP device    *)
(* hands them out, so a slot's content says which frame it holds.          *)
(*                                                                         *)
(* The guest's driver is not part of the repository: its actions (Guest..) *)
(* are what the layout of shared_queue_t obliges it to do.                 *)
(***************************************************************************)
EXTENDS RingCounters

VARIABLES
    rx_written,    \* rx_queue->written, modulo CounterMod
    rx_read,       \* rx_queue->read, modulo CounterMod
    rx_inner,      \* rx_queue->inner: the frame each slot holds, 0 = none yet
    rxPc,          \* where the host thread is
    rxSeen,        \* read_counter, the thread's snapshot of rx_queue->read
    arrived,       \* frames taken from the TAP device so far
    irq,           \* the eventfd has fired and the guest has not yet looked
    guestPc,       \* where the guest's driver is
    consumed       \* frames the guest has taken out of the ring

rxHostVars  == <<rx_written, rxPc, rxSeen, arrived>>
rxGuestVars == <<rx_read, guestPc, consumed>>
rxVars == <<rx_written, rx_read, rx_inner, rxPc, rxSeen, arrived, irq, guestPc, consumed>>

RxInit ==
    /\ rx_written = 0
    /\ rx_read = 0
    /\ rx_inner = [s \in Slots |-> 0]
    /\ rxPc = "snapshot"
    /\ rxSeen = 0
    /\ arrived = 0
    /\ irq = FALSE
    /\ guestPc = "idle"
    /\ consumed = 0

-----------------------------------------------------------------------------
(* The host thread recieve_packets. *)

\* read_counter = atomic_uint64_read(&rx_queue->read).
RxSnapshot ==
    /\ rxPc = "snapshot"
    /\ rxSeen' = rx_read
    /\ rxPc' = "distance"
    /\ UNCHANGED <<rx_written, arrived, rx_inner, irq, rxGuestVars>>

\* Mutant of HasRoom: one slot too many.
HasRoomOffByOne == Distance(rx_written, rxSeen) <= QueueSize

\* The ring had room when the snapshot was taken.
HasRoom == Distance(rx_written, rxSeen) < QueueSize

\* written_counter is read and the distance computed: with room the thread
\* goes on to the TAP device, without it yields and takes a new snapshot.
RxDistance ==
    /\ rxPc = "distance"
    /\ rxPc' = IF HasRoom THEN "recv" ELSE "snapshot"
    /\ UNCHANGED <<rx_written, rxSeen, arrived, rx_inner, irq, rxGuestVars>>

\* Mutant of RxReceive: the slot is chosen by the reader's counter.
RxReceiveWrongSlot ==
    /\ rxPc = "recv"
    /\ arrived < MaxFrames
    /\ arrived' = arrived + 1
    /\ rx_inner' = [rx_inner EXCEPT ![Idx(rxSeen)] = arrived + 1]
    /\ rxPc' = "publish"
    /\ UNCHANGED <<rx_written, rxSeen, irq, rxGuestVars>>

\* read(netfd, inner[idx].data) delivers the next frame into the slot.
RxReceive ==
    /\ rxPc = "recv"
    /\ arrived < MaxFrames
    /\ arrived' = arrived + 1
    /\ rx_inner' = [rx_inner EXCEPT ![Idx(rx_written)] = arrived + 1]
    /\ rxPc' = "publish"
    /\ UNCHANGED <<rx_written, rxSeen, irq, rxGuestVars>>

\* read(netfd, ..) returns 0 or an error: nothing is published.
RxReceiveFails ==
    /\ rxPc = "recv"
    /\ rxPc' = "snapshot"
    /\ UNCHANGED <<rx_written, rxSeen, arrived, rx_inner, irq, rxGuestVars>>

\* Mutant of RxPublish: the interrupt is raised before the counter moves.
RxPublishAfterIrq ==
    /\ rxPc \in {"publish", "notify"}
    /\ IF rxPc = "publish"
       THEN irq' = TRUE /\ rxPc' = "notify" /\ UNCHANGED rx_written
       ELSE rx_written' = Inc(rx_written) /\ rxPc' = "snapshot" /\ UNCHANGED irq
    /\ UNCHANGED <<rxSeen, arrived, rx_inner, rxGuestVars>>

\* Mutant of RxPublish: the write to efd is forgotten.
RxPublishSilently ==
    /\ rxPc = "publish"
    /\ rx_written' = Inc(rx_written)
    /\ rxPc' = "snapshot"
    /\ UNCHANGED <<rxSeen, arrived, rx_inner, irq, rxGuestVars>>

\* len is set and the written counter incremented.
RxPublish ==
    /\ rxPc = "publish"
    /\ rx_written' = Inc(rx_written)
    /\ rxPc' = "notify"
    /\ UNCHANGED <<rxSeen, arrived, rx_inner, irq, rxGuestVars>>

\* write(efd, ..): KVM injects UHYVE_IRQ_NET.
RxNotify ==
    /\ rxPc = "notify"
    /\ irq' = TRUE
    /\ rxPc' = "snapshot"
    /\ UNCHANGED <<rx_written, rxSeen, arrived, rx_inner, rxGuestVars>>

-----------------------------------------------------------------------------
(* The guest's driver (external). *)

\* The interrupt is taken: the driver starts to drain the ring.
GuestInterrupt ==
    /\ guestPc = "idle"
    /\ irq
    /\ irq' = FALSE
    /\ guestPc' = "drain"
    /\ UNCHANGED <<rx_read, consumed, rx_inner, rxHostVars>>

\* The driver takes the frame out of the slot that "read" points to: the
\* copy happens here, the slot is given back by GuestRelease.
GuestTake ==
    /\ guestPc = "drain"
    /\ rx_read # rx_written
    /\ consumed' = rx_inner[Idx(rx_read)]
    /\ guestPc' = "release"
    /\ UNCHANGED <<rx_read, rx_inner, irq, rxHostVars>>

GuestRelease ==
    /\ guestPc = "release"
    /\ rx_read' = Inc(rx_read)
    /\ guestPc' = "drain"
    /\ UNCHANGED <<consumed, rx_inner, irq, rxHostVars>>

\* The ring is empty: the driver waits for the next interrupt.
GuestSleep ==
    /\ guestPc = "drain"
    /\ rx_read = rx_written
    /\ guestPc' = "idle"
    /\ UNCHANGED <<rx_read, consumed, rx_inner, irq, rxHostVars>>

Host == RxSnapshot \/ RxDistance \/ RxReceive \/ RxReceiveFails
            \/ RxPublish \/ RxNotify
Guest == GuestInterrupt \/ GuestTake \/ GuestRelease \/ GuestSleep

RxNext == Host \/ Guest

RxSpec == RxInit /\ [][RxNext]_rxVars

\* Both threads are scheduled; nothing is assumed of the TAP device.
RxFairSpec == RxSpec /\ WF_rxVars(Host) /\ WF_rxVars(Guest)

-----------------------------------------------------------------------------
(* Properties. *)

\* Frames the host has made visible to the guest, and frames whose slots
\* the guest has given back.
RxPublished == IF rxPc = "publish" THEN arrived - 1 ELSE arrived
Released  == IF guestPc = "release" THEN consumed - 1 ELSE consumed

\* Type correctness of the ring's counters, slots and the two threads.
RxTypeOK ==
    /\ rx_written \in Counters
    /\ rx_read \in Counters
    /\ rx_inner \in [Slots -> Nat]
    /\ rxPc \in {"snapshot", "distance", "recv", "publish", "notify"}
    /\ rxSeen \in Counters
    /\ arrived \in Nat
    /\ irq \in BOOLEAN
    /\ guestPc \in {"idle", "drain", "release"}
    /\ consumed \in Nat

\* Every published frame that the guest has not released is intact in its
\* slot, and the wrapped counters never run further apart than the ring is
\* long, although recieve_packets decides on a stale snapshot of "read".
RingIntact ==
    /\ Distance(rx_written, rx_read) = RxPublished - Released
    /\ Distance(rx_written, rx_read) <= QueueSize
    /\ \A f \in Released + 1 .. RxPublished : rx_inner[(f - 1) % QueueSize] = f

\* The strengthening of RingIntact that every step preserves: it also relates
\* the wrapped counters to the frame numbers, the thread's stale snapshot to
\* the current counter, and covers the frame being copied but not published.
RingInv ==
    /\ RxTypeOK
    /\ rxPc = "publish" => arrived > 0
    /\ guestPc = "release" => consumed > 0 /\ Distance(rx_written, rx_read) > 0
    /\ RxPublished = Released + Distance(rx_written, rx_read)
    /\ Distance(rx_written, rx_read) <= QueueSize
    /\ rxPc = "distance" =>
          Distance(rx_written, rx_read) <= Distance(rx_written, rxSeen)
    /\ rxPc \in {"recv", "publish"} => Distance(rx_written, rx_read) < QueueSize
    /\ Idx(rx_written) = RxPublished % QueueSize
    /\ Idx(rx_read) = Released % QueueSize
    /\ \A f \in Released + 1 .. arrived : rx_inner[(f - 1) % QueueSize] = f
    /\ \A s \in Slots : rx_inner[s] > 0 =>
          rx_inner[s] <= arrived /\ (rx_inner[s] - 1) % QueueSize = s

\* The write into inner[idx] by recieve_packets never hits a slot whose
\* frame the guest has not given back yet.
NoOverwrite ==
    [][\A s \in Slots : rx_inner'[s] # rx_inner[s] => rx_inner[s] <= Released]_rxVars

\* A frame in the ring is never forgotten: whenever the driver sleeps with
\* frames in the ring, the interrupt is pending or recieve_packets is about
\* to write to efd.
NoLostWakeup ==
    guestPc = "idle" /\ rx_read # rx_written => irq \/ rxPc = "notify"

\* The ring implements the bounded FIFO channel: the guest takes exactly
\* the frames the host has published, once each and in order.
RxFifo == INSTANCE FrameFifo
            WITH Capacity <- QueueSize, put <- RxPublished, taken <- consumed
IsRxFifo == RxFifo!Spec

\* Every frame recieve_packets has read from the TAP device reaches the
\* guest.
EveryFrameDelivered ==
    \A n \in 1 .. MaxFrames : arrived >= n ~> consumed >= n
=============================================================================
