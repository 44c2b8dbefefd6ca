-------------------------------- MODULE NetTx --------------------------------
(***************************************************************************)
(* The transmit ring of uhyve's network device.  A guest core puts a frame *)
(* into the ring, increments "written" and issues the hypercall NETWRITE,  *)
(* whose handler in vcpu_loop posts the semaphore tx_sem.  The host thread *)
(* transfer_packets waits for the semaphore, takes ONE frame out of the    *)
(* ring, writes it to the TAP device (or drops it when it is too large)    *)
(* and increments "read".  The hypercall NETINFO starts the thread and     *)
(* initialises the semaphore with 1.                                       *)
(*                                                                         *)
(* Frames are numbered 1, 2, 3 ... in the order in which guest cores put   *)
(* them into the ring.  The guest is not part of the repository: its cores *)
(* insert under a lock of the guest's driver and post after releasing it.  *)
(***************************************************************************)
EXTENDS RingCounters, FiniteSets

CONSTANTS
    Cores,         \* guest cores, each run by a vCPU thread
    MTU,           \* UHYVE_NET_MTU
    Lengths        \* bound: the frame lengths the guest uses

ASSUME TxAssumption ==
    /\ MTU \in Nat
    /\ Lengths \subseteq Nat
    /\ IsFiniteSet(Cores)

VARIABLES
    tx_written,    \* tx_queue->written, modulo CounterMod
    tx_read,       \* tx_queue->read, modulo CounterMod
    tx_inner,      \* tx_queue->inner: the frame each slot holds, 0 = none yet
    size,          \* len of each frame, by frame number; 0 in an unused slot
    tx_sem,        \* the semaphore
    txPc,          \* where transfer_packets is; "off" before NETINFO
    offset,        \* i, the bytes of the current frame already written
    taken,         \* number of the last frame transfer_packets took
    wire,          \* bytes of each frame on the wire, by frame number
    corePc,        \* where each guest core is in sending
    lock,          \* cores holding the driver's lock
    put            \* frames the guest has put into the ring

txHostVars  == <<tx_read, txPc, offset, taken, wire>>
txGuestVars == <<tx_written, tx_inner, size, corePc, lock, put>>
txVars == <<tx_written, tx_read, tx_inner, size, tx_sem, txPc, offset, taken, wire,
          corePc, lock, put>>

Frames == 1 .. MaxFrames

\* The frame transfer_packets is working on (it reads the slot in place),
\* and its length.
Current == tx_inner[Idx(tx_read)]
CurrentLen == size[Current]

TxInit ==
    /\ tx_written = 0
    /\ tx_read = 0
    /\ tx_inner = [s \in Slots |-> 0]
    /\ size = [f \in Frames \cup {0} |-> 0]
    /\ tx_sem = 0
    /\ txPc = "off"
    /\ offset = 0
    /\ taken = 0
    /\ wire = [f \in Frames |-> 0]
    /\ corePc = [c \in Cores |-> "idle"]
    /\ lock = {}
    /\ put = 0

-----------------------------------------------------------------------------
(* Hypercalls, executed by the vCPU thread of core c. *)

\* NETINFO: check_network finds no eventfd yet, initialises tx_sem with 1
\* and creates the thread.
NetInfo(c) ==
    /\ corePc[c] = "idle"
    /\ txPc = "off"
    /\ tx_sem' = 1
    /\ txPc' = "wait"
    /\ UNCHANGED <<tx_read, offset, taken, wire, txGuestVars>>

\* NETWRITE: sem_post(&tx_sem).
NetWrite(c) ==
    /\ corePc[c] = "post"
    /\ tx_sem' = tx_sem + 1
    /\ corePc' = [corePc EXCEPT ![c] = "idle"]
    /\ UNCHANGED <<tx_written, tx_inner, size, lock, put, txHostVars>>

-----------------------------------------------------------------------------
(* The guest's driver (external). *)

\* Core c takes the lock, finds room and fills the slot "written" points to.
GuestFill(c, len) ==
    /\ corePc[c] = "idle"
    /\ txPc # "off"
    /\ lock = {}
    /\ put < MaxFrames
    /\ Distance(tx_written, tx_read) < QueueSize
    /\ lock' = {c}
    /\ put' = put + 1
    /\ tx_inner' = [tx_inner EXCEPT ![Idx(tx_written)] = put + 1]
    /\ size' = [size EXCEPT ![put + 1] = len]
    /\ corePc' = [corePc EXCEPT ![c] = "publish"]
    /\ UNCHANGED <<tx_written, tx_sem, txHostVars>>

\* Core c increments "written" and releases the lock.
GuestPublish(c) ==
    /\ corePc[c] = "publish"
    /\ tx_written' = Inc(tx_written)
    /\ lock' = {}
    /\ corePc' = [corePc EXCEPT ![c] = "post"]
    /\ UNCHANGED <<tx_inner, size, put, tx_sem, txHostVars>>

-----------------------------------------------------------------------------
(* The host thread transfer_packets. *)

\* Mutant of TxWait: one wake-up eats every pending post.
TxWaitDrains ==
    /\ txPc = "wait"
    /\ tx_sem > 0
    /\ tx_sem' = 0
    /\ txPc' = "look"
    /\ UNCHANGED <<tx_read, offset, taken, wire, txGuestVars>>

\* sem_wait(&tx_sem).
TxWait ==
    /\ txPc = "wait"
    /\ tx_sem > 0
    /\ tx_sem' = tx_sem - 1
    /\ txPc' = "look"
    /\ UNCHANGED <<tx_read, offset, taken, wire, txGuestVars>>

\* Mutant of TxLook: a wake-up is taken for a frame.
TxLookUnchecked ==
    /\ txPc = "look"
    /\ taken' = Current
    /\ txPc' = "send"
    /\ offset' = 0
    /\ UNCHANGED <<tx_read, wire, tx_sem, txGuestVars>>

\* The counters are read: an empty ring sends the thread back to sleep,
\* otherwise it turns to the frame at idx.
TxLook ==
    /\ txPc = "look"
    /\ IF Distance(tx_written, tx_read) > 0
       THEN /\ taken' = Current
            /\ txPc' = "send"
       ELSE /\ txPc' = "wait"
            /\ UNCHANGED taken
    /\ offset' = 0
    /\ UNCHANGED <<tx_read, wire, tx_sem, txGuestVars>>

\* Mutant of TxDrop: a frame of exactly MTU bytes passes.
TxDropLarger ==
    /\ txPc = "send"
    /\ CurrentLen > MTU
    /\ txPc' = "next"
    /\ UNCHANGED <<tx_read, offset, taken, wire, tx_sem, txGuestVars>>

\* "Drop message. Message is too large."
TxDrop ==
    /\ txPc = "send"
    /\ CurrentLen >= MTU
    /\ txPc' = "next"
    /\ UNCHANGED <<tx_read, offset, taken, wire, tx_sem, txGuestVars>>

\* Mutant of TxWrite: the number of bytes written is ignored.
TxWriteOnce ==
    /\ txPc = "send"
    /\ CurrentLen < MTU
    /\ offset < CurrentLen
    /\ \E n \in 1 .. CurrentLen - offset :
          wire' = [wire EXCEPT ![Current] = @ + n]
    /\ offset' = CurrentLen
    /\ UNCHANGED <<tx_read, txPc, taken, tx_sem, txGuestVars>>

\* write(netfd, data + i, len - i) accepts n bytes.
TxWrite ==
    /\ txPc = "send"
    /\ CurrentLen < MTU
    /\ offset < CurrentLen
    /\ \E n \in 1 .. CurrentLen - offset :
          /\ wire' = [wire EXCEPT ![Current] = @ + n]
          /\ offset' = offset + n
    /\ UNCHANGED <<tx_read, txPc, taken, tx_sem, txGuestVars>>

\* write(netfd, ..) fails: the loop tries again.
TxWriteFails ==
    /\ txPc = "send"
    /\ CurrentLen < MTU
    /\ offset < CurrentLen
    /\ UNCHANGED txVars

\* The loop ends: i = len.
TxWritten ==
    /\ txPc = "send"
    /\ CurrentLen < MTU
    /\ offset = CurrentLen
    /\ txPc' = "next"
    /\ UNCHANGED <<tx_read, offset, taken, wire, tx_sem, txGuestVars>>

\* atomic_uint64_inc(&tx_queue->read) gives the slot back.
TxInc ==
    /\ txPc = "next"
    /\ tx_read' = Inc(tx_read)
    /\ txPc' = "wait"
    /\ UNCHANGED <<offset, taken, wire, tx_sem, txGuestVars>>

Thread == TxWait \/ TxLook \/ TxDrop \/ TxWrite \/ TxWriteFails
              \/ TxWritten \/ TxInc

Core(c) == NetInfo(c) \/ NetWrite(c) \/ GuestPublish(c)
               \/ \E len \in Lengths : GuestFill(c, len)

TxNext == Thread \/ \E c \in Cores : Core(c)

TxSpec == TxInit /\ [][TxNext]_txVars

\* The thread is scheduled and the TAP device accepts a frame in the end
\* (a failing write is a stuttering step, which WF does not count); a core
\* that has taken the lock goes on to NETWRITE.
TxFairSpec ==
    /\ TxSpec
    /\ WF_txVars(Thread)
    /\ \A c \in Cores : WF_txVars(GuestPublish(c) \/ NetWrite(c))

-----------------------------------------------------------------------------
(* Properties. *)

\* Frames visible to the thread, and frames the thread is done with.
TxPublished == IF \E c \in Cores : corePc[c] = "publish" THEN put - 1 ELSE put
Finished  == IF txPc \in {"send", "next"} THEN taken - 1 ELSE taken

\* Type correctness of the ring, the semaphore and the threads.
TxTypeOK ==
    /\ tx_written \in Counters
    /\ tx_read \in Counters
    /\ tx_inner \in [Slots -> Nat]
    /\ size \in [Frames \cup {0} -> Nat]
    /\ tx_sem \in Nat
    /\ txPc \in {"off", "wait", "look", "send", "next"}
    /\ offset \in Nat
    /\ taken \in Nat
    /\ wire \in [Frames -> Nat]
    /\ corePc \in [Cores -> {"idle", "publish", "post"}]
    /\ lock \in SUBSET Cores
    /\ put \in Nat

\* The semaphore accounts for every frame in the ring: transfer_packets takes
\* one frame per sem_wait, so there is a post pending, a NETWRITE still to be
\* executed or the thread at work for each of them; sem_init's extra 1 and
\* wake-ups that find the ring empty never lead to a frame nobody sends.
NoStrandedFrame ==
    Distance(tx_written, tx_read) <=
        tx_sem + Cardinality({c \in Cores : corePc[c] = "post"})
               + (IF txPc \in {"look", "send", "next"} THEN 1 ELSE 0)

\* The bytes of a frame that belong on the wire.
Whole(f) == IF size[f] < MTU THEN size[f] ELSE 0

\* Of every frame the thread is done with, exactly its bytes are on the wire,
\* none if its length reaches the MTU, however write() splits it and whatever
\* the guest puts into the ring meanwhile; nothing of a later frame is.
WholeFrames ==
    \A f \in Frames :
        /\ f <= Finished => wire[f] = Whole(f)
        /\ f > taken => wire[f] = 0

\* What a core in the driver and the thread at work know: the lock has one owner,
\* who finds a free slot; the thread owns the oldest frame, whose bytes are on the
\* wire up to the offset; nothing happens before NETINFO.
TxThreads ==
    /\ \A c \in Cores : corePc[c] = "publish" <=> c \in lock
    /\ \A c, d \in lock : c = d
    /\ lock # {} => Distance(tx_written, tx_read) < QueueSize /\ put > 0
    /\ txPc = "off" => put = 0
    /\ txPc \in {"send", "next"} => Distance(tx_written, tx_read) > 0 /\ taken > 0
    /\ txPc = "send" /\ size[taken] < MTU =>
          wire[taken] = offset /\ offset <= size[taken]
    /\ txPc = "send" /\ size[taken] >= MTU => wire[taken] = 0
    /\ txPc = "next" => wire[taken] = Whole(taken)

\* The inductive invariant behind NoStrandedFrame, WholeFrames and IsFifo: the
\* wrapped counters count the frames in the ring, and the slots between them hold
\* the frames not finished, the one being put included.
TxInv ==
    /\ TxTypeOK /\ TxThreads /\ WholeFrames
    /\ put <= MaxFrames
    /\ Distance(tx_written, tx_read) <= QueueSize
    /\ TxPublished = Finished + Distance(tx_written, tx_read)
    /\ Idx(tx_written) = TxPublished % QueueSize
    /\ Idx(tx_read) = Finished % QueueSize
    /\ \A f \in Finished + 1 .. put : tx_inner[(f - 1) % QueueSize] = f

\* The ring implements the bounded FIFO channel: transfer_packets takes
\* exactly the frames the guest has published, once each and in order.
TxFifo == INSTANCE FrameFifo WITH Capacity <- QueueSize, put <- TxPublished
IsTxFifo == TxFifo!Spec

\* Every frame a guest core has put into the ring is sent or dropped.
EveryFrameLeaves ==
    \A f \in Frames : put >= f ~> Finished >= f
=============================================================================
