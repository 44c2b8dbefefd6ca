---------------------------- MODULE GuestMemory ----------------------------
(***************************************************************************)
(* The layout of the guest's memory on x86-64.  A guest whose memory does  *)
(* not end below the 32-bit I/O gap gets the gap on top of its size, and   *)
(* nothing is mapped there.  Sizes and addresses are in pages, computed in *)
(* size_t arithmetic (modulo WordMod).                                     *)
(***************************************************************************)
EXTENDS Integers

CONSTANTS
    GapStart,   \* KVM_32BIT_GAP_START
    GapSize,    \* KVM_32BIT_GAP_SIZE
    WordMod     \* 2^64

GapEnd == GapStart + GapSize

ASSUME GapAssumption ==
    /\ GapStart \in Nat \ {0} /\ GapSize \in Nat \ {0} /\ WordMod \in Nat
    /\ 2 * GapEnd <= WordMod

\* The size init_kvm_arch maps for a guest of the given size.
MappedSize(guest_size) ==
    IF guest_size < GapStart THEN guest_size ELSE (guest_size + GapSize) % WordMod

\* The sizes of the two memory slots init_kvm_arch registers, below and above
\* the gap.  All is in one slot if it ends below the gap.
LowSlot(guest_size) == IF guest_size <= GapStart THEN guest_size ELSE GapStart
HighSlot(guest_size) ==
    IF guest_size <= GapStart THEN 0 ELSE (guest_size - GapSize - GapStart) % WordMod

\* KVM refuses a new slot of size 0, and kvm_ioctl then ends the process: so it
\* does when HERMIT_MEM is exactly the start of the gap.
KvmAccepts(guest_size) == guest_size <= GapStart \/ HighSlot(guest_size) # 0

\* The pages the guest finds memory at.
SlotPages(guest_size) ==
    (0 .. LowSlot(guest_size) - 1)
        \cup (GapEnd .. GapEnd + HighSlot(guest_size) - 1)

\* Mutant of SentSize: compares the size with the gap still in it.
SentSizeNoGap(guest_size) ==
    IF guest_size + GapSize >= GapStart
    THEN (guest_size - GapSize) % WordMod ELSE guest_size

\* The size migration_handler sends: "the guest size is recalculated at the
\* destination".  The subtraction wraps for a guest smaller than the gap.
SentSize(guest_size) ==
    IF (guest_size - GapSize) % WordMod >= GapStart
    THEN (guest_size - GapSize) % WordMod ELSE guest_size

\* determine_guest_physical_memory_regions, as the set of pages in its chunks.
PhysPages(guest_size) ==
    IF guest_size < GapStart
    THEN 0 .. guest_size - 1
    ELSE (0 .. GapStart - 1) \cup (GapEnd .. guest_size - 1)
=============================================================================
