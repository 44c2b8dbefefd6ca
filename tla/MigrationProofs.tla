--------------------------- MODULE MigrationProofs ---------------------------
(***************************************************************************)
(* A migration over TCP moves the guest and never doubles it, for any      *)
(* number of vCPUs, any memory size and layout of the gap, and whenever    *)
(* the connection breaks.                                                  *)
(***************************************************************************)
EXTENDS Migration, TLAPS, WellFoundedInduction

-----------------------------------------------------------------------------
(* The memory layout. *)

\* The destination gets back the size of the source, although the subtraction
\* of the gap wraps for a small guest, and the slots registered there are what
\* the source may announce.
LEMMA SizeComesBack ==
    ASSUME NEW m \in MemSizes, NEW g, g = MappedSize(m), KvmAccepts(g)
    PROVE  /\ MappedSize(SentSize(g)) = g
           /\ SlotPages(g) = PhysPages(g)
           /\ 0 \in PhysPages(g) /\ PhysPages(g) \subseteq 0 .. WordMod - 1
<1> USE GapAssumption, MigrationAssumption DEF GapEnd
<1>m. m \in Int /\ 1 <= m /\ m < WordMod - GapSize
    OBVIOUS
<1>1. CASE m < GapStart
  <2>1. g = m
    BY <1>1 DEF MappedSize
  <2>2. MappedSize(SentSize(g)) = g
    <3>1. CASE m >= GapSize
      <4>1. (m - GapSize) % WordMod = m - GapSize
        BY <1>m, <3>1, SMT
      <4> QED BY <1>1, <1>m, <2>1, <4>1 DEF SentSize, MappedSize
    <3>2. CASE m < GapSize
      <4>1. (m - GapSize) % WordMod = m - GapSize + WordMod
        BY <1>m, <3>2, SMT
      <4>2. (m - GapSize + WordMod + GapSize) % WordMod = m
        <5>1. m - GapSize + WordMod + GapSize = m + WordMod
          BY <1>m, SMT
        <5>2. (m + WordMod) % WordMod = m
          BY <1>m, SMT
        <5> QED BY <5>1, <5>2
      <4>3. m - GapSize + WordMod >= GapStart
        BY <1>m, SMT
      <4>4. SentSize(g) = m - GapSize + WordMod
        BY <2>1, <4>1, <4>3 DEF SentSize
      <4> QED BY <2>1, <1>m, <4>2, <4>3, <4>4 DEF MappedSize
    <3> QED BY <1>m, <3>1, <3>2
  <2>3. LowSlot(g) = m /\ HighSlot(g) = 0
    BY <1>1, <1>m, <2>1 DEF LowSlot, HighSlot
  <2>4. SlotPages(g) = 0 .. m - 1
    BY <1>m, <2>3 DEF SlotPages
  <2>5. PhysPages(g) = 0 .. m - 1
    BY <1>1, <2>1 DEF PhysPages
  <2> QED BY <1>m, <2>2, <2>4, <2>5
<1>2. CASE m >= GapStart
  <2>1. g = m + GapSize
    BY <1>2, <1>m DEF MappedSize
  <2>2. (g - GapSize) % WordMod = m
    BY <2>1, <1>m
  <2>3. MappedSize(SentSize(g)) = g
    BY <1>2, <1>m, <2>1, <2>2 DEF SentSize, MappedSize
  <2>4. (g - GapSize - GapStart) % WordMod = m - GapStart
    BY <2>1, <1>2, <1>m
  <2>5. LowSlot(g) = GapStart /\ HighSlot(g) = m - GapStart
    BY <1>2, <1>m, <2>1, <2>4 DEF LowSlot, HighSlot
  <2>6. SlotPages(g) = (0 .. GapStart - 1) \cup (GapEnd .. m + GapSize - 1)
    <3>1. GapEnd + (m - GapStart) - 1 = m + GapSize - 1
      BY <1>m
    <3> QED BY <2>5, <3>1 DEF SlotPages
  <2>7. PhysPages(g) = (0 .. GapStart - 1) \cup (GapEnd .. m + GapSize - 1)
    BY <1>2, <1>m, <2>1 DEF PhysPages
  <2> QED BY <1>m, <2>3, <2>6, <2>7
<1> QED BY <1>m, <1>1, <1>2

\* The facts about the guest's memory that the steps need.
LEMMA Layout ==
    ASSUME GuestInv
    PROVE  /\ MappedSize(SentSize(guest_size)) = guest_size
           /\ SlotPages(guest_size) = Pages
           /\ 0 \in Pages /\ Pages \subseteq 0 .. WordMod - 1
<1>1. PICK m \in MemSizes : guest_size = MappedSize(m)
    BY DEF GuestInv
<1>2. KvmAccepts(guest_size)
    BY DEF GuestInv
<1> QED BY <1>1, <1>2, SizeComesBack DEF Pages

\* The next page to send exists.
LEMMA FirstPage ==
    ASSUME NEW S \in SUBSET Nat, S # {}
    PROVE  (CHOOSE q \in S : \A r \in S : q <= r) \in S
<1>1. PICK q \in S : \A r \in S : <<r, q>> \notin OpToRel(<, Nat)
    BY NatLessThanWellFounded, WFMin
<1>2. \A r \in S : ~ (r < q)
    BY <1>1, Zenon DEF OpToRel
<1>3. \A r \in S : q <= r
    BY <1>2
<1> QED BY <1>3

\* The freed states are told from any array of states.
LEMMA NullIsNoState == ASSUME NEW f, DOMAIN f = Cores PROVE f # Null
<1>1. 0 \in Cores
    BY MigrationAssumption DEF Cores
<1>2. DOMAIN Null = {}
    BY DEF Null
<1> QED BY <1>1, <1>2

-----------------------------------------------------------------------------
(* What a step that leaves a part alone keeps of the invariant. *)

\* A step on which the guest stands still, the free list stays as it is and the
\* migration thread does not go back leaves what is in flight as good as it was.
LEMMA ItemsKept ==
    ASSUME UNCHANGED <<guest_size, mem, regs, mig_type, promised>>,
           Late => Late', Announced => Announced'
    PROVE  Items \subseteq Items'
BY DEF Items, Needed, Pages

\* A queue of good items stays one if the good items become more.
LEMMA SeqKept ==
    ASSUME NEW S, NEW T, S \subseteq T, NEW s \in Seq(S)
    PROVE  s \in Seq(T)
OBVIOUS

\* A step of the source, the guest's own steps apart, is none of the
\* destination's business.
LEMMA SourceStep ==
    ASSUME ReceivedInv, BootInv,
           UNCHANGED <<guest_size, mem, regs, mig_type, promised, dstErr>>,
           UNCHANGED dstVars, UNCHANGED bootVars,
           Late => Late', Announced => Announced',
           link' # "reset" => link # "reset"
    PROVE  ReceivedInv' /\ BootInv'
<1> USE DEF dstVars, bootVars
<1>1. Needed' = Needed /\ Pages' = Pages
    BY DEF Needed, Pages
<1>2. ReceivedInv'
    BY <1>1 DEF ReceivedInv, SizeKept
<1>3. BootInv'
    BY DEF BootInv, NoColdBoot
<1> QED BY <1>2, <1>3

\* A step of the destination leaves the source as it was.
LEMMA DestinationStep ==
    ASSUME GuestInv, VcpuInv, UNCHANGED <<guestVars, mig, migVars, vcpuVars>>
    PROVE  /\ GuestInv' /\ VcpuInv'
           /\ Late' = Late /\ Announced' = Announced /\ Needed' = Needed
           /\ Pages' = Pages /\ Items' = Items
<1> USE DEF guestVars, migVars, vcpuVars
<1>1. GuestInv'
    BY DEF GuestInv
<1>2. Late' = Late /\ Announced' = Announced
    BY DEF Late, Announced
<1>3. VcpuInv'
    BY <1>2 DEF VcpuInv
<1>4. Needed' = Needed /\ Pages' = Pages
    BY DEF Needed, Pages
<1>5. Items' = Items
    BY <1>2, <1>4 DEF Items
<1> QED BY <1>1, <1>2, <1>3, <1>4, <1>5

\* Before the first request nothing is in flight.
LEMMA InvInit == Init => MigrationInv
<1> SUFFICES ASSUME Init PROVE MigrationInv
    OBVIOUS
<1> USE DEF Init
<1>1. GuestInv
    BY MigrationAssumption DEF GuestInv
<1>2. 0 \in Cores
    BY MigrationAssumption DEF Cores
<1>3. TypeOK
  <2>1. 0 \in 0 .. MaxSteps
    BY MigrationAssumption
  <2>2. mem \in [Pages -> 0 .. MaxSteps] /\ regs \in [Cores -> 0 .. MaxSteps]
    BY <1>1, <2>1, Layout DEF Blank
  <2>3. DOMAIN dstMem \subseteq 0 .. WordMod - 1
    OBVIOUS
  <2>4. allocated \subseteq Pages
    BY <1>1, Layout
  <2>5. mig_type \in {"cold", "live"}
    BY MigrationAssumption
  <2> QED BY <2>5, <2>1, <2>2, <2>3, <2>4 DEF TypeOK, Blank
<1>4. VcpuInv
    BY DEF VcpuInv, Late
<1>5. StreamInv
    BY DEF StreamInv
<1>6. ReceivedInv
    BY DEF ReceivedInv, SizeKept
<1>7. BootInv
    BY <1>2 DEF BootInv, NoColdBoot
<1> QED BY <1>1, <1>3, <1>4, <1>5, <1>6, <1>7 DEF MigrationInv

-----------------------------------------------------------------------------
(* The guest and the vCPU threads of the source. *)

\* While a vCPU is in the guest nothing the destination relies on is settled.
LEMMA GuestKeeps == MigrationInv /\ Guest => MigrationInv'
<1> SUFFICES ASSUME MigrationInv,
                    NEW c \in Cores, NEW p \in DOMAIN mem, GuestStep(c, p)
             PROVE  MigrationInv'
    BY DEF Guest
<1>i. TypeOK /\ GuestInv /\ VcpuInv /\ StreamInv /\ ReceivedInv /\ BootInv
    BY DEF MigrationInv
<1>u. /\ UNCHANGED <<guest_size, mig, stream, link, dstErr, vcpu, dst>>
      /\ UNCHANGED migVars /\ UNCHANGED vcpuVars /\ UNCHANGED dstVars
      /\ UNCHANGED bootVars
    BY DEF GuestStep, vcpuVars, dstVars
<1>n. ~ Late /\ ~ Late'
    BY <1>i, <1>u DEF GuestStep, VcpuInv, Late
<1>p. p \in Pages /\ Pages' = Pages /\ Needed' = Needed
    BY <1>i, <1>u DEF TypeOK, Pages, Needed, migVars
<1>s. steps' \in 0 .. MaxSteps
    BY <1>i, MigrationAssumption DEF GuestInv, GuestStep
<1>1. TypeOK'
  <2>1. mem' \in [Pages -> 0 .. MaxSteps] /\ regs' \in [Cores -> 0 .. MaxSteps]
    BY <1>i, <1>p, <1>s DEF GuestStep, TypeOK
  <2>2. allocated' \subseteq Pages
    BY <1>i, <1>p DEF GuestStep, TypeOK
  <2> QED BY <1>i, <1>u, <1>p, <2>1, <2>2
          DEF TypeOK, migVars, vcpuVars, dstVars, bootVars
<1>2. GuestInv'
    BY <1>i, <1>u, <1>s DEF GuestInv, GuestStep, migVars
<1>3. VcpuInv'
  <2>1. \A d \in Cores : vcpu[d] # "saved"
    BY <1>i, <1>n DEF VcpuInv, GuestStep
  <2> QED BY <1>i, <1>u, <1>n, <2>1 DEF VcpuInv, Late, vcpuVars
<1>4. StreamInv'
  <2>1. Announced' = Announced
    BY <1>u, <1>n DEF Announced
  <2>2. Items \subseteq Items'
    BY <1>u, <1>n, <1>p, <2>1 DEF Items
  <2> QED BY <1>i, <1>u, <2>2, SeqKept DEF StreamInv
<1>5. ReceivedInv'
  <2>1. Announced' = Announced
    BY <1>u, <1>n DEF Announced
  <2> QED BY <1>i, <1>u, <1>n, <1>p, <2>1 DEF ReceivedInv, SizeKept, dstVars
<1>6. BootInv'
  <2>1. dst # "boot"
    BY <1>i, <1>n DEF ReceivedInv
  <2> QED BY <1>i, <1>u, <2>1 DEF BootInv, NoColdBoot, dstVars, bootVars
<1> QED BY <1>1, <1>2, <1>3, <1>4, <1>5, <1>6 DEF MigrationInv

\* The vCPU threads stop together, and each saves the registers it stopped with.
LEMMA VcpuThreadKeeps == MigrationInv /\ VcpuThread => MigrationInv'
<1> SUFFICES ASSUME MigrationInv, VcpuThread PROVE MigrationInv'
    OBVIOUS
<1>i. TypeOK /\ GuestInv /\ VcpuInv /\ StreamInv /\ ReceivedInv /\ BootInv
    BY DEF MigrationInv
<1>1. ASSUME NEW c \in Cores, NEW valid \in BOOLEAN, FreeList(c, valid)
      PROVE  MigrationInv'
  <2>u. /\ UNCHANGED <<mig, stream, link, dstErr, dst, mig_type, srcClock,
                       mappings_to_be_transferred>>
        /\ UNCHANGED guestVars /\ UNCHANGED vcpuVars /\ UNCHANGED dstVars
        /\ UNCHANGED bootVars
    BY <1>1 DEF FreeList, dstVars
  <2>n. mig = "await" /\ ~ Late /\ ~ Late' /\ ~ Announced /\ ~ Announced'
    BY <1>1, <2>u DEF FreeList, Late, Announced
  <2>p. Pages' = Pages /\ promised = {} /\ mig_sem = 0
    BY <1>i, <1>1, <2>u DEF Pages, guestVars, GuestInv, FreeList
  <2>1. TypeOK'
    BY <1>i, <1>1, <2>u, <2>p
    DEF TypeOK, FreeList, guestVars, vcpuVars, dstVars, bootVars
  <2>2. GuestInv'
    BY <1>i, <1>1, <2>u, <2>p DEF GuestInv, FreeList, guestVars
  <2>3. VcpuInv'
    BY <1>i, <2>u, <2>n DEF VcpuInv, guestVars, vcpuVars
  <2>4. Items \subseteq Items'
    BY <2>u, <2>n DEF Items, guestVars
  <2>5. StreamInv'
    BY <1>i, <2>u, <2>4, SeqKept DEF StreamInv
  <2>6. ReceivedInv'
    BY <1>i, <2>u, <2>n, <2>p DEF ReceivedInv, SizeKept, guestVars, dstVars
  <2>7. BootInv'
    BY <1>i, <2>u DEF BootInv, NoColdBoot, guestVars, dstVars, bootVars
  <2> QED BY <2>1, <2>2, <2>3, <2>5, <2>6, <2>7 DEF MigrationInv
<1>2. ASSUME VcpuBarrier \/ \E c \in Cores : TakeSignal(c) \/ SaveState(c)
      PROVE  MigrationInv'
  <2>u. /\ UNCHANGED <<mig, stream, link, dstErr, dst, guest_size, regs, mem,
                       mig_type, promised>>
        /\ UNCHANGED guestVars /\ UNCHANGED migVars /\ UNCHANGED dstVars
        /\ UNCHANGED bootVars
    BY <1>2 DEF VcpuBarrier, TakeSignal, SaveState, guestVars, migVars, dstVars
  <2>p. Pages' = Pages /\ Late' = Late /\ Announced' = Announced /\ 0 \in Cores
    BY <2>u, MigrationAssumption DEF Pages, Late, Announced, Cores
  <2>m. mig = "sync" /\ ~ Late
    BY <1>2, <1>i, <2>p
    DEF VcpuInv, VcpuBarrier, TakeSignal, SaveState, Late, TypeOK
  <2>d. DOMAIN vcpu_thread_states = Cores
    BY <1>i, <2>m DEF VcpuInv, TypeOK
  <2>1. TypeOK' /\ VcpuInv'
    <3>1. CASE VcpuBarrier
      <4>1. TypeOK'
        BY <1>i, <3>1, <2>u, <2>p
        DEF TypeOK, VcpuBarrier, guestVars, migVars, dstVars, bootVars
      <4> QED BY <1>i, <3>1, <2>u, <2>p, <2>m, <4>1 DEF VcpuInv, VcpuBarrier
    <3>2. ASSUME NEW c \in Cores, TakeSignal(c) PROVE TypeOK' /\ VcpuInv'
      <4>1. TypeOK'
        BY <1>i, <3>2, <2>u, <2>p
        DEF TypeOK, TakeSignal, guestVars, migVars, dstVars, bootVars
      <4>2. vcpu' = [vcpu EXCEPT ![c] = "sync"] /\ vcpu[c] = "signalled"
            /\ UNCHANGED vcpu_thread_states /\ DOMAIN vcpu = Cores
        BY <1>i, <3>2 DEF TakeSignal, TypeOK
      <4>3. \A d \in Cores : vcpu'[d] \in {"signalled", "sync"}
        BY <1>i, <2>m, <4>2 DEF VcpuInv
      <4> QED BY <1>i, <2>u, <2>p, <2>m, <4>1, <4>2, <4>3 DEF VcpuInv
    <3>3. ASSUME NEW c \in Cores, SaveState(c) PROVE TypeOK' /\ VcpuInv'
      <4>0. vcpu_thread_states' \in [Cores -> 0 .. MaxSteps]
        <5>1. vcpu_thread_states \in [Cores -> 0 .. MaxSteps]
          BY <1>i, <2>m DEF VcpuInv, TypeOK
        <5>2. regs[c] \in 0 .. MaxSteps
          BY <1>i DEF TypeOK
        <5> QED BY <3>3, <5>1, <5>2 DEF SaveState
      <4>1. TypeOK'
        BY <1>i, <3>3, <2>u, <2>p, <4>0
        DEF TypeOK, SaveState, guestVars, migVars, dstVars, bootVars
      <4>2. /\ vcpu' = [vcpu EXCEPT ![c] = "saved"] /\ vcpu[c] = "save"
            /\ vcpu_thread_states' = [vcpu_thread_states EXCEPT ![c] = regs[c]]
            /\ DOMAIN vcpu = Cores
        BY <1>i, <3>3 DEF SaveState, TypeOK
      <4>3. \A d \in Cores : vcpu'[d] \in {"save", "saved"}
        BY <1>i, <2>m, <4>2 DEF VcpuInv
      <4>4. \A d \in Cores : vcpu'[d] = "saved" => vcpu_thread_states'[d] = regs'[d]
        BY <1>i, <2>u, <2>d, <4>2 DEF VcpuInv
      <4>5. vcpu_thread_states' # Null
        BY <4>2, <2>d, NullIsNoState
      <4> QED BY <2>u, <2>p, <2>m, <4>1, <4>3, <4>4, <4>5 DEF VcpuInv
    <3> QED BY <1>2, <3>1, <3>2, <3>3
  <2>2. GuestInv'
    BY <1>i, <2>u DEF GuestInv, guestVars, migVars
  <2>3. StreamInv'
    BY <1>i, <2>u, <2>p, ItemsKept, SeqKept DEF StreamInv
  <2>4. ReceivedInv' /\ BootInv'
    BY <1>i, <2>u, <2>p, SourceStep
  <2> QED BY <2>1, <2>2, <2>3, <2>4 DEF MigrationInv
<1> QED BY <1>1, <1>2 DEF VcpuThread

-----------------------------------------------------------------------------
(* The migration thread, the signal and the network. *)

\* What is appended to the stream may be in flight.
LEMMA Sent ==
    ASSUME StreamInv, NEW item, Send(item), item \in Items', Items \subseteq Items',
           UNCHANGED <<link, dst>>
    PROVE  StreamInv'
<1>1. stream \in Seq(Items')
    BY SeqKept DEF StreamInv
<1>2. stream' \in Seq(Items')
    BY <1>1 DEF Send
<1> QED BY <1>2 DEF StreamInv, Send

\* An item is sent by a step that changes nothing else but where the thread is.
LEMMA SendStep ==
    ASSUME MigrationInv, NEW from, NEW item, NEW to, SendAndGo(from, item, to),
           item \in Items',
           \/ /\ from \in {"params", "metadata", "regions"}
              /\ to \in {"metadata", "request", "precopy"}
           \/ from = "clock" /\ to = "close"
    PROVE  MigrationInv'
<1>i. TypeOK /\ GuestInv /\ VcpuInv /\ StreamInv /\ ReceivedInv /\ BootInv
    BY DEF MigrationInv
<1>u. /\ UNCHANGED <<link, dst, dstErr, guest_size, mem, regs, mig_type, promised>>
      /\ UNCHANGED guestVars /\ UNCHANGED migVars /\ UNCHANGED vcpuVars
      /\ UNCHANGED dstVars /\ UNCHANGED bootVars /\ mig = from /\ mig' = to
      /\ Send(item)
    BY DEF SendAndGo, guestVars, migVars, dstVars
<1>p. Pages' = Pages /\ (Late => Late') /\ (Announced => Announced')
    BY <1>u DEF Pages, Late, Announced
<1>1. TypeOK'
    BY <1>i, <1>u, <1>p DEF TypeOK, guestVars, migVars, vcpuVars, dstVars, bootVars
<1>2. GuestInv'
    BY <1>i, <1>u DEF GuestInv, guestVars, migVars
<1>3. VcpuInv'
    BY <1>i, <1>u DEF VcpuInv, Late, vcpuVars
<1>4. StreamInv'
    BY <1>i, <1>u, <1>p, ItemsKept, Sent
<1>5. ReceivedInv' /\ BootInv'
    BY <1>i, <1>u, <1>p, SourceStep
<1> QED BY <1>1, <1>2, <1>3, <1>4, <1>5 DEF MigrationInv

\* The request, the connection and what the network does to it.
LEMMA LinkKeeps ==
    MigrationInv /\ (Request \/ ConnectFails \/ Reset \/ Connect) => MigrationInv'
<1> SUFFICES ASSUME MigrationInv, Request \/ ConnectFails \/ Reset \/ Connect
             PROVE  MigrationInv'
    OBVIOUS
<1>i. TypeOK /\ GuestInv /\ VcpuInv /\ StreamInv /\ ReceivedInv /\ BootInv
    BY DEF MigrationInv
<1>u. /\ UNCHANGED <<dstErr, guest_size, mem, regs, mig_type, promised, dstSize,
                     dstRegions, dstMem, dstStates, dstClock>>
      /\ UNCHANGED guestVars /\ UNCHANGED migVars /\ UNCHANGED vcpuVars
      /\ UNCHANGED bootVars
    BY DEF Request, ConnectFails, Reset, Connect, guestVars, migVars, dstVars
<1>g. Pages' = Pages /\ Needed' = Needed
    BY <1>u DEF Pages, Needed
<1>2. GuestInv'
    BY <1>i, <1>u DEF GuestInv, guestVars, migVars
<1>3. CASE Connect
  <2>p. ~ Late /\ ~ Late' /\ ~ Announced /\ ~ Announced' /\ mig # "sync"
        /\ mig' = "params" /\ dst = "listen" /\ dst' = "params" /\ link' = "up"
        /\ UNCHANGED stream
    BY <1>3 DEF Connect, Late, Announced
  <2>1. TypeOK'
    BY <1>i, <1>u, <1>g, <2>p DEF TypeOK, guestVars, migVars, vcpuVars, bootVars
  <2>3. VcpuInv'
    BY <1>i, <1>u, <2>p DEF VcpuInv, vcpuVars
  <2>4. StreamInv'
    BY <1>i, <1>u, <2>p, ItemsKept, SeqKept DEF StreamInv
  <2>5. ReceivedInv'
    BY <2>p DEF ReceivedInv, SizeKept
  <2>6. BootInv'
    BY <1>i, <1>u, <2>p DEF BootInv, NoColdBoot, bootVars
  <2> QED BY <1>2, <2>1, <2>3, <2>4, <2>5, <2>6 DEF MigrationInv
<1>4. CASE Request \/ ConnectFails \/ Reset
  <2>p. /\ mig' = mig /\ dst' = dst /\ UNCHANGED dstVars
        /\ Late' = Late /\ Announced' = Announced
    BY <1>4 DEF Request, ConnectFails, Reset, Late, Announced, dstVars
  <2>l. \/ UNCHANGED <<stream, link>>
        \/ link = "up" /\ link' = "reset" /\ stream' = <<>>
    BY <1>4 DEF Request, ConnectFails, Reset
  <2>1. TypeOK'
    BY <1>i, <1>u, <1>g, <2>p, <2>l
    DEF TypeOK, guestVars, migVars, vcpuVars, bootVars
  <2>3. VcpuInv'
    BY <1>i, <1>u, <2>p DEF VcpuInv, vcpuVars
  <2>4. StreamInv'
    <3>0. Items \subseteq Items'
      BY <1>u, <2>p, ItemsKept
    <3>1. stream' \in Seq(Items')
      <4>1. stream \in Seq(Items')
        BY <1>i, <3>0, SeqKept DEF StreamInv
      <4>2. <<>> \in Seq(Items')
        OBVIOUS
      <4> QED BY <2>l, <4>1, <4>2
    <3> QED BY <1>i, <2>p, <2>l, <3>1 DEF StreamInv
  <2>5. ReceivedInv' /\ BootInv'
    BY <1>i, <1>u, <2>p, <2>l, SourceStep
  <2> QED BY <1>2, <2>1, <2>3, <2>4, <2>5 DEF MigrationInv
<1> QED BY <1>3, <1>4

\* What a step of the migration thread keeps that sends nothing, or what may be
\* in flight.
LEMMA ThreadStep ==
    ASSUME MigrationInv,
           UNCHANGED <<dstErr, guest_size, mem, regs, mig_type, promised>>,
           UNCHANGED dstVars, UNCHANGED bootVars,
           Late => Late', Announced => Announced',
           \/ UNCHANGED <<stream, link>>
           \/ UNCHANGED stream /\ link = "up" /\ link' = "closed"
           \/ UNCHANGED link /\ \E item \in Items' : Send(item)
    PROVE  StreamInv' /\ ReceivedInv' /\ BootInv' /\ Pages' = Pages
<1>i. StreamInv /\ ReceivedInv /\ BootInv
    BY DEF MigrationInv
<1>d. dst' = dst
    BY DEF dstVars
<1>1. Items \subseteq Items'
    BY ItemsKept
<1>2. ReceivedInv' /\ BootInv'
  <2>1. UNCHANGED link \/ (link = "up" /\ link' = "closed")
    OBVIOUS
  <2>2. link' # "reset" => link # "reset"
    BY <2>1
  <2> QED BY <1>i, <2>2, SourceStep
<1>3. CASE UNCHANGED stream
  <2>1. stream' \in Seq(Items')
    BY <1>i, <1>1, <1>3, SeqKept DEF StreamInv
  <2>2. UNCHANGED link \/ (link = "up" /\ link' = "closed")
    OBVIOUS
  <2> QED BY <1>i, <1>d, <1>2, <1>3, <2>1, <2>2 DEF StreamInv, Pages
<1>4. ASSUME NEW item \in Items', Send(item), UNCHANGED link
      PROVE  StreamInv'
    BY <1>i, <1>d, <1>1, <1>4, Sent
<1> QED BY <1>2, <1>3, <1>4 DEF Pages

\* The migration thread announces what is needed, stops the guest before it sends
\* what the guest could change, and never lets it run again.
LEMMA MigrationThreadKeeps == MigrationInv /\ MigrationThread => MigrationInv'
<1> SUFFICES ASSUME MigrationInv, MigrationThread PROVE MigrationInv'
    OBVIOUS
<1>i. TypeOK /\ GuestInv /\ VcpuInv
    BY DEF MigrationInv
<1>z. 0 \in Cores /\ 0 \in Pages /\ 0 \in 0 .. MaxSteps
    BY <1>i, Layout, MigrationAssumption DEF Cores
<1>1. CASE Connect
    BY <1>1, LinkKeeps
<1>2. CASE BrokenPipe
  <2>u. /\ UNCHANGED <<dstErr, guest_size, mem, regs, mig_type, promised, stream,
                       link, vcpu_thread_states>>
        /\ UNCHANGED guestVars /\ UNCHANGED migVars /\ UNCHANGED dstVars
        /\ UNCHANGED bootVars /\ mig' = "dead"
        /\ vcpu' = [c \in Cores |-> "gone"]
    BY <1>2 DEF BrokenPipe, guestVars, migVars
  <2>l. Late' /\ Announced'
    BY <2>u DEF Late, Announced
  <2>s. StreamInv' /\ ReceivedInv' /\ BootInv' /\ Pages' = Pages
    BY <2>u, <2>l, ThreadStep
  <2>1. TypeOK'
    BY <1>i, <2>u, <2>s DEF TypeOK, guestVars, migVars, dstVars, bootVars
  <2>2. GuestInv'
    BY <1>i, <2>u DEF GuestInv, guestVars, migVars
  <2>3. VcpuInv'
    BY <2>u, <2>l DEF VcpuInv
  <2> QED BY <2>s, <2>1, <2>2, <2>3 DEF MigrationInv
<1>3. CASE SendParams
  <2>1. [kind |-> "params"] \in Items'
    BY DEF Items
  <2> QED BY <1>3, <2>1, SendStep DEF SendParams
<1>4. CASE SendMetadata
  <2>1. [kind |-> "metadata", size |-> SentSize(guest_size)] \in Items'
    BY <1>4 DEF Items, SendMetadata, SendAndGo, guestVars
  <2> QED BY <1>4, <2>1, SendStep DEF SendMetadata
<1>5. CASE RequestFreeList \/ AwaitFreeList \/ Precopy
  <2>u. /\ UNCHANGED <<dstErr, guest_size, mem, regs, mig_type, promised, listed,
                       stream, link, vcpu, vcpu_thread_states>>
        /\ UNCHANGED guestVars /\ UNCHANGED dstVars /\ UNCHANGED bootVars
    BY <1>5 DEF RequestFreeList, AwaitFreeList, Precopy, guestVars, vcpuVars
  <2>l. /\ ~ Late /\ ~ Late' /\ (Announced => Announced')
        /\ mig # "sync" /\ mig' \in {"await", "regions", "signal"}
    BY <1>5 DEF RequestFreeList, AwaitFreeList, Precopy, Late, Announced
  <2>s. StreamInv' /\ ReceivedInv' /\ BootInv' /\ Pages' = Pages
    BY <2>u, <2>l, ThreadStep
  <2>m. /\ mem_mappings' \in {{}, mem_mappings} /\ mig_sem' \in 0 .. 1
        /\ mig_sem = 0 => mig_sem' = 0
        /\ mappings_to_be_transferred' \subseteq Pages
    BY <1>5, <1>i DEF RequestFreeList, AwaitFreeList, Precopy, TypeOK
  <2>1. TypeOK'
    BY <1>i, <2>u, <2>l, <2>s, <2>m DEF TypeOK, guestVars, dstVars, bootVars
  <2>2. GuestInv'
    BY <1>i, <2>u, <2>m DEF GuestInv, guestVars
  <2>3. VcpuInv'
    BY <1>i, <2>u, <2>l DEF VcpuInv
  <2> QED BY <2>s, <2>1, <2>2, <2>3 DEF MigrationInv
<1>6. CASE SendRegions
  <2>u. /\ UNCHANGED <<guest_size, mig_type, promised, mem_mappings>>
        /\ mig' = "precopy"
    BY <1>6 DEF SendRegions, SendAndGo, guestVars, migVars
  <2>1. RegionsSent \subseteq Pages /\ RegionsSent # {} /\ Needed \subseteq RegionsSent
    <3>1. promised \subseteq Pages /\ mem_mappings \in {{}, promised}
      BY <1>i DEF GuestInv, TypeOK
    <3>2. mig_type \in {"cold", "live"}
      BY <1>i DEF TypeOK
    <3> QED BY <1>z, <3>1, <3>2 DEF RegionsSent, Needed
  <2>2. Announced' /\ Needed' = Needed /\ Pages' = Pages
    BY <2>u DEF Announced, Needed, Pages
  <2>3. [kind |-> "regions", pages |-> RegionsSent] \in Items'
    BY <2>1, <2>2 DEF Items
  <2> QED BY <1>6, <2>3, SendStep DEF SendRegions
<1>7. CASE SignalVcpus
  <2>u. /\ UNCHANGED <<dstErr, guest_size, mem, regs, mig_type, promised, stream, link>>
        /\ UNCHANGED guestVars /\ UNCHANGED migVars /\ UNCHANGED dstVars
        /\ UNCHANGED bootVars /\ mig = "signal" /\ mig' = "sync"
        /\ vcpu_thread_states' = Blank /\ vcpu' = [c \in Cores |-> "signalled"]
    BY <1>7 DEF SignalVcpus, guestVars, migVars
  <2>l. ~ Late /\ ~ Late' /\ Announced'
    BY <2>u DEF Late, Announced
  <2>s. StreamInv' /\ ReceivedInv' /\ BootInv' /\ Pages' = Pages
    BY <2>u, <2>l, ThreadStep
  <2>1. TypeOK'
    <3>1. vcpu_thread_states' \in [Cores -> 0 .. MaxSteps]
      BY <1>z, <2>u DEF Blank
    <3> QED BY <1>i, <2>u, <2>s, <3>1 DEF TypeOK, guestVars, migVars, dstVars, bootVars
  <2>2. GuestInv'
    BY <1>i, <2>u DEF GuestInv, guestVars, migVars
  <2>3. VcpuInv'
    <3>1. vcpu_thread_states' # Null
      <4>1. DOMAIN Blank = Cores
        BY DEF Blank
      <4> QED BY <2>u, <4>1, NullIsNoState
    <3> QED BY <2>u, <2>l, <3>1 DEF VcpuInv
  <2> QED BY <2>s, <2>1, <2>2, <2>3 DEF MigrationInv
<1>8. CASE MigrationBarrier
  <2>u. /\ UNCHANGED <<dstErr, guest_size, mem, regs, mig_type, promised, stream,
                       link, vcpu_thread_states>>
        /\ UNCHANGED guestVars /\ UNCHANGED migVars /\ UNCHANGED dstVars
        /\ UNCHANGED bootVars /\ mig = "sync" /\ mig' = "copy"
        /\ vcpu' = [c \in Cores |-> "stopped"]
    BY <1>8 DEF MigrationBarrier, guestVars, migVars
  <2>l. Late' /\ Announced'
    BY <2>u DEF Late, Announced
  <2>s. StreamInv' /\ ReceivedInv' /\ BootInv' /\ Pages' = Pages
    BY <2>u, <2>l, ThreadStep
  <2>1. TypeOK'
    BY <1>i, <2>u, <2>s DEF TypeOK, guestVars, migVars, dstVars, bootVars
  <2>2. GuestInv'
    BY <1>i, <2>u DEF GuestInv, guestVars, migVars
  <2>3. VcpuInv'
    <3>1. vcpu_thread_states \in [Cores -> 0 .. MaxSteps]
      BY <1>i, <2>u DEF VcpuInv, TypeOK
    <3>2. regs \in [Cores -> 0 .. MaxSteps]
      BY <1>i DEF TypeOK
    <3>3. \A c \in Cores : vcpu_thread_states[c] = regs[c]
      BY <1>i, <1>8 DEF VcpuInv, MigrationBarrier
    <3>4. vcpu_thread_states = regs
      BY <3>1, <3>2, <3>3
    <3> QED BY <2>u, <2>l, <3>4 DEF VcpuInv
  <2> QED BY <2>s, <2>1, <2>2, <2>3 DEF MigrationInv
<1>9. CASE SendPage
  <2> DEFINE p == CHOOSE q \in mappings_to_be_transferred :
                     \A r \in mappings_to_be_transferred : q <= r
             item == [kind |-> "page", page |-> p, data |-> mem[p]]
  <2>u. /\ UNCHANGED <<dstErr, guest_size, mem, regs, mig_type, promised, link,
                       mig, mem_mappings, mig_sem, listed>>
        /\ UNCHANGED guestVars /\ UNCHANGED vcpuVars /\ UNCHANGED dstVars
        /\ UNCHANGED bootVars /\ mig = "copy" /\ Send(item)
        /\ mappings_to_be_transferred' = mappings_to_be_transferred \ {p}
        /\ mappings_to_be_transferred # {}
    BY <1>9 DEF SendPage, guestVars
  <2>p. p \in Pages /\ mem[p] \in 0 .. MaxSteps
    <3>1. mappings_to_be_transferred \subseteq Pages /\ Pages \subseteq Nat
      BY <1>i, Layout DEF TypeOK
    <3>2. p \in mappings_to_be_transferred
      BY <2>u, <3>1, FirstPage
    <3> QED BY <1>i, <3>1, <3>2 DEF TypeOK
  <2>l. Late' /\ Announced'
    BY <2>u DEF Late, Announced
  <2>s. StreamInv' /\ ReceivedInv' /\ BootInv' /\ Pages' = Pages
    <3> HIDE DEF p
    <3>1. item \in Items'
      BY <2>u, <2>p, <2>l DEF Items, Pages
    <3> HIDE DEF item
    <3> QED BY <2>u, <2>l, <3>1, ThreadStep
  <2> HIDE DEF p
  <2>1. TypeOK'
    BY <1>i, <2>u, <2>s DEF TypeOK, guestVars, vcpuVars, dstVars, bootVars
  <2>2. GuestInv'
    BY <1>i, <2>u DEF GuestInv, guestVars
  <2>3. VcpuInv'
    BY <1>i, <2>u, <2>l DEF VcpuInv, vcpuVars, Late
  <2> QED BY <2>s, <2>1, <2>2, <2>3 DEF MigrationInv
<1>10. CASE SendCpus
  <2> DEFINE item == [kind |-> "cpus", states |-> vcpu_thread_states]
  <2>u. /\ UNCHANGED <<dstErr, guest_size, mem, regs, mig_type, promised, link,
                       vcpu, mig_sem, listed, mappings_to_be_transferred>>
        /\ UNCHANGED guestVars /\ UNCHANGED dstVars /\ UNCHANGED bootVars
        /\ mig = "copy" /\ mig' = "clock" /\ Send(item)
        /\ vcpu_thread_states' = Null /\ mem_mappings' = {}
    BY <1>10 DEF SendCpus, guestVars
  <2>l. Late /\ Late' /\ Announced'
    BY <2>u DEF Late, Announced
  <2>s. StreamInv' /\ ReceivedInv' /\ BootInv' /\ Pages' = Pages
    <3>1. item \in Items'
      BY <1>i, <2>u, <2>l DEF Items, VcpuInv
    <3> HIDE DEF item
    <3> QED BY <2>u, <2>l, <3>1, ThreadStep
  <2>1. TypeOK'
    BY <1>i, <2>u, <2>s DEF TypeOK, guestVars, dstVars, bootVars
  <2>2. GuestInv'
    BY <1>i, <2>u DEF GuestInv, guestVars
  <2>3. VcpuInv'
    BY <1>i, <2>u, <2>l DEF VcpuInv
  <2> QED BY <2>s, <2>1, <2>2, <2>3 DEF MigrationInv
<1>11. CASE SendClock
  <2>1. [kind |-> "clock"] \in Items'
    BY <1>11 DEF Items, SendClock, SendAndGo, Late
  <2> QED BY <1>11, <2>1, SendStep DEF SendClock
<1>12. CASE CloseAndExit
  <2>u. /\ UNCHANGED <<dstErr, guest_size, mem, regs, mig_type, promised, stream,
                       vcpu_thread_states>>
        /\ UNCHANGED guestVars /\ UNCHANGED migVars /\ UNCHANGED dstVars
        /\ UNCHANGED bootVars /\ mig' = "exit"
        /\ vcpu' = [c \in Cores |-> "gone"]
        /\ UNCHANGED link \/ (link = "up" /\ link' = "closed")
    BY <1>12 DEF CloseAndExit, guestVars, migVars
  <2>l. Late' /\ Announced'
    BY <2>u DEF Late, Announced
  <2>s. StreamInv' /\ ReceivedInv' /\ BootInv' /\ Pages' = Pages
    BY <2>u, <2>l, ThreadStep
  <2>1. TypeOK'
    BY <1>i, <2>u, <2>s DEF TypeOK, guestVars, migVars, dstVars, bootVars
  <2>2. GuestInv'
    BY <1>i, <2>u DEF GuestInv, guestVars, migVars
  <2>3. VcpuInv'
    BY <2>u, <2>l DEF VcpuInv
  <2> QED BY <2>s, <2>1, <2>2, <2>3 DEF MigrationInv
<1> QED BY <1>1, <1>2, <1>3, <1>4, <1>5, <1>6, <1>7, <1>8, <1>9, <1>10, <1>11,
           <1>12 DEF MigrationThread

-----------------------------------------------------------------------------
(* The destination. *)

\* The destination reads one kind of item in each of its states.
LEMMA ExpectedKind ==
    ASSUME TypeOK
    PROVE  /\ Expected = "page" <=> dst = "pages" /\ dstRegions # {}
           /\ Expected = "cpus" <=> dst = "pages" /\ dstRegions = {}
           /\ \A k \in {"params", "metadata", "regions", "clock"} :
                 Expected = k <=> dst = k
<1>1. CASE dst = "pages" /\ dstRegions # {}
    BY <1>1 DEF Expected
<1>2. CASE dst = "pages" /\ dstRegions = {}
    BY <1>2 DEF Expected
<1>3. CASE dst # "pages"
  <2>1. Expected = dst
    BY <1>3 DEF Expected
  <2> QED BY <1>3, <2>1 DEF TypeOK
<1> QED BY <1>1, <1>2, <1>3

\* The item received is one that may be in flight, and the rest stays in flight.
LEMMA Received ==
    ASSUME MigrationInv, NEW k, Receives(k)
    PROVE  /\ GuestInv' /\ VcpuInv'
           /\ UNCHANGED <<mem, regs, link, dstErr>> /\ UNCHANGED bootVars
           /\ Late' = Late /\ Announced' = Announced /\ Needed' = Needed
           /\ Pages' = Pages
           /\ Head(stream) \in Items /\ Head(stream).kind = k
           /\ Expected = k
           /\ link # "reset"
           /\ stream' \in Seq(Items')
<1>i. GuestInv /\ VcpuInv /\ StreamInv
    BY DEF MigrationInv
<1>u. /\ UNCHANGED <<guestVars, mig, migVars, vcpuVars>>
      /\ UNCHANGED <<mem, regs, link, dstErr>> /\ UNCHANGED bootVars
      /\ stream # <<>> /\ Head(stream).kind = k /\ Expected = k
      /\ stream' = Tail(stream)
    BY DEF Receives, guestVars
<1>1. /\ GuestInv' /\ VcpuInv'
      /\ Late' = Late /\ Announced' = Announced /\ Needed' = Needed
      /\ Pages' = Pages /\ Items' = Items
    BY <1>i, <1>u, DestinationStep
<1>2. Head(stream) \in Items /\ Tail(stream) \in Seq(Items)
    BY <1>i, <1>u DEF StreamInv
<1> QED BY <1>i, <1>u, <1>1, <1>2 DEF StreamInv

\* What the items of each kind say.
LEMMA ItemKinds ==
    ASSUME NEW x \in Items
    PROVE  /\ x.kind = "metadata" => x.size = SentSize(guest_size)
           /\ x.kind = "regions" => /\ x.pages \subseteq Pages /\ x.pages # {}
                                    /\ Announced /\ Needed \subseteq x.pages
           /\ x.kind = "page" => /\ x.page \in Pages /\ Late
                                 /\ x.data = mem[x.page]
           /\ x.kind = "cpus" => Late /\ x.states = regs
           /\ x.kind = "clock" => Late
BY DEF Items

\* What the destination takes from the stream is the guest that was stopped.
LEMMA ReceiveKeeps ==
    MigrationInv /\ (RecvParams \/ RecvMetadata \/ RecvRegions \/ RecvPage
                        \/ RecvCpus \/ RecvClock) => MigrationInv'
<1> SUFFICES ASSUME MigrationInv,
                    RecvParams \/ RecvMetadata \/ RecvRegions \/ RecvPage
                       \/ RecvCpus \/ RecvClock
             PROVE  MigrationInv'
    OBVIOUS
<1>i. TypeOK /\ GuestInv /\ VcpuInv /\ StreamInv /\ ReceivedInv /\ BootInv
    BY DEF MigrationInv
<1> DEFINE x == Head(stream)
\* What all six have in common.
<1>k. ASSUME NEW k, Receives(k), dst # "boot", dst' # "listen"
      PROVE  /\ GuestInv' /\ VcpuInv' /\ StreamInv'
             /\ UNCHANGED <<mem, regs, link, dstErr>> /\ UNCHANGED bootVars
             /\ Late' = Late /\ Announced' = Announced /\ Needed' = Needed
             /\ Pages' = Pages
             /\ x \in Items /\ x.kind = k
             /\ (dst' = "boot" => dstStates' # Null) => BootInv'
  <2>1. /\ GuestInv' /\ VcpuInv'
        /\ UNCHANGED <<mem, regs, link, dstErr>> /\ UNCHANGED bootVars
        /\ Late' = Late /\ Announced' = Announced /\ Needed' = Needed
        /\ Pages' = Pages /\ x \in Items /\ x.kind = k /\ link # "reset"
        /\ stream' \in Seq(Items')
    BY <1>k, Received
  <2>2. StreamInv'
    BY <2>1, <1>k DEF StreamInv
  <2>3. ASSUME dst' = "boot" => dstStates' # Null PROVE BootInv'
    BY <1>i, <1>k, <2>1, <2>3 DEF BootInv, NoColdBoot, bootVars
  <2> HIDE DEF x
  <2> QED BY <2>1, <2>2, <2>3
\* The variables the type invariant is about and no receipt changes.
<1>u. UNCHANGED <<guestVars, mig, migVars, vcpuVars, link, bootVars>>
    BY DEF RecvParams, RecvMetadata, RecvRegions, RecvPage, RecvCpus, RecvClock, Receives
<1>t. ASSUME dst' \in {"listen", "params", "metadata", "regions", "pages", "clock",
                       "boot", "garbled"},
             Pages' = Pages,
             DOMAIN dstMem' \subseteq 0 .. WordMod - 1,
             dstStates' \in [Cores -> 0 .. MaxSteps] \cup {Null}
      PROVE  TypeOK'
    BY <1>i, <1>u, <1>t DEF TypeOK, guestVars, migVars, vcpuVars, bootVars
<1>1. CASE RecvParams
  <2>u. /\ Receives("params") /\ dst = "params" /\ dst' = "metadata"
        /\ UNCHANGED <<dstSize, dstRegions, dstMem, dstStates, dstClock>>
    BY <1>1, <1>i, ExpectedKind DEF RecvParams, Receives
  <2>1. GuestInv' /\ VcpuInv' /\ StreamInv' /\ BootInv' /\ Pages' = Pages
    BY <1>k, <2>u
  <2>2. TypeOK'
    BY <1>i, <1>t, <2>u, <2>1 DEF TypeOK
  <2>3. ReceivedInv'
    BY <2>u DEF ReceivedInv, SizeKept
  <2> QED BY <2>1, <2>2, <2>3 DEF MigrationInv
<1>2. CASE RecvMetadata
  <2>u. /\ Receives("metadata") /\ dst = "metadata" /\ dst' \in {"regions", "garbled"}
        /\ dstSize' = MappedSize(x.size)
        /\ dstMem' = [p \in SlotPages(dstSize') |-> 0]
        /\ UNCHANGED <<dstRegions, dstStates, dstClock>>
    BY <1>2, <1>i, ExpectedKind DEF RecvMetadata, Receives
  <2>1. GuestInv' /\ VcpuInv' /\ StreamInv' /\ BootInv' /\ Pages' = Pages
        /\ x \in Items /\ x.kind = "metadata"
    BY <1>k, <2>u
  <2>s. dstSize' = guest_size /\ DOMAIN dstMem' = Pages /\ Pages \subseteq 0 .. WordMod - 1
    <3>1. x.size = SentSize(guest_size)
      BY <2>1, ItemKinds
    <3> QED BY <1>i, <2>u, <3>1, Layout
  <2>g. guest_size' = guest_size
    BY <1>u DEF guestVars
  <2>2. TypeOK'
    BY <1>i, <1>t, <2>u, <2>s, <2>1 DEF TypeOK
  <2>3. ReceivedInv'
    BY <2>u, <2>1, <2>s, <2>g DEF ReceivedInv, SizeKept
  <2> QED BY <2>1, <2>2, <2>3 DEF MigrationInv
<1>3. CASE RecvRegions
  <2>u. /\ Receives("regions") /\ dst = "regions" /\ dst' = "pages"
        /\ dstRegions' = x.pages
        /\ UNCHANGED <<dstSize, dstMem, dstStates, dstClock>>
    BY <1>3, <1>i, ExpectedKind DEF RecvRegions, Receives
  <2>1. GuestInv' /\ VcpuInv' /\ StreamInv' /\ BootInv' /\ Pages' = Pages
        /\ x \in Items /\ x.kind = "regions"
        /\ Late' = Late /\ Announced' = Announced /\ Needed' = Needed
    BY <1>k, <2>u
  <2>s. dstRegions' # {} /\ Announced /\ Needed \subseteq dstRegions'
    BY <2>u, <2>1, ItemKinds
  <2>g. guest_size' = guest_size
    BY <1>u DEF guestVars
  <2>2. TypeOK'
    BY <1>i, <1>t, <2>u, <2>1 DEF TypeOK
  <2>3. ReceivedInv'
    BY <1>i, <2>u, <2>1, <2>s, <2>g DEF ReceivedInv, SizeKept
  <2> QED BY <2>1, <2>2, <2>3 DEF MigrationInv
<1>4. CASE RecvPage
  <2>u. /\ Receives("page") /\ dst = "pages" /\ dstRegions # {}
        /\ dstMem' = [dstMem EXCEPT ![x.page] = x.data]
        /\ dstRegions' = dstRegions \ {x.page}
        /\ UNCHANGED <<dst, dstSize, dstStates, dstClock>>
    BY <1>4, <1>i, ExpectedKind DEF RecvPage, Receives
  <2>1. GuestInv' /\ VcpuInv' /\ StreamInv' /\ BootInv' /\ Pages' = Pages
        /\ x \in Items /\ x.kind = "page"
        /\ Late' = Late /\ Announced' = Announced /\ Needed' = Needed
        /\ UNCHANGED <<mem, link>>
    BY <1>k, <2>u
  <2>s. x.page \in Pages /\ Late /\ x.data = mem[x.page]
    BY <2>1, ItemKinds
  <2>g. guest_size' = guest_size /\ DOMAIN dstMem = Pages
    BY <1>i, <1>u, <2>u DEF guestVars, ReceivedInv, SizeKept
  <2> HIDE DEF x
  <2>2. TypeOK'
    BY <1>i, <1>t, <2>u, <2>1 DEF TypeOK
  <2>4. ASSUME link # "reset", NEW p \in Needed
        PROVE  p \in dstRegions' \/ dstMem'[p] = mem[p]
    <3>1. p \in dstRegions \/ dstMem[p] = mem[p]
      BY <1>i, <2>4, <2>u DEF ReceivedInv
    <3>2. CASE p = x.page
      BY <3>2, <2>u, <2>s, <2>g
    <3>3. CASE p # x.page
      BY <3>1, <3>3, <2>u, <2>g
    <3> QED BY <3>2, <3>3
  <2>5. Late' /\ Announced'
    BY <2>1, <2>s DEF Announced
  <2>3. ReceivedInv'
    BY <1>i, <2>u, <2>1, <2>g, <2>4, <2>5 DEF ReceivedInv, SizeKept
  <2> QED BY <2>1, <2>2, <2>3 DEF MigrationInv
<1>5. CASE RecvCpus
  <2>u. /\ Receives("cpus") /\ dst = "pages" /\ dstRegions = {}
        /\ dst' \in {"clock", "boot"} /\ dstStates' = x.states
        /\ UNCHANGED <<dstSize, dstRegions, dstMem, dstClock>>
    BY <1>5, <1>i, ExpectedKind DEF RecvCpus, Receives
  <2>0. x \in Items /\ x.kind = "cpus" /\ UNCHANGED <<mem, regs, link>>
    BY <1>k, <2>u
  <2>s. Late /\ dstStates' = regs /\ dstStates' # Null
    <3>1. DOMAIN regs = Cores
      BY <1>i DEF TypeOK
    <3>2. Late /\ dstStates' = regs
      BY <2>u, <2>0, ItemKinds
    <3> QED BY <3>1, <3>2, NullIsNoState
  <2>1. GuestInv' /\ VcpuInv' /\ StreamInv' /\ BootInv' /\ Pages' = Pages
        /\ Late' = Late /\ Announced' = Announced /\ Needed' = Needed
    BY <1>k, <2>u, <2>s
  <2>g. guest_size' = guest_size
    BY <1>u DEF guestVars
  <2>2. TypeOK'
    BY <1>i, <1>t, <2>u, <2>1, <2>s DEF TypeOK
  <2>3. ReceivedInv'
    BY <1>i, <2>u, <2>0, <2>1, <2>s, <2>g DEF ReceivedInv, SizeKept
  <2> QED BY <2>1, <2>2, <2>3 DEF MigrationInv
<1>6. CASE RecvClock
  <2>u. /\ Receives("clock") /\ dst = "clock" /\ dst' = "boot"
        /\ UNCHANGED <<dstSize, dstRegions, dstMem, dstStates, dstClock>>
    BY <1>6, <1>i, ExpectedKind DEF RecvClock, Receives
  <2>s. dstStates' # Null /\ Late
    BY <1>i, <2>u DEF ReceivedInv
  <2>1. GuestInv' /\ VcpuInv' /\ StreamInv' /\ BootInv' /\ Pages' = Pages
        /\ Late' = Late /\ Announced' = Announced /\ Needed' = Needed
        /\ UNCHANGED <<mem, regs, link>>
    BY <1>k, <2>u, <2>s
  <2>g. guest_size' = guest_size
    BY <1>u DEF guestVars
  <2>2. TypeOK'
    BY <1>i, <1>t, <2>u, <2>1 DEF TypeOK
  <2>3. ReceivedInv'
    BY <1>i, <2>u, <2>1, <2>s, <2>g DEF ReceivedInv, SizeKept
  <2> QED BY <2>1, <2>2, <2>3 DEF MigrationInv
<1> QED BY <1>1, <1>2, <1>3, <1>4, <1>5, <1>6

\* A lost connection, or bytes taken for something else, do not start a guest
\* that is still at work elsewhere.
LEMMA FailureKeeps == MigrationInv /\ (Desync \/ RecvError) => MigrationInv'
<1> SUFFICES ASSUME MigrationInv, Desync \/ RecvError PROVE MigrationInv'
    OBVIOUS
<1>i. TypeOK /\ GuestInv /\ VcpuInv /\ StreamInv /\ ReceivedInv /\ BootInv
    BY DEF MigrationInv
<1>u. /\ UNCHANGED <<guestVars, mig, migVars, vcpuVars>>
      /\ UNCHANGED <<guest_size, stream, link, dstSize, dstMem, dstClock>>
      /\ UNCHANGED bootVars
    BY DEF Desync, RecvError, guestVars
<1>1. /\ GuestInv' /\ VcpuInv' /\ Late' = Late /\ Announced' = Announced
      /\ Needed' = Needed /\ Pages' = Pages /\ Items' = Items
    BY <1>i, <1>u, DestinationStep
<1>b. DOMAIN Blank = Cores /\ Blank \in [Cores -> 0 .. MaxSteps] /\ Blank # Null
  <2>1. DOMAIN Blank = Cores /\ Blank \in [Cores -> 0 .. MaxSteps]
    BY MigrationAssumption DEF Blank
  <2> QED BY <2>1, NullIsNoState
<1>d. /\ dst # "boot" /\ dst' # "listen"
      /\ dst' \in {"metadata", "pages", "clock", "boot", "garbled"}
      /\ dstStates' \in {dstStates, Blank}
  <2>1. CASE Desync
    BY <2>1 DEF Desync
  <2>2. CASE RecvError
    BY <2>2, <1>i, ExpectedKind DEF RecvError
  <2> QED BY <2>1, <2>2
<1>2. TypeOK'
    BY <1>i, <1>u, <1>1, <1>b, <1>d
    DEF TypeOK, guestVars, migVars, vcpuVars, bootVars
<1>3. StreamInv'
    BY <1>i, <1>u, <1>1, <1>d DEF StreamInv
<1>4. /\ ReceivedInv'
      /\ dst' = "boot" => dstStates' # Null
  <2>1. CASE Desync
    BY <2>1 DEF Desync, ReceivedInv, SizeKept
  <2>2. CASE RecvError
    <3>0. link' = "reset" /\ dstErr'
      BY <2>2, <1>u DEF RecvError
    <3>1. CASE dst \in {"params", "metadata", "regions"}
      BY <1>i, <1>u, <1>1, <2>2, <3>0, <3>1, ExpectedKind
      DEF RecvError, ReceivedInv, SizeKept
    <3>2. CASE dst = "pages" /\ dstRegions # {}
      <4>1. dst' = "pages" /\ UNCHANGED dstStates
        BY <1>i, <2>2, <3>2, ExpectedKind DEF RecvError
      <4> QED BY <1>i, <1>u, <1>1, <3>0, <3>2, <4>1 DEF ReceivedInv, SizeKept
    <3>3. CASE dst = "pages" /\ dstRegions = {}
      <4>1. /\ dst' \in {"clock", "boot"} /\ dstStates' = Blank /\ Late
        BY <1>i, <2>2, <3>3, ExpectedKind DEF RecvError, ReceivedInv
      <4> QED BY <1>i, <1>u, <1>1, <1>b, <3>0, <3>3, <4>1 DEF ReceivedInv, SizeKept
    <3>4. CASE dst = "clock"
      <4>1. dst' = "boot" /\ UNCHANGED dstStates
        BY <1>i, <2>2, <3>4, ExpectedKind DEF RecvError
      <4> QED BY <1>i, <1>u, <1>1, <3>0, <3>4, <4>1 DEF ReceivedInv, SizeKept
    <3> QED BY <1>i, <2>2, <3>1, <3>2, <3>3, <3>4, ExpectedKind DEF RecvError
  <2> QED BY <2>1, <2>2
<1>5. BootInv'
  <2>1. \A c \in Cores : dstVcpu'[c] = "none"
    BY <1>i, <1>u, <1>d DEF BootInv, bootVars
  <2>2. 0 \in Cores
    BY MigrationAssumption DEF Cores
  <2> QED BY <1>4, <2>1, <2>2 DEF BootInv, NoColdBoot
<1> QED BY <1>1, <1>2, <1>3, <1>4, <1>5 DEF MigrationInv

\* The destination's vCPUs all restore before the states are freed.
LEMMA RestoreKeeps ==
    MigrationInv /\ (StartVcpus \/ RestoreBarrier \/ FreeStates
                        \/ \E c \in Cores : RestoreOrInit(c)) => MigrationInv'
<1> SUFFICES ASSUME MigrationInv,
                    StartVcpus \/ RestoreBarrier \/ FreeStates
                       \/ \E c \in Cores : RestoreOrInit(c)
             PROVE  MigrationInv'
    OBVIOUS
<1>i. TypeOK /\ GuestInv /\ VcpuInv /\ StreamInv /\ ReceivedInv /\ BootInv
    BY DEF MigrationInv
<1>u. /\ UNCHANGED <<guestVars, mig, migVars, vcpuVars>>
      /\ UNCHANGED <<guest_size, mem, regs, stream, link, dstErr, dst, dstSize,
                     dstRegions, dstMem, dstClock>>
    BY DEF StartVcpus, RestoreBarrier, FreeStates, RestoreOrInit, DstUnchanged, guestVars
<1>1. /\ GuestInv' /\ VcpuInv' /\ Late' = Late /\ Announced' = Announced
      /\ Needed' = Needed /\ Pages' = Pages /\ Items' = Items
    BY <1>i, <1>u, DestinationStep
<1>z. 0 \in Cores
    BY MigrationAssumption DEF Cores
<1>b. dst = "boot" /\ (dstStates' = dstStates \/ dstStates' = Null)
  <2>1. StartVcpus \/ \E c \in Cores : dstVcpu[c] # "none"
    BY <1>z DEF RestoreBarrier, FreeStates, RestoreOrInit
  <2>2. dst = "boot"
    BY <1>i, <2>1 DEF BootInv, StartVcpus
  <2> QED BY <2>2 DEF StartVcpus, RestoreBarrier, FreeStates, RestoreOrInit
<1>2. StreamInv'
    BY <1>i, <1>u, <1>1 DEF StreamInv
<1>3. ReceivedInv'
    BY <1>i, <1>u, <1>1, <1>b DEF ReceivedInv, SizeKept
\* The destination's threads alone may change what the types are about.
<1>t. ASSUME dstVcpu' \in [Cores -> {"none", "loop", "restored", "cold", "free", "run"}],
             dstRegs' \in [Cores -> 0 .. MaxSteps]
      PROVE  TypeOK'
    BY <1>i, <1>u, <1>1, <1>b, <1>t DEF TypeOK, guestVars, migVars, vcpuVars
<1>4. CASE StartVcpus
  <2>1. /\ \A c \in Cores : dstVcpu[c] = "none" /\ dstVcpu'[c] = "loop"
        /\ dstVcpu' = [c \in Cores |-> "loop"] /\ UNCHANGED <<dstStates, dstRegs>>
    BY <1>4 DEF StartVcpus
  <2>2. TypeOK'
    BY <1>i, <1>t, <2>1 DEF TypeOK
  <2>3. BootInv'
    BY <1>i, <1>u, <1>z, <1>b, <2>1 DEF BootInv, NoColdBoot
  <2> QED BY <1>1, <1>2, <1>3, <2>2, <2>3 DEF MigrationInv
<1>5. CASE RestoreBarrier
  <2>1. /\ \A c \in Cores : dstVcpu[c] = "restored"
        /\ dstVcpu' = [c \in Cores |-> IF c = 0 THEN "free" ELSE "run"]
        /\ UNCHANGED <<dstStates, dstRegs>>
    BY <1>5 DEF RestoreBarrier
  <2>2. TypeOK'
    BY <1>i, <1>t, <2>1 DEF TypeOK
  <2>3. dstStates' # Null
    BY <1>i, <1>z, <1>b, <2>1 DEF BootInv
  <2>4. BootInv'
    BY <1>i, <1>u, <1>z, <1>b, <2>1, <2>3 DEF BootInv, NoColdBoot
  <2> QED BY <1>1, <1>2, <1>3, <2>2, <2>4 DEF MigrationInv
<1>6. CASE FreeStates
  <2>1. /\ dstVcpu[0] = "free" /\ dstVcpu' = [dstVcpu EXCEPT ![0] = "run"]
        /\ UNCHANGED dstRegs /\ DOMAIN dstVcpu = Cores
    BY <1>6, <1>i DEF FreeStates, TypeOK
  <2>2. TypeOK'
    BY <1>i, <1>t, <1>z, <2>1 DEF TypeOK
  <2>3. \A c \in Cores : dstVcpu'[c] = "run"
    BY <1>i, <1>z, <2>1 DEF BootInv
  <2>4. link # "reset" => \A c \in Cores : dstRegs[c] = regs[c]
    BY <1>i, <1>z, <2>1 DEF BootInv
  <2>5. BootInv'
    BY <1>u, <1>z, <1>b, <2>1, <2>3, <2>4 DEF BootInv, NoColdBoot
  <2> QED BY <1>1, <1>2, <1>3, <2>2, <2>5 DEF MigrationInv
<1>7. ASSUME NEW c \in Cores, RestoreOrInit(c) PROVE MigrationInv'
  <2>1. dstStates # Null
    BY <1>i, <1>b, <1>7 DEF BootInv, RestoreOrInit
  <2>2. /\ dstVcpu[c] = "loop" /\ UNCHANGED dstStates
        /\ dstRegs' = [dstRegs EXCEPT ![c] = dstStates[c]]
        /\ dstVcpu' = [dstVcpu EXCEPT ![c] = "restored"]
        /\ DOMAIN dstVcpu = Cores /\ DOMAIN dstRegs = Cores
    BY <1>i, <1>7, <2>1 DEF RestoreOrInit, TypeOK
  <2>3. TypeOK'
    <3>1. dstStates[c] \in 0 .. MaxSteps
      BY <1>i, <2>1 DEF TypeOK
    <3>2. dstRegs' \in [Cores -> 0 .. MaxSteps]
      BY <1>i, <2>2, <3>1 DEF TypeOK
    <3>3. dstVcpu' \in [Cores -> {"none", "loop", "restored", "cold", "free", "run"}]
      BY <1>i, <2>2 DEF TypeOK
    <3> QED BY <1>t, <3>2, <3>3
  <2>4. link # "reset" => dstStates = regs
    BY <1>i, <1>b, <2>1 DEF ReceivedInv
  <2>5. dstVcpu[0] # "free"
    BY <1>i, <1>z, <2>2 DEF BootInv
  <2>6. BootInv'
    BY <1>i, <1>u, <1>z, <1>b, <2>1, <2>2, <2>4, <2>5 DEF BootInv, NoColdBoot
  <2> QED BY <1>1, <1>2, <1>3, <2>3, <2>6 DEF MigrationInv
<1> QED BY <1>4, <1>5, <1>6, <1>7

-----------------------------------------------------------------------------
(* The theorems. *)

\* Every step keeps the invariant.
LEMMA InvStep == MigrationInv /\ [Next]_vars => MigrationInv'
<1> SUFFICES ASSUME MigrationInv, [Next]_vars PROVE MigrationInv'
    OBVIOUS
<1>1. CASE UNCHANGED vars
  <2>1. Items' = Items /\ Pages' = Pages /\ Late' = Late /\ Announced' = Announced
        /\ Needed' = Needed
    BY <1>1 DEF vars, guestVars, migVars, Items, Needed, Pages, Late, Announced
  <2> USE <1>1, <2>1 DEF vars, guestVars, migVars, vcpuVars, dstVars, bootVars
  <2>2. TypeOK'
    BY DEF MigrationInv, TypeOK
  <2>3. GuestInv' /\ VcpuInv'
    BY DEF MigrationInv, GuestInv, VcpuInv
  <2>4. StreamInv' /\ ReceivedInv' /\ BootInv'
    BY DEF MigrationInv, StreamInv, ReceivedInv, SizeKept, BootInv, NoColdBoot
  <2> QED BY <2>2, <2>3, <2>4 DEF MigrationInv
<1>2. CASE Next
    BY <1>2, GuestKeeps, VcpuThreadKeeps, LinkKeeps, MigrationThreadKeeps,
       ReceiveKeeps, FailureKeeps, RestoreKeeps DEF Next, Destination
<1> QED BY <1>1, <1>2

\* The invariant holds in every state.
LEMMA InvHolds == Spec => []MigrationInv
BY InvInit, InvStep, PTL DEF Spec

\* Both processes and the connection keep their types.
THEOREM TypesKept == Spec => []TypeOK
<1>1. MigrationInv => TypeOK
    BY DEF MigrationInv
<1> QED BY <1>1, InvHolds, PTL

\* The guest never runs on both hosts, whenever the connection breaks.
THEOREM GuestNeverTwice == Spec => []NeverTwice
<1>1. MigrationInv => NeverTwice
    BY DEF MigrationInv, ReceivedInv, VcpuInv, NeverTwice
<1> QED BY <1>1, InvHolds, PTL

\* No vCPU of the destination finds the states freed and starts the kernel anew.
THEOREM EveryVcpuResumes == Spec => []NoColdBoot
<1>1. MigrationInv => NoColdBoot
    BY DEF MigrationInv, BootInv
<1> QED BY <1>1, InvHolds, PTL

\* The destination computes the guest's size and memory slots of the source,
\* for every size and gap, the sizes for which the subtraction wraps included.
THEOREM GuestSizeKept == Spec => []SizeKept
<1>1. MigrationInv => SizeKept
    BY DEF MigrationInv, ReceivedInv
<1> QED BY <1>1, InvHolds, PTL

\* Over a connection that held the destination starts exactly the guest that was
\* stopped at the source.
THEOREM SnapshotIsExact == Spec => []ExactSnapshot
<1>1. MigrationInv => ExactSnapshot
  <2> SUFFICES ASSUME MigrationInv, dst = "boot", link # "reset"
               PROVE  ExactSnapshot
    BY DEF ExactSnapshot
  <2>i. TypeOK /\ GuestInv /\ ReceivedInv /\ BootInv
    BY DEF MigrationInv
  <2>1. (IF mig_type = "cold" THEN promised ELSE allocated) \subseteq Needed
    BY <2>i DEF Needed, TypeOK
  <2>2. promised \subseteq Pages /\ allocated \subseteq Pages /\ DOMAIN dstMem = Pages
    BY <2>i DEF TypeOK, GuestInv, ReceivedInv, SizeKept
  <2>3. /\ \A p \in Needed : dstMem[p] = mem[p]
        /\ dstStates \in {regs, Null}
    BY <2>i DEF ReceivedInv
  <2>4. \A c \in Cores :
           dstVcpu[c] \in {"restored", "free", "run"} => dstRegs[c] = regs[c]
    BY <2>i DEF BootInv
  <2> QED BY <2>1, <2>2, <2>3, <2>4 DEF ExactSnapshot
<1> QED BY <1>1, InvHolds, PTL
=============================================================================
