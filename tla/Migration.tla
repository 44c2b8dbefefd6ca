------------------------------ MODULE Migration ------------------------------
(***************************************************************************)
(* Migration of a running guest over TCP.                                  *)
(*                                                                         *)
(* Source: SIGUSR1 wakes the migration thread, which connects, sends the   *)
(* parameters and the metadata, asks the guest for its free list, sends    *)
(* the list of memory regions, stops the vCPUs, and sends the regions'     *)
(* contents, the vCPU states and the clock.  Each vCPU thread saves its    *)
(* state in a signal handler, between two barriers.                        *)
(*                                                                         *)
(* Destination: reads the same items in the same order and starts one vCPU *)
(* thread per state; each restores its vCPU, and the main thread frees the *)
(* states after a barrier.                                                 *)
(*                                                                         *)
(* The connection is a queue of items.  A page number stands for a piece   *)
(* of guest memory above the first 8 MB, a version for its contents.  The  *)
(* guest is external: its steps write pages and change registers.          *)
(***************************************************************************)
EXTENDS GuestMemory, Sequences

CONSTANTS
    NCores,
    MemSizes,        \* values of HERMIT_MEM
    Types,           \* values of "type:" in HERMIT_MIGRATION_PARAMS
    MaxSteps         \* bound on the guest's steps

ASSUME MigrationAssumption ==
    /\ NCores \in Nat \ {0} /\ MaxSteps \in Nat
    /\ MemSizes \subseteq 1 .. WordMod - GapSize - 1   \* else mmap fails
    /\ Types \subseteq {"cold", "live"}

VARIABLES
    guest_size, allocated, mem, regs, steps,  \* the guest at the source
    usr1,                \* SIGUSR1 is pending
    mig,                 \* the migration thread
    mig_type,
    mem_mappings,        \* pages of the chunks from the free list
    mig_sem,
    listed,              \* the guest has sent its free list
    promised,            \* history: the pages in use at that time
    mappings_to_be_transferred,
    vcpu,                \* the source's vCPU threads
    vcpu_thread_states,
    srcClock, dstClock,  \* cap_adjust_clock_stable on either host
    stream,              \* sent and not yet received
    link,                \* "none", "up", "closed" by the source, "reset"
    srcErr, dstErr,      \* the reset has been reported to this side
    dst,                 \* the destination's main thread
    dstSize, dstRegions, dstMem, dstStates,
    dstVcpu, dstRegs

guestVars == <<guest_size, allocated, mem, regs, steps>>
migVars == <<mig_type, mem_mappings, mig_sem, listed, promised,
             mappings_to_be_transferred, srcClock>>
vcpuVars == <<vcpu, vcpu_thread_states>>
dstVars == <<dst, dstSize, dstRegions, dstMem, dstStates, dstClock>>
bootVars == <<dstVcpu, dstRegs>>
vars == <<guestVars, usr1, mig, migVars, vcpuVars, stream, link, srcErr,
          dstErr, dstVars, bootVars>>

Cores == 0 .. NCores - 1
Pages == PhysPages(guest_size)     \* the regions of a complete transfer
Null == <<>>                       \* vcpu_thread_states == NULL
Blank == [c \in Cores |-> 0]       \* a calloc'ed array of states

Init ==
    /\ \E m \in MemSizes : guest_size = MappedSize(m)
    /\ KvmAccepts(guest_size)
    /\ allocated = {0}
    /\ mem = [p \in SlotPages(guest_size) |-> 0] /\ regs = Blank /\ steps = 0
    /\ usr1 = FALSE
    /\ mig = "wait" /\ mig_type \in Types
    /\ mem_mappings = {} /\ mig_sem = 0 /\ listed = FALSE /\ promised = {}
    /\ mappings_to_be_transferred = {}
    /\ vcpu = [c \in Cores |-> "run"] /\ vcpu_thread_states = Null
    /\ srcClock \in BOOLEAN /\ dstClock \in BOOLEAN
    /\ stream = <<>> /\ link = "none" /\ srcErr = FALSE /\ dstErr = FALSE
    /\ dst = "listen" /\ dstSize = 0 /\ dstRegions = {}
    /\ dstMem = [p \in {} |-> 0] /\ dstStates = Null
    /\ dstVcpu = [c \in Cores |-> "none"] /\ dstRegs = Blank

-----------------------------------------------------------------------------
(* The guest, its answer to the request for the free list, and the network. *)

\* One step of a vCPU writes a page, which it may have to allocate.  A vCPU
\* that has been signalled runs on until its thread takes the signal.
GuestStep(c, p) ==
    /\ vcpu[c] \in {"run", "signalled"} /\ steps < MaxSteps
    /\ steps' = steps + 1
    /\ mem' = [mem EXCEPT ![p] = steps']
    /\ regs' = [regs EXCEPT ![c] = steps']
    /\ allocated' = allocated \cup {p}
    /\ UNCHANGED <<guest_size, usr1, mig, migVars, vcpuVars, stream, link,
                   srcErr, dstErr, dstVars, bootVars>>

\* The hypercall FREELIST: a valid list gives mem_mappings its chunks.
FreeList(c, valid) ==
    /\ vcpu[c] = "run" /\ mig = "await" /\ ~ listed
    /\ listed' = TRUE /\ promised' = allocated
    /\ mem_mappings' = IF valid THEN allocated ELSE mem_mappings
    /\ mig_sem' = mig_sem + 1
    /\ UNCHANGED <<guestVars, usr1, mig, mig_type, srcClock,
                   mappings_to_be_transferred, vcpuVars, stream, link, srcErr,
                   dstErr, dstVars, bootVars>>

\* What is in flight is lost; each side learns of it once, as -1.
Reset ==
    /\ link = "up"
    /\ link' = "reset" /\ stream' = <<>>
    /\ UNCHANGED <<guestVars, usr1, mig, migVars, vcpuVars, srcErr, dstErr,
                   dstVars, bootVars>>

-----------------------------------------------------------------------------
(* Source: migration_handler. *)

Request ==
    /\ ~ usr1 /\ mig = "wait"
    /\ usr1' = TRUE
    /\ UNCHANGED <<guestVars, mig, migVars, vcpuVars, stream, link, srcErr,
                   dstErr, dstVars, bootVars>>

\* sigwait returns; "Could not connect to the destination", wait again.
ConnectFails ==
    /\ mig = "wait" /\ usr1
    /\ usr1' = FALSE
    /\ UNCHANGED <<guestVars, mig, migVars, vcpuVars, stream, link, srcErr,
                   dstErr, dstVars, bootVars>>

Connect ==
    /\ mig = "wait" /\ usr1 /\ dst = "listen"
    /\ usr1' = FALSE /\ mig' = "params" /\ link' = "up" /\ dst' = "params"
    /\ UNCHANGED <<guestVars, migVars, vcpuVars, stream, srcErr, dstErr,
                   dstSize, dstRegions, dstMem, dstStates, dstClock,
                   bootVars>>

\* send_data of one item.  A send on a reset connection returns -1, which the
\* loop takes for a very large number of bytes sent.
Send(item) ==
    \/ link = "up" /\ stream' = Append(stream, item) /\ UNCHANGED srcErr
    \/ link = "reset" /\ ~ srcErr /\ srcErr' = TRUE /\ UNCHANGED stream

\* The next send raises SIGPIPE, which ends the process and its guest.
BrokenPipe ==
    /\ link = "reset" /\ srcErr
    /\ mig \in {"params", "metadata", "regions", "copy", "clock"}
    /\ mig' = "dead" /\ vcpu' = [c \in Cores |-> "gone"]
    /\ UNCHANGED <<guestVars, usr1, migVars, vcpu_thread_states, stream, link,
                   srcErr, dstErr, dstVars, bootVars>>

\* One item is sent and the thread goes on.
SendAndGo(from, item, to) ==
    /\ mig = from /\ Send(item) /\ mig' = to
    /\ UNCHANGED <<guestVars, usr1, migVars, vcpuVars, link, dstErr, dstVars,
                   bootVars>>

SendParams == SendAndGo("params", [kind |-> "params"], "metadata")

SendMetadata ==
    SendAndGo("metadata",
              [kind |-> "metadata", size |-> SentSize(guest_size)], "request")

\* determine_guest_allocations: an interrupt asks the guest for its free list.
RequestFreeList ==
    /\ mig = "request"
    /\ mem_mappings' = {}
    /\ \/ mig' = "await"
       \/ mig' = "regions"    \* write(mig_efd) fails
    /\ UNCHANGED <<guestVars, usr1, mig_type, mig_sem, listed, promised,
                   mappings_to_be_transferred, srcClock, vcpuVars, stream,
                   link, srcErr, dstErr, dstVars, bootVars>>

\* sem_wait(&mig_sem).
AwaitFreeList ==
    /\ mig = "await" /\ mig_sem > 0
    /\ mig_sem' = mig_sem - 1 /\ mig' = "regions"
    /\ UNCHANGED <<guestVars, usr1, mig_type, mem_mappings, listed, promised,
                   mappings_to_be_transferred, srcClock, vcpuVars, stream,
                   link, srcErr, dstErr, dstVars, bootVars>>

\* Mutant of RegionsSent: a live migration announces the allocated regions.
RegionsSentCold == IF mem_mappings = {} THEN Pages ELSE mem_mappings

\* The regions that send_mem_regions announces.
RegionsSent ==
    IF mig_type = "live" \/ mem_mappings = {} THEN Pages ELSE mem_mappings

SendRegions ==
    SendAndGo("regions", [kind |-> "regions", pages |-> RegionsSent], "precopy")

\* precopy_phase over TCP, "Fallback to cold-migration!".
Precopy ==
    /\ mig = "precopy"
    /\ mappings_to_be_transferred' =
          IF mig_type = "live" THEN Pages ELSE mem_mappings
    /\ mig' = "signal"
    /\ UNCHANGED <<guestVars, usr1, mig_type, mem_mappings, mig_sem, listed,
                   promised, srcClock, vcpuVars, stream, link, srcErr, dstErr,
                   dstVars, bootVars>>

\* The states are allocated and every vCPU thread gets SIGTHRMIG.
SignalVcpus ==
    /\ mig = "signal" /\ mig' = "sync"
    /\ vcpu_thread_states' = Blank
    /\ vcpu' = [c \in Cores |-> "signalled"]
    /\ UNCHANGED <<guestVars, usr1, migVars, stream, link, srcErr, dstErr,
                   dstVars, bootVars>>

-----------------------------------------------------------------------------
(* Source: vcpu_thread_mig_handler, one thread per core. *)

\* The vCPU leaves the guest and waits: "ensure consistency among VCPUs".
TakeSignal(c) ==
    /\ vcpu[c] = "signalled"
    /\ vcpu' = [vcpu EXCEPT ![c] = "sync"]
    /\ UNCHANGED <<guestVars, usr1, mig, migVars, vcpu_thread_states, stream,
                   link, srcErr, dstErr, dstVars, bootVars>>

VcpuBarrier ==
    /\ \A c \in Cores : vcpu[c] = "sync"
    /\ vcpu' = [c \in Cores |-> "save"]
    /\ UNCHANGED <<guestVars, usr1, mig, migVars, vcpu_thread_states, stream,
                   link, srcErr, dstErr, dstVars, bootVars>>

SaveState(c) ==
    /\ vcpu[c] = "save"
    /\ vcpu_thread_states' = [vcpu_thread_states EXCEPT ![c] = regs[c]]
    /\ vcpu' = [vcpu EXCEPT ![c] = "saved"]
    /\ UNCHANGED <<guestVars, usr1, mig, migVars, stream, link, srcErr,
                   dstErr, dstVars, bootVars>>

\* Mutant of MigrationBarrier: the migration thread does not wait.
MigrationBarrierMissing ==
    /\ mig = "sync" /\ mig' = "copy"
    /\ vcpu' = [c \in Cores |-> IF vcpu[c] = "saved" THEN "stopped" ELSE vcpu[c]]
    /\ UNCHANGED <<guestVars, usr1, migVars, vcpu_thread_states, stream, link,
                   srcErr, dstErr, dstVars, bootVars>>

\* All vCPU threads and the migration thread meet; the former then wait to be
\* killed.
MigrationBarrier ==
    /\ mig = "sync" /\ \A c \in Cores : vcpu[c] = "saved"
    /\ mig' = "copy"
    /\ vcpu' = [c \in Cores |-> "stopped"]
    /\ UNCHANGED <<guestVars, usr1, migVars, vcpu_thread_states, stream, link,
                   srcErr, dstErr, dstVars, bootVars>>

-----------------------------------------------------------------------------
(* Source: the final dump. *)

\* stop_and_copy_phase sends the pages in the order of the chunks.
SendPage ==
    /\ mig = "copy" /\ mappings_to_be_transferred # {}
    /\ LET p == CHOOSE q \in mappings_to_be_transferred :
                   \A r \in mappings_to_be_transferred : q <= r
       IN  /\ Send([kind |-> "page", page |-> p, data |-> mem[p]])
           /\ mappings_to_be_transferred' = mappings_to_be_transferred \ {p}
    /\ UNCHANGED <<guestVars, usr1, mig, mig_type, mem_mappings, mig_sem,
                   listed, promised, srcClock, vcpuVars, link, dstErr,
                   dstVars, bootVars>>

\* Every page is sent: send the vCPU states and free them.
SendCpus ==
    /\ mig = "copy" /\ mappings_to_be_transferred = {}
    /\ Send([kind |-> "cpus", states |-> vcpu_thread_states])
    /\ vcpu_thread_states' = Null
    /\ mem_mappings' = {}
    /\ mig' = "clock"
    /\ UNCHANGED <<guestVars, usr1, mig_type, mig_sem, listed, promised,
                   mappings_to_be_transferred, srcClock, vcpu, link, dstErr,
                   dstVars, bootVars>>

SendClock == srcClock /\ SendAndGo("clock", [kind |-> "clock"], "close")

\* Close the connection and exit(), which ends the vCPU threads.
CloseAndExit ==
    /\ mig = "close" \/ (mig = "clock" /\ ~ srcClock)
    /\ mig' = "exit" /\ vcpu' = [c \in Cores |-> "gone"]
    /\ link' = IF link = "up" THEN "closed" ELSE link
    /\ UNCHANGED <<guestVars, usr1, migVars, vcpu_thread_states, stream,
                   srcErr, dstErr, dstVars, bootVars>>

-----------------------------------------------------------------------------
(* Destination: uhyve_init, wait_for_incomming_migration and               *)
(* load_migration_data.                                                    *)

\* What the destination reads in each of its states.
Expected ==
    CASE dst = "pages" /\ dstRegions # {} -> "page"
      [] dst = "pages" /\ dstRegions = {} -> "cpus"
      [] OTHER -> dst

\* recv_data finds the expected item.  ("pages" stands for the loop over the
\* regions together with the reception of the states that follows it.)
Receives(kind) ==
    /\ stream # <<>> /\ Head(stream).kind = kind /\ Expected = kind
    /\ stream' = Tail(stream)
    /\ UNCHANGED <<guestVars, usr1, mig, migVars, vcpuVars, link, srcErr,
                   dstErr, bootVars>>

RecvParams ==
    /\ Receives("params") /\ dst' = "metadata"
    /\ UNCHANGED <<dstSize, dstRegions, dstMem, dstStates, dstClock>>

\* init_kvm_arch then maps the memory and registers it.
RecvMetadata ==
    /\ Receives("metadata")
    /\ dstSize' = MappedSize(Head(stream).size)
    /\ dst' = IF KvmAccepts(dstSize') THEN "regions" ELSE "garbled"
    /\ dstMem' = [p \in SlotPages(dstSize') |-> 0]
    /\ UNCHANGED <<dstRegions, dstStates, dstClock>>

RecvRegions ==
    /\ Receives("regions") /\ dst' = "pages"
    /\ dstRegions' = Head(stream).pages
    /\ UNCHANGED <<dstSize, dstMem, dstStates, dstClock>>

\* The pages arrive in the order of the regions.
RecvPage ==
    /\ Receives("page")
    /\ dstMem' = [dstMem EXCEPT ![Head(stream).page] = Head(stream).data]
    /\ dstRegions' = dstRegions \ {Head(stream).page}
    /\ UNCHANGED <<dst, dstSize, dstStates, dstClock>>

RecvCpus ==
    /\ Receives("cpus")
    /\ dstStates' = Head(stream).states
    /\ dst' = IF dstClock THEN "clock" ELSE "boot"
    /\ UNCHANGED <<dstSize, dstRegions, dstMem, dstClock>>

RecvClock ==
    /\ Receives("clock") /\ dst' = "boot"
    /\ UNCHANGED <<dstSize, dstRegions, dstMem, dstStates, dstClock>>

\* Another item is there: its bytes are taken for the expected one's.
Desync ==
    /\ stream # <<>> /\ dst \in {"params", "metadata", "regions", "pages", "clock"}
    /\ Head(stream).kind # Expected
    /\ dst' = "garbled"
    /\ UNCHANGED <<guestVars, usr1, mig, migVars, vcpuVars, stream, link,
                   srcErr, dstErr, dstSize, dstRegions, dstMem, dstStates,
                   dstClock, bootVars>>

\* recv returns -1, which the loop takes for a very large number of bytes: the
\* buffer keeps what it held.  Later calls return 0, and the loop never ends.
\* Metadata that was never received is garbage; the process is lost.
RecvError ==
    /\ link = "reset" /\ stream = <<>> /\ ~ dstErr /\ dstErr' = TRUE
    /\ \/ dst = "params" /\ dst' = "metadata" /\ UNCHANGED <<dstRegions, dstStates>>
       \/ dst = "metadata" /\ dst' = "garbled" /\ UNCHANGED <<dstRegions, dstStates>>
       \/ dst = "regions" /\ dst' = "pages" /\ UNCHANGED <<dstRegions, dstStates>>
       \/ Expected = "page" /\ dstRegions' = {} /\ UNCHANGED <<dst, dstStates>>
       \/ /\ Expected = "cpus" /\ dstStates' = Blank
          /\ dst' = IF dstClock THEN "clock" ELSE "boot"
          /\ UNCHANGED dstRegions
       \/ dst = "clock" /\ dst' = "boot" /\ UNCHANGED <<dstRegions, dstStates>>
    /\ UNCHANGED <<guestVars, usr1, mig, migVars, vcpuVars, stream, link,
                   srcErr, dstSize, dstMem, dstClock, bootVars>>

-----------------------------------------------------------------------------
(* Destination: the vCPU threads in vcpu_loop. *)

DstUnchanged ==
    UNCHANGED <<guestVars, usr1, mig, migVars, vcpuVars, stream, link, srcErr,
                dstErr, dst, dstSize, dstRegions, dstMem, dstClock>>

\* The threads exist and have passed the barriers before the restore.
StartVcpus ==
    /\ dst = "boot" /\ \A c \in Cores : dstVcpu[c] = "none"
    /\ dstVcpu' = [c \in Cores |-> "loop"]
    /\ DstUnchanged /\ UNCHANGED <<dstStates, dstRegs>>

\* If vcpu_thread_states is there, restore_cpu_state; else init_cpu_state, which
\* starts the kernel from its entry point.
RestoreOrInit(c) ==
    /\ dstVcpu[c] = "loop"
    /\ IF dstStates # Null
       THEN /\ dstRegs' = [dstRegs EXCEPT ![c] = dstStates[c]]
            /\ dstVcpu' = [dstVcpu EXCEPT ![c] = "restored"]
       ELSE /\ dstVcpu' = [dstVcpu EXCEPT ![c] = "cold"]
            /\ UNCHANGED dstRegs
    /\ DstUnchanged /\ UNCHANGED dstStates

\* Mutant of RestoreBarrier: no barrier before the cleanup.
RestoreBarrierMissing ==
    /\ \E c \in Cores : dstVcpu[c] = "restored"
    /\ dstVcpu' = [c \in Cores |->
          IF dstVcpu[c] = "restored" THEN IF c = 0 THEN "free" ELSE "run"
          ELSE dstVcpu[c]]
    /\ DstUnchanged /\ UNCHANGED <<dstStates, dstRegs>>

\* "wait for all VCPUs and cleanup"
RestoreBarrier ==
    /\ \A c \in Cores : dstVcpu[c] = "restored"
    /\ dstVcpu' = [c \in Cores |-> IF c = 0 THEN "free" ELSE "run"]
    /\ DstUnchanged /\ UNCHANGED <<dstStates, dstRegs>>

FreeStates ==
    /\ dstVcpu[0] = "free"
    /\ dstStates' = Null
    /\ dstVcpu' = [dstVcpu EXCEPT ![0] = "run"]
    /\ DstUnchanged /\ UNCHANGED dstRegs

-----------------------------------------------------------------------------

Guest == \E c \in Cores, p \in DOMAIN mem : GuestStep(c, p)

MigrationThread ==
    \/ Connect \/ BrokenPipe \/ SendParams \/ SendMetadata \/ RequestFreeList
    \/ AwaitFreeList \/ SendRegions \/ Precopy \/ SignalVcpus
    \/ MigrationBarrier \/ SendPage \/ SendCpus \/ SendClock \/ CloseAndExit

VcpuThread ==
    \/ VcpuBarrier
    \/ \E c \in Cores : TakeSignal(c) \/ SaveState(c)
                            \/ \E valid \in BOOLEAN : FreeList(c, valid)

Destination ==
    \/ RecvParams \/ RecvMetadata \/ RecvRegions \/ RecvPage \/ RecvCpus
    \/ RecvClock \/ Desync \/ RecvError
    \/ StartVcpus \/ RestoreBarrier \/ FreeStates
    \/ \E c \in Cores : RestoreOrInit(c)

Next == Request \/ ConnectFails \/ Reset \/ Guest \/ MigrationThread
            \/ VcpuThread \/ Destination

Spec == Init /\ [][Next]_vars

\* Threads run, signals are delivered and the guest answers the interrupt.
\* The guest need not go on, and nobody has to ask for a migration.
FairSpec ==
    /\ Spec
    /\ WF_vars(MigrationThread) /\ WF_vars(VcpuThread) /\ WF_vars(Destination)

-----------------------------------------------------------------------------
(* Properties. *)

\* Type correctness of both processes and the connection.
TypeOK ==
    /\ allocated \subseteq Pages /\ mem_mappings \subseteq Pages
    /\ mappings_to_be_transferred \subseteq Pages
    /\ mem \in [Pages -> 0 .. MaxSteps] /\ regs \in [Cores -> 0 .. MaxSteps]
    /\ mig \in {"wait", "params", "metadata", "request", "await", "regions",
                "precopy", "signal", "sync", "copy", "clock", "close", "exit",
                "dead"}
    /\ mig_type \in {"cold", "live"} /\ mig_sem \in 0 .. 1
    /\ vcpu \in [Cores -> {"run", "signalled", "sync", "save", "saved",
                           "stopped", "gone"}]
    /\ vcpu_thread_states \in [Cores -> 0 .. MaxSteps] \cup {Null}
    /\ link \in {"none", "up", "closed", "reset"}
    /\ dst \in {"listen", "params", "metadata", "regions", "pages", "clock",
                "boot", "garbled"}
    /\ DOMAIN dstMem \subseteq 0 .. WordMod - 1
    /\ dstStates \in [Cores -> 0 .. MaxSteps] \cup {Null}
    /\ dstVcpu \in [Cores -> {"none", "loop", "restored", "cold", "free", "run"}]
    /\ dstRegs \in [Cores -> 0 .. MaxSteps]

\* When the destination starts the vCPUs and the connection held, it has the
\* guest that was stopped at the source: every vCPU's registers and every
\* allocated page, all of one instant (vcpu_thread_mig_handler: "ensure
\* consistency among VCPUs").  Of a cold migration this is true of the pages
\* that were in use when the guest sent its free list.
ExactSnapshot ==
    dst = "boot" /\ link # "reset" =>
        /\ \A p \in IF mig_type = "cold" THEN promised ELSE allocated :
              p \in DOMAIN dstMem /\ dstMem[p] = mem[p]
        /\ dstStates \in {regs, Null}
        /\ \A c \in Cores :
              dstVcpu[c] \in {"restored", "free", "run"} => dstRegs[c] = regs[c]

\* The guest never runs on both hosts: by the time the destination boots, every
\* vCPU of the source has stopped for good, however the connection fared.
NeverTwice ==
    dst = "boot" => \A c \in Cores : vcpu[c] \in {"stopped", "gone"}

\* Every vCPU of the destination resumes from its state; none finds the states
\* freed already and boots the kernel a second time (vcpu_loop).
NoColdBoot == \A c \in Cores : dstVcpu[c] # "cold"

\* "the guest size is recalculated at the destination": it comes out the same,
\* also for guests smaller than the gap, where the arithmetic wraps twice, and
\* the memory registered there is all that the source may announce.
SizeKept ==
    dst \in {"regions", "pages", "clock", "boot"} =>
        dstSize = guest_size /\ DOMAIN dstMem = Pages

\* The migration has ended: the guest runs at the destination, the source is gone.
Migrated == mig = "exit" /\ \A c \in Cores : dstVcpu[c] = "run"

\* A cold migration goes on without a free list.
NothingListed == mig = "regions" /\ mig_type = "cold" /\ mem_mappings = {}

\* The destination reads a clock exactly if its own host has a stable one, the
\* source sends one exactly if its host has: without this the destination waits
\* for a clock that never comes.
ClockMatches == dstClock => srcClock

\* Once connected, a migration over a connection that holds ends with the guest
\* running at the destination and the source gone, if there is a free list to go
\* by and no clock is waited for in vain.
MigrationCompletes ==
    mig = "params" /\ ClockMatches ~> Migrated \/ link = "reset" \/ NothingListed

-----------------------------------------------------------------------------
(* The inductive invariant behind the safety properties. *)

\* The source's vCPUs have stopped for good.
Late == mig \in {"copy", "clock", "close", "exit", "dead"}

\* The regions have been announced: the free list is not asked for any more.
Announced == Late \/ mig \in {"precopy", "signal", "sync"}

\* The pages the destination must have in the end.
Needed == IF mig_type = "cold" THEN promised ELSE Pages

\* What may be in flight: the regions cover what is needed, and nothing that the
\* guest could still change is sent before it has stopped.
Items ==
    [kind : {"params"}]
    \cup [kind : {"metadata"}, size : {SentSize(guest_size)}]
    \cup {r \in [kind : {"regions"}, pages : SUBSET Pages] :
             Announced /\ r.pages # {} /\ Needed \subseteq r.pages}
    \cup {r \in [kind : {"page"}, page : Pages, data : 0 .. MaxSteps] :
             Late /\ r.data = mem[r.page]}
    \cup {r \in [kind : {"cpus"}, states : {regs}] : Late}
    \cup {r \in [kind : {"clock"}] : Late}

GuestInv ==
    /\ \E m \in MemSizes : guest_size = MappedSize(m)
    /\ KvmAccepts(guest_size)
    /\ steps \in 0 .. MaxSteps
    /\ promised \subseteq allocated
    /\ ~ listed => promised = {} /\ mig_sem = 0
    /\ mem_mappings \in {{}, promised}

\* The two barriers: no vCPU saves its state while another is in the guest.
VcpuInv ==
    /\ ~ Late /\ mig # "sync" => \A c \in Cores : vcpu[c] = "run"
    /\ mig = "sync" =>
          /\ vcpu_thread_states # Null
          /\ \/ \A c \in Cores : vcpu[c] \in {"signalled", "sync"}
             \/ \A c \in Cores : vcpu[c] \in {"save", "saved"}
    /\ Late => \A c \in Cores : vcpu[c] \in {"stopped", "gone"}
    /\ \A c \in Cores : vcpu[c] = "saved" => vcpu_thread_states[c] = regs[c]
    /\ mig = "copy" => vcpu_thread_states = regs

StreamInv ==
    /\ stream \in Seq(Items)
    /\ link = "reset" => stream = <<>>
    /\ dst = "listen" => link = "none"

\* What the destination has taken from the stream.
ReceivedInv ==
    /\ SizeKept
    /\ dst = "pages" /\ dstRegions = {} /\ ~ dstErr => Late
    /\ dst \in {"clock", "boot"} => Late
    /\ dst = "clock" => dstStates # Null
    /\ link # "reset" =>
          /\ dst = "pages" =>
                /\ Announced
                /\ \A p \in Needed :
                      p \in dstRegions \/ (Late /\ dstMem[p] = mem[p])
          /\ dst \in {"clock", "boot"} =>
                /\ \A p \in Needed : dstMem[p] = mem[p]
                /\ dstStates \in {regs, Null}

\* The destination's vCPU threads and the states they share.
BootInv ==
    /\ dst # "boot" => \A c \in Cores : dstVcpu[c] = "none"
    /\ dst = "boot" => dstStates # Null \/ \A c \in Cores : dstVcpu[c] = "run"
    /\ dstVcpu[0] = "free" => \A c \in Cores \ {0} : dstVcpu[c] = "run"
    /\ NoColdBoot
    /\ link # "reset" =>
          \A c \in Cores :
             dstVcpu[c] \in {"restored", "free", "run"} => dstRegs[c] = regs[c]

MigrationInv ==
    TypeOK /\ GuestInv /\ VcpuInv /\ StreamInv /\ ReceivedInv /\ BootInv
=============================================================================
