----------------------------- MODULE Checkpoint -----------------------------
(***************************************************************************)
(* Checkpoints and restarts of a uhyve process.                            *)
(*                                                                         *)
(* SIGALRM makes one vCPU thread run timer_handler: it signals the other   *)
(* vCPU threads, which run sigusr_handler, meets them at a barrier, writes *)
(* its own registers and the changed pages to disk while each of the       *)
(* others writes its registers, meets them again, rewrites chk_config.txt  *)
(* and increments no_checkpoint.  A process may die at any point; the next *)
(* one finds chk_config.txt, loads the pages of all checkpoints in order   *)
(* (load_checkpoint) and every vCPU thread reads its registers.            *)
(*                                                                         *)
(* A page's content is a version number: 0 is zeroed memory, 1 the ELF     *)
(* image, and every write makes a new version.  A core's registers are the *)
(* number of writes it has made.                                           *)
(*                                                                         *)
(* SIGALRM is taken to arrive only while no checkpoint is being written    *)
(* and all vCPUs run the guest: the period is at least a second, booting   *)
(* and writing a checkpoint is assumed to be faster.                       *)
(***************************************************************************)
EXTENDS Integers

CONSTANTS
    NCores,          \* HERMIT_CPUS
    HeapPages,       \* pages the guest writes
    ImagePages,      \* pages of the ELF image that load_kernel fills; all other
                     \* pages are zero at boot
    BufferPages,     \* pages the host fills for the hypercall READ
    NPages,          \* all of these are 0 .. NPages - 1, in page-table order
    MaxCheckpoints,  \* bound: checkpoints taken, over all processes
    MaxVersion,      \* bound: versions of a page
    MaxWrites,       \* bound: writes of a core
    MaxCrashes       \* bound: processes that die

ASSUME CheckpointAssumption ==
    /\ NCores \in Nat \ {0} /\ NPages \in Nat
    /\ HeapPages \cup ImagePages \cup BufferPages = 0 .. NPages - 1
    /\ MaxCheckpoints \in Nat /\ MaxVersion \in Nat /\ MaxWrites \in Nat
    /\ MaxCrashes \in Nat

VARIABLES
    \* the process
    up,              \* it runs
    ncores, no_checkpoint, full_checkpoint, restart,
    pc,              \* where each vCPU thread is
    leader,          \* the core in timer_handler, or NoCore
    signalled,       \* cores with SIGTHRCHKP pending
    pos,             \* the page scan_page_tables looks at next
    \* the guest
    mem, cpu,        \* pages and registers
    accessed, dirty, \* PG_ACCESSED and PG_DIRTY of each page's entry
    \* the disk
    memFile,         \* chk<n>_mem.dat, for the n that exist: its pages
    coreFile,        \* chk<n>_core<c>.dat, for the <<n, c>> that exist
    config,          \* chk_config.txt
    \* history
    cut,             \* the guest when the cores met for checkpoint n, by n
    committed,       \* the last checkpoint whose configuration was written, or
                     \* from which the process was restarted
    crashes

procVars  == <<up, ncores, no_checkpoint, full_checkpoint, restart>>
threadVars == <<pc, leader, signalled, pos>>
guestVars == <<mem, cpu, accessed, dirty>>
diskVars  == <<memFile, coreFile, config>>
histVars  == <<cut, committed, crashes>>
vars == <<procVars, threadVars, guestVars, diskVars, histVars>>

Pages    == 0 .. NPages - 1
AllCores == 0 .. NCores - 1
Cores    == 0 .. ncores - 1
Numbers  == 0 .. MaxCheckpoints - 1
NoCore   == -1
NoNumber == -1

\* A page that a memory file does not contain.
Absent == -1
NoPages == [p \in Pages |-> Absent]

\* A file created, or truncated and written, under the name k.
With(files, k, content) ==
    [i \in DOMAIN files \cup {k} |-> IF i = k THEN content ELSE files[i]]

\* The configuration file: missing, truncated, or written.
NoConfig    == [state |-> "none"]
EmptyConfig == [state |-> "empty"]
Config(cores, number, full) ==
    [state |-> "ok", ncores |-> cores, number |-> number, full |-> full]

BootMemory == [p \in Pages |-> IF p \in ImagePages THEN 1 ELSE 0]

-----------------------------------------------------------------------------
(* uhyve_init and the start of vcpu_loop. *)

\* The files load_checkpoint reads.
FirstFile(full, n) == IF full THEN n ELSE 0

\* load_checkpoint: a page has the content of the last file that contains it,
\* all other memory is zero.  The ELF image is not loaded.
Latest(files, first, n, p) ==
    LET has == {i \in first .. n : files[i][p] # Absent}
    IN  IF has = {} THEN 0
        ELSE files[CHOOSE i \in has : \A j \in has : i >= j][p]

Loaded(full, n) == [p \in Pages |-> Latest(memFile, FirstFile(full, n), n, p)]

\* Mutant of ParsedNumber: the number is not read either.
ParsedNumberLost == 0

\* The fscanf calls: an empty file leaves the variables at their initial
\* values.  The flag is never read: the format of the entry point does not
\* consume the line break in front of "full checkpoint".
ParsedCores  == IF config.state = "ok" THEN config.ncores ELSE 1
ParsedNumber == IF config.state = "ok" THEN config.number ELSE 0
ParsedFull   == FALSE

\* The process is gone, with all its threads and the guest.
Down ==
    /\ up' = FALSE /\ restart' = FALSE
    /\ ncores' = 1 /\ no_checkpoint' = 0 /\ full_checkpoint' = FALSE
    /\ pc' = [c \in AllCores |-> "none"]
    /\ leader' = NoCore /\ signalled' = {} /\ pos' = 0
    /\ mem' = BootMemory /\ cpu' = [c \in AllCores |-> 0]
    /\ accessed' = [p \in Pages |-> FALSE]
    /\ dirty' = [p \in Pages |-> FALSE]

\* Startup c), a normal run: load_kernel.  HERMIT_FULLCHECKPOINT decides on the
\* kind of checkpoints.
StartFresh ==
    /\ ~ up
    /\ config.state = "none"
    /\ up' = TRUE /\ restart' = FALSE
    /\ ncores' = NCores /\ no_checkpoint' = 0 /\ full_checkpoint' \in BOOLEAN
    /\ mem' = BootMemory
    /\ cpu' = [c \in AllCores |-> 0]
    /\ accessed' = [p \in Pages |-> FALSE]
    /\ dirty' = [p \in Pages |-> FALSE]
    /\ pc' = [c \in AllCores |-> "boot"]
    /\ leader' = NoCore /\ signalled' = {} /\ pos' = 0
    /\ UNCHANGED <<diskVars, histVars>>

\* Startup b): chk_config.txt exists; without its memory files the process
\* gives up.  The dirty bits are those in the restored page tables, which hold
\* what they held when the tables were last saved: any values.  The accessed
\* bits are not looked at again, as the next checkpoint is not the first.
StartRestart ==
    /\ ~ up
    /\ config.state # "none"
    /\ \A i \in FirstFile(ParsedFull, ParsedNumber) .. ParsedNumber :
          i \in DOMAIN memFile
    /\ up' = TRUE /\ restart' = TRUE
    /\ ncores' = ParsedCores
    /\ no_checkpoint' = ParsedNumber
    /\ full_checkpoint' = ParsedFull
    /\ mem' = Loaded(ParsedFull, ParsedNumber)
    /\ accessed' = [p \in Pages |-> TRUE]
    /\ dirty' \in [Pages -> BOOLEAN]
    /\ cpu' = [c \in AllCores |-> 0]
    /\ pc' = [c \in AllCores |-> "boot"]
    /\ leader' = NoCore /\ signalled' = {} /\ pos' = 0
    /\ committed' = ParsedNumber
    /\ UNCHANGED <<diskVars, cut, crashes>>

\* The barrier at the start of vcpu_loop opens.
BootBarrier ==
    /\ up
    /\ \A c \in Cores : pc[c] = "boot"
    /\ pc' = [c \in AllCores |-> IF c \in Cores THEN "init" ELSE "none"]
    /\ UNCHANGED <<procVars, leader, signalled, pos, guestVars, diskVars,
                   histVars>>

\* init_cpu_state in a normal run.
InitCpu(c) ==
    /\ up /\ pc[c] = "init" /\ ~ restart
    /\ pc' = [pc EXCEPT ![c] = "guest"]
    /\ UNCHANGED <<procVars, leader, signalled, pos, guestVars, diskVars,
                   histVars>>

\* read_cpu_state and restore_cpu_state: the file's name holds the value
\* no_checkpoint has now.  A missing file ends the process.
RestoreCpu(c) ==
    /\ up /\ pc[c] = "init" /\ restart
    /\ \/ /\ <<no_checkpoint, c>> \in DOMAIN coreFile
          /\ cpu' = [cpu EXCEPT ![c] = coreFile[<<no_checkpoint, c>>]]
          /\ pc' = [pc EXCEPT ![c] = IF c = 0 THEN "count" ELSE "guest"]
          /\ UNCHANGED <<procVars, leader, signalled, pos, mem, accessed,
                         dirty>>
       \/ /\ <<no_checkpoint, c>> \notin DOMAIN coreFile
          /\ Down
    /\ UNCHANGED <<diskVars, histVars>>

\* Mutant of CountRestart: the next checkpoint takes the old number.
CountRestartForgotten ==
    /\ up /\ pc[0] = "count"
    /\ pc' = [pc EXCEPT ![0] = "guest"]
    /\ UNCHANGED <<procVars, leader, signalled, pos, guestVars, diskVars,
                   histVars>>

\* if (cpuid == 0) no_checkpoint++
CountRestart ==
    /\ up /\ pc[0] = "count"
    /\ no_checkpoint' = no_checkpoint + 1
    /\ pc' = [pc EXCEPT ![0] = "guest"]
    /\ UNCHANGED <<up, ncores, full_checkpoint, restart, leader, signalled,
                   pos, guestVars, diskVars, histVars>>

-----------------------------------------------------------------------------
(* The guest, on a core whose vCPU thread is inside KVM_RUN or a hypercall. *)

\* A store: the MMU sets both bits of the page's entry.
GuestWrite(c, p) ==
    /\ up /\ pc[c] = "guest"
    /\ p \in HeapPages /\ mem[p] < MaxVersion /\ cpu[c] < MaxWrites
    /\ mem' = [mem EXCEPT ![p] = @ + 1]
    /\ cpu' = [cpu EXCEPT ![c] = @ + 1]
    /\ accessed' = [accessed EXCEPT ![p] = TRUE]
    /\ dirty' = [dirty EXCEPT ![p] = TRUE]
    /\ UNCHANGED <<procVars, threadVars, diskVars, histVars>>

\* A load.
GuestRead(c, p) ==
    /\ up /\ pc[c] = "guest"
    /\ accessed' = [accessed EXCEPT ![p] = TRUE]
    /\ UNCHANGED <<procVars, threadVars, mem, cpu, dirty, diskVars, histVars>>

\* The hypercall READ: the host stores into guest memory, past the MMU.
HostFill(c, p) ==
    /\ up /\ pc[c] = "guest"
    /\ p \in BufferPages
    /\ mem[p] < MaxVersion
    /\ mem' = [mem EXCEPT ![p] = @ + 1]
    /\ UNCHANGED <<procVars, threadVars, cpu, accessed, dirty, diskVars,
                   histVars>>

-----------------------------------------------------------------------------
(* timer_handler on the leader, sigusr_handler on the other cores. *)

\* SIGALRM: the thread that takes it signals the others and goes to the
\* barrier.
Alarm(c) ==
    /\ up /\ leader = NoCore
    /\ \A d \in Cores : pc[d] = "guest"
    /\ no_checkpoint < MaxCheckpoints
    /\ leader' = c
    /\ signalled' = Cores \ {c}
    /\ pc' = [pc EXCEPT ![c] = "meet"]
    /\ UNCHANGED <<procVars, pos, guestVars, diskVars, histVars>>

\* SIGTHRCHKP interrupts core c, which goes to the barrier.
TakeSignal(c) ==
    /\ up /\ c \in signalled
    /\ signalled' = signalled \ {c}
    /\ pc' = [pc EXCEPT ![c] = "meet"]
    /\ UNCHANGED <<procVars, leader, pos, guestVars, diskVars, histVars>>

\* What there is to save: memory, registers, and the pages in use.
Guest == [mem |-> mem, cpu |-> cpu, used |-> {p \in Pages : accessed[p]}]

\* The first barrier opens: no core runs the guest any more.
Meet ==
    /\ up /\ leader # NoCore
    /\ \A c \in Cores : pc[c] = "meet"
    /\ pc' = [c \in AllCores |-> IF c \in Cores THEN "save" ELSE pc[c]]
    /\ cut' = With(cut, no_checkpoint, Guest)
    /\ UNCHANGED <<procVars, leader, signalled, pos, guestVars, diskVars,
                   committed, crashes>>

\* Mutant of SaveCpu: sigusr_handler returns without the second barrier.
SaveCpuAndRun(c) ==
    /\ up /\ pc[c] = "save"
    /\ coreFile' = With(coreFile, <<no_checkpoint, c>>, cpu[c])
    /\ IF c = leader
       THEN /\ memFile' = With(memFile, no_checkpoint, NoPages)
            /\ pos' = 0
            /\ pc' = [pc EXCEPT ![c] = "scan"]
       ELSE /\ pc' = [pc EXCEPT ![c] = "guest"]
            /\ UNCHANGED <<memFile, pos>>
    /\ UNCHANGED <<procVars, leader, signalled, guestVars, config, histVars>>

\* write_cpu_state; the leader also opens the memory file.
SaveCpu(c) ==
    /\ up /\ pc[c] = "save"
    /\ coreFile' = With(coreFile, <<no_checkpoint, c>>, cpu[c])
    /\ IF c = leader
       THEN /\ memFile' = With(memFile, no_checkpoint, NoPages)
            /\ pos' = 0
            /\ pc' = [pc EXCEPT ![c] = "scan"]
       ELSE /\ pc' = [pc EXCEPT ![c] = "part"]
            /\ UNCHANGED <<memFile, pos>>
    /\ UNCHANGED <<procVars, leader, signalled, guestVars, config, histVars>>

\* The flag scan_page_tables looks at: the first checkpoint, and every full
\* one, holds all pages in use, a later one those changed since the last.
MustSave(p) ==
    IF ~ full_checkpoint /\ no_checkpoint > 0 THEN dirty[p] ELSE accessed[p]

\* scan_page_tables at one page: it is written to the file and, in the
\* incremental mode, its bits are cleared.
ScanPage ==
    /\ up /\ leader # NoCore /\ pc[leader] = "scan" /\ pos < NPages
    /\ pos' = pos + 1
    /\ IF MustSave(pos)
       THEN /\ memFile' = [memFile EXCEPT ![no_checkpoint][pos] = mem[pos]]
            /\ accessed' = [accessed EXCEPT ![pos] = @ /\ full_checkpoint]
            /\ dirty' = [dirty EXCEPT ![pos] = @ /\ full_checkpoint]
       ELSE UNCHANGED <<memFile, accessed, dirty>>
    /\ UNCHANGED <<procVars, pc, leader, signalled, mem, cpu, coreFile,
                   config, histVars>>

\* close_chk_file; the leader goes to the second barrier.
ScanEnds ==
    /\ up /\ leader # NoCore /\ pc[leader] = "scan" /\ pos = NPages
    /\ pc' = [pc EXCEPT ![leader] = "part"]
    /\ UNCHANGED <<procVars, leader, signalled, pos, guestVars, diskVars,
                   histVars>>

\* Mutant of Part: the leader passes before the others have saved.
PartEarly ==
    /\ up /\ leader # NoCore /\ pc[leader] = "part"
    /\ pc' = [pc EXCEPT ![leader] = "config"]
    /\ UNCHANGED <<procVars, leader, signalled, pos, guestVars, diskVars,
                   histVars>>

\* The second barrier opens: the others return to the guest.
Part ==
    /\ up /\ leader # NoCore
    /\ \A c \in Cores : pc[c] = "part"
    /\ pc' = [c \in AllCores |->
                 IF c = leader THEN "config"
                 ELSE IF c \in Cores THEN "guest" ELSE pc[c]]
    /\ UNCHANGED <<procVars, leader, signalled, pos, guestVars, diskVars,
                   histVars>>

\* fopen(chk_config.txt, "w") truncates the file.
TruncateConfig ==
    /\ up /\ leader # NoCore /\ pc[leader] = "config"
    /\ config' = EmptyConfig
    /\ pc' = [pc EXCEPT ![leader] = "write"]
    /\ UNCHANGED <<procVars, leader, signalled, pos, guestVars, memFile,
                   coreFile, histVars>>

\* fprintf and fclose: the buffered lines reach the file.
WriteConfig ==
    /\ up /\ leader # NoCore /\ pc[leader] = "write"
    /\ config' = Config(ncores, no_checkpoint, full_checkpoint)
    /\ committed' = no_checkpoint
    /\ pc' = [pc EXCEPT ![leader] = "next"]
    /\ UNCHANGED <<procVars, leader, signalled, pos, guestVars, memFile,
                   coreFile, cut, crashes>>

\* no_checkpoint++, and the handler returns.
CheckpointDone ==
    /\ up /\ leader # NoCore /\ pc[leader] = "next"
    /\ no_checkpoint' = no_checkpoint + 1
    /\ pc' = [pc EXCEPT ![leader] = "guest"]
    /\ leader' = NoCore
    /\ UNCHANGED <<up, ncores, full_checkpoint, restart, signalled, pos,
                   guestVars, diskVars, histVars>>

\* The process dies; only the disk survives.
Crash ==
    /\ up /\ crashes < MaxCrashes
    /\ Down
    /\ crashes' = crashes + 1
    /\ UNCHANGED <<diskVars, cut, committed>>

-----------------------------------------------------------------------------

Init ==
    /\ up = FALSE /\ restart = FALSE
    /\ ncores = 1 /\ no_checkpoint = 0 /\ full_checkpoint = FALSE
    /\ pc = [c \in AllCores |-> "none"]
    /\ leader = NoCore /\ signalled = {} /\ pos = 0
    /\ mem = BootMemory /\ cpu = [c \in AllCores |-> 0]
    /\ accessed = [p \in Pages |-> FALSE] /\ dirty = [p \in Pages |-> FALSE]
    /\ memFile = <<>> /\ coreFile = <<>> /\ config = NoConfig
    /\ cut = <<>>
    /\ committed = NoNumber
    /\ crashes = 0

CheckpointStep ==
    \/ Meet \/ ScanPage \/ ScanEnds \/ Part
    \/ TruncateConfig \/ WriteConfig \/ CheckpointDone
    \/ \E c \in Cores : TakeSignal(c) \/ SaveCpu(c)

BootStep ==
    \/ BootBarrier \/ CountRestart
    \/ \E c \in Cores : InitCpu(c) \/ RestoreCpu(c)

GuestStep ==
    \E c \in Cores, p \in Pages :
        GuestWrite(c, p) \/ GuestRead(c, p) \/ HostFill(c, p)

Next ==
    \/ StartFresh \/ StartRestart \/ BootStep
    \/ GuestStep
    \/ \E c \in Cores : Alarm(c)
    \/ CheckpointStep
    \/ Crash

Spec == Init /\ [][Next]_vars

\* The vCPU threads run and signals are delivered; nothing is assumed of the
\* guest, the timer or crashes.
FairSpec == Spec /\ WF_vars(CheckpointStep) /\ WF_vars(BootStep)

-----------------------------------------------------------------------------
(* Properties. *)

\* Type correctness of the process, the guest and the disk.
TypeOK ==
    /\ up \in BOOLEAN /\ restart \in BOOLEAN /\ full_checkpoint \in BOOLEAN
    /\ ncores \in 1 .. NCores /\ no_checkpoint \in Nat
    /\ pc \in [AllCores -> {"none", "boot", "init", "count", "guest", "meet",
                            "save", "scan", "part", "config", "write", "next"}]
    /\ leader \in AllCores \cup {NoCore} /\ signalled \subseteq AllCores
    /\ pos \in 0 .. NPages
    /\ mem \in [Pages -> Nat] /\ cpu \in [AllCores -> Nat]
    /\ accessed \in [Pages -> BOOLEAN] /\ dirty \in [Pages -> BOOLEAN]
    /\ DOMAIN memFile \subseteq Nat
    /\ \A n \in DOMAIN memFile : memFile[n] \in [Pages -> Nat \cup {Absent}]
    /\ DOMAIN coreFile \subseteq Nat \X AllCores
    /\ \A k \in DOMAIN coreFile : coreFile[k] \in Nat
    /\ config \in {NoConfig, EmptyConfig}
         \cup [state : {"ok"}, ncores : 1 .. NCores, number : Nat, full : BOOLEAN]
    /\ committed \in Nat \cup {NoNumber}

\* The pages that only the guest writes.
OwnPages == HeapPages \ (ImagePages \cup BufferPages)

\* The pages that checkpoint n promises: those only the guest writes, and in a
\* full checkpoint every page in use.
Due(n, full) == OwnPages \cup (IF full THEN cut[n].used ELSE {})

\* The disk holds checkpoint n: the registers of every core and, in the chain of
\* memory files, the pages, as they were when the cores met for it.
Complete(n, cores, full) ==
    /\ n \in DOMAIN cut
    /\ \A c \in 0 .. cores - 1 : /\ <<n, c>> \in DOMAIN coreFile
                                 /\ coreFile[<<n, c>>] = cut[n].cpu[c]
    /\ 0 .. n \subseteq DOMAIN memFile
    /\ \A p \in Due(n, full) : Loaded(ParsedFull, n)[p] = cut[n].mem[p]

\* The checkpoint that chk_config.txt names can always be restored, and is one
\* consistent cut: every core's file holds the registers, and the chain of
\* memory files the pages, that the guest had when all cores met at the first
\* barrier, whatever crashed or half-written checkpoints lie in between.  An
\* incremental chain promises this of the pages only the guest writes, a full
\* checkpoint of every page in use, those the host filled included.
CommittedRestorable ==
    config.state = "ok" => Complete(config.number, config.ncores, config.full)

\* The files of a checkpoint that chk_config.txt has named are never written
\* again, by the same process or by one restarted from it: an incremental
\* chain is only ever extended.
CommittedFilesKept ==
    [][/\ \A n \in DOMAIN memFile :
             n <= committed => memFile'[n] = memFile[n]
       /\ \A k \in DOMAIN coreFile :
             k[1] <= committed => coreFile'[k] = coreFile[k]]_vars

\* A restarted process continues from the newest checkpoint that was completed,
\* unless the crash hit between the truncation of chk_config.txt and its
\* writing: then uhyve_init reads nothing and falls back to checkpoint 0.
NewestRestored ==
    [][~ up /\ up' /\ committed # NoNumber =>
          /\ restart'
          /\ no_checkpoint' = IF config.state = "ok" THEN committed ELSE 0]_vars

\* Every checkpoint that SIGALRM starts comes to an end: the two barriers of
\* timer_handler and sigusr_handler never wait for a core that does not come.
CheckpointEnds == leader # NoCore /\ up ~> leader = NoCore \/ ~ up

\* Every vCPU that resumes after a restart has the registers of the checkpoint
\* the configuration names: "chkpt no. of the following checkpoint" (uhyve.c)
\* is counted only for the checkpoints that follow.
RestoredCpuState ==
    [][\A c \in AllCores :
          pc[c] = "init" /\ pc'[c] \in {"count", "guest"} /\ restart
              /\ config.state = "ok" => cpu'[c] = cut[config.number].cpu[c]]_vars

-----------------------------------------------------------------------------
(* The inductive invariant behind the safety properties. *)

AtLeader(where) == leader # NoCore /\ pc[leader] \in where

\* Restarted, and the number is still that of the checkpoint restored.
Restoring == restart /\ pc[0] \in {"boot", "init", "count"}

\* Between the two barriers of a checkpoint, and behind them.
Saving == AtLeader({"save", "scan", "part"})
Saved  == AtLeader({"config", "write", "next"})

\* What the chain of incremental checkpoints up to n has of page p.
Chain(n, p) == Latest(memFile, 0, n, p)

\* The last checkpoint whose memory file is complete.
Top == IF Restoring \/ Saved THEN no_checkpoint ELSE no_checkpoint - 1

\* Where the threads are: the barriers keep them together.
ThreadInv ==
    IF ~ up THEN leader = NoCore
    ELSE \/ /\ leader = NoCore /\ signalled = {}
            /\ \A c \in Cores : pc[c] \in {"boot", "init", "count", "guest"}
            /\ pc[0] = "count" => restart
         \/ /\ leader \in Cores /\ pc[leader] = "meet"
            /\ signalled \subseteq Cores \ {leader}
            /\ \A c \in Cores : pc[c] = IF c \in signalled THEN "guest" ELSE "meet"
         \/ /\ leader \in Cores /\ signalled = {} /\ Saving
            /\ \A c \in Cores \ {leader} : pc[c] \in {"save", "part"}
         \/ /\ leader \in Cores /\ signalled = {} /\ Saved
            /\ \A c \in Cores \ {leader} : pc[c] = "guest"

\* The number of the next checkpoint is above the one the disk promises.
NumberInv ==
    /\ config.state = "none" => committed = NoNumber
    /\ config.state = "ok" => config.number = committed
    /\ up => committed = IF Restoring \/ AtLeader({"next"})
                         THEN no_checkpoint ELSE no_checkpoint - 1

\* A page differs from what the chain of files gives only if the next checkpoint
\* saves it; between the barriers the scan has dealt with the pages before pos.
ChainInv ==
    up =>
      /\ 0 .. Top \subseteq DOMAIN memFile
      /\ ~ Saving =>
            \A p \in OwnPages :
                \/ Chain(Top, p) = mem[p]
                \/ IF ~ full_checkpoint /\ Top >= 0 THEN dirty[p] ELSE accessed[p]
      /\ AtLeader({"save"}) =>
            \A p \in Due(no_checkpoint, full_checkpoint) :
                Chain(Top, p) = mem[p] \/ MustSave(p)
      /\ AtLeader({"scan", "part"}) => no_checkpoint \in DOMAIN memFile
      /\ AtLeader({"scan"}) =>
            \A p \in Due(no_checkpoint, full_checkpoint) :
                IF p < pos THEN Chain(no_checkpoint, p) = mem[p]
                ELSE /\ memFile[no_checkpoint][p] = Absent
                     /\ Chain(Top, p) = mem[p] \/ MustSave(p)
      /\ AtLeader({"part"}) =>
            \A p \in Due(no_checkpoint, full_checkpoint) :
                Chain(no_checkpoint, p) = mem[p]

\* The guest stands still between the barriers, and what it was is saved behind.
CutInv ==
    /\ up /\ Saving =>
          /\ no_checkpoint \in DOMAIN cut
          /\ cut[no_checkpoint].mem = mem /\ cut[no_checkpoint].cpu = cpu
          /\ full_checkpoint => cut[no_checkpoint].used = {p \in Pages : accessed[p]}
          /\ \A c \in Cores : pc[c] \in {"scan", "part"} =>
                /\ <<no_checkpoint, c>> \in DOMAIN coreFile
                /\ coreFile[<<no_checkpoint, c>>] = cpu[c]
    /\ up /\ Saved => Complete(no_checkpoint, ncores, full_checkpoint)

CheckpointInv ==
    TypeOK /\ ThreadInv /\ NumberInv /\ ChainInv /\ CutInv /\ CommittedRestorable
=============================================================================
