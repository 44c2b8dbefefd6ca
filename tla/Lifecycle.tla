------------------------------ MODULE Lifecycle ------------------------------
(***************************************************************************)
(* The life of a uhyve process, from uhyve_loop to its end.                *)
(*                                                                         *)
(* Boot: the main thread (core 0) creates the other vCPU threads, all meet *)
(* at a barrier, the main thread publishes the number of cores, all meet   *)
(* again and each initialises its vCPU.  The guest's startup code handles  *)
(* one core at a time: a vCPU thread waits until its predecessor is online *)
(* and then announces its own number in current_boot_id.  With the GDB     *)
(* stub, core 0 waits for the debugger and all cores meet once more.       *)
(*                                                                         *)
(* Shutdown: a core may leave by the hypercall EXIT, by halting, or by a   *)
(* fatal error.  The first thread to lock kvm_lock sends SIGTERM to all    *)
(* other vCPU threads and to the network threads; exit() also joins them.  *)
(***************************************************************************)
EXTENDS Integers

CONSTANTS
    MaxCores,        \* bound on HERMIT_CPUS
    GdbCores,        \* the numbers of cores with which the debugger is used
    NetConfigured    \* HERMIT_NETIF: netfd > 0

ASSUME LifecycleAssumption ==
    /\ MaxCores \in Nat \ {0}
    /\ GdbCores \subseteq 1 .. MaxCores
    /\ NetConfigured \in BOOLEAN

VARIABLES
    ncores,          \* HERMIT_CPUS
    uhyve_gdb_enabled, \* HERMIT_DEBUG
    pc,              \* where each vCPU thread is
    possible_cpus,   \* kheader->possible_cpus
    cpu_online,      \* kheader->cpu_online
    current_boot_id, \* kheader->current_boot_id
    bootId,          \* the number each core's startup code has read
    netThreads,      \* of rx_thread and tx_thread, those that run
    netStarted,      \* check_network has created them
    kvm_lock,        \* who holds it; it is never released
    sigterm,         \* vCPU threads with SIGTERM pending
    netSigterm,      \* network threads with SIGTERM pending
    ended,           \* the process is gone
    exitArg,         \* what exit() was called with: the "guest"'s status of the
                     \* hypercall EXIT, "zero" or "failure"; or "none"
    status           \* what the process has ended with, a "fault" included

config      == <<ncores, uhyve_gdb_enabled>>
kheaderVars == <<possible_cpus, cpu_online, current_boot_id, bootId>>
exitVars    == <<kvm_lock, sigterm, netSigterm, ended>>
netVars     == <<netThreads, netStarted>>
statusVars  == <<exitArg, status>>
vars == <<config, pc, kheaderVars, netVars, exitVars, statusVars>>

Cores == 0 .. ncores - 1
Nobody == -1
Unknown == -1

\* Where a vCPU thread may be, before its core enters the startup code, while
\* it is there, and afterwards.
BeforeStartup == {"create", "none", "barrier1", "publish", "barrier2", "init"}
InStartup == {"gdb", "barrier3", "guest"}
AfterStartup == {"online", "atexit", "atexit kill", "cleanup", "cleanup kill",
                 "join", "gone"}

\* Every core is at the given barrier.
AllAt(where) == \A c \in Cores : pc[c] = where

Init ==
    /\ ncores \in 1 .. MaxCores
    /\ uhyve_gdb_enabled \in BOOLEAN
    /\ uhyve_gdb_enabled => ncores \in GdbCores
    /\ pc = [c \in Cores |-> IF c = 0 THEN "create" ELSE "none"]
    /\ possible_cpus = 0 /\ cpu_online = 0 /\ current_boot_id = 0
    /\ bootId = [c \in Cores |-> Unknown]
    /\ netThreads = {} /\ netStarted = FALSE
    /\ kvm_lock = Nobody /\ sigterm = {} /\ netSigterm = {}
    /\ ended = FALSE /\ exitArg = "none" /\ status = "none"

-----------------------------------------------------------------------------
(* uhyve_loop, uhyve_thread and the start of vcpu_loop. *)

\* pthread_create for every other core; all go to the first barrier.
CreateThreads ==
    /\ ~ ended /\ pc[0] = "create"
    /\ pc' = [c \in Cores |-> "barrier1"]
    /\ UNCHANGED <<kheaderVars, netVars, exitVars>>

\* The first barrier opens: the other cores go on to the one in vcpu_loop.
FirstBarrier ==
    /\ ~ ended /\ AllAt("barrier1")
    /\ pc' = [c \in Cores |-> IF c = 0 THEN "publish" ELSE "barrier2"]
    /\ UNCHANGED <<kheaderVars, netVars, exitVars>>

\* kheader->possible_cpus = ncores; the timer is armed.
PublishCpus ==
    /\ ~ ended /\ pc[0] = "publish"
    /\ possible_cpus' = ncores
    /\ pc' = [pc EXCEPT ![0] = "barrier2"]
    /\ UNCHANGED <<cpu_online, current_boot_id, bootId, netVars, exitVars>>

\* The barrier at the start of vcpu_loop opens.
SecondBarrier ==
    /\ ~ ended /\ AllAt("barrier2")
    /\ pc' = [c \in Cores |-> "init"]
    /\ UNCHANGED <<kheaderVars, netVars, exitVars>>

\* Mutant of PredecessorOnline: the core itself must be online.
SelfOnline(c) == cpu_online > c

\* Mutant of PredecessorOnline: off by one.
PredecessorAlmostOnline(c) == cpu_online + 1 >= c

\* while (kheader->cpu_online < cpuid) pthread_yield()
PredecessorOnline(c) == cpu_online >= c

\* init_cpu_state.
InitCpu(c) ==
    /\ ~ ended /\ pc[c] = "init"
    /\ PredecessorOnline(c)
    /\ current_boot_id' = c
    /\ pc' = [pc EXCEPT ![c] = IF uhyve_gdb_enabled THEN "gdb" ELSE "guest"]
    /\ UNCHANGED <<possible_cpus, cpu_online, bootId, netVars, exitVars>>

\* uhyve_gdb_init on core 0 returns once the debugger has connected and let
\* the guest run; the other cores go to the barrier at once.
GdbInit(c) ==
    /\ ~ ended /\ pc[c] = "gdb"
    /\ pc' = [pc EXCEPT ![c] = "barrier3"]
    /\ UNCHANGED <<kheaderVars, netVars, exitVars>>

GdbBarrier ==
    /\ ~ ended /\ AllAt("barrier3")
    /\ pc' = [c \in Cores |-> "guest"]
    /\ UNCHANGED <<kheaderVars, netVars, exitVars>>

-----------------------------------------------------------------------------
(* The guest (external): the startup code reads its number and reports the  *)
(* core online; the driver starts the network.                              *)

GuestReadsId(c) ==
    /\ ~ ended /\ pc[c] = "guest" /\ bootId[c] = Unknown
    /\ bootId' = [bootId EXCEPT ![c] = current_boot_id]
    /\ UNCHANGED <<pc, possible_cpus, cpu_online, current_boot_id, netVars,
                   exitVars>>

GuestOnline(c) ==
    /\ ~ ended /\ pc[c] = "guest" /\ bootId[c] # Unknown
    /\ pc' = [pc EXCEPT ![c] = "online"]
    /\ cpu_online' = cpu_online + 1
    /\ UNCHANGED <<possible_cpus, current_boot_id, bootId, netVars, exitVars>>

\* The hypercall NETINFO: check_network creates the two threads.
NetInfo(c) ==
    /\ ~ ended /\ pc[c] = "online"
    /\ NetConfigured /\ ~ netStarted
    /\ netThreads' = {"rx", "tx"} /\ netStarted' = TRUE
    /\ UNCHANGED <<pc, kheaderVars, exitVars, statusVars>>

-----------------------------------------------------------------------------
(* Leaving the guest. *)

MayExit(c) == ~ ended /\ pc[c] = "online"

\* The hypercall EXIT or a halt: core 0 calls exit() with the guest's status or
\* returns 0 from main, another core ends its thread, which runs the cleanup
\* handler uhyve_exit.
GuestExits(c) ==
    /\ MayExit(c)
    /\ pc' = [pc EXCEPT ![c] = IF c = 0 THEN "atexit" ELSE "cleanup"]
    /\ IF c = 0 THEN exitArg' \in {"guest", "zero"} ELSE UNCHANGED exitArg
    /\ UNCHANGED <<kheaderVars, netVars, exitVars, status>>

\* A fatal error: err() or exit() on any core.  exit() by two threads at once
\* is undefined, so only one is modelled.
FatalError(c) ==
    /\ MayExit(c)
    /\ \A d \in Cores : pc[d] \notin {"atexit", "atexit kill", "join"}
    /\ pc' = [pc EXCEPT ![c] = "atexit"]
    /\ exitArg' = "failure"
    /\ UNCHANGED <<kheaderVars, netVars, exitVars, status>>

\* Where uhyve_exit goes when it is done: exit() joins the other threads.
AfterExit(c) == IF pc[c] \in {"atexit", "atexit kill"} THEN "join" ELSE "gone"

\* uhyve_exit: pthread_mutex_trylock(&kvm_lock) succeeds.
LockTaken(c) ==
    /\ ~ ended /\ pc[c] \in {"atexit", "cleanup"}
    /\ kvm_lock = Nobody
    /\ kvm_lock' = c
    /\ pc' = [pc EXCEPT ![c] =
                 IF pc[c] = "atexit" THEN "atexit kill" ELSE "cleanup kill"]
    /\ UNCHANGED <<kheaderVars, netVars, sigterm, netSigterm, ended, statusVars>>

\* uhyve_exit: another thread has the lock.
LockRefused(c) ==
    /\ ~ ended /\ pc[c] \in {"atexit", "cleanup"}
    /\ kvm_lock # Nobody
    /\ pc' = [pc EXCEPT ![c] = AfterExit(c)]
    /\ UNCHANGED <<kheaderVars, netVars, exitVars, statusVars>>

\* Mutant of Victims: the loop starts at core 1.
VictimsButMain(c) == Cores \ {c, 0}

\* Mutant of Victims: the loop does not leave out its own thread.
VictimsAll(c) == Cores

\* The vCPU threads that uhyve_exit signals.
Victims(c) == Cores \ {c}

\* uhyve_exit: SIGTERM for the other vCPU threads and, if there is a network
\* interface, for rx_thread and tx_thread, started or not: of a thread
\* that was never created the id is still 0, which pthread_kill dereferences.
KillThreads(c) ==
    /\ ~ ended /\ pc[c] \in {"atexit kill", "cleanup kill"}
    /\ sigterm' = sigterm \cup Victims(c)
    /\ netSigterm' = netThreads
    /\ ended' = (NetConfigured /\ ~ netStarted)
    /\ status' = IF ended' THEN "fault" ELSE status
    /\ pc' = [pc EXCEPT ![c] = AfterExit(c)]
    /\ UNCHANGED <<kheaderVars, netVars, kvm_lock, exitArg>>

\* sigterm_handler: pthread_exit; a vCPU thread other than the main thread has
\* uhyve_exit as its cleanup handler.
VcpuTerminates(c) ==
    /\ ~ ended /\ c \in sigterm
    /\ pc[c] \notin {"cleanup", "gone"}
    /\ pc' = [pc EXCEPT ![c] = IF c = 0 THEN "gone" ELSE "cleanup"]
    /\ sigterm' = sigterm \ {c}
    /\ UNCHANGED <<kheaderVars, netVars, kvm_lock, netSigterm, ended, statusVars>>

NetTerminates ==
    /\ ~ ended
    /\ \E t \in netThreads \cap netSigterm :
          /\ netThreads' = netThreads \ {t}
          /\ netSigterm' = netSigterm \ {t}
    /\ UNCHANGED <<pc, kheaderVars, netStarted, kvm_lock, sigterm, ended,
                   statusVars>>

\* uhyve_atexit has joined the other vCPU threads: the process ends, whatever
\* else runs, with the status exit() was given.
JoinAll(c) ==
    /\ ~ ended /\ pc[c] = "join"
    /\ \A d \in Cores \ {c} : pc[d] = "gone"
    /\ ended' = TRUE /\ status' = exitArg
    /\ UNCHANGED <<pc, kheaderVars, netVars, kvm_lock, sigterm, netSigterm,
                   exitArg>>

\* The last thread has ended, and with it the process, with status 0.
LastThread ==
    /\ ~ ended /\ AllAt("gone") /\ netThreads = {}
    /\ ended' = TRUE /\ status' = "zero"
    /\ UNCHANGED <<pc, kheaderVars, netVars, kvm_lock, sigterm, netSigterm,
                   exitArg>>

-----------------------------------------------------------------------------

Boot ==
    /\ \/ CreateThreads \/ FirstBarrier \/ PublishCpus \/ SecondBarrier
       \/ GdbBarrier
       \/ \E c \in Cores : InitCpu(c) \/ GdbInit(c) \/ GuestReadsId(c)
                               \/ GuestOnline(c)
    /\ UNCHANGED <<config, statusVars>>

Run ==
    /\ \E c \in Cores : NetInfo(c) \/ GuestExits(c) \/ FatalError(c)
    /\ UNCHANGED config

Shutdown ==
    /\ \/ NetTerminates \/ LastThread
       \/ \E c \in Cores : LockTaken(c) \/ LockRefused(c) \/ KillThreads(c)
                               \/ VcpuTerminates(c) \/ JoinAll(c)
    /\ UNCHANGED config

Next == Boot \/ Run \/ Shutdown

Spec == Init /\ [][Next]_vars

\* Threads run and signals are delivered; a core in the startup code gets
\* through it.  Nobody has to start the network or to leave.
FairSpec == Spec /\ WF_vars(Boot) /\ WF_vars(Shutdown)

-----------------------------------------------------------------------------
(* Properties. *)

\* Type correctness of threads, kernel header and locks.
TypeOK ==
    /\ ncores \in 1 .. MaxCores
    /\ pc \in [Cores -> BeforeStartup \cup InStartup \cup AfterStartup]
    /\ possible_cpus \in 0 .. ncores /\ cpu_online \in 0 .. ncores
    /\ current_boot_id \in Cores
    /\ bootId \in [Cores -> Cores \cup {Unknown}]
    /\ netThreads \subseteq {"rx", "tx"}
    /\ kvm_lock \in Cores \cup {Nobody}
    /\ sigterm \subseteq Cores /\ netSigterm \subseteq {"rx", "tx"}
    /\ uhyve_gdb_enabled \in BOOLEAN /\ netStarted \in BOOLEAN
    /\ ended \in BOOLEAN

\* "only one core is able to enter startup code" (init_cpu_state): no core
\* overwrites current_boot_id before its predecessor has read it, so each
\* core's startup code finds its own number.
OwnBootId == \A c \in Cores : bootId[c] \in {c, Unknown}

\* The order behind it: a core that has not announced itself finds at most its
\* predecessors online, and a core in the startup code is the only one there,
\* with its own number announced.
BootOrder ==
    \A c \in Cores :
        /\ pc[c] \in BeforeStartup => cpu_online <= c
        /\ pc[c] \in InStartup => cpu_online = c /\ current_boot_id = c

\* The inductive invariant of the boot.
BootInv == TypeOK /\ BootOrder /\ OwnBootId

\* All vCPU threads come online, one after the other, unless the guest leaves
\* first: "Other CPUs will be booted linearily after the first one."
AllCoresBoot ==
    <>(cpu_online = ncores \/ \E c \in Cores : pc[c] \in {"atexit", "cleanup"})

\* Once a core has left the guest, for whatever reason, the process ends: every
\* other thread is signalled, none is waited for in vain.
ShutdownCompletes ==
    (\E c \in Cores : pc[c] \in {"atexit", "cleanup"}) ~> ended

\* The process reports the guest's result: the status given to EXIT on core 0 is
\* the status of the process once core 0 has won the race for kvm_lock.  Nobody
\* then ends its thread with pthread_exit before exit() is through, which would
\* leave 0.  (It is lost when another core has locked kvm_lock first.)
StatusKept ==
    ended /\ kvm_lock = 0 /\ exitArg = "guest" => status \in {"guest", "fault"}

\* The order behind it: only the owner of kvm_lock sends signals, never to itself,
\* and the main thread never runs uhyve_exit as a cleanup handler; so once it owns
\* the lock it is in exit() until the end.
ExitOrder ==
    /\ \A c \in Cores : pc[c] \in {"atexit kill", "cleanup kill"} => kvm_lock = c
    /\ kvm_lock \notin sigterm
    /\ kvm_lock = Nobody => sigterm = {}
    /\ pc[0] \notin {"cleanup", "cleanup kill"}
    /\ kvm_lock = 0 => pc[0] \in {"atexit kill", "join"}

\* The inductive invariant of the shutdown.
ExitInv == ExitOrder /\ StatusKept
=============================================================================
