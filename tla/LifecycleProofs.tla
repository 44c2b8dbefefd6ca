--------------------------- MODULE LifecycleProofs ---------------------------
(***************************************************************************)
(* One core at a time is in the guest's startup code, for any number of    *)
(* cores, with or without the debugger, whatever the shutdown interrupts;  *)
(* and the guest's status survives the shutdown if the main thread is the  *)
(* first to lock kvm_lock.                                                 *)
(***************************************************************************)
EXTENDS Lifecycle, TLAPS

\* The program starts in the boot order: nothing is online or announced.
LEMMA BootInvInit == Init => BootInv
<1> SUFFICES ASSUME Init PROVE BootInv
    OBVIOUS
<1> USE LifecycleAssumption DEF Init
<1>1. ncores \in Nat \ {0} /\ 0 \in Cores /\ Cores \subseteq Nat
    BY DEF Cores
<1>2. TypeOK
  <2>1. pc \in [Cores -> BeforeStartup \cup InStartup \cup AfterStartup]
    BY DEF BeforeStartup
  <2>2. bootId \in [Cores -> Cores \cup {Unknown}]
    OBVIOUS
  <2>3. possible_cpus \in 0 .. ncores /\ cpu_online \in 0 .. ncores
    BY <1>1
  <2> QED BY <1>1, <2>1, <2>2, <2>3 DEF TypeOK
<1>3. BootOrder
    BY <1>1 DEF BootOrder, InStartup
<1>4. OwnBootId
    BY DEF OwnBootId
<1> QED BY <1>2, <1>3, <1>4 DEF BootInv

\* A step that leaves the kernel header alone and moves threads only within the
\* startup code, within what comes before it, or to what comes after it.
LEMMA PcStep ==
    ASSUME BootInv, Cores' = Cores, UNCHANGED <<cpu_online, current_boot_id, bootId>>,
           \A c \in Cores : \/ pc'[c] = pc[c]
                            \/ pc'[c] \in AfterStartup
                            \/ pc[c] \in BeforeStartup /\ pc'[c] \in BeforeStartup
                            \/ pc[c] \in InStartup /\ pc'[c] \in InStartup
    PROVE  BootOrder' /\ OwnBootId'
<1>1. \A s \in AfterStartup : s \notin BeforeStartup /\ s \notin InStartup
    BY DEF AfterStartup, BeforeStartup, InStartup
<1>2. \A s \in BeforeStartup : s \notin InStartup
    BY DEF BeforeStartup, InStartup
<1> QED BY <1>1, <1>2 DEF BootInv, BootOrder, OwnBootId

\* Every step of the boot keeps the order.
LEMMA BootKeepsOrder == BootInv /\ Boot => BootInv'
<1> SUFFICES ASSUME BootInv, Boot PROVE BootInv'
    OBVIOUS
<1>c. /\ Cores' = Cores /\ Cores \subseteq Nat /\ ncores \in Nat
      /\ UNCHANGED <<ncores, uhyve_gdb_enabled>>
    BY LifecycleAssumption DEF Boot, config, Cores, BootInv, TypeOK
<1>t. TypeOK /\ BootOrder /\ OwnBootId
    BY DEF BootInv
<1>s. BeforeStartup \cap InStartup = {}
    BY DEF BeforeStartup, InStartup
<1> USE <1>c, <1>t DEF BootInv, kheaderVars, netVars, exitVars
<1>1. CASE CreateThreads
  <2>1. TypeOK'
    BY <1>1 DEF CreateThreads, TypeOK, BeforeStartup
  <2>2. 0 \in Cores /\ cpu_online = 0
    BY <1>1 DEF CreateThreads, TypeOK, BootOrder, BeforeStartup, Cores
  <2>3. BootOrder'
    BY <1>1, <2>2 DEF CreateThreads, BootOrder, InStartup
  <2>4. OwnBootId'
    BY <1>1 DEF CreateThreads, OwnBootId
  <2> QED BY <2>1, <2>3, <2>4
<1>2. CASE FirstBarrier
  <2>1. TypeOK'
    BY <1>2 DEF FirstBarrier, AllAt, TypeOK, BeforeStartup, InStartup
  <2> QED BY <2>1, <1>2, PcStep DEF FirstBarrier, AllAt, TypeOK, BeforeStartup, InStartup
<1>3. CASE PublishCpus
  <2>1. TypeOK'
    <3>1. possible_cpus' \in 0 .. ncores
      BY <1>3 DEF PublishCpus
    <3>2. pc' \in [Cores -> BeforeStartup \cup InStartup \cup AfterStartup]
      BY <1>3 DEF PublishCpus, TypeOK, BeforeStartup
    <3> QED BY <1>3, <3>1, <3>2 DEF PublishCpus, TypeOK
  <2> QED BY <2>1, <1>3, PcStep DEF PublishCpus, TypeOK, BeforeStartup, InStartup
<1>4. CASE SecondBarrier
  <2>1. TypeOK'
    BY <1>4 DEF SecondBarrier, AllAt, TypeOK, BeforeStartup, InStartup
  <2> QED BY <2>1, <1>4, PcStep DEF SecondBarrier, AllAt, TypeOK, BeforeStartup, InStartup
<1>5. CASE GdbBarrier
  <2>1. TypeOK'
    BY <1>5 DEF GdbBarrier, AllAt, TypeOK, BeforeStartup, InStartup
  <2> QED BY <2>1, <1>5, PcStep DEF GdbBarrier, AllAt, TypeOK, BeforeStartup, InStartup
<1>6. ASSUME NEW c \in Cores, InitCpu(c) PROVE BootInv'
  <2>1. TypeOK'
    BY <1>6 DEF InitCpu, TypeOK, BeforeStartup, InStartup
  <2>2. cpu_online = c /\ pc'[c] \in InStartup
    BY <1>6 DEF InitCpu, PredecessorOnline, TypeOK, BootOrder, BeforeStartup, InStartup
  <2>3. \A d \in Cores : pc[d] \notin InStartup
    BY <1>6, <1>s, <2>2 DEF InitCpu, BootOrder, BeforeStartup
  <2>4. BootOrder'
    BY <1>6, <1>s, <2>2, <2>3 DEF InitCpu, TypeOK, BootOrder
  <2>5. OwnBootId'
    BY <1>6 DEF InitCpu, OwnBootId
  <2> QED BY <2>1, <2>4, <2>5
<1>7. ASSUME NEW c \in Cores, GdbInit(c) PROVE BootInv'
  <2>1. TypeOK'
    BY <1>7 DEF GdbInit, TypeOK, BeforeStartup, InStartup
  <2> QED BY <2>1, <1>7, PcStep DEF GdbInit, TypeOK, BeforeStartup, InStartup
<1>8. ASSUME NEW c \in Cores, GuestReadsId(c) PROVE BootInv'
  <2>1. TypeOK'
    BY <1>8 DEF GuestReadsId, TypeOK
  <2>2. BootOrder'
    BY <1>8 DEF GuestReadsId, BootOrder
  <2>3. current_boot_id = c
    BY <1>8 DEF GuestReadsId, BootOrder, InStartup
  <2>4. OwnBootId'
    BY <1>8, <2>3 DEF GuestReadsId, TypeOK, OwnBootId
  <2> QED BY <2>1, <2>2, <2>4
<1>9. ASSUME NEW c \in Cores, GuestOnline(c) PROVE BootInv'
  <2>1. cpu_online = c /\ cpu_online' = c + 1 /\ pc'[c] = "online"
    BY <1>9 DEF GuestOnline, TypeOK, BootOrder, InStartup
  <2>2. TypeOK'
    <3>1. cpu_online' \in 0 .. ncores
      BY <2>1 DEF Cores
    <3>2. pc' \in [Cores -> BeforeStartup \cup InStartup \cup AfterStartup]
      BY <1>9 DEF GuestOnline, TypeOK, AfterStartup
    <3> QED BY <1>9, <3>1, <3>2 DEF GuestOnline, TypeOK
  <2>3. BootOrder'
    <3> SUFFICES ASSUME NEW d \in Cores
                 PROVE  /\ pc'[d] \in BeforeStartup => cpu_online' <= d
                        /\ pc'[d] \in InStartup => cpu_online' = d /\ current_boot_id' = d
        BY DEF BootOrder
    <3>1. CASE d = c
      BY <3>1, <2>1 DEF BeforeStartup, InStartup
    <3>2. CASE d # c
      BY <3>2, <2>1, <1>9 DEF GuestOnline, TypeOK, BootOrder
    <3> QED BY <3>1, <3>2
  <2>4. OwnBootId'
    BY <1>9 DEF GuestOnline, OwnBootId
  <2> QED BY <2>2, <2>3, <2>4
<1> QED BY <1>1, <1>2, <1>3, <1>4, <1>5, <1>6, <1>7, <1>8, <1>9 DEF Boot

\* Neither running nor shutting down lets a core back into the startup code.
LEMMA OthersKeepOrder == BootInv /\ (Run \/ Shutdown) => BootInv'
<1> SUFFICES ASSUME BootInv, Run \/ Shutdown PROVE BootInv'
    OBVIOUS
<1>c. /\ Cores' = Cores /\ Cores \subseteq Nat /\ ncores \in Nat
      /\ UNCHANGED <<ncores, uhyve_gdb_enabled>>
    BY LifecycleAssumption DEF Run, Shutdown, config, Cores, BootInv, TypeOK
<1>t. TypeOK
    BY DEF BootInv
<1>k. UNCHANGED <<possible_cpus, cpu_online, current_boot_id, bootId>>
    BY DEF Run, Shutdown, NetInfo, GuestExits, FatalError, NetTerminates,
           LastThread, LockTaken, LockRefused, KillThreads, VcpuTerminates,
           JoinAll, kheaderVars, exitVars, netVars
<1>p. /\ pc' \in [Cores -> BeforeStartup \cup InStartup \cup AfterStartup]
      /\ \A c \in Cores : pc'[c] = pc[c] \/ pc'[c] \in AfterStartup
    BY <1>t, <1>c DEF Run, Shutdown, NetInfo, GuestExits, FatalError, NetTerminates,
           LastThread, LockTaken, LockRefused, AfterExit, KillThreads,
           VcpuTerminates, JoinAll, TypeOK, AfterStartup, netVars, exitVars, kheaderVars
<1>n. /\ netThreads' \subseteq {"rx", "tx"} /\ netSigterm' \subseteq {"rx", "tx"}
      /\ kvm_lock' \in Cores \cup {Nobody} /\ sigterm' \subseteq Cores
    BY <1>t DEF Run, Shutdown, NetInfo, GuestExits, FatalError, NetTerminates,
           LastThread, LockTaken, LockRefused, KillThreads, Victims,
           VcpuTerminates, JoinAll, TypeOK, netVars, exitVars
<1>b. netStarted' \in BOOLEAN /\ ended' \in BOOLEAN
    BY <1>t DEF Run, Shutdown, NetInfo, GuestExits, FatalError, NetTerminates,
           LastThread, LockTaken, LockRefused, KillThreads,
           VcpuTerminates, JoinAll, TypeOK, netVars, exitVars
<1>1. TypeOK'
    BY <1>t, <1>c, <1>k, <1>p, <1>n, <1>b DEF TypeOK
<1>2. BootOrder' /\ OwnBootId'
    BY <1>c, <1>k, <1>p, PcStep
<1> QED BY <1>1, <1>2 DEF BootInv

\* The boot order holds at all times.
THEOREM BootInvHolds == Spec => []BootInv
<1>1. BootInv /\ UNCHANGED vars => BootInv'
    BY DEF BootInv, TypeOK, BootOrder, OwnBootId, vars, config, kheaderVars,
           netVars, exitVars, Cores
<1> QED BY <1>1, BootInvInit, BootKeepsOrder, OthersKeepOrder, PTL DEF Spec, Next

\* The types of threads, kernel header and locks are right at all times.
THEOREM LifecycleTypes == Spec => []TypeOK
<1>1. BootInv => TypeOK
    BY DEF BootInv
<1> QED BY <1>1, BootInvHolds, PTL

\* "only one core is able to enter startup code" (init_cpu_state): every core's
\* startup code reads its own number, for any number of cores.
THEOREM EachCoreReadsItsId == Spec => []OwnBootId
<1>1. BootInv => OwnBootId
    BY DEF BootInv
<1> QED BY <1>1, BootInvHolds, PTL

-----------------------------------------------------------------------------
(* The shutdown. *)

\* Nothing is locked or signalled at the start.
LEMMA ExitInvInit == Init => ExitInv
<1> SUFFICES ASSUME Init PROVE ExitInv
    OBVIOUS
<1>1. 0 \in Cores /\ \A c \in Cores : pc[c] \in {"create", "none"}
    BY LifecycleAssumption DEF Init, Cores
<1>2. kvm_lock # 0
    BY DEF Init, Nobody
<1> QED BY <1>1, <1>2 DEF Init, ExitInv, ExitOrder, StatusKept

\* The boot ends before the main thread locks anything.
LEMMA BootKeepsExit == BootInv /\ ExitInv /\ Boot => ExitInv'
<1> SUFFICES ASSUME BootInv, ExitInv, Boot PROVE ExitInv'
    OBVIOUS
<1>1. /\ Cores' = Cores /\ 0 \in Cores
      /\ pc \in [Cores -> BeforeStartup \cup InStartup \cup AfterStartup]
    BY LifecycleAssumption DEF Boot, config, Cores, BootInv, TypeOK
<1>2. UNCHANGED <<kvm_lock, sigterm, netSigterm, ended, exitArg, status>>
    BY DEF Boot, statusVars, exitVars, CreateThreads, FirstBarrier, PublishCpus,
           SecondBarrier, GdbBarrier, InitCpu, GdbInit, GuestReadsId, GuestOnline
<1>3. \A c \in Cores : \/ pc'[c] = pc[c]
                       \/ /\ pc'[c] \in BeforeStartup \cup InStartup \cup {"online"}
                          /\ pc[0] \in BeforeStartup \cup InStartup \/ c # 0
  <2>1. CASE CreateThreads \/ FirstBarrier \/ PublishCpus \/ SecondBarrier \/ GdbBarrier
    BY <2>1, <1>1 DEF CreateThreads, FirstBarrier, PublishCpus, SecondBarrier,
           GdbBarrier, AllAt, BeforeStartup, InStartup
  <2>2. ASSUME NEW c \in Cores,
               InitCpu(c) \/ GdbInit(c) \/ GuestReadsId(c) \/ GuestOnline(c)
        PROVE  \A d \in Cores :
                  \/ pc'[d] = pc[d]
                  \/ /\ pc'[d] \in BeforeStartup \cup InStartup \cup {"online"}
                     /\ pc[0] \in BeforeStartup \cup InStartup \/ d # 0
    BY <2>2, <1>1 DEF InitCpu, GdbInit, GuestReadsId, GuestOnline, BeforeStartup,
           InStartup
  <2> QED BY <2>1, <2>2 DEF Boot
<1>4. ExitOrder'
    BY <1>1, <1>2, <1>3 DEF ExitInv, ExitOrder, BeforeStartup, InStartup
<1> QED BY <1>2, <1>4 DEF ExitInv, StatusKept

\* Whoever leaves, and in whatever order the threads are killed.
LEMMA OthersKeepExit == BootInv /\ ExitInv /\ (Run \/ Shutdown) => ExitInv'
<1> SUFFICES ASSUME BootInv, ExitInv, Run \/ Shutdown PROVE ExitInv'
    OBVIOUS
<1>c. /\ Cores' = Cores /\ 0 \in Cores /\ Nobody \notin Cores /\ Cores \subseteq Nat
      /\ pc \in [Cores -> BeforeStartup \cup InStartup \cup AfterStartup]
      /\ kvm_lock \in Cores \cup {Nobody} /\ sigterm \subseteq Cores
    BY LifecycleAssumption DEF Run, Shutdown, config, Cores, BootInv, TypeOK, Nobody
<1>e. ExitOrder /\ StatusKept
    BY DEF ExitInv
<1>1. ASSUME NEW c \in Cores, NetInfo(c) PROVE ExitInv'
    BY <1>1, <1>c, <1>e DEF NetInfo, exitVars, statusVars, ExitInv, ExitOrder, StatusKept
<1>2. ASSUME NEW c \in Cores, GuestExits(c) \/ FatalError(c) PROVE ExitInv'
  <2>1. /\ ~ ended /\ pc[c] = "online"
        /\ UNCHANGED <<kvm_lock, sigterm, netSigterm, ended>>
        /\ pc' = [pc EXCEPT ![c] = "atexit"] \/ (c # 0 /\ pc' = [pc EXCEPT ![c] = "cleanup"])
    BY <1>2 DEF GuestExits, FatalError, MayExit, exitVars
  <2>2. ExitOrder'
    BY <2>1, <1>c, <1>e DEF ExitOrder
  <2> QED BY <2>1, <2>2 DEF ExitInv, StatusKept
<1>3. ASSUME NEW c \in Cores, LockTaken(c) PROVE ExitInv'
  <2>1. /\ ~ ended /\ kvm_lock = Nobody /\ kvm_lock' = c
        /\ UNCHANGED <<sigterm, ended>>
        /\ \/ pc[c] = "atexit" /\ pc' = [pc EXCEPT ![c] = "atexit kill"]
           \/ pc[c] = "cleanup" /\ pc' = [pc EXCEPT ![c] = "cleanup kill"]
    BY <1>3 DEF LockTaken
  <2>2. sigterm = {} /\ \A d \in Cores : pc[d] \notin {"atexit kill", "cleanup kill"}
    BY <2>1, <1>c, <1>e DEF ExitOrder
  <2>3. ExitOrder'
    BY <2>1, <2>2, <1>c, <1>e DEF ExitOrder
  <2> QED BY <2>1, <2>3 DEF ExitInv, StatusKept
<1>4. ASSUME NEW c \in Cores, LockRefused(c) PROVE ExitInv'
  <2>1. /\ ~ ended /\ UNCHANGED <<kvm_lock, sigterm, ended>>
        /\ \/ pc[c] = "atexit" /\ pc' = [pc EXCEPT ![c] = "join"]
           \/ pc[c] = "cleanup" /\ pc' = [pc EXCEPT ![c] = "gone"]
    BY <1>4 DEF LockRefused, AfterExit, exitVars
  <2>2. ExitOrder'
    BY <2>1, <1>c, <1>e DEF ExitOrder
  <2> QED BY <2>1, <2>2 DEF ExitInv, StatusKept
<1>5. ASSUME NEW c \in Cores, KillThreads(c) PROVE ExitInv'
  <2>1. /\ ~ ended /\ kvm_lock' = kvm_lock /\ sigterm' = sigterm \cup (Cores \ {c})
        /\ exitArg' = exitArg /\ status' = (IF ended' THEN "fault" ELSE status)
        /\ \/ pc[c] = "atexit kill" /\ pc' = [pc EXCEPT ![c] = "join"]
           \/ pc[c] = "cleanup kill" /\ pc' = [pc EXCEPT ![c] = "gone"]
    BY <1>5 DEF KillThreads, Victims, AfterExit
  <2>2. kvm_lock = c
    BY <2>1, <1>e DEF ExitOrder
  <2>3. ExitOrder'
    BY <2>1, <2>2, <1>c, <1>e DEF ExitOrder
  <2> QED BY <2>1, <2>3 DEF ExitInv, StatusKept
<1>6. ASSUME NEW c \in Cores, VcpuTerminates(c) PROVE ExitInv'
  <2>1. /\ ~ ended /\ c \in sigterm /\ UNCHANGED <<kvm_lock, ended>>
        /\ sigterm' = sigterm \ {c}
        /\ pc' = [pc EXCEPT ![c] = IF c = 0 THEN "gone" ELSE "cleanup"]
    BY <1>6 DEF VcpuTerminates
  <2>2. kvm_lock # c
    BY <2>1, <1>e DEF ExitOrder
  <2>3. ExitOrder'
    BY <2>1, <2>2, <1>c, <1>e DEF ExitOrder
  <2> QED BY <2>1, <2>3 DEF ExitInv, StatusKept
<1>7. CASE NetTerminates
    BY <1>7, <1>c, <1>e DEF NetTerminates, statusVars, ExitInv, ExitOrder, StatusKept
<1>8. ASSUME NEW c \in Cores, JoinAll(c) PROVE ExitInv'
    BY <1>8, <1>c, <1>e DEF JoinAll, ExitInv, ExitOrder, StatusKept
<1>9. CASE LastThread
  <2>1. pc[0] = "gone" /\ UNCHANGED <<pc, kvm_lock, sigterm>>
    BY <1>9, <1>c DEF LastThread, AllAt
  <2>2. kvm_lock' # 0
    BY <2>1, <1>e DEF ExitOrder
  <2> QED BY <2>1, <2>2, <1>c, <1>e DEF ExitInv, ExitOrder, StatusKept
<1> QED BY <1>1, <1>2, <1>3, <1>4, <1>5, <1>6, <1>7, <1>8, <1>9 DEF Run, Shutdown

\* The status the guest gave to EXIT on core 0 is that of the process if core 0 has
\* locked kvm_lock, for any number of cores and whatever else happens meanwhile
\* (a process that dies of the fault in uhyve_exit apart).
THEOREM GuestStatusKept == Spec => []StatusKept
<1>1. ExitInv /\ UNCHANGED vars => ExitInv'
  <2> SUFFICES ASSUME ExitInv, UNCHANGED vars PROVE ExitInv'
    OBVIOUS
  <2>1. UNCHANGED <<ncores, pc, kvm_lock, sigterm, ended, exitArg, status>>
    BY DEF vars, config, exitVars, statusVars
  <2>2. ExitOrder'
    BY <2>1, Zenon DEF ExitInv, ExitOrder, Cores
  <2>3. StatusKept'
    BY <2>1, Zenon DEF ExitInv, StatusKept
  <2> QED BY <2>2, <2>3 DEF ExitInv
<1>2. BootInv /\ ExitInv /\ [Next]_vars => ExitInv'
    BY <1>1, BootKeepsExit, OthersKeepExit DEF Next
<1>3. ExitInv => StatusKept
    BY DEF ExitInv
<1> QED BY <1>2, <1>3, ExitInvInit, BootInvHolds, PTL DEF Spec
=============================================================================
