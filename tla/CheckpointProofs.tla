-------------------------- MODULE CheckpointProofs --------------------------
(***************************************************************************)
(* The checkpoint that chk_config.txt names can be restored, for any       *)
(* number of cores, pages and checkpoints, wherever processes die.         *)
(***************************************************************************)
EXTENDS Checkpoint, TLAPS, WellFoundedInduction

-----------------------------------------------------------------------------
(* The chain of memory files. *)

\* Of the files that contain a page, one is the last.
LEMMA LastFile ==
    ASSUME NEW n \in Int, NEW S, S \subseteq 0 .. n, S # {}
    PROVE  \E i \in S : \A j \in S : i >= j
<1> DEFINE D == {n - i : i \in S}
<1>1. D \subseteq Nat /\ D # {}
  <2>1. \A i \in S : n - i \in Nat
    OBVIOUS
  <2>2. PICK i \in S : TRUE
    OBVIOUS
  <2>3. n - i \in D
    BY <2>2
  <2> QED BY <2>1, <2>3
<1>2. PICK d \in D : \A e \in D : <<e, d>> \notin OpToRel(<, Nat)
    BY <1>1, NatLessThanWellFounded, WFMin
<1>3. \A e \in D : ~ (e < d)
    BY <1>1, <1>2, Zenon DEF OpToRel
<1>4. PICK i \in S : d = n - i
    OBVIOUS
<1>5. \A j \in S : i >= j
  <2> TAKE j \in S
  <2>1. n - j \in D
    OBVIOUS
  <2>2. ~ (n - j < n - i)
    BY <2>1, <1>3, <1>4
  <2> QED BY <2>2
<1> QED BY <1>5

\* Files that stay as they are give the same content.
LEMMA LatestKept ==
    ASSUME NEW f, NEW g, NEW n \in Int, NEW p,
           \A i \in 0 .. n : f[i][p] = g[i][p]
    PROVE  Latest(f, 0, n, p) = Latest(g, 0, n, p)
<1> DEFINE S == {i \in 0 .. n : f[i][p] # Absent}
           T == {i \in 0 .. n : g[i][p] # Absent}
<1>1. S = T
    OBVIOUS
<1>2. CASE S = {}
    BY <1>1, <1>2 DEF Latest
<1>3. CASE S # {}
  <2> DEFINE m == CHOOSE i \in S : \A j \in S : i >= j
  <2>1. \E i \in S : \A j \in S : i >= j
    <3>1. S \subseteq 0 .. n
      OBVIOUS
    <3> HIDE DEF S
    <3> QED BY <1>3, <3>1, LastFile
  <2>2. m \in 0 .. n
    BY <2>1
  <2>3. Latest(f, 0, n, p) = f[m][p]
    BY <1>3 DEF Latest
  <2>4. Latest(g, 0, n, p) = g[m][p]
    BY <1>1, <1>3 DEF Latest
  <2> QED BY <2>2, <2>3, <2>4
<1> QED BY <1>2, <1>3

\* The newest file decides, if it contains the page ...
LEMMA LatestHas ==
    ASSUME NEW f, NEW n \in Nat, NEW p, f[n][p] # Absent
    PROVE  Latest(f, 0, n, p) = f[n][p]
<1> DEFINE S == {i \in 0 .. n : f[i][p] # Absent}
<1>1. n \in S /\ \A i \in S : i \in Int /\ n >= i
    OBVIOUS
<1>2. (CHOOSE i \in S : \A j \in S : i >= j) = n
  <2> HIDE DEF S
  <2>1. \A i \in S : (\A j \in S : i >= j) => i = n
    BY <1>1
  <2>2. \A j \in S : n >= j
    BY <1>1
  <2> QED BY <1>1, <2>1, <2>2
<1> QED BY <1>1, <1>2 DEF Latest

\* ... and the files before it, if not.
LEMMA LatestHasNot ==
    ASSUME NEW f, NEW n \in Nat, NEW p, f[n][p] = Absent
    PROVE  Latest(f, 0, n, p) = Latest(f, 0, n - 1, p)
<1> DEFINE S == {i \in 0 .. n : f[i][p] # Absent}
           T == {i \in 0 .. n - 1 : f[i][p] # Absent}
           Last(U) == IF U = {} THEN 0
                      ELSE f[CHOOSE i \in U : \A j \in U : i >= j][p]
<1>1. S = T
    OBVIOUS
<1>2. Latest(f, 0, n, p) = Last(S) /\ Latest(f, 0, n - 1, p) = Last(T)
    BY DEF Latest
<1> HIDE DEF S, T, Last
<1> QED BY <1>1, <1>2

\* Without a file all memory is zero.
LEMMA LatestNone == ASSUME NEW f, NEW p PROVE Latest(f, 0, -1, p) = 0
BY DEF Latest

\* The content is a version, if the files hold versions.
LEMMA LatestType ==
    ASSUME NEW f, NEW n \in Int, NEW p,
           \A i \in 0 .. n : f[i][p] \in Nat \cup {Absent}
    PROVE  Latest(f, 0, n, p) \in Nat
<1> DEFINE S == {i \in 0 .. n : f[i][p] # Absent}
<1>1. CASE S = {}
    BY <1>1 DEF Latest
<1>2. CASE S # {}
  <2> DEFINE m == CHOOSE i \in S : \A j \in S : i >= j
  <2>1. \E i \in S : \A j \in S : i >= j
    <3>1. S \subseteq 0 .. n
      OBVIOUS
    <3> HIDE DEF S
    <3> QED BY <1>2, <3>1, LastFile
  <2>2. m \in S
    BY <2>1
  <2>3. Latest(f, 0, n, p) = f[m][p]
    BY <1>2 DEF Latest
  <2> QED BY <2>2, <2>3
<1> QED BY <1>1, <1>2

-----------------------------------------------------------------------------
(* What a step that leaves a part alone keeps of the invariant. *)

\* Cores, pages and numbers are integers.
LEMMA Basics ==
    ASSUME TypeOK
    PROVE  /\ 0 \in Cores /\ Cores \subseteq AllCores /\ Cores \subseteq Nat
           /\ NoCore \notin Cores
           /\ OwnPages \subseteq Pages
           /\ committed \in Int /\ no_checkpoint \in Nat /\ Top \in Int
<1>1. ncores \in Nat /\ 1 <= ncores /\ ncores <= NCores /\ NCores \in Nat
    BY CheckpointAssumption DEF TypeOK
<1>2. OwnPages \subseteq Pages
    BY CheckpointAssumption DEF OwnPages, Pages
<1>3. committed \in Int /\ no_checkpoint \in Nat
    BY DEF TypeOK, NoNumber
<1> QED BY <1>1, <1>2, <1>3 DEF Cores, AllCores, NoCore, Top

\* The checkpoint named stays as good as it was if its files are not touched.
LEMMA CommittedKept ==
    ASSUME TypeOK, NumberInv, CommittedRestorable, UNCHANGED config,
           \A i \in DOMAIN memFile :
              i <= committed => i \in DOMAIN memFile' /\ memFile'[i] = memFile[i],
           \A k \in DOMAIN coreFile :
              k[1] <= committed => k \in DOMAIN coreFile' /\ coreFile'[k] = coreFile[k],
           committed \in DOMAIN cut =>
              committed \in DOMAIN cut' /\ cut'[committed] = cut[committed]
    PROVE  CommittedRestorable'
<1> SUFFICES ASSUME config.state = "ok"
             PROVE  Complete(config.number, config.ncores, config.full)'
    BY DEF CommittedRestorable
<1> DEFINE n == config.number
<1>2. Complete(n, config.ncores, config.full)
    BY DEF CommittedRestorable
<1>1. n = committed /\ n \in Nat /\ n \in DOMAIN cut' /\ cut'[n] = cut[n] /\ n' = n
  <2>1. n = committed
    BY DEF NumberInv
  <2>2. n \in Nat
    BY DEF TypeOK, NoConfig, EmptyConfig
  <2>3. n \in DOMAIN cut
    BY <1>2 DEF Complete
  <2> QED BY <2>1, <2>2, <2>3
<1>3. \A c \in 0 .. config.ncores - 1 :
         /\ <<n, c>> \in DOMAIN coreFile'
         /\ coreFile'[<<n, c>>] = cut'[n].cpu[c]
  <2> TAKE c \in 0 .. config.ncores - 1
  <2>1. <<n, c>> \in DOMAIN coreFile /\ coreFile[<<n, c>>] = cut[n].cpu[c]
    BY <1>2 DEF Complete
  <2>2. <<n, c>>[1] <= committed
    BY <1>1
  <2> QED BY <1>1, <2>1, <2>2
<1>4. 0 .. n \subseteq DOMAIN memFile' /\ \A i \in 0 .. n : memFile'[i] = memFile[i]
  <2>1. 0 .. n \subseteq DOMAIN memFile
    BY <1>2 DEF Complete
  <2> QED BY <1>1, <2>1
<1>5. [p \in Pages |-> Latest(memFile', 0, n, p)]
         = [p \in Pages |-> Latest(memFile, 0, n, p)]
    BY <1>1, <1>4, LatestKept
<1>6. \A p \in Due(n, config.full) :
         [q \in Pages |-> Latest(memFile', 0, n, q)][p] = cut'[n].mem[p]
    BY <1>1, <1>2, <1>5 DEF Complete, Loaded, ParsedFull, FirstFile
<1>7. Due(n, config.full)' = Due(n, config.full)
    BY <1>1 DEF Due
<1> QED BY <1>1, <1>3, <1>4, <1>6, <1>7
        DEF Complete, Loaded, ParsedFull, FirstFile

\* The guest and the threads move on outside of a checkpoint's two barriers: a
\* page that is changed gets its flags.
LEMMA ChainKept ==
    ASSUME TypeOK, ChainInv, up, ~ Saving, ~ Saving', Top' = Top,
           UNCHANGED <<memFile, full_checkpoint>>,
           \A p \in OwnPages :
              \/ /\ mem'[p] = mem[p]
                 /\ dirty[p] => dirty'[p]
                 /\ accessed[p] => accessed'[p]
              \/ dirty'[p] /\ accessed'[p]
    PROVE  ChainInv'
<1>1. ~ AtLeader({"save"})' /\ ~ AtLeader({"scan"})' /\ ~ AtLeader({"part"})'
      /\ ~ AtLeader({"scan", "part"})'
    BY DEF Saving, AtLeader
<1>2. 0 .. Top \subseteq DOMAIN memFile
    BY DEF ChainInv
<1>3. ASSUME NEW p \in OwnPages
      PROVE  \/ Chain(Top, p)' = mem'[p]
             \/ IF ~ full_checkpoint' /\ Top' >= 0 THEN dirty'[p] ELSE accessed'[p]
  <2>1. \/ Chain(Top, p) = mem[p]
        \/ IF ~ full_checkpoint /\ Top >= 0 THEN dirty[p] ELSE accessed[p]
    BY DEF ChainInv
  <2>2. Chain(Top, p)' = Chain(Top, p)
    BY DEF Chain
  <2> QED BY <2>1, <2>2
<1> QED BY <1>1, <1>2, <1>3 DEF ChainInv

\* A process that is down promises nothing of its threads.
LEMMA DownKeeps ==
    ASSUME CheckpointInv, Down, UNCHANGED <<diskVars, cut, committed>>
    PROVE  CheckpointInv'
<1>i. TypeOK /\ NumberInv /\ CommittedRestorable
    BY DEF CheckpointInv
<1> USE DEF Down, diskVars
<1>1. TypeOK'
  <2>1. BootMemory \in [Pages -> Nat]
    BY DEF BootMemory
  <2>2. 1 \in 1 .. NCores /\ 0 \in 0 .. NPages
    BY CheckpointAssumption
  <2> QED BY <1>i, <2>1, <2>2 DEF TypeOK
<1>2. ThreadInv'
    BY DEF ThreadInv
<1>3. NumberInv'
    BY <1>i DEF NumberInv
<1>4. ChainInv' /\ CutInv'
    BY DEF ChainInv, CutInv
<1>5. CommittedRestorable'
    BY <1>i, CommittedKept
<1> QED BY <1>1, <1>2, <1>3, <1>4, <1>5 DEF CheckpointInv

\* Without a process and without files there is nothing to lose.
LEMMA InvInit == Init => CheckpointInv
<1> SUFFICES ASSUME Init PROVE CheckpointInv
    OBVIOUS
<1> USE DEF Init
<1>1. TypeOK
  <2>1. BootMemory \in [Pages -> Nat]
    BY DEF BootMemory
  <2>2. 1 \in 1 .. NCores /\ 0 \in 0 .. NPages
    BY CheckpointAssumption
  <2>3. DOMAIN memFile = {} /\ DOMAIN coreFile = {}
    OBVIOUS
  <2>4. /\ \A n \in DOMAIN memFile : memFile[n] \in [Pages -> Nat \cup {Absent}]
        /\ \A k \in DOMAIN coreFile : coreFile[k] \in Nat
        /\ DOMAIN memFile \subseteq Nat /\ DOMAIN coreFile \subseteq Nat \X AllCores
    BY <2>3
  <2> QED BY <2>1, <2>2, <2>4 DEF TypeOK
<1>2. ThreadInv
    BY DEF ThreadInv
<1>3. NumberInv
    BY DEF NumberInv, NoConfig
<1>4. ChainInv /\ CutInv
    BY DEF ChainInv, CutInv
<1>5. CommittedRestorable
    BY DEF CommittedRestorable, NoConfig
<1> QED BY <1>1, <1>2, <1>3, <1>4, <1>5 DEF CheckpointInv

-----------------------------------------------------------------------------
(* Starting a process. *)

\* A process starts fresh, or with the pages the chain of files gives.
LEMMA StartKeeps == CheckpointInv /\ (StartFresh \/ StartRestart) => CheckpointInv'
<1> SUFFICES ASSUME CheckpointInv, StartFresh \/ StartRestart PROVE CheckpointInv'
    OBVIOUS
<1>i. TypeOK /\ NumberInv /\ CommittedRestorable
    BY DEF CheckpointInv
<1>a. NCores \in Nat \ {0} /\ NPages \in Nat
    BY CheckpointAssumption
<1>u. /\ UNCHANGED <<memFile, coreFile, config, cut>> /\ up' = TRUE
      /\ leader' = NoCore /\ signalled' = {} /\ pos' = 0
      /\ pc' = [c \in AllCores |-> "boot"] /\ cpu' = [c \in AllCores |-> 0]
    BY DEF StartFresh, StartRestart, diskVars, histVars
<1>l. ~ Saving' /\ ~ Saved' /\ (Restoring' <=> restart')
      /\ \A w \in {{"save"}, {"scan"}, {"part"}, {"scan", "part"}, {"next"}} : ~ AtLeader(w)'
  <2>1. 0 \in AllCores
    BY <1>a DEF AllCores
  <2> QED BY <1>u, <2>1 DEF Saving, Saved, AtLeader, Restoring
<1>1. CASE StartFresh
  <2>u. /\ config.state = "none" /\ restart' = FALSE /\ ncores' = NCores
        /\ no_checkpoint' = 0 /\ full_checkpoint' \in BOOLEAN /\ mem' = BootMemory
        /\ accessed' = [p \in Pages |-> FALSE] /\ dirty' = [p \in Pages |-> FALSE]
        /\ UNCHANGED committed
    BY <1>1 DEF StartFresh, histVars
  <2>1. TypeOK'
    <3>1. BootMemory \in [Pages -> Nat]
      BY DEF BootMemory
    <3>2. NCores \in 1 .. NCores /\ 0 \in 0 .. NPages
      BY <1>a
    <3> QED BY <1>i, <1>u, <2>u, <3>1, <3>2 DEF TypeOK
  <2>2. ThreadInv'
    <3>1. Cores' \subseteq AllCores /\ 0 \in AllCores
      BY <2>u, <1>a DEF Cores, AllCores
    <3> QED BY <1>u, <3>1 DEF ThreadInv
  <2>3. NumberInv'
    BY <1>i, <1>u, <1>l, <2>u DEF NumberInv, NoNumber
  <2>4. ChainInv'
    <3>1. Top' = -1
      BY <1>l, <2>u DEF Top
    <3>2. 0 .. Top' = {}
      BY <3>1
    <3>3. \A p \in OwnPages : Chain(Top, p)' = mem'[p]
      <4> TAKE p \in OwnPages
      <4>1. mem'[p] = 0
        BY <2>u, <1>i, Basics DEF BootMemory, OwnPages
      <4>2. Chain(Top, p)' = Latest(memFile', 0, -1, p)
        BY <3>1 DEF Chain
      <4> QED BY <4>1, <4>2, LatestNone
    <3> QED BY <1>l, <3>2, <3>3 DEF ChainInv
  <2>5. CutInv'
    BY <1>l DEF CutInv
  <2>6. CommittedRestorable'
    BY <1>i, <1>u, CommittedKept
  <2> QED BY <2>1, <2>2, <2>3, <2>4, <2>5, <2>6 DEF CheckpointInv
<1>2. CASE StartRestart
  <2>n. /\ ParsedNumber \in Nat /\ ParsedCores \in 1 .. NCores
        /\ config.state = "ok" => ParsedNumber = config.number
    BY <1>i, <1>a DEF TypeOK, ParsedNumber, ParsedCores, NoConfig, EmptyConfig
  <2>u. /\ restart' = TRUE /\ ncores' = ParsedCores /\ no_checkpoint' = ParsedNumber
        /\ full_checkpoint' = FALSE /\ config.state # "none"
        /\ mem' = [p \in Pages |-> Latest(memFile, 0, ParsedNumber, p)]
        /\ accessed' = [p \in Pages |-> TRUE] /\ dirty' \in [Pages -> BOOLEAN]
        /\ committed' = ParsedNumber
        /\ 0 .. ParsedNumber \subseteq DOMAIN memFile
    BY <1>2 DEF StartRestart, ParsedFull, Loaded, FirstFile
  <2>1. TypeOK'
    <3>1. \A p \in Pages : Latest(memFile, 0, ParsedNumber, p) \in Nat
      <4> TAKE p \in Pages
      <4>1. \A j \in 0 .. ParsedNumber : memFile[j][p] \in Nat \cup {Absent}
        BY <1>i, <2>u DEF TypeOK
      <4> QED BY <2>n, <4>1, LatestType
    <3>2. mem' \in [Pages -> Nat] /\ accessed' \in [Pages -> BOOLEAN]
      BY <2>u, <3>1
    <3>3. 0 \in 0 .. NPages
      BY <1>a
    <3> QED BY <1>i, <1>u, <2>u, <2>n, <3>2, <3>3 DEF TypeOK
  <2>2. ThreadInv'
    <3>1. Cores' \subseteq AllCores /\ 0 \in AllCores
      BY <2>u, <2>n, <1>a DEF Cores, AllCores
    <3> QED BY <1>u, <3>1 DEF ThreadInv
  <2>3. NumberInv'
    BY <1>i, <1>u, <1>l, <2>u, <2>n DEF NumberInv
  <2>4. ChainInv'
    <3>1. Top' = ParsedNumber
      BY <1>l, <2>u DEF Top
    <3>2. \A p \in OwnPages : Chain(Top, p)' = mem'[p]
      BY <1>u, <2>u, <3>1, <1>i, Basics DEF Chain
    <3> QED BY <1>l, <1>u, <2>u, <3>1, <3>2 DEF ChainInv
  <2>5. CutInv'
    BY <1>l DEF CutInv
  <2>6. CommittedRestorable'
    BY <1>i, <1>u, CommittedKept
  <2> QED BY <2>1, <2>2, <2>3, <2>4, <2>5, <2>6 DEF CheckpointInv
<1> QED BY <1>1, <1>2

\* The threads restore their registers and pass the barrier; the first one counts.
LEMMA BootKeeps == CheckpointInv /\ BootStep => CheckpointInv'
<1> SUFFICES ASSUME CheckpointInv, BootStep PROVE CheckpointInv'
    OBVIOUS
<1>i. TypeOK /\ ThreadInv /\ NumberInv /\ ChainInv /\ CommittedRestorable
    BY DEF CheckpointInv
<1>b. /\ 0 \in Cores /\ Cores \subseteq AllCores /\ NoCore \notin Cores
      /\ no_checkpoint \in Nat
    BY <1>i, Basics
<1>d. CASE \E c \in Cores : RestoreCpu(c) /\ Down
    BY <1>d, DownKeeps DEF RestoreCpu, histVars
<1>e. CASE BootBarrier \/ CountRestart
           \/ \E c \in Cores : InitCpu(c) \/ (RestoreCpu(c) /\ ~ Down)
  <2>u. /\ UNCHANGED <<memFile, coreFile, config, cut, committed, up, ncores,
                       full_checkpoint, restart, leader, signalled, pos, mem,
                       accessed, dirty>>
        /\ up
    BY <1>e DEF BootBarrier, CountRestart, InitCpu, RestoreCpu, procVars,
                guestVars, diskVars, histVars
  <2>c. Cores' = Cores
    BY <2>u DEF Cores
  <2>n. leader = NoCore /\ signalled = {}
    <3>1. \E c \in Cores : pc[c] \in {"boot", "init", "count"}
      BY <1>e, <1>b DEF BootBarrier, CountRestart, InitCpu, RestoreCpu
    <3> QED BY <1>i, <2>u, <3>1 DEF ThreadInv, Saving, Saved, AtLeader
  <2>l. ~ Saving /\ ~ Saving' /\ ~ Saved /\ ~ Saved'
        /\ ~ AtLeader({"next"}) /\ ~ AtLeader({"next"})'
    BY <2>n, <2>u DEF Saving, Saved, AtLeader
  <2>p. /\ pc' \in [AllCores -> {"none", "boot", "init", "count", "guest", "meet",
                       "save", "scan", "part", "config", "write", "next"}]
        /\ \A c \in Cores : pc'[c] \in {"boot", "init", "count", "guest"}
        /\ pc'[0] = "count" => restart
        /\ cpu' \in [AllCores -> Nat]
        /\ IF Restoring /\ ~ Restoring'
           THEN no_checkpoint' = no_checkpoint + 1
           ELSE no_checkpoint' = no_checkpoint /\ Restoring' = Restoring
    <3>t. /\ pc \in [AllCores -> {"none", "boot", "init", "count", "guest", "meet",
                       "save", "scan", "part", "config", "write", "next"}]
          /\ cpu \in [AllCores -> Nat]
          /\ \A c \in Cores : pc[c] \in {"boot", "init", "count", "guest"}
          /\ pc[0] = "count" => restart
      BY <1>i, <2>u, <2>n, <1>b DEF TypeOK, ThreadInv
    <3>1. CASE BootBarrier
      BY <3>1, <3>t, <1>b, <2>u DEF BootBarrier, procVars, guestVars, Restoring
    <3>2. CASE CountRestart
      BY <3>2, <3>t, <1>b, <2>u DEF CountRestart, guestVars, Restoring
    <3>3. ASSUME NEW c \in Cores, InitCpu(c) PROVE <2>p!:
      BY <3>3, <3>t, <1>b, <2>u DEF InitCpu, procVars, guestVars, Restoring
    <3>4. ASSUME NEW c \in Cores, RestoreCpu(c), ~ Down PROVE <2>p!:
      <4>1. /\ <<no_checkpoint, c>> \in DOMAIN coreFile
            /\ cpu' = [cpu EXCEPT ![c] = coreFile[<<no_checkpoint, c>>]]
            /\ pc' = [pc EXCEPT ![c] = IF c = 0 THEN "count" ELSE "guest"]
            /\ UNCHANGED no_checkpoint /\ pc[c] = "init" /\ restart
        BY <3>4 DEF RestoreCpu, procVars
      <4>2. coreFile[<<no_checkpoint, c>>] \in Nat
        BY <1>i, <4>1 DEF TypeOK
      <4>3. cpu' \in [AllCores -> Nat]
        BY <1>b, <3>t, <4>1, <4>2
      <4>4. \A d \in Cores : pc'[d] \in {"boot", "init", "count", "guest"}
        BY <1>b, <3>t, <4>1
      <4>5. Restoring' = Restoring
        BY <1>b, <3>t, <4>1, <2>u DEF Restoring
      <4> QED BY <1>b, <3>t, <4>1, <4>3, <4>4, <4>5
    <3> QED BY <1>e, <3>1, <3>2, <3>3, <3>4
  <2>1. TypeOK'
    BY <1>i, <2>u, <2>p DEF TypeOK
  <2>2. ThreadInv'
    BY <2>u, <2>c, <2>n, <2>p DEF ThreadInv
  <2>3. NumberInv'
    BY <1>i, <1>b, <2>u, <2>l, <2>p DEF NumberInv, Restoring
  <2>4. ChainInv'
    <3>1. Top' = Top
      BY <1>b, <2>l, <2>p, <2>u DEF Top, Restoring
    <3> QED BY <1>i, <2>u, <2>l, <3>1, ChainKept
  <2>5. CutInv'
    BY <2>l DEF CutInv
  <2>6. CommittedRestorable'
    BY <1>i, <2>u, CommittedKept
  <2> QED BY <2>1, <2>2, <2>3, <2>4, <2>5, <2>6 DEF CheckpointInv
<1> QED BY <1>d, <1>e DEF BootStep

-----------------------------------------------------------------------------
(* The guest. *)

\* A page only the guest writes is written with its flags, and never while the
\* cores are between the barriers.
LEMMA GuestKeeps == CheckpointInv /\ GuestStep => CheckpointInv'
<1> SUFFICES ASSUME CheckpointInv, NEW c \in Cores, NEW p \in Pages,
                    GuestWrite(c, p) \/ GuestRead(c, p) \/ HostFill(c, p)
             PROVE  CheckpointInv'
    BY DEF GuestStep
<1>i. TypeOK /\ ThreadInv /\ NumberInv /\ ChainInv /\ CutInv /\ CommittedRestorable
    BY DEF CheckpointInv
<1>b. Cores \subseteq AllCores /\ OwnPages \subseteq Pages
    BY <1>i, Basics
<1>u. /\ UNCHANGED procVars /\ UNCHANGED threadVars /\ UNCHANGED diskVars
      /\ UNCHANGED histVars /\ up /\ pc[c] = "guest"
    BY DEF GuestWrite, GuestRead, HostFill
<1> USE DEF procVars, threadVars, diskVars, histVars
<1>l. /\ ~ Saving /\ ~ Saving' /\ Saved' = Saved /\ Top' = Top
      /\ Restoring' = Restoring
      /\ AtLeader({"next"})' = AtLeader({"next"})
    BY <1>i, <1>u DEF ThreadInv, Saving, Saved, AtLeader, Top, Restoring
<1>f. /\ mem' \in [Pages -> Nat] /\ cpu' \in [AllCores -> Nat]
      /\ accessed' \in [Pages -> BOOLEAN] /\ dirty' \in [Pages -> BOOLEAN]
      /\ \A q \in OwnPages :
            \/ /\ mem'[q] = mem[q]
               /\ dirty[q] => dirty'[q]
               /\ accessed[q] => accessed'[q]
            \/ dirty'[q] /\ accessed'[q]
  <2>t. /\ mem \in [Pages -> Nat] /\ cpu \in [AllCores -> Nat]
        /\ accessed \in [Pages -> BOOLEAN] /\ dirty \in [Pages -> BOOLEAN]
    BY <1>i DEF TypeOK
  <2>1. CASE GuestWrite(c, p)
    BY <2>1, <2>t, <1>b DEF GuestWrite
  <2>2. CASE GuestRead(c, p)
    BY <2>2, <2>t, <1>b DEF GuestRead
  <2>3. CASE HostFill(c, p)
    <3>1. p \notin OwnPages
      BY <2>3 DEF HostFill, OwnPages
    <3> QED BY <2>3, <2>t, <1>b, <3>1 DEF HostFill
  <2> QED BY <2>1, <2>2, <2>3
<1>1. TypeOK'
    BY <1>i, <1>u, <1>f DEF TypeOK
<1>2. ThreadInv'
    BY <1>i, <1>u, <1>l DEF ThreadInv, Cores
<1>3. NumberInv'
    BY <1>i, <1>u, <1>l DEF NumberInv
<1>4. ChainInv'
    BY <1>i, <1>u, <1>l, <1>f, ChainKept
<1>5. CutInv'
  <2>1. Saved => Complete(no_checkpoint, ncores, full_checkpoint)'
    BY <1>i, <1>u DEF CutInv, Complete, Due, Loaded, ParsedFull
  <2> QED BY <1>l, <2>1 DEF CutInv
<1>6. CommittedRestorable'
    BY <1>i, <1>u, CommittedKept
<1> QED BY <1>1, <1>2, <1>3, <1>4, <1>5, <1>6 DEF CheckpointInv

-----------------------------------------------------------------------------
(* The two handlers. *)

\* The timer and the signals bring the cores to the first barrier.
LEMMA GatherKeeps ==
    CheckpointInv /\ (\E c \in Cores : Alarm(c) \/ TakeSignal(c)) => CheckpointInv'
<1> SUFFICES ASSUME CheckpointInv, NEW c \in Cores, Alarm(c) \/ TakeSignal(c)
             PROVE  CheckpointInv'
    OBVIOUS
<1>i. TypeOK /\ ThreadInv /\ NumberInv /\ ChainInv /\ CutInv /\ CommittedRestorable
    BY DEF CheckpointInv
<1>b. 0 \in Cores /\ Cores \subseteq AllCores /\ NoCore \notin Cores
    BY <1>i, Basics
<1>u. /\ UNCHANGED procVars /\ UNCHANGED guestVars /\ UNCHANGED diskVars
      /\ UNCHANGED histVars /\ UNCHANGED pos /\ up
      /\ pc' = [pc EXCEPT ![c] = "meet"]
    BY DEF Alarm, TakeSignal
<1> USE DEF procVars, guestVars, diskVars, histVars
<1>p. /\ leader' \in Cores /\ pc'[leader'] = "meet"
      /\ signalled' \subseteq Cores \ {leader'}
      /\ \A d \in Cores : pc'[d] = IF d \in signalled' THEN "guest" ELSE "meet"
      /\ \A d \in Cores : pc[d] \in {"guest", "meet"}
      /\ leader # NoCore => pc[leader] = "meet"
  <2>t. DOMAIN pc = AllCores
    BY <1>i DEF TypeOK
  <2>1. CASE Alarm(c)
    BY <2>1, <2>t, <1>b, <1>u DEF Alarm
  <2>2. CASE TakeSignal(c)
    <3>1. /\ leader \in Cores /\ pc[leader] = "meet"
          /\ signalled \subseteq Cores \ {leader} /\ c \in signalled
          /\ \A d \in Cores : pc[d] = IF d \in signalled THEN "guest" ELSE "meet"
      BY <1>i, <1>u, <2>2 DEF ThreadInv, TakeSignal
    <3>2. leader' = leader /\ signalled' = signalled \ {c}
      BY <2>2 DEF TakeSignal
    <3> QED BY <2>t, <1>b, <1>u, <3>1, <3>2
  <2> QED BY <2>1, <2>2
<1>l. /\ ~ Saving /\ ~ Saving' /\ ~ Saved /\ ~ Saved' /\ ~ Restoring /\ ~ Restoring'
      /\ ~ AtLeader({"next"}) /\ ~ AtLeader({"next"})'
    BY <1>b, <1>p DEF Saving, Saved, AtLeader, Restoring
<1>1. TypeOK'
  <2>1. pc' \in [AllCores -> {"none", "boot", "init", "count", "guest", "meet",
                       "save", "scan", "part", "config", "write", "next"}]
    BY <1>i, <1>u, <1>b DEF TypeOK
  <2> QED BY <1>i, <1>b, <1>u, <1>p, <2>1 DEF TypeOK
<1>2. ThreadInv'
    BY <1>u, <1>p DEF ThreadInv, Cores
<1>3. NumberInv'
    BY <1>i, <1>u, <1>l DEF NumberInv
<1>4. ChainInv'
  <2>1. Top' = Top
    BY <1>l, <1>u DEF Top
  <2> QED BY <1>i, <1>u, <1>l, <2>1, ChainKept
<1>5. CutInv'
    BY <1>l DEF CutInv
<1>6. CommittedRestorable'
    BY <1>i, <1>u, CommittedKept
<1> QED BY <1>1, <1>2, <1>3, <1>4, <1>5, <1>6 DEF CheckpointInv

\* The cores have met: the cut is what the guest is now.
LEMMA MeetKeeps == CheckpointInv /\ Meet => CheckpointInv'
<1> SUFFICES ASSUME CheckpointInv, Meet PROVE CheckpointInv'
    OBVIOUS
<1>i. TypeOK /\ ThreadInv /\ NumberInv /\ ChainInv /\ CutInv /\ CommittedRestorable
    BY DEF CheckpointInv
<1>b. /\ 0 \in Cores /\ Cores \subseteq AllCores /\ OwnPages \subseteq Pages
      /\ no_checkpoint \in Nat
    BY <1>i, Basics
<1>u. /\ UNCHANGED procVars /\ UNCHANGED guestVars /\ UNCHANGED diskVars
      /\ UNCHANGED <<leader, signalled, pos, committed>> /\ up /\ leader # NoCore
      /\ \A c \in Cores : pc[c] = "meet"
      /\ pc' = [c \in AllCores |-> IF c \in Cores THEN "save" ELSE pc[c]]
      /\ cut' = With(cut, no_checkpoint, Guest)
    BY DEF Meet
<1> USE DEF procVars, guestVars, diskVars
<1>p. leader \in Cores /\ signalled = {} /\ pc[leader] = "meet" /\ pc'[leader] = "save"
      /\ \A c \in Cores : pc'[c] = "save"
    BY <1>i, <1>b, <1>u DEF ThreadInv, Saving, Saved, AtLeader
<1>l. /\ ~ Saving /\ Saving' /\ ~ Saved /\ ~ Saved' /\ ~ Restoring /\ ~ Restoring'
      /\ ~ AtLeader({"next"}) /\ ~ AtLeader({"next"})'
      /\ ~ AtLeader({"scan"})' /\ ~ AtLeader({"part"})' /\ ~ AtLeader({"scan", "part"})'
    BY <1>b, <1>u, <1>p DEF Saving, Saved, AtLeader, Restoring
<1>n. /\ committed = no_checkpoint - 1 /\ Top = no_checkpoint - 1 /\ Top' = Top
    BY <1>i, <1>u, <1>l DEF NumberInv, Top
<1>c. /\ cut'[no_checkpoint] = Guest /\ no_checkpoint \in DOMAIN cut'
      /\ \A n \in DOMAIN cut :
            n # no_checkpoint => n \in DOMAIN cut' /\ cut'[n] = cut[n]
    BY <1>u DEF With
<1>1. TypeOK'
  <2>1. pc' \in [AllCores -> {"none", "boot", "init", "count", "guest", "meet",
                       "save", "scan", "part", "config", "write", "next"}]
    BY <1>i, <1>u DEF TypeOK
  <2> QED BY <1>i, <1>u, <2>1 DEF TypeOK
<1>2. ThreadInv'
    BY <1>u, <1>p, <1>l DEF ThreadInv, Cores
<1>3. NumberInv'
    BY <1>i, <1>u, <1>l DEF NumberInv
<1>4. ChainInv'
  <2>1. \A p \in Due(no_checkpoint, full_checkpoint)' :
            Chain(Top, p) = mem[p] \/ MustSave(p)
    <3> TAKE p \in Due(no_checkpoint, full_checkpoint)'
    <3>1. CASE p \in OwnPages
      <4>1. \/ Chain(Top, p) = mem[p]
            \/ IF ~ full_checkpoint /\ Top >= 0 THEN dirty[p] ELSE accessed[p]
        BY <1>i, <1>u, <1>l, <3>1 DEF ChainInv
      <4>2. Top >= 0 <=> no_checkpoint > 0
        BY <1>b, <1>n
      <4> QED BY <4>1, <4>2 DEF MustSave
    <3>2. CASE p \notin OwnPages
      <4>1. full_checkpoint /\ p \in {q \in Pages : accessed[q]}
        BY <1>u, <1>c, <3>2 DEF Due, Guest
      <4> QED BY <4>1 DEF MustSave
    <3> QED BY <3>1, <3>2
  <2>2. 0 .. Top \subseteq DOMAIN memFile
    BY <1>i, <1>u DEF ChainInv
  <2>3. \A p : Chain(Top, p)' = Chain(Top, p) /\ (MustSave(p)' <=> MustSave(p))
    BY <1>u, <1>n DEF Chain, MustSave
  <2> QED BY <1>u, <1>n, <1>l, <2>1, <2>2, <2>3 DEF ChainInv
<1>5. CutInv'
  <2>1. /\ cut'[no_checkpoint].mem = mem /\ cut'[no_checkpoint].cpu = cpu
        /\ cut'[no_checkpoint].used = {p \in Pages : accessed[p]}
    BY <1>c DEF Guest
  <2>2. \A c \in Cores' : pc'[c] = "save"
    BY <1>u, <1>p DEF Cores
  <2> QED BY <1>u, <1>c, <1>l, <2>1, <2>2 DEF CutInv
<1>6. CommittedRestorable'
    BY <1>i, <1>b, <1>u, <1>n, <1>c, CommittedKept
<1> QED BY <1>1, <1>2, <1>3, <1>4, <1>5, <1>6 DEF CheckpointInv

\* Between the barriers the number is above the checkpoint that the disk promises.
LEMMA SavePhase ==
    ASSUME CheckpointInv, up, Saving
    PROVE  /\ leader \in Cores /\ signalled = {} /\ ~ Saved
           /\ \A c \in Cores \ {leader} : pc[c] \in {"save", "part"}
           /\ ~ Restoring /\ ~ AtLeader({"next"})
           /\ committed = no_checkpoint - 1 /\ Top = no_checkpoint - 1
           /\ Due(no_checkpoint, full_checkpoint) \subseteq Pages
           /\ DOMAIN pc = AllCores
<1>i. TypeOK /\ ThreadInv /\ NumberInv /\ CutInv
    BY DEF CheckpointInv
<1>b. 0 \in Cores /\ OwnPages \subseteq Pages
    BY <1>i, Basics
<1>1. /\ leader \in Cores /\ signalled = {}
      /\ \A c \in Cores \ {leader} : pc[c] \in {"save", "part"}
    BY <1>i DEF ThreadInv, Saving, Saved, AtLeader
<1>2. ~ Restoring /\ ~ AtLeader({"next"}) /\ ~ Saved
    BY <1>b, <1>1 DEF Saving, Restoring, AtLeader, Saved
<1>3. committed = no_checkpoint - 1 /\ Top = no_checkpoint - 1
    BY <1>i, <1>2 DEF NumberInv, Top
<1>4. Due(no_checkpoint, full_checkpoint) \subseteq Pages
  <2>1. full_checkpoint => cut[no_checkpoint].used = {p \in Pages : accessed[p]}
    BY <1>i DEF CutInv
  <2>2. full_checkpoint => cut[no_checkpoint].used \subseteq Pages
    BY <2>1
  <2> QED BY <1>b, <2>2 DEF Due
<1> QED BY <1>i, <1>1, <1>2, <1>3, <1>4 DEF TypeOK

\* A core writes its registers; the leader opens an empty memory file.
LEMMA SaveCpuKeeps == CheckpointInv /\ (\E c \in Cores : SaveCpu(c)) => CheckpointInv'
<1> SUFFICES ASSUME CheckpointInv, NEW c \in Cores, SaveCpu(c) PROVE CheckpointInv'
    OBVIOUS
<1>i. TypeOK /\ ThreadInv /\ NumberInv /\ ChainInv /\ CutInv /\ CommittedRestorable
    BY DEF CheckpointInv
<1>b. /\ 0 \in Cores /\ Cores \subseteq AllCores /\ no_checkpoint \in Nat
      /\ NoCore \notin Cores
    BY <1>i, Basics
<1>u. /\ UNCHANGED procVars /\ UNCHANGED guestVars /\ UNCHANGED <<config, cut>>
      /\ UNCHANGED <<leader, signalled, committed>> /\ up /\ pc[c] = "save"
      /\ coreFile' = With(coreFile, <<no_checkpoint, c>>, cpu[c])
      /\ pc' = [pc EXCEPT ![c] = IF c = leader THEN "scan" ELSE "part"]
      /\ c = leader => memFile' = With(memFile, no_checkpoint, NoPages) /\ pos' = 0
      /\ c # leader => UNCHANGED <<memFile, pos>>
    BY DEF SaveCpu, histVars
<1> USE DEF procVars, guestVars
<1>s. Saving
    BY <1>i, <1>u DEF ThreadInv, Saving, Saved, AtLeader
<1>p. /\ leader \in Cores /\ signalled = {} /\ ~ Saved
      /\ \A d \in Cores \ {leader} : pc[d] \in {"save", "part"}
      /\ ~ Restoring /\ ~ AtLeader({"next"})
      /\ committed = no_checkpoint - 1 /\ Top = no_checkpoint - 1
      /\ Due(no_checkpoint, full_checkpoint) \subseteq Pages
      /\ DOMAIN pc = AllCores
    BY <1>s, <1>u, SavePhase
<1>q. /\ \A d \in Cores \ {leader} : pc'[d] \in {"save", "part"}
      /\ c = leader => pc'[leader] = "scan"
      /\ c # leader => pc'[leader] = pc[leader]
      /\ \A d \in Cores : d # c => pc'[d] = pc[d]
    BY <1>b, <1>u, <1>p
<1>l. Saving' /\ ~ Saved' /\ ~ Restoring' /\ ~ AtLeader({"next"})'
    BY <1>b, <1>u, <1>p, <1>q, <1>s DEF Saving, Saved, AtLeader, Restoring
<1>n. Top' = Top /\ Due(no_checkpoint, full_checkpoint)' = Due(no_checkpoint, full_checkpoint)
    BY <1>u, <1>l, <1>p DEF Top, Due
<1>f. /\ \A j \in DOMAIN memFile : j # no_checkpoint =>
            j \in DOMAIN memFile' /\ memFile'[j] = memFile[j]
      /\ \A k \in DOMAIN coreFile : k # <<no_checkpoint, c>> =>
            k \in DOMAIN coreFile' /\ coreFile'[k] = coreFile[k]
      /\ <<no_checkpoint, c>> \in DOMAIN coreFile'
      /\ coreFile'[<<no_checkpoint, c>>] = cpu[c]
      /\ c = leader => /\ no_checkpoint \in DOMAIN memFile'
                       /\ memFile'[no_checkpoint] = NoPages
    BY <1>u DEF With
<1>1. TypeOK'
  <2>1. pc' \in [AllCores -> {"none", "boot", "init", "count", "guest", "meet",
                       "save", "scan", "part", "config", "write", "next"}]
    BY <1>i, <1>b, <1>u DEF TypeOK
  <2>2. /\ DOMAIN coreFile' \subseteq Nat \X AllCores
        /\ \A k \in DOMAIN coreFile' : coreFile'[k] \in Nat
    <3>1. cpu[c] \in Nat /\ <<no_checkpoint, c>> \in Nat \X AllCores
      BY <1>i, <1>b DEF TypeOK
    <3> QED BY <1>i, <1>u, <3>1 DEF TypeOK, With
  <2>3. /\ DOMAIN memFile' \subseteq Nat
        /\ \A j \in DOMAIN memFile' : memFile'[j] \in [Pages -> Nat \cup {Absent}]
    <3>1. NoPages \in [Pages -> Nat \cup {Absent}]
      BY DEF NoPages
    <3> QED BY <1>i, <1>b, <1>u, <3>1 DEF TypeOK, With
  <2>4. pos' \in 0 .. NPages
    BY <1>i, <1>u, CheckpointAssumption DEF TypeOK
  <2> QED BY <1>i, <1>u, <2>1, <2>2, <2>3, <2>4 DEF TypeOK
<1>2. ThreadInv'
    BY <1>u, <1>p, <1>q, <1>l DEF ThreadInv, Cores
<1>3. NumberInv'
    BY <1>i, <1>u, <1>l, <1>p DEF NumberInv
<1>4. ChainInv'
  <2>1. \A j \in 0 .. Top : j \in DOMAIN memFile' /\ memFile'[j] = memFile[j]
    BY <1>i, <1>b, <1>u, <1>p, <1>f DEF ChainInv
  <2>2. \A p : Chain(Top, p)' = Chain(Top, p)
    <3> TAKE p
    <3>1. Latest(memFile', 0, Top, p) = Latest(memFile, 0, Top, p)
      BY <1>b, <1>p, <2>1, LatestKept
    <3> QED BY <1>n, <3>1 DEF Chain
  <2>3. \A p : MustSave(p)' <=> MustSave(p)
    BY <1>u DEF MustSave
  <2>4. CASE c = leader
    <3>1. /\ ~ AtLeader({"save"})' /\ ~ AtLeader({"part"})'
          /\ AtLeader({"save"})
      BY <1>b, <1>u, <1>p, <1>q, <2>4 DEF AtLeader
    <3>2. \A p \in Due(no_checkpoint, full_checkpoint) :
             /\ ~ (p < pos') /\ memFile'[no_checkpoint][p] = Absent
             /\ Chain(Top, p) = mem[p] \/ MustSave(p)
      <4>1. pos' = 0 /\ \A p \in Pages : p >= 0 /\ p \in Int
        BY <1>u, <2>4 DEF Pages
      <4>2. memFile'[no_checkpoint] = [p \in Pages |-> Absent]
        BY <1>f, <2>4 DEF NoPages
      <4> QED BY <1>i, <1>u, <1>p, <3>1, <4>1, <4>2 DEF ChainInv
    <3>3. no_checkpoint \in DOMAIN memFile'
      BY <1>f, <2>4
    <3> QED BY <1>u, <1>n, <1>l, <2>1, <2>2, <2>3, <3>1, <3>2, <3>3 DEF ChainInv
  <2>5. CASE c # leader
    <3>1. \A w \in {{"save"}, {"scan"}, {"part"}, {"scan", "part"}} :
             AtLeader(w)' = AtLeader(w)
      BY <1>u, <1>q, <2>5 DEF AtLeader
    <3>2. AtLeader({"save"})' = AtLeader({"save"}) /\ AtLeader({"scan"})' = AtLeader({"scan"})
          /\ AtLeader({"part"})' = AtLeader({"part"})
          /\ AtLeader({"scan", "part"})' = AtLeader({"scan", "part"})
      BY <3>1
    <3>3. UNCHANGED <<memFile, pos, mem, up, no_checkpoint>>
      BY <1>u, <2>5
    <3>4. \A p : Chain(no_checkpoint, p)' = Chain(no_checkpoint, p)
      BY <3>3 DEF Chain
    <3> QED BY <1>i, <1>s, <1>l, <1>n, <2>2, <2>3, <3>2, <3>3, <3>4 DEF ChainInv
  <2> QED BY <2>4, <2>5
<1>5. CutInv'
  <2>1. \A d \in Cores : pc'[d] \in {"scan", "part"} =>
           /\ <<no_checkpoint, d>> \in DOMAIN coreFile'
           /\ coreFile'[<<no_checkpoint, d>>] = cpu[d]
    <3> SUFFICES ASSUME NEW d \in Cores, pc'[d] \in {"scan", "part"}
                 PROVE  /\ <<no_checkpoint, d>> \in DOMAIN coreFile'
                        /\ coreFile'[<<no_checkpoint, d>>] = cpu[d]
      OBVIOUS
    <3>1. CASE d = c
      BY <1>f, <3>1
    <3>2. CASE d # c
      <4>1. /\ <<no_checkpoint, d>> \in DOMAIN coreFile
            /\ coreFile[<<no_checkpoint, d>>] = cpu[d]
        BY <1>i, <1>u, <1>s, <1>q, <3>2 DEF CutInv
      <4>2. <<no_checkpoint, d>> # <<no_checkpoint, c>>
        BY <3>2
      <4> QED BY <1>f, <4>1, <4>2
    <3> QED BY <3>1, <3>2
  <2>2. Cores' = Cores
    BY <1>u DEF Cores
  <2> QED BY <1>i, <1>u, <1>s, <1>l, <2>1, <2>2 DEF CutInv
<1>6. CommittedRestorable'
  <2>1. \A k \in DOMAIN coreFile :
           k[1] <= committed => k \in DOMAIN coreFile' /\ coreFile'[k] = coreFile[k]
    <3> SUFFICES ASSUME NEW k \in DOMAIN coreFile, k[1] <= committed
                 PROVE  k # <<no_checkpoint, c>>
      BY <1>f
    <3> QED BY <1>b, <1>p
  <2>2. \A j \in DOMAIN memFile :
           j <= committed => j \in DOMAIN memFile' /\ memFile'[j] = memFile[j]
    BY <1>b, <1>p, <1>f
  <2> QED BY <1>i, <1>u, <2>1, <2>2, CommittedKept
<1> QED BY <1>1, <1>2, <1>3, <1>4, <1>5, <1>6 DEF CheckpointInv

\* The leader saves one page, or sees that the chain has it already.
LEMMA ScanPageKeeps == CheckpointInv /\ ScanPage => CheckpointInv'
<1> SUFFICES ASSUME CheckpointInv, ScanPage PROVE CheckpointInv'
    OBVIOUS
<1>i. TypeOK /\ ThreadInv /\ NumberInv /\ ChainInv /\ CutInv /\ CommittedRestorable
    BY DEF CheckpointInv
<1>b. no_checkpoint \in Nat /\ 0 \in Cores
    BY <1>i, Basics
<1> DEFINE n == no_checkpoint
<1>u. /\ UNCHANGED procVars /\ UNCHANGED <<config, cut, mem, cpu, coreFile>>
      /\ UNCHANGED <<leader, signalled, pc, committed>> /\ up /\ leader # NoCore
      /\ pc[leader] = "scan" /\ pos < NPages /\ pos' = pos + 1
      /\ MustSave(pos) =>
            /\ memFile' = [memFile EXCEPT ![n][pos] = mem[pos]]
            /\ accessed' = [accessed EXCEPT ![pos] = accessed[pos] /\ full_checkpoint]
            /\ dirty' = [dirty EXCEPT ![pos] = dirty[pos] /\ full_checkpoint]
      /\ ~ MustSave(pos) => UNCHANGED <<memFile, accessed, dirty>>
    BY DEF ScanPage, histVars
<1> USE DEF procVars
<1>s. Saving /\ AtLeader({"scan"}) /\ AtLeader({"scan", "part"})
      /\ ~ AtLeader({"save"}) /\ ~ AtLeader({"part"})
    BY <1>u DEF Saving, AtLeader
<1>p. /\ leader \in Cores /\ signalled = {} /\ ~ Saved
      /\ \A d \in Cores \ {leader} : pc[d] \in {"save", "part"}
      /\ ~ Restoring /\ ~ AtLeader({"next"})
      /\ committed = n - 1 /\ Top = n - 1
      /\ Due(n, full_checkpoint) \subseteq Pages
    BY <1>s, <1>u, SavePhase
<1>l. /\ Saving' /\ ~ Saved' /\ ~ Restoring' /\ ~ AtLeader({"next"})'
      /\ AtLeader({"scan"})' /\ ~ AtLeader({"save"})' /\ ~ AtLeader({"part"})'
    BY <1>s, <1>u, <1>p DEF Saving, Saved, AtLeader, Restoring
<1>n. Top' = Top /\ Due(n, full_checkpoint)' = Due(n, full_checkpoint)
    BY <1>u, <1>l, <1>p DEF Top, Due
<1>t. /\ pos \in Pages /\ pos \in Nat /\ n \in DOMAIN memFile
      /\ memFile[n] \in [Pages -> Nat \cup {Absent}] /\ mem[pos] \in Nat
      /\ mem[pos] # Absent
      /\ accessed \in [Pages -> BOOLEAN] /\ dirty \in [Pages -> BOOLEAN]
  <2>1. pos \in Pages /\ pos \in Nat
    BY <1>i, <1>u, CheckpointAssumption DEF TypeOK, Pages
  <2>2. n \in DOMAIN memFile
    BY <1>i, <1>u, <1>s DEF ChainInv
  <2>3. mem[pos] \in Nat
    BY <1>i, <2>1 DEF TypeOK
  <2>4. memFile[n] \in [Pages -> Nat \cup {Absent}]
    BY <1>i, <2>2 DEF TypeOK
  <2> QED BY <1>i, <2>1, <2>2, <2>3, <2>4 DEF TypeOK, Absent
<1>f. /\ DOMAIN memFile' = DOMAIN memFile
      /\ \A j \in DOMAIN memFile : j # n => memFile'[j] = memFile[j]
      /\ memFile'[n] \in [Pages -> Nat \cup {Absent}]
      /\ \A p \in Pages : p # pos => memFile'[n][p] = memFile[n][p]
      /\ MustSave(pos) => memFile'[n][pos] = mem[pos]
      /\ ~ MustSave(pos) => memFile'[n][pos] = memFile[n][pos]
  <2>1. CASE MustSave(pos)
    BY <1>u, <1>t, <2>1
  <2>2. CASE ~ MustSave(pos)
    BY <1>u, <1>t, <2>2
  <2> QED BY <2>1, <2>2
<1>g. /\ accessed' \in [Pages -> BOOLEAN] /\ dirty' \in [Pages -> BOOLEAN]
      /\ \A p \in Pages : p # pos => accessed'[p] = accessed[p] /\ dirty'[p] = dirty[p]
      /\ full_checkpoint => \A p \in Pages : accessed'[p] = accessed[p]
  <2>1. CASE MustSave(pos)
    BY <1>u, <1>t, <2>1
  <2>2. CASE ~ MustSave(pos)
    BY <1>u, <1>t, <2>2
  <2> QED BY <2>1, <2>2
<1>1. TypeOK'
  <2>1. \A j \in DOMAIN memFile' : memFile'[j] \in [Pages -> Nat \cup {Absent}]
    BY <1>i, <1>f DEF TypeOK
  <2>2. pos' \in 0 .. NPages
    BY <1>u, <1>t, CheckpointAssumption
  <2> QED BY <1>i, <1>u, <1>f, <1>g, <2>1, <2>2 DEF TypeOK
<1>2. ThreadInv'
    BY <1>u, <1>p, <1>l DEF ThreadInv, Cores
<1>3. NumberInv'
    BY <1>i, <1>u, <1>l, <1>p DEF NumberInv
<1>4. ChainInv'
  <2>1. \A j \in 0 .. Top : memFile'[j] = memFile[j]
    BY <1>i, <1>b, <1>u, <1>p, <1>f DEF ChainInv
  <2>2. \A p : Chain(Top, p)' = Chain(Top, p)
    <3> TAKE p
    <3>1. Latest(memFile', 0, Top, p) = Latest(memFile, 0, Top, p)
      BY <1>b, <1>p, <2>1, LatestKept
    <3> QED BY <1>n, <3>1 DEF Chain
  <2>3. ASSUME NEW p \in Due(n, full_checkpoint)
        PROVE  IF p < pos' THEN Latest(memFile', 0, n, p) = mem[p]
               ELSE /\ memFile'[n][p] = Absent
                    /\ Chain(Top, p) = mem[p] \/ MustSave(p)'
    <3>0. /\ p \in Pages /\ p \in Int
          /\ IF p < pos THEN Latest(memFile, 0, n, p) = mem[p]
             ELSE /\ memFile[n][p] = Absent
                  /\ Chain(Top, p) = mem[p] \/ MustSave(p)
      BY <1>i, <1>u, <1>s, <1>p, <2>3 DEF ChainInv, Chain, Pages
    <3>1. CASE p < pos
      <4>1. \A j \in 0 .. n : memFile'[j][p] = memFile[j][p]
        <5>1. \A j \in 0 .. n : j = n \/ j \in 0 .. Top
          BY <1>b, <1>p
        <5> QED BY <5>1, <2>1, <1>f, <1>t, <3>0, <3>1
      <4>2. Latest(memFile', 0, n, p) = Latest(memFile, 0, n, p)
        BY <1>b, <4>1, LatestKept
      <4> QED BY <1>u, <1>t, <3>0, <3>1, <4>2
    <3>2. CASE p = pos
      <4>1. CASE MustSave(pos)
        <5>1. Latest(memFile', 0, n, p) = memFile'[n][p]
          BY <1>b, <1>f, <1>t, <3>2, <4>1, LatestHas
        <5> QED BY <1>u, <1>t, <1>f, <3>2, <4>1, <5>1
      <4>2. CASE ~ MustSave(pos)
        <5>1. memFile'[n][p] = Absent /\ Chain(Top, p) = mem[p]
          BY <1>t, <1>f, <3>0, <3>2, <4>2
        <5>2. Latest(memFile', 0, n, p) = Latest(memFile', 0, n - 1, p)
          BY <1>b, <5>1, LatestHasNot
        <5>3. Latest(memFile', 0, n - 1, p) = Latest(memFile, 0, Top, p)
          BY <1>b, <1>p, <2>1, LatestKept
        <5> QED BY <1>u, <1>t, <3>2, <5>1, <5>2, <5>3 DEF Chain
      <4> QED BY <4>1, <4>2
    <3>3. CASE p > pos
      <4>1. MustSave(p)' <=> MustSave(p)
        BY <1>u, <1>g, <1>t, <3>0, <3>3 DEF MustSave
      <4> QED BY <1>u, <1>t, <1>f, <3>0, <3>3, <4>1
    <3> QED BY <1>t, <3>0, <3>1, <3>2, <3>3
  <2>4. /\ 0 .. Top \subseteq DOMAIN memFile' /\ n \in DOMAIN memFile'
    BY <1>i, <1>u, <1>f, <1>t DEF ChainInv
  <2>5. \A p : Chain(n, p)' = Latest(memFile', 0, n, p)
    BY <1>u DEF Chain
  <2> QED BY <1>u, <1>n, <1>l, <2>2, <2>3, <2>4, <2>5 DEF ChainInv
<1>5. CutInv'
  <2>1. Cores' = Cores
    BY <1>u DEF Cores
  <2>2. full_checkpoint => cut'[n].used = {p \in Pages : accessed'[p]}
    <3> SUFFICES ASSUME full_checkpoint PROVE cut'[n].used = {p \in Pages : accessed'[p]}
      OBVIOUS
    <3>1. cut[n].used = {p \in Pages : accessed[p]}
      BY <1>i, <1>u, <1>s DEF CutInv
    <3>2. {p \in Pages : accessed'[p]} = {p \in Pages : accessed[p]}
      BY <1>g
    <3> QED BY <1>u, <3>1, <3>2
  <2> QED BY <1>i, <1>u, <1>s, <1>l, <2>1, <2>2 DEF CutInv
<1>6. CommittedRestorable'
  <2>1. \A j \in DOMAIN memFile :
           j <= committed => j \in DOMAIN memFile' /\ memFile'[j] = memFile[j]
    BY <1>b, <1>p, <1>f
  <2> QED BY <1>i, <1>u, <2>1, CommittedKept
<1> QED BY <1>1, <1>2, <1>3, <1>4, <1>5, <1>6 DEF CheckpointInv

\* The scan has reached the end: the chain has all the pages due.
LEMMA ScanEndsKeeps == CheckpointInv /\ ScanEnds => CheckpointInv'
<1> SUFFICES ASSUME CheckpointInv, ScanEnds PROVE CheckpointInv'
    OBVIOUS
<1>i. TypeOK /\ ThreadInv /\ NumberInv /\ ChainInv /\ CutInv /\ CommittedRestorable
    BY DEF CheckpointInv
<1>b. 0 \in Cores /\ Cores \subseteq AllCores
    BY <1>i, Basics
<1>u. /\ UNCHANGED procVars /\ UNCHANGED guestVars /\ UNCHANGED diskVars
      /\ UNCHANGED histVars /\ UNCHANGED <<leader, signalled, pos>> /\ up
      /\ leader # NoCore /\ pc[leader] = "scan" /\ pos = NPages
      /\ pc' = [pc EXCEPT ![leader] = "part"]
    BY DEF ScanEnds
<1> USE DEF procVars, guestVars, diskVars, histVars
<1>s. Saving /\ AtLeader({"scan"}) /\ AtLeader({"scan", "part"})
    BY <1>u DEF Saving, AtLeader
<1>p. /\ leader \in Cores /\ signalled = {} /\ ~ Saved
      /\ \A d \in Cores \ {leader} : pc[d] \in {"save", "part"}
      /\ ~ Restoring /\ ~ AtLeader({"next"})
      /\ Due(no_checkpoint, full_checkpoint) \subseteq Pages /\ DOMAIN pc = AllCores
    BY <1>s, <1>u, SavePhase
<1>q. pc'[leader] = "part" /\ \A d \in Cores \ {leader} : pc'[d] = pc[d]
    BY <1>b, <1>u, <1>p
<1>l. /\ Saving' /\ ~ Saved' /\ ~ Restoring' /\ ~ AtLeader({"next"})'
      /\ ~ AtLeader({"scan"})' /\ ~ AtLeader({"save"})'
    BY <1>b, <1>u, <1>p, <1>q DEF Saving, Saved, AtLeader, Restoring
<1>1. TypeOK'
  <2>1. pc' \in [AllCores -> {"none", "boot", "init", "count", "guest", "meet",
                       "save", "scan", "part", "config", "write", "next"}]
    BY <1>i, <1>u DEF TypeOK
  <2> QED BY <1>i, <1>u, <2>1 DEF TypeOK
<1>2. ThreadInv'
    BY <1>u, <1>p, <1>q, <1>l DEF ThreadInv, Cores
<1>3. NumberInv'
    BY <1>i, <1>u, <1>l, <1>p DEF NumberInv
<1>4. ChainInv'
  <2>1. Due(no_checkpoint, full_checkpoint)' = Due(no_checkpoint, full_checkpoint)
    BY <1>u DEF Due
  <2>2. \A p \in Due(no_checkpoint, full_checkpoint) : Chain(no_checkpoint, p) = mem[p]
    <3>1. \A p \in Pages : p < pos
      BY <1>u, CheckpointAssumption DEF Pages
    <3> QED BY <1>i, <1>u, <1>s, <1>p, <3>1 DEF ChainInv
  <2>3. \A p : Chain(no_checkpoint, p)' = Chain(no_checkpoint, p)
    BY <1>u DEF Chain
  <2>4. Top' = Top
    BY <1>u, <1>p, <1>l DEF Top
  <2> QED BY <1>i, <1>u, <1>s, <1>l, <2>1, <2>2, <2>3, <2>4 DEF ChainInv
<1>5. CutInv'
  <2>1. Cores' = Cores
    BY <1>u DEF Cores
  <2>2. \A d \in Cores : pc'[d] \in {"scan", "part"} => pc[d] \in {"scan", "part"}
    BY <1>u, <1>q
  <2> QED BY <1>i, <1>u, <1>s, <1>l, <2>1, <2>2 DEF CutInv
<1>6. CommittedRestorable'
    BY <1>i, <1>u, CommittedKept
<1> QED BY <1>1, <1>2, <1>3, <1>4, <1>5, <1>6 DEF CheckpointInv

\* Behind the second barrier the checkpoint is complete, and the guest may go on.
LEMMA PartKeeps == CheckpointInv /\ Part => CheckpointInv'
<1> SUFFICES ASSUME CheckpointInv, Part PROVE CheckpointInv'
    OBVIOUS
<1>i. TypeOK /\ ThreadInv /\ NumberInv /\ ChainInv /\ CutInv /\ CommittedRestorable
    BY DEF CheckpointInv
<1>b. /\ 0 \in Cores /\ Cores \subseteq AllCores /\ no_checkpoint \in Nat
      /\ NoCore \notin Cores /\ OwnPages \subseteq Pages
    BY <1>i, Basics
<1> DEFINE n == no_checkpoint
<1>u. /\ UNCHANGED procVars /\ UNCHANGED guestVars /\ UNCHANGED diskVars
      /\ UNCHANGED histVars /\ UNCHANGED <<leader, signalled, pos>> /\ up
      /\ leader # NoCore /\ \A c \in Cores : pc[c] = "part"
      /\ pc' = [c \in AllCores |-> IF c = leader THEN "config"
                                   ELSE IF c \in Cores THEN "guest" ELSE pc[c]]
    BY DEF Part
<1> USE DEF procVars, guestVars, diskVars, histVars
<1>s. Saving /\ AtLeader({"part"}) /\ AtLeader({"scan", "part"})
    BY <1>i, <1>b, <1>u DEF ThreadInv, Saving, Saved, AtLeader
<1>p. /\ leader \in Cores /\ signalled = {} /\ ~ Restoring /\ ~ AtLeader({"next"})
      /\ Due(n, full_checkpoint) \subseteq Pages
      /\ Top = n - 1
    BY <1>s, <1>u, SavePhase
<1>q. pc'[leader] = "config" /\ \A d \in Cores \ {leader} : pc'[d] = "guest"
    BY <1>b, <1>u, <1>p
<1>l. /\ ~ Saving' /\ Saved' /\ ~ Restoring' /\ ~ AtLeader({"next"})'
      /\ ~ AtLeader({"scan"})' /\ ~ AtLeader({"save"})' /\ ~ AtLeader({"part"})'
      /\ ~ AtLeader({"scan", "part"})'
    BY <1>b, <1>u, <1>p, <1>q DEF Saving, Saved, AtLeader, Restoring
<1>c. \A p \in Due(n, full_checkpoint) : Chain(n, p) = mem[p]
    BY <1>i, <1>u, <1>s DEF ChainInv
<1>d. 0 .. n \subseteq DOMAIN memFile
  <2>1. 0 .. n - 1 \subseteq DOMAIN memFile /\ n \in DOMAIN memFile
    BY <1>i, <1>u, <1>s, <1>p DEF ChainInv
  <2> QED BY <1>b, <2>1
<1>1. TypeOK'
  <2>1. pc' \in [AllCores -> {"none", "boot", "init", "count", "guest", "meet",
                       "save", "scan", "part", "config", "write", "next"}]
    BY <1>i, <1>u DEF TypeOK
  <2> QED BY <1>i, <1>u, <2>1 DEF TypeOK
<1>2. ThreadInv'
    BY <1>u, <1>p, <1>q, <1>l DEF ThreadInv, Cores
<1>3. NumberInv'
    BY <1>i, <1>u, <1>l, <1>p DEF NumberInv
<1>4. ChainInv'
  <2>1. Top' = n
    BY <1>u, <1>l DEF Top
  <2>2. \A p \in OwnPages : Chain(Top, p)' = mem'[p]
    BY <1>u, <1>c, <2>1 DEF Chain, Due
  <2> QED BY <1>u, <1>l, <1>d, <2>1, <2>2 DEF ChainInv
<1>5. CutInv'
  <2>1. /\ n \in DOMAIN cut /\ cut[n].mem = mem
        /\ \A c \in Cores : /\ <<n, c>> \in DOMAIN coreFile
                            /\ coreFile[<<n, c>>] = cut[n].cpu[c]
    BY <1>i, <1>u, <1>s DEF CutInv
  <2>2. \A p \in Due(n, full_checkpoint) : Loaded(ParsedFull, n)[p] = cut[n].mem[p]
    BY <1>p, <1>c, <2>1 DEF Loaded, ParsedFull, FirstFile, Chain
  <2>3. Complete(n, ncores, full_checkpoint)
    BY <1>d, <2>1, <2>2 DEF Complete, Cores
  <2>4. Complete(n, ncores, full_checkpoint)'
    BY <1>u, <2>3 DEF Complete, Due, Loaded, ParsedFull
  <2> QED BY <1>l, <2>4 DEF CutInv
<1>6. CommittedRestorable'
    BY <1>i, <1>u, CommittedKept
<1> QED BY <1>1, <1>2, <1>3, <1>4, <1>5, <1>6 DEF CheckpointInv

\* The configuration names the checkpoint that is complete.
LEMMA ConfigKeeps ==
    CheckpointInv /\ (TruncateConfig \/ WriteConfig \/ CheckpointDone) => CheckpointInv'
<1> SUFFICES ASSUME CheckpointInv, TruncateConfig \/ WriteConfig \/ CheckpointDone
             PROVE  CheckpointInv'
    OBVIOUS
<1>i. TypeOK /\ ThreadInv /\ NumberInv /\ ChainInv /\ CutInv /\ CommittedRestorable
    BY DEF CheckpointInv
<1>b. /\ 0 \in Cores /\ Cores \subseteq AllCores /\ no_checkpoint \in Nat
      /\ NoCore \notin Cores
    BY <1>i, Basics
<1>u. /\ UNCHANGED guestVars /\ UNCHANGED <<memFile, coreFile, cut>>
      /\ UNCHANGED <<up, ncores, full_checkpoint, restart, signalled, pos>> /\ up
      /\ leader # NoCore /\ pc[leader] \in {"config", "write", "next"}
      /\ pc' = [pc EXCEPT ![leader] =
                   IF pc[leader] = "config" THEN "write"
                   ELSE IF pc[leader] = "write" THEN "next" ELSE "guest"]
    BY DEF TruncateConfig, WriteConfig, CheckpointDone, procVars, diskVars, histVars
<1> USE DEF guestVars
<1>s. Saved /\ ~ Saving
    BY <1>u DEF Saved, Saving, AtLeader
<1>p. /\ leader \in Cores /\ signalled = {} /\ DOMAIN pc = AllCores
      /\ \A d \in Cores \ {leader} : pc[d] = "guest"
    BY <1>i, <1>u DEF ThreadInv, Saving, Saved, AtLeader, TypeOK
<1>q. \A d \in Cores \ {leader} : pc'[d] = "guest"
    BY <1>b, <1>u, <1>p
<1>r. ~ Restoring /\ ~ Restoring'
    BY <1>b, <1>u, <1>p, <1>q DEF Restoring
<1>c. Cores' = Cores /\ Complete(no_checkpoint, ncores, full_checkpoint)
    BY <1>i, <1>u, <1>s DEF Cores, CutInv
<1>t. pc' \in [AllCores -> {"none", "boot", "init", "count", "guest", "meet",
                       "save", "scan", "part", "config", "write", "next"}]
    BY <1>i, <1>u DEF TypeOK
<1>1. CASE TruncateConfig \/ WriteConfig
  <2>u. UNCHANGED <<leader, no_checkpoint>> /\ pc'[leader] \in {"write", "next"}
    BY <1>1, <1>b, <1>p DEF TruncateConfig, WriteConfig, procVars
  <2>l. Saved' /\ ~ Saving'
    BY <1>u, <2>u DEF Saved, Saving, AtLeader
  <2>2. ThreadInv'
    BY <1>u, <1>p, <1>q, <1>c, <2>u, <2>l DEF ThreadInv
  <2>4. ChainInv'
    <3>1. Top' = Top
      BY <1>s, <2>l, <2>u DEF Top
    <3> QED BY <1>i, <1>u, <1>s, <2>l, <3>1, ChainKept
  <2>5. Complete(no_checkpoint, ncores, full_checkpoint)'
    BY <1>c, <1>u, <2>u DEF Complete, Due, Loaded, ParsedFull
  <2>6. CutInv'
    BY <2>l, <2>5 DEF CutInv
  <2>7. CASE TruncateConfig
    <3>u. config' = EmptyConfig /\ pc[leader] = "config" /\ pc'[leader] = "write"
          /\ UNCHANGED committed
      BY <2>7, <1>b, <1>p DEF TruncateConfig, histVars
    <3>1. TypeOK'
      BY <1>i, <1>u, <1>t, <2>u, <3>u DEF TypeOK
    <3>2. NumberInv'
      BY <1>i, <1>u, <1>r, <2>u, <3>u DEF NumberInv, AtLeader, EmptyConfig
    <3>3. CommittedRestorable'
      BY <3>u DEF CommittedRestorable, EmptyConfig
    <3> QED BY <2>2, <2>4, <2>6, <3>1, <3>2, <3>3 DEF CheckpointInv
  <2>8. CASE WriteConfig
    <3>u. config' = Config(ncores, no_checkpoint, full_checkpoint)
          /\ pc'[leader] = "next" /\ committed' = no_checkpoint
      BY <2>8, <1>b, <1>p DEF WriteConfig
    <3>1. TypeOK'
      <4>1. config' \in [state : {"ok"}, ncores : 1 .. NCores, number : Nat,
                         full : BOOLEAN]
        BY <1>i, <3>u DEF TypeOK, Config
      <4> QED BY <1>i, <1>u, <1>t, <2>u, <3>u, <4>1 DEF TypeOK
    <3>2. NumberInv'
      BY <1>u, <1>r, <2>u, <3>u DEF NumberInv, AtLeader, Config
    <3>3. CommittedRestorable'
      <4>1. /\ config'.number = no_checkpoint' /\ config'.ncores = ncores'
            /\ config'.full = full_checkpoint'
        BY <1>u, <2>u, <3>u DEF Config
      <4> QED BY <2>5, <4>1 DEF CommittedRestorable
    <3> QED BY <2>2, <2>4, <2>6, <3>1, <3>2, <3>3 DEF CheckpointInv
  <2> QED BY <1>1, <2>7, <2>8
<1>2. CASE CheckpointDone
  <2>u. /\ leader' = NoCore /\ no_checkpoint' = no_checkpoint + 1
        /\ pc[leader] = "next" /\ pc'[leader] = "guest"
        /\ UNCHANGED <<config, committed>>
    BY <1>2, <1>b, <1>p DEF CheckpointDone, diskVars, histVars
  <2>l. ~ Saved' /\ ~ Saving' /\ ~ AtLeader({"next"})' /\ AtLeader({"next"})
    BY <1>u, <2>u DEF Saved, Saving, AtLeader
  <2>1. TypeOK'
    BY <1>i, <1>b, <1>u, <1>t, <2>u DEF TypeOK
  <2>2. ThreadInv'
    <3>1. \A c \in Cores : pc'[c] = "guest"
      BY <1>q, <2>u
    <3> QED BY <1>b, <1>u, <1>p, <1>c, <2>u, <3>1 DEF ThreadInv
  <2>3. NumberInv'
    BY <1>i, <1>b, <1>u, <1>r, <2>u, <2>l DEF NumberInv
  <2>4. ChainInv'
    <3>1. Top' = Top
      BY <1>b, <1>r, <1>s, <2>l, <2>u DEF Top
    <3> QED BY <1>i, <1>u, <1>s, <2>l, <3>1, ChainKept
  <2>5. CutInv'
    BY <2>l DEF CutInv
  <2>6. CommittedRestorable'
    BY <1>i, <1>u, <2>u, CommittedKept
  <2> QED BY <2>1, <2>2, <2>3, <2>4, <2>5, <2>6 DEF CheckpointInv
<1> QED BY <1>1, <1>2

-----------------------------------------------------------------------------
(* The theorems. *)

\* Every step keeps the invariant.
LEMMA InvStep == CheckpointInv /\ [Next]_vars => CheckpointInv'
<1> SUFFICES ASSUME CheckpointInv, [Next]_vars PROVE CheckpointInv'
    OBVIOUS
<1>i. TypeOK /\ ThreadInv /\ NumberInv /\ ChainInv /\ CutInv /\ CommittedRestorable
    BY DEF CheckpointInv
<1>1. CASE UNCHANGED vars
  <2> USE <1>1 DEF vars, procVars, threadVars, guestVars, diskVars, histVars
  <2>1. /\ Saving' = Saving /\ Saved' = Saved /\ Restoring' = Restoring /\ Top' = Top
        /\ Cores' = Cores /\ \A w : AtLeader(w)' = AtLeader(w)
    BY DEF Saving, Saved, AtLeader, Restoring, Top, Cores
  <2>2. TypeOK'
    BY <1>i DEF TypeOK
  <2>3. ThreadInv' /\ NumberInv'
    BY <1>i, <2>1 DEF ThreadInv, NumberInv
  <2>4. ChainInv'
    BY <1>i, <2>1 DEF ChainInv, Chain, Due, MustSave
  <2>5. CutInv'
    <3>1. Complete(no_checkpoint, ncores, full_checkpoint)'
            = Complete(no_checkpoint, ncores, full_checkpoint)
      BY DEF Complete, Due, Loaded, ParsedFull
    <3>2. (up /\ Saved => Complete(no_checkpoint, ncores, full_checkpoint))'
      BY <1>i, <2>1, <3>1 DEF CutInv
    <3>3. up /\ Saving =>
            /\ no_checkpoint \in DOMAIN cut
            /\ cut[no_checkpoint].mem = mem /\ cut[no_checkpoint].cpu = cpu
            /\ full_checkpoint => cut[no_checkpoint].used = {p \in Pages : accessed[p]}
            /\ \A c \in Cores : pc[c] \in {"scan", "part"} =>
                  /\ <<no_checkpoint, c>> \in DOMAIN coreFile
                  /\ coreFile[<<no_checkpoint, c>>] = cpu[c]
      BY <1>i DEF CutInv
    <3> QED BY <2>1, <3>2, <3>3 DEF CutInv
  <2>6. CommittedRestorable'
    BY <1>i, CommittedKept
  <2> QED BY <2>2, <2>3, <2>4, <2>5, <2>6 DEF CheckpointInv
<1>2. CASE Crash
    BY <1>2, DownKeeps DEF Crash
<1>3. CASE Next
    BY <1>2, <1>3, StartKeeps, BootKeeps, GuestKeeps, GatherKeeps, MeetKeeps,
       SaveCpuKeeps, ScanPageKeeps, ScanEndsKeeps, PartKeeps, ConfigKeeps
    DEF Next, CheckpointStep
<1> QED BY <1>1, <1>3

\* The invariant holds in every state.
LEMMA InvHolds == Spec => []CheckpointInv
BY InvInit, InvStep, PTL DEF Spec

\* The checkpoint that chk_config.txt names can be restored, however many cores,
\* pages and checkpoints there are and wherever processes die.
THEOREM CommittedIsRestorable == Spec => []CommittedRestorable
<1>1. CheckpointInv => CommittedRestorable
    BY DEF CheckpointInv
<1> QED BY <1>1, InvHolds, PTL

\* No process writes to a file of a checkpoint the configuration has named.
THEOREM ChainOnlyExtended == Spec => CommittedFilesKept
<1> DEFINE Kept == /\ \A n \in DOMAIN memFile :
                         n <= committed => memFile'[n] = memFile[n]
                   /\ \A k \in DOMAIN coreFile :
                         k[1] <= committed => coreFile'[k] = coreFile[k]
<1>1. CheckpointInv /\ [Next]_vars => [Kept]_vars
  <2> SUFFICES ASSUME CheckpointInv, Next PROVE Kept
    OBVIOUS
  <2>i. TypeOK /\ ThreadInv
    BY DEF CheckpointInv
  <2>b. no_checkpoint \in Nat
    BY <2>i, Basics
  <2>1. ASSUME NEW c \in Cores, SaveCpu(c) PROVE Kept
    <3>u. /\ coreFile' = With(coreFile, <<no_checkpoint, c>>, cpu[c]) /\ up
          /\ pc[c] = "save"
          /\ memFile' = With(memFile, no_checkpoint, NoPages) \/ UNCHANGED memFile
      BY <2>1 DEF SaveCpu
    <3>s. Saving
      BY <2>i, <3>u DEF ThreadInv, Saving, Saved, AtLeader
    <3>n. committed = no_checkpoint - 1
      BY <3>u, <3>s, SavePhase
    <3>1. \A n \in DOMAIN memFile : n <= committed => memFile'[n] = memFile[n]
      BY <2>b, <3>u, <3>n DEF With
    <3>2. \A k \in DOMAIN coreFile : k[1] <= committed => coreFile'[k] = coreFile[k]
      <4> SUFFICES ASSUME NEW k \in DOMAIN coreFile, k[1] <= committed
                   PROVE  coreFile'[k] = coreFile[k]
        OBVIOUS
      <4>1. k # <<no_checkpoint, c>>
        BY <2>b, <3>n
      <4> QED BY <3>u, <4>1 DEF With
    <3> QED BY <3>1, <3>2
  <2>2. CASE ScanPage
    <3>u. /\ UNCHANGED coreFile /\ up /\ Saving
          /\ \/ UNCHANGED memFile
             \/ memFile' = [memFile EXCEPT ![no_checkpoint][pos] = mem[pos]]
      BY <2>2 DEF ScanPage, Saving, AtLeader
    <3>n. committed = no_checkpoint - 1
      BY <3>u, SavePhase
    <3> QED BY <2>b, <3>u, <3>n
  <2>3. CASE UNCHANGED <<memFile, coreFile>>
    BY <2>3
  <2>4. \/ UNCHANGED <<memFile, coreFile>> \/ ScanPage
        \/ \E c \in Cores : SaveCpu(c)
    BY DEF Next, StartFresh, StartRestart, BootStep, BootBarrier, InitCpu, RestoreCpu,
           CountRestart, GuestStep, GuestWrite, GuestRead, HostFill, Alarm,
           CheckpointStep, TakeSignal, Meet, ScanEnds, Part, TruncateConfig,
           WriteConfig, CheckpointDone, Crash, diskVars
  <2> QED BY <2>1, <2>2, <2>3, <2>4
<1> QED BY <1>1, InvHolds, PTL DEF Spec, CommittedFilesKept

\* A restarted process continues from the newest checkpoint, or from checkpoint 0
\* if the configuration was lost.
THEOREM RestartsFromNewest == Spec => NewestRestored
<1> DEFINE Newest == ~ up /\ up' /\ committed # NoNumber =>
                        /\ restart'
                        /\ no_checkpoint' = IF config.state = "ok" THEN committed ELSE 0
<1>1. CheckpointInv /\ [Next]_vars => [Newest]_vars
  <2> SUFFICES ASSUME CheckpointInv, Next, ~ up, up', committed # NoNumber
               PROVE  /\ restart'
                      /\ no_checkpoint' = IF config.state = "ok" THEN committed ELSE 0
    OBVIOUS
  <2>i. NumberInv
    BY DEF CheckpointInv
  <2>1. StartFresh \/ StartRestart
    BY DEF Next, BootStep, BootBarrier, InitCpu, RestoreCpu, CountRestart, GuestStep,
           GuestWrite, GuestRead, HostFill, Alarm, CheckpointStep, TakeSignal, Meet,
           SaveCpu, ScanPage, ScanEnds, Part, TruncateConfig, WriteConfig,
           CheckpointDone, Crash
  <2>2. ~ StartFresh
    BY <2>i DEF StartFresh, NumberInv
  <2>3. restart' = TRUE /\ no_checkpoint' = ParsedNumber
    BY <2>1, <2>2 DEF StartRestart
  <2> QED BY <2>i, <2>3 DEF ParsedNumber, NumberInv
<1> QED BY <1>1, InvHolds, PTL DEF Spec, NewestRestored
=============================================================================
