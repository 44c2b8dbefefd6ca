--------------------------- MODULE HypercallsProofs ---------------------------
(***************************************************************************)
(* The hypercalls for files and arguments, for every number of vCPUs, page *)
(* tables of any depth, buffers and command lines: the walk of the page    *)
(* tables finds what the MMU finds, the bytes moved are those of the       *)
(* buffer, and the strings fit into the blocks set aside for them.         *)
(***************************************************************************)
EXTENDS Hypercalls, TLAPS, WellFoundedInduction

\* A non-empty set of numbers has a least one.
LEMMA Least ==
    ASSUME NEW S, S \subseteq Nat, S # {}
    PROVE  \E n \in S : \A m \in S : n <= m
<1>1. PICK n \in S : \A m \in S : <<m, n>> \notin OpToRel(<, Nat)
    BY NatLessThanWellFounded, WFMin
<1>2. \A m \in S : ~ (m < n)
    BY <1>1, Zenon DEF OpToRel
<1> QED BY <1>2

-----------------------------------------------------------------------------
(* Descriptors. *)

FdInv == DOMAIN fds \subseteq 0 .. MaxFd /\ DescriptorsKept

LEMMA InitFds ==
    Init => FdInv
<1> SUFFICES ASSUME Init PROVE FdInv
    OBVIOUS
<1>1. DOMAIN fds = 0 .. 2 /\ \A d \in 0 .. 2 : fds[d] = "terminal"
    BY DEF Init
<1>2. 0 .. 2 \subseteq 0 .. MaxFd /\ "terminal" # Kvm
    BY HypercallsAssumption
<1> QED BY <1>1, <1>2 DEF FdInv, DescriptorsKept

LEMMA OpenKeepsFds ==
    ASSUME FdInv, NEW c, NEW name \in Names, Open(c, name)
    PROVE  FdInv'
<1>1. PICK rpath \in RPaths(name) :
         fds' \in {fds} \cup
              IF Refused(name, rpath) \/ FreeFds = {} THEN {}
              ELSE {[d \in DOMAIN fds \cup {Min(FreeFds)} |->
                        IF d \in DOMAIN fds THEN fds[d]
                        ELSE IF name.real = "none" THEN name.name ELSE name.real]}
    BY Zenon DEF Open
<1>2. CASE fds' = fds
    BY <1>2 DEF FdInv, DescriptorsKept
<1>3. CASE fds' # fds
  <2> DEFINE new == IF name.real = "none" THEN name.name ELSE name.real
             m == Min(FreeFds)
  <2>1. rpath # Kvm /\ FreeFds # {}
      BY <1>1, <1>3 DEF Refused
  <2>2. fds' = [d \in DOMAIN fds \cup {m} |-> IF d \in DOMAIN fds THEN fds[d] ELSE new]
      BY <1>1, <1>3, <2>1
  <2>3. new # Kvm
      BY <2>1, HypercallsAssumption DEF RPaths
  <2>4. m \in 0 .. MaxFd
    <3>1. FreeFds \subseteq Nat /\ FreeFds \subseteq 0 .. MaxFd
        BY HypercallsAssumption DEF FreeFds
    <3>2. \E x \in FreeFds : \A y \in FreeFds : x <= y
        BY <2>1, <3>1, Least
    <3>3. m \in FreeFds
        BY <3>2, Zenon DEF Min
    <3> QED BY <3>1, <3>3
  <2> HIDE DEF new, m
  <2> QED BY <2>2, <2>3, <2>4 DEF FdInv, DescriptorsKept
<1> QED BY <1>2, <1>3

LEMMA CloseKeepsFds ==
    ASSUME FdInv, NEW c, NEW fd \in Fds, Close(c, fd)
    PROVE  FdInv'
<1>1. CASE fds' = fds
    BY <1>1 DEF FdInv, DescriptorsKept
<1>2. CASE fd > 2 /\ fds' = [d \in DOMAIN fds \ {fd} |-> fds[d]]
  <2>1. fd \notin 0 .. 2
      BY <1>2, HypercallsAssumption
  <2> QED BY <1>2, <2>1 DEF FdInv, DescriptorsKept
<1> QED BY <1>1, <1>2 DEF Close, Closable

LEMMA NextKeepsFds ==
    FdInv /\ [Next]_vars => FdInv'
<1> SUFFICES ASSUME FdInv, [Next]_vars PROVE FdInv'
    OBVIOUS
<1>1. CASE UNCHANGED fds
    BY <1>1 DEF FdInv, DescriptorsKept
<1>2. CASE UNCHANGED vars
    BY <1>1, <1>2 DEF vars, files
<1>3. ASSUME NEW c \in Cores, Transfer(c)
      PROVE  FdInv'
    BY <1>1, <1>3 DEF Transfer, HostWrite, HostRead, HostFails, Return, files
<1>4. ASSUME NEW c \in Cores, CmdSize(c) \/ CmdVal(c) \/ PassOn(c)
      PROVE  FdInv'
    BY <1>1, <1>4 DEF CmdSize, CmdVal, PassOn, files
<1>5. ASSUME NEW c \in Cores, NEW op, NEW fd, NEW b, Begin(c, op, fd, b)
      PROVE  FdInv'
    BY <1>1, <1>5 DEF Begin, files
<1> QED BY <1>2, <1>3, <1>4, <1>5, OpenKeepsFds, CloseKeepsFds DEF Next

\* CLOSE and OPEN, in any order and from any number of vCPUs, never take the
\* terminal away and never give the guest a descriptor of the KVM device.
THEOREM TerminalKeptKvmRefused ==
    Spec => []DescriptorsKept
<1>1. FdInv => DescriptorsKept
    BY DEF FdInv
<1> QED BY <1>1, InitFds, NextKeepsFds, PTL DEF Spec

-----------------------------------------------------------------------------
(* The command line. *)

\* f holds the sums of the first 0, 1, .. n elements of sz.
Sums(f, sz, n) == f = [k \in 0 .. n |-> IF k = 0 THEN 0 ELSE f[k - 1] + sz[k]]

LEMMA SumsExist ==
    ASSUME NEW sz \in Seq(Nat), NEW m \in Nat
    PROVE  \E f : Sums(f, sz, m)
<1> DEFINE S == {n \in Nat : ~ \E f : Sums(f, sz, n)}
<1> SUFFICES ASSUME S # {} PROVE FALSE
    OBVIOUS
<1>1. S \subseteq Nat
    OBVIOUS
<1> HIDE DEF S
<1>2. PICK n \in S : \A l \in S : n <= l
    BY <1>1, Least
<1>3. n \in Nat /\ ~ \E f : Sums(f, sz, n)
    BY DEF S
<1>4. CASE n = 0
  <2> DEFINE f == [k \in 0 .. 0 |-> 0]
  <2>1. f = [k \in 0 .. 0 |-> IF k = 0 THEN 0 ELSE f[k - 1] + sz[k]]
      OBVIOUS
  <2> QED BY <1>3, <1>4, <2>1 DEF Sums
<1>5. CASE n # 0
  <2>1. n - 1 \in Nat /\ n - 1 \notin S
      BY <1>2, <1>3, <1>5
  <2>2. PICK g : Sums(g, sz, n - 1)
      BY <2>1 DEF S
  <2> DEFINE f == [k \in 0 .. n |-> IF k = n THEN g[n - 1] + sz[n] ELSE g[k]]
  <2>3. \A k \in 0 .. n - 1 : f[k] = g[k] /\ g[k] = IF k = 0 THEN 0 ELSE g[k - 1] + sz[k]
      BY <1>3, <2>2 DEF Sums
  <2>4. ASSUME NEW k \in 0 .. n
        PROVE  f[k] = IF k = 0 THEN 0 ELSE f[k - 1] + sz[k]
    <3>1. CASE k = n
      <4>1. f[k] = g[n - 1] + sz[n] /\ f[n - 1] = g[n - 1]
          BY <1>3, <1>5, <3>1
      <4> QED BY <1>5, <3>1, <4>1
    <3>2. CASE k # n
      <4>1. k \in 0 .. n - 1 /\ (k # 0 => k - 1 \in 0 .. n - 1)
          BY <1>3, <3>2
      <4> HIDE DEF f
      <4> QED BY <2>3, <4>1
    <3> QED BY <3>1, <3>2
  <2>5. f = [k \in 0 .. n |-> f[k]]
      OBVIOUS
  <2> HIDE DEF f
  <2>6. f = [k \in 0 .. n |-> IF k = 0 THEN 0 ELSE f[k - 1] + sz[k]]
      BY <2>4, <2>5
  <2> QED BY <1>3, <2>6 DEF Sums
<1> QED BY <1>4, <1>5

\* The blocks do not overlap: each begins where the ones before it end.
LEMMA Blocks ==
    ASSUME NEW sz \in Seq(Nat)
    PROVE  /\ \A i \in 1 .. Len(sz) : Start(sz, i) \in Nat
           /\ \A i, j \in 1 .. Len(sz) : i < j => Start(sz, i) + sz[i] <= Start(sz, j)
<1> DEFINE f == CHOOSE g : g = [k \in 0 .. Len(sz) |-> IF k = 0 THEN 0 ELSE g[k - 1] + sz[k]]
<1>0. Len(sz) \in Nat /\ \A i \in 1 .. Len(sz) : sz[i] \in Nat
    OBVIOUS
<1>1. \A i : Start(sz, i) = f[i - 1]
    BY DEF Start
<1>2. \E g : g = [k \in 0 .. Len(sz) |-> IF k = 0 THEN 0 ELSE g[k - 1] + sz[k]]
    BY <1>0, SumsExist DEF Sums
<1>3. f = [k \in 0 .. Len(sz) |-> IF k = 0 THEN 0 ELSE f[k - 1] + sz[k]]
    BY <1>2, Zenon
<1> HIDE DEF f
<1>4. /\ f[0] = 0
      /\ \A k \in 1 .. Len(sz) : f[k] = f[k - 1] + sz[k]
    BY <1>0, <1>3
<1>5. \A k \in 0 .. Len(sz) : f[k] \in Nat
  <2> DEFINE S == {k \in 0 .. Len(sz) : f[k] \notin Nat}
  <2> SUFFICES ASSUME S # {} PROVE FALSE
      OBVIOUS
  <2>1. S \subseteq Nat
      BY <1>0
  <2> HIDE DEF S
  <2>2. PICK k \in S : \A l \in S : k <= l
      BY <2>1, Least
  <2>3. k \in 0 .. Len(sz) /\ f[k] \notin Nat
      BY DEF S
  <2>4. k # 0
      BY <1>4, <2>3
  <2>5. k \in 1 .. Len(sz) /\ k - 1 \in 0 .. Len(sz) /\ k - 1 < k
      BY <1>0, <2>3, <2>4
  <2>6. f[k - 1] \in Nat
      BY <2>2, <2>3, <2>5 DEF S
  <2>7. f[k] = f[k - 1] + sz[k] /\ sz[k] \in Nat
      BY <1>0, <1>4, <2>5
  <2> QED BY <2>3, <2>6, <2>7
<1>6. ASSUME NEW i \in 1 .. Len(sz), NEW j \in 1 .. Len(sz), i < j
      PROVE  f[i] <= f[j - 1]
  <2> DEFINE S == {k \in i .. Len(sz) : ~ (f[i] <= f[k])}
  <2> SUFFICES ASSUME S # {} PROVE FALSE
    <3>1. j - 1 \in i .. Len(sz)
        BY <1>0, <1>6
    <3> QED BY <3>1
  <2>1. S \subseteq Nat
      BY <1>0
  <2> HIDE DEF S
  <2>2. PICK k \in S : \A l \in S : k <= l
      BY <2>1, Least
  <2>3. k \in i .. Len(sz) /\ ~ (f[i] <= f[k])
      BY DEF S
  <2>4. k # i
      BY <1>0, <1>5, <2>3
  <2>5. /\ k \in 1 .. Len(sz) /\ k - 1 \in i .. Len(sz) /\ k - 1 < k
        /\ k - 1 \in 0 .. Len(sz) /\ k \in 0 .. Len(sz) /\ i \in 0 .. Len(sz)
      BY <1>0, <2>3, <2>4
  <2>6. f[i] <= f[k - 1]
      BY <2>2, <2>3, <2>5 DEF S
  <2>7. f[k] = f[k - 1] + sz[k] /\ sz[k] \in Nat /\ f[k - 1] \in Nat /\ f[i] \in Nat
      BY <1>0, <1>4, <1>5, <2>5
  <2> QED BY <2>3, <2>6, <2>7
<1>7. ASSUME NEW i \in 1 .. Len(sz)
      PROVE  Start(sz, i) \in Nat /\ f[i] = Start(sz, i) + sz[i]
  <2>1. i - 1 \in 0 .. Len(sz)
      BY <1>0
  <2> QED BY <1>1, <1>4, <1>5, <2>1
<1> QED BY <1>1, <1>6, <1>7

\* What CMDVAL leaves in the blocks.
LEMMA CopiedWhole ==
    ASSUME NEW all \in Seq(Nat), NEW sz \in Seq(Nat), Len(sz) = Len(all),
           \A i \in 1 .. Len(all) : sz[i] = all[i] + 1,
           NEW i \in 1 .. Len(all), NEW o \in 0 .. all[i]
    PROVE  Copied(all, sz)[Start(sz, i) + o] = i
<1> DEFINE Ends(j) == Start(sz, j) .. Start(sz, j) + all[j]
           x == Start(sz, i) + o
<1>0. Len(all) \in Nat /\ DOMAIN all = 1 .. Len(all) /\ \A j \in 1 .. Len(all) : all[j] \in Nat
    OBVIOUS
<1>1. /\ \A j \in 1 .. Len(all) : Start(sz, j) \in Nat
      /\ \A j, k \in 1 .. Len(all) : j < k => Start(sz, j) + sz[j] <= Start(sz, k)
    BY Blocks
<1>2. x \in Ends(i) /\ x \in Nat
    BY <1>0, <1>1
<1>3. ASSUME NEW j \in 1 .. Len(all), x \in Ends(j)
      PROVE  j = i
  <2> DEFINE a == Start(sz, i)
             b == Start(sz, j)
             u == sz[i]
             v == sz[j]
  <2>1. a \in Nat /\ b \in Nat /\ u \in Nat /\ v \in Nat
      BY <1>1
  <2>2. x \in Nat /\ a <= x /\ x < a + u
    <3>1. x = a + o /\ u = all[i] + 1 /\ all[i] \in Nat /\ o \in 0 .. all[i]
        BY <1>0
    <3> HIDE DEF a, u, x
    <3> QED BY <2>1, <3>1
  <2>3. b <= x /\ x < b + v
    <3> DEFINE w == all[j]
    <3>1. v = w + 1 /\ w \in Nat
        BY <1>0
    <3>2. x \in b .. b + w
        BY <1>3
    <3> HIDE DEF b, v, x, w
    <3> QED BY <2>1, <2>2, <3>1, <3>2
  <2>4. (i < j => a + u <= b) /\ (j < i => b + v <= a)
      BY <1>1
  <2> HIDE DEF a, b, u, v, x
  <2>5. ~ (i < j) /\ ~ (j < i)
      BY <2>1, <2>2, <2>3, <2>4
  <2> QED BY <1>0, <2>5
<1> HIDE DEF x
<1>4. {j \in DOMAIN all : x \in Ends(j)} = {i}
    BY <1>0, <1>2, <1>3
<1>5. x \in UNION {Ends(j) : j \in DOMAIN all}
    BY <1>0, <1>2
<1>6. Max({i}) = i
    BY <1>0 DEF Max
<1>7. Copied(all, sz) = [y \in UNION {Ends(j) : j \in DOMAIN all} |->
                            Max({j \in DOMAIN all : y \in Ends(j)})]
    BY DEF Copied
<1>8. Copied(all, sz)[x] = Max({j \in DOMAIN all : x \in Ends(j)})
  <2> HIDE DEF Ends
  <2> QED BY <1>5, <1>7, Zenon
<1> QED BY <1>4, <1>6, <1>8 DEF x

LEMMA Concatenated ==
    ASSUME NEW s \in Seq(Nat), NEW t \in Seq(Nat)
    PROVE  /\ s \o t \in Seq(Nat) /\ Len(s \o t) = Len(s) + Len(t)
           /\ DOMAIN (s \o t) = 1 .. Len(s) + Len(t)
           /\ \A i \in 1 .. Len(s) : (s \o t)[i] = s[i]
           /\ \A i \in Len(s) + 1 .. Len(s) + Len(t) : (s \o t)[i] = t[i - Len(s)]
OBVIOUS

LEMMA FirstOf ==
    ASSUME NEW s \in Seq(Nat), NEW n \in Nat
    PROVE  /\ First(s, n) \in Seq(Nat) /\ Len(First(s, n)) <= n /\ Len(First(s, n)) \in Nat
           /\ Announced(First(s, n)) \in Seq(Nat)
           /\ Len(Announced(First(s, n))) = Len(First(s, n))
           /\ \A i \in 1 .. Len(First(s, n)) : Announced(First(s, n))[i] = First(s, n)[i] + 1
<1> DEFINE m == Min2(Len(s), n)
           t == First(s, n)
<1>1. m \in Nat /\ m <= n /\ m <= Len(s)
    BY DEF Min2
<1> HIDE DEF m
<1>2. t = [i \in 1 .. m |-> s[i]]
  <2>1. t = SubSeq(s, 1, m)
      BY DEF First, m
  <2> HIDE DEF t
  <2> QED BY <1>1, <2>1
<1> HIDE DEF t
<1>3. \A i \in 1 .. m : s[i] \in Nat
    BY <1>1
<1>4. t \in Seq(Nat) /\ Len(t) = m /\ DOMAIN t = 1 .. m
    BY <1>1, <1>2, <1>3
<1>5. Announced(t) = [i \in 1 .. m |-> t[i] + 1]
    BY <1>4 DEF Announced
<1>6. \A i \in 1 .. m : t[i] + 1 \in Nat
    BY <1>2, <1>3
<1>7. Announced(t) \in Seq(Nat) /\ Len(Announced(t)) = m
    BY <1>1, <1>5, <1>6
<1> QED BY <1>1, <1>4, <1>5, <1>7 DEF t

\* The calls that have nothing to do with the command line.
Others(c) ==
    \/ Transfer(c) \/ PassOn(c)
    \/ \E op \in {"write", "read"}, fd \in Fds, b \in Buffers : Begin(c, op, fd, b)
    \/ \E name \in Names : Open(c, name)
    \/ \E fd \in Fds : Close(c, fd)

LEMMA OthersApart ==
    ASSUME NEW c, Others(c)
    PROVE  UNCHANGED <<layout, sizes, strings>>
<1>1. CASE Transfer(c) \/ PassOn(c)
    BY <1>1 DEF Transfer, HostWrite, HostRead, HostFails, Return, PassOn, files, cmdline
<1>2. ASSUME NEW op, NEW fd, NEW b, Begin(c, op, fd, b)
      PROVE  UNCHANGED <<layout, sizes, strings>>
    BY <1>2 DEF Begin, files, cmdline
<1>3. ASSUME NEW name, Open(c, name)
      PROVE  UNCHANGED <<layout, sizes, strings>>
    BY <1>3 DEF Open, cmdline
<1>4. ASSUME NEW fd, Close(c, fd)
      PROVE  UNCHANGED <<layout, sizes, strings>>
    BY <1>4 DEF Close, cmdline
<1> QED BY <1>1, <1>2, <1>3, <1>4 DEF Others

LEMMA NextKeepsCmd ==
    CmdInv /\ [Next]_vars => CmdInv'
<1> SUFFICES ASSUME CmdInv, [Next]_vars PROVE CmdInv'
    OBVIOUS
<1>1. CASE UNCHANGED <<layout, sizes, strings>>
    BY <1>1 DEF CmdInv, uhyve_argv, uhyve_envp
<1>2. ASSUME NEW c \in Cores, CmdSize(c)
      PROVE  CmdInv'
  <2>1. /\ UNCHANGED <<layout, strings>> /\ sizes = <<>>
        /\ sizes' = <<Announced(uhyve_argv), Announced(uhyve_envp)>>
      BY <1>2 DEF CmdSize, files
  <2>2. strings' = <<>>
      BY <2>1 DEF CmdInv
  <2>3. uhyve_argv' = uhyve_argv /\ uhyve_envp' = uhyve_envp
      BY <2>1 DEF uhyve_argv, uhyve_envp
  <2> QED BY <2>1, <2>2, <2>3 DEF CmdInv
<1>3. ASSUME NEW c \in Cores, CmdVal(c)
      PROVE  CmdInv'
  <2>1. /\ UNCHANGED <<layout, sizes>> /\ sizes # <<>>
        /\ strings' = <<Copied(uhyve_argv \o uhyve_envp, sizes[1] \o sizes[2])>>
      BY <1>3 DEF CmdVal, files
  <2>2. uhyve_argv' = uhyve_argv /\ uhyve_envp' = uhyve_envp
      BY <2>1 DEF uhyve_argv, uhyve_envp
  <2> QED BY <2>1, <2>2, Zenon DEF CmdInv
<1>4. CASE UNCHANGED vars
    BY <1>1, <1>4 DEF vars, files, cmdline
<1>5. ASSUME NEW c \in Cores, Others(c)
      PROVE  CmdInv'
    BY <1>1, <1>5, OthersApart
<1> QED BY <1>2, <1>3, <1>4, <1>5 DEF Next, Others

LEMMA CmdIntact ==
    CmdInv => ArgsIntact
<1> SUFFICES ASSUME CmdInv, strings # <<>>
             PROVE  LET all == uhyve_argv \o uhyve_envp
                        sz == sizes[1] \o sizes[2]
                    IN  /\ Len(sizes[1]) <= MaxArgs /\ Len(sizes[2]) < MaxArgs
                        /\ \A i \in DOMAIN all : \A o \in 0 .. all[i] :
                              strings[1][Start(sz, i) + o] = i
    BY DEF ArgsIntact
<1> DEFINE A == uhyve_argv
           E == uhyve_envp
           NA == Announced(A)
           NE == Announced(E)
           all == A \o E
           sz == NA \o NE
<1>0. layout.argv \in Seq(Nat) /\ layout.envp \in Seq(Nat) /\ MaxArgs \in Nat /\ MaxArgs - 1 \in Nat
    BY GuestAssumption, HypercallsAssumption DEF CmdInv
<1>1. /\ A \in Seq(Nat) /\ Len(A) <= MaxArgs /\ NA \in Seq(Nat) /\ Len(NA) = Len(A)
      /\ \A i \in 1 .. Len(A) : NA[i] = A[i] + 1
    BY <1>0, FirstOf DEF uhyve_argv
<1>2. /\ E \in Seq(Nat) /\ Len(E) <= MaxArgs - 1 /\ NE \in Seq(Nat) /\ Len(NE) = Len(E)
      /\ \A i \in 1 .. Len(E) : NE[i] = E[i] + 1
    BY <1>0, FirstOf DEF uhyve_envp
<1>3. sizes[1] = NA /\ sizes[2] = NE /\ strings[1] = Copied(all, sz)
  <2>1. sizes = <<NA, NE>> /\ strings = <<Copied(all, sizes[1] \o sizes[2])>>
      BY DEF CmdInv
  <2> HIDE DEF A, E, NA, NE
  <2>2. sizes[1] = NA /\ sizes[2] = NE
      BY <2>1
  <2> QED BY <2>1, <2>2
<1> HIDE DEF A, E, NA, NE
<1>4. /\ all \in Seq(Nat) /\ sz \in Seq(Nat) /\ Len(sz) = Len(all)
      /\ DOMAIN all = 1 .. Len(all) /\ \A i \in 1 .. Len(all) : sz[i] = all[i] + 1
  <2>1. Len(A) \in Nat /\ Len(E) \in Nat
      BY <1>1, <1>2
  <2>2. /\ all \in Seq(Nat) /\ Len(all) = Len(A) + Len(E) /\ DOMAIN all = 1 .. Len(A) + Len(E)
        /\ \A i \in 1 .. Len(A) : all[i] = A[i]
        /\ \A i \in Len(A) + 1 .. Len(A) + Len(E) : all[i] = E[i - Len(A)]
      BY <1>1, <1>2, Concatenated
  <2>3. /\ sz \in Seq(Nat) /\ Len(sz) = Len(A) + Len(E)
        /\ \A i \in 1 .. Len(A) : sz[i] = NA[i]
        /\ \A i \in Len(A) + 1 .. Len(A) + Len(E) : sz[i] = NE[i - Len(A)]
    <3>1. /\ sz \in Seq(Nat) /\ Len(sz) = Len(NA) + Len(NE)
          /\ \A i \in 1 .. Len(NA) : sz[i] = NA[i]
          /\ \A i \in Len(NA) + 1 .. Len(NA) + Len(NE) : sz[i] = NE[i - Len(NA)]
        BY <1>1, <1>2, Concatenated
    <3>2. Len(NA) = Len(A) /\ Len(NE) = Len(E)
        BY <1>1, <1>2
    <3> QED BY <3>1, <3>2, Zenon
  <2> HIDE DEF all, sz
  <2>4. ASSUME NEW i \in 1 .. Len(A) + Len(E)
        PROVE  sz[i] = all[i] + 1
    <3>1. CASE i \in 1 .. Len(A)
        BY <1>1, <2>2, <2>3, <3>1
    <3>2. CASE i \in Len(A) + 1 .. Len(A) + Len(E)
      <4>1. i - Len(A) \in 1 .. Len(E)
          BY <2>1, <3>2
      <4>2. NE[i - Len(A)] = E[i - Len(A)] + 1
          BY <1>2, <4>1
      <4> QED BY <2>2, <2>3, <3>2, <4>2
    <3> QED BY <2>1, <3>1, <3>2
  <2> QED BY <2>2, <2>3, <2>4
<1> HIDE DEF all, sz
<1>5. \A i \in DOMAIN all : \A o \in 0 .. all[i] : Copied(all, sz)[Start(sz, i) + o] = i
  <2> TAKE i \in DOMAIN all
  <2> TAKE o \in 0 .. all[i]
  <2> QED BY <1>4, CopiedWhole
<1>6. Len(NA) <= MaxArgs /\ Len(NE) < MaxArgs
    BY <1>0, <1>1, <1>2
<1> QED BY <1>3, <1>5, <1>6 DEF all, sz, A, E

\* Every string of the command line arrives whole in the block the guest set aside
\* for it by CMDSIZE, for any number of strings of any length.
THEOREM CommandLineIntact ==
    Spec => []ArgsIntact
<1>1. Init => CmdInv
    BY DEF Init, CmdInv
<1> QED BY <1>1, NextKeepsCmd, CmdIntact, PTL DEF Spec

-----------------------------------------------------------------------------
(* Sizes of pages. *)

Sizes(f, n) == f = [k \in 0 .. n |-> IF k = 0 THEN PageSize ELSE Fanout * f[k - 1]]

LEMMA SizesExist ==
    ASSUME NEW m \in Nat
    PROVE  \E f : Sizes(f, m)
<1> DEFINE S == {n \in Nat : ~ \E f : Sizes(f, n)}
<1> SUFFICES ASSUME S # {} PROVE FALSE
    OBVIOUS
<1>1. S \subseteq Nat
    OBVIOUS
<1> HIDE DEF S
<1>2. PICK n \in S : \A l \in S : n <= l
    BY <1>1, Least
<1>3. n \in Nat /\ ~ \E f : Sizes(f, n)
    BY DEF S
<1>4. CASE n = 0
  <2> DEFINE f == [k \in 0 .. 0 |-> PageSize]
  <2>1. f = [k \in 0 .. 0 |-> IF k = 0 THEN PageSize ELSE Fanout * f[k - 1]]
      OBVIOUS
  <2> QED BY <1>3, <1>4, <2>1 DEF Sizes
<1>5. CASE n # 0
  <2>1. n - 1 \in Nat /\ n - 1 \notin S
      BY <1>2, <1>3, <1>5
  <2>2. PICK g : Sizes(g, n - 1)
      BY <2>1 DEF S
  <2> DEFINE f == [k \in 0 .. n |-> IF k = n THEN Fanout * g[n - 1] ELSE g[k]]
  <2>3. \A k \in 0 .. n - 1 : f[k] = g[k] /\ g[k] = IF k = 0 THEN PageSize ELSE Fanout * g[k - 1]
      BY <1>3, <2>2 DEF Sizes
  <2>4. ASSUME NEW k \in 0 .. n
        PROVE  f[k] = IF k = 0 THEN PageSize ELSE Fanout * f[k - 1]
    <3>1. CASE k = n
      <4>1. f[k] = Fanout * g[n - 1] /\ f[n - 1] = g[n - 1]
          BY <1>3, <1>5, <3>1
      <4> QED BY <1>5, <3>1, <4>1
    <3>2. CASE k # n
      <4>1. k \in 0 .. n - 1 /\ (k # 0 => k - 1 \in 0 .. n - 1)
          BY <1>3, <3>2
      <4> HIDE DEF f
      <4> QED BY <2>3, <4>1
    <3> QED BY <3>1, <3>2
  <2>5. f = [k \in 0 .. n |-> f[k]]
      OBVIOUS
  <2> HIDE DEF f
  <2>6. f = [k \in 0 .. n |-> IF k = 0 THEN PageSize ELSE Fanout * f[k - 1]]
      BY <2>4, <2>5
  <2> QED BY <1>3, <2>6 DEF Sizes
<1> QED BY <1>4, <1>5

LEMMA PageBytesPositive ==
    ASSUME NEW level \in Nat
    PROVE  PageBytes(level) \in Nat \ {0}
<1> DEFINE f == CHOOSE g : g = [k \in 0 .. level |-> IF k = 0 THEN PageSize ELSE Fanout * g[k - 1]]
           S == {k \in 0 .. level : f[k] \notin Nat \ {0}}
<1>1. PageBytes(level) = f[level]
    BY DEF PageBytes
<1>2. \E g : g = [k \in 0 .. level |-> IF k = 0 THEN PageSize ELSE Fanout * g[k - 1]]
    BY SizesExist DEF Sizes
<1>3. f = [k \in 0 .. level |-> IF k = 0 THEN PageSize ELSE Fanout * f[k - 1]]
    BY <1>2, Zenon
<1> HIDE DEF f
<1> SUFFICES ASSUME S # {} PROVE FALSE
    BY <1>1
<1>4. S \subseteq Nat
    OBVIOUS
<1> HIDE DEF S
<1>5. PICK k \in S : \A l \in S : k <= l
    BY <1>4, Least
<1>6. k \in 0 .. level /\ f[k] \notin Nat \ {0}
    BY DEF S
<1>7. PageSize \in Nat \ {0} /\ Fanout \in Nat \ {0}
    BY HypercallsAssumption
<1>8. k # 0
    BY <1>3, <1>6, <1>7
<1>9. k - 1 \in 0 .. level /\ k - 1 < k
    BY <1>6, <1>8
<1>10. f[k - 1] \in Nat \ {0}
    BY <1>5, <1>6, <1>9 DEF S
<1>11. f[k] = Fanout * f[k - 1]
    BY <1>3, <1>6, <1>8
<1>12. \A a, b \in Nat \ {0} : a * b \in Nat \ {0}
    OBVIOUS
<1> QED BY <1>6, <1>7, <1>10, <1>11, <1>12

\* The page of a level an address lies in.
LEMMA InPage ==
    ASSUME NEW va \in Nat, NEW level \in Nat
    PROVE  /\ va % PageBytes(level) \in 0 .. PageBytes(level) - 1
           /\ va - (va % PageBytes(level)) \in Nat
<1> DEFINE B == PageBytes(level)
<1>1. B \in Nat \ {0}
    BY PageBytesPositive
<1> HIDE DEF B
<1>2. va % B \in 0 .. B - 1 /\ va % B <= va
    BY <1>1
<1> QED BY <1>2 DEF B

-----------------------------------------------------------------------------
(* The walk of the page tables. *)

\* One level of the walk, for the results of the level below.
Walked(below, va, level) ==
    [t \in DOMAIN layout.tables |->
        LET e == layout.tables[t][Index(va, level)]
        IN  IF ~ e.present THEN Unmapped
            ELSE IF level = 0 \/ (level < Levels - 1 /\ e.pse)
            THEN Leaf(e.phy, va, level)
            ELSE below[e.phy]]

Walk(f, va, n) == f = [level \in 0 .. n |-> Walked(f[level - 1], va, level)]

\* On the lowest level nothing is used of a level below.
LEMMA LowestLevel ==
    ASSUME NEW va, NEW x, NEW y
    PROVE  Walked(x, va, 0) = Walked(y, va, 0)
BY DEF Walked

LEMMA WalkExists ==
    ASSUME NEW va, NEW m \in Nat
    PROVE  \E f : Walk(f, va, m)
<1> DEFINE S == {n \in Nat : ~ \E f : Walk(f, va, n)}
<1> SUFFICES ASSUME S # {} PROVE FALSE
    OBVIOUS
<1>1. S \subseteq Nat
    OBVIOUS
<1> HIDE DEF S
<1>2. PICK n \in S : \A l \in S : n <= l
    BY <1>1, Least
<1>3. n \in Nat /\ ~ \E f : Walk(f, va, n)
    BY DEF S
<1>4. CASE n = 0
  <2> DEFINE f == [level \in 0 .. 0 |-> Walked(0, va, 0)]
  <2>1. \A level \in 0 .. 0 : f[level] = Walked(f[level - 1], va, level)
      BY LowestLevel
  <2>2. f = [level \in 0 .. 0 |-> f[level]]
      OBVIOUS
  <2> HIDE DEF f
  <2>3. f = [level \in 0 .. 0 |-> Walked(f[level - 1], va, level)]
      BY <2>1, <2>2
  <2> QED BY <1>3, <1>4, <2>3 DEF Walk
<1>5. CASE n # 0
  <2>1. n - 1 \in Nat /\ n - 1 \notin S
      BY <1>2, <1>3, <1>5
  <2>2. PICK g : Walk(g, va, n - 1)
      BY <2>1 DEF S
  <2> DEFINE f == [k \in 0 .. n |-> IF k = n THEN Walked(g[n - 1], va, n) ELSE g[k]]
  <2>3. \A k \in 0 .. n - 1 : f[k] = g[k] /\ g[k] = Walked(g[k - 1], va, k)
      BY <1>3, <2>2 DEF Walk
  <2>4. ASSUME NEW k \in 0 .. n
        PROVE  f[k] = Walked(f[k - 1], va, k)
    <3>1. CASE k = n
      <4>1. f[k] = Walked(g[n - 1], va, n) /\ f[n - 1] = g[n - 1]
          BY <1>3, <1>5, <3>1
      <4> QED BY <3>1, <4>1
    <3>2. CASE k # n /\ k # 0
      <4>1. k \in 0 .. n - 1 /\ k - 1 \in 0 .. n - 1
          BY <1>3, <3>2
      <4> HIDE DEF f
      <4> QED BY <2>3, <4>1
    <3>3. CASE k # n /\ k = 0
      <4>1. k \in 0 .. n - 1
          BY <1>3, <3>3
      <4> HIDE DEF f
      <4>2. f[k] = Walked(g[k - 1], va, k)
          BY <2>3, <4>1
      <4> QED BY <3>3, <4>2, LowestLevel
    <3> QED BY <3>1, <3>2, <3>3
  <2>5. f = [k \in 0 .. n |-> f[k]]
      OBVIOUS
  <2> HIDE DEF f
  <2>6. f = [k \in 0 .. n |-> Walked(f[k - 1], va, k)]
      BY <2>4, <2>5
  <2> QED BY <1>3, <2>6 DEF Walk
<1> QED BY <1>4, <1>5

\* The entry an address selects in the table at a level of a descent.
EntryOf(path, va, level) == layout.tables[path[level]][Index(va, level)]

LEMMA InDescents ==
    ASSUME NEW va, NEW level
    PROVE  \A path : path \in Descents(layout, va, level) <=>
              /\ path \in [level .. Levels - 1 -> DOMAIN layout.tables]
              /\ path[Levels - 1] = Root
              /\ \A k \in level + 1 .. Levels - 1 :
                    /\ EntryOf(path, va, k).present
                    /\ k = Levels - 1 \/ ~ EntryOf(path, va, k).pse
                    /\ EntryOf(path, va, k).phy = path[k - 1]
BY Zenon DEF Descents, EntryOf

\* virt_to_phys follows a descent of the MMU to an entry that is not present or
\* maps a page.
LEMMA WalkDescends ==
    ASSUME layout \in Setups, NEW va \in 0 .. WordMod - 1
    PROVE  \E level \in 0 .. Levels - 1 : \E path \in Descents(layout, va, level) :
              \/ ~ EntryOf(path, va, level).present /\ virt_to_phys(va) = Unmapped
              \/ /\ MapsPage(EntryOf(path, va, level), level)
                 /\ virt_to_phys(va) = Leaf(EntryOf(path, va, level).phy, va, level)
<1> DEFINE f == CHOOSE g : g = [level \in 0 .. Levels - 1 |->
                   [t \in DOMAIN layout.tables |->
                       LET e == layout.tables[t][Index(va, level)]
                       IN  IF ~ e.present THEN Unmapped
                           ELSE IF level = 0 \/ (level < Levels - 1 /\ e.pse)
                           THEN Leaf(e.phy, va, level)
                           ELSE g[level - 1][e.phy]]]
<1>0. Levels \in Nat \ {0} /\ PageTables(layout)
    BY HypercallsAssumption, GuestAssumption
<1>1. virt_to_phys(va) = f[Levels - 1][Root]
    BY Zenon DEF virt_to_phys
<1>2. f = [level \in 0 .. Levels - 1 |-> Walked(f[level - 1], va, level)]
  <2>1. Levels - 1 \in Nat
      BY <1>0
  <2>2. \E g : g = [level \in 0 .. Levels - 1 |-> Walked(g[level - 1], va, level)]
      BY <2>1, WalkExists DEF Walk
  <2> QED BY <2>2, Zenon DEF Walked
<1> HIDE DEF f
<1>3. ASSUME NEW level \in 0 .. Levels - 1, NEW t \in DOMAIN layout.tables,
             NEW e, e = layout.tables[t][Index(va, level)]
      PROVE  f[level][t] = IF ~ e.present THEN Unmapped
                           ELSE IF level = 0 \/ (level < Levels - 1 /\ e.pse)
                           THEN Leaf(e.phy, va, level)
                           ELSE f[level - 1][e.phy]
  <2>1. f[level] = Walked(f[level - 1], va, level)
      BY <1>2
  <2> QED BY <1>3, <2>1, Zenon DEF Walked
<1> DEFINE S == {l \in 0 .. Levels - 1 : \E path \in Descents(layout, va, l) :
                                            virt_to_phys(va) = f[l][path[l]]}
<1>4. Levels - 1 \in S
  <2> DEFINE path == [k \in Levels - 1 .. Levels - 1 |-> Root]
  <2>1. path \in [Levels - 1 .. Levels - 1 -> DOMAIN layout.tables] /\ path[Levels - 1] = Root
      BY <1>0 DEF PageTables
  <2>2. \A k \in (Levels - 1) + 1 .. Levels - 1 : FALSE
      BY <1>0
  <2> HIDE DEF path
  <2>3. path \in Descents(layout, va, Levels - 1)
      BY <2>1, <2>2, InDescents
  <2> QED BY <1>0, <1>1, <2>1, <2>3
<1>5. S \subseteq Nat
    BY <1>0
<1>6. PICK l \in S : \A m \in S : l <= m
  <2> HIDE DEF S
  <2> QED BY <1>4, <1>5, Least
<1>7. PICK path \in Descents(layout, va, l) : virt_to_phys(va) = f[l][path[l]]
    OBVIOUS
<1> DEFINE e == EntryOf(path, va, l)
<1>8. /\ path \in [l .. Levels - 1 -> DOMAIN layout.tables] /\ path[Levels - 1] = Root
      /\ \A k \in l + 1 .. Levels - 1 :
            /\ EntryOf(path, va, k).present
            /\ k = Levels - 1 \/ ~ EntryOf(path, va, k).pse
            /\ EntryOf(path, va, k).phy = path[k - 1]
    BY <1>7, InDescents
<1>9. l \in 0 .. Levels - 1 /\ path[l] \in DOMAIN layout.tables
    BY <1>0, <1>8
<1>10. virt_to_phys(va) = IF ~ e.present THEN Unmapped
                          ELSE IF l = 0 \/ (l < Levels - 1 /\ e.pse)
                          THEN Leaf(e.phy, va, l)
                          ELSE f[l - 1][e.phy]
    BY <1>3, <1>7, <1>9 DEF EntryOf
<1>11. CASE e.present /\ ~ MapsPage(e, l)
  <2> DEFINE down == [k \in l - 1 .. Levels - 1 |-> IF k = l - 1 THEN e.phy ELSE path[k]]
  <2>1. l # 0 /\ (l = Levels - 1 \/ ~ e.pse)
      BY <1>0, <1>9, <1>11 DEF MapsPage
  <2>2. l - 1 \in 0 .. Levels - 1 /\ l - 1 < l
      BY <1>0, <1>9, <2>1
  <2>3. e.phy \in DOMAIN layout.tables
      BY <1>0, <1>7, <1>9, <1>11 DEF PageTables, EntryOf
  <2> HIDE DEF S, e
  <2>4. /\ down \in [l - 1 .. Levels - 1 -> DOMAIN layout.tables]
        /\ down[l - 1] = e.phy /\ \A k \in l .. Levels - 1 : down[k] = path[k]
      BY <1>0, <1>8, <1>9, <2>2, <2>3
  <2> HIDE DEF down
  <2>5. down[Levels - 1] = Root
      BY <1>0, <1>8, <1>9, <2>4
  <2>6. ASSUME NEW k \in (l - 1) + 1 .. Levels - 1
        PROVE  /\ EntryOf(down, va, k).present
               /\ k = Levels - 1 \/ ~ EntryOf(down, va, k).pse
               /\ EntryOf(down, va, k).phy = down[k - 1]
    <3>1. k \in l .. Levels - 1 /\ EntryOf(down, va, k) = EntryOf(path, va, k)
        BY <1>9, <2>4 DEF EntryOf
    <3>2. CASE k = l
        BY <1>11, <2>1, <2>4, <3>1, <3>2 DEF e
    <3>3. CASE k # l
      <4>1. k \in l + 1 .. Levels - 1 /\ k - 1 \in l .. Levels - 1
          BY <1>0, <1>9, <3>1, <3>3
      <4> QED BY <1>8, <2>4, <3>1, <4>1
    <3> QED BY <3>2, <3>3
  <2>7. down \in Descents(layout, va, l - 1)
      BY <2>4, <2>5, <2>6, InDescents
  <2>8. virt_to_phys(va) = f[l - 1][down[l - 1]]
      BY <1>9, <1>10, <1>11, <2>1, <2>4
  <2>9. l - 1 \in S
      BY <2>2, <2>7, <2>8 DEF S
  <2> QED BY <1>6, <1>9, <2>2, <2>9
<1>12. CASE ~ e.present
    BY <1>7, <1>9, <1>10, <1>12
<1>13. CASE MapsPage(e, l)
    BY <1>7, <1>9, <1>10, <1>13 DEF MapsPage
<1> QED BY <1>11, <1>12, <1>13

\* Two descents for one address pass through the same tables.
LEMMA SameTables ==
    ASSUME NEW va, NEW l \in 0 .. Levels - 1, NEW m \in 0 .. Levels - 1, l <= m,
           NEW p \in Descents(layout, va, l), NEW q \in Descents(layout, va, m)
    PROVE  \A k \in m .. Levels - 1 : p[k] = q[k]
<1>0. Levels \in Nat \ {0}
    BY HypercallsAssumption
<1>1. p[Levels - 1] = q[Levels - 1]
    BY InDescents
<1>2. ASSUME NEW k \in m .. Levels - 1, k # Levels - 1, p[k + 1] = q[k + 1]
      PROVE  p[k] = q[k]
  <2>1. k + 1 \in l + 1 .. Levels - 1 /\ k + 1 \in m + 1 .. Levels - 1 /\ (k + 1) - 1 = k
      BY <1>0, <1>2
  <2>2. EntryOf(p, va, k + 1) = EntryOf(q, va, k + 1)
      BY <1>2 DEF EntryOf
  <2>3. EntryOf(p, va, k + 1).phy = p[(k + 1) - 1] /\ EntryOf(q, va, k + 1).phy = q[(k + 1) - 1]
      BY <2>1, InDescents
  <2> QED BY <2>1, <2>2, <2>3
<1> DEFINE S == {n \in 0 .. (Levels - 1) - m : p[(Levels - 1) - n] # q[(Levels - 1) - n]}
<1>3. ASSUME S # {} PROVE FALSE
  <2>1. S \subseteq Nat
      BY <1>0
  <2> HIDE DEF S
  <2>2. PICK n \in S : \A i \in S : n <= i
      BY <1>3, <2>1, Least
  <2> DEFINE k == (Levels - 1) - n
  <2>3. n \in 0 .. (Levels - 1) - m /\ p[k] # q[k]
      BY DEF S
  <2>4. n # 0
    <3>1. n = 0 => k = Levels - 1
        BY <1>0
    <3> HIDE DEF k
    <3> QED BY <1>1, <2>3, <3>1
  <2>5. n - 1 \in 0 .. (Levels - 1) - m /\ n - 1 < n /\ (Levels - 1) - (n - 1) = k + 1
        /\ k \in m .. Levels - 1 /\ k # Levels - 1
      BY <1>0, <2>3, <2>4
  <2>6. n - 1 \notin S
      BY <2>2, <2>3, <2>5
  <2>7. p[k + 1] = q[k + 1]
    <3> HIDE DEF k
    <3> QED BY <2>5, <2>6 DEF S
  <2> HIDE DEF k
  <2> QED BY <1>2, <2>3, <2>5, <2>7
<1>4. ASSUME NEW k \in m .. Levels - 1
      PROVE  p[k] = q[k]
  <2> DEFINE n == (Levels - 1) - k
  <2>1. n \in 0 .. (Levels - 1) - m /\ (Levels - 1) - n = k
      BY <1>0
  <2> HIDE DEF n
  <2> QED BY <1>3, <2>1
<1> QED BY <1>4

\* The entry of a descent at which the MMU stops.
Stops(e, level) == ~ e.present \/ MapsPage(e, level)

\* ... so there is one place only where they stop.
LEMMA StopsOnce ==
    ASSUME NEW va, NEW l \in 0 .. Levels - 1, NEW m \in 0 .. Levels - 1,
           NEW p \in Descents(layout, va, l), NEW q \in Descents(layout, va, m),
           Stops(EntryOf(p, va, l), l), Stops(EntryOf(q, va, m), m)
    PROVE  l = m /\ EntryOf(p, va, l) = EntryOf(q, va, m)
<1>0. Levels \in Nat \ {0}
    BY HypercallsAssumption
<1>1. ASSUME NEW i \in 0 .. Levels - 1, NEW j \in 0 .. Levels - 1, i < j,
             NEW a \in Descents(layout, va, i), NEW b \in Descents(layout, va, j),
             Stops(EntryOf(b, va, j), j)
      PROVE  FALSE
  <2>1. a[j] = b[j]
      BY <1>0, <1>1, SameTables
  <2>2. EntryOf(a, va, j) = EntryOf(b, va, j)
      BY <2>1 DEF EntryOf
  <2>3. j \in i + 1 .. Levels - 1 /\ j # 0 /\ ~ (j = Levels - 1 /\ j < Levels - 1)
      BY <1>0, <1>1
  <2>4. EntryOf(a, va, j).present /\ (j = Levels - 1 \/ ~ EntryOf(a, va, j).pse)
      BY <2>3, InDescents
  <2> QED BY <1>1, <2>2, <2>3, <2>4 DEF Stops, MapsPage
<1>2. l = m
  <2>1. ~ (l < m)
      BY <1>1
  <2>2. ~ (m < l)
      BY <1>1
  <2> QED BY <1>0, <2>1, <2>2
<1>3. p[l] = q[m]
    BY <1>0, <1>2, SameTables
<1> QED BY <1>2, <1>3 DEF EntryOf

\* virt_to_phys and the MMU agree on an address: it is not mapped and there is no
\* portion, or it is mapped once and the portion is the rest of its page.
Agree(va) ==
    \/ PageOf(va) = {} /\ virt_to_phys(va) = Unmapped
    \/ \E p \in layout.pages :
          /\ PageOf(va) = {p} /\ p.va <= va /\ va < p.va + p.size
          /\ virt_to_phys(va) = [pa |-> p.pa + (va - p.va), end |-> p.pa + p.size]

LEMMA TranslationAgrees ==
    ASSUME layout \in Setups, NEW va \in 0 .. PageBytes(Levels) - 1
    PROVE  Agree(va)
<1>0. PageTables(layout) /\ Levels \in Nat /\ va \in Nat /\ va < PageBytes(Levels)
      /\ va \in 0 .. WordMod - 1
  <2>1. Levels \in Nat /\ WordMod \in Nat
      BY HypercallsAssumption
  <2>2. PageBytes(Levels) \in Nat
      BY <2>1, PageBytesPositive
  <2> QED BY <2>1, <2>2, GuestAssumption
<1>1. PICK l \in 0 .. Levels - 1 : \E path \in Descents(layout, va, l) :
              \/ ~ EntryOf(path, va, l).present /\ virt_to_phys(va) = Unmapped
              \/ /\ MapsPage(EntryOf(path, va, l), l)
                 /\ virt_to_phys(va) = Leaf(EntryOf(path, va, l).phy, va, l)
    BY <1>0, WalkDescends
<1>2. PICK path \in Descents(layout, va, l) :
              \/ ~ EntryOf(path, va, l).present /\ virt_to_phys(va) = Unmapped
              \/ /\ MapsPage(EntryOf(path, va, l), l)
                 /\ virt_to_phys(va) = Leaf(EntryOf(path, va, l).phy, va, l)
    BY <1>1
<1> DEFINE e == EntryOf(path, va, l)
           page == PageAt(e, va, l)
<1>3. ASSUME NEW p \in PageOf(va)
      PROVE  MapsPage(e, l) /\ p = page
  <2>1. p \in layout.pages /\ p.va <= va /\ va < p.va + p.size
      BY DEF PageOf
  <2>2. p.va \in Nat /\ p.size \in Nat
      BY <1>0, <2>1 DEF PageTables
  <2>3. va \in p.va .. p.va + p.size - 1
      BY <1>0, <2>1, <2>2
  <2>4. \E m \in 0 .. Levels - 1 : \E q \in Descents(layout, va, m) :
           MapsPage(EntryOf(q, va, m), m) /\ p = PageAt(EntryOf(q, va, m), va, m)
    <3>1. \A r \in layout.pages : \A a \in r.va .. r.va + r.size - 1 :
             \E level \in 0 .. Levels - 1 : \E d \in Descents(layout, a, level) :
                 MapsPage(EntryOf(d, a, level), level) /\ r = PageAt(EntryOf(d, a, level), a, level)
        BY <1>0, Zenon DEF PageTables, EntryOf
    <3> QED BY <2>1, <2>3, <3>1, Zenon
  <2>5. PICK m \in 0 .. Levels - 1 : \E q \in Descents(layout, va, m) :
           MapsPage(EntryOf(q, va, m), m) /\ p = PageAt(EntryOf(q, va, m), va, m)
      BY <2>4
  <2>6. PICK q \in Descents(layout, va, m) :
           MapsPage(EntryOf(q, va, m), m) /\ p = PageAt(EntryOf(q, va, m), va, m)
      BY <2>5
  <2>7. l = m /\ e = EntryOf(q, va, m)
      BY <1>2, <2>6, StopsOnce DEF Stops
  <2> QED BY <2>6, <2>7
<1>4. CASE ~ e.present /\ virt_to_phys(va) = Unmapped
  <2>1. PageOf(va) = {}
      BY <1>3, <1>4 DEF MapsPage
  <2> QED BY <1>4, <2>1 DEF Agree
<1>5. CASE MapsPage(e, l) /\ virt_to_phys(va) = Leaf(e.phy, va, l)
  <2> DEFINE B == PageBytes(l)
  <2>1. page \in layout.pages
      BY <1>0, <1>5 DEF PageTables, EntryOf
  <2>2. page.pa = e.phy /\ page.size = B /\ page.va = va - (va % B)
      BY DEF PageAt
  <2>3. B \in Nat /\ va % B \in 0 .. B - 1 /\ va - (va % B) \in Nat
      BY <1>0, InPage, PageBytesPositive
  <2>4. virt_to_phys(va) = [pa |-> e.phy + (va % B), end |-> e.phy + B]
      BY <1>5 DEF Leaf
  <2>5. e.phy \in Nat
      BY <1>0, <2>1, <2>2 DEF PageTables
  <2> HIDE DEF page, B, e
  <2>6. page.va <= va /\ va < page.va + page.size /\ va % B = va - page.va
      BY <1>0, <2>2, <2>3
  <2>7. page \in PageOf(va)
      BY <2>1, <2>6 DEF PageOf
  <2>8. PageOf(va) = {page}
      BY <1>3, <2>7
  <2>9. virt_to_phys(va) = [pa |-> page.pa + (va - page.va), end |-> page.pa + page.size]
      BY <2>2, <2>4, <2>6, Zenon
  <2> QED BY <2>1, <2>6, <2>8, <2>9 DEF Agree
<1> QED BY <1>2, <1>4, <1>5

LEMMA LayoutKept ==
    layout \in Setups /\ [Next]_vars => (layout \in Setups)'
<1> SUFFICES ASSUME layout \in Setups, [Next]_vars PROVE layout' = layout
    OBVIOUS
<1>1. CASE UNCHANGED vars
    BY <1>1 DEF vars, files
<1>2. ASSUME NEW c \in Cores, CmdSize(c) \/ CmdVal(c)
      PROVE  layout' = layout
    BY <1>2 DEF CmdSize, CmdVal, files
<1> QED BY <1>1, <1>2, OthersApart DEF Next, Others

\* The walk of virt_to_phys finds what the MMU finds, for page tables of any depth
\* with small and large pages, for every address the tables translate.
THEOREM TranslationIsExact ==
    Spec => [](\A va \in 0 .. PageBytes(Levels) - 1 : Agree(va))
<1>1. Init => layout \in Setups
    BY DEF Init
<1>2. layout \in Setups => \A va \in 0 .. PageBytes(Levels) - 1 : Agree(va)
    BY TranslationAgrees
<1> QED BY <1>1, <1>2, LayoutKept, PTL DEF Spec

-----------------------------------------------------------------------------
(* The guest's buffers. *)

LEMMA Sizes64 ==
    /\ WordMod \in Nat /\ PageBytes(Levels) \in Nat /\ PageBytes(Levels) < WordMod - 1
    /\ Levels \in Nat \ {0} /\ PhysSize \in Nat /\ FileSize \in Nat
    /\ \A b \in Buffers : /\ b.va \in Nat /\ b.len \in Nat
                          /\ b.va + b.len <= PageBytes(Levels)
<1>1. WordMod \in Nat /\ Levels \in Nat \ {0} /\ PhysSize \in Nat /\ FileSize \in Nat
    BY HypercallsAssumption
<1>2. PageBytes(Levels) \in Nat
    BY <1>1, PageBytesPositive
<1> QED BY <1>1, <1>2, GuestAssumption

LEMMA PagesTyped ==
    ASSUME layout \in Setups, NEW p \in layout.pages
    PROVE  p.va \in Nat /\ p.size \in Nat /\ p.pa \in Nat
BY GuestAssumption DEF PageTables

\* A mapped address of a buffer, with its page.
LEMMA PageOfAddress ==
    ASSUME layout \in Setups, NEW va \in 0 .. PageBytes(Levels) - 1, PageOf(va) # {}
    PROVE  \E p \in layout.pages :
              /\ PageOf(va) = {p} /\ p.va <= va /\ va < p.va + p.size
              /\ GuestPa(va) = p.pa + (va - p.va)
              /\ virt_to_phys(va) = [pa |-> p.pa + (va - p.va), end |-> p.pa + p.size]
<1>1. Agree(va)
    BY TranslationAgrees
<1>2. PICK p \in layout.pages :
          /\ PageOf(va) = {p} /\ p.va <= va /\ va < p.va + p.size
          /\ virt_to_phys(va) = [pa |-> p.pa + (va - p.va), end |-> p.pa + p.size]
    BY <1>1 DEF Agree
<1>3. (CHOOSE q \in {p} : TRUE) = p
    OBVIOUS
<1>4. GuestPa(va) = p.pa + (va - p.va)
    BY <1>2, <1>3, Zenon DEF GuestPa
<1> QED BY <1>2, <1>4

\* An address of a buffer: it is one the tables translate.
LEMMA AddressInSpace ==
    ASSUME NEW b \in Buffers, NEW va \in Addresses(b)
    PROVE  va \in 0 .. PageBytes(Levels) - 1
BY Sizes64 DEF Addresses

\* Different addresses of buffers are different places in guest memory.
LEMMA DifferentPlaces ==
    ASSUME layout \in Setups,
           NEW b \in Buffers, NEW x \in Addresses(b), PageOf(x) # {},
           NEW d \in Buffers, NEW y \in Addresses(d), PageOf(y) # {}
    PROVE  /\ GuestPa(x) \in 0 .. PhysSize - 1
           /\ GuestPa(x) = GuestPa(y) => x = y
<1>1. x \in 0 .. PageBytes(Levels) - 1 /\ y \in 0 .. PageBytes(Levels) - 1 /\ x \in Nat /\ y \in Nat
    BY AddressInSpace
<1>2. PICK p \in layout.pages : /\ p.va <= x /\ x < p.va + p.size
                                /\ GuestPa(x) = p.pa + (x - p.va)
    BY <1>1, PageOfAddress
<1>3. PICK q \in layout.pages : /\ q.va <= y /\ y < q.va + q.size
                                /\ GuestPa(y) = q.pa + (y - q.va)
    BY <1>1, PageOfAddress
<1>4. p.va \in Nat /\ p.size \in Nat /\ p.pa \in Nat /\ q.va \in Nat /\ q.size \in Nat /\ q.pa \in Nat
    BY PagesTyped
<1>5. p \in InUse(layout) /\ q \in InUse(layout)
    BY <1>2, <1>3 DEF InUse
<1>6. /\ p.pa + p.size <= PhysSize
      /\ p # q => p.pa + p.size <= q.pa \/ q.pa + q.size <= p.pa
    BY <1>5, GuestAssumption
<1>7. GuestPa(x) \in 0 .. PhysSize - 1
    BY <1>1, <1>2, <1>4, <1>6, Sizes64
<1>8. CASE p = q
    BY <1>1, <1>2, <1>3, <1>4, <1>7, <1>8
<1>9. CASE p # q
    BY <1>1, <1>2, <1>3, <1>4, <1>6, <1>7, <1>9
<1> QED BY <1>7, <1>8, <1>9

\* Whatever the address is, after a failure too, a portion is not longer than what
\* is left.
LEMMA WalkTyped ==
    ASSUME layout \in Setups, NEW va \in 0 .. WordMod - 1
    PROVE  /\ virt_to_phys(va).pa \in Nat
           /\ virt_to_phys(va).end - virt_to_phys(va).pa \in Nat
<1>0. /\ PageTables(layout) /\ Levels \in Nat \ {0} /\ WordMod \in Nat /\ va \in Nat
      /\ Fanout \in Nat \ {0}
    BY GuestAssumption, HypercallsAssumption
<1>1. PICK l \in 0 .. Levels - 1 : \E path \in Descents(layout, va, l) :
              \/ ~ EntryOf(path, va, l).present /\ virt_to_phys(va) = Unmapped
              \/ /\ MapsPage(EntryOf(path, va, l), l)
                 /\ virt_to_phys(va) = Leaf(EntryOf(path, va, l).phy, va, l)
    BY <1>0, WalkDescends
<1>2. PICK path \in Descents(layout, va, l) :
              \/ ~ EntryOf(path, va, l).present /\ virt_to_phys(va) = Unmapped
              \/ /\ MapsPage(EntryOf(path, va, l), l)
                 /\ virt_to_phys(va) = Leaf(EntryOf(path, va, l).phy, va, l)
    BY <1>1
<1>3. CASE virt_to_phys(va) = Unmapped
    BY <1>3 DEF Unmapped
<1>4. CASE virt_to_phys(va) = Leaf(EntryOf(path, va, l).phy, va, l)
  <2> DEFINE B == PageBytes(l)
             phy == EntryOf(path, va, l).phy
  <2>1. path[l] \in DOMAIN layout.tables
    <3>1. path \in [l .. Levels - 1 -> DOMAIN layout.tables]
        BY <1>2, InDescents
    <3> QED BY <1>0, <3>1
  <2>2. B \in Nat /\ va % B \in 0 .. B - 1 /\ B # 0
      BY <1>0, InPage, PageBytesPositive
  <2>3. Index(va, l) \in 0 .. Fanout - 1
    <3> HIDE DEF B
    <3>1. va \div B \in Int
        BY <1>0, <2>2
    <3> QED BY <1>0, <3>1 DEF Index, B
  <2>4. phy \in Nat
      BY <1>0, <2>1, <2>3 DEF PageTables, EntryOf
  <2>5. virt_to_phys(va) = [pa |-> phy + (va % B), end |-> phy + B]
      BY <1>4 DEF Leaf
  <2> HIDE DEF B, phy
  <2> QED BY <2>2, <2>4, <2>5
<1> QED BY <1>2, <1>3, <1>4

LEMMA PortionTyped ==
    ASSUME TransferInv, NEW c \in Cores, InCall(c)
    PROVE  /\ Portion(c).step \in 0 .. call[c].left /\ call[c].left \in Nat
           /\ Portion(c).pa \in Nat
<1> DEFINE va == (call[c].buf.va + call[c].done) % WordMod
           t == virt_to_phys(va)
<1>0. CallInv(c) /\ layout \in Setups
    BY DEF TransferInv
<1>1. /\ call[c].left \in Nat /\ call[c].done \in Nat /\ call[c].buf.va \in Nat
      /\ WordMod \in Nat /\ WordMod > 0
    BY <1>0, Sizes64 DEF CallInv
<1>2. va \in 0 .. WordMod - 1
    BY <1>1
<1> HIDE DEF va
<1>3. t.end - t.pa \in Nat /\ t.pa \in Nat
    BY <1>0, <1>2, WalkTyped
<1>4. Portion(c).step = Min2(t.end - t.pa, call[c].left) /\ Portion(c).pa = t.pa
    BY DEF Portion, va
<1> HIDE DEF t
<1> QED BY <1>1, <1>3, <1>4 DEF Min2

\* A portion of a transfer without failure is a part of the buffer.
LEMMA PortionRight ==
    ASSUME TransferInv, NEW c \in Cores, InCall(c), call[c].left > 0, ~ call[c].failed,
           NEW i \in 0 .. Portion(c).step - 1
    PROVE  LET va == call[c].buf.va + call[c].done + i
           IN  /\ va \in Addresses(call[c].buf) /\ PageOf(va) # {}
               /\ GuestPa(va) = Portion(c).pa + i
<1> DEFINE b == call[c].buf
           va == b.va + call[c].done
           t == virt_to_phys(va)
           x == va + i
<1>0. CallInv(c) /\ layout \in Setups
    BY DEF TransferInv
<1>1. /\ b \in Buffers /\ b.va \in Nat /\ b.len \in Nat /\ call[c].left \in Nat
      /\ call[c].done \in Nat /\ b.va + b.len <= PageBytes(Levels)
      /\ call[c].done + call[c].left <= b.len
    BY <1>0, Sizes64 DEF CallInv, Progress
<1>2. va \in 0 .. PageBytes(Levels) - 1 /\ va % WordMod = va
    BY <1>1, Sizes64
<1>3. Portion(c).pa = t.pa /\ Portion(c).step = Min2(t.end - t.pa, call[c].left)
    BY <1>2 DEF Portion
<1>4. i \in Nat /\ i < call[c].left
    BY PortionTyped
<1>5. x \in Addresses(b)
    BY <1>1, <1>4 DEF Addresses
<1>6. x \in 0 .. PageBytes(Levels) - 1
    BY <1>1, <1>5, AddressInSpace
<1>7. PageOf(va) # {}
  <2>1. CASE t = Unmapped
    <3>1. Portion(c).step = 0
      <4>1. t.end - t.pa = 0
          BY <2>1 DEF Unmapped
      <4> QED BY <1>1, <1>3, <4>1 DEF Min2
    <3> QED BY <3>1
  <2> QED BY <1>0, <1>2, <2>1, TranslationAgrees DEF Agree
<1> HIDE DEF va, t
<1>8. PICK p \in layout.pages :
          /\ p.va <= va /\ va < p.va + p.size
          /\ t = [pa |-> p.pa + (va - p.va), end |-> p.pa + p.size]
    BY <1>0, <1>2, <1>7, PageOfAddress DEF t
<1>9. p.va \in Nat /\ p.size \in Nat /\ p.pa \in Nat /\ va \in Nat
    BY <1>0, <1>2, PagesTyped
<1>10. i < t.end - t.pa
  <2>1. t.end - t.pa \in Int /\ Portion(c).step \in Int
      BY <1>8, <1>9, PortionTyped
  <2> QED BY <1>1, <1>3, <1>4, <2>1 DEF Min2
<1>11. p.va <= x /\ x < p.va + p.size
  <2>1. t.end - t.pa = p.size - (va - p.va)
      BY <1>8, <1>9
  <2> QED BY <1>4, <1>8, <1>9, <1>10, <2>1
<1>12. p \in PageOf(x)
    BY <1>11 DEF PageOf
<1>13. PICK q \in layout.pages : PageOf(x) = {q} /\ GuestPa(x) = q.pa + (x - q.va)
    BY <1>0, <1>6, <1>12, PageOfAddress
<1>14. q = p
    BY <1>12, <1>13
<1>15. GuestPa(x) = Portion(c).pa + i
  <2>1. Portion(c).pa = p.pa + (va - p.va) /\ x = va + i
      BY <1>3, <1>8
  <2>2. GuestPa(x) = p.pa + (x - p.va)
      BY <1>13, <1>14
  <2> HIDE DEF x
  <2> QED BY <1>4, <1>9, <2>1, <2>2
<1> QED BY <1>5, <1>12, <1>15 DEF va

-----------------------------------------------------------------------------
(* Transfers. *)

\* The transfer k becomes j: what Moved says of each field.
MovedTo(k, j, n, bytes, step) ==
    /\ DOMAIN j = DOMAIN Idle
    /\ j.op = k.op /\ j.buf = k.buf
    /\ j.done = (k.done + n) % WordMod
    /\ j.left = IF n < step THEN 0 ELSE k.left - step
    /\ j.moved = k.moved \o bytes
    /\ j.portions = Min2(k.portions + 1, 2)
    /\ j.short = (k.short \/ n < step)
    /\ j.failed = (k.failed \/ n = WordMod - 1)

LEMMA MovedFields ==
    ASSUME NEW c, NEW n, NEW bytes, NEW step, DOMAIN call[c] = DOMAIN Idle
    PROVE  MovedTo(call[c], Moved(c, n, bytes, step), n, bytes, step)
<1> DEFINE k == call[c]
           j == Moved(c, n, bytes, step)
<1>1. DOMAIN k = {"op", "fd", "buf", "left", "done", "moved", "portions", "short", "failed"}
    BY DEF Idle
<1>2. j = [k EXCEPT !.done = (@ + n) % WordMod,
                    !.left = IF n < step THEN 0 ELSE @ - step,
                    !.moved = @ \o bytes,
                    !.portions = Min2(@ + 1, 2),
                    !.short = @ \/ n < step,
                    !.failed = @ \/ n = WordMod - 1]
    BY DEF Moved
<1>3. DOMAIN k = DOMAIN Idle
    OBVIOUS
<1> HIDE DEF k, j
<1>4. DOMAIN j = DOMAIN Idle /\ j.op = k.op /\ j.buf = k.buf
    BY <1>1, <1>2, <1>3
<1>5. /\ j.done = (k.done + n) % WordMod
      /\ j.left = IF n < step THEN 0 ELSE k.left - step
      /\ j.moved = k.moved \o bytes
    BY <1>1, <1>2, Zenon
<1>6. /\ j.portions = Min2(k.portions + 1, 2)
      /\ j.short = (k.short \/ n < step)
      /\ j.failed = (k.failed \/ n = WordMod - 1)
    BY <1>1, <1>2, Zenon
<1>7. MovedTo(k, j, n, bytes, step)
    BY <1>4, <1>5, <1>6, Zenon DEF MovedTo
<1> QED BY <1>7 DEF k, j

LEMMA SmallMod ==
    ASSUME NEW w \in Nat, NEW x \in Nat, x < w
    PROVE  x % w = x
OBVIOUS

\* What a host call did: it moved n bytes of the portion, and when it moved them
\* into memory nothing else changed; or it failed and moved nothing.  A READ that
\* goes on after a failure is recorded as stray.
HostCall(c, n, bytes) ==
    LET p == Portion(c)
    IN  /\ \/ /\ n \in 0 .. p.step
              /\ ~ call[c].failed =>
                    /\ bytes \in Seq(Nat) /\ Len(bytes) = n
                    /\ \A i \in 1 .. n : bytes[i] = mem'[p.pa + i - 1]
           \/ n = WordMod - 1 /\ bytes = <<>> /\ mem' = mem
        /\ mem' \in [0 .. PhysSize - 1 -> Nat]
        /\ ~ stray' => ~ stray /\ \A a \in 0 .. PhysSize - 1 :
              mem'[a] # mem[a] => /\ ~ call[c].failed /\ n \in 0 .. p.step
                                  /\ \E i \in 0 .. n - 1 : a = p.pa + i

\* It changes no byte of a buffer that is not in the portion.
LEMMA OthersIntact ==
    ASSUME TransferInv, NEW c \in Cores, InCall(c), call[c].left > 0,
           NEW n, NEW bytes, HostCall(c, n, bytes), ~ stray',
           NEW b \in Buffers, NEW x \in Addresses(b), PageOf(x) # {},
           x \in Addresses(call[c].buf) => x < call[c].buf.va + call[c].done
    PROVE  mem'[GuestPa(x)] = mem[GuestPa(x)]
<1> DEFINE a == GuestPa(x)
           va == call[c].buf.va + call[c].done
<1>0. /\ layout \in Setups /\ call[c].buf \in Buffers /\ call[c].done \in Nat
      /\ call[c].buf.va \in Nat /\ x \in Nat
    BY Sizes64, AddressInSpace DEF TransferInv, CallInv
<1>1. a \in 0 .. PhysSize - 1
    BY <1>0, DifferentPlaces
<1> HIDE DEF a
<1>2. ASSUME mem'[a] # mem[a]
      PROVE  FALSE
  <2>1. ~ call[c].failed /\ n \in 0 .. Portion(c).step
      BY <1>1, <1>2 DEF HostCall
  <2>2. PICK i \in 0 .. n - 1 : a = Portion(c).pa + i
      BY <1>1, <1>2 DEF HostCall
  <2>3. i \in 0 .. Portion(c).step - 1 /\ i \in Nat
      BY <2>1, PortionTyped
  <2>4. /\ va + i \in Addresses(call[c].buf) /\ PageOf(va + i) # {}
        /\ GuestPa(va + i) = a
      BY <2>1, <2>2, <2>3, PortionRight
  <2>5. x = va + i
      BY <1>0, <2>4, DifferentPlaces DEF a
  <2> QED BY <1>0, <2>3, <2>4, <2>5
<1> QED BY <1>2 DEF a

\* The other vCPUs' transfers.
LEMMA OthersGoOn ==
    ASSUME TransferInv, NEW c \in Cores, InCall(c), call[c].left > 0,
           NEW n, NEW bytes, HostCall(c, n, bytes), layout' = layout,
           NEW d \in Cores, d # c, call'[d] = call[d], InCall(d)
    PROVE  CallInv(d)'
<1> DEFINE k == call[d]
<1>0. /\ CallInv(d) /\ k.buf \in Buffers /\ k.done \in Nat
      /\ Addresses(k.buf) \cap Addresses(call[c].buf) = {} /\ k.buf.va \in Nat
      /\ k.buf.len \in Nat
  <2>1. CallInv(d) /\ Addresses(k.buf) \cap Addresses(call[c].buf) = {}
      BY DEF TransferInv
  <2>2. k.buf \in Buffers /\ k.done \in Nat
      BY <2>1, Sizes64 DEF CallInv
  <2> QED BY <2>1, <2>2, Sizes64
<1>1. ASSUME ~ k.failed, ~ stray', NEW i \in 1 .. k.done
      PROVE  LET va == k.buf.va + i - 1
             IN  PageOf(va)' # {} /\ k.moved[i] = mem'[GuestPa(va)']
  <2> DEFINE va == k.buf.va + i - 1
  <2>1. Progress(d) /\ ~ stray
      BY <1>0, <1>1 DEF CallInv, HostCall
  <2>2. PageOf(va) # {} /\ k.moved[i] = mem[GuestPa(va)]
      BY <2>1 DEF Progress
  <2>3. k.done + k.left <= k.buf.len /\ k.left \in Nat
      BY <1>0, <2>1 DEF Progress, CallInv
  <2>4. va \in Addresses(k.buf)
      BY <1>0, <2>3 DEF Addresses
  <2>5. PageOf(va)' = PageOf(va) /\ GuestPa(va)' = GuestPa(va)
      BY DEF PageOf, GuestPa
  <2>6. va \notin Addresses(call[c].buf)
      BY <1>0, <2>4
  <2> HIDE DEF va
  <2>7. mem'[GuestPa(va)] = mem[GuestPa(va)]
      BY <1>0, <1>1, <2>2, <2>4, <2>6, OthersIntact
  <2>8. PageOf(va)' # {} /\ k.moved[i] = mem'[GuestPa(va)']
      BY <2>2, <2>5, <2>7
  <2> QED BY <2>8 DEF va
<1>2. ~ k.failed => Progress(d)'
  <2> SUFFICES ASSUME ~ k.failed PROVE Progress(d)'
      OBVIOUS
  <2>1. Progress(d)
      BY <1>0 DEF CallInv
  <2> QED BY <1>1, <2>1, Zenon DEF Progress
<1> QED BY <1>0, <1>2 DEF CallInv

\* The vCPU's own transfer.
LEMMA TransferGoesOn ==
    ASSUME TransferInv, NEW c \in Cores, InCall(c), call[c].left > 0,
           NEW n, NEW bytes, HostCall(c, n, bytes), layout' = layout,
           call'[c] = Moved(c, n, bytes, Portion(c).step)
    PROVE  /\ DOMAIN call'[c] = DOMAIN Idle /\ call'[c].op = call[c].op
           /\ call'[c].buf = call[c].buf /\ CallInv(c)'
<1> DEFINE k == call[c]
           j == call'[c]
           step == Portion(c).step
<1>0. DOMAIN k = DOMAIN Idle /\ CallInv(c)
    BY DEF TransferInv
<1>1. /\ DOMAIN j = DOMAIN Idle
      /\ j.op = k.op /\ j.buf = k.buf
      /\ j.done = (k.done + n) % WordMod
      /\ j.left = IF n < step THEN 0 ELSE k.left - step
      /\ j.moved = k.moved \o bytes
      /\ j.portions = Min2(k.portions + 1, 2)
      /\ j.short = (k.short \/ n < step)
      /\ j.failed = (k.failed \/ n = WordMod - 1)
  <2>1. MovedTo(call[c], Moved(c, n, bytes, Portion(c).step), n, bytes, Portion(c).step)
      BY <1>0, MovedFields
  <2>2. MovedTo(k, j, n, bytes, step)
      BY <2>1
  <2> HIDE DEF k, j, step
  <2> QED BY <2>2, Zenon DEF MovedTo
<1>2. /\ k.op \in {"write", "read"} /\ k.buf \in Buffers /\ k.buf.len > 0
      /\ k.left \in 0 .. k.buf.len /\ k.done \in 0 .. WordMod - 1
      /\ k.portions \in 0 .. 2 /\ k.short \in BOOLEAN /\ k.failed \in BOOLEAN
      /\ k.portions = 0 => ~ k.failed /\ k.done = 0
    BY <1>0 DEF CallInv
<1>3. /\ k.buf.va \in Nat /\ k.buf.len \in Nat /\ k.buf.va + k.buf.len <= PageBytes(Levels)
      /\ k.buf.len < WordMod - 1 /\ WordMod \in Nat
    BY <1>2, Sizes64
<1>4. step \in 0 .. k.left /\ k.left \in Nat
    BY PortionTyped
<1>5. n \in 0 .. step \/ n = WordMod - 1
    BY DEF HostCall
<1>6. n \in Nat /\ (n = WordMod - 1 => ~ (n < step)) /\ (n \in 0 .. step => n # WordMod - 1)
    BY <1>2, <1>3, <1>4, <1>5
<1> HIDE DEF k, j, step
<1>7. j.left \in 0 .. k.buf.len /\ j.done \in 0 .. WordMod - 1 /\ j.portions \in 1 .. 2
  <2>1. j.left \in 0 .. k.buf.len
      BY <1>1, <1>2, <1>3, <1>4, <1>6
  <2>2. j.done \in 0 .. WordMod - 1
      BY <1>1, <1>2, <1>3, <1>6
  <2>3. j.portions \in 1 .. 2
      BY <1>1, <1>2 DEF Min2
  <2> QED BY <2>1, <2>2, <2>3
<1>8. j.short \in BOOLEAN /\ j.failed \in BOOLEAN
    BY <1>1, <1>2
<1>9. j.portions = 1 /\ j.failed => j.done = WordMod - 1
  <2> SUFFICES ASSUME j.portions = 1, j.failed PROVE j.done = WordMod - 1
      OBVIOUS
  <2>1. k.portions = 0
      BY <1>1, <1>2 DEF Min2
  <2>2. k.done = 0 /\ ~ k.failed
      BY <1>2, <2>1
  <2>3. n = WordMod - 1
      BY <1>1, <2>2
  <2>4. k.done + n = WordMod - 1 /\ WordMod - 1 \in Nat
      BY <1>3, <2>2, <2>3
  <2>5. (WordMod - 1) % WordMod = WordMod - 1
      BY <1>3, <2>4, SmallMod
  <2> QED BY <1>1, <2>4, <2>5, Zenon
<1>10. ASSUME ~ j.failed
       PROVE  Progress(c)'
  <2>1. ~ k.failed /\ n \in 0 .. step
      BY <1>1, <1>5, <1>10
  <2>2. Progress(c)
      BY <1>0, <2>1 DEF CallInv, k
  <2>3. /\ k.moved \in Seq(Nat) /\ Len(k.moved) = k.done /\ k.done + k.left <= k.buf.len
        /\ k.done + k.left = k.buf.len \/ (k.short /\ k.left = 0)
        /\ ~ stray => \A i \in 1 .. k.done :
                         LET va == k.buf.va + i - 1
                         IN  PageOf(va) # {} /\ k.moved[i] = mem[GuestPa(va)]
      BY <2>2 DEF Progress, k
  <2>4. /\ bytes \in Seq(Nat) /\ Len(bytes) = n
        /\ \A i \in 1 .. n : bytes[i] = mem'[Portion(c).pa + i - 1]
      BY <1>6, <2>1 DEF HostCall, k, step
  <2>5. j.done = k.done + n
    <3>1. k.done \in Nat /\ k.done + n \in Nat /\ k.done + n < WordMod
      <4>1. k.done \in Nat /\ k.buf.len \in Nat /\ k.left \in Nat /\ WordMod \in Nat
          BY <1>2, <1>3, <1>4
      <4>2. n \in Nat /\ n <= k.left
          BY <1>4, <2>1
      <4>3. k.done + k.left <= k.buf.len /\ k.buf.len < WordMod - 1
          BY <1>3, <2>3
      <4> QED BY <4>1, <4>2, <4>3
    <3>2. (k.done + n) % WordMod = k.done + n
        BY <1>3, <3>1, SmallMod
    <3> QED BY <1>1, <3>2, Zenon
  <2>6. /\ j.moved \in Seq(Nat) /\ Len(j.moved) = j.done
        /\ \A i \in 1 .. k.done : j.moved[i] = k.moved[i]
        /\ \A i \in k.done + 1 .. k.done + n : j.moved[i] = bytes[i - k.done]
    <3>1. /\ k.moved \o bytes \in Seq(Nat) /\ Len(k.moved \o bytes) = k.done + n
          /\ \A i \in 1 .. k.done : (k.moved \o bytes)[i] = k.moved[i]
          /\ \A i \in k.done + 1 .. k.done + n : (k.moved \o bytes)[i] = bytes[i - k.done]
      <4> DEFINE m == k.moved
      <4>1. m \in Seq(Nat) /\ Len(m) = k.done /\ bytes \in Seq(Nat) /\ Len(bytes) = n
          BY <2>3, <2>4
      <4> HIDE DEF m
      <4>2. /\ m \o bytes \in Seq(Nat) /\ Len(m \o bytes) = Len(m) + Len(bytes)
            /\ \A i \in 1 .. Len(m) : (m \o bytes)[i] = m[i]
            /\ \A i \in Len(m) + 1 .. Len(m) + Len(bytes) : (m \o bytes)[i] = bytes[i - Len(m)]
          BY <4>1, Concatenated
      <4>3. /\ m \o bytes \in Seq(Nat) /\ Len(m \o bytes) = k.done + n
            /\ \A i \in 1 .. k.done : (m \o bytes)[i] = m[i]
            /\ \A i \in k.done + 1 .. k.done + n : (m \o bytes)[i] = bytes[i - k.done]
          BY <4>1, <4>2, Zenon
      <4> QED BY <4>3 DEF m
    <3>2. j.moved = k.moved \o bytes
        BY <1>1
    <3> QED BY <2>5, <3>1, <3>2, Zenon
  <2>7. k.left > 0 /\ ~ (k.short /\ k.left = 0)
      BY <1>2 DEF k
  <2>8. /\ j.done + j.left <= j.buf.len
        /\ j.done + j.left = j.buf.len \/ (j.short /\ j.left = 0)
    <3>1. k.done + k.left = k.buf.len
        BY <2>3, <2>7
    <3>2. CASE n < step
      <4>1. j.left = 0 /\ j.short /\ j.buf = k.buf
          BY <1>1, <3>2
      <4> QED BY <1>2, <1>3, <1>4, <2>1, <2>5, <3>1, <4>1
    <3>3. CASE n = step
      <4>1. j.left = k.left - step /\ j.buf = k.buf
          BY <1>1, <1>4, <3>3
      <4> QED BY <1>2, <1>3, <1>4, <2>1, <2>5, <3>1, <3>3, <4>1
    <3> QED BY <1>4, <2>1, <3>2, <3>3
  <2>9. ASSUME ~ stray', NEW i \in 1 .. j.done
        PROVE  LET va == k.buf.va + i - 1
               IN  PageOf(va) # {} /\ j.moved[i] = mem'[GuestPa(va)]
    <3> DEFINE va == k.buf.va + i - 1
    <3>1. PageOf(va) # {} /\ j.moved[i] = mem'[GuestPa(va)]
      <4>1. CASE i <= k.done
        <5>1. i \in 1 .. k.done /\ ~ stray
            BY <1>2, <2>5, <2>9, <4>1 DEF HostCall
        <5>2. PageOf(va) # {} /\ j.moved[i] = mem[GuestPa(va)]
            BY <2>3, <2>6, <5>1
        <5>3. va \in Addresses(k.buf) /\ va < k.buf.va + k.done
          <6>1. k.done \in Nat /\ k.left \in Nat /\ k.buf.va \in Nat /\ k.buf.len \in Nat
              BY <1>2, <1>3, <1>4
          <6>2. k.done <= k.buf.len
              BY <2>3, <6>1
          <6> QED BY <5>1, <6>1, <6>2 DEF Addresses
        <5> HIDE DEF va
        <5>4. mem'[GuestPa(va)] = mem[GuestPa(va)]
            BY <1>2, <2>9, <5>2, <5>3, OthersIntact DEF k
        <5> QED BY <5>2, <5>4
      <4>2. CASE i > k.done
        <5> DEFINE r == i - k.done - 1
        <5>1. /\ r \in 0 .. step - 1 /\ r + 1 \in 1 .. n /\ i - k.done = r + 1
              /\ i \in k.done + 1 .. k.done + n
              /\ va = k.buf.va + k.done + r
            BY <1>2, <1>3, <1>4, <2>1, <2>5, <4>2
        <5> HIDE DEF r, va
        <5>2. PageOf(va) # {} /\ GuestPa(va) = Portion(c).pa + r
            BY <2>1, <5>1, PortionRight DEF k, step
        <5>3. j.moved[i] = mem'[Portion(c).pa + (r + 1) - 1]
            BY <2>4, <2>6, <5>1
        <5>4. Portion(c).pa + (r + 1) - 1 = Portion(c).pa + r
          <6>1. GuestPa(va) \in Int /\ va \in Addresses(k.buf)
            <7>1. va \in Addresses(k.buf)
                BY <2>1, <5>1, PortionRight DEF k, step
            <7>2. layout \in Setups
                BY DEF TransferInv
            <7> QED BY <1>2, <5>2, <7>1, <7>2, DifferentPlaces
          <6> QED BY <5>1, <5>2, <6>1
        <5> QED BY <5>2, <5>3, <5>4
      <4> QED BY <1>2, <2>5, <4>1, <4>2
    <3> QED BY <3>1
  <2>10. (~ stray => \A i \in 1 .. call[c].done :
                        LET va == call[c].buf.va + i - 1
                        IN  PageOf(va) # {} /\ call[c].moved[i] = mem[GuestPa(va)])'
    <3>1. call'[c].buf = call[c].buf
        BY <1>1 DEF j, k
    <3> QED BY <2>9, <3>1 DEF PageOf, GuestPa, j, k
  <2> QED BY <2>6, <2>8, <2>10, Zenon DEF Progress, j
<1>11. CallInv(c)'
    BY <1>1, <1>2, <1>7, <1>8, <1>9, <1>10 DEF CallInv, j, k
<1> QED BY <1>1, <1>11 DEF j, k

\* A host call of a transfer.
LEMMA HostCallKeeps ==
    ASSUME TransferInv, NEW c \in Cores, InCall(c), call[c].left > 0,
           NEW n, NEW bytes, HostCall(c, n, bytes), layout' = layout,
           call' = [call EXCEPT ![c] = Moved(c, n, bytes, Portion(c).step)],
           input' \in PhysSize .. PhysSize + FileSize, stray' \in BOOLEAN
    PROVE  TransferInv'
<1>1. DOMAIN call = Cores
    BY DEF TransferInv
<1>2. /\ DOMAIN call' = Cores /\ call'[c] = Moved(c, n, bytes, Portion(c).step)
      /\ \A d \in Cores : d # c => call'[d] = call[d]
    BY <1>1
<1>3. /\ DOMAIN call'[c] = DOMAIN Idle /\ call'[c].op = call[c].op
      /\ call'[c].buf = call[c].buf /\ CallInv(c)'
    BY <1>2, TransferGoesOn
<1>4. \A d \in Cores : call'[d].op = call[d].op /\ call'[d].buf = call[d].buf
    BY <1>2, <1>3
<1>5. \A d \in Cores : InCall(d)' <=> InCall(d)
    BY <1>4 DEF InCall
<1>6. ASSUME NEW d \in Cores
      PROVE  /\ DOMAIN call'[d] = DOMAIN Idle
             /\ IF InCall(d)' THEN CallInv(d)' ELSE call'[d] = Idle
  <2>1. CASE d = c
      BY <1>3, <1>5, <2>1
  <2>2. CASE d # c /\ InCall(d)
    <3>1. CallInv(d)'
        BY <1>2, <2>2, OthersGoOn
    <3> QED BY <1>2, <1>5, <2>2, <3>1 DEF TransferInv
  <2>3. CASE d # c /\ ~ InCall(d)
      BY <1>2, <1>5, <2>3 DEF TransferInv
  <2> QED BY <2>1, <2>2, <2>3
<1>7. \A d, e \in Cores : d # e /\ InCall(d)' /\ InCall(e)' =>
          Addresses(call'[d].buf) \cap Addresses(call'[e].buf) = {}
    BY <1>4, <1>5 DEF TransferInv
<1>8. mem' \in [0 .. PhysSize - 1 -> Nat] /\ (layout \in Setups)' /\ (DOMAIN Idle)' = DOMAIN Idle
      /\ Idle' = Idle
    BY DEF HostCall, TransferInv, Idle
<1>9. \A b : Addresses(b)' = Addresses(b)
    BY DEF Addresses
<1> QED BY <1>2, <1>6, <1>7, <1>8, Zenon DEF TransferInv, Addresses, Idle

LEMMA HostWriteKeeps ==
    ASSUME TransferInv, NEW c \in Cores, HostWrite(c)
    PROVE  TransferInv'
<1> DEFINE p == Portion(c)
<1>0. /\ call[c].op = "write" /\ call[c].left > 0 /\ InCall(c)
      /\ UNCHANGED <<layout, mem, input, stray>>
    BY DEF HostWrite, files, InCall
<1>1. PICK n \in 0 .. p.step :
         call' = [call EXCEPT ![c] =
                     Moved(c, n, [i \in 1 .. n |-> mem[p.pa + i - 1]], p.step)]
    BY DEF HostWrite
<1> DEFINE bytes == [i \in 1 .. n |-> mem[p.pa + i - 1]]
<1>2. p.step \in Nat /\ n \in Nat
    BY <1>0, PortionTyped
<1>3. /\ layout \in Setups /\ mem \in [0 .. PhysSize - 1 -> Nat] /\ call[c].buf \in Buffers
      /\ input \in PhysSize .. PhysSize + FileSize /\ stray \in BOOLEAN
    BY <1>0 DEF TransferInv, CallInv
<1>4. ~ call[c].failed => bytes \in Seq(Nat) /\ Len(bytes) = n
  <2> SUFFICES ASSUME ~ call[c].failed PROVE bytes \in Seq(Nat) /\ Len(bytes) = n
      OBVIOUS
  <2>1. ASSUME NEW i \in 1 .. n
        PROVE  mem[p.pa + i - 1] \in Nat
    <3> DEFINE r == i - 1
               va == call[c].buf.va + call[c].done + r
    <3>1. r \in 0 .. p.step - 1 /\ i = r + 1
        BY <1>2
    <3>2. va \in Addresses(call[c].buf) /\ PageOf(va) # {} /\ GuestPa(va) = p.pa + r
        BY <1>0, <3>1, PortionRight
    <3> HIDE DEF va
    <3>3. p.pa + r \in 0 .. PhysSize - 1
        BY <1>3, <3>2, DifferentPlaces
    <3>4. p.pa + i - 1 = p.pa + r
        BY <3>1, <3>3
    <3> QED BY <1>3, <3>3, <3>4
  <2> HIDE DEF p
  <2> QED BY <1>2, <2>1
<1>5. \A i \in 1 .. n : bytes[i] = mem'[p.pa + i - 1]
    BY <1>0
<1>6. HostCall(c, n, bytes)
    BY <1>0, <1>3, <1>4, <1>5 DEF HostCall
<1> HIDE DEF bytes
<1>7. call' = [call EXCEPT ![c] = Moved(c, n, bytes, Portion(c).step)]
    BY <1>1 DEF bytes
<1> QED BY <1>0, <1>3, <1>6, <1>7, HostCallKeeps

LEMMA HostFailsKeeps ==
    ASSUME TransferInv, NEW c \in Cores, HostFails(c)
    PROVE  TransferInv'
<1>0. /\ call[c].left > 0 /\ InCall(c) /\ UNCHANGED <<layout, mem, input, stray>>
      /\ call' = [call EXCEPT ![c] = Moved(c, WordMod - 1, <<>>, Portion(c).step)]
    BY DEF HostFails, InCall
<1>1. /\ mem \in [0 .. PhysSize - 1 -> Nat]
      /\ input \in PhysSize .. PhysSize + FileSize /\ stray \in BOOLEAN
    BY DEF TransferInv
<1>2. HostCall(c, WordMod - 1, <<>>)
    BY <1>0, <1>1 DEF HostCall
<1> QED BY <1>0, <1>1, <1>2, HostCallKeeps

\* What HostRead does to memory.
LEMMA HostReadMemory ==
    ASSUME TransferInv, NEW c \in Cores, HostRead(c)
    PROVE  \E n \in 0 .. Portion(c).step :
              /\ call' = [call EXCEPT ![c] =
                    Moved(c, n, [i \in 1 .. n |-> input + i], Portion(c).step)]
              /\ n \in Nat /\ input' = input + n /\ input' <= PhysSize + FileSize
              /\ mem' = [a \in 0 .. PhysSize - 1 |->
                    IF a - Portion(c).pa \in 0 .. n - 1 THEN input + (a - Portion(c).pa) + 1
                                                        ELSE mem[a]]
              /\ stray' = (stray \/ (call[c].failed /\ n > 0))
<1> DEFINE p == Portion(c)
<1>1. PICK n \in 0 .. Min2(p.step, PhysSize + FileSize - input) :
              /\ call' = [call EXCEPT ![c] =
                    Moved(c, n, [i \in 1 .. n |-> input + i], p.step)]
              /\ mem' = [a \in DOMAIN mem |->
                    IF a - p.pa \in 0 .. n - 1 THEN input + (a - p.pa) + 1
                                               ELSE mem[a]]
              /\ input' = input + n
              /\ stray' = (stray \/ (call[c].failed /\ n > 0))
    BY DEF HostRead
<1>2. p.step \in Nat
    BY PortionTyped DEF HostRead, InCall
<1>3. DOMAIN mem = 0 .. PhysSize - 1 /\ input \in PhysSize .. PhysSize + FileSize
    BY DEF TransferInv
<1> HIDE DEF p
<1>4. n \in 0 .. p.step /\ n \in Nat /\ input + n <= PhysSize + FileSize
    BY <1>1, <1>2, <1>3, Sizes64 DEF Min2
<1> QED BY <1>1, <1>3, <1>4 DEF p

LEMMA HostReadKeeps ==
    ASSUME TransferInv, NEW c \in Cores, HostRead(c)
    PROVE  TransferInv'
<1> DEFINE p == Portion(c)
<1>0. call[c].op = "read" /\ call[c].left > 0 /\ InCall(c) /\ layout' = layout
    BY DEF HostRead, InCall
<1>1. PICK n \in 0 .. p.step :
              /\ call' = [call EXCEPT ![c] =
                    Moved(c, n, [i \in 1 .. n |-> input + i], p.step)]
              /\ n \in Nat /\ input' = input + n /\ input' <= PhysSize + FileSize
              /\ mem' = [a \in 0 .. PhysSize - 1 |->
                    IF a - p.pa \in 0 .. n - 1 THEN input + (a - p.pa) + 1
                                               ELSE mem[a]]
              /\ stray' = (stray \/ (call[c].failed /\ n > 0))
    BY HostReadMemory
<1> DEFINE bytes == [i \in 1 .. n |-> input + i]
<1>2. /\ layout \in Setups /\ mem \in [0 .. PhysSize - 1 -> Nat] /\ call[c].buf \in Buffers
      /\ input \in PhysSize .. PhysSize + FileSize /\ stray \in BOOLEAN
      /\ call[c].failed \in BOOLEAN /\ p.step \in Nat /\ p.pa \in Nat /\ input \in Nat
  <2>1. CallInv(c) /\ layout \in Setups /\ mem \in [0 .. PhysSize - 1 -> Nat]
        /\ input \in PhysSize .. PhysSize + FileSize /\ stray \in BOOLEAN
      BY <1>0 DEF TransferInv
  <2>2. call[c].buf \in Buffers /\ call[c].failed \in BOOLEAN
      BY <2>1 DEF CallInv
  <2>3. p.step \in Nat /\ p.pa \in Nat
      BY <1>0, PortionTyped
  <2>4. input \in Nat
      BY <2>1, Sizes64
  <2> QED BY <2>1, <2>2, <2>3, <2>4
<1>3. bytes \in Seq(Nat) /\ Len(bytes) = n
    BY <1>1, <1>2
<1>4. mem' \in [0 .. PhysSize - 1 -> Nat]
  <2> HIDE DEF p
  <2>1. ASSUME NEW a \in 0 .. PhysSize - 1, a - p.pa \in 0 .. n - 1
        PROVE  input + (a - p.pa) + 1 \in Nat
    <3>1. input \in Nat /\ a - p.pa \in Nat
        BY <1>2, <2>1
    <3> QED BY <3>1
  <2>2. \A a \in 0 .. PhysSize - 1 : mem[a] \in Nat
      BY <1>2
  <2> QED BY <1>1, <2>1, <2>2
<1>5. ASSUME ~ call[c].failed, NEW i \in 1 .. n
      PROVE  bytes[i] = mem'[p.pa + i - 1]
  <2> DEFINE r == i - 1
             va == call[c].buf.va + call[c].done + r
             a == p.pa + r
  <2>1. r \in 0 .. p.step - 1 /\ i = r + 1 /\ r \in 0 .. n - 1
      BY <1>1, <1>2
  <2>2. va \in Addresses(call[c].buf) /\ PageOf(va) # {} /\ GuestPa(va) = a
      BY <1>0, <1>5, <2>1, PortionRight
  <2> HIDE DEF va
  <2>3. a \in 0 .. PhysSize - 1
      BY <1>2, <2>2, DifferentPlaces
  <2> HIDE DEF p
  <2>4. p.pa + i - 1 = a /\ a - p.pa = r
      BY <1>2, <2>1
  <2>5. mem'[a] = input + r + 1
    <3> HIDE DEF a, r
    <3> QED BY <1>1, <2>1, <2>3, <2>4
  <2>6. bytes[i] = input + i
      OBVIOUS
  <2> QED BY <1>2, <2>1, <2>4, <2>5, <2>6
<1>6. ASSUME ~ stray'
      PROVE  /\ ~ stray
             /\ \A a \in 0 .. PhysSize - 1 :
                   mem'[a] # mem[a] => /\ ~ call[c].failed /\ n \in 0 .. p.step
                                       /\ \E i \in 0 .. n - 1 : a = p.pa + i
  <2> HIDE DEF p
  <2>1. ~ stray /\ ~ (call[c].failed /\ n > 0)
      BY <1>1, <1>6
  <2>2. ASSUME NEW a \in 0 .. PhysSize - 1, mem'[a] # mem[a]
        PROVE  /\ ~ call[c].failed /\ n \in 0 .. p.step
               /\ \E i \in 0 .. n - 1 : a = p.pa + i
    <3>1. a - p.pa \in 0 .. n - 1
        BY <1>1, <2>2
    <3>2. n > 0 /\ a = p.pa + (a - p.pa)
      <4>1. n \in Nat /\ p.pa \in Nat /\ a \in Int
          BY <1>1, <1>2
      <4> QED BY <3>1, <4>1
    <3> QED BY <1>1, <2>1, <3>1, <3>2
  <2> QED BY <2>1, <2>2
<1>7. HostCall(c, n, bytes)
  <2> HIDE DEF bytes
  <2> QED BY <1>1, <1>3, <1>4, <1>5, <1>6 DEF HostCall
<1>8. input' \in PhysSize .. PhysSize + FileSize /\ stray' \in BOOLEAN
  <2>1. input' \in PhysSize .. PhysSize + FileSize
      BY <1>1, <1>2, Sizes64
  <2>2. stray' \in BOOLEAN
      BY <1>1, <1>2
  <2> QED BY <2>1, <2>2
<1>9. call' = [call EXCEPT ![c] = Moved(c, n, bytes, Portion(c).step)]
    BY <1>1
<1> HIDE DEF bytes
<1> QED BY <1>0, <1>7, <1>8, <1>9, HostCallKeeps

\* A transfer begins or ends: memory and the other transfers stay as they are.
LEMMA OtherCallsStay ==
    ASSUME TransferInv, UNCHANGED <<layout, mem, stray>>,
           NEW d \in Cores, call'[d] = call[d]
    PROVE  /\ DOMAIN call'[d] = DOMAIN Idle /\ (InCall(d)' <=> InCall(d))
           /\ IF InCall(d)' THEN CallInv(d)' ELSE call'[d] = Idle
<1>1. DOMAIN call[d] = DOMAIN Idle /\ IF InCall(d) THEN CallInv(d) ELSE call[d] = Idle
    BY DEF TransferInv
<1>2. InCall(d)' <=> InCall(d)
    BY DEF InCall
<1>3. CallInv(d) => CallInv(d)'
    BY DEF CallInv, Progress, PageOf, GuestPa
<1> QED BY <1>1, <1>2, <1>3

LEMMA TransferKept ==
    ASSUME TransferInv, UNCHANGED <<layout, mem, input, stray>>, NEW c \in Cores,
           NEW k, call' = [call EXCEPT ![c] = k],
           DOMAIN k = DOMAIN Idle, k = Idle \/ (InCall(c)' /\ CallInv(c)'),
           k = Idle \/ \A d \in Cores : d # c /\ InCall(d) =>
                          Addresses(call[d].buf) \cap Addresses(k.buf) = {}
    PROVE  TransferInv'
<1>1. /\ DOMAIN call' = Cores /\ call'[c] = k
      /\ \A d \in Cores : d # c => call'[d] = call[d]
    BY DEF TransferInv
<1>2. ASSUME NEW d \in Cores
      PROVE  /\ DOMAIN call'[d] = DOMAIN Idle
             /\ IF InCall(d)' THEN CallInv(d)' ELSE call'[d] = Idle
  <2>1. CASE d = c
      BY <1>1, <2>1 DEF InCall, Idle
  <2>2. CASE d # c
      BY <1>1, <2>2, OtherCallsStay
  <2> QED BY <2>1, <2>2
<1>3. ASSUME NEW d \in Cores, NEW e \in Cores, d # e, InCall(d)', InCall(e)'
      PROVE  Addresses(call'[d].buf) \cap Addresses(call'[e].buf) = {}
  <2>1. k = Idle => ~ InCall(c)'
      BY <1>1 DEF InCall, Idle
  <2>2. \A f \in Cores : f # c => (InCall(f)' <=> InCall(f))
      BY <1>1, OtherCallsStay
  <2>3. CASE d = c
      BY <1>1, <1>3, <2>1, <2>2, <2>3
  <2>4. CASE e = c
      BY <1>1, <1>3, <2>1, <2>2, <2>4
  <2>5. CASE d # c /\ e # c
      BY <1>1, <1>3, <2>2, <2>5 DEF TransferInv
  <2> QED BY <2>3, <2>4, <2>5
<1>4. /\ (layout \in Setups)' /\ (mem \in [0 .. PhysSize - 1 -> Nat])'
      /\ (input \in PhysSize .. PhysSize + FileSize)' /\ (stray \in BOOLEAN)'
    BY DEF TransferInv
<1> QED BY <1>1, <1>2, <1>3, <1>4, Zenon DEF TransferInv, Addresses, Idle

LEMMA ReturnKeeps ==
    ASSUME TransferInv, NEW c \in Cores, Return(c)
    PROVE  TransferInv'
BY TransferKept DEF Return, files

LEMMA BeginKeeps ==
    ASSUME TransferInv, NEW c \in Cores, NEW op \in {"write", "read"}, NEW fd \in Fds,
           NEW b \in Buffers, Begin(c, op, fd, b)
    PROVE  TransferInv'
<1> DEFINE k == IF b.len = 0 THEN Idle
                ELSE [Idle EXCEPT !.op = op, !.fd = fd, !.buf = b, !.left = b.len]
<1>1. /\ call' = [call EXCEPT ![c] = k] /\ Free(b)
      /\ UNCHANGED <<layout, mem, input, stray>> /\ DOMAIN call = Cores
    BY DEF Begin, files, TransferInv
<1>2. b.len \in Nat /\ WordMod \in Nat /\ WordMod > 1
    BY Sizes64
<1>3. DOMAIN k = DOMAIN Idle
    BY DEF Idle
<1>4. CASE b.len = 0
  <2>1. k = Idle
      BY <1>4
  <2> QED BY <1>1, <1>3, <2>1, TransferKept
<1>5. CASE b.len # 0
  <2>1. /\ k.op = op /\ k.buf = b /\ k.left = b.len /\ k.done = 0 /\ k.moved = <<>>
        /\ k.portions = 0 /\ k.short = FALSE /\ k.failed = FALSE
      BY <1>5 DEF Idle
  <2>2. call'[c] = k
      BY <1>1
  <2> HIDE DEF k
  <2>3. Progress(c)'
    <3>1. call'[c].moved \in Seq(Nat) /\ Len(call'[c].moved) = 0 /\ call'[c].done = 0
      <4>1. call'[c].moved = <<>> /\ call'[c].done = 0
          BY <2>1, <2>2
      <4>2. <<>> \in Seq(Nat) /\ Len(<<>>) = 0
          OBVIOUS
      <4> QED BY <4>1, <4>2, Zenon
    <3>2. call'[c].left = call'[c].buf.len /\ call'[c].buf.len \in Nat
        BY <1>2, <2>1, <2>2
    <3>3. 1 .. call'[c].done = {}
        BY <3>1
    <3> QED BY <3>1, <3>2, <3>3 DEF Progress
  <2>4. CallInv(c)'
    <3>1. /\ call'[c].op \in {"write", "read"} /\ call'[c].buf \in Buffers
          /\ call'[c].buf.len > 0 /\ call'[c].left \in 0 .. call'[c].buf.len
        BY <1>2, <1>5, <2>1, <2>2
    <3>2. /\ call'[c].done = 0 /\ call'[c].done \in 0 .. WordMod - 1
          /\ call'[c].portions = 0 /\ call'[c].portions \in 0 .. 2
        BY <1>2, <2>1, <2>2
    <3>3. call'[c].short \in BOOLEAN /\ call'[c].failed \in BOOLEAN /\ ~ call'[c].failed
        BY <2>1, <2>2
    <3> QED BY <2>3, <3>1, <3>2, <3>3 DEF CallInv
  <2>5. InCall(c)'
      BY <2>1, <2>2 DEF InCall
  <2>6. \A d \in Cores : d # c /\ InCall(d) => Addresses(call[d].buf) \cap Addresses(k.buf) = {}
      BY <1>1, <2>1 DEF Free
  <2> QED BY <1>1, <1>3, <2>4, <2>5, <2>6, TransferKept
<1> QED BY <1>4, <1>5

LEMMA InitTransfer ==
    ASSUME Init
    PROVE  TransferInv
<1>1. mem \in [0 .. PhysSize - 1 -> Nat] /\ input \in PhysSize .. PhysSize + FileSize
    BY Sizes64 DEF Init
<1>2. \A c \in Cores : call[c] = Idle /\ ~ InCall(c)
    BY DEF Init, InCall, Idle
<1> QED BY <1>1, <1>2 DEF Init, TransferInv

LEMMA NextKeepsTransfer ==
    ASSUME TransferInv, [Next]_vars
    PROVE  TransferInv'
<1>1. ASSUME UNCHANGED <<layout, mem, call, input, stray>>
      PROVE  TransferInv'
  <2>1. \A c \in Cores : /\ DOMAIN call'[c] = DOMAIN Idle /\ (InCall(c)' <=> InCall(c))
                         /\ IF InCall(c)' THEN CallInv(c)' ELSE call'[c] = Idle
      BY <1>1, OtherCallsStay
  <2> QED BY <1>1, <2>1, Zenon DEF TransferInv, Addresses, Idle
<1>2. CASE UNCHANGED vars
    BY <1>1, <1>2 DEF vars, files
<1>3. ASSUME NEW c \in Cores, HostWrite(c) PROVE TransferInv'
    BY <1>3, HostWriteKeeps
<1>4. ASSUME NEW c \in Cores, HostRead(c) PROVE TransferInv'
    BY <1>4, HostReadKeeps
<1>5. ASSUME NEW c \in Cores, HostFails(c) PROVE TransferInv'
    BY <1>5, HostFailsKeeps
<1>6. ASSUME NEW c \in Cores, Return(c) PROVE TransferInv'
    BY <1>6, ReturnKeeps
<1>7. ASSUME NEW c \in Cores, CmdSize(c) \/ CmdVal(c) \/ PassOn(c) PROVE TransferInv'
    BY <1>1, <1>7 DEF CmdSize, CmdVal, PassOn, files
<1>8. ASSUME NEW c \in Cores, NEW op \in {"write", "read"}, NEW fd \in Fds,
             NEW b \in Buffers, Begin(c, op, fd, b)
      PROVE  TransferInv'
    BY <1>8, BeginKeeps
<1>9. ASSUME NEW c \in Cores, NEW name \in Names, Open(c, name) PROVE TransferInv'
    BY <1>1, <1>9 DEF Open
<1>10. ASSUME NEW c \in Cores, NEW fd \in Fds, Close(c, fd) PROVE TransferInv'
    BY <1>1, <1>10 DEF Close
<1> QED BY <1>2, <1>3, <1>4, <1>5, <1>6, <1>7, <1>8, <1>9, <1>10, Zenon DEF Next, Transfer

\* The invariant says what a transfer that is over has moved.
LEMMA TransferExact ==
    ASSUME TransferInv
    PROVE  BytesExact
<1> SUFFICES ASSUME NEW c \in Cores, InCall(c), call[c].left = 0
             PROVE  /\ ~ call[c].failed /\ Mapped(call[c].buf) /\ ~ stray => Exact(c)
                    /\ call[c].failed /\ call[c].portions = 1 => call[c].done = WordMod - 1
    BY DEF BytesExact
<1> DEFINE k == call[c]
<1>1. CallInv(c)
    BY DEF TransferInv
<1>2. ASSUME ~ k.failed, ~ stray
      PROVE  Exact(c)
  <2>1. Progress(c) /\ k.done \in Nat /\ k.left = 0
      BY <1>1, <1>2, Sizes64 DEF CallInv
  <2>2. /\ k.moved \in Seq(Nat) /\ Len(k.moved) = k.done
        /\ k.done + k.left = k.buf.len \/ k.short
        /\ \A i \in 1 .. k.done : k.moved[i] = mem[GuestPa(k.buf.va + i - 1)]
      BY <1>2, <2>1, Zenon DEF Progress
  <2>3. k.moved = [i \in 1 .. k.done |-> mem[GuestPa(k.buf.va + i - 1)]]
    <3> DEFINE m == k.moved
    <3>1. m = [i \in 1 .. Len(m) |-> m[i]]
        BY <2>2
    <3>2. m = [i \in 1 .. k.done |-> m[i]]
        BY <2>2, <3>1
    <3> QED BY <2>2, <3>2, Zenon
  <2>4. k.done = k.buf.len \/ k.short
      BY <2>1, <2>2
  <2> QED BY <2>2, <2>3, <2>4, Zenon DEF Exact
<1>3. k.failed /\ k.portions = 1 => k.done = WordMod - 1
    BY <1>1 DEF CallInv
<1> QED BY <1>2, <1>3

\* What WRITE and READ return is what they did, for every page table, page size
\* and length, whatever the other vCPUs' transfers do in between: the loop of
\* vcpu_loop moves the buffer's bytes in their order across page boundaries.
THEOREM TransfersExact == Spec => []BytesExact
<1>1. Init => TransferInv
    BY InitTransfer
<1>2. TransferInv /\ [Next]_vars => TransferInv'
    BY NextKeepsTransfer
<1>3. TransferInv => BytesExact
    BY TransferExact
<1> QED BY <1>1, <1>2, <1>3, PTL DEF Spec

\* A step that changes memory is a READ's, and it changes a byte of its buffer.
LEMMA OnlyTheBuffer ==
    ASSUME TransferInv, [Next]_vars, NEW a \in DOMAIN mem, mem'[a] # mem[a]
    PROVE  \E c \in Cores : /\ call[c].op = "read"
                            /\ \/ call[c].failed
                               \/ \E va \in Addresses(call[c].buf) :
                                     PageOf(va) # {} /\ GuestPa(va) = a
<1>1. PICK c \in Cores : HostRead(c)
    BY Zenon DEF Next, Transfer, vars, files, HostWrite, HostFails, Return, CmdSize, CmdVal,
                 PassOn, Begin, Open, Close
<1>2. call[c].op = "read" /\ call[c].left > 0 /\ InCall(c)
    BY <1>1 DEF HostRead, InCall
<1> SUFFICES ASSUME ~ call[c].failed
             PROVE  \E va \in Addresses(call[c].buf) : PageOf(va) # {} /\ GuestPa(va) = a
    BY <1>2
<1> DEFINE p == Portion(c)
<1>3. p.step \in Nat /\ p.pa \in Nat /\ DOMAIN mem = 0 .. PhysSize - 1
  <2>1. p.step \in Nat /\ p.pa \in Nat
      BY <1>2, PortionTyped
  <2>2. DOMAIN mem = 0 .. PhysSize - 1
      BY DEF TransferInv
  <2> QED BY <2>1, <2>2
<1>4. PICK n \in 0 .. p.step :
          mem' = [x \in 0 .. PhysSize - 1 |->
                    IF x - p.pa \in 0 .. n - 1 THEN input + (x - p.pa) + 1 ELSE mem[x]]
    BY <1>1, HostReadMemory
<1> DEFINE i == a - p.pa
<1>5. i \in 0 .. p.step - 1 /\ a = p.pa + i
  <2> HIDE DEF p
  <2>1. i \in 0 .. n - 1
      BY <1>3, <1>4
  <2> QED BY <1>3, <2>1, Sizes64
<1> HIDE DEF i
<1> QED BY <1>2, <1>5, PortionRight

\* READ writes nothing but its buffer, until a host call has failed: no other
\* hypercall of vcpu_loop changes guest memory that way, and a portion never
\* reaches over the end of the page its address lies in.
THEOREM ReadStaysInBuffer == Spec => NothingOutside
<1>1. Init => TransferInv
    BY InitTransfer
<1>2. TransferInv /\ [Next]_vars => TransferInv'
    BY NextKeepsTransfer
<1>3. TransferInv /\ [Next]_vars =>
        [\A a \in DOMAIN mem : mem'[a] # mem[a] =>
              \E c \in Cores : /\ call[c].op = "read"
                               /\ \/ call[c].failed
                                  \/ \E va \in Addresses(call[c].buf) :
                                        PageOf(va) # {} /\ GuestPa(va) = a]_mem
    BY OnlyTheBuffer
<1> QED BY <1>1, <1>2, <1>3, PTL DEF Spec, NothingOutside

\* Type correctness of the calls, of memory and of the descriptors.
THEOREM HypercallsTypeCorrect == Spec => []TypeOK
<1>1. Init => TransferInv /\ FdInv
    BY InitTransfer, InitFds
<1>2. TransferInv /\ FdInv /\ [Next]_vars => (TransferInv /\ FdInv)'
    BY NextKeepsTransfer, NextKeepsFds
<1>3. TransferInv /\ FdInv => TypeOK
  <2> SUFFICES ASSUME TransferInv, FdInv, NEW c \in Cores
               PROVE  call[c].done \in 0 .. WordMod - 1 /\ call[c].left \in Nat
      BY DEF TransferInv, FdInv, TypeOK
  <2>1. CASE InCall(c)
      BY <2>1, Sizes64 DEF TransferInv, CallInv
  <2>2. CASE ~ InCall(c)
    <3>1. call[c] = Idle
        BY <2>2 DEF TransferInv
    <3> QED BY <3>1, Sizes64 DEF Idle
  <2> QED BY <2>1, <2>2
<1> QED BY <1>1, <1>2, <1>3, PTL DEF Spec
=============================================================================
