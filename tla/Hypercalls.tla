------------------------------ MODULE Hypercalls ------------------------------
(***************************************************************************)
(* The hypercalls for files and for the command line (vcpu_loop in         *)
(* uhyve.c) with the address translation they use (virt_to_phys in         *)
(* uhyve-x86_64.c).                                                        *)
(*                                                                         *)
(* A buffer is contiguous for the guest only: WRITE and READ translate its *)
(* address and pass the portion up to the end of the page, small or large, *)
(* to the host's write() or read(), until the buffer is done or the host   *)
(* does less than it was asked to.  Several vCPUs do so at a time, and     *)
(* OPEN and CLOSE of one may come between two portions of another.  A host *)
(* call may fail in between, a signal for a checkpoint suffices.           *)
(*                                                                         *)
(* Addresses and counts are size_t, here with the modulus WordMod: the -1  *)
(* of a failed call is WordMod - 1 to the code that adds and compares it.  *)
(***************************************************************************)
EXTENDS Integers, Sequences, FiniteSets, FiniteSetsExt

CONSTANTS
    Cores,
    WordMod,         \* modulus of size_t
    PageSize,        \* PAGE_SIZE
    Fanout,          \* entries of a page table
    Levels,          \* levels of page tables
    Root,            \* BOOT_PML4
    Setups,          \* page tables the guest may have set up (the tables and
                     \* the pages va, size, pa they stand for), with the lengths
                     \* of the strings on uhyve's command line
    PhysSize,        \* bytes of guest memory
    Buffers,         \* buffers the guest uses: records va, len
    MaxFd,           \* the highest descriptor
    Fds,             \* descriptors the guest uses
    FileSize,        \* bytes there are to read
    Kvm,             \* the KVM device
    Names,           \* file names, each with what realpath() makes of it
    MaxArgs,         \* MAX_ARGC_ENVC
    MaxCalls, MaxFails    \* bounds on hypercalls and on failing host calls

ASSUME HypercallsAssumption ==
    /\ WordMod \in Nat /\ PageSize \in Nat \ {0} /\ Fanout \in Nat \ {0}
    /\ Levels \in Nat \ {0} /\ PhysSize \in Nat /\ PhysSize < WordMod
    /\ MaxFd \in Nat /\ MaxFd >= 2 /\ Fds \subseteq Nat
    /\ FileSize \in Nat /\ MaxArgs \in Nat \ {0} /\ MaxCalls \in Nat /\ MaxFails \in Nat
    \* The KVM device exists: realpath() resolves its name.
    /\ Kvm # "terminal"
    /\ \A name \in Names : name.real = "none" => name.name # Kvm

VARIABLES
    layout,          \* the guest's page tables, and argv and envp
    mem,             \* guest memory by physical address
    call,            \* the transfer each vCPU is in; whether it took more than
                     \* one portion, was short or has failed is history
    fds,             \* what the descriptors refer to that the guest may use:
                     \* those of the terminal and those it got from OPEN
    input,           \* number of the last byte read from a file; the bytes in
                     \* memory at the start have the numbers below PhysSize
    calls, fails,    \* how much was used of the bounds
    sizes,           \* what CMDSIZE told the guest
    strings,         \* which string each byte the guest set aside belongs to
    stray            \* history: a READ has gone on after a failure

files == <<layout, mem, fds, input, fails, stray>>
cmdline == <<sizes, strings>>
vars == <<files, call, calls, cmdline>>

-----------------------------------------------------------------------------
(* virt_to_phys. *)

PageBytes(level) ==
    LET bytes[k \in 0 .. level] == IF k = 0 THEN PageSize ELSE Fanout * bytes[k - 1]
    IN  bytes[level]
Index(va, level) == (va \div PageBytes(level)) % Fanout

\* The two results when the walk ends at an entry that is not present.
Unmapped == [pa |-> 0, end |-> 0]

\* Mutant of Leaf: a page's size from the address on, not to the page's end.
LeafWhole(phy, va, level) ==
    [pa |-> phy + (va % PageBytes(level)),
     end |-> phy + (va % PageBytes(level)) + PageBytes(level)]

\* A page of size PageBytes(level): the address, and the end of the page.
Leaf(phy, va, level) ==
    [pa |-> phy + (va % PageBytes(level)), end |-> phy + PageBytes(level)]

virt_to_phys(va) ==
    LET walk[level \in 0 .. Levels - 1] ==
            [t \in DOMAIN layout.tables |->
                LET e == layout.tables[t][Index(va, level)]
                IN  IF ~ e.present THEN Unmapped
                    ELSE IF level = 0 \/ (level < Levels - 1 /\ e.pse)
                    THEN Leaf(e.phy, va, level)
                    ELSE walk[level - 1][e.phy]]
    IN  walk[Levels - 1][Root]

-----------------------------------------------------------------------------
(* The guest's view of its memory, by the MMU. *)

\* The tables the MMU goes through for an address: one at each level, from the
\* root down to the given level, each named by the entry of the one above.
Descents(s, va, level) ==
    {path \in [level .. Levels - 1 -> DOMAIN s.tables] :
        /\ path[Levels - 1] = Root
        /\ \A k \in level + 1 .. Levels - 1 :
              LET e == s.tables[path[k]][Index(va, k)]
              IN  e.present /\ (k = Levels - 1 \/ ~ e.pse) /\ e.phy = path[k - 1]}

\* The entry maps a page: a small one, or a large one above the lowest level.
MapsPage(e, level) == e.present /\ (level = 0 \/ (level < Levels - 1 /\ e.pse))
PageAt(e, va, level) ==
    [va |-> va - (va % PageBytes(level)), size |-> PageBytes(level), pa |-> e.phy]

\* The pages of a setup are those the MMU finds by its tables, for every address
\* the tables translate, and where it goes on there is a table.
PageTables(s) ==
    /\ Root \in DOMAIN s.tables
    /\ \A t \in DOMAIN s.tables :
          s.tables[t] \in [0 .. Fanout - 1 -> [present : BOOLEAN, pse : BOOLEAN, phy : Nat]]
    /\ \A va \in 0 .. WordMod - 1, level \in 0 .. Levels - 1 :
          \A path \in Descents(s, va, level) :
              LET e == s.tables[path[level]][Index(va, level)]
              IN  /\ MapsPage(e, level) /\ va < PageBytes(Levels) =>
                        PageAt(e, va, level) \in s.pages
                  /\ e.present /\ ~ MapsPage(e, level) => e.phy \in DOMAIN s.tables
    /\ s.pages \subseteq [va : Nat, size : Nat \ {0}, pa : Nat]
    /\ \A p \in s.pages : \A va \in p.va .. p.va + p.size - 1 :
          \E level \in 0 .. Levels - 1 : \E path \in Descents(s, va, level) :
              LET e == s.tables[path[level]][Index(va, level)]
              IN  MapsPage(e, level) /\ p = PageAt(e, va, level)

PageOf(va) == {p \in layout.pages : p.va <= va /\ va < p.va + p.size}
GuestPa(va) == LET p == CHOOSE q \in PageOf(va) : TRUE IN p.pa + (va - p.va)
Addresses(b) == b.va .. b.va + b.len - 1

\* The pages of the guest's buffers.
InUse(s) ==
    {p \in s.pages : \E b \in Buffers : \E va \in Addresses(b) :
                        p.va <= va /\ va < p.va + p.size}

\* The guest's page tables, its buffers, which lie in its memory and in different
\* places of it, and the strings of the command line.
ASSUME GuestAssumption ==
    /\ PageBytes(Levels) < WordMod - 1
    /\ \A b \in Buffers : b.va \in Nat /\ b.len \in Nat /\ b.va + b.len <= PageBytes(Levels)
    /\ \A s \in Setups :
          /\ PageTables(s)
          /\ \A p \in InUse(s) : p.pa + p.size <= PhysSize
          /\ \A p, q \in InUse(s) : p # q => p.pa + p.size <= q.pa \/ q.pa + q.size <= p.pa
          /\ s.argv \in Seq(Nat) /\ s.envp \in Seq(Nat)

Mapped(b) == \A va \in Addresses(b) : PageOf(va) # {}

Idle == [op |-> "none", fd |-> 0, buf |-> [va |-> 0, len |-> 0], left |-> 0,
         done |-> 0, moved |-> <<>>, portions |-> 0, short |-> FALSE,
         failed |-> FALSE]
InCall(c) == call[c].op # "none"

Init ==
    /\ layout \in Setups
    /\ mem = [a \in 0 .. PhysSize - 1 |-> a]
    /\ call = [c \in Cores |-> Idle]
    /\ fds = [d \in 0 .. 2 |-> "terminal"]
    /\ input = PhysSize
    /\ calls = 0 /\ fails = 0
    /\ sizes = <<>> /\ strings = <<>> /\ stray = FALSE

-----------------------------------------------------------------------------
(* WRITE and READ. *)

\* The guest does not use a buffer for two calls at a time.
Free(b) == \A c \in Cores : InCall(c) =>
               Addresses(call[c].buf) \cap Addresses(b) = {}

\* The guest's start-up code asks for the command line before anything else.
MayCall(c) == ~ InCall(c) /\ calls < MaxCalls /\ strings # <<>>

\* The hypercall is issued; one without a byte to transfer is over at once.
Begin(c, op, fd, b) ==
    /\ MayCall(c) /\ Free(b)
    /\ calls' = calls + 1
    /\ call' = [call EXCEPT ![c] =
          IF b.len = 0 THEN Idle
          ELSE [Idle EXCEPT !.op = op, !.fd = fd, !.buf = b, !.left = b.len]]
    /\ UNCHANGED <<files, cmdline>>

Min2(a, b) == IF a < b THEN a ELSE b

\* The portion the next host call is asked for.
Portion(c) ==
    LET t == virt_to_phys((call[c].buf.va + call[c].done) % WordMod)
    IN  [pa |-> t.pa, step |-> Min2(t.end - t.pa, call[c].left)]

\* Mutant of Moved: a host call that moved nothing is tried again.
MovedRetry(c, n, bytes, step) ==
    [call[c] EXCEPT !.done = (@ + n) % WordMod,
                    !.left = IF n = 0 THEN @ ELSE IF n < step THEN 0 ELSE @ - step,
                    !.moved = @ \o bytes,
                    !.portions = Min2(@ + 1, 2),
                    !.short = @ \/ n < step,
                    !.failed = @ \/ n = WordMod - 1]

\* Mutant of Moved: the loop is left at the end of every page.
MovedOnce(c, n, bytes, step) ==
    [call[c] EXCEPT !.done = (@ + n) % WordMod,
                    !.left = 0,
                    !.moved = @ \o bytes,
                    !.portions = Min2(@ + 1, 2),
                    !.short = @ \/ n < step,
                    !.failed = @ \/ n = WordMod - 1]

\* The host call has returned n, as a size_t, and moved these bytes: the loop is
\* left when n is less than asked for, which -1 is not.
Moved(c, n, bytes, step) ==
    [call[c] EXCEPT !.done = (@ + n) % WordMod,
                    !.left = IF n < step THEN 0 ELSE @ - step,
                    !.moved = @ \o bytes,
                    !.portions = Min2(@ + 1, 2),
                    !.short = @ \/ n < step,
                    !.failed = @ \/ n = WordMod - 1]

HostWrite(c) ==
    LET p == Portion(c)
    IN  /\ call[c].op = "write" /\ call[c].left > 0
        /\ call[c].fd \in DOMAIN fds
        /\ \E n \in 0 .. p.step :
              call' = [call EXCEPT ![c] =
                  Moved(c, n, [i \in 1 .. n |-> mem[p.pa + i - 1]], p.step)]
        /\ UNCHANGED <<files, calls, cmdline>>

\* read() returns less at the end of the file, and nothing behind it.
HostRead(c) ==
    LET p == Portion(c)
    IN  /\ call[c].op = "read" /\ call[c].left > 0
        /\ call[c].fd \in DOMAIN fds
        /\ \E n \in 0 .. Min2(p.step, PhysSize + FileSize - input) :
              /\ call' = [call EXCEPT ![c] =
                    Moved(c, n, [i \in 1 .. n |-> input + i], p.step)]
              /\ mem' = [a \in DOMAIN mem |->
                    IF a - p.pa \in 0 .. n - 1 THEN input + (a - p.pa) + 1
                                               ELSE mem[a]]
              /\ input' = input + n
              /\ stray' = (stray \/ (call[c].failed /\ n > 0))
        /\ UNCHANGED <<layout, fds, fails, calls, cmdline>>

\* write() or read() returns -1: the descriptor is closed, or a signal came.
HostFails(c) ==
    /\ call[c].op \in {"write", "read"} /\ call[c].left > 0
    /\ \/ call[c].fd \notin DOMAIN fds /\ UNCHANGED fails
       \/ call[c].fd \in DOMAIN fds /\ fails < MaxFails /\ fails' = fails + 1
    /\ call' = [call EXCEPT ![c] = Moved(c, WordMod - 1, <<>>, Portion(c).step)]
    /\ UNCHANGED <<layout, mem, fds, input, stray, calls, cmdline>>

\* The loop is over: done is returned, as len or ret, and the guest goes on.
Return(c) ==
    /\ InCall(c) /\ call[c].left = 0
    /\ call' = [call EXCEPT ![c] = Idle]
    /\ UNCHANGED <<files, calls, cmdline>>

-----------------------------------------------------------------------------
(* OPEN, CLOSE, LSEEK and UNLINK. *)

\* realpath() never returns a value below 0.  When it returns NULL, rpath is
\* what the stack held, the name of an earlier call included.
RPaths(name) == IF name.real = "none" THEN {"rubbish", Kvm} ELSE {name.real}

Refused(name, rpath) == rpath = Kvm

FreeFds == (0 .. MaxFd) \ DOMAIN fds

\* open() takes the lowest descriptor that is free, or fails; a name that
\* realpath() does not resolve is that of a new file.
Open(c, name) ==
    /\ MayCall(c)
    /\ calls' = calls + 1
    /\ \E rpath \in RPaths(name) :
          fds' \in {fds} \cup
              IF Refused(name, rpath) \/ FreeFds = {} THEN {}
              ELSE {[d \in DOMAIN fds \cup {Min(FreeFds)} |->
                        IF d \in DOMAIN fds THEN fds[d]
                        ELSE IF name.real = "none" THEN name.name ELSE name.real]}
    /\ UNCHANGED <<layout, mem, input, fails, stray, call, cmdline>>

\* Mutant of Closable: the terminal may be closed.
ClosableStderr(fd) == fd > 1

Closable(fd) == fd > 2

Close(c, fd) ==
    /\ MayCall(c)
    /\ calls' = calls + 1
    /\ fds' = IF Closable(fd) THEN [d \in DOMAIN fds \ {fd} |-> fds[d]] ELSE fds
    /\ UNCHANGED <<layout, mem, input, fails, stray, call, cmdline>>

\* LSEEK and UNLINK pass their arguments to the host and its result back: they
\* change the host's files and positions, which are not part of this model (a
\* READ may return any number of bytes, and each is new).
PassOn(c) ==
    /\ MayCall(c)
    /\ calls' = calls + 1
    /\ UNCHANGED <<files, call, cmdline>>

-----------------------------------------------------------------------------
(* CMDSIZE and CMDVAL. *)

\* uhyve_loop limits the numbers of arguments and of environment variables.
First(s, n) == SubSeq(s, 1, Min2(Len(s), n))
uhyve_argv == First(layout.argv, MaxArgs)
uhyve_envp == First(layout.envp, MaxArgs - 1)

\* Mutant of Announced: without the terminating NUL.
AnnouncedStrlen(s) == s

\* strlen() + 1 of every string.
Announced(s) == [i \in DOMAIN s |-> s[i] + 1]

CmdSize(c) ==
    /\ ~ InCall(c) /\ sizes = <<>>
    /\ sizes' = <<Announced(uhyve_argv), Announced(uhyve_envp)>>
    /\ UNCHANGED <<files, call, calls, strings>>

\* The guest's blocks for the strings, one behind the other.
Start(sz, i) == LET sum[k \in 0 .. Len(sz)] ==
                        IF k = 0 THEN 0 ELSE sum[k - 1] + sz[k]
                IN  sum[i - 1]

\* strcpy() of every string to its block, the last one wins.
Copied(all, sz) ==
    LET Ends(i) == Start(sz, i) .. Start(sz, i) + all[i]
    IN  [o \in UNION {Ends(i) : i \in DOMAIN all} |->
            Max({i \in DOMAIN all : o \in Ends(i)})]

CmdVal(c) ==
    /\ ~ InCall(c) /\ sizes # <<>> /\ strings = <<>>
    /\ strings' = <<Copied(uhyve_argv \o uhyve_envp, sizes[1] \o sizes[2])>>
    /\ UNCHANGED <<files, call, calls, sizes>>

-----------------------------------------------------------------------------
Transfer(c) == HostWrite(c) \/ HostRead(c) \/ HostFails(c) \/ Return(c)

Next ==
    \E c \in Cores :
        \/ Transfer(c) \/ CmdSize(c) \/ CmdVal(c) \/ PassOn(c)
        \/ \E op \in {"write", "read"}, fd \in Fds, b \in Buffers :
              Begin(c, op, fd, b)
        \/ \E name \in Names : Open(c, name)
        \/ \E fd \in Fds : Close(c, fd)

Spec == Init /\ [][Next]_vars

(* A vCPU thread in a hypercall runs on, and the host's calls return.      *)
FairSpec == Spec /\ \A c \in Cores : WF_vars(Transfer(c))

-----------------------------------------------------------------------------
(* Properties. *)

\* Type correctness of the calls, of memory and of the descriptors.
TypeOK ==
    /\ layout \in Setups
    /\ DOMAIN mem = 0 .. PhysSize - 1
    /\ \A c \in Cores : call[c].done \in 0 .. WordMod - 1 /\ call[c].left \in Nat
    /\ DOMAIN fds \subseteq 0 .. MaxFd

\* The call has moved the bytes the guest sees in its buffer, in their order,
\* from its beginning, as many as it returns, and all of them unless the host did
\* less than it was asked to.
Exact(c) ==
    LET k == call[c]
    IN  /\ k.done = Len(k.moved)
        /\ k.moved = [i \in 1 .. k.done |-> mem[GuestPa(k.buf.va + i - 1)]]
        /\ k.done = k.buf.len \/ k.short

\* What WRITE and READ return is what they did, across page boundaries and with
\* pages of both sizes.  If a host call failed, the guest learns of it by -1 when
\* its buffer was one portion.  (The sum is wrong after a failure in a buffer of
\* several portions, and bytes may be where READ went on after one.)
BytesExact ==
    \A c \in Cores :
        InCall(c) /\ call[c].left = 0 =>
            /\ ~ call[c].failed /\ Mapped(call[c].buf) /\ ~ stray => Exact(c)
            /\ call[c].failed /\ call[c].portions = 1 => call[c].done = WordMod - 1

\* READ changes nothing but bytes of its buffer, unless a host call has failed
\* (then the next portion is read to one byte before its place).
NothingOutside ==
    [][\A a \in DOMAIN mem : mem'[a] # mem[a] =>
          \E c \in Cores : /\ call[c].op = "read"
                           /\ \/ call[c].failed
                              \/ \E va \in Addresses(call[c].buf) :
                                    PageOf(va) # {} /\ GuestPa(va) = a]_mem

\* CLOSE and OPEN never take the process's terminal away, and OPEN never gives
\* the guest a descriptor of the KVM device: "forbid to open the kvm device".
DescriptorsKept ==
    /\ \A d \in 0 .. 2 : d \in DOMAIN fds /\ fds[d] = "terminal"
    /\ \A d \in DOMAIN fds : fds[d] # Kvm

\* The blocks the guest sets aside by CMDSIZE hold what CMDVAL copies: every
\* string is whole, its end included, and no more strings are copied than the
\* arrays of uhyve_cmdsize_t have room for.
ArgsIntact ==
    strings # <<>> =>
        LET all == uhyve_argv \o uhyve_envp
            sz == sizes[1] \o sizes[2]
        IN  /\ Len(sizes[1]) <= MaxArgs /\ Len(sizes[2]) < MaxArgs
            /\ \A i \in DOMAIN all : \A o \in 0 .. all[i] :
                  strings[1][Start(sz, i) + o] = i

\* A transfer to or from mapped memory ends, unless a host call has failed.
CallEnds ==
    \A c \in Cores :
        (InCall(c) /\ Mapped(call[c].buf)) ~> (~ InCall(c) \/ call[c].failed)

-----------------------------------------------------------------------------
(* The inductive invariant. *)

\* A transfer none of whose host calls has failed: what is done and what is left
\* are the buffer, and the bytes done are those of its mapped addresses.
Progress(c) ==
    LET k == call[c]
    IN  /\ k.moved \in Seq(Nat) /\ Len(k.moved) = k.done
        /\ k.done + k.left <= k.buf.len
        /\ k.done + k.left = k.buf.len \/ (k.short /\ k.left = 0)
        /\ ~ stray => \A i \in 1 .. k.done :
                         LET va == k.buf.va + i - 1
                         IN  PageOf(va) # {} /\ k.moved[i] = mem[GuestPa(va)]

CallInv(c) ==
    LET k == call[c]
    IN  /\ k.op \in {"write", "read"} /\ k.buf \in Buffers /\ k.buf.len > 0
        /\ k.left \in 0 .. k.buf.len /\ k.done \in 0 .. WordMod - 1
        /\ k.portions \in 0 .. 2 /\ k.short \in BOOLEAN /\ k.failed \in BOOLEAN
        /\ ~ k.failed => Progress(c)
        /\ k.portions = 0 => ~ k.failed /\ k.done = 0
        /\ k.portions = 1 /\ k.failed => k.done = WordMod - 1

TransferInv ==
    /\ layout \in Setups /\ mem \in [0 .. PhysSize - 1 -> Nat]
    /\ input \in PhysSize .. PhysSize + FileSize /\ stray \in BOOLEAN
    /\ DOMAIN call = Cores
    /\ \A c \in Cores : /\ DOMAIN call[c] = DOMAIN Idle
                        /\ IF InCall(c) THEN CallInv(c) ELSE call[c] = Idle
    /\ \A c, d \in Cores : c # d /\ InCall(c) /\ InCall(d) =>
          Addresses(call[c].buf) \cap Addresses(call[d].buf) = {}

\* The command line: CMDVAL comes after CMDSIZE, and both see the same strings.
CmdInv ==
    /\ layout \in Setups
    /\ sizes # <<>> => sizes = <<Announced(uhyve_argv), Announced(uhyve_envp)>>
    /\ strings # <<>> => /\ sizes # <<>>
                         /\ strings = <<Copied(uhyve_argv \o uhyve_envp,
                                               sizes[1] \o sizes[2])>>
=============================================================================
