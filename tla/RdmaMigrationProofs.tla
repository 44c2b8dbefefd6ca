------------------------ MODULE RdmaMigrationProofs -------------------------
(***************************************************************************)
(* Proofs about module RdmaMigration: the notified destination has the     *)
(* memory of the stopped guest, and process_send_list waits for the whole  *)
(* list, for any memory, any limits of the adapter and any guest.          *)
(***************************************************************************)
EXTENDS RdmaMigration, TLAPS

-----------------------------------------------------------------------------
(* Arithmetic. *)

\* Quotient and remainder.
LEMMA DivMod ==
    ASSUME NEW m \in Nat \ {0}, NEW x \in Nat
    PROVE  /\ x \div m \in Nat /\ x % m \in 0 .. m - 1
           /\ x = m * (x \div m) + (x % m)
BY SMT

\* Multiples of m are at least m apart.
LEMMA Multiples ==
    ASSUME NEW m \in Nat \ {0}, NEW d \in Nat, NEW e \in Nat, d < e
    PROVE  m * d + m <= m * e
<1>1. PICK k \in Nat : e = d + 1 + k
  <2> WITNESS e - d - 1 \in Nat
  <2> QED OBVIOUS
<1>2. m * e = m * d + m + m * k
    BY <1>1, SMT
<1>3. m * k \in Nat /\ m * d \in Nat
    BY SMT
<1> QED BY <1>2, <1>3, SMT

\* The requests that ask for a completion are MaxSendWr apart.
LEMMA SignalSpacing ==
    /\ \A i \in 1 .. MaxSendWr - 1 : ~ Signaled(i)
    /\ Signaled(MaxSendWr)
    /\ \A i \in Nat : Signaled(i + MaxSendWr) = Signaled(i)
<1> DEFINE m == MaxSendWr
<1>0. m \in Nat \ {0}
    BY RdmaAssumption
<1>1. \A i \in 1 .. m - 1 : i % m # 0
    BY <1>0, SMT
<1>2. m % m = 0
    BY <1>0, SMT
<1>3. ASSUME NEW i \in Nat PROVE (i + m) % m = 0 <=> i % m = 0
  <2>1. PICK a \in Nat, r \in 0 .. m - 1 : i = m * a + r /\ r = i % m
      BY <1>0, DivMod
  <2>2. PICK j \in Nat : j = i + m
      BY <1>0, SMT
  <2>3. PICK b \in Nat, s \in 0 .. m - 1 : j = m * b + s /\ s = j % m
      BY <1>0, DivMod
  <2>4. PICK c \in Nat : c = a + 1
      BY SMT
  <2>5. PICK x \in Nat, y \in Nat, z \in Nat : x = m * c /\ y = m * b /\ z = m * a
      BY <1>0, SMT
  <2>6. x = z + m
      BY <1>0, <2>4, <2>5, SMT
  <2>7. x + r = y + s
    <3>1. i = z + r /\ j = y + s /\ j = i + m
        BY <2>1, <2>2, <2>3, <2>5
    <3> HIDE DEF m
    <3> QED BY <1>0, <2>6, <3>1
  <2>8. ~ (b < c) /\ ~ (c < b)
    <3> HIDE DEF m
    <3>1. b < c => y + m <= x
        BY <1>0, <2>5, Multiples
    <3>2. c < b => x + m <= y
        BY <1>0, <2>5, Multiples
    <3> QED BY <1>0, <2>7, <3>1, <3>2, SMT
  <2>9. r = s
      BY <2>5, <2>7, <2>8, SMT
  <2> QED BY <2>1, <2>2, <2>3, <2>9
<1> QED BY <1>0, <1>1, <1>2, <1>3 DEF Signaled

-----------------------------------------------------------------------------
(* Lists of work requests. *)

\* AppendWrs keeps the list and adds a request for every piece.
LEMMA AppendedWrs ==
    ASSUME NEW list \in Seq(Wrs), NEW pieces \in Seq(SUBSET Pages)
    PROVE  LET new == AppendWrs(list, pieces)
           IN  /\ new \in Seq(Wrs) /\ Len(new) = Len(list) + Len(pieces)
               /\ \A i \in 1 .. Len(list) : new[i] = list[i]
               /\ \A i \in 1 .. Len(pieces) :
                     new[Len(list) + i] = Wr(pieces[i], Signaled(Len(list) + i))
<1> DEFINE wrs == [i \in 1 .. Len(pieces) |-> Wr(pieces[i], Signaled(Len(list) + i))]
<1>1. \A i \in 1 .. Len(pieces) : wrs[i] \in Wrs
    BY DEF Wr, Signaled, Wrs
<1>2. wrs \in Seq(Wrs) /\ Len(wrs) = Len(pieces)
    BY <1>1
<1>3. AppendWrs(list, pieces) = list \o wrs
    BY DEF AppendWrs
<1> HIDE DEF wrs
<1>4. /\ list \o wrs \in Seq(Wrs) /\ Len(list \o wrs) = Len(list) + Len(wrs)
      /\ \A i \in 1 .. Len(list) : (list \o wrs)[i] = list[i]
      /\ \A i \in 1 .. Len(wrs) : (list \o wrs)[Len(list) + i] = wrs[i]
    BY <1>2
<1> QED BY <1>2, <1>3, <1>4 DEF wrs

\* MarkLast changes the last request only, and not its pages.
LEMMA MarkedLast ==
    ASSUME NEW list \in Seq(Wrs), list # <<>>, NEW imm \in BOOLEAN
    PROVE  LET new == MarkLast(list, imm)
           IN  /\ new \in Seq(Wrs) /\ Len(new) = Len(list) /\ Len(list) > 0
               /\ \A i \in 1 .. Len(list) - 1 : new[i] = list[i]
               /\ new[Len(list)] = [pages |-> list[Len(list)].pages,
                                    signaled |-> TRUE, id |-> "last", imm |-> imm]
<1> DEFINE n == Len(list)
           last == [pages |-> list[n].pages, signaled |-> TRUE, id |-> "last", imm |-> imm]
<1>1. n \in Nat /\ n > 0 /\ list[n] \in Wrs
    OBVIOUS
<1>3. MarkLast(list, imm) = [list EXCEPT ![n] = last]
    BY DEF MarkLast
<1>4. last \in Wrs
    BY <1>1 DEF Wrs
<1> HIDE DEF last
<1>5. LET new == [list EXCEPT ![n] = last]
      IN  /\ new \in Seq(Wrs) /\ Len(new) = n
          /\ \A i \in 1 .. n - 1 : new[i] = list[i]
          /\ new[n] = last
    BY <1>1, <1>4
<1> QED BY <1>1, <1>3, <1>5 DEF last

\* The messages that a region is split into cover it.
LEMMA PiecesCover ==
    ASSUME NEW chunk \in [ptr : Nat, size : Nat]
    PROVE  /\ Pieces(chunk) \in Seq(SUBSET PagesOf(chunk))
           /\ \A p \in PagesOf(chunk) :
                 \E i \in 1 .. Len(Pieces(chunk)) : p \in Pieces(chunk)[i]
<1> DEFINE m == MaxMsg
           w == chunk.size \div m
           r == chunk.size % m
           n == w + (IF r = 0 THEN 0 ELSE 1)
           piece(i) == PagesOf([ptr |-> chunk.ptr + (i - 1) * m,
                                size |-> IF i <= w THEN m ELSE r])
<1>0. m \in Nat \ {0} /\ chunk.ptr \in Nat /\ chunk.size \in Nat
    BY RdmaAssumption
<1>1. w \in Nat /\ r \in 0 .. m - 1 /\ chunk.size = m * w + r
    BY <1>0, DivMod
<1>2. Pieces(chunk) = [i \in 1 .. n |-> piece(i)] /\ n \in Nat
    BY <1>1 DEF Pieces
<1>3. ASSUME NEW i \in 1 .. n
      PROVE  piece(i) = chunk.ptr + m * (i - 1)
                           .. chunk.ptr + m * (i - 1) + (IF i <= w THEN m ELSE r) - 1
    BY <1>0, <1>1, SMT DEF PagesOf
<1> HIDE DEF m, w, r, n, piece
<1>4. ASSUME NEW i \in 1 .. n PROVE piece(i) \subseteq PagesOf(chunk)
  <2>1. PICK j \in Nat : j = i - 1
      BY <1>2
  <2>2. PICK x \in Nat, y \in Nat : x = m * j /\ y = m * w
      BY <1>0, <1>1, SMT
  <2>3. j <= w /\ (i <= w <=> j < w)
      BY <1>1, <1>2, <2>1 DEF n
  <2>4. j < w => x + m <= y
      BY <1>0, <1>1, <2>2, Multiples
  <2>5. j = w => x = y
      BY <2>2
  <2>6. piece(i) = chunk.ptr + x .. chunk.ptr + x + (IF i <= w THEN m ELSE r) - 1
      BY <1>3, <2>1, <2>2
  <2> QED BY <1>0, <1>1, <2>2, <2>3, <2>4, <2>5, <2>6 DEF PagesOf
<1>5. ASSUME NEW p \in PagesOf(chunk) PROVE \E i \in 1 .. n : p \in piece(i)
  <2>1. PICK o \in Nat : o = p - chunk.ptr /\ o < chunk.size
      BY <1>0 DEF PagesOf
  <2>2. PICK q \in Nat, s \in 0 .. m - 1 : o = m * q + s
      BY <1>0, DivMod
  <2>3. PICK x \in Nat, y \in Nat : x = m * q /\ y = m * w
      BY <1>0, <1>1, SMT
  <2>4. ~ (w < q)
    <3>1. w < q => y + m <= x
        BY <1>0, <1>1, <2>3, Multiples
    <3> QED BY <1>0, <1>1, <2>1, <2>2, <2>3, <3>1, SMT
  <2>5. q = w => s < r
      BY <1>0, <1>1, <2>1, <2>2, <2>3, SMT
  <2>6. PICK i \in 1 .. n : i = q + 1
      BY <1>1, <1>2, <2>4, <2>5 DEF n
  <2>7. piece(i) = chunk.ptr + x .. chunk.ptr + x + (IF i <= w THEN m ELSE r) - 1
    <3>1. i - 1 = q
        BY <2>6
    <3> QED BY <1>3, <2>3, <3>1
  <2>8. p = chunk.ptr + x + s /\ s < (IF i <= w THEN m ELSE r)
    <3>1. o = x + s /\ p \in Int
        BY <1>0, <2>2, <2>3 DEF PagesOf
    <3>2. p = chunk.ptr + x + s
        BY <1>0, <2>1, <2>3, <3>1
    <3>3. i <= w \/ q = w
        BY <1>1, <2>4, <2>6
    <3> QED BY <1>0, <2>5, <3>2, <3>3
  <2>9. p \in piece(i)
      BY <1>0, <1>1, <2>2, <2>3, <2>7, <2>8
  <2> QED BY <2>9
<1>6. Pieces(chunk) \in Seq(SUBSET PagesOf(chunk)) /\ Len(Pieces(chunk)) = n
    BY <1>2, <1>4
<1> QED BY <1>2, <1>5, <1>6

-----------------------------------------------------------------------------
(* What steps leave alone. *)

\* The parameters of a migration are among the settings.
LEMMA Parameters ==
    ASSUME TypeOK
    PROVE  /\ Registered \in Chunks /\ PagesIn(Registered) \subseteq Pages
           /\ mig_params.type \in {"cold", "live"} /\ full_checkpoint \in BOOLEAN
<1>1. PICK s \in Settings : /\ mig_params = [type |-> s.type, mode |-> s.mode]
                            /\ full_checkpoint = s.full /\ mem_mappings = s.list
    BY DEF TypeOK
<1>2. mem_mappings \in Chunks /\ PagesIn(mem_mappings) \subseteq Pages
    BY <1>1, RdmaAssumption
<1>3. GuestChunks \in Chunks /\ PagesIn(GuestChunks) \subseteq Pages
    BY RdmaAssumption DEF Pages
<1> QED BY <1>1, <1>2, <1>3, RdmaAssumption DEF Registered

\* The parameters never change.
LEMMA SameParams ==
    ASSUME UNCHANGED paramVars
    PROVE  Registered' = Registered /\ CompleteDump' = CompleteDump
BY DEF paramVars, Registered, CompleteDump

\* A page that stays on a list.
LEMMA SameLists ==
    ASSUME UNCHANGED <<send_list, sq>>, NEW p
    PROVE  Listed(p)' <=> Listed(p)
BY DEF Listed

\* A page that stays excepted.
LEMMA SameExcepted ==
    ASSUME UNCHANGED <<paramVars, touched, unmarked>>, NEW p
    PROVE  Excepted(p)' <=> Excepted(p)
BY DEF Excepted, CompleteDump, paramVars

\* At the start nothing is listed, and all pages are still to be copied.
LEMMA InvInit == Init => RdmaInv
<1> SUFFICES ASSUME Init PROVE RdmaInv
    OBVIOUS
<1>1. TypeOK
  <2>1. touched \subseteq Pages /\ accessed \subseteq touched /\ unmarked \subseteq touched
      BY DEF Init
  <2>2. send_list \in Seq(Wrs) /\ sq \in Seq(Wrs)
        /\ cq \in Seq([id : {"page", "last"}, slots : Nat])
      BY DEF Init
  <2>3. \E s \in Settings : /\ mig_params = [type |-> s.type, mode |-> s.mode]
                            /\ full_checkpoint = s.full /\ mem_mappings = s.list
      BY DEF Init
  <2>4. mem \in [Pages -> Nat] /\ dstMem \in [Pages -> Nat] /\ steps \in Nat
      BY DEF Init
  <2>5. depth \in Nat /\ held \in Int /\ held <= depth /\ idle \in Nat
      BY DEF Init
  <2> QED BY <2>1, <2>2, <2>3, <2>4, <2>5 DEF Init, TypeOK
<1>2. SourceInv /\ SignalInv /\ QueueInv
    BY DEF Init, SourceInv, SignalInv, QueueInv, AsRequested
<1>3. CopyInv
    BY DEF Init, CopyInv, Todo, Excepted
<1>4. EventInv
    BY DEF Init, EventInv
<1> QED BY <1>1, <1>2, <1>3, <1>4 DEF RdmaInv

\* The guest's accesses: a page that is changed is flagged or excepted.
LEMMA GuestKeeps == RdmaInv /\ Guest => RdmaInv'
<1> SUFFICES ASSUME RdmaInv, NEW p \in Pages,
                    GuestLoad(p) \/ GuestStore(p) \/ UnmarkedStore(p)
             PROVE  RdmaInv'
    BY DEF Guest
<1>i. TypeOK /\ SourceInv /\ CopyInv /\ EventInv /\ SignalInv /\ QueueInv
    BY DEF RdmaInv
<1>u. /\ running /\ running' = running
      /\ UNCHANGED <<paramVars, mig, listVars, setupVars, wc, hcaVars, dst, recvVars, dstMem>>
      /\ steps' = steps + 1
    BY DEF GuestLoad, GuestStore, UnmarkedStore
<1> USE <1>u DEF paramVars, listVars, setupVars, hcaVars, recvVars
<1>p. Registered' = Registered /\ CompleteDump' = CompleteDump
    BY SameParams
<1>t. PagesIn(Registered) \subseteq Pages /\ mig_params.type \in {"cold", "live"}
    BY <1>i, Parameters
<1>1. TypeOK'
    BY <1>i, <1>p DEF TypeOK, GuestLoad, GuestStore, UnmarkedStore
<1>2. SourceInv'
    BY <1>i, <1>p DEF SourceInv
<1>3. CopyInv'
  <2>1. ASSUME NEW q \in PagesIn(Registered),
               dstMem[q] = mem[q] \/ Listed(q) \/ Todo(q) \/ Excepted(q),
               qp = "ok", mig \notin {"done", "exit"}
        PROVE  dstMem'[q] = mem'[q] \/ Listed(q)' \/ Todo(q)' \/ Excepted(q)'
    <3>1. CASE q = p /\ ~ UnmarkedStore(p)
        BY <3>1 DEF GuestLoad, GuestStore, Todo
    <3>2. CASE q = p /\ UnmarkedStore(p) /\ mig_params.type = "live" /\ ~ full_checkpoint
        BY <3>2 DEF UnmarkedStore, Excepted
    <3>3. CASE q = p /\ UnmarkedStore(p) /\ (mig_params.type = "cold" \/ full_checkpoint)
        BY <1>i, <3>3 DEF UnmarkedStore, Todo, CopyInv
    <3>4. CASE q # p
      <4>1. mem'[q] = mem[q] /\ (q \in accessed' <=> q \in accessed)
            /\ (q \in touched' <=> q \in touched) /\ (q \in unmarked' <=> q \in unmarked)
          BY <1>i, <1>t, <3>4 DEF TypeOK, GuestLoad, GuestStore, UnmarkedStore
      <4>2. Listed(q)' <=> Listed(q)
          BY SameLists
      <4> QED BY <1>p, <2>1, <4>1, <4>2 DEF Todo, Excepted
    <3> QED BY <1>t, <3>1, <3>2, <3>3, <3>4
  <2>2. touched \subseteq accessed => touched' \subseteq accessed'
      BY DEF GuestLoad, GuestStore, UnmarkedStore
  <2> QED BY <1>i, <1>p, <2>1, <2>2 DEF CopyInv
<1>4. EventInv'
    BY <1>i DEF EventInv
<1>5. SignalInv' /\ QueueInv'
    BY <1>i DEF SignalInv, QueueInv, AsRequested, NextId
<1> QED BY <1>1, <1>2, <1>3, <1>4, <1>5 DEF RdmaInv


\* Steps of both sides that neither touch a list nor the memory.
LEMMA MoveKeeps ==
    /\ RdmaInv
    /\ \/ InitCom \/ CreateQp \/ Exchange("src") \/ ConComBuf \/ NextRound \/ LastRound
       \/ StopVcpus \/ EnqueueAllMrs \/ FinalScan \/ RoundSent
       \/ DstInitCom \/ Exchange("dst") \/ DstConComBuf \/ ReqNotify \/ PostRecv
       \/ GetCqEvent \/ DstAbort
    => RdmaInv'
<1> SUFFICES
      ASSUME RdmaInv,
             \/ InitCom \/ CreateQp \/ Exchange("src") \/ ConComBuf \/ NextRound
             \/ LastRound \/ StopVcpus \/ EnqueueAllMrs \/ FinalScan \/ RoundSent
             \/ DstInitCom \/ Exchange("dst") \/ DstConComBuf \/ ReqNotify \/ PostRecv
             \/ GetCqEvent \/ DstAbort
      PROVE  RdmaInv'
    OBVIOUS
<1>i. TypeOK /\ SourceInv /\ CopyInv /\ EventInv /\ SignalInv /\ QueueInv
    BY DEF RdmaInv
<1>u. UNCHANGED <<mem, steps, accessed, touched, unmarked, paramVars, send_list, wc,
                  hcaVars, event, dstMem>>
    BY DEF InitCom, CreateQp, Exchange, ConComBuf, NextRound, LastRound, StopVcpus,
           EnqueueAllMrs, FinalScan, RoundSent, DstInitCom, DstConComBuf, ReqNotify,
           PostRecv, GetCqEvent, DstAbort, guestVars, listVars, recvVars
<1> USE <1>u DEF paramVars, hcaVars
<1>p. Registered' = Registered /\ CompleteDump' = CompleteDump
    BY SameParams
<1>l. \A p : (Listed(p)' <=> Listed(p)) /\ (Excepted(p)' <=> Excepted(p))
    BY SameLists, SameExcepted
<1>t. PagesIn(Registered) \subseteq Pages /\ mig_params.type \in {"cold", "live"}
    BY <1>i, Parameters
<1>d. \/ UNCHANGED <<mig, running, scan, mrs, depth>>
      \/ (InitCom /\ UNCHANGED <<running, scan, depth>>)
      \/ (CreateQp /\ UNCHANGED <<running, scan, mrs>>)
      \/ ((ConComBuf \/ LastRound \/ RoundSent) /\ UNCHANGED <<running, scan, mrs, depth>>)
      \/ ((NextRound \/ EnqueueAllMrs \/ FinalScan) /\ UNCHANGED <<running, mrs, depth>>)
      \/ (StopVcpus /\ UNCHANGED <<scan, mrs, depth>>)
  <2>1. CASE Exchange("src") \/ Exchange("dst")
      BY <2>1 DEF Exchange, guestVars, listVars
  <2>2. CASE DstInitCom \/ DstConComBuf \/ ReqNotify \/ PostRecv \/ GetCqEvent \/ DstAbort
      BY <2>2 DEF DstInitCom, DstConComBuf, ReqNotify, PostRecv, GetCqEvent, DstAbort,
         guestVars, listVars, setupVars
  <2>3. CASE \/ InitCom \/ CreateQp \/ ConComBuf \/ NextRound \/ LastRound \/ StopVcpus
             \/ EnqueueAllMrs \/ FinalScan \/ RoundSent
      BY <2>3 DEF InitCom, CreateQp, ConComBuf, NextRound, LastRound, StopVcpus,
         EnqueueAllMrs, FinalScan, RoundSent, guestVars, listVars, setupVars
  <2> QED BY <2>1, <2>2, <2>3
<1>e. /\ dst' = dst \/ dst' \in {"exchange", "notify", "post", "wait", "exit"}
           \/ (event /\ dst' = "received")
      /\ recv_wr' \in {recv_wr, TRUE} /\ armed' \in {armed, TRUE}
  <2>1. CASE Exchange("src") \/ Exchange("dst")
      BY <2>1 DEF Exchange, recvVars
  <2>2. CASE ~ (Exchange("src") \/ Exchange("dst"))
      BY <2>2 DEF InitCom, CreateQp, ConComBuf, NextRound, LastRound, StopVcpus,
         EnqueueAllMrs, FinalScan, RoundSent, DstInitCom, DstConComBuf, ReqNotify,
         PostRecv, GetCqEvent, DstAbort, recvVars
  <2> QED BY <2>1, <2>2
<1>a. \A d \in Depths : d \in Nat
    BY RdmaAssumption
<1>1. TypeOK'
  <2>1. mrs' \in {<<>>, Registered} /\ running' \in BOOLEAN
      BY <1>i, <1>d DEF TypeOK, InitCom, StopVcpus
  <2>2. depth' \in Nat /\ held <= depth'
      BY <1>i, <1>d, <1>a DEF TypeOK, CreateQp, QueueInv
  <2>3. mig' \in {"init", "qp", "exchange", "loop", "scan", "stop", "copy", "enqueue",
                  "post", "poll", "sent", "done", "exit"}
      BY <1>i, <1>d DEF TypeOK, InitCom, CreateQp, ConComBuf, LastRound, RoundSent,
         NextRound, EnqueueAllMrs, FinalScan, StopVcpus
  <2> QED BY <1>i, <1>p, <1>e, <2>1, <2>2, <2>3 DEF TypeOK
<1>2. SourceInv'
    BY <1>i, <1>p, <1>d, <1>t DEF SourceInv, InitCom, CreateQp, ConComBuf, LastRound,
       RoundSent, NextRound, EnqueueAllMrs, FinalScan, StopVcpus, CompleteDump
<1>3. CopyInv'
  <2>1. ASSUME NEW q \in PagesIn(Registered), Todo(q) PROVE Todo(q)' \/ Excepted(q)
    <3>1. CASE EnqueueAllMrs
      <4>1. \E r \in DOMAIN mrs : q \in PagesOf(mrs[r])
          BY <1>i, <3>1 DEF EnqueueAllMrs, SourceInv, PagesIn
      <4> QED BY <3>1, <4>1, <1>d DEF EnqueueAllMrs, Todo, setupVars
    <3>2. CASE ~ EnqueueAllMrs
        BY <1>i, <1>p, <1>d, <1>t, <2>1, <3>2 DEF Todo, SourceInv, InitCom, CreateQp,
           ConComBuf, LastRound, RoundSent, NextRound, FinalScan, StopVcpus, CompleteDump,
           TypeOK
    <3> QED BY <3>1, <3>2
  <2>2. (running' \/ mig' = "copy") => (running \/ mig = "copy")
      BY <1>i, <1>d DEF SourceInv, InitCom, CreateQp, ConComBuf, LastRound, RoundSent, NextRound,
         EnqueueAllMrs, FinalScan, StopVcpus
  <2>3. mig' \notin {"done", "exit"} => mig \notin {"done", "exit"}
      BY <1>d DEF InitCom, CreateQp, ConComBuf, LastRound, RoundSent, NextRound,
         EnqueueAllMrs, FinalScan, StopVcpus
  <2> QED BY <1>i, <1>p, <1>l, <2>1, <2>2, <2>3 DEF CopyInv
<1>4. EventInv'
  <2>1. running' => running
      BY <1>d DEF StopVcpus
  <2> QED BY <1>i, <1>p, <1>l, <1>e, <2>1 DEF EventInv
<1>5. SignalInv'
    BY <1>i, <1>d DEF SignalInv, SourceInv, AsRequested, InitCom, CreateQp, ConComBuf,
       LastRound, RoundSent, NextRound, EnqueueAllMrs, FinalScan, StopVcpus
<1>6. QueueInv'
    BY <1>i, <1>d DEF QueueInv, AsRequested, NextId, InitCom, CreateQp, ConComBuf,
       LastRound, RoundSent, NextRound, EnqueueAllMrs, FinalScan, StopVcpus
<1> QED BY <1>1, <1>2, <1>3, <1>4, <1>5, <1>6 DEF RdmaInv

-----------------------------------------------------------------------------
(* Making a list. *)

\* A list under construction gets more requests.
LEMMA Growing ==
    ASSUME TypeOK, SourceInv, SignalInv, mig \in {"scan", "enqueue"},
           NEW pieces \in Seq(SUBSET Pages),
           send_list' = AppendWrs(send_list, pieces), sq' = sq
    PROVE  /\ send_list' \in Seq(Wrs)
           /\ \A i \in DOMAIN send_list' :
                 /\ ~ send_list'[i].imm
                 /\ send_list'[i].signaled = Signaled(i) /\ send_list'[i].id = "page"
           /\ \A p : Listed(p) => Listed(p)'
           /\ \A i \in 1 .. Len(pieces) : \A p \in pieces[i] : Listed(p)'
<1> DEFINE n == Len(send_list)
<1>1. send_list \in Seq(Wrs) /\ n \in Nat /\ DOMAIN send_list = 1 .. n /\ Len(pieces) \in Nat
    BY DEF TypeOK
<1>2. /\ send_list' \in Seq(Wrs) /\ Len(send_list') = n + Len(pieces)
      /\ \A i \in 1 .. n : send_list'[i] = send_list[i]
      /\ \A i \in 1 .. Len(pieces) :
            send_list'[n + i] = Wr(pieces[i], Signaled(n + i))
    BY <1>1, AppendedWrs
<1>3. DOMAIN send_list' = 1 .. n + Len(pieces)
    BY <1>1, <1>2
<1>4. \A i \in 1 .. n : /\ ~ send_list[i].imm /\ send_list[i].id = "page"
                        /\ send_list[i].signaled = Signaled(i)
  <2>1. \A i \in 1 .. n : send_list[i] \in Wrs
      BY <1>1
  <2> QED BY <1>1, <2>1 DEF SourceInv, SignalInv, Wrs
<1>5. ASSUME NEW i \in DOMAIN send_list'
      PROVE  /\ ~ send_list'[i].imm
             /\ send_list'[i].signaled = Signaled(i) /\ send_list'[i].id = "page"
  <2>1. CASE i <= n
      BY <1>1, <1>2, <1>3, <1>4, <2>1
  <2>2. CASE i > n
    <3>1. PICK k \in 1 .. Len(pieces) : i = n + k
      <4>1. i - n \in 1 .. Len(pieces) /\ i = n + (i - n)
          BY <1>1, <1>3, <2>2
      <4> QED BY <4>1
    <3>2. send_list'[i] = Wr(pieces[k], Signaled(i))
        BY <1>2, <3>1
    <3> QED BY <3>2 DEF Wr
  <2> QED BY <1>1, <1>3, <2>1, <2>2
<1>6. ASSUME NEW p, Listed(p) PROVE Listed(p)'
    BY <1>1, <1>2, <1>3, <1>6 DEF Listed
<1>7. ASSUME NEW i \in 1 .. Len(pieces), NEW p \in pieces[i] PROVE Listed(p)'
  <2>0. n + i \in DOMAIN send_list' /\ send_list'[n + i] = Wr(pieces[i], Signaled(n + i))
      BY <1>1, <1>2, <1>3
  <2>1. p \in send_list'[n + i].pages
      BY <2>0 DEF Wr
  <2> QED BY <2>0, <2>1 DEF Listed
<1> QED BY <1>2, <1>5, <1>6, <1>7

\* The scan of a page: its flag is cleared only if it gets on the list.
LEMMA ScanPageKeeps == RdmaInv /\ ScanPage => RdmaInv'
<1> SUFFICES ASSUME RdmaInv, ScanPage PROVE RdmaInv'
    OBVIOUS
<1>0. PICK p : p = Min(scan)
    OBVIOUS
<1>i. TypeOK /\ SourceInv /\ CopyInv /\ EventInv /\ SignalInv /\ QueueInv
    BY DEF RdmaInv
<1>u. /\ mig = "scan" /\ scan' = scan \ {p}
      /\ accessed' = IF full_checkpoint THEN accessed ELSE accessed \ {p}
      /\ send_list' = IF p \in accessed THEN WithEntry(send_list, p) ELSE send_list
      /\ UNCHANGED <<mem, steps, touched, unmarked, running, paramVars, mig, mig_round,
                     setupVars, wc, hcaVars, dst, recvVars, dstMem>>
    BY <1>0 DEF ScanPage
<1> USE <1>u DEF paramVars, setupVars, hcaVars, recvVars
<1>p. Registered' = Registered /\ CompleteDump' = CompleteDump
    BY SameParams
<1>t. PagesIn(Registered) \subseteq Pages /\ mig_params.type \in {"cold", "live"}
    BY <1>i, Parameters
<1>m. mrs = Registered
    BY <1>i DEF SourceInv
<1>g. /\ send_list' \in Seq(Wrs)
      /\ \A i \in DOMAIN send_list' :
            /\ ~ send_list'[i].imm
            /\ send_list'[i].signaled = Signaled(i) /\ send_list'[i].id = "page"
      /\ \A q : Listed(q) => Listed(q)'
      /\ p \in accessed /\ p \in PagesIn(Registered) => Listed(p)'
  <2>1. CASE p \in accessed /\ p \in PagesIn(Registered)
    <3>1. send_list' = AppendWrs(send_list, <<{p}>>)
        BY <1>m, <2>1 DEF WithEntry
    <3>2. <<{p}>> \in Seq(SUBSET Pages) /\ Len(<<{p}>>) = 1 /\ p \in <<{p}>>[1]
        BY <1>t, <2>1
    <3>3. PICK pieces \in Seq(SUBSET Pages) : pieces = <<{p}>>
        BY <3>2
    <3>4. /\ send_list' \in Seq(Wrs)
          /\ \A i \in DOMAIN send_list' :
                /\ ~ send_list'[i].imm
                /\ send_list'[i].signaled = Signaled(i) /\ send_list'[i].id = "page"
          /\ \A q : Listed(q) => Listed(q)'
          /\ \A i \in 1 .. Len(pieces) : \A q \in pieces[i] : Listed(q)'
        BY <1>i, <3>1, <3>3, Growing
    <3>5. 1 \in 1 .. Len(pieces) /\ p \in pieces[1]
        BY <3>2, <3>3
    <3> QED BY <3>4, <3>5
  <2>2. CASE ~ (p \in accessed /\ p \in PagesIn(Registered))
    <3>1. send_list' = send_list
        BY <1>m, <2>2 DEF WithEntry
    <3>2. \A i \in DOMAIN send_list : send_list[i] \in Wrs
        BY <1>i DEF TypeOK
    <3>3. \A q : Listed(q) => Listed(q)'
        BY <3>1, SameLists
    <3> QED BY <1>i, <2>2, <3>1, <3>2, <3>3 DEF TypeOK, SourceInv, SignalInv, Wrs
  <2> QED BY <2>1, <2>2
<1>1. TypeOK'
    BY <1>i, <1>p, <1>g DEF TypeOK
<1>2. SourceInv'
    BY <1>i, <1>p, <1>g DEF SourceInv
<1>3. CopyInv'
  <2>1. ASSUME NEW q \in PagesIn(Registered),
               dstMem[q] = mem[q] \/ Listed(q) \/ Todo(q) \/ Excepted(q)
        PROVE  dstMem'[q] = mem'[q] \/ Listed(q)' \/ Todo(q)' \/ Excepted(q)'
    <3>1. CASE q = p /\ p \in accessed
        BY <1>g, <3>1
    <3>2. CASE ~ (q = p /\ p \in accessed)
      <4>1. Todo(q) => Todo(q)'
          BY <1>p, <3>2 DEF Todo
      <4>2. Excepted(q)' <=> Excepted(q)
          BY SameExcepted
      <4> QED BY <1>g, <2>1, <4>1, <4>2
    <3> QED BY <3>1, <3>2
  <2>2. (mig_params.type = "cold" \/ full_checkpoint) /\ running => full_checkpoint
      BY <1>i DEF SourceInv
  <2> QED BY <1>i, <1>p, <2>1, <2>2 DEF CopyInv
<1>4. EventInv'
  <2>1. \A q : Excepted(q)' <=> Excepted(q)
      BY SameExcepted
  <2> QED BY <1>i, <1>p, <2>1 DEF EventInv
<1>5. SignalInv'
    BY <1>g DEF SignalInv
<1>6. QueueInv'
    BY <1>i DEF QueueInv, AsRequested
<1> QED BY <1>1, <1>2, <1>3, <1>4, <1>5, <1>6 DEF RdmaInv

\* A region is listed as a whole.
LEMMA EnqueueMrKeeps == RdmaInv /\ EnqueueMr => RdmaInv'
<1> SUFFICES ASSUME RdmaInv, EnqueueMr PROVE RdmaInv'
    OBVIOUS
<1>i. TypeOK /\ SourceInv /\ CopyInv /\ EventInv /\ SignalInv /\ QueueInv
    BY DEF RdmaInv
<1>r. PICK r \in scan : /\ scan' = scan \ {r}
                        /\ send_list' = AppendWrs(send_list, Pieces(mrs[r]))
    BY DEF EnqueueMr
<1>u. /\ mig = "enqueue"
      /\ UNCHANGED <<guestVars, paramVars, mig, mig_round, setupVars, wc, hcaVars, dst,
                     recvVars, dstMem>>
    BY DEF EnqueueMr
<1> USE <1>u DEF guestVars, paramVars, setupVars, hcaVars, recvVars
<1>p. Registered' = Registered /\ CompleteDump' = CompleteDump
    BY SameParams
<1>t. PagesIn(Registered) \subseteq Pages /\ Registered \in Chunks
    BY <1>i, Parameters
<1>m. mrs = Registered /\ scan \subseteq DOMAIN mrs /\ ~ running
    BY <1>i DEF SourceInv
<1>c. mrs[r] \in [ptr : Nat, size : Nat] /\ PagesOf(mrs[r]) \subseteq Pages
  <2>1. mrs \in Seq([ptr : Nat, size : Nat]) /\ r \in DOMAIN mrs
      BY <1>t, <1>m DEF Chunks
  <2>2. PagesOf(mrs[r]) \subseteq PagesIn(mrs)
      BY <2>1 DEF PagesIn
  <2>3. mrs[r] \in [ptr : Nat, size : Nat]
    <3>1. ASSUME NEW S, NEW list \in Seq(S), NEW i \in DOMAIN list PROVE list[i] \in S
        OBVIOUS
    <3> QED BY <2>1, <3>1
  <2>4. PagesIn(mrs) \subseteq Pages
      BY <1>t, <1>m
  <2> QED BY <2>2, <2>3, <2>4
<1>q. /\ Pieces(mrs[r]) \in Seq(SUBSET Pages)
      /\ \A q \in PagesOf(mrs[r]) :
            \E i \in 1 .. Len(Pieces(mrs[r])) : q \in Pieces(mrs[r])[i]
  <2>1. /\ Pieces(mrs[r]) \in Seq(SUBSET PagesOf(mrs[r]))
        /\ \A q \in PagesOf(mrs[r]) :
              \E i \in 1 .. Len(Pieces(mrs[r])) : q \in Pieces(mrs[r])[i]
      BY <1>c, PiecesCover
  <2>2. SUBSET PagesOf(mrs[r]) \subseteq SUBSET Pages
      BY <1>c
  <2> QED BY <2>1, <2>2
<1>g. /\ send_list' \in Seq(Wrs)
      /\ \A i \in DOMAIN send_list' :
            /\ ~ send_list'[i].imm
            /\ send_list'[i].signaled = Signaled(i) /\ send_list'[i].id = "page"
      /\ \A q : Listed(q) => Listed(q)'
      /\ \A q \in PagesOf(mrs[r]) : Listed(q)'
    BY <1>i, <1>r, <1>q, Growing
<1>1. TypeOK'
    BY <1>i, <1>p, <1>g DEF TypeOK
<1>2. SourceInv'
    BY <1>i, <1>p, <1>g, <1>r DEF SourceInv
<1>3. CopyInv'
  <2>1. ASSUME NEW q \in PagesIn(Registered),
               dstMem[q] = mem[q] \/ Listed(q) \/ Todo(q) \/ Excepted(q)
        PROVE  dstMem'[q] = mem'[q] \/ Listed(q)' \/ Todo(q)' \/ Excepted(q)'
    <3>1. Todo(q) => Todo(q)' \/ Listed(q)'
        BY <1>g, <1>m, <1>r DEF Todo
    <3>2. Excepted(q)' <=> Excepted(q)
        BY SameExcepted
    <3> QED BY <1>g, <2>1, <3>1, <3>2
  <2> QED BY <1>i, <1>p, <1>m, <2>1 DEF CopyInv
<1>4. EventInv'
  <2>1. \A q : Excepted(q)' <=> Excepted(q)
      BY SameExcepted
  <2> QED BY <1>i, <1>p, <2>1 DEF EventInv
<1>5. SignalInv'
    BY <1>g DEF SignalInv
<1>6. QueueInv'
    BY <1>i DEF QueueInv, AsRequested
<1> QED BY <1>1, <1>2, <1>3, <1>4, <1>5, <1>6 DEF RdmaInv

\* The list is finished: its last request is signalled, and may notify.
LEMMA Finished ==
    ASSUME NEW list \in Seq(Wrs), list # <<>>, NEW imm \in BOOLEAN,
           \A i \in DOMAIN list : /\ ~ list[i].imm /\ list[i].id = "page"
                                  /\ list[i].signaled = Signaled(i)
    PROVE  LET new == MarkLast(list, imm)
           IN  /\ new \in Seq(Wrs) /\ new # <<>>
               /\ \A i \in DOMAIN new :
                     /\ new[i].imm => imm /\ i = Len(new)
                     /\ new[i].signaled = (Signaled(i) \/ i = Len(new))
                     /\ new[i].id = IF i = Len(new) THEN "last" ELSE "page"
               /\ \A p : (\E i \in DOMAIN list : p \in list[i].pages)
                            => \E i \in DOMAIN new : p \in new[i].pages
<1>0. PICK new : new = MarkLast(list, imm)
    OBVIOUS
<1>1. /\ new \in Seq(Wrs) /\ Len(new) = Len(list) /\ Len(list) \in Nat \ {0}
      /\ \A i \in 1 .. Len(list) - 1 : new[i] = list[i]
      /\ new[Len(list)] = [pages |-> list[Len(list)].pages,
                           signaled |-> TRUE, id |-> "last", imm |-> imm]
    BY <1>0, MarkedLast
<1>2. DOMAIN new = 1 .. Len(list) /\ DOMAIN list = 1 .. Len(list) /\ new # <<>>
    BY <1>1
<1>3. new[Len(list)].pages = list[Len(list)].pages /\ new[Len(list)].signaled = TRUE
      /\ new[Len(list)].id = "last" /\ new[Len(list)].imm = imm
    BY <1>1
<1>4. ASSUME NEW i \in DOMAIN new
      PROVE  /\ new[i].imm => imm /\ i = Len(new)
             /\ new[i].signaled = (Signaled(i) \/ i = Len(new))
             /\ new[i].id = IF i = Len(new) THEN "last" ELSE "page"
             /\ new[i].pages = list[i].pages
  <2>1. CASE i = Len(list)
      BY <1>1, <1>3, <2>1
  <2>2. CASE i # Len(list)
    <3>1. i \in 1 .. Len(list) - 1
        BY <1>1, <1>2, <2>2
    <3>2. new[i] = list[i] /\ i \in DOMAIN list /\ i # Len(new)
        BY <1>1, <1>2, <2>2, <3>1
    <3>3. Signaled(i) \in BOOLEAN
        BY DEF Signaled
    <3> QED BY <3>2, <3>3
  <2> QED BY <2>1, <2>2
<1> QED BY <1>0, <1>1, <1>2, <1>4

\* A round's list is complete, or there is nothing to send.
LEMMA ScanEndsKeeps == RdmaInv /\ ScanEnds => RdmaInv'
<1> SUFFICES ASSUME RdmaInv, ScanEnds PROVE RdmaInv'
    OBVIOUS
<1>i. TypeOK /\ SourceInv /\ CopyInv /\ EventInv /\ SignalInv /\ QueueInv
    BY DEF RdmaInv
<1>u. /\ mig = "scan" /\ running
      /\ UNCHANGED <<guestVars, paramVars, mig_round, scan, setupVars, wc, hcaVars, dst,
                     recvVars, dstMem>>
    BY DEF ScanEnds
<1> USE <1>u DEF guestVars, paramVars, setupVars, hcaVars, recvVars
<1>p. Registered' = Registered /\ CompleteDump' = CompleteDump
    BY SameParams
<1>w. \A i \in DOMAIN send_list : send_list[i] \in Wrs
    BY <1>i DEF TypeOK
<1>m. \/ mig' = "stop" /\ send_list = <<>> /\ send_list' = <<>>
      \/ /\ mig' = "post" /\ send_list' # <<>>
         /\ \A i \in DOMAIN send_list' :
               /\ ~ send_list'[i].imm
               /\ send_list'[i].signaled = (Signaled(i) \/ i = Len(send_list'))
               /\ send_list'[i].id = IF i = Len(send_list') THEN "last" ELSE "page"
  <2>1. CASE send_list # <<>>
    <3>1. \A i \in DOMAIN send_list : /\ ~ send_list[i].imm /\ send_list[i].id = "page"
                                      /\ send_list[i].signaled = Signaled(i)
        BY <1>i, <1>w DEF SourceInv, SignalInv, Wrs
    <3>2. mig' = "post" /\ send_list' = MarkLast(send_list, FALSE) /\ send_list \in Seq(Wrs)
        BY <1>i, <2>1 DEF ScanEnds, TypeOK
    <3> QED BY <2>1, <3>1, <3>2, Finished
  <2>2. CASE send_list = <<>>
      BY <2>2 DEF ScanEnds
  <2> QED BY <2>1, <2>2
<1>l. send_list' \in Seq(Wrs) /\ \A p : Listed(p) => Listed(p)'
  <2>1. CASE send_list # <<>>
    <3>1. \A i \in DOMAIN send_list : /\ ~ send_list[i].imm /\ send_list[i].id = "page"
                                      /\ send_list[i].signaled = Signaled(i)
        BY <1>i, <1>w DEF SourceInv, SignalInv, Wrs
    <3>2. send_list' = MarkLast(send_list, FALSE) /\ send_list \in Seq(Wrs)
        BY <1>i, <2>1 DEF ScanEnds, TypeOK
    <3>3. /\ send_list' \in Seq(Wrs)
          /\ \A p : (\E i \in DOMAIN send_list : p \in send_list[i].pages)
                       => \E i \in DOMAIN send_list' : p \in send_list'[i].pages
        BY <2>1, <3>1, <3>2, Finished
    <3> QED BY <3>3 DEF Listed
  <2>2. CASE send_list = <<>>
      BY <1>i, <2>2, SameLists DEF ScanEnds, TypeOK
  <2> QED BY <2>1, <2>2
<1>1. TypeOK'
    BY <1>i, <1>p, <1>m, <1>l DEF TypeOK
<1>2. SourceInv'
    BY <1>i, <1>p, <1>m DEF SourceInv
<1>3. CopyInv'
  <2>1. ASSUME NEW q PROVE Todo(q) => Todo(q)'
      BY <1>p DEF Todo
  <2>2. \A q : Excepted(q)' <=> Excepted(q)
      BY SameExcepted
  <2> QED BY <1>i, <1>p, <1>l, <2>1, <2>2 DEF CopyInv
<1>4. EventInv'
    BY <1>i DEF EventInv
<1>5. SignalInv'
    BY <1>m DEF SignalInv
<1>6. QueueInv'
    BY <1>i, <1>m DEF QueueInv, AsRequested
<1> QED BY <1>1, <1>2, <1>3, <1>4, <1>5, <1>6 DEF RdmaInv

\* The last list is complete: nothing is left to be listed.
LEMMA FinishListKeeps == RdmaInv /\ FinishList => RdmaInv'
<1> SUFFICES ASSUME RdmaInv, FinishList PROVE RdmaInv'
    OBVIOUS
<1>i. TypeOK /\ SourceInv /\ CopyInv /\ EventInv /\ SignalInv /\ QueueInv
    BY DEF RdmaInv
<1>u. /\ mig \in {"scan", "enqueue"} /\ scan = {} /\ ~ running /\ mig' = "post"
      /\ UNCHANGED <<guestVars, paramVars, mig_round, scan, setupVars, wc, hcaVars, dst,
                     recvVars, dstMem>>
    BY DEF FinishList
<1> USE <1>u DEF guestVars, paramVars, setupVars, hcaVars, recvVars
<1>p. Registered' = Registered /\ CompleteDump' = CompleteDump
    BY SameParams
<1>0. PICK list : list = IF send_list = <<>> THEN AppendWrs(<<>>, <<{}>>) ELSE send_list
    OBVIOUS
<1>a. send_list' = MarkLast(list, TRUE)
    BY <1>0 DEF FinishList
<1>b. /\ list \in Seq(Wrs) /\ list # <<>>
      /\ \A i \in DOMAIN list : /\ ~ list[i].imm /\ list[i].id = "page"
                                /\ list[i].signaled = Signaled(i)
  <2>1. CASE send_list # <<>>
    <3>1. \A i \in DOMAIN send_list : send_list[i] \in Wrs
        BY <1>i DEF TypeOK
    <3> QED BY <1>i, <1>0, <2>1, <3>1 DEF SourceInv, SignalInv, Wrs, TypeOK
  <2>2. CASE send_list = <<>>
    <3>0. <<>> \in Seq(Wrs) /\ <<{}>> \in Seq(SUBSET Pages)
          /\ Len(<<>>) = 0 /\ Len(<<{}>>) = 1
        OBVIOUS
    <3>1. PICK empty \in Seq(Wrs) : empty = <<>> /\ Len(empty) = 0
        BY <3>0
    <3>2. PICK one \in Seq(SUBSET Pages) : one = <<{}>> /\ Len(one) = 1
        BY <3>0
    <3>3. list = AppendWrs(empty, one)
        BY <1>0, <2>2, <3>1, <3>2
    <3>4. list \in Seq(Wrs) /\ Len(list) = 1 /\ list[1] = Wr(one[1], Signaled(1))
      <4>1. /\ list \in Seq(Wrs) /\ Len(list) = Len(empty) + Len(one)
            /\ \A i \in 1 .. Len(one) :
                  list[Len(empty) + i] = Wr(one[i], Signaled(Len(empty) + i))
          BY <3>3, AppendedWrs
      <4>2. 1 \in 1 .. Len(one) /\ Len(empty) + 1 = 1
          BY <3>1, <3>2
      <4> QED BY <3>1, <3>2, <4>1, <4>2
    <3>5. DOMAIN list = {1} /\ list # <<>>
        BY <3>4
    <3> QED BY <3>4, <3>5 DEF Wr
  <2> QED BY <2>1, <2>2
<1>m. /\ send_list' \in Seq(Wrs) /\ send_list' # <<>>
      /\ \A i \in DOMAIN send_list' :
            /\ send_list'[i].imm => i = Len(send_list')
            /\ send_list'[i].signaled = (Signaled(i) \/ i = Len(send_list'))
            /\ send_list'[i].id = IF i = Len(send_list') THEN "last" ELSE "page"
      /\ \A p : (\E i \in DOMAIN list : p \in list[i].pages)
                   => \E i \in DOMAIN send_list' : p \in send_list'[i].pages
    BY <1>a, <1>b, Finished
<1>l. \A p : Listed(p) => Listed(p)'
  <2>1. \A p : (\E i \in DOMAIN send_list : p \in send_list[i].pages)
                  => \E i \in DOMAIN list : p \in list[i].pages
      BY <1>0
  <2> QED BY <1>m, <2>1 DEF Listed
<1>1. TypeOK'
    BY <1>i, <1>p, <1>m DEF TypeOK
<1>2. SourceInv'
    BY <1>i, <1>p, <1>m DEF SourceInv
<1>3. CopyInv'
  <2>1. \A q : ~ Todo(q)
      BY DEF Todo
  <2>2. \A q : Excepted(q)' <=> Excepted(q)
      BY SameExcepted
  <2> QED BY <1>i, <1>p, <1>l, <2>1, <2>2 DEF CopyInv
<1>4. EventInv'
  <2>1. \A q : Excepted(q)' <=> Excepted(q)
      BY SameExcepted
  <2> QED BY <1>i, <1>p, <2>1 DEF EventInv
<1>5. SignalInv'
    BY <1>m DEF SignalInv
<1>6. QueueInv'
    BY <1>i, <1>m DEF QueueInv, AsRequested
<1> QED BY <1>1, <1>2, <1>3, <1>4, <1>5, <1>6 DEF RdmaInv

-----------------------------------------------------------------------------
(* The queues. *)

\* A list is cut in two.
LEMMA Cut ==
    ASSUME NEW S, NEW s \in Seq(S), NEW k \in 0 .. Len(s)
    PROVE  /\ SubSeq(s, 1, k) \in Seq(S) /\ Len(SubSeq(s, 1, k)) = k
           /\ \A i \in 1 .. k : SubSeq(s, 1, k)[i] = s[i]
           /\ SubSeq(s, k + 1, Len(s)) \in Seq(S)
           /\ Len(SubSeq(s, k + 1, Len(s))) = Len(s) - k
           /\ \A i \in 1 .. Len(s) - k : SubSeq(s, k + 1, Len(s))[i] = s[k + i]
OBVIOUS

\* The first entry of a queue is taken.
LEMMA Taken ==
    ASSUME NEW S, NEW s \in Seq(S), s # <<>>
    PROVE  /\ Head(s) = s[1] /\ Head(s) \in S /\ Len(s) \in Nat \ {0}
           /\ Tail(s) \in Seq(S) /\ Len(Tail(s)) = Len(s) - 1
           /\ \A i \in 1 .. Len(s) - 1 : Tail(s)[i] = s[i + 1]
OBVIOUS

\* The empty sequence is the one of length 0.
LEMMA Empty ==
    ASSUME NEW S, NEW s \in Seq(S)
    PROVE  /\ Len(s) \in Nat /\ (Len(s) = 0 <=> s = <<>>)
           /\ <<>> \in Seq(S)
OBVIOUS

\* What is posted fits the queue.
LEMMA RoomFits ==
    ASSUME TypeOK
    PROVE  /\ Room \in 0 .. Len(send_list) /\ Room <= depth - held
           /\ Room = Len(send_list) \/ Room = depth - held
<1>0. depth - held \in Nat /\ Len(send_list) \in Nat
    BY DEF TypeOK
<1>1. PICK a \in Nat, b \in Nat : a = depth - held /\ b = Len(send_list)
    BY <1>0
<1>2. Min({a, b}) = IF a <= b THEN a ELSE b
    BY DEF Min
<1> QED BY <1>1, <1>2 DEF Room

\* A portion goes from the list to the queue.
LEMMA PostSendKeeps == RdmaInv /\ PostSend => RdmaInv'
<1> SUFFICES ASSUME RdmaInv, PostSend PROVE RdmaInv'
    OBVIOUS
<1>i. TypeOK /\ SourceInv /\ CopyInv /\ EventInv /\ SignalInv /\ QueueInv
    BY DEF RdmaInv
<1>u. /\ mig = "post" /\ mig' = "poll"
      /\ UNCHANGED <<guestVars, paramVars, mig_round, scan, setupVars, wc, idle, cq, qp,
                     dst, recvVars, dstMem>>
    BY DEF PostSend
<1> USE <1>u DEF guestVars, paramVars, setupVars, recvVars
<1>p. Registered' = Registered /\ CompleteDump' = CompleteDump
    BY SameParams
<1>k. PICK k \in 0 .. Len(send_list) :
          /\ k <= depth - held /\ (k = Len(send_list) \/ k = depth - held)
          /\ sq' = sq \o SubSeq(send_list, 1, k) /\ held' = held + k
          /\ send_list' = SubSeq(send_list, k + 1, Len(send_list))
    BY <1>i, RoomFits DEF PostSend
<1>0. PICK n \in Nat, m \in Nat, part \in Seq(Wrs) :
          n = Len(send_list) /\ m = Len(sq) /\ part = SubSeq(send_list, 1, k)
  <2>1. Len(send_list) \in Nat /\ Len(sq) \in Nat
      BY <1>i DEF TypeOK
  <2>2. SubSeq(send_list, 1, k) \in Seq(Wrs)
      BY <1>i, Cut DEF TypeOK
  <2> QED BY <2>1, <2>2
<1>c. /\ Len(part) = k /\ \A i \in 1 .. k : part[i] = send_list[i]
      /\ send_list' \in Seq(Wrs) /\ Len(send_list') = n - k
      /\ \A i \in 1 .. n - k : send_list'[i] = send_list[k + i]
    BY <1>i, <1>k, <1>0, Cut DEF TypeOK
<1>q. /\ sq' \in Seq(Wrs) /\ Len(sq') = m + k
      /\ \A i \in 1 .. m : sq'[i] = sq[i]
      /\ \A i \in 1 .. k : sq'[m + i] = send_list[i]
  <2>1. sq' = sq \o part /\ sq \in Seq(Wrs)
      BY <1>i, <1>k, <1>0 DEF TypeOK
  <2>2. /\ sq \o part \in Seq(Wrs) /\ Len(sq \o part) = m + k
        /\ \A i \in 1 .. m : (sq \o part)[i] = sq[i]
        /\ \A i \in 1 .. k : (sq \o part)[m + i] = part[i]
      BY <1>0, <1>c, <2>1
  <2> QED BY <1>c, <2>1, <2>2
<1>d. /\ DOMAIN send_list = 1 .. n /\ DOMAIN sq = 1 .. m
      /\ DOMAIN send_list' = 1 .. n - k /\ DOMAIN sq' = 1 .. m + k
      /\ k \in 0 .. n /\ n > 0
    BY <1>i, <1>k, <1>0, <1>c, <1>q DEF TypeOK, SourceInv
<1>e. send_list' = <<>> <=> k = n
    BY <1>c, <1>d
<1>1. TypeOK'
    BY <1>i, <1>p, <1>c, <1>q, <1>k, <1>d DEF TypeOK
<1>2. SourceInv'
  <2>1. ASSUME NEW i \in DOMAIN send_list', send_list'[i].imm
        PROVE  ~ running /\ i = Len(send_list')
    <3>1. k + i \in DOMAIN send_list /\ send_list[k + i].imm
        BY <1>c, <1>d, <2>1
    <3>2. ~ running /\ k + i = Len(send_list)
        BY <1>i, <3>1 DEF SourceInv
    <3> QED BY <1>0, <1>c, <1>d, <3>2
  <2>2. ASSUME NEW i \in DOMAIN sq', sq'[i].imm
        PROVE  ~ running /\ i = Len(sq') /\ send_list' = <<>>
    <3>1. CASE i <= m
        BY <1>i, <1>q, <1>d, <2>2, <3>1 DEF SourceInv
    <3>2. CASE i > m
      <4>1. i - m \in 1 .. k /\ i = m + (i - m)
          BY <1>d, <3>2
      <4>2. i - m \in DOMAIN send_list /\ send_list[i - m].imm
          BY <1>q, <1>d, <2>2, <4>1
      <4>3. ~ running /\ i - m = n
          BY <1>i, <1>0, <4>2 DEF SourceInv
      <4> QED BY <1>e, <1>d, <1>q, <4>1, <4>3
    <3> QED BY <1>d, <3>1, <3>2
  <2> QED BY <1>i, <1>p, <2>1, <2>2 DEF SourceInv
<1>3. CopyInv'
  <2>1. ASSUME NEW q, Listed(q) PROVE Listed(q)'
    <3>1. CASE \E i \in DOMAIN sq : q \in sq[i].pages
        BY <1>q, <1>d, <3>1 DEF Listed
    <3>2. ASSUME NEW i \in DOMAIN send_list, q \in send_list[i].pages PROVE Listed(q)'
      <4>1. CASE i <= k
        <5>1. m + i \in DOMAIN sq' /\ q \in sq'[m + i].pages
            BY <1>q, <1>d, <3>2, <4>1
        <5> QED BY <5>1 DEF Listed
      <4>2. CASE i > k
        <5>1. i - k \in 1 .. n - k /\ k + (i - k) = i
            BY <1>d, <4>2
        <5>2. i - k \in DOMAIN send_list' /\ q \in send_list'[i - k].pages
            BY <1>c, <1>d, <3>2, <5>1
        <5> QED BY <5>2 DEF Listed
      <4> QED BY <1>d, <4>1, <4>2
    <3> QED BY <2>1, <3>1, <3>2 DEF Listed
  <2>2. \A q : Todo(q) => Todo(q)'
      BY <1>p DEF Todo
  <2>3. \A q : Excepted(q)' <=> Excepted(q)
      BY SameExcepted
  <2> QED BY <1>i, <1>p, <2>1, <2>2, <2>3 DEF CopyInv
<1>4. EventInv'
  <2>1. \A q : Excepted(q)' <=> Excepted(q)
      BY SameExcepted
  <2> QED BY <1>i, <1>p, <2>1 DEF EventInv
<1>s. ASSUME AsRequested
      PROVE  /\ sq = <<>> /\ m = 0 /\ cq = <<>> /\ idle = 0 /\ held = 0
             /\ k = n \/ k = MaxSendWr
             /\ k <= MaxSendWr /\ k > 0
  <2>1. sq = <<>> /\ cq = <<>> /\ idle = 0 /\ held = 0
      BY <1>i, <1>s DEF QueueInv
  <2> QED BY <1>k, <1>0, <1>d, <1>s, <2>1, RdmaAssumption DEF AsRequested
<1>a. AsRequested' <=> AsRequested
    BY DEF AsRequested
<1>5. SignalInv'
  <2>1. ASSUME AsRequested, NEW i \in DOMAIN send_list'
        PROVE  /\ send_list'[i].signaled = (Signaled(i) \/ i = Len(send_list'))
               /\ send_list'[i].id = IF i = Len(send_list') THEN "last" ELSE "page"
    <3>1. k = MaxSendWr /\ k + i \in DOMAIN send_list /\ i \in Nat
          /\ send_list'[i] = send_list[k + i] /\ (k + i = n <=> i = Len(send_list'))
        BY <1>s, <1>c, <1>d, <2>1
    <3>2. /\ send_list[k + i].signaled = (Signaled(k + i) \/ k + i = n)
          /\ send_list[k + i].id = IF k + i = n THEN "last" ELSE "page"
        BY <1>i, <1>0, <2>1, <3>1 DEF SignalInv
    <3>3. Signaled(k + i) = Signaled(i)
      <4>1. k + i = i + MaxSendWr
          BY <3>1, RdmaAssumption
      <4> QED BY <3>1, <4>1, SignalSpacing
    <3> QED BY <3>1, <3>2, <3>3
  <2> QED BY <1>a, <2>1 DEF SignalInv
<1>6. QueueInv'
  <2>1. ASSUME AsRequested
        PROVE  /\ sq' # <<>> /\ cq' = <<>> /\ held' = Len(sq') + idle'
               /\ \A i \in DOMAIN sq' : sq'[i].signaled = (i = Len(sq'))
               /\ sq'[Len(sq')].id = NextId'
    <3>1. Len(sq') = k /\ DOMAIN sq' = 1 .. k /\ \A i \in 1 .. k : sq'[i] = send_list[i]
        BY <1>s, <1>q, <1>d, <2>1
    <3>2. ASSUME NEW i \in 1 .. k
          PROVE  /\ send_list[i].signaled = (Signaled(i) \/ i = n)
                 /\ send_list[i].id = IF i = n THEN "last" ELSE "page"
        BY <1>i, <1>0, <1>d, <2>1 DEF SignalInv
    <3>3. ASSUME NEW i \in 1 .. k PROVE (Signaled(i) \/ i = n) = (i = k)
      <4>1. CASE i = k
          BY <1>s, <2>1, <4>1, SignalSpacing
      <4>2. CASE i # k
        <5>1. i \in 1 .. MaxSendWr - 1 /\ i # n
            BY <1>s, <1>d, <2>1, <4>2, RdmaAssumption
        <5> QED BY <4>2, <5>1, SignalSpacing
      <4> QED BY <4>1, <4>2
    <3>4. k \in 1 .. k /\ sq' # <<>>
        BY <1>s, <1>d, <2>1, <3>1
    <3>5. sq'[k].id = NextId'
        BY <1>e, <3>1, <3>2, <3>4 DEF NextId
    <3>6. \A i \in DOMAIN sq' : sq'[i].signaled = (i = Len(sq'))
        BY <3>1, <3>2, <3>3
    <3>7. cq' = <<>> /\ held' = Len(sq') + idle'
        BY <1>s, <1>k, <2>1, <3>1
    <3> QED BY <3>1, <3>4, <3>5, <3>6, <3>7
  <2> QED BY <1>a, <2>1 DEF QueueInv
<1> QED BY <1>1, <1>2, <1>3, <1>4, <1>5, <1>6 DEF RdmaInv

\* A completion is taken: the next portion, or the end.
LEMMA PollCqKeeps == RdmaInv /\ PollCq => RdmaInv'
<1> SUFFICES ASSUME RdmaInv, PollCq PROVE RdmaInv'
    OBVIOUS
<1>i. TypeOK /\ SourceInv /\ CopyInv /\ EventInv /\ SignalInv /\ QueueInv
    BY DEF RdmaInv
<1>u. /\ mig = "poll" /\ cq # <<>> /\ mig' = IF send_list = <<>> THEN "sent" ELSE "post"
      /\ wc' = Head(cq).id /\ held' = held - Head(cq).slots /\ cq' = Tail(cq)
      /\ UNCHANGED <<guestVars, paramVars, listVars, setupVars, sq, idle, qp, dst,
                     recvVars, dstMem>>
    BY DEF PollCq
<1> USE <1>u DEF guestVars, paramVars, listVars, setupVars, recvVars
<1>p. Registered' = Registered /\ CompleteDump' = CompleteDump
    BY SameParams
<1>l. \A p : (Listed(p)' <=> Listed(p)) /\ (Excepted(p)' <=> Excepted(p))
    BY SameLists, SameExcepted
<1>h. /\ Head(cq) = cq[1] /\ Head(cq) \in [id : {"page", "last"}, slots : Nat]
      /\ Tail(cq) \in Seq([id : {"page", "last"}, slots : Nat])
      /\ Len(cq) = 1 => Tail(cq) = <<>>
  <2>1. PICK S : S = [id : {"page", "last"}, slots : Nat]
      OBVIOUS
  <2>2. cq \in Seq(S)
      BY <1>i, <2>1 DEF TypeOK
  <2>3. /\ Head(cq) = cq[1] /\ Head(cq) \in S /\ Tail(cq) \in Seq(S)
        /\ Len(cq) \in Nat /\ Len(Tail(cq)) = Len(cq) - 1
      BY <2>2, Taken
  <2>4. Len(cq) = 1 => Tail(cq) = <<>>
      BY <2>3, Empty
  <2> QED BY <2>1, <2>3, <2>4
<1>1. TypeOK'
    BY <1>i, <1>p, <1>h DEF TypeOK
<1>2. SourceInv'
    BY <1>i, <1>p DEF SourceInv
<1>3. CopyInv'
  <2>1. \A q : Todo(q) => Todo(q)'
      BY <1>p DEF Todo
  <2> QED BY <1>i, <1>p, <1>l, <2>1 DEF CopyInv
<1>4. EventInv'
    BY <1>i, <1>p, <1>l DEF EventInv
<1>5. SignalInv'
    BY <1>i DEF SignalInv, AsRequested
<1>6. QueueInv'
  <2>1. ASSUME AsRequested
        PROVE  /\ sq = <<>> /\ cq' = <<>> /\ idle = 0 /\ held' = 0
               /\ send_list = <<>> => wc' = "last"
    <3>1. sq = <<>> /\ idle = 0 /\ Len(cq) = 1 /\ cq[1].slots = held /\ cq[1].id = NextId
        BY <1>i, <2>1 DEF QueueInv
    <3> QED BY <1>i, <1>h, <3>1 DEF NextId, TypeOK
  <2> QED BY <2>1 DEF QueueInv, AsRequested
<1> QED BY <1>1, <1>2, <1>3, <1>4, <1>5, <1>6 DEF RdmaInv

\* The queue pair is destroyed, or the process exits: no request is carried out
\* any more.
LEMMA EndKeeps == RdmaInv /\ (DestroyCom \/ Abort) => RdmaInv'
<1> SUFFICES ASSUME RdmaInv, DestroyCom \/ Abort PROVE RdmaInv'
    OBVIOUS
<1>i. TypeOK /\ SourceInv /\ CopyInv /\ EventInv /\ SignalInv /\ QueueInv
    BY DEF RdmaInv
<1>u. /\ \/ mig = "sent" /\ ~ running /\ mig' = "done" /\ running' = running
         \/ mig' = "exit" /\ running' = FALSE /\ mig \in {"init", "qp", "exchange", "post",
                                                          "poll", "sent"}
      /\ sq' = <<>> /\ cq' = <<>> /\ held' = 0 /\ idle' = 0
      /\ UNCHANGED <<mem, steps, accessed, touched, unmarked, paramVars, listVars,
                     setupVars, wc, qp, dst, recvVars, dstMem>>
    BY DEF DestroyCom, Abort, guestVars
<1> USE <1>u DEF paramVars, listVars, setupVars, recvVars
<1>p. Registered' = Registered /\ CompleteDump' = CompleteDump
    BY SameParams
<1>l. \A p : Excepted(p)' <=> Excepted(p)
    BY SameExcepted
<1>1. TypeOK'
  <2>1. sq' \in Seq(Wrs) /\ cq' \in Seq([id : {"page", "last"}, slots : Nat])
      BY <1>i, Empty DEF TypeOK
  <2>2. idle' \in Nat /\ held' \in Int /\ held' <= depth'
      BY <1>i DEF TypeOK
  <2>3. /\ running' \in BOOLEAN
        /\ mig' \in {"init", "qp", "exchange", "loop", "scan", "stop", "copy", "enqueue",
                     "post", "poll", "sent", "done", "exit"}
      BY <1>i DEF TypeOK
  <2> QED BY <1>i, <1>p, <2>1, <2>2, <2>3 DEF TypeOK
<1>2. SourceInv'
    BY <1>i, <1>p DEF SourceInv
<1>3. CopyInv'
    BY <1>i DEF CopyInv
<1>4. EventInv'
    BY <1>i, <1>p, <1>l DEF EventInv
<1>5. SignalInv' /\ QueueInv'
    BY DEF SignalInv, QueueInv
<1> QED BY <1>1, <1>2, <1>3, <1>4, <1>5 DEF RdmaInv

\* The adapter carries out a request, with the page's contents of this moment.
LEMMA ExecuteKeeps == RdmaInv /\ ExecuteWr => RdmaInv'
<1> SUFFICES ASSUME RdmaInv, ExecuteWr PROVE RdmaInv'
    OBVIOUS
<1>i. TypeOK /\ SourceInv /\ CopyInv /\ EventInv /\ SignalInv /\ QueueInv
    BY DEF RdmaInv
<1>w. PICK wr \in Wrs : wr = Head(sq)
    BY <1>i, Taken DEF ExecuteWr, TypeOK
<1>u. /\ sq # <<>> /\ qp = "ok" /\ sq' = Tail(sq)
      /\ UNCHANGED <<guestVars, paramVars, mig, listVars, setupVars, wc, held, qp, dst,
                     armed>>
      /\ dstMem' = [p \in Pages |-> IF p \in wr.pages THEN mem[p] ELSE dstMem[p]]
      /\ recv_wr' = (recv_wr /\ ~ wr.imm)
      /\ event' = (event \/ (wr.imm /\ armed))
    BY <1>w DEF ExecuteWr
<1>v. IF wr.signaled
      THEN cq' = Append(cq, [id |-> wr.id, slots |-> idle + 1]) /\ idle' = 0
      ELSE idle' = idle + 1 /\ cq' = cq
    BY <1>w DEF ExecuteWr
<1> USE <1>u DEF guestVars, paramVars, listVars, setupVars
<1>p. Registered' = Registered /\ CompleteDump' = CompleteDump
    BY SameParams
<1>x. \A p : Excepted(p)' <=> Excepted(p)
    BY SameExcepted
<1>t. PagesIn(Registered) \subseteq Pages
    BY <1>i, Parameters
<1>h. /\ wr = sq[1] /\ Len(sq) \in Nat \ {0} /\ DOMAIN sq = 1 .. Len(sq)
      /\ sq' \in Seq(Wrs) /\ Len(sq') = Len(sq) - 1 /\ DOMAIN sq' = 1 .. Len(sq) - 1
      /\ \A i \in 1 .. Len(sq) - 1 : sq'[i] = sq[i + 1]
    BY <1>i, <1>w, Taken DEF TypeOK
<1>b. wr.imm \in BOOLEAN /\ wr.signaled \in BOOLEAN /\ wr.id \in {"page", "last"}
    BY DEF Wrs
<1>m. /\ dstMem' \in [Pages -> Nat]
      /\ \A p \in Pages : dstMem[p] = mem[p] => dstMem'[p] = mem[p]
      /\ \A p \in Pages : p \in wr.pages => dstMem'[p] = mem[p]
    BY <1>i DEF TypeOK
<1>1. TypeOK'
  <2>1. cq' \in Seq([id : {"page", "last"}, slots : Nat]) /\ idle' \in Nat
    <3>1. cq \in Seq([id : {"page", "last"}, slots : Nat]) /\ idle \in Nat
        BY <1>i DEF TypeOK
    <3>2. CASE wr.signaled
      <4>1. [id |-> wr.id, slots |-> idle + 1] \in [id : {"page", "last"}, slots : Nat]
          BY <1>b, <3>1
      <4>2. cq' = Append(cq, [id |-> wr.id, slots |-> idle + 1]) /\ idle' = 0
          BY <1>v, <3>2
      <4> QED BY <3>1, <4>1, <4>2
    <3>3. CASE ~ wr.signaled
        BY <1>v, <3>1, <3>3
    <3> QED BY <3>2, <3>3
  <2>2. recv_wr' \in BOOLEAN /\ event' \in BOOLEAN
      BY <1>i, <1>b DEF TypeOK
  <2> QED BY <1>i, <1>p, <1>h, <1>m, <2>1, <2>2 DEF TypeOK
<1>2. SourceInv'
  <2>1. ASSUME NEW i \in DOMAIN sq', sq'[i].imm
        PROVE  /\ ~ running /\ i = Len(sq')
               /\ send_list = <<>> /\ mig \in {"poll", "sent"}
    <3>1. i + 1 \in DOMAIN sq /\ sq[i + 1].imm
        BY <1>h, <2>1
    <3>2. /\ ~ running /\ i + 1 = Len(sq)
          /\ send_list = <<>> /\ mig \in {"poll", "sent"}
        BY <1>i, <3>1 DEF SourceInv
    <3> QED BY <1>h, <3>2
  <2> QED BY <1>i, <1>p, <2>1 DEF SourceInv
<1>3. CopyInv'
  <2>1. ASSUME NEW q \in PagesIn(Registered), Listed(q)
        PROVE  dstMem'[q] = mem[q] \/ Listed(q)'
    <3>1. ASSUME NEW i \in DOMAIN sq, q \in sq[i].pages
          PROVE  dstMem'[q] = mem[q] \/ Listed(q)'
      <4>1. CASE i = 1
          BY <1>h, <1>m, <1>t, <3>1, <4>1
      <4>2. CASE i # 1
        <5>1. i - 1 \in DOMAIN sq' /\ sq'[i - 1] = sq[i]
          <6>1. i - 1 \in 1 .. Len(sq) - 1 /\ (i - 1) + 1 = i
              BY <1>h, <4>2
          <6> QED BY <1>h, <6>1
        <5> QED BY <3>1, <5>1 DEF Listed
      <4> QED BY <4>1, <4>2
    <3> QED BY <2>1, <3>1 DEF Listed
  <2>2. \A q : Todo(q) => Todo(q)'
      BY <1>p DEF Todo
  <2>3. \A q \in PagesIn(Registered) : dstMem[q] = mem[q] => dstMem'[q] = mem'[q]
      BY <1>m, <1>t
  <2> QED BY <1>i, <1>p, <1>x, <2>1, <2>2, <2>3 DEF CopyInv
<1>4. EventInv'
  <2>1. CASE wr.imm
    <3>1. /\ ~ running /\ Len(sq) = 1 /\ send_list = <<>> /\ mig \in {"poll", "sent"}
        BY <1>i, <1>h, <2>1 DEF SourceInv
    <3>2. ASSUME NEW q \in PagesIn(Registered), ~ Excepted(q) PROVE dstMem'[q] = mem[q]
      <4>1. dstMem[q] = mem[q] \/ Listed(q)
          BY <1>i, <3>1, <3>2 DEF CopyInv, Todo
      <4>2. Listed(q) => q \in wr.pages
          BY <1>h, <3>1 DEF Listed
      <4> QED BY <1>m, <1>t, <4>1, <4>2
    <3> QED BY <1>i, <1>p, <1>x, <3>1, <3>2 DEF EventInv
  <2>2. CASE ~ wr.imm
      BY <1>i, <1>p, <1>x, <1>m, <1>t, <2>2 DEF EventInv, TypeOK
  <2> QED BY <2>1, <2>2
<1>5. SignalInv'
    BY <1>i DEF SignalInv, AsRequested
<1>6. QueueInv'
  <2>1. AsRequested \/ mig \in {"init", "qp"} => AsRequested /\ mig = "poll"
      BY <1>i DEF QueueInv
  <2>2. ASSUME AsRequested, mig = "poll"
        PROVE  \/ /\ sq' # <<>> /\ cq' = <<>> /\ held' = Len(sq') + idle'
                  /\ \A i \in DOMAIN sq' : sq'[i].signaled = (i = Len(sq'))
                  /\ sq'[Len(sq')].id = NextId'
               \/ /\ sq' = <<>> /\ idle' = 0
                  /\ Len(cq') = 1 /\ cq'[1].slots = held' /\ cq'[1].id = NextId'
    <3>1. /\ cq = <<>> /\ held = Len(sq) + idle /\ idle \in Nat
          /\ \A i \in DOMAIN sq : sq[i].signaled = (i = Len(sq))
          /\ sq[Len(sq)].id = NextId
        BY <1>i, <2>2 DEF QueueInv, TypeOK
    <3>2. NextId' = NextId
        BY DEF NextId
    <3>3. CASE Len(sq) = 1
      <4>1. wr.signaled /\ wr.id = NextId
        <5>1. 1 \in DOMAIN sq /\ wr = sq[1] /\ sq[1].signaled = (1 = Len(sq))
            BY <1>h, <3>1, <3>3
        <5> QED BY <1>b, <3>1, <3>3, <5>1
      <4>2. sq' = <<>>
          BY <1>h, <3>3, Empty
      <4>3. cq' = <<[id |-> wr.id, slots |-> idle + 1]>> /\ idle' = 0
          BY <1>v, <3>1, <4>1
      <4> QED BY <3>1, <3>2, <3>3, <4>1, <4>2, <4>3
    <3>4. CASE Len(sq) # 1
      <4>1. ~ wr.signaled /\ sq' # <<>>
        <5>1. 1 \in DOMAIN sq /\ wr = sq[1] /\ sq[1].signaled = (1 = Len(sq))
            BY <1>h, <3>1
        <5>2. Len(sq') # 0
            BY <1>h, <3>4
        <5> QED BY <1>h, <1>b, <3>4, <5>1, <5>2, Empty
      <4>2. sq'[Len(sq')] = sq[Len(sq)]
          BY <1>h, <3>4
      <4>3. ASSUME NEW i \in DOMAIN sq' PROVE sq'[i].signaled = (i = Len(sq'))
        <5>1. sq'[i] = sq[i + 1] /\ i + 1 \in DOMAIN sq /\ (i + 1 = Len(sq) <=> i = Len(sq'))
            BY <1>h
        <5> QED BY <3>1, <5>1
      <4>4. held' = Len(sq') + idle' /\ cq' = <<>>
          BY <1>h, <1>v, <3>1, <4>1
      <4> QED BY <3>1, <3>2, <4>1, <4>2, <4>3, <4>4
    <3> QED BY <3>3, <3>4
  <2> QED BY <2>1, <2>2 DEF QueueInv, AsRequested
<1> QED BY <1>1, <1>2, <1>3, <1>4, <1>5, <1>6 DEF RdmaInv

\* A request fails: the adapter carries out no other.
LEMMA FailKeeps == RdmaInv /\ FailWr => RdmaInv'
<1> SUFFICES ASSUME RdmaInv, FailWr PROVE RdmaInv'
    OBVIOUS
<1>i. TypeOK /\ SourceInv /\ CopyInv /\ EventInv /\ SignalInv /\ QueueInv
    BY DEF RdmaInv
<1>u. /\ sq # <<>> /\ qp' = "error" /\ sq' = Tail(sq) /\ idle' = 0
      /\ cq' = Append(cq, [id |-> Head(sq).id, slots |-> idle + 1])
      /\ UNCHANGED <<guestVars, paramVars, mig, listVars, setupVars, wc, held, dst,
                     recvVars, dstMem>>
    BY DEF FailWr
<1> USE <1>u DEF guestVars, paramVars, listVars, setupVars, recvVars
<1>p. Registered' = Registered /\ CompleteDump' = CompleteDump
    BY SameParams
<1>x. \A p : Excepted(p)' <=> Excepted(p)
    BY SameExcepted
<1>h. /\ Len(sq) \in Nat \ {0} /\ DOMAIN sq = 1 .. Len(sq) /\ Head(sq) \in Wrs
      /\ sq' \in Seq(Wrs) /\ Len(sq') = Len(sq) - 1 /\ DOMAIN sq' = 1 .. Len(sq) - 1
      /\ \A i \in 1 .. Len(sq) - 1 : sq'[i] = sq[i + 1]
    BY <1>i, Taken DEF TypeOK
<1>1. TypeOK'
  <2>1. cq' \in Seq([id : {"page", "last"}, slots : Nat])
      BY <1>i, <1>h DEF TypeOK, Wrs
  <2> QED BY <1>i, <1>p, <1>h, <2>1 DEF TypeOK
<1>2. SourceInv'
  <2>1. ASSUME NEW i \in DOMAIN sq', sq'[i].imm
        PROVE  /\ ~ running /\ i = Len(sq')
               /\ send_list = <<>> /\ mig \in {"poll", "sent"}
    <3>1. i + 1 \in DOMAIN sq /\ sq[i + 1].imm
        BY <1>h, <2>1
    <3>2. /\ ~ running /\ i + 1 = Len(sq)
          /\ send_list = <<>> /\ mig \in {"poll", "sent"}
        BY <1>i, <3>1 DEF SourceInv
    <3> QED BY <1>h, <3>2
  <2> QED BY <1>i, <1>p, <2>1 DEF SourceInv
<1>3. CopyInv'
    BY <1>i DEF CopyInv
<1>4. EventInv'
    BY <1>i, <1>p, <1>x DEF EventInv
<1>5. SignalInv' /\ QueueInv'
    BY <1>i DEF SignalInv, QueueInv, AsRequested
<1> QED BY <1>1, <1>2, <1>3, <1>4, <1>5 DEF RdmaInv

-----------------------------------------------------------------------------
(* The theorems. *)

\* Every step keeps the invariant.
LEMMA InvStep == RdmaInv /\ [Next]_vars => RdmaInv'
<1> SUFFICES ASSUME RdmaInv, [Next]_vars PROVE RdmaInv'
    OBVIOUS
<1>1. CASE UNCHANGED vars
  <2>i. TypeOK /\ SourceInv /\ CopyInv /\ EventInv /\ SignalInv /\ QueueInv
      BY DEF RdmaInv
  <2> USE <1>1 DEF vars, guestVars, paramVars, listVars, setupVars, hcaVars, recvVars
  <2>p. Registered' = Registered /\ CompleteDump' = CompleteDump
      BY SameParams
  <2>l. \A p : (Listed(p)' <=> Listed(p)) /\ (Excepted(p)' <=> Excepted(p))
      BY SameLists, SameExcepted
  <2>t. \A p : Todo(p)' <=> Todo(p)
      BY <2>p DEF Todo
  <2>1. TypeOK'
      BY <2>i, <2>p DEF TypeOK
  <2>2. SourceInv'
      BY <2>i, <2>p DEF SourceInv
  <2>3. CopyInv' /\ EventInv'
      BY <2>i, <2>p, <2>l, <2>t DEF CopyInv, EventInv
  <2>4. SignalInv' /\ QueueInv'
      BY <2>i DEF SignalInv, QueueInv, AsRequested, NextId
  <2> QED BY <2>1, <2>2, <2>3, <2>4 DEF RdmaInv
<1>2. CASE Next
    BY <1>2, GuestKeeps, MoveKeeps, ScanPageKeeps, EnqueueMrKeeps, ScanEndsKeeps,
       FinishListKeeps, PostSendKeeps, PollCqKeeps, EndKeeps, ExecuteKeeps, FailKeeps
    DEF Next, Source, Destination
<1> QED BY <1>1, <1>2

\* The invariant holds in every state.
LEMMA InvHolds == Spec => []RdmaInv
BY InvInit, InvStep, PTL DEF Spec

\* The notified destination has the memory of the stopped guest, although rounds
\* were sent while it ran, for any memory, message size, queue and number of rounds.
THEOREM MemoryIsExact == Spec => []ExactMemory
<1>1. RdmaInv => ExactMemory
    BY DEF RdmaInv, EventInv, Excepted, CompleteDump, ExactMemory
<1> QED BY <1>1, InvHolds, PTL

\* With the queue that was asked for, process_send_list returns only when the
\* adapter has completed the whole list, and one entry for completions is enough.
THEOREM WholeListAwaited == Spec => []ListAwaited
<1>1. ASSUME RdmaInv PROVE ListAwaited
  <2>1. cq = <<>> => Len(cq) = 0
      OBVIOUS
  <2>2. ASSUME AsRequested PROVE cq = <<>> \/ Len(cq) = 1
      BY <1>1, <2>2 DEF RdmaInv, QueueInv
  <2>3. ASSUME AsRequested, mig = "sent" PROVE sq = <<>> /\ cq = <<>> /\ wc = "last"
      BY <1>1, <2>3 DEF RdmaInv, QueueInv
  <2>4. ASSUME AsRequested PROVE Len(cq) <= 1
    <3>1. PICK n \in {0, 1} : n = Len(cq)
        BY <2>1, <2>2, <2>4
    <3>2. n <= 1
        OBVIOUS
    <3> QED BY <3>1, <3>2, Zenon
  <2> QED BY <2>3, <2>4 DEF ListAwaited
<1> QED BY <1>1, InvHolds, PTL
=============================================================================
