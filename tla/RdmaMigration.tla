---------------------------- MODULE RdmaMigration ----------------------------
(***************************************************************************)
(* The transfer of the guest's memory over RDMA (uhyve-migration-rdma.c),  *)
(* the alternative to the final dump of module Migration.                  *)
(*                                                                         *)
(* Both processes register memory regions, exchange the data of their      *)
(* queue pairs over the TCP connection and connect them.  A live migration *)
(* then copies, in a few rounds and while the guest runs, the pages whose  *)
(* accessed flag is set, clearing the flag; when the vCPUs have stopped a  *)
(* last list follows, whose last write notifies the destination.           *)
(*                                                                         *)
(* A list of work requests is handed to the adapter in portions that fit   *)
(* its send queue.  The adapter writes a page with the contents it finds   *)
(* when it gets to it, completes requests in order and reports only the    *)
(* signalled ones, by an entry of the completion queue; such an entry, once *)
(* polled, gives back the queue slots of all requests up to its own.       *)
(*                                                                         *)
(* A page number stands for a page of guest memory, a version for its      *)
(* contents.  The guest and the adapter are external.  The TCP connection  *)
(* holds here, and the stopping of the vCPUs is one step: module Migration *)
(* has both in detail.                                                     *)
(***************************************************************************)
EXTENDS Integers, Sequences, FiniteSetsExt

CONSTANTS
    GuestChunks,   \* guest_physical_memory: chunks [ptr, size] in pages
    Settings,      \* records of mig_params.type and .mode, full_checkpoint, and
                   \* what the guest's free list makes of mem_mappings
    MaxMsg,        \* port_attr.max_msg_sz, in pages
    MaxSendWr,     \* IB_MAX_SEND_WR
    Depths,        \* lengths of the send queue that an adapter may grant
    MigIters,      \* MIG_ITERS
    MaxSteps       \* bound on the accesses to guest memory

PagesOf(chunk) == chunk.ptr .. chunk.ptr + chunk.size - 1
PagesIn(chunks) == UNION {PagesOf(chunks[i]) : i \in DOMAIN chunks}
Pages == PagesIn(GuestChunks)
Chunks == Seq([ptr : Nat, size : Nat])

\* The free list is turned into chunks of guest memory (module MemMappings), and
\* ibv_create_qp grants at least what is asked for.
ASSUME RdmaAssumption ==
    /\ GuestChunks \in Chunks
    /\ \A s \in Settings : /\ s.type \in {"cold", "live"}
                           /\ s.mode \in {"complete", "incremental"}
                           /\ s.full \in BOOLEAN
                           /\ s.list \in Chunks /\ PagesIn(s.list) \subseteq Pages
    /\ MaxMsg \in Nat \ {0} /\ MaxSendWr \in Nat \ {0}
    /\ MigIters \in Nat /\ MaxSteps \in Nat
    /\ Depths \subseteq Nat /\ \A d \in Depths : d >= MaxSendWr

VARIABLES
    mem, steps,          \* the guest's memory at the source
    accessed,            \* pages whose entry has PG_ACCESSED
    touched,             \* history: pages the guest has accessed
    unmarked,            \* history: pages last stored to without a flag
    running,             \* the source's vCPUs run
    mig_params, full_checkpoint, mem_mappings,
    mig,                 \* the source's migration thread
    mig_round,
    scan,                \* pages still to be scanned, or regions to be listed
    mrs, dstMrs,         \* com_hndl.mrs at the source, at the destination
    talk, wire,          \* exchange_qp_info: next step of a side; messages to it
    send_list,
    wc,                  \* the id of the completion that was polled last
    depth, held,         \* slots of the send queue; those in use
    sq, idle, cq,        \* posted; done and not reported; reported
    qp,                  \* "ok" or "error"
    dst,                 \* the destination
    recv_wr, armed, event,  \* receive posted; notification wanted; given
    dstMem

guestVars == <<mem, steps, accessed, touched, unmarked, running>>
paramVars == <<mig_params, full_checkpoint, mem_mappings>>
listVars == <<mig_round, scan, send_list>>
setupVars == <<mrs, dstMrs, talk, wire, depth>>
hcaVars == <<held, sq, idle, cq, qp>>
recvVars == <<recv_wr, armed, event>>
vars == <<guestVars, paramVars, mig, listVars, setupVars, wc, hcaVars, dst,
          recvVars, dstMem>>

\* The guest has used all pages but the last, which holds a part of its image.
Init ==
    /\ mem = [p \in Pages |-> 1] /\ steps = 1
    /\ touched = Pages \ {Max(Pages)} /\ accessed = touched /\ unmarked = {}
    /\ running = TRUE
    /\ \E s \in Settings : /\ mig_params = [type |-> s.type, mode |-> s.mode]
                          /\ full_checkpoint = s.full
                          /\ mem_mappings = s.list
    /\ mig = "init" /\ mig_round = 0 /\ scan = {}
    /\ mrs = <<>> /\ dstMrs = <<>>
    /\ talk = [src |-> 1, dst |-> 1] /\ wire = [src |-> <<>>, dst |-> <<>>]
    /\ send_list = <<>> /\ wc = "none"
    /\ depth = 0 /\ held = 0 /\ sq = <<>> /\ idle = 0 /\ cq = <<>> /\ qp = "ok"
    /\ dst = "init" /\ recv_wr = FALSE /\ armed = FALSE /\ event = FALSE
    /\ dstMem = [p \in Pages |-> 0]

-----------------------------------------------------------------------------
(* The guest. *)

\* A load or store by way of the page tables sets the flag.
GuestLoad(p) ==
    /\ running /\ steps < MaxSteps /\ p \notin accessed
    /\ steps' = steps + 1
    /\ accessed' = accessed \cup {p} /\ touched' = touched \cup {p}
    /\ UNCHANGED <<mem, unmarked, running, paramVars, mig, listVars,
                   setupVars, wc, hcaVars, dst, recvVars, dstMem>>

GuestStore(p) ==
    /\ running /\ steps < MaxSteps
    /\ steps' = steps + 1 /\ mem' = [mem EXCEPT ![p] = steps']
    /\ accessed' = accessed \cup {p} /\ touched' = touched \cup {p}
    /\ unmarked' = unmarked \ {p}
    /\ UNCHANGED <<running, paramVars, mig, listVars, setupVars, wc, hcaVars,
                   dst, recvVars, dstMem>>

\* A store that leaves the flag alone: by a vCPU whose TLB still holds the
\* entry from before the flag was cleared, or by the host for a hypercall.
UnmarkedStore(p) ==
    /\ running /\ steps < MaxSteps /\ p \in touched
    /\ steps' = steps + 1 /\ mem' = [mem EXCEPT ![p] = steps']
    /\ unmarked' = unmarked \cup {p}
    /\ UNCHANGED <<accessed, touched, running, paramVars, mig, listVars,
                   setupVars, wc, hcaVars, dst, recvVars, dstMem>>

-----------------------------------------------------------------------------
(* Setting up the connection. *)

\* The memory both sides register: send_mem_regions has announced it.
Registered ==
    IF mig_params.type = "live" \/ mem_mappings = <<>>
    THEN GuestChunks ELSE mem_mappings

\* init_com_hndl: find a device and register the memory regions ...
InitCom ==
    /\ mig = "init" /\ mig' = "qp" /\ mrs' = Registered
    /\ UNCHANGED <<guestVars, paramVars, listVars, dstMrs, talk, wire, depth, wc,
                   hcaVars, dst, recvVars, dstMem>>

\* ... then create the completion queue and the queue pair.
CreateQp ==
    /\ mig = "qp" /\ mig' = "exchange" /\ depth' \in Depths
    /\ UNCHANGED <<guestVars, paramVars, listVars, mrs, dstMrs, talk, wire, wc,
                   hcaVars, dst, recvVars, dstMem>>

DstInitCom ==
    /\ dst = "init" /\ dst' = "exchange"
    /\ dstMrs' = Registered
    /\ UNCHANGED <<guestVars, paramVars, mig, listVars, mrs, talk, wire, depth,
                   wc, hcaVars, recvVars, dstMem>>

Script(side) ==
    IF side = "dst" THEN <<"recv", "send", "recv", "send">>
    ELSE <<"send", "recv", "send", "recv">>

Peer(side) == IF side = "src" THEN "dst" ELSE "src"

\* One step of exchange_qp_info: first the queue pairs, then the keys, of which
\* each side expects as many as it has regions.
Exchange(side) ==
    LET i == talk[side]
        regions == IF side = "src" THEN mrs ELSE dstMrs
        item == IF i <= 2 THEN 1 ELSE Len(regions)
    IN  /\ IF side = "src" THEN mig = "exchange" ELSE dst = "exchange"
        /\ i <= 4
        /\ talk' = [talk EXCEPT ![side] = i + 1]
        /\ \/ /\ Script(side)[i] = "send"
              /\ wire' = [wire EXCEPT ![Peer(side)] = Append(@, item)]
           \/ /\ Script(side)[i] = "recv"
              /\ wire[side] # <<>> /\ Head(wire[side]) = item
              /\ wire' = [wire EXCEPT ![side] = Tail(@)]
        /\ UNCHANGED <<guestVars, paramVars, mig, listVars, mrs, dstMrs, depth,
                       wc, hcaVars, dst, recvVars, dstMem>>

\* con_com_buf.
ConComBuf ==
    /\ mig = "exchange" /\ talk["src"] = 5 /\ mig' = "loop"
    /\ UNCHANGED <<guestVars, paramVars, listVars, setupVars, wc, hcaVars, dst,
                   recvVars, dstMem>>

DstConComBuf ==
    /\ dst = "exchange" /\ talk["dst"] = 5 /\ dst' = "notify"
    /\ UNCHANGED <<guestVars, paramVars, mig, listVars, setupVars, wc, hcaVars,
                   recvVars, dstMem>>

-----------------------------------------------------------------------------
(* Work requests. *)

\* prepare_send_list_elem.
Wr(pages, signaled) ==
    [pages |-> pages, signaled |-> signaled, id |-> "page", imm |-> FALSE]

\* Mutants of Signaled: every request is signalled; only the last one is.
SignaledAll(n) == TRUE
SignaledNone(n) == FALSE

\* "we have to request a CQE if max_send_wr is reached".
Signaled(n) == n % MaxSendWr = 0

\* append_to_send_list, for one request after the other.
AppendWrs(list, pieces) ==
    list \o [i \in 1 .. Len(pieces) |-> Wr(pieces[i], Signaled(Len(list) + i))]

\* The last request is always signalled.
MarkLast(list, imm) ==
    [list EXCEPT ![Len(list)] =
        [pages |-> @.pages, signaled |-> TRUE, id |-> "last", imm |-> imm]]

\* create_send_list_entry: a page outside all regions is reported and left out.
WithEntry(list, p) == IF p \in PagesIn(mrs) THEN AppendWrs(list, <<{p}>>) ELSE list

\* enqueue_all_mrs splits a region into messages of the greatest size and a
\* remainder.
Pieces(chunk) ==
    LET whole == chunk.size \div MaxMsg
        rest == chunk.size % MaxMsg
    IN  [i \in 1 .. whole + (IF rest = 0 THEN 0 ELSE 1) |->
            PagesOf([ptr |-> chunk.ptr + (i - 1) * MaxMsg,
                     size |-> IF i <= whole THEN MaxMsg ELSE rest])]

-----------------------------------------------------------------------------
(* Source: precopy_phase and stop_and_copy_phase. *)

\* termination_criterion: a live migration makes at most MigIters rounds.
NextRound ==
    /\ mig = "loop" /\ mig_params.type = "live" /\ mig_round # MigIters
    /\ mig_round' = mig_round + 1 /\ scan' = Pages /\ mig' = "scan"
    /\ UNCHANGED <<guestVars, paramVars, send_list, setupVars, wc, hcaVars, dst,
                   recvVars, dstMem>>

LastRound ==
    /\ mig = "loop" /\ (mig_params.type = "cold" \/ mig_round = MigIters)
    /\ mig' = "stop"
    /\ UNCHANGED <<guestVars, paramVars, listVars, setupVars, wc, hcaVars, dst,
                   recvVars, dstMem>>

\* scan_page_tables looks at one entry: the flag is cleared before the page is
\* listed.
ScanPage ==
    /\ mig = "scan" /\ scan # {}
    /\ LET p == Min(scan)
       IN  /\ scan' = scan \ {p}
           /\ accessed' = IF full_checkpoint THEN accessed ELSE accessed \ {p}
           /\ send_list' = IF p \in accessed THEN WithEntry(send_list, p)
                           ELSE send_list
    /\ UNCHANGED <<mem, steps, touched, unmarked, running, paramVars, mig,
                   mig_round, setupVars, wc, hcaVars, dst, recvVars, dstMem>>

\* A round with nothing to send is the last one.
ScanEnds ==
    /\ mig = "scan" /\ scan = {} /\ running
    /\ IF send_list = <<>> THEN mig' = "stop" /\ UNCHANGED send_list
       ELSE mig' = "post" /\ send_list' = MarkLast(send_list, FALSE)
    /\ UNCHANGED <<guestVars, paramVars, mig_round, scan, setupVars, wc, hcaVars,
                   dst, recvVars, dstMem>>

\* SIGTHRMIG and the two barriers.
StopVcpus ==
    /\ mig = "stop" /\ mig' = "copy" /\ running' = FALSE
    /\ UNCHANGED <<mem, steps, accessed, touched, unmarked, paramVars, listVars,
                   setupVars, wc, hcaVars, dst, recvVars, dstMem>>

\* A complete dump lists all regions, whatever the flags say ...
EnqueueAllMrs ==
    /\ mig = "copy" /\ mig_params = [type |-> "cold", mode |-> "complete"]
    /\ mig' = "enqueue" /\ scan' = DOMAIN mrs
    /\ UNCHANGED <<guestVars, paramVars, mig_round, send_list, setupVars, wc,
                   hcaVars, dst, recvVars, dstMem>>

\* ... one after the other.
EnqueueMr ==
    /\ mig = "enqueue"
    /\ \E r \in scan :
          /\ \A s \in scan : r <= s
          /\ scan' = scan \ {r}
          /\ send_list' = AppendWrs(send_list, Pieces(mrs[r]))
    /\ UNCHANGED <<guestVars, paramVars, mig, mig_round, setupVars, wc, hcaVars,
                   dst, recvVars, dstMem>>

\* Mutant of FinalScan: the rounds before are taken to have sent everything.
FinalScanSkipped ==
    /\ mig = "copy" /\ mig_params # [type |-> "cold", mode |-> "complete"]
    /\ mig' = "scan" /\ scan' = IF mig_round > 0 THEN {} ELSE Pages
    /\ UNCHANGED <<guestVars, paramVars, mig_round, send_list, setupVars, wc,
                   hcaVars, dst, recvVars, dstMem>>

FinalScan ==
    /\ mig = "copy" /\ mig_params # [type |-> "cold", mode |-> "complete"]
    /\ mig' = "scan" /\ scan' = Pages
    /\ UNCHANGED <<guestVars, paramVars, mig_round, send_list, setupVars, wc,
                   hcaVars, dst, recvVars, dstMem>>

\* The last request, a dummy if there is no other, notifies the destination.
FinishList ==
    /\ mig \in {"scan", "enqueue"} /\ scan = {} /\ ~ running
    /\ mig' = "post"
    /\ send_list' = MarkLast(IF send_list = <<>> THEN AppendWrs(<<>>, <<{}>>)
                             ELSE send_list, TRUE)
    /\ UNCHANGED <<guestVars, paramVars, mig_round, scan, setupVars, wc, hcaVars,
                   dst, recvVars, dstMem>>

-----------------------------------------------------------------------------
(* Source: process_send_list. *)

\* ibv_post_send takes as many requests as there are slots.
Room == Min({depth - held, Len(send_list)})

PostSend ==
    /\ mig = "post" /\ mig' = "poll"
    /\ sq' = sq \o SubSeq(send_list, 1, Room) /\ held' = held + Room
    /\ send_list' = SubSeq(send_list, Room + 1, Len(send_list))
    /\ UNCHANGED <<guestVars, paramVars, mig_round, scan, setupVars, wc, idle,
                   cq, qp, dst, recvVars, dstMem>>

\* One completion is taken, and the remaining requests are posted.  A failed one
\* is only reported.
PollCq ==
    /\ mig = "poll" /\ cq # <<>>
    /\ wc' = Head(cq).id /\ held' = held - Head(cq).slots /\ cq' = Tail(cq)
    /\ mig' = IF send_list = <<>> THEN "sent" ELSE "post"
    /\ UNCHANGED <<guestVars, paramVars, listVars, setupVars, sq, idle, qp, dst,
                   recvVars, dstMem>>

\* process_send_list returns.  That the last completion is not that of the last
\* request is only reported.
RoundSent ==
    /\ mig = "sent" /\ running /\ mig' = "loop"
    /\ UNCHANGED <<guestVars, paramVars, listVars, setupVars, wc, hcaVars, dst,
                   recvVars, dstMem>>

\* destroy_com_hndl: requests that are still queued are dropped.
DestroyCom ==
    /\ mig = "sent" /\ ~ running /\ mig' = "done"
    /\ sq' = <<>> /\ cq' = <<>> /\ held' = 0 /\ idle' = 0
    /\ UNCHANGED <<guestVars, paramVars, listVars, setupVars, wc, qp, dst,
                   recvVars, dstMem>>

\* A call of the verbs library fails: exit(EXIT_FAILURE), and the guest is gone.
Abort ==
    /\ mig \in {"init", "qp", "exchange", "post", "poll"} \/ (mig = "sent" /\ ~ running)
    /\ mig' = "exit" /\ running' = FALSE
    /\ sq' = <<>> /\ cq' = <<>> /\ held' = 0 /\ idle' = 0
    /\ UNCHANGED <<mem, steps, accessed, touched, unmarked, paramVars, listVars,
                   setupVars, wc, qp, dst, recvVars, dstMem>>

-----------------------------------------------------------------------------
(* The adapter. *)

\* The next request is carried out once the destination is ready to receive; a
\* notifying one waits for the posted receive (rnr_retry).
ExecuteWr ==
    /\ sq # <<>> /\ qp = "ok" /\ dst \in {"notify", "post", "wait"}
    /\ LET wr == Head(sq)
       IN  /\ wr.imm => recv_wr
           /\ dstMem' = [p \in Pages |->
                            IF p \in wr.pages THEN mem[p] ELSE dstMem[p]]
           /\ IF wr.signaled
              THEN cq' = Append(cq, [id |-> wr.id, slots |-> idle + 1]) /\ idle' = 0
              ELSE idle' = idle + 1 /\ UNCHANGED cq
           /\ recv_wr' = (recv_wr /\ ~ wr.imm)
           /\ event' = (event \/ (wr.imm /\ armed))
    /\ sq' = Tail(sq)
    /\ UNCHANGED <<guestVars, paramVars, mig, listVars, setupVars, wc, held, qp,
                   dst, armed>>

\* A request fails, or follows one that has failed; both are always reported.
FailWr ==
    /\ sq # <<>> /\ qp' = "error"
    /\ cq' = Append(cq, [id |-> Head(sq).id, slots |-> idle + 1]) /\ idle' = 0
    /\ sq' = Tail(sq)
    /\ UNCHANGED <<guestVars, paramVars, mig, listVars, setupVars, wc, held, dst,
                   recvVars, dstMem>>

-----------------------------------------------------------------------------
(* Destination: recv_guest_mem. *)

\* Mutant of ReqNotify: no notification is requested.
ReqNotifyForgotten ==
    /\ dst = "notify" /\ dst' = "post"
    /\ UNCHANGED <<guestVars, paramVars, mig, listVars, setupVars, wc, hcaVars,
                   recvVars, dstMem>>

ReqNotify ==
    /\ dst = "notify" /\ dst' = "post" /\ armed' = TRUE
    /\ UNCHANGED <<guestVars, paramVars, mig, listVars, setupVars, wc, hcaVars,
                   recv_wr, event, dstMem>>

PostRecv ==
    /\ dst = "post" /\ dst' = "wait" /\ recv_wr' = TRUE
    /\ UNCHANGED <<guestVars, paramVars, mig, listVars, setupVars, wc, hcaVars,
                   armed, event, dstMem>>

\* ibv_get_cq_event returns.
GetCqEvent ==
    /\ dst = "wait" /\ event /\ dst' = "received"
    /\ UNCHANGED <<guestVars, paramVars, mig, listVars, setupVars, wc, hcaVars,
                   recvVars, dstMem>>

DstAbort ==
    /\ dst \in {"init", "exchange", "notify", "post", "wait"} /\ dst' = "exit"
    /\ UNCHANGED <<guestVars, paramVars, mig, listVars, setupVars, wc, hcaVars,
                   recvVars, dstMem>>

-----------------------------------------------------------------------------

Guest == \E p \in Pages : GuestLoad(p) \/ GuestStore(p) \/ UnmarkedStore(p)

Source ==
    \/ InitCom \/ CreateQp \/ Exchange("src") \/ ConComBuf \/ NextRound
    \/ LastRound \/ ScanPage \/ ScanEnds \/ StopVcpus \/ EnqueueAllMrs
    \/ EnqueueMr \/ FinalScan \/ FinishList \/ PostSend \/ PollCq \/ RoundSent
    \/ DestroyCom

Destination ==
    \/ DstInitCom \/ Exchange("dst") \/ DstConComBuf \/ ReqNotify \/ PostRecv
    \/ GetCqEvent

Next == Guest \/ Source \/ Destination \/ ExecuteWr \/ FailWr \/ Abort \/ DstAbort

Spec == Init /\ [][Next]_vars

\* Both threads run and the adapter works; nothing has to fail, and nothing is
\* asked of the guest.
FairSpec ==
    /\ Spec
    /\ WF_vars(Source) /\ WF_vars(Destination) /\ WF_vars(ExecuteWr \/ FailWr)

-----------------------------------------------------------------------------
(* Properties. *)

\* The work requests.
Wrs == [pages : SUBSET Pages, signaled : BOOLEAN, id : {"page", "last"}, imm : BOOLEAN]

\* Type correctness; the adapter is never given more than its queue holds.
TypeOK ==
    /\ mem \in [Pages -> Nat] /\ dstMem \in [Pages -> Nat] /\ steps \in Nat
    /\ accessed \subseteq touched /\ touched \subseteq Pages
    /\ unmarked \subseteq touched /\ running \in BOOLEAN
    /\ \E s \in Settings : /\ mig_params = [type |-> s.type, mode |-> s.mode]
                           /\ full_checkpoint = s.full /\ mem_mappings = s.list
    /\ mig \in {"init", "qp", "exchange", "loop", "scan", "stop", "copy", "enqueue",
                "post", "poll", "sent", "done", "exit"}
    /\ mrs \in {<<>>, Registered}
    /\ send_list \in Seq(Wrs) /\ sq \in Seq(Wrs)
    /\ cq \in Seq([id : {"page", "last"}, slots : Nat]) /\ idle \in Nat
    /\ depth \in Nat /\ held \in Int /\ held <= depth
    /\ qp \in {"ok", "error"} /\ wc \in {"none", "page", "last"}
    /\ dst \in {"init", "exchange", "notify", "post", "wait", "received", "exit"}
    /\ recv_wr \in BOOLEAN /\ armed \in BOOLEAN /\ event \in BOOLEAN

\* When the destination is notified it has every registered page that the guest
\* ever used, with the contents the page had when the vCPUs stopped, although
\* most were sent while the guest went on writing ("the guest-physical memory is
\* transferred (another time)").  A complete dump has the unused ones as well.
\* Excepted are pages of a live migration whose last store set no flag.
ExactMemory ==
    dst = "received" =>
        \A p \in PagesIn(Registered) :
            \/ dstMem[p] = mem[p]
            \/ p \notin touched /\ mig_params # [type |-> "cold", mode |-> "complete"]
            \/ p \in unmarked /\ mig_params.type = "live" /\ ~ full_checkpoint

\* An adapter with exactly the queue that was asked for.
AsRequested == depth = MaxSendWr /\ qp = "ok"

\* process_send_list has waited for the whole list when it returns: "ensure that
\* we receive the CQE for the last page".  Only then may the queue pair be
\* destroyed and the destination be sent the vCPU states.  On the way there the
\* single entry of the completion queue (IB_CQ_ENTRIES) is enough.
ListAwaited ==
    AsRequested =>
        /\ Len(cq) <= 1
        /\ mig = "sent" => sq = <<>> /\ cq = <<>> /\ wc = "last"

\* However long its lists, and whatever fails in the adapter, the source never
\* waits for a completion that does not come.
SourceEnds == mig = "exchange" ~> mig \in {"done", "exit"} \/ dst = "exit"

\* If nothing fails the destination gets its notification and goes on to read the
\* vCPU states.
MemoryArrives ==
    mig = "exchange" ~>
        dst = "received" \/ dst = "exit" \/ mig = "exit" \/ ~ AsRequested

-----------------------------------------------------------------------------
(* The inductive invariant behind ExactMemory and ListAwaited. *)

CompleteDump == mig_params = [type |-> "cold", mode |-> "complete"]

\* A work request for the page is still to be carried out.
Listed(p) ==
    \/ \E i \in DOMAIN send_list : p \in send_list[i].pages
    \/ \E i \in DOMAIN sq : p \in sq[i].pages

\* A request for the page is still to be made.
Todo(p) ==
    \/ (CompleteDump \/ p \in accessed) /\ (running \/ mig = "copy")
    \/ mig = "enqueue" /\ \E r \in scan : p \in PagesOf(mrs[r])
    \/ mig = "scan" /\ p \in accessed /\ p \in scan

\* What ExactMemory does not promise.
Excepted(p) ==
    \/ p \notin touched /\ ~ CompleteDump
    \/ p \in unmarked /\ mig_params.type = "live" /\ ~ full_checkpoint

\* Where the source is: the guest runs until the last list is made, and only the
\* last request of that list notifies.
SourceInv ==
    /\ mig \notin {"init", "exit"} => mrs = Registered
    /\ mig \in {"init", "qp", "exchange", "loop", "stop"} => running
    /\ mig \in {"copy", "enqueue", "done"} => ~ running
    /\ mig = "scan" /\ running => mig_params.type = "live"
    /\ mig = "scan" /\ ~ running => ~ CompleteDump
    /\ mig = "enqueue" => CompleteDump /\ scan \subseteq DOMAIN mrs
    /\ mig \notin {"scan", "enqueue", "post", "poll", "exit"} => send_list = <<>>
    /\ mig = "post" => send_list # <<>>
    /\ \A i \in DOMAIN send_list : send_list[i].imm =>
          ~ running /\ i = Len(send_list) /\ mig \in {"post", "poll", "exit"}
    /\ \A i \in DOMAIN sq : sq[i].imm =>
          /\ ~ running /\ i = Len(sq)
          /\ send_list = <<>> /\ mig \in {"poll", "sent"}

\* Until the adapter fails, a page that differs at the destination is on a list, or
\* its flag will put it on one; flags are only cleared by the rounds of a live
\* migration.
CopyInv ==
    /\ (mig_params.type = "cold" \/ full_checkpoint) /\ (running \/ mig = "copy") =>
          touched \subseteq accessed
    /\ qp = "ok" /\ mig \notin {"done", "exit"} =>
          \A p \in PagesIn(Registered) :
              dstMem[p] = mem[p] \/ Listed(p) \/ Todo(p) \/ Excepted(p)

\* The notification comes when nothing is left to do.
EventInv ==
    /\ event => ~ running /\ \A p \in PagesIn(Registered) :
                                dstMem[p] = mem[p] \/ Excepted(p)
    /\ dst = "received" => event

\* The requests of a list that ask for a completion, before its last one is marked
\* and afterwards.
SignalInv ==
    /\ mig \in {"scan", "enqueue"} =>
          \A i \in DOMAIN send_list :
              send_list[i].signaled = Signaled(i) /\ send_list[i].id = "page"
    /\ AsRequested /\ mig \in {"post", "poll"} =>
          \A i \in DOMAIN send_list :
              /\ send_list[i].signaled = (Signaled(i) \/ i = Len(send_list))
              /\ send_list[i].id = IF i = Len(send_list) THEN "last" ELSE "page"

\* The id of the completion that is waited for.
NextId == IF send_list = <<>> THEN "last" ELSE "page"

\* A portion of the list is in the queue, and its last request is the one that
\* completes; or that completion waits to be polled.
QueueInv ==
    /\ (AsRequested \/ mig \in {"init", "qp"}) /\ mig # "poll" =>
          sq = <<>> /\ cq = <<>> /\ idle = 0 /\ held = 0
    /\ AsRequested /\ mig = "poll" =>
          \/ /\ sq # <<>> /\ cq = <<>> /\ held = Len(sq) + idle
             /\ \A i \in DOMAIN sq : sq[i].signaled = (i = Len(sq))
             /\ sq[Len(sq)].id = NextId
          \/ /\ sq = <<>> /\ idle = 0
             /\ Len(cq) = 1 /\ cq[1].slots = held /\ cq[1].id = NextId
    /\ AsRequested /\ mig = "sent" => wc = "last"

RdmaInv ==
    TypeOK /\ SourceInv /\ CopyInv /\ EventInv /\ SignalInv /\ QueueInv
=============================================================================
