----------------------------- MODULE GdbProtocol -----------------------------
(***************************************************************************)
(* The remote protocol of uhyve's GDB stub (uhyve-gdb.c): framing,         *)
(* checksums and acknowledgements between the debugger and the vCPU thread *)
(* that has stopped, the dispatch of gdb_handle_exception, and the stub's  *)
(* part in the end of the process.                                         *)
(*                                                                         *)
(* recv_packet reads characters, so the way to the stub is a queue of      *)
(* characters: a command's body is a short run of characters, the checksum *)
(* of two digits is one character that stands for the body it belongs to   *)
(* (an ideal checksum).  The way to the debugger is a queue of frames and  *)
(* acknowledgements.  Noise may change one character of a packet: the code *)
(* provides for it with checksums and '-'.  Acknowledgements arrive as     *)
(* they are.                                                               *)
(*                                                                         *)
(* The debugger is external.  It is GDB as the stub meets it: it opens     *)
(* with a '+', asks one thing at a time, repeats a packet that is answered *)
(* by '-' or by silence, and swallows, with a '+', a frame that comes      *)
(* where it waits for an acknowledgement.  It sends no packet with a       *)
(* sequence number (a ':' in third place).                                 *)
(***************************************************************************)
EXTENDS Integers, Sequences

CONSTANTS
    CoreCounts,      \* values of HERMIT_CPUS
    Values,          \* values of the registers
    BufMax,          \* BUFMAX
    MaxTries,        \* how often the debugger repeats itself
    MaxAsked, MaxStops, MaxInterrupts,        \* bounds on the session
    MaxNoiseIn, MaxNoiseOut                   \* bounds on corrupted packets

\* The registers can hold what G0 and G1 write.
ASSUME GdbProtocolAssumption ==
    /\ CoreCounts \subseteq Nat \ {0}
    /\ Values \subseteq Nat /\ {0, 1} \subseteq Values
    /\ BufMax \in Nat /\ BufMax > 2
    /\ MaxTries \in Nat /\ MaxAsked \in Nat /\ MaxStops \in Nat
    /\ MaxInterrupts \in Nat /\ MaxNoiseIn \in Nat /\ MaxNoiseOut \in Nat

VARIABLES
    ncores,          \* HERMIT_CPUS
    pc,              \* where the vCPU thread is
    in_buffer,       \* what recv_packet has read of a packet
    out,             \* the packet send_packet sends
    after,           \* where the thread goes on after send_packet
    fatal,           \* gdb_handle_exception was called for a fatal error
    regs,            \* the vCPU's registers
    report,          \* the last stop report (sigval of gdb_handle_exception)
    thread_counter,  \* of gdb_handle_query
    toStub, toGdb,   \* the two directions of the connection
    closed,          \* socket_fd is -1
    dbg,             \* where the debugger is
    cmd,             \* its last command
    tries,           \* how often it has repeated itself
    listed,          \* the threads it was told of in an enumeration
    stops, interrupts, noiseIn, noiseOut,     \* how much was used of the bounds
    asked, obeyed, answered, reply, heard     \* history: the session

stub == <<in_buffer, out, after, fatal, regs, report, thread_counter, closed>>
debugger == <<dbg, cmd, tries, listed>>
bounds == <<stops, interrupts, noiseIn, noiseOut>>
history == <<asked, obeyed, answered, reply, heard>>
vars == <<ncores, pc, stub, toStub, toGdb, debugger, bounds, history>>

-----------------------------------------------------------------------------
(* Packets. *)

(* The commands by what the stub does with them:                           *)
(*   g   m and g: read memory or registers                                 *)
(*   G0, G1   M and G: write them                                          *)
(*   Z   Z and z, and packets the stub cannot parse; here with the longest *)
(*       body the buffer takes                                             *)
(*   c   c and s: resume                                                   *)
(*   v   anything the stub does not know, s or c with an address too       *)
(*   q   queries other than those for threads                              *)
(*   long   a body that fills the buffer                                   *)
Commands == {"g", "G0", "G1", "Z", "?", "c", "v", "q", "qf", "qs", "k", "D",
             "long"}
Resumes == {"c", "D"}

Body(c) ==
    [i \in 1 .. (CASE c = "long" -> BufMax - 1
                   [] c = "Z"    -> BufMax - 2
                   [] OTHER      -> 1) |-> c]

Char(t) == [t |-> t, of |-> <<>>]
Sum(body) == [t |-> "sum", of |-> body]

Packet(c) ==
    <<Char("$")>> \o [i \in DOMAIN Body(c) |-> Char(c)]
        \o <<Char("#"), Sum(Body(c))>>

\* What noise may make of a packet.
Garbled(p) ==
    {[p EXCEPT ![i] = Char(x)] : i \in DOMAIN p, x \in {"$", "#", "noise"}} \ {p}

\* Frames and acknowledgements for the debugger; a frame's second field is the
\* number it carries.
NoAnswer == <<"none", 0>>
OK == <<"OK", 0>>
Error == <<"E", 1>>
NotSupported == <<"", 0>>
Signal(n) == <<"S", n>>
Exited == <<"W", 0>>
Frame(body, intact) == [t |-> "frame", body |-> body, intact |-> intact]
Ack(t) == [t |-> t, body |-> NoAnswer, intact |-> TRUE]

GDB_SIGNAL_FIRST == 0
GDB_SIGNAL_TRAP == 5
GDB_SIGNAL_SEGV == 11

Written(c, r) == CASE c = "G0" -> 0 [] c = "G1" -> 1 [] OTHER -> r

Init ==
    /\ ncores \in CoreCounts
    /\ pc = "connect"
    /\ in_buffer = <<>> /\ out = NoAnswer /\ after = "start" /\ fatal = FALSE
    /\ regs \in Values /\ report = Signal(GDB_SIGNAL_FIRST)
    /\ thread_counter = 0 /\ closed = FALSE
    /\ toStub = <<>> /\ toGdb = <<>>
    /\ dbg = "off" /\ cmd = "?" /\ tries = 0 /\ listed = <<>>
    /\ stops = 0 /\ interrupts = 0 /\ noiseIn = 0 /\ noiseOut = 0
    /\ asked = 0 /\ obeyed = 0 /\ answered = 0
    /\ reply = NoAnswer /\ heard = NoAnswer

\* The debugger has left, or given up.
gone == dbg \in {"gone", "lost"}

\* send_char: what is sent to a debugger that has gone is lost.
Sent(x) == toGdb' = IF gone \/ closed THEN toGdb ELSE Append(toGdb, x)

-----------------------------------------------------------------------------
(* The vCPU thread: sending. *)

\* wait_for_connect, then gdb_handle_exception begins with a stop reply.
Connect ==
    /\ pc = "connect"
    /\ dbg' = "idle" /\ toStub' = <<Char("+")>>
    /\ pc' = "send" /\ out' = report /\ after' = "start"
    /\ UNCHANGED <<ncores, in_buffer, fatal, regs, report, thread_counter,
                   closed, toGdb, cmd, tries, listed, bounds, history>>

\* send_packet_no_ack; noise may meet the frame.
SendPacket ==
    /\ pc = "send"
    /\ \E intact \in BOOLEAN :
          /\ intact \/ (noiseOut < MaxNoiseOut /\ ~ gone)
          /\ Sent(Frame(out, intact))
          /\ noiseOut' = IF intact THEN noiseOut ELSE noiseOut + 1
    /\ pc' = "ack"
    /\ UNCHANGED <<ncores, stub, toStub, debugger, stops, interrupts, noiseIn,
                   history>>

\* send_packet: any character but '+' makes it send again.
RecvAck ==
    /\ pc = "ack" /\ toStub # <<>>
    /\ pc' = IF Head(toStub).t = "+" THEN after ELSE "send"
    /\ toStub' = Tail(toStub)
    /\ UNCHANGED <<ncores, stub, toGdb, debugger, bounds, history>>

\* Mutant of AckHangup: send_packet tries for ever.
AckHangupResends ==
    /\ pc = "ack" /\ gone
    /\ closed' \in {closed, TRUE}
    /\ pc' = "send"
    /\ UNCHANGED <<ncores, in_buffer, out, after, fatal, regs, report,
                   thread_counter, toStub, toGdb, debugger, bounds, history>>

\* recv_char finds the connection shut (socket_fd becomes -1) or broken:
\* send_packet returns.
AckHangup ==
    /\ pc = "ack" /\ gone
    /\ closed' \in {closed, TRUE}
    /\ pc' = after
    /\ UNCHANGED <<ncores, in_buffer, out, after, fatal, regs, report,
                   thread_counter, toStub, toGdb, debugger, bounds, history>>

\* The kernel's SIGPIPE for a send on a connection the other side has left.
BrokenPipe ==
    /\ pc \in {"send", "sum"} /\ gone /\ ~ closed
    /\ pc' = "dead"
    /\ UNCHANGED <<ncores, stub, toStub, toGdb, debugger, bounds, history>>

-----------------------------------------------------------------------------
(* The vCPU thread: recv_packet. *)

RecvStart ==
    /\ pc = "start" /\ toStub # <<>>
    /\ toStub' = Tail(toStub)
    /\ pc' = IF Head(toStub).t = "$" THEN "body" ELSE "start"
    /\ in_buffer' = <<>>
    /\ UNCHANGED <<ncores, out, after, fatal, regs, report, thread_counter,
                   closed, toGdb, debugger, bounds, history>>

\* A '$' starts again; a body that fills the buffer is dropped without a word.
RecvBody ==
    LET ch == Head(toStub).t
    IN  /\ pc = "body" /\ toStub # <<>>
        /\ toStub' = Tail(toStub)
        /\ in_buffer' = CASE ch = "$" -> <<>>
                          [] ch = "#" -> in_buffer
                          [] OTHER -> Append(in_buffer, ch)
        /\ pc' = CASE ch = "#" -> "sum"
                   [] Len(in_buffer') = BufMax - 1 -> "start"
                   [] OTHER -> "body"
        /\ UNCHANGED <<ncores, out, after, fatal, regs, report, thread_counter,
                       closed, toGdb, debugger, bounds, history>>

\* Mutant of ChecksumOK: not compared.
ChecksumIgnored(ch) == TRUE

ChecksumOK(ch) == ch = Sum(in_buffer)

RecvSum ==
    /\ pc = "sum" /\ toStub # <<>>
    /\ toStub' = Tail(toStub)
    /\ IF ChecksumOK(Head(toStub))
       THEN Sent(Ack("+")) /\ pc' = "obey"
       ELSE Sent(Ack("-")) /\ pc' = "start"
    /\ UNCHANGED <<ncores, stub, debugger, bounds, history>>

\* recv_packet returns NULL: errx.
RecvHangup ==
    /\ pc \in {"start", "body", "sum"} /\ gone
    /\ closed' \in {closed, TRUE}
    /\ pc' = "exit"
    /\ UNCHANGED <<ncores, in_buffer, out, after, fatal, regs, report,
                   thread_counter, toStub, toGdb, debugger, bounds, history>>

-----------------------------------------------------------------------------
(* The vCPU thread: gdb_handle_exception. *)

\* Back to vcpu_loop, which ends the process after a fatal error.
Resumed == IF fatal THEN "exit" ELSE "guest"

\* Mutant of NextThread: the last core is not told.
NextThreadEarly(c) ==
    CASE c = "qf" -> thread_counter + 1
      [] c = "qs" -> IF thread_counter + 1 < ncores THEN thread_counter + 1
                                                    ELSE 0
      [] OTHER -> thread_counter

\* gdb_handle_query: thread_counter after a query; 0 ends an enumeration.
NextThread(c) ==
    CASE c = "qf" -> thread_counter + 1
      [] c = "qs" -> IF thread_counter < ncores THEN thread_counter + 1 ELSE 0
      [] OTHER -> thread_counter

\* The answers gdb_handle_exception may give.
Answers(n, c, r, s) ==
    CASE c = "g" -> {<<"regs", r>>}
      [] c \in {"G0", "G1", "k", "D"} -> {OK}
      [] c = "Z" -> {OK, Error}
      [] c = "?" -> {s}
      [] c = "q" -> {IF n = 1 THEN NotSupported ELSE NoAnswer}
      [] c \in {"qf", "qs"} ->
            IF n = 1 THEN {NotSupported}
            ELSE {<<"l", 0>>} \cup {<<"m", i>> : i \in 1 .. n}
      [] c = "c" -> {NoAnswer}
      [] OTHER -> {NotSupported}

Answered(c) ==
    IF c \in {"qf", "qs"} /\ ncores > 1
    THEN {IF NextThread(c) = 0 THEN <<"l", 0>> ELSE <<"m", NextThread(c)>>}
    ELSE Answers(ncores, c, regs, report)

\* packet[0] as the dispatch takes it; an empty packet is an unknown one.
Command == IF in_buffer = <<>> THEN "v" ELSE Head(in_buffer)

\* Mutant of Obey: what the stub does not know gets no answer.
ObeySilently ==
    LET c == Command
    IN  /\ pc = "obey"
        /\ regs' = Written(c, regs)
        /\ reply' \in Answered(c)
        /\ thread_counter' = IF ncores > 1 THEN NextThread(c) ELSE thread_counter
        /\ out' = reply'
        /\ pc' = CASE c = "c" -> Resumed
                   [] c # "c" /\ reply' \in {NoAnswer, NotSupported} -> "start"
                   [] OTHER -> "send"
        /\ after' = IF c = "D" THEN Resumed ELSE "start"
        /\ obeyed' = obeyed + 1
        /\ UNCHANGED <<ncores, in_buffer, fatal, report, closed, toStub, toGdb,
                       debugger, bounds, asked, answered, heard>>

\* One turn of the loop of gdb_handle_exception, up to the sending.
Obey ==
    LET c == Command
    IN  /\ pc = "obey"
        /\ regs' = Written(c, regs)
        /\ reply' \in Answered(c)
        /\ thread_counter' = IF ncores > 1 THEN NextThread(c) ELSE thread_counter
        /\ out' = reply'
        /\ pc' = CASE c = "c" -> Resumed
                   [] c # "c" /\ reply' = NoAnswer -> "start"
                   [] OTHER -> "send"
        /\ after' = IF c = "D" THEN Resumed ELSE "start"
        /\ obeyed' = obeyed + 1
        /\ UNCHANGED <<ncores, in_buffer, fatal, report, closed, toStub, toGdb,
                       debugger, bounds, asked, answered, heard>>

Reported(r) == IF cmd \in Resumes /\ obeyed = asked /\ answered < asked
                    /\ reply = NoAnswer
               THEN r ELSE reply

\* vcpu_loop: KVM_EXIT_DEBUG (and SHUTDOWN), or a fatal error.
GuestStops(sig) ==
    /\ pc = "guest" /\ stops < MaxStops
    /\ regs' \in Values
    /\ report' = Signal(sig) /\ fatal' = (sig = GDB_SIGNAL_SEGV)
    /\ pc' = "send" /\ out' = report' /\ after' = "start"
    /\ stops' = stops + 1
    /\ reply' = Reported(report')
    /\ UNCHANGED <<ncores, in_buffer, thread_counter, closed, toStub, toGdb,
                   debugger, interrupts, noiseIn, noiseOut, asked, obeyed,
                   answered, heard>>

\* vcpu_loop: KVM_EXIT_HLT, uhyve_gdb_handle_term and then exit().
GuestHalts ==
    /\ pc = "guest"
    /\ report' = Exited
    /\ pc' = "send" /\ out' = Exited /\ after' = "exit"
    /\ reply' = Reported(Exited)
    /\ UNCHANGED <<ncores, in_buffer, fatal, regs, thread_counter, closed,
                   toStub, toGdb, debugger, bounds, asked, obeyed, answered,
                   heard>>

\* vcpu_loop: UHYVE_PORT_EXIT.
GuestExits ==
    /\ pc = "guest"
    /\ pc' = "exit"
    /\ UNCHANGED <<ncores, stub, toStub, toGdb, debugger, bounds, history>>

\* exit(): uhyve_gdb_handle_term as registered with atexit.
Exit ==
    /\ pc = "exit"
    /\ pc' = "send" /\ out' = Exited /\ after' = "dead"
    /\ reply' = Reported(Exited)
    /\ report' = IF reply' # reply THEN Exited ELSE report
    /\ UNCHANGED <<ncores, in_buffer, fatal, regs, thread_counter, closed,
                   toStub, toGdb, debugger, bounds, asked, obeyed, answered,
                   heard>>

-----------------------------------------------------------------------------
(* The debugger. *)

\* A packet on its way to the stub, as it is or garbled.
Transmit(c) ==
    \/ toStub' = toStub \o Packet(c) /\ UNCHANGED noiseIn
    \/ /\ noiseIn < MaxNoiseIn /\ noiseIn' = noiseIn + 1
       /\ \E p \in Garbled(Packet(c)) : toStub' = toStub \o p

Answer(x) == toStub' = Append(toStub, Char(x))

\* An enumeration of the threads is not interrupted by other commands.
Ask(c) ==
    /\ dbg = "idle" /\ asked < MaxAsked
    /\ (listed # <<>>) = (c = "qs")
    /\ Transmit(c)
    /\ dbg' = "ack" /\ cmd' = c /\ tries' = 0
    /\ asked' = asked + 1
    /\ UNCHANGED <<ncores, pc, stub, toGdb, listed, stops, interrupts, noiseOut,
                   obeyed, answered, reply, heard>>

\* Waiting for '+'.
DbgAck ==
    /\ dbg = "ack" /\ toGdb # <<>>
    /\ toGdb' = Tail(toGdb)
    /\ CASE Head(toGdb).t = "+" ->
              /\ dbg' = CASE cmd = "c" -> "running"
                          [] cmd = "k" -> "gone"
                          [] OTHER -> "reply"
              /\ tries' = 0
              /\ UNCHANGED <<toStub, noiseIn>>
         [] Head(toGdb).t = "-" -> Transmit(cmd) /\ UNCHANGED <<dbg, tries>>
         [] OTHER -> Answer("+") /\ UNCHANGED <<dbg, tries, noiseIn>>
    /\ UNCHANGED <<ncores, pc, stub, cmd, listed, stops, interrupts, noiseOut,
                   history>>

\* Waiting for the answer, or for the guest to stop.  To be told anything but
\* "OK" when detaching is an error.
DbgReply ==
    LET f == Head(toGdb)
    IN  /\ dbg \in {"reply", "running"} /\ toGdb # <<>>
        /\ toGdb' = Tail(toGdb)
        /\ CASE f.t # "frame" -> UNCHANGED <<toStub, dbg, listed, answered, heard>>
             [] f.t = "frame" /\ ~ f.intact ->
                  Answer("-") /\ UNCHANGED <<dbg, listed, answered, heard>>
             [] f.t = "frame" /\ f.intact /\ cmd = "D" /\ f.body # OK ->
                  dbg' = "gone" /\ UNCHANGED <<toStub, listed, answered, heard>>
             [] OTHER ->
                  /\ Answer("+")
                  /\ dbg' = IF f.body = Exited \/ cmd = "D" THEN "gone" ELSE "idle"
                  /\ listed' = IF f.body[1] = "m" THEN Append(listed, f.body[2])
                                                  ELSE <<>>
                  /\ answered' = asked /\ heard' = f.body
        /\ UNCHANGED <<ncores, pc, stub, cmd, tries, bounds, asked, obeyed,
                       reply>>

\* Nothing is on its way and the stub waits for the debugger.
Silence ==
    /\ toGdb = <<>> /\ toStub = <<>>
    /\ pc \in {"ack", "start", "body", "sum"}

Timeout ==
    /\ dbg \in {"ack", "reply"} /\ Silence
    /\ IF tries < MaxTries
       THEN /\ tries' = tries + 1
            /\ IF dbg = "ack" THEN Transmit(cmd) ELSE Answer("-") /\ UNCHANGED noiseIn
            /\ UNCHANGED dbg
       ELSE dbg' = "lost" /\ UNCHANGED <<tries, toStub, noiseIn>>
    /\ UNCHANGED <<ncores, pc, stub, toGdb, cmd, listed, stops, interrupts,
                   noiseOut, history>>

Interrupt ==
    /\ dbg = "running" /\ interrupts < MaxInterrupts
    /\ Answer("^C")
    /\ interrupts' = interrupts + 1
    /\ UNCHANGED <<ncores, pc, stub, toGdb, debugger, stops, noiseIn, noiseOut,
                   history>>

Close ==
    /\ dbg \in {"idle", "running"}
    /\ dbg' = "gone"
    /\ UNCHANGED <<ncores, pc, stub, toStub, toGdb, cmd, tries, listed, bounds,
                   history>>

-----------------------------------------------------------------------------
Receive == RecvStart \/ RecvBody \/ RecvSum \/ RecvHangup
Send == SendPacket \/ RecvAck \/ AckHangup \/ BrokenPipe
Guest == GuestHalts \/ GuestExits
            \/ \E sig \in {GDB_SIGNAL_TRAP, GDB_SIGNAL_SEGV} : GuestStops(sig)
StubStep == Receive \/ Send \/ Obey \/ Exit
DebuggerStep == DbgAck \/ DbgReply \/ Timeout

Next ==
    \/ Connect \/ StubStep \/ Guest
    \/ DebuggerStep \/ Interrupt \/ Close
    \/ \E c \in Commands : Ask(c)

Spec == Init /\ [][Next]_vars

(* The thread runs, and the debugger reads what arrives and notices when   *)
(* nothing does.  Neither is the guest obliged to stop nor the debugger to *)
(* ask or to leave.                                                        *)
FairSpec == Spec /\ WF_vars(StubStep) /\ WF_vars(DebuggerStep)

-----------------------------------------------------------------------------
(* Properties. *)

Letters == Commands \cup {"$", "#", "sum", "noise", "+", "-", "^C"}
Chars == [t : Letters, of : Seq(Commands)]
Bodies == {"none", "OK", "E", "", "S", "W", "regs", "m", "l"} \X Nat
Messages == [t : {"frame", "+", "-"}, body : Bodies, intact : BOOLEAN]

\* Type correctness of the stub, the connection and the debugger.
TypeOK ==
    /\ pc \in {"connect", "send", "ack", "start", "body", "sum", "obey",
               "guest", "exit", "dead"}
    /\ after \in {"start", "guest", "exit", "dead"}
    /\ in_buffer \in Seq(Letters) /\ Len(in_buffer) < BufMax
    /\ out \in Bodies /\ report \in Bodies /\ reply \in Bodies
    /\ toStub \in Seq(Chars) /\ toGdb \in Seq(Messages)
    /\ dbg \in {"off", "idle", "ack", "reply", "running", "gone", "lost"}
    /\ cmd \in Commands /\ regs \in Values
    /\ ncores \in Nat \ {0} /\ thread_counter \in Nat /\ listed \in Seq(Nat)
    /\ answered \in Nat /\ asked \in {answered, answered + 1}
    /\ obeyed \in answered .. asked

(* The stub implements a conversation: whatever noise does to packets in   *)
(* either direction and however often they are repeated, each command is   *)
(* obeyed once and in order, and the frame the debugger takes for the      *)
(* answer is the answer to its last command, with the registers of that    *)
(* moment (recv_packet, send_packet, gdb_handle_exception).                *)
Session == INSTANCE GdbSession WITH After <- Written
IsSession == Session!Spec

\* A complete enumeration of the threads names every core once, in order
\* (gdb_handle_query).
ThreadsListed ==
    [][listed # <<>> /\ listed' = <<>> => listed = [i \in 1 .. ncores |-> i]]_listed

(* Every command is answered, or the guest runs, or the debugger leaves of *)
(* its own accord, unless the packet fills the buffer, the stub has no     *)
(* word for the query, or noise has met a frame of the stub (a '-' may     *)
(* then find the stub in recv_packet, which ignores it).                   *)
EveryCommandAnswered ==
    (answered < asked) ~>
        \/ answered = asked \/ pc = "guest" \/ dbg = "gone"
        \/ cmd = "long" \/ (cmd = "q" /\ ncores > 1)
        \/ noiseOut > 0

\* A process that exits ends, and a debugger that leaves a stopped guest ends
\* it or lets it run: recv_packet, send_packet and uhyve_gdb_handle_term wait
\* for no one for ever.
TermEnds ==
    /\ pc = "exit" ~> pc = "dead"
    /\ gone /\ pc # "guest" ~> pc \in {"dead", "guest"}

-----------------------------------------------------------------------------
(* The inductive invariant. *)

\* A command is on its way at most once: none is (Quiet), it is not yet received
\* (Pending), or it is and will not be again (Taken).
Quiet == asked = answered /\ pc # "obey"
Pending == asked = answered + 1 /\ obeyed = answered /\ pc # "obey"
Taken == asked = answered + 1 /\ obeyed = IF pc = "obey" THEN answered ELSE asked

\* Behind position i of what the stub has still to read, s: there is one checksum,
\* no start of a packet behind an end and a checksum, and no end without one.
Whole(s, i) ==
    /\ \A j, k \in DOMAIN s : i < j /\ j < k =>
          /\ s[j].t = "#" => k = j + 1 \/ s[k].t # "$"
          /\ s[j].t = "sum" => s[k].t # "sum"
    /\ i < Len(s) /\ s[Len(s)].t = "#" => i + 1 < Len(s) /\ s[Len(s) - 1].t = "#"

Without(s, t) == \A j \in DOMAIN s : s[j].t # t

\* The way to the stub: whatever noise has done to it, a packet gives one result,
\* the '+' or '-' of RecvSum, and the '+' only at its end.
InInv ==
    /\ \A j \in DOMAIN toStub : toStub[j].t = "sum" => toStub[j].of = Body(cmd)
    /\ pc = "body" => Whole(toStub, 0) /\ Len(in_buffer) < BufMax - 1
    /\ pc = "sum" => /\ toStub # <<>>
                     /\ \A j, k \in DOMAIN toStub : j < k =>
                           /\ toStub[k].t # "$"
                           /\ toStub[j].t = "sum" => toStub[k].t # "sum"
    /\ pc \notin {"body", "sum"} =>
          \A i \in DOMAIN toStub : toStub[i].t = "$" => Whole(toStub, i)
    /\ pc = "obey" => in_buffer = Body(cmd)
    /\ ~ Pending => /\ Without(toStub, "$") /\ Without(toStub, "sum")
                    /\ pc \notin {"body", "sum"}
    /\ Pending /\ gone => toStub = <<>>

\* What is on the way to the debugger, q: frames only; frames and a '-'; frames and
\* the '+' at i.
Frames(q) == \A j \in DOMAIN q : q[j].t = "frame"
Rejected(q) ==
    /\ q # <<>> /\ q[Len(q)].t = "-"
    /\ \A j \in DOMAIN q : j # Len(q) => q[j].t = "frame"
AckedAt(q, i) ==
    /\ i \in DOMAIN q /\ q[i].t = "+"
    /\ \A j \in DOMAIN q : j # i => q[j].t = "frame"

\* A frame with this body answers command c, to which the stub's answer is r; all
\* frames of q behind i do.
Fits(b, c, r) == (b = r /\ b # NoAnswer) \/ (c = "D" /\ b # OK)
Fitting(q, i, c, r) == \A j \in DOMAIN q : i < j => Fits(q[j].body, c, r)

\* The way to the debugger: what is in front of the '+' for the last command is
\* stale, and what is behind it answers that command.
OutInv ==
    /\ ~ gone /\ Quiet => Frames(toGdb)
    /\ ~ gone /\ Pending =>
          \/ Frames(toGdb)
          \/ Rejected(toGdb) /\ pc = "start" /\ Without(toStub, "$")
    /\ Taken /\ dbg = "ack" =>
          \E i \in DOMAIN toGdb :
              /\ AckedAt(toGdb, i)
              /\ IF pc = "obey" THEN i = Len(toGdb) ELSE Fitting(toGdb, i, cmd, reply)
    /\ Taken /\ dbg \in {"reply", "running"} =>
          /\ Frames(toGdb)
          /\ IF pc = "obey" THEN toGdb = <<>> ELSE Fitting(toGdb, 0, cmd, reply)

\* The thread leaves gdb_handle_exception.
Sending == pc \in {"send", "ack"}
Leaves == pc \in {"guest", "exit", "dead"} \/ (Sending /\ after # "start")

\* Where the thread and the debugger are.
PlaceInv ==
    /\ dbg \in {"off", "idle"} => Quiet
    /\ dbg = "ack" => Pending \/ Taken
    /\ dbg \in {"reply", "running"} => Taken
    /\ dbg = "off" <=> pc = "connect"
    /\ closed => gone
    /\ pc = "obey" => Taken
    /\ pc = "guest" => cmd \in Resumes /\ obeyed = asked
    /\ Sending /\ after = "guest" => cmd = "D" /\ obeyed = asked
    /\ ~ gone /\ ~ Taken => ~ Leaves
    /\ ~ gone /\ Taken /\ pc # "obey" =>
          /\ Sending => Fits(out, cmd, reply)
          /\ cmd = "D" => reply = OK
          /\ Leaves /\ cmd # "D" =>
                /\ cmd = "c"
                /\ pc = "guest" => reply = NoAnswer
                /\ pc = "exit" => reply \in {NoAnswer, Exited}
                /\ pc \notin {"guest", "exit"} => reply = Exited

\* The enumeration of the threads.
ThreadInv ==
    /\ listed = [i \in 1 .. Len(listed) |-> i] /\ Len(listed) <= ncores
    /\ ncores = 1 => listed = <<>>
    /\ ~ Quiet => (listed # <<>> <=> cmd = "qs")
    /\ report[1] # "m"
    /\ IF Taken /\ pc # "obey" /\ ncores > 1 /\ cmd \in {"qf", "qs"}
       THEN \/ /\ reply = <<"m", thread_counter>>
               /\ thread_counter = Len(listed) + 1 /\ thread_counter <= ncores
            \/ reply = <<"l", 0>> /\ thread_counter = 0 /\ Len(listed) = ncores
       ELSE /\ thread_counter = Len(listed)
            /\ Taken /\ pc # "obey" => reply[1] # "m"

ProtocolInv == TypeOK /\ InInv /\ OutInv /\ PlaceInv /\ ThreadInv
=============================================================================
