------------------------------ MODULE GdbSession ------------------------------
(***************************************************************************)
(* What the GDB stub promises the debugger: a conversation.  The debugger  *)
(* asks one thing at a time; the stub obeys each command exactly once and  *)
(* in order; what the debugger hears is the answer to what it last asked.  *)
(* A command that resumes the guest is answered when the guest stops or    *)
(* ends.                                                                   *)
(***************************************************************************)
EXTENDS Naturals

CONSTANTS
    Commands,        \* what the debugger may ask
    Resumes,         \* the commands that make the guest run
    Values,          \* values of the registers
    NoAnswer,
    After(_, _),     \* After(c, r): the registers, r before, once c is obeyed
    Answers(_, _, _, _)  \* Answers(n, c, r, s): possible answers to c with n
                         \* cores, registers r and last report s

VARIABLES ncores, asked, obeyed, answered, cmd, regs, report, reply, heard

vars == <<ncores, asked, obeyed, answered, cmd, regs, report, reply, heard>>

Init ==
    /\ asked = 0 /\ obeyed = 0 /\ answered = 0
    /\ cmd \in Commands /\ regs \in Values
    /\ reply = NoAnswer /\ heard = NoAnswer

Ask ==
    /\ answered = asked
    /\ asked' = asked + 1
    /\ cmd' \in Commands
    /\ UNCHANGED <<obeyed, answered, regs, report, reply, heard>>

Obey ==
    /\ obeyed < asked
    /\ obeyed' = obeyed + 1
    /\ regs' = After(cmd, regs)
    /\ reply' \in Answers(ncores, cmd, regs, report)
    /\ UNCHANGED <<asked, answered, cmd, report, heard>>

\* The guest, resumed by the last command, stops or ends.
Report ==
    /\ cmd \in Resumes /\ obeyed = asked
    /\ regs' \in Values
    /\ reply' = IF answered < asked /\ reply = NoAnswer THEN report' ELSE reply
    /\ UNCHANGED <<asked, obeyed, answered, cmd, heard>>

Answer ==
    /\ answered < asked /\ obeyed = asked /\ reply # NoAnswer
    /\ answered' = asked
    /\ heard' = reply
    /\ UNCHANGED <<asked, obeyed, cmd, regs, report, reply>>

Next == (Ask \/ Obey \/ Report \/ Answer) /\ UNCHANGED ncores

Spec == Init /\ [][Next]_vars
=============================================================================
