----------------------------- MODULE StopTheWorld -----------------------------
(***************************************************************************)
(* How a checkpoint and a migration stop the vCPUs, together.              *)
(*                                                                         *)
(* Both do so by signals to the vCPU threads, whose handlers meet at a     *)
(* barrier: timer_handler (SIGALRM) and sigusr_handler (SIGTHRCHKP) for a  *)
(* checkpoint, vcpu_thread_mig_handler (SIGTHRMIG) for a migration.  It is *)
(* one barrier for both, and a handler may be interrupted by another: only *)
(* its own signal is blocked while it runs.  So every thread has a stack   *)
(* of handlers, and a handler that waits counts at the barrier also while  *)
(* another one runs on top of it.                                          *)
(*                                                                         *)
(* Modules Checkpoint and Migration have the rest, each for itself.        *)
(***************************************************************************)
EXTENDS Integers, Sequences, FiniteSets

CONSTANTS
    NCores,          \* HERMIT_CPUS
    MaxAlarms        \* bound on expiries of the checkpoint timer

VARIABLES
    stack,           \* each thread's handlers, the running one last: which it is
                     \* and where it is
    pending,         \* each thread's pending SIGTHRCHKP and SIGTHRMIG
    alarm, alarms,   \* SIGALRM is pending for the process; how often it came
    mig,             \* where migration_handler is
    saved            \* vCPUs whose state is in vcpu_thread_states

vars == <<stack, pending, alarm, alarms, mig, saved>>

Cores == 0 .. NCores - 1
Frames(st) == {<<c, i>> \in Cores \X (1 .. 4) : i \in DOMAIN st[c]}

Init ==
    /\ stack = [c \in Cores |-> <<>>] /\ pending = [c \in Cores |-> {}]
    /\ alarm = FALSE /\ alarms = 0
    /\ mig = "idle" /\ saved = {}

Running(c, h) == \E i \in DOMAIN stack[c] : stack[c][i].h = h
Top(c) == stack[c][Len(stack[c])]
TopAt(c, at) == stack[c] # <<>> /\ Top(c).at = at
Push(c, h) == [stack EXCEPT ![c] = Append(@, [h |-> h, at |-> "b1"])]
Move(c, at) == [stack EXCEPT ![c][Len(stack[c])].at = at]

\* pthread_barrier_wait(&barrier), after an arrival: NCores waiting handlers,
\* whosever they are, open it.
Opened(f) ==
    CASE f.at = "b1" -> [f EXCEPT !.at = "work"]
      [] f.at = "b2" -> [f EXCEPT !.at = "end"]
      [] OTHER -> f
Met(st) ==
    IF Cardinality({<<c, i>> \in Frames(st) : st[c][i].at \in {"b1", "b2"}}) = NCores
    THEN [c \in Cores |-> [i \in DOMAIN st[c] |-> Opened(st[c][i])]]
    ELSE st

-----------------------------------------------------------------------------
TimerExpires ==
    /\ ~ alarm /\ alarms < MaxAlarms /\ mig # "gone"
    /\ alarm' = TRUE /\ alarms' = alarms + 1
    /\ UNCHANGED <<stack, pending, mig, saved>>

\* SIGALRM goes to the main thread unless that blocks it: timer_handler signals
\* the other vCPU threads and waits.
TimerHandler(c) ==
    /\ alarm /\ ~ Running(c, "timer") /\ (c = 0 \/ Running(0, "timer"))
    /\ alarm' = FALSE
    /\ pending' = [d \in Cores |->
                      IF d = c THEN pending[d] ELSE pending[d] \cup {"chkp"}]
    /\ stack' = Met(Push(c, "timer"))
    /\ UNCHANGED <<alarms, mig, saved>>

\* sigusr_handler and vcpu_thread_mig_handler wait at the barrier first.
TakeSignal(c, sig) ==
    /\ sig \in pending[c] /\ ~ Running(c, sig)
    /\ pending' = [pending EXCEPT ![c] = @ \ {sig}]
    /\ stack' = Met(Push(c, sig))
    /\ UNCHANGED <<alarm, alarms, mig, saved>>

\* timer_handler and sigusr_handler have written what they write and wait.
Write(c) ==
    /\ TopAt(c, "work") /\ Top(c).h # "mig"
    /\ stack' = Met(Move(c, "b2"))
    /\ UNCHANGED <<pending, alarm, alarms, mig, saved>>

Return(c) ==
    /\ TopAt(c, "end")
    /\ stack' = [stack EXCEPT ![c] = SubSeq(@, 1, Len(@) - 1)]
    /\ UNCHANGED <<pending, alarm, alarms, mig, saved>>

\* vcpu_thread_mig_handler saves the state and waits at migration_barrier, to
\* be killed.
Save(c) ==
    /\ TopAt(c, "work") /\ Top(c).h = "mig"
    /\ saved' = saved \cup {c}
    /\ stack' = Move(c, "m1")
    /\ UNCHANGED <<pending, alarm, alarms, mig>>

\* migration_handler signals every vCPU thread and waits at migration_barrier.
SignalVcpus ==
    /\ mig = "idle"
    /\ pending' = [c \in Cores |-> pending[c] \cup {"mig"}]
    /\ mig' = "wait"
    /\ UNCHANGED <<stack, alarm, alarms, saved>>

\* migration_barrier opens for the vCPUs and migration_handler; it sends
\* memory and states, and ends the process.
SendGuest ==
    /\ mig = "wait" /\ saved = Cores
    /\ mig' = "gone"
    /\ UNCHANGED <<stack, pending, alarm, alarms, saved>>

Next ==
    \/ TimerExpires \/ SignalVcpus \/ SendGuest
    \/ \E c \in Cores :
          \/ TimerHandler(c) \/ Write(c) \/ Save(c) \/ Return(c)
          \/ \E sig \in {"chkp", "mig"} : TakeSignal(c, sig)

Spec == Init /\ [][Next]_vars

-----------------------------------------------------------------------------
(* Once the state of one vCPU is saved for a migration, no vCPU thread is   *)
(* back in the guest: "ensure consistency among VCPUs"                      *)
(* (vcpu_thread_mig_handler).                                               *)
OneInstant == saved # {} => \A c \in Cores : stack[c] # <<>>
=============================================================================
