--------------------------- MODULE GdbBreakpoints ---------------------------
(***************************************************************************)
(* The breakpoints of uhyve's GDB stub (uhyve-gdb.c).                      *)
(*                                                                         *)
(* A vCPU thread that leaves the guest with a debug exception runs         *)
(* gdb_handle_exception and obeys the debugger's packets until one of them *)
(* resumes it.  'Z' and 'z' insert and remove breakpoints: a software      *)
(* breakpoint replaces the first byte of an instruction in guest memory by *)
(* int3 and keeps the byte; a hardware breakpoint or watchpoint takes one  *)
(* of the debug registers.  After every change the vCPU is given the new   *)
(* settings with KVM_SET_GUEST_DEBUG.                                      *)
(*                                                                         *)
(* Two vCPU threads that stop at the same time both read packets from the  *)
(* one socket, so any stopped vCPU may obey the next packet.  The field    *)
(* refcount of a breakpoint is left out: uhyve_gdb_add_breakpoint only     *)
(* inserts what bp_list_find does not find, so it is always 1.             *)
(***************************************************************************)
EXTENDS Naturals, FiniteSets

CONSTANTS
    MaxVcpus,        \* bound on the number of vCPU threads
    Addrs,           \* guest-physical addresses
    Bytes,           \* values of a byte of guest code other than Int3
    Int3,            \* the opcode of int3
    SwLens,          \* lengths the debugger uses for software breakpoints
    HwLens, HwTypes, \* lengths and kinds it uses for hardware breakpoints
    MaxHw            \* MAX_HW_BREAKPOINTS

ASSUME GdbAssumption ==
    /\ Int3 \notin Bytes /\ "sw" \notin HwTypes
    /\ MaxVcpus \in Nat /\ MaxHw \in Nat

VARIABLES
    bp_ncores,       \* HERMIT_CPUS
    guest_mem,       \* the byte at each address
    sw_breakpoints,  \* the list: records addr, len, saved_insn
    hw_breakpoints,  \* the list: records type, addr, len
    nr_hw_breakpoints,
    stepping,        \* the stub's flag
    guest_debug,     \* what KVM_SET_GUEST_DEBUG last gave each vCPU
    stopped,         \* vCPUs in gdb_handle_exception
    aborted,         \* an assertion has failed
    text,            \* history: the guest's code as the debugger means it
    inserted         \* history: breakpoints acknowledged and not yet removed

bp_vars == <<bp_ncores, guest_mem, sw_breakpoints, hw_breakpoints,
             nr_hw_breakpoints, stepping, guest_debug, stopped, aborted, text,
             inserted>>

Vcpus == 0 .. bp_ncores - 1

Code == Bytes \cup {Int3}

SwBreakpoint == [addr : Addrs, len : SwLens, saved_insn : Code]
HwBreakpoint == [type : HwTypes, addr : Addrs, len : HwLens]
Request == HwBreakpoint \cup [type : {"sw"}, addr : Addrs, len : SwLens]

\* struct kvm_guest_debug as uhyve_gdb_update_guest_debug fills it.
Settings(sw, hw, step) ==
    [singlestep |-> step, use_sw_bp |-> sw # {}, debugreg |-> hw]

\* bp_list_find: in the hardware list the type is not compared.
FindSw(r) == {bp \in sw_breakpoints : bp.addr = r.addr /\ bp.len = r.len}
FindHw(r) == {bp \in hw_breakpoints : bp.addr = r.addr /\ bp.len = r.len}

BpInit ==
    /\ bp_ncores \in 1 .. MaxVcpus
    /\ guest_mem \in [Addrs -> Code]
    /\ text = guest_mem
    /\ sw_breakpoints = {} /\ hw_breakpoints = {} /\ nr_hw_breakpoints = 0
    /\ stepping = FALSE
    /\ guest_debug = [v \in Vcpus |-> Settings({}, {}, FALSE)]
    /\ stopped = {} /\ aborted = FALSE
    /\ inserted = {}

-----------------------------------------------------------------------------
(* 'Z': uhyve_gdb_add_breakpoint. *)

\* It is there already: acknowledged, nothing happens.
InsertAgain(v, r) ==
    /\ v \in stopped /\ ~ aborted
    /\ (IF r.type = "sw" THEN FindSw(r) ELSE FindHw(r)) # {}
    /\ inserted' = inserted \cup {r}
    /\ UNCHANGED <<guest_mem, sw_breakpoints, hw_breakpoints,
                   nr_hw_breakpoints, stepping, guest_debug, stopped,
                   aborted, text>>

\* Mutant of InsertSw: the instruction is not kept.
InsertSwForgets(v, r) ==
    LET bp == [addr |-> r.addr, len |-> r.len, saved_insn |-> Int3]
    IN  /\ v \in stopped /\ ~ aborted
        /\ r.type = "sw" /\ FindSw(r) = {}
        /\ sw_breakpoints' = sw_breakpoints \cup {bp}
        /\ guest_mem' = [guest_mem EXCEPT ![r.addr] = Int3]
        /\ guest_debug' = [guest_debug EXCEPT ![v] =
                              Settings(sw_breakpoints', hw_breakpoints, stepping)]
        /\ inserted' = inserted \cup {r}
        /\ UNCHANGED <<hw_breakpoints, nr_hw_breakpoints, stepping, stopped,
                       aborted, text>>

\* kvm_arch_insert_sw_breakpoint: the byte is kept and replaced by int3.
InsertSw(v, r) ==
    LET bp == [addr |-> r.addr, len |-> r.len,
               saved_insn |-> guest_mem[r.addr]]
    IN  /\ v \in stopped /\ ~ aborted
        /\ r.type = "sw" /\ FindSw(r) = {}
        /\ sw_breakpoints' = sw_breakpoints \cup {bp}
        /\ guest_mem' = [guest_mem EXCEPT ![r.addr] = Int3]
        /\ guest_debug' = [guest_debug EXCEPT ![v] =
                              Settings(sw_breakpoints', hw_breakpoints, stepping)]
        /\ inserted' = inserted \cup {r}
        /\ UNCHANGED <<hw_breakpoints, nr_hw_breakpoints, stepping, stopped,
                       aborted, text>>

\* Mutant of HwFull: one register too many.
HwFullLate == nr_hw_breakpoints > MaxHw

\* All debug registers are taken.
HwFull == nr_hw_breakpoints = MaxHw

InsertHw(v, r) ==
    /\ v \in stopped /\ ~ aborted
    /\ r.type # "sw" /\ FindHw(r) = {}
    /\ ~ HwFull
    /\ hw_breakpoints' = hw_breakpoints \cup {r}
    /\ nr_hw_breakpoints' = nr_hw_breakpoints + 1
    /\ guest_debug' = [guest_debug EXCEPT ![v] =
                          Settings(sw_breakpoints, hw_breakpoints', stepping)]
    /\ inserted' = inserted \cup {r}
    /\ UNCHANGED <<guest_mem, sw_breakpoints, stepping, stopped, aborted,
                   text>>

\* Mutant of InsertHwFails: the debugger is told "OK".
InsertHwFailsQuietly(v, r) ==
    /\ v \in stopped /\ ~ aborted
    /\ r.type # "sw" /\ FindHw(r) = {}
    /\ HwFull
    /\ inserted' = inserted \cup {r}
    /\ UNCHANGED <<guest_mem, sw_breakpoints, hw_breakpoints,
                   nr_hw_breakpoints, stepping, guest_debug, stopped,
                   aborted, text>>

\* No debug register is free: E01, nothing changes.
InsertHwFails(v, r) ==
    /\ v \in stopped /\ ~ aborted
    /\ r.type # "sw" /\ FindHw(r) = {}
    /\ HwFull
    /\ UNCHANGED bp_vars

-----------------------------------------------------------------------------
(* 'z': uhyve_gdb_remove_breakpoint. *)

\* kvm_arch_remove_sw_breakpoint: the byte is put back, unless
\* assert(*insn == int3) fails.
RemoveSw(v, r) ==
    /\ v \in stopped /\ ~ aborted
    /\ r.type = "sw"
    /\ \E bp \in FindSw(r) :
          IF guest_mem[bp.addr] = Int3
          THEN /\ guest_mem' = [guest_mem EXCEPT ![bp.addr] = bp.saved_insn]
               /\ sw_breakpoints' = sw_breakpoints \ {bp}
               /\ guest_debug' = [guest_debug EXCEPT ![v] =
                     Settings(sw_breakpoints', hw_breakpoints, stepping)]
               /\ inserted' = inserted \ {r}
               /\ UNCHANGED aborted
          ELSE /\ aborted' = TRUE
               /\ UNCHANGED <<guest_mem, sw_breakpoints, guest_debug, inserted>>
    /\ UNCHANGED <<hw_breakpoints, nr_hw_breakpoints, stepping, stopped, text>>

\* Mutant of RemoveHw: the settings of the vCPU are not renewed.
RemoveHwKeepsRegister(v, r) ==
    /\ v \in stopped /\ ~ aborted
    /\ r.type # "sw"
    /\ \E bp \in FindHw(r) : hw_breakpoints' = hw_breakpoints \ {bp}
    /\ nr_hw_breakpoints' = nr_hw_breakpoints - 1
    /\ inserted' = inserted \ {r}
    /\ UNCHANGED <<guest_mem, sw_breakpoints, stepping, guest_debug, stopped,
                   aborted, text>>

RemoveHw(v, r) ==
    /\ v \in stopped /\ ~ aborted
    /\ r.type # "sw"
    /\ \E bp \in FindHw(r) : hw_breakpoints' = hw_breakpoints \ {bp}
    /\ nr_hw_breakpoints' = nr_hw_breakpoints - 1
    /\ guest_debug' = [guest_debug EXCEPT ![v] =
                          Settings(sw_breakpoints, hw_breakpoints', stepping)]
    /\ inserted' = inserted \ {r}
    /\ UNCHANGED <<guest_mem, sw_breakpoints, stepping, stopped, aborted,
                   text>>

\* It is not in the list: E01, nothing changes.
RemoveFails(v, r) ==
    /\ v \in stopped /\ ~ aborted
    /\ (IF r.type = "sw" THEN FindSw(r) ELSE FindHw(r)) = {}
    /\ UNCHANGED bp_vars

-----------------------------------------------------------------------------
(* The other packets that change state. *)

\* 'M' writes a byte of guest memory, also where a software breakpoint is.
WriteMemory(v, a, b) ==
    /\ v \in stopped /\ ~ aborted
    /\ guest_mem' = [guest_mem EXCEPT ![a] = b]
    /\ text' = [text EXCEPT ![a] = b]
    /\ UNCHANGED <<sw_breakpoints, hw_breakpoints, nr_hw_breakpoints, stepping,
                   guest_debug, stopped, aborted, inserted>>

\* 's' and 'c': stepping is switched on or off and the vCPU resumes.
Resume(v, step) ==
    /\ v \in stopped /\ ~ aborted
    /\ stepping' = step
    /\ guest_debug' = [guest_debug EXCEPT ![v] =
                          Settings(sw_breakpoints, hw_breakpoints, step)]
    /\ stopped' = stopped \ {v}
    /\ UNCHANGED <<guest_mem, sw_breakpoints, hw_breakpoints,
                   nr_hw_breakpoints, aborted, text, inserted>>

\* 'D': the vCPU resumes as it is.
Detach(v) ==
    /\ v \in stopped /\ ~ aborted
    /\ stopped' = stopped \ {v}
    /\ UNCHANGED <<guest_mem, sw_breakpoints, hw_breakpoints,
                   nr_hw_breakpoints, stepping, guest_debug, aborted, text,
                   inserted>>

\* The guest stops with a debug exception (or, at the start, in
\* gdb_stub_start).
Stop(v) ==
    /\ v \notin stopped /\ ~ aborted
    /\ stopped' = stopped \cup {v}
    /\ UNCHANGED <<guest_mem, sw_breakpoints, hw_breakpoints,
                   nr_hw_breakpoints, stepping, guest_debug, aborted, text,
                   inserted>>

Insert(v, r) == InsertAgain(v, r) \/ InsertSw(v, r) \/ InsertHw(v, r)
                    \/ InsertHwFails(v, r)
Remove(v, r) == RemoveSw(v, r) \/ RemoveHw(v, r) \/ RemoveFails(v, r)

BpNext ==
    /\ \E v \in Vcpus :
          \/ Stop(v) \/ Detach(v)
          \/ \E step \in BOOLEAN : Resume(v, step)
          \/ \E r \in Request : Insert(v, r) \/ Remove(v, r)
          \/ \E a \in Addrs, b \in Bytes : WriteMemory(v, a, b)
    /\ UNCHANGED bp_ncores

BpSpec == BpInit /\ [][BpNext]_bp_vars

-----------------------------------------------------------------------------
(* Properties. *)

\* Type correctness of the stub's lists and of guest memory.
BpTypeOK ==
    /\ bp_ncores \in 1 .. MaxVcpus
    /\ guest_mem \in [Addrs -> Code] /\ text \in [Addrs -> Code]
    /\ sw_breakpoints \subseteq SwBreakpoint
    /\ hw_breakpoints \subseteq HwBreakpoint
    /\ nr_hw_breakpoints \in Nat
    /\ stepping \in BOOLEAN /\ aborted \in BOOLEAN
    /\ stopped \subseteq Vcpus
    /\ inserted \subseteq Request
    /\ DOMAIN guest_debug = Vcpus

\* Guest memory is the guest's own code except for an int3 under a software
\* breakpoint, and the saved byte is then the guest's own: removing breakpoints,
\* in any order, restores the code, also where the debugger has changed it.
CodePreserved ==
    /\ \A bp \in sw_breakpoints :
          \/ guest_mem[bp.addr] = Int3 /\ bp.saved_insn = text[bp.addr]
          \/ guest_mem[bp.addr] = text[bp.addr]
    /\ \A a \in Addrs : (\A bp \in sw_breakpoints : bp.addr # a) =>
          guest_mem[a] = text[a]

\* The debug registers are never over-committed, and the counter that guards
\* them agrees with the list: uhyve_gdb_update_guest_debug indexes debugreg[]
\* by the position in the list.
HwBudget ==
    /\ nr_hw_breakpoints = Cardinality(hw_breakpoints)
    /\ nr_hw_breakpoints <= MaxHw

\* A breakpoint the stub has acknowledged with "OK" is armed until it is
\* removed: bp_list_insert "adds a new breakpoint to the list".
AcknowledgedArmed ==
    \A r \in inserted :
        IF r.type = "sw" THEN FindSw(r) # {} ELSE r \in hw_breakpoints

\* A single vCPU always runs the guest with the settings of the current lists
\* and the current stepping flag.  (uhyve_gdb_update_guest_debug renews only the
\* vCPU that obeyed the packet, so with more of them the others lag behind.)
SettingsCurrent ==
    bp_ncores = 1 => \A v \in Vcpus \ stopped :
        guest_debug[v] = Settings(sw_breakpoints, hw_breakpoints, stepping)
=============================================================================
