------------------------------- MODULE GdbProofs -------------------------------
(***************************************************************************)
(* The GDB stub: its breakpoints and its protocol.                         *)
(*                                                                         *)
(* The breakpoints, for any number of vCPUs, addresses, byte values and    *)
(* debug registers, and any order of packets.  Two theorems have a         *)
(* hypothesis about the debugger.  On x86-64 it asks for software          *)
(* breakpoints of one length only, as int3 has one byte.  And bp_list_find *)
(* takes hardware breakpoints and watchpoints of different kinds at one    *)
(* place for the same, so what is acknowledged is armed only if the        *)
(* debugger uses one kind.                                                 *)
(*                                                                         *)
(* The protocol, for any buffer, number of cores, length of the session    *)
(* and number of repeated and garbled packets: it implements the           *)
(* conversation of GdbSession.  A packet, garbled or not, gives one '+' or *)
(* '-', and the '+' only at its end (InInv), so when the debugger sends    *)
(* again nothing of the packet is left on the line; what is on the way to  *)
(* the debugger in front of a '+' is stale and what is behind it answers   *)
(* the command (OutInv); a thread that leaves gdb_handle_exception does so *)
(* at the debugger's word (PlaceInv); thread_counter runs with what the    *)
(* debugger was told (ThreadInv).                                          *)
(***************************************************************************)
EXTENDS GdbBreakpoints, GdbProtocol, FiniteSetTheorems, SequenceTheorems, TLAPS

OneSwLen  == \A l, m \in SwLens : l = m
OneHwType == \A t, u \in HwTypes : t = u

-----------------------------------------------------------------------------
(* Breakpoints: types. *)

\* The program starts with empty lists.
LEMMA GdbTypesInit == BpInit => BpTypeOK
BY GdbAssumption, 0 \in Nat DEF BpInit, BpTypeOK, Vcpus, Code

\* A request for a hardware breakpoint is an entry of the hardware list, and its
\* fields are those of a request.
LEMMA RequestTypes ==
    ASSUME NEW r \in Request
    PROVE  /\ r.addr \in Addrs
           /\ r.type # "sw" => r \in HwBreakpoint
           /\ r.type = "sw" => r.len \in SwLens
BY GdbAssumption DEF Request, HwBreakpoint

\* Of the steps, only removing a hardware breakpoint needs more than the types: the
\* counter does not fall below 0.
HwCounted ==
    /\ IsFiniteSet(hw_breakpoints)
    /\ nr_hw_breakpoints = Cardinality(hw_breakpoints)
    /\ nr_hw_breakpoints <= MaxHw

\* What every packet leaves as it should be.
GdbInv == BpTypeOK /\ HwCounted

\* Every packet keeps the types and the count.
LEMMA GdbInvStep == GdbInv /\ [BpNext]_bp_vars => GdbInv'
<1>. SUFFICES ASSUME GdbInv, [BpNext]_bp_vars PROVE GdbInv'
  OBVIOUS
<1>a. BpTypeOK /\ HwCounted
  BY DEF GdbInv
<1>b. UNCHANGED bp_vars => GdbInv'
  BY <1>a DEF bp_vars, GdbInv, BpTypeOK, HwCounted, Vcpus
<1>1. CASE BpNext
  <2>0. bp_ncores' = bp_ncores /\ Vcpus' = Vcpus
    BY <1>1 DEF BpNext, Vcpus
  <2>1. ASSUME NEW v \in Vcpus, Stop(v) \/ Detach(v) PROVE GdbInv'
    BY <2>0, <2>1, <1>a DEF Stop, Detach, GdbInv, BpTypeOK, HwCounted
  <2>2. ASSUME NEW v \in Vcpus, NEW step \in BOOLEAN, Resume(v, step) PROVE GdbInv'
    BY <2>0, <2>2, <1>a DEF Resume, GdbInv, BpTypeOK, HwCounted
  <2>3. ASSUME NEW v \in Vcpus, NEW a \in Addrs, NEW b \in Bytes, WriteMemory(v, a, b)
        PROVE  GdbInv'
    BY <2>0, <2>3, <1>a DEF WriteMemory, GdbInv, BpTypeOK, HwCounted, Code
  <2>4. ASSUME NEW v \in Vcpus, NEW r \in Request, InsertAgain(v, r) PROVE GdbInv'
    BY <2>0, <2>4, <1>a DEF InsertAgain, GdbInv, BpTypeOK, HwCounted
  <2>5. ASSUME NEW v \in Vcpus, NEW r \in Request, InsertSw(v, r) PROVE GdbInv'
    <3>1. r.addr \in Addrs /\ r.len \in SwLens /\ guest_mem[r.addr] \in Code
      BY <2>5, <1>a, RequestTypes DEF InsertSw, BpTypeOK
    <3>2. sw_breakpoints' \subseteq SwBreakpoint
      BY <2>5, <3>1, <1>a DEF InsertSw, BpTypeOK, SwBreakpoint
    <3>3. guest_mem' \in [Addrs -> Code]
      BY <2>5, <1>a DEF InsertSw, BpTypeOK, Code
    <3>. QED BY <2>0, <2>5, <3>2, <3>3, <1>a DEF InsertSw, GdbInv, BpTypeOK, HwCounted
  <2>6. ASSUME NEW v \in Vcpus, NEW r \in Request, InsertHw(v, r) PROVE GdbInv'
    <3>1. r \in HwBreakpoint /\ r \notin hw_breakpoints
      BY <2>6, RequestTypes DEF InsertHw, FindHw
    <3>2. /\ IsFiniteSet(hw_breakpoints \cup {r})
          /\ Cardinality(hw_breakpoints \cup {r}) = Cardinality(hw_breakpoints) + 1
      BY <3>1, <1>a, FS_AddElement DEF HwCounted
    <3>3. HwCounted' /\ nr_hw_breakpoints' \in Nat
      BY <2>6, <3>2, <1>a, GdbAssumption, SMT DEF InsertHw, HwFull, HwCounted, BpTypeOK
    <3>. QED BY <2>0, <2>6, <3>1, <3>3, <1>a DEF InsertHw, GdbInv, BpTypeOK
  <2>7. ASSUME NEW v \in Vcpus, NEW r \in Request, RemoveSw(v, r) PROVE GdbInv'
    <3>1. PICK bp \in FindSw(r) :
             IF guest_mem[bp.addr] = Int3
             THEN /\ guest_mem' = [guest_mem EXCEPT ![bp.addr] = bp.saved_insn]
                  /\ sw_breakpoints' = sw_breakpoints \ {bp}
                  /\ guest_debug' = [guest_debug EXCEPT ![v] =
                        Settings(sw_breakpoints', hw_breakpoints, stepping)]
                  /\ inserted' = inserted \ {r}
                  /\ UNCHANGED aborted
             ELSE /\ aborted' = TRUE
                  /\ UNCHANGED <<guest_mem, sw_breakpoints, guest_debug, inserted>>
      BY <2>7 DEF RemoveSw
    <3>2. bp \in SwBreakpoint
      BY <1>a DEF FindSw, BpTypeOK
    <3>3. guest_mem' \in [Addrs -> Code]
      BY <3>1, <3>2, <1>a DEF SwBreakpoint, BpTypeOK
    <3>4. UNCHANGED <<hw_breakpoints, nr_hw_breakpoints, stepping, stopped, text>>
      BY <2>7 DEF RemoveSw
    <3>. QED BY <2>0, <3>1, <3>3, <3>4, <1>a DEF GdbInv, BpTypeOK, HwCounted
  <2>8. ASSUME NEW v \in Vcpus, NEW r \in Request, RemoveHw(v, r) PROVE GdbInv'
    <3>1. PICK bp \in hw_breakpoints : hw_breakpoints' = hw_breakpoints \ {bp}
      BY <2>8 DEF RemoveHw, FindHw
    <3>2. /\ IsFiniteSet(hw_breakpoints \ {bp})
          /\ Cardinality(hw_breakpoints \ {bp}) = Cardinality(hw_breakpoints) - 1
      BY <1>a, FS_RemoveElement DEF HwCounted
    <3>3. Cardinality(hw_breakpoints \ {bp}) \in Nat
      BY <3>2, FS_CardinalityType
    <3>4. HwCounted' /\ nr_hw_breakpoints' \in Nat
      <4>1. nr_hw_breakpoints' = nr_hw_breakpoints - 1
        BY <2>8 DEF RemoveHw
      <4>2. /\ nr_hw_breakpoints \in Nat /\ nr_hw_breakpoints <= MaxHw /\ MaxHw \in Nat
            /\ nr_hw_breakpoints = Cardinality(hw_breakpoints)
        BY <1>a, GdbAssumption DEF HwCounted, BpTypeOK
      <4>. QED BY <3>1, <3>2, <3>3, <4>1, <4>2 DEF HwCounted
    <3>. QED BY <2>0, <2>8, <3>1, <3>4, <1>a DEF RemoveHw, GdbInv, BpTypeOK
  <2>9. ASSUME NEW v \in Vcpus, NEW r \in Request,
               InsertHwFails(v, r) \/ RemoveFails(v, r)
        PROVE  GdbInv'
    BY <2>9, <1>b DEF InsertHwFails, RemoveFails
  <2>. QED BY <1>1, <2>1, <2>2, <2>3, <2>4, <2>5, <2>6, <2>7, <2>8, <2>9
              DEF BpNext, Insert, Remove
<1>. QED BY <1>b, <1>1

\* Types and count hold in every reachable state.
LEMMA GdbInvHolds == BpSpec => []GdbInv
<1>1. BpInit => HwCounted
  BY FS_EmptySet, GdbAssumption, SMT DEF BpInit, HwCounted
<1>2. BpInit => GdbInv
  BY <1>1, GdbTypesInit DEF GdbInv
<1>. QED BY <1>2, GdbInvStep, PTL DEF BpSpec

\* The debug registers are never over-committed and nr_hw_breakpoints counts the
\* hardware list, which uhyve_gdb_update_guest_debug indexes debugreg[] by.
THEOREM RegistersNeverOvercommitted == BpSpec => []HwBudget
<1>1. GdbInv => HwBudget
  BY DEF GdbInv, HwCounted, HwBudget
<1>. QED BY <1>1, GdbInvHolds, PTL

-----------------------------------------------------------------------------
(* Software breakpoints. *)

\* There is one breakpoint at an address; where int3 is, its saved byte is the
\* guest's own, elsewhere the debugger has overwritten the int3.
SwIntact ==
    /\ \A b1, b2 \in sw_breakpoints : b1.addr = b2.addr => b1 = b2
    /\ \A bp \in sw_breakpoints :
          IF guest_mem[bp.addr] = Int3 THEN bp.saved_insn = text[bp.addr]
          ELSE guest_mem[bp.addr] = text[bp.addr]
    /\ \A a \in Addrs : (\A bp \in sw_breakpoints : bp.addr # a) =>
          guest_mem[a] = text[a]

\* Every packet keeps the guest's code recoverable.
LEMMA SwIntactStep ==
    ASSUME OneSwLen, BpTypeOK, SwIntact, [BpNext]_bp_vars
    PROVE  SwIntact'
<1>1. CASE UNCHANGED <<guest_mem, sw_breakpoints, text>>
  BY <1>1 DEF SwIntact
<1>2. ASSUME NEW v \in Vcpus, NEW a \in Addrs, NEW b \in Bytes, WriteMemory(v, a, b)
      PROVE  SwIntact'
  <2>1. /\ guest_mem' = [guest_mem EXCEPT ![a] = b]
        /\ text' = [text EXCEPT ![a] = b]
        /\ sw_breakpoints' = sw_breakpoints
    BY <1>2 DEF WriteMemory
  <2>2. b # Int3
    BY GdbAssumption
  <2>3. \A bp \in sw_breakpoints : bp.addr \in Addrs
    BY DEF BpTypeOK, SwBreakpoint
  <2>. QED BY <2>1, <2>2, <2>3 DEF BpTypeOK, SwIntact
<1>3. ASSUME NEW v \in Vcpus, NEW r \in Request, InsertSw(v, r) PROVE SwIntact'
  <2>. DEFINE new == [addr |-> r.addr, len |-> r.len,
                      saved_insn |-> guest_mem[r.addr]]
  <2>1. /\ sw_breakpoints' = sw_breakpoints \cup {new}
        /\ guest_mem' = [guest_mem EXCEPT ![r.addr] = Int3]
        /\ text' = text /\ r.type = "sw" /\ FindSw(r) = {}
    BY <1>3 DEF InsertSw
  <2>2. r.addr \in Addrs /\ r.len \in SwLens
    BY <2>1, RequestTypes
  <2>3. \A bp \in sw_breakpoints : bp.addr # r.addr /\ bp.addr \in Addrs
    BY <2>1, <2>2 DEF OneSwLen, FindSw, BpTypeOK, SwBreakpoint
  <2>4. guest_mem[r.addr] = text[r.addr]
    BY <2>2, <2>3 DEF SwIntact
  <2>5. new.addr = r.addr /\ new.saved_insn = guest_mem[r.addr]
    OBVIOUS
  <2>. HIDE DEF new
  <2>. QED BY <2>1, <2>2, <2>3, <2>4, <2>5 DEF BpTypeOK, SwIntact
<1>4. ASSUME NEW v \in Vcpus, NEW r \in Request, RemoveSw(v, r) PROVE SwIntact'
  <2>1. PICK bp \in sw_breakpoints :
           \/ /\ guest_mem[bp.addr] = Int3
              /\ guest_mem' = [guest_mem EXCEPT ![bp.addr] = bp.saved_insn]
              /\ sw_breakpoints' = sw_breakpoints \ {bp}
           \/ UNCHANGED <<guest_mem, sw_breakpoints>>
    BY <1>4 DEF RemoveSw, FindSw
  <2>2. text' = text
    BY <1>4 DEF RemoveSw
  <2>3. CASE /\ guest_mem[bp.addr] = Int3
             /\ guest_mem' = [guest_mem EXCEPT ![bp.addr] = bp.saved_insn]
             /\ sw_breakpoints' = sw_breakpoints \ {bp}
    <3>1. bp.saved_insn = text[bp.addr]
      BY <2>3 DEF SwIntact
    <3>2. \A b \in sw_breakpoints \ {bp} : b.addr # bp.addr /\ b.addr \in Addrs
      BY DEF SwIntact, BpTypeOK, SwBreakpoint
    <3>3. bp.addr \in Addrs
      BY DEF BpTypeOK, SwBreakpoint
    <3>. QED BY <2>2, <2>3, <3>1, <3>2, <3>3 DEF BpTypeOK, SwIntact
  <2>. QED BY <1>1, <2>1, <2>2, <2>3
<1>5. ASSUME NEW v \in Vcpus, NEW r \in Request,
             \/ InsertAgain(v, r) \/ InsertHw(v, r) \/ InsertHwFails(v, r)
             \/ RemoveHw(v, r) \/ RemoveFails(v, r)
      PROVE  SwIntact'
  BY <1>1, <1>5 DEF InsertAgain, InsertHw, InsertHwFails, RemoveHw, RemoveFails, bp_vars
<1>6. ASSUME NEW v \in Vcpus, NEW step \in BOOLEAN,
             Stop(v) \/ Detach(v) \/ Resume(v, step)
      PROVE  SwIntact'
  BY <1>1, <1>6 DEF Stop, Detach, Resume
<1>. QED BY <1>1, <1>2, <1>3, <1>4, <1>5, <1>6 DEF BpNext, Insert, Remove, bp_vars

\* Inserting and removing software breakpoints in any order, with memory writes of
\* the debugger in between, never loses a byte of the guest's code.
THEOREM CodeIsPreserved == ASSUME OneSwLen PROVE BpSpec => []CodePreserved
<1>1. BpInit => SwIntact
  BY DEF BpInit, SwIntact
<1>2. BpTypeOK /\ SwIntact /\ [BpNext]_bp_vars => SwIntact'
  BY SwIntactStep
<1>3. SwIntact => CodePreserved
  BY DEF SwIntact, CodePreserved
<1>4. GdbInv => BpTypeOK
  BY DEF GdbInv
<1>. QED BY <1>1, <1>2, <1>3, <1>4, GdbInvHolds, PTL DEF BpSpec

-----------------------------------------------------------------------------
(* What the debugger was told. *)

\* Every packet keeps the acknowledged breakpoints in their lists.
LEMMA ArmedStep ==
    ASSUME OneHwType, BpTypeOK, AcknowledgedArmed, [BpNext]_bp_vars
    PROVE  AcknowledgedArmed'
<1>1. CASE UNCHANGED <<sw_breakpoints, hw_breakpoints, inserted>>
  BY <1>1 DEF AcknowledgedArmed, FindSw
<1>2. \A r \in Request : r.type # "sw" => (FindHw(r) # {} <=> r \in hw_breakpoints)
  BY RequestTypes DEF OneHwType, BpTypeOK, FindHw, HwBreakpoint
<1>3. ASSUME NEW v \in Vcpus, NEW r \in Request, InsertAgain(v, r)
      PROVE  AcknowledgedArmed'
  BY <1>2, <1>3 DEF InsertAgain, AcknowledgedArmed, FindSw
<1>4. ASSUME NEW v \in Vcpus, NEW r \in Request, InsertSw(v, r)
      PROVE  AcknowledgedArmed'
  <2>. DEFINE new == [addr |-> r.addr, len |-> r.len,
                      saved_insn |-> guest_mem[r.addr]]
  <2>1. /\ sw_breakpoints' = sw_breakpoints \cup {new} /\ r.type = "sw"
        /\ inserted' = inserted \cup {r} /\ hw_breakpoints' = hw_breakpoints
    BY <1>4 DEF InsertSw
  <2>2. new.addr = r.addr /\ new.len = r.len
    OBVIOUS
  <2>. HIDE DEF new
  <2>. QED BY <2>1, <2>2 DEF AcknowledgedArmed, FindSw
<1>5. ASSUME NEW v \in Vcpus, NEW r \in Request, InsertHw(v, r)
      PROVE  AcknowledgedArmed'
  BY <1>5 DEF InsertHw, AcknowledgedArmed, FindSw
<1>6. ASSUME NEW v \in Vcpus, NEW r \in Request, RemoveSw(v, r)
      PROVE  AcknowledgedArmed'
  <2>1. PICK bp \in FindSw(r) :
           \/ /\ sw_breakpoints' = sw_breakpoints \ {bp}
              /\ inserted' = inserted \ {r}
           \/ UNCHANGED <<sw_breakpoints, inserted>>
    BY <1>6 DEF RemoveSw
  <2>2. hw_breakpoints' = hw_breakpoints /\ r.type = "sw"
    BY <1>6 DEF RemoveSw
  <2>3. \A q \in inserted : q.type = "sw" /\ q.addr = r.addr /\ q.len = r.len => q = r
    BY <2>2, GdbAssumption DEF BpTypeOK, Request, HwBreakpoint
  <2>. QED BY <1>1, <2>1, <2>2, <2>3 DEF AcknowledgedArmed, FindSw
<1>7. ASSUME NEW v \in Vcpus, NEW r \in Request, RemoveHw(v, r)
      PROVE  AcknowledgedArmed'
  <2>1. PICK bp \in FindHw(r) : hw_breakpoints' = hw_breakpoints \ {bp}
    BY <1>7 DEF RemoveHw
  <2>2. bp = r
    BY <1>7, RequestTypes DEF RemoveHw, OneHwType, BpTypeOK, FindHw, HwBreakpoint
  <2>3. inserted' = inserted \ {r} /\ sw_breakpoints' = sw_breakpoints
    BY <1>7 DEF RemoveHw
  <2>. QED BY <2>1, <2>2, <2>3 DEF AcknowledgedArmed, FindSw
<1>8. ASSUME NEW v \in Vcpus, NEW r \in Request, InsertHwFails(v, r) \/ RemoveFails(v, r)
      PROVE  AcknowledgedArmed'
  BY <1>1, <1>8 DEF InsertHwFails, RemoveFails, bp_vars
<1>9. ASSUME NEW v \in Vcpus, NEW step \in BOOLEAN,
             Stop(v) \/ Detach(v) \/ Resume(v, step)
      PROVE  AcknowledgedArmed'
  BY <1>1, <1>9 DEF Stop, Detach, Resume
<1>10. ASSUME NEW v \in Vcpus, NEW a \in Addrs, NEW b \in Bytes, WriteMemory(v, a, b)
       PROVE  AcknowledgedArmed'
  BY <1>1, <1>10 DEF WriteMemory
<1>. QED BY <1>1, <1>3, <1>4, <1>5, <1>6, <1>7, <1>8, <1>9, <1>10
            DEF BpNext, Insert, Remove, bp_vars

\* A breakpoint that uhyve_gdb_add_breakpoint has acknowledged stays in its list
\* until the debugger removes it, if the debugger uses one kind of hardware
\* breakpoints.
THEOREM AcknowledgedStaysArmed == ASSUME OneHwType PROVE BpSpec => []AcknowledgedArmed
<1>1. BpInit => AcknowledgedArmed
  BY DEF BpInit, AcknowledgedArmed
<1>2. BpTypeOK /\ AcknowledgedArmed /\ [BpNext]_bp_vars => AcknowledgedArmed'
  BY ArmedStep
<1>3. GdbInv => BpTypeOK
  BY DEF GdbInv
<1>. QED BY <1>1, <1>2, <1>3, GdbInvHolds, PTL DEF BpSpec

-----------------------------------------------------------------------------
(* What the vCPU was told. *)

\* The only vCPU has the settings of the lists also while it is stopped.
OneCurrent ==
    bp_ncores = 1 => \A v \in Vcpus :
        guest_debug[v] = Settings(sw_breakpoints, hw_breakpoints, stepping)

\* Every packet that changes a list or the mode renews the settings.
LEMMA OneCurrentStep ==
    ASSUME BpTypeOK, OneCurrent, [BpNext]_bp_vars
    PROVE  OneCurrent'
<1>1. CASE UNCHANGED <<bp_ncores, sw_breakpoints, hw_breakpoints, stepping, guest_debug>>
  BY <1>1 DEF OneCurrent, Settings, Vcpus
<1>2. CASE bp_ncores # 1
  BY <1>2 DEF BpNext, bp_vars, OneCurrent
<1>3. ASSUME BpNext, bp_ncores = 1,
             NEW v \in Vcpus,
             guest_debug' = [guest_debug EXCEPT ![v] =
                Settings(sw_breakpoints', hw_breakpoints', stepping')]
      PROVE  OneCurrent'
  <2>1. Vcpus = {v} /\ Vcpus' = Vcpus
    BY <1>3 DEF BpNext, Vcpus
  <2>. QED BY <1>3, <2>1 DEF BpTypeOK, OneCurrent, Settings
<1>4. ASSUME BpNext, bp_ncores = 1 PROVE OneCurrent'
  <2>0. bp_ncores' = bp_ncores
    BY <1>4 DEF BpNext
  <2>1. ASSUME NEW v \in Vcpus, NEW r \in Request,
               InsertSw(v, r) \/ InsertHw(v, r) \/ RemoveHw(v, r)
        PROVE  OneCurrent'
    BY <1>3, <1>4, <2>1 DEF InsertSw, InsertHw, RemoveHw
  <2>2. ASSUME NEW v \in Vcpus, NEW r \in Request, RemoveSw(v, r) PROVE OneCurrent'
    BY <1>1, <1>3, <1>4, <2>0, <2>2 DEF RemoveSw
  <2>3. ASSUME NEW v \in Vcpus, NEW step \in BOOLEAN, Resume(v, step) PROVE OneCurrent'
    BY <1>3, <1>4, <2>3 DEF Resume
  <2>4. ASSUME NEW v \in Vcpus, Stop(v) \/ Detach(v) PROVE OneCurrent'
    BY <1>1, <2>0, <2>4 DEF Stop, Detach
  <2>5. ASSUME NEW v \in Vcpus, NEW r \in Request,
               InsertAgain(v, r) \/ InsertHwFails(v, r) \/ RemoveFails(v, r)
        PROVE  OneCurrent'
    BY <1>1, <2>0, <2>5 DEF InsertAgain, InsertHwFails, RemoveFails, bp_vars
  <2>6. ASSUME NEW v \in Vcpus, NEW a \in Addrs, NEW b \in Bytes, WriteMemory(v, a, b)
        PROVE  OneCurrent'
    BY <1>1, <2>0, <2>6 DEF WriteMemory
  <2>. QED BY <1>4, <2>1, <2>2, <2>3, <2>4, <2>5, <2>6 DEF BpNext, Insert, Remove
<1>. QED BY <1>1, <1>2, <1>4 DEF bp_vars

\* A single vCPU always enters the guest with the debug registers, the int3 trap
\* and the stepping mode that the debugger last asked for.
THEOREM SettingsStayCurrent == BpSpec => []SettingsCurrent
<1>1. BpInit => OneCurrent
  BY DEF BpInit, OneCurrent
<1>2. BpTypeOK /\ OneCurrent /\ [BpNext]_bp_vars => OneCurrent'
  BY OneCurrentStep
<1>3. OneCurrent => SettingsCurrent
  BY DEF OneCurrent, SettingsCurrent
<1>4. GdbInv => BpTypeOK
  BY DEF GdbInv
<1>. QED BY <1>1, <1>2, <1>3, <1>4, GdbInvHolds, PTL DEF BpSpec

-----------------------------------------------------------------------------
(* The protocol: what is on the line. *)

\* A sequence behind another.
LEMMA Joined ==
    ASSUME NEW S, NEW s \in Seq(S), NEW p \in Seq(S)
    PROVE  /\ s \o p \in Seq(S) /\ Len(s \o p) = Len(s) + Len(p)
           /\ DOMAIN (s \o p) = 1 .. Len(s) + Len(p)
           /\ \A i \in 1 .. Len(s) : (s \o p)[i] = s[i]
           /\ \A i \in Len(s) + 1 .. Len(s) + Len(p) : (s \o p)[i] = p[i - Len(s)]
OBVIOUS

\* The rest of a packet after its first character.
LEMMA TailWhole ==
    ASSUME NEW S, NEW s \in Seq(S), s # <<>>, NEW i \in Nat, Whole(s, i + 1)
    PROVE  Whole(Tail(s), i)
<1> DEFINE u == Tail(s)
<1>1. /\ Len(s) \in Nat \ {0} /\ Len(u) = Len(s) - 1 /\ DOMAIN u = 1 .. Len(s) - 1
      /\ DOMAIN s = 1 .. Len(s) /\ \A j \in 1 .. Len(s) - 1 : u[j] = s[j + 1]
    OBVIOUS
<1> HIDE DEF u
<1>2. ASSUME NEW j \in DOMAIN u, NEW k \in DOMAIN u, i < j, j < k
      PROVE  /\ u[j].t = "#" => k = j + 1 \/ u[k].t # "$"
             /\ u[j].t = "sum" => u[k].t # "sum"
  <2>1. j + 1 \in DOMAIN s /\ k + 1 \in DOMAIN s /\ i + 1 < j + 1 /\ j + 1 < k + 1
      BY <1>1, <1>2
  <2>2. u[j] = s[j + 1] /\ u[k] = s[k + 1] /\ (k + 1 = (j + 1) + 1 => k = j + 1)
      BY <1>1, <1>2
  <2> QED BY <2>1, <2>2 DEF Whole
<1>3. ASSUME i < Len(u), u[Len(u)].t = "#"
      PROVE  i + 1 < Len(u) /\ u[Len(u) - 1].t = "#"
  <2>1. i + 1 < Len(s) /\ u[Len(u)] = s[Len(s)]
      BY <1>1, <1>3
  <2>2. (i + 1) + 1 < Len(s) /\ s[Len(s) - 1].t = "#"
      BY <1>3, <2>1 DEF Whole
  <2>3. Len(u) - 1 \in 1 .. Len(s) - 1 /\ (Len(u) - 1) + 1 = Len(s) - 1
      BY <1>1, <2>2
  <2>4. u[Len(u) - 1] = s[Len(s) - 1]
      BY <1>1, <2>3
  <2> QED BY <1>1, <2>2, <2>4
<1>4. Whole(u, i)
    BY <1>2, <1>3 DEF Whole
<1> QED BY <1>4 DEF u

\* A character that is not part of a packet comes behind.
LEMMA AppendWhole ==
    ASSUME NEW S, NEW s \in Seq(S), NEW i \in Nat, Whole(s, i),
           NEW x \in S, x.t \notin {"$", "#", "sum"}
    PROVE  Whole(Append(s, x), i)
<1> DEFINE u == Append(s, x)
           n == Len(s)
<1>1. /\ n \in Nat /\ Len(u) = n + 1 /\ DOMAIN u = 1 .. n + 1 /\ u[n + 1] = x
      /\ DOMAIN s = 1 .. n /\ \A j \in 1 .. n : u[j] = s[j]
    OBVIOUS
<1> HIDE DEF u, n
<1>2. ASSUME NEW j \in DOMAIN u, NEW k \in DOMAIN u, i < j, j < k
      PROVE  /\ u[j].t = "#" => k = j + 1 \/ u[k].t # "$"
             /\ u[j].t = "sum" => u[k].t # "sum"
  <2>1. CASE k = n + 1
      BY <1>1, <2>1
  <2>2. CASE k # n + 1
    <3>1. k \in DOMAIN s /\ j \in DOMAIN s /\ u[j] = s[j] /\ u[k] = s[k]
        BY <1>1, <1>2, <2>2
    <3> QED BY <1>2, <3>1 DEF Whole
  <2> QED BY <2>1, <2>2
<1>3. u[Len(u)].t # "#"
    BY <1>1
<1>4. Whole(u, i)
    BY <1>2, <1>3 DEF Whole
<1> QED BY <1>4 DEF u

\* From the start of a packet on.
LEMMA StartWhole ==
    ASSUME NEW S, NEW s \in Seq(S), Whole(s, 0), NEW i \in DOMAIN s, s[i].t # "#"
    PROVE  Whole(s, i)
<1>1. Len(s) \in Nat /\ DOMAIN s = 1 .. Len(s)
    OBVIOUS
<1>2. ASSUME NEW j \in DOMAIN s, NEW k \in DOMAIN s, i < j, j < k
      PROVE  /\ s[j].t = "#" => k = j + 1 \/ s[k].t # "$"
             /\ s[j].t = "sum" => s[k].t # "sum"
    BY <1>1, <1>2 DEF Whole
<1>3. ASSUME i < Len(s), s[Len(s)].t = "#"
      PROVE  i + 1 < Len(s) /\ s[Len(s) - 1].t = "#"
  <2>1. s[Len(s) - 1].t = "#"
      BY <1>1, <1>3 DEF Whole
  <2>2. i # Len(s) - 1
      BY <2>1
  <2> QED BY <1>1, <1>3, <2>1, <2>2
<1> QED BY <1>2, <1>3 DEF Whole

\* A packet behind characters that start none.
LEMMA ConcatWhole ==
    ASSUME NEW S, NEW s \in Seq(S), NEW p \in Seq(S), Whole(p, 0), Without(s, "$")
    PROVE  \A i \in DOMAIN (s \o p) : (s \o p)[i].t = "$" => Whole(s \o p, i)
<1> DEFINE u == s \o p
           n == Len(s)
<1>1. /\ n \in Nat /\ Len(p) \in Nat /\ Len(u) = n + Len(p) /\ DOMAIN u = 1 .. n + Len(p)
      /\ DOMAIN s = 1 .. n /\ DOMAIN p = 1 .. Len(p)
      /\ \A j \in 1 .. n : u[j] = s[j]
      /\ \A j \in n + 1 .. n + Len(p) : u[j] = p[j - n]
    OBVIOUS
<1> HIDE DEF u, n
<1> SUFFICES ASSUME NEW i \in DOMAIN u, u[i].t = "$"
             PROVE  Whole(u, i)
    BY DEF u
<1>2. i > n
    BY <1>1 DEF Without
<1> DEFINE h == i - n
<1>3. h \in DOMAIN p /\ u[i] = p[h] /\ p[h].t = "$"
    BY <1>1, <1>2
<1>4. Whole(p, h)
    BY <1>3, StartWhole
<1> HIDE DEF h
<1>5. ASSUME NEW j \in DOMAIN u, NEW k \in DOMAIN u, i < j, j < k
      PROVE  /\ u[j].t = "#" => k = j + 1 \/ u[k].t # "$"
             /\ u[j].t = "sum" => u[k].t # "sum"
  <2>1. j - n \in DOMAIN p /\ k - n \in DOMAIN p /\ h < j - n /\ j - n < k - n
      BY <1>1, <1>2, <1>5 DEF h
  <2>2. j \in n + 1 .. n + Len(p) /\ k \in n + 1 .. n + Len(p)
      BY <1>1, <1>2, <1>5
  <2>3. u[j] = p[j - n] /\ u[k] = p[k - n]
      BY <1>1, <2>2
  <2>4. k - n = (j - n) + 1 => k = j + 1
      BY <1>1, <2>2
  <2> QED BY <1>4, <2>1, <2>3, <2>4 DEF Whole
<1>6. ASSUME i < Len(u), u[Len(u)].t = "#"
      PROVE  i + 1 < Len(u) /\ u[Len(u) - 1].t = "#"
  <2>1. h < Len(p) /\ u[Len(u)] = p[Len(p)]
      BY <1>1, <1>2, <1>6 DEF h
  <2>2. h + 1 < Len(p) /\ p[Len(p) - 1].t = "#"
      BY <1>4, <1>6, <2>1 DEF Whole
  <2>3. /\ Len(u) - 1 \in n + 1 .. n + Len(p)
        /\ (Len(u) - 1) - n = Len(p) - 1 /\ i + 1 < Len(u)
      BY <1>1, <1>2, <1>3, <2>2 DEF h
  <2> QED BY <1>1, <2>2, <2>3
<1> QED BY <1>5, <1>6 DEF Whole

\* What is sent for a command: the packet or what noise has made of it.
Copies(c) == {Packet(c)} \cup Garbled(Packet(c))

\* The body of a command repeats its first character and is not empty.
LEMMA BodyOf ==
    ASSUME NEW c \in Commands
    PROVE  /\ Body(c) \in Seq(Commands) /\ Len(Body(c)) \in Nat /\ Len(Body(c)) > 0
           /\ \A i \in 1 .. Len(Body(c)) : Body(c)[i] = c
<1> DEFINE n == CASE c = "long" -> BufMax - 1 [] c = "Z" -> BufMax - 2 [] OTHER -> 1
<1>1. BufMax \in Nat /\ BufMax > 2
    BY GdbProtocolAssumption
<1>2. n \in Nat /\ n > 0
    BY <1>1
<1>3. Body(c) = [i \in 1 .. n |-> c]
    BY DEF Body
<1> HIDE DEF n
<1> QED BY <1>1, <1>2, <1>3

\* A packet, character by character.
LEMMA PacketOf ==
    ASSUME NEW c \in Commands
    PROVE  LET n == Len(Body(c)) + 3
           IN  /\ Packet(c) \in Seq(Chars) /\ Len(Packet(c)) = n
               /\ Packet(c)[1] = Char("$") /\ Packet(c)[n - 1] = Char("#")
               /\ Packet(c)[n] = Sum(Body(c))
               /\ \A i \in 2 .. n - 2 : Packet(c)[i] = Char(c)
<1> DEFINE b == Body(c)
           m == Len(b)
           x == <<Char("$")>>
           y == [i \in DOMAIN b |-> Char(c)]
           z == <<Char("#"), Sum(b)>>
<1>1. b \in Seq(Commands) /\ m \in Nat /\ m > 0 /\ DOMAIN b = 1 .. m
    BY BodyOf
<1>2. Packet(c) = (x \o y) \o z
    BY DEF Packet
<1> HIDE DEF b
<1>3. Char("$") \in Chars /\ Char("#") \in Chars /\ Char(c) \in Chars
    BY DEF Char, Chars, Letters
<1>4. Sum(b) \in Chars
    BY <1>1 DEF Sum, Chars, Letters
<1>5. x \in Seq(Chars) /\ Len(x) = 1 /\ x[1] = Char("$")
    BY <1>3
<1>6. y \in Seq(Chars) /\ Len(y) = m /\ \A i \in 1 .. m : y[i] = Char(c)
    BY <1>1, <1>3
<1>7. z \in Seq(Chars) /\ Len(z) = 2 /\ z[1] = Char("#") /\ z[2] = Sum(b)
    BY <1>3, <1>4
<1> HIDE DEF x, y, z, m
<1>8. /\ x \o y \in Seq(Chars) /\ Len(x \o y) = 1 + m /\ (x \o y)[1] = Char("$")
      /\ \A i \in 2 .. m + 1 : (x \o y)[i] = Char(c)
  <2>1. /\ x \o y \in Seq(Chars) /\ Len(x \o y) = Len(x) + Len(y)
        /\ \A i \in 1 .. Len(x) : (x \o y)[i] = x[i]
        /\ \A i \in Len(x) + 1 .. Len(x) + Len(y) : (x \o y)[i] = y[i - Len(x)]
      BY <1>5, <1>6, Joined
  <2>2. (x \o y)[1] = x[1]
      BY <1>5, <2>1
  <2>3. ASSUME NEW i \in 2 .. m + 1
        PROVE  (x \o y)[i] = Char(c)
    <3>1. i \in Len(x) + 1 .. Len(x) + Len(y) /\ i - Len(x) \in 1 .. m
        BY <1>1, <1>5, <1>6
    <3> QED BY <1>6, <2>1, <3>1
  <2> QED BY <1>5, <1>6, <2>1, <2>2, <2>3
<1> DEFINE u == x \o y
           v == u \o z
<1>9. /\ u \in Seq(Chars) /\ Len(u) = 1 + m /\ u[1] = Char("$")
      /\ \A i \in 2 .. m + 1 : u[i] = Char(c)
    BY <1>8
<1> HIDE DEF u
<1>10. /\ v \in Seq(Chars) /\ Len(v) = m + 3
       /\ \A i \in 1 .. m + 1 : v[i] = u[i]
       /\ v[m + 2] = z[1] /\ v[m + 3] = z[2]
  <2>1. /\ v \in Seq(Chars) /\ Len(v) = Len(u) + Len(z)
        /\ \A i \in 1 .. Len(u) : v[i] = u[i]
        /\ \A i \in Len(u) + 1 .. Len(u) + Len(z) : v[i] = z[i - Len(u)]
      BY <1>7, <1>9, Joined
  <2> HIDE DEF v
  <2>2. /\ m + 2 \in Len(u) + 1 .. Len(u) + Len(z) /\ (m + 2) - Len(u) = 1
        /\ m + 3 \in Len(u) + 1 .. Len(u) + Len(z) /\ (m + 3) - Len(u) = 2
        /\ Len(u) = m + 1 /\ Len(u) + Len(z) = m + 3
      BY <1>1, <1>7, <1>9
  <2>3. v[m + 2] = z[1] /\ v[m + 3] = z[2]
      BY <2>1, <2>2
  <2> QED BY <2>1, <2>2, <2>3
<1>11. Packet(c) = v
    BY <1>2 DEF u
<1> HIDE DEF v
<1>12. /\ (m + 3) - 1 = m + 2 /\ (m + 3) - 2 = m + 1 /\ 1 \in 1 .. m + 1
       /\ 2 .. m + 1 \subseteq 1 .. m + 1
    BY <1>1
<1>13. /\ v \in Seq(Chars) /\ Len(v) = m + 3 /\ v[1] = Char("$")
       /\ v[(m + 3) - 1] = Char("#")
       /\ v[m + 3] = Sum(b) /\ \A i \in 2 .. (m + 3) - 2 : v[i] = Char(c)
    BY <1>7, <1>9, <1>10, <1>12
<1> QED BY <1>11, <1>13 DEF b, m

\* Every copy is one packet for the stub: noise changes one character.
LEMMA CopyWhole ==
    ASSUME NEW c \in Commands, NEW p \in Copies(c)
    PROVE  /\ p \in Seq(Chars) /\ Whole(p, 0)
           /\ \A j \in DOMAIN p : p[j].t = "sum" => p[j].of = Body(c)
<1> DEFINE q == Packet(c)
           n == Len(Body(c)) + 3
<1>1. /\ q \in Seq(Chars) /\ Len(q) = n /\ q[1] = Char("$") /\ q[n - 1] = Char("#")
      /\ q[n] = Sum(Body(c)) /\ \A i \in 2 .. n - 2 : q[i] = Char(c)
    BY PacketOf
<1>2. n \in Nat /\ n > 3 /\ c \notin {"$", "#", "sum", "noise"} /\ DOMAIN q = 1 .. n
    BY <1>1, BodyOf DEF Commands
<1>3. PICK m \in DOMAIN q, x \in {"$", "#", "noise"} :
          p = q \/ p = [q EXCEPT ![m] = Char(x)]
  <2>1. CASE p = q
      BY <1>2, <2>1
  <2>2. CASE p # q
      BY <2>2 DEF Copies, Garbled
  <2> QED BY <2>1, <2>2
<1>4. Char(x) \in Chars /\ Char(x).t = x
    BY DEF Char, Chars, Letters
<1> HIDE DEF q, n
<1>5. p \in Seq(Chars) /\ Len(p) = n /\ DOMAIN p = 1 .. n
    BY <1>1, <1>2, <1>3, <1>4
<1>6. \A j \in 1 .. n : j # m => p[j] = q[j]
    BY <1>2, <1>3
<1>7. p[m] = q[m] \/ p[m] = Char(x)
    BY <1>2, <1>3
<1>8. /\ q[1].t = "$" /\ q[n - 1].t = "#" /\ q[n].t = "sum" /\ q[n].of = Body(c)
      /\ \A i \in 2 .. n - 2 : q[i].t = c
    BY <1>1 DEF Char, Sum
<1>9. ASSUME NEW j \in 1 .. n
      PROVE  /\ p[j].t = "sum" => j = n /\ p[j].of = Body(c)
             /\ p[j].t = "#" => j = m \/ j = n - 1
             /\ p[j].t = "$" => j = m \/ j = 1
  <2>1. CASE j # m
    <3>1. p[j] = q[j]
        BY <1>6, <2>1
    <3>2. j = 1 \/ j = n - 1 \/ j = n \/ j \in 2 .. n - 2
        BY <1>2
    <3> QED BY <1>2, <1>8, <3>1, <3>2
  <2>2. CASE j = m
    <3>1. p[j] = q[j] \/ p[j].t = x
        BY <1>4, <1>7, <2>2
    <3>2. j = 1 \/ j = n - 1 \/ j = n \/ j \in 2 .. n - 2
        BY <1>2
    <3> QED BY <1>2, <1>8, <2>2, <3>1, <3>2
  <2> QED BY <2>1, <2>2
<1>10. ASSUME NEW j \in DOMAIN p, NEW k \in DOMAIN p, 0 < j, j < k
       PROVE  /\ p[j].t = "#" => k = j + 1 \/ p[k].t # "$"
              /\ p[j].t = "sum" => p[k].t # "sum"
    BY <1>2, <1>5, <1>9, <1>10
<1>11. ASSUME p[Len(p)].t = "#"
       PROVE  0 + 1 < Len(p) /\ p[Len(p) - 1].t = "#"
  <2>1. n = m
      BY <1>2, <1>5, <1>9, <1>11
  <2>2. n - 1 # m /\ n - 1 \in 1 .. n
      BY <1>2, <2>1
  <2> QED BY <1>2, <1>5, <1>6, <1>8, <2>2
<1>12. Whole(p, 0)
    BY <1>10, <1>11 DEF Whole
<1> QED BY <1>5, <1>9, <1>12

\* A queue after its first element is taken.
LEMMA TailOf ==
    ASSUME NEW S, NEW s \in Seq(S), s # <<>>
    PROVE  /\ Tail(s) \in Seq(S) /\ Head(s) = s[1] /\ s[1] \in S /\ 1 \in DOMAIN s
           /\ Len(s) \in Nat \ {0} /\ Len(Tail(s)) = Len(s) - 1
           /\ \A j \in DOMAIN Tail(s) : /\ j \in Nat \ {0} /\ j + 1 \in DOMAIN s
                                        /\ Tail(s)[j] = s[j + 1]
OBVIOUS

\* A queue with one element more.
LEMMA AppendOf ==
    ASSUME NEW S, NEW s \in Seq(S), NEW x \in S
    PROVE  /\ Append(s, x) \in Seq(S) /\ Len(Append(s, x)) = Len(s) + 1
           /\ Len(s) + 1 \in DOMAIN Append(s, x) /\ Append(s, x)[Len(s) + 1] = x
           /\ \A j \in DOMAIN s : j \in DOMAIN Append(s, x) /\ Append(s, x)[j] = s[j]
           /\ \A j \in DOMAIN Append(s, x) :
                 \/ j \in DOMAIN s /\ j <= Len(s) /\ Append(s, x)[j] = s[j]
                 \/ j = Len(s) + 1 /\ Append(s, x)[j] = x
OBVIOUS

\* What is in front of the thread once it has read a character outside a packet.
LEMMA InTail ==
    ASSUME NEW s \in Seq(Chars), s # <<>>,
           \A i \in DOMAIN s : s[i].t = "$" => Whole(s, i)
    PROVE  /\ \A i \in DOMAIN Tail(s) : Tail(s)[i].t = "$" => Whole(Tail(s), i)
           /\ s[1].t = "$" => Whole(Tail(s), 0)
<1>1. ASSUME NEW i \in DOMAIN Tail(s), Tail(s)[i].t = "$"
      PROVE  Whole(Tail(s), i)
  <2>1. i \in Nat /\ i + 1 \in DOMAIN s /\ s[i + 1].t = "$"
      BY <1>1, TailOf
  <2>2. Whole(s, i + 1)
      BY <2>1
  <2> QED BY <2>1, <2>2, TailWhole
<1>2. ASSUME s[1].t = "$"
      PROVE  Whole(Tail(s), 0)
  <2>1. Whole(s, 0 + 1)
      BY <1>2, TailOf
  <2> QED BY <2>1, TailWhole
<1> QED BY <1>1, <1>2

\* The debugger takes the first thing on its way.
LEMMA QueueTail ==
    ASSUME NEW q \in Seq(Messages), q # <<>>
    PROVE  LET u == Tail(q)
           IN  /\ Frames(q) => q[1].t = "frame" /\ Frames(u)
               /\ Rejected(q) =>
                     \/ q[1].t = "frame" /\ Rejected(u)
                     \/ q[1].t = "-" /\ u = <<>>
               /\ \A i \in Nat : AckedAt(q, i) =>
                     \/ i = 1 /\ q[1].t = "+" /\ Frames(u)
                     \/ q[1].t = "frame" /\ AckedAt(u, i - 1)
               /\ \A i \in Nat \ {0} : \A c, r :
                     Fitting(q, i, c, r) => Fitting(u, i - 1, c, r)
               /\ \A c, r : Fitting(q, 0, c, r) =>
                               Fits(q[1].body, c, r) /\ Fitting(u, 0, c, r)
<1> DEFINE u == Tail(q)
           n == Len(q)
<1>1. /\ n \in Nat \ {0} /\ DOMAIN q = 1 .. n /\ DOMAIN u = 1 .. n - 1 /\ Len(u) = n - 1
      /\ \A j \in 1 .. n - 1 : u[j] = q[j + 1]
    OBVIOUS
<1>2. u \in Seq(Messages)
    OBVIOUS
<1> HIDE DEF u, n
<1>3. (n = 1 => u = <<>>) /\ (n > 1 => u # <<>>)
  <2>1. Len(u) = 0 <=> u = <<>>
      BY <1>2, EmptySeq
  <2> QED BY <1>1, <2>1
<1>4. Frames(q) => q[1].t = "frame" /\ Frames(u)
    BY <1>1 DEF Frames
<1>5. ASSUME Rejected(q)
      PROVE  (q[1].t = "frame" /\ Rejected(u)) \/ (q[1].t = "-" /\ u = <<>>)
  <2>1. CASE n = 1
      BY <1>3, <1>5, <2>1 DEF Rejected, n
  <2>2. CASE n > 1
    <3>1. q[n].t = "-" /\ \A j \in 1 .. n : j # n => q[j].t = "frame"
        BY <1>1, <1>5 DEF Rejected, n
    <3>2. u # <<>> /\ u[n - 1] = q[n] /\ q[1].t = "frame"
        BY <1>1, <1>3, <2>2, <3>1
    <3>3. \A j \in DOMAIN u : j # n - 1 => u[j].t = "frame"
        BY <1>1, <3>1
    <3> QED BY <1>1, <3>1, <3>2, <3>3 DEF Rejected
  <2> QED BY <1>1, <2>1, <2>2
<1>6. ASSUME NEW i \in Nat, AckedAt(q, i)
      PROVE  \/ i = 1 /\ q[1].t = "+" /\ Frames(u)
             \/ q[1].t = "frame" /\ AckedAt(u, i - 1)
  <2>1. i \in 1 .. n /\ q[i].t = "+" /\ \A j \in 1 .. n : j # i => q[j].t = "frame"
      BY <1>1, <1>6 DEF AckedAt
  <2>2. CASE i = 1
      BY <1>1, <2>1, <2>2 DEF Frames
  <2>3. CASE i # 1
    <3>1. i - 1 \in DOMAIN u /\ (i - 1) + 1 = i /\ 1 \in 1 .. n
        BY <1>1, <2>1, <2>3
    <3>2. u[i - 1] = q[i] /\ q[1].t = "frame"
        BY <1>1, <2>1, <2>3, <3>1
    <3>3. \A j \in DOMAIN u : j # i - 1 => u[j].t = "frame"
        BY <1>1, <2>1
    <3> QED BY <2>1, <3>1, <3>2, <3>3 DEF AckedAt
  <2> QED BY <2>2, <2>3
<1>7. ASSUME NEW i \in Nat \ {0}, NEW c, NEW r, Fitting(q, i, c, r)
      PROVE  Fitting(u, i - 1, c, r)
  <2>1. \A j \in 1 .. n - 1 : i - 1 < j => i < j + 1 /\ j + 1 \in 1 .. n
      BY <1>1
  <2> QED BY <1>1, <1>7, <2>1 DEF Fitting
<1>8. ASSUME NEW c, NEW r, Fitting(q, 0, c, r)
      PROVE  Fits(q[1].body, c, r) /\ Fitting(u, 0, c, r)
  <2>1. 1 \in 1 .. n /\ 0 < 1 /\ \A j \in 1 .. n - 1 : 0 < j + 1 /\ j + 1 \in 1 .. n
      BY <1>1
  <2> QED BY <1>1, <1>8, <2>1 DEF Fitting
<1> QED BY <1>4, <1>5, <1>6, <1>7, <1>8 DEF u

\* The stub sends one thing more.
LEMMA QueueAppend ==
    ASSUME NEW q \in Seq(Messages), NEW x \in Messages
    PROVE  LET u == Append(q, x)
           IN  /\ u \in Seq(Messages) /\ Len(q) + 1 \in DOMAIN u /\ Len(u) = Len(q) + 1
               /\ x.t = "frame" /\ Frames(q) => Frames(u)
               /\ x.t = "-" /\ Frames(q) => Rejected(u)
               /\ x.t = "+" /\ Frames(q) => AckedAt(u, Len(u))
               /\ \A i : x.t = "frame" /\ AckedAt(q, i) => AckedAt(u, i)
               /\ \A i, c, r : Fits(x.body, c, r) /\ Fitting(q, i, c, r) => Fitting(u, i, c, r)
<1> DEFINE u == Append(q, x)
           n == Len(q)
<1>1. /\ n \in Nat /\ DOMAIN q = 1 .. n /\ DOMAIN u = 1 .. n + 1 /\ Len(u) = n + 1
      /\ u[n + 1] = x /\ u \in Seq(Messages)
      /\ \A j \in 1 .. n : u[j] = q[j]
    OBVIOUS
<1> HIDE DEF u, n
<1>2. u # <<>>
    BY <1>1, EmptySeq
<1>3. n + 1 \in DOMAIN u /\ \A j \in DOMAIN u : j # n + 1 => j \in DOMAIN q /\ u[j] = q[j]
    BY <1>1
<1>4. x.t = "frame" /\ Frames(q) => Frames(u)
    BY <1>1, <1>3 DEF Frames
<1>5. x.t = "-" /\ Frames(q) => Rejected(u)
    BY <1>1, <1>2, <1>3 DEF Frames, Rejected
<1>6. x.t = "+" /\ Frames(q) => AckedAt(u, Len(u))
    BY <1>1, <1>3 DEF Frames, AckedAt
<1>7. ASSUME NEW i, x.t = "frame", AckedAt(q, i)
      PROVE  AckedAt(u, i)
  <2>1. i \in DOMAIN u /\ u[i].t = "+"
      BY <1>1, <1>7 DEF AckedAt
  <2> QED BY <1>1, <1>3, <1>7, <2>1 DEF AckedAt
<1>8. ASSUME NEW i, NEW c, NEW r, Fits(x.body, c, r), Fitting(q, i, c, r)
      PROVE  Fitting(u, i, c, r)
    BY <1>1, <1>3, <1>8 DEF Fitting
<1> QED BY <1>1, <1>3, <1>4, <1>5, <1>6, <1>7, <1>8 DEF u, n

-----------------------------------------------------------------------------
(* The protocol: every step keeps the invariant. *)

\* The connection begins with no command under way.
LEMMA ConnectInv ==
    ASSUME ProtocolInv, Connect
    PROVE  ProtocolInv'
<1>0. TypeOK /\ InInv /\ OutInv /\ PlaceInv /\ ThreadInv
    BY DEF ProtocolInv
<1>1. /\ Char("+") \in Chars /\ toStub' \in Seq(Chars) /\ DOMAIN toStub' = {1}
      /\ toStub'[1].t = "+"
    BY DEF Connect, Char, Chars, Letters
<1>2. TypeOK'
    BY <1>0, <1>1 DEF TypeOK, Connect, bounds, history
<1>3. Quiet /\ Quiet' /\ ~ Pending' /\ ~ Taken' /\ ~ Taken
    BY <1>0 DEF TypeOK, PlaceInv, Connect, Quiet, Pending, Taken, history
<1>4. InInv'
    BY <1>0, <1>1, <1>3 DEF InInv, Without, Connect
<1>5. OutInv'
    BY <1>0, <1>3 DEF OutInv, PlaceInv, Connect, gone
<1>6. PlaceInv'
    BY <1>0, <1>3 DEF PlaceInv, Connect, gone, Leaves, Sending
<1>7. ThreadInv'
    BY <1>0, <1>3 DEF ThreadInv, Connect, history
<1> QED BY <1>2, <1>4, <1>5, <1>6, <1>7 DEF ProtocolInv

\* What send_packet sends while a command is under way answers it.
LEMMA SendPacketInv ==
    ASSUME ProtocolInv, SendPacket
    PROVE  ProtocolInv'
<1>0. TypeOK /\ InInv /\ OutInv /\ PlaceInv /\ ThreadInv
    BY DEF ProtocolInv
<1>1. PICK intact \in BOOLEAN : Sent(Frame(out, intact))
    BY DEF SendPacket
<1> DEFINE x == Frame(out, intact)
           u == Append(toGdb, x)
<1>2. x \in Messages /\ x.t = "frame" /\ x.body = out
    BY <1>0 DEF TypeOK, Frame, Messages
<1>3. toGdb' = toGdb \/ (~ gone /\ toGdb' = u)
    BY <1>1 DEF Sent
<1> HIDE DEF x
<1>4. /\ toGdb \in Seq(Messages) /\ u \in Seq(Messages)
      /\ Frames(toGdb) => Frames(u)
      /\ \A i : AckedAt(toGdb, i) => i \in DOMAIN u /\ AckedAt(u, i)
      /\ \A i, c, r : Fits(out, c, r) /\ Fitting(toGdb, i, c, r) => Fitting(u, i, c, r)
  <2>1. toGdb \in Seq(Messages)
      BY <1>0 DEF TypeOK
  <2>2. \A i : AckedAt(u, i) => i \in DOMAIN u
      BY DEF AckedAt
  <2> QED BY <1>2, <2>1, <2>2, QueueAppend
<1> HIDE DEF u
<1>5. TypeOK'
  <2>1. toGdb' \in Seq(Messages)
      BY <1>3, <1>4
  <2> QED BY <1>0, <2>1 DEF TypeOK, SendPacket, stub, debugger, history
<1>6. /\ (Quiet <=> Quiet') /\ (Pending <=> Pending') /\ (Taken <=> Taken')
      /\ pc = "send" /\ pc' = "ack" /\ (gone <=> gone') /\ dbg' = dbg
      /\ cmd' = cmd /\ reply' = reply /\ toStub' = toStub
    BY DEF SendPacket, Quiet, Pending, Taken, history, debugger, gone
<1>7. InInv'
    BY <1>0, <1>6 DEF InInv, SendPacket, stub
<1>8. OutInv'
  <2>1. CASE toGdb' = toGdb
      BY <1>0, <1>6, <2>1 DEF OutInv
  <2>2. CASE ~ gone /\ toGdb' = u
    <3>1. Taken => Fits(out, cmd, reply)
        BY <1>0, <1>6, <2>2 DEF PlaceInv, Sending
    <3> QED BY <1>0, <1>4, <1>6, <2>2, <3>1 DEF OutInv
  <2> QED BY <1>3, <2>1, <2>2
<1>9. PlaceInv'
    BY <1>0, <1>6 DEF PlaceInv, SendPacket, Leaves, Sending, stub, history
<1>10. ThreadInv'
    BY <1>0, <1>6 DEF ThreadInv, SendPacket, history, stub, debugger
<1> QED BY <1>5, <1>7, <1>8, <1>9, <1>10 DEF ProtocolInv

\* send_packet takes a character, which is not the start of a packet that matters.
LEMMA RecvAckInv ==
    ASSUME ProtocolInv, RecvAck
    PROVE  ProtocolInv'
<1>0. TypeOK /\ InInv /\ OutInv /\ PlaceInv /\ ThreadInv
    BY DEF ProtocolInv
<1>1. /\ pc = "ack" /\ pc' \in {after, "send"} /\ toStub # <<>> /\ toStub' = Tail(toStub)
      /\ after \in {"start", "guest", "exit", "dead"}
    BY <1>0 DEF RecvAck, TypeOK
<1>2. /\ (Quiet <=> Quiet') /\ (Pending <=> Pending') /\ (Taken <=> Taken')
      /\ (gone <=> gone') /\ pc' # "obey"
    BY <1>1 DEF RecvAck, Quiet, Pending, Taken, gone, history, debugger
<1>3. /\ toStub \in Seq(Chars) /\ toStub' \in Seq(Chars)
      /\ \A j \in DOMAIN toStub' : j + 1 \in DOMAIN toStub /\ toStub'[j] = toStub[j + 1]
    BY <1>0, <1>1, TailOf DEF TypeOK
<1>4. TypeOK'
    BY <1>0, <1>1, <1>3 DEF TypeOK, RecvAck, stub, debugger, history
<1>5. InInv'
  <2>1. \A i \in DOMAIN toStub' : toStub'[i].t = "$" => Whole(toStub', i)
      BY <1>0, <1>1, <1>3, InTail DEF InInv
  <2>2. ~ Pending' => Without(toStub', "$") /\ Without(toStub', "sum")
      BY <1>0, <1>2, <1>3 DEF InInv, Without
  <2>3. \A j \in DOMAIN toStub' : toStub'[j].t = "sum" => toStub'[j].of = Body(cmd)
      BY <1>0, <1>3 DEF InInv
  <2>4. ~ (Pending' /\ gone')
      BY <1>0, <1>1, <1>2 DEF InInv
  <2>5. pc' \notin {"body", "sum", "obey"} /\ cmd' = cmd
      BY <1>1 DEF RecvAck, debugger
  <2> QED BY <2>1, <2>2, <2>3, <2>4, <2>5 DEF InInv
<1>6. OutInv'
    BY <1>0, <1>1, <1>2 DEF OutInv, RecvAck, debugger, history
<1>7. PlaceInv'
    BY <1>0, <1>1, <1>2
       DEF PlaceInv, RecvAck, Resumes, Leaves, Sending, stub, debugger, history
<1>8. ThreadInv'
    BY <1>0, <1>1, <1>2 DEF ThreadInv, RecvAck, stub, debugger, history
<1> QED BY <1>4, <1>5, <1>6, <1>7, <1>8 DEF ProtocolInv

\* send_packet gives up.
LEMMA AckHangupInv ==
    ASSUME ProtocolInv, AckHangup
    PROVE  ProtocolInv'
<1>0. TypeOK /\ InInv /\ OutInv /\ PlaceInv /\ ThreadInv
    BY DEF ProtocolInv
<1>1. /\ pc = "ack" /\ pc' = after /\ gone /\ gone'
      /\ after \in {"start", "guest", "exit", "dead"}
    BY <1>0 DEF AckHangup, TypeOK, gone, debugger
<1>2. (Quiet <=> Quiet') /\ (Pending <=> Pending') /\ (Taken <=> Taken')
    BY <1>1 DEF AckHangup, Quiet, Pending, Taken, history
<1>3. TypeOK'
    BY <1>0, <1>1 DEF TypeOK, AckHangup, debugger, history
<1>4. InInv'
    BY <1>0, <1>1, <1>2 DEF InInv, AckHangup, debugger
<1>5. OutInv'
    BY <1>1 DEF OutInv, gone
<1>6. PlaceInv'
    BY <1>0, <1>1, <1>2 DEF PlaceInv, AckHangup, Resumes, Sending, gone, debugger, history
<1>7. ThreadInv'
    BY <1>0, <1>1, <1>2 DEF ThreadInv, AckHangup, debugger, history
<1> QED BY <1>3, <1>4, <1>5, <1>6, <1>7 DEF ProtocolInv

\* SIGPIPE ends the process.
LEMMA BrokenPipeInv ==
    ASSUME ProtocolInv, BrokenPipe
    PROVE  ProtocolInv'
<1>0. TypeOK /\ InInv /\ OutInv /\ PlaceInv /\ ThreadInv
    BY DEF ProtocolInv
<1>1. pc = "send" /\ pc' = "dead" /\ gone /\ gone'
    BY <1>0 DEF BrokenPipe, InInv, gone, debugger
<1>2. (Quiet <=> Quiet') /\ (Pending <=> Pending') /\ (Taken <=> Taken')
    BY <1>1 DEF BrokenPipe, Quiet, Pending, Taken, history
<1>3. TypeOK'
    BY <1>0, <1>1 DEF TypeOK, BrokenPipe, stub, debugger, history
<1>4. InInv'
    BY <1>0, <1>1, <1>2 DEF InInv, BrokenPipe, debugger
<1>5. OutInv'
    BY <1>1 DEF OutInv, gone
<1>6. PlaceInv'
    BY <1>0, <1>1, <1>2 DEF PlaceInv, BrokenPipe, Sending, gone, stub, debugger, history
<1>7. ThreadInv'
    BY <1>0, <1>1, <1>2 DEF ThreadInv, BrokenPipe, stub, debugger, history
<1> QED BY <1>3, <1>4, <1>5, <1>6, <1>7 DEF ProtocolInv

\* recv_packet skips to a '$'.
LEMMA RecvStartInv ==
    ASSUME ProtocolInv, RecvStart
    PROVE  ProtocolInv'
<1>0. TypeOK /\ InInv /\ OutInv /\ PlaceInv /\ ThreadInv
    BY DEF ProtocolInv
<1>1. /\ pc = "start" /\ pc' \in {"start", "body"}
      /\ toStub # <<>> /\ toStub' = Tail(toStub)
      /\ in_buffer' = <<>> /\ pc' = IF Head(toStub).t = "$" THEN "body" ELSE "start"
    BY DEF RecvStart
<1>2. /\ (Quiet <=> Quiet') /\ (Pending <=> Pending') /\ (Taken <=> Taken')
      /\ (gone <=> gone')
    BY <1>1 DEF RecvStart, Quiet, Pending, Taken, gone, history, debugger
<1>3. /\ toStub \in Seq(Chars) /\ toStub' \in Seq(Chars) /\ Head(toStub) = toStub[1]
      /\ 1 \in DOMAIN toStub
      /\ \A j \in DOMAIN toStub' : j + 1 \in DOMAIN toStub /\ toStub'[j] = toStub[j + 1]
    BY <1>0, <1>1, TailOf DEF TypeOK
<1>4. BufMax \in Nat /\ BufMax > 2 /\ <<>> \in Seq(Letters) /\ Len(<<>>) = 0
    BY GdbProtocolAssumption
<1>5. TypeOK'
    BY <1>0, <1>1, <1>3, <1>4 DEF TypeOK, RecvStart, debugger, history
<1>6. InInv'
  <2>1. /\ \A i \in DOMAIN toStub' : toStub'[i].t = "$" => Whole(toStub', i)
        /\ toStub[1].t = "$" => Whole(toStub', 0)
      BY <1>0, <1>1, <1>3, InTail DEF InInv
  <2>2. ~ Pending' => Without(toStub', "$") /\ Without(toStub', "sum") /\ pc' = "start"
      BY <1>0, <1>1, <1>2, <1>3 DEF InInv, Without
  <2>3. \A j \in DOMAIN toStub' : toStub'[j].t = "sum" => toStub'[j].of = Body(cmd)
      BY <1>0, <1>3 DEF InInv
  <2>4. ~ (Pending' /\ gone')
      BY <1>0, <1>1, <1>2 DEF InInv
  <2>5. cmd' = cmd /\ (pc' = "body" => Whole(toStub', 0) /\ Len(in_buffer') < BufMax - 1)
      BY <1>1, <1>3, <1>4, <2>1 DEF RecvStart, debugger
  <2> QED BY <1>1, <2>1, <2>2, <2>3, <2>4, <2>5 DEF InInv
<1>7. OutInv'
  <2>1. Without(toStub, "$") => Without(toStub', "$") /\ pc' = "start"
      BY <1>1, <1>3 DEF Without
  <2> QED BY <1>0, <1>1, <1>2, <2>1 DEF OutInv, RecvStart, debugger, history
<1>8. PlaceInv'
    BY <1>0, <1>1, <1>2 DEF PlaceInv, RecvStart, Leaves, Sending, debugger, history
<1>9. ThreadInv'
    BY <1>0, <1>1, <1>2 DEF ThreadInv, RecvStart, debugger, history
<1> QED BY <1>5, <1>6, <1>7, <1>8, <1>9 DEF ProtocolInv

\* recv_packet reads a body: after a '#' one character is left that may be its
\* sum.
LEMMA RecvBodyInv ==
    ASSUME ProtocolInv, RecvBody
    PROVE  ProtocolInv'
<1>0. TypeOK /\ InInv /\ OutInv /\ PlaceInv /\ ThreadInv
    BY DEF ProtocolInv
<1> DEFINE ch == Head(toStub).t
<1>1. /\ pc = "body" /\ toStub # <<>> /\ toStub' = Tail(toStub)
      /\ in_buffer' = CASE ch = "$" -> <<>>
                        [] ch = "#" -> in_buffer
                        [] OTHER -> Append(in_buffer, ch)
      /\ pc' = CASE ch = "#" -> "sum"
                 [] Len(in_buffer') = BufMax - 1 -> "start"
                 [] OTHER -> "body"
    BY DEF RecvBody
<1>2. /\ UNCHANGED <<ncores, after, regs, thread_counter, out, closed, toGdb>>
      /\ UNCHANGED debugger /\ UNCHANGED history /\ report' = report
    BY DEF RecvBody
<1>3. /\ toStub \in Seq(Chars) /\ toStub' \in Seq(Chars) /\ ch = toStub[1].t
      /\ 1 \in DOMAIN toStub /\ toStub[1] \in Chars
      /\ Len(toStub) \in Nat \ {0} /\ Len(toStub') = Len(toStub) - 1
      /\ \A j \in DOMAIN toStub' : /\ j \in Nat \ {0} /\ j + 1 \in DOMAIN toStub
                                   /\ toStub'[j] = toStub[j + 1]
    BY <1>0, <1>1, TailOf DEF TypeOK
<1>4. ch \in Letters
    BY <1>3 DEF Chars
<1>5. BufMax \in Nat /\ BufMax > 2
    BY GdbProtocolAssumption
<1>6. Whole(toStub, 0) /\ Len(in_buffer) < BufMax - 1 /\ Pending /\ ~ gone
      /\ in_buffer \in Seq(Letters)
    BY <1>0, <1>1 DEF InInv, TypeOK
<1> HIDE DEF ch
<1>7. /\ in_buffer' \in Seq(Letters) /\ Len(in_buffer') < BufMax
      /\ ch # "#" /\ Len(in_buffer') # BufMax - 1 => Len(in_buffer') < BufMax - 1
  <2>1. CASE ch = "$"
      BY <1>1, <1>5, <2>1
  <2>2. CASE ch = "#"
      BY <1>1, <1>5, <1>6, <2>2
  <2>3. CASE ch \notin {"$", "#"}
    <3>1. in_buffer' = Append(in_buffer, ch)
        BY <1>1, <2>3
    <3>2. /\ in_buffer' \in Seq(Letters) /\ Len(in_buffer') = Len(in_buffer) + 1
          /\ Len(in_buffer) \in Nat
        BY <1>4, <1>6, <3>1
    <3> QED BY <1>5, <1>6, <3>2
  <2> QED BY <2>1, <2>2, <2>3
<1>8. /\ pc' \in {"start", "body", "sum"} /\ (pc' = "sum" <=> ch = "#")
      /\ pc' = "body" => ch # "#" /\ Len(in_buffer') # BufMax - 1
  <2>1. CASE ch = "#"
    <3>1. in_buffer' = in_buffer /\ Len(in_buffer) \in Nat
        BY <1>1, <1>6, <2>1
    <3>2. Len(in_buffer') # BufMax - 1
        BY <1>5, <1>6, <3>1
    <3> QED BY <1>1, <2>1, <3>2
  <2>2. CASE ch # "#"
      BY <1>1, <2>2
  <2> QED BY <2>1, <2>2
<1>9. /\ Pending' /\ ~ Quiet /\ ~ Quiet' /\ ~ Taken' /\ ~ Taken /\ ~ gone'
    BY <1>0, <1>2, <1>6, <1>8 DEF TypeOK, Quiet, Pending, Taken, gone, history, debugger
<1>10. TypeOK'
    BY <1>0, <1>2, <1>3, <1>7, <1>8 DEF TypeOK, debugger, history
<1>11. InInv'
  <2>1. \A j \in DOMAIN toStub' : toStub'[j].t = "sum" => toStub'[j].of = Body(cmd)
      BY <1>0, <1>3 DEF InInv
  <2>2. cmd' = cmd
      BY <1>2 DEF debugger
  <2>3. CASE ch = "#"
    <3>1. pc' = "sum"
        BY <1>8, <2>3
    <3>2. Len(toStub) # 1
      <4>1. SUFFICES ASSUME Len(toStub) = 1
                     PROVE  FALSE
          OBVIOUS
      <4>2. toStub[Len(toStub)].t = "#"
          BY <1>3, <2>3, <4>1
      <4>3. 0 + 1 < Len(toStub)
          BY <1>3, <1>6, <4>2 DEF Whole
      <4> QED BY <4>1, <4>3
    <3>3. toStub' # <<>>
        BY <1>3, <3>2
    <3>4. ASSUME NEW j \in DOMAIN toStub', NEW k \in DOMAIN toStub', j < k
          PROVE  toStub'[k].t # "$" /\ (toStub'[j].t = "sum" => toStub'[k].t # "sum")
      <4>1. /\ j \in Nat \ {0} /\ k \in Nat \ {0} /\ j + 1 \in DOMAIN toStub
            /\ k + 1 \in DOMAIN toStub
            /\ toStub'[j] = toStub[j + 1] /\ toStub'[k] = toStub[k + 1]
          BY <1>3
      <4>2. 0 < 1 /\ 1 < k + 1 /\ k + 1 # 1 + 1 /\ 0 < j + 1 /\ j + 1 < k + 1
          BY <3>4, <4>1
      <4> QED BY <1>3, <1>6, <2>3, <4>1, <4>2 DEF Whole
    <3> QED BY <1>9, <2>1, <2>2, <3>1, <3>3, <3>4 DEF InInv
  <2>4. CASE ch # "#"
    <3>1. Whole(toStub, 0 + 1)
        BY <1>3, <1>6, <2>4, StartWhole
    <3>2. Whole(toStub', 0)
        BY <1>1, <1>3, <3>1, TailWhole
    <3>3. \A i \in DOMAIN toStub' : toStub'[i].t = "$" => Whole(toStub', i)
        BY <1>3, <3>2, StartWhole
    <3>4. pc' \in {"start", "body"} /\ (pc' = "body" => Len(in_buffer') < BufMax - 1)
        BY <1>7, <1>8, <2>4
    <3> QED BY <1>9, <2>1, <2>2, <3>2, <3>3, <3>4 DEF InInv
  <2> QED BY <2>3, <2>4
<1>12. OutInv'
    BY <1>0, <1>1, <1>2, <1>6, <1>9 DEF OutInv
<1>13. PlaceInv'
    BY <1>0, <1>1, <1>2, <1>6, <1>8, <1>9 DEF PlaceInv, Leaves, Sending, debugger, history
<1>14. ThreadInv'
    BY <1>0, <1>2, <1>9 DEF ThreadInv, debugger, history
<1> QED BY <1>10, <1>11, <1>12, <1>13, <1>14 DEF ProtocolInv

\* A packet whose checksum is right is the command, whole and for the first time;
\* after any other the debugger sends it again.
LEMMA RecvSumInv ==
    ASSUME ProtocolInv, RecvSum
    PROVE  ProtocolInv'
<1>0. TypeOK /\ InInv /\ OutInv /\ PlaceInv /\ ThreadInv
    BY DEF ProtocolInv
<1>1. pc = "sum" /\ toStub # <<>> /\ toStub' = Tail(toStub)
    BY DEF RecvSum
<1>2. UNCHANGED stub /\ UNCHANGED debugger /\ UNCHANGED history /\ ncores' = ncores
    BY DEF RecvSum
<1>3. /\ toStub \in Seq(Chars) /\ toStub' \in Seq(Chars) /\ Head(toStub) = toStub[1]
      /\ 1 \in DOMAIN toStub
      /\ \A j \in DOMAIN toStub' : /\ j \in Nat \ {0} /\ j + 1 \in DOMAIN toStub
                                   /\ toStub'[j] = toStub[j + 1]
    BY <1>0, <1>1, TailOf DEF TypeOK
<1>4. /\ Pending /\ ~ gone /\ ~ Quiet /\ ~ Taken /\ ~ closed /\ dbg = "ack"
      /\ toGdb \in Seq(Messages) /\ Frames(toGdb)
  <2>1. Pending /\ ~ gone /\ ~ Quiet /\ ~ Taken
      BY <1>0, <1>1 DEF InInv, TypeOK, Pending, Quiet, Taken
  <2> QED BY <1>0, <1>1, <2>1 DEF TypeOK, PlaceInv, OutInv, gone
<1>5. /\ Without(toStub', "$")
      /\ \A j \in DOMAIN toStub' : toStub'[j].t = "sum" => toStub'[j].of = Body(cmd)
  <2>1. ASSUME NEW k \in DOMAIN toStub'
        PROVE  toStub'[k].t # "$"
    <3>1. k + 1 \in DOMAIN toStub /\ 1 < k + 1 /\ toStub'[k] = toStub[k + 1]
        BY <1>3
    <3> QED BY <1>0, <1>1, <1>3, <3>1 DEF InInv
  <2>2. \A j \in DOMAIN toStub' : toStub'[j].t = "sum" => toStub'[j].of = Body(cmd)
      BY <1>0, <1>3 DEF InInv
  <2> QED BY <2>1, <2>2 DEF Without
<1>6. CASE ChecksumOK(Head(toStub))
  <2> DEFINE x == Ack("+")
             u == Append(toGdb, x)
  <2>1. pc' = "obey" /\ toGdb' = u
      BY <1>4, <1>6 DEF RecvSum, Sent
  <2>2. x \in Messages /\ x.t = "+"
      BY DEF Ack, Messages, Bodies, NoAnswer
  <2> HIDE DEF x
  <2>3. u \in Seq(Messages) /\ Len(u) \in DOMAIN u /\ AckedAt(u, Len(u))
      BY <1>4, <2>2, QueueAppend
  <2> HIDE DEF u
  <2>4. ~ Quiet' /\ ~ Pending' /\ Taken' /\ ~ gone' /\ dbg' = "ack" /\ cmd' = cmd
      BY <1>0, <1>1, <1>2, <1>4, <2>1 DEF Quiet, Pending, Taken, gone, debugger, history
  <2>5. toStub[1].t = "sum" /\ toStub[1].of = in_buffer
      BY <1>3, <1>6 DEF ChecksumOK, Sum
  <2>6. in_buffer' = Body(cmd)
      BY <1>0, <1>2, <1>3, <2>5 DEF InInv, stub
  <2>7. Without(toStub', "sum")
    <3>1. ASSUME NEW k \in DOMAIN toStub'
          PROVE  toStub'[k].t # "sum"
      <4>1. k + 1 \in DOMAIN toStub /\ 1 < k + 1 /\ toStub'[k] = toStub[k + 1]
          BY <1>3
      <4> QED BY <1>0, <1>1, <1>3, <2>5, <4>1 DEF InInv
    <3> QED BY <3>1 DEF Without
  <2>8. TypeOK'
      BY <1>0, <1>2, <1>3, <2>1, <2>3 DEF TypeOK, stub, debugger, history
  <2>9. InInv'
    <3>1. \A i \in DOMAIN toStub' : toStub'[i].t # "$"
        BY <1>5 DEF Without
    <3> QED BY <1>5, <2>1, <2>4, <2>6, <2>7, <3>1 DEF InInv
  <2>10. OutInv'
      BY <2>1, <2>3, <2>4 DEF OutInv
  <2>11. PlaceInv'
      BY <1>0, <1>2, <1>4, <2>1, <2>4 DEF PlaceInv, Sending, stub
  <2>12. ThreadInv'
      BY <1>0, <1>2, <1>4, <2>1, <2>4 DEF ThreadInv, debugger, history, stub
  <2> QED BY <2>8, <2>9, <2>10, <2>11, <2>12 DEF ProtocolInv
<1>7. CASE ~ ChecksumOK(Head(toStub))
  <2> DEFINE x == Ack("-")
             u == Append(toGdb, x)
  <2>1. pc' = "start" /\ toGdb' = u
      BY <1>4, <1>7 DEF RecvSum, Sent
  <2>2. x \in Messages /\ x.t = "-"
      BY DEF Ack, Messages, Bodies, NoAnswer
  <2> HIDE DEF x
  <2>3. u \in Seq(Messages) /\ Rejected(u)
      BY <1>4, <2>2, QueueAppend
  <2> HIDE DEF u
  <2>4. ~ Quiet' /\ Pending' /\ ~ Taken' /\ ~ gone' /\ dbg' = "ack" /\ cmd' = cmd
      BY <1>0, <1>1, <1>2, <1>4, <2>1 DEF Quiet, Pending, Taken, gone, debugger, history
  <2>5. TypeOK'
      BY <1>0, <1>2, <1>3, <2>1, <2>3 DEF TypeOK, stub, debugger, history
  <2>6. InInv'
    <3>1. \A i \in DOMAIN toStub' : toStub'[i].t # "$"
        BY <1>5 DEF Without
    <3> QED BY <1>5, <2>1, <2>4, <3>1 DEF InInv
  <2>7. OutInv'
      BY <1>5, <2>1, <2>3, <2>4 DEF OutInv
  <2>8. PlaceInv'
      BY <1>0, <1>2, <1>4, <2>1, <2>4 DEF PlaceInv, Leaves, Sending, stub
  <2>9. ThreadInv'
      BY <1>0, <1>2, <1>4, <2>1, <2>4 DEF ThreadInv, debugger, history, stub
  <2> QED BY <2>5, <2>6, <2>7, <2>8, <2>9 DEF ProtocolInv
<1> QED BY <1>6, <1>7

\* recv_packet finds the connection shut; there is no half of a packet then.
LEMMA RecvHangupInv ==
    ASSUME ProtocolInv, RecvHangup
    PROVE  ProtocolInv'
<1>0. TypeOK /\ InInv /\ OutInv /\ PlaceInv /\ ThreadInv
    BY DEF ProtocolInv
<1>1. pc \in {"start", "body", "sum"} /\ pc' = "exit" /\ gone /\ gone' /\ toStub' = toStub
    BY <1>0 DEF RecvHangup, gone, debugger
<1>2. (Quiet <=> Quiet') /\ (Pending <=> Pending') /\ (Taken <=> Taken')
    BY <1>1 DEF RecvHangup, Quiet, Pending, Taken, history
<1>3. TypeOK'
    BY <1>0, <1>1 DEF TypeOK, RecvHangup, debugger, history
<1>4. InInv'
  <2>1. \A i \in DOMAIN toStub : toStub[i].t = "$" => Whole(toStub, i)
    <3>1. CASE pc = "start"
        BY <1>0, <3>1 DEF InInv
    <3>2. CASE pc # "start"
      <4>1. toStub = <<>>
          BY <1>0, <1>1, <3>2 DEF InInv
      <4> QED BY <4>1
    <3> QED BY <3>1, <3>2
  <2> QED BY <1>0, <1>1, <1>2, <2>1 DEF InInv, RecvHangup, debugger
<1>5. OutInv'
    BY <1>1 DEF OutInv, gone
<1>6. PlaceInv'
    BY <1>0, <1>1, <1>2 DEF PlaceInv, RecvHangup, Sending, gone, debugger, history
<1>7. ThreadInv'
    BY <1>0, <1>1, <1>2 DEF ThreadInv, RecvHangup, debugger, history
<1> QED BY <1>3, <1>4, <1>5, <1>6, <1>7 DEF ProtocolInv

\* What the thread takes for the command is the command.
LEMMA CommandIsCmd ==
    ASSUME TypeOK, InInv, pc = "obey"
    PROVE  Command = cmd
<1>1. in_buffer = Body(cmd) /\ cmd \in Commands
    BY DEF TypeOK, InInv
<1>2. /\ Body(cmd) \in Seq(Commands) /\ Len(Body(cmd)) > 0
      /\ Body(cmd)[1] = cmd /\ Len(Body(cmd)) \in Nat
    BY <1>1, BodyOf
<1>3. Body(cmd) # <<>> /\ Head(Body(cmd)) = cmd
    BY <1>2, EmptySeq
<1> QED BY <1>1, <1>3 DEF Command

\* The answers without a number of their own.
LEMMA FixedBodies ==
    /\ {NoAnswer, OK, Error, NotSupported, Exited} \subseteq Bodies
    /\ \A b \in {NoAnswer, OK, Error, NotSupported, Exited} : b[1] # "m"
    /\ \A n \in Nat : Signal(n) \in Bodies /\ Signal(n)[1] # "m"
<1>1. NoAnswer \in Bodies /\ NoAnswer[1] # "m"
    BY DEF Bodies, NoAnswer
<1>2. OK \in Bodies /\ OK[1] # "m"
    BY DEF Bodies, OK
<1>3. Error \in Bodies /\ Error[1] # "m"
    BY DEF Bodies, Error
<1>4. NotSupported \in Bodies /\ NotSupported[1] # "m"
    BY DEF Bodies, NotSupported
<1>5. Exited \in Bodies /\ Exited[1] # "m"
    BY DEF Bodies, Exited
<1>6. \A n \in Nat : Signal(n) \in Bodies /\ Signal(n)[1] # "m"
    BY DEF Bodies, Signal
<1> QED BY <1>1, <1>2, <1>3, <1>4, <1>5, <1>6

\* The answer to the last command, by command.
LEMMA ObeyAnswers ==
    ASSUME TypeOK, InInv, PlaceInv, ThreadInv, Obey
    PROVE  /\ reply' \in Bodies
           /\ cmd = "c" => reply' = NoAnswer
           /\ cmd = "D" => reply' = OK
           /\ reply' \in Answers(ncores, cmd, regs, report)
           /\ IF ncores > 1 /\ cmd \in {"qf", "qs"}
              THEN \/ /\ reply' = <<"m", thread_counter'>> /\ thread_counter' = Len(listed) + 1
                      /\ thread_counter' <= ncores
                   \/ reply' = <<"l", 0>> /\ thread_counter' = 0 /\ Len(listed) = ncores
              ELSE thread_counter' = Len(listed) /\ reply'[1] # "m"
<1>0. pc = "obey" /\ Command = cmd /\ cmd \in Commands
    BY CommandIsCmd DEF Obey, TypeOK
<1>1. /\ reply' \in Answered(cmd)
      /\ thread_counter' = IF ncores > 1 THEN NextThread(cmd) ELSE thread_counter
    BY <1>0 DEF Obey
<1>2. /\ Taken /\ ~ Quiet /\ thread_counter = Len(listed) /\ (listed # <<>> <=> cmd = "qs")
      /\ Len(listed) <= ncores /\ (ncores = 1 => listed = <<>>) /\ report[1] # "m"
    BY <1>0 DEF PlaceInv, ThreadInv, Quiet
<1>3. /\ ncores \in Nat \ {0} /\ thread_counter \in Nat /\ Len(listed) \in Nat
      /\ regs \in Nat /\ report \in Bodies
    BY GdbProtocolAssumption DEF TypeOK
<1>4. CASE ncores > 1 /\ cmd \in {"qf", "qs"}
  <2>1. reply' = IF NextThread(cmd) = 0 THEN <<"l", 0>> ELSE <<"m", NextThread(cmd)>>
      BY <1>1, <1>4 DEF Answered
  <2>2. thread_counter' = NextThread(cmd)
      BY <1>1, <1>4
  <2>3. CASE cmd = "qf"
    <3>1. NextThread(cmd) = 1 /\ Len(listed) = 0
        BY <1>2, <1>3, <2>3 DEF NextThread
    <3>2. reply' = <<"m", 1>> /\ thread_counter' = 1
        BY <2>1, <2>2, <3>1
    <3>3. reply' \in Answers(ncores, cmd, regs, report)
        BY <1>3, <1>4, <2>3, <3>2 DEF Answers
    <3>4. reply' \in Bodies
        BY <3>2 DEF Bodies
    <3> QED BY <1>3, <1>4, <2>3, <3>1, <3>2, <3>3, <3>4
  <2>4. CASE cmd = "qs" /\ thread_counter < ncores
    <3>1. NextThread(cmd) = thread_counter + 1
        BY <2>4 DEF NextThread
    <3>2. /\ reply' = <<"m", thread_counter'>> /\ thread_counter' = Len(listed) + 1
          /\ thread_counter' \in 1 .. ncores
        BY <1>2, <1>3, <2>1, <2>2, <2>4, <3>1
    <3>3. reply' \in Answers(ncores, cmd, regs, report)
        BY <1>3, <1>4, <2>4, <3>2 DEF Answers
    <3>4. reply' \in Bodies
      <4>1. thread_counter' \in Nat
          BY <1>3, <3>2
      <4> QED BY <3>2, <4>1 DEF Bodies
    <3> QED BY <1>3, <1>4, <2>4, <3>2, <3>3, <3>4
  <2>5. CASE cmd = "qs" /\ ~ (thread_counter < ncores)
    <3>1. NextThread(cmd) = 0
        BY <2>5 DEF NextThread
    <3>2. reply' = <<"l", 0>> /\ thread_counter' = 0 /\ Len(listed) = ncores
        BY <1>2, <1>3, <2>1, <2>2, <2>5, <3>1
    <3>3. reply' \in Answers(ncores, cmd, regs, report)
        BY <1>3, <1>4, <2>5, <3>2 DEF Answers
    <3> QED BY <1>3, <1>4, <2>5, <3>2, <3>3 DEF Bodies
  <2> QED BY <1>4, <2>3, <2>4, <2>5
<1>5. CASE ~ (ncores > 1 /\ cmd \in {"qf", "qs"})
  <2>1. reply' \in Answers(ncores, cmd, regs, report)
      BY <1>1, <1>5 DEF Answered
  <2>2. thread_counter' = Len(listed)
      BY <1>1, <1>2, <1>5 DEF NextThread
  <2>3. CASE cmd = "g"
    <3>1. reply' = <<"regs", regs>>
        BY <2>1, <2>3 DEF Answers
    <3> QED BY <1>3, <1>5, <2>1, <2>2, <2>3, <3>1 DEF Bodies
  <2>4. CASE cmd \in {"G0", "G1", "k", "D"}
    <3>1. reply' = OK
        BY <2>1, <2>4 DEF Answers
    <3> QED BY <1>5, <2>1, <2>2, <2>4, <3>1 DEF Bodies, OK
  <2>5. CASE cmd = "Z"
    <3>1. reply' \in {OK, Error}
        BY <2>1, <2>5 DEF Answers
    <3> QED BY <1>5, <2>1, <2>2, <2>5, <3>1, FixedBodies
  <2>6. CASE cmd = "?"
    <3>1. reply' = report
        BY <2>1, <2>6 DEF Answers
    <3> QED BY <1>2, <1>3, <1>5, <2>1, <2>2, <2>6, <3>1
  <2>7. CASE cmd = "q"
    <3>1. reply' \in {NotSupported, NoAnswer}
        BY <2>1, <2>7 DEF Answers
    <3> QED BY <1>5, <2>1, <2>2, <2>7, <3>1, FixedBodies
  <2>8. CASE cmd \in {"qf", "qs"}
    <3>1. reply' = NotSupported
        BY <1>3, <1>5, <2>1, <2>8 DEF Answers
    <3> QED BY <1>5, <2>1, <2>2, <2>8, <3>1 DEF Bodies, NotSupported
  <2>9. CASE cmd = "c"
    <3>1. reply' = NoAnswer
        BY <2>1, <2>9 DEF Answers
    <3> QED BY <1>5, <2>1, <2>2, <2>9, <3>1 DEF Bodies, NoAnswer
  <2>10. CASE cmd \in {"v", "long"}
    <3>1. reply' = NotSupported
        BY <2>1, <2>10 DEF Answers
    <3> QED BY <1>5, <2>1, <2>2, <2>10, <3>1 DEF Bodies, NotSupported
  <2> QED BY <1>0, <2>3, <2>4, <2>5, <2>6, <2>7, <2>8, <2>9, <2>10 DEF Commands
<1> QED BY <1>4, <1>5

\* A command is obeyed: from now on its answer is what is sent.
LEMMA ObeyInv ==
    ASSUME ProtocolInv, Obey
    PROVE  ProtocolInv'
<1>0. TypeOK /\ InInv /\ OutInv /\ PlaceInv /\ ThreadInv
    BY DEF ProtocolInv
<1>1. pc = "obey" /\ Command = cmd /\ cmd \in Commands
    BY <1>0, CommandIsCmd DEF Obey, TypeOK
<1>2. /\ regs' = Written(cmd, regs) /\ out' = reply' /\ obeyed' = obeyed + 1
      /\ pc' = CASE cmd = "c" -> Resumed
                 [] cmd # "c" /\ reply' = NoAnswer -> "start"
                 [] OTHER -> "send"
      /\ after' = IF cmd = "D" THEN Resumed ELSE "start"
      /\ UNCHANGED <<ncores, in_buffer, fatal, report, closed, toStub, toGdb,
                     asked, answered, heard>>
      /\ UNCHANGED debugger
    BY <1>1 DEF Obey
<1>3. /\ reply' \in Bodies
      /\ cmd = "c" => reply' = NoAnswer
      /\ cmd = "D" => reply' = OK
      /\ IF ncores > 1 /\ cmd \in {"qf", "qs"}
         THEN \/ /\ reply' = <<"m", thread_counter'>> /\ thread_counter' = Len(listed) + 1
                 /\ thread_counter' <= ncores
              \/ reply' = <<"l", 0>> /\ thread_counter' = 0 /\ Len(listed) = ncores
         ELSE thread_counter' = Len(listed) /\ reply'[1] # "m"
    BY <1>0, ObeyAnswers
<1>4. Resumed \in {"exit", "guest"}
    BY DEF Resumed
<1>5. /\ pc' \in {"exit", "guest", "start", "send"}
      /\ pc' \in {"exit", "guest"} => cmd = "c"
      /\ pc' = "send" => reply' # NoAnswer
  <2>1. CASE cmd = "c"
    <3>1. pc' = Resumed
        BY <1>2, <1>3, <2>1
    <3> QED BY <1>4, <2>1, <3>1
  <2>2. CASE cmd # "c" /\ reply' = NoAnswer
      BY <1>2, <2>2
  <2>3. CASE cmd # "c" /\ reply' # NoAnswer
      BY <1>2, <2>3
  <2> QED BY <2>1, <2>2, <2>3
<1>6. /\ ~ Quiet /\ ~ Pending /\ Taken /\ ~ Quiet'
      /\ ~ Pending' /\ Taken' /\ (gone <=> gone')
      /\ asked \in Nat /\ obeyed' = asked
    BY <1>0, <1>1, <1>2, <1>5 DEF TypeOK, PlaceInv, Quiet, Pending, Taken, gone, debugger
<1>7. regs' \in Values
    BY <1>0, <1>2, GdbProtocolAssumption DEF TypeOK, Written
<1>8. TypeOK'
  <2>1. thread_counter' \in Nat
      BY <1>0, <1>3 DEF TypeOK
  <2>2. after' \in {"start", "guest", "exit", "dead"}
      BY <1>2, <1>4
  <2>3. obeyed' \in answered .. asked
      BY <1>0, <1>6 DEF TypeOK
  <2> QED BY <1>0, <1>2, <1>3, <1>5, <1>7, <2>1, <2>2, <2>3 DEF TypeOK, debugger
<1>9. InInv'
    BY <1>0, <1>1, <1>2, <1>5, <1>6 DEF InInv, debugger
<1>10. OutInv'
  <2>1. Taken' /\ dbg' = "ack" =>
          \E i \in DOMAIN toGdb' : AckedAt(toGdb', i) /\ Fitting(toGdb', i, cmd', reply')
    <3>1. SUFFICES ASSUME dbg = "ack"
                   PROVE  \E i \in DOMAIN toGdb :
                              AckedAt(toGdb, i) /\ Fitting(toGdb, i, cmd', reply')
        BY <1>2 DEF debugger
    <3>2. PICK i \in DOMAIN toGdb : AckedAt(toGdb, i) /\ i = Len(toGdb)
        BY <1>0, <1>1, <1>6, <3>1 DEF OutInv
    <3>3. toGdb \in Seq(Messages) /\ \A j \in DOMAIN toGdb : ~ (Len(toGdb) < j)
        BY <1>0 DEF TypeOK
    <3> QED BY <3>2, <3>3 DEF Fitting
  <2>2. Taken' /\ dbg' \in {"reply", "running"} =>
           Frames(toGdb') /\ Fitting(toGdb', 0, cmd', reply')
    <3>1. SUFFICES ASSUME dbg \in {"reply", "running"}
                   PROVE  Frames(toGdb) /\ Fitting(toGdb, 0, cmd', reply')
        BY <1>2 DEF debugger
    <3>2. toGdb = <<>>
        BY <1>0, <1>1, <1>6, <3>1 DEF OutInv
    <3> QED BY <3>2 DEF Frames, Fitting
  <2> QED BY <1>5, <1>6, <2>1, <2>2 DEF OutInv
<1>11. PlaceInv'
  <2>1. cmd' = cmd /\ dbg' = dbg /\ asked' = asked /\ closed' = closed
      BY <1>2 DEF debugger
  <2>2. Sending' => pc' = "send" /\ Fits(out', cmd', reply')
      BY <1>2, <1>5 DEF Sending, Fits
  <2>3. /\ pc' = "guest" => cmd \in Resumes /\ obeyed' = asked
        /\ Sending' /\ after' = "guest" => cmd = "D" /\ obeyed' = asked
      BY <1>2, <1>5, <1>6 DEF Resumes
  <2>4. Leaves' /\ cmd # "D" => cmd = "c" /\ reply' = NoAnswer /\ pc' \in {"guest", "exit"}
      BY <1>2, <1>3, <1>5, <2>2 DEF Leaves
  <2> QED BY <1>0, <1>1, <1>3, <1>5, <1>6, <2>1, <2>2, <2>3, <2>4 DEF PlaceInv
<1>12. ThreadInv'
  <2>1. listed' = listed /\ cmd' = cmd /\ ncores' = ncores /\ report' = report
      BY <1>2 DEF debugger
  <2> QED BY <1>0, <1>3, <1>5, <1>6, <2>1 DEF ThreadInv
<1> QED BY <1>8, <1>9, <1>10, <1>11, <1>12 DEF ProtocolInv

\* A report is neither silence nor "OK".
LEMMA AnswersDiffer ==
    /\ OK # NoAnswer /\ Exited # NoAnswer /\ Exited # OK
    /\ \A n : Signal(n) # NoAnswer /\ Signal(n) # OK
<1>1. OK # NoAnswer
    BY DEF OK, NoAnswer
<1>2. Exited # NoAnswer /\ Exited # OK
    BY DEF OK, NoAnswer, Exited
<1>3. \A n : Signal(n) # NoAnswer /\ Signal(n) # OK
    BY DEF OK, NoAnswer, Signal
<1> QED BY <1>1, <1>2, <1>3

\* A stop or an end of the guest becomes the answer to the command that let it run,
\* and only to that.
LEMMA GuestReports ==
    ASSUME ProtocolInv, NEW r \in Bodies, r # NoAnswer, r # OK, r[1] # "m",
           pc \in {"guest", "exit"}, pc' = "send", out' = r, reply' = Reported(r),
           report' \in Bodies, report'[1] # "m", regs' \in Values,
           \/ after' = "start" /\ pc = "guest"
           \/ after' \in {"exit", "dead"} /\ r = Exited,
           UNCHANGED <<ncores, in_buffer, thread_counter, closed, toStub, toGdb>>,
           UNCHANGED debugger, UNCHANGED <<asked, obeyed, answered>>
    PROVE  ProtocolInv'
<1>0. TypeOK /\ InInv /\ OutInv /\ PlaceInv /\ ThreadInv
    BY DEF ProtocolInv
<1>1. /\ (Quiet <=> Quiet') /\ (Pending <=> Pending') /\ (Taken <=> Taken')
      /\ (gone <=> gone') /\ cmd' = cmd /\ dbg' = dbg /\ listed' = listed
    BY DEF Quiet, Pending, Taken, gone, debugger
<1>2. reply' = reply \/ (reply' = r /\ reply = NoAnswer /\ cmd \in Resumes /\ Taken)
    BY <1>0 DEF Reported, Taken, TypeOK
<1>3. TypeOK'
    BY <1>0, <1>1, <1>2 DEF TypeOK
<1>4. InInv'
    BY <1>0, <1>1 DEF InInv
<1>5. OutInv'
  <2>1. \A i : Fitting(toGdb, i, cmd, reply) => Fitting(toGdb, i, cmd', reply')
      BY <1>1, <1>2 DEF Fitting, Fits
  <2> QED BY <1>0, <1>1, <2>1 DEF OutInv
<1>6. PlaceInv'
  <2>1. CASE gone
      BY <1>0, <1>1, <2>1 DEF PlaceInv, Sending, gone
  <2>2. CASE ~ gone
    <3>1. Taken /\ Taken'
        BY <1>0, <1>1, <2>2 DEF PlaceInv, Leaves
    <3>2. CASE cmd = "D"
      <4>1. reply = OK /\ reply' = OK
          BY <1>0, <1>2, <2>2, <3>1, <3>2, AnswersDiffer DEF PlaceInv
      <4>2. Fits(out', cmd', reply')
          BY <1>1, <3>2 DEF Fits
      <4> QED BY <1>0, <1>1, <3>1, <3>2, <4>1, <4>2 DEF PlaceInv, Sending
    <3>3. CASE cmd # "D"
      <4>1. cmd = "c" /\ (reply = NoAnswer \/ (reply = Exited /\ pc = "exit"))
          BY <1>0, <2>2, <3>1, <3>3 DEF PlaceInv, Leaves
      <4>2. obeyed = asked /\ answered < asked
          BY <1>0, <3>1 DEF Taken, TypeOK
      <4>3. reply' = r
          BY <4>1, <4>2, AnswersDiffer DEF Reported, Resumes
      <4>4. Fits(out', cmd', reply')
          BY <4>3 DEF Fits
      <4>5. Leaves' => reply' = Exited
          BY <4>3 DEF Leaves, Sending
      <4> QED BY <1>0, <1>1, <3>1, <3>3, <4>1, <4>4, <4>5 DEF PlaceInv, Sending
    <3> QED BY <3>2, <3>3
  <2> QED BY <2>1, <2>2
<1>7. ThreadInv'
  <2>1. cmd \in Resumes => cmd \notin {"qf", "qs"}
      BY DEF Resumes
  <2> QED BY <1>0, <1>1, <1>2, <2>1 DEF ThreadInv
<1> QED BY <1>3, <1>4, <1>5, <1>6, <1>7 DEF ProtocolInv

\* A stop of the guest answers the command that let it run.
LEMMA GuestStopsInv ==
    ASSUME ProtocolInv, NEW sig \in {GDB_SIGNAL_TRAP, GDB_SIGNAL_SEGV}, GuestStops(sig)
    PROVE  ProtocolInv'
<1>1. sig \in Nat
    BY DEF GDB_SIGNAL_TRAP, GDB_SIGNAL_SEGV
<1> DEFINE r == Signal(sig)
<1>2. r \in Bodies /\ r # NoAnswer /\ r # OK /\ r[1] # "m"
    BY <1>1, FixedBodies, AnswersDiffer
<1>3. /\ pc = "guest" /\ pc' = "send" /\ out' = r /\ report' = r /\ after' = "start"
      /\ reply' = Reported(r) /\ regs' \in Values
      /\ UNCHANGED <<ncores, in_buffer, thread_counter, closed, toStub, toGdb>>
      /\ UNCHANGED debugger /\ UNCHANGED <<asked, obeyed, answered>>
    BY DEF GuestStops, Reported
<1> HIDE DEF r
<1> QED BY <1>2, <1>3, GuestReports

\* So does its end,
LEMMA GuestHaltsInv ==
    ASSUME ProtocolInv, GuestHalts
    PROVE  ProtocolInv'
<1> DEFINE r == Exited
<1>1. r \in Bodies /\ r # NoAnswer /\ r # OK /\ r[1] # "m"
    BY FixedBodies, AnswersDiffer
<1>2. /\ pc = "guest" /\ pc' = "send" /\ out' = r /\ report' = r /\ after' = "exit"
      /\ reply' = Reported(r) /\ regs' \in Values
      /\ UNCHANGED <<ncores, in_buffer, thread_counter, closed, toStub, toGdb>>
      /\ UNCHANGED debugger /\ UNCHANGED <<asked, obeyed, answered>>
    BY DEF GuestHalts, ProtocolInv, TypeOK
<1> QED BY <1>1, <1>2, GuestReports

\* and that of the process.
LEMMA ExitInv ==
    ASSUME ProtocolInv, Exit
    PROVE  ProtocolInv'
<1> DEFINE r == Exited
<1>1. r \in Bodies /\ r # NoAnswer /\ r # OK /\ r[1] # "m"
    BY FixedBodies, AnswersDiffer
<1>2. /\ pc = "exit" /\ pc' = "send" /\ out' = r
      /\ after' = "dead" /\ report' \in {r, report}
      /\ reply' = Reported(r) /\ regs' \in Values
      /\ UNCHANGED <<ncores, in_buffer, thread_counter, closed, toStub, toGdb>>
      /\ UNCHANGED debugger /\ UNCHANGED <<asked, obeyed, answered>>
    BY DEF Exit, ProtocolInv, TypeOK
<1>3. report' \in Bodies /\ report'[1] # "m"
    BY <1>1, <1>2 DEF ProtocolInv, TypeOK, ThreadInv
<1> QED BY <1>1, <1>2, <1>3, GuestReports

\* UHYVE_PORT_EXIT.
LEMMA GuestExitsInv ==
    ASSUME ProtocolInv, GuestExits
    PROVE  ProtocolInv'
<1>0. TypeOK /\ InInv /\ OutInv /\ PlaceInv /\ ThreadInv
    BY DEF ProtocolInv
<1>1. pc = "guest" /\ pc' = "exit"
    BY DEF GuestExits
<1>2. /\ (Quiet <=> Quiet') /\ (Pending <=> Pending') /\ (Taken <=> Taken')
      /\ (gone <=> gone') /\ cmd' = cmd /\ dbg' = dbg /\ listed' = listed /\ reply' = reply
      /\ toStub' = toStub /\ toGdb' = toGdb
    BY <1>1 DEF GuestExits, Quiet, Pending, Taken, gone, history, debugger
<1>3. TypeOK'
    BY <1>0, <1>1 DEF TypeOK, GuestExits, stub, debugger, history
<1>4. InInv'
    BY <1>0, <1>1, <1>2 DEF InInv, GuestExits
<1>5. OutInv'
    BY <1>0, <1>1, <1>2 DEF OutInv
<1>6. PlaceInv'
    BY <1>0, <1>1, <1>2 DEF PlaceInv, GuestExits, Leaves, Sending, stub, history
<1>7. ThreadInv'
    BY <1>0, <1>1, <1>2 DEF ThreadInv, GuestExits, stub, history
<1> QED BY <1>3, <1>4, <1>5, <1>6, <1>7 DEF ProtocolInv

\* A single character of the debugger joins the way to the stub.
LEMMA AnswerIn ==
    ASSUME TypeOK, InInv, NEW x \in {"+", "-", "^C"}, Answer(x),
           pc' = pc, in_buffer' = in_buffer, cmd' = cmd,
           Pending' <=> Pending, ~ (Pending' /\ gone')
    PROVE  /\ toStub' \in Seq(Chars) /\ InInv'
           /\ Without(toStub, "$") => Without(toStub', "$")
<1> DEFINE y == Char(x)
           s == toStub
           u == Append(s, y)
<1>1. y \in Chars /\ y.t = x /\ y.t \notin {"$", "#", "sum"}
    BY DEF Char, Chars, Letters
<1>2. s \in Seq(Chars) /\ toStub' = u
    BY DEF TypeOK, Answer
<1> HIDE DEF y
<1>3. /\ u \in Seq(Chars) /\ Len(s) + 1 \in DOMAIN u /\ Len(s) \in Nat
      /\ \A j \in DOMAIN s : j \in 1 .. Len(s) /\ j \in DOMAIN u /\ u[j] = s[j]
      /\ \A j \in DOMAIN u : (j \in DOMAIN s /\ u[j] = s[j]) \/ (j = Len(s) + 1 /\ u[j] = y)
    BY <1>1, <1>2, AppendOf
<1>4. u # <<>>
    BY <1>2
<1>5. \A i \in Nat : Whole(s, i) => Whole(u, i)
    BY <1>1, <1>2, AppendWhole
<1> HIDE DEF u, s
<1>6. \A t \in {"$", "sum"} : Without(s, t) => Without(u, t)
    BY <1>1, <1>3 DEF Without
<1>7. \A j \in DOMAIN u : u[j].t = "sum" => u[j].of = Body(cmd)
    BY <1>1, <1>3 DEF InInv, s
<1>8. ASSUME pc = "sum", NEW j \in DOMAIN u, NEW k \in DOMAIN u, j < k
      PROVE  u[k].t # "$" /\ (u[j].t = "sum" => u[k].t # "sum")
  <2>1. CASE k = Len(s) + 1 /\ u[k] = y
      BY <1>1, <2>1
  <2>2. CASE k \in DOMAIN s /\ u[k] = s[k]
    <3>1. j \in DOMAIN s /\ u[j] = s[j]
        BY <1>3, <1>8, <2>2
    <3> QED BY <1>8, <2>2, <3>1 DEF InInv, s
  <2> QED BY <1>3, <2>1, <2>2
<1>9. pc \notin {"body", "sum"} => \A i \in DOMAIN u : u[i].t = "$" => Whole(u, i)
    BY <1>1, <1>3, <1>5 DEF InInv, s
<1>10. /\ pc = "body" => Whole(u, 0) /\ Len(in_buffer) < BufMax - 1
       /\ pc = "obey" => in_buffer = Body(cmd)
       /\ ~ Pending => Without(u, "$") /\ Without(u, "sum") /\ pc \notin {"body", "sum"}
    BY <1>5, <1>6 DEF InInv, s
<1>11. InInv'
    BY <1>2, <1>4, <1>7, <1>8, <1>9, <1>10 DEF InInv
<1> QED BY <1>2, <1>3, <1>6, <1>11 DEF s

\* A packet joins it, where none is before it.
LEMMA TransmitIn ==
    ASSUME TypeOK, NEW c \in Commands, Transmit(c),
           pc' = pc, in_buffer' = in_buffer, cmd' = c, Pending', ~ gone',
           Without(toStub, "$"),
           \A j \in DOMAIN toStub : toStub[j].t = "sum" => toStub[j].of = Body(c),
           \/ pc \notin {"body", "sum", "obey"}
           \/ toStub = <<>> /\ pc = "body" /\ Len(in_buffer) < BufMax - 1
    PROVE  toStub' \in Seq(Chars) /\ InInv'
<1>1. PICK p \in Copies(c) : toStub' = toStub \o p
    BY DEF Transmit, Copies
<1>2. /\ p \in Seq(Chars) /\ Whole(p, 0)
      /\ \A j \in DOMAIN p : p[j].t = "sum" => p[j].of = Body(c)
    BY CopyWhole
<1>3. toStub \in Seq(Chars)
    BY DEF TypeOK
<1> DEFINE s == toStub
           u == s \o p
<1>4. /\ u \in Seq(Chars) /\ DOMAIN u = 1 .. Len(s) + Len(p)
      /\ Len(s) \in Nat /\ Len(p) \in Nat /\ DOMAIN s = 1 .. Len(s)
      /\ DOMAIN p = 1 .. Len(p)
      /\ \A i \in 1 .. Len(s) : u[i] = s[i]
      /\ \A i \in Len(s) + 1 .. Len(s) + Len(p) : u[i] = p[i - Len(s)]
    BY <1>2, <1>3, Joined
<1>5. \A i \in DOMAIN u : u[i].t = "$" => Whole(u, i)
    BY <1>2, <1>3, ConcatWhole
<1>6. s = <<>> => u = p
    BY <1>2
<1> HIDE DEF s, u
<1>7. ASSUME NEW j \in DOMAIN u, u[j].t = "sum"
      PROVE  u[j].of = Body(c)
  <2>1. CASE j \in 1 .. Len(s)
      BY <1>4, <1>7, <2>1 DEF s
  <2>2. CASE j \notin 1 .. Len(s)
    <3>1. j \in Len(s) + 1 .. Len(s) + Len(p) /\ j - Len(s) \in DOMAIN p
        BY <1>4, <2>2
    <3> QED BY <1>2, <1>4, <1>7, <3>1
  <2> QED BY <2>1, <2>2
<1>8. toStub' = u
    BY <1>1 DEF u, s
<1>9. pc = "body" => Whole(u, 0) /\ Len(in_buffer) < BufMax - 1
    BY <1>2, <1>6 DEF s
<1>10. InInv'
    BY <1>5, <1>7, <1>8, <1>9 DEF InInv
<1> QED BY <1>4, <1>8, <1>10

\* The debugger asks when nothing is under way.
LEMMA AskInv ==
    ASSUME ProtocolInv, NEW c \in Commands, Ask(c)
    PROVE  ProtocolInv'
<1>0. TypeOK /\ InInv /\ OutInv /\ PlaceInv /\ ThreadInv
    BY DEF ProtocolInv
<1>1. /\ dbg = "idle" /\ dbg' = "ack" /\ cmd' = c /\ asked' = asked + 1 /\ pc' = pc
      /\ (listed # <<>> <=> c = "qs") /\ listed' = listed /\ toGdb' = toGdb
      /\ UNCHANGED stub /\ UNCHANGED <<ncores, obeyed, answered, reply>> /\ Transmit(c)
    BY DEF Ask
<1>2. /\ Quiet /\ ~ Pending /\ ~ Taken /\ ~ Quiet' /\ Pending'
      /\ ~ Taken' /\ ~ gone /\ ~ gone'
    BY <1>0, <1>1 DEF TypeOK, PlaceInv, Quiet, Pending, Taken, gone
<1>3. /\ Without(toStub, "$") /\ pc \notin {"body", "sum", "obey"} /\ in_buffer' = in_buffer
      /\ \A j \in DOMAIN toStub : toStub[j].t = "sum" => toStub[j].of = Body(c)
    BY <1>0, <1>1, <1>2 DEF InInv, Without, Quiet, stub
<1>4. toStub' \in Seq(Chars) /\ InInv'
    BY <1>0, <1>1, <1>2, <1>3, TransmitIn
<1>5. TypeOK'
    BY <1>0, <1>1, <1>2, <1>4 DEF TypeOK, stub, Quiet
<1>6. OutInv'
    BY <1>0, <1>1, <1>2 DEF OutInv
<1>7. PlaceInv'
    BY <1>0, <1>1, <1>2, <1>3 DEF PlaceInv, Leaves, Sending, stub
<1>8. ThreadInv'
    BY <1>0, <1>1, <1>2 DEF ThreadInv, stub
<1> QED BY <1>4, <1>5, <1>6, <1>7, <1>8 DEF ProtocolInv

\* A '^C' is no packet.
LEMMA InterruptInv ==
    ASSUME ProtocolInv, Interrupt
    PROVE  ProtocolInv'
<1>0. TypeOK /\ InInv /\ OutInv /\ PlaceInv /\ ThreadInv
    BY DEF ProtocolInv
<1>1. /\ dbg = "running" /\ pc' = pc /\ toGdb' = toGdb /\ Answer("^C") /\ ncores' = ncores
      /\ UNCHANGED stub /\ UNCHANGED debugger /\ UNCHANGED history
    BY DEF Interrupt
<1>2. /\ (Quiet <=> Quiet') /\ (Pending <=> Pending') /\ (Taken <=> Taken')
      /\ (gone <=> gone') /\ cmd' = cmd /\ dbg' = dbg /\ in_buffer' = in_buffer
      /\ ~ gone
    BY <1>1 DEF Quiet, Pending, Taken, gone, history, debugger, stub
<1>3. toStub' \in Seq(Chars) /\ InInv'
    BY <1>0, <1>1, <1>2, AnswerIn
<1>4. TypeOK'
    BY <1>0, <1>1, <1>3 DEF TypeOK, stub, debugger, history
<1>5. Taken /\ ~ Pending /\ ~ Quiet
    BY <1>0, <1>1 DEF PlaceInv, TypeOK, Taken, Pending, Quiet
<1>6. OutInv'
    BY <1>0, <1>1, <1>2, <1>5 DEF OutInv, history
<1>7. PlaceInv'
    BY <1>0, <1>1, <1>2 DEF PlaceInv, Leaves, Sending, stub, history
<1>8. ThreadInv'
    BY <1>0, <1>1, <1>2 DEF ThreadInv, stub, history, debugger
<1> QED BY <1>3, <1>4, <1>6, <1>7, <1>8 DEF ProtocolInv

\* The debugger leaves.
LEMMA CloseInv ==
    ASSUME ProtocolInv, Close
    PROVE  ProtocolInv'
<1>0. TypeOK /\ InInv /\ OutInv /\ PlaceInv /\ ThreadInv
    BY DEF ProtocolInv
<1>1. /\ dbg \in {"idle", "running"} /\ dbg' = "gone" /\ pc' = pc /\ toGdb' = toGdb
      /\ toStub' = toStub /\ cmd' = cmd /\ listed' = listed /\ ncores' = ncores
      /\ UNCHANGED stub /\ UNCHANGED history
    BY DEF Close
<1>2. /\ (Quiet <=> Quiet') /\ (Pending <=> Pending') /\ (Taken <=> Taken')
      /\ ~ gone /\ gone' /\ ~ Pending
    BY <1>0, <1>1 DEF PlaceInv, TypeOK, Quiet, Pending, Taken, gone, history
<1>3. InInv'
    BY <1>0, <1>1, <1>2 DEF InInv, stub
<1>4. TypeOK'
    BY <1>0, <1>1 DEF TypeOK, stub, history
<1>5. OutInv'
    BY <1>1, <1>2 DEF OutInv
<1>6. PlaceInv'
    BY <1>0, <1>1, <1>2 DEF PlaceInv, Sending, stub, history
<1>7. ThreadInv'
    BY <1>0, <1>1, <1>2 DEF ThreadInv, stub, history
<1> QED BY <1>3, <1>4, <1>5, <1>6, <1>7 DEF ProtocolInv

\* The '+' is for the last command; after a '-' nothing of the packet is left on
\* the line, so it can be sent again.
LEMMA DbgAckInv ==
    ASSUME ProtocolInv, DbgAck
    PROVE  ProtocolInv'
<1>0. TypeOK /\ InInv /\ OutInv /\ PlaceInv /\ ThreadInv
    BY DEF ProtocolInv
<1>1. /\ dbg = "ack" /\ toGdb # <<>> /\ toGdb' = Tail(toGdb) /\ pc' = pc /\ cmd' = cmd
      /\ listed' = listed /\ ncores' = ncores /\ UNCHANGED stub /\ UNCHANGED history
    BY DEF DbgAck
<1> DEFINE h == Head(toGdb).t
           q == toGdb
           u == Tail(toGdb)
<1>2. /\ h = "+" => /\ dbg' \in {"running", "gone", "reply"} /\ toStub' = toStub
      /\ h = "-" => Transmit(cmd) /\ dbg' = dbg
      /\ h \notin {"+", "-"} => Answer("+") /\ dbg' = dbg
  <2>1. CASE h = "+"
      BY <2>1 DEF DbgAck
  <2>2. CASE h = "-"
      BY <2>2 DEF DbgAck
  <2>3. CASE h \notin {"+", "-"}
      BY <2>3 DEF DbgAck
  <2> QED BY <2>1, <2>2, <2>3
<1>3. /\ (Quiet <=> Quiet') /\ (Pending <=> Pending') /\ (Taken <=> Taken')
      /\ ~ gone /\ ~ closed /\ ~ closed' /\ ~ Quiet
      /\ ~ (Pending /\ Taken) /\ (Pending \/ Taken)
      /\ in_buffer' = in_buffer /\ reply' = reply
    BY <1>0, <1>1 DEF PlaceInv, TypeOK, Quiet, Pending, Taken, gone, history, stub
<1>4. q \in Seq(Messages) /\ q # <<>> /\ h = q[1].t /\ u \in Seq(Messages)
    BY <1>0, <1>1, TailOf DEF TypeOK
<1>5. /\ Frames(q) => q[1].t = "frame" /\ Frames(u)
      /\ Rejected(q) =>
            \/ q[1].t = "frame" /\ Rejected(u)
            \/ q[1].t = "-" /\ u = <<>>
      /\ \A i \in Nat : AckedAt(q, i) =>
            \/ i = 1 /\ q[1].t = "+" /\ Frames(u)
            \/ q[1].t = "frame" /\ AckedAt(u, i - 1)
      /\ \A i \in Nat \ {0} : \A c, r :
            Fitting(q, i, c, r) => Fitting(u, i - 1, c, r)
    BY <1>4, QueueTail
<1>6. \A i : AckedAt(u, i) => i \in DOMAIN u
    BY DEF AckedAt
<1>7. Len(u) = Len(q) - 1 /\ Len(q) \in Nat \ {0} /\ DOMAIN q = 1 .. Len(q)
    BY <1>4
<1> HIDE DEF h, q, u
<1>8. toGdb = q /\ toGdb' = u
    BY <1>1 DEF q, u
<1>9. Pending => \/ Frames(u) /\ h = "frame"
                 \/ /\ pc = "start" /\ Without(toStub, "$")
                    /\ (h = "frame" /\ Rejected(u)) \/ (h = "-" /\ u = <<>>)
    BY <1>0, <1>3, <1>4, <1>5, <1>8 DEF OutInv
<1>10. ASSUME Taken
       PROVE  \/ /\ h = "+" /\ Frames(u)
                 /\ IF pc = "obey" THEN u = <<>> ELSE Fitting(u, 0, cmd, reply)
              \/ /\ h = "frame"
                 /\ \E i \in DOMAIN u :
                       /\ AckedAt(u, i)
                       /\ IF pc = "obey" THEN i = Len(u) ELSE Fitting(u, i, cmd, reply)
  <2>1. PICK i \in DOMAIN q : /\ AckedAt(q, i)
                              /\ IF pc = "obey" THEN i = Len(q) ELSE Fitting(q, i, cmd, reply)
      BY <1>0, <1>1, <1>8, <1>10 DEF OutInv
  <2>2. i \in Nat \ {0} /\ i \in 1 .. Len(q)
      BY <1>7, <2>1
  <2>3. IF pc = "obey" THEN i - 1 = Len(u) ELSE Fitting(u, i - 1, cmd, reply)
      BY <1>5, <1>7, <2>1, <2>2
  <2>4. CASE i = 1 /\ q[1].t = "+" /\ Frames(u)
    <3>1. Len(u) = 0 => u = <<>>
        BY <1>4, EmptySeq
    <3> QED BY <1>4, <2>3, <2>4, <3>1
  <2>5. CASE q[1].t = "frame" /\ AckedAt(u, i - 1)
      BY <1>4, <1>6, <2>3, <2>5
  <2> QED BY <1>5, <2>1, <2>2, <2>4, <2>5
<1>11. /\ toStub' \in Seq(Chars) /\ InInv'
       /\ (Without(toStub, "$") /\ h # "-" => Without(toStub', "$"))
  <2>1. CASE h = "+"
    <3>1. ~ Pending
        BY <1>9, <2>1
    <3> QED BY <1>0, <1>1, <1>2, <1>3, <2>1, <3>1 DEF InInv, TypeOK
  <2>2. CASE h = "-"
    <3>1. Pending /\ pc = "start" /\ Without(toStub, "$") /\ cmd \in Commands /\ ~ gone'
        BY <1>0, <1>2, <1>3, <1>9, <1>10, <2>2 DEF TypeOK, gone
    <3>2. \A j \in DOMAIN toStub : toStub[j].t = "sum" => toStub[j].of = Body(cmd)
        BY <1>0 DEF InInv
    <3> QED BY <1>0, <1>1, <1>2, <1>3, <2>2, <3>1, <3>2, TransmitIn
  <2>3. CASE h \notin {"+", "-"}
    <3>1. ~ gone' /\ Answer("+")
        BY <1>2, <1>3, <2>3 DEF gone
    <3> QED BY <1>0, <1>1, <1>3, <3>1, AnswerIn
  <2> QED BY <2>1, <2>2, <2>3
<1>12. h = "+" \/ (dbg' = "ack" /\ h # "+")
    BY <1>1, <1>2
<1>13. TypeOK'
    BY <1>0, <1>1, <1>2, <1>4, <1>8, <1>11, <1>12 DEF TypeOK, stub, history
<1>14. OutInv'
  <2>1. CASE h = "+"
    <3>1. Taken' /\ ~ Pending' /\ dbg' # "ack"
        BY <1>2, <1>3, <1>9, <2>1
    <3> QED BY <1>1, <1>3, <1>8, <1>10, <2>1, <3>1 DEF OutInv
  <2>2. CASE h # "+"
    <3>1. dbg' = "ack"
        BY <1>12, <2>2
    <3>2. Pending => Frames(u) \/ (Rejected(u) /\ pc = "start" /\ Without(toStub', "$"))
      <4>1. u = <<>> => Frames(u)
          BY DEF Frames
      <4> QED BY <1>9, <1>11, <4>1
    <3> QED BY <1>1, <1>3, <1>8, <1>10, <2>2, <3>1, <3>2 DEF OutInv
  <2> QED BY <2>1, <2>2
<1>15. PlaceInv'
  <2>1. h = "+" => Taken
      BY <1>3, <1>9
  <2> QED BY <1>0, <1>1, <1>2, <1>3, <1>12, <2>1
             DEF PlaceInv, Leaves, Sending, gone, stub, history
<1>16. ThreadInv'
    BY <1>0, <1>1, <1>3 DEF ThreadInv, stub, history
<1> QED BY <1>11, <1>13, <1>14, <1>15, <1>16 DEF ProtocolInv

\* Silence: the line is empty, so the packet can be sent again.
LEMMA TimeoutInv ==
    ASSUME ProtocolInv, Timeout
    PROVE  ProtocolInv'
<1>0. TypeOK /\ InInv /\ OutInv /\ PlaceInv /\ ThreadInv
    BY DEF ProtocolInv
<1>1. /\ dbg \in {"ack", "reply"} /\ toGdb = <<>> /\ toStub = <<>>
      /\ pc \in {"ack", "start", "body", "sum"}
      /\ toGdb' = toGdb /\ pc' = pc /\ cmd' = cmd
      /\ listed' = listed /\ ncores' = ncores /\ UNCHANGED stub /\ UNCHANGED history
    BY DEF Timeout, Silence
<1>2. \/ dbg = "ack" /\ Transmit(cmd) /\ dbg' = dbg
      \/ dbg = "reply" /\ Answer("-") /\ dbg' = dbg
      \/ dbg' = "lost" /\ toStub' = toStub
    BY <1>1 DEF Timeout
<1>3. /\ (Quiet <=> Quiet') /\ (Pending <=> Pending') /\ (Taken <=> Taken')
      /\ ~ gone /\ ~ closed /\ ~ closed' /\ ~ Quiet
      /\ ~ (Pending /\ Taken) /\ (Pending \/ Taken)
      /\ in_buffer' = in_buffer /\ reply' = reply
    BY <1>0, <1>1 DEF PlaceInv, TypeOK, Quiet, Pending, Taken, gone, history, stub
<1>4. Frames(toGdb) /\ Without(toStub, "$") /\ \A i, c, r : Fitting(toGdb, i, c, r)
    BY <1>1 DEF Frames, Without, Fitting
<1>5. dbg = "ack" => Pending
    BY <1>0, <1>1, <1>3 DEF OutInv
<1>6. pc # "sum" /\ (pc = "body" => Len(in_buffer) < BufMax - 1)
    BY <1>0, <1>1 DEF InInv
<1>7. toStub' \in Seq(Chars) /\ InInv'
  <2>1. CASE dbg = "ack" /\ Transmit(cmd) /\ dbg' = dbg
    <3>1. ~ gone' /\ cmd \in Commands
        BY <1>0, <1>3, <2>1 DEF gone, TypeOK
    <3>2. \A j \in DOMAIN toStub : toStub[j].t = "sum" => toStub[j].of = Body(cmd)
        BY <1>0 DEF InInv
    <3> QED BY <1>0, <1>1, <1>3, <1>4, <1>5, <1>6, <2>1, <3>1, <3>2, TransmitIn
  <2>2. CASE dbg = "reply" /\ Answer("-") /\ dbg' = dbg
    <3>1. ~ gone'
        BY <1>3, <2>2 DEF gone
    <3> QED BY <1>0, <1>1, <1>3, <2>2, <3>1, AnswerIn
  <2>3. CASE dbg' = "lost" /\ toStub' = toStub
      BY <1>0, <1>1, <1>3, <2>3 DEF InInv, TypeOK
  <2> QED BY <1>2, <2>1, <2>2, <2>3
<1>8. dbg' \in {dbg, "lost"}
    BY <1>2
<1>9. TypeOK'
    BY <1>0, <1>1, <1>7, <1>8 DEF TypeOK, stub, history
<1>10. OutInv'
    BY <1>0, <1>1, <1>3, <1>4, <1>5, <1>8 DEF OutInv
<1>11. PlaceInv'
    BY <1>0, <1>1, <1>3, <1>8 DEF PlaceInv, Leaves, Sending, gone, stub, history
<1>12. ThreadInv'
    BY <1>0, <1>1, <1>3 DEF ThreadInv, stub, history
<1> QED BY <1>7, <1>9, <1>10, <1>11, <1>12 DEF ProtocolInv

\* A frame that is taken for the answer is the answer.
LEMMA DbgReplyCases ==
    ASSUME ProtocolInv, DbgReply
    PROVE  LET f == Head(toGdb)
           IN  /\ Taken /\ pc # "obey" /\ toGdb \in Seq(Messages) /\ toGdb # <<>>
               /\ Frames(Tail(toGdb)) /\ Fitting(Tail(toGdb), 0, cmd, reply)
               /\ Tail(toGdb) \in Seq(Messages)
               /\ \/ Answer("-") /\ UNCHANGED <<dbg, listed, answered, heard>>
                  \/ dbg' = "gone" /\ UNCHANGED <<toStub, listed, answered, heard>>
                  \/ /\ f.body = reply /\ reply # NoAnswer
                     /\ Answer("+") /\ answered' = asked /\ heard' = reply
                     /\ dbg' = IF reply = Exited \/ cmd = "D" THEN "gone" ELSE "idle"
                     /\ listed' = IF reply[1] = "m" THEN Append(listed, reply[2]) ELSE <<>>
<1>0. TypeOK /\ InInv /\ OutInv /\ PlaceInv /\ ThreadInv
    BY DEF ProtocolInv
<1> DEFINE f == Head(toGdb)
           q == toGdb
           u == Tail(q)
<1>1. dbg \in {"reply", "running"} /\ q # <<>>
    BY DEF DbgReply
<1>2. q \in Seq(Messages) /\ u \in Seq(Messages) /\ f = q[1] /\ 1 \in DOMAIN q
    BY <1>0, <1>1, TailOf DEF TypeOK
<1>3. Taken /\ Frames(q) /\ pc # "obey" /\ Fitting(q, 0, cmd, reply)
    BY <1>0, <1>1 DEF PlaceInv, OutInv
<1>4. f.t = "frame" /\ Frames(u) /\ Fits(f.body, cmd, reply) /\ Fitting(u, 0, cmd, reply)
    BY <1>1, <1>2, <1>3, QueueTail
<1> DEFINE A == ~ f.intact
           B == f.intact /\ cmd = "D" /\ f.body # OK
<1>5. CASE A
    BY <1>1, <1>2, <1>3, <1>4, <1>5 DEF DbgReply
<1>6. CASE B
    BY <1>1, <1>2, <1>3, <1>4, <1>6 DEF DbgReply
<1>7. CASE ~ A /\ ~ B
  <2>1. f.body = reply /\ reply # NoAnswer
      BY <1>4, <1>7 DEF Fits
  <2>2. /\ Answer("+") /\ answered' = asked /\ heard' = f.body
        /\ dbg' = IF f.body = Exited \/ cmd = "D" THEN "gone" ELSE "idle"
        /\ listed' = IF f.body[1] = "m" THEN Append(listed, f.body[2]) ELSE <<>>
      BY <1>4, <1>7 DEF DbgReply
  <2> QED BY <1>1, <1>2, <1>3, <1>4, <2>1, <2>2
<1> QED BY <1>5, <1>6, <1>7

\* The enumeration of the threads goes on by one, or ends complete.
LEMMA ListedNext ==
    ASSUME TypeOK, ThreadInv, Taken, pc # "obey",
           listed' = IF reply[1] = "m" THEN Append(listed, reply[2]) ELSE <<>>
    PROVE  /\ listed' \in Seq(Nat) /\ listed' = [i \in 1 .. Len(listed') |-> i]
           /\ Len(listed') <= ncores /\ (ncores = 1 => listed' = <<>>)
           /\ thread_counter = Len(listed')
           /\ listed # <<>> /\ listed' = <<>> => listed = [i \in 1 .. ncores |-> i]
<1>1. /\ listed \in Seq(Nat) /\ Len(listed) \in Nat
      /\ ncores \in Nat \ {0} /\ thread_counter \in Nat
      /\ listed = [i \in 1 .. Len(listed) |-> i] /\ Len(listed) <= ncores
      /\ (ncores = 1 => listed = <<>>) /\ (listed # <<>> <=> cmd = "qs")
  <2>1. ~ Quiet
      BY DEF TypeOK, Taken, Quiet
  <2>2. /\ listed \in Seq(Nat) /\ Len(listed) \in Nat /\ ncores \in Nat \ {0}
        /\ thread_counter \in Nat
      BY DEF TypeOK
  <2> QED BY <2>1, <2>2 DEF ThreadInv
<1> DEFINE E == ncores > 1 /\ cmd \in {"qf", "qs"}
<1>2. CASE /\ E /\ reply = <<"m", thread_counter>> /\ thread_counter = Len(listed) + 1
           /\ thread_counter <= ncores
  <2>1. listed' = Append(listed, thread_counter)
      BY <1>2
  <2>2. /\ listed' \in Seq(Nat) /\ Len(listed') = Len(listed) + 1 /\ listed' # <<>>
        /\ DOMAIN listed' = 1 .. Len(listed) + 1
        /\ \A i \in 1 .. Len(listed) : listed'[i] = listed[i]
        /\ listed'[Len(listed) + 1] = thread_counter
      BY <1>1, <2>1
  <2>3. \A i \in 1 .. Len(listed) + 1 : listed'[i] = i
    <3>1. \A i \in 1 .. Len(listed) : listed[i] = i
        BY <1>1
    <3> QED BY <1>1, <1>2, <2>2, <3>1
  <2>4. listed' = [i \in 1 .. Len(listed') |-> i]
      BY <1>1, <2>2, <2>3
  <2>5. Len(listed') <= ncores /\ thread_counter = Len(listed') /\ ncores # 1
      BY <1>1, <1>2, <2>2
  <2> HIDE DEF E
  <2> QED BY <2>2, <2>4, <2>5
<1>3. CASE E /\ reply = <<"l", 0>> /\ thread_counter = 0 /\ Len(listed) = ncores
  <2>1. listed' = <<>>
      BY <1>3
  <2>2. <<>> \in Seq(Nat) /\ Len(<<>>) = 0 /\ <<>> = [i \in 1 .. 0 |-> i]
      OBVIOUS
  <2> QED BY <1>1, <1>3, <2>1, <2>2
<1>4. CASE ~ E
  <2>1. thread_counter = Len(listed) /\ reply[1] # "m"
      BY <1>4 DEF ThreadInv
  <2>2. listed' = <<>> /\ listed = <<>>
      BY <1>1, <1>4, <2>1
  <2>3. <<>> \in Seq(Nat) /\ Len(<<>>) = 0 /\ <<>> = [i \in 1 .. 0 |-> i]
      OBVIOUS
  <2> QED BY <1>1, <2>1, <2>2, <2>3
<1> QED BY <1>2, <1>3, <1>4 DEF ThreadInv

\* The debugger hears the answer: nothing is under way any more.
LEMMA DbgReplyInv ==
    ASSUME ProtocolInv, DbgReply
    PROVE  ProtocolInv'
<1>0. TypeOK /\ InInv /\ OutInv /\ PlaceInv /\ ThreadInv
    BY DEF ProtocolInv
<1> DEFINE q == toGdb
           u == Tail(q)
           f == Head(q)
           A == Answer("-") /\ UNCHANGED <<dbg, listed, answered, heard>>
           B == dbg' = "gone" /\ UNCHANGED <<toStub, listed, answered, heard>>
           C == /\ f.body = reply /\ reply # NoAnswer
                /\ Answer("+") /\ answered' = asked /\ heard' = reply
                /\ dbg' = IF reply = Exited \/ cmd = "D" THEN "gone" ELSE "idle"
                /\ listed' = IF reply[1] = "m" THEN Append(listed, reply[2]) ELSE <<>>
<1>1. /\ Taken /\ pc # "obey" /\ Frames(u)
      /\ Fitting(u, 0, cmd, reply) /\ u \in Seq(Messages)
      /\ A \/ B \/ C
    BY DbgReplyCases
<1>2. /\ dbg \in {"reply", "running"} /\ toGdb' = u /\ pc' = pc
      /\ cmd' = cmd /\ ncores' = ncores
      /\ UNCHANGED stub /\ asked' = asked /\ obeyed' = obeyed /\ reply' = reply
    BY DEF DbgReply
<1>3. /\ ~ Pending /\ ~ Quiet /\ obeyed = asked /\ ~ gone /\ ~ closed
      /\ ~ closed' /\ in_buffer' = in_buffer
      /\ pc' # "obey" /\ asked = answered + 1 /\ answered \in Nat
    BY <1>0, <1>1, <1>2 DEF TypeOK, PlaceInv, Taken, Pending, Quiet, gone, stub
<1> HIDE DEF u
<1>4. CASE A
  <2>1. /\ (Quiet <=> Quiet') /\ (Pending <=> Pending') /\ (Taken <=> Taken')
        /\ (gone <=> gone') /\ dbg' = dbg
      BY <1>2, <1>4 DEF Quiet, Pending, Taken, gone
  <2>2. toStub' \in Seq(Chars) /\ InInv'
      BY <1>0, <1>2, <1>3, <1>4, <2>1, AnswerIn
  <2>3. TypeOK'
      BY <1>0, <1>1, <1>2, <1>4, <2>2 DEF TypeOK, stub
  <2>4. OutInv'
      BY <1>1, <1>2, <1>3, <2>1 DEF OutInv
  <2>5. PlaceInv'
      BY <1>0, <1>2, <2>1 DEF PlaceInv, Leaves, Sending, stub
  <2>6. ThreadInv'
      BY <1>0, <1>2, <1>4, <2>1 DEF ThreadInv, stub
  <2> QED BY <2>2, <2>3, <2>4, <2>5, <2>6 DEF ProtocolInv
<1>5. CASE B
  <2>1. /\ (Quiet <=> Quiet') /\ (Pending <=> Pending')
        /\ (Taken <=> Taken') /\ gone' /\ dbg' = "gone"
      BY <1>2, <1>5 DEF Quiet, Pending, Taken, gone
  <2>2. InInv'
      BY <1>0, <1>2, <1>3, <1>5, <2>1 DEF InInv
  <2>3. TypeOK'
      BY <1>0, <1>1, <1>2, <1>5 DEF TypeOK, stub
  <2>4. OutInv'
      BY <2>1 DEF OutInv
  <2>5. PlaceInv'
      BY <1>0, <1>2, <2>1 DEF PlaceInv, Sending, stub
  <2>6. ThreadInv'
      BY <1>0, <1>2, <1>5, <2>1 DEF ThreadInv, stub
  <2> QED BY <2>2, <2>3, <2>4, <2>5, <2>6 DEF ProtocolInv
<1>6. CASE C
  <2>1. Quiet' /\ ~ Pending' /\ ~ Taken'
      BY <1>2, <1>3, <1>6 DEF Quiet, Pending, Taken
  <2>2. toStub' \in Seq(Chars) /\ InInv'
      BY <1>0, <1>2, <1>3, <1>6, <2>1, AnswerIn
  <2>3. /\ listed' \in Seq(Nat) /\ listed' = [i \in 1 .. Len(listed') |-> i]
        /\ Len(listed') <= ncores /\ (ncores = 1 => listed' = <<>>)
        /\ thread_counter = Len(listed')
      BY <1>0, <1>1, <1>6, ListedNext
  <2>4. dbg' \in {"gone", "idle"}
      BY <1>6
  <2>5. TypeOK'
      BY <1>0, <1>1, <1>2, <1>3, <1>6, <2>2, <2>3, <2>4 DEF TypeOK, stub
  <2>6. OutInv'
      BY <1>1, <1>2, <2>1, <2>4 DEF OutInv
  <2>7. PlaceInv'
    <3>1. ~ gone' => reply # Exited /\ cmd # "D"
        BY <1>6 DEF gone
    <3>2. ~ gone' => ~ Leaves
        BY <1>0, <1>1, <1>3, <1>6, <3>1 DEF PlaceInv
    <3>3. Leaves' <=> Leaves
        BY <1>2 DEF Leaves, Sending, stub
    <3> QED BY <1>0, <1>2, <1>3, <2>1, <2>4, <3>2, <3>3 DEF PlaceInv, Sending, stub
  <2>8. ThreadInv'
      BY <1>0, <1>2, <2>1, <2>3 DEF ThreadInv, stub
  <2> QED BY <2>2, <2>5, <2>6, <2>7, <2>8 DEF ProtocolInv
<1> QED BY <1>1, <1>4, <1>5, <1>6

-----------------------------------------------------------------------------
(* The protocol: the theorems. *)

\* Nothing is on the line when the guest stops for the first time.
LEMMA ProtocolInit ==
    Init => ProtocolInv
<1> SUFFICES ASSUME Init
             PROVE  ProtocolInv
    OBVIOUS
<1>1. TypeOK
  <2>1. out \in Bodies /\ report \in Bodies /\ reply \in Bodies
      BY FixedBodies DEF Init, GDB_SIGNAL_FIRST
  <2>2. in_buffer \in Seq(Letters) /\ Len(in_buffer) < BufMax
      BY GdbProtocolAssumption DEF Init
  <2>3. toStub \in Seq(Chars) /\ toGdb \in Seq(Messages) /\ listed \in Seq(Nat)
      BY DEF Init
  <2>4. ncores \in Nat \ {0} /\ thread_counter \in Nat /\ answered \in Nat
        /\ asked \in {answered, answered + 1} /\ obeyed \in answered .. asked
      BY GdbProtocolAssumption DEF Init
  <2>5. cmd \in Commands /\ regs \in Values
      BY DEF Init, Commands
  <2> QED BY <2>1, <2>2, <2>3, <2>4, <2>5 DEF Init, TypeOK
<1>2. Quiet /\ ~ Pending /\ ~ Taken
    BY DEF Init, Quiet, Pending, Taken
<1>3. InInv
    BY <1>2 DEF Init, InInv, Without
<1>4. OutInv
    BY <1>2 DEF Init, OutInv, Frames
<1>5. PlaceInv
    BY <1>2 DEF Init, PlaceInv, Leaves, Sending, gone
<1>6. ThreadInv
  <2>1. /\ listed = <<>> /\ Len(listed) = 0
        /\ listed = [i \in 1 .. 0 |-> i] /\ thread_counter = 0
      BY DEF Init
  <2>2. report[1] # "m"
      BY FixedBodies DEF Init, GDB_SIGNAL_FIRST
  <2> QED BY <1>1, <1>2, <2>1, <2>2 DEF ThreadInv, TypeOK
<1> QED BY <1>1, <1>3, <1>4, <1>5, <1>6 DEF ProtocolInv

\* Every step leaves the connection in order.
LEMMA ProtocolStep ==
    ASSUME ProtocolInv, [Next]_vars
    PROVE  ProtocolInv'
<1>1. CASE Connect
    BY <1>1, ConnectInv
<1>2. CASE Send
    BY <1>2, SendPacketInv, RecvAckInv, AckHangupInv, BrokenPipeInv DEF Send
<1>3. CASE Receive
    BY <1>3, RecvStartInv, RecvBodyInv, RecvSumInv, RecvHangupInv DEF Receive
<1>4. CASE Obey \/ Exit
    BY <1>4, ObeyInv, ExitInv
<1>5. CASE Guest
    BY <1>5, GuestHaltsInv, GuestExitsInv, GuestStopsInv DEF Guest
<1>6. CASE DebuggerStep
    BY <1>6, DbgAckInv, DbgReplyInv, TimeoutInv DEF DebuggerStep
<1>7. CASE Interrupt \/ Close
    BY <1>7, InterruptInv, CloseInv
<1>8. CASE \E c \in Commands : Ask(c)
    BY <1>8, AskInv
<1>9. CASE UNCHANGED vars
  <2>1. /\ UNCHANGED <<ncores, pc, toStub, toGdb>> /\ UNCHANGED stub
        /\ UNCHANGED debugger /\ UNCHANGED history
      BY <1>9 DEF vars
  <2>2. TypeOK'
      BY <2>1 DEF ProtocolInv, TypeOK, stub, debugger, history
  <2>3. /\ (Quiet <=> Quiet') /\ (Pending <=> Pending') /\ (Taken <=> Taken')
        /\ (gone <=> gone')
      BY <2>1 DEF Quiet, Pending, Taken, gone, history, debugger
  <2>4. InInv'
      BY <2>1, <2>3 DEF ProtocolInv, InInv, stub, debugger
  <2>5. OutInv'
      BY <2>1, <2>3 DEF ProtocolInv, OutInv, debugger, history
  <2>6. PlaceInv'
      BY <2>1, <2>3 DEF ProtocolInv, PlaceInv, Leaves, Sending, stub, debugger, history
  <2>7. ThreadInv'
      BY <2>1, <2>3 DEF ProtocolInv, ThreadInv, stub, debugger, history
  <2> QED BY <2>2, <2>4, <2>5, <2>6, <2>7 DEF ProtocolInv
<1> QED BY <1>1, <1>2, <1>3, <1>4, <1>5, <1>6, <1>7, <1>8, <1>9 DEF Next, StubStep

\* Type correctness of the stub, the connection and the debugger (TypeOK).
THEOREM ProtocolTypeCorrect == Spec => []TypeOK
<1>1. ProtocolInv => TypeOK
    BY DEF ProtocolInv
<1> QED BY <1>1, ProtocolInit, ProtocolStep, PTL DEF Spec

\* The connection is in order at all times.
LEMMA ProtocolInvariant == Spec => []ProtocolInv
BY ProtocolInit, ProtocolStep, PTL DEF Spec

\* ThreadsListed: however often queries and answers are repeated or garbled, an
\* enumeration by gdb_handle_query names every core once and in order.
THEOREM EnumerationComplete == Spec => ThreadsListed
<1> DEFINE Complete == listed # <<>> /\ listed' = <<>> => listed = [i \in 1 .. ncores |-> i]
<1>1. ASSUME ProtocolInv, [Next]_vars
      PROVE  [Complete]_listed
  <2>1. CASE DbgReply
    <3>1. \/ listed' = listed
          \/ listed' = IF reply[1] = "m" THEN Append(listed, reply[2]) ELSE <<>>
        BY <1>1, <2>1, DbgReplyCases
    <3>2. TypeOK /\ ThreadInv /\ Taken /\ pc # "obey"
        BY <1>1, <2>1, DbgReplyCases DEF ProtocolInv
    <3>3. listed' = listed \/ Complete
        BY <3>1, <3>2, ListedNext
    <3> QED BY <3>3
  <2>2. CASE ~ DbgReply
    <3>1. listed' = listed
        BY <1>1, <2>2
           DEF Next, StubStep, Send, Receive, Guest, DebuggerStep, vars, debugger,
              Connect, SendPacket, RecvAck, AckHangup, BrokenPipe, RecvStart, RecvBody, RecvSum,
              RecvHangup, Obey, Exit, GuestHalts, GuestExits, GuestStops, DbgAck, Timeout,
              Interrupt, Close, Ask
    <3> QED BY <3>1
  <2> QED BY <2>1, <2>2
<1> QED BY <1>1, ProtocolInvariant, PTL DEF Spec, ThreadsListed

\* The conversation begins.
LEMMA SessionInit == Init => Session!Init
BY DEF Init, Session!Init, Commands

\* Steps that change nothing of the conversation.
LEMMA SessionStutters ==
    ASSUME Connect \/ Receive \/ Send \/ GuestExits \/ DbgAck \/ Timeout \/ Interrupt \/ Close
           \/ UNCHANGED vars
    PROVE  UNCHANGED Session!vars
<1>1. CASE Connect
    BY <1>1 DEF Connect, Session!vars, history
<1>2. CASE Receive
    BY <1>2
       DEF Receive, RecvStart, RecvBody, RecvSum, RecvHangup, Session!vars, history, debugger, stub
<1>3. CASE Send
    BY <1>3
       DEF Send, SendPacket, RecvAck, AckHangup, BrokenPipe, Session!vars, history, debugger, stub
<1>4. CASE GuestExits
    BY <1>4 DEF GuestExits, Session!vars, history, debugger, stub
<1>5. CASE DbgAck
    BY <1>5 DEF DbgAck, Session!vars, history, stub
<1>6. CASE Timeout
    BY <1>6 DEF Timeout, Session!vars, history, stub
<1>7. CASE Interrupt \/ Close
    BY <1>7 DEF Interrupt, Close, Session!vars, history, debugger, stub
<1>8. CASE UNCHANGED vars
    BY <1>8 DEF vars, Session!vars, history, debugger, stub
<1> QED BY <1>1, <1>2, <1>3, <1>4, <1>5, <1>6, <1>7, <1>8

\* Every step is one of the conversation, or none.
LEMMA SessionStep ==
    ASSUME ProtocolInv, [Next]_vars
    PROVE  [Session!Next]_(Session!vars)
<1>0. TypeOK /\ InInv /\ OutInv /\ PlaceInv /\ ThreadInv
    BY DEF ProtocolInv
<1>1. ASSUME NEW c \in Commands, Ask(c)
      PROVE  Session!Next
  <2>1. answered = asked
      BY <1>0, <1>1 DEF Ask, PlaceInv, Quiet
  <2> QED BY <1>1, <2>1 DEF Ask, Session!Next, Session!Ask, stub
<1>2. CASE Obey
  <2>1. pc = "obey" /\ Command = cmd
      BY <1>0, <1>2, CommandIsCmd DEF Obey
  <2>2. obeyed < asked
      BY <1>0, <2>1 DEF PlaceInv, Taken, TypeOK
  <2>3. reply' \in Answers(ncores, cmd, regs, report)
      BY <1>0, <1>2, ObeyAnswers
  <2>4. /\ obeyed' = obeyed + 1 /\ regs' = Written(cmd, regs)
        /\ UNCHANGED <<ncores, asked, answered, cmd, report, heard>>
      BY <1>2, <2>1 DEF Obey, debugger
  <2> QED BY <2>2, <2>3, <2>4 DEF Session!Next, Session!Obey
<1>3. ASSUME NEW sig \in {GDB_SIGNAL_TRAP, GDB_SIGNAL_SEGV}, GuestStops(sig)
      PROVE  Session!Next
  <2>1. cmd \in Resumes /\ obeyed = asked
      BY <1>0, <1>3 DEF GuestStops, PlaceInv
  <2>2. /\ regs' \in Values /\ reply' = Reported(report')
        /\ UNCHANGED <<ncores, asked, obeyed, answered, cmd, heard>>
      BY <1>3 DEF GuestStops, debugger
  <2> QED BY <2>1, <2>2 DEF Session!Next, Session!Report, Reported
<1>4. CASE GuestHalts
  <2>1. cmd \in Resumes /\ obeyed = asked
      BY <1>0, <1>4 DEF GuestHalts, PlaceInv
  <2>2. /\ regs' \in Values /\ reply' = Reported(report')
        /\ UNCHANGED <<ncores, asked, obeyed, answered, cmd, heard>>
      BY <1>0, <1>4 DEF GuestHalts, debugger, TypeOK, Reported
  <2> QED BY <2>1, <2>2 DEF Session!Next, Session!Report, Reported
<1>5. CASE Exit
  <2>1. /\ regs' = regs /\ reply' = Reported(Exited)
        /\ report' = IF reply' # reply THEN Exited ELSE report
        /\ UNCHANGED <<ncores, asked, obeyed, answered, cmd, heard>>
      BY <1>5 DEF Exit, debugger
  <2>2. CASE reply' = reply
      BY <2>1, <2>2 DEF Session!vars
  <2>3. CASE reply' # reply
    <3>1. /\ cmd \in Resumes /\ obeyed = asked /\ answered < asked /\ reply = NoAnswer
          /\ reply' = Exited /\ report' = Exited
        BY <2>1, <2>3 DEF Reported
    <3>2. regs' \in Values
        BY <1>0, <2>1 DEF TypeOK
    <3> QED BY <2>1, <3>1, <3>2 DEF Session!Next, Session!Report
  <2> QED BY <2>2, <2>3
<1>6. CASE DbgReply
  <2>1. UNCHANGED <<ncores, asked, obeyed, cmd, regs, report, reply>>
      BY <1>6 DEF DbgReply, stub
  <2>2. Taken /\ pc # "obey"
      BY <1>6, DbgReplyCases
  <2>3. \/ UNCHANGED <<answered, heard>>
        \/ answered' = asked /\ heard' = reply /\ reply # NoAnswer
      BY <1>6, DbgReplyCases
  <2>4. CASE UNCHANGED <<answered, heard>>
      BY <2>1, <2>4 DEF Session!vars
  <2>5. CASE answered' = asked /\ heard' = reply /\ reply # NoAnswer
    <3>1. answered < asked /\ obeyed = asked
        BY <1>0, <2>2 DEF Taken, TypeOK
    <3> QED BY <2>1, <2>5, <3>1 DEF Session!Next, Session!Answer
  <2> QED BY <2>3, <2>4, <2>5
<1> QED BY <1>1, <1>2, <1>3, <1>4, <1>5, <1>6, SessionStutters
           DEF Next, StubStep, Guest, DebuggerStep

\* IsSession: recv_packet, send_packet and gdb_handle_exception implement the
\* conversation of GdbSession, for every buffer size, number of cores, commands,
\* repetitions and garbled packets.
THEOREM ImplementsSession == Spec => IsSession
<1>1. ProtocolInv /\ [Next]_vars => [Session!Next]_(Session!vars)
    BY SessionStep
<1> QED BY <1>1, SessionInit, ProtocolInvariant, PTL DEF Spec, IsSession, Session!Spec
==============================================================================
