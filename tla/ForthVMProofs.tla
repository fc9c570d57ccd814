--------------------------- MODULE ForthVMProofs ---------------------------
(***************************************************************************)
(* What holds of the machine whatever the program, the memory layout and   *)
(* the word size are.  The invariant TypeOK is inductive by itself: it     *)
(* carries the range of both stack pointers, which is what the underflow   *)
(* guards of vm.c maintain.                                                *)
(***************************************************************************)
EXTENDS ForthVMHost, ForthVMSteps

LEMMA FunctionTyped == TypeOK /\ test_func => TypeOK'
<1> SUFFICES ASSUME TypeOK, test_func PROVE TypeOK'
  OBVIOUS
<1>1. mem' \in [Memory -> Word]
  BY HostAssumption DEF test_func, TypeOK, RegistersOK
<1>2. RegistersOK'
  BY <1>1, PcIsInt, GotoTyped DEF test_func, TypeOK, RegistersOK
<1> QED BY <1>2 DEF test_func, TypeOK

LEMMA HostTyped ==
    TypeOK /\ (Leave \/ HostStart \/ HostPush \/ HostClear \/ Stopped) => TypeOK'
<1> SUFFICES ASSUME TypeOK, Leave \/ HostStart \/ HostPush \/ HostClear \/ Stopped
             PROVE  TypeOK'
  OBVIOUS
<1>1. CASE Leave
  BY <1>1, LeaveTyped, LayoutAssumption DEF Leave, TypeOK
<1>2. CASE HostStart
  BY <1>2, HostAssumption DEF HostStart, vm_start, TypeOK, RegistersOK
<1>3. CASE HostPush
  <2>1. PICK v \in HostWords : Push(v)
    BY <1>3 DEF HostPush
  <2>2. v \in Word
    BY HostAssumption
  <2>3. mem' \in [Memory -> Word]
    BY <2>1, <2>2 DEF Push, TypeOK, RegistersOK
  <2>4. sp' \in StackLo .. StackTop
    BY <2>1, LayoutAssumption DEF Push, Full, TypeOK, RegistersOK
  <2> QED BY <1>3, <2>1, <2>3, <2>4 DEF HostPush, Push, TypeOK, RegistersOK
<1>4. CASE HostClear
  BY <1>4 DEF HostClear, TypeOK, RegistersOK
<1>5. CASE Stopped
  BY <1>5 DEF Stopped, hostVars, vmVars, TypeOK, RegistersOK
<1> QED BY <1>1, <1>2, <1>3, <1>4, <1>5

(***************************************************************************)
(* The theorems.                                                           *)
(***************************************************************************)

\* One step of the machine or of its host keeps the types.
LEMMA NextTyped == TypeOK /\ [Next]_hostVars => TypeOK'
<1>1. TypeOK /\ Instruction => TypeOK'
  BY InstructionTyped, InstructionBounded DEF TypeOK
<1>2. TypeOK /\ UNCHANGED hostVars => TypeOK'
  BY DEF TypeOK, RegistersOK, hostVars, vmVars
<1> QED BY <1>1, <1>2, FunctionTyped, HostTyped DEF Next, Machine

LEMMA InitTyped == Init => TypeOK
  BY MachineInitTyped, HostAssumption DEF Init

\* For every program, layout and word size: the registers keep their types, and
\* in particular no sequence of instructions takes sp or rsp past its stack.
THEOREM TypeCorrect == Spec => []TypeOK
<1>1. Init => TypeOK
  BY InitTyped
<1>2. TypeOK /\ [Next]_hostVars => TypeOK'
  BY NextTyped
<1> QED BY <1>1, <1>2, PTL DEF Spec

\* Emptying the return stack on the way out of vm_start is enough for every run
\* to begin, and every host to find, an empty one.
THEOREM RStackCleanBetweenRuns == Spec => []CleanRStack
<1>1. Init => CleanRStack
  BY DEF Init, vm_init, CleanRStack
<1>2. CleanRStack /\ [Next]_hostVars => CleanRStack'
  <2> SUFFICES ASSUME CleanRStack, [Next]_hostVars, status' = "idle"
               PROVE  rsp' = RStackTop
    BY DEF CleanRStack
  <2>1. CASE Leave
    BY <2>1 DEF Leave
  <2>2. CASE HostStart \/ HostPush \/ HostClear \/ Stopped \/ UNCHANGED hostVars
    BY <2>2 DEF HostStart, vm_start, HostPush, Push, HostClear, Stopped, CleanRStack, hostVars, vmVars
  <2>3. CASE test_func
    BY <2>3 DEF test_func, NativeCall, Executing, Goto
  <2>4. CASE Instruction
    <3>1. Instruction => status = "running" /\ status' # "idle"
      BY DEF Instruction, vm_none, vm_push, vm_ret, vm_call, vm_c_exec, vm_jmp, vm_pc,
             vm_sp, vm_add, vm_sub, vm_mul, vm_div, vm_mod, vm_and, vm_or, vm_xor,
             vm_load, vm_less, vm_greater, vm_str, vm_it, vm_drop, vm_rdrop, vm_swap,
             vm_rpush, vm_rpop, vm_quit, BadFetch, Executing, Goto, Raise, Undefined,
             Underflow, RUnderflow, Binary, Dividing
    <3> QED BY <2>4, <3>1
  <2> QED BY <2>1, <2>2, <2>3, <2>4 DEF Next, Machine
<1> QED BY <1>1, <1>2, PTL DEF Spec

\* No instruction, C function or host step happens inside vm_start while a flag
\* is set, for every program: the only step is the return.
THEOREM FaultsEndRuns == Spec => FaultEndsRun
<1>1. [Next]_hostVars =>
        [status = "running" /\ flags # {} =>
           /\ status' = "idle" /\ rsp' = RStackTop
           /\ UNCHANGED <<mem, sp, pc, flags>>]_hostVars
  <2> SUFFICES ASSUME Next, status = "running", flags # {}
               PROVE  Leave
    BY DEF Leave, hostVars, vmVars
  <2>1. ~Instruction
    BY DEF Instruction, vm_none, vm_push, vm_ret, vm_call, vm_c_exec, vm_jmp, vm_pc,
           vm_sp, vm_add, vm_sub, vm_mul, vm_div, vm_mod, vm_and, vm_or, vm_xor,
           vm_load, vm_less, vm_greater, vm_str, vm_it, vm_drop, vm_rdrop, vm_swap,
           vm_rpush, vm_rpop, vm_quit, BadFetch, Executing, Binary, Dividing
  <2>2. ~test_func
    BY DEF test_func, NativeCall, Executing
  <2>3. ~(HostStart \/ HostPush \/ HostClear \/ Stopped)
    BY DEF HostStart, HostPush, HostClear, Stopped
  <2> QED BY <2>1, <2>2, <2>3 DEF Next, Machine
<1> QED BY <1>1, PTL DEF Spec, FaultEndsRun

\* An instruction that ends by raising one of the three recoverable exceptions
\* has left both stacks and the memory alone, so the operands are still there.
THEOREM FaultsKeepOperands == Spec => FaultKeepsOperands
<1> DEFINE Recoverable == {"STACK_UNDERFLOW", "RSTACK_UNDERFLOW", "ZERO_DIVISION"}
<1>1. [Next]_hostVars =>
        [\A e \in Recoverable : e \in flags' \ flags => UNCHANGED <<mem, sp, rsp>>]_hostVars
  <2> SUFFICES ASSUME Next, NEW e \in Recoverable, e \in flags' \ flags
               PROVE  UNCHANGED <<mem, sp, rsp>>
    OBVIOUS
  <2>1. CASE \E x \in Exceptions : Raise(x)
    BY <2>1 DEF Raise
  <2>2. ~(\E a : Goto(a)) /\ ~Undefined
    BY DEF Goto, Undefined
  <2>3. ~(test_func \/ Leave \/ HostStart \/ HostPush \/ HostClear \/ Stopped)
    BY <2>2 DEF test_func, Leave, HostStart, HostPush, HostClear, Stopped, hostVars, vmVars
  <2>4. CASE vm_c_exec
    <3>1. flags' # flags \cup {"MEMFAULT"}
      OBVIOUS
    <3> QED BY <2>1, <2>2, <2>4, <3>1 DEF vm_c_exec, Underflow, Exceptions
  <2>5. CASE Instruction /\ ~vm_c_exec
    <3>1. \E x \in Exceptions : Raise(x)
      BY <2>2, <2>5 DEF Instruction, vm_none, vm_push, vm_ret, vm_call, vm_jmp, vm_pc,
           vm_sp, vm_add, vm_sub, vm_mul, vm_div, vm_mod, vm_and, vm_or, vm_xor,
           vm_load, vm_less, vm_greater, vm_str, vm_it, vm_drop, vm_rdrop, vm_swap,
           vm_rpush, vm_rpop, vm_quit, BadFetch, Underflow, RUnderflow, Binary,
           Dividing, Exceptions
    <3> QED BY <2>1, <3>1
  <2> QED BY <2>3, <2>4, <2>5 DEF Next, Machine
<1> QED BY <1>1, PTL DEF Spec, FaultKeepsOperands

\* vm_swap's three exclusive ors exchange the two cells for all their values,
\* and no other step executes a SWAP.
THEOREM SwapIsExchange == Spec => SwapExchanges
<1>1. TypeOK /\ [Next]_hostVars =>
        [Executing(Op.SWAP) /\ Holds(2) =>
           mem' = [mem EXCEPT ![sp] = NOS, ![sp + 1] = TOS]]_hostVars
  <2> SUFFICES ASSUME TypeOK, Next, Executing(Op.SWAP), Holds(2)
               PROVE  mem' = [mem EXCEPT ![sp] = NOS, ![sp + 1] = TOS]
    OBVIOUS
  <2>1. vm_swap
    <3>1. /\ Op.SWAP = 26 /\ Op.SWAP \in Implemented
          /\ \A f \in DOMAIN Op \ {"SWAP"} : Op[f] # 26
      BY DEF Op, Implemented
    <3>2. Load(pc) = 26 /\ status = "running" /\ flags = {} /\ pc \in DOMAIN mem
      BY <3>1 DEF Executing
    <3>3. ~(Leave \/ HostStart \/ HostPush \/ HostClear \/ Stopped \/ BadFetch)
      BY <3>1, <3>2 DEF Leave, HostStart, HostPush, HostClear, Stopped, BadFetch
    <3>4. ~test_func
      BY <3>2 DEF test_func, NativeCall, Executing, Op
    <3>5. Instruction /\ ~BadFetch
      BY <3>3, <3>4 DEF Next, Machine
    <3>6. \A op : Executing(op) => op = 26
      BY <3>2 DEF Executing
    <3> QED BY <3>5, <3>6 DEF Instruction, vm_none, vm_push, vm_ret, vm_call, vm_c_exec,
             vm_jmp, vm_pc, vm_sp, vm_add, vm_sub, vm_mul, vm_div, vm_mod, vm_and,
             vm_or, vm_xor, vm_load, vm_less, vm_greater, vm_str, vm_it, vm_drop,
             vm_rdrop, vm_rpush, vm_rpop, vm_quit, Binary, Dividing, Op
  <2> DEFINE x == XorWord(TOS, NOS)
  <2>2. ~Underflow(2)
    BY LayoutAssumption DEF Underflow, Holds, TypeOK, RegistersOK
  <2>3. mem' = SwapCells(x, XorWord(NOS, x))
    BY <2>1, <2>2 DEF vm_swap
  <2>4. TOS \in Word /\ NOS \in Word
    BY TopsAreWords DEF TypeOK
  <2>5. XorWord(NOS, x) = TOS /\ XorWord(x, TOS) = NOS
    BY <2>4, XorAssumption
  <2>6. mem' = SwapCells(x, TOS)
    BY <2>3, <2>5
  <2> HIDE DEF x
  <2> QED BY <2>5, <2>6 DEF SwapCells
<1> QED BY <1>1, TypeCorrect, PTL DEF Spec, SwapExchanges
=============================================================================
