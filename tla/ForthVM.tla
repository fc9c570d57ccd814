------------------------------ MODULE ForthVM ------------------------------
(***************************************************************************)
(* The virtual machine of src/vm: one data stack, one return stack, a      *)
(* program counter that walks threaded code held in ordinary memory, and a *)
(* set of exception flags that the interpreter loop of vm_start tests      *)
(* before every instruction.                                               *)
(*                                                                         *)
(* Addresses count cells (sizeof(size_t) is one unit).  A word is a number *)
(* below Modulus, so arithmetic wraps as size_t does.  Memory is made of   *)
(* the three disjoint regions the embedding program allocates, the RAM and *)
(* the two stacks (Cells), and of the read-only words of the compiled-in   *)
(* dictionary (Rom).  Both stacks grow downwards from their top.           *)
(*                                                                         *)
(* An access outside those regions, a call through a word that is not a C  *)
(* function, and an opcode without a handler are undefined behaviour in C. *)
(* The machine then enters the status "undefined", in which nothing more   *)
(* is claimed about it.  A store through the address of a register of vm_t *)
(* (pushed by vm_pc and vm_sp) counts as such an access: no program of the *)
(* repository makes one.                                                   *)
(***************************************************************************)
EXTENDS Integers, FiniteSets

CONSTANTS
    Modulus,             \* number of values of size_t
    IntModulus,          \* number of values of int, the low bits of a word
    XorWord(_, _),       \* the machine's exclusive or on words
    Ram,                 \* addresses of vm->ram
    Rom,                 \* read-only words: a function from addresses to words
    StackLo, StackTop,   \* stack_ptr and stack_top
    RStackLo, RStackTop, \* rstack_ptr and rstack_top
    RegPC, RegSP,        \* &vm->pc and &vm->sp
    Natives              \* addresses of C functions

Word   == 0 .. (Modulus - 1)
Stack  == StackLo .. (StackTop - 1)
RStack == RStackLo .. (RStackTop - 1)
Cells  == Ram \cup Stack \cup RStack
Memory == Cells \cup DOMAIN Rom

ASSUME ModulusAssumption ==
    /\ Modulus \in Nat /\ Modulus > 1
    /\ IntModulus \in Nat \ {0} /\ Modulus % IntModulus = 0
ASSUME LayoutAssumption ==
    /\ StackLo \in Nat /\ StackTop \in Nat /\ StackLo < StackTop
    /\ RStackLo \in Nat /\ RStackTop \in Nat /\ RStackLo < RStackTop
    /\ StackTop < Modulus /\ RStackTop < Modulus
    /\ Ram \subseteq Word
    /\ Stack \cap RStack = {} /\ Ram \cap Stack = {} /\ Ram \cap RStack = {}
    /\ RegPC \in Word /\ RegSP \in Word
    /\ Cells \cap DOMAIN Rom = {} /\ {RegPC, RegSP} \cap Memory = {}
ASSUME RomAssumption == \A a \in DOMAIN Rom : Rom[a] \in Word
ASSUME XorAssumption ==
    \A a, b \in Word : /\ XorWord(a, b) \in Word
                       /\ XorWord(XorWord(a, b), b) = a
                       /\ XorWord(b, XorWord(a, b)) = a

VARIABLES
    mem,      \* all cells: the RAM, the two stacks, and the words in Rom
    sp, rsp,  \* vm->sp, vm->rsp: the top cell, or stack_top/rstack_top if empty
    pc,       \* vm->pc
    flags,    \* vm->exceptions_flags, as the set of raised exceptions
    status,   \* "idle": the host runs; "running": inside vm_start; "undefined"
    code      \* what the last vm_start returned

vmVars == <<mem, sp, rsp, pc, flags, status, code>>

-----------------------------------------------------------------------------
(* Opcodes and exceptions. *)

Op == [NONE |-> 0, PUSH |-> 1, C_EXEC |-> 2, RET |-> 3, CALL |-> 4, LOAD |-> 5,
       STR |-> 6, JMP |-> 7, RPUSH |-> 8, DROP |-> 9, RPOP |-> 10, RDROP |-> 11,
       PC |-> 12, SP |-> 13, RSP |-> 14, ADD |-> 15, SUB |-> 16, MUL |-> 17,
       DIV |-> 18, MOD |-> 19, AND |-> 20, OR |-> 21, XOR |-> 22, LESS |-> 23,
       GREATER |-> 24, IT |-> 25, SWAP |-> 26, LOADBYTE |-> 27, QUIT |-> 28,
       STRBYTE |-> 29, BYE |-> 30]

\* The entries of ops[] that hold a handler.
Implemented == {Op[f] : f \in DOMAIN Op \ {"RSP", "LOADBYTE", "STRBYTE", "BYE"}}

Exceptions == {"ZERO_DIVISION", "MEMFAULT", "STACK_UNDERFLOW",
               "RSTACK_UNDERFLOW", "BYE"}

\* The order in which vm_start looks at the flags.
Severity == <<"BYE", "STACK_UNDERFLOW", "RSTACK_UNDERFLOW", "ZERO_DIVISION",
              "MEMFAULT">>

Reported(raised) ==
    Severity[CHOOSE i \in 1 .. 5 : /\ Severity[i] \in raised
                                   /\ \A j \in 1 .. (i - 1) : Severity[j] \notin raised]

True  == Modulus - 1
False == 0
Truth(b) == IF b THEN True ELSE False
Signed(w) == IF 2 * w >= Modulus THEN w - Modulus ELSE w

\* (int)w: the low bits of w, signed; and the word an int turns into.
AsInt(w) == LET v == w % IntModulus IN IF 2 * v >= IntModulus THEN v - IntModulus ELSE v
Extended(n) == n % Modulus

-----------------------------------------------------------------------------
(* Memory as C expressions see it. *)

Readable(a) == a \in DOMAIN mem \cup {RegPC, RegSP}
Writable(a) == a \in Cells

Load(a) == IF a \in DOMAIN mem THEN mem[a] ELSE IF a = RegPC THEN pc ELSE sp

TOS == mem[sp]          \* *(vm->sp)
NOS == mem[sp + 1]      \* *(vm->sp + 1)

-----------------------------------------------------------------------------
(* Building blocks of the handlers. *)

\* A loop turn of vm_start that forgets to look at the flags.
ExecutingBlindly(op) ==
    /\ status = "running"
    /\ pc \in DOMAIN mem
    /\ Load(pc) = op

\* vm_start is about to execute ops[*vm->pc].
Executing(op) ==
    /\ status = "running"
    /\ flags = {}
    /\ pc \in DOMAIN mem
    /\ Load(pc) = op

Goto(a) == pc' = a % Modulus /\ UNCHANGED <<flags, status, code>>

\* The handler raises e and returns; the loop still increments pc.
Raise(e) ==
    /\ flags' = flags \cup {e}
    /\ pc' = (pc + 1) % Modulus
    /\ UNCHANGED <<mem, sp, rsp, status, code>>

Undefined ==
    /\ status' = "undefined"
    /\ UNCHANGED <<mem, sp, rsp, pc, flags, code>>

Holds(n) == sp <= StackTop - n
Underflow(n) == sp > StackTop - n /\ Raise("STACK_UNDERFLOW")
RUnderflow == rsp > RStackTop - 1 /\ Raise("RSTACK_UNDERFLOW")

\* No handler compares sp with stack_ptr: pushing on a full stack is undefined.
Full == sp = StackLo
Push(v) == /\ ~Full
           /\ sp' = sp - 1
           /\ mem' = [mem EXCEPT ![sp - 1] = v]
           /\ UNCHANGED rsp
RFull == rsp - 1 \notin RStack

\* A handler that replaces the two top cells by one.
Binary(op, result) ==
    /\ Executing(op)
    /\ \/ Underflow(2)
       \/ /\ Holds(2)
          /\ mem' = [mem EXCEPT ![sp + 1] = result]
          /\ sp' = sp + 1
          /\ Goto(pc + 1)
          /\ UNCHANGED rsp

\* vm_div and vm_mod, which also refuse a zero divisor.
Dividing(op, result) ==
    /\ Executing(op)
    /\ \/ Underflow(2)
       \/ Holds(2) /\ TOS = 0 /\ Raise("ZERO_DIVISION")
       \/ /\ Holds(2) /\ TOS # 0
          /\ mem' = [mem EXCEPT ![sp + 1] = result]
          /\ sp' = sp + 1
          /\ Goto(pc + 1)
          /\ UNCHANGED rsp

-----------------------------------------------------------------------------
(* The handlers of ops[]. *)

vm_none ==
    Executing(Op.NONE) /\ Goto(pc + 1) /\ UNCHANGED <<mem, sp, rsp>>

vm_push ==
    /\ Executing(Op.PUSH)
    /\ \/ Readable(pc + 1) /\ Push(Load(pc + 1)) /\ Goto(pc + 2)
       \/ (Full \/ ~Readable(pc + 1)) /\ Undefined

vm_ret ==
    /\ Executing(Op.RET)
    /\ \/ rsp >= RStackTop /\ Raise("BYE")
       \/ /\ rsp < RStackTop
          /\ rsp' = rsp + 1
          /\ Goto(mem[rsp] + 1)
          /\ UNCHANGED <<mem, sp>>

vm_call ==
    /\ Executing(Op.CALL)
    /\ \/ Underflow(1)
       \/ Holds(1) /\ RFull /\ Undefined
       \/ /\ Holds(1) /\ ~RFull
          /\ sp' = sp + 1
          /\ rsp' = rsp - 1
          /\ mem' = [mem EXCEPT ![rsp - 1] = pc]
          /\ Goto(TOS)

\* vm_c_exec up to the call; what the C function does is an action of its own.
NativeCall(h) == Executing(Op.C_EXEC) /\ Holds(1) /\ TOS = h

vm_c_exec ==
    /\ Executing(Op.C_EXEC)
    /\ \/ Underflow(1)
       \/ /\ Holds(1) /\ TOS = 0
          /\ sp' = sp + 1
          /\ flags' = flags \cup {"MEMFAULT"}
          /\ pc' = (pc + 1) % Modulus
          /\ UNCHANGED <<mem, rsp, status, code>>
       \/ Holds(1) /\ TOS \notin Natives \cup {0} /\ Undefined

\* vm_jmp without the step back that makes up for the loop's own increment.
vm_jmp_past ==
    /\ Executing(Op.JMP)
    /\ \/ Underflow(1)
       \/ Holds(1) /\ sp' = sp + 1 /\ Goto(TOS + 1) /\ UNCHANGED <<mem, rsp>>

vm_jmp ==
    /\ Executing(Op.JMP)
    /\ \/ Underflow(1)
       \/ Holds(1) /\ sp' = sp + 1 /\ Goto(TOS) /\ UNCHANGED <<mem, rsp>>

vm_pc ==
    /\ Executing(Op.PC)
    /\ \/ Push(RegPC) /\ Goto(pc + 1)
       \/ Full /\ Undefined

vm_sp ==
    /\ Executing(Op.SP)
    /\ \/ Push(RegSP) /\ Goto(pc + 1)
       \/ Full /\ Undefined

vm_add     == Binary(Op.ADD, (NOS + TOS) % Modulus)
vm_sub     == Binary(Op.SUB, (NOS - TOS) % Modulus)
vm_mul     == Binary(Op.MUL, (NOS * TOS) % Modulus)
vm_div     == Dividing(Op.DIV, NOS \div TOS)
vm_mod     == Dividing(Op.MOD, NOS % TOS)
vm_and     == Binary(Op.AND, Truth(NOS # 0 /\ TOS # 0))
vm_or      == Binary(Op.OR, Truth(NOS # 0 \/ TOS # 0))
vm_xor     == Binary(Op.XOR, XorWord(NOS, TOS))
vm_less    == Binary(Op.LESS, Truth(AsInt(NOS) < AsInt(TOS)))
vm_greater == Binary(Op.GREATER, Truth(AsInt(NOS) > AsInt(TOS)))

vm_load ==
    /\ Executing(Op.LOAD)
    /\ \/ Underflow(1)
       \/ Holds(1) /\ ~Readable(TOS) /\ Undefined
       \/ /\ Holds(1) /\ Readable(TOS)
          /\ mem' = [mem EXCEPT ![sp] = Load(TOS)]
          /\ Goto(pc + 1)
          /\ UNCHANGED <<sp, rsp>>

\* vm_str with the check made after the address has been popped.
vm_str_pop_first ==
    /\ Executing(Op.STR)
    /\ \/ /\ sp = StackTop - 1
          /\ sp' = sp + 1
          /\ flags' = flags \cup {"STACK_UNDERFLOW"}
          /\ pc' = (pc + 1) % Modulus
          /\ UNCHANGED <<mem, rsp, status, code>>
       \/ sp = StackTop /\ Underflow(2)
       \/ Holds(2) /\ ~Writable(TOS) /\ Undefined
       \/ /\ Holds(2) /\ Writable(TOS)
          /\ mem' = [mem EXCEPT ![TOS] = NOS]
          /\ sp' = sp + 2
          /\ Goto(pc + 1)
          /\ UNCHANGED rsp

vm_str ==
    /\ Executing(Op.STR)
    /\ \/ Underflow(2)
       \/ Holds(2) /\ ~Writable(TOS) /\ Undefined
       \/ /\ Holds(2) /\ Writable(TOS)
          /\ mem' = [mem EXCEPT ![TOS] = NOS]
          /\ sp' = sp + 2
          /\ Goto(pc + 1)
          /\ UNCHANGED rsp

\* vm_it skipping one cell too few.
vm_it_short ==
    /\ Executing(Op.IT)
    /\ \/ Underflow(1)
       \/ /\ Holds(1)
          /\ sp' = sp + 1
          /\ Goto(IF TOS # False THEN pc + 6 ELSE pc + 1)
          /\ UNCHANGED <<mem, rsp>>

\* Skips the six cells IF compiles after it: PUSH, the address, JMP, 3 x NONE.
vm_it ==
    /\ Executing(Op.IT)
    /\ \/ Underflow(1)
       \/ /\ Holds(1)
          /\ sp' = sp + 1
          /\ Goto(IF TOS # False THEN pc + 7 ELSE pc + 1)
          /\ UNCHANGED <<mem, rsp>>

\* vm_drop with the comparison of vm_ret.
vm_drop_off_by_one ==
    /\ Executing(Op.DROP)
    /\ \/ Underflow(0)
       \/ Holds(0) /\ sp' = sp + 1 /\ Goto(pc + 1) /\ UNCHANGED <<mem, rsp>>

vm_drop ==
    /\ Executing(Op.DROP)
    /\ \/ Underflow(1)
       \/ Holds(1) /\ sp' = sp + 1 /\ Goto(pc + 1) /\ UNCHANGED <<mem, rsp>>

vm_rdrop ==
    /\ Executing(Op.RDROP)
    /\ \/ RUnderflow
       \/ /\ rsp <= RStackTop - 1
          /\ rsp' = rsp + 1
          /\ Goto(pc + 1)
          /\ UNCHANGED <<mem, sp>>

\* The three exclusive ors in the order of the code: x the new top after the
\* first, y the new second cell, and the top again.
SwapCells(x, y) ==
    [mem EXCEPT ![sp] = XorWord(x, y), ![sp + 1] = y]

\* The second exclusive or forgotten.
vm_swap_two_xors ==
    /\ Executing(Op.SWAP)
    /\ \/ Underflow(2)
       \/ /\ Holds(2)
          /\ mem' = SwapCells(XorWord(TOS, NOS), NOS)
          /\ Goto(pc + 1)
          /\ UNCHANGED <<sp, rsp>>

vm_swap ==
    /\ Executing(Op.SWAP)
    /\ \/ Underflow(2)
       \/ /\ Holds(2)
          /\ LET x == XorWord(TOS, NOS)
             IN  mem' = SwapCells(x, XorWord(NOS, x))
          /\ Goto(pc + 1)
          /\ UNCHANGED <<sp, rsp>>

vm_rpush ==
    /\ Executing(Op.RPUSH)
    /\ \/ Underflow(1)
       \/ Holds(1) /\ RFull /\ Undefined
       \/ /\ Holds(1) /\ ~RFull
          /\ sp' = sp + 1
          /\ rsp' = rsp - 1
          /\ mem' = [mem EXCEPT ![rsp - 1] = TOS]
          /\ Goto(pc + 1)

vm_rpop ==
    /\ Executing(Op.RPOP)
    /\ \/ RUnderflow
       \/ rsp <= RStackTop - 1 /\ Full /\ Undefined
       \/ /\ rsp <= RStackTop - 1 /\ ~Full
          /\ rsp' = rsp + 1
          /\ sp' = sp - 1
          /\ mem' = [mem EXCEPT ![sp - 1] = mem[rsp]]
          /\ Goto(pc + 1)

vm_quit == Executing(Op.QUIT) /\ Raise("BYE")

\* ops[*vm->pc] when pc is outside memory or the table has no handler there.
BadFetch ==
    /\ status = "running" /\ flags = {}
    /\ \/ pc \notin DOMAIN mem
       \/ pc \in DOMAIN mem /\ Load(pc) \notin Implemented
    /\ Undefined

-----------------------------------------------------------------------------
(* vm_start: entering and leaving. *)

vm_start(a) ==
    /\ pc' = a
    /\ status' = "running"

\* Leaving vm_start with the return stack as the run left it.
LeaveKeepingRsp ==
    /\ status = "running" /\ flags # {}
    /\ status' = "idle"
    /\ code' = Reported(flags)
    /\ UNCHANGED <<mem, sp, rsp, pc, flags>>

\* The loop head with a flag set: the return stack is emptied and the most
\* severe exception is returned.  The flags stay set.
Leave ==
    /\ status = "running" /\ flags # {}
    /\ rsp' = RStackTop
    /\ status' = "idle"
    /\ code' = Reported(flags)
    /\ UNCHANGED <<mem, sp, pc, flags>>

Instruction ==
    \/ vm_none \/ vm_push \/ vm_ret \/ vm_call \/ vm_c_exec \/ vm_jmp
    \/ vm_pc \/ vm_sp \/ vm_add \/ vm_sub \/ vm_mul \/ vm_div \/ vm_mod
    \/ vm_and \/ vm_or \/ vm_xor \/ vm_load \/ vm_less \/ vm_greater
    \/ vm_str \/ vm_it \/ vm_drop \/ vm_rdrop \/ vm_swap \/ vm_rpush
    \/ vm_rpop \/ vm_quit \/ BadFetch

\* vm_init, on stacks whose storage starts out zero and a RAM that holds image.
vm_init(image) ==
    /\ mem = [a \in Memory |-> IF a \in DOMAIN Rom THEN Rom[a]
                               ELSE IF a \in Ram THEN image[a] ELSE 0]
    /\ sp = StackTop /\ rsp = RStackTop /\ pc = 0
    /\ flags = {} /\ status = "idle" /\ code = "NONE"

\* Types of all registers and cells, but for the top of the return stack, which
\* a C function may pass.  The data stack pointer stays inside its stack.
RegistersOK ==
    /\ mem \in [Memory -> Word]
    /\ sp \in StackLo .. StackTop
    /\ rsp \in Int /\ rsp >= RStackLo
    /\ pc \in Word
    /\ flags \subseteq Exceptions
    /\ status \in {"idle", "running", "undefined"}
    /\ code \in Exceptions \cup {"NONE"}

\* The stack discipline of the underflow guards in vm.c: whatever the program,
\* neither stack pointer passes its top or its base while the machine is defined.
TypeOK == RegistersOK /\ rsp <= RStackTop
=============================================================================
