---------------------------- MODULE ForthVMSteps ----------------------------
(***************************************************************************)
(* What the instructions of the machine do to its cells and registers,     *)
(* whatever runs around them: the lemmas that the proofs about the machine *)
(* under a host (ForthVMProofs) and under the shell (ForthShellProofs)     *)
(* share.  They ask nothing of the top of the return stack, which a C      *)
(* function of the shell may have passed.                                  *)
(***************************************************************************)
EXTENDS ForthVM, TLAPS

(***************************************************************************)
(* Arithmetic on words.                                                    *)
(***************************************************************************)

\* Reducing any integer modulo Modulus gives a word.
LEMMA ModIsWord == \A a \in Int : a % Modulus \in Word
  BY ModulusAssumption DEF Word

\* The unsigned quotient and remainder of words are words.
LEMMA QuotientIsWord ==
    \A a, b \in Word : b # 0 => a \div b \in Word /\ a % b \in Word
<1> SUFFICES ASSUME NEW a \in Word, NEW b \in Word, b # 0
             PROVE  a \div b \in Word /\ a % b \in Word
  OBVIOUS
<1>1. a \in Nat /\ b \in Nat /\ b >= 1 /\ a < Modulus /\ b < Modulus
  BY ModulusAssumption DEF Word
<1>2. a = b * (a \div b) + (a % b) /\ a % b \in 0 .. (b - 1) /\ a \div b \in Int
  BY <1>1
<1>3. a \div b >= 0
  BY <1>1, <1>2
<1>4. a \div b <= a
  <2> DEFINE q == a \div b
  <2>1. q \in Nat /\ b * q <= a
    BY <1>1, <1>2, <1>3
  <2>2. q <= b * q
    <3> HIDE DEF q
    <3> QED BY <1>1, <2>1
  <2> QED BY <1>1, <2>1, <2>2
<1> QED
  BY <1>1, <1>2, <1>3, <1>4, ModulusAssumption DEF Word

\* Truth values are words.
LEMMA TruthIsWord == \A b \in BOOLEAN : Truth(b) \in Word
  BY ModulusAssumption DEF Truth, True, False, Word

(***************************************************************************)
(* Memory and stacks.                                                      *)
(***************************************************************************)

\* Reading a mapped address gives a word.
LEMMA LoadIsWord == RegistersOK => \A a : Readable(a) => Load(a) \in Word
<1> SUFFICES ASSUME RegistersOK, NEW a, Readable(a)
             PROVE  Load(a) \in Word
  OBVIOUS
<1>1. CASE a \in DOMAIN mem
  BY <1>1 DEF RegistersOK, Load
<1>2. CASE a \notin DOMAIN mem /\ a = RegPC
  BY <1>2 DEF RegistersOK, Load
<1>3. CASE a \notin DOMAIN mem /\ a # RegPC
  <2>1. Load(a) = sp
    BY <1>3 DEF Load
  <2>2. sp \in Word
    BY LayoutAssumption, ModulusAssumption DEF RegistersOK, Word
  <2> QED BY <2>1, <2>2
<1> QED BY <1>1, <1>2, <1>3

\* On a stack that holds a cell its top is a word; with two cells, both are.
LEMMA TopsAreWords ==
    RegistersOK => /\ Holds(1) => sp \in Stack /\ TOS \in Word
                   /\ Holds(2) => sp \in Stack /\ sp + 1 \in Stack /\ TOS \in Word /\ NOS \in Word
  BY LayoutAssumption DEF RegistersOK, Holds, Memory, Cells, Stack, TOS, NOS

\* The return stack's top is a word when there is one.
LEMMA RTopIsWord ==
    RegistersOK /\ rsp < RStackTop => rsp \in RStack /\ mem[rsp] \in Word
  BY LayoutAssumption DEF RegistersOK, Memory, Cells, RStack

(***************************************************************************)
(* The building blocks of the handlers keep the types.                     *)
(***************************************************************************)

LEMMA UndefinedTyped == RegistersOK /\ Undefined => RegistersOK'
  BY DEF RegistersOK, Undefined, Exceptions

LEMMA RaiseTyped == \A e \in Exceptions : RegistersOK /\ Raise(e) => RegistersOK'
<1> SUFFICES ASSUME NEW e \in Exceptions, RegistersOK, Raise(e)
             PROVE  RegistersOK'
  OBVIOUS
<1>1. (pc + 1) % Modulus \in Word
  BY ModIsWord, ModulusAssumption DEF RegistersOK, Word
<1> QED BY <1>1 DEF RegistersOK, Raise

LEMMA UnderflowTyped == \A n : RegistersOK /\ Underflow(n) => RegistersOK'
  BY RaiseTyped DEF Underflow, Exceptions

LEMMA RUnderflowTyped == RegistersOK /\ RUnderflow => RegistersOK'
  BY RaiseTyped DEF RUnderflow, Exceptions

\* Moving on to any integer address and changing the stacks within their types.
LEMMA GotoTyped ==
    ASSUME RegistersOK, NEW a \in Int, Goto(a), mem' \in [Memory -> Word],
           sp' \in StackLo .. StackTop, rsp' \in Int /\ rsp' >= RStackLo
    PROVE  RegistersOK'
<1>1. a % Modulus \in Word
  BY ModIsWord
<1> QED BY <1>1 DEF RegistersOK, Goto

LEMMA PushTyped ==
    ASSUME RegistersOK, NEW v \in Word, NEW a \in Int, Push(v), Goto(a)
    PROVE  RegistersOK'
<1>1. sp' \in StackLo .. StackTop /\ rsp' \in Int /\ rsp' >= RStackLo
  BY LayoutAssumption DEF RegistersOK, Push, Full
<1>2. mem' \in [Memory -> Word]
  BY DEF RegistersOK, Push
<1> QED BY <1>1, <1>2, GotoTyped

LEMMA BinaryTyped ==
    ASSUME RegistersOK, NEW op, NEW r, Holds(2) => r \in Word, Binary(op, r)
    PROVE  RegistersOK'
<1>1. CASE Underflow(2)
  BY <1>1, UnderflowTyped
<1>2. CASE /\ Holds(2) /\ mem' = [mem EXCEPT ![sp + 1] = r] /\ sp' = sp + 1
           /\ Goto(pc + 1) /\ UNCHANGED rsp
  <2>1. sp' \in StackLo .. StackTop /\ rsp' \in Int /\ rsp' >= RStackLo
    BY <1>2, LayoutAssumption DEF RegistersOK, Holds
  <2>2. mem' \in [Memory -> Word]
    BY <1>2 DEF RegistersOK
  <2>3. pc + 1 \in Int
    BY ModulusAssumption DEF RegistersOK, Word
  <2> QED BY <1>2, <2>1, <2>2, <2>3, GotoTyped
<1> QED BY <1>1, <1>2 DEF Binary

LEMMA DividingTyped ==
    ASSUME RegistersOK, NEW op, NEW r, Holds(2) /\ TOS # 0 => r \in Word, Dividing(op, r)
    PROVE  RegistersOK'
<1>1. CASE Underflow(2)
  BY <1>1, UnderflowTyped
<1>2. CASE Raise("ZERO_DIVISION")
  BY <1>2, RaiseTyped DEF Exceptions
<1>3. CASE /\ Holds(2) /\ TOS # 0 /\ mem' = [mem EXCEPT ![sp + 1] = r] /\ sp' = sp + 1
           /\ Goto(pc + 1) /\ UNCHANGED rsp
  <2>1. sp' \in StackLo .. StackTop /\ rsp' \in Int /\ rsp' >= RStackLo
    BY <1>3, LayoutAssumption DEF RegistersOK, Holds
  <2>2. mem' \in [Memory -> Word]
    BY <1>3 DEF RegistersOK
  <2>3. pc + 1 \in Int
    BY ModulusAssumption DEF RegistersOK, Word
  <2> QED BY <1>3, <2>1, <2>2, <2>3, GotoTyped
<1> QED BY <1>1, <1>2, <1>3 DEF Dividing

(***************************************************************************)
(* One lemma per group of handlers: each keeps the types.                  *)
(***************************************************************************)

\* Addresses used by the handlers are integers.
LEMMA PcIsInt == RegistersOK => pc \in Nat /\ pc + 1 \in Int /\ pc + 2 \in Int
  BY ModulusAssumption DEF RegistersOK, Word

\* A word is an integer.
LEMMA WordIsInt == \A w \in Word : w \in Int
  BY ModulusAssumption DEF Word

LEMMA ArithmeticTyped ==
    RegistersOK /\ (vm_add \/ vm_sub \/ vm_mul \/ vm_div \/ vm_mod) => RegistersOK'
<1> SUFFICES ASSUME RegistersOK, vm_add \/ vm_sub \/ vm_mul \/ vm_div \/ vm_mod
             PROVE  RegistersOK'
  OBVIOUS
<1>1. Holds(2) => TOS \in Word /\ NOS \in Word /\ TOS \in Int /\ NOS \in Int
  BY TopsAreWords, WordIsInt
<1>2. Holds(2) => /\ (NOS + TOS) % Modulus \in Word
                  /\ (NOS - TOS) % Modulus \in Word
                  /\ (NOS * TOS) % Modulus \in Word
  <2> DEFINE t == TOS
             n == NOS
  <2>1. ASSUME t \in Int, n \in Int PROVE n + t \in Int /\ n - t \in Int /\ n * t \in Int
    <3> HIDE DEF t, n
    <3> QED BY <2>1
  <2> QED BY <1>1, <2>1, ModIsWord
<1>3. Holds(2) /\ TOS # 0 => NOS \div TOS \in Word /\ NOS % TOS \in Word
  BY <1>1, QuotientIsWord
<1>4. CASE vm_add
  BY <1>2, <1>4, BinaryTyped DEF vm_add
<1>5. CASE vm_sub
  BY <1>2, <1>5, BinaryTyped DEF vm_sub
<1>6. CASE vm_mul
  BY <1>2, <1>6, BinaryTyped DEF vm_mul
<1>7. CASE vm_div
  BY <1>3, <1>7, DividingTyped DEF vm_div
<1>8. CASE vm_mod
  BY <1>3, <1>8, DividingTyped DEF vm_mod
<1> QED BY <1>4, <1>5, <1>6, <1>7, <1>8

LEMMA LogicTyped ==
    RegistersOK /\ (vm_and \/ vm_or \/ vm_xor \/ vm_less \/ vm_greater) => RegistersOK'
<1> SUFFICES ASSUME RegistersOK, vm_and \/ vm_or \/ vm_xor \/ vm_less \/ vm_greater
             PROVE  RegistersOK'
  OBVIOUS
<1>1. Holds(2) => XorWord(NOS, TOS) \in Word
  BY TopsAreWords, XorAssumption
<1>2. /\ Truth(NOS # 0 /\ TOS # 0) \in Word
      /\ Truth(NOS # 0 \/ TOS # 0) \in Word
      /\ Truth(AsInt(NOS) < AsInt(TOS)) \in Word
      /\ Truth(AsInt(NOS) > AsInt(TOS)) \in Word
  BY ModulusAssumption DEF Truth, True, False, Word
<1>3. CASE vm_and
  BY <1>2, <1>3, BinaryTyped DEF vm_and
<1>4. CASE vm_or
  BY <1>2, <1>4, BinaryTyped DEF vm_or
<1>5. CASE vm_xor
  BY <1>1, <1>5, BinaryTyped DEF vm_xor
<1>6. CASE vm_less
  BY <1>2, <1>6, BinaryTyped DEF vm_less
<1>7. CASE vm_greater
  BY <1>2, <1>7, BinaryTyped DEF vm_greater
<1> QED BY <1>3, <1>4, <1>5, <1>6, <1>7

LEMMA PushingTyped == RegistersOK /\ (vm_push \/ vm_pc \/ vm_sp) => RegistersOK'
<1> SUFFICES ASSUME RegistersOK, vm_push \/ vm_pc \/ vm_sp
             PROVE  RegistersOK'
  OBVIOUS
<1>1. CASE Undefined
  BY <1>1, UndefinedTyped
<1>2. CASE Readable(pc + 1) /\ Push(Load(pc + 1)) /\ Goto(pc + 2)
  BY <1>2, LoadIsWord, PcIsInt, PushTyped
<1>3. CASE Push(RegPC) /\ Goto(pc + 1)
  BY <1>3, LayoutAssumption, PcIsInt, PushTyped
<1>4. CASE Push(RegSP) /\ Goto(pc + 1)
  BY <1>4, LayoutAssumption, PcIsInt, PushTyped
<1> QED BY <1>1, <1>2, <1>3, <1>4 DEF vm_push, vm_pc, vm_sp

LEMMA MemoryTyped == RegistersOK /\ (vm_load \/ vm_str) => RegistersOK'
<1> SUFFICES ASSUME RegistersOK, vm_load \/ vm_str
             PROVE  RegistersOK'
  OBVIOUS
<1>1. CASE Undefined
  BY <1>1, UndefinedTyped
<1>2. CASE \E n \in {1, 2} : Underflow(n)
  BY <1>2, UnderflowTyped
<1>3. CASE /\ Holds(1) /\ Readable(TOS) /\ mem' = [mem EXCEPT ![sp] = Load(TOS)]
           /\ Goto(pc + 1) /\ UNCHANGED <<sp, rsp>>
  <2>1. mem' \in [Memory -> Word]
    BY <1>3, LoadIsWord DEF RegistersOK
  <2> QED BY <1>3, <2>1, PcIsInt, GotoTyped DEF RegistersOK
<1>4. CASE /\ Holds(2) /\ Writable(TOS) /\ mem' = [mem EXCEPT ![TOS] = NOS]
           /\ sp' = sp + 2 /\ Goto(pc + 1) /\ UNCHANGED rsp
  <2>1. mem' \in [Memory -> Word]
    BY <1>4, TopsAreWords DEF RegistersOK
  <2>2. sp' \in StackLo .. StackTop
    BY <1>4, LayoutAssumption DEF RegistersOK, Holds
  <2> QED BY <1>4, <2>1, <2>2, PcIsInt, GotoTyped DEF RegistersOK
<1> QED BY <1>1, <1>2, <1>3, <1>4 DEF vm_load, vm_str

LEMMA DroppingTyped == RegistersOK /\ (vm_jmp \/ vm_it \/ vm_drop \/ vm_swap) => RegistersOK'
<1> SUFFICES ASSUME RegistersOK, vm_jmp \/ vm_it \/ vm_drop \/ vm_swap
             PROVE  RegistersOK'
  OBVIOUS
<1>1. CASE \E n \in {1, 2} : Underflow(n)
  BY <1>1, UnderflowTyped
<1>2. CASE /\ Holds(1) /\ sp' = sp + 1 /\ UNCHANGED <<mem, rsp>>
           /\ \E a \in Int : Goto(a)
  <2>1. sp' \in StackLo .. StackTop
    BY <1>2, LayoutAssumption DEF RegistersOK, Holds
  <2> QED BY <1>2, <2>1, GotoTyped DEF RegistersOK
<1>3. CASE vm_swap /\ Holds(2)
  <2> DEFINE x == XorWord(TOS, NOS)
  <2>1. x \in Word /\ XorWord(NOS, x) \in Word /\ XorWord(x, XorWord(NOS, x)) \in Word
    BY <1>3, TopsAreWords, XorAssumption
  <2>2. ~Underflow(2)
    BY <1>3, LayoutAssumption DEF Underflow, Holds, RegistersOK
  <2>3. mem' = SwapCells(x, XorWord(NOS, x)) /\ Goto(pc + 1) /\ UNCHANGED <<sp, rsp>>
    BY <1>3, <2>2 DEF vm_swap
  <2>4. mem' \in [Memory -> Word]
    <3> HIDE DEF x
    <3> QED BY <2>1, <2>3 DEF SwapCells, RegistersOK
  <2> QED BY <2>3, <2>4, PcIsInt, GotoTyped DEF RegistersOK
<1>4. Holds(1) => TOS \in Int
  BY TopsAreWords, WordIsInt
<1>5. pc + 1 \in Int /\ pc + 7 \in Int
  BY PcIsInt
<1>6. CASE vm_jmp
  BY <1>1, <1>2, <1>4, <1>6 DEF vm_jmp
<1>7. CASE vm_it
  BY <1>1, <1>2, <1>5, <1>7 DEF vm_it
<1>8. CASE vm_drop
  BY <1>1, <1>2, <1>5, <1>8 DEF vm_drop
<1>9. CASE vm_swap
  BY <1>1, <1>3, <1>9 DEF vm_swap
<1> QED BY <1>6, <1>7, <1>8, <1>9

LEMMA RStackTyped ==
    RegistersOK /\ (vm_ret \/ vm_call \/ vm_rdrop \/ vm_rpush \/ vm_rpop) => RegistersOK'
<1> SUFFICES ASSUME RegistersOK, vm_ret \/ vm_call \/ vm_rdrop \/ vm_rpush \/ vm_rpop
             PROVE  RegistersOK'
  OBVIOUS
<1>1. CASE Undefined
  BY <1>1, UndefinedTyped
<1>2. CASE Underflow(1) \/ RUnderflow
  BY <1>2, UnderflowTyped, RUnderflowTyped
<1>3. CASE Raise("BYE")
  BY <1>3, RaiseTyped DEF Exceptions
<1>4. rsp - 1 \in RStack => rsp - 1 \in Int /\ rsp - 1 >= RStackLo
  BY LayoutAssumption DEF RStack, RegistersOK
<1>5. Holds(1) => sp + 1 \in StackLo .. StackTop
  BY LayoutAssumption DEF RegistersOK, Holds
<1>6. rsp < RStackTop => rsp + 1 \in Int /\ rsp + 1 >= RStackLo /\ rsp <= RStackTop - 1
  BY LayoutAssumption DEF RegistersOK
<1>7. CASE vm_ret /\ rsp < RStackTop /\ rsp' = rsp + 1 /\ Goto(mem[rsp] + 1)
           /\ UNCHANGED <<mem, sp>>
  <2>1. mem[rsp] + 1 \in Int
    BY <1>7, RTopIsWord, WordIsInt
  <2> QED BY <1>6, <1>7, <2>1, GotoTyped DEF RegistersOK
<1>8. CASE /\ Holds(1) /\ ~RFull /\ sp' = sp + 1 /\ rsp' = rsp - 1
           /\ mem' = [mem EXCEPT ![rsp - 1] = pc] /\ Goto(TOS)
  <2>1. TOS \in Int
    BY <1>8, TopsAreWords, WordIsInt
  <2>2. mem' \in [Memory -> Word]
    BY <1>8 DEF RegistersOK
  <2> QED BY <1>4, <1>5, <1>8, <2>1, <2>2, GotoTyped DEF RFull
<1>9. CASE rsp <= RStackTop - 1 /\ rsp' = rsp + 1 /\ Goto(pc + 1) /\ UNCHANGED <<mem, sp>>
  <2>1. rsp + 1 \in Int /\ rsp + 1 >= RStackLo
    BY <1>9, LayoutAssumption DEF RegistersOK
  <2> QED BY <1>9, <2>1, PcIsInt, GotoTyped DEF RegistersOK
<1>10. CASE /\ Holds(1) /\ ~RFull /\ sp' = sp + 1 /\ rsp' = rsp - 1
            /\ mem' = [mem EXCEPT ![rsp - 1] = TOS] /\ Goto(pc + 1)
  <2>1. mem' \in [Memory -> Word]
    BY <1>10, TopsAreWords DEF RegistersOK
  <2> QED BY <1>4, <1>5, <1>10, <2>1, PcIsInt, GotoTyped DEF RFull
<1>11. CASE /\ rsp <= RStackTop - 1 /\ ~Full /\ rsp' = rsp + 1 /\ sp' = sp - 1
            /\ mem' = [mem EXCEPT ![sp - 1] = mem[rsp]] /\ Goto(pc + 1)
  <2>1. rsp < RStackTop /\ rsp + 1 \in Int /\ rsp + 1 >= RStackLo /\ sp - 1 \in StackLo .. StackTop
    BY <1>11, LayoutAssumption DEF RegistersOK, Full
  <2>2. mem' \in [Memory -> Word]
    BY <1>11, <2>1, RTopIsWord DEF RegistersOK
  <2> QED BY <1>11, <2>1, <2>2, PcIsInt, GotoTyped
<1>12. CASE vm_ret
  BY <1>3, <1>7, <1>12 DEF vm_ret
<1>13. CASE vm_call
  BY <1>1, <1>2, <1>8, <1>13 DEF vm_call
<1>14. CASE vm_rdrop
  BY <1>2, <1>9, <1>14 DEF vm_rdrop
<1>15. CASE vm_rpush
  BY <1>1, <1>2, <1>10, <1>15 DEF vm_rpush
<1>16. CASE vm_rpop
  BY <1>1, <1>2, <1>11, <1>16 DEF vm_rpop
<1> QED BY <1>12, <1>13, <1>14, <1>15, <1>16

LEMMA OtherInstructionsTyped ==
    RegistersOK /\ (vm_none \/ vm_c_exec \/ vm_quit \/ BadFetch) => RegistersOK'
<1> SUFFICES ASSUME RegistersOK, vm_none \/ vm_c_exec \/ vm_quit \/ BadFetch
             PROVE  RegistersOK'
  OBVIOUS
<1>1. CASE Undefined
  BY <1>1, UndefinedTyped
<1>2. CASE vm_none
  BY <1>2, PcIsInt, GotoTyped DEF vm_none, RegistersOK
<1>3. CASE vm_quit
  BY <1>3, RaiseTyped DEF vm_quit, Exceptions
<1>4. CASE vm_c_exec
  <2>1. CASE Underflow(1)
    BY <2>1, UnderflowTyped
  <2>2. CASE Holds(1) /\ sp' = sp + 1 /\ flags' = flags \cup {"MEMFAULT"}
             /\ pc' = (pc + 1) % Modulus /\ UNCHANGED <<mem, rsp, status, code>>
    <3>1. sp' \in StackLo .. StackTop
      BY <2>2, LayoutAssumption DEF RegistersOK, Holds
    <3>2. pc' \in Word
      BY <2>2, PcIsInt, ModIsWord
    <3>3. flags' \subseteq Exceptions
      BY <2>2 DEF RegistersOK, Exceptions
    <3> QED BY <2>2, <3>1, <3>2, <3>3 DEF RegistersOK
  <2> QED BY <1>1, <1>4, <2>1, <2>2 DEF vm_c_exec
<1>5. CASE BadFetch
  BY <1>1, <1>5 DEF BadFetch
<1> QED BY <1>2, <1>3, <1>4, <1>5

\* The exception vm_start reports is one of those raised.
LEMMA ReportedIsRaised ==
    \A raised \in SUBSET Exceptions : raised # {} => Reported(raised) \in raised
<1> SUFFICES ASSUME NEW raised \in SUBSET Exceptions, raised # {}
             PROVE  Reported(raised) \in raised
  OBVIOUS
<1> DEFINE P(i) == Severity[i] \in raised /\ \A j \in 1 .. (i - 1) : Severity[j] \notin raised
<1>1. \E i \in 1 .. 5 : P(i)
  <2>1. \E i \in 1 .. 5 : Severity[i] \in raised
    <3>1. PICK e \in raised : e \in Exceptions
      OBVIOUS
    <3>2. /\ Severity[1] = "BYE" /\ Severity[2] = "STACK_UNDERFLOW"
          /\ Severity[3] = "RSTACK_UNDERFLOW" /\ Severity[4] = "ZERO_DIVISION"
          /\ Severity[5] = "MEMFAULT"
      BY DEF Severity
    <3> QED BY <3>1, <3>2 DEF Exceptions
  <2>2. CASE Severity[1] \in raised
    BY <2>2
  <2>3. CASE Severity[1] \notin raised /\ Severity[2] \in raised
    BY <2>3
  <2>4. CASE Severity[1] \notin raised /\ Severity[2] \notin raised /\ Severity[3] \in raised
    BY <2>4
  <2>5. CASE /\ Severity[1] \notin raised /\ Severity[2] \notin raised
             /\ Severity[3] \notin raised /\ Severity[4] \in raised
    BY <2>5
  <2>6. CASE /\ Severity[1] \notin raised /\ Severity[2] \notin raised
             /\ Severity[3] \notin raised /\ Severity[4] \notin raised
    BY <2>1, <2>6
  <2> QED BY <2>2, <2>3, <2>4, <2>5, <2>6
<1> QED BY <1>1 DEF Reported

(***************************************************************************)
(* All of them together.                                                   *)
(***************************************************************************)

LEMMA InstructionTyped == RegistersOK /\ Instruction => RegistersOK'
  BY ArithmeticTyped, LogicTyped, PushingTyped, MemoryTyped, DroppingTyped,
     RStackTyped, OtherInstructionsTyped
  DEF Instruction

LEMMA LeaveTyped == RegistersOK /\ Leave => RegistersOK'
<1> SUFFICES ASSUME RegistersOK, Leave PROVE RegistersOK'
  OBVIOUS
<1>1. code' \in Exceptions
  BY ReportedIsRaised DEF Leave, RegistersOK
<1>2. rsp' \in Int /\ rsp' >= RStackLo
  BY LayoutAssumption DEF Leave
<1> QED BY <1>1, <1>2 DEF Leave, RegistersOK

\* vm_init leaves a machine with empty stacks and zeroed stack storage.
LEMMA MachineInitTyped ==
    ASSUME NEW image \in [Ram -> Word], vm_init(image)
    PROVE  TypeOK
<1>1. 0 \in Word
  BY ModulusAssumption DEF Word
<1>2. mem \in [Memory -> Word]
  BY <1>1, RomAssumption DEF vm_init, Memory, Cells
<1> QED BY <1>1, <1>2, LayoutAssumption DEF vm_init, TypeOK, RegistersOK

\* No instruction takes rsp past its top.
LEMMA InstructionBounded == TypeOK /\ Instruction => rsp' <= RStackTop
<1> SUFFICES ASSUME TypeOK, Instruction PROVE rsp' <= RStackTop
  OBVIOUS
<1>1. rsp \in Int /\ rsp <= RStackTop /\ RStackTop \in Int
  BY LayoutAssumption DEF TypeOK, RegistersOK
<1>2. \/ rsp' = rsp
      \/ rsp' = rsp + 1 /\ (rsp < RStackTop \/ rsp <= RStackTop - 1)
      \/ rsp' = rsp - 1
  BY DEF Instruction, vm_none, vm_push, vm_ret, vm_call, vm_c_exec, vm_jmp, vm_pc,
         vm_sp, vm_add, vm_sub, vm_mul, vm_div, vm_mod, vm_and, vm_or, vm_xor,
         vm_load, vm_less, vm_greater, vm_str, vm_it, vm_drop, vm_rdrop, vm_swap,
         vm_rpush, vm_rpop, vm_quit, BadFetch, Raise, Undefined, Push,
         Underflow, RUnderflow, Binary, Dividing
<1> QED BY <1>1, <1>2

(***************************************************************************)
(* Instructions leave every cell its place and the machine running.        *)
(***************************************************************************)

\* A step keeps the set of cells, and leaves the machine running or undefined.
Stays == DOMAIN mem' = DOMAIN mem /\ status' \in {status, "undefined"}

LEMMA BinaryStays ==
    ASSUME NEW op, NEW v, Binary(op, v)
    PROVE  status = "running" /\ Stays
  BY DEF Binary, Executing, Underflow, Raise, Goto, Stays

LEMMA DividingStays ==
    ASSUME NEW op, NEW v, Dividing(op, v)
    PROVE  status = "running" /\ Stays
  BY DEF Dividing, Executing, Underflow, Raise, Goto, Stays

\* No instruction stops the machine: one that raises leaves that to Leave.
LEMMA InstructionStays ==
    ASSUME Instruction
    PROVE  status = "running" /\ Stays
<1>1. CASE vm_none
  BY <1>1 DEF vm_none, Executing, Push, Underflow, RUnderflow, Raise, Goto, Undefined, SwapCells, Stays
<1>2. CASE vm_push
  BY <1>2 DEF vm_push, Executing, Push, Underflow, RUnderflow, Raise, Goto, Undefined, SwapCells, Stays
<1>3. CASE vm_ret
  BY <1>3 DEF vm_ret, Executing, Push, Underflow, RUnderflow, Raise, Goto, Undefined, SwapCells, Stays
<1>4. CASE vm_call
  BY <1>4 DEF vm_call, Executing, Push, Underflow, RUnderflow, Raise, Goto, Undefined, SwapCells, Stays
<1>5. CASE vm_c_exec
  BY <1>5 DEF vm_c_exec, Executing, Push, Underflow, RUnderflow, Raise, Goto, Undefined, SwapCells, Stays
<1>6. CASE vm_jmp
  BY <1>6 DEF vm_jmp, Executing, Push, Underflow, RUnderflow, Raise, Goto, Undefined, SwapCells, Stays
<1>7. CASE vm_pc
  BY <1>7 DEF vm_pc, Executing, Push, Underflow, RUnderflow, Raise, Goto, Undefined, SwapCells, Stays
<1>8. CASE vm_sp
  BY <1>8 DEF vm_sp, Executing, Push, Underflow, RUnderflow, Raise, Goto, Undefined, SwapCells, Stays
<1>9. CASE vm_add
  BY <1>9, BinaryStays DEF vm_add
<1>10. CASE vm_sub
  BY <1>10, BinaryStays DEF vm_sub
<1>11. CASE vm_mul
  BY <1>11, BinaryStays DEF vm_mul
<1>12. CASE vm_div
  BY <1>12, DividingStays DEF vm_div
<1>13. CASE vm_mod
  BY <1>13, DividingStays DEF vm_mod
<1>14. CASE vm_and
  BY <1>14, BinaryStays DEF vm_and
<1>15. CASE vm_or
  BY <1>15, BinaryStays DEF vm_or
<1>16. CASE vm_xor
  BY <1>16, BinaryStays DEF vm_xor
<1>17. CASE vm_load
  BY <1>17 DEF vm_load, Executing, Push, Underflow, RUnderflow, Raise, Goto, Undefined, SwapCells, Stays
<1>18. CASE vm_less
  BY <1>18, BinaryStays DEF vm_less
<1>19. CASE vm_greater
  BY <1>19, BinaryStays DEF vm_greater
<1>20. CASE vm_str
  BY <1>20 DEF vm_str, Executing, Push, Underflow, RUnderflow, Raise, Goto, Undefined, SwapCells, Stays
<1>21. CASE vm_it
  BY <1>21 DEF vm_it, Executing, Push, Underflow, RUnderflow, Raise, Goto, Undefined, SwapCells, Stays
<1>22. CASE vm_drop
  BY <1>22 DEF vm_drop, Executing, Push, Underflow, RUnderflow, Raise, Goto, Undefined, SwapCells, Stays
<1>23. CASE vm_rdrop
  BY <1>23 DEF vm_rdrop, Executing, Push, Underflow, RUnderflow, Raise, Goto, Undefined, SwapCells, Stays
<1>24. CASE vm_swap
  BY <1>24 DEF vm_swap, Executing, Push, Underflow, RUnderflow, Raise, Goto, Undefined, SwapCells, Stays
<1>25. CASE vm_rpush
  BY <1>25 DEF vm_rpush, Executing, Push, Underflow, RUnderflow, Raise, Goto, Undefined, SwapCells, Stays
<1>26. CASE vm_rpop
  BY <1>26 DEF vm_rpop, Executing, Push, Underflow, RUnderflow, Raise, Goto, Undefined, SwapCells, Stays
<1>27. CASE vm_quit
  BY <1>27 DEF vm_quit, Executing, Push, Underflow, RUnderflow, Raise, Goto, Undefined, SwapCells, Stays
<1>28. CASE BadFetch
  BY <1>28 DEF BadFetch, Undefined, Stays
<1>29. QED
  BY <1>1, <1>2, <1>3, <1>4, <1>5, <1>6, <1>7, <1>8, <1>9,
     <1>10, <1>11, <1>12, <1>13, <1>14, <1>15, <1>16, <1>17, <1>18,
     <1>19, <1>20, <1>21, <1>22, <1>23, <1>24, <1>25, <1>26, <1>27,
     <1>28 DEF Instruction

=============================================================================
