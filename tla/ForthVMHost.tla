---------------------------- MODULE ForthVMHost ----------------------------
(***************************************************************************)
(* The machine of ForthVM on its own, driven by a host as tests/vm_test.cpp *)
(* and src/forth/forth.c drive it: the host loads a program, may push      *)
(* arguments, calls vm_start, and clears the exception flags between runs  *)
(* if it cares to.                                                         *)
(***************************************************************************)
EXTENDS ForthVM

CONSTANTS
    Images,       \* what the RAM may hold when the machine is set up
    Entries,      \* addresses the host passes to vm_start
    HostWords,    \* arguments the host pushes before a run
    NativeWords,  \* values a C function pushes
    MaxStarts     \* bound on the number of calls of vm_start

ASSUME HostAssumption ==
    /\ Images \subseteq [Ram -> Word]
    /\ Entries \subseteq Word
    /\ HostWords \subseteq Word
    /\ NativeWords \subseteq Word
    /\ MaxStarts \in Nat

VARIABLE starts   \* number of calls of vm_start so far

hostVars == <<vmVars, starts>>

\* A C function called through C_EXEC that pushes one value.
test_func ==
    /\ \E h \in Natives : NativeCall(h)
    /\ \E v \in NativeWords : mem' = [mem EXCEPT ![sp] = v]
    /\ Goto(pc + 1)
    /\ UNCHANGED <<sp, rsp>>

HostStart ==
    /\ status = "idle" /\ starts < MaxStarts
    /\ starts' = starts + 1
    /\ \E a \in Entries : vm_start(a)
    /\ UNCHANGED <<mem, sp, rsp, flags, code>>

\* The host hands the next run an argument.
HostPush ==
    /\ status = "idle" /\ starts < MaxStarts
    /\ \E v \in HostWords : Push(v)
    /\ UNCHANGED <<pc, flags, status, code, starts>>

\* vm->exceptions_flags = 0 between two runs.
HostClear ==
    /\ status = "idle" /\ starts < MaxStarts /\ flags # {}
    /\ flags' = {}
    /\ UNCHANGED <<mem, sp, rsp, pc, status, code, starts>>

\* The model ends: its calls of vm_start are used up, or anything may happen.
Stopped ==
    /\ status = "undefined" \/ (status = "idle" /\ starts = MaxStarts)
    /\ UNCHANGED hostVars

Init == (\E image \in Images : vm_init(image)) /\ starts = 0

Machine == (Instruction \/ test_func \/ Leave) /\ UNCHANGED starts
Next == Machine \/ HostStart \/ HostPush \/ HostClear \/ Stopped

Spec == Init /\ [][Next]_hostVars

\* vm_start is a loop on the only thread: while it runs, it keeps running.
FairSpec == Spec /\ WF_hostVars(Machine)

-----------------------------------------------------------------------------
(* Properties. *)

\* An instruction that fails on an empty stack or a zero divisor has touched
\* nothing: the operands are still there for the report (vm.c tests before it
\* pops).
FaultKeepsOperands ==
    [][\A e \in {"STACK_UNDERFLOW", "RSTACK_UNDERFLOW", "ZERO_DIVISION"} :
         e \in flags' \ flags => UNCHANGED <<mem, sp, rsp>>]_hostVars

\* Once an exception is raised no further instruction takes effect: the next
\* step of vm_start empties the return stack and returns.
FaultEndsRun ==
    [][status = "running" /\ flags # {} =>
         /\ status' = "idle" /\ rsp' = RStackTop
         /\ UNCHANGED <<mem, sp, pc, flags>>]_hostVars

\* What an aborted run pushed on the return stack is never seen by the next
\* one, which therefore returns to its caller at its own last RET.
CleanRStack == status = "idle" => rsp = RStackTop

\* The three exclusive ors of vm_swap exchange the two top cells and change no
\* other cell.
SwapExchanges ==
    [][Executing(Op.SWAP) /\ Holds(2) =>
         mem' = [mem EXCEPT ![sp] = NOS, ![sp + 1] = TOS]]_hostVars

\* Every run of vm_start comes to an end, under the fairness of its loop (stated
\* for programs without endless loops: a wrong jump or return would spin or
\* leave the program).
RunsEnd == (status = "running") ~> (status = "idle")
=============================================================================
