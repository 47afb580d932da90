----------------------------- MODULE IRMachine -----------------------------
(***************************************************************************)
(* The x86 process running what translateIRarray emits for an IR array     *)
(* (Backend/source/backend_x86_64.c): one action is the instructions of    *)
(* one IR node.  Addresses are 8-byte words relative to rsp at _start, the *)
(* stack grows down.  A word holds a number or one of the two things the   *)
(* code itself keeps on the stack, a return address and a caller's rbp;    *)
(* using one as another is the machine going wild, and nothing is said of  *)
(* what follows.  Doubles are integers here: the programs run stay within  *)
(* the integers a double holds exactly.                                    *)
(***************************************************************************)
EXTENDS IRNodes, FiniteSets

CONSTANTS
  StackWords,  \* words below _start's rsp the kernel maps
  StdlibIn, StdlibOut

VARIABLES
  ir,          \* the code
  names,       \* name table: argsCount of the callee
  mem, rsp, rbp, rbx, rax,
  pc,          \* IR node being executed
  afterCall,   \* the call instruction of node pc has returned
  input, out,  \* numbers still to be read and numbers printed
  process,     \* "running", "exit", "segv" or "wild"
  calls        \* history: [back, rsp, rbp] of every unfinished call

machineVars ==
  <<mem, rsp, rbp, rbx, rax, pc, afterCall, input, out, process, calls>>

Words == -StackWords..-1
Num(n)   == [holds |-> "num", v |-> n]
Ret(k)   == [holds |-> "ret", v |-> k]
Saved(a) == [holds |-> "rbp", v |-> a]
Junk     == [holds |-> "junk", v |-> 0]

MachineInit ==
  /\ mem = [a \in Words |-> Junk]
  /\ rsp = 0 /\ rbp = 0 /\ rbx = 0 /\ rax = Junk
  /\ pc = 1 /\ afterCall = FALSE
  /\ out = <<>> /\ process = "running" /\ calls = <<>>

-----------------------------------------------------------------------------
Node == ir[pc]
Executing(type) == process = "running" /\ ~afterCall /\ Node.type = type

Step   == pc' = pc + 1 /\ afterCall' = FALSE
Stop(how) ==
  /\ process' = how
  /\ UNCHANGED <<mem, rsp, rbp, rbx, rax, pc, afterCall, input, out, calls>>

Mapped(a) == a \in Words
IsNum(a)  == mem[a].holds = "num"
Quiet     == UNCHANGED <<rbx, input, out, process, calls>>

(* Push a word; a push below the mapped stack kills the process.           *)
PushWord(word) ==
  \/ ~Mapped(rsp - 1) /\ Stop("segv")
  \/ /\ Mapped(rsp - 1)
     /\ mem' = [mem EXCEPT ![rsp - 1] = word]
     /\ rsp' = rsp - 1
     /\ Step
     /\ UNCHANGED <<rbp, rax>> /\ Quiet

(* IR_START saves rsp as the base of the global variables.                 *)
ExecStart ==
  /\ Executing("START")
  /\ rbx' = rsp
  /\ Step
  /\ UNCHANGED <<mem, rsp, rbp, rax, input, out, process, calls>>

ExecNothing ==
  /\ process = "running" /\ ~afterCall /\ Node.type \in {"NOP", "LABEL"}
  /\ Step
  /\ UNCHANGED <<mem, rsp, rbp, rax>> /\ Quiet

-----------------------------------------------------------------------------
Bool(b) == IF b THEN 1 ELSE 0

Root(x) == CHOOSE r \in 0..x : r * r = x

(* op a, b: a was pushed first, so it lies at rsp+1 and b at rsp.          *)
Result(op, cmp, a, b) ==
  CASE op = "ADD" -> a + b
    [] op = "SUB" -> a - b
    [] op = "MUL" -> a * b
    [] op = "DIV" -> a \div b
    [] op = "CMP" -> Bool(CASE cmp = "LT"  -> a < b
                            [] cmp = "GT"  -> a > b
                            [] cmp = "LE"  -> a <= b
                            [] cmp = "GE"  -> a >= b
                            [] cmp = "EQ"  -> a = b
                            [] cmp = "NEQ" -> a # b)

ExecBinary ==
  /\ process = "running" /\ ~afterCall
  /\ Node.type \in Binary \union {"CMP"}
  /\ IF Mapped(rsp) /\ Mapped(rsp + 1) /\ IsNum(rsp) /\ IsNum(rsp + 1)
     THEN /\ mem' = [mem EXCEPT ![rsp + 1] =
                       Num(Result(Node.type, Node.arg, mem[rsp + 1].v, mem[rsp].v))]
          /\ rsp' = rsp + 1
          /\ Step
          /\ UNCHANGED <<rbp, rax>> /\ Quiet
     ELSE Stop("wild")

ExecSqrt ==
  /\ Executing("SQRT")
  /\ IF Mapped(rsp) /\ IsNum(rsp)
     THEN /\ mem' = [mem EXCEPT ![rsp] = Num(Root(@.v))]
          /\ Step
          /\ UNCHANGED <<rsp, rbp, rax>> /\ Quiet
     ELSE Stop("wild")

-----------------------------------------------------------------------------
Operand == (IF Node.local THEN rbp ELSE rbx) + Node.addr

ExecPush ==
  /\ Executing("PUSH")
  /\ CASE Node.arg = "imm" -> PushWord(Num(Node.addr))
       [] Node.arg = "reg" -> PushWord(rax)
       [] Node.arg = "mem" -> IF Mapped(Operand) THEN PushWord(mem[Operand])
                                                 ELSE Stop("segv")

ExecPop ==
  /\ Executing("POP")
  /\ IF Mapped(rsp) /\ Mapped(Operand)
     THEN /\ mem' = [mem EXCEPT ![Operand] = mem[rsp]]
          /\ rsp' = rsp + 1
          /\ Step
          /\ UNCHANGED <<rbp, rax>> /\ Quiet
     ELSE Stop("segv")

(* A declaration only moves rsp: the variable starts with what the word    *)
(* held before.                                                            *)
ExecVarDecl ==
  /\ Executing("VAR_DECL")
  /\ rsp' = rsp - 1
  /\ Step
  /\ UNCHANGED <<mem, rbp, rax>> /\ Quiet

ExecLeaveScope ==
  /\ Executing("LEAVE_SCOPE")
  /\ rsp' = rsp + Node.addr
  /\ Step
  /\ UNCHANGED <<mem, rbp, rax>> /\ Quiet

ExecJmp ==
  /\ Executing("JMP")
  /\ pc' = Node.addr
  /\ UNCHANGED <<mem, rsp, rbp, rax, afterCall>> /\ Quiet

ExecJz ==
  /\ Executing("JZ")
  /\ IF Mapped(rsp) /\ IsNum(rsp)
     THEN /\ pc' = IF mem[rsp].v = 0 THEN Node.addr ELSE pc + 1
          /\ rsp' = rsp + 1
          /\ UNCHANGED <<mem, rbp, rax, afterCall>> /\ Quiet
     ELSE Stop("wild")

-----------------------------------------------------------------------------
(* Calls.  A function without a label keeps the calloc'ed address 0, that  *)
(* of IR_START; TwoPass checks the addresses.                              *)
CallTarget(k) ==
  IF NoLabelBefore(ir, Len(ir) + 1, ir[k].addr) THEN 1
  ELSE CHOOSE m \in 1..Len(ir) : CallGoesTo(ir, k, m)

ExecCall ==
  /\ Executing("CALL") /\ Node.addr \notin {StdlibIn, StdlibOut}
  /\ \/ ~Mapped(rsp - 1) /\ Stop("segv")
     \/ /\ Mapped(rsp - 1)
        /\ mem' = [mem EXCEPT ![rsp - 1] = Ret(pc)]
        /\ rsp' = rsp - 1
        /\ pc' = CallTarget(pc)
        /\ calls' = <<[back |-> pc, rsp |-> rsp, rbp |-> rbp]>> \o calls
        /\ UNCHANGED <<rbp, rbx, rax, afterCall, input, out, process>>

(* The second instruction of the node, `add rsp, argsCount * 8'.           *)
ExecDropArguments ==
  /\ process = "running" /\ afterCall
  /\ rsp' = rsp + names[Node.addr].argsCount
  /\ Step
  /\ UNCHANGED <<mem, rbp, rax>> /\ Quiet

ExecSetFramePtr ==
  /\ Executing("SET_FRAME_PTR")
  /\ \/ ~Mapped(rsp - 1) /\ Stop("segv")
     \/ /\ Mapped(rsp - 1)
        /\ mem' = [mem EXCEPT ![rsp - 1] = Saved(rbp)]
        /\ rsp' = rsp - 1
        /\ rbp' = rsp - 1
        /\ Step
        /\ UNCHANGED rax /\ Quiet

(* pop rax; mov rsp, rbp; pop rbp; ret                                     *)
ExecRet_KeepsFrame ==
  /\ Executing("RET")
  /\ rax' = mem[rsp]
  /\ rsp' = rbp + 2
  /\ pc' = mem[rbp + 1].v
  /\ afterCall' = TRUE
  /\ calls' = Tail(calls)
  /\ UNCHANGED <<mem, rbp, rbx, input, out, process>>

ExecRet ==
  /\ Executing("RET")
  /\ IF /\ Mapped(rsp) /\ Mapped(rbp) /\ Mapped(rbp + 1)
        /\ mem[rbp].holds = "rbp" /\ mem[rbp + 1].holds = "ret"
     THEN /\ rax' = mem[rsp]
          /\ rsp' = rbp + 2
          /\ rbp' = mem[rbp].v
          /\ pc' = mem[rbp + 1].v
          /\ afterCall' = TRUE
          /\ calls' = Tail(calls)
          /\ UNCHANGED <<mem, rbx, input, out, process>>
     ELSE Stop("wild")

(* The runtime functions of stdlib.s: a return address, the caller's rbp   *)
(* and a buffer below rsp, gone when they return with rsp, rbp and rbx as  *)
(* they were.  __stdlib_in waits for a number.                             *)
Scratch(n) == [a \in Words |-> IF a \in rsp-n..rsp-1 THEN Junk ELSE mem[a]]

ExecOut ==
  /\ Executing("CALL") /\ Node.addr = StdlibOut
  /\ IF Mapped(rsp) /\ IsNum(rsp)
     THEN \/ ~Mapped(rsp - 5) /\ Stop("segv")
          \/ /\ Mapped(rsp - 5)
             /\ out' = Append(out, mem[rsp].v)
             /\ mem' = Scratch(5)
             /\ rax' = Junk
             /\ afterCall' = TRUE
             /\ UNCHANGED <<rsp, rbp, rbx, pc, input, process, calls>>
     ELSE Stop("wild")

ExecIn ==
  /\ Executing("CALL") /\ Node.addr = StdlibIn
  /\ \/ ~Mapped(rsp - 3) /\ Stop("segv")
     \/ /\ Mapped(rsp - 3) /\ input # <<>>
        /\ rax' = Num(Head(input))
        /\ input' = Tail(input)
        /\ mem' = Scratch(3)
        /\ afterCall' = TRUE
        /\ UNCHANGED <<rsp, rbp, rbx, pc, out, process, calls>>

ExecExit == Executing("EXIT") /\ Stop("exit")

MachineNext ==
  \/ ExecStart \/ ExecNothing \/ ExecBinary \/ ExecSqrt
  \/ ExecPush \/ ExecPop \/ ExecVarDecl \/ ExecLeaveScope
  \/ ExecJmp \/ ExecJz
  \/ ExecCall \/ ExecDropArguments \/ ExecSetFramePtr \/ ExecRet
  \/ ExecOut \/ ExecIn \/ ExecExit
=============================================================================
