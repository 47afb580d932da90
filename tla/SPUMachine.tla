----------------------------- MODULE SPUMachine -----------------------------
(***************************************************************************)
(* The stack processor that runs SPU assembler.  It is another program:    *)
(* what its instructions do is taken from how the back end uses them.      *)
(* PUSH and POP work on an operand stack; CALL keeps return addresses on a *)
(* stack of its own (the routines of translateAsmSTD find their operands   *)
(* on top after a CALL and leave their result there); a conditional jump   *)
(* takes the two topmost operands.  Numbers are integers.                  *)
(***************************************************************************)
EXTENDS SPUCode

CONSTANT RamWords  \* words of memory

VARIABLES
  code,
  ram, operands, returns, rbx, rax, pc,  \* operands and returns: topmost first
  input, out,  \* numbers still to be read and numbers printed
  process,     \* "running", "halt", "segv" (no such word) or "fault"
  bases        \* history: rbx as every unfinished call found it

machineVars == <<ram, operands, returns, rbx, rax, pc, input, out, process, bases>>

MachineInit ==
  /\ ram = [w \in 0..RamWords-1 |-> 0]
  /\ operands = <<>> /\ returns = <<>>
  /\ rbx = 0 /\ rax = 0 /\ pc = 1
  /\ out = <<>> /\ process = "running" /\ bases = <<>>

Instr == code[pc]
Executing(op) == process = "running" /\ Instr.op = op

Step  == pc' = pc + 1
Depth(n) == Len(operands) >= n
First    == operands[1]
Second   == operands[2]
Rest(n)  == SubSeq(operands, n + 1, Len(operands))

Stops(how) ==
  /\ process' = how
  /\ UNCHANGED <<ram, operands, returns, rbx, rax, pc, input, out, bases>>

Fault == Stops("fault")

Quiet == UNCHANGED <<returns, rax, input, out, process>>

(* Where a label is defined; the assembler refuses a jump to none.         *)
Defined(label) == \E k \in 1..Len(code) : code[k] = Mark(label)
LabelAt(label) == CHOOSE k \in 1..Len(code) : code[k] = Mark(label)

Word == Instr.n + IF Instr.arg = "local" THEN rbx ELSE 0
InRam(w) == w \in DOMAIN ram

ExecMark ==
  /\ process = "running" /\ Instr.op \in {"LABEL", "CHR"}
  /\ Step
  /\ UNCHANGED <<ram, operands, rbx, bases>> /\ Quiet

ExecPush ==
  /\ Executing("PUSH")
  /\ \/ Instr.arg \in {"local", "global"} /\ ~InRam(Word) /\ Stops("segv")
     \/ /\ Instr.arg \in {"local", "global"} => InRam(Word)
        /\ operands' = <<CASE Instr.arg = "num"  -> Instr.n
                           [] Instr.arg = "base" -> rbx
                           [] Instr.arg = "rbx"  -> rbx + Instr.n
                           [] Instr.arg = "rax"  -> rax
                           [] OTHER              -> ram[Word]>> \o operands
        /\ bases' = IF Instr.arg = "base" THEN <<rbx>> \o bases ELSE bases
        /\ Step
        /\ UNCHANGED <<ram, rbx>> /\ Quiet

(* The pop after a CALL is the one that restores rbx.                      *)
Restoring == pc > 1 /\ code[pc-1].op = "CALL"

ExecPop ==
  /\ Executing("POP")
  /\ \/ ~Depth(1) /\ Fault
     \/ Depth(1) /\ Instr.arg \in {"local", "global"} /\ ~InRam(Word) /\ Stops("segv")
     \/ /\ Depth(1)
        /\ Instr.arg \in {"local", "global"} /\ InRam(Word)
        /\ ram' = [ram EXCEPT ![Word] = First]
        /\ operands' = Rest(1)
        /\ Step
        /\ UNCHANGED <<rbx, bases>> /\ Quiet
     \/ /\ Depth(1) /\ Instr.arg = "rbx"
        /\ rbx' = First
        /\ bases' = IF Restoring THEN Tail(bases) ELSE bases
        /\ operands' = Rest(1)
        /\ Step
        /\ UNCHANGED ram /\ Quiet
     \/ /\ Depth(1) /\ Instr.arg = "rax"
        /\ rax' = First
        /\ operands' = Rest(1)
        /\ Step
        /\ UNCHANGED <<ram, rbx, bases, returns, input, out, process>>

-----------------------------------------------------------------------------
Root(x) == CHOOSE r \in 0..x : r * r = x

Result(op, x, y) ==
  CASE op = "ADD" -> x + y
    [] op = "SUB" -> x - y
    [] op = "MUL" -> x * y
    [] op = "DIV" -> x \div y

ExecArithmetic ==
  /\ process = "running" /\ Instr.op \in Arithmetic
  /\ IF Depth(2)
     THEN /\ operands' = <<Result(Instr.op, Second, First)>> \o Rest(2)
          /\ Step
          /\ UNCHANGED <<ram, rbx, bases>> /\ Quiet
     ELSE Fault

ExecSqrt ==
  /\ Executing("SQRT")
  /\ IF Depth(1)
     THEN /\ operands' = <<Root(First)>> \o Rest(1)
          /\ Step
          /\ UNCHANGED <<ram, rbx, bases>> /\ Quiet
     ELSE Fault

Taken(op, x, y) ==
  CASE op = "JE"  -> x = y
    [] op = "JNE" -> x # y
    [] op = "JB"  -> x < y
    [] op = "JA"  -> x > y
    [] op = "JAE" -> x >= y
    [] op = "JBE" -> x <= y

ExecJump ==
  /\ process = "running" /\ Instr.op \in Jumps
  /\ IF (Instr.op = "JMP" \/ Depth(2)) /\ Defined(Instr.to)
     THEN LET always == Instr.op = "JMP"
          IN /\ pc' = IF always \/ Taken(Instr.op, Second, First) THEN LabelAt(Instr.to)
                                                                   ELSE pc + 1
             /\ operands' = IF always THEN operands ELSE Rest(2)
             /\ UNCHANGED <<ram, rbx, bases>> /\ Quiet
     ELSE Fault

ExecCall ==
  /\ Executing("CALL")
  /\ IF Defined(Instr.to)
     THEN /\ pc' = LabelAt(Instr.to)
          /\ returns' = <<pc + 1>> \o returns
          /\ UNCHANGED <<ram, operands, rbx, rax, input, out, process, bases>>
     ELSE Fault

ExecRet ==
  /\ Executing("RET")
  /\ IF returns # <<>>
     THEN /\ pc' = Head(returns)
          /\ returns' = Tail(returns)
          /\ UNCHANGED <<ram, operands, rbx, rax, input, out, process, bases>>
     ELSE Fault

ExecIn ==
  /\ Executing("IN") /\ input # <<>>
  /\ operands' = <<Head(input)>> \o operands
  /\ input' = Tail(input)
  /\ Step
  /\ UNCHANGED <<ram, returns, rbx, rax, out, process, bases>>

ExecOut ==
  /\ Executing("OUT")
  /\ IF Depth(1)
     THEN /\ out' = Append(out, First)
          /\ operands' = Rest(1)
          /\ Step
          /\ UNCHANGED <<ram, returns, rbx, rax, input, process, bases>>
     ELSE Fault

ExecHalt ==
  /\ Executing("HLT")
  /\ process' = "halt"
  /\ UNCHANGED <<ram, operands, returns, rbx, rax, pc, input, out, bases>>

MachineNext ==
  \/ ExecMark \/ ExecPush \/ ExecPop \/ ExecArithmetic \/ ExecSqrt
  \/ ExecJump \/ ExecCall \/ ExecRet \/ ExecIn \/ ExecOut \/ ExecHalt
=============================================================================
