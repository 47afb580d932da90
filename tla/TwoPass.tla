------------------------------ MODULE TwoPass ------------------------------
(***************************************************************************)
(* Translation of the IR array to machine code (translateIRtox86Asm and    *)
(* translateIRarray, Backend/source/backend_x86_64.c).  The array is       *)
(* translated twice by the same code: the first pass only measures, and    *)
(* leaves every node's offset and size and every function's address; the   *)
(* second one emits, and takes the displacements of jumps and calls from   *)
(* what it finds there, some of it written by the first pass and some by   *)
(* itself.  An instruction is its size and, for a jump or a call, the      *)
(* displacement emitted; what the instructions do is in IRMachine.         *)
(***************************************************************************)
EXTENDS IRNodes

CONSTANTS
  IRs,         \* arrays the converter hands over
  Id,          \* name table indexes
  ArgsCount,   \* argsCount of every identifier
  StdlibIn, StdlibOut,         \* the runtime's functions,
  StdlibInAddr, StdlibOutAddr, \* where they lie in its code
  StdlibSize                   \* and the size of that code

ASSUME IRsAssumption ==
  \A code \in IRs :
    /\ IsIR(code)
    /\ \A k \in 1..Len(code) :
         code[k].type = "CALL" \/ (code[k].type = "LABEL" /\ ~code[k].local)
           => code[k].addr \in Id
ASSUME NamesAssumption  == ArgsCount \in [Id -> Nat]
ASSUME StdlibAssumption ==
  /\ {StdlibIn, StdlibOut} \subseteq Id /\ StdlibIn # StdlibOut
  /\ StdlibInAddr \in Nat /\ StdlibOutAddr \in Nat /\ StdlibSize \in Nat

VARIABLES
  ir,          \* backend->IR
  pass,        \* 1, 2, and 3 when the code has been written
  idx,         \* nodeIdx
  startOffset, \* offset of the node from _start
  start,       \* startOffset of every node
  size,        \* blockSize of every node
  address,     \* address of every identifier
  disp,        \* rel32 operand emitted for a jump or a call
  place,       \* history: bufferSize when the node's code was emitted
  bufferSize,  \* emitter->bufferSize: where in the file emission goes on
  codeSize     \* what the first pass returned; the program header's p_filesz

vars == <<ir, pass, idx, startOffset, start, size, address, disp, place, bufferSize, codeSize>>

CodeOffset == 4096   \* code starts at this address of the file

-----------------------------------------------------------------------------
(* Sizes of the instructions, with the registers the translator uses: none *)
(* depends on the operand.                                                 *)
PushReg64 == 1
PushMem   == 6
PopReg64  == 1
PopMem    == 6
MovRegReg == 3
MovImm64  == 10
MovqXmmMem == 9
MovqMemXmm == 9
MovqXmmReg == 5
AddSubImm32 == 7
ArithSd   == 5
SqrtSd    == 4
AndPd     == 4
CmpSd     == 6
RetSize   == 1
SysCall   == 2
TestReg   == 3
JmpRel32  == 5
JzRel32   == 6
CallRel32 == 5

(* An `add rsp, n' is left out when there is nothing to add.               *)
AddUnlessZero(n) == IF n > 0 THEN AddSubImm32 ELSE 0

translatePush(node) ==
  CASE node.arg = "imm" -> MovImm64 + PushReg64
    [] node.arg = "reg" -> PushReg64
    [] OTHER            -> PushMem

BlockSize(node) ==
  CASE node.type \in {"NOP", "LABEL"} -> 0
    [] node.type \in Binary      -> MovqXmmMem + ArithSd + AddSubImm32 + MovqMemXmm
    [] node.type = "SQRT"        -> MovqXmmMem + SqrtSd + MovqMemXmm
    [] node.type = "CMP"         -> MovqXmmMem + CmpSd + AddSubImm32 + AndPd + MovqMemXmm
    [] node.type = "PUSH"        -> translatePush(node)
    [] node.type = "POP"         -> PopMem
    [] node.type = "VAR_DECL"    -> AddSubImm32
    [] node.type = "JMP"         -> JmpRel32
    [] node.type = "JZ"          -> PopReg64 + TestReg + JzRel32
    [] node.type = "CALL"        -> CallRel32 + AddUnlessZero(ArgsCount[node.addr])
    [] node.type = "SET_FRAME_PTR" -> PushReg64 + MovRegReg
    [] node.type = "LEAVE_SCOPE" -> AddUnlessZero(node.addr)
    [] node.type = "RET"         -> PopReg64 + MovRegReg + PopReg64 + RetSize
    [] node.type = "START"       -> MovRegReg + MovImm64 + MovqXmmReg
    [] node.type = "EXIT"        -> MovImm64 + MovImm64 + SysCall

-----------------------------------------------------------------------------
Nodes == 1..Len(ir)
Node  == ir[idx]

(* The runtime lies before _start, so its functions' addresses are         *)
(* negative; every other address is the calloc'ed 0.                       *)
FirstAddress ==
  [f \in Id |-> CASE f = StdlibIn  -> StdlibInAddr - StdlibSize
                  [] f = StdlibOut -> StdlibOutAddr - StdlibSize
                  [] OTHER         -> 0]

Init ==
  /\ ir \in IRs
  /\ pass = 1 /\ idx = 1 /\ startOffset = 0
  /\ start = [k \in Nodes |-> 0] /\ size = [k \in Nodes |-> 0]
  /\ address = FirstAddress
  /\ disp = [k \in Nodes |-> 0] /\ place = [k \in Nodes |-> 0]
  /\ bufferSize = CodeOffset + StdlibSize /\ codeSize = 0

(* What the loop does around the switch: note the offset, emit (only the   *)
(* second time), note the size and go on.                                  *)
Emitting == pass = 2

Translating(types) == pass \in {1, 2} /\ idx \in Nodes /\ Node.type \in types

Advance ==
  /\ start' = [start EXCEPT ![idx] = startOffset]
  /\ size' = [size EXCEPT ![idx] = BlockSize(Node)]
  /\ startOffset' = startOffset + BlockSize(Node)
  /\ idx' = idx + 1
  /\ place' = IF Emitting THEN [place EXCEPT ![idx] = bufferSize] ELSE place
  /\ bufferSize' = IF Emitting THEN bufferSize + BlockSize(Node) ELSE bufferSize
  /\ UNCHANGED <<ir, pass, codeSize>>

Emit(operand) == disp' = IF Emitting THEN [disp EXCEPT ![idx] = operand] ELSE disp

TranslateLabel ==
  /\ Translating({"LABEL"})
  /\ address' = IF Node.local THEN address ELSE [address EXCEPT ![Node.addr] = startOffset]
  /\ Advance
  /\ UNCHANGED disp

(* getJmpAddress: the node's offset is already this pass's, its size still *)
(* the last pass's; the jump is the last instruction of the node.          *)
JmpAddress_FromNode == start'[Node.addr] - startOffset
JmpAddress == start'[Node.addr] - (startOffset + size[idx])

TranslateJump ==
  /\ Translating({"JMP", "JZ"})
  /\ Advance
  /\ Emit(JmpAddress)
  /\ UNCHANGED address

(* getCallAddress: the call is the first instruction of the node.          *)
CallAddress_FromBlockEnd == address[Node.addr] - (startOffset + BlockSize(Node))
CallAddress == address[Node.addr] - (startOffset + CallRel32)

TranslateCall ==
  /\ Translating({"CALL"})
  /\ Advance
  /\ Emit(CallAddress)
  /\ UNCHANGED address

TranslateOther ==
  /\ Translating(NodeTypes \ {"LABEL", "JMP", "JZ", "CALL"})
  /\ Advance
  /\ UNCHANGED <<address, disp>>

(* The headers go to the front of the file and emission starts where the   *)
(* runtime ends.                                                           *)
BeginSecondPass ==
  /\ pass = 1 /\ idx = Len(ir) + 1
  /\ codeSize' = startOffset
  /\ bufferSize' = CodeOffset + StdlibSize
  /\ pass' = 2 /\ idx' = 1 /\ startOffset' = 0
  /\ UNCHANGED <<ir, start, size, address, disp, place>>

EndSecondPass ==
  /\ pass = 2 /\ idx = Len(ir) + 1
  /\ pass' = 3
  /\ UNCHANGED <<ir, idx, startOffset, start, size, address, disp, place, bufferSize, codeSize>>

Next ==
  \/ TranslateLabel \/ TranslateJump \/ TranslateCall \/ TranslateOther
  \/ BeginSecondPass \/ EndSecondPass

Spec == Init /\ [][Next]_vars

-----------------------------------------------------------------------------
TypeOK ==
  /\ pass \in {1, 2, 3} /\ idx \in 1..Len(ir) + 1
  /\ startOffset \in Nat /\ bufferSize \in Nat /\ codeSize \in Nat
  /\ start \in [Nodes -> Nat] /\ size \in [Nodes -> Nat] /\ place \in [Nodes -> Nat]
  /\ address \in [Id -> Int] /\ disp \in [Nodes -> Int]

(* Where execution goes on after the rel32 operand emitted for node k,     *)
(* from the end of its jump or call.                                       *)
JumpLands(k) == place[k] + BlockSize(ir[k]) + disp[k]
CallLands(k) == place[k] + CallRel32 + disp[k]

(* Every jump in the file, backward or forward, goes to the byte where the *)
(* code of its destination node begins.                                    *)
JumpsLand ==
  pass = 3 => \A k \in Nodes :
    ir[k].type \in {"JMP", "JZ"} => JumpLands(k) = place[ir[k].addr]

(* Every call in the file goes to a label of its function: the last one    *)
(* before it, or the last of all when none is before it.  A function that  *)
(* has no label is the runtime's, or else it is _start that is called.     *)
CallsLand ==
  pass = 3 => \A k \in Nodes : ir[k].type = "CALL" =>
    \/ \E m \in Nodes : CallGoesTo(ir, k, m) /\ CallLands(k) = place[m]
    \/ /\ NoLabelBefore(ir, Len(ir) + 1, ir[k].addr)
       /\ CallLands(k) = CASE ir[k].addr = StdlibIn  -> CodeOffset + StdlibInAddr
                           [] ir[k].addr = StdlibOut -> CodeOffset + StdlibOutAddr
                           [] OTHER                  -> CodeOffset + StdlibSize

(* The two passes agree on every size: the segment the program header      *)
(* describes ends exactly where the second pass stopped writing.           *)
HeaderCoversCode ==
  pass = 3 => bufferSize = CodeOffset + StdlibSize + codeSize
=============================================================================
