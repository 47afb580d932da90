--------------------------- MODULE TwoPass_proofs ---------------------------
(***************************************************************************)
(* Proofs about TwoPass, for every IR array, name table and runtime.       *)
(***************************************************************************)
EXTENDS TwoPass, SequenceTheorems, TLAPS

(* The inductive invariant.  LaidOut and Offset make the offsets the sums  *)
(* of the sizes before them, so the second pass writes what the first one  *)
(* wrote; Addresses says which label's offset a function's address is      *)
(* while the passes go by; the rest is what has been emitted so far, in    *)
(* terms of offsets.                                                       *)
Input == ir \in IRs

End(k) == IF k = 0 THEN 0 ELSE start[k] + size[k]

Measured == IF pass = 1 THEN idx - 1 ELSE Len(ir)

LaidOut ==
  \A k \in 1..Measured : size[k] = BlockSize(ir[k]) /\ start[k] = End(k - 1)

Offset == startOffset = End(idx - 1)

HasAddressOf(f, k) ==
  \E m \in Nodes : LastLabelBefore(ir, k, f, m) /\ address[f] = start[m]

IsFirst(f, k) == NoLabelBefore(ir, k, f) /\ address[f] = FirstAddress[f]

Addresses ==
  \A f \in Id :
    \/ HasAddressOf(f, idx)
    \/ pass = 1 /\ IsFirst(f, idx)
    \/ /\ pass # 1 /\ NoLabelBefore(ir, idx, f)
       /\ HasAddressOf(f, Len(ir) + 1) \/ IsFirst(f, Len(ir) + 1)

Buffer ==
  /\ pass # 1 => codeSize = End(Len(ir))
  /\ pass # 1 => bufferSize = CodeOffset + StdlibSize + startOffset
  /\ pass = 3 => idx = Len(ir) + 1

Placed ==
  pass # 1 => \A k \in 1..idx-1 : place[k] = CodeOffset + StdlibSize + start[k]

JumpsEmitted ==
  pass # 1 => \A k \in 1..idx-1 :
    ir[k].type \in {"JMP", "JZ"} => disp[k] = start[ir[k].addr] - End(k)

CallsEmitted ==
  pass # 1 => \A k \in 1..idx-1 : ir[k].type = "CALL" =>
    \/ \E m \in Nodes : CallGoesTo(ir, k, m) /\ disp[k] = start[m] - (start[k] + CallRel32)
    \/ /\ NoLabelBefore(ir, Len(ir) + 1, ir[k].addr)
       /\ disp[k] = FirstAddress[ir[k].addr] - (start[k] + CallRel32)

IInv ==
  /\ Input /\ TypeOK /\ LaidOut /\ Offset /\ Addresses
  /\ Buffer /\ Placed /\ JumpsEmitted /\ CallsEmitted

-----------------------------------------------------------------------------
(* What an array of the converter's looks like to the translator.          *)
LEMMA NodeFacts ==
  ASSUME Input
  PROVE  /\ Len(ir) \in Nat
         /\ \A k \in Nodes :
              /\ ir[k].type \in NodeTypes /\ ir[k].addr \in Int /\ ir[k].local \in BOOLEAN
              /\ ir[k].type \in {"JMP", "JZ"} => ir[k].addr \in Nodes
              /\ ir[k].type = "CALL" => ir[k].addr \in Id
              /\ ir[k].type = "LABEL" /\ ~ir[k].local => ir[k].addr \in Id
<1>1. IsIR(ir)
  BY IRsAssumption DEF Input
<1>2. \A k \in Nodes : ir[k] \in [type : NodeTypes, addr : Int, local : BOOLEAN, arg : Args]
  BY <1>1, ElementOfSeq, Zenon DEF IsIR, Nodes
<1> QED
  BY <1>1, <1>2, IRsAssumption DEF IsIR, Nodes, Input

(* A node's code has a size, whatever its operands.                        *)
LEMMA BlockSizeNat ==
  ASSUME Input, NEW k \in Nodes
  PROVE  BlockSize(ir[k]) \in Nat
<1> DEFINE n == ir[k]
<1>1. n.type \in NodeTypes /\ n.addr \in Int
  BY NodeFacts
<1>2. n.type = "CALL" => ArgsCount[n.addr] \in Nat
  BY NodeFacts, NamesAssumption
<1>3. n.type = "CALL" => AddUnlessZero(ArgsCount[n.addr]) \in Nat
  BY <1>2 DEF AddUnlessZero, AddSubImm32
<1>4. AddUnlessZero(n.addr) \in Nat /\ translatePush(n) \in Nat
  BY <1>1 DEF AddUnlessZero, AddSubImm32, translatePush, MovImm64, PushReg64, PushMem
<1> HIDE DEF n
<1>5. BlockSize(n) \in Nat
  BY <1>1, <1>3, <1>4
  DEF BlockSize, NodeTypes, Binary, PushReg64, PopReg64, PopMem, MovRegReg, MovImm64,
      MovqXmmMem, MovqMemXmm, MovqXmmReg, AddSubImm32, ArithSd, SqrtSd, AndPd, CmpSd,
      RetSize, SysCall, TestReg, JmpRel32, JzRel32, CallRel32
<1> QED
  BY <1>5 DEF n

(* Going one node further changes the last label of a function only if the *)
(* node is a label of it.                                                  *)
LEMMA LabelAhead ==
  ASSUME NEW code, NEW k \in Nat, NEW f, IsLabelOf(code, k, f), k >= 1
  PROVE  LastLabelBefore(code, k + 1, f, k)
BY DEF LastLabelBefore

(* Going past a node that is no label of a function, its last label stays. *)
LEMMA NoLabelAhead ==
  ASSUME NEW code, NEW k \in Nat, NEW f, ~IsLabelOf(code, k, f)
  PROVE  /\ \A m : LastLabelBefore(code, k, f, m) => LastLabelBefore(code, k + 1, f, m)
         /\ NoLabelBefore(code, k, f) => NoLabelBefore(code, k + 1, f)
BY DEF LastLabelBefore, NoLabelBefore

(* One turn of the loop: offsets already noted stay, the next one is noted,*)
(* and in the second pass nothing noted changes at all.                    *)
LEMMA AdvanceKeeps ==
  ASSUME IInv, Advance, pass \in {1, 2}, idx \in Nodes
  PROVE  /\ start' \in [Nodes -> Nat] /\ size' \in [Nodes -> Nat]
         /\ \A k \in 1..idx-1 : start'[k] = start[k] /\ size'[k] = size[k]
         /\ start'[idx] = startOffset /\ size'[idx] = BlockSize(Node)
         /\ pass = 2 => start' = start /\ size' = size
         /\ LaidOut' /\ Offset'
<1>1. Len(ir) \in Nat /\ BlockSize(Node) \in Nat
  BY NodeFacts, BlockSizeNat DEF IInv, Node
<1>2. /\ start' = [start EXCEPT ![idx] = startOffset]
      /\ size' = [size EXCEPT ![idx] = BlockSize(Node)]
      /\ startOffset' = startOffset + BlockSize(Node)
      /\ idx' = idx + 1 /\ ir' = ir /\ pass' = pass
  BY DEF Advance
<1>3. start \in [Nodes -> Nat] /\ size \in [Nodes -> Nat] /\ startOffset \in Nat
  BY DEF IInv, TypeOK
<1>4. start' \in [Nodes -> Nat] /\ size' \in [Nodes -> Nat]
  BY <1>1, <1>2, <1>3
<1>5. /\ \A k \in Nodes \ {idx} : start'[k] = start[k] /\ size'[k] = size[k]
      /\ start'[idx] = startOffset /\ size'[idx] = BlockSize(Node)
  BY <1>2, <1>3
<1>6. pass = 2 => start[idx] = startOffset /\ size[idx] = BlockSize(Node)
  BY <1>1 DEF IInv, LaidOut, Measured, Offset, Nodes, Node
<1>7. pass = 2 => start' = start /\ size' = size
  BY <1>2, <1>3, <1>6
<1>8. \A k \in 0..idx-1 : End(k)' = End(k)
  BY <1>1, <1>5 DEF End, Nodes
<1>9. Offset'
  BY <1>1, <1>2, <1>5 DEF Offset, End, Nodes
<1>10. LaidOut'
  <2>1. CASE pass = 2
    BY <2>1, <1>2, <1>7 DEF IInv, LaidOut, Measured, End
  <2>2. CASE pass = 1
    <3> SUFFICES ASSUME NEW k \in 1..idx
                 PROVE  size'[k] = BlockSize(ir[k]) /\ start'[k] = End(k - 1)'
      BY <2>2, <1>1, <1>2 DEF LaidOut, Measured, Nodes
    <3>1. End(k - 1)' = End(k - 1)
      BY <1>1, <1>8 DEF Nodes
    <3>2. CASE k = idx
      BY <3>1, <3>2, <1>5 DEF IInv, Offset, Node
    <3>3. CASE k # idx
      BY <3>1, <3>3, <2>2, <1>1, <1>5 DEF IInv, LaidOut, Measured, Nodes
    <3> QED BY <3>2, <3>3
  <2> QED BY <2>1, <2>2
<1> QED
  BY <1>1, <1>4, <1>5, <1>7, <1>9, <1>10 DEF Nodes

(* The addresses keep step with the passes: a function's label is noted    *)
(* when it is reached, and no other node touches an address.               *)
LEMMA AddressesStep ==
  ASSUME IInv, Advance, pass \in {1, 2}, idx \in Nodes,
         \/ /\ Node.type = "LABEL"
            /\ address' = IF Node.local THEN address
                          ELSE [address EXCEPT ![Node.addr] = startOffset]
         \/ Node.type # "LABEL" /\ UNCHANGED address
  PROVE  Addresses'
<1>1. /\ ir' = ir /\ pass' = pass /\ idx' = idx + 1 /\ Nodes' = Nodes
      /\ FirstAddress' = FirstAddress
  BY DEF Advance, Nodes, FirstAddress
<1>2. Len(ir) \in Nat /\ idx \in Nat
  BY NodeFacts DEF IInv, Nodes
<1>3. /\ \A m \in 1..idx-1 : start'[m] = start[m]
      /\ start'[idx] = startOffset
      /\ pass = 2 => start' = start
  BY AdvanceKeeps
<1> SUFFICES ASSUME NEW f \in Id
             PROVE  \/ HasAddressOf(f, idx)'
                    \/ pass' = 1 /\ IsFirst(f, idx)'
                    \/ /\ pass' # 1 /\ NoLabelBefore(ir, idx, f)'
                       /\ HasAddressOf(f, Len(ir) + 1)' \/ IsFirst(f, Len(ir) + 1)'
  BY DEF Addresses
<1>4. CASE IsLabelOf(ir, idx, f)
  <2>1. address'[f] = startOffset
    BY <1>4 DEF IsLabelOf, Node, IInv, TypeOK
  <2>2. LastLabelBefore(ir, idx + 1, f, idx)
    BY <1>2, <1>4, LabelAhead DEF Nodes
  <2> QED
    BY <1>1, <1>3, <2>1, <2>2 DEF HasAddressOf
<1>5. CASE ~IsLabelOf(ir, idx, f)
  <2>1. address'[f] = address[f]
    BY <1>5, NodeFacts DEF IsLabelOf, Node, IInv, TypeOK
  <2>2. /\ \A m : LastLabelBefore(ir, idx, f, m) => LastLabelBefore(ir, idx + 1, f, m)
        /\ NoLabelBefore(ir, idx, f) => NoLabelBefore(ir, idx + 1, f)
    BY <1>2, <1>5, NoLabelAhead
  <2>3. CASE HasAddressOf(f, idx)
    <3>1. PICK m \in Nodes : LastLabelBefore(ir, idx, f, m) /\ address[f] = start[m]
      BY <2>3 DEF HasAddressOf
    <3>2. m \in 1..idx-1
      BY <3>1 DEF LastLabelBefore
    <3>3. start'[m] = start[m]
      BY <1>3, <3>2
    <3> QED
      BY <1>1, <2>1, <2>2, <3>1, <3>3 DEF HasAddressOf
  <2>4. CASE pass = 1 /\ IsFirst(f, idx)
    BY <2>4, <1>1, <2>1, <2>2 DEF IsFirst
  <2>5. CASE /\ pass # 1 /\ NoLabelBefore(ir, idx, f)
             /\ HasAddressOf(f, Len(ir) + 1) \/ IsFirst(f, Len(ir) + 1)
    BY <2>5, <1>1, <1>3, <2>1, <2>2 DEF HasAddressOf, IsFirst
  <2> QED
    BY <2>3, <2>4, <2>5 DEF IInv, Addresses
<1> QED
  BY <1>4, <1>5

(* What an instruction emitted in the second pass adds to the file.        *)
LEMMA EmissionStep ==
  ASSUME IInv, Advance, pass \in {1, 2}, idx \in Nodes,
         disp' = disp \/ \E operand \in Int : Emit(operand)
  PROVE  /\ Buffer' /\ Placed'
         /\ disp' \in [Nodes -> Int] /\ \A k \in 1..idx-1 : disp'[k] = disp[k]
<1>1. /\ ir' = ir /\ pass' = pass /\ idx' = idx + 1 /\ codeSize' = codeSize
      /\ startOffset' = startOffset + BlockSize(Node)
      /\ place' = IF pass = 2 THEN [place EXCEPT ![idx] = bufferSize] ELSE place
      /\ bufferSize' = IF pass = 2 THEN bufferSize + BlockSize(Node) ELSE bufferSize
  BY DEF Advance, Emitting
<1>2. Len(ir) \in Nat /\ idx \in Nat /\ BlockSize(Node) \in Nat /\ StdlibSize \in Nat
  BY NodeFacts, BlockSizeNat, StdlibAssumption DEF IInv, Nodes, Node
<1>3. /\ startOffset \in Nat /\ bufferSize \in Nat
      /\ place \in [Nodes -> Nat] /\ disp \in [Nodes -> Int] /\ start \in [Nodes -> Nat]
  BY DEF IInv, TypeOK
<1>4. pass = 2 => start' = start /\ size' = size
  BY AdvanceKeeps
<1>5. start'[idx] = startOffset
  BY AdvanceKeeps
<1>6. Buffer'
  <2>1. pass = 2 => codeSize' = End(Len(ir))'
    BY <1>1, <1>4 DEF IInv, Buffer, End
  <2> QED
    BY <1>1, <1>2, <1>3, <2>1 DEF IInv, Buffer, CodeOffset
<1>7. Placed'
  <2> SUFFICES ASSUME pass = 2, NEW k \in 1..idx
               PROVE  place'[k] = CodeOffset + StdlibSize + start'[k]
    BY <1>1, <1>2 DEF Placed
  <2>1. CASE k = idx
    BY <2>1, <1>1, <1>2, <1>3, <1>5 DEF IInv, Buffer
  <2>2. CASE k # idx
    BY <2>2, <1>1, <1>2, <1>3, <1>4 DEF IInv, Placed, Nodes
  <2> QED BY <2>1, <2>2
<1>8. disp' \in [Nodes -> Int] /\ \A k \in 1..idx-1 : disp'[k] = disp[k]
  BY <1>2, <1>3 DEF Emit, Nodes
<1> QED
  BY <1>6, <1>7, <1>8

(* Jumps and calls emitted earlier keep their meaning when a node is added *)
(* and its own displacement, if it has one, is right.                      *)
LEMMA OperandsStep ==
  ASSUME IInv, Advance, pass \in {1, 2}, idx \in Nodes,
         disp' = disp \/ \E operand \in Int : Emit(operand),
         pass = 2 /\ Node.type \in {"JMP", "JZ"} => disp'[idx] = start[Node.addr] - End(idx),
         pass = 2 /\ Node.type = "CALL" =>
           \/ \E m \in Nodes : CallGoesTo(ir, idx, m)
                              /\ disp'[idx] = start[m] - (start[idx] + CallRel32)
           \/ /\ NoLabelBefore(ir, Len(ir) + 1, Node.addr)
              /\ disp'[idx] = FirstAddress[Node.addr] - (start[idx] + CallRel32)
  PROVE  JumpsEmitted' /\ CallsEmitted'
<1>1. /\ ir' = ir /\ pass' = pass /\ idx' = idx + 1 /\ Nodes' = Nodes
      /\ FirstAddress' = FirstAddress
  BY DEF Advance, Nodes, FirstAddress
<1>2. Len(ir) \in Nat /\ idx \in Nat
  BY NodeFacts DEF IInv, Nodes
<1>3. \A k \in 1..idx-1 : disp'[k] = disp[k]
  BY EmissionStep
<1>4. pass = 2 => start' = start /\ size' = size
  BY AdvanceKeeps
<1>5. pass = 2 => \A k \in 1..idx : End(k)' = End(k)
  BY <1>4 DEF End
<1>6. JumpsEmitted'
  <2> SUFFICES ASSUME pass = 2, NEW k \in 1..idx, ir[k].type \in {"JMP", "JZ"}
               PROVE  disp'[k] = start[ir[k].addr] - End(k)
    BY <1>1, <1>2, <1>4, <1>5 DEF JumpsEmitted
  <2>1. CASE k = idx
    BY <2>1 DEF Node
  <2>2. CASE k # idx
    BY <2>2, <1>2, <1>3 DEF IInv, JumpsEmitted
  <2> QED BY <2>1, <2>2
<1>7. CallsEmitted'
  <2> DEFINE Right(k, d) ==
        \/ \E m \in Nodes : CallGoesTo(ir, k, m) /\ d = start[m] - (start[k] + CallRel32)
        \/ /\ NoLabelBefore(ir, Len(ir) + 1, ir[k].addr)
           /\ d = FirstAddress[ir[k].addr] - (start[k] + CallRel32)
  <2>1. SUFFICES ASSUME pass = 2, NEW k \in 1..idx, ir[k].type = "CALL"
               PROVE  Right(k, disp'[k])
    BY <1>1, <1>2, <1>4 DEF CallsEmitted
  <2>2. CASE k = idx
    BY <2>1, <2>2 DEF Node
  <2>3. CASE k # idx
    <3>1. k \in 1..idx-1 /\ disp'[k] = disp[k]
      BY <2>3, <1>2, <1>3
    <3>2. Right(k, disp[k])
      BY <2>1, <3>1 DEF IInv, CallsEmitted
    <3> QED BY <3>1, <3>2
  <2> QED BY <2>2, <2>3
<1> QED
  BY <1>6, <1>7

-----------------------------------------------------------------------------
(* Before the first pass nothing is laid out and nothing emitted.          *)
LEMMA InitInvariant == Init => IInv
<1> SUFFICES ASSUME Init PROVE IInv
  OBVIOUS
<1>1. Input
  BY DEF Init, Input
<1>2. Len(ir) \in Nat
  BY <1>1, NodeFacts
<1>3. FirstAddress \in [Id -> Int]
  <2>1. \A f \in Id : FirstAddress[f] \in Int
    BY StdlibAssumption DEF FirstAddress
  <2> QED
    BY <2>1 DEF FirstAddress
<1>4. TypeOK
  BY <1>2, <1>3, StdlibAssumption DEF Init, TypeOK, CodeOffset, Nodes
<1>5. LaidOut /\ Offset
  BY DEF Init, LaidOut, Offset, Measured, End
<1>6. Addresses
  BY DEF Init, Addresses, IsFirst, NoLabelBefore
<1>7. Buffer /\ Placed /\ JumpsEmitted /\ CallsEmitted
  BY DEF Init, Buffer, Placed, JumpsEmitted, CallsEmitted
<1> QED
  BY <1>1, <1>4, <1>5, <1>6, <1>7 DEF IInv

(* The parts of the invariant that a turn of the loop keeps whatever the   *)
(* node is.                                                                *)
LEMMA TypeStep ==
  ASSUME IInv, Advance, pass \in {1, 2}, idx \in Nodes,
         address' \in [Id -> Int], disp' \in [Nodes -> Int]
  PROVE  Input' /\ TypeOK'
<1>1. /\ ir' = ir /\ pass' = pass /\ idx' = idx + 1 /\ codeSize' = codeSize /\ Nodes' = Nodes
      /\ startOffset' = startOffset + BlockSize(Node)
      /\ place' = IF pass = 2 THEN [place EXCEPT ![idx] = bufferSize] ELSE place
      /\ bufferSize' = IF pass = 2 THEN bufferSize + BlockSize(Node) ELSE bufferSize
  BY DEF Advance, Emitting, Nodes
<1>2. Len(ir) \in Nat /\ idx \in Nat /\ BlockSize(Node) \in Nat
  BY NodeFacts, BlockSizeNat DEF IInv, Nodes, Node
<1>3. start' \in [Nodes -> Nat] /\ size' \in [Nodes -> Nat]
  BY AdvanceKeeps
<1>4. idx' \in 1..Len(ir') + 1
  BY <1>1, <1>2 DEF Nodes
<1>5. startOffset' \in Nat /\ bufferSize' \in Nat /\ codeSize' \in Nat /\ place' \in [Nodes -> Nat]
  <2>1. /\ startOffset \in Nat /\ bufferSize \in Nat /\ codeSize \in Nat
        /\ place \in [Nodes -> Nat]
    BY DEF IInv, TypeOK
  <2>2. [place EXCEPT ![idx] = bufferSize] \in [Nodes -> Nat]
    BY <2>1
  <2> QED
    BY <1>1, <1>2, <2>1, <2>2
<1> QED
  BY <1>1, <1>3, <1>4, <1>5 DEF IInv, TypeOK, Input

(* Translating a node, of whatever type and in either pass, keeps the      *)
(* invariant; so does going from one pass to the next.                     *)
LEMMA StepInvariant == IInv /\ [Next]_vars => IInv'
<1> SUFFICES ASSUME IInv, [Next]_vars PROVE IInv'
  OBVIOUS
<1>1. /\ Len(ir) \in Nat /\ StdlibSize \in Nat
      /\ address \in [Id -> Int] /\ disp \in [Nodes -> Int] /\ startOffset \in Nat
  BY NodeFacts, StdlibAssumption DEF IInv, TypeOK
<1>2. CASE TranslateLabel
  <2>1. /\ Advance /\ pass \in {1, 2} /\ idx \in Nodes /\ disp' = disp /\ Node.type = "LABEL"
        /\ address' = IF Node.local THEN address
                      ELSE [address EXCEPT ![Node.addr] = startOffset]
    BY <1>2 DEF TranslateLabel, Translating
  <2>2. address' \in [Id -> Int]
    <3>1. address \in [Id -> Int] /\ startOffset \in Int
      BY <1>1
    <3>2. [address EXCEPT ![Node.addr] = startOffset] \in [Id -> Int]
      BY <3>1, Zenon
    <3> QED
      BY <1>1, <2>1, <3>2
  <2>3. Node.type \notin {"JMP", "JZ", "CALL"}
    BY <2>1
  <2> QED
    BY <1>1, <2>1, <2>2, <2>3, AdvanceKeeps, AddressesStep, EmissionStep, OperandsStep, TypeStep
    DEF IInv
<1>3. CASE TranslateJump
  <2>1. /\ Advance /\ pass \in {1, 2} /\ idx \in Nodes /\ address' = address
        /\ Node.type \in {"JMP", "JZ"} /\ Emit(JmpAddress)
    BY <1>3 DEF TranslateJump, Translating
  <2>2. Node.addr \in Nodes
    BY <2>1, NodeFacts DEF IInv, Node
  <2>3. start' \in [Nodes -> Nat] /\ size \in [Nodes -> Nat]
    BY <2>1, AdvanceKeeps DEF IInv, TypeOK
  <2>4. JmpAddress \in Int
    BY <1>1, <2>1, <2>2, <2>3 DEF JmpAddress
  <2>5. pass = 2 => disp'[idx] = start[Node.addr] - End(idx)
    <3>1. pass = 2 => disp'[idx] = JmpAddress
      BY <1>1, <2>1 DEF Emit, Emitting
    <3>2. pass = 2 => start' = start
      BY <2>1, AdvanceKeeps
    <3>3. pass = 2 => start[idx] = startOffset
      BY <2>1, <3>2, AdvanceKeeps
    <3>4. idx # 0
      BY <1>1, <2>1 DEF Nodes
    <3> QED
      BY <3>1, <3>2, <3>3, <3>4 DEF JmpAddress, End
  <2>6. disp' \in [Nodes -> Int] /\ Buffer' /\ Placed'
    BY <2>1, <2>4, EmissionStep
  <2>7. JumpsEmitted' /\ CallsEmitted'
    BY <2>1, <2>4, <2>5, OperandsStep
  <2>8. Addresses'
    BY <2>1, AddressesStep
  <2> QED
    BY <1>1, <2>1, <2>6, <2>7, <2>8, AdvanceKeeps, TypeStep DEF IInv
<1>4. CASE TranslateCall
  <2>1. /\ Advance /\ pass \in {1, 2} /\ idx \in Nodes /\ address' = address
        /\ Node.type = "CALL" /\ Emit(CallAddress)
    BY <1>4 DEF TranslateCall, Translating
  <2>2. Node.addr \in Id
    BY <2>1, NodeFacts DEF IInv, Node
  <2>3. CallAddress \in Int
    BY <1>1, <2>2 DEF CallAddress, CallRel32
  <2>4. pass = 2 => disp'[idx] = address[Node.addr] - (start[idx] + CallRel32)
    <3>1. pass = 2 => disp'[idx] = CallAddress
      BY <1>1, <2>1 DEF Emit, Emitting
    <3>2. pass = 2 => start[idx] = startOffset
      BY <2>1, AdvanceKeeps
    <3> QED
      BY <3>1, <3>2 DEF CallAddress
  <2>5. pass = 2 =>
          \/ \E m \in Nodes : CallGoesTo(ir, idx, m)
                             /\ disp'[idx] = start[m] - (start[idx] + CallRel32)
          \/ /\ NoLabelBefore(ir, Len(ir) + 1, Node.addr)
             /\ disp'[idx] = FirstAddress[Node.addr] - (start[idx] + CallRel32)
    BY <2>2, <2>4 DEF IInv, Addresses, HasAddressOf, IsFirst, CallGoesTo, Node
  <2>6. disp' \in [Nodes -> Int] /\ Buffer' /\ Placed'
    BY <2>1, <2>3, EmissionStep
  <2>7. JumpsEmitted' /\ CallsEmitted'
    BY <2>1, <2>3, <2>5, OperandsStep
  <2>8. Addresses'
    BY <2>1, AddressesStep
  <2> QED
    BY <1>1, <2>1, <2>6, <2>7, <2>8, AdvanceKeeps, TypeStep DEF IInv
<1>5. CASE TranslateOther
  <2>1. /\ Advance /\ pass \in {1, 2} /\ idx \in Nodes /\ address' = address /\ disp' = disp
        /\ Node.type \notin {"LABEL", "JMP", "JZ", "CALL"}
    BY <1>5 DEF TranslateOther, Translating
  <2> QED
    BY <1>1, <2>1, AdvanceKeeps, AddressesStep, EmissionStep, OperandsStep, TypeStep DEF IInv
<1>6. CASE BeginSecondPass
  <2>1. /\ pass = 1 /\ idx = Len(ir) + 1 /\ codeSize' = startOffset
        /\ bufferSize' = CodeOffset + StdlibSize /\ pass' = 2 /\ idx' = 1 /\ startOffset' = 0
        /\ UNCHANGED <<ir, start, size, address, disp, place>>
        /\ Nodes' = Nodes /\ FirstAddress' = FirstAddress
    BY <1>6 DEF BeginSecondPass, Nodes, FirstAddress
  <2>2. Input' /\ TypeOK'
    BY <1>1, <2>1 DEF IInv, Input, TypeOK, CodeOffset
  <2>3. LaidOut' /\ Offset'
    BY <1>1, <2>1 DEF IInv, LaidOut, Measured, Offset, End
  <2>4. Addresses'
    <3>1. \A f : NoLabelBefore(ir, 1, f)
      BY DEF NoLabelBefore
    <3>2. \A f \in Id : HasAddressOf(f, Len(ir) + 1) \/ IsFirst(f, Len(ir) + 1)
      BY <2>1 DEF IInv, Addresses
    <3> QED
      BY <2>1, <3>1, <3>2 DEF Addresses, HasAddressOf, IsFirst
  <2>5. Buffer' /\ Placed' /\ JumpsEmitted' /\ CallsEmitted'
    BY <1>1, <2>1 DEF IInv, Buffer, Offset, End, Placed, JumpsEmitted, CallsEmitted, CodeOffset
  <2> QED
    BY <2>2, <2>3, <2>4, <2>5 DEF IInv
<1>7. CASE EndSecondPass
  <2>1. /\ pass = 2 /\ idx = Len(ir) + 1 /\ pass' = 3
        /\ UNCHANGED <<ir, idx, startOffset, start, size, address, disp, place, bufferSize, codeSize>>
        /\ Nodes' = Nodes /\ FirstAddress' = FirstAddress
    BY <1>7 DEF EndSecondPass, Nodes, FirstAddress
  <2>2. Input' /\ TypeOK'
    BY <2>1 DEF IInv, Input, TypeOK
  <2>3. LaidOut' /\ Offset' /\ Addresses' /\ Buffer'
    BY <2>1 DEF IInv, LaidOut, Measured, Offset, Addresses, HasAddressOf, IsFirst, Buffer, End
  <2>4. Placed' /\ JumpsEmitted' /\ CallsEmitted'
    BY <2>1 DEF IInv, Placed, JumpsEmitted, CallsEmitted, End
  <2> QED
    BY <2>2, <2>3, <2>4 DEF IInv
<1>8. CASE UNCHANGED vars
  BY <1>8 DEF vars, IInv, Input, TypeOK, LaidOut, Measured, Offset, End, Addresses, HasAddressOf,
      IsFirst, FirstAddress, Buffer, Placed, JumpsEmitted, CallsEmitted, Nodes
<1> QED
  BY <1>2, <1>3, <1>4, <1>5, <1>6, <1>7, <1>8 DEF Next

(* The invariant holds all through both passes, for every IR array.        *)
THEOREM Invariance == Spec => []IInv
BY InitInvariant, StepInvariant, PTL DEF Spec

(* The translator's counters and tables stay in range, for every array.    *)
THEOREM TypeCorrect == Spec => []TypeOK
<1>1. IInv => TypeOK
  BY DEF IInv
<1> QED
  BY <1>1, Invariance, PTL

(* Whatever the array, every jump written to the file goes to the first    *)
(* byte of its destination node.                                           *)
THEOREM JumpsLandCorrectly == Spec => []JumpsLand
<1>1. IInv => JumpsLand
  <2> SUFFICES ASSUME IInv, pass = 3, NEW k \in Nodes, ir[k].type \in {"JMP", "JZ"}
               PROVE  JumpLands(k) = place[ir[k].addr]
    BY DEF JumpsLand
  <2>1. /\ Len(ir) \in Nat /\ k \in 1..Len(ir) /\ ir[k].addr \in 1..Len(ir)
        /\ StdlibSize \in Nat
    BY NodeFacts, StdlibAssumption DEF IInv, Nodes
  <2>2. idx - 1 = Len(ir)
    BY <2>1 DEF IInv, Buffer
  <2>3. /\ place[k] = CodeOffset + StdlibSize + start[k]
        /\ place[ir[k].addr] = CodeOffset + StdlibSize + start[ir[k].addr]
    BY <2>1, <2>2 DEF IInv, Placed
  <2>4. disp[k] = start[ir[k].addr] - (start[k] + size[k])
    BY <2>1, <2>2 DEF IInv, JumpsEmitted, End
  <2>5. size[k] = BlockSize(ir[k])
    BY <2>1 DEF IInv, LaidOut, Measured
  <2>6. start[k] \in Nat /\ size[k] \in Nat /\ start[ir[k].addr] \in Nat
    BY <2>1 DEF IInv, TypeOK, Nodes
  <2> QED
    BY <2>1, <2>3, <2>4, <2>5, <2>6 DEF JumpLands, CodeOffset
<1> QED
  BY <1>1, Invariance, PTL

(* Whatever the array, every call written to the file goes to the label of *)
(* its function that CallGoesTo names, to the runtime, or, for a function  *)
(* that has neither, to _start.                                            *)
THEOREM CallsLandCorrectly == Spec => []CallsLand
<1>1. IInv => CallsLand
  <2> SUFFICES ASSUME IInv, pass = 3, NEW k \in Nodes, ir[k].type = "CALL"
               PROVE
       \/ \E m \in Nodes : CallGoesTo(ir, k, m) /\ CallLands(k) = place[m]
       \/ /\ NoLabelBefore(ir, Len(ir) + 1, ir[k].addr)
          /\ CallLands(k) = CASE ir[k].addr = StdlibIn  -> CodeOffset + StdlibInAddr
                              [] ir[k].addr = StdlibOut -> CodeOffset + StdlibOutAddr
                              [] OTHER                  -> CodeOffset + StdlibSize
    BY DEF CallsLand
  <2>1. /\ Len(ir) \in Nat /\ k \in 1..Len(ir) /\ ir[k].addr \in Id
        /\ StdlibSize \in Nat /\ StdlibInAddr \in Nat /\ StdlibOutAddr \in Nat
    BY NodeFacts, StdlibAssumption DEF IInv, Nodes
  <2>2. idx - 1 = Len(ir)
    BY <2>1 DEF IInv, Buffer
  <2>3. \A m \in 1..Len(ir) : place[m] = CodeOffset + StdlibSize + start[m] /\ start[m] \in Nat
    BY <2>2 DEF IInv, Placed, TypeOK, Nodes
  <2>4. CASE \E m \in Nodes : CallGoesTo(ir, k, m)
                            /\ disp[k] = start[m] - (start[k] + CallRel32)
    <3>1. PICK m \in 1..Len(ir) : CallGoesTo(ir, k, m)
                               /\ disp[k] = start[m] - (start[k] + CallRel32)
      BY <2>4 DEF Nodes
    <3>2. CallLands(k) = place[m]
      BY <2>1, <2>3, <3>1 DEF CallLands, CallRel32, CodeOffset
    <3> QED
      BY <3>1, <3>2 DEF Nodes
  <2>5. CASE /\ NoLabelBefore(ir, Len(ir) + 1, ir[k].addr)
             /\ disp[k] = FirstAddress[ir[k].addr] - (start[k] + CallRel32)
    <3> DEFINE first == CASE ir[k].addr = StdlibIn  -> StdlibInAddr - StdlibSize
                          [] ir[k].addr = StdlibOut -> StdlibOutAddr - StdlibSize
                          [] OTHER                  -> 0
    <3>1. FirstAddress[ir[k].addr] = first
      BY <2>1 DEF FirstAddress
    <3>2. first \in Int
      BY <2>1
    <3> HIDE DEF first
    <3>3. disp[k] = first - (start[k] + CallRel32)
      BY <2>5, <3>1
    <3>4. CallLands(k) = CodeOffset + StdlibSize + first
      BY <2>1, <2>3, <3>2, <3>3 DEF CallLands, CallRel32, CodeOffset
    <3> QED
      BY <2>1, <2>5, <3>4 DEF CodeOffset, first
  <2> QED
    BY <2>1, <2>2, <2>4, <2>5 DEF IInv, CallsEmitted
<1> QED
  BY <1>1, Invariance, PTL

(* Whatever the array, the program header, written between the passes,     *)
(* gives the segment exactly the bytes the second pass wrote.              *)
THEOREM HeaderIsExact == Spec => []HeaderCoversCode
<1>1. IInv => HeaderCoversCode
  <2> SUFFICES ASSUME IInv, pass = 3 PROVE bufferSize = CodeOffset + StdlibSize + codeSize
    BY DEF HeaderCoversCode
  <2>1. Len(ir) \in Nat
    BY NodeFacts DEF IInv
  <2>2. idx - 1 = Len(ir)
    BY <2>1 DEF IInv, Buffer
  <2> QED
    BY <2>2 DEF IInv, Buffer, Offset
<1> QED
  BY <1>1, Invariance, PTL
=============================================================================
