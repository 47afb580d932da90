------------------------- MODULE IRConverter_proofs -------------------------
(***************************************************************************)
(* Proofs about IRConverter, for every set of trees and every capacity of  *)
(* the variables stack: that the walk keeps the protocol of the scope      *)
(* stack, and that the IR it hands over is what the translator takes.      *)
(*                                                                         *)
(* The variables the walk finds are then the ones ScopeStack_proofs says.  *)
(*                                                                         *)
(* Both rest on what the pending activations stand for.  Some of them, the *)
(* closers, will close a scope: there is one for every separator on the    *)
(* stack, in the same order and for the same kind of scope.  And some owe  *)
(* a jump its destination: these are the only jumps without one.           *)
(***************************************************************************)
EXTENDS IRConverter, LocalsStack_proofs, FiniteSetTheorems, TLAPS

(* Where a handler stops for a recursive call; those in Closing, which has *)
(* the SPU back end's too, will close a scope when they go on.             *)
Points  == {"walk", "operator", "store", "print", "branch", "ret", "args", "call"} \union Closing
Parents == Binary \union Comparison \union
  {"SQRT", "NIL", "", "SEP", "ASSIGN", "OUT", "IF", "ELSE", "WHILE", "FUNC_DECL", "RET",
   "COMMA", "CALL"}

Activation(tree) ==
  {a \in [at : Points, n : Nodes(tree) \union {Nil}, op : Parents, i : Int, j : Int] :
     /\ a.at = "operator" => a.n.op \in Binary \union Comparison \union {"SQRT"}
     /\ a.at = "branch" => a.n.op = "IF"
     /\ a.at = "else" => a.n.op = "ELSE"
     /\ a.at = "loop" => a.n.op = "WHILE"
     /\ a.at = "call" => a.n.op = "CALL"}

Node == [type : NodeTypes, addr : Int, local : BOOLEAN, arg : Args]

Typed ==
  /\ ast \in Programs
  /\ names \in [Id -> [type : {"UNDEFINED_ID", "VAR_ID", "FUNC_ID"}, argsCount : Int]]
  /\ stk \in Stack
  /\ inFunction \in BOOLEAN
  /\ ir \in Seq(Node)
  /\ work \in Seq(Activation(ast))

(* The jumps an activation will patch, and the label it will jump back to. *)
Awaits(a) == IF a.at \in {"else", "endif", "enddecl"} THEN {a.i}
             ELSE IF a.at = "endloop" THEN {a.j} ELSE {}
Returns(a) == IF a.at \in {"loop", "endloop"} THEN {a.i} ELSE {}

Owed(w)    == UNION {Awaits(w[d]) : d \in 1..Len(w)}
Targets(w) == UNION {Returns(w[d]) : d \in 1..Len(w)}

Contract(r, w) ==
  /\ \A k : IsJump(r, k) => IsLocalLabel(r, r[k].addr) \/ k \in Owed(w)
  /\ \A k \in Owed(w) : IsJump(r, k)
  /\ \A k \in Targets(w) : IsLocalLabel(r, k)
  /\ \A k \in 1..Len(r) : IsNamed(r[k]) => r[k].addr \in Id

IInv ==
  /\ Typed
  /\ status = "converting" => Matches(work, stk)
  /\ status \in {"converting", "BACKEND_SUCCESS"} => Contract(ir, work)
  /\ status = "BACKEND_SUCCESS" => work = <<>>

-----------------------------------------------------------------------------
(* The tree. *)
LEMMA NodesShape ==
  ASSUME NEW tree \in Programs, NEW n \in Nodes(tree) \union {Nil}, n.op # "NIL"
  PROVE  /\ n # Nil /\ n.l \in Nodes(tree) /\ n.r \in Nodes(tree)
         /\ n.op = "NUMBER" => n.v \in Int
         /\ n.op \in {"VAR_DECL", "CALL"} => n.l.v \in Id
         /\ n.op = "FUNC_DECL" => n.l.l.v \in Id /\ Params(n.l.r) \in ParamLists
<1>1. n # Nil
  BY DEF Nil
<1>2. n \in Nodes(tree)
  BY <1>1
<1> QED
  BY <1>1, <1>2, NodesAssumption

(* Activations that close no scope. *)
Idle(tree) == {a \in Activation(tree) : a.at \notin Closing}

LEMMA WalkShape ==
  ASSUME NEW tree, NEW n \in Nodes(tree) \union {Nil}, NEW op \in Parents
  PROVE  Walk(n, op) \in Idle(tree) /\ Walk(n, op) \in Activation(tree)
<1>1. "walk" \in Points
  BY DEF Points
<1> QED
  BY <1>1 DEF Walk, Idle, Activation, Closing

LEMMA ResumeShape ==
  ASSUME NEW tree, NEW at \in Points, NEW n \in Nodes(tree) \union {Nil}, NEW i \in Int, NEW j \in Int,
         at = "operator" => n.op \in Binary \union Comparison \union {"SQRT"},
         at = "branch" => n.op = "IF",
         at = "else" => n.op = "ELSE",
         at = "loop" => n.op = "WHILE",
         at = "call" => n.op = "CALL"
  PROVE  /\ Resume(at, n, i, j) \in Activation(tree)
         /\ Resume(at, n, i, j).at = at /\ Resume(at, n, i, j).i = i /\ Resume(at, n, i, j).j = j
         /\ at \notin Closing => Resume(at, n, i, j) \in Idle(tree)
<1>1. "" \in Parents
  BY DEF Parents
<1> QED
  BY <1>1 DEF Resume, Idle, Activation

LEMMA PlainResume ==
  ASSUME NEW tree, NEW at \in {"store", "print", "ret", "args"},
         NEW n \in Nodes(tree) \union {Nil}, NEW i \in Int, NEW j \in Int
  PROVE  Resume(at, n, i, j) \in Idle(tree)
<1>1. "" \in Parents /\ at \in Points /\ at \notin Closing
  BY DEF Parents, Points, Closing
<1>2. at \notin {"operator", "branch", "else", "loop", "call"}
  OBVIOUS
<1> QED
  BY <1>1, <1>2, ResumeShape

Closer(tree, c, at, i, j) == c \in Activation(tree) /\ c.at = at /\ c.i = i /\ c.j = j

LEMMA CloserResume ==
  ASSUME NEW tree, NEW at \in Closing, NEW n \in Nodes(tree) \union {Nil},
         NEW i \in Int, NEW j \in Int,
         at = "else" => n.op = "ELSE", at = "loop" => n.op = "WHILE"
  PROVE  Closer(tree, Resume(at, n, i, j), at, i, j)
<1>1. at \in Points /\ at \notin {"operator", "branch", "call"} /\ "" \in Parents
  BY DEF Points, Closing, Parents
<1>2. PICK c : c = [at |-> at, n |-> n, op |-> "", i |-> i, j |-> j]
  OBVIOUS
<1>3. c \in [at : Points, n : Nodes(tree) \union {Nil}, op : Parents, i : Int, j : Int]
  BY <1>1, <1>2
<1>4. c.at = at /\ c.n = n /\ c.i = i /\ c.j = j
  BY <1>2
<1>5. Resume(at, n, i, j) = c
  BY <1>2 DEF Resume
<1> QED
  BY <1>1, <1>3, <1>4, <1>5 DEF Activation, Closer

LEMMA CallResume ==
  ASSUME NEW tree, NEW n \in Nodes(tree) \union {Nil}, n.op = "CALL", NEW op \in Parents,
         NEW x, x = [Resume("call", n, 0, 0) EXCEPT !.op = op]
  PROVE  x \in Idle(tree)
<1>1. x = [at |-> "call", n |-> n, op |-> op, i |-> 0, j |-> 0]
  BY DEF Resume
<1>2. "call" \in Points /\ "call" \notin Closing
  BY DEF Points, Closing
<1>3. x \in [at : Points, n : Nodes(tree) \union {Nil}, op : Parents, i : Int, j : Int]
  BY <1>1, <1>2
<1>4. x.at = "call" /\ x.n = n
  BY <1>1
<1> QED
  BY <1>2, <1>3, <1>4 DEF Idle, Activation

-----------------------------------------------------------------------------
(* IR nodes. *)
PlainNode == {x \in Node : x.type \notin {"JMP", "JZ"} /\ (IsNamed(x) => x.addr \in Id)}

LEMMA BareShape ==
  ASSUME NEW type \in NodeTypes
  PROVE  /\ Bare(type) \in Node /\ Bare(type).type = type /\ Bare(type).local = FALSE
         /\ type \notin {"JMP", "JZ", "CALL", "LABEL"} => Bare(type) \in PlainNode
<1>1. "none" \in Args
  BY DEF Args
<1> QED
  BY <1>1 DEF Bare, Node, PlainNode, IsNamed

LEMMA PlainShape ==
  ASSUME NEW type \in NodeTypes, type \notin {"JMP", "JZ", "CALL", "LABEL"},
         NEW v \in Int, NEW b \in BOOLEAN, NEW arg \in Args,
         NEW x, x = [type |-> type, addr |-> v, local |-> b, arg |-> arg]
  PROVE  x \in PlainNode
<1>1. x \in Node
  BY Zenon DEF Node
<1>2. x.type = type
  BY Zenon
<1> QED
  BY <1>1, <1>2 DEF PlainNode, IsNamed

(* Nodes with a field written. *)
LEMMA AddrWritten ==
  ASSUME NEW x \in Node, NEW v \in Int, NEW y, y = [x EXCEPT !.addr = v]
  PROVE  y \in Node /\ y.addr = v /\ y.type = x.type /\ y.local = x.local
BY DEF Node

LEMMA ArgWritten ==
  ASSUME NEW x \in Node, NEW a \in Args, NEW y, y = [x EXCEPT !.arg = a]
  PROVE  y \in Node /\ y.type = x.type
BY DEF Node

LEMMA LocalWritten ==
  ASSUME NEW x \in Node, NEW b \in BOOLEAN, NEW y, y = [x EXCEPT !.local = b]
  PROVE  y \in Node /\ y.local = b /\ y.type = x.type
BY DEF Node

LEMMA NodeShapes ==
  /\ LocalLabel \in PlainNode /\ LocalLabel.type = "LABEL" /\ LocalLabel.local
  /\ PushReg \in PlainNode
  /\ \A f \in Id : FuncLabel(f) \in PlainNode /\ CallNode(f) \in PlainNode
  /\ \A v \in Int : PushImm(v) \in PlainNode /\ LeaveNode(v) \in PlainNode
  /\ \A in \in BOOLEAN : VarDeclNode(in) \in PlainNode
  /\ \A how \in Comparison : CmpNode(how) \in PlainNode
  /\ \A type \in {"JMP", "JZ"}, k \in Int :
       JumpTo(type, k) \in Node /\ JumpTo(type, k).type = type /\ JumpTo(type, k).addr = k
<1>1. \A type \in {"LABEL", "PUSH", "CALL", "LEAVE_SCOPE", "VAR_DECL", "CMP", "JMP", "JZ"} :
        Bare(type) \in Node /\ Bare(type).type = type
  BY BareShape DEF NodeTypes
<1>2. Id \subseteq Int
  BY IdAssumption
<1>3. LocalLabel \in PlainNode /\ LocalLabel.type = "LABEL" /\ LocalLabel.local
  <2>1. PICK b \in BOOLEAN : b = TRUE
    OBVIOUS
  <2>2. LocalLabel = [Bare("LABEL") EXCEPT !.local = b]
    BY <2>1, Zenon DEF LocalLabel
  <2>3. LocalLabel \in Node /\ LocalLabel.local = b /\ LocalLabel.type = "LABEL"
    BY <1>1, <2>2, LocalWritten
  <2>4. LocalLabel.local
    BY <2>1, <2>3, Zenon
  <2>5. ~IsNamed(LocalLabel)
    BY <2>3, <2>4 DEF IsNamed
  <2> QED
    BY <2>3, <2>4, <2>5 DEF PlainNode
<1>4. PushReg \in PlainNode
  <2>1. "reg" \in Args
    BY DEF Args
  <2> QED
    BY <1>1, <2>1, ArgWritten DEF PushReg, PlainNode, IsNamed
<1>5. ASSUME NEW f \in Id PROVE FuncLabel(f) \in PlainNode /\ CallNode(f) \in PlainNode
  BY <1>1, <1>2, AddrWritten DEF FuncLabel, CallNode, PlainNode, IsNamed
<1>6. ASSUME NEW v \in Int PROVE PushImm(v) \in PlainNode /\ LeaveNode(v) \in PlainNode
  <2>1. LeaveNode(v) \in PlainNode
    BY <1>1, AddrWritten DEF LeaveNode, PlainNode, IsNamed
  <2> DEFINE y == [Bare("PUSH") EXCEPT !.arg = "imm"]
  <2>2. "imm" \in Args
    BY DEF Args
  <2>3. y \in Node /\ y.type = "PUSH"
    BY <1>1, <2>2, ArgWritten
  <2>4. PushImm(v) = [y EXCEPT !.addr = v]
    BY DEF PushImm
  <2> HIDE DEF y
  <2> QED
    BY <2>1, <2>3, <2>4, AddrWritten DEF PlainNode, IsNamed
<1>7. ASSUME NEW in \in BOOLEAN PROVE VarDeclNode(in) \in PlainNode
  <2>1. PICK out \in BOOLEAN : out = ~in
    BY Zenon
  <2>2. VarDeclNode(in) = [Bare("VAR_DECL") EXCEPT !.local = out]
    BY <2>1, Zenon DEF VarDeclNode
  <2> QED
    BY <1>1, <2>2, LocalWritten DEF PlainNode, IsNamed
<1>8. ASSUME NEW how \in Comparison PROVE CmpNode(how) \in PlainNode
  <2>1. how \in Args
    BY DEF Args
  <2> QED
    BY <1>1, <2>1, ArgWritten DEF CmpNode, PlainNode, IsNamed
<1>9. ASSUME NEW type \in {"JMP", "JZ"}, NEW k \in Int
      PROVE  JumpTo(type, k) \in Node /\ JumpTo(type, k).type = type /\ JumpTo(type, k).addr = k
  BY <1>1, AddrWritten DEF JumpTo
<1> QED
  BY <1>3, <1>4, <1>5, <1>6, <1>7, <1>8, <1>9

(* The operand of a variable that is on the stack. *)
LEMMA SearchShape ==
  ASSUME NEW s \in Stack, NEW id, IsDeclared(s, id)
  PROVE  SearchSlot(s, id) \in 0..Capacity-1 /\ SearchAddress(s, id) \in Int
<1>1. s.size \in Nat /\ s.size <= Capacity /\ Capacity \in Nat
  BY SlotsTyped
<1>2. Holders(s, id) \subseteq 0..s.size-1
  BY DEF Holders, Live
<1>3. \E i \in Holders(s, id) : \A j \in Holders(s, id) : j <= i
  <2> DEFINE S == Holders(s, id)
  <2>1. S \in SUBSET (0..s.size) /\ S # {}
    BY <1>1, <1>2 DEF IsDeclared
  <2> HIDE DEF S
  <2>2. \E i \in S : \A j \in S : j <= i
    BY <1>1, <2>1, LastExists
  <2> QED
    BY <2>2 DEF S
<1>4. SearchSlot(s, id) \in Holders(s, id)
  BY <1>3 DEF SearchSlot
<1>5. SearchSlot(s, id) \in 0..Capacity-1
  BY <1>1, <1>2, <1>4
<1> QED
  BY <1>5, SlotsTyped DEF SearchAddress, Addr

LEMMA MemShape ==
  ASSUME stk \in Stack, inFunction \in BOOLEAN, NEW id, IsDeclared(stk, id),
         NEW type \in {"PUSH", "POP"}
  PROVE  MemNode(type, id) \in PlainNode
<1>1. PICK v \in Int : v = SearchAddress(stk, id)
  BY SearchShape
<1>2. PICK b \in BOOLEAN : b = SearchIsLocal(stk, id, inFunction)
  <2>1. SearchIsLocal(stk, id, inFunction) \in BOOLEAN
    BY Zenon DEF SearchIsLocal
  <2> QED
    BY <2>1, Zenon
<1>3. MemNode(type, id) = [type |-> type, arg |-> "mem", addr |-> v, local |-> b]
  BY <1>1, <1>2, Zenon DEF MemNode
<1>4. type \in NodeTypes /\ type \notin {"JMP", "JZ", "CALL", "LABEL"} /\ "mem" \in Args
  BY DEF NodeTypes, Args
<1>5. MemNode(type, id) = [type |-> type, addr |-> v, local |-> b, arg |-> "mem"]
  BY <1>3, Zenon
<1> HIDE DEF MemNode
<1> QED
  BY <1>4, <1>5, PlainShape

LEMMA PoppedCount ==
  ASSUME NEW s \in Stack
  PROVE  PoppedVariables(s) \in Nat
<1> DEFINE n == LocalsStackPopScope(s).size
           P == {i \in n..s.size-1 : ~IsSeparator(s.vars[i])}
<1>1. n \in Int /\ s.size - 1 \in Int
  BY PopShape, SlotsTyped
<1> HIDE DEF n
<1>2. IsFiniteSet(n..s.size-1)
  BY <1>1, FS_Interval
<1>3. IsFiniteSet(P)
  BY <1>2, FS_Subset
<1>4. Cardinality(P) \in Nat
  BY <1>3, FS_CardinalityType
<1> QED
  BY <1>4 DEF PoppedVariables, n

-----------------------------------------------------------------------------
(* What the pending activations owe, all together. *)
LEMMA OwedShape ==
  ASSUME NEW A, NEW w \in Seq(A)
  PROVE  /\ \A k : k \in Owed(w) <=> \E d \in 1..Len(w) : k \in Awaits(w[d])
         /\ \A k : k \in Targets(w) <=> \E d \in 1..Len(w) : k \in Returns(w[d])
BY DEF Owed, Targets

Joins(A, p, q, w) == p \in Seq(A) /\ q \in Seq(A) /\ w = p \o q

LEMMA Joined ==
  ASSUME NEW A, NEW p, NEW q, NEW w, Joins(A, p, q, w)
  PROVE  /\ Owed(w) = Owed(p) \union Owed(q)
         /\ Targets(w) = Targets(p) \union Targets(q)
<1> p \in Seq(A) /\ q \in Seq(A) /\ w = p \o q
  BY DEF Joins
<1>1. PICK n \in Nat, m \in Nat : n = Len(p) /\ m = Len(q)
  OBVIOUS
<1>2. /\ w \in Seq(A) /\ Len(w) = n + m
      /\ \A d \in 1..n : w[d] = p[d] /\ d \in 1..n+m
      /\ \A d \in 1..m : w[n + d] = q[d] /\ n + d \in 1..n+m
  <2>1. /\ \A d \in 1..n : d \in 1..n+m
        /\ \A d \in 1..m : n + d \in 1..n+m /\ n + d > n /\ n + d - n = d
    BY <1>1
  <2> QED
    BY <1>1, <2>1
<1>3. \A d \in 1..n+m : d \in 1..n \/ \E e \in 1..m : d = n + e
  <2> TAKE d \in 1..n+m
  <2>1. CASE d <= n
    BY <1>1, <2>1
  <2>2. CASE d > n
    <3>1. d - n \in 1..m /\ d = n + (d - n)
      BY <1>1, <2>2
    <3> QED
      BY <3>1
  <2> QED
    BY <1>1, <2>1, <2>2
<1>4. \A k : k \in Owed(w) <=> k \in Owed(p) \/ k \in Owed(q)
  <2> TAKE k
  <2>1. k \in Owed(w) <=> \E d \in 1..n+m : k \in Awaits(w[d])
    BY <1>2, OwedShape
  <2>2. /\ k \in Owed(p) <=> \E d \in 1..n : k \in Awaits(p[d])
        /\ k \in Owed(q) <=> \E d \in 1..m : k \in Awaits(q[d])
    BY <1>1, OwedShape
  <2> QED
    BY <1>2, <1>3, <2>1, <2>2
<1>5. \A k : k \in Targets(w) <=> k \in Targets(p) \/ k \in Targets(q)
  <2> TAKE k
  <2>1. k \in Targets(w) <=> \E d \in 1..n+m : k \in Returns(w[d])
    BY <1>2, OwedShape
  <2>2. /\ k \in Targets(p) <=> \E d \in 1..n : k \in Returns(p[d])
        /\ k \in Targets(q) <=> \E d \in 1..m : k \in Returns(q[d])
    BY <1>1, OwedShape
  <2> QED
    BY <1>2, <1>3, <2>1, <2>2
<1> QED
  BY <1>4, <1>5

LEMMA Few ==
  ASSUME NEW x, NEW y
  PROVE  /\ Owed(<<>>) = {} /\ Targets(<<>>) = {}
         /\ Owed(<<x>>) = Awaits(x) /\ Targets(<<x>>) = Returns(x)
         /\ Owed(<<x, y>>) = Awaits(x) \union Awaits(y)
         /\ Targets(<<x, y>>) = Returns(x) \union Returns(y)
<1> DEFINE A == {x, y}
<1>1. Owed(<<>>) = {} /\ Targets(<<>>) = {}
  BY DEF Owed, Targets
<1>2. Owed(<<x>>) = Awaits(x) /\ Targets(<<x>>) = Returns(x)
  <2> DEFINE s == <<x>>
  <2>1. s \in Seq(A) /\ Len(s) = 1 /\ s[1] = x
    OBVIOUS
  <2>2. \A d : d \in 1..1 <=> d = 1
    OBVIOUS
  <2> HIDE DEF s
  <2>3. \A k : (k \in Owed(s) <=> k \in Awaits(x)) /\ (k \in Targets(s) <=> k \in Returns(x))
    BY <2>1, <2>2, OwedShape
  <2> QED
    BY <2>3 DEF s
<1>3. /\ Owed(<<x, y>>) = Awaits(x) \union Awaits(y)
      /\ Targets(<<x, y>>) = Returns(x) \union Returns(y)
  <2> DEFINE s == <<x, y>>
  <2>1. s \in Seq(A) /\ Len(s) = 2 /\ s[1] = x /\ s[2] = y
    OBVIOUS
  <2>2. \A d : d \in 1..2 <=> d = 1 \/ d = 2
    OBVIOUS
  <2> HIDE DEF s
  <2>3. \A k : /\ k \in Owed(s) <=> k \in Awaits(x) \/ k \in Awaits(y)
               /\ k \in Targets(s) <=> k \in Returns(x) \/ k \in Returns(y)
    BY <2>1, <2>2, OwedShape
  <2> QED
    BY <2>3 DEF s
<1> QED
  BY <1>1, <1>2, <1>3

LEMMA NoneOwed ==
  ASSUME NEW A, NEW w \in Seq(A), \A d \in 1..Len(w) : w[d].at \notin Closing
  PROVE  Owed(w) = {} /\ Targets(w) = {}
<1>1. \A d \in 1..Len(w) : Awaits(w[d]) = {} /\ Returns(w[d]) = {}
  BY DEF Awaits, Returns, Closing
<1> QED
  BY <1>1, OwedShape

(* The debts of the activations under the innermost one stay.              *)
LEMMA OwedOnTop ==
  ASSUME NEW A, NEW w, NEW acts, NEW v, Turns(A, w, acts, v)
  PROVE  /\ Owed(v) = Owed(acts) \union Owed(Tail(w))
         /\ Targets(v) = Targets(acts) \union Targets(Tail(w))
         /\ Owed(w) = Awaits(Head(w)) \union Owed(Tail(w))
         /\ Targets(w) = Returns(Head(w)) \union Targets(Tail(w))
<1> w \in Seq(A) /\ w # <<>> /\ acts \in Seq(A) /\ v = acts \o Tail(w)
  BY DEF Turns
<1> DEFINE x == Head(w)
           p == <<x>>
           q == Tail(w)
<1>1. x \in A /\ Joins(A, p, q, w) /\ Joins(A, acts, q, v)
  BY DEF Joins
<1>2. Owed(p) = Awaits(x) /\ Targets(p) = Returns(x)
  BY <1>1, Few
<1> HIDE DEF x, p, q
<1>3. Owed(w) = Owed(p) \union Owed(q) /\ Targets(w) = Targets(p) \union Targets(q)
  BY <1>1, Joined
<1>4. Owed(v) = Owed(acts) \union Owed(q) /\ Targets(v) = Targets(acts) \union Targets(q)
  BY <1>1, Joined
<1> QED
  BY <1>2, <1>3, <1>4 DEF x, q

-----------------------------------------------------------------------------
(* Emitting and patching. *)
LEMMA AppendShape ==
  ASSUME NEW r \in Seq(Node), NEW nodes \in Seq(Node), NEW q, q = r \o nodes
  PROVE  /\ q \in Seq(Node) /\ Len(r) \in Nat /\ Len(nodes) \in Nat
         /\ Len(q) = Len(r) + Len(nodes)
         /\ \A k \in 1..Len(r) : k \in 1..Len(q) /\ q[k] = r[k] /\ r[k] \in Node
         /\ \A k \in 1..Len(q) : k \notin 1..Len(r) =>
              /\ k - Len(r) \in 1..Len(nodes) /\ Len(r) + (k - Len(r)) = k
              /\ q[k] = nodes[k - Len(r)] /\ q[k] \in Node
         /\ \A j \in 1..Len(nodes) :
              /\ Len(r) + j \in 1..Len(q) /\ Len(r) + j \notin 1..Len(r)
              /\ q[Len(r) + j] = nodes[j]
<1>1. PICK n \in Nat, m \in Nat : n = Len(r) /\ m = Len(nodes)
  OBVIOUS
<1>2. /\ \A k \in 1..n : k \in 1..n+m
      /\ \A k \in 1..n+m : k \notin 1..n => k - n \in 1..m /\ n + (k - n) = k /\ k > n
      /\ \A j \in 1..m : n + j \in 1..n+m /\ n + j \notin 1..n /\ n + j > n /\ n + j - n = j
  BY <1>1
<1>3. q \in Seq(Node) /\ Len(q) = n + m
  BY <1>1
<1>4. /\ \A k \in 1..n : q[k] = r[k] /\ r[k] \in Node
      /\ \A k \in 1..n+m : k \notin 1..n => q[k] = nodes[k - n] /\ q[k] \in Node
  BY <1>1, <1>2
<1>5. \A j \in 1..m : q[n + j] = nodes[j]
  BY <1>1, <1>2
<1> QED
  BY <1>1, <1>2, <1>3, <1>4, <1>5

Patches(e, k, dest, q) ==
  e \in Seq(Node) /\ k \in 1..Len(e) /\ dest \in Int /\ q = Patched(e, k, dest)

LEMMA PatchShape ==
  ASSUME NEW e, NEW k, NEW dest, NEW q, Patches(e, k, dest, q)
  PROVE  /\ q \in Seq(Node) /\ Len(q) = Len(e)
         /\ \A x \in 1..Len(e) : /\ q[x].type = e[x].type /\ q[x].local = e[x].local
                                 /\ x # k => q[x] = e[x]
         /\ q[k].addr = dest
<1> /\ e \in Seq(Node) /\ k \in 1..Len(e) /\ dest \in Int
    /\ q = Patched(e, k, dest)
  BY DEF Patches
<1>1. PICK n \in Nat : n = Len(e)
  OBVIOUS
<1>2. e \in [1..n -> Node] /\ e[k] \in Node /\ k \in 1..n
  BY <1>1
<1>3. PICK y : y = [e[k] EXCEPT !.addr = dest]
  OBVIOUS
<1>4. y \in Node /\ y.addr = dest /\ y.type = e[k].type /\ y.local = e[k].local
  BY <1>2, <1>3, AddrWritten
<1>5. q = [e EXCEPT ![k] = y]
  BY <1>3 DEF Patched
<1>6. q \in [1..n -> Node] /\ q[k] = y /\ \A x \in 1..n : x # k => q[x] = e[x]
  BY <1>2, <1>4, <1>5
<1>7. q \in Seq(Node) /\ Len(q) = n
  BY <1>6
<1> QED
  BY <1>1, <1>2, <1>4, <1>6, <1>7

(* From r to q nodes were added, and the jumps of r that differ go to      *)
(* labels now; from w to v the debts are settled or handed on.             *)
Continues(r, w, q, v) ==
  /\ r \in Seq(Node) /\ q \in Seq(Node)
  /\ \A k \in 1..Len(r) :
       /\ k \in 1..Len(q) /\ q[k].type = r[k].type /\ q[k].local = r[k].local
       /\ q[k].addr = r[k].addr \/ (IsJump(q, k) /\ IsLocalLabel(q, q[k].addr))
  /\ \A k \in 1..Len(q) : k \notin 1..Len(r) /\ IsNamed(q[k]) => q[k].addr \in Id
  /\ \A k \in 1..Len(q) : k \notin 1..Len(r) /\ IsJump(q, k) =>
       k \in Owed(v) \/ IsLocalLabel(q, q[k].addr)
  /\ \A k \in Owed(w) : k \in Owed(v) \/ IsLocalLabel(q, q[k].addr)
  /\ \A k \in Owed(v) : k \in Owed(w) \/ IsJump(q, k)
  /\ \A k \in Targets(v) : k \in Targets(w) \/ IsLocalLabel(q, k)

LEMMA ContractKept ==
  ASSUME NEW r, NEW w, NEW q, NEW v, Contract(r, w), Continues(r, w, q, v)
  PROVE  Contract(q, v)
<1>1. \A k : IsJump(q, k) => IsLocalLabel(q, q[k].addr) \/ k \in Owed(v)
  <2> SUFFICES ASSUME NEW k, IsJump(q, k), k \notin Owed(v)
               PROVE  IsLocalLabel(q, q[k].addr)
    OBVIOUS
  <2>1. k \in 1..Len(q)
    BY DEF IsJump
  <2>2. CASE k \notin 1..Len(r)
    BY <2>1, <2>2 DEF Continues
  <2>3. CASE k \in 1..Len(r)
    <3>1. IsJump(r, k)
      BY <2>3 DEF Continues, IsJump
    <3>2. k \in Owed(w) => IsLocalLabel(q, q[k].addr)
      BY DEF Continues
    <3>3. k \notin Owed(w) => IsLocalLabel(r, r[k].addr)
      BY <3>1 DEF Contract
    <3>4. q[k].addr = r[k].addr \/ IsLocalLabel(q, q[k].addr)
      BY <2>3 DEF Continues
    <3>5. ASSUME NEW x, IsLocalLabel(r, x) PROVE IsLocalLabel(q, x)
      BY <3>5 DEF IsLocalLabel, Continues
    <3> QED
      BY <3>2, <3>3, <3>4, <3>5
  <2> QED
    BY <2>2, <2>3
<1>2. \A k \in Owed(v) : IsJump(q, k)
  <2> TAKE k \in Owed(v)
  <2>1. CASE k \in Owed(w)
    <3>1. IsJump(r, k)
      BY <2>1 DEF Contract
    <3> QED
      BY <3>1 DEF IsJump, Continues
  <2> QED
    BY <2>1 DEF Continues
<1>3. \A k \in Targets(v) : IsLocalLabel(q, k)
  <2> TAKE k \in Targets(v)
  <2>1. CASE k \in Targets(w)
    <3>1. IsLocalLabel(r, k)
      BY <2>1 DEF Contract
    <3> QED
      BY <3>1 DEF IsLocalLabel, Continues
  <2> QED
    BY <2>1 DEF Continues
<1>4. \A k \in 1..Len(q) : IsNamed(q[k]) => q[k].addr \in Id
  <2> SUFFICES ASSUME NEW k \in 1..Len(q), IsNamed(q[k])
               PROVE  q[k].addr \in Id
    OBVIOUS
  <2>1. CASE k \notin 1..Len(r)
    BY <2>1 DEF Continues
  <2>2. CASE k \in 1..Len(r)
    <3>1. q[k].type = r[k].type /\ q[k].local = r[k].local
      BY <2>2 DEF Continues
    <3>2. IsNamed(r[k])
      BY <3>1 DEF IsNamed
    <3>3. r[k].addr \in Id
      BY <2>2, <3>2 DEF Contract
    <3>4. ~IsJump(q, k)
      BY DEF IsJump, IsNamed
    <3> QED
      BY <2>2, <3>3, <3>4 DEF Continues
  <2> QED
    BY <2>1, <2>2
<1> QED
  BY <1>1, <1>2, <1>3, <1>4 DEF Contract

(* Nodes are emitted: a new jump is somebody's debt.                       *)
Emits(r, w, nodes, q, v) ==
  /\ r \in Seq(Node) /\ nodes \in Seq(Node) /\ q = r \o nodes
  /\ \A j \in 1..Len(nodes) :
       /\ IsNamed(nodes[j]) => nodes[j].addr \in Id
       /\ nodes[j].type \in {"JMP", "JZ"} => Len(r) + j \in Owed(v)
  /\ \A k \in Owed(w) : k \in Owed(v)
  /\ \A k \in Owed(v) :
       k \in Owed(w) \/ \E j \in 1..Len(nodes) : k = Len(r) + j /\ nodes[j].type \in {"JMP", "JZ"}
  /\ \A k \in Targets(v) :
       k \in Targets(w)
         \/ \E j \in 1..Len(nodes) : /\ k = Len(r) + j
                                     /\ nodes[j].type = "LABEL" /\ nodes[j].local

LEMMA EmittedContract ==
  ASSUME NEW r, NEW w, NEW nodes, NEW q, NEW v, Contract(r, w), Emits(r, w, nodes, q, v)
  PROVE  Contract(q, v) /\ q \in Seq(Node)
<1>0. r \in Seq(Node) /\ nodes \in Seq(Node) /\ q = r \o nodes
  BY DEF Emits
<1>1. /\ q \in Seq(Node) /\ Len(r) \in Nat /\ Len(nodes) \in Nat
      /\ Len(q) = Len(r) + Len(nodes)
      /\ \A k \in 1..Len(r) : k \in 1..Len(q) /\ q[k] = r[k] /\ r[k] \in Node
      /\ \A k \in 1..Len(q) : k \notin 1..Len(r) =>
           /\ k - Len(r) \in 1..Len(nodes) /\ Len(r) + (k - Len(r)) = k
           /\ q[k] = nodes[k - Len(r)] /\ q[k] \in Node
      /\ \A j \in 1..Len(nodes) :
           /\ Len(r) + j \in 1..Len(q) /\ Len(r) + j \notin 1..Len(r)
           /\ q[Len(r) + j] = nodes[j]
  BY <1>0, AppendShape
<1>2. \A k \in 1..Len(q) : k \notin 1..Len(r) /\ IsNamed(q[k]) => q[k].addr \in Id
  BY <1>1 DEF Emits
<1>3. \A k \in 1..Len(q) : k \notin 1..Len(r) /\ IsJump(q, k) => k \in Owed(v)
  <2> SUFFICES ASSUME NEW k \in 1..Len(q), k \notin 1..Len(r), IsJump(q, k)
               PROVE  k \in Owed(v)
    OBVIOUS
  <2>1. PICK j \in 1..Len(nodes) : j = k - Len(r) /\ Len(r) + j = k /\ q[k] = nodes[j]
    BY <1>1
  <2>2. nodes[j].type \in {"JMP", "JZ"}
    BY <2>1 DEF IsJump
  <2> QED
    BY <2>1, <2>2 DEF Emits
<1>4. \A k \in Owed(v) : k \in Owed(w) \/ IsJump(q, k)
  BY <1>1 DEF Emits, IsJump
<1>5. \A k \in Targets(v) : k \in Targets(w) \/ IsLocalLabel(q, k)
  BY <1>1 DEF Emits, IsLocalLabel
<1>6. Continues(r, w, q, v)
  BY <1>1, <1>2, <1>3, <1>4, <1>5 DEF Continues, Emits
<1> QED
  BY <1>1, <1>6, ContractKept

(* A label is emitted and a jump that was owed one is sent to it.          *)
Settles(r, w, nodes, k, d, q, v) ==
  /\ r \in Seq(Node) /\ nodes \in Seq(Node) /\ k \in Owed(w)
  /\ q = Patched(r \o nodes, k, Len(r) + d)
  /\ d \in 1..Len(nodes) /\ nodes[d].type = "LABEL" /\ nodes[d].local
  /\ \A j \in 1..Len(nodes) :
       /\ IsNamed(nodes[j]) => nodes[j].addr \in Id
       /\ nodes[j].type \in {"JMP", "JZ"} => Len(r) + j \in Owed(v) \/ nodes[j].addr \in Targets(w)
  /\ \A x \in Owed(w) : x = k \/ x \in Owed(v)
  /\ \A x \in Owed(v) :
       x \in Owed(w) \/ \E j \in 1..Len(nodes) : x = Len(r) + j /\ nodes[j].type \in {"JMP", "JZ"}
  /\ \A x \in Targets(v) : x \in Targets(w)

LEMMA PatchedContract ==
  ASSUME NEW r, NEW w, NEW nodes, NEW k, NEW d, NEW q, NEW v,
         Contract(r, w), Settles(r, w, nodes, k, d, q, v)
  PROVE  Contract(q, v) /\ q \in Seq(Node)
<1>0. PICK e, dest : e = r \o nodes /\ dest = Len(r) + d /\ q = Patched(e, k, dest)
  BY DEF Settles
<1>n. r \in Seq(Node) /\ nodes \in Seq(Node)
  BY DEF Settles
<1>1. /\ e \in Seq(Node) /\ Len(r) \in Nat /\ Len(nodes) \in Nat
      /\ Len(e) = Len(r) + Len(nodes)
      /\ \A x \in 1..Len(r) : x \in 1..Len(e) /\ e[x] = r[x] /\ r[x] \in Node
      /\ \A x \in 1..Len(e) : x \notin 1..Len(r) =>
           /\ x - Len(r) \in 1..Len(nodes) /\ Len(r) + (x - Len(r)) = x
           /\ e[x] = nodes[x - Len(r)] /\ e[x] \in Node
      /\ \A j \in 1..Len(nodes) :
           /\ Len(r) + j \in 1..Len(e) /\ Len(r) + j \notin 1..Len(r)
           /\ e[Len(r) + j] = nodes[j]
  BY <1>0, <1>n, AppendShape
<1>2. k \in 1..Len(r) /\ IsJump(r, k)
  BY DEF Settles, Contract, IsJump
<1>3. dest \in Int /\ dest \in 1..Len(e) /\ e[dest].type = "LABEL" /\ e[dest].local /\ dest # k
  <2>1. d \in 1..Len(nodes) /\ nodes[d].type = "LABEL" /\ nodes[d].local
    BY DEF Settles
  <2>2. e[dest] = nodes[d] /\ dest \in 1..Len(e) /\ dest \notin 1..Len(r)
    BY <1>0, <1>1, <2>1
  <2>3. dest \in Int
    BY <1>1, <2>2
  <2> QED
    BY <1>2, <2>1, <2>2, <2>3
<1>4. /\ q \in Seq(Node) /\ Len(q) = Len(e)
      /\ \A x \in 1..Len(e) : /\ q[x].type = e[x].type /\ q[x].local = e[x].local
                              /\ x # k => q[x] = e[x]
      /\ q[k].addr = dest
  <2>1. Patches(e, k, dest, q)
    BY <1>0, <1>1, <1>2, <1>3 DEF Patches
  <2> QED
    BY <2>1, PatchShape
<1>5. IsLocalLabel(q, dest)
  <2>1. dest \in 1..Len(q) /\ q[dest] = e[dest]
    BY <1>3, <1>4
  <2> QED
    BY <1>3, <2>1 DEF IsLocalLabel
<1>6. IsJump(q, k)
  <2>1. q[k].type = r[k].type /\ k \in 1..Len(q)
    BY <1>1, <1>2, <1>4
  <2> QED
    BY <1>2, <2>1 DEF IsJump
<1>7. \A x \in 1..Len(q) : x \notin 1..Len(r) =>
        /\ x # k /\ x - Len(r) \in 1..Len(nodes) /\ Len(r) + (x - Len(r)) = x
        /\ q[x] = nodes[x - Len(r)]
  BY <1>1, <1>2, <1>4
<1>8. \A x \in 1..Len(r) :
        /\ x \in 1..Len(q) /\ q[x].type = r[x].type /\ q[x].local = r[x].local
        /\ q[x].addr = r[x].addr \/ (IsJump(q, x) /\ IsLocalLabel(q, q[x].addr))
  <2> TAKE x \in 1..Len(r)
  <2>1. x \in 1..Len(q) /\ q[x].type = r[x].type /\ q[x].local = r[x].local
    BY <1>1, <1>4
  <2>2. x # k => q[x].addr = r[x].addr
    BY <1>1, <1>4
  <2> QED
    BY <1>4, <1>5, <1>6, <2>1, <2>2
<1>9. \A x \in Targets(w) : IsLocalLabel(q, x)
  <2> TAKE x \in Targets(w)
  <2>1. x \in 1..Len(r) /\ r[x].type = "LABEL" /\ r[x].local
    BY DEF Contract, IsLocalLabel
  <2> QED
    BY <1>8, <2>1 DEF IsLocalLabel
<1>10. \A x \in 1..Len(q) : x \notin 1..Len(r) /\ IsNamed(q[x]) => q[x].addr \in Id
  BY <1>7 DEF Settles
<1>11. \A x \in 1..Len(q) : x \notin 1..Len(r) /\ IsJump(q, x) =>
         x \in Owed(v) \/ IsLocalLabel(q, q[x].addr)
  <2> SUFFICES ASSUME NEW x \in 1..Len(q), x \notin 1..Len(r), IsJump(q, x)
               PROVE  x \in Owed(v) \/ IsLocalLabel(q, q[x].addr)
    OBVIOUS
  <2>1. PICK j \in 1..Len(nodes) : Len(r) + j = x /\ q[x] = nodes[j]
    BY <1>7
  <2>2. nodes[j].type \in {"JMP", "JZ"}
    BY <2>1 DEF IsJump
  <2>3. x \in Owed(v) \/ q[x].addr \in Targets(w)
    BY <2>1, <2>2 DEF Settles
  <2> QED
    BY <1>9, <2>3
<1>12. \A x \in Owed(w) : x \in Owed(v) \/ IsLocalLabel(q, q[x].addr)
  BY <1>4, <1>5 DEF Settles
<1>13. \A x \in Owed(v) : x \in Owed(w) \/ IsJump(q, x)
  <2> SUFFICES ASSUME NEW x \in Owed(v), x \notin Owed(w) PROVE IsJump(q, x)
    OBVIOUS
  <2>1. PICK j \in 1..Len(nodes) : x = Len(r) + j /\ nodes[j].type \in {"JMP", "JZ"}
    BY DEF Settles
  <2>2. x \in 1..Len(e) /\ x \notin 1..Len(r) /\ e[x] = nodes[j]
    BY <1>1, <2>1
  <2>3. x \in 1..Len(q) /\ q[x].type = nodes[j].type
    BY <1>4, <2>2
  <2> QED
    BY <2>1, <2>3 DEF IsJump
<1>14. Continues(r, w, q, v)
  BY <1>4, <1>8, <1>10, <1>11, <1>12, <1>13 DEF Continues, Settles
<1> QED
  BY <1>4, <1>14, ContractKept

-----------------------------------------------------------------------------
(* Most handlers leave the scopes and the debts alone: they replace their  *)
(* activation by others that close nothing, emit nodes that are no jumps   *)
(* and at most declare a variable; some fail, and the IR is abandoned.     *)
Quietly ==
  /\ status = "converting" /\ work # <<>> /\ Top.at \notin Closing
  /\ \E acts \in Seq(Idle(ast)) : work' = acts \o Tail(work)
  /\ \E nodes \in Seq(PlainNode) : ir' = ir \o nodes
  /\ \/ stk' = stk
     \/ \E id \in Id : stk.size < Capacity /\ stk' = LocalsStackPush(stk, id)
  /\ UNCHANGED <<ast, names, inFunction, status>>

Failed ==
  /\ status' \notin {"converting", "BACKEND_SUCCESS"} /\ work' = <<>>
  /\ UNCHANGED <<ast, names, stk, inFunction, ir>>

LEMMA TopShape ==
  ASSUME Typed, NEW p, At(p)
  PROVE  /\ status = "converting" /\ work # <<>> /\ Top.at = p
         /\ Top \in Activation(ast) /\ Top.n \in Nodes(ast) \union {Nil}
         /\ Top.i \in Int /\ Top.j \in Int /\ Top.op \in Parents
         /\ ast \in Programs /\ work \in Seq(Activation(ast)) /\ ir \in Seq(Node)
<1>1. work \in Seq(Activation(ast)) /\ work # <<>> /\ ast \in Programs /\ ir \in Seq(Node)
  BY DEF Typed, At
<1>2. Top \in Activation(ast)
  BY <1>1 DEF Top
<1>3. /\ Top.n \in Nodes(ast) \union {Nil} /\ Top.i \in Int /\ Top.j \in Int
      /\ Top.op \in Parents
  BY <1>2 DEF Activation
<1> QED
  BY <1>1, <1>2, <1>3 DEF At

(* The node a walk arrives at. *)
LEMMA VisitShape ==
  ASSUME Typed, At("walk"), Top.n.op # "NIL"
  PROVE  /\ Top.n.l \in Nodes(ast) \union {Nil} /\ Top.n.r \in Nodes(ast) \union {Nil}
         /\ Top.n.op = "NUMBER" => Top.n.v \in Int
         /\ Top.n.op \in {"VAR_DECL", "CALL"} => Top.n.l.v \in Id
         /\ Top.n.op = "FUNC_DECL" => Top.n.l.l.v \in Id /\ Params(Top.n.l.r) \in ParamLists
BY TopShape, NodesShape

LEMMA Lists ==
  ASSUME NEW A
  PROVE  /\ <<>> \in Seq(A)
         /\ \A x \in A : <<x>> \in Seq(A)
         /\ \A x, y \in A : <<x, y>> \in Seq(A) /\ <<x>> \o <<y>> \in Seq(A)
         /\ \A x, y, z \in A : <<x, y, z>> \in Seq(A)
OBVIOUS

LEMMA QuietShape ==
  ASSUME Typed, NEW p, p \notin Closing, At(p),
         NEW acts \in Seq(Idle(ast)), Continue(acts),
         NEW nodes \in Seq(PlainNode), Emit(nodes),
         ScopeUnchanged, Unchanged
  PROVE  Quietly
<1>1. status = "converting" /\ work # <<>> /\ Top.at \notin Closing
  BY TopShape
<1>2. \E a \in Seq(Idle(ast)) : work' = a \o Tail(work)
  BY DEF Continue
<1>3. \E b \in Seq(PlainNode) : ir' = ir \o b
  BY DEF Emit
<1>4. stk' = stk /\ UNCHANGED <<ast, names, inFunction, status>>
  BY DEF ScopeUnchanged, Unchanged
<1> QED
  BY <1>1, <1>2, <1>3, <1>4 DEF Quietly

(* Nothing emitted is an empty list emitted. *)
LEMMA Silent ==
  ASSUME Typed, UNCHANGED ir
  PROVE  Emit(<<>>) /\ <<>> \in Seq(PlainNode)
BY DEF Typed, Emit

LEMMA FailShape ==
  ASSUME NEW error, error \notin {"converting", "BACKEND_SUCCESS"}, Fail(error)
  PROVE  Failed
BY DEF Fail, Failed

LEMMA SearchFails ==
  ASSUME NEW id, SearchError(id)
  PROVE  Failed
<1>1. Fail("BACKEND_TYPE_ERROR") \/ Fail("BACKEND_SCOPE_ERROR")
  BY DEF SearchError
<1> QED
  BY <1>1, FailShape

(* Leaves and operators. *)
LEMMA NumberQuiet == ASSUME Typed, ConvertNumber PROVE Quietly
<1>1. At("walk") /\ Top.n.op = "NUMBER" /\ Continue(<<>>) /\ ScopeUnchanged /\ Unchanged
      /\ Emit(<<PushImm(Top.n.v)>>)
  BY DEF ConvertNumber, Visiting
<1>2. Top.n.v \in Int
  BY <1>1, VisitShape
<1>3. <<>> \in Seq(Idle(ast)) /\ <<PushImm(Top.n.v)>> \in Seq(PlainNode)
  BY <1>2, NodeShapes, Lists
<1> QED
  BY <1>1, <1>3, QuietShape DEF Closing

LEMMA IdentifierQuiet == ASSUME Typed, ConvertIdentifier PROVE Quietly \/ Failed
<1>1. CASE SearchError(Top.n.v)
  BY <1>1, SearchFails
<1>2. CASE SearchSucceeds(Top.n.v) /\ Emit(<<MemNode("PUSH", Top.n.v)>>) /\ Continue(<<>>)
           /\ ScopeUnchanged /\ Unchanged
  <2>1. At("walk") /\ IsDeclared(stk, Top.n.v) /\ stk \in Stack /\ inFunction \in BOOLEAN
    BY <1>2 DEF ConvertIdentifier, Visiting, SearchSucceeds, Typed
  <2>2. MemNode("PUSH", Top.n.v) \in PlainNode
    BY <2>1, MemShape
  <2>3. <<>> \in Seq(Idle(ast)) /\ <<MemNode("PUSH", Top.n.v)>> \in Seq(PlainNode)
    BY <2>2, Lists
  <2> QED
    BY <1>2, <2>1, <2>3, QuietShape DEF Closing
<1> QED
  BY <1>1, <1>2 DEF ConvertIdentifier

LEMMA BinaryQuiet == ASSUME Typed, ConvertBinary PROVE Quietly
<1>1. /\ At("walk") /\ Top.n.op \in Binary \union Comparison /\ UNCHANGED ir
      /\ Continue(<<Walk(Top.n.l, Top.n.op), Walk(Top.n.r, Top.n.op),
                    Resume("operator", Top.n, 0, 0)>>)
      /\ ScopeUnchanged /\ Unchanged
  BY DEF ConvertBinary
<1>2. Top.n.l \in Nodes(ast) \union {Nil} /\ Top.n.r \in Nodes(ast) \union {Nil}
  BY <1>1, VisitShape DEF Binary, Comparison
<1>3. Top.n \in Nodes(ast) \union {Nil} /\ Top.n.op \in Parents /\ "operator" \in Points
  BY <1>1, TopShape DEF Parents, Points
<1>4. /\ Walk(Top.n.l, Top.n.op) \in Idle(ast) /\ Walk(Top.n.r, Top.n.op) \in Idle(ast)
      /\ Resume("operator", Top.n, 0, 0) \in Idle(ast)
  <2>1. "operator" \notin Closing
    BY DEF Closing
  <2> QED
    BY <1>1, <1>2, <1>3, <2>1, WalkShape, ResumeShape
<1>5. <<Walk(Top.n.l, Top.n.op), Walk(Top.n.r, Top.n.op), Resume("operator", Top.n, 0, 0)>>
        \in Seq(Idle(ast))
  BY <1>4, Lists
<1> QED
  BY <1>1, <1>5, Silent, QuietShape DEF Closing

LEMMA UnaryQuiet == ASSUME Typed, ConvertUnary PROVE Quietly
<1>1. /\ At("walk") /\ Top.n.op = "SQRT" /\ UNCHANGED ir
      /\ Continue(<<Walk(Top.n.l, Top.n.op), Resume("operator", Top.n, 0, 0)>>)
      /\ ScopeUnchanged /\ Unchanged
  BY DEF ConvertUnary, Visiting
<1>2. Top.n.l \in Nodes(ast) \union {Nil}
  BY <1>1, VisitShape
<1>3. Top.n \in Nodes(ast) \union {Nil} /\ Top.n.op \in Parents /\ "operator" \in Points
  BY <1>1, TopShape DEF Parents, Points
<1>4. /\ Walk(Top.n.l, Top.n.op) \in Idle(ast) /\ Resume("operator", Top.n, 0, 0) \in Idle(ast)
  <2>1. "operator" \notin Closing /\ Top.n.op \in Binary \union Comparison \union {"SQRT"}
    BY <1>1 DEF Closing
  <2>2. Walk(Top.n.l, Top.n.op) \in Idle(ast)
    BY <1>2, <1>3, WalkShape
  <2>3. Resume("operator", Top.n, 0, 0) \in Idle(ast)
    BY <1>3, <2>1, ResumeShape
  <2> QED
    BY <2>2, <2>3
<1>5. <<Walk(Top.n.l, Top.n.op), Resume("operator", Top.n, 0, 0)>> \in Seq(Idle(ast))
  BY <1>4, Lists
<1> QED
  BY <1>1, <1>5, Silent, QuietShape DEF Closing

LEMMA OperatorQuiet == ASSUME Typed, EmitOperator PROVE Quietly
<1> DEFINE x == IF Top.n.op \in Comparison THEN CmpNode(Top.n.op) ELSE Bare(Top.n.op)
<1>1. At("operator") /\ Emit(<<x>>) /\ Continue(<<>>) /\ ScopeUnchanged /\ Unchanged
  BY DEF EmitOperator
<1>2. Top.n.op \in Binary \union Comparison \union {"SQRT"}
  BY <1>1, TopShape DEF Activation
<1>3. x \in PlainNode
  <2>1. CASE Top.n.op \in Comparison
    BY <2>1, NodeShapes
  <2>2. CASE Top.n.op \notin Comparison
    <3>1. Top.n.op \in NodeTypes /\ Top.n.op \notin {"JMP", "JZ", "CALL", "LABEL"}
      BY <1>2, <2>2 DEF NodeTypes, Binary
    <3> QED
      BY <2>2, <3>1, BareShape
  <2> QED
    BY <2>1, <2>2
<1> HIDE DEF x
<1>4. <<>> \in Seq(Idle(ast)) /\ <<x>> \in Seq(PlainNode)
  BY <1>3, Lists
<1> QED
  BY <1>1, <1>4, QuietShape DEF Closing

LEMMA TextQuiet == ASSUME Typed, ConvertText PROVE Quietly
<1>1. At("walk") /\ Continue(<<>>) /\ UNCHANGED ir /\ ScopeUnchanged /\ Unchanged
  BY DEF ConvertText, Visiting
<1>2. <<>> \in Seq(Idle(ast))
  BY Lists
<1> QED
  BY <1>1, <1>2, Silent, QuietShape DEF Closing

LEMMA UnsupportedFails == ASSUME Typed, ConvertUnsupported PROVE Failed
BY FailShape DEF ConvertUnsupported

(* Statements. *)
LEMMA SeparatorQuiet == ASSUME Typed, ConvertSeparator PROVE Quietly
<1> DEFINE acts == <<Walk(Top.n.l, "SEP")>> \o
                   IF Top.n.r = Nil THEN <<>> ELSE <<Walk(Top.n.r, "SEP")>>
<1>1. /\ At("walk") /\ Top.n.op = "SEP" /\ Emit(<<Bare("NOP")>>) /\ Continue(acts)
      /\ ScopeUnchanged /\ Unchanged
  BY DEF ConvertSeparator, Visiting
<1>2. Walk(Top.n.l, "SEP") \in Idle(ast) /\ Walk(Top.n.r, "SEP") \in Idle(ast)
  BY <1>1, VisitShape, WalkShape DEF Parents
<1>3. acts \in Seq(Idle(ast))
  <2>1. acts = <<Walk(Top.n.l, "SEP")>> \o <<>>
          \/ acts = <<Walk(Top.n.l, "SEP")>> \o <<Walk(Top.n.r, "SEP")>>
    OBVIOUS
  <2>2. <<Walk(Top.n.l, "SEP")>> \in Seq(Idle(ast))
    BY <1>2, Lists
  <2>3. <<Walk(Top.n.l, "SEP")>> \o <<>> = <<Walk(Top.n.l, "SEP")>>
    OBVIOUS
  <2> HIDE DEF acts
  <2> QED
    BY <1>2, <2>1, <2>2, <2>3, Lists
<1> HIDE DEF acts
<1>4. <<Bare("NOP")>> \in Seq(PlainNode)
  <2>1. Bare("NOP") \in PlainNode
    BY BareShape DEF NodeTypes
  <2> QED
    BY <2>1, Lists
<1> QED
  BY <1>1, <1>3, <1>4, QuietShape DEF Closing

LEMMA AssignQuiet == ASSUME Typed, ConvertAssign PROVE Quietly
<1>1. /\ At("walk") /\ Top.n.op = "ASSIGN" /\ UNCHANGED ir
      /\ Continue(<<Walk(Top.n.r, "ASSIGN"), Resume("store", Top.n.l, 0, 0)>>)
      /\ ScopeUnchanged /\ Unchanged
  BY DEF ConvertAssign, Visiting
<1>2. Top.n.l \in Nodes(ast) \union {Nil} /\ Top.n.r \in Nodes(ast) \union {Nil}
  BY <1>1, VisitShape
<1>3. Walk(Top.n.r, "ASSIGN") \in Idle(ast) /\ Resume("store", Top.n.l, 0, 0) \in Idle(ast)
  <2>1. "ASSIGN" \in Parents
    BY DEF Parents
  <2>2. Walk(Top.n.r, "ASSIGN") \in Idle(ast)
    BY <1>2, <2>1, WalkShape
  <2>3. Resume("store", Top.n.l, 0, 0) \in Idle(ast)
    BY <1>2, PlainResume
  <2> QED
    BY <2>2, <2>3
<1>4. <<Walk(Top.n.r, "ASSIGN"), Resume("store", Top.n.l, 0, 0)>> \in Seq(Idle(ast))
  BY <1>3, Lists
<1> QED
  BY <1>1, <1>4, Silent, QuietShape DEF Closing

LEMMA StoreQuiet == ASSUME Typed, Store PROVE Quietly \/ Failed
<1>1. CASE SearchError(Top.n.v)
  BY <1>1, SearchFails
<1>2. CASE SearchSucceeds(Top.n.v) /\ Emit(<<MemNode("POP", Top.n.v)>>) /\ Continue(<<>>)
           /\ ScopeUnchanged /\ Unchanged
  <2>1. At("store") /\ IsDeclared(stk, Top.n.v) /\ stk \in Stack /\ inFunction \in BOOLEAN
    BY <1>2 DEF Store, SearchSucceeds, Typed
  <2>2. MemNode("POP", Top.n.v) \in PlainNode
    BY <2>1, MemShape
  <2>3. <<>> \in Seq(Idle(ast)) /\ <<MemNode("POP", Top.n.v)>> \in Seq(PlainNode)
    BY <2>2, Lists
  <2> QED
    BY <1>2, <2>1, <2>3, QuietShape DEF Closing
<1> QED
  BY <1>1, <1>2 DEF Store

LEMMA InQuiet == ASSUME Typed, ConvertIn PROVE Quietly \/ Failed
<1> DEFINE x == MemNode("POP", Top.n.l.v)
           nodes == <<CallNode(StdlibIn), PushReg, x>>
<1>1. CASE SearchError(Top.n.l.v)
  BY <1>1, SearchFails
<1>2. CASE SearchSucceeds(Top.n.l.v) /\ Emit(nodes) /\ Continue(<<>>)
           /\ ScopeUnchanged /\ Unchanged
  <2>1. At("walk") /\ IsDeclared(stk, Top.n.l.v) /\ stk \in Stack /\ inFunction \in BOOLEAN
    BY <1>2 DEF ConvertIn, Visiting, SearchSucceeds, Typed
  <2>2. x \in PlainNode
    BY <2>1, MemShape
  <2>3. CallNode(StdlibIn) \in PlainNode /\ PushReg \in PlainNode
    BY NodeShapes, RuntimeAssumption
  <2>4. <<>> \in Seq(Idle(ast)) /\ nodes \in Seq(PlainNode)
    BY <2>2, <2>3, Lists
  <2> HIDE DEF nodes
  <2> QED
    BY <1>2, <2>1, <2>4, QuietShape DEF Closing
<1> QED
  BY <1>1, <1>2 DEF ConvertIn

LEMMA OutQuiet == ASSUME Typed, ConvertOut PROVE Quietly
<1>1. /\ At("walk") /\ Top.n.op = "OUT" /\ UNCHANGED ir
      /\ Continue(<<Walk(Top.n.l, "OUT"), Resume("print", Nil, 0, 0)>>)
      /\ ScopeUnchanged /\ Unchanged
  BY DEF ConvertOut, Visiting
<1>2. Top.n.l \in Nodes(ast) \union {Nil} /\ Nil \in Nodes(ast) \union {Nil}
  BY <1>1, VisitShape
<1>3. Walk(Top.n.l, "OUT") \in Idle(ast) /\ Resume("print", Nil, 0, 0) \in Idle(ast)
  <2>1. "OUT" \in Parents
    BY DEF Parents
  <2>2. Walk(Top.n.l, "OUT") \in Idle(ast)
    BY <1>2, <2>1, WalkShape
  <2>3. Resume("print", Nil, 0, 0) \in Idle(ast)
    <3>1. 0 \in Int /\ "print" \in {"store", "print", "ret", "args"}
      OBVIOUS
    <3> QED
      BY <1>2, <3>1, PlainResume, Zenon
  <2> QED
    BY <2>2, <2>3
<1>4. <<Walk(Top.n.l, "OUT"), Resume("print", Nil, 0, 0)>> \in Seq(Idle(ast))
  BY <1>3, Lists
<1> QED
  BY <1>1, <1>4, Silent, QuietShape DEF Closing

LEMMA PrintQuiet == ASSUME Typed, CallOut PROVE Quietly
<1>1. At("print") /\ Emit(<<CallNode(StdlibOut)>>) /\ Continue(<<>>)
      /\ ScopeUnchanged /\ Unchanged
  BY DEF CallOut
<1>2. CallNode(StdlibOut) \in PlainNode
  BY NodeShapes, RuntimeAssumption
<1>3. <<>> \in Seq(Idle(ast)) /\ <<CallNode(StdlibOut)>> \in Seq(PlainNode)
  BY <1>2, Lists
<1> QED
  BY <1>1, <1>3, QuietShape DEF Closing

LEMMA VarDeclarationQuiet == ASSUME Typed, ConvertVarDeclaration PROVE Quietly
<1>1. /\ At("walk") /\ Top.n.op = "VAR_DECL" /\ stk.size < Capacity
      /\ stk' = LocalsStackPush(stk, Top.n.l.v)
      /\ Emit(<<VarDeclNode(inFunction)>>) /\ Continue(<<>>)
      /\ UNCHANGED inFunction /\ Unchanged
  BY DEF ConvertVarDeclaration, Visiting
<1>2. Top.n.l.v \in Id
  BY <1>1, VisitShape
<1>3. VarDeclNode(inFunction) \in PlainNode
  BY NodeShapes DEF Typed
<1>4. <<>> \in Seq(Idle(ast)) /\ <<VarDeclNode(inFunction)>> \in Seq(PlainNode)
  BY <1>3, Lists
<1>5. status = "converting" /\ work # <<>> /\ Top.at \notin Closing
  BY <1>1, TopShape DEF Closing
<1>6. /\ \E acts \in Seq(Idle(ast)) : work' = acts \o Tail(work)
      /\ \E nodes \in Seq(PlainNode) : ir' = ir \o nodes
  BY <1>1, <1>4 DEF Continue, Emit
<1> QED
  BY <1>1, <1>2, <1>5, <1>6 DEF Quietly, Unchanged

LEMMA IfQuiet == ASSUME Typed, ConvertIf PROVE Quietly
<1>1. /\ At("walk") /\ Top.n.op = "IF" /\ Emit(<<Bare("NOP")>>)
      /\ Continue(<<Walk(Top.n.l, "IF"), Resume("branch", Top.n, 0, 0)>>)
      /\ ScopeUnchanged /\ Unchanged
  BY DEF ConvertIf, Visiting
<1>2. Top.n.l \in Nodes(ast) \union {Nil} /\ Top.n \in Nodes(ast) \union {Nil}
  BY <1>1, VisitShape, TopShape
<1>3. Walk(Top.n.l, "IF") \in Idle(ast) /\ Resume("branch", Top.n, 0, 0) \in Idle(ast)
  <2>1. "IF" \in Parents /\ "branch" \in Points /\ "branch" \notin Closing
    BY DEF Parents, Points, Closing
  <2> QED
    BY <1>1, <1>2, <2>1, WalkShape, ResumeShape
<1>4. <<Walk(Top.n.l, "IF"), Resume("branch", Top.n, 0, 0)>> \in Seq(Idle(ast))
  BY <1>3, Lists
<1>5. <<Bare("NOP")>> \in Seq(PlainNode)
  <2>1. Bare("NOP") \in PlainNode
    BY BareShape DEF NodeTypes
  <2> QED
    BY <2>1, Lists
<1> QED
  BY <1>1, <1>4, <1>5, QuietShape DEF Closing

(* Returns and calls. *)
LEMMA RetQuiet == ASSUME Typed, ConvertRet PROVE Quietly
<1>1. /\ At("walk") /\ Top.n.op = "RET" /\ UNCHANGED ir
      /\ Continue(<<Walk(Top.n.l, "RET"), Resume("ret", Nil, 0, 0)>>)
      /\ ScopeUnchanged /\ Unchanged
  BY DEF ConvertRet, Visiting
<1>2. Top.n.l \in Nodes(ast) \union {Nil} /\ Nil \in Nodes(ast) \union {Nil}
  BY <1>1, VisitShape
<1>3. Walk(Top.n.l, "RET") \in Idle(ast) /\ Resume("ret", Nil, 0, 0) \in Idle(ast)
  <2>1. "RET" \in Parents
    BY DEF Parents
  <2>2. Walk(Top.n.l, "RET") \in Idle(ast)
    BY <1>2, <2>1, WalkShape
  <2>3. Resume("ret", Nil, 0, 0) \in Idle(ast)
    BY <1>2, PlainResume
  <2> QED
    BY <2>2, <2>3
<1>4. <<Walk(Top.n.l, "RET"), Resume("ret", Nil, 0, 0)>> \in Seq(Idle(ast))
  BY <1>3, Lists
<1> QED
  BY <1>1, <1>4, Silent, QuietShape DEF Closing

LEMMA EmitRetQuiet == ASSUME Typed, EmitRet PROVE Quietly
<1>1. At("ret") /\ Emit(<<Bare("RET")>>) /\ Continue(<<>>) /\ ScopeUnchanged /\ Unchanged
  BY DEF EmitRet
<1>2. Bare("RET") \in PlainNode
  BY BareShape DEF NodeTypes
<1>3. <<>> \in Seq(Idle(ast)) /\ <<Bare("RET")>> \in Seq(PlainNode)
  BY <1>2, Lists
<1> QED
  BY <1>1, <1>3, QuietShape DEF Closing

LEMMA CallQuiet == ASSUME Typed, ConvertCall PROVE Quietly \/ Failed
<1> DEFINE args == Resume("args", Top.n.r, names[Top.n.l.v].argsCount, 0)
           call == [Resume("call", Top.n, 0, 0) EXCEPT !.op = Top.op]
           acts == (IF Top.n.r = Nil THEN <<>> ELSE <<args>>) \o <<call>>
<1>1. CASE Fail("BACKEND_TYPE_ERROR")
  BY <1>1, FailShape
<1>2. CASE /\ Continue(acts) /\ UNCHANGED ir /\ ScopeUnchanged /\ Unchanged
  <2>1. At("walk") /\ Top.n.op = "CALL"
    BY DEF ConvertCall, Visiting
  <2>2. /\ Top.n.r \in Nodes(ast) \union {Nil} /\ Top.n.l.v \in Id
        /\ Top.n \in Nodes(ast) \union {Nil} /\ Top.op \in Parents
    BY <2>1, VisitShape, TopShape
  <2>3. PICK count \in Int : count = names[Top.n.l.v].argsCount
    BY <2>2 DEF Typed
  <2>5. args \in Idle(ast)
    <3>1. Resume("args", Top.n.r, count, 0) \in Idle(ast)
      BY <2>2, PlainResume
    <3> QED
      BY <2>3, <3>1
  <2>6. call \in Idle(ast)
    BY <2>1, <2>2, CallResume
  <2>7. acts \in Seq(Idle(ast))
    <3>1. acts = <<>> \o <<call>> \/ acts = <<args>> \o <<call>>
      OBVIOUS
    <3>2. <<call>> \in Seq(Idle(ast)) /\ <<>> \o <<call>> = <<call>>
      BY <2>6, Lists
    <3> HIDE DEF acts, args, call
    <3> QED
      BY <2>5, <2>6, <3>1, <3>2, Lists
  <2> HIDE DEF acts
  <2> QED
    BY <1>2, <2>1, <2>7, Silent, QuietShape DEF Closing
<1> QED
  BY <1>1, <1>2 DEF ConvertCall

LEMMA CallArgumentsQuiet == ASSUME Typed, ConvertCallArguments PROVE Quietly \/ Failed
<1>1. /\ At("args") /\ Top.i \in Int /\ Top.n \in Nodes(ast) \union {Nil}
  BY TopShape DEF ConvertCallArguments
<1>2. CASE Fail("BACKEND_WRONG_ARGS_NUMBER")
  BY <1>2, FailShape
<1>3. "COMMA" \in Parents /\ "CALL" \in Parents /\ "args" \notin Closing
  BY DEF Parents, Closing
<1>4. CASE /\ Top.n.op = "COMMA" /\ UNCHANGED ir /\ ScopeUnchanged /\ Unchanged
           /\ Continue(<<Resume("args", Top.n.r, Top.i - 1, 0), Walk(Top.n.l, "COMMA")>>)
  <2>1. Top.n.l \in Nodes(ast) \union {Nil} /\ Top.n.r \in Nodes(ast) \union {Nil}
    BY <1>1, <1>4, TopShape, NodesShape
  <2>2. PICK left \in Int : left = Top.i - 1
    BY <1>1
  <2>3. Resume("args", Top.n.r, left, 0) \in Idle(ast)
    BY <2>1, PlainResume
  <2>4. Walk(Top.n.l, "COMMA") \in Idle(ast)
    BY <1>3, <2>1, WalkShape
  <2>5. <<Resume("args", Top.n.r, left, 0), Walk(Top.n.l, "COMMA")>> \in Seq(Idle(ast))
    BY <2>3, <2>4, Lists
  <2> QED
    BY <1>1, <1>3, <1>4, <2>2, <2>5, Silent, QuietShape
<1>5. CASE /\ UNCHANGED ir /\ ScopeUnchanged /\ Unchanged /\ Continue(<<Walk(Top.n, "CALL")>>)
  <2>1. Walk(Top.n, "CALL") \in Idle(ast)
    BY <1>1, <1>3, WalkShape
  <2>2. <<Walk(Top.n, "CALL")>> \in Seq(Idle(ast))
    BY <2>1, Lists
  <2> QED
    BY <1>1, <1>3, <1>5, <2>2, Silent, QuietShape
<1> QED
  BY <1>2, <1>4, <1>5 DEF ConvertCallArguments

LEMMA EmitCallQuiet == ASSUME Typed, EmitCall PROVE Quietly
<1> DEFINE nodes == <<CallNode(Top.n.l.v)>> \o IF Top.op = "SEP" THEN <<>> ELSE <<PushReg>>
<1>1. At("call") /\ Emit(nodes) /\ Continue(<<>>) /\ ScopeUnchanged /\ Unchanged
  BY DEF EmitCall
<1>2. Top.n.op = "CALL"
  BY <1>1, TopShape DEF Activation
<1>3. Top.n.l.v \in Id
  BY <1>1, <1>2, TopShape, NodesShape
<1>4. CallNode(Top.n.l.v) \in PlainNode /\ PushReg \in PlainNode
  BY <1>3, NodeShapes
<1>5. nodes \in Seq(PlainNode)
  <2>1. \/ nodes = <<CallNode(Top.n.l.v)>> \o <<>>
        \/ nodes = <<CallNode(Top.n.l.v)>> \o <<PushReg>>
    OBVIOUS
  <2>2. <<CallNode(Top.n.l.v)>> \in Seq(PlainNode)
    BY <1>4, Lists
  <2>3. <<CallNode(Top.n.l.v)>> \o <<>> = <<CallNode(Top.n.l.v)>>
    OBVIOUS
  <2> HIDE DEF nodes
  <2> QED
    BY <1>4, <2>1, <2>2, <2>3, Lists
<1> HIDE DEF nodes
<1>6. <<>> \in Seq(Idle(ast))
  BY Lists
<1> QED
  BY <1>1, <1>5, <1>6, QuietShape DEF Closing

-----------------------------------------------------------------------------
(* The invariant after a step. *)
LEMMA Concluded ==
  ASSUME Typed, status = "converting", Unchanged, stk' \in Stack, inFunction' \in BOOLEAN,
         ir' \in Seq(Node), work' \in Seq(Activation(ast)),
         Matches(work', stk'), Contract(ir', work')
  PROVE  IInv'
<1>1. Typed'
  BY DEF Typed, Unchanged
<1>2. status' = "converting"
  BY DEF Unchanged
<1> QED
  BY <1>1, <1>2 DEF IInv

LEMMA FailKeeps == ASSUME IInv, Failed PROVE IInv'
<1>1. Typed'
  BY DEF IInv, Typed, Failed
<1> QED
  BY <1>1 DEF IInv, Failed

LEMMA QuietKeeps == ASSUME IInv, Quietly PROVE IInv'
<1>1. /\ Typed /\ status = "converting" /\ work # <<>> /\ Top.at \notin Closing /\ Unchanged
      /\ Matches(work, stk) /\ Contract(ir, work)
  BY DEF IInv, Quietly, Unchanged
<1>2. /\ ast \in Programs /\ stk \in Stack /\ inFunction \in BOOLEAN /\ ir \in Seq(Node)
      /\ work \in Seq(Activation(ast))
  BY <1>1 DEF Typed
<1>3. PICK acts \in Seq(Idle(ast)) : work' = acts \o Tail(work)
  BY DEF Quietly
<1>4. PICK nodes \in Seq(PlainNode) : ir' = ir \o nodes
  BY DEF Quietly
<1>5. acts \in Seq(Activation(ast)) /\ \A d \in 1..Len(acts) : acts[d].at \notin Closing
  BY DEF Idle
<1>6. nodes \in Seq(Node) /\ \A d \in 1..Len(nodes) : nodes[d] \in PlainNode
  <2>1. PlainNode \subseteq Node
    BY DEF PlainNode
  <2> QED
    BY <2>1
<1>7. Head(work).at \notin Closing
  BY <1>1 DEF Top
<1>8. work' \in Seq(Activation(ast)) /\ SameClosers(work, work')
  <2>1. Turns(Activation(ast), work, acts, work')
    BY <1>1, <1>2, <1>3, <1>5 DEF Turns
  <2>2. SameClosers(work, work')
    BY <1>5, <1>7, <2>1, QuietStep
  <2>3. work' \in Seq(Activation(ast))
    BY <1>1, <1>2, <1>3, <1>5
  <2> QED
    BY <2>2, <2>3
<1>9. stk' \in Stack /\ SameSeparators(stk, stk')
  <2>1. CASE stk' = stk
    BY <1>2, <2>1 DEF SameSeparators
  <2>2. CASE \E id \in Id : stk.size < Capacity /\ stk' = LocalsStackPush(stk, id)
    BY <1>2, <2>2, PushAddsNone
  <2> QED
    BY <2>1, <2>2 DEF Quietly
<1>10. Matches(work', stk')
  BY <1>1, <1>8, <1>9, KeptMatch
<1>11. Emits(ir, work, nodes, ir', work')
  <2>1. Owed(acts) = {} /\ Targets(acts) = {}
    BY <1>5, NoneOwed
  <2>2. Awaits(Head(work)) = {} /\ Returns(Head(work)) = {}
    BY <1>7 DEF Awaits, Returns, Closing
  <2>3. Owed(work') = Owed(work) /\ Targets(work') = Targets(work)
    <3>1. Turns(Activation(ast), work, acts, work')
      BY <1>1, <1>2, <1>3, <1>5 DEF Turns
    <3>2. /\ Owed(work') = Owed(acts) \union Owed(Tail(work))
          /\ Targets(work') = Targets(acts) \union Targets(Tail(work))
          /\ Owed(work) = Awaits(Head(work)) \union Owed(Tail(work))
          /\ Targets(work) = Returns(Head(work)) \union Targets(Tail(work))
      BY <3>1, OwedOnTop
    <3> QED
      BY <2>1, <2>2, <3>2
  <2> QED
    BY <1>2, <1>4, <1>6, <2>3 DEF Emits, PlainNode
<1>12. Contract(ir', work') /\ ir' \in Seq(Node)
  BY <1>1, <1>11, EmittedContract
<1>13. inFunction' \in BOOLEAN
  BY <1>2 DEF Quietly
<1> QED
  BY <1>1, <1>8, <1>9, <1>10, <1>12, <1>13, Concluded

-----------------------------------------------------------------------------
(* The other handlers open or close a scope, or owe or settle a jump.      *)
LEMMA Handed ==
  ASSUME Typed, NEW p, At(p), NEW x \in Idle(ast), NEW c \in Activation(ast), c.at \in Closing,
         Continue(<<x, c>>)
  PROVE  /\ work' \in Seq(Activation(ast))
         /\ Owed(work') = Awaits(c) \union Owed(Tail(work))
         /\ Targets(work') = Returns(c) \union Targets(Tail(work))
         /\ Owed(work) = Awaits(Top) \union Owed(Tail(work))
         /\ Targets(work) = Returns(Top) \union Targets(Tail(work))
         /\ p \notin Closing => AddsCloser(work, work', Len(work), Scope(c))
         /\ p \in Closing => /\ AddsCloser(Tail(work), work', Len(work), Scope(c))
                             /\ AddsCloser(Tail(work), work, Len(work), Scope(Top))
<1>1. /\ status = "converting" /\ work # <<>> /\ Head(work) = Top /\ Top.at = p
      /\ work \in Seq(Activation(ast))
  BY TopShape DEF Top
<1>2. x \in Activation(ast) /\ x.at \notin Closing
  BY DEF Idle
<1> DEFINE acts == <<x, c>>
<1>3. acts \in Seq(Activation(ast)) /\ work' = acts \o Tail(work) /\ work' = <<x, c>> \o Tail(work)
  BY <1>2, Lists DEF Continue
<1>4. Owed(acts) = Awaits(x) \union Awaits(c) /\ Targets(acts) = Returns(x) \union Returns(c)
  BY Few
<1>5. Awaits(x) = {} /\ Returns(x) = {}
  BY <1>2 DEF Awaits, Returns, Closing
<1>5a. Len(acts) = 2 /\ acts[1] = x /\ acts[2] = c /\ 2 - 1 = 1
  OBVIOUS
<1> HIDE DEF acts
<1>6. /\ Owed(work') = Owed(acts) \union Owed(Tail(work))
      /\ Targets(work') = Targets(acts) \union Targets(Tail(work))
      /\ Owed(work) = Awaits(Head(work)) \union Owed(Tail(work))
      /\ Targets(work) = Returns(Head(work)) \union Targets(Tail(work))
  <2>1. Turns(Activation(ast), work, acts, work')
    BY <1>1, <1>3 DEF Turns
  <2> QED
    BY <2>1, OwedOnTop
<1>7. p \notin Closing => AddsCloser(work, work', Len(work), Scope(c))
  <2>1. \A j \in 1..1 : acts[j].at \notin Closing
    BY <1>2, <1>5a
  <2> QED
    BY <1>1, <1>3, <1>5a, <2>1, Len(acts) \in Nat \ {0}, OpeningStep
<1>8. p \in Closing => AddsCloser(Tail(work), work', Len(work), Scope(c))
  BY <1>1, <1>2, <1>3, HandingStep
<1>9. p \in Closing => AddsCloser(Tail(work), work, Len(work), Scope(Head(work)))
  <2> DEFINE v == Tail(work)
  <2>1. v = <<>> \o Tail(work)
    BY <1>1
  <2> HIDE DEF v
  <2>2. p \in Closing => AddsCloser(v, work, Len(work), Scope(Head(work)))
    BY <1>1, <2>1, ClosingStep
  <2> QED
    BY <2>2 DEF v
<1>10. work' \in Seq(Activation(ast))
  BY <1>1, <1>3
<1> QED
  BY <1>1, <1>4, <1>5, <1>6, <1>7, <1>8, <1>9, <1>10

LEMMA Returned ==
  ASSUME Typed, NEW p \in Closing, At(p), Continue(<<>>)
  PROVE  /\ work' \in Seq(Activation(ast))
         /\ Owed(work) = Awaits(Top) \union Owed(work')
         /\ Targets(work) = Returns(Top) \union Targets(work')
         /\ AddsCloser(work', work, Len(work), Scope(Top))
<1>1. /\ status = "converting" /\ work # <<>> /\ Head(work) = Top /\ Top.at = p
      /\ work \in Seq(Activation(ast))
  BY TopShape DEF Top
<1>2. work' = <<>> \o Tail(work) /\ work' \in Seq(Activation(ast)) /\ work' = Tail(work)
  BY <1>1 DEF Continue
<1>3. AddsCloser(work', work, Len(work), Scope(Head(work)))
  BY <1>1, <1>2, ClosingStep
<1>4. /\ Owed(work) = Awaits(Head(work)) \union Owed(Tail(work))
      /\ Targets(work) = Returns(Head(work)) \union Targets(Tail(work))
  <2> DEFINE acts == <<>>
  <2>1. Turns(Activation(ast), work, acts, work')
    BY <1>1, <1>2 DEF Turns
  <2> HIDE DEF acts
  <2> QED
    BY <2>1, OwedOnTop
<1> QED
  BY <1>1, <1>2, <1>3, <1>4

(* What a stretch of a handler between two calls knows of the state.       *)
LEMMA Now ==
  ASSUME IInv, NEW p, At(p)
  PROVE  /\ Typed /\ status = "converting" /\ Matches(work, stk) /\ Contract(ir, work)
         /\ stk \in Stack /\ inFunction \in BOOLEAN /\ ir \in Seq(Node) /\ Len(ir) \in Nat
         /\ stk.size \in Nat /\ Capacity \in Nat
BY SlotsTyped DEF IInv, At, Typed

LEMMA BranchKeeps ==
  ASSUME IInv, Branch
  PROVE  IInv' /\ SS!OpenBlock
<1> DEFINE jz == Len(ir) + 1
           n == Top.n
           x == IF n.r.op = "ELSE" THEN Walk(n.r.l, "ELSE") ELSE Walk(n.r, "IF")
           c == IF n.r.op = "ELSE" THEN Resume("else", n.r, jz, 0)
                                   ELSE Resume("endif", Nil, jz, 0)
           nodes == <<Bare("JZ")>>
<1>1. /\ At("branch") /\ stk.size < Capacity /\ Emit(nodes)
      /\ stk' = LocalsStackInitScope(stk, NORMAL_SCOPE)
      /\ Continue(<<x, c>>) /\ UNCHANGED inFunction /\ Unchanged
  BY DEF Branch
<1>2. /\ Typed /\ status = "converting" /\ Matches(work, stk) /\ Contract(ir, work)
      /\ stk \in Stack /\ inFunction \in BOOLEAN /\ ir \in Seq(Node) /\ Len(ir) \in Nat
  BY <1>1, Now
<1>3. n.r \in Nodes(ast) /\ ast \in Programs
  <2>1. /\ n \in Nodes(ast) \union {Nil} /\ n.op = "IF" /\ ast \in Programs
    BY <1>1, <1>2, TopShape DEF Activation
  <2> QED
    BY <2>1, NodesShape
<1>4. x \in Idle(ast)
  <2>1. n.r.op = "ELSE" => n.r.l \in Nodes(ast)
    BY <1>3, NodesShape
  <2> QED
    BY <1>3, <2>1, WalkShape DEF Parents
<1>5. Closer(ast, c, "else", jz, 0) \/ Closer(ast, c, "endif", jz, 0)
  <2>1. "else" \in Closing /\ "endif" \in Closing /\ jz \in Int /\ 0 \in Int
    BY <1>2 DEF Closing
  <2>2. n.r \in Nodes(ast) \union {Nil} /\ Nil \in Nodes(ast) \union {Nil}
    BY <1>3
  <2> HIDE DEF jz
  <2>3. CASE n.r.op = "ELSE"
    <3>1. Closer(ast, Resume("else", n.r, jz, 0), "else", jz, 0)
      BY <2>1, <2>2, <2>3, CloserResume
    <3> QED
      BY <2>3, <3>1
  <2>4. CASE n.r.op # "ELSE"
    <3>1. Closer(ast, Resume("endif", Nil, jz, 0), "endif", jz, 0)
      BY <2>1, <2>2, CloserResume
    <3> QED
      BY <2>4, <3>1
  <2> QED
    BY <2>3, <2>4
<1> HIDE DEF x, c
<1>6. c \in Activation(ast) /\ c.at \in Closing /\ Awaits(c) = {jz} /\ Returns(c) = {} /\ Scope(c) = NORMAL_SCOPE
  BY <1>5 DEF Closer, Closing, Awaits, Returns, Scope
<1>7. Awaits(Top) = {} /\ Returns(Top) = {} /\ "branch" \notin Closing
  BY <1>1, <1>2, TopShape DEF Awaits, Returns, Closing
<1>8. /\ work' \in Seq(Activation(ast))
      /\ Owed(work') = {jz} \union Owed(work) /\ Targets(work') = Targets(work)
      /\ AddsCloser(work, work', Len(work), NORMAL_SCOPE)
  BY <1>1, <1>2, <1>4, <1>5, <1>6, <1>7, Handed
<1>9. /\ stk' \in Stack
      /\ AddsSeparator(stk, stk', stk.size, NORMAL_SCOPE)
  BY <1>1, <1>2, OpenAddsOne
<1>10. Matches(work', stk')
  BY <1>2, <1>8, <1>9, OpenedMatch
<1>11. Emits(ir, work, nodes, ir', work')
  <2>1. /\ nodes \in Seq(Node) /\ Len(nodes) = 1 /\ nodes[1].type = "JZ"
    <3>1. Bare("JZ") \in Node /\ Bare("JZ").type = "JZ"
      BY BareShape DEF NodeTypes
    <3> QED
      BY <3>1
  <2> HIDE DEF nodes
  <2>2. \A j : j \in 1..1 <=> j = 1
    OBVIOUS
  <2> QED
    BY <1>1, <1>2, <1>8, <2>1, <2>2 DEF Emits, Emit, IsNamed
<1>12. Contract(ir', work') /\ ir' \in Seq(Node)
  BY <1>2, <1>11, EmittedContract
<1>13. IInv'
  BY <1>1, <1>2, <1>8, <1>9, <1>10, <1>12, Concluded
<1>14. SS!OpenBlock
  BY <1>1, Zenon DEF SS!OpenBlock, SS!HasRoom, SS!LocalsStackInitScope, SS!Grown,
    SS!LocalsStackTop, SS!NORMAL_SCOPE, LocalsStackInitScope, Grown, LocalsStackTop, NORMAL_SCOPE
<1> QED
  BY <1>13, <1>14

LEMMA WhileKeeps ==
  ASSUME IInv, ConvertWhile
  PROVE  IInv' /\ SS!OpenBlock
<1> DEFINE k == Len(ir) + 1
           x == Walk(Top.n.l, "WHILE")
           c == Resume("loop", Top.n, k, 0)
           nodes == <<LocalLabel>>
<1>1. /\ At("walk") /\ Top.n.op = "WHILE" /\ stk.size < Capacity /\ Emit(nodes)
      /\ stk' = LocalsStackInitScope(stk, NORMAL_SCOPE)
      /\ Continue(<<x, c>>) /\ UNCHANGED inFunction /\ Unchanged
  BY DEF ConvertWhile, Visiting
<1>2. /\ Typed /\ status = "converting" /\ Matches(work, stk) /\ Contract(ir, work)
      /\ stk \in Stack /\ inFunction \in BOOLEAN /\ ir \in Seq(Node) /\ Len(ir) \in Nat
  BY <1>1, Now
<1>3. /\ Top.n.l \in Nodes(ast) \union {Nil} /\ Top.n \in Nodes(ast) \union {Nil}
  BY <1>1, <1>2, VisitShape, TopShape
<1>4. x \in Idle(ast)
  <2>1. "WHILE" \in Parents
    BY DEF Parents
  <2> QED
    BY <1>3, <2>1, WalkShape
<1>5. Closer(ast, c, "loop", k, 0)
  <2>1. "loop" \in Closing /\ k \in Int /\ 0 \in Int /\ "loop" # "else"
    BY <1>2 DEF Closing
  <2> HIDE DEF k
  <2> QED
    BY <1>1, <1>3, <2>1, CloserResume
<1> HIDE DEF x, c
<1>6. /\ c \in Activation(ast) /\ c.at \in Closing /\ Awaits(c) = {} /\ Returns(c) = {k}
      /\ Scope(c) = NORMAL_SCOPE
  BY <1>5 DEF Closer, Closing, Awaits, Returns, Scope
<1>7. Awaits(Top) = {} /\ Returns(Top) = {} /\ "walk" \notin Closing
  BY <1>1, <1>2, TopShape DEF Awaits, Returns, Closing
<1>8. /\ work' \in Seq(Activation(ast))
      /\ Owed(work') = Owed(work) /\ Targets(work') = {k} \union Targets(work)
      /\ AddsCloser(work, work', Len(work), NORMAL_SCOPE)
  BY <1>1, <1>2, <1>4, <1>6, <1>7, Handed
<1>9. /\ stk' \in Stack
      /\ AddsSeparator(stk, stk', stk.size, NORMAL_SCOPE)
  BY <1>1, <1>2, OpenAddsOne
<1>10. Matches(work', stk')
  BY <1>2, <1>8, <1>9, OpenedMatch
<1>11. Emits(ir, work, nodes, ir', work')
  <2>1. nodes \in Seq(Node) /\ Len(nodes) = 1 /\ nodes[1].type = "LABEL" /\ nodes[1].local
    BY NodeShapes DEF PlainNode
  <2> HIDE DEF nodes
  <2>2. \A j : j \in 1..1 <=> j = 1
    OBVIOUS
  <2> QED
    BY <1>1, <1>2, <1>8, <2>1, <2>2 DEF Emits, Emit, IsNamed
<1>12. Contract(ir', work') /\ ir' \in Seq(Node)
  BY <1>2, <1>11, EmittedContract
<1>13. IInv'
  BY <1>1, <1>2, <1>8, <1>9, <1>10, <1>12, Concluded
<1>14. SS!OpenBlock
  BY <1>1, Zenon DEF SS!OpenBlock, SS!HasRoom, SS!LocalsStackInitScope, SS!Grown,
    SS!LocalsStackTop, SS!NORMAL_SCOPE, LocalsStackInitScope, Grown, LocalsStackTop, NORMAL_SCOPE
<1> QED
  BY <1>13, <1>14

LEMMA LoopBodyKeeps ==
  ASSUME IInv, LoopBody
  PROVE  IInv' /\ UNCHANGED <<stk, inFunction>>
<1> DEFINE k == Len(ir) + 1
           x == Walk(Top.n.r, "WHILE")
           c == Resume("endloop", Nil, Top.i, k)
           nodes == <<Bare("JZ")>>
<1>1. /\ At("loop") /\ Emit(nodes) /\ Continue(<<x, c>>) /\ Unchanged
      /\ UNCHANGED <<stk, inFunction>>
  BY DEF LoopBody, ScopeUnchanged
<1>2. /\ Typed /\ status = "converting" /\ Matches(work, stk) /\ Contract(ir, work)
      /\ stk \in Stack /\ inFunction \in BOOLEAN /\ ir \in Seq(Node) /\ Len(ir) \in Nat
  BY <1>1, Now
<1>3. /\ Top.n.r \in Nodes(ast) \union {Nil} /\ Nil \in Nodes(ast) \union {Nil}
      /\ Top.i \in Int /\ Top.at = "loop"
  <2>1. /\ Top.n \in Nodes(ast) \union {Nil} /\ Top.n.op = "WHILE" /\ ast \in Programs
        /\ Top.i \in Int /\ Top.at = "loop"
    BY <1>1, <1>2, TopShape DEF Activation
  <2> QED
    BY <2>1, NodesShape
<1>4. x \in Idle(ast)
  <2>1. "WHILE" \in Parents
    BY DEF Parents
  <2> QED
    BY <1>3, <2>1, WalkShape
<1>5. Closer(ast, c, "endloop", Top.i, k)
  <2>1. "endloop" \in Closing /\ k \in Int /\ "endloop" # "else" /\ "endloop" # "loop"
    BY <1>2 DEF Closing
  <2> HIDE DEF k
  <2> QED
    BY <1>3, <2>1, CloserResume
<1> HIDE DEF x, c
<1>6. /\ c \in Activation(ast) /\ c.at \in Closing /\ Awaits(c) = {k} /\ Returns(c) = {Top.i}
      /\ Scope(c) = NORMAL_SCOPE
  BY <1>5 DEF Closer, Closing, Awaits, Returns, Scope
<1>7. /\ Awaits(Top) = {} /\ Returns(Top) = {Top.i} /\ "loop" \in Closing
      /\ Scope(Top) = NORMAL_SCOPE
  BY <1>3 DEF Awaits, Returns, Closing, Scope
<1>8. /\ work' \in Seq(Activation(ast))
      /\ Owed(work') = {k} \union Owed(work) /\ Targets(work') = Targets(work)
      /\ AddsCloser(Tail(work), work', Len(work), NORMAL_SCOPE)
      /\ AddsCloser(Tail(work), work, Len(work), NORMAL_SCOPE)
  BY <1>1, <1>2, <1>4, <1>6, <1>7, Handed
<1>9. SameClosers(work, work')
  BY <1>8 DEF AddsCloser, SameClosers
<1>10. Matches(work', stk')
  <2>1. SameSeparators(stk, stk')
    BY <1>1 DEF SameSeparators
  <2> QED
    BY <1>2, <1>9, <2>1, KeptMatch
<1>11. Emits(ir, work, nodes, ir', work')
  <2>1. nodes \in Seq(Node) /\ Len(nodes) = 1 /\ nodes[1].type = "JZ"
    <3>1. Bare("JZ") \in Node /\ Bare("JZ").type = "JZ"
      BY BareShape DEF NodeTypes
    <3> QED
      BY <3>1
  <2> HIDE DEF nodes
  <2>2. \A j : j \in 1..1 <=> j = 1
    OBVIOUS
  <2> QED
    BY <1>1, <1>2, <1>8, <2>1, <2>2 DEF Emits, Emit, IsNamed
<1>12. Contract(ir', work') /\ ir' \in Seq(Node)
  BY <1>2, <1>11, EmittedContract
<1>13. IInv'
  BY <1>1, <1>2, <1>8, <1>10, <1>12, Concluded
<1> QED
  BY <1>1, <1>13

LEMMA FuncDeclKeeps ==
  ASSUME IInv, ConvertFuncDecl, ~Failed
  PROVE  IInv' /\ SS!OpenFunction(Params(Top.n.l.r)) /\ Params(Top.n.l.r) \in ParamLists
<1> DEFINE params == Params(Top.n.l.r)
           s == LocalsStackInitScope(stk, FUNC_SCOPE)
           k == Len(ir) + 2
           x == Walk(Top.n.r, "FUNC_DECL")
           c == Resume("enddecl", Nil, k, 0)
           nodes == <<Bare("NOP"), Bare("JMP"), FuncLabel(Top.n.l.l.v), Bare("SET_FRAME_PTR")>>
<1>1. /\ At("walk") /\ Top.n.op = "FUNC_DECL" /\ stk.size + Len(params) < Capacity
      /\ ~inFunction /\ stk' = PushParams(s, params) /\ inFunction' = TRUE
      /\ Emit(nodes) /\ Continue(<<x, c>>) /\ Unchanged
  BY FailShape DEF ConvertFuncDecl, Visiting
<1>2. /\ Typed /\ status = "converting" /\ Matches(work, stk) /\ Contract(ir, work)
      /\ stk \in Stack /\ ir \in Seq(Node) /\ Len(ir) \in Nat
      /\ stk.size \in Nat /\ Capacity \in Nat
  BY <1>1, Now
<1>3. /\ Top.n.r \in Nodes(ast) \union {Nil} /\ Nil \in Nodes(ast) \union {Nil}
      /\ Top.n.l.l.v \in Id /\ params \in ParamLists
  BY <1>1, <1>2, VisitShape
<1>4. x \in Idle(ast)
  <2>1. "FUNC_DECL" \in Parents
    BY DEF Parents
  <2> QED
    BY <1>3, <2>1, WalkShape
<1>5. Closer(ast, c, "enddecl", k, 0)
  <2>1. "enddecl" \in Closing /\ k \in Int /\ 0 \in Int /\ "enddecl" # "else" /\ "enddecl" # "loop"
    BY <1>2 DEF Closing
  <2> HIDE DEF k
  <2> QED
    BY <1>3, <2>1, CloserResume
<1> HIDE DEF x, c, params, s
<1>6. /\ c \in Activation(ast) /\ c.at \in Closing /\ Awaits(c) = {k} /\ Returns(c) = {}
      /\ Scope(c) = FUNC_SCOPE
  BY <1>5 DEF Closer, Closing, Awaits, Returns, Scope
<1>7. Awaits(Top) = {} /\ Returns(Top) = {} /\ "walk" \notin Closing
  BY <1>1, <1>2, TopShape DEF Awaits, Returns, Closing
<1>8. /\ work' \in Seq(Activation(ast))
      /\ Owed(work') = {k} \union Owed(work) /\ Targets(work') = Targets(work)
      /\ AddsCloser(work, work', Len(work), FUNC_SCOPE)
  BY <1>1, <1>2, <1>4, <1>6, <1>7, Handed
<1>9. /\ s \in Stack /\ AddsSeparator(stk, s, stk.size, FUNC_SCOPE)
      /\ stk' \in Stack /\ SameSeparators(s, stk')
  <2>1. params \in Seq(Id) /\ Len(params) \in Nat
    BY <1>3, ParamListsAssumption, NamesShape
  <2>2. stk.size < Capacity
    BY <1>1, <1>2, <2>1
  <2>3. s \in Stack /\ s.size = stk.size + 1 /\ AddsSeparator(stk, s, stk.size, FUNC_SCOPE)
    BY <1>2, <2>2, OpenAddsOne DEF s
  <2>4. s.size + Len(params) <= Capacity
    BY <1>1, <1>2, <2>1, <2>3
  <2> QED
    BY <1>1, <2>1, <2>3, <2>4, ParamsAddNone
<1>10. Matches(work', stk')
  <2>1. Matches(work', s)
    BY <1>2, <1>8, <1>9, OpenedMatch
  <2>2. SameClosers(work', work')
    BY DEF SameClosers
  <2> QED
    BY <1>9, <2>1, <2>2, KeptMatch
<1>11. Emits(ir, work, nodes, ir', work')
  <2>1. /\ nodes \in Seq(Node) /\ Len(nodes) = 4 /\ nodes[2].type = "JMP"
        /\ nodes[1] \in PlainNode /\ nodes[3] \in PlainNode /\ nodes[4] \in PlainNode
    <3>1. /\ Bare("NOP") \in PlainNode /\ Bare("SET_FRAME_PTR") \in PlainNode
          /\ Bare("JMP") \in Node /\ Bare("JMP").type = "JMP"
      BY BareShape DEF NodeTypes
    <3>2. FuncLabel(Top.n.l.l.v) \in PlainNode
      BY <1>3, NodeShapes
    <3>3. PlainNode \subseteq Node
      BY DEF PlainNode
    <3> QED
      BY <3>1, <3>2, <3>3
  <2> HIDE DEF nodes
  <2>2. \A j : j \in 1..4 <=> j = 1 \/ j = 2 \/ j = 3 \/ j = 4
    OBVIOUS
  <2> QED
    BY <1>1, <1>2, <1>8, <2>1, <2>2 DEF Emits, Emit, IsNamed, PlainNode
<1>12. Contract(ir', work') /\ ir' \in Seq(Node)
  BY <1>2, <1>11, EmittedContract
<1>13. inFunction' \in BOOLEAN
  BY <1>1
<1>14. IInv'
  BY <1>1, <1>2, <1>8, <1>9, <1>10, <1>12, <1>13, Concluded
<1>15. SS!OpenFunction(params)
  BY <1>1, Zenon DEF SS!OpenFunction, SS!LocalsStackInitScope, SS!Grown, SS!PushParams,
    SS!FuncArg, SS!LocalsStackTop, SS!NORMAL_SCOPE, SS!FUNC_SCOPE, LocalsStackInitScope, Grown,
    PushParams, FuncArg, LocalsStackTop, NORMAL_SCOPE, FUNC_SCOPE, s
<1> QED
  BY <1>3, <1>14, <1>15 DEF params

(* leaveAndPopScope emits how many variables it released.                  *)
LEMMA LeaveShape ==
  ASSUME stk \in Stack
  PROVE  LeaveNode(PoppedVariables(stk)) \in PlainNode
<1>1. PICK n \in Int : n = PoppedVariables(stk)
  BY PoppedCount
<1> QED
  BY <1>1, NodeShapes

LEMMA EndIfKeeps ==
  ASSUME IInv, EndIf
  PROVE  IInv' /\ SS!CloseBlock
<1> DEFINE leave == LeaveNode(PoppedVariables(stk))
           nodes == <<leave, LocalLabel>>
<1>1. /\ At("endif") /\ ir' = Patched(ir \o nodes, Top.i, Len(ir) + 2)
      /\ stk' = LocalsStackPopScope(stk) /\ Continue(<<>>)
      /\ UNCHANGED inFunction /\ Unchanged
  BY DEF EndIf
<1>2. /\ Typed /\ status = "converting" /\ Matches(work, stk) /\ Contract(ir, work)
      /\ stk \in Stack /\ inFunction \in BOOLEAN /\ ir \in Seq(Node) /\ Len(ir) \in Nat
  BY <1>1, Now
<1>3. Awaits(Top) = {Top.i} /\ Returns(Top) = {} /\ Scope(Top) = NORMAL_SCOPE
  BY <1>1, <1>2, TopShape DEF Awaits, Returns, Scope
<1>4. /\ work' \in Seq(Activation(ast))
      /\ Owed(work) = {Top.i} \union Owed(work') /\ Targets(work) = Targets(work')
      /\ AddsCloser(work', work, Len(work), NORMAL_SCOPE)
  BY <1>1, <1>2, <1>3, Returned DEF Closing
<1>5. /\ Separators(stk) # {} /\ stk.vars[Innermost(stk)].id = NORMAL_SCOPE
      /\ Matches(work', stk') /\ stk' \in Stack
  BY <1>1, <1>2, <1>4, ClosedMatch, PopTakesOne
<1>6. Settles(ir, work, nodes, Top.i, 2, ir', work')
  <2>1. leave \in PlainNode /\ LocalLabel \in PlainNode /\ PlainNode \subseteq Node
    BY <1>2, LeaveShape, NodeShapes DEF PlainNode
  <2> HIDE DEF leave
  <2>2. /\ nodes \in Seq(Node) /\ Len(nodes) = 2
        /\ nodes[1] \in PlainNode /\ nodes[2] = LocalLabel
    BY <2>1
  <2> HIDE DEF nodes
  <2>3. /\ \A j : j \in 1..2 <=> j = 1 \/ j = 2
        /\ LocalLabel.type = "LABEL" /\ LocalLabel.local
    BY NodeShapes
  <2> QED
    BY <1>1, <1>2, <1>4, <2>1, <2>2, <2>3 DEF Settles, IsNamed, PlainNode
<1>7. Contract(ir', work') /\ ir' \in Seq(Node)
  BY <1>2, <1>6, PatchedContract
<1>8. IInv'
  BY <1>1, <1>2, <1>4, <1>5, <1>7, Concluded
<1>9. SS!CloseBlock
  BY <1>1, <1>5, Zenon DEF SS!CloseBlock, SS!InnermostIs, SS!LocalsStackPopScope, SS!Separators,
    SS!Innermost, SS!Live, SS!IsSeparator, SS!NORMAL_SCOPE, LocalsStackPopScope, Separators,
    Innermost, Live, IsSeparator, NORMAL_SCOPE
<1> QED
  BY <1>8, <1>9

LEMMA EndWhileKeeps ==
  ASSUME IInv, EndWhile
  PROVE  IInv' /\ SS!CloseBlock
<1> DEFINE leave == LeaveNode(PoppedVariables(stk))
           back  == JumpTo("JMP", Top.i)
           nodes == <<leave, back, LocalLabel>>
<1>1. /\ At("endloop") /\ ir' = Patched(ir \o nodes, Top.j, Len(ir) + 3)
      /\ stk' = LocalsStackPopScope(stk) /\ Continue(<<>>)
      /\ UNCHANGED inFunction /\ Unchanged
  BY DEF EndWhile
<1>2. /\ Typed /\ status = "converting" /\ Matches(work, stk) /\ Contract(ir, work)
      /\ stk \in Stack /\ inFunction \in BOOLEAN /\ ir \in Seq(Node) /\ Len(ir) \in Nat
  BY <1>1, Now
<1>3. /\ Awaits(Top) = {Top.j} /\ Returns(Top) = {Top.i} /\ Scope(Top) = NORMAL_SCOPE
      /\ Top.i \in Int
  BY <1>1, <1>2, TopShape DEF Awaits, Returns, Scope
<1>4. /\ work' \in Seq(Activation(ast))
      /\ Owed(work) = {Top.j} \union Owed(work') /\ Targets(work) = {Top.i} \union Targets(work')
      /\ AddsCloser(work', work, Len(work), NORMAL_SCOPE)
  BY <1>1, <1>2, <1>3, Returned DEF Closing
<1>5. /\ Separators(stk) # {} /\ stk.vars[Innermost(stk)].id = NORMAL_SCOPE
      /\ Matches(work', stk') /\ stk' \in Stack
  BY <1>1, <1>2, <1>4, ClosedMatch, PopTakesOne
<1>6. Settles(ir, work, nodes, Top.j, 3, ir', work')
  <2>1. /\ leave \in PlainNode /\ LocalLabel \in PlainNode /\ PlainNode \subseteq Node
        /\ back \in Node /\ back.type = "JMP" /\ back.addr = Top.i
    BY <1>2, <1>3, LeaveShape, NodeShapes DEF PlainNode
  <2> HIDE DEF leave, back
  <2>2. /\ nodes \in Seq(Node) /\ Len(nodes) = 3
        /\ nodes[1] \in PlainNode /\ nodes[2] = back /\ nodes[3] = LocalLabel
    BY <2>1
  <2> HIDE DEF nodes
  <2>3. /\ \A j : j \in 1..3 <=> j = 1 \/ j = 2 \/ j = 3
        /\ LocalLabel.type = "LABEL" /\ LocalLabel.local
    BY NodeShapes
  <2> QED
    BY <1>1, <1>2, <1>4, <2>1, <2>2, <2>3 DEF Settles, IsNamed, PlainNode
<1>7. Contract(ir', work') /\ ir' \in Seq(Node)
  BY <1>2, <1>6, PatchedContract
<1>8. IInv'
  BY <1>1, <1>2, <1>4, <1>5, <1>7, Concluded
<1>9. SS!CloseBlock
  BY <1>1, <1>5, Zenon DEF SS!CloseBlock, SS!InnermostIs, SS!LocalsStackPopScope, SS!Separators,
    SS!Innermost, SS!Live, SS!IsSeparator, SS!NORMAL_SCOPE, LocalsStackPopScope, Separators,
    Innermost, Live, IsSeparator, NORMAL_SCOPE
<1> QED
  BY <1>8, <1>9

LEMMA EndFuncDeclKeeps ==
  ASSUME IInv, EndFuncDecl
  PROVE  IInv' /\ SS!CloseFunction
<1> DEFINE nodes == <<LocalLabel, Bare("NOP")>>
<1>1. /\ At("enddecl") /\ ir' = Patched(ir \o nodes, Top.i, Len(ir) + 1)
      /\ stk' = LocalsStackPopScope(stk) /\ Continue(<<>>)
      /\ inFunction' = FALSE /\ Unchanged
  BY DEF EndFuncDecl
<1>2. /\ Typed /\ status = "converting" /\ Matches(work, stk) /\ Contract(ir, work)
      /\ stk \in Stack /\ ir \in Seq(Node) /\ Len(ir) \in Nat
  BY <1>1, Now
<1>3. Awaits(Top) = {Top.i} /\ Returns(Top) = {} /\ Scope(Top) = FUNC_SCOPE
  BY <1>1, <1>2, TopShape DEF Awaits, Returns, Scope
<1>4. /\ work' \in Seq(Activation(ast))
      /\ Owed(work) = {Top.i} \union Owed(work') /\ Targets(work) = Targets(work')
      /\ AddsCloser(work', work, Len(work), FUNC_SCOPE)
  BY <1>1, <1>2, <1>3, Returned DEF Closing
<1>5. /\ Separators(stk) # {} /\ stk.vars[Innermost(stk)].id = FUNC_SCOPE
      /\ Matches(work', stk') /\ stk' \in Stack
  BY <1>1, <1>2, <1>4, ClosedMatch, PopTakesOne
<1>6. Settles(ir, work, nodes, Top.i, 1, ir', work')
  <2>1. Bare("NOP") \in PlainNode /\ LocalLabel \in PlainNode /\ PlainNode \subseteq Node
    BY BareShape, NodeShapes DEF PlainNode, NodeTypes
  <2>2. /\ nodes \in Seq(Node) /\ Len(nodes) = 2
        /\ nodes[2] \in PlainNode /\ nodes[1] = LocalLabel
    BY <2>1
  <2> HIDE DEF nodes
  <2>3. /\ \A j : j \in 1..2 <=> j = 1 \/ j = 2
        /\ LocalLabel.type = "LABEL" /\ LocalLabel.local
    BY NodeShapes
  <2> QED
    BY <1>1, <1>2, <1>4, <2>1, <2>2, <2>3 DEF Settles, IsNamed, PlainNode
<1>7. Contract(ir', work') /\ ir' \in Seq(Node)
  BY <1>2, <1>6, PatchedContract
<1>8. inFunction' \in BOOLEAN
  BY <1>1
<1>9. IInv'
  BY <1>1, <1>2, <1>4, <1>5, <1>7, <1>8, Concluded
<1>10. SS!CloseFunction
  BY <1>1, <1>5, Zenon DEF SS!CloseFunction, SS!InnermostIs, SS!LocalsStackPopScope,
    SS!Separators, SS!Innermost, SS!Live, SS!IsSeparator, SS!FUNC_SCOPE, LocalsStackPopScope,
    Separators, Innermost, Live, IsSeparator, FUNC_SCOPE
<1> QED
  BY <1>9, <1>10

LEMMA ElseBranchKeeps ==
  ASSUME IInv, ElseBranch
  PROVE  IInv' /\ SS!NextBlock
<1> DEFINE leave == LeaveNode(PoppedVariables(stk))
           k == Len(ir) + 2
           x == Walk(Top.n.r, "ELSE")
           c == Resume("endif", Nil, k, 0)
           nodes == <<leave, Bare("JMP"), LocalLabel>>
           s == LocalsStackPopScope(stk)
<1>1. /\ At("else") /\ ir' = Patched(ir \o nodes, Top.i, Len(ir) + 3)
      /\ stk' = LocalsStackInitScope(s, NORMAL_SCOPE) /\ Continue(<<x, c>>)
      /\ UNCHANGED inFunction /\ Unchanged
  BY DEF ElseBranch
<1>2. /\ Typed /\ status = "converting" /\ Matches(work, stk) /\ Contract(ir, work)
      /\ stk \in Stack /\ inFunction \in BOOLEAN /\ ir \in Seq(Node) /\ Len(ir) \in Nat
  BY <1>1, Now
<1>3. /\ Top.n.r \in Nodes(ast) \union {Nil} /\ Nil \in Nodes(ast) \union {Nil}
      /\ Top.at = "else"
  <2>1. /\ Top.n \in Nodes(ast) \union {Nil} /\ Top.n.op = "ELSE" /\ ast \in Programs
        /\ Top.at = "else"
    BY <1>1, <1>2, TopShape DEF Activation
  <2> QED
    BY <2>1, NodesShape
<1>4. x \in Idle(ast)
  <2>1. "ELSE" \in Parents
    BY DEF Parents
  <2> QED
    BY <1>3, <2>1, WalkShape
<1>5. Closer(ast, c, "endif", k, 0)
  <2>1. "endif" \in Closing /\ k \in Int /\ 0 \in Int /\ "endif" # "else" /\ "endif" # "loop"
    BY <1>2 DEF Closing
  <2> HIDE DEF k
  <2> QED
    BY <1>3, <2>1, CloserResume
<1> HIDE DEF x, c
<1>6. /\ c \in Activation(ast) /\ c.at \in Closing /\ Awaits(c) = {k} /\ Returns(c) = {}
      /\ Scope(c) = NORMAL_SCOPE
  BY <1>5 DEF Closer, Closing, Awaits, Returns, Scope
<1>7. /\ Awaits(Top) = {Top.i} /\ Returns(Top) = {} /\ "else" \in Closing
      /\ Scope(Top) = NORMAL_SCOPE
  BY <1>3 DEF Awaits, Returns, Closing, Scope
<1>8. /\ work' \in Seq(Activation(ast))
      /\ Owed(work') = {k} \union Owed(Tail(work)) /\ Targets(work') = Targets(Tail(work))
      /\ Owed(work) = {Top.i} \union Owed(Tail(work)) /\ Targets(work) = Targets(Tail(work))
      /\ AddsCloser(Tail(work), work', Len(work), NORMAL_SCOPE)
      /\ AddsCloser(Tail(work), work, Len(work), NORMAL_SCOPE)
  BY <1>1, <1>2, <1>4, <1>6, <1>7, Handed
<1>9. /\ Separators(stk) # {} /\ stk.vars[Innermost(stk)].id = NORMAL_SCOPE
      /\ Matches(Tail(work), s)
  BY <1>2, <1>8, ClosedMatch
<1>10. s \in Stack /\ s.size < Capacity
  BY <1>2, <1>9, PopTakesOne
<1> HIDE DEF s
<1>11. stk' \in Stack /\ AddsSeparator(s, stk', s.size, NORMAL_SCOPE)
  BY <1>1, <1>10, OpenAddsOne
<1>12. Matches(work', stk')
  BY <1>8, <1>9, <1>11, OpenedMatch
<1>13. Settles(ir, work, nodes, Top.i, 3, ir', work')
  <2>1. /\ leave \in PlainNode /\ LocalLabel \in PlainNode /\ PlainNode \subseteq Node
        /\ Bare("JMP") \in Node /\ Bare("JMP").type = "JMP"
    BY <1>2, LeaveShape, NodeShapes, BareShape DEF PlainNode, NodeTypes
  <2> HIDE DEF leave
  <2>2. /\ nodes \in Seq(Node) /\ Len(nodes) = 3
        /\ nodes[1] \in PlainNode /\ nodes[2].type = "JMP" /\ nodes[3] = LocalLabel
    BY <2>1
  <2> HIDE DEF nodes
  <2>3. /\ \A j : j \in 1..3 <=> j = 1 \/ j = 2 \/ j = 3
        /\ LocalLabel.type = "LABEL" /\ LocalLabel.local
    BY NodeShapes
  <2> QED
    BY <1>1, <1>2, <1>8, <2>1, <2>2, <2>3 DEF Settles, IsNamed, PlainNode
<1>14. Contract(ir', work') /\ ir' \in Seq(Node)
  BY <1>2, <1>13, PatchedContract
<1>15. IInv'
  BY <1>1, <1>2, <1>8, <1>11, <1>12, <1>14, Concluded
<1>16. SS!NextBlock
  BY <1>1, <1>9, Zenon DEF SS!NextBlock, SS!InnermostIs, SS!LocalsStackPopScope, SS!Separators,
    SS!Innermost, SS!Live, SS!IsSeparator, SS!NORMAL_SCOPE, SS!LocalsStackInitScope, SS!Grown,
    SS!LocalsStackTop, LocalsStackPopScope, Separators, Innermost, Live, IsSeparator,
    NORMAL_SCOPE, LocalsStackInitScope, Grown, LocalsStackTop, s
<1> QED
  BY <1>15, <1>16

-----------------------------------------------------------------------------
LEMMA FinishKeeps ==
  ASSUME IInv, Finish
  PROVE  IInv' /\ UNCHANGED <<stk, inFunction>>
<1> DEFINE nodes == <<Bare("EXIT")>>
<1>1. /\ status = "converting" /\ work = <<>> /\ ir' = ir \o nodes
      /\ status' = "BACKEND_SUCCESS" /\ UNCHANGED <<ast, names, stk, inFunction, work>>
  BY DEF Finish, Emit
<1>2. Typed /\ Contract(ir, work) /\ ir \in Seq(Node)
  BY <1>1 DEF IInv, Typed
<1>3. Owed(work) = {} /\ Targets(work) = {}
  BY <1>1, Few
<1>4. Emits(ir, work, nodes, ir', work')
  <2>1. /\ nodes \in Seq(Node) /\ Len(nodes) = 1 /\ nodes[1] \in PlainNode
    <3>1. Bare("EXIT") \in PlainNode /\ Bare("EXIT") \in Node
      BY BareShape DEF NodeTypes
    <3> QED
      BY <3>1
  <2> HIDE DEF nodes
  <2>2. \A j : j \in 1..1 <=> j = 1
    OBVIOUS
  <2> QED
    BY <1>1, <1>2, <1>3, <2>1, <2>2 DEF Emits, IsNamed, PlainNode
<1>5. Contract(ir', work') /\ ir' \in Seq(Node)
  BY <1>2, <1>4, EmittedContract
<1>6. Typed'
  BY <1>1, <1>2, <1>5 DEF Typed
<1> QED
  BY <1>1, <1>5, <1>6 DEF IInv

LEMMA InitHolds == ASSUME Init PROVE IInv /\ SS!Init
<1>1. /\ ast \in Programs /\ stk = LocalsStackInit /\ inFunction = FALSE
      /\ names = [NameTable(ast) EXCEPT
                    ![StdlibIn]  = [type |-> "UNDEFINED_ID", argsCount |-> 0],
                    ![StdlibOut] = [type |-> "UNDEFINED_ID", argsCount |-> 1]]
      /\ ir = <<Bare("START")>> /\ work = <<Walk(ast, "NIL")>> /\ status = "converting"
  BY DEF Init
<1>2. names \in [Id -> [type : {"UNDEFINED_ID", "VAR_ID", "FUNC_ID"}, argsCount : Int]]
  BY <1>1, NameTableAssumption, RuntimeAssumption
<1>3. stk \in Stack /\ stk.size = 0
  <2>1. [id |-> 0, address |-> 0] \in Slot
    BY DEF Slot
  <2> QED
    BY <1>1, <2>1, CapacityAssumption DEF LocalsStackInit, Stack
<1>4. Bare("START") \in PlainNode /\ Bare("START") \in Node
  BY BareShape DEF NodeTypes
<1>5. Walk(ast, "NIL") \in Idle(ast) /\ Walk(ast, "NIL") \in Activation(ast)
  <2>1. ast \in Nodes(ast) /\ "NIL" \in Parents
    BY <1>1, NodesAssumption DEF Parents
  <2> QED
    BY <2>1, WalkShape
<1>6. Walk(ast, "NIL").at \notin Closing
  BY <1>5 DEF Idle
<1>7. Typed
  <2>1. inFunction \in BOOLEAN /\ ast \in Programs
    BY <1>1
  <2>2. ir \in Seq(Node)
    BY <1>1, <1>4, Lists
  <2>3. work \in Seq(Activation(ast))
    BY <1>1, <1>5, Lists
  <2> QED
    BY <1>2, <1>3, <2>1, <2>2, <2>3 DEF Typed
<1>8. Matches(work, stk)
  <2>1. \A d : d \in 1..1 <=> d = 1
    OBVIOUS
  <2>2. Len(work) = 1 /\ Pend(work, 1) = Walk(ast, "NIL")
    BY <1>1 DEF Pend
  <2>3. Closers(work) = {}
    BY <1>6, <2>1, <2>2 DEF Closers
  <2>4. Separators(stk) = {}
    BY <1>3, SeparatorsShape
  <2>5. \E st : st \in [{} -> {}]
    <3>1. [d \in {} |-> 0] \in [{} -> {}]
      OBVIOUS
    <3> QED
      BY <3>1
  <2> QED
    BY <2>3, <2>4, <2>5 DEF Matches, Brackets
<1>9. Contract(ir, work)
  <2>1. Owed(work) = {} /\ Targets(work) = {}
    <3>1. Awaits(Walk(ast, "NIL")) = {} /\ Returns(Walk(ast, "NIL")) = {}
      BY <1>6 DEF Awaits, Returns, Closing
    <3> QED
      BY <1>1, <3>1, Few
  <2>2. Len(ir) = 1 /\ ir[1] = Bare("START") /\ \A k : k \in 1..1 <=> k = 1
    BY <1>1
  <2> QED
    BY <1>4, <2>1, <2>2 DEF Contract, IsJump, PlainNode
<1>10. SS!Init
  BY <1>1, Zenon DEF SS!Init, SS!LocalsStackInit, LocalsStackInit
<1> QED
  BY <1>1, <1>7, <1>8, <1>9, <1>10 DEF IInv

(* Every stretch of a handler keeps the invariant, and does to the scopes  *)
(* what one operation of ScopeStack does, or nothing.                      *)
LEMMA QuietRefines == ASSUME IInv, Quietly PROVE IInv' /\ [SS!Next]_(SS!vars)
<1>1. IInv'
  BY QuietKeeps
<1>2. CASE stk' = stk
  <2>1. inFunction' = inFunction
    BY DEF Quietly
  <2> QED
    BY <1>1, <1>2, <2>1 DEF SS!vars
<1>3. CASE \E id \in Id : stk.size < Capacity /\ stk' = LocalsStackPush(stk, id)
  <2>1. PICK id \in Id : stk.size < Capacity /\ stk' = LocalsStackPush(stk, id)
    BY <1>3
  <2>2. inFunction' = inFunction
    BY DEF Quietly
  <2>3. SS!Declare(id)
    BY <2>1, <2>2, Zenon DEF SS!Declare, SS!HasRoom, SS!LocalsStackPush, SS!Grown,
      SS!NextAddress, SS!LocalsStackTop, SS!FUNC_SCOPE, LocalsStackPush, Grown, NextAddress,
      LocalsStackTop, FUNC_SCOPE
  <2> QED
    BY <1>1, <2>3 DEF SS!Next
<1> QED
  BY <1>1, <1>2, <1>3 DEF Quietly

LEMMA FailRefines == ASSUME IInv, Failed PROVE IInv' /\ [SS!Next]_(SS!vars)
BY FailKeeps DEF Failed, SS!vars

LEMMA StepRefines == ASSUME IInv, ConvertNext PROVE IInv' /\ [SS!Next]_(SS!vars)
<1>t. Typed
  BY DEF IInv
<1>1. CASE ConvertNumber \/ ConvertBinary \/ ConvertUnary \/ EmitOperator \/ ConvertText
           \/ ConvertSeparator \/ ConvertAssign \/ ConvertOut \/ CallOut
           \/ ConvertVarDeclaration \/ ConvertIf \/ ConvertRet \/ EmitRet \/ EmitCall
  <2>1. Quietly
    BY <1>t, <1>1, NumberQuiet, BinaryQuiet, UnaryQuiet, OperatorQuiet, TextQuiet,
      SeparatorQuiet, AssignQuiet, OutQuiet, PrintQuiet, VarDeclarationQuiet, IfQuiet,
      RetQuiet, EmitRetQuiet, EmitCallQuiet
  <2> QED
    BY <2>1, QuietRefines
<1>2. CASE ConvertIdentifier \/ Store \/ ConvertIn \/ ConvertCall \/ ConvertCallArguments
           \/ ConvertUnsupported
  <2>1. Quietly \/ Failed
    BY <1>t, <1>2, IdentifierQuiet, StoreQuiet, InQuiet, CallQuiet, CallArgumentsQuiet,
      UnsupportedFails
  <2> QED
    BY <2>1, QuietRefines, FailRefines
<1>3. CASE Branch \/ ConvertWhile
  BY <1>3, BranchKeeps, WhileKeeps DEF SS!Next
<1>4. CASE ElseBranch
  BY <1>4, ElseBranchKeeps DEF SS!Next
<1>5. CASE EndIf \/ EndWhile
  BY <1>5, EndIfKeeps, EndWhileKeeps DEF SS!Next
<1>6. CASE LoopBody \/ Finish
  BY <1>6, LoopBodyKeeps, FinishKeeps DEF SS!vars
<1>7. CASE ConvertFuncDecl
  <2>1. CASE Failed
    BY <2>1, FailRefines
  <2>2. CASE ~Failed
    BY <1>7, <2>2, FuncDeclKeeps DEF SS!Next
  <2> QED
    BY <2>1, <2>2
<1>8. CASE EndFuncDecl
  BY <1>8, EndFuncDeclKeeps DEF SS!Next
<1> QED
  BY <1>1, <1>2, <1>3, <1>4, <1>5, <1>6, <1>7, <1>8, Zenon DEF ConvertNext

LEMMA StuttersRefine ==
  ASSUME IInv, UNCHANGED convVars
  PROVE  IInv' /\ [SS!Next]_(SS!vars)
<1>1. UNCHANGED <<ast, names, stk, inFunction, ir, work, status>>
  BY DEF convVars
<1>2. Typed'
  BY <1>1 DEF IInv, Typed
<1> QED
  BY <1>1, <1>2 DEF IInv, SS!vars

(* Whatever tree the converter is given, and wherever its walk stands:     *)
(* state and activations are what the handlers expect, the activations     *)
(* that will close a scope are matched by the separators, and the jumps    *)
(* without a destination are those some activation will patch.             *)
THEOREM Invariance == ConvertSpec => []IInv
<1>1. Init => IInv
  BY InitHolds
<1>2. IInv /\ [ConvertNext]_convVars => IInv'
  BY StepRefines, StuttersRefine
<1> QED
  BY <1>1, <1>2, PTL DEF ConvertSpec

(* The walk over any tree uses the variables stack by the protocol of      *)
(* ScopeStack: a body closes the scope it opened and no other, a function  *)
(* is closed by its own declaration and opened in no other function, and   *)
(* an error in the middle leaves no scope half closed.                     *)
THEOREM WalkKeepsScopes == ConvertSpec => KeepsScopes
<1>1. Init => SS!Init
  BY InitHolds
<1>2. IInv /\ [ConvertNext]_convVars => [SS!Next]_(SS!vars)
  BY StepRefines, StuttersRefine
<1> QED
  BY <1>1, <1>2, Invariance, PTL DEF ConvertSpec, KeepsScopes, SS!Spec

(* The IR of every program that is converted: the translator finds no node *)
(* it does not know, no jump the patching forgot, no jump into the middle  *)
(* of anything but a label the converter emitted for it.                   *)
THEOREM OutputTranslatable == ConvertSpec => []Translatable
<1>1. IInv => Translatable
  <2> SUFFICES ASSUME IInv, status = "BACKEND_SUCCESS"
               PROVE  /\ IsIR(ir)
                      /\ \A k \in 1..Len(ir) :
                           /\ IsJump(ir, k) => IsLocalLabel(ir, ir[k].addr)
                           /\ IsNamed(ir[k]) => ir[k].addr \in Id
    BY DEF Translatable
  <2>1. Contract(ir, work) /\ work = <<>> /\ ir \in Seq(Node)
    BY DEF IInv, Typed
  <2>2. Owed(work) = {}
    BY <2>1, Few
  <2>3. \A k \in 1..Len(ir) : /\ IsJump(ir, k) => IsLocalLabel(ir, ir[k].addr)
                              /\ IsNamed(ir[k]) => ir[k].addr \in Id
    BY <2>1, <2>2 DEF Contract
  <2>4. \A k \in 1..Len(ir) : ir[k].type \in {"JMP", "JZ"} => ir[k].addr \in 1..Len(ir)
    BY <2>3 DEF IsJump, IsLocalLabel
  <2> QED
    BY <2>1, <2>3, <2>4 DEF IsIR, Node
<1> QED
  BY <1>1, Invariance, PTL

-----------------------------------------------------------------------------
(* What ScopeStack_proofs proves of the variables stack therefore holds    *)
(* while any tree is converted.                                            *)
T == INSTANCE ScopeStack_proofs

LEMMA SameScopeStack == SS!Spec => T!Spec
<1>1. SS!Init => T!Init
  BY Zenon DEF SS!Init, SS!LocalsStackInit, T!Init, T!LocalsStackInit
<1>2. [SS!Next]_(SS!vars) => [T!Next]_(T!vars)
  <2>1. UNCHANGED SS!vars => UNCHANGED T!vars
    BY DEF SS!vars, T!vars
  <2>2. SS!Next => T!Next
    <3>1. ASSUME NEW id \in Id, SS!Declare(id) PROVE T!Declare(id)
      BY <3>1, Zenon DEF SS!Declare, SS!HasRoom, SS!LocalsStackPush, SS!Grown, SS!NextAddress,
        SS!LocalsStackTop, SS!FUNC_SCOPE, T!Declare, T!HasRoom, T!LocalsStackPush, T!Grown,
        T!NextAddress, T!LocalsStackTop, T!FUNC_SCOPE
    <3>2. SS!OpenBlock => T!OpenBlock
      BY Zenon DEF SS!OpenBlock, SS!HasRoom, SS!LocalsStackInitScope, SS!Grown,
        SS!LocalsStackTop, SS!NORMAL_SCOPE, T!OpenBlock, T!HasRoom, T!LocalsStackInitScope,
        T!Grown, T!LocalsStackTop, T!NORMAL_SCOPE
    <3>3. SS!CloseBlock => T!CloseBlock
      BY Zenon DEF SS!CloseBlock, SS!InnermostIs, SS!LocalsStackPopScope, SS!Separators,
        SS!Innermost, SS!Live, SS!IsSeparator, SS!NORMAL_SCOPE, T!CloseBlock, T!InnermostIs,
        T!LocalsStackPopScope, T!Separators, T!Innermost, T!Live, T!IsSeparator, T!NORMAL_SCOPE
    <3>4. SS!NextBlock => T!NextBlock
      BY Zenon DEF SS!NextBlock, SS!InnermostIs, SS!LocalsStackPopScope, SS!Separators,
        SS!Innermost, SS!Live, SS!IsSeparator, SS!NORMAL_SCOPE, SS!LocalsStackInitScope,
        SS!Grown, SS!LocalsStackTop, T!NextBlock, T!InnermostIs, T!LocalsStackPopScope,
        T!Separators, T!Innermost, T!Live, T!IsSeparator, T!NORMAL_SCOPE,
        T!LocalsStackInitScope, T!Grown, T!LocalsStackTop
    <3>5. ASSUME NEW params \in ParamLists, SS!OpenFunction(params) PROVE T!OpenFunction(params)
      BY <3>5, Zenon DEF SS!OpenFunction, SS!LocalsStackInitScope, SS!Grown, SS!PushParams,
        SS!FuncArg, SS!LocalsStackTop, SS!NORMAL_SCOPE, SS!FUNC_SCOPE, T!OpenFunction,
        T!LocalsStackInitScope, T!Grown, T!PushParams, T!FuncArg, T!LocalsStackTop,
        T!NORMAL_SCOPE, T!FUNC_SCOPE
    <3>6. SS!CloseFunction => T!CloseFunction
      BY Zenon DEF SS!CloseFunction, SS!InnermostIs, SS!LocalsStackPopScope, SS!Separators,
        SS!Innermost, SS!Live, SS!IsSeparator, SS!FUNC_SCOPE, T!CloseFunction, T!InnermostIs,
        T!LocalsStackPopScope, T!Separators, T!Innermost, T!Live, T!IsSeparator, T!FUNC_SCOPE
    <3> QED
      BY <3>1, <3>2, <3>3, <3>4, <3>5, <3>6 DEF SS!Next, T!Next
  <2> QED
    BY <2>1, <2>2
<1> QED
  BY <1>1, <1>2, PTL DEF SS!Spec, T!Spec

(* No two variables a handler can reach through the same register share a  *)
(* word, locals sit where their own instruction allocated them, and the    *)
(* search the handlers use finds the declaration a name means and the      *)
(* register it is reached through: whatever the tree, at every moment of   *)
(* the walk.                                                               *)
THEOREM WalkSearchesRight ==
  ConvertSpec => [](T!DistinctAddresses /\ T!LayoutElsewhere /\ T!SearchIsLexical)
<1>1. T!IdAssumption /\ T!CapacityAssumption /\ T!ParamListsAssumption
  BY IdAssumption, CapacityAssumption, ParamListsAssumption
    DEF T!IdAssumption, T!CapacityAssumption, T!ParamListsAssumption
<1>2. T!Spec => []T!DistinctAddresses
  BY <1>1, T!AddressesAreDistinct DEF T!IdAssumption, T!CapacityAssumption, T!ParamListsAssumption
<1>3. T!Spec => []T!LayoutElsewhere
  BY <1>1, T!LocalsAreWhereAllocated DEF T!IdAssumption, T!CapacityAssumption, T!ParamListsAssumption
<1>4. T!Spec => []T!SearchIsLexical
  BY <1>1, T!SearchIsRight DEF T!IdAssumption, T!CapacityAssumption, T!ParamListsAssumption
<1> QED
  BY <1>2, <1>3, <1>4, WalkKeepsScopes, SameScopeStack, PTL DEF KeepsScopes

=============================================================================
