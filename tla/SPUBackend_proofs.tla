------------------------- MODULE SPUBackend_proofs -------------------------
(***************************************************************************)
(* Proofs about SPUBackend and the scopes it keeps (SPUScopes), for every  *)
(* set of trees and of names and every capacity: the words of variables    *)
(* and arguments, in whatever order scopes open and close; then that the   *)
(* walk over a tree opens and closes them in no other way, and every one   *)
(* it has opened.                                                          *)
(***************************************************************************)
EXTENDS SPUBackend, LocalsStack_proofs, SequenceTheorems, TLAPS

(* The inductive invariant of the scopes.  Addresses never fall going up a *)
(* frame, and a variable's is above all those under it: a block's          *)
(* separator copies the address under it or, at the bottom of the stack,   *)
(* keeps a stale one.  Only what a slot may still hold when it is taken    *)
(* has to be known: a number, never a negative one.                        *)
Name(s, i) == s.vars[i].id

OneFrame(s, i, j) == \A k \in i..j : Name(s, k) # FUNC_SCOPE

SlotsCounted(s) == \A i \in 0..Capacity-1 : Addr(s, i) \in Nat

Ascending(s) ==
  \A i, j \in 0..s.size-1 :
    i < j /\ OneFrame(s, i, j) =>
      Addr(s, i) <= Addr(s, j) /\ (Name(s, j) >= 0 => Addr(s, i) < Addr(s, j))

WellNumbered(s) == s \in Stack /\ SlotsCounted(s) /\ Ascending(s)

ScopesInv == WellNumbered(stk) /\ inFunction \in BOOLEAN

-----------------------------------------------------------------------------
(* A slot that continues the numbering of the one under it, unless a       *)
(* function separator is on either side, keeps the order.                  *)
LEMMA PushKeepsOrder ==
  ASSUME NEW s, WellNumbered(s), s.size < Capacity,
         NEW slot \in Slot, slot.address \in Nat,
         slot.id # FUNC_SCOPE /\ s.size > 0 /\ Name(s, s.size - 1) # FUNC_SCOPE =>
           /\ Addr(s, s.size - 1) <= slot.address
           /\ slot.id >= 0 => Addr(s, s.size - 1) < slot.address
  PROVE  WellNumbered(Grown(s, slot))
<1> DEFINE n == s.size
           t == Grown(s, slot)
<1>1. /\ Capacity \in Nat /\ n \in 0..Capacity-1
      /\ \A i \in 0..Capacity-1 : Addr(s, i) \in Nat
  BY StackShape DEF WellNumbered, SlotsCounted
<1>2. /\ t \in Stack /\ t.size = n + 1
      /\ Addr(t, n) = slot.address /\ Name(t, n) = slot.id
      /\ \A i \in 0..Capacity-1 : i # n => Addr(t, i) = Addr(s, i) /\ Name(t, i) = Name(s, i)
  BY PushShape DEF WellNumbered, Addr, Name
<1> HIDE DEF t
<1>3. SlotsCounted(t)
  <2> SUFFICES ASSUME NEW i \in 0..Capacity-1 PROVE Addr(t, i) \in Nat
    BY DEF SlotsCounted
  <2> QED
    BY <1>1, <1>2
<1>4. Ascending(t)
  <2> SUFFICES ASSUME NEW i \in 0..n, NEW j \in 0..n, i < j, OneFrame(t, i, j)
               PROVE  Addr(t, i) <= Addr(t, j) /\ (Name(t, j) >= 0 => Addr(t, i) < Addr(t, j))
    BY <1>1, <1>2 DEF Ascending
  <2>1. CASE j < n
    <3>1. OneFrame(s, i, j)
      BY <1>1, <1>2, <2>1 DEF OneFrame
    <3>2. /\ Addr(t, i) = Addr(s, i) /\ Addr(t, j) = Addr(s, j)
          /\ Name(t, j) = Name(s, j)
      BY <1>1, <1>2, <2>1
    <3>3. i \in 0..s.size-1 /\ j \in 0..s.size-1
      BY <1>1, <2>1
    <3> QED
      BY <3>1, <3>2, <3>3 DEF WellNumbered, Ascending
  <2>2. CASE j = n
    <3>1. n > 0 /\ i \in 0..n-1 /\ n - 1 \in 0..n-1 /\ n - 1 \in i..j /\ j \in i..j
      BY <1>1, <2>2
    <3>2. slot.id # FUNC_SCOPE /\ Name(s, n - 1) # FUNC_SCOPE
      <4>1. Name(t, j) # FUNC_SCOPE /\ Name(t, n - 1) # FUNC_SCOPE
        BY <3>1 DEF OneFrame
      <4> QED
        BY <4>1, <2>2, <1>1, <1>2, <3>1
    <3>3. /\ Addr(s, n - 1) <= slot.address
          /\ slot.id >= 0 => Addr(s, n - 1) < slot.address
      BY <3>1, <3>2
    <3>4. Addr(s, i) <= Addr(s, n - 1)
      <4>1. CASE i = n - 1
        BY <4>1, <1>1, <3>1
      <4>2. CASE i < n - 1
        <5>1. OneFrame(s, i, n - 1)
          BY <1>1, <1>2, <2>2, <3>1 DEF OneFrame
        <5> QED
          BY <5>1, <4>2, <3>1 DEF WellNumbered, Ascending
      <4> QED
        BY <4>1, <4>2, <1>1, <3>1
    <3>5. Addr(t, i) = Addr(s, i) /\ Addr(s, i) \in Nat /\ Addr(s, n - 1) \in Nat
      BY <1>1, <1>2, <3>1
    <3>6. Addr(t, j) = slot.address /\ Name(t, j) = slot.id
      BY <1>2, <2>2
    <3> QED
      BY <3>3, <3>4, <3>5, <3>6
  <2> QED
    BY <2>1, <2>2, <1>1
<1> QED
  BY <1>2, <1>3, <1>4 DEF WellNumbered, t

(* Closing a scope only forgets slots. *)
LEMMA PopKeepsOrder ==
  ASSUME NEW s, WellNumbered(s)
  PROVE  WellNumbered(LocalsStackPopScope(s))
<1> DEFINE t == LocalsStackPopScope(s)
<1>1. t \in Stack /\ t.vars = s.vars /\ t.size \in 0..s.size /\ s.size \in Nat
  BY PopShape, StackShape DEF WellNumbered
<1> HIDE DEF t
<1>2. SlotsCounted(t)
  BY <1>1 DEF WellNumbered, SlotsCounted, Addr
<1>3. Ascending(t)
  BY <1>1 DEF WellNumbered, Ascending, OneFrame, Addr, Name
<1> QED
  BY <1>1, <1>2, <1>3 DEF WellNumbered, t

-----------------------------------------------------------------------------
LEMMA SlotIsSlot ==
  ASSUME NEW id \in Id \union {FUNC_SCOPE, NORMAL_SCOPE}, NEW address \in Int
  PROVE  [id |-> id, address |-> address] \in Slot
BY DEF Slot

LEMMA InitInv == ScopesInit => ScopesInv
<1> SUFFICES ASSUME ScopesInit PROVE ScopesInv
  OBVIOUS
<1>1. stk = [size |-> 0, vars |-> [i \in 0..Capacity-1 |-> [id |-> 0, address |-> 0]]]
  BY DEF ScopesInit, LocalsStackInit
<1>2. Capacity \in Nat
  BY CapacityAssumption
<1>3. [id |-> 0, address |-> 0] \in Slot
  BY DEF Slot
<1>4. stk \in Stack
  BY <1>1, <1>2, <1>3 DEF Stack
<1>5. SlotsCounted(stk)
  BY <1>1 DEF SlotsCounted, Addr
<1>6. Ascending(stk)
  BY <1>1 DEF Ascending
<1> QED
  BY <1>4, <1>5, <1>6 DEF ScopesInv, WellNumbered, ScopesInit

LEMMA NextInv == ScopesInv /\ [ScopesNext]_scopeVars => ScopesInv'
<1> SUFFICES ASSUME ScopesInv, [ScopesNext]_scopeVars PROVE ScopesInv'
  OBVIOUS
<1>0. /\ Capacity \in Nat /\ stk.size \in 0..Capacity /\ inFunction \in BOOLEAN
      /\ \A i \in 0..Capacity-1 : Addr(stk, i) \in Nat
      /\ LocalsStackTop(stk).address = Addr(stk, stk.size - 1)
      /\ LocalsStackTop(stk).id = Name(stk, stk.size - 1)
  BY StackShape DEF ScopesInv, WellNumbered, SlotsCounted, LocalsStackTop, Addr, Name
<1>1. ASSUME NEW id \in Id, Declare(id) PROVE ScopesInv'
  <2> DEFINE slot == [id |-> id, address |-> SPUAddress(stk)]
  <2>1. HasRoom /\ stk' = Grown(stk, slot) /\ inFunction' = inFunction
    BY <1>1 DEF Declare, SPUPush
  <2>2. /\ SPUAddress(stk) \in Nat
        /\ stk.size > 0 /\ Name(stk, stk.size - 1) # FUNC_SCOPE =>
             Addr(stk, stk.size - 1) < SPUAddress(stk)
    BY <1>0 DEF SPUAddress
  <2>3. slot \in Slot /\ slot.address = SPUAddress(stk)
    BY <2>2, SlotIsSlot
  <2> HIDE DEF slot
  <2>4. stk.size > 0 => Addr(stk, stk.size - 1) \in Nat
    BY <1>0
  <2>5. WellNumbered(stk')
    BY <2>1, <2>2, <2>3, <2>4, PushKeepsOrder DEF ScopesInv, HasRoom
  <2> QED
    BY <2>1, <2>5, <1>0 DEF ScopesInv
<1>2. ASSUME NEW scope \in {FUNC_SCOPE, NORMAL_SCOPE}, HasRoom,
             stk' = LocalsStackInitScope(stk, scope), inFunction' \in BOOLEAN
      PROVE  ScopesInv'
  <2> DEFINE address == IF scope = NORMAL_SCOPE /\ stk.size > 0
                        THEN LocalsStackTop(stk).address
                        ELSE stk.vars[stk.size].address
             slot == [id |-> scope, address |-> address]
  <2>1. stk' = Grown(stk, slot)
    BY <1>2 DEF LocalsStackInitScope
  <2>2. stk.size \in 0..Capacity-1
    BY <1>0, <1>2 DEF HasRoom
  <2>3. /\ address \in Nat
        /\ scope = NORMAL_SCOPE /\ stk.size > 0 => address = Addr(stk, stk.size - 1)
    BY <1>0, <2>2 DEF Addr
  <2>4. slot \in Slot /\ slot.address = address /\ slot.id = scope
    BY <2>3, SlotIsSlot
  <2>5. scope < 0
    BY <1>2 DEF FUNC_SCOPE, NORMAL_SCOPE
  <2> HIDE DEF slot, address
  <2>6. stk.size > 0 => Addr(stk, stk.size - 1) \in Nat
    BY <1>0, <2>2
  <2>7. ~(slot.id >= 0)
    BY <2>4, <2>5, <1>2 DEF FUNC_SCOPE, NORMAL_SCOPE
  <2>8. slot.id # FUNC_SCOPE /\ stk.size > 0 => Addr(stk, stk.size - 1) <= slot.address
    BY <1>2, <2>3, <2>4, <2>6
  <2>9. WellNumbered(stk')
    BY <1>2, <2>1, <2>3, <2>4, <2>7, <2>8, PushKeepsOrder DEF ScopesInv, HasRoom
  <2> QED
    BY <1>2, <2>9 DEF ScopesInv
<1>3. ASSUME stk' = LocalsStackPopScope(stk), inFunction' \in BOOLEAN PROVE ScopesInv'
  BY <1>3, PopKeepsOrder DEF ScopesInv
<1>4. CASE OpenBlock
  BY <1>0, <1>2, <1>4 DEF OpenBlock
<1>5. CASE OpenFunction
  BY <1>2, <1>5 DEF OpenFunction
<1>6. CASE CloseBlock
  BY <1>0, <1>3, <1>6 DEF CloseBlock
<1>7. CASE CloseFunction
  BY <1>3, <1>7 DEF CloseFunction
<1>8. CASE UNCHANGED scopeVars
  <2>1. stk' = stk /\ inFunction' = inFunction
    BY <1>8 DEF scopeVars
  <2> QED
    BY <2>1 DEF ScopesInv
<1> QED
  BY <1>1, <1>4, <1>5, <1>6, <1>7, <1>8 DEF ScopesNext

THEOREM ScopesInvariant == ScopesSpec => []ScopesInv
BY InitInv, NextInv, PTL DEF ScopesSpec

-----------------------------------------------------------------------------
(* The variables of the innermost frame are what Ascending orders.         *)
LEMMA FrameOrdered ==
  ASSUME ScopesInv
  PROVE  /\ \A i \in FrameVariables : Addr(stk, i) \in Nat /\ stk.size > 0
                                       /\ Addr(stk, i) <= Addr(stk, stk.size - 1)
                                       /\ Addr(stk, stk.size - 1) \in Nat
         /\ \A i, j \in FrameVariables : i < j => Addr(stk, i) < Addr(stk, j)
<1>1. /\ Capacity \in Nat /\ stk.size \in 0..Capacity
      /\ \A i \in 0..Capacity-1 : Addr(stk, i) \in Nat
      /\ \A i \in 0..Capacity-1 : Name(stk, i) \in Int
  <2>1. \A slot \in Slot : slot.id \in Int
    <3>1. FUNC_SCOPE \in Int /\ NORMAL_SCOPE \in Int /\ Id \subseteq Int
      BY IdAssumption DEF FUNC_SCOPE, NORMAL_SCOPE
    <3>2. Id \union {0, FUNC_SCOPE, NORMAL_SCOPE} \subseteq Int
      BY <3>1
    <3> QED
      BY <3>2 DEF Slot
  <2> QED
    BY <2>1, StackShape DEF ScopesInv, WellNumbered, SlotsCounted, Name
<1>2. \A i \in FrameVariables :
        /\ i \in 0..stk.size-1 /\ Name(stk, i) >= 0
        /\ \A k \in i..stk.size-1 : Name(stk, k) # FUNC_SCOPE
  BY <1>1 DEF FrameVariables, Live, IsSeparator, Name
<1>3. ASSUME NEW i \in FrameVariables
      PROVE  Addr(stk, i) \in Nat /\ stk.size > 0 /\ Addr(stk, i) <= Addr(stk, stk.size - 1)
             /\ Addr(stk, stk.size - 1) \in Nat
  <2>1. stk.size > 0 /\ i \in 0..stk.size-1 /\ stk.size - 1 \in 0..stk.size-1
    BY <1>1, <1>2
  <2>2. Addr(stk, i) \in Nat /\ Addr(stk, stk.size - 1) \in Nat
    BY <1>1, <2>1
  <2>3. OneFrame(stk, i, stk.size - 1)
    BY <1>2 DEF OneFrame
  <2>4. i < stk.size - 1 => Addr(stk, i) <= Addr(stk, stk.size - 1)
    BY <2>1, <2>3 DEF ScopesInv, WellNumbered, Ascending
  <2> QED
    BY <1>1, <2>1, <2>2, <2>4
<1>4. ASSUME NEW i \in FrameVariables, NEW j \in FrameVariables, i < j
      PROVE  Addr(stk, i) < Addr(stk, j)
  <2>1. OneFrame(stk, i, j) /\ i \in 0..stk.size-1 /\ j \in 0..stk.size-1 /\ Name(stk, j) >= 0
    BY <1>1, <1>2 DEF OneFrame
  <2> QED
    BY <1>4, <2>1 DEF ScopesInv, WellNumbered, Ascending
<1> QED
  BY <1>3, <1>4

(* The words the arguments of a call are stored in lie above every         *)
(* variable of the frame, whatever scopes were opened and closed before    *)
(* (translateCallArguments, backend_Spu.c).                                *)
THEOREM ArgumentsNeverClobber == ScopesSpec => []ArgumentsAboveFrame
<1>1. ScopesInv => ArgumentsAboveFrame
  <2> SUFFICES ASSUME ScopesInv, NEW i \in FrameVariables
               PROVE  Addr(stk, i) \in 0..FrameEnd(stk)-1
    BY DEF ArgumentsAboveFrame, Addr
  <2>1. Addr(stk, i) \in Nat /\ stk.size > 0 /\ Addr(stk, i) <= Addr(stk, stk.size - 1)
        /\ Addr(stk, stk.size - 1) \in Nat
    BY FrameOrdered
  <2>2. FrameEnd(stk) = Addr(stk, stk.size - 1) + 1
    BY <2>1 DEF FrameEnd, LocalsStackTop, Addr
  <2> QED
    BY <2>1, <2>2
<1> QED
  BY <1>1, ScopesInvariant, PTL

(* Two variables of a frame never share a word (LocalsStackPush,           *)
(* backend_Spu.c).                                                         *)
THEOREM WordsDistinct == ScopesSpec => []DistinctWords
<1>1. ScopesInv => DistinctWords
  <2> SUFFICES ASSUME ScopesInv, NEW i \in FrameVariables, NEW j \in FrameVariables, i # j
               PROVE  Addr(stk, i) # Addr(stk, j)
    BY DEF DistinctWords, Addr
  <2>1. i \in Int /\ j \in Int
    BY StackShape DEF ScopesInv, WellNumbered, FrameVariables, Live
  <2>2. i < j \/ j < i
    BY <2>1
  <2>3. Addr(stk, i) \in Nat /\ Addr(stk, j) \in Nat
    BY FrameOrdered
  <2> QED
    BY <2>2, <2>3, FrameOrdered
<1> QED
  BY <1>1, ScopesInvariant, PTL

-----------------------------------------------------------------------------
(* The walk.  Pending activations, whatever text they are to print.        *)
Fine(tree, a) ==
  /\ a.at \in {"walk", "argument"} => a.n \in Nodes(tree) \union {Nothing}
  /\ a.at = "parameter" => a.n \in Parameters(tree)

Pending(tree, w) == \E A : w \in Seq(A) /\ \A a \in A : Fine(tree, a)

(* Those that close no scope. *)
Idle(tree, a)      == Fine(tree, a) /\ a.at \notin Closing
IdleList(tree, as) == \E A : as \in Seq(A) /\ \A a \in A : Idle(tree, a)

(* For every scope that is open there is one activation, of the right      *)
(* kind, that will close it.                                               *)
WalkInv ==
  /\ ast \in Programs
  /\ ScopesInv
  /\ status = "converting" => Pending(ast, work) /\ Matches(work, stk)
  /\ status = "BACKEND_SUCCESS" => Separators(stk) = {}

(* What closing a scope finds on the stack, and what is left at the end.   *)
ClosesItsOwn ==
  /\ At("pop_scope") => InnermostIs(NORMAL_SCOPE)
  /\ At("end_function") => InnermostIs(FUNC_SCOPE)
  /\ status = "BACKEND_SUCCESS" => Separators(stk) = {}

-----------------------------------------------------------------------------
LEMMA IdleShape ==
  ASSUME NEW tree
  PROVE  /\ \A n \in Nodes(tree) \union {Nothing} : Idle(tree, Walk(n))
         /\ \A text : Idle(tree, Write(text))
         /\ \A n, i : \A at \in {"pop_variable", "store_argument", "call"} :
              Idle(tree, Then(at, n, i))
         /\ \A i : \A n \in Nodes(tree) \union {Nothing} : Idle(tree, Then("argument", n, i))
         /\ \A i : \A n \in Parameters(tree) : Idle(tree, Then("parameter", n, i))
         /\ \A n, i : \A at \in Closing : Fine(tree, Then(at, n, i)) /\ Then(at, n, i).at = at
BY DEF Idle, Fine, Closing, Walk, Write, Then

LEMMA IdleLists ==
  ASSUME NEW tree
  PROVE  /\ IdleList(tree, <<>>)
         /\ \A x : Idle(tree, x) => IdleList(tree, <<x>>)
         /\ \A x, y : Idle(tree, x) /\ Idle(tree, y) => IdleList(tree, <<x, y>>)
         /\ \A x, y, z : Idle(tree, x) /\ Idle(tree, y) /\ Idle(tree, z) =>
              IdleList(tree, <<x, y, z>>)
<1>1. IdleList(tree, <<>>)
  <2> DEFINE A == {}
  <2>1. <<>> \in Seq(A) /\ \A a \in A : Idle(tree, a)
    OBVIOUS
  <2> HIDE DEF A
  <2> QED
    BY <2>1 DEF IdleList
<1>2. ASSUME NEW x, Idle(tree, x) PROVE IdleList(tree, <<x>>)
  <2> DEFINE A == {x}
  <2>1. <<x>> \in Seq(A) /\ \A a \in A : Idle(tree, a)
    BY <1>2
  <2> HIDE DEF A
  <2> QED
    BY <2>1 DEF IdleList
<1>3. ASSUME NEW x, NEW y, Idle(tree, x), Idle(tree, y) PROVE IdleList(tree, <<x, y>>)
  <2> DEFINE A == {x, y}
  <2>1. <<x, y>> \in Seq(A) /\ \A a \in A : Idle(tree, a)
    BY <1>3
  <2> HIDE DEF A
  <2> QED
    BY <2>1 DEF IdleList
<1>4. ASSUME NEW x, NEW y, NEW z, Idle(tree, x), Idle(tree, y), Idle(tree, z)
      PROVE  IdleList(tree, <<x, y, z>>)
  <2> DEFINE A == {x, y, z}
  <2>1. <<x, y, z>> \in Seq(A) /\ \A a \in A : Idle(tree, a)
    BY <1>4
  <2> HIDE DEF A
  <2> QED
    BY <2>1 DEF IdleList
<1> QED
  BY <1>1, <1>2, <1>3, <1>4

LEMMA Widened ==
  ASSUME NEW A, NEW B, NEW s \in Seq(A)
  PROVE  s \in Seq(A \union B)
OBVIOUS

LEMMA IdleJoined ==
  ASSUME NEW tree, NEW p, NEW q, IdleList(tree, p), IdleList(tree, q)
  PROVE  IdleList(tree, p \o q)
<1>1. PICK A : p \in Seq(A) /\ \A a \in A : Idle(tree, a)
  BY DEF IdleList
<1>2. PICK B : q \in Seq(B) /\ \A b \in B : Idle(tree, b)
  BY DEF IdleList
<1>3. p \in Seq(A \union B) /\ q \in Seq(B \union A) /\ B \union A = A \union B
  BY <1>1, <1>2, Widened
<1>4. p \o q \in Seq(A \union B)
  BY <1>3
<1>5. \A a \in A \union B : Idle(tree, a)
  BY <1>1, <1>2
<1> QED
  BY <1>4, <1>5 DEF IdleList

(* What takes the place of the innermost activation.                       *)
LEMMA Laid ==
  ASSUME NEW tree, NEW w, Pending(tree, w), w # <<>>, NEW acts, Pending(tree, acts),
         NEW v, v = acts \o Tail(w)
  PROVE  /\ Fine(tree, Head(w)) /\ Pending(tree, v)
         /\ \E A : Turns(A, w, acts, v)
<1>1. PICK A : w \in Seq(A) /\ \A a \in A : Fine(tree, a)
  BY DEF Pending
<1>2. PICK B : acts \in Seq(B) /\ \A b \in B : Fine(tree, b)
  BY DEF Pending
<1> DEFINE C == A \union B
<1>3. w \in Seq(C) /\ acts \in Seq(C) /\ \A c \in C : Fine(tree, c)
  <2>1. C = B \union A
    OBVIOUS
  <2> QED
    BY <1>1, <1>2, <2>1, Widened
<1> HIDE DEF C
<1>4. Turns(C, w, acts, v)
  BY <1>3 DEF Turns
<1>5. v \in Seq(C) /\ Head(w) \in C
  BY <1>3
<1> QED
  BY <1>3, <1>4, <1>5 DEF Pending

LEMMA IdlePends == ASSUME NEW tree, NEW acts, IdleList(tree, acts) PROVE Pending(tree, acts)
<1>1. PICK A : acts \in Seq(A) /\ \A a \in A : Idle(tree, a)
  BY DEF IdleList
<1> QED
  BY <1>1 DEF Pending, Idle

LEMMA IdleItems ==
  ASSUME NEW tree, NEW acts, IdleList(tree, acts)
  PROVE  Len(acts) \in Nat /\ \A j \in 1..Len(acts) : acts[j].at \notin Closing
<1>1. PICK A : acts \in Seq(A) /\ \A a \in A : Idle(tree, a)
  BY DEF IdleList
<1>2. \A j \in 1..Len(acts) : acts[j] \in A
  BY <1>1
<1> QED
  BY <1>1, <1>2 DEF Idle

LEMMA QuietLaid ==
  ASSUME NEW tree, NEW w, Pending(tree, w), w # <<>>, Head(w).at \notin Closing,
         NEW acts, IdleList(tree, acts), NEW v, v = acts \o Tail(w)
  PROVE  Pending(tree, v) /\ SameClosers(w, v)
<1>1. Pending(tree, v)
  BY IdlePends, Laid
<1>2. PICK A : Turns(A, w, acts, v)
  BY IdlePends, Laid
<1>3. \A j \in 1..Len(acts) : acts[j].at \notin Closing
  BY IdleItems
<1>4. SameClosers(w, v)
  BY <1>2, <1>3, QuietStep
<1> QED
  BY <1>1, <1>4

LEMMA OpenLaid ==
  ASSUME NEW tree, NEW w, Pending(tree, w), w # <<>>, Head(w).at \notin Closing,
         NEW p, IdleList(tree, p), NEW c, Fine(tree, c), c.at \in Closing,
         NEW acts, acts = p \o <<c>>, NEW v, v = acts \o Tail(w)
  PROVE  Pending(tree, v) /\ AddsCloser(w, v, Len(w), Scope(c))
<1>1. PICK A : p \in Seq(A) /\ \A a \in A : Idle(tree, a)
  BY DEF IdleList
<1> DEFINE B == A \union {c}
<1>2. p \in Seq(B) /\ <<c>> \in Seq(B) /\ Len(<<c>>) = 1 /\ <<c>>[1] = c
  <2>1. p \in Seq(B)
    BY <1>1, Widened
  <2> QED
    BY <2>1
<1>3. \A b \in B : Fine(tree, b)
  BY <1>1 DEF Idle
<1> HIDE DEF B
<1>4. PICK m \in Nat : m = Len(p)
  BY <1>1
<1>5. /\ acts \in Seq(B) /\ Len(acts) = m + 1 /\ acts[m + 1] = c
      /\ \A j \in 1..m : acts[j] = p[j]
  BY <1>2, <1>4
<1>6. \A j \in 1..m : acts[j].at \notin Closing
  BY <1>4, <1>5, IdleItems
<1>7. Pending(tree, acts)
  BY <1>3, <1>5 DEF Pending
<1>8. PICK C : Turns(C, w, acts, v)
  BY <1>7, Laid
<1>9. w \in Seq(C) /\ acts \in Seq(C)
  BY <1>8 DEF Turns
<1>10. Len(acts) \in Nat \ {0} /\ Len(acts) - 1 = m /\ acts[Len(acts)] = c
  BY <1>4, <1>5
<1>11. AddsCloser(w, v, Len(w), Scope(c))
  BY <1>6, <1>9, <1>10, OpeningStep
<1> QED
  BY <1>7, <1>11, Laid

LEMMA CloseLaid ==
  ASSUME NEW tree, NEW w, Pending(tree, w), w # <<>>, Head(w).at \in Closing,
         NEW v, v = <<>> \o Tail(w)
  PROVE  Pending(tree, v) /\ AddsCloser(v, w, Len(w), Scope(Head(w)))
<1>1. Pending(tree, <<>>)
  BY IdleLists, IdlePends
<1>2. PICK C : Turns(C, w, <<>>, v)
  BY <1>1, Laid
<1>3. AddsCloser(v, w, Len(w), Scope(Head(w)))
  BY <1>2, ClosingStep DEF Turns
<1> QED
  BY <1>1, <1>3, Laid

-----------------------------------------------------------------------------
(* Where the walk stands. *)
LEMMA AtShape ==
  ASSUME WalkInv, NEW p, At(p)
  PROVE  /\ status = "converting" /\ work # <<>> /\ Top.at = p /\ Top = Head(work)
         /\ Pending(ast, work) /\ Matches(work, stk) /\ Fine(ast, Top)
         /\ stk \in Stack
<1>1. status = "converting" /\ work # <<>> /\ Top.at = p
  BY DEF At
<1>2. Pending(ast, work) /\ Matches(work, stk) /\ stk \in Stack
  BY <1>1 DEF WalkInv, ScopesInv, WellNumbered
<1>3. Fine(ast, Head(work))
  <2> DEFINE v == <<>> \o Tail(work)
  <2>1. Pending(ast, <<>>)
    BY IdleLists, IdlePends
  <2> HIDE DEF v
  <2>2. Fine(ast, Head(work))
    BY <1>1, <1>2, <2>1, Laid DEF v
  <2> QED
    BY <2>2
<1> QED
  BY <1>1, <1>2, <1>3 DEF Top

LEMMA VisitShape ==
  ASSUME WalkInv, At("walk"), Top.n.op # "NIL"
  PROVE  /\ Top.n \in Nodes(ast) /\ Top.n.l \in Nodes(ast) /\ Top.n.r \in Nodes(ast)
         /\ Top.n.op = "VAR_DECL" => Top.n.l.v \in Id
         /\ Top.n.op = "FUNC_DECL" => Top.n.l.r \in Parameters(ast) \union {Nothing}
<1>1. Top.n \in Nodes(ast) \union {Nothing}
  BY AtShape DEF Fine
<1>2. Top.n # Nothing
  BY DEF Nothing
<1>3. ast \in Programs
  BY DEF WalkInv
<1> QED
  BY <1>1, <1>2, <1>3, NodesAssumption

(* A son, or a son's, that is there or not.                                *)
LEMMA SonShape ==
  ASSUME WalkInv, NEW n \in Nodes(ast), n.op # "NIL"
  PROVE  n.l \in Nodes(ast) /\ n.r \in Nodes(ast)
<1>1. ast \in Programs /\ n # Nothing
  BY DEF WalkInv, Nothing
<1> QED
  BY <1>1, NodesAssumption

-----------------------------------------------------------------------------
(* Most handlers open and close no scope.  Some declare a variable.        *)
Quietly ==
  /\ status = "converting" /\ work # <<>> /\ Top.at \notin Closing
  /\ \E acts : IdleList(ast, acts) /\ Continue(acts)
  /\ UNCHANGED scopeVars \/ \E id \in Id : Declare(id)
  /\ UNCHANGED <<ast, status>>

Failed ==
  /\ status' \notin {"converting", "BACKEND_SUCCESS"}
  /\ UNCHANGED <<ast, stk, inFunction>>

LEMMA FailShape ==
  ASSUME NEW error \in {"BACKEND_TYPE_ERROR", "BACKEND_SCOPE_ERROR", "exit(1)"}, Fail(error)
  PROVE  Failed
BY DEF Fail, Failed

LEMMA QuietShape ==
  ASSUME NEW p, At(p), p \notin Closing, NEW acts, IdleList(ast, acts), Continue(acts),
         UNCHANGED scopeVars \/ \E id \in Id : Declare(id), Same
  PROVE  Quietly
BY DEF At, Quietly, Same, Fixed

LEMMA NumberQuiet == ASSUME WalkInv, ConvertNumber PROVE Quietly
<1>1. At("walk") /\ Continue(<<>>) /\ UNCHANGED scopeVars /\ Same
  BY DEF ConvertNumber, Visiting
<1> QED
  BY <1>1, IdleLists, QuietShape DEF Closing

LEMMA WriteQuiet == ASSUME WalkInv, WriteText PROVE Quietly
<1>1. At("write") /\ Continue(<<>>) /\ UNCHANGED scopeVars /\ Same
  BY DEF WriteText
<1> QED
  BY <1>1, IdleLists, QuietShape DEF Closing

LEMMA UseQuiet ==
  ASSUME NEW p, At(p), p \notin Closing, NEW op, NEW id, UseVariable(op, id)
  PROVE  Quietly \/ Failed
<1>1. CASE Fail("BACKEND_TYPE_ERROR") \/ Fail("BACKEND_SCOPE_ERROR")
  BY <1>1, FailShape
<1>2. CASE Continue(<<>>) /\ UNCHANGED scopeVars /\ Same
  BY <1>2, IdleLists, QuietShape
<1> QED
  BY <1>1, <1>2 DEF UseVariable

LEMMA VariableQuiet == ASSUME PopVariable \/ ConvertIdentifier PROVE Quietly \/ Failed
<1>1. "pop_variable" \notin Closing /\ "walk" \notin Closing
  BY DEF Closing
<1>2. CASE PopVariable
  BY <1>1, <1>2, UseQuiet DEF PopVariable
<1>3. CASE ConvertIdentifier
  BY <1>1, <1>3, UseQuiet DEF ConvertIdentifier, Visiting
<1> QED
  BY <1>2, <1>3

(* Handlers that lay down activations.                                     *)
LEMMA ExpandsQuiet ==
  ASSUME NEW op, NEW acts, Expands(op, acts), IdleList(ast, acts)
  PROVE  Quietly
<1>1. At("walk") /\ Continue(acts) /\ UNCHANGED scopeVars /\ Same
  BY DEF Expands, Visiting
<1> QED
  BY <1>1, QuietShape DEF Closing

LEMMA ExpandsShape ==
  ASSUME WalkInv, NEW op, op # "NIL", NEW acts, Expands(op, acts)
  PROVE  /\ Top.n \in Nodes(ast) /\ Top.n.l \in Nodes(ast) /\ Top.n.r \in Nodes(ast)
         /\ Idle(ast, Walk(Top.n.l)) /\ Idle(ast, Walk(Top.n.r))
<1>1. At("walk") /\ Top.n.op = op
  BY DEF Expands, Visiting
<1> QED
  BY <1>1, VisitShape, IdleShape

LEMMA SeparatorQuiet == ASSUME WalkInv, ConvertSeparator PROVE Quietly
<1> DEFINE rest == IF Top.n.r = Nothing THEN <<>> ELSE <<Walk(Top.n.r)>>
           acts == <<Walk(Top.n.l)>> \o rest
<1>1. Expands("SEP", acts)
  BY DEF ConvertSeparator
<1>2. Idle(ast, Walk(Top.n.l)) /\ Idle(ast, Walk(Top.n.r))
  BY <1>1, ExpandsShape
<1>3. IdleList(ast, rest)
  <2>1. IdleList(ast, <<>>) /\ IdleList(ast, <<Walk(Top.n.r)>>)
    BY <1>2, IdleLists
  <2>2. rest = <<>> \/ rest = <<Walk(Top.n.r)>>
    OBVIOUS
  <2> HIDE DEF rest
  <2> QED
    BY <2>1, <2>2
<1>4. IdleList(ast, <<Walk(Top.n.l)>>)
  BY <1>2, IdleLists
<1> HIDE DEF rest
<1>5. IdleList(ast, acts)
  BY <1>3, <1>4, IdleJoined
<1> HIDE DEF acts
<1> QED
  BY <1>1, <1>5, ExpandsQuiet

LEMMA BinaryQuiet == ASSUME WalkInv, ConvertBinary PROVE Quietly
<1>1. PICK op \in Arithmetic \union Comparison :
        Expands(op, <<Walk(Top.n.l), Walk(Top.n.r), Write(<<OperatorCode(op)>>)>>)
  BY DEF ConvertBinary
<1> DEFINE acts == <<Walk(Top.n.l), Walk(Top.n.r), Write(<<OperatorCode(op)>>)>>
<1>2. op # "NIL"
  BY DEF Arithmetic, Comparison
<1>3. Idle(ast, Walk(Top.n.l)) /\ Idle(ast, Walk(Top.n.r)) /\ Idle(ast, Write(<<OperatorCode(op)>>))
  <2>1. Idle(ast, Write(<<OperatorCode(op)>>))
    BY IdleShape, Zenon
  <2> QED
    BY <1>1, <1>2, <2>1, ExpandsShape
<1>4. IdleList(ast, acts)
  BY <1>3, IdleLists
<1> QED
  BY <1>1, <1>4, ExpandsQuiet

LEMMA UnaryQuiet == ASSUME WalkInv, ConvertUnary PROVE Quietly
<1>1. PICK op \in {"OUT", "SQRT", "SIN", "COS"} :
        Expands(op, <<Walk(Top.n.l), Write(<<Plain(op)>>)>>)
  BY DEF ConvertUnary
<1> DEFINE acts == <<Walk(Top.n.l), Write(<<Plain(op)>>)>>
<1>2. Idle(ast, Walk(Top.n.l)) /\ Idle(ast, Write(<<Plain(op)>>))
  <2>1. Idle(ast, Write(<<Plain(op)>>))
    BY IdleShape, Zenon
  <2> QED
    BY <1>1, <2>1, ExpandsShape
<1>3. IdleList(ast, acts)
  BY <1>2, IdleLists
<1> QED
  BY <1>1, <1>3, ExpandsQuiet

LEMMA AssignQuiet == ASSUME WalkInv, ConvertAssign PROVE Quietly
<1> DEFINE acts == <<Walk(Top.n.r), Then("pop_variable", Top.n.l, 0)>>
<1>1. Expands("ASSIGN", acts)
  BY DEF ConvertAssign
<1>2. Idle(ast, Walk(Top.n.r)) /\ Idle(ast, Then("pop_variable", Top.n.l, 0))
  BY <1>1, ExpandsShape, IdleShape
<1>3. IdleList(ast, acts)
  BY <1>2, IdleLists
<1> QED
  BY <1>1, <1>3, ExpandsQuiet

LEMMA InQuiet == ASSUME WalkInv, ConvertIn PROVE Quietly
<1> DEFINE acts == <<Write(<<Plain("IN")>>), Then("pop_variable", Top.n.l, 0)>>
<1>1. Expands("IN", acts)
  BY DEF ConvertIn
<1>2. Idle(ast, Write(<<Plain("IN")>>)) /\ Idle(ast, Then("pop_variable", Top.n.l, 0))
  <2>1. Idle(ast, Write(<<Plain("IN")>>))
    BY IdleShape, Zenon
  <2> QED
    BY <2>1, IdleShape
<1>3. IdleList(ast, acts)
  BY <1>2, IdleLists
<1> QED
  BY <1>1, <1>3, ExpandsQuiet

LEMMA TextQuiet == ASSUME WalkInv, ConvertText PROVE Quietly
<1> DEFINE acts == <<Write(<<Plain("CHR")>>)>>
<1>1. Expands("TEXT", acts)
  BY DEF ConvertText
<1>2. Idle(ast, Write(<<Plain("CHR")>>))
  BY IdleShape, Zenon
<1>3. IdleList(ast, acts)
  BY <1>2, IdleLists
<1> QED
  BY <1>1, <1>3, ExpandsQuiet

LEMMA RetQuiet == ASSUME WalkInv, ConvertRet PROVE Quietly
<1> DEFINE text == <<Ins("POP", "rax", 0)>>
                   \o (IF Taxed(ast) THEN <<To("CALL", Taxing)>> ELSE <<>>) \o <<Plain("RET")>>
           acts == <<Walk(Top.n.l), Write(text)>>
<1>1. Expands("RET", acts)
  BY DEF ConvertRet
<1> HIDE DEF text
<1>2. Idle(ast, Walk(Top.n.l)) /\ Idle(ast, Write(text))
  <2>1. Idle(ast, Write(text))
    BY IdleShape, Zenon
  <2> QED
    BY <1>1, <2>1, ExpandsShape
<1>3. IdleList(ast, acts)
  BY <1>2, IdleLists
<1> QED
  BY <1>1, <1>3, ExpandsQuiet

LEMMA CallQuiet == ASSUME WalkInv, ConvertCall PROVE Quietly \/ Failed
<1> DEFINE argument == IF Top.n.r = Nothing THEN <<>> ELSE <<Then("argument", Top.n.r, 0)>>
           call == <<Then("call", Top.n.l, 0)>>
<1>1. CASE Fail("BACKEND_TYPE_ERROR")
  BY <1>1, FailShape
<1>2. CASE Expands("CALL", argument \o call)
  <2>1. Top.n.r \in Nodes(ast)
    <3> HIDE DEF argument, call
    <3> QED
      BY <1>2, ExpandsShape
  <2>2. IdleList(ast, argument)
    <3>1. IdleList(ast, <<>>) /\ IdleList(ast, <<Then("argument", Top.n.r, 0)>>)
      BY <2>1, IdleShape, IdleLists
    <3>2. argument = <<>> \/ argument = <<Then("argument", Top.n.r, 0)>>
      OBVIOUS
    <3> HIDE DEF argument
    <3> QED
      BY <3>1, <3>2
  <2>3. IdleList(ast, call)
    BY IdleShape, IdleLists
  <2> HIDE DEF argument, call
  <2>4. IdleList(ast, argument \o call)
    BY <2>2, <2>3, IdleJoined
  <2> QED
    BY <1>2, <2>4, ExpandsQuiet
<1> QED
  BY <1>1, <1>2 DEF ConvertCall

LEMMA ArgumentQuiet == ASSUME WalkInv, ConvertArgument PROVE Quietly
<1> DEFINE chained == Top.n.op = "COMMA"
           value == IF chained THEN Top.n.l ELSE Top.n
           rest  == IF chained THEN <<Then("argument", Top.n.r, Top.i + 1)>> ELSE <<>>
           first == <<Walk(value), Then("store_argument", Nothing, Top.i)>>
<1>1. /\ At("argument") /\ Continue(first \o rest) /\ UNCHANGED scopeVars /\ Same
  BY DEF ConvertArgument
<1>2. Top.n \in Nodes(ast) \union {Nothing}
  BY <1>1, AtShape DEF Fine
<1>3. chained => Top.n.l \in Nodes(ast) /\ Top.n.r \in Nodes(ast)
  BY <1>2, SonShape DEF Nothing
<1>4. IdleList(ast, first)
  <2>1. value \in Nodes(ast) \union {Nothing}
    BY <1>2, <1>3
  <2> HIDE DEF value
  <2>2. Idle(ast, Walk(value)) /\ Idle(ast, Then("store_argument", Nothing, Top.i))
    BY <2>1, IdleShape
  <2> QED
    BY <2>2, IdleLists
<1>5. IdleList(ast, rest)
  <2>1. CASE chained
    <3>1. Idle(ast, Then("argument", Top.n.r, Top.i + 1))
      BY <1>3, <2>1, IdleShape
    <3> QED
      BY <2>1, <3>1, IdleLists
  <2>2. CASE ~chained
    BY <2>2, IdleLists
  <2> QED
    BY <2>1, <2>2
<1> HIDE DEF first, rest
<1>6. IdleList(ast, first \o rest)
  BY <1>4, <1>5, IdleJoined
<1> QED
  BY <1>1, <1>6, QuietShape DEF Closing

LEMMA CallingQuiet == ASSUME WalkInv, StoreArgument \/ EmitCall PROVE Quietly
<1>1. /\ At("store_argument") \/ At("call")
      /\ Continue(<<>>) /\ UNCHANGED scopeVars /\ Same
  BY DEF StoreArgument, EmitCall
<1> QED
  BY <1>1, IdleLists, QuietShape DEF Closing

(* Declarations. *)
LEMMA VarDeclarationQuiet == ASSUME WalkInv, ConvertVarDeclaration PROVE Quietly
<1>1. At("walk") /\ Top.n.op = "VAR_DECL" /\ Declare(Top.n.l.v) /\ Continue(<<>>) /\ Same
  BY DEF ConvertVarDeclaration, Visiting
<1>2. Top.n.l.v \in Id
  BY <1>1, VisitShape
<1> QED
  BY <1>1, <1>2, IdleLists, QuietShape DEF Closing

LEMMA ParameterQuiet == ASSUME WalkInv, PushParameter PROVE Quietly
<1> DEFINE id   == IF Top.n.op = "COMMA" THEN Top.n.l.v ELSE Top.n.v
           rest == IF Top.n.r = Nothing THEN <<>> ELSE <<Then("parameter", Top.n.r, 0)>>
<1>1. At("parameter") /\ Declare(id) /\ Continue(rest) /\ Same
  BY DEF PushParameter
<1>2. Top.n \in Parameters(ast) /\ ast \in Programs
  BY <1>1, AtShape DEF Fine, WalkInv
<1>3. id \in Id /\ Top.n.r \in Parameters(ast) \union {Nothing}
  BY <1>2, NodesAssumption
<1>4. IdleList(ast, rest)
  <2>1. CASE Top.n.r = Nothing
    BY <2>1, IdleLists
  <2>2. CASE Top.n.r # Nothing
    <3>1. Idle(ast, Then("parameter", Top.n.r, 0))
      BY <1>3, <2>2, IdleShape
    <3> QED
      BY <2>2, <3>1, IdleLists
  <2> QED
    BY <2>1, <2>2
<1> HIDE DEF id, rest
<1> QED
  BY <1>1, <1>3, <1>4, QuietShape DEF Closing

LEMMA UnsupportedFails == ASSUME ConvertUnsupported PROVE Failed
BY FailShape DEF ConvertUnsupported

-----------------------------------------------------------------------------
(* A step of each kind. *)
LEMMA QuietKeeps == ASSUME WalkInv, Quietly PROVE WalkInv' /\ [ScopesNext]_scopeVars
<1>1. PICK acts : IdleList(ast, acts) /\ work' = acts \o Tail(work)
  BY DEF Quietly, Continue
<1>2. /\ status = "converting" /\ status' = status /\ ast' = ast /\ ast \in Programs
      /\ work # <<>> /\ Head(work).at \notin Closing
      /\ Pending(ast, work) /\ Matches(work, stk) /\ stk \in Stack
  BY DEF Quietly, WalkInv, ScopesInv, WellNumbered, Top
<1>3. [ScopesNext]_scopeVars
  BY DEF Quietly, ScopesNext
<1>4. ScopesInv'
  BY <1>3, NextInv DEF WalkInv
<1>5. Pending(ast, work') /\ SameClosers(work, work')
  BY <1>1, <1>2, QuietLaid
<1>6. SameSeparators(stk, stk')
  <2>1. CASE UNCHANGED scopeVars
    BY <2>1 DEF scopeVars, SameSeparators
  <2>2. CASE \E id \in Id : Declare(id)
    <3>1. PICK id \in Id : Declare(id)
      BY <2>2
    <3> DEFINE slot == [id |-> id, address |-> SPUAddress(stk)]
    <3>2. stk.size < Capacity /\ stk' = Grown(stk, slot)
      BY <3>1 DEF Declare, HasRoom, SPUPush
    <3>3. SPUAddress(stk) \in Int
      <4>1. stk.size > 0 => stk.size - 1 \in 0..Capacity-1
        BY <1>2, SlotsTyped
      <4>2. stk.size > 0 => LocalsStackTop(stk).address \in Int
        BY <1>2, <4>1, SlotsTyped DEF LocalsStackTop, Addr
      <4> QED
        BY <4>2 DEF SPUAddress
    <3>4. slot \in Slot /\ slot.id = id
      BY <3>3 DEF Slot
    <3> HIDE DEF slot
    <3> QED
      BY <1>2, <3>2, <3>4, VariableAddsNone
  <2> QED
    BY <2>1, <2>2 DEF Quietly
<1>7. Matches(work', stk')
  BY <1>2, <1>5, <1>6, KeptMatch
<1>8. WalkInv'
  BY <1>2, <1>4, <1>5, <1>7 DEF WalkInv
<1> QED
  BY <1>3, <1>8

LEMMA FailKeeps == ASSUME WalkInv, Failed PROVE WalkInv' /\ [ScopesNext]_scopeVars
<1>1. UNCHANGED scopeVars
  BY DEF Failed, scopeVars
<1>2. ScopesInv'
  BY <1>1, NextInv DEF WalkInv
<1> QED
  BY <1>1, <1>2 DEF WalkInv, Failed

(* Handlers that open a scope leave its closer behind everything else.     *)
LEMMA OpenKeeps ==
  ASSUME WalkInv, At("walk"), NEW scope \in {NORMAL_SCOPE, FUNC_SCOPE}, NEW p, IdleList(ast, p),
         NEW c, Fine(ast, c), c.at \in Closing, Scope(c) = scope,
         NEW acts, acts = p \o <<c>>, Continue(acts),
         HasRoom, stk' = LocalsStackInitScope(stk, scope), ScopesNext, Fixed
  PROVE  WalkInv'
<1>1. /\ status = "converting" /\ work # <<>> /\ Head(work).at \notin Closing
      /\ Pending(ast, work) /\ Matches(work, stk) /\ stk \in Stack
  BY AtShape DEF Closing
<1>2. work' = acts \o Tail(work) /\ ast' = ast /\ status' = status /\ ast \in Programs
  BY DEF Continue, Fixed, WalkInv
<1>3. ScopesInv'
  BY NextInv DEF WalkInv
<1>4. Pending(ast, work') /\ AddsCloser(work, work', Len(work), scope)
  BY <1>1, <1>2, OpenLaid
<1>5. AddsSeparator(stk, stk', stk.size, scope)
  BY <1>1, OpenAddsOne DEF HasRoom
<1>6. Matches(work', stk')
  BY <1>1, <1>4, <1>5, OpenedMatch
<1> QED
  BY <1>1, <1>2, <1>3, <1>4, <1>6 DEF WalkInv

(* The last of what is laid down, apart. *)
Regroups(A, p, s, t, c, q, u, v) ==
  /\ p \in Seq(A) /\ s \in Seq(A) /\ t \in Seq(A) /\ c \in A
  /\ Len(s) = Len(t) + 1 /\ s[Len(s)] = c /\ \A i \in 1..Len(t) : s[i] = t[i]
  /\ q = p \o t /\ u = p \o s /\ v = q \o <<c>>

LEMMA Regrouped ==
  ASSUME NEW A, NEW p, NEW s, NEW t, NEW c, NEW q, NEW u, NEW v,
         Regroups(A, p, s, t, c, q, u, v)
  PROVE  u = v
<1> /\ p \in Seq(A) /\ s \in Seq(A) /\ t \in Seq(A) /\ c \in A
    /\ Len(s) = Len(t) + 1 /\ s[Len(s)] = c /\ \A i \in 1..Len(t) : s[i] = t[i]
    /\ q = p \o t /\ u = p \o s /\ v = q \o <<c>>
  BY DEF Regroups
<1>1. PICK n \in Nat, m \in Nat : n = Len(p) /\ m = Len(t) /\ Len(s) = m + 1
  OBVIOUS
<1>2. q \in Seq(A) /\ Len(q) = n + m
  BY <1>1
<1>3. u \in Seq(A) /\ Len(u) = n + m + 1
  <2>1. u \in Seq(A) /\ Len(u) = Len(p) + Len(s)
    OBVIOUS
  <2> QED
    BY <1>1, <2>1
<1>4. v \in Seq(A) /\ Len(v) = n + m + 1 /\ v[n + m + 1] = c
  BY <1>1, <1>2
<1>5. \A i \in 1..n+m : v[i] = q[i]
  BY <1>1, <1>2
<1>6. \A i \in 1..n : u[i] = p[i] /\ q[i] = p[i] /\ i \in 1..n+m
  BY <1>1
<1>7. \A i \in n+1..n+m : u[i] = s[i - n] /\ q[i] = t[i - n] /\ i - n \in 1..m /\ i \in 1..n+m
  BY <1>1
<1>8. u[n + m + 1] = c
  <2>1. n + m + 1 \in 1..n+m+1 /\ n + m + 1 > n /\ n + m + 1 - n = m + 1 /\ m + 1 \in 1..Len(s)
    BY <1>1
  <2>2. u[n + m + 1] = s[m + 1]
    BY <1>1, <2>1
  <2> QED
    BY <1>1, <2>2
<1>9. \A i \in 1..n+m+1 : u[i] = v[i]
  <2> TAKE i \in 1..n+m+1
  <2>1. i \in 1..n \/ i \in n+1..n+m \/ i = n + m + 1
    BY <1>1
  <2>2. CASE i \in 1..n
    BY <1>5, <1>6, <2>2
  <2>3. CASE i \in n+1..n+m
    BY <1>1, <1>5, <1>7, <2>3
  <2>4. CASE i = n + m + 1
    BY <1>4, <1>8, <2>4
  <2> QED
    BY <2>1, <2>2, <2>3, <2>4
<1> QED
  BY <1>3, <1>4, <1>9, SeqEqual

(* A closer behind one or two others, behind a list. *)
OneThen(u, p, x, c)    == u = p \o <<x, c>>
TwoThen(u, p, x, y, c) == u = p \o <<x, y, c>>
Apart(tree, u, c)      == \E q : IdleList(tree, q) /\ u = q \o <<c>>

LEMMA Behind ==
  ASSUME NEW tree, NEW p, IdleList(tree, p), NEW x, NEW y, NEW c, Idle(tree, x), Idle(tree, y),
         NEW u
  PROVE  /\ OneThen(u, p, x, c) => Apart(tree, u, c)
         /\ TwoThen(u, p, x, y, c) => Apart(tree, u, c)
<1>1. PICK A : p \in Seq(A)
  BY DEF IdleList
<1> DEFINE B == A \union {x, y, c}
<1>2. p \in Seq(B)
  BY <1>1, Widened
<1>3. c \in B
  OBVIOUS
<1>4. ASSUME OneThen(u, p, x, c) PROVE Apart(tree, u, c)
  <2> DEFINE s == <<x, c>>
             t == <<x>>
             q == p \o t
             v == q \o <<c>>
  <2>1. /\ s \in Seq(B) /\ t \in Seq(B)
        /\ Len(s) = 2 /\ Len(t) = 1 /\ s[1] = t[1] /\ s[2] = c
    OBVIOUS
  <2>2. IdleList(tree, t)
    BY IdleLists
  <2>3. u = p \o s
    BY <1>4 DEF OneThen
  <2>4. \A i \in 1..1 : i = 1
    OBVIOUS
  <2> HIDE DEF B, s, t
  <2>5. IdleList(tree, q)
    BY <2>2, IdleJoined
  <2>6. q = p \o t /\ v = q \o <<c>>
    OBVIOUS
  <2>7. Len(s) = Len(t) + 1 /\ s[Len(s)] = c /\ \A i \in 1..Len(t) : s[i] = t[i]
    BY <2>1, <2>4
  <2> HIDE DEF q, v
  <2>8. Regroups(B, p, s, t, c, q, u, v)
    BY <1>2, <1>3, <2>1, <2>3, <2>6, <2>7 DEF Regroups
  <2>9. u = v
    BY <2>8, Regrouped
  <2> QED
    BY <2>5, <2>6, <2>9 DEF Apart
<1>5. ASSUME TwoThen(u, p, x, y, c) PROVE Apart(tree, u, c)
  <2> DEFINE s == <<x, y, c>>
             t == <<x, y>>
             q == p \o t
             v == q \o <<c>>
  <2>1. /\ s \in Seq(B) /\ t \in Seq(B)
        /\ Len(s) = 3 /\ Len(t) = 2 /\ s[1] = t[1] /\ s[2] = t[2] /\ s[3] = c
    OBVIOUS
  <2>2. IdleList(tree, t)
    BY IdleLists
  <2>3. u = p \o s
    BY <1>5 DEF TwoThen
  <2>4. \A i \in 1..2 : i = 1 \/ i = 2
    OBVIOUS
  <2> HIDE DEF B, s, t
  <2>5. IdleList(tree, q)
    BY <2>2, IdleJoined
  <2>6. q = p \o t /\ v = q \o <<c>>
    OBVIOUS
  <2>7. Len(s) = Len(t) + 1 /\ s[Len(s)] = c /\ \A i \in 1..Len(t) : s[i] = t[i]
    BY <2>1, <2>4
  <2> HIDE DEF q, v
  <2>8. Regroups(B, p, s, t, c, q, u, v)
    BY <1>2, <1>3, <2>1, <2>3, <2>6, <2>7 DEF Regroups
  <2>9. u = v
    BY <2>8, Regrouped
  <2> QED
    BY <2>5, <2>6, <2>9 DEF Apart
<1> QED
  BY <1>4, <1>5

LEMMA IfKeeps == ASSUME WalkInv, ConvertIf PROVE WalkInv' /\ OpenBlock
<1> DEFINE else == <<"IF_ELSE", ifCounter>>
           end  == <<"IF_END", ifCounter>>
           test(label) == Write(<<PushNum(0), To("JE", label)>>)
           jump == Write(<<To("JMP", end), Mark(else)>>)
           last == Write(<<Mark(end)>>)
           c    == Then("pop_scope", Nothing, 0)
           branches == IF Top.n.r.op = "ELSE"
                       THEN <<Walk(Top.n.l), test(else), Walk(Top.n.r.l), jump, Walk(Top.n.r.r)>>
                       ELSE <<Walk(Top.n.l), test(end), Walk(Top.n.r)>>
<1>1. At("walk") /\ Top.n.op = "IF" /\ OpenBlock /\ Continue(branches \o <<last, c>>) /\ Fixed
  BY DEF ConvertIf, Visiting
<1>2. Top.n.l \in Nodes(ast) /\ Top.n.r \in Nodes(ast)
  BY <1>1, VisitShape
<1>3. /\ \A label : Idle(ast, test(label))
      /\ Idle(ast, jump) /\ Idle(ast, last)
  BY IdleShape, Zenon
<1>4. Idle(ast, Walk(Top.n.l)) /\ Idle(ast, Walk(Top.n.r))
  BY <1>2, IdleShape
<1> HIDE DEF test, jump, last
<1>5. IdleList(ast, branches)
  <2>1. CASE Top.n.r.op = "ELSE"
    <3>1. Top.n.r.l \in Nodes(ast) /\ Top.n.r.r \in Nodes(ast)
      BY <1>2, <2>1, SonShape
    <3>2. Idle(ast, Walk(Top.n.r.l)) /\ Idle(ast, Walk(Top.n.r.r))
      BY <3>1, IdleShape
    <3>3. /\ IdleList(ast, <<Walk(Top.n.l), test(else), Walk(Top.n.r.l)>>)
          /\ IdleList(ast, <<jump, Walk(Top.n.r.r)>>)
      BY <1>3, <1>4, <3>2, IdleLists
    <3>4. branches = <<Walk(Top.n.l), test(else), Walk(Top.n.r.l)>> \o <<jump, Walk(Top.n.r.r)>>
      BY <2>1
    <3> QED
      BY <3>3, <3>4, IdleJoined
  <2>2. CASE Top.n.r.op # "ELSE"
    BY <1>3, <1>4, <2>2, IdleLists
  <2> QED
    BY <2>1, <2>2
<1>6. Fine(ast, c) /\ c.at \in Closing /\ Scope(c) = NORMAL_SCOPE
  <2>1. "pop_scope" \in Closing
    BY DEF Closing
  <2> QED
    BY <2>1, IdleShape DEF Scope
<1> HIDE DEF branches, c
<1> DEFINE acts == branches \o <<last, c>>
<1>a. OneThen(acts, branches, last, c)
  BY Zenon DEF OneThen
<1>b. Apart(ast, acts, c)
  <2> HIDE DEF acts
  <2> QED
    BY <1>3, <1>5, <1>a, Behind
<1>7. PICK p : IdleList(ast, p) /\ acts = p \o <<c>>
  BY <1>b DEF Apart
<1> HIDE DEF acts
<1>8. HasRoom /\ stk' = LocalsStackInitScope(stk, NORMAL_SCOPE) /\ ScopesNext
  BY <1>1 DEF OpenBlock, ScopesNext
<1>9. WalkInv'
  <2>1. Continue(acts)
    BY <1>1 DEF acts
  <2> QED
    BY <1>1, <1>6, <1>7, <1>8, <2>1, OpenKeeps
<1> QED
  BY <1>1, <1>9

LEMMA WhileKeeps == ASSUME WalkInv, ConvertWhile PROVE WalkInv' /\ OpenBlock
<1> DEFINE loop == <<"LOOP", whileCounter>>
           end  == <<"LOOP_END", whileCounter>>
           first == Write(<<Mark(loop)>>)
           test  == Write(<<PushNum(0), To("JE", end)>>)
           last  == Write(<<To("JMP", loop), Mark(end)>>)
           c     == Then("pop_scope", Nothing, 0)
           l == Walk(Top.n.l)
           r == Walk(Top.n.r)
           acts == <<first, l, test, r, last, c>>
<1>1. At("walk") /\ Top.n.op = "WHILE" /\ OpenBlock /\ Continue(acts) /\ Fixed
  BY DEF ConvertWhile, Visiting
<1>2. Idle(ast, first) /\ Idle(ast, test) /\ Idle(ast, last)
  BY IdleShape, Zenon
<1>3. Idle(ast, l) /\ Idle(ast, r)
  BY <1>1, VisitShape, IdleShape
<1>4. Fine(ast, c) /\ c.at \in Closing /\ Scope(c) = NORMAL_SCOPE
  <2>1. "pop_scope" \in Closing
    BY DEF Closing
  <2> QED
    BY <2>1, IdleShape DEF Scope
<1> DEFINE p == <<first, l, test>> \o <<r, last>>
<1> HIDE DEF first, test, last, c, l, r
<1>5. acts = p \o <<c>>
  OBVIOUS
<1>6. IdleList(ast, p)
  <2>1. IdleList(ast, <<first, l, test>>) /\ IdleList(ast, <<r, last>>)
    BY <1>2, <1>3, IdleLists
  <2> QED
    BY <2>1, IdleJoined
<1>7. HasRoom /\ stk' = LocalsStackInitScope(stk, NORMAL_SCOPE) /\ ScopesNext
  BY <1>1 DEF OpenBlock, ScopesNext
<1> HIDE DEF p, acts
<1>8. WalkInv'
  BY <1>1, <1>4, <1>5, <1>6, <1>7, OpenKeeps
<1> QED
  BY <1>1, <1>8

LEMMA FuncDeclKeeps == ASSUME WalkInv, ConvertFuncDecl PROVE WalkInv' /\ OpenFunction
<1> DEFINE name == Top.n.l.l.v
           end  == <<"DECL_END", name>>
           last == Write(<<Mark(end)>>)
           c    == Then("end_function", Nothing, 0)
           body == Walk(Top.n.r)
           params == IF Top.n.l.r = Nothing THEN <<>> ELSE <<Then("parameter", Top.n.l.r, 0)>>
           acts == params \o <<body, last, c>>
<1>1. At("walk") /\ Top.n.op = "FUNC_DECL" /\ OpenFunction /\ Continue(acts) /\ Same
  BY DEF ConvertFuncDecl, Visiting
<1>2. Idle(ast, last)
  BY IdleShape, Zenon
<1>3. Idle(ast, body) /\ Top.n.l.r \in Parameters(ast) \union {Nothing}
  BY <1>1, VisitShape, IdleShape
<1>4. Fine(ast, c) /\ c.at \in Closing /\ Scope(c) = FUNC_SCOPE
  <2>1. "end_function" \in Closing
    BY DEF Closing
  <2> QED
    BY <2>1, IdleShape DEF Scope
<1>5. IdleList(ast, params)
  <2>1. CASE Top.n.l.r = Nothing
    BY <2>1, IdleLists
  <2>2. CASE Top.n.l.r # Nothing
    <3>1. Idle(ast, Then("parameter", Top.n.l.r, 0))
      BY <1>3, <2>2, IdleShape
    <3> QED
      BY <2>2, <3>1, IdleLists
  <2> QED
    BY <2>1, <2>2
<1> HIDE DEF last, c, body, params
<1>a. TwoThen(acts, params, body, last, c)
  BY Zenon DEF TwoThen
<1>b. Apart(ast, acts, c)
  <2> HIDE DEF acts
  <2> QED
    BY <1>2, <1>3, <1>5, <1>a, Behind
<1>6. PICK p : IdleList(ast, p) /\ acts = p \o <<c>>
  BY <1>b DEF Apart
<1>7. HasRoom /\ stk' = LocalsStackInitScope(stk, FUNC_SCOPE) /\ ScopesNext
  BY <1>1 DEF OpenFunction, ScopesNext
<1> HIDE DEF acts
<1>8. WalkInv'
  BY <1>1, <1>4, <1>6, <1>7, OpenKeeps DEF Same
<1> QED
  BY <1>1, <1>8

(* Closing takes the innermost scope away, which is the closer's own.      *)
LEMMA CloserMeets ==
  ASSUME WalkInv, NEW p \in Closing, At(p)
  PROVE  /\ Separators(stk) # {} /\ stk.vars[Innermost(stk)].id = Scope(Top)
         /\ \A v : v = <<>> \o Tail(work) =>
              Pending(ast, v) /\ Matches(v, LocalsStackPopScope(stk))
<1>1. /\ work # <<>> /\ Head(work).at \in Closing /\ Top = Head(work)
      /\ Pending(ast, work) /\ Matches(work, stk) /\ stk \in Stack
  BY AtShape
<1>2. \A v : v = <<>> \o Tail(work) =>
        Pending(ast, v) /\ AddsCloser(v, work, Len(work), Scope(Top))
  BY <1>1, CloseLaid
<1> QED
  BY <1>1, <1>2, ClosedMatch

LEMMA CloseKeeps ==
  ASSUME WalkInv, NEW p \in Closing, At(p), Continue(<<>>),
         stk' = LocalsStackPopScope(stk), ScopesNext, Fixed
  PROVE  WalkInv'
<1>1. /\ work' = <<>> \o Tail(work) /\ ast' = ast /\ status' = status /\ ast \in Programs
      /\ status = "converting"
  BY DEF Continue, Fixed, WalkInv, At
<1>2. Pending(ast, work') /\ Matches(work', stk')
  BY <1>1, CloserMeets
<1>3. ScopesInv'
  BY NextInv DEF WalkInv
<1> QED
  BY <1>1, <1>2, <1>3 DEF WalkInv

LEMMA PopKeeps == ASSUME WalkInv, PopBlock \/ EndFuncDecl PROVE WalkInv' /\ ScopesNext
<1>1. "pop_scope" \in Closing /\ "end_function" \in Closing
  BY DEF Closing
<1>2. /\ At("pop_scope") \/ At("end_function")
      /\ Continue(<<>>) /\ Fixed /\ stk' = LocalsStackPopScope(stk) /\ ScopesNext
  BY DEF PopBlock, EndFuncDecl, CloseBlock, CloseFunction, Same, ScopesNext
<1> QED
  BY <1>1, <1>2, CloseKeeps

(* Without activations there are no closers, and so no scopes.             *)
LEMMA NonePending ==
  ASSUME NEW s, Matches(<<>>, s)
  PROVE  Separators(s) = {}
<1>1. PICK st : Brackets(<<>>, s, st)
  BY DEF Matches
<1>2. Closers(<<>>) = {}
  BY DEF Closers
<1> QED
  BY <1>1, <1>2 DEF Brackets

LEMMA FinishKeeps == ASSUME WalkInv, Finish PROVE WalkInv' /\ UNCHANGED scopeVars
<1>1. /\ status = "converting" /\ work = <<>> /\ status' = "BACKEND_SUCCESS"
      /\ UNCHANGED <<stk, inFunction, ast>>
  BY DEF Finish
<1>2. UNCHANGED scopeVars
  BY <1>1 DEF scopeVars
<1>3. ScopesInv'
  BY <1>2, NextInv DEF WalkInv
<1>4. Separators(stk) = {}
  BY <1>1, NonePending DEF WalkInv
<1> QED
  BY <1>1, <1>2, <1>3, <1>4 DEF WalkInv

LEMMA InitHolds == ASSUME Init PROVE WalkInv
<1>1. ast \in Programs /\ ScopesInit /\ work = <<Walk(ast)>> /\ status = "converting"
  BY DEF Init
<1>2. ScopesInv
  BY <1>1, InitInv
<1>3. Idle(ast, Walk(ast))
  BY <1>1, NodesAssumption, IdleShape
<1>4. IdleList(ast, work)
  BY <1>1, <1>3, IdleLists
<1>5. Closers(work) = {}
  <2>1. \A d : d \in 1..1 <=> d = 1
    OBVIOUS
  <2>2. Len(work) = 1 /\ Pend(work, 1) = Walk(ast)
    BY <1>1 DEF Pend
  <2> QED
    BY <1>3, <2>1, <2>2 DEF Closers, Idle
<1>6. Separators(stk) = {}
  <2>1. stk.size = 0 /\ stk \in Stack
    BY <1>1, <1>2 DEF ScopesInit, LocalsStackInit, ScopesInv, WellNumbered
  <2> QED
    BY <2>1, SeparatorsShape
<1>7. Matches(work, stk)
  <2>1. \E st : st \in [{} -> {}]
    <3>1. [d \in {} |-> 0] \in [{} -> {}]
      OBVIOUS
    <3> QED
      BY <3>1
  <2> QED
    BY <1>5, <1>6, <2>1 DEF Matches, Brackets
<1> QED
  BY <1>1, <1>2, <1>4, <1>7, IdlePends DEF WalkInv

LEMMA StepKeeps == ASSUME WalkInv, ConvertNext PROVE WalkInv' /\ [ScopesNext]_scopeVars
<1>1. CASE WriteText \/ ConvertNumber \/ ConvertSeparator \/ ConvertBinary \/ ConvertUnary
           \/ ConvertAssign \/ ConvertIn \/ ConvertText \/ ConvertRet \/ ConvertVarDeclaration
           \/ PushParameter \/ ConvertArgument \/ StoreArgument \/ EmitCall
  <2>1. Quietly
    BY <1>1, WriteQuiet, NumberQuiet, SeparatorQuiet, BinaryQuiet, UnaryQuiet, AssignQuiet,
      InQuiet, TextQuiet, RetQuiet, VarDeclarationQuiet, ParameterQuiet, ArgumentQuiet,
      CallingQuiet
  <2> QED
    BY <2>1, QuietKeeps
<1>2. CASE PopVariable \/ ConvertIdentifier \/ ConvertCall \/ ConvertUnsupported
  <2>1. Quietly \/ Failed
    BY <1>2, VariableQuiet, CallQuiet, UnsupportedFails
  <2> QED
    BY <2>1, QuietKeeps, FailKeeps
<1>3. CASE ConvertIf \/ ConvertWhile
  BY <1>3, IfKeeps, WhileKeeps DEF ScopesNext
<1>4. CASE ConvertFuncDecl
  BY <1>4, FuncDeclKeeps DEF ScopesNext
<1>5. CASE PopBlock \/ EndFuncDecl
  BY <1>5, PopKeeps
<1>6. CASE Finish
  BY <1>6, FinishKeeps
<1> QED
  BY <1>1, <1>2, <1>3, <1>4, <1>5, <1>6, Zenon DEF ConvertNext

LEMMA StuttersKeep ==
  ASSUME WalkInv, UNCHANGED convVars
  PROVE  WalkInv' /\ [ScopesNext]_scopeVars
<1>1. UNCHANGED <<ast, stk, inFunction, work, status>>
  BY DEF convVars
<1>2. UNCHANGED scopeVars
  BY <1>1 DEF scopeVars
<1>3. ScopesInv'
  BY <1>2, NextInv DEF WalkInv
<1> QED
  BY <1>1, <1>2, <1>3 DEF WalkInv

LEMMA WalkInvariance == ConvertSpec => []WalkInv
<1>1. Init => WalkInv
  BY InitHolds
<1>2. WalkInv /\ [ConvertNext]_convVars => WalkInv'
  BY StepKeeps, StuttersKeep
<1> QED
  BY <1>1, <1>2, PTL DEF ConvertSpec

(* The walk over any tree uses the variables stack the way SPUScopes says  *)
(* and no other, an error in the middle included.                          *)
THEOREM SPUWalkKeepsScopes == ConvertSpec => ScopesSpec
<1>1. Init => ScopesInit
  BY DEF Init
<1>2. WalkInv /\ [ConvertNext]_convVars => [ScopesNext]_scopeVars
  BY StepKeeps, StuttersKeep
<1> QED
  BY <1>1, <1>2, WalkInvariance, PTL DEF ConvertSpec, ScopesSpec

(* So at every moment of the walk the arguments of a call would go above   *)
(* every variable of the frame, and no two of these share a word           *)
(* (translateCallArguments and LocalsStackPush, backend_Spu.c).            *)
THEOREM SPUWalkKeepsWords == ConvertSpec => [](ArgumentsAboveFrame /\ DistinctWords)
BY SPUWalkKeepsScopes, ArgumentsNeverClobber, WordsDistinct, PTL

(* LocalsStackPopScope removes the scope of whatever kind is innermost: a  *)
(* body ends by removing the block it opened, a declaration its function,  *)
(* however the two nest, and nothing is open when the tree is translated.  *)
THEOREM SPUWalkClosesItsOwn == ConvertSpec => []ClosesItsOwn
<1>1. WalkInv => ClosesItsOwn
  <2> SUFFICES ASSUME WalkInv PROVE ClosesItsOwn
    OBVIOUS
  <2>1. ASSUME At("pop_scope") PROVE InnermostIs(NORMAL_SCOPE)
    <3>1. "pop_scope" \in Closing /\ Scope(Top) = NORMAL_SCOPE
      BY <2>1, AtShape DEF Closing, Scope
    <3> QED
      BY <2>1, <3>1, CloserMeets DEF InnermostIs
  <2>2. ASSUME At("end_function") PROVE InnermostIs(FUNC_SCOPE)
    <3>1. "end_function" \in Closing /\ Scope(Top) = FUNC_SCOPE
      BY <2>2, AtShape DEF Closing, Scope
    <3> QED
      BY <2>2, <3>1, CloserMeets DEF InnermostIs
  <2> QED
    BY <2>1, <2>2 DEF ClosesItsOwn, WalkInv
<1> QED
  BY <1>1, WalkInvariance, PTL
=============================================================================
