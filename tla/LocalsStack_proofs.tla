------------------------- MODULE LocalsStack_proofs -------------------------
(***************************************************************************)
(* Facts about the operations on the variables stack that both back ends   *)
(* share, for every set of names and every capacity.                       *)
(***************************************************************************)
EXTENDS LocalsStack, WellFoundedInduction, TLAPS

(* A non-empty set of slots below a slot has a last one.                   *)
LEMMA LastExists ==
  ASSUME NEW n \in Nat, NEW S \in SUBSET (0..n), S # {}
  PROVE  \E i \in S : \A j \in S : j <= i
<1> DEFINE Depths == {d \in Nat : n - d \in S}
<1>1. Depths \subseteq Nat
  OBVIOUS
<1>2. Depths # {}
  <2>1. PICK i \in S : TRUE
    OBVIOUS
  <2>2. n - i \in Nat /\ n - (n - i) = i
    OBVIOUS
  <2> QED
    BY <2>1, <2>2
<1> DEFINE Less == OpToRel(<, Nat)
<1> HIDE DEF Depths
<1>3. PICK d \in Depths : \A e \in Depths : <<e, d>> \notin Less
  <2>1. IsWellFoundedOn(Less, Nat)
    BY NatLessThanWellFounded
  <2> HIDE DEF Less
  <2> QED
    BY <1>1, <1>2, <2>1, WFMin
<1>4. \A e \in Depths : d <= e
  <2>1. ASSUME NEW e \in Depths, e < d PROVE FALSE
    <3>1. <<e, d>> \in {pair \in Nat \X Nat : pair[1] < pair[2]}
      BY <1>1, <2>1
    <3> QED
      BY <1>3, <3>1, Zenon DEF OpToRel
  <2> QED
    BY <1>1, <2>1
<1> USE DEF Depths
<1>5. \A j \in S : j <= n - d
  <2> TAKE j \in S
  <2>1. n - j \in Depths
    <3>1. n - j \in Nat /\ n - (n - j) = j
      OBVIOUS
    <3> QED BY <3>1
  <2>2. d \in Nat /\ d <= n - j
    BY <1>4, <2>1
  <2> QED
    BY <2>2
<1> QED
  BY <1>5

(* What a stack is made of. *)
LEMMA StackShape ==
  ASSUME NEW s \in Stack
  PROVE  /\ Capacity \in Nat /\ s.size \in 0..Capacity
         /\ s.vars \in [0..Capacity-1 -> Slot]
         /\ s = [size |-> s.size, vars |-> s.vars]
BY CapacityAssumption DEF Stack

(* A push writes the slot at the top and leaves those under it.            *)
LEMMA PushShape ==
  ASSUME NEW s \in Stack, s.size < Capacity, NEW slot \in Slot
  PROVE  /\ Grown(s, slot) \in Stack
         /\ Grown(s, slot).size = s.size + 1
         /\ Grown(s, slot).vars[s.size] = slot
         /\ \A i \in 0..Capacity-1 : i # s.size => Grown(s, slot).vars[i] = s.vars[i]
<1>1. /\ Capacity \in Nat /\ s.size \in 0..Capacity
      /\ s.vars \in [0..Capacity-1 -> Slot]
  BY StackShape
<1>2. s.size \in 0..Capacity-1 /\ s.size + 1 \in 0..Capacity
  BY <1>1
<1> QED
  BY <1>1, <1>2 DEF Grown, Stack

(* Popping a scope only lowers the size; the slots keep their contents.    *)
LEMMA PopShape ==
  ASSUME NEW s \in Stack
  PROVE  /\ LocalsStackPopScope(s) \in Stack
         /\ LocalsStackPopScope(s).vars = s.vars
         /\ LocalsStackPopScope(s).size \in 0..s.size
<1>1. /\ Capacity \in Nat /\ s.size \in 0..Capacity
      /\ s.vars \in [0..Capacity-1 -> Slot]
      /\ s = [size |-> s.size, vars |-> s.vars]
  BY StackShape
<1>2. Separators(s) # {} => Innermost(s) \in 0..s.size-1
  <2> SUFFICES ASSUME Separators(s) # {} PROVE Innermost(s) \in 0..s.size-1
    OBVIOUS
  <2>1. Separators(s) \subseteq 0..s.size-1
    BY DEF Separators, Live
  <2>2. \E i \in Separators(s) : \A j \in Separators(s) : j <= i
    <3> DEFINE S == Separators(s)
    <3>1. s.size \in Nat /\ S # {} /\ S \in SUBSET (0..s.size)
      BY <1>1, <2>1
    <3> HIDE DEF S
    <3>2. \E i \in S : \A j \in S : j <= i
      BY <3>1, LastExists
    <3> QED
      BY <3>2 DEF S
  <2> QED
    BY <2>1, <2>2 DEF Innermost
<1>3. (IF Separators(s) = {} THEN 0 ELSE Innermost(s)) \in 0..s.size
  BY <1>1, <1>2
<1> QED
  BY <1>1, <1>3 DEF LocalsStackPopScope, Stack

(* What a slot and a stack hold, as integers.                              *)
Addr(s, i) == s.vars[i].address

LEMMA SlotShape == ASSUME NEW slot \in Slot PROVE slot.id \in Int /\ slot.address \in Int
<1>1. FUNC_SCOPE \in Int /\ NORMAL_SCOPE \in Int /\ Id \subseteq Int
  BY IdAssumption DEF FUNC_SCOPE, NORMAL_SCOPE
<1>2. Id \union {0, FUNC_SCOPE, NORMAL_SCOPE} \subseteq Int
  BY <1>1
<1> QED
  BY <1>2 DEF Slot

LEMMA SlotsTyped ==
  ASSUME NEW s \in Stack
  PROVE  /\ s.size \in Nat /\ Capacity \in Nat \ {0} /\ s.size <= Capacity
         /\ \A i \in 0..Capacity-1 :
              s.vars[i] \in Slot /\ Addr(s, i) \in Int /\ s.vars[i].id \in Int
<1>1. /\ s.size \in 0..Capacity /\ Capacity \in Nat \ {0}
      /\ s.vars \in [0..Capacity-1 -> Slot]
  BY StackShape, CapacityAssumption
<1>2. \A i \in 0..Capacity-1 : s.vars[i] \in Slot
  BY <1>1
<1> QED
  BY <1>1, <1>2, SlotShape DEF Addr

(* Two stacks that hold the same up to slot k.                             *)
Agree(s, t, k) ==
  /\ s \in Stack /\ t \in Stack /\ k \in Nat /\ k <= s.size /\ k <= t.size
  /\ \A i \in 0..k-1 : t.vars[i] = s.vars[i]

(* A push writes the slot at the top and leaves those under it.            *)
LEMMA PushLeaves ==
  ASSUME NEW s \in Stack, s.size < Capacity, NEW slot \in Slot
  PROVE  /\ Grown(s, slot) \in Stack /\ Grown(s, slot).size = s.size + 1
         /\ Grown(s, slot).vars[s.size] = slot
         /\ \A i \in 0..s.size-1 : Grown(s, slot).vars[i] = s.vars[i]
         /\ Agree(s, Grown(s, slot), s.size)
<1>1. s.size \in Nat /\ Capacity \in Nat
  BY SlotsTyped
<1>2. \A i \in 0..s.size-1 : i \in 0..Capacity-1 /\ i # s.size
  BY <1>1
<1>3. /\ Grown(s, slot) \in Stack /\ Grown(s, slot).size = s.size + 1
      /\ Grown(s, slot).vars[s.size] = slot
      /\ \A i \in 0..s.size-1 : Grown(s, slot).vars[i] = s.vars[i]
  BY <1>2, PushShape
<1> QED
  BY <1>1, <1>3 DEF Agree

(* Opening a scope pushes its separator. *)
LEMMA ScopeShape ==
  ASSUME NEW s \in Stack, s.size < Capacity, NEW scope \in {NORMAL_SCOPE, FUNC_SCOPE}
  PROVE  \E slot \in Slot : /\ slot.id = scope /\ slot.id < 0
                            /\ LocalsStackInitScope(s, scope) = Grown(s, slot)
                            /\ LocalsStackInitScope(s, scope).size = s.size + 1
                            /\ LocalsStackInitScope(s, scope).vars[s.size].id = scope
<1> DEFINE address == IF scope = NORMAL_SCOPE /\ s.size > 0
                      THEN LocalsStackTop(s).address
                      ELSE s.vars[s.size].address
           slot == [id |-> scope, address |-> address]
<1>1. s.size \in Nat /\ s.size <= Capacity /\ Capacity \in Nat
  BY SlotsTyped
<1>2. address \in Int
  <2>1. s.size > 0 => s.size - 1 \in 0..Capacity-1
    BY <1>1
  <2> QED
    BY <1>1, <2>1, SlotsTyped DEF LocalsStackTop, Addr
<1>3. slot \in Slot /\ slot.id = scope /\ slot.id < 0
  BY <1>2 DEF Slot, NORMAL_SCOPE, FUNC_SCOPE
<1>4. LocalsStackInitScope(s, scope) = Grown(s, slot)
  BY DEF LocalsStackInitScope
<1> HIDE DEF slot
<1> QED
  BY <1>3, <1>4, PushLeaves

(* The innermost separator is one, and a pop stops on it. *)
LEMMA InnermostShape ==
  ASSUME NEW s \in Stack, Separators(s) # {}
  PROVE  /\ Innermost(s) \in Separators(s) /\ Innermost(s) \in 0..s.size-1
         /\ \A i \in Separators(s) : i <= Innermost(s)
         /\ LocalsStackPopScope(s).size = Innermost(s)
<1>1. s.size \in Nat
  BY SlotsTyped
<1>2. Separators(s) \in SUBSET (0..s.size) /\ Separators(s) \subseteq 0..s.size-1
  BY <1>1 DEF Separators, Live
<1>3. \E i \in Separators(s) : \A j \in Separators(s) : j <= i
  <2> DEFINE S == Separators(s)
  <2>1. S \in SUBSET (0..s.size) /\ S # {}
    BY <1>2
  <2> HIDE DEF S
  <2>2. \E i \in S : \A j \in S : j <= i
    BY <1>1, <2>1, LastExists
  <2> QED
    BY <2>2 DEF S
<1>4. LocalsStackPopScope(s).size = Innermost(s)
  <2>1. s = [size |-> s.size, vars |-> s.vars]
    BY StackShape
  <2> QED
    BY <2>1 DEF LocalsStackPopScope
<1> QED
  BY <1>2, <1>3, <1>4 DEF Innermost

LEMMA NamesShape ==
  ASSUME NEW params \in Seq(Id)
  PROVE  /\ params \in Seq(Int) /\ Len(params) \in Nat
         /\ \A i \in 1..Len(params) : params[i] \in Id
<1>1. PICK k \in Nat : k = Len(params)
  OBVIOUS
<1>2. params \in [1..k -> Id]
  BY <1>1
<1>3. Id \subseteq Int
  BY IdAssumption
<1>4. params \in [1..k -> Int]
  BY <1>2, <1>3
<1> QED
  BY <1>1, <1>2, <1>4

(* The parameters of a function that has just been opened. *)
LEMMA ParamsShape ==
  ASSUME NEW s \in Stack, NEW params \in Seq(Id), s.size + Len(params) <= Capacity,
         NEW t, t = PushParams(s, params)
  PROVE  /\ t \in Stack /\ t.size = s.size + Len(params) /\ Len(params) \in Nat
         /\ Agree(s, t, s.size)
         /\ \A i \in s.size..t.size-1 :
              /\ i - s.size + 1 \in 1..Len(params)
              /\ t.vars[i] = FuncArg(params[i - s.size + 1], i - s.size)
              /\ t.vars[i].id = params[i - s.size + 1] /\ t.vars[i].id \in Id
              /\ Addr(t, i) = i - s.size + 2
<1>1. PICK n \in Nat, c \in Nat, k \in Nat :
        n = s.size /\ c = Capacity /\ k = Len(params) /\ n + k <= c
  BY SlotsTyped
<1>2. \A i \in n..n+k-1 : i - n + 1 \in 1..k /\ params[i - n + 1] \in Id /\ i \in 0..c-1
  BY <1>1
<1> DEFINE Written(i) == IF i \in n..n+k-1 THEN FuncArg(params[i - n + 1], i - n) ELSE s.vars[i]
<1>3. t = [size |-> n + k, vars |-> [i \in 0..c-1 |-> Written(i)]]
  BY <1>1 DEF PushParams
<1>4. /\ t.size = n + k
      /\ \A i \in n..n+k-1 : t.vars[i] = FuncArg(params[i - n + 1], i - n)
      /\ \A i \in 0..c-1 : i \notin n..n+k-1 => t.vars[i] = s.vars[i]
  <2>1. t.size = n + k /\ \A i \in 0..c-1 : t.vars[i] = Written(i)
    <3> HIDE DEF Written
    <3> QED
      BY <1>3
  <2> QED
    BY <1>2, <2>1
<1>5. \A i \in n..n+k-1 : /\ t.vars[i].id = params[i - n + 1] /\ t.vars[i].id \in Id
                          /\ t.vars[i] \in Slot /\ Addr(t, i) = i - n + 2
  <2> TAKE i \in n..n+k-1
  <2>1. PICK id \in Id, address \in Int : id = params[i - n + 1] /\ address = i - n + 2
    BY <1>2
  <2>2. t.vars[i] = [id |-> id, address |-> address]
    BY <1>4, <2>1 DEF FuncArg
  <2> QED
    BY <2>1, <2>2 DEF Slot, Addr
<1> HIDE DEF Written
<1>6. t.vars \in [0..c-1 -> Slot]
  <2>1. \A i \in 0..c-1 : t.vars[i] \in Slot
    BY <1>1, <1>4, <1>5, SlotsTyped
  <2> QED
    BY <1>3, <2>1
<1>7. t \in Stack
  BY <1>1, <1>3, <1>6 DEF Stack
<1>8. \A i \in 0..n-1 : i \in 0..c-1 /\ i \notin n..n+k-1
  BY <1>1
<1> QED
  BY <1>1, <1>2, <1>4, <1>5, <1>7, <1>8 DEF Agree

-----------------------------------------------------------------------------
(* What the operations do to the separators.                               *)
SameSeparators(s, t) ==
  Separators(t) = Separators(s) /\ \A i \in Separators(s) : t.vars[i].id = s.vars[i].id

LEMMA SeparatorsShape ==
  ASSUME NEW s \in Stack
  PROVE  /\ Separators(s) \subseteq 0..s.size-1 /\ s.size \in Nat
         /\ \A i : i \in Separators(s) <=> i \in 0..s.size-1 /\ s.vars[i].id < 0
BY SlotsTyped DEF Separators, Live, IsSeparator

(* A declaration adds none, nor does a list of parameters.                 *)
LEMMA VariableAddsNone ==
  ASSUME NEW s \in Stack, s.size < Capacity, NEW slot \in Slot, slot.id \in Id
  PROVE  Grown(s, slot) \in Stack /\ SameSeparators(s, Grown(s, slot))
<1> DEFINE t == Grown(s, slot)
<1>1. s.size \in Nat /\ slot.id \in Nat
  BY SlotsTyped, IdAssumption
<1>2. /\ t \in Stack /\ t.size = s.size + 1 /\ t.vars[s.size] = slot
      /\ \A i \in 0..s.size-1 : t.vars[i] = s.vars[i]
  BY PushLeaves
<1> HIDE DEF t
<1>3. \A i : i \in 0..t.size-1 <=> i \in 0..s.size-1 \/ i = s.size
  BY <1>1, <1>2
<1>4. \A i : i \in Separators(t) <=> i \in Separators(s)
  BY <1>1, <1>2, <1>3, SeparatorsShape
<1>5. Separators(t) = Separators(s)
  BY <1>4
<1> QED
  BY <1>2, <1>5, SeparatorsShape DEF SameSeparators, t

LEMMA PushAddsNone ==
  ASSUME NEW s \in Stack, s.size < Capacity, NEW id \in Id
  PROVE  /\ LocalsStackPush(s, id) \in Stack
         /\ SameSeparators(s, LocalsStackPush(s, id))
<1> DEFINE slot == [id |-> id, address |-> NextAddress(s)]
<1>1. NextAddress(s) \in Int
  <2>1. s.size > 0 => LocalsStackTop(s).address \in Int
    <3>1. s.size > 0 => s.size - 1 \in 0..Capacity-1
      BY SlotsTyped
    <3> QED
      BY <3>1, SlotsTyped DEF LocalsStackTop, Addr
  <2> QED
    BY <2>1 DEF NextAddress
<1>2. slot \in Slot /\ slot.id = id
  BY <1>1 DEF Slot
<1>3. LocalsStackPush(s, id) = Grown(s, slot)
  BY DEF LocalsStackPush
<1> HIDE DEF slot
<1> QED
  BY <1>2, <1>3, VariableAddsNone

LEMMA ParamsAddNone ==
  ASSUME NEW s \in Stack, NEW params \in Seq(Id), s.size + Len(params) <= Capacity
  PROVE  /\ PushParams(s, params) \in Stack
         /\ SameSeparators(s, PushParams(s, params))
<1> DEFINE t == PushParams(s, params)
<1>1. /\ t \in Stack /\ t.size = s.size + Len(params) /\ Len(params) \in Nat
      /\ Agree(s, t, s.size)
      /\ \A i \in s.size..t.size-1 : t.vars[i].id \in Id
  BY ParamsShape
<1> HIDE DEF t
<1>2. s.size \in Nat /\ t.size \in Nat /\ s.size <= t.size
  BY <1>1, SlotsTyped
<1>3. \A i \in 0..s.size-1 : t.vars[i] = s.vars[i]
  BY <1>1 DEF Agree
<1>4. \A i \in s.size..t.size-1 : t.vars[i].id \in Nat
  BY <1>1, IdAssumption
<1>5. \A i : i \in 0..t.size-1 <=> i \in 0..s.size-1 \/ i \in s.size..t.size-1
  BY <1>2
<1>6. \A i : i \in Separators(t) <=> i \in Separators(s)
  BY <1>1, <1>3, <1>4, <1>5, SeparatorsShape
<1>7. Separators(t) = Separators(s)
  BY <1>6
<1> QED
  BY <1>1, <1>3, <1>7, SeparatorsShape DEF SameSeparators, t

(* Opening a scope puts one on top of the others. *)
AddsSeparator(s, t, m, scope) ==
  /\ Separators(t) = Separators(s) \union {m} /\ m \in Nat
  /\ \A i \in Separators(s) : i < m /\ t.vars[i].id = s.vars[i].id
  /\ t.vars[m].id = scope

LEMMA OpenAddsOne ==
  ASSUME NEW s \in Stack, s.size < Capacity, NEW scope \in {NORMAL_SCOPE, FUNC_SCOPE}
  PROVE  /\ LocalsStackInitScope(s, scope) \in Stack
         /\ LocalsStackInitScope(s, scope).size = s.size + 1
         /\ AddsSeparator(s, LocalsStackInitScope(s, scope), s.size, scope)
<1> DEFINE t == LocalsStackInitScope(s, scope)
<1>1. PICK slot \in Slot : slot.id = scope /\ slot.id < 0 /\ t = Grown(s, slot)
  BY ScopeShape
<1> HIDE DEF t
<1>2. /\ t \in Stack /\ t.size = s.size + 1 /\ t.vars[s.size].id = scope
      /\ \A i \in 0..s.size-1 : t.vars[i] = s.vars[i]
  BY <1>1, PushLeaves
<1>3. \A i : i \in 0..t.size-1 <=> i \in 0..s.size-1 \/ i = s.size
  BY <1>2, SlotsTyped
<1>4. \A i : i \in Separators(t) <=> i \in Separators(s) \/ i = s.size
  BY <1>1, <1>2, <1>3, SeparatorsShape
<1>5. Separators(t) = Separators(s) \union {s.size}
  BY <1>4
<1> QED
  BY <1>2, <1>5, SeparatorsShape DEF AddsSeparator, t

(* Popping a scope takes the innermost away.                               *)
LEMMA PopTakesOne ==
  ASSUME NEW s \in Stack, Separators(s) # {}
  PROVE  /\ LocalsStackPopScope(s) \in Stack
         /\ LocalsStackPopScope(s).size < Capacity
         /\ AddsSeparator(LocalsStackPopScope(s), s, Innermost(s), s.vars[Innermost(s)].id)
<1> DEFINE t == LocalsStackPopScope(s)
           n == Innermost(s)
<1>1. /\ n \in Separators(s) /\ n \in 0..s.size-1 /\ t.size = n
      /\ \A i \in Separators(s) : i <= n
      /\ t \in Stack /\ t.vars = s.vars
  BY InnermostShape, PopShape
<1> HIDE DEF n, t
<1>2. s.size \in Nat /\ s.size <= Capacity /\ Capacity \in Nat
  BY SlotsTyped
<1>3. \A i : i \in 0..t.size-1 <=> i \in 0..s.size-1 /\ i < n
  BY <1>1, <1>2
<1>4. \A i : i \in Separators(t) <=> i \in Separators(s) /\ i < n
  BY <1>1, <1>3, SeparatorsShape
<1>5. Separators(s) \subseteq Int
  BY <1>2, SeparatorsShape
<1>6. \A i : i \in Separators(s) <=> i \in Separators(t) \/ i = n
  BY <1>1, <1>4, <1>5
<1>7. Separators(s) = Separators(t) \union {n}
  BY <1>6
<1> QED
  BY <1>1, <1>2, <1>4, <1>7 DEF AddsSeparator, t, n

-----------------------------------------------------------------------------
(* Scopes and the walks that open and close them.  Both back ends have a   *)
(* sequence of pending activations, innermost first; at some places, those *)
(* of IRConverter and those of SPUBackend, one has a scope left to close.  *)
Closing == {"else", "endif", "loop", "endloop", "enddecl", "pop_scope", "end_function"}
Scope(a) == IF a.at \in {"enddecl", "end_function"} THEN FUNC_SCOPE ELSE NORMAL_SCOPE

(* The activations are counted from the outermost one, as the slots are.   *)
Pend(w, d) == w[Len(w) + 1 - d]
Closers(w) == {d \in 1..Len(w) : Pend(w, d).at \in Closing}

Brackets(w, s, st) ==
  /\ st \in [Closers(w) -> Separators(s)]
  /\ \A d, e \in Closers(w) : d < e => st[d] < st[e]
  /\ \A i \in Separators(s) : \E d \in Closers(w) : st[d] = i
  /\ \A d \in Closers(w) : s.vars[st[d]].id = Scope(Pend(w, d))

Matches(w, s) == \E st : Brackets(w, s, st)

-----------------------------------------------------------------------------
(* Sequences: what replacing the innermost activation does.                *)
Turns(A, w, acts, v) ==
  w \in Seq(A) /\ w # <<>> /\ acts \in Seq(A) /\ v = acts \o Tail(w)

Swaps(A, w, acts, v) ==
  /\ v \in Seq(A) /\ Len(w) \in Nat \ {0} /\ Len(acts) \in Nat
  /\ Len(v) = Len(w) - 1 + Len(acts)
  /\ \A d \in 1..Len(w)-1 : Pend(v, d) = Pend(w, d)
  /\ \A j \in 1..Len(acts) : v[j] = acts[j]
  /\ \A j \in Len(acts)+1..Len(v) : v[j] = w[j - Len(acts) + 1]
  /\ Pend(w, Len(w)) = Head(w) /\ Head(w) = w[1] /\ Head(w) \in A

LEMMA Replaced ==
  ASSUME NEW A, NEW w \in Seq(A), w # <<>>, NEW acts \in Seq(A),
         NEW v, v = acts \o Tail(w)
  PROVE  Swaps(A, w, acts, v)
<1>1. PICK n \in Nat, m \in Nat : n = Len(w) /\ m = Len(acts) /\ n >= 1
  OBVIOUS
<1>2. Tail(w) \in Seq(A) /\ Len(Tail(w)) = n - 1 /\ \A j \in 1..n-1 : Tail(w)[j] = w[j+1]
  BY <1>1
<1>3. v \in Seq(A) /\ Len(v) = n - 1 + m
  BY <1>1, <1>2
<1>4. /\ \A j \in 1..m : v[j] = acts[j]
      /\ \A j \in m+1..n-1+m : v[j] = Tail(w)[j - m]
  BY <1>1, <1>2
<1>5. \A j \in m+1..n-1+m : v[j] = w[j - m + 1]
  <2> TAKE j \in m+1..n-1+m
  <2>1. j - m \in 1..n-1
    BY <1>1
  <2> QED
    BY <1>2, <1>4, <2>1
<1>6. \A d \in 1..n-1 : Pend(v, d) = Pend(w, d)
  <2> TAKE d \in 1..n-1
  <2> DEFINE j == n - 1 + m + 1 - d
  <2>1. j \in m+1..n-1+m
    BY <1>1
  <2>2. v[j] = w[n + 1 - d]
    <3>1. j - m + 1 = n + 1 - d
      BY <1>1, <2>1
    <3> HIDE DEF j
    <3> QED
      BY <1>5, <2>1, <3>1
  <2>3. Pend(v, d) = v[j] /\ Pend(w, d) = w[n + 1 - d]
    BY <1>1, <1>3, <2>1 DEF Pend
  <2> QED
    BY <2>2, <2>3
<1>7. Pend(w, Len(w)) = w[1] /\ Head(w) = w[1] /\ w[1] \in A
  <2>1. n + 1 - n = 1 /\ 1 \in 1..n
    BY <1>1
  <2> QED
    BY <1>1, <2>1 DEF Pend
<1> QED
  BY <1>1, <1>3, <1>4, <1>5, <1>6, <1>7 DEF Swaps

-----------------------------------------------------------------------------
(* Closers.  Replacing the innermost activation, itself no closer, by      *)
(* others that are none leaves the closers alone.                          *)
SameClosers(w, v) ==
  Closers(v) = Closers(w) /\ \A d \in Closers(w) : Scope(Pend(v, d)) = Scope(Pend(w, d))

(* On top of the closers of w there is one more in v.                      *)
AddsCloser(w, v, k, scope) ==
  /\ Closers(v) = Closers(w) \union {k} /\ k \in Nat
  /\ \A d \in Closers(w) : d < k /\ Scope(Pend(v, d)) = Scope(Pend(w, d))
  /\ Scope(Pend(v, k)) = scope

LEMMA ClosersShape ==
  ASSUME NEW A, NEW w \in Seq(A)
  PROVE  /\ Closers(w) \subseteq 1..Len(w) /\ Len(w) \in Nat
         /\ \A d : d \in Closers(w) <=> d \in 1..Len(w) /\ Pend(w, d).at \in Closing
BY DEF Closers

(* The activations put in place of the innermost one, and those under it.  *)
Replaces(w, acts, v) ==
  /\ \A d : d \in Closers(v) <=>
              \/ d \in Closers(w) /\ d # Len(w)
              \/ /\ d \in Len(w)..Len(w)-1+Len(acts)
                 /\ acts[Len(w) + Len(acts) - d].at \in Closing
  /\ \A d \in 1..Len(w)-1 : Pend(v, d) = Pend(w, d)
  /\ \A d \in Len(w)..Len(w)-1+Len(acts) :
       /\ Len(w) + Len(acts) - d \in 1..Len(acts)
       /\ Pend(v, d) = acts[Len(w) + Len(acts) - d]
  /\ Closers(w) \subseteq 1..Len(w) /\ Len(w) \in Nat \ {0} /\ Len(acts) \in Nat
  /\ Len(w) \in Closers(w) <=> Head(w).at \in Closing
  /\ Pend(w, Len(w)) = Head(w)

LEMMA OnTop ==
  ASSUME NEW A, NEW w \in Seq(A), w # <<>>, NEW acts \in Seq(A),
         NEW v, v = acts \o Tail(w)
  PROVE  Replaces(w, acts, v)
<1>0. Swaps(A, w, acts, v)
  BY Replaced
<1>1. PICK n \in Nat \ {0}, m \in Nat : n = Len(w) /\ m = Len(acts)
  BY <1>0 DEF Swaps
<1>2. /\ v \in Seq(A) /\ Len(v) = n - 1 + m
      /\ \A d \in 1..n-1 : Pend(v, d) = Pend(w, d)
      /\ \A j \in 1..m : v[j] = acts[j]
      /\ Pend(w, n) = Head(w)
  BY <1>0, <1>1 DEF Swaps
<1>3. \A d \in n..n-1+m : n + m - d \in 1..m /\ Pend(v, d) = acts[n + m - d]
  <2> TAKE d \in n..n-1+m
  <2> DEFINE j == n + m - d
  <2>1. j \in 1..m /\ n - 1 + m + 1 - d = j
    BY <1>1
  <2> HIDE DEF j
  <2>2. Pend(v, d) = v[j]
    BY <1>2, <2>1 DEF Pend
  <2> USE DEF j
  <2> QED
    BY <1>2, <2>1, <2>2
<1>4. \A d : d \in 1..n-1+m <=> (d \in 1..n /\ d # n) \/ d \in n..n-1+m
  BY <1>1
<1>5. \A d : d \in 1..n /\ d # n => d \in 1..n-1
  BY <1>1
<1>6. /\ \A d : d \in Closers(v) <=> d \in 1..n-1+m /\ Pend(v, d).at \in Closing
      /\ \A d : d \in Closers(w) <=> d \in 1..n /\ Pend(w, d).at \in Closing
  BY <1>1, <1>2, ClosersShape
<1>7. \A d : d \in Closers(v) <=> \/ d \in Closers(w) /\ d # n
                                  \/ d \in n..n-1+m /\ acts[n + m - d].at \in Closing
  <2> TAKE d
  <2>1. d \in n..n-1+m => ~(d \in 1..n /\ d # n)
    BY <1>1
  <2> QED
    BY <1>2, <1>3, <1>4, <1>5, <1>6, <2>1
<1>8. n \in 1..n /\ Closers(w) \subseteq 1..n
  BY <1>1, ClosersShape
<1> QED
  BY <1>1, <1>2, <1>3, <1>6, <1>7, <1>8 DEF Replaces

LEMMA QuietStep ==
  ASSUME NEW A, NEW w, NEW acts, NEW v, Turns(A, w, acts, v), Head(w).at \notin Closing,
         \A j \in 1..Len(acts) : acts[j].at \notin Closing
  PROVE  SameClosers(w, v)
<1>1. Replaces(w, acts, v)
  BY OnTop DEF Turns
<1>2. Len(w) \notin Closers(w)
  BY <1>1 DEF Replaces
<1>3. \A d : d \in Closers(v) <=> d \in Closers(w)
  BY <1>1, <1>2 DEF Replaces
<1>4. Closers(v) = Closers(w)
  BY <1>3
<1>5. \A d \in Closers(w) : d \in 1..Len(w) /\ d # Len(w) /\ Len(w) \in Nat
  BY <1>1, <1>2 DEF Replaces
<1>6. \A d \in Closers(w) : d \in 1..Len(w)-1
  BY <1>5
<1> QED
  BY <1>1, <1>4, <1>6 DEF SameClosers, Replaces

(* A handler that opens a scope leaves a closer behind.                    *)
LEMMA OpeningStep ==
  ASSUME NEW A, NEW w \in Seq(A), w # <<>>, NEW acts \in Seq(A), NEW c, Len(acts) \in Nat \ {0},
         NEW v, v = acts \o Tail(w),
         Head(w).at \notin Closing, c.at \in Closing, acts[Len(acts)] = c,
         \A j \in 1..Len(acts)-1 : acts[j].at \notin Closing
  PROVE  AddsCloser(w, v, Len(w), Scope(c))
<1>r. Replaces(w, acts, v)
  BY OnTop
<1>1. PICK n \in Nat \ {0}, m \in Nat \ {0} : n = Len(w) /\ m = Len(acts)
  BY <1>r DEF Replaces
<1>2. /\ \A d : d \in Closers(v) <=> \/ d \in Closers(w) /\ d # n
                                     \/ d \in n..n-1+m /\ acts[n + m - d].at \in Closing
      /\ \A d \in 1..n-1 : Pend(v, d) = Pend(w, d)
      /\ \A d \in n..n-1+m : n + m - d \in 1..m /\ Pend(v, d) = acts[n + m - d]
      /\ Closers(w) \subseteq 1..n /\ n \notin Closers(w)
  BY <1>1, <1>r DEF Replaces
<1>3. ASSUME NEW d \in n..n-1+m PROVE acts[n + m - d].at \in Closing <=> d = n
  <2>1. CASE d = n
    <3>1. n + m - d = m
      BY <1>1, <2>1
    <3> QED
      BY <1>1, <2>1, <3>1
  <2>2. CASE d # n
    <3>1. n + m - d \in 1..m-1
      BY <1>1, <2>2
    <3> QED
      BY <1>1, <2>2, <3>1
  <2> QED
    BY <2>1, <2>2
<1>4. n \in n..n-1+m /\ n + m - n = m
  BY <1>1
<1>5. \A d : d \in Closers(v) <=> d \in Closers(w) \/ d = n
  BY <1>2, <1>3, <1>4
<1>6. Closers(v) = Closers(w) \union {n}
  BY <1>5
<1>7. \A d \in Closers(w) : d \in 1..n-1 /\ d < n
  BY <1>1, <1>2
<1>8. Pend(v, n) = c
  BY <1>1, <1>2, <1>4
<1> QED
  BY <1>1, <1>2, <1>6, <1>7, <1>8 DEF AddsCloser

(* A closer that goes takes its scope with it, ...                         *)
LEMMA ClosingStep ==
  ASSUME NEW A, NEW w \in Seq(A), w # <<>>, NEW v, v = <<>> \o Tail(w), Head(w).at \in Closing
  PROVE  AddsCloser(v, w, Len(w), Scope(Head(w)))
<1> DEFINE acts == <<>>
<1>1. acts \in Seq(A) /\ Len(acts) = 0 /\ v = acts \o Tail(w)
  OBVIOUS
<1> HIDE DEF acts
<1>r. Replaces(w, acts, v)
  BY <1>1, OnTop
<1>2. PICK n \in Nat \ {0} : n = Len(w)
  BY <1>r DEF Replaces
<1>3. \A d : d \notin n..n-1
  BY <1>2
<1>4. n - 1 + 0 = n - 1
  BY <1>2
<1>5. /\ \A d : d \in Closers(v) <=> d \in Closers(w) /\ d # n
      /\ \A d \in 1..n-1 : Pend(v, d) = Pend(w, d)
      /\ Closers(w) \subseteq 1..n /\ n \in Closers(w) /\ Pend(w, n) = Head(w)
  BY <1>1, <1>2, <1>3, <1>4, <1>r DEF Replaces
<1>6. Closers(w) = Closers(v) \union {n}
  BY <1>5
<1>7. \A d \in Closers(v) : d \in 1..n-1 /\ d < n
  BY <1>2, <1>5
<1> QED
  BY <1>2, <1>5, <1>6, <1>7 DEF AddsCloser

(* ... and one that leaves another for the same scope keeps it.            *)
LEMMA HandingStep ==
  ASSUME NEW A, NEW w \in Seq(A), w # <<>>, NEW x \in A, NEW c \in A,
         NEW v, v = <<x, c>> \o Tail(w),
         Head(w).at \in Closing, x.at \notin Closing, c.at \in Closing
  PROVE  AddsCloser(Tail(w), v, Len(w), Scope(c))
<1> DEFINE acts == <<x, c>>
           u == Tail(w)
<1>1. acts \in Seq(A) /\ Len(acts) = 2 /\ acts[1] = x /\ acts[2] = c /\ v = acts \o Tail(w)
  OBVIOUS
<1>2. u = <<>> \o Tail(w) /\ u \in Seq(A)
  OBVIOUS
<1> HIDE DEF acts, u
<1>r. Replaces(w, acts, v)
  BY <1>1, OnTop
<1>3. PICK n \in Nat \ {0} : n = Len(w)
  BY <1>r DEF Replaces
<1>4. AddsCloser(u, w, n, Scope(Head(w)))
  BY <1>2, <1>3, ClosingStep
<1>5. \A d : d \in n..n+1 <=> d = n \/ d = n + 1
  BY <1>3
<1>6. n - 1 + 2 = n + 1 /\ n + 2 - n = 2 /\ n + 2 - (n + 1) = 1
  BY <1>3
<1>7. /\ \A d : d \in Closers(v) <=> \/ d \in Closers(w) /\ d # n
                                     \/ d \in n..n+1 /\ acts[n + 2 - d].at \in Closing
      /\ \A d \in 1..n-1 : Pend(v, d) = Pend(w, d)
      /\ \A d \in n..n+1 : Pend(v, d) = acts[n + 2 - d]
  BY <1>1, <1>3, <1>6, <1>r DEF Replaces
<1>8. /\ Closers(w) = Closers(u) \union {n}
      /\ \A d \in Closers(u) : d < n /\ Scope(Pend(w, d)) = Scope(Pend(u, d))
      /\ Closers(w) \subseteq 1..n
  BY <1>3, <1>4, ClosersShape DEF AddsCloser
<1>9. \A d : d \in Closers(v) <=> d \in Closers(u) \/ d = n
  <2> TAKE d
  <2>1. d \in Closers(u) => d # n
    BY <1>3, <1>8
  <2>2. d \in n..n+1 /\ acts[n + 2 - d].at \in Closing <=> d = n
    BY <1>1, <1>5, <1>6
  <2> QED
    BY <1>7, <1>8, <2>1, <2>2
<1>10. Closers(v) = Closers(u) \union {n}
  BY <1>9
<1>11. \A d \in Closers(u) : d \in 1..n-1
  BY <1>3, <1>8
<1>12. Pend(v, n) = c
  BY <1>1, <1>5, <1>6, <1>7
<1> QED
  BY <1>3, <1>7, <1>8, <1>10, <1>11, <1>12 DEF AddsCloser, u

-----------------------------------------------------------------------------
(* Closers and separators together. *)
LEMMA KeptMatch ==
  ASSUME NEW w, NEW v, NEW s, NEW t, Matches(w, s), SameClosers(w, v), SameSeparators(s, t)
  PROVE  Matches(v, t)
<1>1. PICK st : Brackets(w, s, st)
  BY DEF Matches
<1>2. Closers(v) = Closers(w) /\ Separators(t) = Separators(s)
  BY DEF SameClosers, SameSeparators
<1>3. Brackets(v, t, st)
  BY <1>1, <1>2 DEF Brackets, SameClosers, SameSeparators
<1> QED
  BY <1>3 DEF Matches

LEMMA OpenedMatch ==
  ASSUME NEW w, NEW v, NEW s, NEW t, NEW k, NEW m, NEW scope,
         Matches(w, s), AddsCloser(w, v, k, scope), AddsSeparator(s, t, m, scope)
  PROVE  Matches(v, t)
<1>1. PICK st : Brackets(w, s, st)
  BY DEF Matches
<1>2. /\ Closers(v) = Closers(w) \union {k} /\ k \in Nat /\ Scope(Pend(v, k)) = scope
      /\ \A d \in Closers(w) : d < k /\ d # k /\ Scope(Pend(v, d)) = Scope(Pend(w, d))
  <2>1. \A d \in Closers(w) : d \in Nat
    BY DEF Closers
  <2> QED
    BY <2>1 DEF AddsCloser
<1>3. /\ Separators(t) = Separators(s) \union {m} /\ m \in Nat /\ t.vars[m].id = scope
      /\ \A i \in Separators(s) : i < m /\ t.vars[i].id = s.vars[i].id
  BY DEF AddsSeparator
<1>4. /\ st \in [Closers(w) -> Separators(s)]
      /\ \A d, e \in Closers(w) : d < e => st[d] < st[e]
      /\ \A i \in Separators(s) : \E d \in Closers(w) : st[d] = i
      /\ \A d \in Closers(w) : s.vars[st[d]].id = Scope(Pend(w, d))
  BY <1>1 DEF Brackets
<1> DEFINE su == [d \in Closers(v) |-> IF d = k THEN m ELSE st[d]]
<1>5. su \in [Closers(v) -> Separators(t)]
  BY <1>2, <1>3, <1>4
<1>6. su[k] = m /\ \A d \in Closers(w) : su[d] = st[d] /\ st[d] \in Separators(s)
  BY <1>2, <1>4
<1> HIDE DEF su
<1>7. \A d, e \in Closers(v) : d < e => su[d] < su[e]
  <2> TAKE d \in Closers(v), e \in Closers(v)
  <2> HAVE d < e
  <2>0. \A x \in Closers(w) : x \in Nat
    BY DEF Closers
  <2>1. d \in Closers(w)
    BY <1>2, <2>0
  <2>2. CASE e = k
    BY <1>3, <1>6, <2>1, <2>2
  <2>3. CASE e # k
    BY <1>2, <1>4, <1>6, <2>1, <2>3
  <2> QED
    BY <2>2, <2>3
<1>8. \A i \in Separators(t) : \E d \in Closers(v) : su[d] = i
  BY <1>2, <1>3, <1>4, <1>6
<1>9. \A d \in Closers(v) : t.vars[su[d]].id = Scope(Pend(v, d))
  BY <1>2, <1>3, <1>4, <1>6
<1> QED
  BY <1>5, <1>7, <1>8, <1>9 DEF Matches, Brackets

(* The innermost closer closes the innermost scope, of the right kind.     *)
LEMMA ClosedMatch ==
  ASSUME NEW w, NEW v, NEW t \in Stack, NEW k, NEW scope,
         Matches(v, t), AddsCloser(w, v, k, scope)
  PROVE  /\ Separators(t) # {} /\ t.vars[Innermost(t)].id = scope
         /\ Matches(w, LocalsStackPopScope(t))
<1> DEFINE p == LocalsStackPopScope(t)
<1>1. PICK st : Brackets(v, t, st)
  BY DEF Matches
<1>2. /\ Closers(v) = Closers(w) \union {k} /\ k \in Nat /\ Scope(Pend(v, k)) = scope
      /\ \A d \in Closers(w) : d < k /\ d # k /\ Scope(Pend(v, d)) = Scope(Pend(w, d))
  <2>1. \A d \in Closers(w) : d \in Nat
    BY DEF Closers
  <2> QED
    BY <2>1 DEF AddsCloser
<1>3. /\ st \in [Closers(v) -> Separators(t)]
      /\ \A d, e \in Closers(v) : d < e => st[d] < st[e]
      /\ \A i \in Separators(t) : \E d \in Closers(v) : st[d] = i
      /\ \A d \in Closers(v) : t.vars[st[d]].id = Scope(Pend(v, d))
  BY <1>1 DEF Brackets
<1>4. PICK n \in Separators(t) : n = st[k]
  BY <1>2, <1>3
<1>5. \A i \in Separators(t) : i \in Nat
  BY SeparatorsShape
<1>6. \A d \in Closers(w) : st[d] \in Separators(t) /\ st[d] < n
  BY <1>2, <1>3, <1>4
<1>7. Innermost(t) = n
  <2>1. Innermost(t) \in Separators(t) /\ n <= Innermost(t)
    BY <1>4, InnermostShape
  <2>2. PICK d \in Closers(v) : st[d] = Innermost(t)
    BY <1>3, <2>1
  <2>3. CASE d = k
    BY <1>4, <2>2, <2>3
  <2>4. CASE d \in Closers(w)
    BY <1>5, <1>6, <2>1, <2>2, <2>4
  <2> QED
    BY <1>2, <2>2, <2>3, <2>4
<1>8. t.vars[n].id = scope
  BY <1>2, <1>3, <1>4
<1>9. /\ Separators(t) = Separators(p) \union {n}
      /\ \A i \in Separators(p) : i < n /\ t.vars[i].id = p.vars[i].id
  BY <1>4, <1>7, PopTakesOne DEF AddsSeparator
<1> HIDE DEF p
<1> DEFINE su == [d \in Closers(w) |-> st[d]]
<1>10. /\ su \in [Closers(w) -> Separators(p)]
       /\ \A d \in Closers(w) : su[d] = st[d]
  <2>1. \A d \in Closers(w) : st[d] \in Separators(p)
    BY <1>5, <1>6, <1>9
  <2> QED
    BY <2>1
<1> HIDE DEF su
<1>11. \A d, e \in Closers(w) : d < e => su[d] < su[e]
  BY <1>2, <1>3, <1>10
<1>12. \A i \in Separators(p) : \E d \in Closers(w) : su[d] = i
  <2> TAKE i \in Separators(p)
  <2>1. i \in Separators(t) /\ i # n
    BY <1>5, <1>9
  <2>2. PICK d \in Closers(v) : st[d] = i
    BY <1>3, <2>1
  <2>3. d \in Closers(w)
    BY <1>2, <1>4, <2>1, <2>2
  <2> QED
    BY <1>10, <2>2, <2>3
<1>13. \A d \in Closers(w) : p.vars[su[d]].id = Scope(Pend(w, d))
  <2> TAKE d \in Closers(w)
  <2>1. su[d] \in Separators(p) /\ su[d] = st[d] /\ d \in Closers(v)
    BY <1>2, <1>10
  <2> QED
    BY <1>2, <1>3, <1>9, <2>1
<1>14. Matches(w, p)
  BY <1>10, <1>11, <1>12, <1>13 DEF Matches, Brackets
<1> QED
  BY <1>4, <1>7, <1>8, <1>14 DEF p
=============================================================================
