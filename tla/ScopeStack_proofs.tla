-------------------------- MODULE ScopeStack_proofs --------------------------
(***************************************************************************)
(* Proofs about ScopeStack, for every set of names, every capacity and     *)
(* every set of parameter lists: first the addresses the stack gives to    *)
(* variables, then that it implements lexical scoping and that its search  *)
(* finds what a name lexically means.                                      *)
(***************************************************************************)
EXTENDS ScopeStack, LocalsStack_proofs, FiniteSetTheorems, SequenceTheorems, TLAPS

(* The inductive invariant of the addresses.  Going up a frame, addresses  *)
(* never rise once they are negative, and each variable goes strictly      *)
(* below (a separator copies the address under it, stale or not);          *)
(* parameters, the only variables with other addresses, go up.             *)
Descending(s) ==
  \A i, j \in Live(s) :
    i < j /\ SameFrame(s, i, j) /\ Addr(s, i) < 0 =>
      /\ Addr(s, j) <= Addr(s, i)
      /\ ~IsSeparator(s.vars[j]) => Addr(s, j) < Addr(s, i)

ParametersAscend(s) ==
  \A i, j \in Variables(s) :
    i < j /\ SameFrame(s, i, j) /\ Addr(s, i) >= 0 /\ Addr(s, j) >= 0 =>
      Addr(s, i) < Addr(s, j)

(* Where nothing stale is copied, a negative address counts the locals of  *)
(* the frame up to its slot: the separators of blocks pass the count on.   *)
(* The separator of the first block of a parameterless function copies a   *)
(* stale address.                                                          *)
Stale(s, i) ==
  \E j \in Live(s) : /\ j + 1 <= i /\ SameFrame(s, j + 1, i)
                     /\ s.vars[j].id = FUNC_SCOPE /\ s.vars[j+1].id = NORMAL_SCOPE

WellLaidOut(s) ==
  \A i \in Live(s) : s.vars[i].id # FUNC_SCOPE /\ ~Stale(s, i) => InPlace(s, i)

(* Slot 0 never holds a stale address: a variable there is never popped.   *)
FreshBottom(s) == s.size = 0 \/ IsSeparator(s.vars[0]) => Addr(s, 0) = 0

Sound(s) ==
  s \in Stack /\ Descending(s) /\ ParametersAscend(s) /\ WellLaidOut(s) /\ FreshBottom(s)

-----------------------------------------------------------------------------
(* What is said of a slot depends on no slot above it.                     *)
LEMMA Locality ==
  ASSUME NEW s, NEW t, NEW k, Agree(s, t, k), NEW i \in 0..k-1
  PROVE  /\ i \in Live(s) /\ i \in Live(t) /\ Addr(t, i) = Addr(s, i)
         /\ i \in Variables(t) <=> i \in Variables(s)
         /\ \A j \in 0..i : SameFrame(t, j, i) <=> SameFrame(s, j, i)
         /\ LocalsUpTo(t, i) = LocalsUpTo(s, i)
         /\ Stale(t, i) <=> Stale(s, i)
         /\ InPlace(t, i) <=> InPlace(s, i)
<1>1. /\ s.size \in Nat /\ t.size \in Nat /\ k \in Nat /\ k <= s.size /\ k <= t.size
      /\ \A j \in 0..k-1 : t.vars[j] = s.vars[j]
  BY SlotsTyped DEF Agree
<1>2. \A j \in 0..k-1 : j \in Live(s) /\ j \in Live(t) /\ Addr(t, j) = Addr(s, j)
                        /\ (j \in Variables(t) <=> j \in Variables(s))
  BY <1>1 DEF Live, Addr, Variables
<1>3. \A j \in 0..i+1 : SameFrame(t, j, i) <=> SameFrame(s, j, i)
  BY <1>1 DEF SameFrame
<1>4. \A j : j \in Variables(s) \union Variables(t) \union Live(s) \union Live(t) =>
               j \in Int /\ j >= 0
  BY <1>1 DEF Variables, Live
<1>5. LocalsUpTo(t, i) = LocalsUpTo(s, i)
  <2>1. \A j : j \in LocalsUpTo(t, i) <=> j \in LocalsUpTo(s, i)
    <3> TAKE j
    <3>1. j \in LocalsUpTo(t, i) \/ j \in LocalsUpTo(s, i) => j \in 0..i /\ j \in 0..k-1
      BY <1>1, <1>4 DEF LocalsUpTo
    <3> QED
      BY <1>2, <1>3, <3>1 DEF LocalsUpTo, Addr
  <2> QED
    BY <2>1
<1>6. Stale(t, i) <=> Stale(s, i)
  <2>1. \A j : j \in Live(s) \/ j \in Live(t) =>
          (j + 1 <= i => j \in 0..k-1 /\ j + 1 \in 0..k-1 /\ j + 1 \in 0..i+1)
    BY <1>1, <1>4
  <2>2. \A j \in 0..k-1 : j + 1 <= i =>
          /\ t.vars[j] = s.vars[j] /\ t.vars[j + 1] = s.vars[j + 1]
          /\ j \in Live(s) /\ j \in Live(t)
          /\ SameFrame(t, j + 1, i) <=> SameFrame(s, j + 1, i)
    BY <1>1, <1>2, <1>3
  <2> QED
    BY <2>1, <2>2 DEF Stale
<1> QED
  BY <1>2, <1>3, <1>5, <1>6 DEF InPlace, Addr

-----------------------------------------------------------------------------
(* Counting.                                                               *)
LEMMA LocalsFinite ==
  ASSUME NEW s \in Stack, NEW i \in Int
  PROVE  IsFiniteSet(LocalsUpTo(s, i)) /\ i \notin LocalsUpTo(s, i - 1)
<1>1. s.size \in Nat
  BY SlotsTyped
<1>2. IsFiniteSet(0..s.size-1)
  BY <1>1, FS_Interval
<1>3. LocalsUpTo(s, i) \subseteq 0..s.size-1
  BY DEF LocalsUpTo, Variables, Live
<1>4. ~(i <= i - 1)
  OBVIOUS
<1> QED
  BY <1>2, <1>3, <1>4, FS_Subset DEF LocalsUpTo

(* The locals up to a slot pushed on a frame: those below, and the slot if *)
(* it is one.                                                              *)
LEMMA TopLocals ==
  ASSUME NEW s \in Stack, s.size < Capacity, NEW slot \in Slot, slot.id # FUNC_SCOPE,
         NEW t, t = Grown(s, slot)
  PROVE  LocalsUpTo(t, s.size)
           = LocalsUpTo(s, s.size - 1)
               \union (IF ~IsSeparator(slot) /\ slot.address < 0 THEN {s.size} ELSE {})
<1>1. PICK n \in Nat : n = s.size
  BY SlotsTyped
<1>2. /\ t \in Stack /\ t.size = n + 1 /\ t.vars[n] = slot
      /\ \A i \in 0..n-1 : t.vars[i] = s.vars[i]
  BY <1>1, PushLeaves
<1>3. \A j \in 0..n-1 : SameFrame(t, j, n) <=> SameFrame(s, j, n - 1)
  <2> TAKE j \in 0..n-1
  <2>1. \A k \in j..n : k \in j..n-1 \/ k = n
    BY <1>1
  <2>2. \A k \in j..n-1 : k \in 0..n-1 /\ k \in j..n
    BY <1>1
  <2> QED
    BY <1>2, <2>1, <2>2 DEF SameFrame
<1>4. SameFrame(t, n, n)
  BY <1>1, <1>2 DEF SameFrame
<1>5. Live(t) = 0..n /\ Live(s) = 0..n-1 /\ \A i \in 0..n : i \in 0..n-1 \/ i = n
  BY <1>1, <1>2 DEF Live
<1>6. \A j : j \in LocalsUpTo(t, n) <=>
               \/ j \in LocalsUpTo(s, n - 1)
               \/ j = n /\ ~IsSeparator(slot) /\ slot.address < 0
  <2> TAKE j
  <2>1. CASE j \in 0..n-1
    BY <1>1, <1>2, <1>3, <1>5, <2>1 DEF LocalsUpTo, Variables
  <2>2. CASE j = n
    BY <1>1, <1>2, <1>4, <1>5, <2>2 DEF LocalsUpTo, Variables
  <2>3. CASE j \notin 0..n
    BY <1>1, <1>5, <2>3 DEF LocalsUpTo, Variables
  <2> QED
    BY <1>5, <2>1, <2>2, <2>3
<1> QED
  BY <1>1, <1>6

-----------------------------------------------------------------------------
(* A push keeps the invariant if the new slot goes below every negative    *)
(* address of its frame and above every parameter it could follow, and     *)
(* counts the locals if it is among those that do.                         *)
LEMMA PushKeeps ==
  ASSUME NEW s, Sound(s), s.size < Capacity, NEW slot \in Slot, NEW t, t = Grown(s, slot),
         \A i \in Live(s) :
           slot.id # FUNC_SCOPE /\ SameFrame(s, i, s.size - 1) /\ Addr(s, i) < 0 =>
             slot.address <= Addr(s, i) /\ (~IsSeparator(slot) => slot.address < Addr(s, i)),
         \A i \in Variables(s) :
           ~IsSeparator(slot) /\ SameFrame(s, i, s.size - 1) /\ slot.address >= 0 =>
             Addr(s, i) < slot.address,
         slot.id # FUNC_SCOPE /\ ~Stale(t, s.size) => InPlace(t, s.size),
         s.size = 0 /\ IsSeparator(slot) => slot.address = 0
  PROVE  Sound(t)
<1>1. PICK n \in Nat : n = s.size
  BY SlotsTyped DEF Sound
<1>2. /\ t \in Stack /\ t.size = n + 1 /\ t.vars[n] = slot
      /\ \A i \in 0..n-1 : t.vars[i] = s.vars[i]
      /\ Agree(s, t, n)
  BY <1>1, PushLeaves DEF Sound
<1>3. Live(t) = 0..n /\ Live(s) = 0..n-1 /\ \A i \in 0..n : i \in 0..n-1 \/ i = n
  BY <1>1, <1>2 DEF Live
<1>4. /\ \A i \in 0..n-1 : Addr(t, i) = Addr(s, i)
      /\ Addr(t, n) = slot.address
  BY <1>2 DEF Addr
<1>5. \A i, j \in 0..n-1 : SameFrame(t, i, j) => SameFrame(s, i, j)
  BY <1>1, <1>2, <1>3 DEF SameFrame
<1>6. \A i \in 0..n-1 : SameFrame(t, i, n) => slot.id # FUNC_SCOPE /\ SameFrame(s, i, n - 1)
  BY <1>1, <1>2, <1>3 DEF SameFrame
<1>7. Descending(t)
  <2> SUFFICES ASSUME NEW i \in 0..n, NEW j \in 0..n,
                      i < j, SameFrame(t, i, j), Addr(t, i) < 0
               PROVE  /\ Addr(t, j) <= Addr(t, i)
                      /\ ~IsSeparator(t.vars[j]) => Addr(t, j) < Addr(t, i)
    BY <1>3 DEF Descending
  <2>1. i \in 0..n-1
    BY <1>1, <1>3
  <2>2. CASE j = n
    BY <2>1, <2>2, <1>1, <1>2, <1>3, <1>4, <1>6
  <2>3. CASE j # n
    BY <2>1, <2>3, <1>2, <1>3, <1>4, <1>5 DEF Sound, Descending
  <2> QED BY <2>2, <2>3
<1>8. ParametersAscend(t)
  <2> SUFFICES ASSUME NEW i \in 0..n, NEW j \in 0..n,
                      ~IsSeparator(t.vars[i]), ~IsSeparator(t.vars[j]),
                      i < j, SameFrame(t, i, j), Addr(t, i) >= 0, Addr(t, j) >= 0
               PROVE  Addr(t, i) < Addr(t, j)
    BY <1>3 DEF ParametersAscend, Variables
  <2>1. i \in 0..n-1 /\ i \in Variables(s)
    BY <1>1, <1>2, <1>3 DEF Variables
  <2>2. CASE j = n
    BY <2>1, <2>2, <1>1, <1>2, <1>4, <1>6
  <2>3. CASE j # n
    <3>1. j \in 0..n-1 /\ j \in Variables(s)
      BY <2>3, <1>2, <1>3 DEF Variables
    <3> QED
      BY <2>1, <3>1, <1>4, <1>5 DEF Sound, ParametersAscend
  <2> QED BY <2>2, <2>3
<1>9. WellLaidOut(t)
  <2> SUFFICES ASSUME NEW i \in 0..n, t.vars[i].id # FUNC_SCOPE, ~Stale(t, i)
               PROVE  InPlace(t, i)
    BY <1>3 DEF WellLaidOut
  <2>1. CASE i = n
    BY <2>1, <1>1, <1>2
  <2>2. CASE i # n
    <3>1. i \in 0..n-1
      BY <2>2, <1>3
    <3>2. i \in Live(s) /\ (Stale(t, i) <=> Stale(s, i)) /\ (InPlace(t, i) <=> InPlace(s, i))
      BY <3>1, <1>2, Locality
    <3> QED
      BY <3>1, <3>2, <1>2 DEF Sound, WellLaidOut
  <2> QED BY <2>1, <2>2
<1>10. FreshBottom(t)
  <2>1. CASE n = 0
    BY <2>1, <1>1, <1>2 DEF FreshBottom, Addr
  <2>2. CASE n # 0
    <3>1. 0 \in 0..n-1 /\ t.size # 0
      BY <2>2, <1>1, <1>2
    <3> QED
      BY <3>1, <1>2, <1>4 DEF Sound, FreshBottom
  <2> QED BY <2>1, <2>2
<1> QED
  BY <1>2, <1>7, <1>8, <1>9, <1>10 DEF Sound

(* The slot on top has the lowest address of its frame, if it has a        *)
(* negative one.                                                           *)
LEMMA TopIsLowest ==
  ASSUME NEW s, Sound(s), NEW i \in Live(s), SameFrame(s, i, s.size - 1), Addr(s, i) < 0
  PROVE  /\ s.size > 0 /\ LocalsStackTop(s).id # FUNC_SCOPE
         /\ LocalsStackTop(s).address = Addr(s, s.size - 1)
         /\ Addr(s, s.size - 1) \in Int /\ Addr(s, i) \in Int
         /\ Addr(s, s.size - 1) <= Addr(s, i)
<1>1. s.size \in Nat /\ s.size <= Capacity /\ Capacity \in Nat /\ s \in Stack
  BY SlotsTyped DEF Sound
<1>2. s.size > 0 /\ i <= s.size - 1 /\ i \in Int /\ i >= 0
  BY <1>1 DEF Live
<1>3. /\ LocalsStackTop(s).address = Addr(s, s.size - 1)
      /\ LocalsStackTop(s).id # FUNC_SCOPE
  BY <1>1, <1>2 DEF LocalsStackTop, Addr, SameFrame
<1>4. Addr(s, s.size - 1) \in Int /\ Addr(s, i) \in Int
  BY <1>1, <1>2, SlotsTyped
<1>5. Addr(s, s.size - 1) <= Addr(s, i)
  <2>1. CASE i = s.size - 1
    BY <2>1, <1>4
  <2>2. CASE i # s.size - 1
    BY <2>2, <1>1, <1>2 DEF Sound, Descending, Live
  <2> QED BY <2>1, <2>2
<1> QED
  BY <1>2, <1>3, <1>4, <1>5

(* A scope of stale addresses goes on with whatever is pushed on it, but   *)
(* for a function.                                                         *)
LEMMA StaleStays ==
  ASSUME NEW s \in Stack, s.size < Capacity, NEW slot \in Slot, slot.id # FUNC_SCOPE,
         Stale(s, s.size - 1)
  PROVE  Stale(Grown(s, slot), s.size)
<1> DEFINE t == Grown(s, slot)
<1>1. PICK j \in Live(s) : /\ j + 1 <= s.size - 1 /\ SameFrame(s, j + 1, s.size - 1)
                            /\ s.vars[j].id = FUNC_SCOPE /\ s.vars[j+1].id = NORMAL_SCOPE
  BY DEF Stale
<1>2. /\ s.size \in Nat /\ t.size = s.size + 1 /\ t.vars[s.size] = slot
      /\ \A i \in 0..s.size-1 : t.vars[i] = s.vars[i]
  BY PushLeaves, SlotsTyped
<1> HIDE DEF t
<1>3. j \in Live(t) /\ j + 1 <= s.size /\ j \in 0..s.size-1 /\ j + 1 \in 0..s.size-1
  BY <1>1, <1>2 DEF Live
<1>4. SameFrame(t, j + 1, s.size)
  <2>1. \A k \in j+1..s.size : (k \in j+1..s.size-1 /\ k \in 0..s.size-1) \/ k = s.size
    BY <1>2, <1>3
  <2> QED
    BY <1>1, <1>2, <2>1 DEF SameFrame
<1>5. Stale(t, s.size)
  BY <1>1, <1>2, <1>3, <1>4 DEF Stale
<1> QED
  BY <1>5 DEF t

(* A declaration. *)
LEMMA DeclareKeeps ==
  ASSUME NEW s, Sound(s), s.size < Capacity, NEW id \in Id
  PROVE  Sound(LocalsStackPush(s, id))
<1> DEFINE slot == [id |-> id, address |-> NextAddress(s)]
           t == Grown(s, slot)
<1>1. s.size \in Nat /\ s.size <= Capacity /\ Capacity \in Nat /\ s \in Stack
  BY SlotsTyped DEF Sound
<1>2. s.size > 0 => s.size - 1 \in 0..Capacity-1 /\ LocalsStackTop(s).address = Addr(s, s.size - 1)
                    /\ Addr(s, s.size - 1) \in Int /\ LocalsStackTop(s).id \in Int
                    /\ LocalsStackTop(s).id = s.vars[s.size - 1].id
  BY <1>1, SlotsTyped DEF LocalsStackTop, Addr
<1>3. NextAddress(s) \in Int /\ NextAddress(s) < 0
  BY <1>2 DEF NextAddress
<1>4. slot \in Slot /\ slot.id = id /\ slot.address = NextAddress(s) /\ id \in Int /\ id >= 0
      /\ ~IsSeparator(slot) /\ slot.id # FUNC_SCOPE
  BY <1>3, IdAssumption DEF Slot, IsSeparator, FUNC_SCOPE
<1>5. t = LocalsStackPush(s, id)
  BY DEF LocalsStackPush
<1> HIDE DEF slot
<1>6. /\ t \in Stack /\ t.size = s.size + 1 /\ t.vars[s.size] = slot
      /\ \A i \in 0..s.size-1 : t.vars[i] = s.vars[i]
      /\ Agree(s, t, s.size)
  BY <1>1, <1>4, PushLeaves
<1>7. \A i \in Live(s) : SameFrame(s, i, s.size - 1) /\ Addr(s, i) < 0 => slot.address < Addr(s, i)
  <2> SUFFICES ASSUME NEW i \in Live(s), SameFrame(s, i, s.size - 1), Addr(s, i) < 0
               PROVE  slot.address < Addr(s, i)
    OBVIOUS
  <2>1. /\ s.size > 0 /\ LocalsStackTop(s).id # FUNC_SCOPE
        /\ LocalsStackTop(s).address = Addr(s, s.size - 1)
        /\ Addr(s, s.size - 1) \in Int /\ Addr(s, i) \in Int
        /\ Addr(s, s.size - 1) <= Addr(s, i)
    BY TopIsLowest
  <2>2. NextAddress(s) = Addr(s, s.size - 1) - 1
    BY <2>1 DEF NextAddress
  <2> QED
    BY <1>4, <2>1, <2>2
<1>8. ASSUME ~Stale(t, s.size) PROVE InPlace(t, s.size)
  <2> DEFINE below == LocalsUpTo(s, s.size - 1)
  <2>1. LocalsUpTo(t, s.size) = below \union {s.size}
    BY <1>1, <1>3, <1>4, TopLocals
  <2>2. IsFiniteSet(below) /\ s.size \notin below
    BY <1>1, LocalsFinite, LocalsFinite
  <2>3. Cardinality(LocalsUpTo(t, s.size)) = Cardinality(below) + 1 /\ Cardinality(below) \in Nat
    BY <2>1, <2>2, FS_AddElement, FS_CardinalityType
  <2>4. slot.address = -1 - Cardinality(below)
    <3>1. CASE s.size > 0 /\ LocalsStackTop(s).id # FUNC_SCOPE /\ LocalsStackTop(s).address < 0
      <4>1. s.size - 1 \in Live(s) /\ ~Stale(s, s.size - 1)
        BY <1>1, <1>4, <1>8, <3>1, StaleStays DEF Live
      <4>2. InPlace(s, s.size - 1)
        BY <1>2, <3>1, <4>1 DEF Sound, WellLaidOut
      <4>3. NextAddress(s) = Addr(s, s.size - 1) - 1 /\ Addr(s, s.size - 1) = -Cardinality(below)
        BY <1>2, <3>1, <4>2 DEF NextAddress, InPlace, Addr
      <4> QED
        BY <1>4, <2>3, <4>3
    <3>2. CASE ~(s.size > 0 /\ LocalsStackTop(s).id # FUNC_SCOPE /\ LocalsStackTop(s).address < 0)
      <4>1. below = {}
        <5>1. ASSUME NEW j \in below PROVE FALSE
          <6>1. j \in Live(s) /\ SameFrame(s, j, s.size - 1) /\ Addr(s, j) < 0
            BY <5>1 DEF LocalsUpTo, Variables, Addr
          <6>2. /\ s.size > 0 /\ LocalsStackTop(s).id # FUNC_SCOPE
                /\ LocalsStackTop(s).address = Addr(s, s.size - 1)
                /\ Addr(s, s.size - 1) \in Int /\ Addr(s, j) \in Int
                /\ Addr(s, s.size - 1) <= Addr(s, j)
            BY <6>1, TopIsLowest
          <6> QED
            BY <3>2, <6>1, <6>2
        <5> QED BY <5>1
      <4>2. NextAddress(s) = -1
        BY <3>2 DEF NextAddress
      <4> QED
        BY <1>4, <4>1, <4>2, FS_EmptySet
    <3> QED BY <3>1, <3>2
  <2> QED
    BY <1>3, <1>4, <1>6, <2>3, <2>4 DEF InPlace
<1> HIDE DEF t
<1>9. /\ \A i \in Live(s) :
             slot.id # FUNC_SCOPE /\ SameFrame(s, i, s.size - 1) /\ Addr(s, i) < 0 =>
               slot.address <= Addr(s, i) /\ (~IsSeparator(slot) => slot.address < Addr(s, i))
      /\ ~(slot.address >= 0)
  <2>1. \A i \in Live(s) : Addr(s, i) \in Int
    BY <1>1, SlotsTyped DEF Live
  <2> QED
    BY <1>3, <1>4, <1>7, <2>1
<1> QED
  BY <1>4, <1>5, <1>8, <1>9, PushKeeps DEF t

(* A block or a function is opened. *)
LEMMA OpenKeeps ==
  ASSUME NEW s, Sound(s), s.size < Capacity, NEW scope \in {NORMAL_SCOPE, FUNC_SCOPE}
  PROVE  Sound(LocalsStackInitScope(s, scope))
<1> DEFINE address == IF scope = NORMAL_SCOPE /\ s.size > 0
                      THEN LocalsStackTop(s).address
                      ELSE s.vars[s.size].address
           slot == [id |-> scope, address |-> address]
           t == Grown(s, slot)
<1>1. s.size \in Nat /\ s.size <= Capacity /\ Capacity \in Nat /\ s \in Stack
  BY SlotsTyped DEF Sound
<1>2. s.size > 0 => s.size - 1 \in 0..Capacity-1 /\ LocalsStackTop(s).address = Addr(s, s.size - 1)
                    /\ Addr(s, s.size - 1) \in Int
                    /\ LocalsStackTop(s).id = s.vars[s.size - 1].id
  BY <1>1, SlotsTyped DEF LocalsStackTop, Addr
<1>3. s.vars[s.size].address = Addr(s, s.size) /\ Addr(s, s.size) \in Int
  BY <1>1, SlotsTyped DEF Addr
<1>4. address \in Int
  BY <1>2, <1>3
<1>5. slot \in Slot /\ slot.id = scope /\ slot.address = address /\ IsSeparator(slot)
  BY <1>4 DEF Slot, IsSeparator, NORMAL_SCOPE, FUNC_SCOPE
<1>6. t = LocalsStackInitScope(s, scope)
  BY DEF LocalsStackInitScope
<1>7. scope # FUNC_SCOPE => scope = NORMAL_SCOPE
  OBVIOUS
<1>8. /\ scope = NORMAL_SCOPE /\ s.size > 0 => address = Addr(s, s.size - 1)
      /\ s.size = 0 => address = Addr(s, 0)
  BY <1>2, <1>3
<1> HIDE DEF slot, address
<1>9. /\ t \in Stack /\ t.size = s.size + 1 /\ t.vars[s.size] = slot
      /\ \A i \in 0..s.size-1 : t.vars[i] = s.vars[i]
  BY <1>1, <1>5, PushLeaves
<1>10. \A i \in Live(s) :
         slot.id # FUNC_SCOPE /\ SameFrame(s, i, s.size - 1) /\ Addr(s, i) < 0 =>
           slot.address <= Addr(s, i)
  BY <1>5, <1>7, <1>8, TopIsLowest
<1>11. s.size = 0 => slot.address = 0
  BY <1>5, <1>8 DEF Sound, FreshBottom
<1>12. ASSUME slot.id # FUNC_SCOPE, ~Stale(t, s.size) PROVE InPlace(t, s.size)
  <2>1. CASE s.size = 0
    BY <2>1, <1>9, <1>11 DEF InPlace
  <2>2. CASE s.size > 0 /\ s.vars[s.size - 1].id = FUNC_SCOPE
    <3>1. s.size - 1 \in Live(t) /\ (s.size - 1) + 1 = s.size /\ s.size - 1 \in 0..s.size-1
      BY <1>1, <1>9, <2>2 DEF Live
    <3>2. SameFrame(t, s.size, s.size)
      BY <1>1, <1>9, <1>12 DEF SameFrame
    <3> QED
      BY <1>1, <1>5, <1>7, <1>9, <1>12, <2>2, <3>1, <3>2 DEF Stale
  <2>3. CASE s.size > 0 /\ s.vars[s.size - 1].id # FUNC_SCOPE
    <3>1. s.size - 1 \in Live(s) /\ ~Stale(s, s.size - 1)
      BY <1>1, <1>5, <1>12, <2>3, StaleStays DEF Live
    <3>2. InPlace(s, s.size - 1)
      BY <2>3, <3>1 DEF Sound, WellLaidOut
    <3>3. LocalsUpTo(t, s.size) = LocalsUpTo(s, s.size - 1)
      BY <1>1, <1>5, <1>12, TopLocals
    <3> QED
      BY <1>5, <1>7, <1>8, <1>9, <1>12, <2>3, <3>2, <3>3 DEF InPlace, Addr
  <2> QED BY <1>1, <2>1, <2>2, <2>3
<1> HIDE DEF t
<1> QED
  BY <1>1, <1>5, <1>6, <1>10, <1>11, <1>12, PushKeeps DEF t

(* Slots are dropped, down to a separator. *)
LEMMA CloseKeeps ==
  ASSUME NEW s, Sound(s), Separators(s) # {}
  PROVE  /\ Sound(LocalsStackPopScope(s))
         /\ LocalsStackPopScope(s).size = Innermost(s)
         /\ Innermost(s) \in Separators(s) /\ Innermost(s) \in 0..s.size-1
         /\ \A i \in Separators(s) : i <= Innermost(s)
<1> DEFINE t == LocalsStackPopScope(s)
           n == Innermost(s)
<1>1. s.size \in Nat /\ s.size <= Capacity /\ Capacity \in Nat /\ s \in Stack
  BY SlotsTyped DEF Sound
<1>2. /\ n \in Separators(s) /\ n \in 0..s.size-1 /\ t.size = n
      /\ \A i \in Separators(s) : i <= n
  BY <1>1, InnermostShape
<1>3. t \in Stack /\ t.vars = s.vars /\ t.size = n
  BY <1>1, <1>2, PopShape
<1> HIDE DEF t, n
<1>4. Agree(s, t, n) /\ Live(t) = 0..n-1 /\ \A i \in 0..n-1 : i \in Live(s) /\ Addr(t, i) = Addr(s, i)
  BY <1>1, <1>2, <1>3 DEF Agree, Live, Addr
<1>5. \A i, j : SameFrame(t, i, j) <=> SameFrame(s, i, j)
  BY <1>3 DEF SameFrame
<1>6. Descending(t) /\ ParametersAscend(t)
  <2>1. Variables(t) \subseteq Variables(s) /\ Variables(t) \subseteq Live(t) /\ Live(t) \subseteq Live(s)
    BY <1>3, <1>4 DEF Variables
  <2> QED
    BY <1>3, <1>4, <1>5, <2>1 DEF Sound, Descending, ParametersAscend
<1>7. WellLaidOut(t)
  <2> SUFFICES ASSUME NEW i \in 0..n-1, t.vars[i].id # FUNC_SCOPE, ~Stale(t, i)
               PROVE  InPlace(t, i)
    BY <1>4 DEF WellLaidOut
  <2>1. i \in Live(s) /\ (Stale(t, i) <=> Stale(s, i)) /\ (InPlace(t, i) <=> InPlace(s, i))
    BY <1>4, Locality
  <2> QED
    BY <2>1, <1>3 DEF Sound, WellLaidOut
<1>8. FreshBottom(t)
  <2>1. CASE n = 0
    <3>1. IsSeparator(s.vars[0])
      BY <1>2, <2>1 DEF Separators
    <3> QED
      BY <1>3, <3>1 DEF Sound, FreshBottom, Addr
  <2>2. CASE n # 0
    BY <2>2, <1>2, <1>3 DEF Sound, FreshBottom, Addr
  <2> QED BY <2>1, <2>2
<1>9. Sound(t)
  BY <1>3, <1>6, <1>7, <1>8 DEF Sound
<1> QED
  BY <1>2, <1>3, <1>9 DEF t, n

LEMMA ParamsKeep ==
  ASSUME NEW s, Sound(s), s.size > 0, s.vars[s.size - 1].id = FUNC_SCOPE,
         NEW params \in Seq(Id), s.size + Len(params) <= Capacity
  PROVE  Sound(PushParams(s, params))
<1>1. PICK t : t = PushParams(s, params)
  OBVIOUS
<1>2. PICK n \in Nat : n = s.size
  BY SlotsTyped DEF Sound
<1>3. /\ t \in Stack /\ t.size \in Nat /\ n <= t.size
      /\ Agree(s, t, n)
      /\ \A i \in n..t.size-1 : Addr(t, i) = i - n + 2
  BY <1>1, <1>2, ParamsShape DEF Sound
<1>4. /\ Live(t) = 0..t.size-1 /\ Live(s) = 0..n-1 /\ n > 0
      /\ \A i \in 0..t.size-1 : i \in 0..n-1 \/ i \in n..t.size-1
      /\ \A i \in 0..n-1 : t.vars[i] = s.vars[i] /\ Addr(t, i) = Addr(s, i)
  BY <1>2, <1>3 DEF Live, Agree, Addr
<1>5. \A i, j \in 0..t.size-1 : i < j /\ SameFrame(t, i, j) =>
        \/ i \in n..t.size-1 /\ j \in n..t.size-1
        \/ i \in 0..n-1 /\ j \in 0..n-1 /\ SameFrame(s, i, j)
  <2> SUFFICES ASSUME NEW i \in 0..t.size-1, NEW j \in 0..t.size-1, i < j, SameFrame(t, i, j)
               PROVE  \/ i \in n..t.size-1 /\ j \in n..t.size-1
                      \/ i \in 0..n-1 /\ j \in 0..n-1 /\ SameFrame(s, i, j)
    OBVIOUS
  <2>1. ~(i \in 0..n-1 /\ j \in n..t.size-1)
    <3>1. i \in 0..n-1 /\ j \in n..t.size-1 => n - 1 \in i..j /\ n - 1 \in 0..n-1
      BY <1>2, <1>3
    <3> QED
      BY <1>2, <1>4, <3>1 DEF SameFrame
  <2>2. i \in 0..n-1 /\ j \in 0..n-1 => SameFrame(s, i, j)
    BY <1>2, <1>4 DEF SameFrame
  <2> QED
    BY <1>2, <1>3, <1>4, <2>1, <2>2
<1>6. Descending(t)
  BY <1>2, <1>3, <1>4, <1>5 DEF Sound, Descending
<1>7. ParametersAscend(t)
  <2> SUFFICES ASSUME NEW i \in Variables(t), NEW j \in Variables(t),
                      i < j, SameFrame(t, i, j), Addr(t, i) >= 0, Addr(t, j) >= 0
               PROVE  Addr(t, i) < Addr(t, j)
    BY DEF ParametersAscend
  <2>1. i \in 0..t.size-1 /\ j \in 0..t.size-1
    BY <1>4 DEF Variables
  <2>2. CASE i \in n..t.size-1 /\ j \in n..t.size-1
    BY <1>2, <1>3, <2>2
  <2>3. CASE i \in 0..n-1 /\ j \in 0..n-1 /\ SameFrame(s, i, j)
    <3>1. i \in Variables(s) /\ j \in Variables(s)
      BY <1>4, <2>3 DEF Variables
    <3> QED
      BY <1>4, <2>3, <3>1 DEF Sound, ParametersAscend
  <2> QED
    BY <1>5, <2>1, <2>2, <2>3
<1>8. WellLaidOut(t)
  <2> SUFFICES ASSUME NEW i \in 0..t.size-1, t.vars[i].id # FUNC_SCOPE, ~Stale(t, i)
               PROVE  InPlace(t, i)
    BY <1>4 DEF WellLaidOut
  <2>1. CASE i \in 0..n-1
    <3>1. i \in Live(s) /\ (Stale(t, i) <=> Stale(s, i)) /\ (InPlace(t, i) <=> InPlace(s, i))
      BY <1>3, <2>1, Locality
    <3> QED
      BY <2>1, <3>1, <1>4 DEF Sound, WellLaidOut
  <2>2. CASE i \in n..t.size-1
    BY <1>2, <1>3, <2>2 DEF InPlace, Addr
  <2> QED BY <1>4, <2>1, <2>2
<1>9. FreshBottom(t)
  <2>1. 0 \in 0..n-1 /\ t.size # 0 /\ s.size # 0
    BY <1>2, <1>3, <1>4
  <2> QED
    BY <1>4, <2>1 DEF Sound, FreshBottom
<1> QED
  BY <1>1, <1>3, <1>6, <1>7, <1>8, <1>9 DEF Sound

-----------------------------------------------------------------------------
SoundState == Sound(stk) /\ inFunction \in BOOLEAN

(* The empty stack satisfies the invariant.                                *)
LEMMA InitSound == Init => SoundState
<1> SUFFICES ASSUME Init PROVE SoundState
  OBVIOUS
<1>1. stk.size = 0 /\ Live(stk) = {} /\ Variables(stk) = {}
  BY DEF Init, LocalsStackInit, Live, Variables
<1>2. LocalsStackInit \in Stack
  <2>1. [id |-> 0, address |-> 0] \in Slot
    BY DEF Slot
  <2> QED
    BY <2>1, CapacityAssumption DEF LocalsStackInit, Stack
<1>3. Addr(stk, 0) = 0
  <2>1. 0 \in 0..Capacity-1
    BY CapacityAssumption
  <2> QED
    BY <2>1 DEF Init, LocalsStackInit, Addr
<1> QED
  BY <1>1, <1>2, <1>3 DEF Init, SoundState, Sound, Descending, ParametersAscend, WellLaidOut, FreshBottom

(* Every declaration, block and function keeps it.                         *)
LEMMA StepSound == SoundState /\ [Next]_vars => SoundState'
<1> SUFFICES ASSUME SoundState, [Next]_vars PROVE SoundState'
  OBVIOUS
<1>1. Sound(stk) /\ stk \in Stack /\ stk.size \in Nat /\ Capacity \in Nat /\ stk.size <= Capacity
  BY SlotsTyped DEF SoundState, Sound
<1>2. ASSUME NEW id \in Id, Declare(id) PROVE SoundState'
  BY <1>1, <1>2, DeclareKeeps DEF Declare, HasRoom, SoundState
<1>3. CASE OpenBlock
  BY <1>1, <1>3, OpenKeeps DEF OpenBlock, HasRoom, SoundState
<1>4. CASE CloseBlock
  BY <1>1, <1>4, CloseKeeps DEF CloseBlock, InnermostIs, SoundState
<1>5. CASE NextBlock
  <2> DEFINE s == LocalsStackPopScope(stk)
  <2>1. Sound(s) /\ s.size \in 0..stk.size-1
    BY <1>1, <1>5, CloseKeeps DEF NextBlock, InnermostIs
  <2>2. s.size < Capacity /\ stk' = LocalsStackInitScope(s, NORMAL_SCOPE) /\ inFunction' = inFunction
    BY <1>1, <1>5, <2>1 DEF NextBlock
  <2> HIDE DEF s
  <2> QED
    BY <2>1, <2>2, OpenKeeps DEF SoundState
<1>6. ASSUME NEW params \in ParamLists, OpenFunction(params) PROVE SoundState'
  <2> DEFINE s == LocalsStackInitScope(stk, FUNC_SCOPE)
  <2>1. params \in Seq(Id) /\ Len(params) \in Nat /\ stk.size + Len(params) < Capacity
        /\ stk' = PushParams(s, params) /\ inFunction' = TRUE
    BY <1>6, ParamListsAssumption DEF OpenFunction
  <2>2. Sound(s)
    BY <1>1, <2>1, OpenKeeps
  <2>3. s.size = stk.size + 1 /\ s.vars[stk.size].id = FUNC_SCOPE
    BY <1>1, <2>1, ScopeShape
  <2> HIDE DEF s
  <2>4. s.size > 0 /\ s.vars[s.size - 1].id = FUNC_SCOPE /\ s.size + Len(params) <= Capacity
    BY <1>1, <2>1, <2>3
  <2> QED
    BY <2>1, <2>2, <2>4, ParamsKeep DEF SoundState
<1>7. CASE CloseFunction
  BY <1>1, <1>7, CloseKeeps DEF CloseFunction, InnermostIs, SoundState
<1>8. CASE UNCHANGED vars
  BY <1>8 DEF vars, SoundState
<1> QED
  BY <1>2, <1>3, <1>4, <1>5, <1>6, <1>7, <1>8 DEF Next

(* The invariant holds of every program, whatever its declarations.        *)
THEOREM Invariance == Spec => []SoundState
BY InitSound, StepSound, PTL DEF Spec

(* Whatever the names and the capacity, the stack stays a stack.           *)
THEOREM TypeCorrect == Spec => []TypeOK
<1>1. SoundState => TypeOK
  BY DEF SoundState, Sound, TypeOK
<1> QED
  BY <1>1, Invariance, PTL

(* Whatever the names, the capacity and the order of declarations, blocks  *)
(* and functions, variables seen together through one register have words  *)
(* of their own: the stale address a separator may copy cannot make two    *)
(* of them meet.                                                           *)
THEOREM AddressesAreDistinct == Spec => []DistinctAddresses
<1>1. SoundState => DistinctAddresses
  <2> SUFFICES ASSUME SoundState, NEW i \in Variables(stk), NEW j \in Variables(stk),
                      i < j, SameFrame(stk, i, j)
               PROVE  Addr(stk, i) # Addr(stk, j)
    BY DEF DistinctAddresses, Addr
  <2>1. /\ i \in Live(stk) /\ j \in Live(stk) /\ ~IsSeparator(stk.vars[j])
        /\ Addr(stk, i) \in Int /\ Addr(stk, j) \in Int
    BY SlotsTyped DEF SoundState, Sound, Variables, Live
  <2>2. CASE Addr(stk, i) < 0
    BY <2>1, <2>2 DEF SoundState, Sound, Descending
  <2>3. CASE Addr(stk, i) >= 0
    BY <2>1, <2>3 DEF SoundState, Sound, ParametersAscend
  <2> QED
    BY <2>1, <2>2, <2>3
<1> QED
  BY <1>1, Invariance, PTL

(* Whatever the program, each local outside the first block of a           *)
(* parameterless function has the number of the word its own declaration   *)
(* allocates: its address counts the locals of the frame up to it.         *)
THEOREM LocalsAreWhereAllocated == Spec => []LayoutElsewhere
<1>1. SoundState => LayoutElsewhere
  <2> SUFFICES ASSUME SoundState, NEW i \in Variables(stk), ~InFirstBlock(stk, i)
               PROVE  InPlace(stk, i)
    BY DEF LayoutElsewhere
  <2>1. i \in Live(stk) /\ stk.vars[i].id \in Int /\ ~(stk.vars[i].id < 0) /\ i \in Int
    BY SlotsTyped DEF SoundState, Sound, Variables, Live, IsSeparator
  <2>2. ~Stale(stk, i)
    <3> SUFFICES ASSUME NEW j \in Live(stk), j + 1 <= i, SameFrame(stk, j + 1, i),
                        stk.vars[j].id = FUNC_SCOPE, stk.vars[j+1].id = NORMAL_SCOPE
                 PROVE  FALSE
      BY DEF Stale
    <3>1. j + 1 # i /\ j \in Int
      BY <2>1 DEF NORMAL_SCOPE, Live
    <3>2. j + 1 < i
      BY <2>1, <3>1
    <3> QED
      BY <3>2 DEF InFirstBlock
  <2> QED
    BY <2>1, <2>2 DEF SoundState, Sound, WellLaidOut, FUNC_SCOPE
<1> QED
  BY <1>1, Invariance, PTL
-----------------------------------------------------------------------------
(* Blocks.                                                                 *)
(* st lists, in order, where the n blocks of a stack start.                *)
Enumerates(st, n, s) ==
  /\ n \in Nat \ {0}
  /\ st \in [1..n -> Starts(s)]
  /\ \A b, c \in 1..n : b < c => st[b] < st[c]
  /\ \A i \in Starts(s) : \E b \in 1..n : st[b] = i

(* The names in the blocks that start there.                               *)
EndOf(st, n, s, b) == IF b = n THEN s.size - 1 ELSE st[b + 1] - 1
ReadBlock(st, n, s, b) == [k \in 1..EndOf(st, n, s, b) - st[b] |-> s.vars[st[b] + k].id]
Read(st, n, s) == [b \in 1..n |-> ReadBlock(st, n, s, b)]

-----------------------------------------------------------------------------
LEMMA StartsShape ==
  ASSUME NEW s \in Stack
  PROVE  /\ s.size \in Nat
         /\ -1 \in Starts(s)
         /\ Starts(s) = {-1} \union Separators(s)
         /\ \A i \in Starts(s) : i \in Int /\ -1 <= i /\ i < s.size
<1>1. s.size \in 0..Capacity /\ Capacity \in Nat
  BY StackShape
<1> QED
  BY <1>1 DEF Starts, Separators, Live

LEMMA Places ==
  ASSUME NEW s \in Stack, NEW st, NEW n, Enumerates(st, n, s)
  PROVE  /\ n \in Nat /\ n >= 1
         /\ \A b \in 1..n : st[b] \in Starts(s) /\ st[b] \in Int /\ -1 <= st[b] /\ st[b] < s.size
         /\ \A b, c \in 1..n : b < c => st[b] < st[c]
         /\ \A b, c \in 1..n : st[b] < st[c] => b < c
         /\ st[1] = -1
<1>1. n \in Nat /\ n >= 1
  BY DEF Enumerates
<1>2. \A b \in 1..n : st[b] \in Starts(s)
  BY DEF Enumerates
<1>3. \A b \in 1..n : st[b] \in Int /\ -1 <= st[b] /\ st[b] < s.size
  BY <1>2, StartsShape
<1>4. \A b, c \in 1..n : b < c => st[b] < st[c]
  BY DEF Enumerates
<1>5. \A b, c \in 1..n : st[b] < st[c] => b < c
  <2> SUFFICES ASSUME NEW b \in 1..n, NEW c \in 1..n, st[b] < st[c], ~(b < c) PROVE FALSE
    OBVIOUS
  <2>1. b = c \/ c < b
    BY <1>1
  <2>2. st[b] \in Int /\ st[c] \in Int
    BY <1>3
  <2>3. CASE b = c
    BY <2>2, <2>3
  <2>4. CASE c < b
    BY <1>4, <2>2, <2>4
  <2> QED
    BY <2>1, <2>3, <2>4
<1>6. st[1] = -1
  <2>1. PICK b \in 1..n : st[b] = -1
    BY StartsShape DEF Enumerates
  <2>2. b = 1 \/ 1 < b
    BY <1>1
  <2>3. CASE 1 < b
    <3>1. 1 \in 1..n
      BY <1>1
    <3>2. st[1] < -1 /\ -1 <= st[1] /\ st[1] \in Int
      BY <1>3, <1>4, <2>1, <2>3, <3>1
    <3> QED
      BY <3>2
  <2> QED
    BY <2>1, <2>2, <2>3
<1> QED
  BY <1>1, <1>2, <1>3, <1>4, <1>5, <1>6

(* A list of the starts of blocks is the one the mapping counts out.       *)
LEMMA CountedOut ==
  ASSUME NEW s \in Stack, NEW st, NEW n, Enumerates(st, n, s)
  PROVE  /\ Cardinality(Starts(s)) = n
         /\ \A b \in 1..n : BlockStart(s, b) = st[b]
<1>1. n \in Nat /\ n >= 1
  BY Places
<1>2. \A b, c \in 1..n : st[b] = st[c] => b = c
  <2> SUFFICES ASSUME NEW b \in 1..n, NEW c \in 1..n, st[b] = st[c], b # c PROVE FALSE
    OBVIOUS
  <2>1. b < c \/ c < b
    BY <1>1
  <2>2. st[b] \in Int /\ st[c] \in Int
    BY Places
  <2>3. st[b] < st[c] \/ st[c] < st[b]
    BY <2>1, Places
  <2> QED
    BY <2>2, <2>3
<1>3. Cardinality(Starts(s)) = n
  <2>1. st \in Bijection(1..n, Starts(s))
    BY <1>2 DEF Enumerates, Bijection, Injection, Surjection, IsInjective
  <2> QED
    BY <1>1, <2>1, FS_CountingElements DEF ExistsBijection
<1>4. \A c \in 1..n : Cardinality({j \in Starts(s) : j < st[c]}) = c - 1
  <2> TAKE c \in 1..n
  <2> DEFINE below == {j \in Starts(s) : j < st[c]}
             f == [b \in 1..c-1 |-> st[b]]
  <2>1. c - 1 \in Nat /\ 1..c-1 \subseteq 1..n
    BY <1>1
  <2>2. \A b \in 1..c-1 : f[b] \in below
    <3> TAKE b \in 1..c-1
    <3>1. b \in 1..n /\ b < c
      BY <2>1
    <3> QED
      BY <3>1, Places
  <2>3. \A j \in below : \E b \in 1..c-1 : f[b] = j
    <3> TAKE j \in below
    <3>1. PICK b \in 1..n : st[b] = j
      BY DEF Enumerates
    <3>2. b < c
      BY <3>1, Places
    <3>3. b \in 1..c-1
      BY <3>2, <1>1
    <3> QED
      BY <3>1, <3>3
  <2>4. \A a, b \in 1..c-1 : f[a] = f[b] => a = b
    BY <1>2, <2>1
  <2>5. f \in [1..c-1 -> below]
    BY <2>2
  <2> HIDE DEF below, f
  <2>6. f \in Bijection(1..c-1, below)
    <3>1. f \in Injection(1..c-1, below)
      BY <2>4, <2>5 DEF Injection, IsInjective
    <3>2. f \in Surjection(1..c-1, below)
      BY <2>3, <2>5 DEF Surjection
    <3> QED
      BY <3>1, <3>2 DEF Bijection
  <2>7. Cardinality(below) = c - 1
    BY <2>1, <2>6, FS_CountingElements DEF ExistsBijection
  <2> QED
    BY <2>7 DEF below
<1>5. ASSUME NEW b \in 1..n PROVE BlockStart(s, b) = st[b]
  <2>1. st[b] \in Starts(s) /\ Cardinality({j \in Starts(s) : j < st[b]}) = b - 1
    BY <1>4, Places
  <2>2. ASSUME NEW i \in Starts(s), Cardinality({j \in Starts(s) : j < i}) = b - 1
        PROVE  i = st[b]
    <3>1. PICK c \in 1..n : st[c] = i
      BY DEF Enumerates
    <3>2. c - 1 = b - 1
      BY <1>4, <2>2, <3>1
    <3> QED
      BY <3>1, <3>2, <1>1
  <2> QED
    BY <2>1, <2>2 DEF BlockStart
<1> QED
  BY <1>3, <1>5

LEMMA BlocksRead ==
  ASSUME NEW s \in Stack, NEW st, NEW n, Enumerates(st, n, s)
  PROVE  Blocks(s) = Read(st, n, s)
<1>1. n \in Nat /\ n >= 1 /\ Cardinality(Starts(s)) = n
  BY Places, CountedOut
<1>2. \A b \in 1..n : BlockNames(s, b) = ReadBlock(st, n, s, b)
  <2> TAKE b \in 1..n
  <2>1. BlockStart(s, b) = st[b]
    BY CountedOut
  <2>2. b # n => b + 1 \in 1..n
    BY <1>1
  <2>3. BlockEnd(s, b) = EndOf(st, n, s, b)
    BY <1>1, <2>2, CountedOut DEF BlockEnd, EndOf
  <2> QED
    BY <2>1, <2>3 DEF BlockNames, ReadBlock
<1> QED
  BY <1>1, <1>2 DEF Blocks, Read

-----------------------------------------------------------------------------
(* Blocks are sequences of names. *)
LEMMA BlockShape ==
  ASSUME NEW s \in Stack, NEW st, NEW n, Enumerates(st, n, s), NEW b \in 1..n
  PROVE  /\ EndOf(st, n, s, b) \in Int /\ st[b] <= EndOf(st, n, s, b)
         /\ EndOf(st, n, s, b) < s.size
         /\ ReadBlock(st, n, s, b) \in Seq(Int)
         /\ Len(ReadBlock(st, n, s, b)) = EndOf(st, n, s, b) - st[b]
         /\ \A k \in 1..EndOf(st, n, s, b) - st[b] :
              ReadBlock(st, n, s, b)[k] = s.vars[st[b] + k].id
<1>1. n \in Nat /\ n >= 1 /\ st[b] \in Int /\ -1 <= st[b] /\ st[b] < s.size /\ s.size \in Nat
  BY Places, StartsShape
<1>2. /\ EndOf(st, n, s, b) \in Int /\ st[b] <= EndOf(st, n, s, b)
      /\ EndOf(st, n, s, b) < s.size
  <2>1. CASE b = n
    BY <1>1, <2>1 DEF EndOf
  <2>2. CASE b # n
    <3>1. b + 1 \in 1..n /\ b < b + 1
      BY <1>1, <2>2
    <3>2. st[b + 1] \in Int /\ st[b] < st[b + 1] /\ st[b + 1] < s.size
      BY <3>1, Places
    <3> QED
      BY <1>1, <2>2, <3>2 DEF EndOf
  <2> QED
    BY <2>1, <2>2
<1>3. PICK m \in Nat : m = EndOf(st, n, s, b) - st[b]
  BY <1>1, <1>2
<1>4. \A k \in 1..m : s.vars[st[b] + k].id \in Int
  <2> TAKE k \in 1..m
  <2>1. st[b] + k \in 0..s.size-1
    BY <1>1, <1>2, <1>3
  <2>2. s.vars \in [0..Capacity-1 -> Slot] /\ s.size \in 0..Capacity /\ Capacity \in Nat
    BY StackShape
  <2>3. s.vars[st[b] + k] \in Slot
    BY <2>1, <2>2
  <2> QED
    BY <2>3, SlotShape
<1>5. ReadBlock(st, n, s, b) = [k \in 1..m |-> s.vars[st[b] + k].id]
  BY <1>3 DEF ReadBlock
<1>6. [k \in 1..m |-> s.vars[st[b] + k].id] \in Seq(Int)
  BY <1>4
<1>7. Len([k \in 1..m |-> s.vars[st[b] + k].id]) = m
  BY <1>3
<1> QED
  BY <1>2, <1>3, <1>5, <1>6, <1>7

LEMMA ReadShape ==
  ASSUME NEW s \in Stack, NEW st, NEW n, Enumerates(st, n, s)
  PROVE  /\ Read(st, n, s) \in Seq(Seq(Int))
         /\ Len(Read(st, n, s)) = n
         /\ \A b \in 1..n : Read(st, n, s)[b] = ReadBlock(st, n, s, b)
<1>1. n \in Nat
  BY Places
<1>2. \A b \in 1..n : ReadBlock(st, n, s, b) \in Seq(Int)
  BY BlockShape
<1> QED
  BY <1>1, <1>2 DEF Read

(* What the slots below the top keep, blocks that end below it keep.       *)
LEMMA SameBlock ==
  ASSUME NEW s \in Stack, NEW st, NEW n, Enumerates(st, n, s), NEW b \in 1..n,
         NEW t \in Stack, NEW su, NEW m, Enumerates(su, m, t), b \in 1..m,
         su[b] = st[b], EndOf(su, m, t, b) = EndOf(st, n, s, b),
         \A i \in 0..s.size-1 : t.vars[i] = s.vars[i]
  PROVE  ReadBlock(su, m, t, b) = ReadBlock(st, n, s, b)
<1>1. \A k \in 1..EndOf(st, n, s, b) - st[b] : st[b] + k \in 0..s.size-1
  <2> TAKE k \in 1..EndOf(st, n, s, b) - st[b]
  <2>1. EndOf(st, n, s, b) \in Int /\ EndOf(st, n, s, b) < s.size
    BY BlockShape
  <2>2. st[b] \in Int /\ -1 <= st[b] /\ s.size \in Nat
    BY Places, StartsShape
  <2> QED
    BY <2>1, <2>2
<1> QED
  BY <1>1 DEF ReadBlock

-----------------------------------------------------------------------------
(* A declaration enters the innermost block.                               *)
LEMMA NameEnters ==
  ASSUME NEW s \in Stack, NEW st, NEW n, Enumerates(st, n, s),
         s.size < Capacity, NEW slot \in Slot, slot.id >= 0
  PROVE  /\ Enumerates(st, n, Grown(s, slot))
         /\ Read(st, n, Grown(s, slot)) =
              [Read(st, n, s) EXCEPT ![n] = Append(@, slot.id)]
<1> DEFINE t == Grown(s, slot)
<1>0. n \in Nat /\ n >= 1 /\ s.size \in Nat /\ Capacity \in Nat /\ n \in 1..n
  BY Places, StartsShape, StackShape
<1>1. /\ t \in Stack /\ t.size = s.size + 1 /\ t.vars[s.size] = slot
      /\ \A i \in 0..s.size-1 : t.vars[i] = s.vars[i]
  BY <1>0, PushShape
<1> HIDE DEF t
<1>2. Starts(t) = Starts(s)
  <2>1. \A i \in 0..s.size : i \in 0..s.size-1 \/ i = s.size
    BY <1>0
  <2>2. ~IsSeparator(t.vars[s.size]) /\ Live(t) = 0..s.size /\ Live(s) = 0..s.size-1
    BY <1>0, <1>1, SlotShape DEF Live, IsSeparator
  <2>3. \A i : i \in Separators(t) <=> i \in Separators(s)
    BY <1>0, <1>1, <2>1, <2>2 DEF Separators
  <2> QED
    BY <2>3 DEF Starts
<1>3. Enumerates(st, n, t)
  BY <1>2 DEF Enumerates
<1>4. \A b \in 1..n : b # n => ReadBlock(st, n, t, b) = ReadBlock(st, n, s, b)
  <2> SUFFICES ASSUME NEW b \in 1..n, b # n
               PROVE  ReadBlock(st, n, t, b) = ReadBlock(st, n, s, b)
    OBVIOUS
  <2>1. EndOf(st, n, t, b) = EndOf(st, n, s, b)
    BY DEF EndOf
  <2> QED
    BY <1>1, <1>3, <2>1, SameBlock
<1>5. ReadBlock(st, n, t, n) = Append(ReadBlock(st, n, s, n), slot.id)
  <2> DEFINE u == ReadBlock(st, n, s, n)
             v == ReadBlock(st, n, t, n)
             p == st[n]
  <2>1. p \in Int /\ p < s.size
    BY <1>0, Places
  <2>2. u \in Seq(Int) /\ Len(u) = s.size - 1 - p
        /\ \A k \in 1..s.size - 1 - p : u[k] = s.vars[p + k].id
    <3>1. EndOf(st, n, s, n) = s.size - 1
      BY DEF EndOf
    <3> QED
      BY <1>0, <3>1, BlockShape
  <2>3. v \in Seq(Int) /\ Len(v) = s.size - p
        /\ \A k \in 1..s.size - p : v[k] = t.vars[p + k].id
    <3>1. EndOf(st, n, t, n) = s.size
      BY <1>0, <1>1 DEF EndOf
    <3> QED
      BY <1>0, <1>1, <1>3, <3>1, BlockShape
  <2>4. slot.id \in Int
    BY SlotShape
  <2> HIDE DEF u, v
  <2> DEFINE w == Append(u, slot.id)
  <2>5. w \in Seq(Int) /\ Len(w) = s.size - p
        /\ (\A k \in 1..s.size - 1 - p : w[k] = u[k]) /\ w[s.size - p] = slot.id
    BY <1>0, <2>1, <2>2, <2>4, AppendProperties
  <2>6. \A k \in 1..s.size - p : v[k] = w[k]
    <3> TAKE k \in 1..s.size - p
    <3>1. CASE k = s.size - p
      <4>1. p + k = s.size
        BY <1>0, <2>1, <3>1
      <4> QED
        BY <1>1, <2>3, <2>5, <3>1, <4>1
    <3>2. CASE k # s.size - p
      <4>1. k \in 1..s.size - 1 - p
        BY <1>0, <2>1, <3>2
      <4>2. p + k \in 0..s.size-1
        BY <1>0, <2>1, <4>1, Places
      <4> QED
        BY <1>1, <2>2, <2>3, <2>5, <4>1, <4>2
    <3> QED
      BY <3>1, <3>2
  <2> HIDE DEF w
  <2>7. v = w
    BY <2>3, <2>5, <2>6, SeqEqual
  <2> QED
    BY <2>7 DEF u, v, w
<1>6. Read(st, n, t) = [Read(st, n, s) EXCEPT ![n] = Append(@, slot.id)]
  BY <1>0, <1>4, <1>5 DEF Read
<1> QED
  BY <1>3, <1>6 DEF t

(* A separator opens a block without names.                                *)
LEMMA BlockOpens ==
  ASSUME NEW s \in Stack, NEW st, NEW n, Enumerates(st, n, s),
         s.size < Capacity, NEW slot \in Slot, slot.id < 0,
         NEW m, m = n + 1,
         NEW su \in [1..m -> Int], su[m] = s.size, \A b \in 1..n : su[b] = st[b]
  PROVE  /\ Enumerates(su, m, Grown(s, slot))
         /\ Read(su, m, Grown(s, slot)) = Append(Read(st, n, s), <<>>)
<1> DEFINE t == Grown(s, slot)
<1>0. n \in Nat /\ n >= 1 /\ s.size \in Nat /\ Capacity \in Nat /\ n \in 1..n
      /\ m = n + 1 /\ m \in Nat /\ m \in 1..m /\ 1..n \subseteq 1..m
  BY Places, StartsShape, StackShape
<1>1. /\ t \in Stack /\ t.size = s.size + 1 /\ t.vars[s.size] = slot
      /\ \A i \in 0..s.size-1 : t.vars[i] = s.vars[i]
  BY <1>0, PushShape
<1> HIDE DEF t
<1>2. Starts(t) = Starts(s) \union {s.size}
  <2>1. \A i \in 0..s.size : i \in 0..s.size-1 \/ i = s.size
    BY <1>0
  <2>2. IsSeparator(t.vars[s.size]) /\ Live(t) = 0..s.size /\ Live(s) = 0..s.size-1
    BY <1>0, <1>1, SlotShape DEF Live, IsSeparator
  <2>3. \A i : i \in Separators(t) <=> i \in Separators(s) \union {s.size}
    BY <1>0, <1>1, <2>1, <2>2 DEF Separators
  <2> QED
    BY <2>3 DEF Starts
<1>3. (\A b \in 1..n : su[b] = st[b]) /\ su[m] = s.size
  OBVIOUS
<1>9. \A b \in 1..m : b \in 1..n \/ b = m
  BY <1>0
<1>4. Enumerates(su, m, t)
  <2>1. su \in [1..m -> Starts(t)]
    <3>1. \A b \in 1..m : su[b] \in Starts(t)
      BY <1>2, <1>3, <1>9, Places
    <3> QED
      BY <3>1
  <2>2. \A b, c \in 1..m : b < c => su[b] < su[c]
    <3> SUFFICES ASSUME NEW b \in 1..m, NEW c \in 1..m, b < c PROVE su[b] < su[c]
      OBVIOUS
    <3>1. b \in 1..n
      BY <1>0, <1>9
    <3>2. CASE c = m
      BY <1>3, <3>1, <3>2, Places
    <3>3. CASE c \in 1..n
      BY <1>3, <3>1, <3>3, Places
    <3> QED
      BY <1>9, <3>2, <3>3
  <2>3. \A i \in Starts(t) : \E b \in 1..m : su[b] = i
    <3> TAKE i \in Starts(t)
    <3>1. CASE i = s.size
      BY <1>0, <1>3, <3>1
    <3>2. CASE i \in Starts(s)
      <4>1. PICK b \in 1..n : st[b] = i
        BY <3>2 DEF Enumerates
      <4> QED
        BY <1>0, <1>3, <4>1
    <3> QED
      BY <1>2, <3>1, <3>2
  <2>4. m \in Nat \ {0}
    BY <1>0
  <2> QED
    BY <2>1, <2>2, <2>3, <2>4 DEF Enumerates
<1>5. \A b \in 1..n : ReadBlock(su, m, t, b) = ReadBlock(st, n, s, b)
  <2> TAKE b \in 1..n
  <2>1. b \in 1..m /\ b # m /\ su[b] = st[b]
    BY <1>0, <1>3
  <2>2. EndOf(su, m, t, b) = EndOf(st, n, s, b)
    <3>1. CASE b = n
      BY <1>0, <1>1, <1>3, <3>1 DEF EndOf
    <3>2. CASE b # n
      <4>1. b + 1 \in 1..n
        BY <1>0, <3>2
      <4> QED
        BY <1>3, <2>1, <3>2, <4>1 DEF EndOf
    <3> QED
      BY <3>1, <3>2
  <2> QED
    BY <1>1, <1>4, <2>1, <2>2, SameBlock
<1>6. ReadBlock(su, m, t, m) = <<>>
  <2>1. EndOf(su, m, t, m) = s.size /\ su[m] = s.size
    BY <1>0, <1>1, <1>3 DEF EndOf
  <2>2. Len(ReadBlock(su, m, t, m)) = 0 /\ ReadBlock(su, m, t, m) \in Seq(Int)
    BY <1>0, <1>1, <1>4, <2>1, BlockShape
  <2> QED
    BY <2>2, EmptySeq
<1>7. Read(su, m, t) = Append(Read(st, n, s), <<>>)
  <2> DEFINE u == Read(st, n, s)
             v == Read(su, m, t)
             w == Append(u, <<>>)
  <2>1. u \in Seq(Seq(Int)) /\ Len(u) = n /\ \A b \in 1..n : u[b] = ReadBlock(st, n, s, b)
    BY ReadShape
  <2>2. /\ v \in Seq(Seq(Int)) /\ Len(v) = m
        /\ \A b \in 1..m : v[b] = ReadBlock(su, m, t, b)
    BY <1>1, <1>4, ReadShape
  <2> HIDE DEF u, v
  <2>3. <<>> \in Seq(Int)
    OBVIOUS
  <2>4. w \in Seq(Seq(Int)) /\ Len(w) = m /\ (\A b \in 1..n : w[b] = u[b]) /\ w[m] = <<>>
    BY <2>1, <2>3, AppendProperties
  <2>5. \A b \in 1..m : v[b] = w[b]
    <3> TAKE b \in 1..m
    <3>1. CASE b \in 1..n
      BY <1>5, <2>1, <2>2, <2>4, <3>1
    <3>2. CASE b = m
      BY <1>6, <2>2, <2>4, <3>2
    <3> QED
      BY <1>9, <3>1, <3>2
  <2> HIDE DEF w
  <2>6. v = w
    BY <2>2, <2>4, <2>5, SeqEqual
  <2> QED
    BY <2>6 DEF u, v, w
<1> QED
  BY <1>4, <1>7 DEF t

(* Parameters become the names of a block that has none yet.               *)
LEMMA NamesEnter ==
  ASSUME NEW s \in Stack, NEW st, NEW n, Enumerates(st, n, s),
         s.size > 0, s.vars[s.size - 1].id < 0,
         NEW params \in Seq(Id), s.size + Len(params) <= Capacity,
         NEW t, t = PushParams(s, params)
  PROVE  /\ Separators(t) = Separators(s)
         /\ Enumerates(st, n, t)
         /\ Read(st, n, t) = [Read(st, n, s) EXCEPT ![n] = params]
<1>0. PICK p \in Nat, k \in Nat : p = s.size /\ k = Len(params) /\ p > 0
  BY StartsShape, NamesShape
<1>1. /\ t \in Stack /\ t.size = p + k
      /\ \A i \in 0..p-1 : t.vars[i] = s.vars[i]
      /\ \A i \in p..p+k-1 : /\ i - p + 1 \in 1..k
                             /\ t.vars[i].id = params[i - p + 1] /\ t.vars[i].id \in Id
  <2>1. /\ t \in Stack /\ t.size = s.size + Len(params)
        /\ Agree(s, t, s.size)
        /\ \A i \in s.size..t.size-1 :
             /\ i - s.size + 1 \in 1..Len(params)
             /\ t.vars[i].id = params[i - s.size + 1] /\ t.vars[i].id \in Id
    BY ParamsShape
  <2> QED
    BY <1>0, <2>1 DEF Agree
<1>2. Separators(t) = Separators(s)
  <2>1. \A i \in 0..p+k-1 : i \in 0..p-1 \/ i \in p..p+k-1
    BY <1>0
  <2>2. \A i \in p..p+k-1 : ~(t.vars[i].id < 0)
    <3>1. \A id \in Id : id \in Nat /\ ~(id < 0)
      BY IdAssumption
    <3> QED
      BY <1>1, <3>1
  <2>3. Live(t) = 0..p+k-1 /\ Live(s) = 0..p-1 /\ \A i \in 0..p-1 : i \in 0..p+k-1
    <3>1. \A i \in 0..p-1 : i \in 0..p+k-1
      BY <1>0
    <3> QED
      BY <1>0, <1>1, <3>1 DEF Live
  <2>4. \A i : i \in Separators(t) <=> i \in Separators(s)
    BY <1>1, <2>1, <2>2, <2>3 DEF Separators, IsSeparator
  <2> QED
    BY <2>4
<1>3. Enumerates(st, n, t)
  BY <1>2 DEF Enumerates, Starts
<1>4. n \in Nat /\ n >= 1 /\ n \in 1..n /\ st[n] = p - 1
  <2>1. n \in Nat /\ n >= 1 /\ n \in 1..n
    BY Places
  <2>2. p - 1 \in Separators(s) /\ p - 1 \in Starts(s)
    BY <1>0 DEF Separators, Live, IsSeparator, Starts
  <2>3. PICK b \in 1..n : st[b] = p - 1
    BY <2>2 DEF Enumerates
  <2>4. st[n] \in Int /\ st[n] < p /\ (b = n \/ b < n)
    BY <1>0, <2>1, Places
  <2>5. b < n => st[b] < st[n]
    BY <2>1, Places
  <2> QED
    BY <1>0, <2>1, <2>3, <2>4, <2>5
<1>5. \A b \in 1..n : b # n => ReadBlock(st, n, t, b) = ReadBlock(st, n, s, b)
  <2> SUFFICES ASSUME NEW b \in 1..n, b # n
               PROVE  ReadBlock(st, n, t, b) = ReadBlock(st, n, s, b)
    OBVIOUS
  <2>1. EndOf(st, n, t, b) = EndOf(st, n, s, b)
    BY DEF EndOf
  <2> QED
    BY <1>0, <1>1, <1>3, <2>1, SameBlock
<1>6. ReadBlock(st, n, t, n) = params
  <2> DEFINE v == ReadBlock(st, n, t, n)
             e == EndOf(st, n, t, n)
  <2>1. e = p + k - 1 /\ e - st[n] = k
    <3>1. e = t.size - 1
      BY DEF EndOf
    <3>2. t.size = p + k /\ st[n] = p - 1
      BY <1>1, <1>4
    <3> HIDE DEF e, v
    <3>3. e = (p + k) - 1
      BY <3>1, <3>2
    <3>4. (p + k) - 1 = p + k - 1 /\ (p + k - 1) - (p - 1) = k
      OBVIOUS
    <3> QED
      BY <3>2, <3>3, <3>4
  <2>2. v \in Seq(Int) /\ Len(v) = k /\ \A i \in 1..k : v[i] = t.vars[p - 1 + i].id
    <3>1. t \in Stack /\ Enumerates(st, n, t) /\ n \in 1..n
      BY <1>1, <1>3, <1>4
    <3>2. v \in Seq(Int) /\ Len(v) = e - st[n]
      BY <3>1, BlockShape
    <3>3. \A i \in 1..e - st[n] : v[i] = t.vars[st[n] + i].id
      BY <3>1, BlockShape
    <3> HIDE DEF v, e
    <3> QED
      BY <1>4, <2>1, <3>2, <3>3
  <2> HIDE DEF v
  <2>3. \A i \in 1..k : v[i] = params[i]
    <3> TAKE i \in 1..k
    <3>1. p - 1 + i \in p..p+k-1 /\ (p - 1 + i) - p + 1 = i
      BY <1>0
    <3> QED
      BY <1>1, <2>2, <3>1
  <2>4. params \in Seq(Int)
    BY NamesShape
  <2>5. v = params
    BY <1>0, <2>2, <2>3, <2>4, SeqEqual
  <2> QED
    BY <2>5 DEF v
<1>7. Read(st, n, t) = [Read(st, n, s) EXCEPT ![n] = params]
  BY <1>4, <1>5, <1>6 DEF Read
<1> QED
  BY <1>2, <1>3, <1>7

(* What a pop is given and what it leaves, in the terms of the listings.   *)
PoppedTo(s, st, n, t, su, m) ==
  /\ s \in Stack /\ Enumerates(st, n, s) /\ Separators(s) # {}
  /\ m = n - 1 /\ su \in [1..m -> Int] /\ (\A b \in 1..m : su[b] = st[b])
  /\ t = LocalsStackPopScope(s)

(* Popping closes the innermost block and no other.                        *)
LEMMA BlockCloses ==
  ASSUME NEW s, NEW st, NEW n, NEW t, NEW su, NEW m, PoppedTo(s, st, n, t, su, m)
  PROVE  /\ n > 1 /\ Innermost(s) = st[n]
         /\ Enumerates(su, m, t)
         /\ Read(su, m, t) = SubSeq(Read(st, n, s), 1, m)
<1> /\ s \in Stack /\ Enumerates(st, n, s) /\ Separators(s) # {}
    /\ m = n - 1 /\ su \in [1..m -> Int] /\ (\A b \in 1..m : su[b] = st[b])
    /\ t = LocalsStackPopScope(s)
  BY DEF PoppedTo
<1>0. n \in Nat /\ n >= 1 /\ s.size \in Nat /\ Capacity \in Nat /\ n \in 1..n
      /\ m = n - 1 /\ m \in Nat /\ 1..m \subseteq 1..n
  BY Places, StartsShape, StackShape
<1>1. n > 1
  <2>1. PICK i \in Separators(s) : TRUE
    OBVIOUS
  <2>2. i \in Starts(s) /\ i >= 0
    BY <2>1, <1>0 DEF Starts, Separators, Live
  <2>3. PICK b \in 1..n : st[b] = i
    BY <2>2 DEF Enumerates
  <2>4. st[1] = -1
    BY Places
  <2> QED
    BY <1>0, <2>2, <2>3, <2>4
<1>2. Innermost(s) = st[n]
  <2>1. \A i \in Separators(s) : i \in Int /\ i <= st[n]
    <3> TAKE i \in Separators(s)
    <3>1. i \in Starts(s)
      BY DEF Starts
    <3>2. PICK b \in 1..n : st[b] = i
      BY <3>1 DEF Enumerates
    <3>3. b = n \/ b < n
      BY <1>0
    <3>4. st[b] \in Int /\ st[n] \in Int
      BY <1>0, Places
    <3>5. b < n => st[b] < st[n]
      BY <1>0, Places
    <3> QED
      BY <3>2, <3>3, <3>4, <3>5
  <2>2. st[n] \in Separators(s)
    <3>1. 1 \in 1..n /\ 1 < n
      BY <1>0, <1>1
    <3>2. -1 < st[n] /\ st[n] \in Starts(s)
      BY <1>0, <3>1, Places
    <3> QED
      BY <3>2 DEF Starts
  <2>3. \A i \in Separators(s) : (\A j \in Separators(s) : j <= i) => i = st[n]
    BY <2>1, <2>2
  <2> QED
    BY <2>1, <2>2, <2>3 DEF Innermost
<1>3. t \in Stack /\ t.vars = s.vars /\ t.size = st[n]
  <2>1. s = [size |-> s.size, vars |-> s.vars]
    BY StackShape
  <2>2. LocalsStackPopScope(s) = [size |-> st[n], vars |-> s.vars]
    BY <1>2, <2>1 DEF LocalsStackPopScope
  <2>3. LocalsStackPopScope(s) \in Stack
    BY PopShape
  <2> QED
    BY <2>2, <2>3
<1>4. Starts(t) = {i \in Starts(s) : i < st[n]}
  <2>1. st[n] \in Int /\ -1 < st[n] /\ st[n] < s.size
    <3>1. 1 \in 1..n /\ 1 < n
      BY <1>0, <1>1
    <3> QED
      BY <1>0, <3>1, Places
  <2>2. Separators(t) = {i \in Separators(s) : i < st[n]}
    BY <1>0, <1>3, <2>1 DEF Separators, Live
  <2> QED
    BY <2>1, <2>2 DEF Starts
<1>5. \A b \in 1..m : su[b] = st[b]
  OBVIOUS
<1>6. Enumerates(su, m, t)
  <2>1. \A b \in 1..m : st[b] \in Starts(t)
    <3> TAKE b \in 1..m
    <3>1. b \in 1..n /\ b < n
      BY <1>0
    <3> QED
      BY <1>0, <1>4, <3>1, Places
  <2>2. su \in [1..m -> Starts(t)]
    BY <2>1
  <2>3. \A b, c \in 1..m : b < c => su[b] < su[c]
    BY <1>0, <1>5, Places
  <2>4. \A i \in Starts(t) : \E b \in 1..m : su[b] = i
    <3> TAKE i \in Starts(t)
    <3>1. i \in Starts(s) /\ i < st[n]
      BY <1>4
    <3>2. PICK b \in 1..n : st[b] = i
      BY <3>1 DEF Enumerates
    <3>3. b < n
      BY <1>0, <3>1, <3>2, Places
    <3>4. b \in 1..m
      BY <1>0, <3>3
    <3> QED
      BY <1>5, <3>2, <3>4
  <2>5. m \in Nat \ {0}
    BY <1>0, <1>1
  <2> QED
    BY <2>2, <2>3, <2>4, <2>5 DEF Enumerates
<1>7. \A b \in 1..m : ReadBlock(su, m, t, b) = ReadBlock(st, n, s, b)
  <2> TAKE b \in 1..m
  <2>1. b \in 1..n /\ b # n /\ su[b] = st[b]
    BY <1>0, <1>5
  <2>2. EndOf(su, m, t, b) = EndOf(st, n, s, b)
    <3>1. CASE b = m
      BY <1>0, <1>3, <2>1, <3>1 DEF EndOf
    <3>2. CASE b # m
      <4>1. b + 1 \in 1..m
        BY <1>0, <3>2
      <4> QED
        BY <1>5, <2>1, <3>2, <4>1 DEF EndOf
    <3> QED
      BY <3>1, <3>2
  <2>3. s \in Stack /\ t \in Stack /\ \A i \in 0..s.size-1 : t.vars[i] = s.vars[i]
    BY <1>3
  <2> QED
    BY <1>6, <2>1, <2>2, <2>3, SameBlock
<1>8. Read(su, m, t) = SubSeq(Read(st, n, s), 1, m)
  <2> DEFINE u == Read(st, n, s)
             v == Read(su, m, t)
             w == SubSeq(u, 1, m)
  <2>1. u \in Seq(Seq(Int)) /\ Len(u) = n /\ \A b \in 1..n : u[b] = ReadBlock(st, n, s, b)
    BY ReadShape
  <2>2. /\ v \in Seq(Seq(Int)) /\ Len(v) = m
        /\ \A b \in 1..m : v[b] = ReadBlock(su, m, t, b)
    BY <1>3, <1>6, ReadShape
  <2> HIDE DEF u, v
  <2>3. w \in Seq(Seq(Int)) /\ Len(w) = m /\ \A b \in 1..m : w[b] = u[b]
    <3>1. 1 \in Int /\ m \in Int /\ 1 <= m
      BY <1>0, <1>1
    <3>2. \A i \in 1..m : u[i] \in Seq(Int)
      BY <1>0, <2>1, ElementOfSeq
    <3>3. /\ w \in Seq(Seq(Int))
          /\ Len(w) = IF 1 <= m THEN m - 1 + 1 ELSE 0
          /\ \A i \in 1..m-1+1 : w[i] = u[1 + i - 1]
      BY <3>1, <3>2, SubSeqProperties
    <3>4. m - 1 + 1 = m /\ \A i \in 1..m : 1 + i - 1 = i
      BY <1>0
    <3> QED
      BY <3>1, <3>3, <3>4
  <2>4. \A b \in 1..m : v[b] = w[b]
    BY <1>0, <1>7, <2>1, <2>2, <2>3
  <2> HIDE DEF w
  <2>5. v = w
    BY <2>2, <2>3, <2>4, SeqEqual
  <2> QED
    BY <2>5 DEF u, v, w
<1> QED
  BY <1>1, <1>2, <1>6, <1>8

-----------------------------------------------------------------------------

(* The inductive invariant.  Blocks can be counted out, and while a        *)
(* function is open exactly one of the separators is a function's.         *)
FunctionStarts(s) == {i \in Separators(s) : s.vars[i].id = FUNC_SCOPE}

OneFunction(s) == \A i, j \in FunctionStarts(s) : i = j

Nested(s, f) ==
  /\ s \in Stack
  /\ f \in BOOLEAN
  /\ \E n, st : Enumerates(st, n, s)
  /\ f <=> FunctionStarts(s) # {}
  /\ OneFunction(s)

(* The mapping, read off a list of the starts.                             *)
LEMMA MappedFunction ==
  ASSUME NEW s \in Stack, OneFunction(s), NEW st, NEW n, Enumerates(st, n, s)
  PROVE  /\ \A b \in 1..n : st[b] \in FunctionStarts(s) => BlockOfFunction(s) = b
         /\ \A i \in FunctionStarts(s) : \E b \in 1..n : st[b] = i
<1>0. n \in Nat /\ n >= 1 /\ Cardinality(Starts(s)) = n
      /\ \A b \in 1..n : BlockStart(s, b) = st[b]
  BY Places, CountedOut
<1>1. \A b \in 1..n : st[b] \in FunctionStarts(s) <=> st[b] >= 0 /\ s.vars[st[b]].id = FUNC_SCOPE
  <2> TAKE b \in 1..n
  <2>1. st[b] \in Starts(s) /\ s.size \in Nat /\ st[b] \in Int /\ st[b] < s.size
    BY Places, StartsShape
  <2>2. \A i \in Separators(s) : i \in Int /\ i >= 0
    BY <2>1 DEF Separators, Live
  <2>3. st[b] = -1 \/ st[b] \in Separators(s)
    BY <2>1 DEF Starts
  <2> QED
    BY <2>2, <2>3 DEF FunctionStarts
<1>2. \A b, c \in 1..n : st[b] \in FunctionStarts(s) /\ st[c] \in FunctionStarts(s) => b = c
  <2> SUFFICES ASSUME NEW b \in 1..n, NEW c \in 1..n, st[b] \in FunctionStarts(s),
                      st[c] \in FunctionStarts(s), b # c
               PROVE  FALSE
    OBVIOUS
  <2>1. st[b] = st[c] /\ st[b] \in Int
    BY Places DEF OneFunction
  <2>2. b < c \/ c < b
    BY <1>0
  <2>3. st[b] < st[c] \/ st[c] < st[b]
    BY <2>2, Places
  <2> QED
    BY <2>1, <2>3
<1>3. \A i \in FunctionStarts(s) : \E b \in 1..n : st[b] = i
  BY DEF FunctionStarts, Enumerates, Starts
<1>4. ASSUME NEW b \in 1..n, st[b] \in FunctionStarts(s) PROVE BlockOfFunction(s) = b
  <2> DEFINE Its(c) == BlockStart(s, c) >= 0 /\ s.vars[BlockStart(s, c)].id = FUNC_SCOPE
  <2>1. \A c \in 1..n : Its(c) <=> st[c] \in FunctionStarts(s)
    BY <1>0, <1>1
  <2>2. Its(b) /\ \A c \in 1..n : Its(c) => c = b
    BY <1>2, <1>4, <2>1
  <2>3. BlockOfFunction(s) = CHOOSE c \in 1..n : Its(c)
    BY <1>0 DEF BlockOfFunction
  <2> HIDE DEF Its
  <2>4. (CHOOSE c \in 1..n : Its(c)) = b
    BY <2>2
  <2> QED
    BY <2>3, <2>4
<1> QED
  BY <1>3, <1>4

LEMMA InitRefines == Init => Nested(stk, inFunction) /\ Scopes!Init
<1> SUFFICES ASSUME Init PROVE Nested(stk, inFunction) /\ Scopes!Init
  OBVIOUS
<1> DEFINE st == [b \in 1..1 |-> -1]
<1>1. stk.size = 0 /\ stk \in Stack
  BY CapacityAssumption DEF Init, LocalsStackInit, Stack, Slot
<1>2. Separators(stk) = {} /\ Starts(stk) = {-1}
  BY <1>1 DEF Separators, Live, Starts
<1>3. Enumerates(st, 1, stk)
  BY <1>2 DEF Enumerates
<1> HIDE DEF st
<1>4. Nested(stk, inFunction)
  <2>1. FunctionStarts(stk) = {} /\ OneFunction(stk)
    BY <1>2 DEF FunctionStarts, OneFunction
  <2>2. \E n, su : Enumerates(su, n, stk)
    BY <1>3
  <2>3. inFunction = FALSE
    BY DEF Init
  <2> QED
    BY <1>1, <2>1, <2>2, <2>3 DEF Nested
<1>5. Blocks(stk) = << <<>> >>
  <2>1. Blocks(stk) = Read(st, 1, stk)
    BY <1>1, <1>3, BlocksRead
  <2>2. Len(Read(st, 1, stk)) = 1 /\ Read(st, 1, stk) \in Seq(Seq(Int))
        /\ Read(st, 1, stk)[1] = ReadBlock(st, 1, stk, 1)
    <3> DEFINE one == 1
    <3>1. Enumerates(st, one, stk) /\ one \in 1..one
      BY <1>3
    <3> HIDE DEF one
    <3>2. Len(Read(st, one, stk)) = one /\ Read(st, one, stk) \in Seq(Seq(Int))
          /\ Read(st, one, stk)[one] = ReadBlock(st, one, stk, one)
      BY <1>1, <3>1, ReadShape
    <3> QED
      BY <3>2 DEF one
  <2>3. EndOf(st, 1, stk, 1) = -1 /\ st[1] = -1
    BY <1>1 DEF EndOf, st
  <2>4. ReadBlock(st, 1, stk, 1) \in Seq(Int) /\ Len(ReadBlock(st, 1, stk, 1)) = 0
    BY <1>1, <1>3, <2>3, BlockShape
  <2>5. ReadBlock(st, 1, stk, 1) = <<>>
    BY <2>4, EmptySeq
  <2> QED
    BY <2>1, <2>2, <2>5, SeqEqual
<1>6. FunctionBlock(stk, inFunction) = 0
  BY DEF FunctionBlock, Init
<1> QED
  BY <1>4, <1>5, <1>6 DEF Scopes!Init

-----------------------------------------------------------------------------

(* What each kind of stack operation does to the invariant and, under the  *)
(* mapping, to the blocks.                                                 *)
LEMMA DeclareRefines ==
  ASSUME NEW s, NEW f, Nested(s, f), s.size < Capacity, NEW slot \in Slot, slot.id \in Id,
         NEW t, t = Grown(s, slot)
  PROVE  /\ Nested(t, f)
         /\ Blocks(t) = [Blocks(s) EXCEPT ![Len(Blocks(s))] = Append(@, slot.id)]
         /\ FunctionBlock(t, f) = FunctionBlock(s, f)
<1>0. PICK n, st : Enumerates(st, n, s)
  BY DEF Nested
<1>1. slot.id >= 0 /\ s \in Stack /\ t \in Stack
  <2>1. s \in Stack /\ Grown(s, slot) \in Stack
    BY PushShape DEF Nested
  <2>2. slot.id \in Nat
    BY IdAssumption
  <2> QED
    BY <2>1, <2>2
<1>2. /\ Enumerates(st, n, t)
      /\ Read(st, n, t) = [Read(st, n, s) EXCEPT ![n] = Append(@, slot.id)]
  BY <1>0, <1>1, NameEnters
<1>3. FunctionStarts(t) = FunctionStarts(s)
  <2>1. /\ s.size \in Nat /\ Capacity \in Nat /\ t.size = s.size + 1
        /\ t.vars[s.size] = slot
        /\ \A i \in 0..s.size-1 : t.vars[i] = s.vars[i]
    BY <1>1, StartsShape, StackShape, PushShape
  <2>2. \A i \in 0..s.size : i \in 0..s.size-1 \/ i = s.size
    BY <2>1
  <2>3. ~IsSeparator(slot) /\ Live(t) = 0..s.size /\ Live(s) = 0..s.size-1
    BY <1>1, <2>1, SlotShape DEF Live, IsSeparator
  <2>4. \A i : i \in FunctionStarts(t) <=> i \in FunctionStarts(s)
    BY <2>1, <2>2, <2>3 DEF FunctionStarts, Separators
  <2> QED
    BY <2>4
<1>4. Nested(t, f)
  <2>1. OneFunction(t) /\ \E m, su : Enumerates(su, m, t)
    BY <1>2, <1>3 DEF OneFunction, Nested
  <2> QED
    BY <1>1, <1>3, <2>1 DEF Nested
<1>5. Blocks(s) = Read(st, n, s) /\ Blocks(t) = Read(st, n, t) /\ Len(Blocks(s)) = n
  <2>1. Blocks(s) = Read(st, n, s)
    BY <1>0, <1>1, BlocksRead
  <2>2. Blocks(t) = Read(st, n, t)
    BY <1>1, <1>2, BlocksRead
  <2> QED
    BY <1>0, <1>1, <2>1, <2>2, ReadShape
<1>6. FunctionBlock(t, f) = FunctionBlock(s, f)
  <2>1. CASE ~f
    BY <2>1 DEF FunctionBlock
  <2>2. CASE f
    <3>1. PICK b \in 1..n : st[b] \in FunctionStarts(s)
      BY <1>0, <1>1, <2>2, MappedFunction DEF Nested
    <3>2. BlockOfFunction(s) = b
      BY <1>0, <1>1, <3>1, MappedFunction DEF Nested
    <3>3. BlockOfFunction(t) = b
      BY <1>1, <1>2, <1>3, <1>4, <3>1, MappedFunction DEF Nested
    <3> QED
      BY <2>2, <3>2, <3>3 DEF FunctionBlock
  <2> QED
    BY <2>1, <2>2
<1> QED
  BY <1>2, <1>4, <1>5, <1>6

Opens(s, f, slot, t, g) ==
  /\ Nested(s, f) /\ s.size < Capacity
  /\ slot \in Slot /\ slot.id < 0 /\ t = Grown(s, slot)
  /\ slot.id = FUNC_SCOPE => ~f /\ g = TRUE
  /\ slot.id # FUNC_SCOPE => g = f

LEMMA OpenRefines ==
  ASSUME NEW s, NEW f, NEW slot, NEW t, NEW g, Opens(s, f, slot, t, g)
  PROVE  /\ Nested(t, g) /\ Blocks(t) = Append(Blocks(s), <<>>)
         /\ FunctionBlock(t, g) = IF slot.id = FUNC_SCOPE THEN Len(Blocks(t)) ELSE FunctionBlock(s, f)
<1> /\ Nested(s, f) /\ s.size < Capacity
    /\ slot \in Slot /\ slot.id < 0 /\ t = Grown(s, slot)
    /\ slot.id = FUNC_SCOPE => ~f /\ g = TRUE
    /\ slot.id # FUNC_SCOPE => g = f
  BY DEF Opens
<1>0. PICK n, st : Enumerates(st, n, s)
  BY DEF Nested
<1>1. s \in Stack /\ t \in Stack /\ n \in Nat
  <2>1. s \in Stack /\ Grown(s, slot) \in Stack
    BY PushShape DEF Nested
  <2> QED
    BY <1>0, <2>1, Places
<1>2. PICK m \in Nat : m = n + 1
  BY <1>1
<1> DEFINE su == [b \in 1..m |-> IF b = m THEN s.size ELSE st[b]]
<1>3. su \in [1..m -> Int] /\ su[m] = s.size /\ \A b \in 1..n : su[b] = st[b]
  <2>1. s.size \in Int /\ \A b \in 1..n : st[b] \in Int
    BY <1>0, <1>1, Places, StartsShape
  <2>2. \A b \in 1..m : b = m \/ b \in 1..n
    BY <1>1, <1>2
  <2>3. m \in 1..m /\ \A b \in 1..n : b \in 1..m /\ b # m
    BY <1>1, <1>2
  <2> QED
    BY <2>1, <2>2, <2>3
<1> HIDE DEF su
<1>4. Enumerates(su, m, t) /\ Read(su, m, t) = Append(Read(st, n, s), <<>>)
  BY <1>0, <1>1, <1>2, <1>3, BlockOpens
<1>5. /\ s.size \in Nat /\ Capacity \in Nat /\ t.size = s.size + 1
      /\ t.vars[s.size] = slot
      /\ \A i \in 0..s.size-1 : t.vars[i] = s.vars[i]
  <2>1. s.size \in Nat /\ Capacity \in Nat
    BY <1>1, StartsShape, StackShape
  <2> QED
    BY <1>1, <2>1, PushShape
<1>6. FunctionStarts(t) = FunctionStarts(s)
                              \union (IF slot.id = FUNC_SCOPE THEN {s.size} ELSE {})
  <2>1. \A i \in 0..s.size : i \in 0..s.size-1 \/ i = s.size
    BY <1>5
  <2>2. IsSeparator(slot) /\ Live(t) = 0..s.size /\ Live(s) = 0..s.size-1
    BY <1>1, <1>5, SlotShape DEF Live, IsSeparator
  <2>3. \A i : i \in FunctionStarts(t) <=>
               i \in FunctionStarts(s) \/ (slot.id = FUNC_SCOPE /\ i = s.size)
    BY <1>5, <2>1, <2>2 DEF FunctionStarts, Separators
  <2> QED
    BY <2>3
<1>7. Nested(t, g)
  <2>1. \E k, sv : Enumerates(sv, k, t)
    BY <1>4
  <2>2. CASE slot.id = FUNC_SCOPE
    <3>1. FunctionStarts(t) = {s.size}
      BY <1>6, <2>2 DEF Nested
    <3> QED
      BY <1>1, <2>1, <2>2, <3>1 DEF Nested, OneFunction
  <2>3. CASE slot.id # FUNC_SCOPE
    <3>1. FunctionStarts(t) = FunctionStarts(s)
      BY <1>6, <2>3
    <3> QED
      BY <1>1, <2>1, <2>3, <3>1 DEF Nested, OneFunction
  <2> QED
    BY <2>2, <2>3
<1>8. Blocks(t) = Append(Blocks(s), <<>>) /\ Len(Blocks(t)) = m
  <2>1. Blocks(s) = Read(st, n, s)
    BY <1>0, <1>1, BlocksRead
  <2>2. Blocks(t) = Read(su, m, t)
    BY <1>1, <1>4, BlocksRead
  <2> QED
    BY <1>1, <1>4, <2>1, <2>2, ReadShape
<1>9. CASE slot.id = FUNC_SCOPE
  <2>2. m \in 1..m /\ su[m] \in FunctionStarts(t)
    BY <1>1, <1>2, <1>3, <1>6, <1>9
  <2>3. FunctionBlock(t, g) = m
    BY <1>1, <1>4, <1>7, <1>9, <2>2, MappedFunction DEF Nested, FunctionBlock
  <2> QED
    BY <1>7, <1>8, <1>9, <2>3
<1>10. CASE slot.id # FUNC_SCOPE
  <2>1. FunctionStarts(t) = FunctionStarts(s)
    BY <1>6, <1>10
  <2>2. FunctionBlock(t, g) = FunctionBlock(s, f)
    <3>1. CASE ~f
      BY <1>10, <3>1 DEF FunctionBlock
    <3>2. CASE f
      <4>1. PICK b \in 1..n : st[b] \in FunctionStarts(s)
        BY <1>0, <1>1, <3>2, MappedFunction DEF Nested
      <4>2. BlockOfFunction(s) = b
        BY <1>0, <1>1, <4>1, MappedFunction DEF Nested
      <4>3. b \in 1..m /\ su[b] \in FunctionStarts(t)
        BY <1>1, <1>2, <1>3, <2>1, <4>1
      <4>4. BlockOfFunction(t) = b
        BY <1>1, <1>4, <1>7, <4>3, MappedFunction DEF Nested
      <4> QED
        BY <1>10, <3>2, <4>2, <4>4 DEF FunctionBlock
    <3> QED
      BY <3>1, <3>2
  <2> QED
    BY <1>7, <1>8, <1>10, <2>2
<1> QED
  BY <1>9, <1>10

(* A function's parameters are the first names of its block.               *)
LEMMA ParamsRefine ==
  ASSUME NEW s, NEW f, Nested(s, f), s.size > 0, s.vars[s.size - 1].id < 0,
         NEW params \in Seq(Id), s.size + Len(params) <= Capacity,
         NEW t, t = PushParams(s, params)
  PROVE  /\ Nested(t, f)
         /\ Blocks(t) = [Blocks(s) EXCEPT ![Len(Blocks(s))] = params]
         /\ FunctionBlock(t, f) = FunctionBlock(s, f)
<1>0. PICK n, st : Enumerates(st, n, s)
  BY DEF Nested
<1>1. s \in Stack /\ t \in Stack
  BY ParamsShape DEF Nested
<1>2. /\ Enumerates(st, n, t)
      /\ Read(st, n, t) = [Read(st, n, s) EXCEPT ![n] = params]
      /\ Separators(t) = Separators(s)
  BY <1>0, <1>1, NamesEnter
<1>3. FunctionStarts(t) = FunctionStarts(s)
  <2>1. /\ s.size \in Nat /\ s.size <= t.size
        /\ \A i \in 0..s.size-1 : t.vars[i] = s.vars[i]
    BY <1>1, ParamsShape DEF Agree, Stack
  <2> QED
    BY <1>2, <2>1 DEF FunctionStarts, Separators, Live
<1>4. Nested(t, f)
  <2>1. OneFunction(t) /\ \E m, su : Enumerates(su, m, t)
    BY <1>2, <1>3 DEF OneFunction, Nested
  <2> QED
    BY <1>1, <1>3, <2>1 DEF Nested
<1>5. Blocks(s) = Read(st, n, s) /\ Blocks(t) = Read(st, n, t) /\ Len(Blocks(s)) = n
  <2>1. Blocks(s) = Read(st, n, s)
    BY <1>0, <1>1, BlocksRead
  <2>2. Blocks(t) = Read(st, n, t)
    BY <1>1, <1>2, BlocksRead
  <2> QED
    BY <1>0, <1>1, <2>1, <2>2, ReadShape
<1>6. FunctionBlock(t, f) = FunctionBlock(s, f)
  <2>1. CASE ~f
    BY <2>1 DEF FunctionBlock
  <2>2. CASE f
    <3>1. PICK b \in 1..n : st[b] \in FunctionStarts(s)
      BY <1>0, <1>1, <2>2, MappedFunction DEF Nested
    <3>2. BlockOfFunction(s) = b
      BY <1>0, <1>1, <3>1, MappedFunction DEF Nested
    <3>3. BlockOfFunction(t) = b
      BY <1>1, <1>2, <1>3, <1>4, <3>1, MappedFunction DEF Nested
    <3> QED
      BY <2>2, <3>2, <3>3 DEF FunctionBlock
  <2> QED
    BY <2>1, <2>2
<1> QED
  BY <1>2, <1>4, <1>5, <1>6

Closes(s, f, t, g) ==
  /\ Nested(s, f) /\ Separators(s) # {} /\ t = LocalsStackPopScope(s)
  /\ s.vars[Innermost(s)].id = FUNC_SCOPE => g = FALSE
  /\ s.vars[Innermost(s)].id # FUNC_SCOPE => g = f

LEMMA CloseRefines ==
  ASSUME NEW s, NEW f, NEW t, NEW g, Closes(s, f, t, g)
  PROVE  /\ Nested(t, g) /\ Len(Blocks(s)) > 1
         /\ Blocks(t) = SubSeq(Blocks(s), 1, Len(Blocks(s)) - 1)
         /\ FunctionBlock(t, g)
              = IF FunctionBlock(s, f) = Len(Blocks(s)) THEN 0 ELSE FunctionBlock(s, f)
         /\ FunctionBlock(s, f) = Len(Blocks(s)) => s.vars[Innermost(s)].id = FUNC_SCOPE
<1> /\ Nested(s, f) /\ Separators(s) # {} /\ t = LocalsStackPopScope(s)
    /\ s.vars[Innermost(s)].id = FUNC_SCOPE => g = FALSE
    /\ s.vars[Innermost(s)].id # FUNC_SCOPE => g = f
  BY DEF Closes
<1>0. PICK n, st : Enumerates(st, n, s)
  BY DEF Nested
<1>1. s \in Stack /\ t \in Stack /\ n \in Nat /\ t.vars = s.vars
  <2>1. s \in Stack
    BY DEF Nested
  <2> QED
    BY <1>0, <2>1, Places, PopShape
<1>2. PICK m \in Int : m = n - 1
  BY <1>1
<1> DEFINE su == [b \in 1..m |-> st[b]]
<1>3. su \in [1..m -> Int] /\ \A b \in 1..m : su[b] = st[b]
  BY <1>0, <1>1, <1>2, Places
<1> HIDE DEF su
<1>4. /\ n > 1 /\ Innermost(s) = st[n]
      /\ Enumerates(su, m, t) /\ Read(su, m, t) = SubSeq(Read(st, n, s), 1, m)
  <2>1. PoppedTo(s, st, n, t, su, m)
    BY <1>0, <1>1, <1>2, <1>3 DEF PoppedTo
  <2> QED
    BY <2>1, BlockCloses
<1>5. n \in 1..n /\ st[n] \in Int /\ st[n] \in Separators(s)
  <2>1. n \in 1..n /\ st[n] \in Starts(s) /\ st[n] \in Int /\ st[1] = -1 /\ st[1] < st[n]
    BY <1>0, <1>1, <1>4, Places
  <2> QED
    BY <2>1 DEF Starts
<1>6. Starts(t) = {i \in Starts(s) : i < st[n]}
  <2>1. \A i \in Starts(t) : i \in Starts(s) /\ i < st[n]
    <3> TAKE i \in Starts(t)
    <3>1. PICK b \in 1..m : su[b] = i
      BY <1>4 DEF Enumerates
    <3>2. b \in 1..n /\ b < n /\ st[b] = i
      BY <1>1, <1>2, <1>3, <3>1
    <3> QED
      BY <1>0, <1>1, <1>5, <3>2, Places
  <2>2. \A i \in Starts(s) : i < st[n] => i \in Starts(t)
    <3> TAKE i \in Starts(s)
    <3> HAVE i < st[n]
    <3>1. PICK b \in 1..n : st[b] = i
      BY <1>0 DEF Enumerates
    <3>2. b < n
      BY <1>0, <1>1, <1>5, <3>1, Places
    <3>3. b \in 1..m /\ su[b] = i
      BY <1>1, <1>2, <1>3, <3>1, <3>2
    <3> QED
      BY <1>4, <3>3 DEF Enumerates
  <2> QED
    BY <2>1, <2>2
<1>7. FunctionStarts(t) = FunctionStarts(s) \ {st[n]}
  <2>1. \A i \in Separators(s) : i \in Int /\ i >= 0 /\ i <= st[n]
    <3> TAKE i \in Separators(s)
    <3>1. i \in Starts(s) /\ i \in Int /\ i >= 0
      BY <1>1, StartsShape DEF Starts, Separators, Live
    <3>2. PICK b \in 1..n : st[b] = i
      BY <1>0, <3>1 DEF Enumerates
    <3>3. b = n \/ b < n
      BY <1>1
    <3> QED
      BY <1>0, <1>1, <1>5, <3>1, <3>2, <3>3, Places
  <2>2. \A i \in Separators(t) : i \in Int /\ i >= 0
    BY <1>1, StartsShape DEF Separators, Live
  <2>3. \A i : i \in Separators(t) <=> i \in Separators(s) /\ i < st[n]
    BY <1>5, <1>6, <2>1, <2>2 DEF Starts
  <2>4. \A i \in Separators(s) : i < st[n] <=> i # st[n]
    BY <1>5, <2>1
  <2> QED
    BY <1>1, <2>3, <2>4 DEF FunctionStarts
<1>8. Nested(t, g)
  <2>1. \E k, sv : Enumerates(sv, k, t)
    BY <1>4
  <2>2. OneFunction(t)
    BY <1>7 DEF Nested, OneFunction
  <2>3. CASE s.vars[st[n]].id = FUNC_SCOPE
    <3>1. st[n] \in FunctionStarts(s)
      BY <1>5, <2>3 DEF FunctionStarts
    <3>2. FunctionStarts(t) = {}
      BY <1>7, <3>1 DEF Nested, OneFunction
    <3> QED
      BY <1>1, <1>4, <2>1, <2>2, <2>3, <3>2 DEF Nested
  <2>4. CASE s.vars[st[n]].id # FUNC_SCOPE
    <3>1. FunctionStarts(t) = FunctionStarts(s)
      BY <1>7, <2>4 DEF FunctionStarts
    <3> QED
      BY <1>1, <1>4, <2>1, <2>2, <2>4, <3>1 DEF Nested
  <2> QED
    BY <2>3, <2>4
<1>9. Len(Blocks(s)) = n /\ Blocks(t) = SubSeq(Blocks(s), 1, n - 1)
  <2>1. Blocks(s) = Read(st, n, s)
    BY <1>0, <1>1, BlocksRead
  <2>2. Blocks(t) = Read(su, m, t)
    BY <1>1, <1>4, BlocksRead
  <2> QED
    BY <1>0, <1>1, <1>2, <1>4, <2>1, <2>2, ReadShape
<1>10. /\ FunctionBlock(t, g) = IF FunctionBlock(s, f) = n THEN 0 ELSE FunctionBlock(s, f)
       /\ FunctionBlock(s, f) = n => s.vars[st[n]].id = FUNC_SCOPE
  <2>1. CASE ~f
    BY <1>1, <1>4, <2>1 DEF FunctionBlock, FunctionStarts, Nested
  <2>2. CASE f
    <3>1. PICK b \in 1..n : st[b] \in FunctionStarts(s)
      BY <1>0, <1>1, <2>2, MappedFunction DEF Nested
    <3>2. FunctionBlock(s, f) = b
      BY <1>0, <1>1, <2>2, <3>1, MappedFunction DEF Nested, FunctionBlock
    <3>3. CASE b = n
      BY <1>4, <3>1, <3>2, <3>3 DEF FunctionStarts, FunctionBlock
    <3>4. CASE b # n
      <4>1. b \in 1..m /\ b < n /\ su[b] = st[b]
        BY <1>1, <1>2, <1>3, <3>4
      <4>2. st[b] \in Int /\ st[b] < st[n]
        BY <1>0, <1>1, <1>5, <4>1, Places
      <4>3. su[b] \in FunctionStarts(t)
        BY <1>5, <1>7, <3>1, <4>1, <4>2
      <4>4. s.vars[st[n]].id # FUNC_SCOPE
        <5>1. st[n] \notin FunctionStarts(s)
          BY <1>5, <3>1, <4>2 DEF Nested, OneFunction
        <5> QED
          BY <1>5, <5>1 DEF FunctionStarts
      <4>5. BlockOfFunction(t) = b
        BY <1>1, <1>4, <1>8, <4>1, <4>3, MappedFunction DEF Nested
      <4> QED
        BY <1>4, <2>2, <3>2, <3>4, <4>4, <4>5 DEF FunctionBlock
    <3> QED
      BY <3>3, <3>4
  <2> QED
    BY <2>1, <2>2
<1> QED
  BY <1>1, <1>4, <1>8, <1>9, <1>10

(* Every step of the compiler is the lexical step it stands for.           *)
NestedState == Nested(stk, inFunction)

LEMMA StepRefines == NestedState /\ [Next]_vars => NestedState' /\ [Scopes!Next]_(Scopes!vars)
<1> SUFFICES ASSUME NestedState, [Next]_vars
             PROVE  NestedState' /\ [Scopes!Next]_(Scopes!vars)
  OBVIOUS
<1>0. /\ Nested(stk, inFunction) /\ stk \in Stack /\ inFunction \in BOOLEAN
      /\ stk.size \in Nat /\ Capacity \in Nat /\ stk.size <= Capacity
  BY SlotsTyped DEF NestedState, Nested
<1>1. ASSUME NEW id \in Id, Declare(id) PROVE NestedState' /\ Scopes!Next
  <2>1. NextAddress(stk) \in Int
    <3>1. stk.size > 0 => stk.size - 1 \in 0..Capacity-1
      BY <1>0
    <3> QED
      BY <1>0, <3>1, SlotsTyped DEF NextAddress, LocalsStackTop, Addr
  <2> DEFINE slot == [id |-> id, address |-> NextAddress(stk)]
  <2>2. slot \in Slot /\ slot.id = id
    BY <2>1 DEF Slot
  <2>3. stk.size < Capacity /\ stk' = Grown(stk, slot) /\ inFunction' = inFunction
    BY <1>1 DEF Declare, HasRoom, LocalsStackPush
  <2> HIDE DEF slot
  <2>4. /\ Nested(stk', inFunction)
        /\ Blocks(stk') = [Blocks(stk) EXCEPT ![Len(Blocks(stk))] = Append(@, slot.id)]
        /\ FunctionBlock(stk', inFunction) = FunctionBlock(stk, inFunction)
    BY <1>0, <2>2, <2>3, DeclareRefines
  <2> QED
    BY <2>2, <2>3, <2>4 DEF Scopes!Next, Scopes!Declare, NestedState
<1>2. CASE OpenBlock
  <2>1. stk.size < Capacity /\ stk' = LocalsStackInitScope(stk, NORMAL_SCOPE)
        /\ inFunction' = inFunction
    BY <1>2 DEF OpenBlock, HasRoom
  <2>2. PICK slot \in Slot : slot.id = NORMAL_SCOPE /\ slot.id < 0 /\ stk' = Grown(stk, slot)
    BY <1>0, <2>1, ScopeShape
  <2>3. slot.id # FUNC_SCOPE
    BY <2>2 DEF NORMAL_SCOPE, FUNC_SCOPE
  <2>4. /\ Nested(stk', inFunction) /\ Blocks(stk') = Append(Blocks(stk), <<>>)
        /\ FunctionBlock(stk', inFunction) = FunctionBlock(stk, inFunction)
    <3>1. Opens(stk, inFunction, slot, stk', inFunction)
      BY <1>0, <2>1, <2>2, <2>3 DEF Opens
    <3> QED
      BY <2>3, <3>1, OpenRefines
  <2> QED
    BY <2>1, <2>4 DEF Scopes!Next, Scopes!OpenBlock, NestedState
<1>3. CASE CloseBlock
  <2>1. /\ Separators(stk) # {} /\ stk' = LocalsStackPopScope(stk) /\ inFunction' = inFunction
        /\ stk.vars[Innermost(stk)].id # FUNC_SCOPE
    BY <1>3 DEF CloseBlock, InnermostIs, NORMAL_SCOPE, FUNC_SCOPE
  <2>2. /\ Nested(stk', inFunction) /\ Len(Blocks(stk)) > 1
        /\ Blocks(stk') = SubSeq(Blocks(stk), 1, Len(Blocks(stk)) - 1)
        /\ FunctionBlock(stk', inFunction)
             = IF FunctionBlock(stk, inFunction) = Len(Blocks(stk)) THEN 0
               ELSE FunctionBlock(stk, inFunction)
    <3>1. Closes(stk, inFunction, stk', inFunction)
      BY <1>0, <2>1 DEF Closes
    <3> QED
      BY <3>1, CloseRefines
  <2> QED
    BY <2>1, <2>2 DEF Scopes!Next, Scopes!Close, NestedState
<1>4. CASE NextBlock
  <2> DEFINE s == LocalsStackPopScope(stk)
  <2>1. /\ Separators(stk) # {} /\ stk.vars[Innermost(stk)].id # FUNC_SCOPE
        /\ stk' = LocalsStackInitScope(s, NORMAL_SCOPE) /\ inFunction' = inFunction
    BY <1>4 DEF NextBlock, InnermostIs, NORMAL_SCOPE, FUNC_SCOPE
  <2>2. /\ Nested(s, inFunction) /\ Len(Blocks(stk)) > 1
        /\ Blocks(s) = SubSeq(Blocks(stk), 1, Len(Blocks(stk)) - 1)
        /\ FunctionBlock(stk, inFunction) # Len(Blocks(stk))
        /\ FunctionBlock(s, inFunction) = FunctionBlock(stk, inFunction)
    <3>1. Closes(stk, inFunction, s, inFunction)
      BY <1>0, <2>1 DEF Closes
    <3> HIDE DEF s
    <3> QED
      BY <2>1, <3>1, CloseRefines
  <2>3. s \in Stack /\ s.size < Capacity
    <3>1. s \in Stack
      BY <1>0, PopShape
    <3>2. Innermost(stk) \in 0..stk.size-1 /\ s.size = Innermost(stk)
      BY <1>0, <2>1, InnermostShape
    <3> QED
      BY <1>0, <3>1, <3>2
  <2> HIDE DEF s
  <2>4. PICK slot \in Slot : slot.id = NORMAL_SCOPE /\ slot.id < 0 /\ stk' = Grown(s, slot)
    BY <2>1, <2>3, ScopeShape
  <2>5. slot.id # FUNC_SCOPE
    BY <2>4 DEF NORMAL_SCOPE, FUNC_SCOPE
  <2>6. /\ Nested(stk', inFunction) /\ Blocks(stk') = Append(Blocks(s), <<>>)
        /\ FunctionBlock(stk', inFunction) = FunctionBlock(s, inFunction)
    <3>1. Opens(s, inFunction, slot, stk', inFunction)
      BY <2>2, <2>3, <2>4, <2>5 DEF Opens
    <3> QED
      BY <2>5, <3>1, OpenRefines
  <2> QED
    BY <2>1, <2>2, <2>6 DEF Scopes!Next, Scopes!NextBlock, NestedState
<1>5. ASSUME NEW params \in ParamLists, OpenFunction(params) PROVE NestedState' /\ Scopes!Next
  <2> DEFINE s == LocalsStackInitScope(stk, FUNC_SCOPE)
  <2>1. /\ params \in Seq(Id) /\ Len(params) \in Nat /\ stk.size + Len(params) < Capacity
        /\ ~inFunction /\ stk' = PushParams(s, params) /\ inFunction' = TRUE
    BY <1>5, ParamListsAssumption DEF OpenFunction
  <2>2. PICK slot \in Slot : /\ slot.id = FUNC_SCOPE /\ slot.id < 0 /\ s = Grown(stk, slot)
                             /\ s.size = stk.size + 1 /\ s.vars[stk.size].id = FUNC_SCOPE
    BY <1>0, <2>1, ScopeShape
  <2> HIDE DEF s
  <2>3. /\ Nested(s, inFunction') /\ Blocks(s) = Append(Blocks(stk), <<>>)
        /\ FunctionBlock(s, inFunction') = Len(Blocks(s))
    <3>1. Opens(stk, inFunction, slot, s, inFunction')
      BY <1>0, <2>1, <2>2 DEF Opens
    <3> QED
      BY <2>2, <3>1, OpenRefines
  <2>4. /\ s.size > 0 /\ s.vars[s.size - 1].id < 0 /\ s.size + Len(params) <= Capacity
    BY <1>0, <2>1, <2>2
  <2>5. /\ Nested(stk', inFunction')
        /\ Blocks(stk') = [Blocks(s) EXCEPT ![Len(Blocks(s))] = params]
        /\ FunctionBlock(stk', inFunction') = FunctionBlock(s, inFunction')
    BY <2>1, <2>3, <2>4, ParamsRefine
  <2>6. /\ Blocks(stk') = Append(Blocks(stk), params) /\ Len(Blocks(s)) = Len(Blocks(stk'))
    <3>1. Blocks(stk) \in Seq(Seq(Int))
      <4>1. PICK n, st : Enumerates(st, n, stk)
        BY <1>0 DEF Nested
      <4> QED
        BY <1>0, <4>1, BlocksRead, ReadShape
    <3>2. PICK u \in Seq(Seq(Int)), k \in Nat : u = Blocks(stk) /\ k = Len(u)
      BY <3>1
    <3>3. <<>> \in Seq(Int) /\ params \in Seq(Int)
      BY <2>1, NamesShape
    <3> DEFINE v == Append(u, <<>>)
               w == Append(u, params)
               x == [v EXCEPT ![k + 1] = params]
    <3>4. /\ v \in Seq(Seq(Int)) /\ Len(v) = k + 1 /\ \A i \in 1..k : v[i] = u[i]
          /\ w \in Seq(Seq(Int)) /\ Len(w) = k + 1 /\ w[k + 1] = params
          /\ \A i \in 1..k : w[i] = u[i]
      BY <3>2, <3>3, AppendProperties
    <3> HIDE DEF v, w
    <3>5. /\ x \in Seq(Seq(Int)) /\ Len(x) = k + 1 /\ x[k + 1] = params
          /\ \A i \in 1..k+1 : i # k + 1 => x[i] = v[i]
      <4>1. k + 1 \in 1..Len(v) /\ k + 1 = Len(v)
        BY <3>2, <3>4
      <4> QED
        BY <3>3, <3>4, <4>1, ExceptSeq
    <3>6. \A i \in 1..k+1 : i = k + 1 \/ i \in 1..k
      BY <3>2
    <3> HIDE DEF x
    <3>7. x = w
      BY <3>4, <3>5, <3>6, SeqEqual
    <3> QED
      BY <2>3, <2>5, <3>2, <3>4, <3>7 DEF v, w, x
  <2>7. FunctionBlock(stk, inFunction) = 0
    BY <2>1 DEF FunctionBlock
  <2> QED
    BY <2>1, <2>3, <2>5, <2>6, <2>7 DEF Scopes!Next, Scopes!OpenFunction, NestedState
<1>6. CASE CloseFunction
  <2>1. /\ Separators(stk) # {} /\ stk' = LocalsStackPopScope(stk) /\ inFunction' = FALSE
        /\ stk.vars[Innermost(stk)].id = FUNC_SCOPE
    BY <1>6 DEF CloseFunction, InnermostIs
  <2>2. /\ Nested(stk', inFunction') /\ Len(Blocks(stk)) > 1
        /\ Blocks(stk') = SubSeq(Blocks(stk), 1, Len(Blocks(stk)) - 1)
        /\ FunctionBlock(stk', inFunction')
             = IF FunctionBlock(stk, inFunction) = Len(Blocks(stk)) THEN 0
               ELSE FunctionBlock(stk, inFunction)
    <3>1. Closes(stk, inFunction, stk', inFunction')
      BY <1>0, <2>1 DEF Closes
    <3> QED
      BY <3>1, CloseRefines
  <2> QED
    BY <2>1, <2>2 DEF Scopes!Next, Scopes!Close, NestedState
<1>7. CASE UNCHANGED vars
  BY <1>7 DEF vars, NestedState, Scopes!vars
<1> QED
  BY <1>1, <1>2, <1>3, <1>4, <1>5, <1>6, <1>7 DEF Next

(* The variables stack implements lexical scoping, for every set of names, *)
(* every capacity and every order of declarations, blocks and functions: a *)
(* declaration enters the innermost block and a pop closes exactly it.     *)
THEOREM StackIsLexical == Spec => ImplementsLexicalScopes
<1>1. Init => NestedState /\ Scopes!Init
  BY InitRefines DEF NestedState
<1>2. NestedState /\ [Next]_vars => NestedState'
  BY StepRefines
<1>3. NestedState /\ [Next]_vars => [Scopes!Next]_(Scopes!vars)
  BY StepRefines
<1> QED
  BY <1>1, <1>2, <1>3, PTL DEF Spec, Scopes!Spec, ImplementsLexicalScopes

-----------------------------------------------------------------------------
(* Every live slot under no separator lies in exactly one block: blocks    *)
(* are disjoint stretches in the order of the list, and leave no gap.      *)
LEMMA InSomeBlock ==
  ASSUME NEW s \in Stack, NEW st, NEW n, Enumerates(st, n, s),
         NEW i \in Live(s), i \notin Separators(s)
  PROVE  \E b \in 1..n : \E k \in 1..EndOf(st, n, s, b) - st[b] : i = st[b] + k
<1>0. n \in Nat /\ n >= 1 /\ i \in Int /\ i >= 0 /\ i < s.size /\ s.size \in Nat
  BY Places, StartsShape DEF Live
<1> DEFINE below == {b \in 1..n : st[b] < i}
<1>1. below \in SUBSET (0..n) /\ below # {}
  <2>1. 1 \in 1..n /\ st[1] = -1
    BY <1>0, Places
  <2>2. 1 \in below
    BY <1>0, <2>1
  <2>3. \A b \in below : b \in 0..n
    BY <1>0
  <2> QED
    BY <2>2, <2>3
<1>2. PICK b \in below : \A c \in below : c <= b
  <2> HIDE DEF below
  <2> QED
    BY <1>0, <1>1, LastExists
<1>3. b \in 1..n /\ st[b] \in Int /\ st[b] < i
  BY <1>2, Places
<1>4. EndOf(st, n, s, b) \in Int /\ i <= EndOf(st, n, s, b)
  <2>1. CASE b = n
    BY <1>0, <2>1 DEF EndOf
  <2>2. CASE b # n
    <3>1. b + 1 \in 1..n /\ ~(b + 1 <= b)
      BY <1>0, <1>3, <2>2
    <3>2. st[b + 1] \in Starts(s) /\ st[b + 1] \in Int /\ ~(st[b + 1] < i)
      BY <1>2, <3>1, Places
    <3>3. st[b + 1] # i
      BY <1>0, <3>2 DEF Starts
    <3> QED
      BY <1>0, <2>2, <3>2, <3>3 DEF EndOf
  <2> QED
    BY <2>1, <2>2
<1>5. i - st[b] \in 1..EndOf(st, n, s, b) - st[b] /\ i = st[b] + (i - st[b])
  BY <1>0, <1>3, <1>4
<1> QED
  BY <1>3, <1>5

LEMMA BlocksInOrder ==
  ASSUME NEW s \in Stack, NEW st, NEW n, Enumerates(st, n, s),
         NEW b \in 1..n, NEW k \in 1..EndOf(st, n, s, b) - st[b]
  PROVE  /\ st[b] + k \in Live(s) /\ st[b] < st[b] + k
         /\ \A c \in 1..n : b < c => st[b] + k < st[c]
<1>0. /\ n \in Nat /\ st[b] \in Int /\ -1 <= st[b] /\ s.size \in Nat /\ k \in Int
      /\ EndOf(st, n, s, b) \in Int /\ EndOf(st, n, s, b) < s.size
  BY Places, StartsShape, BlockShape
<1>1. st[b] + k \in Live(s) /\ st[b] < st[b] + k /\ st[b] + k <= EndOf(st, n, s, b)
  BY <1>0 DEF Live
<1>2. ASSUME NEW c \in 1..n, b < c PROVE st[b] + k < st[c]
  <2>1. b + 1 \in 1..n /\ b # n /\ (b + 1 = c \/ b + 1 < c)
    BY <1>0, <1>2
  <2>2. st[b + 1] \in Int /\ st[c] \in Int /\ st[b + 1] <= st[c]
    BY <2>1, Places
  <2>3. EndOf(st, n, s, b) = st[b + 1] - 1
    BY <2>1 DEF EndOf
  <2> QED
    BY <1>0, <1>1, <2>2, <2>3
<1> QED
  BY <1>1, <1>2

(* What the search answers is what the name lexically means.               *)
LEMMA SearchFinds == Nested(stk, inFunction) => SearchIsLexical
<1> SUFFICES ASSUME Nested(stk, inFunction), NEW id \in Id
             PROVE  /\ IsDeclared(stk, id) <=> Scopes!Known(id)
                    /\ IsDeclared(stk, id) =>
                         /\ SearchSlot(stk, id)
                              = BlockStart(stk, Scopes!BlockOf(id)) + Scopes!PlaceOf(id)
                         /\ SearchIsLocal(stk, id, inFunction) <=> Scopes!IsLocal(id)
  BY DEF SearchIsLexical
<1>0. PICK n, st : Enumerates(st, n, stk)
  BY DEF Nested
<1>1. stk \in Stack /\ n \in Nat /\ n >= 1 /\ stk.size \in Nat /\ id \in Int /\ id >= 0
  BY <1>0, Places, StartsShape, IdAssumption DEF Nested
<1> DEFINE Size(b) == EndOf(st, n, stk, b) - st[b]
<1>2. /\ Len(Blocks(stk)) = n
      /\ \A b \in 1..n : /\ Size(b) \in Nat /\ Len(Blocks(stk)[b]) = Size(b)
                         /\ \A k \in 1..Size(b) : Blocks(stk)[b][k] = stk.vars[st[b] + k].id
  <2>1. Blocks(stk) = Read(st, n, stk)
    BY <1>0, <1>1, BlocksRead
  <2>2. \A b \in 1..n : Blocks(stk)[b] = ReadBlock(st, n, stk, b)
    BY <1>0, <1>1, <2>1, ReadShape
  <2>3. \A b \in 1..n : st[b] \in Int
    BY <1>0, <1>1, Places
  <2> QED
    BY <1>0, <1>1, <2>1, <2>2, <2>3, ReadShape, BlockShape
<1>3. \A b \in 1..n : \A k \in 1..Size(b) :
        /\ st[b] + k \in Live(stk) /\ st[b] \in Int /\ st[b] < st[b] + k
        /\ \A c \in 1..n : b < c => st[b] + k < st[c]
  BY <1>0, <1>1, BlocksInOrder, Places
<1>4. \A i \in Holders(stk, id) : \E b \in 1..n : \E k \in 1..Size(b) : i = st[b] + k
  <2> TAKE i \in Holders(stk, id)
  <2>1. i \in Live(stk) /\ i \notin Separators(stk)
    BY <1>1 DEF Holders, Separators, IsSeparator
  <2> QED
    BY <1>0, <1>1, <2>1, InSomeBlock
<1> HIDE DEF Size
<1>5. \A b \in 1..n : \A k \in 1..Size(b) : st[b] + k \in Holders(stk, id) <=> Blocks(stk)[b][k] = id
  BY <1>2, <1>3 DEF Holders
<1>6. \A b \in 1..n : id \in Scopes!Names(b) <=> \E k \in 1..Size(b) : st[b] + k \in Holders(stk, id)
  BY <1>2, <1>5 DEF Scopes!Names
<1>7. IsDeclared(stk, id) <=> Scopes!Known(id)
  BY <1>2, <1>4, <1>6 DEF IsDeclared, Scopes!Known
<1>8. ASSUME IsDeclared(stk, id)
      PROVE  /\ SearchSlot(stk, id) = BlockStart(stk, Scopes!BlockOf(id)) + Scopes!PlaceOf(id)
             /\ SearchIsLocal(stk, id, inFunction) <=> Scopes!IsLocal(id)
  <2>1. PICK h \in Holders(stk, id) : \A j \in Holders(stk, id) : j <= h
    <3>1. Holders(stk, id) \in SUBSET (0..stk.size) /\ Holders(stk, id) # {}
      BY <1>1, <1>8 DEF IsDeclared, Holders, Live
    <3> QED
      BY <1>1, <3>1, LastExists
  <2>2. \A i \in Holders(stk, id) : i \in Int /\ i >= 0 /\ i < stk.size /\ stk.vars[i].id = id
    BY <1>1 DEF Holders, Live
  <2>3. SearchSlot(stk, id) = h
    <3>1. \A i \in Holders(stk, id) : (\A j \in Holders(stk, id) : j <= i) => i = h
      <4> SUFFICES ASSUME NEW i \in Holders(stk, id), \A j \in Holders(stk, id) : j <= i PROVE i = h
        OBVIOUS
      <4>1. i <= h /\ h <= i /\ i \in Int /\ h \in Int
        BY <2>1, <2>2
      <4> QED
        BY <4>1
    <3> QED
      BY <2>1, <3>1 DEF SearchSlot
  <2>4. PICK b \in 1..n : \E k \in 1..Size(b) : h = st[b] + k
    BY <1>4
  <2>5. PICK k \in 1..Size(b) : h = st[b] + k
    BY <2>4
  <2>6. \A c \in 1..n : b < c => id \notin Scopes!Names(c)
    <3> SUFFICES ASSUME NEW c \in 1..n, b < c, id \in Scopes!Names(c) PROVE FALSE
      OBVIOUS
    <3>1. PICK l \in 1..Size(c) : st[c] + l \in Holders(stk, id)
      BY <1>6
    <3>2. h < st[c] /\ st[c] < st[c] + l /\ st[c] \in Int /\ st[c] + l \in Int
      BY <1>3, <2>2, <2>5, <3>1
    <3>3. st[c] + l <= h /\ h \in Int
      BY <2>1, <2>2, <3>1
    <3> QED
      BY <3>2, <3>3
  <2>7. id \in Scopes!Names(b)
    BY <1>6, <2>5
  <2>8. Scopes!BlockOf(id) = b
    <3> DEFINE Innermost_(c) == id \in Scopes!Names(c) /\ \A d \in c+1..n : id \notin Scopes!Names(d)
    <3>1. Innermost_(b)
      BY <1>1, <2>6, <2>7
    <3>2. \A c \in 1..n : Innermost_(c) => c = b
      <4> SUFFICES ASSUME NEW c \in 1..n, Innermost_(c), c # b PROVE FALSE
        OBVIOUS
      <4>1. b < c \/ b \in c+1..n
        BY <1>1
      <4> QED
        BY <2>6, <2>7, <4>1
    <3>3. Scopes!BlockOf(id) = CHOOSE c \in 1..n : Innermost_(c)
      BY <1>2 DEF Scopes!BlockOf
    <3> HIDE DEF Innermost_
    <3> QED
      BY <3>1, <3>2, <3>3
  <2>9. Scopes!PlaceOf(id) = k
    <3> DEFINE Last(l) == Blocks(stk)[b][l] = id /\ \A m \in l+1..Size(b) : Blocks(stk)[b][m] # id
    <3>0. Size(b) \in Nat /\ st[b] \in Int
      BY <1>2, <1>3, <2>5
    <3>1. \A l \in 1..Size(b) : Blocks(stk)[b][l] = id => l <= k
      <4> SUFFICES ASSUME NEW l \in 1..Size(b), Blocks(stk)[b][l] = id PROVE l <= k
        OBVIOUS
      <4>1. st[b] + l <= st[b] + k
        BY <1>5, <2>1, <2>5
      <4> QED
        BY <3>0, <4>1
    <3>2. Last(k)
      <4>1. \A m \in k+1..Size(b) : m \in 1..Size(b) /\ ~(m <= k)
        BY <3>0
      <4> QED
        BY <1>5, <2>5, <3>1, <4>1
    <3>3. \A l \in 1..Size(b) : Last(l) => l = k
      <4> SUFFICES ASSUME NEW l \in 1..Size(b), Last(l), l # k PROVE FALSE
        OBVIOUS
      <4>1. k \in l+1..Size(b)
        BY <3>0, <3>1
      <4> QED
        BY <1>5, <2>5, <4>1
    <3>4. Scopes!PlaceOf(id) = CHOOSE l \in 1..Size(b) : Last(l)
      BY <1>2, <2>8 DEF Scopes!PlaceOf
    <3> HIDE DEF Last
    <3> QED
      BY <3>2, <3>3, <3>4
  <2>10. BlockStart(stk, b) = st[b]
    BY <1>0, <1>1, CountedOut
  <2>11. SearchIsLocal(stk, id, inFunction) <=> Scopes!IsLocal(id)
    <3>1. CASE ~inFunction
      BY <3>1 DEF SearchIsLocal, Scopes!IsLocal, FunctionBlock
    <3>2. CASE inFunction
      <4>1. PICK f \in 1..n : st[f] \in FunctionStarts(stk)
        BY <1>0, <1>1, <3>2, MappedFunction DEF Nested
      <4>2. FunctionBlock(stk, inFunction) = f /\ f # 0
        BY <1>0, <1>1, <3>2, <4>1, MappedFunction DEF Nested, FunctionBlock
      <4>3. SearchIsLocal(stk, id, inFunction) <=> ~(h < st[f])
        <5>1. \A i \in FunctionStarts(stk) : i = st[f]
          BY <4>1 DEF Nested, OneFunction
        <5>2. /\ st[f] \in Int /\ st[f] >= 0 /\ st[f] < stk.size
              /\ stk.vars[st[f]].id = FUNC_SCOPE
          BY <1>1, <4>1 DEF FunctionStarts, Separators, Live
        <5>3. \A i \in h+1..stk.size-1 : stk.vars[i].id = FUNC_SCOPE => i \in FunctionStarts(stk)
          BY <1>1, <2>2 DEF FunctionStarts, Separators, Live, IsSeparator, FUNC_SCOPE
        <5>4. h < st[f] <=> st[f] \in h+1..stk.size-1
          BY <1>1, <2>2, <5>2
        <5> QED
          BY <2>3, <3>2, <5>1, <5>2, <5>3, <5>4 DEF SearchIsLocal
      <4>4. ~(h < st[f]) <=> b >= f
        <5>1. h \in Int /\ st[b] \in Int /\ st[b] < h /\ st[f] \in Int
          BY <1>0, <1>1, <1>3, <2>2, <2>5, Places
        <5>2. b < f => h < st[f]
          BY <1>3, <2>5
        <5>3. b = f \/ f < b => st[f] <= st[b]
          BY <1>0, <1>1, <5>1, Places
        <5> QED
          BY <1>1, <5>1, <5>2, <5>3
      <4> QED
        BY <2>8, <4>2, <4>3, <4>4 DEF Scopes!IsLocal
    <3> QED
      BY <3>1, <3>2
  <2> QED
    BY <2>3, <2>5, <2>8, <2>9, <2>10, <2>11
<1> QED
  BY <1>7, <1>8

(* Whatever a program declares, opens and closes, the compiler's search    *)
(* finds the declaration a name lexically means and tells the function's   *)
(* variables from global ones.                                             *)
THEOREM SearchIsRight == Spec => []SearchIsLexical
<1>1. Init => NestedState
  BY InitRefines DEF NestedState
<1>2. NestedState /\ [Next]_vars => NestedState'
  BY StepRefines
<1>3. NestedState => SearchIsLexical
  BY SearchFinds DEF NestedState
<1> QED
  BY <1>1, <1>2, <1>3, PTL DEF Spec
=============================================================================
