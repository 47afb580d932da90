---------------------------- MODULE LocalsStack ----------------------------
(***************************************************************************)
(* The compile-time stack of variables both back ends keep while they walk *)
(* the AST (Backend/source/localsStack.c), with the push, argument and     *)
(* search operations of the x86 back end (Backend/source/IRConverter.c).   *)
(*                                                                         *)
(* The C structure is a calloc'ed array `vars' of slots and a `size'.      *)
(* Popping only lowers `size': a slot above it keeps its old contents, and *)
(* opening a function scope does not write the address of the slot it      *)
(* takes, so what an earlier scope left there stays readable.              *)
(*                                                                         *)
(* A stack is a record [size, vars]; each operation is an operator from a  *)
(* stack to a stack.  Callers keep size < Capacity: the C code never       *)
(* compares the two, a stack of LOCALS_STACK_SIZE slots simply overflows.  *)
(***************************************************************************)
EXTENDS Integers, Sequences, FiniteSets

CONSTANTS
  Id,         \* identifiers: indexes of the name table
  Capacity    \* LOCALS_STACK_SIZE

ASSUME IdAssumption       == Id \subseteq Nat
ASSUME CapacityAssumption == Capacity \in Nat \ {0}

(* enum ScopeType: separators share the id field with the identifiers.     *)
FUNC_SCOPE   == -1
NORMAL_SCOPE == -2

Slot  == [id : Id \union {0, FUNC_SCOPE, NORMAL_SCOPE}, address : Int]
Stack == [size : 0..Capacity, vars : [0..Capacity-1 -> Slot]]

LocalsStackInit ==
  [size |-> 0, vars |-> [i \in 0..Capacity-1 |-> [id |-> 0, address |-> 0]]]

LocalsStackTop(s) == s.vars[s.size - 1]

IsSeparator(slot) == slot.id < 0
Live(s)           == 0..s.size-1
Separators(s)     == {i \in Live(s) : IsSeparator(s.vars[i])}

(* s with a slot written at its top; the pushes share this step.           *)
Grown(s, slot) ==
  [size |-> s.size + 1, vars |-> [s.vars EXCEPT ![s.size] = slot]]

-----------------------------------------------------------------------------
(* Popping stops on the innermost separator and removes it too; without a  *)
(* separator everything goes.                                              *)
Innermost(s) == CHOOSE n \in Separators(s) : \A m \in Separators(s) : m <= n

LocalsStackPopScope_ToFunction(s) ==
  LET functions == {i \in Separators(s) : s.vars[i].id = FUNC_SCOPE}
  IN [s EXCEPT !.size = IF functions = {} THEN 0 ELSE CHOOSE i \in functions : TRUE]

LocalsStackPopScope(s) ==
  [s EXCEPT !.size = IF Separators(s) = {} THEN 0 ELSE Innermost(s)]

(* The count LocalsStackPopScope reports: variables, not the separator.    *)
PoppedVariables(s) ==
  Cardinality({i \in LocalsStackPopScope(s).size..s.size-1 :
                 ~IsSeparator(s.vars[i])})

(* A normal scope continues the numbering of the slot below it; a function *)
(* scope, and a normal scope on an empty stack, keep the stale address of  *)
(* the slot they take.                                                     *)
LocalsStackInitScope_Renumbers(s, scope) ==
  Grown(s, [id |-> scope, address |-> 0])

LocalsStackInitScope(s, scope) ==
  Grown(s, [id      |-> scope,
            address |-> IF scope = NORMAL_SCOPE /\ s.size > 0
                        THEN LocalsStackTop(s).address
                        ELSE s.vars[s.size].address])

(* Addresses are words relative to rbp (rbx for globals).                  *)
NextAddress_IgnoresSeparators(s) ==
  IF s.size > 0 /\ ~IsSeparator(LocalsStackTop(s)) /\ LocalsStackTop(s).address < 0
  THEN LocalsStackTop(s).address - 1
  ELSE -1

NextAddress(s) ==
  IF s.size > 0 /\ LocalsStackTop(s).id # FUNC_SCOPE /\ LocalsStackTop(s).address < 0
  THEN LocalsStackTop(s).address - 1
  ELSE -1

LocalsStackPush(s, id) == Grown(s, [id |-> id, address |-> NextAddress(s)])

(* The parameters of a function, the k-th, counted from 0, at k + 2: the   *)
(* loop pushes one slot after the other.                                   *)
FuncArg(id, argNumber) == [id |-> id, address |-> argNumber + 2]

PushParams(s, params) ==
  [size |-> s.size + Len(params),
   vars |-> [i \in 0..Capacity-1 |->
               IF i \in s.size..s.size+Len(params)-1
               THEN FuncArg(params[i - s.size + 1], i - s.size)
               ELSE s.vars[i]]]

-----------------------------------------------------------------------------
(* The search walks down from the top to the first slot holding the id.    *)
Holders(s, id)    == {i \in Live(s) : s.vars[i].id = id}
IsDeclared(s, id) == Holders(s, id) # {}

SearchSlot_Oldest(s, id) ==
  CHOOSE i \in Holders(s, id) : \A j \in Holders(s, id) : i <= j

SearchSlot(s, id) ==
  CHOOSE i \in Holders(s, id) : \A j \in Holders(s, id) : j <= i

(* The variable is addressed through rbp until the walk passes the         *)
(* separator of the function being translated.                             *)
SearchIsLocal(s, id, inFunction) ==
  /\ inFunction
  /\ \A i \in SearchSlot(s, id)+1..s.size-1 : s.vars[i].id # FUNC_SCOPE

SearchAddress(s, id) == s.vars[SearchSlot(s, id)].address
=============================================================================
