--------------------------- MODULE LexicalScopes ---------------------------
(***************************************************************************)
(* What the scope stack promises: block-structured lexical scoping.  The   *)
(* program text seen so far leaves a sequence of open blocks, outermost    *)
(* first (the first one is the program itself); each block is the sequence *)
(* of names declared in it, oldest first.  A name means the most recent    *)
(* declaration in the innermost open block that has one, and it belongs to *)
(* the function being translated iff that block is the function's outermost*)
(* block or lies inside it.                                                *)
(***************************************************************************)
EXTENDS Integers, Sequences

CONSTANTS Id, ParamLists

VARIABLES
  blocks,    \* sequence of sequences of names
  function   \* index of the outermost block of the open function, 0 if none

vars == <<blocks, function>>

Init == blocks = << <<>> >> /\ function = 0

Declare(id) ==
  /\ blocks' = [blocks EXCEPT ![Len(blocks)] = Append(@, id)]
  /\ UNCHANGED function

OpenBlock == blocks' = Append(blocks, <<>>) /\ UNCHANGED function

(* The parameters are the first names of the function's outermost block.   *)
OpenFunction(params) ==
  /\ function = 0
  /\ blocks' = Append(blocks, params)
  /\ function' = Len(blocks')

Close ==
  /\ Len(blocks) > 1
  /\ blocks' = SubSeq(blocks, 1, Len(blocks) - 1)
  /\ function' = IF function = Len(blocks) THEN 0 ELSE function

(* One block ends and another begins in its place.                         *)
NextBlock ==
  /\ Len(blocks) > 1 /\ function # Len(blocks)
  /\ blocks' = Append(SubSeq(blocks, 1, Len(blocks) - 1), <<>>)
  /\ UNCHANGED function

Next ==
  \/ \E id \in Id : Declare(id)
  \/ OpenBlock
  \/ NextBlock
  \/ \E params \in ParamLists : OpenFunction(params)
  \/ Close

Spec == Init /\ [][Next]_vars

-----------------------------------------------------------------------------
Names(b)   == {blocks[b][k] : k \in 1..Len(blocks[b])}
Known(id)  == \E b \in 1..Len(blocks) : id \in Names(b)

BlockOf(id) == CHOOSE b \in 1..Len(blocks) :
                 /\ id \in Names(b)
                 /\ \A c \in b+1..Len(blocks) : id \notin Names(c)

PlaceOf(id) == CHOOSE k \in 1..Len(blocks[BlockOf(id)]) :
                 /\ blocks[BlockOf(id)][k] = id
                 /\ \A m \in k+1..Len(blocks[BlockOf(id)]) :
                      blocks[BlockOf(id)][m] # id

IsLocal(id) == function # 0 /\ BlockOf(id) >= function
=============================================================================
