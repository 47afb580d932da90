------------------------------ MODULE MCStdlib ------------------------------
(* TLC instances of Stdlib: pairs of numbers through the pipe, and every   *)
(* short text over the characters that matter.                             *)
EXTENDS Stdlib

CONSTANT MaxText

Number(neg, int, frac) == [neg |-> neg, int |-> int, frac |-> frac]
MCNumbers ==
  {Number(FALSE, 0, 0), Number(TRUE, 0, 5), Number(FALSE, 7, 5000000), Number(TRUE, 10, 9999999),
   Number(FALSE, 99, 100), Number(TRUE, 1234567, 1020304)}
Largest == Number(TRUE, 999999999, 0)
TooLong == Number(TRUE, 1000000000, 0)

MCPrints ==
  {<<>>, <<Largest>>, <<TooLong>>} \union {<<x, y>> : x \in MCNumbers, y \in MCNumbers}

Alphabet == {Minus, Point, Space, Newline, Zero, Zero + 1, 120}
MCTexts == UNION {[1..n -> Alphabet] : n \in 0..MaxText}
MCGarbage == {0, Newline, Zero + 5}
=============================================================================
