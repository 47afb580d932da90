------------------------------- MODULE Stdlib -------------------------------
(***************************************************************************)
(* The runtime library (Backend/stdlib/stdlib.s), instruction loops and    *)
(* all: __stdlib_out builds a line in a buffer on the stack and writes it, *)
(* __stdlib_in reads a number a character at a time.  A program that       *)
(* prints is piped into one that reads; with nothing to print, the pipe    *)
(* holds what a user typed.                                                *)
(*                                                                         *)
(* A number is [neg, int, frac], Finer units of frac to a millionth: the   *)
(* rounding of doubles is left out.  What is read is kept as the three     *)
(* registers hold it, [neg, int, num, den].  Characters are their codes.   *)
(***************************************************************************)
EXTENDS Integers, Sequences, FiniteSets, FiniteSetsExt

CONSTANTS
  Prints,    \* sequences of numbers a program prints
  Texts,     \* what the pipe may hold at the start
  Reads,     \* how many numbers are read
  Garbage,   \* what a byte of the stack may hold
  Finer,     \* how much finer than six decimals numbers are
  Infinity   \* bound: registers that reach it stay there

Million == 1000000

ASSUME FinerAssumption    == Finer \in Nat \ {0}
ASSUME InfinityAssumption == Infinity \in Nat /\ Infinity >= Million

Numbers == [neg : BOOLEAN, int : Nat, frac : 0..Finer * Million - 1]
ASSUME PrintsAssumption == Prints \subseteq Seq(Numbers)

Bytes == 0..255
ASSUME BytesAssumption == Texts \subseteq Seq(Bytes) /\ Garbage \subseteq Bytes

VARIABLES
  toPrint, writer,                \* numbers to print, and where __stdlib_out is
  rax, r12, rcx, minus, buffer,   \*   its registers, the sign, and the buffer
  pipe, closed,
  toRead, reader,                 \* numbers to read, and where __stdlib_in is
  char, r13, xmm0, xmm1, xmm2,    \*   the byte [r8], and its registers
  sent, received,                 \* history: numbers printed and read
  taken                           \* history: characters this read took

outVars  == <<toPrint, writer, rax, r12, rcx, minus, buffer, sent>>
inVars   == <<toRead, reader, char, r13, xmm0, xmm1, xmm2, received, taken>>
vars     == <<outVars, pipe, closed, inVars>>

Newline == 10
Space   == 32
Minus   == 45
Point   == 46
Zero    == 48
IsDigit(c) == c - Zero \in 0..9

FLOAT_TOTAL_DIGITS == 6
BUFFER_LEN == 18
Lowest == -4  \* bytes below the buffer that the model tells apart

Init ==
  /\ toPrint \in Prints /\ writer = "idle"
  /\ rax = 0 /\ r12 = 0 /\ rcx = 0 /\ minus = FALSE
  /\ buffer = [k \in Lowest..BUFFER_LEN-1 |-> 0]
  /\ pipe \in Texts /\ closed = FALSE
  /\ toPrint # <<>> => pipe = <<>>
  /\ toRead = Reads /\ reader = "idle"
  /\ char = 0 /\ r13 = 0 /\ xmm0 = 0 /\ xmm1 = 0 /\ xmm2 = 1
  /\ sent = <<>> /\ received = <<>> /\ taken = <<>>

-----------------------------------------------------------------------------
(* __stdlib_out. *)
CallOut_OneLower ==
  /\ writer = "idle" /\ toPrint # <<>>
  /\ rax' = Head(toPrint).int /\ minus' = Head(toPrint).neg
  /\ r12' = 8
  /\ writer' = "integer"
  /\ UNCHANGED <<toPrint, rcx, buffer, sent, pipe, closed, inVars>>

CallOut ==
  /\ writer = "idle" /\ toPrint # <<>>
  /\ rax' = Head(toPrint).int /\ minus' = Head(toPrint).neg
  /\ r12' = 9
  /\ writer' = "integer"
  /\ UNCHANGED <<toPrint, rcx, buffer, sent, pipe, closed, inVars>>

IntConvLoop_StopsEarly ==
  /\ writer = "integer"
  /\ buffer' = [buffer EXCEPT ![r12] = Zero + (rax % 10)]
  /\ rax' = rax \div 10
  /\ r12' = r12 - 1
  /\ writer' = IF rax' < 10 THEN "sign" ELSE "integer"
  /\ UNCHANGED <<toPrint, rcx, minus, sent, pipe, closed, inVars>>

IntConvLoop ==
  /\ writer = "integer"
  /\ buffer' = [buffer EXCEPT ![r12] = Zero + (rax % 10)]
  /\ rax' = rax \div 10
  /\ r12' = r12 - 1
  /\ writer' = IF rax' = 0 THEN "sign" ELSE "integer"
  /\ UNCHANGED <<toPrint, rcx, minus, sent, pipe, closed, inVars>>

(* The sign, the point and the end of line; the fraction times 10^6.       *)
WriteSign ==
  /\ writer = "sign"
  /\ LET signed == IF minus THEN [buffer EXCEPT ![r12] = Minus] ELSE buffer
     IN buffer' = [signed EXCEPT ![17] = Newline, ![10] = Point]
  /\ r12' = IF minus THEN r12 - 1 ELSE r12
  /\ rax' = Head(toPrint).frac \div Finer
  /\ rcx' = FLOAT_TOTAL_DIGITS
  /\ writer' = "fraction"
  /\ UNCHANGED <<toPrint, minus, sent, pipe, closed, inVars>>

FloatPartLoop_StopsAtZero ==
  /\ writer = "fraction"
  /\ buffer' = [buffer EXCEPT ![rcx + 10] = Zero + (rax % 10)]
  /\ rax' = rax \div 10
  /\ rcx' = rcx - 1
  /\ writer' = IF rcx' = 0 \/ rax' = 0 THEN "write" ELSE "fraction"
  /\ UNCHANGED <<toPrint, r12, minus, sent, pipe, closed, inVars>>

FloatPartLoop ==
  /\ writer = "fraction"
  /\ buffer' = [buffer EXCEPT ![rcx + 10] = Zero + (rax % 10)]
  /\ rax' = rax \div 10
  /\ rcx' = rcx - 1
  /\ writer' = IF rcx' = 0 THEN "write" ELSE "fraction"
  /\ UNCHANGED <<toPrint, r12, minus, sent, pipe, closed, inVars>>

WriteBuffer ==
  /\ writer = "write"
  /\ pipe' = pipe \o [k \in 1..BUFFER_LEN - (r12 + 1) |-> buffer[r12 + k]]
  /\ sent' = Append(sent, Head(toPrint))
  /\ toPrint' = Tail(toPrint)
  /\ writer' = "idle"
  /\ UNCHANGED <<rax, r12, rcx, minus, buffer, closed, inVars>>

(* The program that prints exits. *)
Close ==
  /\ writer = "idle" /\ toPrint = <<>> /\ ~closed
  /\ closed' = TRUE
  /\ UNCHANGED <<outVars, pipe, inVars>>

-----------------------------------------------------------------------------
(* MACRO_readchar: a read waits for a character while the pipe is open; at *)
(* the end of input it takes none and the byte stays what it was.          *)
ReadChar ==
  \/ pipe # <<>> /\ char' = Head(pipe) /\ pipe' = Tail(pipe) /\ taken' = Append(taken, Head(pipe))
  \/ pipe = <<>> /\ closed /\ UNCHANGED <<char, pipe, taken>>

Bounded(n) == IF n > Infinity THEN Infinity ELSE n

CallIn ==
  /\ reader = "idle" /\ toRead > 0
  /\ char' \in Garbage
  /\ r13' = 0 /\ xmm0' = 0 /\ xmm1' = 0 /\ xmm2' = 1
  /\ taken' = <<>>
  /\ reader' = "first"
  /\ UNCHANGED <<toRead, received, pipe, closed, outVars>>

(* sub sil, '0' and the two jumps to .conv_end after it.                   *)
Converts_NoUpperBound(c) == c >= Zero

Converts(c) == c >= Zero /\ c < Zero + 10

Registers == <<r13, xmm0, xmm1, xmm2>>

ConvEnd ==
  /\ received' = Append(received, [neg |-> r13 = 1, int |-> xmm0, num |-> xmm1, den |-> xmm2])
  /\ toRead' = toRead - 1
  /\ reader' = "idle"
  /\ UNCHANGED Registers

Continues == UNCHANGED <<received, toRead, closed, outVars>>

ReadMinus ==
  /\ reader = "first"
  /\ ReadChar /\ char' = Minus
  /\ r13' = 1
  /\ reader' = "integer"
  /\ UNCHANGED <<xmm0, xmm1, xmm2>> /\ Continues

(* .intPart_loop, from the reading of its character.                       *)
Integral == reader = "integer" \/ (reader = "first" /\ char' # Minus)

ReadDigit ==
  /\ ReadChar /\ Integral /\ Converts(char')
  /\ xmm0' = Bounded(xmm0 * 10 + (char' - Zero))
  /\ reader' = "integer"
  /\ UNCHANGED <<r13, xmm1, xmm2>> /\ Continues

ReadPoint ==
  /\ ReadChar /\ Integral /\ char' = Point
  /\ reader' = "fraction"
  /\ UNCHANGED Registers /\ Continues

EndInteger ==
  /\ ReadChar /\ Integral /\ ~Converts(char') /\ char' # Point
  /\ ConvEnd /\ UNCHANGED <<closed, outVars>>

(* .floatPart_loop. *)
ReadDecimal_KeepsScale ==
  /\ reader = "fraction"
  /\ ReadChar /\ Converts(char')
  /\ xmm1' = Bounded(xmm1 * 10 + (char' - Zero))
  /\ xmm2' = IF char' = Zero THEN xmm2 ELSE Bounded(xmm2 * 10)
  /\ UNCHANGED <<reader, r13, xmm0>> /\ Continues

ReadDecimal ==
  /\ reader = "fraction"
  /\ ReadChar /\ Converts(char')
  /\ xmm1' = Bounded(xmm1 * 10 + (char' - Zero))
  /\ xmm2' = Bounded(xmm2 * 10)
  /\ UNCHANGED <<reader, r13, xmm0>> /\ Continues

EndFraction ==
  /\ reader = "fraction"
  /\ ReadChar /\ ~Converts(char')
  /\ ConvEnd /\ UNCHANGED <<closed, outVars>>

-----------------------------------------------------------------------------
Out == CallOut \/ IntConvLoop \/ WriteSign \/ FloatPartLoop \/ WriteBuffer \/ Close
In  == CallIn \/ ReadMinus \/ ReadDigit \/ ReadPoint \/ EndInteger \/ ReadDecimal \/ EndFraction

Next == Out \/ In
Spec == Init /\ [][Next]_vars /\ WF_vars(Out) /\ WF_vars(In)

-----------------------------------------------------------------------------
Billion == 1000000000

(* Printing a number below 10^9 writes nothing below the buffer: the line  *)
(* stays off the words under it, whatever an earlier line left there.      *)
StaysInBuffer ==
  [][writer' # "idle" /\ Head(toPrint').int < Billion =>
       \A k \in DOMAIN buffer : k < 0 => buffer'[k] = buffer[k]]_vars

(* What one program prints another reads back: the k-th number read is the *)
(* k-th printed, cut to six decimals, sign and all.                        *)
SameNumber(r, x) ==
  /\ r.neg = x.neg /\ r.int = x.int
  /\ r.num * (Million \div r.den) = x.frac \div Finer

PipeKeepsNumbers ==
  \A k \in DOMAIN received :
    k <= Len(sent) /\ sent[k].int < Infinity => SameNumber(received[k], sent[k])

(* A read takes the longest number text there is and the character that    *)
(* ends it, and returns the value of that text.                            *)
Digits(s)  == \A k \in DOMAIN s : IsDigit(s[k])
Unsigned(s) == IF s # <<>> /\ s[1] = Minus THEN Tail(s) ELSE s

Points(s) == {k \in DOMAIN s : s[k] = Point}
Before(s) == IF Points(s) = {} THEN s ELSE SubSeq(s, 1, Min(Points(s)) - 1)
After(s)  == IF Points(s) = {} THEN <<>> ELSE SubSeq(s, Min(Points(s)) + 1, Len(s))

IsNumeral(s) == Digits(Before(Unsigned(s))) /\ Digits(After(Unsigned(s)))

Value(s) == MapThenSumSet(LAMBDA k : (s[k] - Zero) * 10^(Len(s) - k), DOMAIN s)

ReadsNumeral ==
  reader = "idle" /\ received # <<>> /\ taken # <<>> /\ ~IsNumeral(taken) =>
    LET text == SubSeq(taken, 1, Len(taken) - 1)
        last == received[Len(received)]
    IN /\ IsNumeral(text)
       /\ last.neg = (text # <<>> /\ text[1] = Minus)
       /\ last.int = Bounded(Value(Before(Unsigned(text))))
       /\ last.num = Value(After(Unsigned(text)))
       /\ last.den = 10^Len(After(Unsigned(text)))

(* A read that has begun ends, unless the input has ended inside a number: *)
(* its last digit is then read for ever.                                   *)
EndsInDigit == closed /\ pipe = <<>> /\ IsDigit(char)

ReadEnds == reader # "idle" ~> (reader = "idle" \/ EndsInDigit)
=============================================================================
