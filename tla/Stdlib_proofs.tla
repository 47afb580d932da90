--------------------------- MODULE Stdlib_proofs ---------------------------
(***************************************************************************)
(* Proofs about Stdlib, for every sequence of numbers printed and every    *)
(* text typed.                                                             *)
(***************************************************************************)
EXTENDS Stdlib, TLAPS

(* The inductive invariant.  While the digits of a number below 10^9 are   *)
(* written, what is left of it has at most as many digits as there are     *)
(* places between the start of the buffer and r12, the first kept for the  *)
(* sign.                                                                   *)
Fits(n, digits) ==
  \/ digits = 1 /\ n < 10
  \/ digits = 2 /\ n < 100
  \/ digits = 3 /\ n < 1000
  \/ digits = 4 /\ n < 10000
  \/ digits = 5 /\ n < 100000
  \/ digits = 6 /\ n < 1000000
  \/ digits = 7 /\ n < 10000000
  \/ digits = 8 /\ n < 100000000
  \/ digits = 9 /\ n < Billion

Printed == Head(toPrint)
Short == Printed.int < Billion

IInv ==
  /\ toPrint \in Seq(Numbers)
  /\ writer \in {"idle", "integer", "sign", "fraction", "write"}
  /\ writer # "idle" => toPrint # <<>>
  /\ DOMAIN buffer = Lowest..BUFFER_LEN-1
  /\ writer = "integer" => rax \in Nat
  /\ writer = "integer" /\ Short => Fits(rax, r12)
  /\ writer = "sign" /\ Short => r12 \in 0..8
  /\ writer = "fraction" => rcx \in 1..FLOAT_TOTAL_DIGITS

-----------------------------------------------------------------------------
(* A digit less leaves a place less, and the last one leaves the place of  *)
(* the sign.                                                               *)
LEMMA DigitFits ==
  ASSUME NEW n \in Nat, NEW digits, Fits(n, digits)
  PROVE  /\ digits \in 1..9
         /\ n \div 10 # 0 => Fits(n \div 10, digits - 1)
<1>1. digits \in 1..9
  BY DEF Fits
<1>2. n \div 10 # 0 => Fits(n \div 10, digits - 1)
  BY SMTT(30) DEF Fits, Billion
<1> QED
  BY <1>1, <1>2

LEMMA InitInvariant == Init => IInv
  BY PrintsAssumption DEF Init, IInv, Lowest, BUFFER_LEN

LEMMA NextInvariant == IInv /\ [Next]_vars => IInv'
<1> SUFFICES ASSUME IInv, [Next]_vars PROVE IInv'
  OBVIOUS
<1> USE DEF IInv, Short, Printed
<1>1. CASE CallOut
  <2>1. Head(toPrint) \in Numbers
    BY <1>1 DEF CallOut
  <2> QED
    BY <1>1, <2>1 DEF CallOut, Numbers, Fits
<1>2. CASE IntConvLoop
  <2>1. rax \div 10 \in Nat
    BY <1>2 DEF IntConvLoop
  <2>2. Short => r12 \in 1..9 /\ (rax \div 10 # 0 => Fits(rax \div 10, r12 - 1))
    BY <1>2, DigitFits DEF IntConvLoop
  <2>3. DOMAIN buffer' = DOMAIN buffer
    BY <1>2 DEF IntConvLoop
  <2> QED
    BY <1>2, <2>1, <2>2, <2>3 DEF IntConvLoop
<1>3. CASE WriteSign
  BY <1>3 DEF WriteSign, FLOAT_TOTAL_DIGITS
<1>4. CASE FloatPartLoop
  BY <1>4 DEF FloatPartLoop, FLOAT_TOTAL_DIGITS
<1>5. CASE WriteBuffer
  BY <1>5 DEF WriteBuffer
<1>6. CASE Close
  BY <1>6 DEF Close, outVars
<1>7. CASE In
  <2>1. UNCHANGED outVars
    BY <1>7 DEF In, CallIn, ReadMinus, ReadDigit, ReadPoint, EndInteger, ReadDecimal, EndFraction, Continues
  <2> QED
    BY <2>1 DEF outVars
<1>8. CASE UNCHANGED vars
  BY <1>8 DEF vars, outVars
<1> QED
  BY <1>1, <1>2, <1>3, <1>4, <1>5, <1>6, <1>7, <1>8 DEF Next, Out

(* Only the digits and the sign are written at a place that is computed.   *)
LEMMA StepStays ==
  IInv /\ [Next]_vars =>
    (writer' # "idle" /\ Head(toPrint').int < Billion =>
       \A k \in DOMAIN buffer : k < 0 => buffer'[k] = buffer[k])
<1> SUFFICES ASSUME IInv, [Next]_vars, writer' # "idle", Head(toPrint').int < Billion,
                    NEW k \in DOMAIN buffer, k < 0
             PROVE  buffer'[k] = buffer[k]
  OBVIOUS
<1> USE DEF IInv, Short, Printed
<1>1. CASE IntConvLoop
  <2>1. r12 \in 1..9
    BY <1>1, DigitFits DEF IntConvLoop
  <2> QED
    BY <1>1, <2>1 DEF IntConvLoop
<1>2. CASE WriteSign
  <2>1. r12 \in 0..8
    BY <1>2 DEF WriteSign
  <2>2. k # 17 /\ k # 10 /\ k # r12
    BY <2>1
  <2> QED
    BY <1>2, <2>2 DEF WriteSign
<1>3. CASE FloatPartLoop
  <2>1. rcx + 10 # k
    BY <1>3 DEF FloatPartLoop, FLOAT_TOTAL_DIGITS
  <2> QED
    BY <1>3, <2>1 DEF FloatPartLoop
<1>4. CASE CallOut \/ WriteBuffer \/ Close
  BY <1>4 DEF CallOut, WriteBuffer, Close, outVars
<1>5. CASE In
  BY <1>5 DEF In, CallIn, ReadMinus, ReadDigit, ReadPoint, EndInteger, ReadDecimal, EndFraction,
              Continues, outVars
<1>6. CASE UNCHANGED vars
  BY <1>6 DEF vars, outVars
<1> QED
  BY <1>1, <1>2, <1>3, <1>4, <1>5, <1>6 DEF Next, Out

(* No number below 10^9 is written outside the buffer of __stdlib_out,     *)
(* whatever was printed before it and whatever is read meanwhile.          *)
THEOREM LinesStayInBuffer == Spec => StaysInBuffer
<1>1. Spec => []IInv
  BY InitInvariant, NextInvariant, PTL DEF Spec
<1>2. IInv /\ [Next]_vars =>
        [writer' # "idle" /\ Head(toPrint').int < Billion =>
           \A k \in DOMAIN buffer : k < 0 => buffer'[k] = buffer[k]]_vars
  BY StepStays
<1> QED
  BY <1>1, <1>2, PTL DEF Spec, StaysInBuffer

-----------------------------------------------------------------------------
(* Numbers through the pipe.  Places are indexes of the writer's buffer:   *)
(* the digits of the integer part end at 9, then come the point, the six   *)
(* decimals and the end of line.                                           *)
Tens == <<1, 10, 100, 1000, 10000, 100000, Million, 10 * Million, 100 * Million,
          Billion, 10 * Billion, 100 * Billion, 1000 * Billion, 10000 * Billion>>

Left(n, b)     == n \div Tens[10 - b]   \* the digits up to place b
Decimals(n, b) == n \div Tens[17 - b]
Millionths(x)  == x.frac \div Finer

(* A number that the model has places for.                                 *)
Narrow(x) == x.int < Tens[14]

(* The first digit stands after low, or after the sign behind low.         *)
Sign(x)   == IF x.neg THEN 1 ELSE 0
Fit(x, low) ==
  /\ x \in Numbers
  /\ low \in Lowest-1..8 /\ low + Sign(x) \in Lowest..8
  /\ Left(x.int, low + Sign(x)) = 0

(* What stands at place b of a line.                                       *)
Cell(x, low, b) ==
  CASE b = low + 1 /\ x.neg        -> Minus
    [] b \in low+1+Sign(x)..9       -> Zero + (Left(x.int, b) % 10)
    [] b = 10                       -> Point
    [] b \in 11..16                 -> Zero + (Decimals(Millionths(x), b) % 10)
    [] b = 17                       -> Newline

Writing(x, low, b) == buffer[b] = Cell(x, low, b)

(* The writer: the places filled so far are those of the line to be.       *)
WriterInv ==
  /\ \A k \in DOMAIN toPrint : Narrow(toPrint[k])
  /\ writer \in {"integer", "sign"} => minus = Printed.neg
  /\ writer = "integer" =>
       /\ r12 \in Lowest+1..9 /\ rax = Left(Printed.int, r12)
       /\ \A b \in r12+1..9 : buffer[b] = Zero + (Left(Printed.int, b) % 10)
  /\ writer = "sign" =>
       /\ r12 \in Lowest..8 /\ Left(Printed.int, r12) = 0
       /\ \A b \in r12+1..9 : buffer[b] = Zero + (Left(Printed.int, b) % 10)
  /\ writer = "fraction" =>
       /\ Fit(Printed, r12)
       /\ rax = Decimals(Millionths(Printed), rcx + 10)
       /\ \A b \in (r12+1..10) \union (rcx+11..17) : Writing(Printed, r12, b)
  /\ writer = "write" =>
       /\ Fit(Printed, r12)
       /\ \A b \in r12+1..17 : Writing(Printed, r12, b)

-----------------------------------------------------------------------------
(* Taking the last digit off.                                              *)
LEMMA LeftDigits ==
  ASSUME NEW n \in Nat
  PROVE  /\ \A b \in Lowest..9 : Left(n, b) \in Nat /\ Left(n, b) <= n
         /\ \A b \in Lowest+1..9 : /\ Left(n, b) \div 10 = Left(n, b - 1)
                                   /\ Left(n, b) = 10 * Left(n, b - 1) + (Left(n, b) % 10)
         /\ Left(n, 9) = n
         /\ n < Tens[14] => Left(n, Lowest) = 0
<1>1. \A b \in Lowest..9 : Tens[10 - b] \in Nat \ {0}
  BY DEF Tens, Lowest, Million, Billion
<1>2. \A b \in Lowest+1..9 : Tens[10 - (b - 1)] = 10 * Tens[10 - b]
  BY DEF Tens, Lowest, Million, Billion
<1>3. ASSUME NEW d \in Nat \ {0}
      PROVE  n \div d \in Nat /\ n \div d <= n /\ (n \div d) \div 10 = n \div (10 * d)
  BY <1>3, SMTT(30)
<1>4. ASSUME NEW q \in Nat
      PROVE  q = 10 * (q \div 10) + (q % 10)
  BY <1>4
<1>5. ASSUME NEW b \in Lowest+1..9
      PROVE  /\ Left(n, b) \div 10 = Left(n, b - 1)
             /\ Left(n, b) = 10 * Left(n, b - 1) + (Left(n, b) % 10)
  <2>1. b \in Lowest..9
    BY DEF Lowest
  <2>2. Left(n, b) \div 10 = Left(n, b - 1)
    BY <1>1, <1>2, <1>3, <2>1 DEF Left
  <2> QED
    BY <1>1, <1>3, <1>4, <2>1, <2>2 DEF Left
<1>6. Left(n, 9) = n
  BY DEF Left, Tens
<1>7. n < Tens[14] => Left(n, Lowest) = 0
  BY <1>1 DEF Left, Lowest
<1> QED
  BY <1>1, <1>3, <1>5, <1>6, <1>7 DEF Left

LEMMA DecimalDigits ==
  ASSUME NEW n \in Nat, n < Million
  PROVE  /\ \A b \in 10..16 : Decimals(n, b) \in Nat
         /\ \A b \in 11..16 : /\ Decimals(n, b) \div 10 = Decimals(n, b - 1)
                              /\ Decimals(n, b) = 10 * Decimals(n, b - 1) + (Decimals(n, b) % 10)
         /\ Decimals(n, 10) = 0 /\ Decimals(n, 16) = n
<1>1. \A b \in 10..16 : b - 7 \in 3..9 /\ Decimals(n, b) = Left(n, b - 7)
  BY DEF Decimals, Left
<1>2. \A b \in 11..16 : b - 7 \in Lowest+1..9 /\ (b - 1) - 7 = (b - 7) - 1
  BY DEF Lowest
<1>3. Decimals(n, 10) = 0 /\ Decimals(n, 16) = n
  BY DEF Decimals, Tens, Million
<1>4. \A b \in 10..16 : b - 7 \in Lowest..9
  BY DEF Lowest
<1>5. \A b \in 11..16 : b \in 10..16 /\ b - 1 \in 10..16
  OBVIOUS
<1> QED
  BY <1>1, <1>2, <1>3, <1>4, <1>5, LeftDigits

LEMMA MillionthsBound ==
  ASSUME NEW x \in Numbers
  PROVE  Millionths(x) \in Nat /\ Millionths(x) < Million
<1>1. x.frac \in Nat /\ x.frac < Finer * Million /\ Finer \in Nat \ {0} /\ Million \in Nat
  BY FinerAssumption DEF Numbers, Million
<1>2. ASSUME NEW a \in Nat, NEW f \in Nat \ {0}, NEW m \in Nat, a < f * m
      PROVE  a \div f \in Nat /\ a \div f < m
  BY <1>2, SMTT(30)
<1> QED
  BY <1>1, <1>2 DEF Millionths

(* The cells of a line, one kind at a time.                                *)
LEMMA CellIs ==
  ASSUME NEW x, NEW low, Fit(x, low)
  PROVE  /\ x.neg => Cell(x, low, low + 1) = Minus
         /\ \A b \in low+1+Sign(x)..9 : Cell(x, low, b) = Zero + (Left(x.int, b) % 10)
         /\ Cell(x, low, 10) = Point
         /\ \A b \in 11..16 : Cell(x, low, b) = Zero + (Decimals(Millionths(x), b) % 10)
         /\ Cell(x, low, 17) = Newline
<1>1. x \in Numbers /\ low \in -5..8 /\ (Sign(x) = IF x.neg THEN 1 ELSE 0)
  BY DEF Fit, Sign, Lowest
<1>2. ASSUME x.neg PROVE Cell(x, low, low + 1) = Minus
  BY <1>1, <1>2 DEF Cell
<1>3. ASSUME NEW b \in low+1+Sign(x)..9
      PROVE  Cell(x, low, b) = Zero + (Left(x.int, b) % 10)
  <2>1. ~(b = low + 1 /\ x.neg) /\ b \in Int /\ b <= 9
    BY <1>1
  <2> QED
    BY <1>3, <2>1 DEF Cell
<1>4. Cell(x, low, 10) = Point
  BY <1>1 DEF Cell
<1>5. ASSUME NEW b \in 11..16
      PROVE  Cell(x, low, b) = Zero + (Decimals(Millionths(x), b) % 10)
  <2>1. ~(b = low + 1 /\ x.neg) /\ b \notin low+1+Sign(x)..9 /\ b # 10 /\ b # 17
    BY <1>1
  <2> QED
    BY <1>5, <2>1 DEF Cell
<1>6. Cell(x, low, 17) = Newline
  BY <1>1 DEF Cell
<1> QED
  BY <1>2, <1>3, <1>4, <1>5, <1>6

(* The digits, the sign, the point and the end of line are all the places  *)
(* up to the decimals.                                                     *)
LEMMA SignCompletes ==
  ASSUME IInv, WriterInv, WriteSign
  PROVE  /\ Fit(Printed, r12') /\ rax' = Millionths(Printed)
         /\ \A b \in (r12'+1..10) \union (17..17) : buffer'[b] = Cell(Printed, r12', b)
<1> DEFINE x == Printed
<1>1. x \in Numbers /\ minus = x.neg /\ x.neg \in BOOLEAN
  <2>1. toPrint \in Seq(Numbers) /\ toPrint # <<>> /\ minus = x.neg
    BY DEF IInv, WriterInv, WriteSign
  <2>2. x \in Numbers
    BY <2>1 DEF Printed
  <2> QED
    BY <2>1, <2>2 DEF Numbers
<1>2. r12 \in Lowest..8 /\ Left(x.int, r12) = 0
      /\ \A b \in r12+1..9 : buffer[b] = Zero + (Left(x.int, b) % 10)
  BY DEF WriterInv, WriteSign
<1>3. r12' = r12 - Sign(x) /\ rax' = Millionths(x) /\ Sign(x) \in 0..1
  <2>1. r12' = (IF minus THEN r12 - 1 ELSE r12) /\ rax' = x.frac \div Finer
    BY DEF WriteSign, Printed
  <2> HIDE DEF x
  <2> QED
    BY <1>1, <1>2, <2>1 DEF Sign, Lowest, Millionths
<1>4. Fit(x, r12') /\ r12' + Sign(x) = r12
  BY <1>1, <1>2, <1>3 DEF Fit, Lowest
<1>5. ASSUME NEW b \in Lowest..17
      PROVE  buffer'[b] = IF b = 17 THEN Newline ELSE IF b = 10 THEN Point
                          ELSE IF b = r12 /\ x.neg THEN Minus ELSE buffer[b]
  <2>1. b \in DOMAIN buffer
    BY DEF IInv, BUFFER_LEN, Lowest
  <2> QED
    BY <1>1, <1>2, <2>1 DEF WriteSign
<1>6. ASSUME NEW b \in (r12'+1..10) \union (17..17)
      PROVE  buffer'[b] = Cell(x, r12', b)
  <2>1. b \in Lowest..17 /\ r12 \in Int
    BY <1>2, <1>3, <1>4 DEF Fit, Lowest
  <2>2. CASE b = 17 \/ b = 10
    BY <1>4, <1>5, <2>1, <2>2, CellIs
  <2>3. CASE x.neg /\ b = r12 /\ b # 10 /\ b # 17
    <3>1. b = r12' + 1
      BY <1>3, <2>1, <2>3 DEF Sign
    <3> QED
      BY <1>4, <1>5, <2>1, <2>3, <3>1, CellIs
  <2>4. CASE b \in r12+1..9
    <3>1. b \in r12'+1+Sign(x)..9 /\ b # 17 /\ b # 10 /\ ~(b = r12 /\ x.neg)
      BY <1>3, <2>1, <2>4
    <3> QED
      BY <1>2, <1>4, <1>5, <2>1, <2>4, <3>1, CellIs
  <2>5. b = 17 \/ b = 10 \/ (x.neg /\ b = r12 /\ b # 10 /\ b # 17) \/ b \in r12+1..9
    BY <1>1, <1>2, <1>3, <2>1 DEF Sign, Lowest
  <2> QED
    BY <2>2, <2>3, <2>4, <2>5
<1> QED
  BY <1>3, <1>4, <1>6

LEMMA WriterInit == Init /\ (\A k \in DOMAIN toPrint : Narrow(toPrint[k])) => WriterInv
  BY DEF Init, WriterInv

LEMMA WriterStep == IInv /\ WriterInv /\ [Next]_vars => WriterInv'
<1> SUFFICES ASSUME IInv, WriterInv, [Next]_vars PROVE WriterInv'
  OBVIOUS
<1>0. writer # "idle" => Printed \in Numbers /\ Printed.int \in Nat /\ Narrow(Printed)
                         /\ Millionths(Printed) \in Nat /\ Millionths(Printed) < Million
  <2>1. ASSUME writer # "idle" PROVE Printed \in Numbers /\ Narrow(Printed)
    BY <2>1 DEF IInv, WriterInv, Printed
  <2> QED
    BY <2>1, MillionthsBound DEF Numbers
<1>1. CASE CallOut
  <2>1. Printed' = Printed /\ Printed \in Numbers /\ toPrint' = toPrint
    BY <1>1 DEF CallOut, Printed, IInv
  <2>2. Left(Printed.int, 9) = Printed.int
    BY <2>1, LeftDigits DEF Numbers
  <2> QED
    BY <1>1, <2>1, <2>2 DEF CallOut, Printed, WriterInv, Lowest
<1>2. CASE IntConvLoop
  <2>1. Printed' = Printed /\ Printed.int \in Nat /\ toPrint' = toPrint /\ minus' = minus
        /\ writer = "integer" /\ Narrow(Printed)
    BY <1>0, <1>2 DEF IntConvLoop, Printed
  <2>2. r12 \in Lowest+1..9 /\ rax = Left(Printed.int, r12) /\ minus = Printed.neg
        /\ \A b \in r12+1..9 : buffer[b] = Zero + (Left(Printed.int, b) % 10)
    BY <2>1 DEF WriterInv
  <2>3. rax' = Left(Printed.int, r12 - 1) /\ r12' = r12 - 1
    BY <1>2, <2>1, <2>2, LeftDigits DEF IntConvLoop
  <2>4. r12 \in DOMAIN buffer
    BY <2>2 DEF IInv, Lowest, BUFFER_LEN
  <2>5. \A b \in r12'+1..9 : buffer'[b] = Zero + (Left(Printed.int, b) % 10)
    BY <1>2, <2>2, <2>3, <2>4 DEF IntConvLoop, Lowest
  <2>6. rax' # 0 => r12' \in Lowest+1..9
    <3>1. Left(Printed.int, Lowest) = 0
      BY <2>1, LeftDigits DEF Narrow
    <3>2. rax' # 0 => r12' # Lowest
      BY <2>3, <3>1
    <3> QED
      BY <2>2, <2>3, <3>2 DEF Lowest
  <2>7. r12' \in Lowest..8
    BY <2>2, <2>3 DEF Lowest
  <2>8. CASE rax' = 0
    BY <1>2, <2>1, <2>2, <2>3, <2>5, <2>7, <2>8 DEF IntConvLoop, WriterInv
  <2>9. CASE rax' # 0
    BY <1>2, <2>1, <2>2, <2>3, <2>5, <2>6, <2>9 DEF IntConvLoop, WriterInv
  <2> QED
    BY <2>8, <2>9
<1>3. CASE WriteSign
  <2>1. Printed' = Printed /\ toPrint' = toPrint /\ writer' = "fraction" /\ rcx' = 6
    BY <1>3 DEF WriteSign, Printed, FLOAT_TOTAL_DIGITS
  <2>2. rax' = Decimals(Millionths(Printed), rcx' + 10)
    BY <1>0, <1>3, <2>1, SignCompletes, DecimalDigits DEF WriteSign
  <2>3. \A b \in (r12'+1..10) \union (rcx'+11..17) : Writing(Printed, r12, b)'
    BY <1>3, <2>1, SignCompletes DEF Writing
  <2> QED
    BY <1>3, <2>1, <2>2, <2>3, SignCompletes DEF WriterInv
<1>4. CASE FloatPartLoop
  <2>1. Printed' = Printed /\ toPrint' = toPrint /\ r12' = r12 /\ rcx' = rcx - 1
        /\ rcx \in 1..6 /\ writer = "fraction"
    BY <1>4 DEF FloatPartLoop, Printed, IInv, FLOAT_TOTAL_DIGITS
  <2>2. Fit(Printed, r12) /\ rax = Decimals(Millionths(Printed), rcx + 10)
        /\ \A b \in (r12+1..10) \union (rcx+11..17) : buffer[b] = Cell(Printed, r12, b)
    BY <2>1 DEF WriterInv, Writing
  <2>3. rcx + 10 \in 11..16 /\ rcx + 10 \in DOMAIN buffer /\ r12 \in -5..8
    BY <2>1, <2>2 DEF IInv, Lowest, BUFFER_LEN, Fit
  <2>4. rax' = Decimals(Millionths(Printed), rcx + 9)
    <3>1. rax' = rax \div 10 /\ (rcx + 10) - 1 = rcx + 9
      BY <1>4, <2>1 DEF FloatPartLoop
    <3>2. Decimals(Millionths(Printed), rcx + 10) \div 10
            = Decimals(Millionths(Printed), (rcx + 10) - 1)
      BY <1>0, <2>1, <2>3, DecimalDigits
    <3> QED
      BY <2>2, <3>1, <3>2
  <2>5. buffer' = [buffer EXCEPT ![rcx + 10] = Cell(Printed, r12, rcx + 10)]
    BY <1>4, <2>2, <2>3, CellIs DEF FloatPartLoop
  <2>6. \A b \in (r12+1..10) \union (rcx+10..17) : buffer'[b] = Cell(Printed, r12, b)
    BY <2>1, <2>2, <2>3, <2>5
  <2>7. rcx' + 10 = rcx + 9 /\ rcx' + 11 = rcx + 10
    BY <2>1
  <2>8. CASE rcx' = 0
    <3>1. writer' = "write"
      BY <1>4, <2>8 DEF FloatPartLoop
    <3>2. \A b \in r12+1..17 : b \in (r12+1..10) \union (rcx+10..17)
      BY <2>1, <2>3, <2>8
    <3> QED
      BY <2>1, <2>2, <2>6, <3>1, <3>2 DEF WriterInv, Writing
  <2>9. CASE rcx' # 0
    <3>1. writer' = "fraction"
      BY <1>4, <2>9 DEF FloatPartLoop
    <3> QED
      BY <2>1, <2>2, <2>4, <2>6, <2>7, <3>1 DEF WriterInv, Writing
  <2> QED
    BY <2>8, <2>9
<1>5. CASE WriteBuffer
  <2>1. toPrint \in Seq(Numbers) /\ toPrint # <<>> /\ toPrint' = Tail(toPrint) /\ writer' = "idle"
    BY <1>5 DEF WriteBuffer, IInv
  <2>2. \A k \in DOMAIN toPrint' : k + 1 \in DOMAIN toPrint /\ toPrint'[k] = toPrint[k+1]
    BY <2>1
  <2> QED
    BY <2>1, <2>2 DEF WriterInv
<1>6. CASE UNCHANGED outVars
  <2>1. toPrint' = toPrint /\ writer' = writer /\ rax' = rax /\ r12' = r12 /\ rcx' = rcx
        /\ minus' = minus /\ buffer' = buffer
    BY <1>6 DEF outVars
  <2> QED
    BY <2>1 DEF WriterInv, Printed, Writing
<1> QED
  BY <1>1, <1>2, <1>3, <1>4, <1>5, <1>6
  DEF Next, Out, In, Close, CallIn, ReadMinus, ReadDigit, ReadPoint, EndInteger, ReadDecimal,
      EndFraction, Continues, vars

-----------------------------------------------------------------------------
(* The line of x in p, from position from on (below 1 for characters that  *)
(* are gone) up to the next line, its first character at place low + 1.    *)
LineAt(p, x, low, from, next) ==
  /\ Fit(x, low)
  /\ next = from + 17 - low /\ next <= Len(p) + 1
  /\ \A b \in low+1..17 : from + b - low >= 2 => p[from + b - low - 1] = Cell(x, low, b)

(* What a pipe holds when numbers s have been printed, r of them have been *)
(* read, and t characters of the next: the lines, in order.                *)
Lines(p, s, r, t, start, low) ==
  /\ start \in [Nat -> Int] /\ low \in [Nat -> Int]
  /\ start[r+1] = 1 - t /\ start[Len(s)+1] = Len(p) + 1
  /\ \A k \in r+1..Len(s) : /\ LineAt(p, s[k], low[k], start[k], start[k+1])
                            /\ k > r + 1 => start[k] >= 1

LEMMA FitBounds ==
  ASSUME NEW x, NEW low, Fit(x, low)
  PROVE  low \in Int /\ low >= -5 /\ low <= 8
  BY DEF Fit, Lowest

LEMMA LineMovesUp ==
  ASSUME NEW p \in Seq(Bytes), Len(p) >= 1, NEW x, NEW low \in Int, NEW from \in Int, NEW next,
         LineAt(p, x, low, from, next)
  PROVE  LineAt(Tail(p), x, low, from - 1, next - 1)
<1>1. Len(p) \in Nat /\ Len(Tail(p)) = Len(p) - 1 /\ \A i \in 1..Len(p)-1 : Tail(p)[i] = p[i+1]
  OBVIOUS
<1>2. Fit(x, low) /\ next = from + 17 - low /\ next <= Len(p) + 1
  BY DEF LineAt
<1>3. ASSUME NEW b \in low+1..17, (from - 1) + b - low >= 2
      PROVE  Tail(p)[(from - 1) + b - low - 1] = Cell(x, low, b)
  <2> DEFINE i == (from - 1) + b - low - 1
  <2>1. i \in 1..Len(p)-1 /\ i + 1 = from + b - low - 1 /\ from + b - low >= 2
    BY <1>1, <1>2, <1>3
  <2>2. p[from + b - low - 1] = Cell(x, low, b)
    BY <2>1 DEF LineAt
  <2> QED
    BY <1>1, <2>1, <2>2
<1>4. next - 1 = (from - 1) + 17 - low /\ next - 1 <= Len(Tail(p)) + 1
  BY <1>1, <1>2
<1> QED
  BY <1>2, <1>3, <1>4 DEF LineAt

LEMMA LineStays ==
  ASSUME NEW p \in Seq(Bytes), NEW q \in Seq(Bytes), NEW x, NEW low \in Int, NEW from \in Int,
         NEW next, LineAt(p, x, low, from, next)
  PROVE  LineAt(p \o q, x, low, from, next)
<1>1. Len(p) \in Nat /\ Len(q) \in Nat /\ Len(p \o q) = Len(p) + Len(q)
      /\ \A i \in 1..Len(p) : (p \o q)[i] = p[i]
  OBVIOUS
<1>2. Fit(x, low) /\ next = from + 17 - low /\ next <= Len(p) + 1
  BY DEF LineAt
<1>3. ASSUME NEW b \in low+1..17, from + b - low >= 2
      PROVE  (p \o q)[from + b - low - 1] = Cell(x, low, b)
  <2> DEFINE i == from + b - low - 1
  <2>1. i \in 1..Len(p)
    BY <1>1, <1>2, <1>3
  <2>2. p[i] = Cell(x, low, b)
    BY <1>3 DEF LineAt
  <2> QED
    BY <1>1, <2>1, <2>2
<1>4. next <= Len(p \o q) + 1
  BY <1>1, <1>2
<1> QED
  BY <1>2, <1>3, <1>4 DEF LineAt

(* Reading a character takes the next of the line.                         *)
LEMMA NextCharacter ==
  ASSUME NEW p \in Seq(Bytes), NEW s \in Seq(Numbers), NEW r \in Nat, NEW t \in Nat,
         NEW start, NEW low, Lines(p, s, r, t, start, low), r < Len(s),
         NEW bottom, bottom = low[r+1], t <= 16 - bottom
  PROVE  /\ p # <<>> /\ Head(p) = Cell(s[r+1], bottom, bottom + t + 1)
         /\ t < 16 - bottom =>
              Lines(Tail(p), s, r, t + 1, [k \in Nat |-> start[k] - 1], low)
         /\ t = 16 - bottom =>
              Lines(Tail(p), s, r + 1, 0, [k \in Nat |-> start[k] - 1], low)
<1> DEFINE new == [k \in Nat |-> start[k] - 1]
<1>1. start \in [Nat -> Int] /\ low \in [Nat -> Int]
  BY DEF Lines
<1>2. Len(s) \in Nat /\ Len(p) \in Nat
  OBVIOUS
<1>3. new \in [Nat -> Int] /\ \A k \in Nat : new[k] = start[k] - 1
  BY <1>1
<1> HIDE DEF new
<1>4. start[r+1] = 1 - t /\ start[Len(s)+1] = Len(p) + 1
  BY DEF Lines
<1>5. ASSUME NEW k \in r+1..Len(s)
      PROVE  /\ k \in Nat /\ k + 1 \in Nat /\ start[k] \in Int /\ start[k+1] \in Int
             /\ LineAt(p, s[k], low[k], start[k], start[k+1])
             /\ low[k] \in Int /\ low[k] <= 8 /\ start[k+1] = start[k] + 17 - low[k]
             /\ start[k+1] <= Len(p) + 1
             /\ k > r + 1 => start[k] >= 1
  <2>1. k \in Nat /\ k + 1 \in Nat
    BY <1>2
  <2>2. start[k] \in Int /\ start[k+1] \in Int
    BY <1>1, <2>1
  <2>3. LineAt(p, s[k], low[k], start[k], start[k+1]) /\ (k > r + 1 => start[k] >= 1)
    BY DEF Lines
  <2>4. /\ Fit(s[k], low[k]) /\ start[k+1] = start[k] + 17 - low[k]
        /\ start[k+1] <= Len(p) + 1
    BY <2>3 DEF LineAt
  <2>5. low[k] \in Int /\ low[k] <= 8
    BY <2>4, FitBounds
  <2> QED
    BY <2>1, <2>2, <2>3, <2>4, <2>5
<1>6. r + 1 \in r+1..Len(s) /\ (r + 1) + 1 = r + 2
  BY <1>2
<1>7. bottom \in Int /\ bottom <= 8 /\ start[r+2] = 18 - t - bottom /\ start[r+2] <= Len(p) + 1
  <2>1. /\ low[r+1] \in Int /\ low[r+1] <= 8 /\ start[r+2] = start[r+1] + 17 - low[r+1]
        /\ start[r+2] <= Len(p) + 1
    BY <1>5, <1>6
  <2>2. bottom \in Int /\ bottom <= 8 /\ start[r+2] = (1 - t) + 17 - bottom
    BY <1>4, <2>1
  <2>3. (1 - t) + 17 - bottom = 18 - t - bottom
    BY <2>2
  <2> QED
    BY <2>1, <2>2, <2>3
<1>8. Len(p) >= 1
  BY <1>2, <1>7
<1>9. ASSUME NEW k \in r+1..Len(s), k > r + 1
      PROVE  start[k] >= 2
  <2>1. k \in Nat
    BY <1>2
  <2>2. CASE k = r + 2
    BY <1>7, <2>2
  <2>3. CASE k > r + 2
    <3>1. k - 1 \in r+1..Len(s) /\ k - 1 > r + 1 /\ (k - 1) + 1 = k
      BY <1>2, <1>9, <2>1, <2>3
    <3>2. start[k-1] >= 1 /\ low[k-1] \in Int /\ low[k-1] <= 8
          /\ start[(k-1)+1] = start[k-1] + 17 - low[k-1] /\ start[k-1] \in Int
      BY <1>5, <3>1
    <3> QED
      BY <3>1, <3>2
  <2> QED
    BY <1>9, <2>1, <2>2, <2>3
<1>10. Head(p) = Cell(s[r+1], bottom, bottom + t + 1)
  <2>1. /\ bottom + t + 1 \in bottom+1..17
        /\ (1 - t) + (bottom + t + 1) - bottom = 2
        /\ (1 - t) + (bottom + t + 1) - bottom - 1 = 1
    <3>1. ASSUME NEW b \in Int, t <= 16 - b
          PROVE  /\ b + t + 1 \in b+1..17
                 /\ (1 - t) + (b + t + 1) - b = 2
                 /\ (1 - t) + (b + t + 1) - b - 1 = 1
      BY <3>1
    <3> QED
      BY <1>7, <3>1
  <2>2. LineAt(p, s[r+1], bottom, 1 - t, start[(r+1)+1])
    BY <1>4, <1>5, <1>6
  <2>3. p[1] = Cell(s[r+1], bottom, bottom + t + 1)
    BY <2>1, <2>2 DEF LineAt
  <2> QED
    BY <1>8, <2>3
<1>11. new[r+1] = 1 - (t + 1) /\ new[Len(s)+1] = Len(Tail(p)) + 1
       /\ (t = 16 - bottom => new[r+2] = 1)
  <2>1. new[r+1] = start[r+1] - 1 /\ new[Len(s)+1] = start[Len(s)+1] - 1 /\ new[r+2] = start[r+2] - 1
    BY <1>2, <1>3
  <2>2. Len(Tail(p)) = Len(p) - 1
    BY <1>8
  <2> QED
    BY <1>2, <1>4, <1>7, <2>1, <2>2
<1>12. ASSUME NEW k \in r+1..Len(s)
       PROVE  /\ LineAt(Tail(p), s[k], low[k], new[k], new[k+1])
              /\ k > r + 1 => new[k] >= 1
  <2>1. k \in Nat /\ k + 1 \in Nat /\ low[k] \in Int /\ start[k] \in Int
        /\ LineAt(p, s[k], low[k], start[k], start[k+1])
    BY <1>5
  <2>2. new[k] = start[k] - 1 /\ new[k+1] = start[k+1] - 1
    BY <1>3, <2>1
  <2>3. LineAt(Tail(p), s[k], low[k], start[k] - 1, start[k+1] - 1)
    BY <1>8, <2>1, LineMovesUp
  <2>4. k > r + 1 => new[k] >= 1
    BY <1>9, <2>1, <2>2
  <2> QED
    BY <2>2, <2>3, <2>4
<1>13. Lines(Tail(p), s, r, t + 1, new, low)
  BY <1>1, <1>3, <1>11, <1>12 DEF Lines
<1>14. ASSUME t = 16 - bottom PROVE Lines(Tail(p), s, r + 1, 0, new, low)
  <2>1. new[(r+1)+1] = 1 - 0
    BY <1>11, <1>14
  <2>2. ASSUME NEW k \in (r+1)+1..Len(s)
        PROVE  k \in r+1..Len(s) /\ k > r + 1
    BY <1>2
  <2>3. ASSUME NEW k \in (r+1)+1..Len(s)
        PROVE  LineAt(Tail(p), s[k], low[k], new[k], new[k+1]) /\ new[k] >= 1
    BY <1>12, <2>2
  <2> QED
    BY <1>1, <1>3, <1>11, <2>1, <2>3 DEF Lines
<1> QED
  BY <1>8, <1>10, <1>13, <1>14 DEF new

(* A line is written behind all others.                                    *)
IsLine(line, x, low) ==
  /\ Fit(x, low)
  /\ line \in Seq(Bytes) /\ Len(line) = 17 - low
  /\ \A b \in low+1..17 : line[b - low] = Cell(x, low, b)

LEMMA LineWritten ==
  ASSUME NEW p \in Seq(Bytes), NEW s \in Seq(Numbers), NEW r \in Nat, NEW t \in Nat,
         NEW start, NEW low, Lines(p, s, r, t, start, low), r <= Len(s),
         NEW x, NEW bottom, NEW line, IsLine(line, x, bottom)
  PROVE  \E start2, low2 : /\ Lines(p \o line, Append(s, x), r, t, start2, low2)
                           /\ \A k \in 1..Len(s) : low2[k] = low[k]
<1> DEFINE n == Len(s) + 1
           start2 == [start EXCEPT ![n + 1] = start[n] + 17 - bottom]
           low2 == [low EXCEPT ![n] = bottom]
           s2 == Append(s, x)
           p2 == p \o line
<1>0. /\ Fit(x, bottom) /\ line \in Seq(Bytes) /\ Len(line) = 17 - bottom
      /\ \A b \in bottom+1..17 : line[b - bottom] = Cell(x, bottom, b)
  BY DEF IsLine
<1>1. start \in [Nat -> Int] /\ low \in [Nat -> Int]
  BY DEF Lines
<1>2. Len(s) \in Nat /\ n \in Nat /\ n + 1 \in Nat /\ Len(p) \in Nat /\ n = Len(s) + 1 /\ r < n
  OBVIOUS
<1>3. start[n] = Len(p) + 1 /\ start[r+1] = 1 - t
  BY DEF Lines
<1>4. bottom \in -5..8
  BY <1>0 DEF Fit, Lowest
<1>5. Len(s2) = n /\ s2[n] = x /\ \A k \in 1..Len(s) : s2[k] = s[k]
  BY <1>2
<1>6. Len(p2) = Len(p) + 17 - bottom /\ \A i \in 1..Len(line) : p2[Len(p) + i] = line[i]
  BY <1>0, <1>2, <1>4
<1>7. start2 \in [Nat -> Int] /\ low2 \in [Nat -> Int]
  <2>1. start[n] + 17 - bottom \in Int /\ bottom \in Int
    BY <1>2, <1>3, <1>4
  <2> HIDE DEF n
  <2> QED
    BY <1>1, <2>1
<1>8. /\ low2[n] = bottom /\ start2[n] = Len(p) + 1 /\ start2[n+1] = Len(p) + 18 - bottom
      /\ \A k \in Nat : k # n => low2[k] = low[k]
      /\ \A k \in Nat : k # n + 1 => start2[k] = start[k]
  BY <1>1, <1>2, <1>3, <1>4
<1> HIDE DEF n, start2, low2, s2
<1>9. LineAt(p2, x, bottom, Len(p) + 1, Len(p) + 18 - bottom)
  <2>1. ASSUME NEW b \in bottom+1..17
        PROVE  p2[(Len(p) + 1) + b - bottom - 1] = Cell(x, bottom, b)
    <3>1. b - bottom \in 1..Len(line) /\ (Len(p) + 1) + b - bottom - 1 = Len(p) + (b - bottom)
      BY <1>0, <1>2, <1>4
    <3>2. p2[Len(p) + (b - bottom)] = line[b - bottom]
      BY <1>6, <3>1
    <3> QED
      BY <1>0, <3>1, <3>2
  <2> HIDE DEF p2
  <2>2. Len(p) + 18 - bottom = (Len(p) + 1) + 17 - bottom /\ Len(p) + 18 - bottom <= Len(p2) + 1
    BY <1>2, <1>4, <1>6
  <2> QED
    BY <1>0, <2>1, <2>2 DEF LineAt
<1>10. ASSUME NEW k \in r+1..n
       PROVE  /\ LineAt(p2, s2[k], low2[k], start2[k], start2[k+1])
              /\ k > r + 1 => start2[k] >= 1
  <2>1. CASE k = n
    BY <1>2, <1>5, <1>8, <1>9, <2>1
  <2>2. CASE k # n
    <3>1. k \in r+1..Len(s) /\ k \in 1..Len(s) /\ k # n + 1 /\ k + 1 # n + 1 /\ k \in Nat /\ k + 1 \in Nat
      BY <1>2, <2>2
    <3>2. s2[k] = s[k] /\ low2[k] = low[k] /\ start2[k] = start[k] /\ start2[k+1] = start[k+1]
      BY <1>5, <1>8, <2>2, <3>1
    <3>3. LineAt(p, s[k], low[k], start[k], start[k+1]) /\ (k > r + 1 => start[k] >= 1)
      BY <3>1 DEF Lines
    <3>4. start[k] \in Int /\ low[k] \in Int
      BY <1>1, <3>1
    <3>5. LineAt(p2, s[k], low[k], start[k], start[k+1])
      BY <1>0, <3>3, <3>4, LineStays
    <3> QED
      BY <3>2, <3>3, <3>5
  <2> QED
    BY <2>1, <2>2
<1>11. start2[r+1] = 1 - t /\ start2[n+1] = Len(p2) + 1
  BY <1>2, <1>3, <1>4, <1>6, <1>8
<1>12. Lines(p2, s2, r, t, start2, low2)
  <2> HIDE DEF p2
  <2> QED
    BY <1>5, <1>7, <1>10, <1>11 DEF Lines
<1>13. \A k \in 1..Len(s) : low2[k] = low[k]
  BY <1>2, <1>8
<1> QED
  BY <1>12, <1>13 DEF s2
-----------------------------------------------------------------------------
(* The reader.  Started characters of a line have been taken: those up to  *)
(* place low + Started.                                                    *)
Numeral == [neg : BOOLEAN, int : Nat, num : Nat, den : Nat]
Started == IF reader = "idle" THEN 0 ELSE Len(taken)

Fresh == taken = <<>> /\ r13 = 0 /\ xmm0 = 0 /\ xmm1 = 0 /\ xmm2 = 1

ReaderTypes ==
  /\ pipe \in Seq(Bytes) /\ taken \in Seq(Bytes) /\ char \in Bytes
  /\ sent \in Seq(Numbers) /\ received \in Seq(Numeral)
  /\ xmm0 \in Nat /\ xmm1 \in Nat /\ xmm2 \in Nat
  /\ reader \in {"idle", "first", "integer", "fraction"}
  /\ reader = "first" => Fresh
  /\ closed => toPrint = <<>> /\ writer = "idle"

(* The registers when the places of x up to b have been taken.             *)
IntegerAt(x, low, b) ==
  /\ b \in low+Sign(x)..9
  /\ r13 = Sign(x) /\ xmm0 = Bounded(Left(x.int, b)) /\ xmm1 = 0 /\ xmm2 = 1

FractionAt(x, b) ==
  /\ b \in 10..16
  /\ r13 = Sign(x) /\ xmm0 = Bounded(x.int)
  /\ xmm1 = Decimals(Millionths(x), b) /\ xmm2 = Tens[b - 9]

Progress(x, low) ==
  /\ reader = "integer"  => IntegerAt(x, low, low + Started)
  /\ reader = "fraction" => FractionAt(x, low + Started)

Came(x) == [neg |-> x.neg, int |-> Bounded(x.int), num |-> Millionths(x), den |-> Million]

Reading == ReadMinus \/ ReadDigit \/ ReadPoint \/ EndInteger \/ ReadDecimal \/ EndFraction

(* Reading a character of the line, but the last, brings the registers to  *)
(* the next place; the last ends the number.                               *)
Advances(x, low) ==
  \/ /\ low + Started <= 15 /\ reader' # "idle" /\ received' = received
     /\ Started' = Started + 1 /\ Progress(x, low)'
  \/ /\ low + Started = 16 /\ reader' = "idle" /\ received' = Append(received, Came(x))

LEMMA BoundedDigit ==
  ASSUME NEW n \in Nat
  PROVE  /\ Bounded(n) \in Nat
         /\ \A d \in 0..9 : Bounded(Bounded(n) * 10 + d) = Bounded(10 * n + d)
         /\ n <= Million => Bounded(n) = n
<1>1. Infinity \in Nat /\ Infinity >= Million /\ Million \in Nat
  BY InfinityAssumption DEF Million
<1>2. ASSUME NEW d \in 0..9 PROVE Bounded(Bounded(n) * 10 + d) = Bounded(10 * n + d)
  BY <1>1 DEF Bounded
<1> QED
  BY <1>1, <1>2 DEF Bounded

LEMMA LastDigit == ASSUME NEW n \in Nat PROVE n % 10 \in 0..9
  OBVIOUS

(* A digit more. *)
LEMMA NextLeft ==
  ASSUME NEW n \in Nat, NEW b \in Lowest..8
  PROVE  /\ Left(n, b) \in Nat /\ Left(n, b + 1) \in Nat
         /\ Left(n, b + 1) = 10 * Left(n, b) + (Left(n, b + 1) % 10)
         /\ Left(n, b + 1) % 10 \in 0..9
<1>1. b \in Lowest..9 /\ b + 1 \in Lowest..9 /\ b + 1 \in Lowest+1..9 /\ (b + 1) - 1 = b
  BY DEF Lowest
<1>2. Left(n, b) \in Nat /\ Left(n, b + 1) \in Nat
  BY <1>1, LeftDigits
<1>3. Left(n, b + 1) = 10 * Left(n, (b + 1) - 1) + (Left(n, b + 1) % 10)
  BY <1>1, LeftDigits
<1> QED
  BY <1>1, <1>2, <1>3, LastDigit

LEMMA NextDecimal ==
  ASSUME NEW n \in Nat, n < Million, NEW b \in 10..15
  PROVE  /\ Decimals(n, b) \in Nat /\ Decimals(n, b + 1) \in Nat
         /\ Decimals(n, b + 1) = 10 * Decimals(n, b) + (Decimals(n, b + 1) % 10)
         /\ Decimals(n, b + 1) % 10 \in 0..9
         /\ Decimals(n, b + 1) <= Million
<1>1. b \in 10..16 /\ b + 1 \in 10..16 /\ b + 1 \in 11..16 /\ (b + 1) - 1 = b
  OBVIOUS
<1>2. Decimals(n, b) \in Nat /\ Decimals(n, b + 1) \in Nat
  BY <1>1, DecimalDigits
<1>3. Decimals(n, b + 1) = 10 * Decimals(n, (b + 1) - 1) + (Decimals(n, b + 1) % 10)
  BY <1>1, DecimalDigits
<1>4. Decimals(n, b + 1) <= Million
  <2>1. ASSUME NEW k \in Nat \ {0} PROVE n \div k <= n
    BY <2>1, SMTT(30)
  <2>2. Tens[17 - (b + 1)] \in Nat \ {0}
    BY DEF Tens, Million
  <2>3. Decimals(n, b + 1) <= n
    BY <2>1, <2>2 DEF Decimals
  <2> QED
    BY <1>2, <2>3 DEF Million
<1> QED
  BY <1>1, <1>2, <1>3, <1>4, LastDigit

LEMMA CellIsByte ==
  ASSUME NEW x, NEW low, Fit(x, low), NEW b \in low+1..17
  PROVE  Cell(x, low, b) \in Bytes
<1>1. x \in Numbers /\ x.neg \in BOOLEAN /\ x.int \in Nat /\ low \in Int
      /\ (Sign(x) = IF x.neg THEN 1 ELSE 0) /\ low + Sign(x) \in Lowest..8
  BY FitBounds DEF Fit, Numbers, Sign
<1>2. CASE b = low + 1 /\ x.neg
  BY <1>2, CellIs DEF Bytes, Minus
<1>3. CASE b \in low+1+Sign(x)..9
  <2>1. b \in Lowest..9
    BY <1>1, <1>3 DEF Lowest
  <2>2. Left(x.int, b) % 10 \in 0..9
    BY <1>1, <2>1, LeftDigits, LastDigit
  <2> QED
    BY <1>3, <2>2, CellIs DEF Bytes, Zero
<1>4. CASE b = 10 \/ b = 17
  BY <1>4, CellIs DEF Bytes, Point, Newline
<1>5. CASE b \in 11..16
  <2>1. Millionths(x) \in Nat /\ Millionths(x) < Million
    BY <1>1, MillionthsBound
  <2>2. b - 1 \in 10..15 /\ (b - 1) + 1 = b
    BY <1>5
  <2>3. Decimals(Millionths(x), (b - 1) + 1) % 10 \in 0..9
    BY <2>1, <2>2, NextDecimal
  <2>4. Decimals(Millionths(x), b) % 10 \in 0..9
    BY <2>2, <2>3
  <2> QED
    BY <1>5, <2>4, CellIs DEF Bytes, Zero
<1>6. (b = low + 1 /\ x.neg) \/ b \in low+1+Sign(x)..9 \/ b = 10 \/ b = 17 \/ b \in 11..16
  <2>1. b \in Int /\ low + 1 <= b /\ b <= 17
    BY <1>1
  <2> QED
    BY <1>1, <2>1 DEF Sign
<1> QED
  BY <1>2, <1>3, <1>4, <1>5, <1>6

LEMMA FirstAdvances ==
  ASSUME ReaderTypes, NEW x, NEW low, Fit(x, low), reader = "first",
         char' = Cell(x, low, low + Started + 1), taken' = Append(taken, char'), Reading
  PROVE  Advances(x, low)
<1>1. taken = <<>> /\ r13 = 0 /\ xmm0 = 0 /\ xmm1 = 0 /\ xmm2 = 1 /\ Started = 0
      /\ Len(taken') = 1
  BY DEF ReaderTypes, Fresh, Started
<1>2. x.neg \in BOOLEAN /\ x.int \in Nat /\ low \in Int /\ low <= 8
      /\ (Sign(x) = IF x.neg THEN 1 ELSE 0)
      /\ low + Sign(x) \in Lowest..8 /\ Left(x.int, low + Sign(x)) = 0
  BY FitBounds DEF Fit, Numbers, Sign
<1>3. char' = Cell(x, low, low + 1)
  BY <1>1, <1>2
<1>4. CASE x.neg
  <2>1. char' = Minus
    BY <1>3, <1>4, CellIs
  <2>2. ReadMinus
    BY <2>1 DEF Reading, ReadDigit, ReadPoint, EndInteger, ReadDecimal, EndFraction, Integral
  <2>3. /\ reader' = "integer" /\ received' = received /\ r13' = 1
        /\ xmm0' = 0 /\ xmm1' = 0 /\ xmm2' = 1
    BY <1>1, <2>2 DEF ReadMinus, Continues
  <2>4. Started' = 1
    BY <1>1, <2>3 DEF Started
  <2>5. Bounded(0) = 0
    BY BoundedDigit DEF Million
  <2>6. low + 1 \in low+Sign(x)..9 /\ Left(x.int, low + 1) = 0 /\ Sign(x) = 1
    BY <1>2, <1>4
  <2> QED
    <3>1. IntegerAt(x, low, low + 1)'
      BY <1>1, <1>2, <2>3, <2>5, <2>6 DEF IntegerAt
    <3> QED
      BY <1>1, <1>2, <2>3, <2>4, <3>1 DEF Advances, Progress
<1>5. CASE ~x.neg
  <2>1. low + 1 \in low+1+Sign(x)..9 /\ low + 1 \in Lowest+1..9 /\ low + 1 \in Lowest..9
        /\ (low + 1) - 1 = low /\ Sign(x) = 0 /\ Left(x.int, low) = 0
    BY <1>2, <1>5 DEF Lowest
  <2> DEFINE d == Left(x.int, low + 1) % 10
  <2>2. Left(x.int, low + 1) \in Nat /\ Left(x.int, low + 1) = 10 * 0 + d /\ d \in 0..9
    <3>1. low \in Lowest..8
      BY <1>2, <2>1
    <3> QED
      BY <1>2, <2>1, <3>1, NextLeft
  <2>3. char' = Zero + d
    BY <1>3, <2>1, CellIs
  <2> HIDE DEF d
  <2>4. char' # Minus /\ char' # Point /\ Converts(char') /\ char' - Zero = d
    BY <2>2, <2>3 DEF Minus, Point, Zero, Converts
  <2>5. ReadDigit
    BY <2>4 DEF Reading, ReadMinus, ReadPoint, EndInteger, ReadDecimal, EndFraction
  <2>6. /\ reader' = "integer" /\ received' = received /\ r13' = 0
        /\ xmm0' = Bounded(0 * 10 + d) /\ xmm1' = 0 /\ xmm2' = 1
    BY <1>1, <2>4, <2>5 DEF ReadDigit, Continues
  <2>7. Started' = 1
    BY <1>1, <2>6 DEF Started
  <2>8. xmm0' = Bounded(Left(x.int, low + 1))
    BY <2>2, <2>3, <2>6
  <2> QED
    <3>1. IntegerAt(x, low, low + 1)'
      BY <1>1, <1>2, <2>1, <2>6, <2>8 DEF IntegerAt
    <3> QED
      BY <1>1, <1>2, <2>6, <2>7, <3>1 DEF Advances, Progress
<1> QED
  BY <1>2, <1>4, <1>5

LEMMA IntegerAdvances ==
  ASSUME ReaderTypes, NEW x, NEW low, Fit(x, low), Progress(x, low), reader = "integer",
         char' = Cell(x, low, low + Started + 1), taken' = Append(taken, char'), Reading
  PROVE  Advances(x, low)
<1>0. PICK b : b = low + Started
  OBVIOUS
<1>1. x.int \in Nat /\ low \in Int /\ low <= 8 /\ Sign(x) \in 0..1
      /\ low + Sign(x) \in Lowest..8 /\ x \in Numbers
  BY FitBounds DEF Fit, Numbers, Sign
<1>2. Started \in Nat /\ Started = Len(taken) /\ Len(taken') = Len(taken) + 1
  BY DEF ReaderTypes, Started
<1>3. b \in low+Sign(x)..9 /\ b \in Int
      /\ r13 = Sign(x) /\ xmm0 = Bounded(Left(x.int, b)) /\ xmm1 = 0 /\ xmm2 = 1
  <2>1. IntegerAt(x, low, b)
    BY <1>0 DEF Progress
  <2> QED
    BY <1>0, <1>1, <1>2, <2>1 DEF IntegerAt
<1>4. ASSUME reader' # "idle" PROVE Started' = Started + 1 /\ low + Started' = b + 1
  <2>1. Started' = Started + 1
    BY <1>2, <1>4 DEF Started
  <2> QED
    BY <1>0, <1>1, <1>2, <2>1
<1>5. char' = Cell(x, low, b + 1)
  BY <1>0
<1>6. CASE b <= 8
  <2>1. b + 1 \in low+1+Sign(x)..9 /\ b \in Lowest..8
    BY <1>1, <1>3, <1>6 DEF Lowest
  <2> DEFINE d == Left(x.int, b + 1) % 10
  <2>2. Left(x.int, b) \in Nat /\ Left(x.int, b + 1) = 10 * Left(x.int, b) + d
        /\ Left(x.int, b + 1) \in Nat /\ d \in 0..9
    BY <1>1, <2>1, NextLeft
  <2>3. char' = Zero + d
    BY <1>5, <2>1, CellIs
  <2> HIDE DEF d
  <2>4. char' # Minus /\ char' # Point /\ Converts(char') /\ char' - Zero = d
    BY <2>2, <2>3 DEF Minus, Point, Zero, Converts
  <2>5. ReadDigit
    BY <2>4 DEF Reading, ReadMinus, ReadPoint, EndInteger, ReadDecimal, EndFraction
  <2>6. /\ reader' = "integer" /\ received' = received /\ r13' = r13
        /\ xmm0' = Bounded(xmm0 * 10 + d) /\ xmm1' = xmm1 /\ xmm2' = xmm2
    BY <2>4, <2>5 DEF ReadDigit, Continues
  <2>7. xmm0' = Bounded(Left(x.int, b + 1))
    BY <1>3, <2>2, <2>3, <2>6, BoundedDigit
  <2>8. b <= 15 /\ b + 1 \in low+Sign(x)..9
    BY <1>1, <1>3, <1>6
  <2>9. Progress(x, low)'
    <3>1. IntegerAt(x, low, b + 1)'
      BY <1>3, <2>6, <2>7, <2>8 DEF IntegerAt
    <3> QED
      BY <1>4, <2>6, <3>1 DEF Progress
  <2> QED
    BY <1>0, <1>4, <2>6, <2>8, <2>9 DEF Advances
<1>7. CASE b = 9
  <2>1. char' = Point
    BY <1>5, <1>7, CellIs
  <2>2. ReadPoint
    BY <2>1 DEF Reading, ReadMinus, ReadDigit, EndInteger, ReadDecimal, EndFraction, Integral,
                Point, Minus, Zero, Converts
  <2>3. /\ reader' = "fraction" /\ received' = received /\ r13' = r13
        /\ xmm0' = xmm0 /\ xmm1' = xmm1 /\ xmm2' = xmm2
    BY <2>2 DEF ReadPoint, Continues, Registers
  <2>4. Left(x.int, 9) = x.int /\ Decimals(Millionths(x), 10) = 0 /\ Tens[1] = 1
    <3>1. Millionths(x) \in Nat /\ Millionths(x) < Million
      BY <1>1, MillionthsBound
    <3>2. Left(x.int, 9) = x.int
      BY <1>1, LeftDigits
    <3>3. Decimals(Millionths(x), 10) = 0
      BY <3>1, DecimalDigits
    <3> QED
      BY <3>2, <3>3 DEF Tens
  <2>5. low + Started' = 10 /\ b <= 15
    <3>1. reader' # "idle"
      BY <2>3
    <3> QED
      BY <1>4, <1>7, <3>1
  <2>6. Progress(x, low)'
    <3>1. FractionAt(x, 10)'
      BY <1>3, <1>7, <2>3, <2>4 DEF FractionAt
    <3> QED
      BY <2>3, <2>5, <3>1 DEF Progress
  <2> QED
    BY <1>0, <1>4, <2>3, <2>5, <2>6 DEF Advances
<1> QED
  BY <1>1, <1>3, <1>6, <1>7

LEMMA FractionAdvances ==
  ASSUME ReaderTypes, NEW x, NEW low, Fit(x, low), Progress(x, low), reader = "fraction",
         char' = Cell(x, low, low + Started + 1), taken' = Append(taken, char'), Reading
  PROVE  Advances(x, low)
<1> DEFINE m == Millionths(x)
<1>0. PICK b : b = low + Started
  OBVIOUS
<1>1. x.int \in Nat /\ x.neg \in BOOLEAN /\ low \in Int /\ (Sign(x) = IF x.neg THEN 1 ELSE 0)
      /\ m \in Nat /\ m < Million
  BY FitBounds, MillionthsBound DEF Fit, Numbers, Sign
<1>2. Started \in Nat /\ Started = Len(taken) /\ Len(taken') = Len(taken) + 1
  BY DEF ReaderTypes, Started
<1>3. b \in 10..16 /\ r13 = Sign(x) /\ xmm0 = Bounded(x.int)
      /\ xmm1 = Decimals(m, b) /\ xmm2 = Tens[b - 9]
  <2>1. FractionAt(x, b)
    BY <1>0 DEF Progress
  <2> QED
    BY <2>1 DEF FractionAt
<1>4. ASSUME reader' # "idle" PROVE Started' = Started + 1 /\ low + Started' = b + 1
  <2>1. Started' = Started + 1
    BY <1>2, <1>4 DEF Started
  <2> QED
    BY <1>0, <1>1, <1>2, <2>1
<1>5. char' = Cell(x, low, b + 1)
  BY <1>0
<1>6. CASE b <= 15
  <2>1. b + 1 \in 11..16 /\ (b + 1) - 1 = b /\ b + 1 \in 10..16
    BY <1>3, <1>6
  <2> DEFINE d == Decimals(m, b + 1) % 10
  <2>2. Decimals(m, b) \in Nat /\ Decimals(m, b + 1) = 10 * Decimals(m, b) + d
        /\ Decimals(m, b + 1) \in Nat /\ d \in 0..9 /\ Decimals(m, b + 1) <= Million
    <3>1. b \in 10..15
      BY <1>3, <1>6
    <3> HIDE DEF m
    <3> QED
      BY <1>1, <3>1, NextDecimal
  <2>3. char' = Zero + d
    BY <1>5, <2>1, CellIs
  <2> HIDE DEF d, m
  <2>5. Converts(char') /\ char' - Zero = d
    BY <2>2, <2>3 DEF Zero, Converts
  <2>6. ReadDecimal
    BY <2>5 DEF Reading, ReadMinus, ReadDigit, ReadPoint, EndInteger, EndFraction, Integral
  <2>7. /\ reader' = reader /\ received' = received /\ r13' = r13 /\ xmm0' = xmm0
        /\ xmm1' = Bounded(xmm1 * 10 + d) /\ xmm2' = Bounded(xmm2 * 10)
    BY <2>5, <2>6 DEF ReadDecimal, Continues
  <2>8. xmm1' = Decimals(m, b + 1)
    <3>1. xmm1 * 10 + d = Decimals(m, b + 1)
      BY <1>3, <2>2, <2>3
    <3> QED
      BY <2>2, <2>7, <3>1, BoundedDigit
  <2>9. xmm2' = Tens[b - 8]
    <3>1. Tens[b - 9] * 10 = Tens[b - 8] /\ Tens[b - 8] \in Nat /\ Tens[b - 8] <= Million
      <4>1. ASSUME NEW i \in 1..6
            PROVE  Tens[i] * 10 = Tens[i + 1] /\ Tens[i + 1] \in Nat /\ Tens[i + 1] <= Million
        BY DEF Tens, Million
      <4>2. b - 9 \in 1..6 /\ (b - 9) + 1 = b - 8
        BY <1>3, <1>6
      <4> QED
        BY <4>1, <4>2
    <3> QED
      BY <1>3, <2>7, <3>1, BoundedDigit
  <2>10. (b + 1) - 9 = b - 8
    BY <2>1
  <2>11. Progress(x, low)'
    <3>1. reader' # "idle" /\ reader' # "integer" /\ low + Started' = b + 1
      BY <1>4, <2>7
    <3>2. FractionAt(x, b + 1)'
      BY <1>3, <2>1, <2>7, <2>8, <2>9, <2>10 DEF FractionAt, m
    <3> QED
      BY <3>1, <3>2 DEF Progress
  <2> QED
    BY <1>0, <1>4, <1>6, <2>7, <2>11 DEF Advances
<1>7. CASE b = 16
  <2>1. char' = Newline
    BY <1>5, <1>7, CellIs
  <2>2. EndFraction
    BY <2>1 DEF Reading, ReadMinus, ReadDigit, ReadPoint, EndInteger, ReadDecimal, Integral,
                Newline, Zero, Converts
  <2>3. /\ reader' = "idle"
        /\ received' = Append(received, [neg |-> r13 = 1, int |-> xmm0, num |-> xmm1, den |-> xmm2])
    BY <2>2 DEF EndFraction, ConvEnd
  <2>4. (r13 = 1) = x.neg
    BY <1>1, <1>3
  <2>5. Decimals(m, 16) = m /\ Tens[7] = Million
    BY <1>1, DecimalDigits DEF Tens
  <2>6. [neg |-> r13 = 1, int |-> xmm0, num |-> xmm1, den |-> xmm2] = Came(x)
    BY <1>3, <1>7, <2>4, <2>5 DEF Came
  <2> QED
    BY <1>0, <1>7, <2>3, <2>6 DEF Advances
<1> QED
  BY <1>3, <1>6, <1>7
-----------------------------------------------------------------------------
(* The pipe.  As long as there is a line to read, the pipe holds the lines *)
(* of the numbers printed and not yet read, the first less what was taken  *)
(* of it, and the registers are those of its place.  When all the numbers  *)
(* are printed and read, what follows does not matter.                     *)
Flows(start, low) ==
  /\ Lines(pipe, sent, Len(received), Started, start, low)
  /\ Len(received) < Len(sent) => Progress(sent[Len(received)+1], low[Len(received)+1])

InFlight ==
  /\ Len(received) <= Len(sent)
  /\ Len(received) = Len(sent) => reader \in {"idle", "first"}
  /\ \E start, low : Flows(start, low)

Over == toPrint = <<>> /\ writer = "idle" /\ Len(received) >= Len(sent)

AllCame == \A k \in DOMAIN received : k <= Len(sent) => received[k] = Came(sent[k])

PipeInv == ReaderTypes /\ AllCame /\ (Over \/ InFlight)

LEMMA CameTyped ==
  ASSUME NEW x \in Numbers
  PROVE  Came(x) \in Numeral
<1>1. x.neg \in BOOLEAN /\ x.int \in Nat /\ Million \in Nat
  BY DEF Numbers, Million
<1> QED
  BY <1>1, BoundedDigit, MillionthsBound DEF Came, Numeral

LEMMA ReaderTypesInit == Init => ReaderTypes
  BY BytesAssumption DEF Init, ReaderTypes, Bytes

LEMMA LineOfBytes ==
  ASSUME IInv, WriterInv, WriteBuffer
  PROVE  LET line == [k \in 1..BUFFER_LEN - (r12 + 1) |-> buffer[r12 + k]]
         IN  IsLine(line, Printed, r12)
<1> DEFINE line == [k \in 1..BUFFER_LEN - (r12 + 1) |-> buffer[r12 + k]]
<1>1. Fit(Printed, r12) /\ \A b \in r12+1..17 : buffer[b] = Cell(Printed, r12, b)
  BY DEF WriterInv, WriteBuffer, Writing
<1>2. r12 \in Int /\ r12 >= -5 /\ r12 <= 8
  BY <1>1, FitBounds
<1>3. BUFFER_LEN - (r12 + 1) = 17 - r12 /\ 17 - r12 \in Nat
  BY <1>2 DEF BUFFER_LEN
<1>4. ASSUME NEW k \in 1..17 - r12 PROVE buffer[r12 + k] \in Bytes
  <2>1. r12 + k \in r12+1..17
    BY <1>2
  <2> QED
    BY <1>1, <2>1, CellIsByte
<1>5. line = [k \in 1..17 - r12 |-> buffer[r12 + k]]
  BY <1>3
<1>6. line \in Seq(Bytes) /\ Len(line) = 17 - r12
  BY <1>3, <1>4, <1>5
<1>7. ASSUME NEW b \in r12+1..17 PROVE line[b - r12] = Cell(Printed, r12, b)
  <2>1. b - r12 \in 1..17 - r12 /\ r12 + (b - r12) = b
    BY <1>2
  <2> QED
    BY <1>1, <1>5, <2>1
<1> HIDE DEF line
<1>8. IsLine(line, Printed, r12)
  BY <1>1, <1>6, <1>7 DEF IsLine
<1> QED
  BY <1>8 DEF line

LEMMA ReaderTypesStep == IInv /\ WriterInv /\ ReaderTypes /\ [Next]_vars => ReaderTypes'
<1> SUFFICES ASSUME IInv, WriterInv, ReaderTypes, [Next]_vars PROVE ReaderTypes'
  OBVIOUS
<1>1. CASE WriteBuffer
  <2> DEFINE line == [k \in 1..BUFFER_LEN - (r12 + 1) |-> buffer[r12 + k]]
  <2>1. line \in Seq(Bytes) /\ Printed \in Numbers
    BY <1>1, LineOfBytes DEF IsLine, Fit
  <2>2. pipe' = pipe \o line /\ sent' = Append(sent, Printed) /\ closed' = closed
        /\ UNCHANGED inVars /\ writer = "write"
    BY <1>1 DEF WriteBuffer, Printed
  <2> HIDE DEF line
  <2>3. pipe' \in Seq(Bytes) /\ sent' \in Seq(Numbers)
    BY <2>1, <2>2 DEF ReaderTypes
  <2> QED
    BY <2>2, <2>3 DEF ReaderTypes, inVars, Fresh
<1>2. CASE CallOut \/ IntConvLoop \/ WriteSign \/ FloatPartLoop
  <2>1. UNCHANGED <<sent, pipe, closed, inVars>> /\ ~closed
    BY <1>2 DEF CallOut, IntConvLoop, WriteSign, FloatPartLoop, ReaderTypes
  <2> QED
    BY <2>1 DEF ReaderTypes, inVars, Fresh
<1>3. CASE Close
  BY <1>3 DEF Close, ReaderTypes, outVars, inVars, Fresh
<1>4. CASE CallIn
  BY <1>4, BytesAssumption DEF CallIn, ReaderTypes, outVars, Fresh
<1>5. CASE Reading
  <2>1. UNCHANGED <<closed, outVars>> /\ ReadChar
    BY <1>5 DEF Reading, ReadMinus, ReadDigit, ReadPoint, EndInteger, ReadDecimal, EndFraction, Continues
  <2>2. char' \in Bytes /\ pipe' \in Seq(Bytes) /\ taken' \in Seq(Bytes)
    <3>1. CASE pipe # <<>> /\ char' = Head(pipe) /\ pipe' = Tail(pipe) /\ taken' = Append(taken, Head(pipe))
      <4>1. pipe \in Seq(Bytes) /\ taken \in Seq(Bytes)
        BY DEF ReaderTypes
      <4>2. Head(pipe) \in Bytes /\ Tail(pipe) \in Seq(Bytes)
        BY <3>1, <4>1
      <4>3. Append(taken, Head(pipe)) \in Seq(Bytes)
        BY <4>1, <4>2
      <4> QED
        BY <3>1, <4>2, <4>3
    <3>2. CASE UNCHANGED <<char, pipe, taken>>
      BY <3>2 DEF ReaderTypes
    <3> QED
      BY <2>1, <3>1, <3>2 DEF ReadChar
  <2>3. reader' \in {"idle", "integer", "fraction"}
    BY <1>5 DEF Reading, ReadMinus, ReadDigit, ReadPoint, EndInteger, ReadDecimal, EndFraction, ConvEnd
  <2>4. xmm0' \in Nat /\ xmm1' \in Nat /\ xmm2' \in Nat
    <3>1. \A n \in Nat : Bounded(n) \in Nat
      BY BoundedDigit
    <3>2. Converts(char') => char' - Zero \in Nat
      <4>1. ASSUME NEW c \in Bytes, Converts(c) PROVE c - Zero \in Nat
        BY <4>1 DEF Converts, Zero, Bytes
      <4> QED
        BY <2>2, <4>1
    <3>3. xmm0 \in Nat /\ xmm1 \in Nat /\ xmm2 \in Nat
      BY DEF ReaderTypes
    <3>4. CASE ReadDigit
      <4>1. xmm0 * 10 + (char' - Zero) \in Nat
        BY <3>2, <3>3, <3>4 DEF ReadDigit
      <4> QED
        BY <3>1, <3>3, <3>4, <4>1 DEF ReadDigit
    <3>5. CASE ReadDecimal
      <4>1. xmm1 * 10 + (char' - Zero) \in Nat /\ xmm2 * 10 \in Nat
        BY <3>2, <3>3, <3>5 DEF ReadDecimal
      <4> QED
        BY <3>1, <3>3, <3>5, <4>1 DEF ReadDecimal
    <3>6. CASE ReadMinus \/ ReadPoint \/ EndInteger \/ EndFraction
      BY <3>3, <3>6 DEF ReadMinus, ReadPoint, EndInteger, EndFraction, ConvEnd, Registers
    <3> QED
      BY <1>5, <3>4, <3>5, <3>6 DEF Reading
  <2>5. received' \in Seq(Numeral)
    <3>1. [neg |-> r13 = 1, int |-> xmm0, num |-> xmm1, den |-> xmm2] \in Numeral
      BY DEF Numeral, ReaderTypes
    <3>2. received' = received
          \/ received' = Append(received, [neg |-> r13 = 1, int |-> xmm0, num |-> xmm1, den |-> xmm2])
      BY <1>5 DEF Reading, ReadMinus, ReadDigit, ReadPoint, EndInteger, ReadDecimal, EndFraction,
                  ConvEnd, Continues
    <3> QED
      BY <3>1, <3>2 DEF ReaderTypes
  <2> QED
    BY <2>1, <2>2, <2>3, <2>4, <2>5 DEF ReaderTypes, outVars
<1>6. CASE UNCHANGED vars
  BY <1>6 DEF ReaderTypes, vars, outVars, inVars, Fresh
<1> QED
  BY <1>1, <1>2, <1>3, <1>4, <1>5, <1>6 DEF Next, Out, In, Reading

LEMMA PipeInit == Init /\ (\A k \in DOMAIN toPrint : Narrow(toPrint[k])) => PipeInv
<1> SUFFICES ASSUME Init PROVE PipeInv
  OBVIOUS
<1>1. ReaderTypes
  BY ReaderTypesInit
<1>2. sent = <<>> /\ received = <<>> /\ reader = "idle" /\ writer = "idle"
      /\ Len(sent) = 0 /\ Len(received) = 0 /\ Started = 0
  BY DEF Init, Started
<1>3. AllCame
  BY <1>2 DEF AllCame
<1>4. CASE toPrint = <<>>
  BY <1>1, <1>2, <1>3, <1>4 DEF PipeInv, Over
<1>5. CASE toPrint # <<>>
  <2>1. pipe = <<>> /\ Len(pipe) = 0
    BY <1>5 DEF Init
  <2> DEFINE ones == [k \in Nat |-> 1]
  <2>2. Lines(pipe, sent, 0, 0, ones, ones)
    BY <1>2, <2>1 DEF Lines
  <2>3. Flows(ones, ones)
    BY <1>2, <2>2 DEF Flows
  <2> QED
    BY <1>1, <1>2, <1>3, <2>3 DEF PipeInv, InFlight
<1> QED
  BY <1>4, <1>5

(* A character of a line is read.                                          *)
LEMMA LineRead ==
  ASSUME PipeInv, InFlight, Len(received) < Len(sent), Reading
  PROVE  AllCame' /\ InFlight'
<1>0. PICK r, x : r = Len(received) /\ x = sent[r+1]
  OBVIOUS
<1>1. ReaderTypes /\ AllCame /\ reader # "idle"
  BY DEF PipeInv, Reading, ReadMinus, ReadDigit, ReadPoint, EndInteger, ReadDecimal, EndFraction, Integral
<1>2. received \in Seq(Numeral) /\ sent \in Seq(Numbers) /\ r \in Nat /\ Len(sent) \in Nat /\ r < Len(sent)
      /\ r + 1 \in 1..Len(sent) /\ Started \in Nat /\ Started = Len(taken) /\ x \in Numbers
  BY <1>0, <1>1 DEF ReaderTypes, Started
<1>3. UNCHANGED outVars /\ sent' = sent /\ ReadChar
  BY DEF Reading, ReadMinus, ReadDigit, ReadPoint, EndInteger, ReadDecimal, EndFraction, Continues, outVars
<1>4. PICK start, low : Lines(pipe, sent, r, Started, start, low) /\ Progress(x, low[r+1])
  BY <1>0 DEF InFlight, Flows
<1>5. PICK bottom : bottom = low[r+1]
  OBVIOUS
<1>6. Fit(x, bottom)
  <2>1. LineAt(pipe, sent[r+1], low[r+1], start[r+1], start[(r+1)+1])
    <3>1. r + 1 \in r+1..Len(sent)
      BY <1>2
    <3> QED
      BY <1>4, <3>1 DEF Lines
  <2> QED
    BY <1>0, <1>5, <2>1 DEF LineAt
<1>7. bottom \in Int /\ bottom >= -5 /\ bottom <= 8
  BY <1>6, FitBounds
<1>8. Started <= 16 - bottom
  <2>1. CASE reader = "first"
    <3>1. Started = 0
      BY <1>1, <1>2, <2>1 DEF ReaderTypes, Fresh
    <3> QED
      BY <1>7, <3>1
  <2>2. CASE reader = "integer" \/ reader = "fraction"
    <3>1. bottom + Started <= 16
      <4>1. CASE reader = "integer"
        <5>1. IntegerAt(x, bottom, bottom + Started)
          BY <1>4, <1>5, <4>1 DEF Progress
        <5> QED
          BY <1>2, <1>7, <5>1 DEF IntegerAt, Sign
      <4>2. CASE reader = "fraction"
        <5>1. FractionAt(x, bottom + Started)
          BY <1>4, <1>5, <4>2 DEF Progress
        <5> QED
          BY <5>1 DEF FractionAt
      <4> QED
        BY <2>2, <4>1, <4>2
    <3> QED
      BY <1>2, <1>7, <3>1
  <2> QED
    BY <1>1, <2>1, <2>2 DEF ReaderTypes
<1> DEFINE new == [k \in Nat |-> start[k] - 1]
<1>9. /\ pipe # <<>> /\ Head(pipe) = Cell(x, bottom, bottom + Started + 1)
      /\ Started < 16 - bottom => Lines(Tail(pipe), sent, r, Started + 1, new, low)
      /\ Started = 16 - bottom => Lines(Tail(pipe), sent, r + 1, 0, new, low)
  <2>1. pipe \in Seq(Bytes)
    BY <1>1 DEF ReaderTypes
  <2> QED
    BY <1>0, <1>2, <1>4, <1>5, <1>8, <2>1, NextCharacter
<1> HIDE DEF new
<1>10. char' = Head(pipe) /\ pipe' = Tail(pipe) /\ taken' = Append(taken, Head(pipe))
  BY <1>3, <1>9 DEF ReadChar
<1>11. Advances(x, bottom)
  <2>1. char' = Cell(x, bottom, bottom + Started + 1) /\ taken' = Append(taken, char')
    BY <1>9, <1>10
  <2>2. Progress(x, bottom)
    BY <1>4, <1>5
  <2>3. reader \in {"first", "integer", "fraction"}
    BY <1>1 DEF ReaderTypes
  <2> QED
    BY <1>1, <1>6, <2>1, <2>2, <2>3, FirstAdvances, IntegerAdvances, FractionAdvances
<1>12. CASE bottom + Started <= 15 /\ reader' # "idle" /\ received' = received
            /\ Started' = Started + 1 /\ Progress(x, bottom)'
  <2>1. Started < 16 - bottom
    BY <1>2, <1>7, <1>12
  <2>2. Lines(pipe', sent', r, Started', new, low)
    BY <1>3, <1>9, <1>10, <1>12, <2>1
  <2>3. Len(received') = r /\ sent'[r+1] = x
    BY <1>0, <1>3, <1>12
  <2>4. PICK n : n = new
    OBVIOUS
  <2>5. Flows(n, low)'
    BY <1>5, <1>12, <2>2, <2>3, <2>4 DEF Flows
  <2>6. AllCame'
    BY <1>1, <1>3, <1>12 DEF AllCame, Came
  <2> QED
    BY <1>2, <1>3, <2>3, <2>5, <2>6 DEF InFlight
<1>13. CASE bottom + Started = 16 /\ reader' = "idle" /\ received' = Append(received, Came(x))
  <2>1. Started = 16 - bottom /\ Started' = 0
    BY <1>2, <1>7, <1>13 DEF Started
  <2>2. Lines(pipe', sent', r + 1, Started', new, low)
    BY <1>3, <1>9, <1>10, <2>1
  <2>3. Len(received') = r + 1 /\ received'[r+1] = Came(x) /\ DOMAIN received' = 1..r+1
        /\ \A k \in 1..r : received'[k] = received[k]
    BY <1>0, <1>2, <1>13, CameTyped
  <2>4. PICK n : n = new
    OBVIOUS
  <2>5. Flows(n, low)'
    BY <1>13, <2>2, <2>3, <2>4 DEF Flows, Progress
  <2>6. AllCame'
    <3>1. ASSUME NEW k \in 1..r+1, k <= Len(sent) PROVE received'[k] = Came(sent[k])
      <4>1. CASE k = r + 1
        BY <1>0, <2>3, <4>1
      <4>2. CASE k # r + 1
        <5>1. k \in 1..r /\ DOMAIN received = 1..r
          BY <1>0, <1>2, <4>2
        <5> QED
          BY <1>1, <2>3, <3>1, <5>1 DEF AllCame
      <4> QED
        BY <4>1, <4>2
    <3> QED
      BY <1>3, <2>3, <3>1 DEF AllCame, Came
  <2> QED
    BY <1>2, <1>3, <1>13, <2>3, <2>5, <2>6 DEF InFlight
<1> QED
  BY <1>11, <1>12, <1>13 DEF Advances

LEMMA PipeStep == IInv /\ WriterInv /\ PipeInv /\ [Next]_vars => PipeInv'
<1> SUFFICES ASSUME IInv, WriterInv, PipeInv, [Next]_vars PROVE PipeInv'
  OBVIOUS
<1>0. ReaderTypes /\ ReaderTypes' /\ AllCame
  BY ReaderTypesStep DEF PipeInv
<1>1. received \in Seq(Numeral) /\ sent \in Seq(Numbers) /\ Len(received) \in Nat /\ Len(sent) \in Nat
      /\ DOMAIN received = 1..Len(received)
  BY <1>0 DEF ReaderTypes
<1>2. CASE WriteBuffer
  <2>1. ~Over /\ InFlight
    BY <1>2 DEF WriteBuffer, PipeInv, Over
  <2> DEFINE line == [k \in 1..BUFFER_LEN - (r12 + 1) |-> buffer[r12 + k]]
  <2>0. PICK x, r : x = Printed /\ r = Len(received)
    OBVIOUS
  <2>2. IsLine(line, x, r12)
    BY <1>2, <2>0, LineOfBytes
  <2>3. pipe' = pipe \o line /\ sent' = Append(sent, x) /\ UNCHANGED inVars
    BY <1>2, <2>0 DEF WriteBuffer, Printed
  <2>4. received' = received /\ reader' = reader /\ Started' = Started /\ r13' = r13
        /\ xmm0' = xmm0 /\ xmm1' = xmm1 /\ xmm2' = xmm2 /\ taken' = taken
    BY <2>3 DEF inVars, Started
  <2> HIDE DEF line
  <2>5. x \in Numbers /\ Len(sent') = Len(sent) + 1 /\ \A k \in 1..Len(sent) : sent'[k] = sent[k]
    BY <1>1, <2>2, <2>3 DEF IsLine, Fit
  <2>6. PICK start, low : Flows(start, low)
    BY <2>1 DEF InFlight
  <2>7. pipe \in Seq(Bytes) /\ Started \in Nat /\ r \in Nat /\ r <= Len(sent)
        /\ Lines(pipe, sent, r, Started, start, low)
    BY <1>0, <1>1, <2>0, <2>1, <2>6 DEF ReaderTypes, Started, InFlight, Flows
  <2>8. PICK start2, low2 : /\ Lines(pipe \o line, Append(sent, x), r, Started, start2, low2)
                            /\ \A k \in 1..Len(sent) : low2[k] = low[k]
    <3>1. PICK bottom, more, p, t, s : bottom = r12 /\ more = line /\ p = pipe /\ t = Started /\ s = sent
      OBVIOUS
    <3>2. IsLine(more, x, bottom)
      BY <2>2, <3>1
    <3>3. /\ p \in Seq(Bytes) /\ s \in Seq(Numbers) /\ t \in Nat /\ r \in Nat /\ r <= Len(s)
          /\ Lines(p, s, r, t, start, low)
      BY <1>1, <2>7, <3>1
    <3>4. \E start2, low2 : /\ Lines(p \o more, Append(s, x), r, t, start2, low2)
                            /\ \A k \in 1..Len(s) : low2[k] = low[k]
      BY <3>2, <3>3, LineWritten
    <3> QED
      BY <3>1, <3>4
  <2>9. Progress(sent[r+1], low2[r+1])'
    <3>1. CASE r < Len(sent)
      <4>1. r + 1 \in 1..Len(sent)
        BY <1>1, <2>7, <3>1
      <4>2. Progress(sent[r+1], low[r+1])
        BY <2>0, <2>6, <3>1 DEF Flows
      <4>3. PICK y, bottom : y = sent[r+1] /\ bottom = low[r+1]
        OBVIOUS
      <4>4. Progress(y, bottom)'
        BY <2>4, <4>2, <4>3 DEF Progress, IntegerAt, FractionAt
      <4>5. sent'[r+1] = y /\ low2[r+1] = bottom
        BY <2>5, <2>8, <4>1, <4>3
      <4> QED
        BY <4>4, <4>5
    <3>2. CASE r = Len(sent)
      <4>1. reader \in {"idle", "first"}
        BY <2>0, <2>1, <3>2 DEF InFlight
      <4> QED
        BY <2>4, <4>1 DEF Progress
    <3> QED
      BY <1>1, <2>7, <3>1, <3>2
  <2>10. Flows(start2, low2)'
    BY <2>0, <2>3, <2>4, <2>8, <2>9 DEF Flows
  <2>11. AllCame'
    <3>1. ASSUME NEW k \in 1..Len(received) PROVE (received[k] = Came(sent[k]))'
      <4>1. k \in 1..Len(sent) /\ k <= Len(sent)
        BY <1>1, <2>0, <2>7
      <4>2. received[k] = Came(sent[k]) /\ sent'[k] = sent[k] /\ received'[k] = received[k]
        BY <1>0, <1>1, <2>4, <2>5, <4>1 DEF AllCame
      <4> QED
        BY <4>2 DEF Came
    <3>2. DOMAIN received' = 1..Len(received)
      BY <1>1, <2>4
    <3> QED
      BY <3>1, <3>2 DEF AllCame, Came
  <2>12. InFlight'
    <3>1. Len(received') <= Len(sent') /\ Len(received') # Len(sent')
      <4>1. Len(received') = Len(received) /\ Len(received) \in Nat
        BY <1>1, <2>4
      <4>2. Len(received) <= Len(sent) /\ Len(sent) \in Nat /\ Len(sent') = Len(sent) + 1
        BY <1>1, <2>0, <2>5, <2>7
      <4> QED
        BY <4>1, <4>2
    <3> QED
      BY <2>10, <3>1 DEF InFlight
  <2> QED
    BY <1>0, <2>11, <2>12 DEF PipeInv
<1>3. CASE UNCHANGED <<pipe, sent, inVars>>
           /\ (Over => toPrint' = <<>> /\ writer' = "idle")
  <2>1. AllCame'
    BY <1>0, <1>3 DEF AllCame, Came, inVars
  <2>2. Over => Over'
    BY <1>3 DEF Over, inVars
  <2>3. InFlight => InFlight'
    BY <1>3 DEF InFlight, Flows, Started, Progress, IntegerAt, FractionAt, inVars
  <2> QED
    BY <1>0, <2>1, <2>2, <2>3 DEF PipeInv
<1>4. CASE CallIn
  <2>1. received' = received /\ sent' = sent /\ pipe' = pipe /\ toPrint' = toPrint /\ writer' = writer
        /\ reader = "idle" /\ reader' = "first" /\ taken' = <<>>
    BY <1>4 DEF CallIn, outVars
  <2>2. AllCame' /\ (Over => Over')
    BY <1>0, <2>1 DEF AllCame, Came, Over
  <2>3. Started = 0 /\ Started' = 0
    BY <2>1 DEF Started
  <2>4. InFlight => InFlight'
    BY <2>1, <2>3 DEF InFlight, Flows, Progress
  <2> QED
    BY <1>0, <2>2, <2>4 DEF PipeInv
<1>5. CASE Reading
  <2>1. UNCHANGED outVars
    BY <1>5 DEF Reading, ReadMinus, ReadDigit, ReadPoint, EndInteger, ReadDecimal, EndFraction, Continues
  <2>2. toPrint' = toPrint /\ writer' = writer /\ sent' = sent
    BY <2>1 DEF outVars
  <2>3. CASE InFlight /\ Len(received) < Len(sent)
    BY <1>0, <1>5, <2>3, LineRead DEF PipeInv
  <2>4. CASE Len(received) >= Len(sent) /\ Over
    <3>1. received' = received
          \/ received' = Append(received, [neg |-> r13 = 1, int |-> xmm0, num |-> xmm1, den |-> xmm2])
      BY <1>5 DEF Reading, ReadMinus, ReadDigit, ReadPoint, EndInteger, ReadDecimal, EndFraction,
                  ConvEnd, Continues
    <3>2. Len(received') >= Len(received) /\ Len(received') \in Nat
          /\ \A k \in 1..Len(received') : k <= Len(sent) => k \in 1..Len(received) /\ received'[k] = received[k]
      BY <1>1, <2>4, <3>1
    <3>3. DOMAIN received' = 1..Len(received')
      BY <1>0 DEF ReaderTypes
    <3>4. AllCame'
      BY <1>0, <1>1, <2>2, <3>2, <3>3 DEF AllCame, Came
    <3>5. Over'
      BY <1>1, <2>2, <2>4, <3>2 DEF Over
    <3> QED
      BY <1>0, <3>4, <3>5 DEF PipeInv
  <2>5. CASE InFlight /\ Len(received) >= Len(sent) /\ ~Over
    \* Nothing is in the pipe, and it is open: the read waits.
    <3>1. Len(received) = Len(sent)
      BY <1>1, <2>5 DEF InFlight
    <3>2. reader = "first" /\ Started = 0
      <4>1. reader \in {"idle", "first"}
        BY <2>5, <3>1 DEF InFlight
      <4>2. reader # "idle"
        BY <1>5 DEF Reading, ReadMinus, ReadDigit, ReadPoint, EndInteger, ReadDecimal, EndFraction, Integral
      <4>3. reader = "first"
        BY <4>1, <4>2
      <4> QED
        BY <1>0, <4>3 DEF ReaderTypes, Fresh, Started
    <3>3. pipe = <<>>
      <4>1. PICK start, low : Lines(pipe, sent, Len(received), Started, start, low)
        BY <2>5 DEF InFlight, Flows
      <4>2. start[Len(received)+1] = 1 - Started /\ start[Len(sent)+1] = Len(pipe) + 1
        BY <4>1 DEF Lines
      <4>3. Len(pipe) = 0 /\ pipe \in Seq(Bytes)
        <5>1. Len(pipe) \in Nat /\ pipe \in Seq(Bytes)
          BY <1>0 DEF ReaderTypes
        <5> QED
          BY <3>1, <3>2, <4>2, <5>1
      <4> QED
        BY <4>3
    <3>4. ReadChar
      BY <1>5 DEF Reading, ReadMinus, ReadDigit, ReadPoint, EndInteger, ReadDecimal, EndFraction
    <3>5. closed
      BY <3>3, <3>4 DEF ReadChar
    <3>6. Over
      BY <1>0, <2>5, <3>5 DEF ReaderTypes, Over
    <3> QED
      BY <2>5, <3>6
  <2>6. Over => Len(received) >= Len(sent)
    BY DEF Over
  <2> QED
    BY <1>1, <2>3, <2>4, <2>5, <2>6 DEF PipeInv
<1>6. CASE CallOut \/ IntConvLoop \/ WriteSign \/ FloatPartLoop \/ Close \/ UNCHANGED vars
  <2>1. UNCHANGED <<pipe, sent, inVars>>
    BY <1>6 DEF CallOut, IntConvLoop, WriteSign, FloatPartLoop, Close, vars, outVars
  <2>2. Over => toPrint' = <<>> /\ writer' = "idle"
    BY <1>6 DEF CallOut, IntConvLoop, WriteSign, FloatPartLoop, Close, vars, outVars, Over
  <2> QED
    BY <1>3, <2>1, <2>2
<1> QED
  BY <1>2, <1>4, <1>5, <1>6 DEF Next, Out, In, Reading

LEMMA PipeInvImplies == PipeInv => PipeKeepsNumbers
<1> SUFFICES ASSUME PipeInv, NEW k \in DOMAIN received, k <= Len(sent), sent[k].int < Infinity
             PROVE  SameNumber(received[k], sent[k])
  BY DEF PipeKeepsNumbers
<1>1. received[k] = Came(sent[k])
  BY DEF PipeInv, AllCame
<1>2. sent[k] \in Numbers
  <2>1. k \in 1..Len(sent)
    BY DEF PipeInv, ReaderTypes
  <2> QED
    BY <2>1 DEF PipeInv, ReaderTypes
<1>3. sent[k].int \in Nat /\ Infinity \in Nat
  BY <1>2, InfinityAssumption DEF Numbers
<1>4. Bounded(sent[k].int) = sent[k].int
  BY <1>3 DEF Bounded
<1>5. Million \div Million = 1
  BY DEF Million
<1>6. Millionths(sent[k]) \in Nat
  BY <1>2, MillionthsBound
<1>7. Millionths(sent[k]) * 1 = Millionths(sent[k])
  BY <1>6
<1> QED
  BY <1>1, <1>4, <1>5, <1>7 DEF SameNumber, Came, Millionths

(* What one program prints another reads back, for any numbers with at     *)
(* most thirteen digits before the point, however the two programs run     *)
(* together.                                                               *)
THEOREM NumbersComeBack ==
  Spec /\ (\A k \in DOMAIN toPrint : Narrow(toPrint[k])) => []PipeKeepsNumbers
<1>1. Init /\ (\A k \in DOMAIN toPrint : Narrow(toPrint[k])) => IInv /\ WriterInv /\ PipeInv
  BY InitInvariant, WriterInit, PipeInit
<1>2. (IInv /\ WriterInv /\ PipeInv) /\ [Next]_vars => (IInv /\ WriterInv /\ PipeInv)'
  BY NextInvariant, WriterStep, PipeStep
<1>3. IInv /\ WriterInv /\ PipeInv => PipeKeepsNumbers
  BY PipeInvImplies
<1> QED
  BY <1>1, <1>2, <1>3, PTL DEF Spec
=============================================================================
