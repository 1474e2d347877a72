----------------------------- MODULE KeyPacking -----------------------------
(***************************************************************************)
(* How a producer's AES key travels: hexstr2intvec makes bits of its       *)
(* hexadecimal digits, two digits at a time from the last, least           *)
(* significant bit first; they are the coefficients of the plaintext.  The *)
(* consumer makes digits of a fixed number of coefficients.  A key is a    *)
(* sequence of digits, the first the most significant.                     *)
(***************************************************************************)
EXTENDS Integers, Sequences

CONSTANT KeyDigits    \* digits the consumer writes, 64 in the program

ASSUME KeyDigitsAssumption == KeyDigits \in Nat /\ KeyDigits % 2 = 0

Digit == 0..15
Bit(d, j) == (CASE j = 0 -> d [] j = 1 -> d \div 2 [] j = 2 -> d \div 4 [] j = 3 -> d \div 8) % 2

\* Mutant: the two digits of a byte are taken in the order they are read.
hexstr2intvecBytes(s) ==
  [i \in 1..(8 * (Len(s) \div 2)) |->
     Bit(s[Len(s) - 2 * ((i - 1) \div 8) - (1 - ((i - 1) % 8) \div 4)], (i - 1) % 4)]

\* A first digit that is left over is not read.
hexstr2intvec(s) ==
  [i \in 1..(8 * (Len(s) \div 2)) |-> Bit(s[Len(s) - (i - 1) \div 4], (i - 1) % 4)]

\* The coefficients the consumer takes; those not set by the producer are 0.
FirstSlots(v) == [i \in 1..(4 * KeyDigits) |-> IF i <= Len(v) THEN v[i] ELSE 0]

\* For a number of bits that is a multiple of 8.
intvec2hexstr(v) ==
  LET n == Len(v) \div 4
  IN  [k \in 1..n |->
         LET i == 4 * (n - k)
         IN  v[i + 1] + 2 * v[i + 2] + 4 * v[i + 3] + 8 * v[i + 4]]

\* What the consumer writes to its file if the producer's file has key s.
Received(s) == intvec2hexstr(FirstSlots(hexstr2intvec(s)))

\* The key filled up with zeros in front.
Padded(s) ==
  [k \in 1..KeyDigits |-> IF k <= KeyDigits - Len(s) THEN 0 ELSE s[k - (KeyDigits - Len(s))]]

\* Keys the demo is meant for: whole bytes, and no more than are written.
Key == {s \in Seq(Digit) : Len(s) % 2 = 0 /\ Len(s) <= KeyDigits}
=============================================================================
