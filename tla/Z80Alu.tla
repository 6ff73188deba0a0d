------------------------------- MODULE Z80Alu -------------------------------
(***************************************************************************)
(* Bytes, words and flags of the Z80, and the arithmetic of z80.c: the     *)
(* macros over the flag register (z80.c:45-156) and the computations that  *)
(* its five switches share.  An operation takes the flags as they are and  *)
(* returns a record: the value v it computes and the flags f after it.     *)
(***************************************************************************)
EXTENDS Integers, FiniteSets

Bit  == 0 .. 7
Byte == 0 .. 2^8 - 1
Word == 0 .. 2^16 - 1

(* A byte as the set of its one bits, and the byte that has such a set. *)
BitsOf == [b \in Byte |-> {i \in Bit : (b \div 2^i) % 2 = 1}]
ByteOf == [s \in SUBSET Bit |-> CHOOSE b \in Byte : BitsOf[b] = s]

AndByte(a, b) == ByteOf[BitsOf[a] \cap BitsOf[b]]
OrByte(a, b)  == ByteOf[BitsOf[a] \cup BitsOf[b]]
XorByte(a, b) == ByteOf[(BitsOf[a] \cup BitsOf[b]) \ (BitsOf[a] \cap BitsOf[b])]

Low(b)    == b % 16
High(b)   == b - Low(b)
Signed(b) == IF b < \h80 THEN b ELSE b - \h100

(* The flag register F is kept as the set of its bits. *)
CARRY    == 0
NEGATIVE == 1
PARITY   == 2
OVERFLOW == PARITY
HALF     == 4
ZERO     == 6
SIGN     == 7

When(cond, flag) == IF cond THEN {flag} ELSE {}
CarryIn(f)       == IF CARRY \in f THEN 1 ELSE 0
EvenBits(b)      == Cardinality(BitsOf[b]) % 2 = 0
SignZero(b)      == When(b >= \h80, SIGN) \cup When(b = 0, ZERO)

(* flags(val): what the shifts and the digit rotates leave behind. *)
FlagsOf(f, b) ==
  (f \cap {CARRY, 3, 5}) \cup SignZero(b) \cup When(EvenBits(b), PARITY)

(* logical(hval), after the AND, XOR or OR it belongs to. *)
Logical(op, a, b, f) ==
  LET r == CASE op = "and" -> AndByte(a, b)
             [] op = "xor" -> XorByte(a, b)
             [] op = "or"  -> OrByte(a, b)
  IN  [v |-> r,
       f |-> (f \cap {3, 5}) \cup SignZero(r) \cup When(op = "and", HALF)
                             \cup When(EvenBits(r), PARITY)]

(* arith8(val, carry, sub).  The half carry leaves the carry-in out, and   *)
(* the overflow of a subtraction is judged by the rule for additions.      *)
HalfCarry_Sum(a, val, sub) == Low(a) + Low(val) >= 16
HalfCarry(a, val, sub) ==
  IF sub THEN Low(a) < Low(val) ELSE Low(a) + Low(val) >= 16

Arith8(a, val, carry, sub, f) ==
  LET cin == IF carry THEN CarryIn(f) ELSE 0
      tt  == IF sub THEN a - val - cin ELSE a + val + cin
      r   == tt % \h100
  IN  [v |-> r,
       f |-> (f \cap {3, 5}) \cup SignZero(r)
             \cup When(tt \notin Byte, CARRY)
             \cup When(sub, NEGATIVE)
             \cup When(HalfCarry(a, val, sub), HALF)
             \cup When(/\ (a >= \h80) = (val >= \h80)
                       /\ (a >= \h80) # (r >= \h80), OVERFLOW)]

(* increment(reg, neg): CARRY stays as it is. *)
Increment(b, neg, f) ==
  LET r == (IF neg THEN b - 1 ELSE b + 1) % \h100
  IN  [v |-> r,
       f |-> (f \cap {CARRY, 3, 5}) \cup SignZero(r)
             \cup When(neg, NEGATIVE)
             \cup When(Low(IF neg THEN b ELSE r) = 0, HALF)
             \cup When(b = IF neg THEN \h80 ELSE \h7F, OVERFLOW)]

(* The shifts of the CB group by bits 5-3 of the opcode: rlc 0, rrc 1,     *)
(* rl 2, rr 3, sla 4, sra 5 and srl 7.                                     *)
Shift(y, b, f) ==
  LET right == y % 2 = 1
      out   == IF right THEN b % 2 = 1 ELSE b >= \h80
      into  == CASE y \in {0, 1} -> out
                 [] y \in {2, 3} -> CARRY \in f
                 [] y \in {4, 7} -> FALSE
                 [] y = 5        -> b >= \h80
      r     == IF right THEN (b \div 2) + (IF into THEN \h80 ELSE 0)
                        ELSE ((2 * b) % \h100) + (IF into THEN 1 ELSE 0)
  IN  [v |-> r, f |-> (FlagsOf(f, r) \ {CARRY}) \cup When(out, CARRY)]

(* daa: the number it adds. *)
Adjustment(a, f) ==
  LET half == HALF \in f
  IN  CASE NEGATIVE \in f /\ CARRY \in f ->
             IF half THEN IF High(a) >= \h60 /\ Low(a) >= 6 THEN \h9A ELSE 0
                     ELSE IF High(a) >= \h70 /\ Low(a) <= 9 THEN \hA0 ELSE 0
        [] NEGATIVE \in f /\ CARRY \notin f ->
             IF half /\ High(a) <= \h80 /\ Low(a) >= 6 THEN \hFA ELSE 0
        [] NEGATIVE \notin f /\ CARRY \in f ->
             IF half THEN IF High(a) <= \h30 /\ Low(a) <= 3 THEN \h66 ELSE 0
                     ELSE IF High(a) > \h20 THEN 0
                          ELSE IF Low(a) <= 9 THEN \h60 ELSE \h66
        [] NEGATIVE \notin f /\ CARRY \notin f ->
             IF half THEN IF Low(a) > 3 THEN 0
                          ELSE IF High(a) <= \h90 THEN \h06 ELSE \h66
                     ELSE IF Low(a) <= 9
                          THEN IF High(a) >= \hA0 THEN \h60 ELSE 0
                          ELSE IF High(a) <= \h80 THEN \h06 ELSE \h66

(* daa: arith8 adds it, only NEGATIVE outlives that.  (arith8 sets CARRY   *)
(* anew, also where the number added stands for a subtraction.)            *)
Daa(a, f) ==
  LET sum == Arith8(a, Adjustment(a, f), FALSE, FALSE, f)
  IN  [v |-> sum.v,
       f |-> (sum.f \ {PARITY}) \cup (f \cap {NEGATIVE})
             \cup When(EvenBits(sum.v), PARITY)]

(* neg: the complement plus one, whose carry and half carry are those of   *)
(* the addition.                                                           *)
Neg(a, f) ==
  LET sum == Arith8(\hFF - a, 1, FALSE, FALSE, f)
  IN  [v |-> sum.v, f |-> sum.f \cup {NEGATIVE}]

(* add hl,ss and add ir,ss: HALF and the other flags stay. *)
Add16(x, y, f) ==
  [v |-> (x + y) % \h10000,
   f |-> (f \ {NEGATIVE, CARRY}) \cup When(x + y > \hFFFF, CARRY)]

(* adc hl,ss and sbc hl,ss.  ZERO looks at the sum before it is cut to 16  *)
(* bits; HALF is not touched.                                              *)
Arith16(x, y, sub, f) ==
  LET ttt == IF sub THEN x - y - CarryIn(f) ELSE x + y + CarryIn(f)
      r   == ttt % \h10000
      neg(w) == w >= \h8000
  IN  [v |-> r,
       f |-> (f \cap {HALF, 3, 5}) \cup When(neg(r), SIGN)
             \cup When(ttt = 0, ZERO)
             \cup When(sub, NEGATIVE)
             \cup When(ttt \notin Word, CARRY)
             \cup When(IF sub THEN neg(x) # neg(y) /\ neg(y) = neg(r)
                              ELSE neg(x) = neg(y) /\ neg(y) # neg(r), OVERFLOW)]
=============================================================================
