------------------------- MODULE Z80Programs_proofs -------------------------
(***************************************************************************)
(* The whole instruction set, for every program, every byte in memory and  *)
(* every answer of a port: no instruction takes a register, a flag or a    *)
(* byte of memory out of its type.                                         *)
(***************************************************************************)
EXTENDS Z80Programs, TLAPS

CpuState ==
  [r : [Reg -> Byte], f : SUBSET Bit, alt : [0 .. 3 -> Word], xy : [0 .. 1 -> Word],
   sp : Word, pc : Word, ir : [0 .. 1 -> Byte], iff : BOOLEAN, iff2 : BOOLEAN,
   imode : 0 .. 2, st : {"run", "halt", "prompt", "crash"}]

MemoryOK(m) == DOMAIN m \subseteq Word /\ \A a \in DOMAIN m : m[a] \in Byte

CpuOK == z \in CpuState /\ MemoryOK(mem)

LEMMA CpuIsTyped == CpuOK => CpuTypeOK
BY DEF CpuOK, CpuState, MemoryOK, CpuTypeOK

-----------------------------------------------------------------------------
(* Bytes and their bits: every set of bits is the one of a byte. *)
LEMMA SetsAreBytes ==
  ASSUME NEW s \in SUBSET Bit
  PROVE  ByteOf[s] \in Byte /\ BitsOf[ByteOf[s]] = s
<1> DEFINE w(i, n) == IF i \in s THEN n ELSE 0
           b == w(0, 1) + w(1, 2) + w(2, 4) + w(3, 8) + w(4, 16) + w(5, 32)
                  + w(6, 64) + w(7, 128)
<1>1. b \in Byte
  BY DEF Byte
<1>2. /\ (b \div 1) % 2 = w(0, 1)
      /\ (b \div 2) % 2 = w(1, 1)
      /\ (b \div 4) % 2 = w(2, 1)
      /\ (b \div 8) % 2 = w(3, 1)
  OBVIOUS
<1>3. /\ (b \div 16) % 2 = w(4, 1)
      /\ (b \div 32) % 2 = w(5, 1)
      /\ (b \div 64) % 2 = w(6, 1)
      /\ (b \div 128) % 2 = w(7, 1)
  OBVIOUS
<1> HIDE DEF b
<1>4. ASSUME NEW i \in Bit PROVE (b \div 2^i) % 2 = 1 <=> i \in s
  <2>0. i = 0 \/ i = 1 \/ i = 2 \/ i = 3 \/ i = 4 \/ i = 5 \/ i = 6 \/ i = 7
    BY DEF Bit
  <2>1. CASE i = 0
    <3>1. 2^i = 1
      BY <2>1
    <3> QED
      BY <1>2, <2>1, <3>1
  <2>2. CASE i = 1
    <3>1. 2^i = 2
      BY <2>2
    <3> QED
      BY <1>2, <2>2, <3>1
  <2>3. CASE i = 2
    <3>1. 2^i = 4
      BY <2>3
    <3> QED
      BY <1>2, <2>3, <3>1
  <2>4. CASE i = 3
    <3>1. 2^i = 8
      BY <2>4
    <3> QED
      BY <1>2, <2>4, <3>1
  <2>5. CASE i = 4
    <3>1. 2^i = 16
      BY <2>5
    <3> QED
      BY <1>3, <2>5, <3>1
  <2>6. CASE i = 5
    <3>1. 2^i = 32
      BY <2>6
    <3> QED
      BY <1>3, <2>6, <3>1
  <2>7. CASE i = 6
    <3>1. 2^i = 64
      BY <2>7
    <3> QED
      BY <1>3, <2>7, <3>1
  <2>8. CASE i = 7
    <3>1. 2^i = 128
      BY <2>8
    <3> QED
      BY <1>3, <2>8, <3>1
  <2> QED
    BY <2>0, <2>1, <2>2, <2>3, <2>4, <2>5, <2>6, <2>7, <2>8
<1>5. BitsOf[b] = s
  <2>1. BitsOf[b] = {i \in Bit : (b \div 2^i) % 2 = 1}
    BY <1>1 DEF BitsOf
  <2> QED
    BY <1>4, <2>1
<1>6. ByteOf[s] = CHOOSE c \in Byte : BitsOf[c] = s
  BY DEF ByteOf
<1> QED
  BY <1>1, <1>5, <1>6

LEMMA BytesHaveBits ==
  ASSUME NEW b \in Byte
  PROVE  BitsOf[b] \subseteq Bit
BY DEF BitsOf

LEMMA LogicOfBytes ==
  ASSUME NEW a \in Byte, NEW b \in Byte
  PROVE  AndByte(a, b) \in Byte /\ OrByte(a, b) \in Byte /\ XorByte(a, b) \in Byte
BY BytesHaveBits, SetsAreBytes DEF AndByte, OrByte, XorByte

LEMMA FlagSets ==
  /\ \A cond, flag : When(cond, flag) \subseteq {flag}
  /\ \A b : SignZero(b) \subseteq Bit
  /\ {CARRY, NEGATIVE, PARITY, OVERFLOW, HALF, ZERO, SIGN} \subseteq Bit
BY DEF When, SignZero, Bit, CARRY, NEGATIVE, PARITY, OVERFLOW, HALF, ZERO, SIGN

-----------------------------------------------------------------------------
(* What the arithmetic returns is a byte or a word and a set of flags.     *)
Result(n, w) == n.v \in w /\ n.f \subseteq Bit

LEMMA FlagsOfTypes ==
  ASSUME NEW f \in SUBSET Bit, NEW b
  PROVE  FlagsOf(f, b) \subseteq Bit
BY FlagSets DEF FlagsOf

LEMMA LogicalTypes ==
  ASSUME NEW f \in SUBSET Bit, NEW a \in Byte, NEW b \in Byte,
         NEW op \in {"and", "xor", "or"}
  PROVE  Result(Logical(op, a, b, f), Byte)
<1> DEFINE r == CASE op = "and" -> AndByte(a, b)
                  [] op = "xor" -> XorByte(a, b)
                  [] op = "or"  -> OrByte(a, b)
<1>1. r \in Byte
  BY LogicOfBytes
<1>2. Logical(op, a, b, f).v \in Byte
  BY <1>1 DEF Logical
<1>3. Logical(op, a, b, f).f \subseteq Bit
  <2> HIDE DEF r
  <2>1. Logical(op, a, b, f).f = (f \cap {3, 5}) \cup SignZero(r) \cup When(op = "and", HALF)
                                   \cup When(EvenBits(r), PARITY)
    BY DEF Logical, r
  <2> QED
    BY <2>1, FlagSets
<1> QED
  BY <1>2, <1>3 DEF Result

LEMMA CarryTypes == \A f : CarryIn(f) \in {0, 1}
BY DEF CarryIn

LEMMA Arith8Types ==
  ASSUME NEW f \in SUBSET Bit, NEW a \in Byte, NEW b \in Byte,
         NEW carry \in BOOLEAN, NEW sub \in BOOLEAN
  PROVE  Result(Arith8(a, b, carry, sub, f), Byte)
<1> DEFINE cin == IF carry THEN CarryIn(f) ELSE 0
           tt  == IF sub THEN a - b - cin ELSE a + b + cin
           r   == tt % \h100
           over == /\ (a >= \h80) = (b >= \h80)
                   /\ (a >= \h80) # (r >= \h80)
<1>1. tt \in Int
  BY CarryTypes DEF Byte
<1>2. Arith8(a, b, carry, sub, f).v = r
  BY DEF Arith8
<1>3. Arith8(a, b, carry, sub, f).f =
        (f \cap {3, 5}) \cup SignZero(r)
          \cup When(tt \notin Byte, CARRY)
          \cup When(sub, NEGATIVE)
          \cup When(HalfCarry(a, b, sub), HALF)
          \cup When(over, OVERFLOW)
  BY DEF Arith8
<1> HIDE DEF tt
<1>4. r \in Byte
  BY <1>1 DEF Byte
<1> HIDE DEF r, over
<1> QED
  BY <1>2, <1>3, <1>4, FlagSets DEF Result

LEMMA IncrementTypes ==
  ASSUME NEW f \in SUBSET Bit, NEW b \in Byte, NEW neg \in BOOLEAN
  PROVE  Result(Increment(b, neg, f), Byte)
<1>1. Increment(b, neg, f).v \in Byte
  BY DEF Increment, Byte
<1>2. Increment(b, neg, f).f \subseteq Bit
  BY FlagSets DEF Increment
<1> QED
  BY <1>1, <1>2 DEF Result

LEMMA ShiftTypes ==
  ASSUME NEW f \in SUBSET Bit, NEW b \in Byte, NEW y \in 0 .. 7
  PROVE  Result(Shift(y, b, f), Byte)
<1> DEFINE right == y % 2 = 1
           out   == IF right THEN b % 2 = 1 ELSE b >= \h80
           into  == CASE y \in {0, 1} -> out
                      [] y \in {2, 3} -> CARRY \in f
                      [] y \in {4, 7} -> FALSE
                      [] y = 5        -> b >= \h80
           r     == IF right THEN (b \div 2) + (IF into THEN \h80 ELSE 0)
                             ELSE ((2 * b) % \h100) + (IF into THEN 1 ELSE 0)
<1>1. Shift(y, b, f) = [v |-> r, f |-> (FlagsOf(f, r) \ {CARRY}) \cup When(out, CARRY)]
  BY DEF Shift
<1> HIDE DEF into, out, right
<1>2. r \in Byte
  <2>1. b \div 2 \in 0 .. 127 /\ (2 * b) % \h100 \in 0 .. 254
    BY DEF Byte
  <2> QED
    BY <2>1 DEF Byte
<1>3. FlagsOf(f, r) \subseteq Bit
  BY FlagsOfTypes
<1> HIDE DEF r
<1> QED
  BY <1>1, <1>2, <1>3, FlagSets DEF Result

LEMMA DaaTypes ==
  ASSUME NEW f \in SUBSET Bit, NEW a \in Byte
  PROVE  Result(Daa(a, f), Byte)
<1>1. Adjustment(a, f) \in Byte
  <2>1. CASE NEGATIVE \in f /\ CARRY \in f
    BY <2>1 DEF Adjustment, Byte
  <2>2. CASE NEGATIVE \in f /\ CARRY \notin f
    BY <2>2 DEF Adjustment, Byte
  <2>3. CASE NEGATIVE \notin f /\ CARRY \in f
    BY <2>3 DEF Adjustment, Byte
  <2>4. CASE NEGATIVE \notin f /\ CARRY \notin f
    BY <2>4 DEF Adjustment, Byte
  <2> QED
    BY <2>1, <2>2, <2>3, <2>4
<1> DEFINE sum == Arith8(a, Adjustment(a, f), FALSE, FALSE, f)
<1>2. Result(sum, Byte)
  BY <1>1, Arith8Types
<1>3. Daa(a, f) = [v |-> sum.v,
                   f |-> (sum.f \ {PARITY}) \cup (f \cap {NEGATIVE})
                           \cup When(EvenBits(sum.v), PARITY)]
  BY DEF Daa
<1> HIDE DEF sum
<1> QED
  BY <1>2, <1>3, FlagSets DEF Result

LEMMA NegTypes ==
  ASSUME NEW f \in SUBSET Bit, NEW a \in Byte
  PROVE  Result(Neg(a, f), Byte)
<1> DEFINE sum == Arith8(\hFF - a, 1, FALSE, FALSE, f)
<1>1. \hFF - a \in Byte /\ 1 \in Byte
  BY DEF Byte
<1>2. Result(sum, Byte)
  BY <1>1, Arith8Types
<1>3. Neg(a, f) = [v |-> sum.v, f |-> sum.f \cup {NEGATIVE}]
  BY DEF Neg
<1> HIDE DEF sum
<1> QED
  BY <1>2, <1>3, FlagSets DEF Result

LEMMA Arith16Types ==
  ASSUME NEW f \in SUBSET Bit, NEW x \in Word, NEW y \in Word, NEW sub \in BOOLEAN
  PROVE  Result(Add16(x, y, f), Word) /\ Result(Arith16(x, y, sub, f), Word)
<1>1. Result(Add16(x, y, f), Word)
  <2>1. Add16(x, y, f).v \in Word
    BY DEF Add16, Word
  <2>2. Add16(x, y, f).f \subseteq Bit
    BY FlagSets DEF Add16
  <2> QED
    BY <2>1, <2>2 DEF Result
<1> DEFINE ttt == IF sub THEN x - y - CarryIn(f) ELSE x + y + CarryIn(f)
<1>2. ttt \in Int
  BY CarryTypes DEF Word
<1>3. Arith16(x, y, sub, f).v = ttt % \h10000
  BY DEF Arith16
<1> HIDE DEF ttt
<1>4. Arith16(x, y, sub, f).v \in Word
  BY <1>2, <1>3 DEF Word
<1>5. Arith16(x, y, sub, f).f \subseteq Bit
  BY FlagSets DEF Arith16
<1> QED
  BY <1>1, <1>4, <1>5 DEF Result

-----------------------------------------------------------------------------
(* Memory. *)
LEMMA WrapTypes == \A w \in Int : Wrap(w) \in Word
BY DEF Wrap, Word

LEMMA StoredTypes ==
  ASSUME NEW m, MemoryOK(m), NEW a \in Int, NEW b \in Byte
  PROVE  MemoryOK(Stored(m, a, b))
BY WrapTypes DEF MemoryOK, Stored

LEMMA PeekTypes ==
  ASSUME CpuOK, NEW a
  PROVE  Peek(a) \in Byte
<1>1. 0 \in Byte
  BY DEF Byte
<1> QED
  BY <1>1 DEF Peek, CpuOK, MemoryOK

LEMMA WordsAndBytes ==
  /\ \A l \in Byte, h \in Byte : l + \h100 * h \in Word /\ \h100 * h + l \in Word
  /\ \A w \in Word : w \div \h100 \in Byte /\ w % \h100 \in Byte
<1>1. ASSUME NEW l \in Byte, NEW h \in Byte
      PROVE  l + \h100 * h \in Word /\ \h100 * h + l \in Word
  <2>1. l \in Int /\ h \in Int /\ 0 <= l /\ l <= 255 /\ 0 <= h /\ h <= 255
    BY DEF Byte
  <2> QED
    BY <2>1 DEF Word
<1>2. ASSUME NEW w \in Word PROVE w \div \h100 \in Byte /\ w % \h100 \in Byte
  <2>1. w \in Int /\ 0 <= w /\ w <= 65535
    BY DEF Word
  <2>2. w \div \h100 \in Int /\ 0 <= w \div \h100 /\ w \div \h100 <= 255
    BY <2>1
  <2>3. w % \h100 \in Int /\ 0 <= w % \h100 /\ w % \h100 <= 255
    BY <2>1
  <2> QED
    BY <2>2, <2>3 DEF Byte
<1> QED
  BY <1>1, <1>2

LEMMA PeekWordTypes ==
  ASSUME CpuOK, NEW a
  PROVE  PeekWord(a) \in Word
BY PeekTypes, WordsAndBytes DEF PeekWord

LEMMA PokeTypes ==
  ASSUME CpuOK, NEW a \in Int
  PROVE  /\ \A b \in Byte : MemoryOK(Poke(a, b))
         /\ \A w \in Word : MemoryOK(PokeWord(a, w))
<1>1. ASSUME NEW b \in Byte PROVE MemoryOK(Poke(a, b))
  BY StoredTypes DEF Poke, CpuOK
<1>2. ASSUME NEW w \in Word PROVE MemoryOK(PokeWord(a, w))
  <2>1. w \div \h100 \in Byte /\ w % \h100 \in Byte
    BY WordsAndBytes
  <2>2. MemoryOK(Stored(mem, a, w % \h100))
    BY <2>1, StoredTypes DEF CpuOK
  <2>3. a + 1 \in Int
    OBVIOUS
  <2> QED
    BY <2>1, <2>2, <2>3, StoredTypes DEF PokeWord
<1> QED
  BY <1>1, <1>2

-----------------------------------------------------------------------------
(* Registers, one and in pairs. *)
LEMMA PutTypes ==
  ASSUME NEW s \in CpuState
  PROVE  /\ \A n \in Reg, b \in Byte : [s EXCEPT !.r[n] = b] \in CpuState
         /\ \A f \in SUBSET Bit : [s EXCEPT !.f = f] \in CpuState
         /\ \A w \in Word : [s EXCEPT !.sp = w] \in CpuState
         /\ \A w \in Word : [s EXCEPT !.pc = w] \in CpuState
<1>1. ASSUME NEW n \in Reg, NEW b \in Byte PROVE [s EXCEPT !.r[n] = b] \in CpuState
  BY DEF CpuState
<1>2. ASSUME NEW f \in SUBSET Bit PROVE [s EXCEPT !.f = f] \in CpuState
  BY DEF CpuState
<1>3. ASSUME NEW w \in Word PROVE [s EXCEPT !.sp = w] \in CpuState
  BY DEF CpuState
<1>4. ASSUME NEW w \in Word PROVE [s EXCEPT !.pc = w] \in CpuState
  BY DEF CpuState
<1> QED
  BY <1>1, <1>2, <1>3, <1>4

LEMMA PutBothTypes ==
  ASSUME NEW s \in CpuState, NEW n \in Reg, NEW b \in Byte, NEW f \in SUBSET Bit
  PROVE  [s EXCEPT !.r[n] = b, !.f = f] \in CpuState
BY DEF CpuState

LEMMA FieldTypes ==
  ASSUME NEW s \in CpuState
  PROVE  /\ \A n \in Reg : s.r[n] \in Byte
         /\ s.f \in SUBSET Bit
         /\ \A p \in 0 .. 3 : s.alt[p] \in Word
         /\ \A n \in {0, 1} : s.xy[n] \in Word /\ s.ir[n] \in Byte
         /\ s.sp \in Word /\ s.pc \in Word
<1>1. /\ s.r \in [Reg -> Byte] /\ s.f \in SUBSET Bit /\ s.alt \in [0 .. 3 -> Word]
      /\ s.xy \in [0 .. 1 -> Word] /\ s.ir \in [0 .. 1 -> Byte]
      /\ s.sp \in Word /\ s.pc \in Word
  BY DEF CpuState
<1>2. 0 .. 1 = {0, 1}
  OBVIOUS
<1> QED
  BY <1>1, <1>2

LEMMA PairTypes ==
  ASSUME CpuOK, NEW p \in 0 .. 3
  PROVE  Pair("SP", p) \in Word /\ Pair("AF", p) \in Word
<1>0. z \in CpuState
  BY DEF CpuOK
<1>1. CASE p < 3
  <2>1. 2 * p \in Reg /\ 2 * p + 1 \in Reg
    BY <1>1 DEF Reg
  <2>2. z.r[2 * p] \in Byte /\ z.r[2 * p + 1] \in Byte
    BY <1>0, <2>1, FieldTypes
  <2>3. \h100 * z.r[2 * p] + z.r[2 * p + 1] \in Word
    BY <2>2, WordsAndBytes
  <2>4. p # 3
    BY <1>1
  <2>5. Pair("SP", p) = \h100 * z.r[2 * p] + z.r[2 * p + 1]
    BY <1>1, <2>4 DEF Pair
  <2>6. Pair("AF", p) = \h100 * z.r[2 * p] + z.r[2 * p + 1]
    BY <1>1, <2>4 DEF Pair
  <2> QED
    BY <2>3, <2>5, <2>6
<1>2. CASE p = 3
  <2>1. Pair("SP", 3) = z.sp
    BY DEF Pair
  <2>2. Pair("AF", 3) = \h100 * z.r[A] + ByteOf[z.f]
    BY DEF Pair
  <2>3. z.sp \in Word /\ z.r[A] \in Byte /\ z.f \in SUBSET Bit
    BY <1>0, FieldTypes DEF A, Reg
  <2>4. ByteOf[z.f] \in Byte
    BY <2>3, SetsAreBytes
  <2>5. \h100 * z.r[A] + ByteOf[z.f] \in Word
    BY <2>3, <2>4, WordsAndBytes
  <2> QED
    BY <1>2, <2>1, <2>2, <2>3, <2>5
<1> QED
  BY <1>1, <1>2

LEMMA WithPairTypes ==
  ASSUME NEW s \in CpuState, NEW p \in 0 .. 3, NEW w \in Word
  PROVE  WithPair(s, "SP", p, w) \in CpuState /\ WithPair(s, "AF", p, w) \in CpuState
<1>0. w \div \h100 \in Byte /\ w % \h100 \in Byte
  BY WordsAndBytes
<1>1. CASE p < 3
  <2>1. 2 * p \in Reg /\ 2 * p + 1 \in Reg
    BY <1>1 DEF Reg
  <2>2. \A n \in Reg, m \in Reg, a \in Byte, b \in Byte :
          [s EXCEPT !.r[n] = a, !.r[m] = b] \in CpuState
    BY DEF CpuState
  <2>3. [s EXCEPT !.r[2 * p] = w \div \h100, !.r[2 * p + 1] = w % \h100] \in CpuState
    BY <1>0, <2>1, <2>2
  <2>4. p # 3
    BY <1>1
  <2> QED
    BY <1>1, <2>3, <2>4 DEF WithPair
<1>2. CASE p = 3
  <2>1. WithPair(s, "SP", 3, w) = [s EXCEPT !.sp = w]
    BY DEF WithPair
  <2>2. WithPair(s, "AF", 3, w) = [s EXCEPT !.r[A] = w \div \h100, !.f = BitsOf[w % \h100]]
    BY DEF WithPair
  <2>3. BitsOf[w % \h100] \in SUBSET Bit /\ A \in Reg
    BY <1>0, BytesHaveBits DEF A, Reg
  <2>4. WithPair(s, "SP", 3, w) \in CpuState
    BY <2>1, PutTypes
  <2>5. WithPair(s, "AF", 3, w) \in CpuState
    <3> DEFINE hi == w \div \h100  bits == BitsOf[w % \h100]
    <3>1. hi \in Byte /\ bits \in SUBSET Bit /\ A \in Reg
      BY <1>0, <2>3
    <3>2. WithPair(s, "AF", 3, w) = [s EXCEPT !.r[A] = hi, !.f = bits]
      BY <2>2
    <3> HIDE DEF hi, bits
    <3> QED
      <4>1. [s EXCEPT !.r[A] = hi, !.f = bits] \in CpuState
        BY <3>1, PutBothTypes
      <4> QED
        BY <3>2, <4>1
  <2> QED
    BY <1>2, <2>4, <2>5
<1> QED
  BY <1>1, <1>2

LEMMA PairsTypes == CpuOK => BC \in Word /\ DE \in Word /\ HL \in Word
BY PairTypes DEF BC, DE, HL

-----------------------------------------------------------------------------
(* Opcodes. *)
InsOK(i) == i.t \in Byte /\ i.at \in {1, 2, 4} /\ i.set \in {"main", "bit", "ext", "ireg", "iregbit"}

LEMMA OpcodeFields ==
  ASSUME NEW t \in Byte
  PROVE  /\ X(t) \in 0 .. 3 /\ Y(t) \in 0 .. 7 /\ Z(t) \in 0 .. 7 /\ P(t) \in 0 .. 3
         /\ t = 64 * X(t) + 8 * Y(t) + Z(t)
BY DEF Byte, X, Y, Z, P

LEMMA InsTypes == CpuOK => InsOK(Ins)
<1> SUFFICES ASSUME CpuOK PROVE InsOK(Ins)
  OBVIOUS
<1> DEFINE b(n) == Peek(z.pc + n)
<1>1. b(0) \in Byte /\ b(1) \in Byte /\ b(3) \in Byte
  BY PeekTypes
<1>2. \/ Ins = [set |-> "bit", t |-> b(1), at |-> 2]
      \/ Ins = [set |-> "ext", t |-> b(1), at |-> 2]
      \/ Ins = [set |-> "ireg", t |-> b(1), at |-> 2]
      \/ Ins = [set |-> "iregbit", t |-> b(3), at |-> 4]
      \/ Ins = [set |-> "main", t |-> b(0), at |-> 1]
  <2> HIDE DEF b
  <2>1. Ins = CASE b(0) = \hCB -> [set |-> "bit", t |-> b(1), at |-> 2]
                [] b(0) = \hED -> [set |-> "ext", t |-> b(1), at |-> 2]
                [] b(0) \in {\hDD, \hFD} /\ b(1) # \hCB -> [set |-> "ireg", t |-> b(1), at |-> 2]
                [] b(0) \in {\hDD, \hFD} /\ b(1) = \hCB -> [set |-> "iregbit", t |-> b(3), at |-> 4]
                [] OTHER -> [set |-> "main", t |-> b(0), at |-> 1]
    BY DEF Ins, b
  <2>2. CASE b(0) = \hCB
    BY <2>1, <2>2
  <2>3. CASE b(0) = \hED
    BY <2>1, <2>3
  <2>4. CASE b(0) \in {\hDD, \hFD} /\ b(1) # \hCB
    BY <2>1, <2>4
  <2>5. CASE b(0) \in {\hDD, \hFD} /\ b(1) = \hCB
    BY <2>1, <2>5
  <2>6. CASE b(0) # \hCB /\ b(0) # \hED /\ b(0) \notin {\hDD, \hFD}
    BY <2>1, <2>6
  <2> QED
    BY <2>2, <2>3, <2>4, <2>5, <2>6
<1> HIDE DEF b
<1> QED
  BY <1>1, <1>2 DEF InsOK

LEMMA PastTypes ==
  ASSUME CpuOK, NEW i, InsOK(i), NEW n \in Int
  PROVE  Past(i, n) \in CpuState
<1>0. z \in CpuState
  BY DEF CpuOK
<1>1. z.pc + i.at + n \in Int
  BY <1>0, FieldTypes DEF InsOK, Word
<1>2. Past(i, n) = [z EXCEPT !.pc = Wrap(z.pc + i.at + n)]
  BY <1>0 DEF Past, CpuState
<1> QED
  BY <1>0, <1>1, <1>2, WrapTypes, PutTypes

LEMMA OperandTypes ==
  ASSUME CpuOK, NEW i
  PROVE  Byte1(i) \in Byte /\ Word1(i) \in Word /\ Top \in Word
BY PeekTypes, PeekWordTypes DEF Byte1, Word1, Top

LEMMA SignedTypes == \A b \in Byte : Signed(b) \in Int
BY DEF Signed, Byte

LEMMA IndexTypes ==
  ASSUME CpuOK
  PROVE  Index \in {0, 1} /\ Indexed \in Word /\ z.xy[Index] \in Word
<1>1. Index \in {0, 1}
  BY DEF Index
<1>2. z.xy[Index] \in Word
  BY <1>1, FieldTypes DEF CpuOK
<1>3. Signed(Peek(z.pc + 2)) \in Int
  BY PeekTypes, SignedTypes
<1>4. z.xy[Index] + Signed(Peek(z.pc + 2)) \in Int
  BY <1>2, <1>3 DEF Word
<1> QED
  BY <1>1, <1>2, <1>4, WrapTypes DEF Indexed

LEMMA GetTypes ==
  ASSUME CpuOK, NEW n \in 0 .. 7, NEW a
  PROVE  Get(n, a) \in Byte
<1>1. n # M => n \in Reg
  BY DEF M, Reg
<1> QED
  BY <1>1, PeekTypes, FieldTypes DEF Get, CpuOK

LEMMA PutKeeps ==
  ASSUME CpuOK, NEW s \in CpuState, NEW n \in 0 .. 7, NEW a \in Word, NEW b \in Byte,
         Put(s, n, a, b)
  PROVE  CpuOK'
<1>0. a \in Int
  BY DEF Word
<1>1. CASE n = M
  BY <1>0, <1>1, PokeTypes DEF Put, CpuOK
<1>2. CASE n # M
  <2>1. n \in Reg
    BY <1>2 DEF M, Reg
  <2>2. z' = [s EXCEPT !.r[n] = b] /\ mem' = mem
    BY <1>2 DEF Put
  <2> QED
    BY <2>1, <2>2, PutTypes DEF CpuOK
<1> QED
  BY <1>1, <1>2

LEMMA PushKeeps ==
  ASSUME CpuOK, NEW s \in CpuState, NEW w \in Word, Push(s, w)
  PROVE  CpuOK'
<1>1. s.sp \in Word /\ z.sp \in Word
  BY FieldTypes DEF CpuOK
<1>2. Wrap(s.sp - 2) \in Word /\ Wrap(z.sp - 2) \in Word
  BY <1>1, WrapTypes DEF Word
<1>3. z' = [s EXCEPT !.sp = Wrap(s.sp - 2)]
  BY DEF Push, CpuState
<1>4. Wrap(z.sp - 2) \in Int
  BY <1>2 DEF Word
<1>5. MemoryOK(PokeWord(Wrap(z.sp - 2), w))
  BY <1>4, PokeTypes
<1> QED
  BY <1>2, <1>3, <1>5, PutTypes DEF Push, CpuOK

LEMMA PoppedTypes ==
  ASSUME NEW s \in CpuState
  PROVE  Popped(s) \in CpuState
<1>1. s.sp \in Word
  BY FieldTypes
<1>2. Wrap(s.sp + 2) \in Word
  BY <1>1, WrapTypes DEF Word
<1>3. Popped(s) = [s EXCEPT !.sp = Wrap(s.sp + 2)]
  BY DEF Popped, CpuState
<1> QED
  BY <1>2, <1>3, PutTypes

-----------------------------------------------------------------------------
(* The instructions without a prefix. *)
LEMMA Decoded ==
  ASSUME CpuOK, NEW i, InsOK(i)
  PROVE  /\ i.t \in Byte
         /\ X(i.t) \in 0 .. 3 /\ Y(i.t) \in 0 .. 7 /\ Z(i.t) \in 0 .. 7 /\ P(i.t) \in 0 .. 3
         /\ \A n \in Int : Past(i, n) \in CpuState
         /\ z \in CpuState /\ MemoryOK(mem)
         /\ BC \in Word /\ DE \in Word /\ HL \in Word
         /\ {A, B, C, D, E, H, L} \subseteq Reg
<1>1. {A, B, C, D, E, H, L} \subseteq Reg
  BY DEF Reg, A, B, C, D, E, H, L
<1> QED
  BY <1>1, OpcodeFields, PastTypes, PairsTypes DEF CpuOK, InsOK

LEMMA AccumulateTypes ==
  ASSUME NEW s \in CpuState, NEW n, Result(n, Byte)
  PROVE  [s EXCEPT !.r[A] = n.v, !.f = n.f] \in CpuState
<1>1. n.v \in Byte /\ n.f \in SUBSET Bit /\ A \in Reg
  BY DEF Result, A, Reg
<1> QED
  BY <1>1, PutBothTypes

LEMMA LoadRegisterKeeps ==
  ASSUME CpuOK, NEW i, InsOK(i), LoadRegister(i) \/ LoadImmediate(i)
  PROVE  CpuOK'
<1>0. Get(Z(i.t), HL) \in Byte /\ Byte1(i) \in Byte
  BY Decoded, GetTypes, OperandTypes
<1>1. CASE LoadRegister(i)
  BY <1>0, <1>1, Decoded, PutKeeps DEF LoadRegister
<1>2. CASE LoadImmediate(i)
  BY <1>0, <1>2, Decoded, PutKeeps DEF LoadImmediate
<1> QED
  BY <1>1, <1>2

LEMMA LoadAccumulatorKeeps ==
  ASSUME CpuOK, NEW i, InsOK(i), LoadAccumulator(i)
  PROVE  CpuOK'
<1> DEFINE direct == P(i.t) = 3
           a == IF direct THEN Word1(i) ELSE Pair("AF", P(i.t))
           n == IF direct THEN 2 ELSE 0
<1>1. a \in Word
  BY Decoded, OperandTypes, PairTypes
<1>2. a \in Int
  BY <1>1 DEF Word
<1>3. Past(i, n) \in CpuState
  <2>1. n \in Int
    OBVIOUS
  <2> QED
    BY <2>1, Decoded
<1>4. z.r[A] \in Byte
  BY Decoded, FieldTypes
<1>5. IF Y(i.t) % 2 = 1
      THEN z' = [Past(i, n) EXCEPT !.r[A] = Peek(a)] /\ UNCHANGED mem
      ELSE z' = Past(i, n) /\ mem' = Poke(a, z.r[A])
  BY DEF LoadAccumulator
<1> HIDE DEF a, n
<1>6. CASE Y(i.t) % 2 = 1
  <2>1. [Past(i, n) EXCEPT !.r[A] = Peek(a)] \in CpuState
    BY <1>3, Decoded, PeekTypes, PutTypes
  <2> QED
    BY <1>5, <1>6, <2>1 DEF CpuOK
<1>7. CASE Y(i.t) % 2 # 1
  <2>1. MemoryOK(Poke(a, z.r[A]))
    BY <1>2, <1>4, PokeTypes
  <2> QED
    BY <1>3, <1>5, <1>7, <2>1 DEF CpuOK
<1> QED
  BY <1>6, <1>7

LEMMA LoadPairKeeps ==
  ASSUME CpuOK, NEW i, InsOK(i), LoadPair(i) \/ LoadHL(i)
  PROVE  CpuOK'
<1>1. Word1(i) \in Word /\ Word1(i) \in Int /\ PeekWord(Word1(i)) \in Word
  BY OperandTypes, PeekWordTypes DEF Word
<1>2. CASE LoadPair(i)
  <2>1. WithPair(Past(i, 2), "SP", P(i.t), Word1(i)) \in CpuState
    <3>1. Past(i, 2) \in CpuState /\ P(i.t) \in 0 .. 3
      BY Decoded
    <3> QED
      BY <1>1, <3>1, WithPairTypes
  <2> QED
    BY <1>2, <2>1 DEF LoadPair, CpuOK
<1>3. CASE LoadHL(i)
  <2>1. WithPair(Past(i, 2), "SP", 2, PeekWord(Word1(i))) \in CpuState
    BY <1>1, Decoded, WithPairTypes
  <2>2. MemoryOK(PokeWord(Word1(i), HL)) /\ Past(i, 2) \in CpuState
    BY <1>1, Decoded, PokeTypes
  <2>3. [Past(i, 0) EXCEPT !.sp = HL] \in CpuState
    BY Decoded, PutTypes
  <2> QED
    BY <1>3, <2>1, <2>2, <2>3 DEF LoadHL, CpuOK
<1> QED
  BY <1>2, <1>3

LEMMA StackPairKeeps ==
  ASSUME CpuOK, NEW i, InsOK(i), PushPair(i) \/ PopPair(i) \/ ExchangeTop(i)
  PROVE  CpuOK'
<1>0. Past(i, 0) \in CpuState /\ P(i.t) \in 0 .. 3 /\ Top \in Word
  BY Decoded, OperandTypes
<1>1. CASE PushPair(i)
  BY <1>0, <1>1, PairTypes, PushKeeps DEF PushPair
<1>2. CASE PopPair(i)
  <2>1. WithPair(Popped(Past(i, 0)), "AF", P(i.t), Top) \in CpuState
    BY <1>0, PoppedTypes, WithPairTypes
  <2> QED
    BY <1>2, <2>1 DEF PopPair, CpuOK
<1>3. CASE ExchangeTop(i)
  <2>1. WithPair(Past(i, 0), "SP", 2, Top) \in CpuState
    BY <1>0, WithPairTypes
  <2>2. z.sp \in Int
    BY Decoded, FieldTypes DEF Word
  <2>3. MemoryOK(PokeWord(z.sp, HL))
    BY <2>2, Decoded, PokeTypes
  <2> QED
    BY <1>3, <2>1, <2>3 DEF ExchangeTop, CpuOK
<1> QED
  BY <1>1, <1>2, <1>3

LEMMA ExchangeKeeps ==
  ASSUME CpuOK, NEW i, InsOK(i), Exchange(i)
  PROVE  CpuOK'
<1> DEFINE s == Past(i, 0)
<1>0. s \in CpuState /\ z \in CpuState /\ HL \in Word /\ DE \in Word
  BY Decoded
<1>1. CASE i.t = \h08
  <2> DEFINE q == WithPair(s, "AF", 3, z.alt[3])  w == Pair("AF", 3)
  <2>1. q \in CpuState /\ w \in Word
    <3>1. z.alt[3] \in Word
      BY <1>0, FieldTypes
    <3>2. \A u \in CpuState, v \in Word : WithPair(u, "AF", 3, v) \in CpuState
      <4>1. 3 \in 0 .. 3
        OBVIOUS
      <4> QED
        BY <4>1, WithPairTypes
    <3>3. s \in CpuState
      BY <1>0
    <3>4. q \in CpuState
      <4> HIDE DEF s
      <4> QED
        BY <3>1, <3>2, <3>3
    <3> QED
      BY <3>4, PairTypes
  <2>2. z' = [q EXCEPT !.alt[3] = w] /\ mem' = mem
    BY <1>1 DEF Exchange
  <2> HIDE DEF q, w
  <2>3. [q EXCEPT !.alt[3] = w] \in CpuState
    BY <2>1 DEF CpuState
  <2> QED
    BY <2>2, <2>3 DEF CpuOK
<1>2. CASE i.t = \hEB
  <2>1. z' = WithPair(WithPair(s, "SP", 1, HL), "SP", 2, DE) /\ mem' = mem
    BY <1>2 DEF Exchange
  <2>2. WithPair(s, "SP", 1, HL) \in CpuState
    BY <1>0, WithPairTypes
  <2>3. WithPair(WithPair(s, "SP", 1, HL), "SP", 2, DE) \in CpuState
    BY <1>0, <2>2, WithPairTypes
  <2> QED
    BY <2>1, <2>3 DEF CpuOK
<1>3. CASE i.t = \hD9
  <2>1. z' = [s EXCEPT !.r = AltRegs, !.alt = AltPairs] /\ mem' = mem
    BY <1>3 DEF Exchange
  <2>2. AltRegs \in [Reg -> Byte]
    <3>1. ASSUME NEW n \in Reg PROVE AltRegs[n] \in Byte
      <4>1. n \div 2 \in 0 .. 3
        BY DEF Reg
      <4>2. z.alt[n \div 2] \in Word
        BY <1>0, <4>1, FieldTypes
      <4>3. z.alt[n \div 2] \div \h100 \in Byte /\ z.alt[n \div 2] % \h100 \in Byte
        BY <4>2, WordsAndBytes
      <4>4. CASE n = A
        BY <1>0, <4>4, FieldTypes DEF AltRegs
      <4>5. CASE n # A /\ n % 2 = 0
        BY <4>3, <4>5 DEF AltRegs
      <4>6. CASE n # A /\ n % 2 = 1
        BY <4>3, <4>6 DEF AltRegs
      <4> QED
        BY <4>4, <4>5, <4>6 DEF Reg
    <3> QED
      BY <3>1 DEF AltRegs
  <2>3. AltPairs \in [0 .. 3 -> Word]
    <3>1. ASSUME NEW p \in 0 .. 3 PROVE AltPairs[p] \in Word
      BY <1>0, FieldTypes, PairTypes DEF AltPairs
    <3> QED
      BY <3>1 DEF AltPairs
  <2>4. [s EXCEPT !.r = AltRegs, !.alt = AltPairs] \in CpuState
    BY <1>0, <2>2, <2>3 DEF CpuState
  <2> QED
    BY <2>1, <2>4 DEF CpuOK
<1> QED
  BY <1>1, <1>2, <1>3 DEF Exchange

LEMMA AluTypes ==
  ASSUME CpuOK, NEW i, InsOK(i)
  PROVE  /\ Operand(i) \in Byte /\ PastAlu(i) \in CpuState
         /\ z.r[A] \in Byte /\ z.f \in SUBSET Bit
<1>1. Operand(i) \in Byte
  BY Decoded, GetTypes, OperandTypes DEF Operand
<1>2. (IF X(i.t) = 2 THEN 0 ELSE 1) \in Int
  OBVIOUS
<1>3. PastAlu(i) \in CpuState
  BY <1>2, Decoded DEF PastAlu
<1> QED
  BY <1>1, <1>3, Decoded, FieldTypes

LEMMA ArithmeticKeeps ==
  ASSUME CpuOK, NEW i, InsOK(i), Arithmetic(i) \/ Logic(i) \/ Compare(i)
  PROVE  CpuOK'
<1>1. \A n : Result(n, Byte) => [PastAlu(i) EXCEPT !.r[A] = n.v, !.f = n.f] \in CpuState
  BY AluTypes, AccumulateTypes
<1>2. CASE Arithmetic(i)
  <2> DEFINE n == Arith8(z.r[A], Operand(i), Y(i.t) % 2 = 1, Y(i.t) >= 2, z.f)
  <2>1. (Y(i.t) % 2 = 1) \in BOOLEAN /\ (Y(i.t) >= 2) \in BOOLEAN
    OBVIOUS
  <2>2. Result(n, Byte)
    BY <2>1, AluTypes, Arith8Types
  <2>3. z' = [PastAlu(i) EXCEPT !.r[A] = n.v, !.f = n.f] /\ mem' = mem
    BY <1>2 DEF Arithmetic, Accumulate
  <2> HIDE DEF n
  <2> QED
    BY <1>1, <2>2, <2>3 DEF CpuOK
<1>3. CASE Logic(i)
  <2> DEFINE op == <<"and", "xor", "or">>[Y(i.t) - 3]
             n == Logical(op, z.r[A], Operand(i), z.f)
  <2>1. op \in {"and", "xor", "or"}
    BY <1>3 DEF Logic
  <2>2. z' = [PastAlu(i) EXCEPT !.r[A] = n.v, !.f = n.f] /\ mem' = mem
    BY <1>3 DEF Logic, Accumulate
  <2> HIDE DEF op
  <2>3. Result(n, Byte)
    BY <2>1, AluTypes, LogicalTypes
  <2> HIDE DEF n
  <2> QED
    BY <1>1, <2>2, <2>3 DEF CpuOK
<1>4. CASE Compare(i)
  <2> DEFINE n == Arith8(z.r[A], Operand(i), FALSE, TRUE, z.f)
  <2>1. Result(n, Byte)
    BY AluTypes, Arith8Types
  <2>2. z' = [PastAlu(i) EXCEPT !.f = n.f] /\ mem' = mem
    BY <1>4 DEF Compare
  <2> HIDE DEF n
  <2>3. n.f \in SUBSET Bit
    BY <2>1 DEF Result
  <2>4. [PastAlu(i) EXCEPT !.f = n.f] \in CpuState
    BY <2>3, AluTypes, PutTypes
  <2> QED
    BY <2>2, <2>4 DEF CpuOK
<1> QED
  BY <1>2, <1>3, <1>4

LEMMA IncDecKeeps ==
  ASSUME CpuOK, NEW i, InsOK(i), IncDec(i)
  PROVE  CpuOK'
<1> DEFINE b == Get(Y(i.t), HL)
           neg == Z(i.t) = 5
           n == Increment(b, neg, z.f)
           s == Past(i, 0)
<1>1. b \in Byte /\ neg \in BOOLEAN
  BY Decoded, GetTypes
<1>2. Result(n, Byte)
  <2> HIDE DEF b, neg
  <2> QED
    BY <1>1, AluTypes, IncrementTypes
<1>3. s \in CpuState /\ Y(i.t) \in 0 .. 7 /\ HL \in Word
  BY Decoded
<1>4. Put([s EXCEPT !.f = n.f], Y(i.t), HL, n.v)
  BY DEF IncDec
<1> HIDE DEF n, s
<1>5. [s EXCEPT !.f = n.f] \in CpuState /\ n.v \in Byte
  <2>1. n.f \in SUBSET Bit /\ n.v \in Byte
    BY <1>2 DEF Result
  <2> QED
    BY <1>3, <2>1, PutTypes
<1> QED
  BY <1>3, <1>4, <1>5, PutKeeps

LEMMA AdjustKeeps ==
  ASSUME CpuOK, NEW i, InsOK(i), Adjust(i)
  PROVE  CpuOK'
<1> DEFINE s == Past(i, 0)
<1>0. s \in CpuState /\ A \in Reg /\ z.r[A] \in Byte /\ z.f \in SUBSET Bit
  BY Decoded, AluTypes
<1>1. CASE i.t = \h27
  <2> DEFINE n == Daa(z.r[A], z.f)
  <2>1. Result(n, Byte)
    BY <1>0, DaaTypes
  <2>2. z' = [s EXCEPT !.r[A] = n.v, !.f = n.f] /\ mem' = mem
    BY <1>1 DEF Adjust, Accumulate
  <2> HIDE DEF n, s
  <2> QED
    BY <1>0, <2>1, <2>2, AccumulateTypes DEF CpuOK
<1>2. CASE i.t = \h2F
  <2> DEFINE b == \hFF - s.r[A]
             f == s.f \cup {HALF, NEGATIVE}
  <2>1. z' = [s EXCEPT !.r[A] = \hFF - @, !.f = @ \cup {HALF, NEGATIVE}] /\ mem' = mem
    BY <1>2 DEF Adjust
  <2>2. s.r \in [Reg -> Byte] /\ s.r[A] \in Byte /\ s.f \in SUBSET Bit
    BY <1>0 DEF CpuState
  <2>3. b \in Byte
    BY <2>2 DEF Byte
  <2>4. f \in SUBSET Bit
    BY <2>2, FlagSets
  <2> HIDE DEF s
  <2>5. [s EXCEPT !.r[A] = \hFF - @, !.f = @ \cup {HALF, NEGATIVE}]
          = [s EXCEPT !.r[A] = b, !.f = f]
    BY <1>0, <2>2 DEF CpuState
  <2> HIDE DEF b, f
  <2>6. [s EXCEPT !.r[A] = b, !.f = f] \in CpuState
    BY <1>0, <2>3, <2>4, PutBothTypes
  <2> QED
    BY <2>1, <2>5, <2>6 DEF CpuOK
<1> QED
  BY <1>1, <1>2 DEF Adjust

LEMMA CarryFlagKeeps ==
  ASSUME CpuOK, NEW i, InsOK(i), CarryFlag(i)
  PROVE  CpuOK'
<1> DEFINE s == Past(i, 0)
           f == IF i.t = \h3F
                THEN (s.f \ {CARRY, NEGATIVE}) \cup When(CARRY \notin s.f, CARRY)
                ELSE (s.f \ {HALF, NEGATIVE}) \cup {CARRY}
<1>1. s \in CpuState
  BY Decoded
<1>2. z' = [s EXCEPT !.f = f] /\ mem' = mem
  BY <1>1 DEF CarryFlag, CpuState
<1>3. f \in SUBSET Bit
  BY <1>1, FieldTypes, FlagSets
<1> HIDE DEF s, f
<1> QED
  BY <1>1, <1>2, <1>3, PutTypes DEF CpuOK

LEMMA ControlKeeps ==
  ASSUME CpuOK, NEW i, InsOK(i), Control(i)
  PROVE  CpuOK'
<1> DEFINE s == Past(i, 0)
<1>1. s \in CpuState
  BY Decoded
<1>2. \/ z' = s
      \/ z' = [s EXCEPT !.st = "halt"]
      \/ z' = [s EXCEPT !.iff = FALSE, !.iff2 = FALSE]
      \/ z' = [s EXCEPT !.iff = TRUE, !.iff2 = TRUE]
  BY DEF Control
<1>3. mem' = mem
  BY DEF Control
<1> HIDE DEF s
<1>4. /\ [s EXCEPT !.st = "halt"] \in CpuState
      /\ [s EXCEPT !.iff = FALSE, !.iff2 = FALSE] \in CpuState
      /\ [s EXCEPT !.iff = TRUE, !.iff2 = TRUE] \in CpuState
  BY <1>1 DEF CpuState
<1> QED
  BY <1>1, <1>2, <1>3, <1>4 DEF CpuOK

LEMMA WordArithmeticKeeps ==
  ASSUME CpuOK, NEW i, InsOK(i), AddHL(i) \/ IncDecPair(i)
  PROVE  CpuOK'
<1> DEFINE s == Past(i, 0)
           p == P(i.t)
<1>1. s \in CpuState /\ p \in 0 .. 3 /\ HL \in Word /\ z.f \in SUBSET Bit
  BY Decoded, AluTypes
<1>2. Pair("SP", p) \in Word
  BY <1>1, PairTypes
<1>3. CASE AddHL(i)
  <2> DEFINE n == Add16(HL, Pair("SP", p), z.f)
  <2>1. Result(n, Word)
    BY <1>1, <1>2, Arith16Types
  <2>2. z' = WithPair([s EXCEPT !.f = n.f], "SP", 2, n.v) /\ mem' = mem
    BY <1>3 DEF AddHL
  <2> HIDE DEF n, s
  <2>3. n.v \in Word /\ n.f \in SUBSET Bit
    BY <2>1 DEF Result
  <2>4. [s EXCEPT !.f = n.f] \in CpuState
    BY <1>1, <2>3, PutTypes
  <2>5. WithPair([s EXCEPT !.f = n.f], "SP", 2, n.v) \in CpuState
    BY <2>3, <2>4, WithPairTypes
  <2> QED
    BY <2>2, <2>5 DEF CpuOK
<1>4. CASE IncDecPair(i)
  <2> DEFINE w == Wrap(Pair("SP", p) + (IF Y(i.t) % 2 = 1 THEN -1 ELSE 1))
  <2>1. w \in Word
    BY <1>2, WrapTypes DEF Word
  <2>2. z' = WithPair(s, "SP", p, w) /\ mem' = mem
    BY <1>4 DEF IncDecPair
  <2> HIDE DEF s, p, w
  <2> QED
    BY <1>1, <2>1, <2>2, WithPairTypes DEF CpuOK
<1> QED
  BY <1>3, <1>4

LEMMA RotateAKeeps ==
  ASSUME CpuOK, NEW i, InsOK(i), RotateA(i)
  PROVE  CpuOK'
<1> DEFINE s == Past(i, 0)
           n == Shift(Y(i.t), z.r[A], z.f)
           f == (s.f \ {CARRY, HALF, NEGATIVE}) \cup (n.f \cap {CARRY})
<1>1. s \in CpuState /\ Y(i.t) \in 0 .. 7 /\ z.r[A] \in Byte /\ z.f \in SUBSET Bit
      /\ A \in Reg
  BY Decoded, AluTypes
<1>2. Result(n, Byte)
  BY <1>1, ShiftTypes
<1>3. z' = [s EXCEPT !.r[A] = n.v, !.f = (@ \ {CARRY, HALF, NEGATIVE}) \cup (n.f \cap {CARRY})]
      /\ mem' = mem
  BY DEF RotateA
<1> HIDE DEF s, n
<1>4. [s EXCEPT !.r[A] = n.v, !.f = (@ \ {CARRY, HALF, NEGATIVE}) \cup (n.f \cap {CARRY})]
        = [s EXCEPT !.r[A] = n.v, !.f = f]
  BY <1>1 DEF CpuState
<1>5. f \in SUBSET Bit /\ n.v \in Byte
  BY <1>1, <1>2, FieldTypes DEF Result
<1> HIDE DEF f
<1>6. [s EXCEPT !.r[A] = n.v, !.f = f] \in CpuState
  BY <1>1, <1>5, PutBothTypes
<1> QED
  BY <1>3, <1>4, <1>6 DEF CpuOK

LEMMA JumpKeeps ==
  ASSUME CpuOK, NEW i, InsOK(i), Jump(i)
  PROVE  CpuOK'
<1>1. z \in CpuState /\ Past(i, 2) \in CpuState /\ Word1(i) \in Word /\ HL \in Word
  BY Decoded, OperandTypes
<1>2. [z EXCEPT !.pc = Word1(i)] \in CpuState /\ [z EXCEPT !.pc = HL] \in CpuState
  BY <1>1, PutTypes
<1> QED
  BY <1>1, <1>2 DEF Jump, CpuOK

LEMMA RelativeTypes ==
  ASSUME CpuOK, NEW i, InsOK(i)
  PROVE  Past(i, 1) \in CpuState /\ Wrap(Past(i, 1).pc + Signed(Byte1(i))) \in Word
<1> DEFINE s == Past(i, 1)
<1>1. s \in CpuState
  BY Decoded
<1>2. s.pc \in Word
  BY <1>1, FieldTypes
<1>3. Signed(Byte1(i)) \in Int
  BY OperandTypes, SignedTypes
<1> HIDE DEF s
<1>4. s.pc + Signed(Byte1(i)) \in Int
  BY <1>2, <1>3 DEF Word
<1>5. Wrap(s.pc + Signed(Byte1(i))) \in Word
  BY <1>4, WrapTypes
<1> QED
  BY <1>1, <1>5 DEF s

LEMMA JumpRelativeKeeps ==
  ASSUME CpuOK, NEW i, InsOK(i), JumpRelative(i)
  PROVE  CpuOK'
<1> DEFINE s == Past(i, 1)
           there == Wrap(s.pc + Signed(Byte1(i)))
           jumps == i.t = \h18 \/ Holds(Y(i.t) - 4)
<1>1. s \in CpuState /\ there \in Word /\ s.pc \in Word
  BY RelativeTypes, FieldTypes
<1>2. z' = [s EXCEPT !.pc = IF jumps THEN Wrap(@ + Signed(Byte1(i))) ELSE @]
      /\ mem' = mem
  BY DEF JumpRelative
<1> HIDE DEF s, jumps
<1>3. z' = [s EXCEPT !.pc = IF jumps THEN there ELSE s.pc]
  BY <1>1, <1>2 DEF CpuState
<1> HIDE DEF there
<1>4. (IF jumps THEN there ELSE s.pc) \in Word
  BY <1>1
<1>5. [s EXCEPT !.pc = IF jumps THEN there ELSE s.pc] \in CpuState
  BY <1>1, <1>4, PutTypes
<1> QED
  BY <1>2, <1>3, <1>5 DEF CpuOK

LEMMA DjnzKeeps ==
  ASSUME CpuOK, NEW i, InsOK(i), Djnz(i)
  PROVE  CpuOK'
<1> DEFINE s == Past(i, 1)
           there == Wrap(s.pc + Signed(Byte1(i)))
           count == (s.r[B] - 1) % \h100
           at == IF z.r[B] # 1 THEN there ELSE s.pc
<1>1. s \in CpuState /\ there \in Word /\ s.pc \in Word /\ B \in Reg
  BY RelativeTypes, FieldTypes, Decoded
<1>2. z' = [s EXCEPT !.r[B] = (@ - 1) % \h100,
                     !.pc = IF z.r[B] # 1 THEN Wrap(@ + Signed(Byte1(i))) ELSE @]
      /\ mem' = mem
  BY DEF Djnz
<1> HIDE DEF s
<1>3. z' = [s EXCEPT !.r[B] = count, !.pc = at]
  BY <1>1, <1>2 DEF CpuState
<1>4. count \in Byte
  <2>1. s.r[B] \in Byte
    BY <1>1, FieldTypes
  <2> QED
    BY <2>1 DEF Byte
<1>5. at \in Word
  BY <1>1
<1> HIDE DEF there, count, at
<1>6. [s EXCEPT !.r[B] = count, !.pc = at] \in CpuState
  BY <1>1, <1>4, <1>5 DEF CpuState
<1> QED
  BY <1>2, <1>3, <1>6 DEF CpuOK

LEMMA CallKeeps ==
  ASSUME CpuOK, NEW i, InsOK(i), Call(i) \/ Restart(i)
  PROVE  CpuOK'
<1>1. /\ z \in CpuState /\ Past(i, 2) \in CpuState /\ Past(i, 0) \in CpuState
      /\ Word1(i) \in Word
  BY Decoded, OperandTypes
<1>2. Past(i, 2).pc \in Word /\ Past(i, 0).pc \in Word
  BY <1>1, FieldTypes
<1>3. 8 * Y(i.t) \in Word
  BY Decoded DEF Word
<1>4. [z EXCEPT !.pc = Word1(i)] \in CpuState /\ [z EXCEPT !.pc = 8 * Y(i.t)] \in CpuState
  BY <1>1, <1>3, PutTypes
<1>5. CASE Call(i)
  <2>1. CASE i.t = \hCD \/ Holds(Y(i.t))
    <3>1. Push([z EXCEPT !.pc = Word1(i)], Past(i, 2).pc)
      BY <1>5, <2>1 DEF Call
    <3> QED
      BY <1>2, <1>4, <3>1, PushKeeps
  <2>2. CASE ~(i.t = \hCD \/ Holds(Y(i.t)))
    <3>1. z' = Past(i, 2) /\ mem' = mem
      BY <1>5, <2>2 DEF Call
    <3> QED
      BY <1>1, <3>1 DEF CpuOK
  <2> QED
    BY <2>1, <2>2
<1>6. CASE Restart(i)
  <2>1. Push([z EXCEPT !.pc = 8 * Y(i.t)], Past(i, 0).pc)
    BY <1>6 DEF Restart
  <2> QED
    BY <1>2, <1>4, <2>1, PushKeeps
<1> QED
  BY <1>5, <1>6

LEMMA ReturnKeeps ==
  ASSUME CpuOK, NEW i, InsOK(i), Return(i)
  PROVE  CpuOK'
<1>1. z \in CpuState /\ Past(i, 0) \in CpuState /\ Top \in Word
  BY Decoded, OperandTypes
<1>2. [Popped(z) EXCEPT !.pc = Top] \in CpuState
  BY <1>1, PoppedTypes, PutTypes
<1> QED
  BY <1>1, <1>2 DEF Return, CpuOK

LEMMA PortAKeeps ==
  ASSUME CpuOK, NEW i, InsOK(i), PortA(i)
  PROVE  CpuOK'
<1>1. Past(i, 1) \in CpuState /\ A \in Reg /\ Inputs \subseteq Byte
  BY Decoded, InputsAssumption
<1>2. \A b \in Inputs : [Past(i, 1) EXCEPT !.r[A] = b] \in CpuState
  BY <1>1, PutTypes
<1> QED
  BY <1>1, <1>2 DEF PortA, CpuOK

LEMMA MainKeeps ==
  ASSUME CpuOK, NEW i, InsOK(i), MainInstruction(i)
  PROVE  CpuOK'
BY LoadRegisterKeeps, LoadAccumulatorKeeps, LoadPairKeeps, StackPairKeeps, ExchangeKeeps,
   ArithmeticKeeps, IncDecKeeps, AdjustKeeps, CarryFlagKeeps, ControlKeeps,
   WordArithmeticKeeps, RotateAKeeps, JumpKeeps, JumpRelativeKeeps, DjnzKeeps, CallKeeps,
   ReturnKeeps, PortAKeeps DEF MainInstruction

-----------------------------------------------------------------------------
(* The instructions behind a prefix. *)
LEMMA ChangedTypes ==
  ASSUME NEW t \in Byte, NEW b \in Byte
  PROVE  Changed(t, b) \in Byte
<1>1. BitsOf[b] \subseteq Bit /\ Y(t) \in Bit
  BY BytesHaveBits, OpcodeFields DEF Bit
<1> QED
  BY <1>1, SetsAreBytes DEF Changed

LEMMA TestedTypes ==
  ASSUME NEW f \in SUBSET Bit, NEW y, NEW b
  PROVE  Tested(f, y, b) \in SUBSET Bit
BY FlagSets DEF Tested

(* What the four groups of shifts, tests and changes of a place have in common. *)
LEMMA PlaceTypes ==
  ASSUME CpuOK, NEW i, InsOK(i), NEW b \in Byte
  PROVE  /\ Past(i, 0) \in CpuState /\ Changed(i.t, b) \in Byte
         /\ Shift(Y(i.t), b, z.f).v \in Byte
         /\ [Past(i, 0) EXCEPT !.f = Shift(Y(i.t), b, z.f).f] \in CpuState
         /\ [Past(i, 0) EXCEPT !.f = Tested(@, Y(i.t), b)] \in CpuState
<1> DEFINE s == Past(i, 0)
           n == Shift(Y(i.t), b, z.f)
           f == Tested(s.f, Y(i.t), b)
<1>1. s \in CpuState /\ Y(i.t) \in 0 .. 7 /\ z.f \in SUBSET Bit
  BY Decoded, AluTypes
<1>2. Result(n, Byte)
  BY <1>1, ShiftTypes
<1>3. f \in SUBSET Bit
  BY <1>1, FieldTypes, TestedTypes
<1>4. Changed(i.t, b) \in Byte
  BY Decoded, ChangedTypes
<1> HIDE DEF s, n
<1>5. [s EXCEPT !.f = Tested(@, Y(i.t), b)] = [s EXCEPT !.f = f]
  BY <1>1 DEF CpuState
<1> HIDE DEF f
<1>6. n.v \in Byte /\ n.f \in SUBSET Bit
  BY <1>2 DEF Result
<1>7. [s EXCEPT !.f = f] \in CpuState /\ [s EXCEPT !.f = n.f] \in CpuState
  BY <1>1, <1>3, <1>6, PutTypes
<1> QED
  BY <1>1, <1>4, <1>5, <1>6, <1>7 DEF s, n

LEMMA BitKeeps ==
  ASSUME CpuOK, NEW i, InsOK(i), BitInstruction(i)
  PROVE  CpuOK'
<1> DEFINE b == Get(Z(i.t), HL)
           n == Shift(Y(i.t), b, z.f)
           shifted == [Past(i, 0) EXCEPT !.f = n.f]
           tested == [Past(i, 0) EXCEPT !.f = Tested(@, Y(i.t), b)]
<1>1. b \in Byte
  BY Decoded, GetTypes
<1>2. /\ Past(i, 0) \in CpuState /\ Changed(i.t, b) \in Byte /\ n.v \in Byte
      /\ shifted \in CpuState /\ tested \in CpuState
  <2> HIDE DEF b
  <2> QED
    BY <1>1, PlaceTypes
<1>3. Z(i.t) \in 0 .. 7 /\ HL \in Word
  BY Decoded
<1>4. CASE ShiftReg(i)
  <2>1. Put(shifted, Z(i.t), HL, n.v)
    BY <1>4 DEF ShiftReg
  <2> HIDE DEF shifted, n
  <2> QED
    BY <1>2, <1>3, <2>1, PutKeeps
<1>5. CASE TestBit(i)
  <2>1. z' = tested /\ mem' = mem
    BY <1>5 DEF TestBit
  <2> HIDE DEF tested
  <2> QED
    BY <1>2, <2>1 DEF CpuOK
<1>6. CASE ResetBit(i) \/ SetBit(i)
  <2>1. Put(Past(i, 0), Z(i.t), HL, Changed(i.t, b))
    BY <1>6 DEF ResetBit, SetBit
  <2> HIDE DEF b
  <2> QED
    BY <1>2, <1>3, <2>1, PutKeeps
<1> QED
  BY <1>4, <1>5, <1>6 DEF BitInstruction

LEMMA IregBitKeeps ==
  ASSUME CpuOK, NEW i, InsOK(i), IregBitInstruction(i)
  PROVE  CpuOK'
<1> DEFINE b == Peek(Indexed)
           n == Shift(Y(i.t), b, z.f)
           shifted == [Past(i, 0) EXCEPT !.f = n.f]
           tested == [Past(i, 0) EXCEPT !.f = Tested(@, Y(i.t), b)]
<1>1. b \in Byte /\ Indexed \in Int
  BY PeekTypes, IndexTypes DEF Word
<1>2. /\ Past(i, 0) \in CpuState /\ Changed(i.t, b) \in Byte /\ n.v \in Byte
      /\ shifted \in CpuState /\ tested \in CpuState
  <2> HIDE DEF b
  <2> QED
    BY <1>1, PlaceTypes
<1>3. \A v \in Byte : MemoryOK(Poke(Indexed, v))
  BY <1>1, PokeTypes
<1>4. CASE IregBitShift(i)
  <2>1. z' = shifted /\ mem' = Poke(Indexed, n.v)
    BY <1>4 DEF IregBitShift
  <2> HIDE DEF shifted, n
  <2> QED
    BY <1>2, <1>3, <2>1 DEF CpuOK
<1>5. CASE IregBitTest(i)
  <2>1. z' = tested /\ mem' = mem
    BY <1>5 DEF IregBitTest
  <2> HIDE DEF tested
  <2> QED
    BY <1>2, <2>1 DEF CpuOK
<1>6. CASE IregBitChange(i)
  <2>1. z' = Past(i, 0) /\ mem' = Poke(Indexed, Changed(i.t, b))
    BY <1>6 DEF IregBitChange
  <2> HIDE DEF b
  <2> QED
    BY <1>2, <1>3, <2>1 DEF CpuOK
<1> QED
  BY <1>4, <1>5, <1>6 DEF IregBitInstruction

LEMMA WithIndexTypes ==
  ASSUME CpuOK, NEW s \in CpuState, NEW w \in Word
  PROVE  WithIndex(s, w) \in CpuState
<1>1. Index \in 0 .. 1
  BY IndexTypes
<1> QED
  BY <1>1 DEF WithIndex, CpuState

LEMMA IregLoadKeeps ==
  ASSUME CpuOK, NEW i, InsOK(i), IregLoad(i) \/ IregStore(i)
  PROVE  CpuOK'
<1>1. Peek(Indexed) \in Byte /\ Peek(z.pc + 3) \in Byte /\ Indexed \in Int
  BY PeekTypes, IndexTypes DEF Word
<1>2. Past(i, 1) \in CpuState /\ Past(i, 2) \in CpuState
  BY Decoded
<1>3. \A n \in 0 .. 7 : n # M => n \in Reg
  BY DEF M, Reg
<1>4. CASE IregLoad(i)
  <2>1. Y(i.t) \in Reg
    BY <1>3, <1>4, Decoded DEF IregLoad
  <2>2. [Past(i, 1) EXCEPT !.r[Y(i.t)] = Peek(Indexed)] \in CpuState
    BY <1>1, <1>2, <2>1, PutTypes
  <2> QED
    BY <1>4, <2>2 DEF IregLoad, CpuOK
<1>5. CASE IregStore(i)
  <2>1. CASE i.t = \h36
    <3>1. MemoryOK(Poke(Indexed, Peek(z.pc + 3)))
      BY <1>1, PokeTypes
    <3>2. ~(X(i.t) = 1)
      BY <2>1 DEF X
    <3> QED
      BY <1>2, <1>5, <3>1, <3>2 DEF IregStore, CpuOK
  <2>2. CASE i.t # \h36
    <3>1. Z(i.t) \in Reg
      BY <1>3, <1>5, <2>2, Decoded DEF IregStore
    <3>2. z.r[Z(i.t)] \in Byte
      BY <3>1, FieldTypes DEF CpuOK
    <3>3. MemoryOK(Poke(Indexed, z.r[Z(i.t)]))
      BY <1>1, <3>2, PokeTypes
    <3> QED
      BY <1>2, <1>5, <2>2, <3>3 DEF IregStore, CpuOK
  <2> QED
    BY <2>1, <2>2
<1> QED
  BY <1>4, <1>5

LEMMA IregWordsKeep ==
  ASSUME CpuOK, NEW i, InsOK(i), IregLoadWord(i) \/ IregStack(i)
  PROVE  CpuOK'
<1>1. Past(i, 0) \in CpuState /\ Past(i, 2) \in CpuState /\ Word1(i) \in Word
      /\ Word1(i) \in Int /\ PeekWord(Word1(i)) \in Word /\ Top \in Word
  BY Decoded, OperandTypes, PeekWordTypes DEF Word
<1>2. z.xy[Index] \in Word
  BY IndexTypes
<1>3. z.sp \in Int
  BY FieldTypes DEF CpuOK, Word
<1>4. /\ MemoryOK(PokeWord(Word1(i), z.xy[Index]))
      /\ MemoryOK(PokeWord(z.sp, z.xy[Index]))
  BY <1>1, <1>2, <1>3, PokeTypes
<1>5. CASE IregLoadWord(i)
  <2>1. /\ WithIndex(Past(i, 2), Word1(i)) \in CpuState
        /\ WithIndex(Past(i, 2), PeekWord(Word1(i))) \in CpuState
    BY <1>1, WithIndexTypes
  <2>2. [Past(i, 0) EXCEPT !.sp = z.xy[Index]] \in CpuState
    BY <1>1, <1>2, PutTypes
  <2> QED
    BY <1>1, <1>4, <1>5, <2>1, <2>2 DEF IregLoadWord, CpuOK
<1>6. CASE IregStack(i)
  <2>1. CASE i.t = \hE5
    <3>1. Push(Past(i, 0), z.xy[Index])
      BY <1>6, <2>1 DEF IregStack
    <3> QED
      BY <1>1, <1>2, <3>1, PushKeeps
  <2>2. CASE i.t # \hE5
    <3>1. Popped(Past(i, 0)) \in CpuState
      BY <1>1, PoppedTypes
    <3>2. /\ WithIndex(Popped(Past(i, 0)), Top) \in CpuState
          /\ WithIndex(Past(i, 0), Top) \in CpuState
      BY <1>1, <3>1, WithIndexTypes
    <3> QED
      BY <1>4, <1>6, <2>2, <3>2 DEF IregStack, CpuOK
  <2> QED
    BY <2>1, <2>2
<1> QED
  BY <1>5, <1>6

LEMMA IregAluKeeps ==
  ASSUME CpuOK, NEW i, InsOK(i), IregAlu(i)
  PROVE  CpuOK'
<1> DEFINE s == Past(i, 1)
           y == Y(i.t)
           a == z.r[A]
           b == Peek(Indexed)
           n == CASE y < 4 -> Arith8(a, b, y % 2 = 1, y >= 2, z.f)
                  [] y \in 4 .. 6 -> Logical(<<"and", "xor", "or">>[y - 3], a, b, z.f)
                  [] y = 7 -> [Arith8(a, b, FALSE, TRUE, z.f) EXCEPT !.v = a]
<1>1. /\ s \in CpuState /\ y \in 0 .. 7 /\ a \in Byte /\ b \in Byte
      /\ z.f \in SUBSET Bit
  BY Decoded, AluTypes, PeekTypes
<1>2. z' = [s EXCEPT !.r[A] = n.v, !.f = n.f] /\ mem' = mem
  BY DEF IregAlu
<1> HIDE DEF s, y, a, b
<1>3. Result(n, Byte)
  <2>1. CASE y < 4
    <3>1. (y % 2 = 1) \in BOOLEAN /\ (y >= 2) \in BOOLEAN
      OBVIOUS
    <3>2. Result(Arith8(a, b, y % 2 = 1, y >= 2, z.f), Byte)
      BY <1>1, <3>1, Arith8Types
    <3>3. n = Arith8(a, b, y % 2 = 1, y >= 2, z.f)
      BY <1>1, <2>1
    <3> QED
      BY <3>2, <3>3
  <2>2. CASE y \in 4 .. 6
    <3>1. <<"and", "xor", "or">>[y - 3] \in {"and", "xor", "or"}
      BY <2>2
    <3>2. \A op \in {"and", "xor", "or"} : Result(Logical(op, a, b, z.f), Byte)
      BY <1>1, LogicalTypes
    <3>3. n = Logical(<<"and", "xor", "or">>[y - 3], a, b, z.f)
      BY <2>2
    <3> QED
      BY <3>1, <3>2, <3>3
  <2>3. CASE y = 7
    <3> DEFINE m == Arith8(a, b, FALSE, TRUE, z.f)
    <3>1. Result(m, Byte)
      BY <1>1, Arith8Types
    <3>2. n = [m EXCEPT !.v = a]
      BY <2>3
    <3>3. DOMAIN m = {"v", "f"}
      BY DEF Arith8
    <3> HIDE DEF m
    <3>4. n.v = a /\ n.f = m.f
      BY <3>2, <3>3
    <3> HIDE DEF n
    <3> QED
      BY <1>1, <3>1, <3>4 DEF Result
  <2> QED
    BY <1>1, <2>1, <2>2, <2>3
<1> HIDE DEF n
<1> QED
  BY <1>1, <1>2, <1>3, AccumulateTypes DEF CpuOK

LEMMA IregIncDecKeeps ==
  ASSUME CpuOK, NEW i, InsOK(i), IregIncDec(i)
  PROVE  CpuOK'
<1> DEFINE s == Past(i, 1)
           neg == i.t = \h35
           n == Increment(Peek(Indexed), neg, z.f)
<1>1. s \in CpuState /\ z.f \in SUBSET Bit /\ Indexed \in Int
  BY Decoded, AluTypes, IndexTypes DEF Word
<1>2. Result(n, Byte)
  <2>1. Peek(Indexed) \in Byte /\ neg \in BOOLEAN
    BY PeekTypes
  <2> HIDE DEF neg
  <2> QED
    BY <1>1, <2>1, IncrementTypes
<1>3. z' = [s EXCEPT !.f = n.f] /\ mem' = Poke(Indexed, n.v)
  BY DEF IregIncDec
<1> HIDE DEF s, n
<1>4. n.v \in Byte /\ n.f \in SUBSET Bit
  BY <1>2 DEF Result
<1>5. [s EXCEPT !.f = n.f] \in CpuState /\ MemoryOK(Poke(Indexed, n.v))
  BY <1>1, <1>4, PutTypes, PokeTypes
<1> QED
  BY <1>3, <1>5 DEF CpuOK

LEMMA IregWordKeeps ==
  ASSUME CpuOK, NEW i, InsOK(i), IregWord(i)
  PROVE  CpuOK'
<1> DEFINE s == Past(i, 0)
           rr == z.xy[Index]
           other == IF P(i.t) = 2 THEN rr ELSE Pair("SP", P(i.t))
           n == Add16(rr, other, z.f)
           next == Wrap(rr + (IF i.t = \h2B THEN -1 ELSE 1))
<1>1. s \in CpuState /\ rr \in Word /\ z.f \in SUBSET Bit /\ z \in CpuState
  BY Decoded, AluTypes, IndexTypes
<1>2. other \in Word
  BY <1>1, Decoded, PairTypes
<1>3. next \in Word
  BY <1>1, WrapTypes DEF Word
<1>4. Result(n, Word)
  <2> HIDE DEF rr, other
  <2> QED
    BY <1>1, <1>2, Arith16Types
<1>5. \/ z' = WithIndex([s EXCEPT !.f = n.f], n.v)
      \/ z' = WithIndex(s, next)
      \/ z' = [z EXCEPT !.pc = rr]
  BY DEF IregWord
<1>6. mem' = mem
  BY DEF IregWord
<1> HIDE DEF s, rr, n, next
<1>7. n.v \in Word /\ n.f \in SUBSET Bit
  BY <1>4 DEF Result
<1>8. [s EXCEPT !.f = n.f] \in CpuState
  BY <1>1, <1>7, PutTypes
<1>9. /\ WithIndex([s EXCEPT !.f = n.f], n.v) \in CpuState
      /\ WithIndex(s, next) \in CpuState
      /\ [z EXCEPT !.pc = rr] \in CpuState
  BY <1>1, <1>3, <1>7, <1>8, WithIndexTypes, PutTypes
<1> QED
  BY <1>5, <1>6, <1>9 DEF CpuOK

LEMMA IregKeeps ==
  ASSUME CpuOK, NEW i, InsOK(i), IregInstruction(i)
  PROVE  CpuOK'
BY IregLoadKeeps, IregWordsKeep, IregAluKeeps, IregIncDecKeeps, IregWordKeeps
   DEF IregInstruction

LEMMA LoadIRKeeps ==
  ASSUME CpuOK, NEW i, InsOK(i), LoadIR(i)
  PROVE  CpuOK'
<1> DEFINE s == Past(i, 0)
           n == Y(i.t) % 2
           b == z.ir[n]
           a == z.r[A]
           f == (s.f \cap {CARRY, 3, 5}) \cup SignZero(b) \cup When(z.iff2, PARITY)
<1>1. s \in CpuState /\ z \in CpuState /\ A \in Reg /\ a \in Byte
  BY Decoded, AluTypes
<1>2. n \in {0, 1}
  BY Decoded
<1>3. b \in Byte
  BY <1>1, <1>2, FieldTypes
<1>4. \/ z' = [s EXCEPT !.r[A] = b, !.f = (@ \cap {CARRY, 3, 5}) \cup SignZero(b)
                                                              \cup When(z.iff2, PARITY)]
      \/ z' = [s EXCEPT !.ir[n] = a]
  BY DEF LoadIR
<1>5. mem' = mem
  BY DEF LoadIR
<1> HIDE DEF s, n, b, a
<1>6. [s EXCEPT !.r[A] = b, !.f = (@ \cap {CARRY, 3, 5}) \cup SignZero(b)
                                                          \cup When(z.iff2, PARITY)]
        = [s EXCEPT !.r[A] = b, !.f = f]
  BY <1>1 DEF CpuState
<1>7. f \in SUBSET Bit
  BY <1>1, FieldTypes, FlagSets
<1> HIDE DEF f
<1>8. [s EXCEPT !.r[A] = b, !.f = f] \in CpuState
  BY <1>1, <1>3, <1>7, PutBothTypes
<1>9. [s EXCEPT !.ir[n] = a] \in CpuState
  <2>1. n \in 0 .. 1
    BY <1>2
  <2> QED
    BY <1>1, <2>1 DEF CpuState
<1> QED
  BY <1>4, <1>5, <1>6, <1>8, <1>9 DEF CpuOK

LEMMA LoadPairDirectKeeps ==
  ASSUME CpuOK, NEW i, InsOK(i), LoadPairDirect(i)
  PROVE  CpuOK'
<1> DEFINE s == Past(i, 2)
           p == P(i.t)
           v == Pair("SP", p)
           w == PeekWord(Word1(i))
<1>1. s \in CpuState /\ p \in 0 .. 3 /\ Word1(i) \in Int /\ w \in Word
  BY Decoded, OperandTypes, PeekWordTypes DEF Word
<1>2. v \in Word
  BY <1>1, PairTypes
<1>3. \/ z' = WithPair(s, "SP", p, w) /\ mem' = mem
      \/ z' = s /\ mem' = PokeWord(Word1(i), v)
  BY DEF LoadPairDirect
<1> HIDE DEF s, p, v, w
<1>4. WithPair(s, "SP", p, w) \in CpuState /\ MemoryOK(PokeWord(Word1(i), v))
  BY <1>1, <1>2, WithPairTypes, PokeTypes
<1> QED
  BY <1>1, <1>3, <1>4 DEF CpuOK

LEMMA RepeatedTypes ==
  ASSUME CpuOK, NEW i, NEW again
  PROVE  Repeated(i, again) \in CpuState
<1>1. z \in CpuState /\ z.pc \in Word
  BY FieldTypes DEF CpuOK
<1>2. Wrap(z.pc + 2) \in Word
  BY <1>1, WrapTypes DEF Word
<1>3. \/ Repeated(i, again) = [z EXCEPT !.pc = z.pc]
      \/ Repeated(i, again) = [z EXCEPT !.pc = Wrap(z.pc + 2)]
  BY <1>1 DEF Repeated, CpuState
<1> QED
  BY <1>1, <1>2, <1>3, PutTypes

LEMMA StrideTypes ==
  ASSUME CpuOK, NEW i
  PROVE  Wrap(HL + Stride(i)) \in Word /\ Wrap(DE + Stride(i)) \in Word /\ Wrap(BC - 1) \in Word
<1>1. HL \in Int /\ DE \in Int /\ BC \in Int
  BY PairsTypes DEF Word
<1>2. Stride(i) \in Int
  BY DEF Stride
<1>3. HL + Stride(i) \in Int /\ DE + Stride(i) \in Int /\ BC - 1 \in Int
  BY <1>1, <1>2
<1> QED
  BY <1>3, WrapTypes

LEMMA BlockLoadKeeps ==
  ASSUME CpuOK, NEW i, InsOK(i), BlockLoad(i)
  PROVE  CpuOK'
<1> DEFINE bc == Wrap(BC - 1)
           de == Wrap(DE + Stride(i))
           hl == Wrap(HL + Stride(i))
           s0 == Repeated(i, bc # 0)
           s  == [s0 EXCEPT !.f =
                   (@ \ {OVERFLOW, HALF, NEGATIVE}) \cup When(bc # 0, OVERFLOW)]
           f  == (s0.f \ {OVERFLOW, HALF, NEGATIVE}) \cup When(bc # 0, OVERFLOW)
<1>1. bc \in Word /\ de \in Word /\ hl \in Word /\ s0 \in CpuState
  BY StrideTypes, RepeatedTypes
<1>2. z' = WithPair(WithPair(WithPair(s, "SP", 0, bc), "SP", 1, de), "SP", 2, hl)
      /\ mem' = Poke(DE, Peek(HL))
  BY DEF BlockLoad
<1> HIDE DEF bc, de, hl, s0
<1>3. f \in SUBSET Bit
  BY <1>1, FieldTypes, FlagSets
<1>4. s = [s0 EXCEPT !.f = f]
  BY <1>1 DEF CpuState
<1> HIDE DEF f
<1>5. s \in CpuState
  <2>1. [s0 EXCEPT !.f = f] \in CpuState
    BY <1>1, <1>3, PutTypes
  <2> QED
    BY <1>4, <2>1
<1> HIDE DEF s
<1>6. WithPair(s, "SP", 0, bc) \in CpuState
  BY <1>1, <1>5, WithPairTypes
<1>7. WithPair(WithPair(s, "SP", 0, bc), "SP", 1, de) \in CpuState
  BY <1>1, <1>6, WithPairTypes
<1>8. WithPair(WithPair(WithPair(s, "SP", 0, bc), "SP", 1, de), "SP", 2, hl) \in CpuState
  BY <1>1, <1>7, WithPairTypes
<1>9. MemoryOK(Poke(DE, Peek(HL)))
  <2>1. DE \in Int /\ Peek(HL) \in Byte
    BY PairsTypes, PeekTypes DEF Word
  <2> QED
    BY <2>1, PokeTypes
<1> QED
  BY <1>2, <1>8, <1>9 DEF CpuOK

LEMMA BlockCompareKeeps ==
  ASSUME CpuOK, NEW i, InsOK(i), BlockCompare(i)
  PROVE  CpuOK'
<1> DEFINE b  == Peek(HL)
           t2 == (z.r[A] - b) % \h100
           bc == Wrap(BC - 1)
           hl == Wrap(HL + Stride(i))
           s0 == Repeated(i, t2 # 0 /\ bc # 0)
           s  == [s0 EXCEPT !.f =
                   (@ \cap {CARRY, 3, 5}) \cup SignZero(t2) \cup {NEGATIVE}
                     \cup When(Low(z.r[A]) < Low(b), HALF)
                     \cup When(bc # 0, OVERFLOW)]
           f  == (s0.f \cap {CARRY, 3, 5}) \cup SignZero(t2) \cup {NEGATIVE}
                     \cup When(Low(z.r[A]) < Low(b), HALF)
                     \cup When(bc # 0, OVERFLOW)
<1>1. bc \in Word /\ hl \in Word /\ s0 \in CpuState
  BY StrideTypes, RepeatedTypes
<1>2. z' = WithPair(WithPair(s, "SP", 0, bc), "SP", 2, hl) /\ mem' = mem
  BY DEF BlockCompare
<1> HIDE DEF b, t2, bc, hl, s0
<1>3. f \in SUBSET Bit
  BY <1>1, FieldTypes, FlagSets
<1>4. s = [s0 EXCEPT !.f = f]
  BY <1>1 DEF CpuState
<1> HIDE DEF f
<1>5. s \in CpuState
  <2>1. [s0 EXCEPT !.f = f] \in CpuState
    BY <1>1, <1>3, PutTypes
  <2> QED
    BY <1>4, <2>1
<1> HIDE DEF s
<1>6. WithPair(s, "SP", 0, bc) \in CpuState
  BY <1>1, <1>5, WithPairTypes
<1>7. WithPair(WithPair(s, "SP", 0, bc), "SP", 2, hl) \in CpuState
  BY <1>1, <1>6, WithPairTypes
<1> QED
  BY <1>2, <1>7 DEF CpuOK

LEMMA NegateKeeps ==
  ASSUME CpuOK, NEW i, InsOK(i), Negate(i)
  PROVE  CpuOK'
<1> DEFINE s == Past(i, 0)
           n == Neg(z.r[A], z.f)
           mode == CASE i.t = \h46 -> 0 [] i.t = \h56 -> 1 [] i.t = \h5E -> 2
<1>1. s \in CpuState /\ z.r[A] \in Byte /\ z.f \in SUBSET Bit
  BY Decoded, AluTypes
<1>2. CASE i.t = \h44
  <2>1. Result(n, Byte)
    BY <1>1, NegTypes
  <2>2. z' = [s EXCEPT !.r[A] = n.v, !.f = n.f] /\ mem' = mem
    BY <1>2 DEF Negate
  <2> HIDE DEF s, n
  <2> QED
    BY <1>1, <2>1, <2>2, AccumulateTypes DEF CpuOK
<1>3. CASE i.t \in {\h46, \h56, \h5E}
  <2>1. mode \in 0 .. 2
    BY <1>3
  <2>2. z' = [s EXCEPT !.imode = mode] /\ mem' = mem
    BY <1>3 DEF Negate
  <2> HIDE DEF s, mode
  <2>3. [s EXCEPT !.imode = mode] \in CpuState
    BY <1>1, <2>1 DEF CpuState
  <2> QED
    BY <2>2, <2>3 DEF CpuOK
<1> QED
  BY <1>2, <1>3 DEF Negate

LEMMA ArithmeticHLKeeps ==
  ASSUME CpuOK, NEW i, InsOK(i), ArithmeticHL(i)
  PROVE  CpuOK'
<1> DEFINE s == Past(i, 0)
           w == Pair("SP", P(i.t))
           sub == Y(i.t) % 2 = 0
           n == Arith16(HL, w, sub, z.f)
<1>1. s \in CpuState /\ HL \in Word /\ z.f \in SUBSET Bit
  BY Decoded, AluTypes
<1>2. w \in Word /\ sub \in BOOLEAN
  BY Decoded, PairTypes
<1>3. z' = WithPair([s EXCEPT !.f = n.f], "SP", 2, n.v) /\ mem' = mem
  BY DEF ArithmeticHL
<1> HIDE DEF s, w, sub
<1>4. Result(n, Word)
  BY <1>1, <1>2, Arith16Types
<1> HIDE DEF n
<1>5. n.v \in Word /\ n.f \in SUBSET Bit
  BY <1>4 DEF Result
<1>6. [s EXCEPT !.f = n.f] \in CpuState
  BY <1>1, <1>5, PutTypes
<1>7. WithPair([s EXCEPT !.f = n.f], "SP", 2, n.v) \in CpuState
  BY <1>5, <1>6, WithPairTypes
<1> QED
  BY <1>3, <1>7 DEF CpuOK

LEMMA DigitsTypes ==
  ASSUME NEW a \in Byte, NEW b \in Byte
  PROVE  /\ High(a) + Low(b) \in Byte /\ High(a) + (b \div 16) \in Byte
         /\ 16 * Low(b) + Low(a) \in Byte /\ (b \div 16) + 16 * Low(a) \in Byte
<1>1. a \in Int /\ b \in Int /\ 0 <= a /\ a <= 255 /\ 0 <= b /\ b <= 255
  BY DEF Byte
<1>2. /\ 0 <= a % 16 /\ a % 16 <= 15 /\ a % 16 \in Int
      /\ 0 <= b % 16 /\ b % 16 <= 15 /\ b % 16 \in Int
      /\ 0 <= b \div 16 /\ b \div 16 <= 15 /\ b \div 16 \in Int
      /\ 0 <= a - (a % 16) /\ a - (a % 16) <= 240
  BY <1>1
<1> QED
  BY <1>1, <1>2 DEF High, Low, Byte

LEMMA RotateDigitKeeps ==
  ASSUME CpuOK, NEW i, InsOK(i), RotateDigit(i)
  PROVE  CpuOK'
<1> DEFINE s == Past(i, 0)
           b == Peek(HL)
           v == z.r[A]
           a == High(v) + (IF i.t = \h6F THEN b \div 16 ELSE Low(b))
           c == IF i.t = \h6F THEN 16 * Low(b) + Low(v) ELSE (b \div 16) + 16 * Low(v)
           f == FlagsOf(s.f, a)
<1>1. s \in CpuState /\ v \in Byte /\ A \in Reg /\ b \in Byte /\ HL \in Int
  BY Decoded, AluTypes, PeekTypes DEF Word
<1>2. z' = [s EXCEPT !.r[A] = a, !.f = FlagsOf(@, a)] /\ mem' = Poke(HL, c)
  BY DEF RotateDigit
<1> HIDE DEF s, b, v
<1>3. a \in Byte /\ c \in Byte
  BY <1>1, DigitsTypes
<1> HIDE DEF a, c
<1>4. f \in SUBSET Bit
  BY <1>1, FieldTypes, FlagsOfTypes
<1>5. [s EXCEPT !.r[A] = a, !.f = FlagsOf(@, a)] = [s EXCEPT !.r[A] = a, !.f = f]
  BY <1>1 DEF CpuState
<1> HIDE DEF f
<1>6. [s EXCEPT !.r[A] = a, !.f = f] \in CpuState /\ MemoryOK(Poke(HL, c))
  BY <1>1, <1>3, <1>4, PutBothTypes, PokeTypes
<1> QED
  BY <1>2, <1>5, <1>6 DEF CpuOK

LEMMA ReturnFromInterruptKeeps ==
  ASSUME CpuOK, NEW i, InsOK(i), ReturnFromInterrupt(i)
  PROVE  CpuOK'
<1> DEFINE s == Popped(z)
           w == Top
           g == IF i.t = \h45 THEN z.iff2 ELSE s.iff
<1>1. s \in CpuState /\ w \in Word /\ z \in CpuState
  BY Decoded, PoppedTypes, OperandTypes
<1>2. z' = [s EXCEPT !.pc = w, !.iff = IF i.t = \h45 THEN z.iff2 ELSE @] /\ mem' = mem
  BY DEF ReturnFromInterrupt
<1> HIDE DEF s, w
<1>3. z' = [s EXCEPT !.pc = w, !.iff = g]
  BY <1>1, <1>2 DEF CpuState
<1>4. g \in BOOLEAN
  <2>1. z.iff2 \in BOOLEAN /\ s.iff \in BOOLEAN
    BY <1>1 DEF CpuState
  <2>2. CASE i.t = \h45
    BY <2>1, <2>2
  <2>3. CASE i.t # \h45
    BY <2>1, <2>3
  <2> QED
    BY <2>2, <2>3
<1> HIDE DEF g
<1>5. [s EXCEPT !.pc = w, !.iff = g] \in CpuState
  BY <1>1, <1>4 DEF CpuState
<1> QED
  BY <1>2, <1>3, <1>5 DEF CpuOK

LEMMA PortsKeep ==
  ASSUME CpuOK, NEW i, InsOK(i), InPort(i) \/ OutPort(i)
  PROVE  CpuOK'
<1> DEFINE s == Past(i, 0)
           n == Y(i.t)
           f(b) == FlagsOf(s.f, b)
<1>1. s \in CpuState /\ n \in 0 .. 7 /\ Inputs \subseteq Byte
  BY Decoded, InputsAssumption
<1>2. CASE InPort(i)
  <2> PICK b \in Inputs : z' = IF n = M THEN [s EXCEPT !.st = "crash"]
                               ELSE [s EXCEPT !.r[n] = b, !.f = FlagsOf(@, b)]
    BY <1>2 DEF InPort
  <2>1. mem' = mem
    BY <1>2 DEF InPort
  <2> HIDE DEF s
  <2>2. [s EXCEPT !.st = "crash"] \in CpuState
    BY <1>1 DEF CpuState
  <2>3. f(b) \in SUBSET Bit
    BY <1>1, FieldTypes, FlagsOfTypes
  <2>4. [s EXCEPT !.r[n] = b, !.f = FlagsOf(@, b)] = [s EXCEPT !.r[n] = b, !.f = f(b)]
    BY <1>1 DEF CpuState
  <2> HIDE DEF f
  <2>5. n # M => n \in Reg
    BY <1>1 DEF M, Reg
  <2> HIDE DEF n
  <2>6. n # M => [s EXCEPT !.r[n] = b, !.f = f(b)] \in CpuState
    BY <1>1, <2>3, <2>5, PutBothTypes
  <2> QED
    BY <2>1, <2>2, <2>4, <2>6 DEF CpuOK
<1>3. CASE OutPort(i)
  BY <1>1, <1>3 DEF OutPort, CpuOK
<1> QED
  BY <1>2, <1>3

LEMMA BlockPortKeeps ==
  ASSUME CpuOK, NEW i, InsOK(i), BlockIn(i) \/ BlockOut(i)
  PROVE  CpuOK'
<1> DEFINE b == (z.r[B] - 1) % \h100
           s0 == Repeated(i, b # 0)
           s == [s0 EXCEPT !.r[B] = b,
                   !.f = (@ \ {ZERO}) \cup {NEGATIVE} \cup When(b = 0, ZERO)]
           f == (s0.f \ {ZERO}) \cup {NEGATIVE} \cup When(b = 0, ZERO)
           hl == Wrap(HL + Stride(i))
<1>1. s0 \in CpuState /\ hl \in Word /\ B \in Reg /\ HL \in Int
  BY RepeatedTypes, StrideTypes, Decoded DEF Word
<1>2. b \in Byte
  <2>1. z.r[B] \in Byte
    BY <1>1, FieldTypes DEF CpuOK
  <2> QED
    BY <2>1 DEF Byte
<1>3. z' = WithPair(s, "SP", 2, hl)
  BY DEF BlockIn, BlockOut, BlockPort
<1>4. mem' = mem \/ \E v \in Inputs : mem' = Poke(HL, v)
  BY DEF BlockIn, BlockOut
<1> HIDE DEF b, s0, hl
<1>5. f \in SUBSET Bit
  BY <1>1, FieldTypes, FlagSets
<1>6. s = [s0 EXCEPT !.r[B] = b, !.f = f]
  BY <1>1 DEF CpuState
<1> HIDE DEF f
<1>7. s \in CpuState
  <2>1. [s0 EXCEPT !.r[B] = b, !.f = f] \in CpuState
    BY <1>1, <1>2, <1>5, PutBothTypes
  <2> QED
    BY <1>6, <2>1
<1> HIDE DEF s
<1>8. WithPair(s, "SP", 2, hl) \in CpuState
  BY <1>1, <1>7, WithPairTypes
<1>9. MemoryOK(mem')
  <2>1. \A v \in Inputs : MemoryOK(Poke(HL, v))
    BY <1>1, PokeTypes, InputsAssumption
  <2> QED
    BY <1>4, <2>1 DEF CpuOK
<1> QED
  BY <1>3, <1>8, <1>9 DEF CpuOK

LEMMA ExtKeeps ==
  ASSUME CpuOK, NEW i, InsOK(i), ExtInstruction(i)
  PROVE  CpuOK'
BY LoadIRKeeps, LoadPairDirectKeeps, BlockLoadKeeps, BlockCompareKeeps, NegateKeeps,
   ArithmeticHLKeeps, RotateDigitKeeps, ReturnFromInterruptKeeps, PortsKeep,
   BlockPortKeeps DEF ExtInstruction

LEMMA UndefinedKeeps ==
  ASSUME CpuOK, NEW i, InsOK(i), Undefined(i)
  PROVE  CpuOK'
<1> DEFINE n == IF i.set = "iregbit" THEN -1 ELSE 0
           s == Past(i, n)
<1>1. n \in Int
  OBVIOUS
<1>2. s \in CpuState
  BY <1>1, PastTypes
<1>3. z' = [s EXCEPT !.st = "prompt"] /\ mem' = mem
  BY DEF Undefined
<1> HIDE DEF s
<1>4. [s EXCEPT !.st = "prompt"] \in CpuState
  BY <1>2 DEF CpuState
<1> QED
  BY <1>2, <1>3, <1>4 DEF CpuOK

LEMMA StepKeepsTypes == CpuOK /\ [Next]_<<vars, prog>> => CpuOK'
<1> SUFFICES ASSUME CpuOK, [Next]_<<vars, prog>> PROVE CpuOK'
  OBVIOUS
<1>1. CASE Next
  <2>1. InsOK(Ins)
    BY InsTypes
  <2>2. \/ MainInstruction(Ins) \/ BitInstruction(Ins) \/ IregInstruction(Ins)
        \/ IregBitInstruction(Ins) \/ ExtInstruction(Ins) \/ Undefined(Ins)
    BY <1>1 DEF Next, Execute
  <2> QED
    BY <2>1, <2>2, MainKeeps, BitKeeps, IregKeeps, IregBitKeeps, ExtKeeps, UndefinedKeeps
<1>2. CASE UNCHANGED <<vars, prog>>
  BY <1>2 DEF vars, CpuOK
<1> QED
  BY <1>1, <1>2

-----------------------------------------------------------------------------
(* The programs: their code is bytes, their registers and data are typed.  *)
RegsOK(bc, de, hl, a, f, sp) ==
  /\ bc \in Word /\ de \in Word /\ hl \in Word /\ sp \in Word
  /\ a \in Byte /\ f \in SUBSET Bit

LEMMA RegsTypes ==
  ASSUME NEW bc, NEW de, NEW hl, NEW a, NEW f, NEW sp, RegsOK(bc, de, hl, a, f, sp)
  PROVE  Regs(bc, de, hl, a, f, sp) \in CpuState
<1> DEFINE q == Regs(bc, de, hl, a, f, sp)
           r == [n \in Reg |->
                  CASE n = B -> bc \div \h100 [] n = C -> bc % \h100
                    [] n = D -> de \div \h100 [] n = E -> de % \h100
                    [] n = H -> hl \div \h100 [] n = L -> hl % \h100
                    [] n = A -> a]
           xy == [n \in 0 .. 1 |-> Data + 16 + 16 * n]
<1>1. r \in [Reg -> Byte]
  <2>1. /\ bc \div \h100 \in Byte /\ bc % \h100 \in Byte
        /\ de \div \h100 \in Byte /\ de % \h100 \in Byte
        /\ hl \div \h100 \in Byte /\ hl % \h100 \in Byte /\ a \in Byte
    BY WordsAndBytes DEF RegsOK
  <2>2. ASSUME NEW n \in Reg PROVE r[n] \in Byte
    BY <2>1 DEF Reg, A, B, C, D, E, H, L
  <2> QED
    BY <2>2
<1>2. xy \in [0 .. 1 -> Word]
  BY DEF Data, Word
<1>3. Org \in Word /\ 0 \in Word /\ 0 \in Byte
  BY DEF Org, Word, Byte
<1>4. Blank \in CpuState
  <2>1. [n \in Reg |-> 0] \in [Reg -> Byte] /\ [p \in 0 .. 3 |-> 0] \in [0 .. 3 -> Word]
        /\ [n \in 0 .. 1 |-> 0] \in [0 .. 1 -> Word]
        /\ [n \in 0 .. 1 |-> 0] \in [0 .. 1 -> Byte]
    BY <1>3
  <2> QED
    BY <1>3, <2>1 DEF Blank, CpuState
<1>5. q = [Blank EXCEPT !.r = r, !.f = f, !.sp = sp, !.pc = Org, !.xy = xy]
  BY DEF Regs
<1> HIDE DEF q, r, xy
<1>6. [Blank EXCEPT !.r = r, !.f = f, !.sp = sp, !.pc = Org, !.xy = xy] \in CpuState
  BY <1>1, <1>2, <1>3, <1>4 DEF RegsOK, CpuState
<1> QED
  BY <1>5, <1>6 DEF q

ByteCode == {c \in Seq(Byte) : Len(c) <= 32}

LEMMA BytesTypes ==
  ASSUME NEW s \in ByteCode, NEW base \in {Org, Data, Data + 16}
  PROVE  MemoryOK(Bytes(base, s))
<1>1. s \in Seq(Byte) /\ Len(s) \in Nat /\ Len(s) <= 32 /\ DOMAIN s = 1 .. Len(s)
  BY DEF ByteCode
<1>2. base \in Nat /\ base + 32 <= 65535
  BY DEF Org, Data
<1>3. ASSUME NEW k \in DOMAIN s PROVE base + k - 1 \in Word
  BY <1>1, <1>2 DEF Word
<1>4. DOMAIN Bytes(base, s) \subseteq Word
  BY <1>3 DEF Bytes
<1>5. ASSUME NEW a \in DOMAIN Bytes(base, s) PROVE Bytes(base, s)[a] \in Byte
  <2>1. PICK k \in DOMAIN s : a = base + k - 1
    BY DEF Bytes
  <2>2. a - base + 1 = k
    BY <1>1, <1>2, <2>1
  <2>3. Bytes(base, s)[a] = s[k]
    BY <2>2 DEF Bytes
  <2> QED
    BY <1>1, <2>3
<1> QED
  BY <1>4, <1>5 DEF MemoryOK

LEMMA LoadedTypes ==
  ASSUME NEW code, MemoryOK(code), NEW data, MemoryOK(data)
  PROVE  MemoryOK(Loaded(code, data))
BY DEF MemoryOK, Loaded

ProgramOK(p, kinds) ==
  /\ p.kind \in kinds /\ p.code \in ByteCode
  /\ p.regs \in CpuState /\ MemoryOK(p.data)

LEMMA ProgramTypes ==
  ASSUME NEW kinds, NEW kind \in kinds, NEW code \in ByteCode, NEW regs \in CpuState,
         NEW data, MemoryOK(data)
  PROVE  ProgramOK(Program(kind, code, regs, data), kinds)
BY DEF ProgramOK, Program

LEMMA NoDataTypes == MemoryOK(NoData)
<1>1. <<>> \in ByteCode
  BY DEF ByteCode
<1> QED
  BY <1>1, BytesTypes DEF NoData

LEMMA Literals ==
  /\ \A n \in 0 .. 255 : n \in Byte
  /\ \A n \in 0 .. 65535 : n \in Word
  /\ {} \in SUBSET Bit /\ {CARRY} \in SUBSET Bit /\ Bit \in SUBSET Bit
BY DEF Byte, Word, Bit, CARRY

LEMMA StepsTypes == \A p \in Steps : ProgramOK(p, {"step"})
<1> DEFINE codes == {<<t, 5, 6>> : t \in Byte \ {\hCB, \hDD, \hED, \hFD}}
               \cup {<<p, t, 5, 6>> : p \in {\hCB, \hED}, t \in Byte}
               \cup {<<p, t, 5, 6>> : p \in {\hDD, \hFD}, t \in Byte \ {\hCB}}
               \cup {<<p, \hCB, 5, t>> : p \in {\hDD, \hFD}, t \in Byte}
           regs  == {Regs(\h0201, Data + 4, Data, \h12, {}, \h9000),
                Regs(\h0102, \hFFFF, 0, \hF7, Bit, 0)}
<1>1. ASSUME NEW c \in codes PROVE c \in ByteCode
  <2>1. {5, 6, \hCB, \hDD, \hED, \hFD} \subseteq Byte
    BY DEF Byte
  <2>3. \/ \E t \in Byte : c = <<t, 5, 6>>
        \/ \E p \in Byte, t \in Byte : c = <<p, t, 5, 6>> \/ c = <<p, \hCB, 5, t>>
    BY <2>1
  <2>4. 5 \in Byte /\ 6 \in Byte /\ \hCB \in Byte
    BY <2>1
  <2>5. \A t \in Byte : <<t, 5, 6>> \in ByteCode
    BY <2>4 DEF ByteCode
  <2>6. \A p \in Byte, t \in Byte :
          <<p, t, 5, 6>> \in ByteCode /\ <<p, \hCB, 5, t>> \in ByteCode
    BY <2>4 DEF ByteCode
  <2> HIDE DEF codes
  <2> QED
    BY <2>3, <2>5, <2>6
<1>2. ASSUME NEW r \in regs PROVE r \in CpuState
  <2>1. RegsOK(\h0201, Data + 4, Data, \h12, {}, \h9000)
    BY DEF RegsOK, Data, Word, Byte
  <2>2. RegsOK(\h0102, \hFFFF, 0, \hF7, Bit, 0)
    BY DEF RegsOK, Word, Byte
  <2> QED
    BY <2>1, <2>2, RegsTypes
<1>3. Steps = {Program("step", c, r, NoData) : c \in codes, r \in regs}
  BY DEF Steps
<1> HIDE DEF codes, regs
<1> QED
  BY <1>1, <1>2, <1>3, ProgramTypes, NoDataTypes

LEMMA DecimalsTypes == \A p \in Decimals : ProgramOK(p, {"bcd"})
<1> DEFINE bcd == {16 * t + u : t \in Digits, u \in 0 .. 9}
           flags == {{}, {CARRY}}
           program(op, a, v, f) ==
             Program("bcd", <<op, v, \h27, \h76>>, Regs(0, 0, 0, a, f, 0), NoData)
<1>0. Decimals = {program(op, a, v, f) :
                    op \in {\hC6, \hCE, \hD6, \hDE}, a \in bcd, v \in bcd,
                    f \in flags}
  BY DEF Decimals
<1>1. ASSUME NEW p \in Decimals PROVE ProgramOK(p, {"bcd"})
  <2>2. bcd \subseteq Byte
    BY OperandsAssumption DEF Byte
  <2>0. flags \subseteq SUBSET Bit
    BY Literals
  <2> HIDE DEF bcd, flags, program
  <2>1. PICK op \in {\hC6, \hCE, \hD6, \hDE}, a \in bcd, v \in bcd, f \in flags :
          p = program(op, a, v, f)
    BY <1>0
  <2>3. a \in Byte /\ v \in Byte
    BY <2>2
  <2>4. op \in Byte /\ \h27 \in Byte /\ \h76 \in Byte
    BY DEF Byte
  <2>5. <<op, v, \h27, \h76>> \in ByteCode
    BY <2>3, <2>4 DEF ByteCode
  <2>6. RegsOK(0, 0, 0, a, f, 0)
    BY <2>0, <2>3, Literals DEF RegsOK
  <2>7. Regs(0, 0, 0, a, f, 0) \in CpuState
    BY <2>6, RegsTypes
  <2> QED
    BY <2>1, <2>5, <2>7, ProgramTypes, NoDataTypes DEF program
<1> QED
  BY <1>1

LEMMA SumsTypes == \A p \in Sums : ProgramOK(p, {"sum"})
<1> DEFINE words == {\h100 * h + l : h \in Operands, l \in Operands}
           flags == {{}, {CARRY}}
           codes == {<<\h19, \h76>>, <<\hED, \h5A, \h76>>, <<\hED, \h52, \h76>>,
                     <<\h7D, \h83, \h6F, \h7C, \h8A, \h67, \h76>>,
                     <<\h7D, \h93, \h6F, \h7C, \h9A, \h67, \h76>>}
<1>1. ASSUME NEW c \in codes PROVE c \in ByteCode
  <2>1. {\h19, \h76, \hED, \h5A, \h52, \h7D, \h83, \h6F, \h7C, \h8A, \h67, \h93, \h9A}
          \subseteq Byte
    BY DEF Byte
  <2>2. <<\h19, \h76>> \in ByteCode /\ <<\hED, \h5A, \h76>> \in ByteCode
        /\ <<\hED, \h52, \h76>> \in ByteCode
    BY <2>1 DEF ByteCode
  <2>3. <<\h7D, \h83, \h6F, \h7C, \h8A, \h67, \h76>> \in ByteCode
    BY <2>1 DEF ByteCode
  <2>4. <<\h7D, \h93, \h6F, \h7C, \h9A, \h67, \h76>> \in ByteCode
    BY <2>1 DEF ByteCode
  <2> QED
    BY <2>2, <2>3, <2>4
<1>2. words \subseteq Word
  BY WordsAndBytes, OperandsAssumption
<1>3. Sums = {Program("sum", c, Regs(0, y, x, 0, f, 0), NoData) :
                c \in codes, x \in words, y \in words, f \in flags}
  BY DEF Sums
<1>7. flags \subseteq SUBSET Bit
  BY Literals
<1> HIDE DEF codes, words, flags
<1>4. ASSUME NEW x \in words, NEW y \in words, NEW f \in flags
      PROVE  Regs(0, y, x, 0, f, 0) \in CpuState
  <2>1. RegsOK(0, y, x, 0, f, 0)
    BY <1>2, <1>7, Literals DEF RegsOK
  <2> QED
    BY <2>1, RegsTypes
<1>5. \A c \in codes, x \in words, y \in words, f \in flags :
        ProgramOK(Program("sum", c, Regs(0, y, x, 0, f, 0), NoData), {"sum"})
  BY <1>1, <1>4, ProgramTypes, NoDataTypes
<1>6. ASSUME NEW p \in Sums PROVE ProgramOK(p, {"sum"})
  <2>1. PICK c \in codes, x \in words, y \in words, f \in flags :
          p = Program("sum", c, Regs(0, y, x, 0, f, 0), NoData)
    BY <1>3
  <2> QED
    BY <1>5, <2>1
<1> QED
  BY <1>6

LEMMA BranchesTypes == \A p \in Branches : ProgramOK(p, {"branch"})
<1>1. ASSUME NEW p \in Branches PROVE ProgramOK(p, {"branch"})
  <2> DEFINE code(v) == <<\hFE, v, \hCA, 11, 1, \hDA, 14, 1,
                          \h16, 1, \h76, \h16, 2, \h76, \h16, 3, \h76>>
  <2>1. PICK a \in Operands, v \in Operands :
          p = Program("branch", code(v), Regs(0, 0, 0, a, {}, 0), NoData)
    BY DEF Branches
  <2>2. a \in Byte /\ v \in Byte
    BY OperandsAssumption
  <2>3. code(v) \in ByteCode
    <3>1. {\hFE, \hCA, 11, 1, \hDA, 14, \h16, \h76, 2, 3} \subseteq Byte
      BY DEF Byte
    <3> QED
      BY <2>2, <3>1 DEF ByteCode
  <2>4. RegsOK(0, 0, 0, a, {}, 0)
    BY <2>2, Literals DEF RegsOK
  <2>5. Regs(0, 0, 0, a, {}, 0) \in CpuState
    BY <2>4, RegsTypes
  <2> HIDE DEF code
  <2> QED
    BY <2>1, <2>3, <2>5, ProgramTypes, NoDataTypes
<1> QED
  BY <1>1

LEMMA LoopsTypes == \A p \in Loops : ProgramOK(p, {"loop"})
<1>1. ASSUME NEW p \in Loops PROVE ProgramOK(p, {"loop"})
  <2>1. PICK n \in 0 .. 3 :
          p = Program("loop", <<\h06, n, \h23, \h10, \hFD, \h76>>,
                      Regs(0, 0, 0, 0, {}, 0), NoData)
    BY DEF Loops
  <2>2. <<\h06, n, \h23, \h10, \hFD, \h76>> \in ByteCode
    <3>1. {\h06, n, \h23, \h10, \hFD, \h76} \subseteq Byte
      BY DEF Byte
    <3> QED
      BY <3>1 DEF ByteCode
  <2>3. RegsOK(0, 0, 0, 0, {}, 0)
    BY Literals DEF RegsOK
  <2>4. Regs(0, 0, 0, 0, {}, 0) \in CpuState
    BY <2>3, RegsTypes
  <2> QED
    BY <2>1, <2>2, <2>4, ProgramTypes, NoDataTypes
<1> QED
  BY <1>1

LEMMA BlocksTypes == \A p \in Blocks : ProgramOK(p, {"move", "search", "port"})
<1> DEFINE kinds == {"move", "search", "port"}
           here == Data .. Data + 3
           data == Bytes(Data, Cells)
<1>1. MemoryOK(data)
  <2>1. Cells \in ByteCode
    BY DEF Cells, ByteCode, Byte
  <2> QED
    BY <2>1, BytesTypes
<1>2. here \subseteq Word
  BY DEF Data, Word
<1>3. ASSUME NEW op \in {\hB0, \hB8, \hB1, \hB9, \hB2, \hBA, \hB3, \hBB}
      PROVE  <<\hED, op, \h76>> \in ByteCode
  <2>1. \hED \in Byte /\ op \in Byte /\ \h76 \in Byte
    BY DEF Byte
  <2> QED
    BY <2>1 DEF ByteCode
<1>4. ASSUME NEW n \in 1 .. 4, NEW d \in here, NEW s \in here, NEW a \in 1 .. 4
      PROVE  /\ Regs(n, d, s, 0, {}, 0) \in CpuState
             /\ Regs(n, 0, s, a, {}, 0) \in CpuState
             /\ Regs(\h100 * n + 7, 0, s, 0, {}, 0) \in CpuState
  <2>0. d \in Word /\ s \in Word
    BY <1>2
  <2>1. n \in Word /\ d \in Word /\ s \in Word /\ a \in Byte /\ \h100 * n + 7 \in Word
    <3> HIDE DEF here
    <3> QED
      BY <2>0 DEF Word, Byte
  <2>2. RegsOK(n, d, s, 0, {}, 0) /\ RegsOK(n, 0, s, a, {}, 0)
        /\ RegsOK(\h100 * n + 7, 0, s, 0, {}, 0)
    BY <2>1, Literals DEF RegsOK
  <2> QED
    BY <2>2, RegsTypes
<1>5. ASSUME NEW p \in Blocks
      PROVE  \/ \E op \in {\hB0, \hB8}, n \in 1 .. 3, d \in here, s \in here :
                  p = Program("move", <<\hED, op, \h76>>, Regs(n, d, s, 0, {}, 0), data)
             \/ \E op \in {\hB1, \hB9}, n \in 1 .. 4, s \in here, a \in 1 .. 4 :
                  p = Program("search", <<\hED, op, \h76>>, Regs(n, 0, s, a, {}, 0), data)
             \/ \E op \in {\hB2, \hBA, \hB3, \hBB}, n \in 1 .. 3, s \in here :
                  p = Program("port", <<\hED, op, \h76>>,
                              Regs(\h100 * n + 7, 0, s, 0, {}, 0), data)
  BY <1>5 DEF Blocks
<1>6. Data \in here /\ 1 .. 3 \subseteq 1 .. 4
  BY DEF Data
<1>0. "move" \in kinds /\ "search" \in kinds /\ "port" \in kinds
  OBVIOUS
<1> HIDE DEF here, data, kinds
<1>7. ASSUME NEW p \in Blocks,
             NEW op \in {\hB0, \hB8}, NEW n \in 1 .. 3, NEW d \in here, NEW s \in here,
             p = Program("move", <<\hED, op, \h76>>, Regs(n, d, s, 0, {}, 0), data)
      PROVE  ProgramOK(p, kinds)
  <2>1. Regs(n, d, s, 0, {}, 0) \in CpuState
    BY <1>4, <1>6
  <2> QED
    BY <1>0, <1>1, <1>3, <1>7, <2>1, ProgramTypes
<1>8. ASSUME NEW p \in Blocks,
             NEW op \in {\hB1, \hB9}, NEW n \in 1 .. 4, NEW s \in here, NEW a \in 1 .. 4,
             p = Program("search", <<\hED, op, \h76>>, Regs(n, 0, s, a, {}, 0), data)
      PROVE  ProgramOK(p, kinds)
  <2>1. Regs(n, 0, s, a, {}, 0) \in CpuState
    BY <1>4
  <2> QED
    BY <1>0, <1>1, <1>3, <1>8, <2>1, ProgramTypes
<1>9. ASSUME NEW p \in Blocks,
             NEW op \in {\hB2, \hBA, \hB3, \hBB}, NEW n \in 1 .. 3, NEW s \in here,
             p = Program("port", <<\hED, op, \h76>>,
                         Regs(\h100 * n + 7, 0, s, 0, {}, 0), data)
      PROVE  ProgramOK(p, kinds)
  <2>1. Regs(\h100 * n + 7, 0, s, 0, {}, 0) \in CpuState
    BY <1>4, <1>6
  <2> QED
    BY <1>0, <1>1, <1>3, <1>9, <2>1, ProgramTypes
<1> QED
  BY <1>5, <1>7, <1>8, <1>9 DEF kinds

LEMMA StacksTypes == \A p \in Stacks : ProgramOK(p, {"stack"})
<1> DEFINE codes == {<<\hC5 + 16 * q, \hC1 + 16 * p, \h76>> : q \in 0 .. 3, p \in 0 .. 3}
               \cup {<<\hE3, \hE3, \h76>>, <<\hDD, \hE5, \hFD, \hE1, \h76>>,
                     <<\hCD, 4, 1, \h76, \hC9>>}
<1>1. ASSUME NEW c \in codes PROVE c \in ByteCode
  <2>1. {\h76, \hE3, \hDD, \hE5, \hFD, \hE1, \hCD, 4, 1, \hC9} \subseteq Byte
    BY DEF Byte
  <2>2. \A q \in 0 .. 3 : \hC5 + 16 * q \in Byte /\ \hC1 + 16 * q \in Byte
    BY DEF Byte
  <2>3. \A a \in Byte, b \in Byte, d \in Byte : <<a, b, d>> \in ByteCode
    BY DEF ByteCode
  <2>4. <<\hDD, \hE5, \hFD, \hE1, \h76>> \in ByteCode
    BY <2>1 DEF ByteCode
  <2>5. <<\hCD, 4, 1, \h76, \hC9>> \in ByteCode
    BY <2>1 DEF ByteCode
  <2> QED
    BY <2>1, <2>2, <2>3, <2>4, <2>5
<1>2. Stacks = {Program("stack", c, Regs(\h1234, \h5678, \h9ABC, \hDE, f, sp), NoData) :
                  c \in codes, f \in {{}, Bit}, sp \in {0, 1, 2, Data}}
  BY DEF Stacks
<1> HIDE DEF codes
<1>3. ASSUME NEW f \in {{}, Bit}, NEW sp \in {0, 1, 2, Data}
      PROVE  Regs(\h1234, \h5678, \h9ABC, \hDE, f, sp) \in CpuState
  <2>1. RegsOK(\h1234, \h5678, \h9ABC, \hDE, f, sp)
    BY DEF RegsOK, Data, Word, Byte
  <2> QED
    BY <2>1, RegsTypes
<1> QED
  BY <1>1, <1>2, <1>3, ProgramTypes, NoDataTypes

LEMMA PairsProgramsTypes == \A p \in Pairs : ProgramOK(p, {"pair"})
<1> DEFINE regs(n, v, f) ==
             LET w == \h101 * v
             IN  Regs(w, w, IF n \in {H, L} THEN w ELSE Data + 16, v, f, 0)
           two(n) == {<<\hCB, n, \hCB, \h08 + n, \h76>>,
                      <<\hCB, \h10 + n, \hCB, \h18 + n, \h76>>}
                \cup {<<\hCB, o + 8 * y + n, \hCB, \h40 + 8 * x + n, \h76>> :
                        o \in {\h80, \hC0}, y \in {0, 3, 7}, x \in {0, 3, 7}}
           other == {<<\hDD, \hCB, 0, c[2], \hDD, \hCB, 0, c[4], \h76>> : c \in two(M)}
               \cup {<<\hED, \h6F, \hED, \h67, \h76>>}
           codes == (UNION {two(n) : n \in 0 .. 7}) \cup other
           flags == {{}, {CARRY}}
           Five(c) == \E a \in Byte, b \in Byte, d \in Byte, e \in Byte, g \in Byte :
                        c = <<a, b, d, e, g>>
<1>0. {\hCB, \h76, \hDD, 0, \hED, \h6F, \h67} \subseteq Byte
  BY DEF Byte
<1>1. ASSUME NEW n \in 0 .. 7, NEW c \in two(n) PROVE Five(c)
  <2>1. /\ n \in Byte /\ \h08 + n \in Byte /\ \h10 + n \in Byte /\ \h18 + n \in Byte
    BY DEF Byte
  <2>2. \A o \in {\h80, \hC0}, y \in {0, 3, 7}, x \in {0, 3, 7} :
          o + 8 * y + n \in Byte /\ \h40 + 8 * x + n \in Byte
    BY DEF Byte
  <2>3. \/ c = <<\hCB, n, \hCB, \h08 + n, \h76>>
        \/ c = <<\hCB, \h10 + n, \hCB, \h18 + n, \h76>>
        \/ \E o \in {\h80, \hC0}, y \in {0, 3, 7}, x \in {0, 3, 7} :
             c = <<\hCB, o + 8 * y + n, \hCB, \h40 + 8 * x + n, \h76>>
    BY <1>1
  <2>4. \E b \in Byte, e \in Byte : c = <<\hCB, b, \hCB, e, \h76>>
    <3> HIDE DEF two
    <3> QED
      BY <2>1, <2>2, <2>3
  <2> QED
    BY <1>0, <2>4
<1>2. ASSUME NEW c, Five(c) PROVE c \in ByteCode /\ c[2] \in Byte /\ c[4] \in Byte
  BY <1>2 DEF ByteCode
<1>3. M \in 0 .. 7
  BY DEF M
<1> HIDE DEF two
<1>4. ASSUME NEW c \in other PROVE c \in ByteCode
  <2>1. \A a \in Byte, b \in Byte :
          <<\hDD, \hCB, 0, a, \hDD, \hCB, 0, b, \h76>> \in ByteCode
    BY <1>0 DEF ByteCode
  <2>2. Five(<<\hED, \h6F, \hED, \h67, \h76>>)
    BY <1>0
  <2> HIDE DEF Five
  <2>3. \A d \in two(M) : d[2] \in Byte /\ d[4] \in Byte
    BY <1>1, <1>2, <1>3
  <2> QED
    BY <1>2, <2>1, <2>2, <2>3
<1> HIDE DEF other, Five
<1>5. ASSUME NEW c \in codes PROVE c \in ByteCode
  <2>1. CASE c \in other
    BY <1>4, <2>1
  <2>2. CASE c \notin other
    <3>1. PICK n \in 0 .. 7 : c \in two(n)
      <4>1. c \in UNION {two(n) : n \in 0 .. 7}
        BY <2>2
      <4>2. PICK t \in {two(n) : n \in 0 .. 7} : c \in t
        BY <4>1, Zenon
      <4>3. PICK n \in 0 .. 7 : t = two(n)
        BY <4>2
      <4> QED
        BY <4>2, <4>3
    <3>2. Five(c)
      BY <1>1, <3>1
    <3> QED
      BY <1>2, <3>2
  <2> QED
    BY <2>1, <2>2
<1>6. ASSUME NEW n, NEW v \in Byte, NEW f \in SUBSET Bit
      PROVE  regs(n, v, f) \in CpuState
  <2>1. \h101 * v \in Word /\ Data + 16 \in Word /\ 0 \in Word
    BY DEF Word, Byte, Data
  <2>2. RegsOK(\h101 * v, \h101 * v, IF n \in {H, L} THEN \h101 * v ELSE Data + 16, v, f, 0)
    BY <2>1 DEF RegsOK
  <2> QED
    BY <2>2, RegsTypes
<1>7. ASSUME NEW v \in Byte PROVE MemoryOK(Bytes(Data + 16, <<v>>))
  <2>1. <<v>> \in ByteCode
    BY DEF ByteCode
  <2> QED
    BY <2>1, BytesTypes
<1> DEFINE program(c, v, f) ==
             Program("pair", c, regs(Place(c), v, f), Bytes(Data + 16, <<v>>))
<1>8. Pairs = {program(c, v, f) : c \in codes, v \in Operands, f \in flags}
  BY DEF Pairs, two, other
<1>9. flags \subseteq SUBSET Bit
  BY Literals
<1> HIDE DEF codes, regs, flags
<1>10. ASSUME NEW c \in codes, NEW v \in Operands, NEW f \in flags
       PROVE  ProgramOK(program(c, v, f), {"pair"})
  <2>1. c \in ByteCode /\ regs(Place(c), v, f) \in CpuState
        /\ MemoryOK(Bytes(Data + 16, <<v>>))
    BY <1>5, <1>6, <1>7, <1>9, OperandsAssumption
  <2> QED
    BY <2>1, ProgramTypes
<1> HIDE DEF program
<1>11. ASSUME NEW p \in Pairs PROVE ProgramOK(p, {"pair"})
  <2>1. PICK c \in codes, v \in Operands, f \in flags : p = program(c, v, f)
    BY <1>8
  <2> QED
    BY <1>10, <2>1
<1> QED
  BY <1>11

LEMMA InitIsTyped == Init => CpuOK
<1> SUFFICES ASSUME Init PROVE CpuOK
  OBVIOUS
<1>1. PICK kinds : ProgramOK(prog, kinds)
  BY StepsTypes, DecimalsTypes, SumsTypes, BranchesTypes, LoopsTypes, BlocksTypes,
     StacksTypes, PairsProgramsTypes DEF Init, Programs
<1>2. MemoryOK(Bytes(Org, prog.code))
  BY <1>1, BytesTypes DEF ProgramOK
<1>3. MemoryOK(Loaded(Bytes(Org, prog.code), prog.data))
  BY <1>1, <1>2, LoadedTypes DEF ProgramOK
<1> QED
  BY <1>1, <1>3 DEF Init, CpuOK, ProgramOK

(* From whatever registers and whatever bytes in memory the emulator goes   *)
(* on - a program that overwrites itself, data run as code, opcodes that   *)
(* none of the switches has - no instruction takes a register, a flag, the *)
(* interrupt state or a byte of memory out of its range, whatever a port   *)
(* answers: every sum is cut to 8 or 16 bits before it is stored and every *)
(* address wraps (z80.c:289-1992).                                         *)
THEOREM AnyCodeKeepsTypes == CpuOK /\ [][Next]_<<vars, prog>> => []CpuTypeOK
<1>1. CpuOK /\ [Next]_<<vars, prog>> => CpuOK'
  BY StepKeepsTypes
<1>2. CpuOK => CpuTypeOK
  BY CpuIsTyped
<1> QED
  BY <1>1, <1>2, PTL

(* The programs of Z80Programs start from such a state, for every set of   *)
(* operands (z80.c:2181-2236 for the registers, 289-1992 for the steps).   *)
THEOREM InstructionsKeepTypes == Spec => []CpuTypeOK
<1>1. Init => CpuOK
  BY InitIsTyped
<1> QED
  BY <1>1, AnyCodeKeepsTypes, PTL DEF Spec
=============================================================================
