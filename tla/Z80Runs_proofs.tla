--------------------------- MODULE Z80Runs_proofs ---------------------------
(***************************************************************************)
(* Programs of Z80Programs, run instruction by instruction for every set   *)
(* of operands: what they leave is plain arithmetic.                       *)
(***************************************************************************)
EXTENDS Z80Programs_proofs

-----------------------------------------------------------------------------
(* Running a program: what is fetched, and which action an opcode leads to. *)
LEMMA Kinds ==
  ASSUME prog \in Programs
  PROVE  /\ prog.kind = "branch" => prog \in Branches
         /\ prog.kind = "sum" => prog \in Sums
         /\ prog.kind = "bcd" => prog \in Decimals
<1>1. /\ prog \in Steps => prog.kind = "step"
      /\ prog \in Decimals => prog.kind = "bcd"
      /\ prog \in Sums => prog.kind = "sum"
      /\ prog \in Branches => prog.kind = "branch"
      /\ prog \in Loops => prog.kind = "loop"
      /\ prog \in Blocks => prog.kind \in {"move", "search", "port"}
      /\ prog \in Stacks => prog.kind = "stack"
      /\ prog \in Pairs => prog.kind = "pair"
  BY StepsTypes, DecimalsTypes, SumsTypes, BranchesTypes, LoopsTypes, BlocksTypes,
     StacksTypes, PairsProgramsTypes DEF ProgramOK
<1> QED
  BY <1>1 DEF Programs

LEMMA Fetched ==
  ASSUME NEW code \in ByteCode, mem = Loaded(Bytes(Org, code), NoData),
         NEW k \in 1 .. Len(code)
  PROVE  Peek(Org + k - 1) = code[k]
<1> DEFINE a == Org + k - 1
<1>1. Len(code) \in Nat /\ Len(code) <= 32 /\ DOMAIN code = 1 .. Len(code)
  BY DEF ByteCode
<1>2. a \in Int /\ a >= 256 /\ a < 65536 /\ a - Org + 1 = k
  BY <1>1 DEF Org
<1>3. Wrap(a) = a
  BY <1>2 DEF Wrap
<1>4. a \in DOMAIN Bytes(Org, code) /\ Bytes(Org, code)[a] = code[k]
  BY <1>1, <1>2 DEF Bytes
<1>5. a \in DOMAIN mem /\ mem[a] = code[k]
  <2> HIDE DEF a
  <2> QED
    BY <1>4 DEF Loaded
<1> HIDE DEF a
<1>6. Peek(a) = code[k]
  BY <1>3, <1>5 DEF Peek
<1> QED
  BY <1>6 DEF a

LEMMA MainIns ==
  ASSUME CpuOK, Peek(z.pc) \notin {\hCB, \hED, \hDD, \hFD}
  PROVE  Ins.set = "main" /\ Ins.t = Peek(z.pc) /\ Ins.at = 1
<1> DEFINE b(n) == Peek(z.pc + n)
<1>1. z.pc + 0 = z.pc
  BY FieldTypes DEF CpuOK, Word
<1>2. b(0) \notin {\hCB, \hED, \hDD, \hFD} /\ b(0) = Peek(z.pc)
  BY <1>1
<1>3. Ins = CASE b(0) = \hCB -> [set |-> "bit", t |-> b(1), at |-> 2]
              [] b(0) = \hED -> [set |-> "ext", t |-> b(1), at |-> 2]
              [] b(0) \in {\hDD, \hFD} /\ b(1) # \hCB -> [set |-> "ireg", t |-> b(1), at |-> 2]
              [] b(0) \in {\hDD, \hFD} /\ b(1) = \hCB -> [set |-> "iregbit", t |-> b(3), at |-> 4]
              [] OTHER -> [set |-> "main", t |-> b(0), at |-> 1]
  BY DEF Ins
<1> HIDE DEF b
<1>4. Ins = [set |-> "main", t |-> b(0), at |-> 1]
  BY <1>2, <1>3
<1> QED
  BY <1>2, <1>4

(* The opcodes that lead to each action without a prefix. *)
LEMMA Guards ==
  ASSUME NEW i
  PROVE  /\ LoadRegister(i) => i.t \in \h40 .. \h7F \ {\h76}
         /\ LoadImmediate(i) => X(i.t) = 0 /\ Z(i.t) = 6
         /\ LoadAccumulator(i) => i.t \in {\h0A, \h1A, \h3A, \h02, \h12, \h32}
         /\ LoadPair(i) => i.t \in {\h01, \h11, \h21, \h31}
         /\ LoadHL(i) => i.t \in {\h2A, \h22, \hF9}
         /\ PushPair(i) => i.t \in {\hC5, \hD5, \hE5, \hF5}
         /\ PopPair(i) => i.t \in {\hC1, \hD1, \hE1, \hF1}
         /\ Exchange(i) => i.t \in {\h08, \hEB, \hD9}
         /\ ExchangeTop(i) => i.t = \hE3
         /\ Arithmetic(i) => AluGroup(i) /\ Y(i.t) \in 0 .. 3
         /\ Logic(i) => AluGroup(i) /\ Y(i.t) \in 4 .. 6
         /\ Compare(i) => AluGroup(i) /\ Y(i.t) = 7
         /\ IncDec(i) => X(i.t) = 0 /\ Z(i.t) \in {4, 5}
         /\ Adjust(i) => i.t \in {\h27, \h2F}
         /\ CarryFlag(i) => i.t \in {\h3F, \h37}
         /\ Control(i) => i.t \in {\h00, \h76, \hF3, \hFB}
         /\ AddHL(i) => i.t \in {\h09, \h19, \h29, \h39}
         /\ IncDecPair(i) => X(i.t) = 0 /\ Z(i.t) = 3
         /\ RotateA(i) => i.t \in {\h07, \h0F, \h17, \h1F}
         /\ Jump(i) => i.t \in {\hC3, \hE9} \/ (X(i.t) = 3 /\ Z(i.t) = 2)
         /\ JumpRelative(i) => i.t \in {\h18, \h20, \h28, \h30, \h38}
         /\ Djnz(i) => i.t = \h10
         /\ Call(i) => i.t = \hCD \/ (X(i.t) = 3 /\ Z(i.t) = 4)
         /\ Return(i) => i.t = \hC9 \/ (X(i.t) = 3 /\ Z(i.t) = 0)
         /\ Restart(i) => X(i.t) = 3 /\ Z(i.t) = 7
         /\ PortA(i) => i.t \in {\hDB, \hD3}
<1>1. /\ LoadRegister(i) => i.t \in \h40 .. \h7F \ {\h76}
      /\ LoadImmediate(i) => X(i.t) = 0 /\ Z(i.t) = 6
      /\ LoadAccumulator(i) => i.t \in {\h0A, \h1A, \h3A, \h02, \h12, \h32}
      /\ LoadPair(i) => i.t \in {\h01, \h11, \h21, \h31}
      /\ LoadHL(i) => i.t \in {\h2A, \h22, \hF9}
  BY DEF LoadRegister, LoadImmediate, LoadAccumulator, LoadPair, LoadHL
<1>2. /\ PushPair(i) => i.t \in {\hC5, \hD5, \hE5, \hF5}
      /\ PopPair(i) => i.t \in {\hC1, \hD1, \hE1, \hF1}
      /\ Exchange(i) => i.t \in {\h08, \hEB, \hD9}
      /\ ExchangeTop(i) => i.t = \hE3
  BY DEF PushPair, PopPair, Exchange, ExchangeTop
<1>3. /\ Arithmetic(i) => AluGroup(i) /\ Y(i.t) \in 0 .. 3
      /\ Logic(i) => AluGroup(i) /\ Y(i.t) \in 4 .. 6
      /\ Compare(i) => AluGroup(i) /\ Y(i.t) = 7
      /\ IncDec(i) => X(i.t) = 0 /\ Z(i.t) \in {4, 5}
  BY DEF Arithmetic, Logic, Compare, IncDec
<1>4. /\ Adjust(i) => i.t \in {\h27, \h2F}
      /\ CarryFlag(i) => i.t \in {\h3F, \h37}
      /\ Control(i) => i.t \in {\h00, \h76, \hF3, \hFB}
      /\ AddHL(i) => i.t \in {\h09, \h19, \h29, \h39}
      /\ IncDecPair(i) => X(i.t) = 0 /\ Z(i.t) = 3
      /\ RotateA(i) => i.t \in {\h07, \h0F, \h17, \h1F}
  BY DEF Adjust, CarryFlag, Control, AddHL, IncDecPair, RotateA
<1>5. /\ Jump(i) => i.t \in {\hC3, \hE9} \/ (X(i.t) = 3 /\ Z(i.t) = 2)
      /\ JumpRelative(i) => i.t \in {\h18, \h20, \h28, \h30, \h38}
      /\ Djnz(i) => i.t = \h10
  BY DEF Jump, JumpRelative, Djnz
<1>6. /\ Call(i) => i.t = \hCD \/ (X(i.t) = 3 /\ Z(i.t) = 4)
      /\ Return(i) => i.t = \hC9 \/ (X(i.t) = 3 /\ Z(i.t) = 0)
      /\ Restart(i) => X(i.t) = 3 /\ Z(i.t) = 7
      /\ PortA(i) => i.t \in {\hDB, \hD3}
  BY DEF Call, Return, Restart, PortA
<1> QED
  BY <1>1, <1>2, <1>3, <1>4, <1>5, <1>6

LEMMA OnlyMain ==
  ASSUME NEW i, i.set = "main",
         \/ MainInstruction(i) \/ BitInstruction(i) \/ IregInstruction(i)
         \/ IregBitInstruction(i) \/ ExtInstruction(i) \/ Undefined(i)
  PROVE  MainInstruction(i)
<1>1. InSwitch(i)
  BY DEF InSwitch
<1> QED
  BY <1>1 DEF BitInstruction, IregInstruction, IregBitInstruction, ExtInstruction, Undefined

(* The opcodes of the programs that are proved about, and no other action. *)
LEMMA Selects ==
  ASSUME NEW i, MainInstruction(i)
  PROVE  /\ i.t = \hFE => Compare(i)
         /\ i.t \in {\hCA, \hDA} => Jump(i)
         /\ i.t = \h16 => LoadImmediate(i)
         /\ i.t = \h76 => Control(i)
         /\ i.t = \h27 => Adjust(i)
         /\ i.t = \h19 => AddHL(i)
         /\ i.t \in {\hC6, \hCE, \hD6, \hDE, \h83, \h93, \h8A, \h9A} => Arithmetic(i)
         /\ i.t \in {\h7D, \h6F, \h7C, \h67} => LoadRegister(i)
<1>1. CASE i.t = \hFE
  <2>1. X(i.t) = 3 /\ Y(i.t) = 7 /\ Z(i.t) = 6
    BY <1>1 DEF X, Y, Z
  <2> QED
    BY <1>1, <2>1, Guards DEF MainInstruction
<1>2. CASE i.t \in {\hCA, \hDA}
  <2>1. X(i.t) = 3 /\ Z(i.t) = 2
    BY <1>2 DEF X, Z
  <2>2. ~AluGroup(i)
    BY <2>1 DEF AluGroup
  <2> QED
    BY <1>2, <2>1, <2>2, Guards DEF MainInstruction
<1>3. CASE i.t = \h16
  <2>1. X(i.t) = 0 /\ Z(i.t) = 6
    BY <1>3 DEF X, Z
  <2>2. ~AluGroup(i)
    BY <2>1 DEF AluGroup
  <2> QED
    BY <1>3, <2>1, <2>2, Guards DEF MainInstruction
<1>4. CASE i.t = \h76
  <2>1. X(i.t) = 1 /\ Z(i.t) = 6
    BY <1>4 DEF X, Z
  <2>2. ~AluGroup(i)
    BY <2>1 DEF AluGroup
  <2> QED
    BY <1>4, <2>1, <2>2, Guards DEF MainInstruction
<1>5. CASE i.t = \h27
  <2>1. X(i.t) = 0 /\ Z(i.t) = 7
    BY <1>5 DEF X, Z
  <2>2. ~AluGroup(i)
    BY <2>1 DEF AluGroup
  <2> QED
    BY <1>5, <2>1, <2>2, Guards DEF MainInstruction
<1>6. CASE i.t = \h19
  <2>1. X(i.t) = 0 /\ Z(i.t) = 1
    BY <1>6 DEF X, Z
  <2>2. ~AluGroup(i)
    BY <2>1 DEF AluGroup
  <2> QED
    BY <1>6, <2>1, <2>2, Guards DEF MainInstruction
<1>7. CASE i.t \in {\hC6, \hCE, \hD6, \hDE, \h83, \h93, \h8A, \h9A}
  <2>1. (X(i.t) = 3 /\ Z(i.t) = 6) \/ X(i.t) = 2
    BY <1>7 DEF X, Z
  <2>2. Y(i.t) \in 0 .. 3
    BY <1>7 DEF Y
  <2> QED
    BY <1>7, <2>1, <2>2, Guards DEF MainInstruction
<1>8. CASE i.t \in {\h7D, \h6F, \h7C, \h67}
  <2>1. X(i.t) = 1
    BY <1>8 DEF X
  <2>2. ~AluGroup(i)
    BY <2>1 DEF AluGroup
  <2> QED
    BY <1>8, <2>1, <2>2, Guards DEF MainInstruction
<1> QED
  BY <1>1, <1>2, <1>3, <1>4, <1>5, <1>6, <1>7, <1>8

-----------------------------------------------------------------------------
(* What the instructions of the programs do, as far as the programs are    *)
(* concerned.                                                              *)

\* The program goes on at address a, with its memory as it was.
GoesOn(a) == z'.pc = a /\ z'.st = z.st /\ mem' = mem

LEMMA PastIs ==
  ASSUME CpuOK, NEW i, NEW n
  PROVE  Past(i, n) = [z EXCEPT !.pc = Wrap(z.pc + i.at + n)]
BY DEF Past, CpuOK, CpuState

LEMMA CompareFlags ==
  ASSUME NEW f, NEW a \in Byte, NEW b \in Byte,
         NEW n, n = Arith8(a, b, FALSE, TRUE, f)
  PROVE  /\ ZERO \in n.f <=> a = b
         /\ CARRY \in n.f <=> a < b
<1> DEFINE tt == a - b
           r == tt % \h100
<1>1. r = 0 <=> a = b
  BY DEF Byte
<1>2. tt \notin Byte <=> a < b
  BY DEF Byte
<1>3. tt = a - b - 0
  BY DEF Byte
<1> HIDE DEF tt
<1>4. ZERO \in n.f <=> r = 0
  BY <1>3 DEF Arith8, SignZero, When, ZERO, SIGN, CARRY, NEGATIVE, HALF, OVERFLOW, PARITY
<1>5. CARRY \in n.f <=> tt \notin Byte
  BY <1>3 DEF Arith8, SignZero, When, ZERO, SIGN, CARRY, NEGATIVE, HALF, OVERFLOW, PARITY
<1> QED
  BY <1>1, <1>2, <1>4, <1>5

LEMMA CompareRuns ==
  ASSUME CpuOK, NEW i, InsOK(i), i.t = \hFE, i.at = 1, Compare(i)
  PROVE  /\ GoesOn(Wrap(z.pc + 2)) /\ z'.r = z.r
         /\ ZERO \in z'.f <=> z.r[A] = Peek(z.pc + 1)
         /\ CARRY \in z'.f <=> z.r[A] < Peek(z.pc + 1)
<1> DEFINE a == z.r[A]
           b == Operand(i)
           n == Arith8(a, b, FALSE, TRUE, z.f)
<1>1. X(i.t) # 2
  BY DEF X
<1>2. b = Peek(z.pc + 1) /\ PastAlu(i) = Past(i, 1)
  BY <1>1 DEF Operand, PastAlu, Byte1
<1>3. z' = [PastAlu(i) EXCEPT !.f = n.f] /\ mem' = mem
  BY DEF Compare
<1>4. a \in Byte /\ b \in Byte
  BY AluTypes
<1>5. a = z.r[A]
  OBVIOUS
<1>6. n = Arith8(a, b, FALSE, TRUE, z.f)
  OBVIOUS
<1> HIDE DEF a, b, n
<1>7. /\ ZERO \in n.f <=> a = b
      /\ CARRY \in n.f <=> a < b
  <2> DEFINE f == z.f
  <2>1. n = Arith8(a, b, FALSE, TRUE, f)
    BY <1>6
  <2>2. a \in Byte /\ b \in Byte
    BY <1>4
  <2> HIDE DEF f
  <2>3. ZERO \in n.f <=> a = b
    BY ONLY <2>1, <2>2, CompareFlags
  <2>4. CARRY \in n.f <=> a < b
    BY ONLY <2>1, <2>2, CompareFlags DEF Byte
  <2> QED
    BY <2>3, <2>4
<1>8. Past(i, 1) = [z EXCEPT !.pc = Wrap(z.pc + 1 + 1)]
  BY PastIs
<1>9. z.pc + 1 + 1 = z.pc + 2
  BY FieldTypes DEF CpuOK, Word
<1>10. z'.pc = Wrap(z.pc + 2) /\ z'.r = z.r /\ z'.st = z.st /\ z'.f = n.f
  BY <1>2, <1>3, <1>8, <1>9 DEF CpuOK, CpuState
<1> QED
  BY <1>2, <1>3, <1>7, <1>10, <1>5 DEF GoesOn

LEMMA JumpRuns ==
  ASSUME CpuOK, NEW i, InsOK(i), i.at = 1, Jump(i),
         NEW flag, \/ i.t = \hCA /\ flag = ZERO
                   \/ i.t = \hDA /\ flag = CARRY
  PROVE  /\ GoesOn(IF flag \in z.f THEN PeekWord(z.pc + 1) ELSE Wrap(z.pc + 3))
         /\ z'.r = z.r /\ z'.f = z.f
<1>1. Holds(Y(i.t)) <=> flag \in z.f
  <2>1. CASE i.t = \hCA /\ flag = ZERO
    <3>1. Y(i.t) = 1
      BY <2>1 DEF Y
    <3>2. 1 \div 2 = 0 /\ 1 % 2 = 1
      OBVIOUS
    <3>3. Holds(1) <=> (ZERO \in z.f) = TRUE
      <4>1. <<ZERO, CARRY, PARITY, SIGN>>[1] = ZERO /\ 0 + 1 = 1
        OBVIOUS
      <4>2. <<ZERO, CARRY, PARITY, SIGN>>[(1 \div 2) + 1] = ZERO
        BY <3>2, <4>1
      <4>3. (1 % 2 = 1) = TRUE
        BY <3>2
      <4> QED
        BY <4>2, <4>3, Zenon DEF Holds
    <3> QED
      BY <2>1, <3>1, <3>3
  <2>2. CASE i.t = \hDA /\ flag = CARRY
    <3>1. Y(i.t) = 3
      BY <2>2 DEF Y
    <3>2. 3 \div 2 = 1 /\ 3 % 2 = 1
      OBVIOUS
    <3>3. Holds(3) <=> (CARRY \in z.f) = TRUE
      <4>1. <<ZERO, CARRY, PARITY, SIGN>>[2] = CARRY /\ 1 + 1 = 2
        OBVIOUS
      <4>2. <<ZERO, CARRY, PARITY, SIGN>>[(3 \div 2) + 1] = CARRY
        BY <3>2, <4>1
      <4>3. (3 % 2 = 1) = TRUE
        BY <3>2
      <4> QED
        BY <4>2, <4>3, Zenon DEF Holds
    <3> QED
      BY <2>2, <3>1, <3>3
  <2> QED
    BY <2>1, <2>2
<1>2. Past(i, 2) = [z EXCEPT !.pc = Wrap(z.pc + 1 + 2)] /\ Word1(i) = PeekWord(z.pc + 1)
  BY PastIs DEF Word1
<1>3. z.pc + 1 + 2 = z.pc + 3
  BY FieldTypes DEF CpuOK, Word
<1>4. /\ z' = IF Holds(Y(i.t)) THEN [z EXCEPT !.pc = Word1(i)] ELSE Past(i, 2)
      /\ mem' = mem
  BY DEF Jump
<1> QED
  BY <1>1, <1>2, <1>3, <1>4 DEF GoesOn, CpuOK, CpuState

LEMMA ImmediateRuns ==
  ASSUME CpuOK, NEW i, InsOK(i), i.t = \h16, i.at = 1, LoadImmediate(i)
  PROVE  /\ GoesOn(Wrap(z.pc + 2)) /\ z'.f = z.f
         /\ z'.r = [z.r EXCEPT ![D] = Peek(z.pc + 1)]
<1>1. Y(i.t) = D /\ D # M
  BY DEF Y, D, M
<1>2. Past(i, 1) = [z EXCEPT !.pc = Wrap(z.pc + 1 + 1)] /\ Byte1(i) = Peek(z.pc + 1)
  BY PastIs DEF Byte1
<1>3. z.pc + 1 + 1 = z.pc + 2
  BY FieldTypes DEF CpuOK, Word
<1>4. z' = [Past(i, 1) EXCEPT !.r[D] = Byte1(i)] /\ mem' = mem
  BY <1>1 DEF LoadImmediate, Put
<1> QED
  BY <1>2, <1>3, <1>4 DEF GoesOn, CpuOK, CpuState

LEMMA HaltRuns ==
  ASSUME CpuOK, NEW i, InsOK(i), i.t = \h76, i.at = 1, Control(i)
  PROVE  z'.st = "halt" /\ z'.r = z.r /\ z'.f = z.f /\ z'.pc = Wrap(z.pc + 1) /\ mem' = mem
<1>1. Past(i, 0) = [z EXCEPT !.pc = Wrap(z.pc + 1 + 0)]
  BY PastIs
<1>2. z.pc + 1 + 0 = z.pc + 1
  BY FieldTypes DEF CpuOK, Word
<1>3. z' = [Past(i, 0) EXCEPT !.st = "halt"] /\ mem' = mem
  BY DEF Control
<1> QED
  BY <1>1, <1>2, <1>3 DEF CpuOK, CpuState

-----------------------------------------------------------------------------
(* The comparing programs, by where they have come to. *)
BranchCode(v) == <<\hFE, v, \hCA, 11, 1, \hDA, 14, 1,
                   \h16, 1, \h76, \h16, 2, \h76, \h16, 3, \h76>>

\* The flags tell what cp found.
Flagged(a, v) == (ZERO \in z.f <=> a = v) /\ (CARRY \in z.f <=> a < v)

Compared(a, v) == IF a > v THEN 1 ELSE IF a = v THEN 2 ELSE 3

BranchAt(a, v) ==
  \/ z.st = "run" /\ z.pc = 256
  \/ z.st = "run" /\ z.pc = 258 /\ Flagged(a, v)
  \/ z.st = "run" /\ z.pc = 261 /\ Flagged(a, v) /\ a # v
  \/ z.st = "run" /\ z.pc \in {264, 266} /\ a > v /\ (z.pc = 266 => z.r[D] = 1)
  \/ z.st = "run" /\ z.pc \in {267, 269} /\ a = v /\ (z.pc = 269 => z.r[D] = 2)
  \/ z.st = "run" /\ z.pc \in {270, 272} /\ a < v /\ (z.pc = 272 => z.r[D] = 3)
  \/ z.st = "halt" /\ z.r[D] = Compared(a, v)

BranchInv ==
  prog.kind = "branch" =>
    \E a \in Operands, v \in Operands :
      /\ prog = Program("branch", BranchCode(v), Regs(0, 0, 0, a, {}, 0), NoData)
      /\ mem = Loaded(Bytes(Org, BranchCode(v)), NoData)
      /\ z.r[A] = a
      /\ BranchAt(a, v)

LEMMA BranchCodeIs ==
  ASSUME NEW v \in Byte
  PROVE  BranchCode(v) \in ByteCode /\ Len(BranchCode(v)) = 17
<1>1. {\hFE, \hCA, 11, 1, \hDA, 14, \h16, \h76, 2, 3} \subseteq Byte
  BY DEF Byte
<1> QED
  BY <1>1 DEF ByteCode, BranchCode

(* The code byte by byte, at its addresses. *)
LEMMA BranchBytes ==
  ASSUME NEW v \in Byte, mem = Loaded(Bytes(Org, BranchCode(v)), NoData)
  PROVE  /\ Peek(256) = \hFE /\ Peek(257) = v
         /\ Peek(258) = \hCA /\ Peek(259) = 11 /\ Peek(260) = 1
         /\ Peek(261) = \hDA /\ Peek(262) = 14 /\ Peek(263) = 1
         /\ Peek(264) = \h16 /\ Peek(265) = 1 /\ Peek(266) = \h76
         /\ Peek(267) = \h16 /\ Peek(268) = 2 /\ Peek(269) = \h76
         /\ Peek(270) = \h16 /\ Peek(271) = 3 /\ Peek(272) = \h76
<1>1. ASSUME NEW k \in 1 .. 17 PROVE Peek(255 + k) = BranchCode(v)[k]
  <2>1. Peek(Org + k - 1) = BranchCode(v)[k]
    BY BranchCodeIs, Fetched
  <2>2. Org + k - 1 = 255 + k
    BY DEF Org
  <2> QED
    BY <2>1, <2>2
<1>2. ASSUME NEW k \in 1 .. 17, NEW a, a = 255 + k PROVE Peek(a) = BranchCode(v)[k]
  BY <1>1, <1>2
<1>3. /\ Peek(256) = BranchCode(v)[1] /\ Peek(257) = BranchCode(v)[2]
      /\ Peek(258) = BranchCode(v)[3] /\ Peek(259) = BranchCode(v)[4]
      /\ Peek(260) = BranchCode(v)[5] /\ Peek(261) = BranchCode(v)[6]
      /\ Peek(262) = BranchCode(v)[7] /\ Peek(263) = BranchCode(v)[8]
  BY <1>2
<1>4. /\ Peek(264) = BranchCode(v)[9] /\ Peek(265) = BranchCode(v)[10]
      /\ Peek(266) = BranchCode(v)[11] /\ Peek(267) = BranchCode(v)[12]
      /\ Peek(268) = BranchCode(v)[13] /\ Peek(269) = BranchCode(v)[14]
      /\ Peek(270) = BranchCode(v)[15] /\ Peek(271) = BranchCode(v)[16]
      /\ Peek(272) = BranchCode(v)[17]
  BY <1>2
<1> QED
  BY <1>3, <1>4 DEF BranchCode

LEMMA BranchStep ==
  ASSUME CpuOK, NEW a \in Byte, NEW v \in Byte,
         mem = Loaded(Bytes(Org, BranchCode(v)), NoData),
         z.r[A] = a, BranchAt(a, v), z.st = "run", Next
  PROVE  mem' = mem /\ z'.r[A] = a /\ BranchAt(a, v)'
<1> DEFINE i == Ins
<1>1. z.pc \in {256, 258, 261, 264, 266, 267, 269, 270, 272}
  BY DEF BranchAt
<1>2. Peek(z.pc) \in {\hFE, \hCA, \hDA, \h16, \h76}
  BY <1>1, BranchBytes
<1>3. i.set = "main" /\ i.t = Peek(z.pc) /\ i.at = 1 /\ InsOK(i)
  BY <1>2, MainIns, InsTypes
<1>4. MainInstruction(i)
  BY <1>3, OnlyMain DEF Next, Execute
<1> HIDE DEF i
<1>5. z.r \in [Reg -> Byte] /\ A \in Reg /\ D \in Reg /\ A # D
  BY DEF CpuOK, CpuState, A, D, Reg
<1>6. \A w \in Word : Wrap(w) = w
  BY DEF Wrap, Word
<1>7. CASE z.pc = 256
  <2>1. Compare(i) /\ i.t = \hFE
    BY <1>3, <1>4, <1>7, BranchBytes, Selects
  <2>2. /\ GoesOn(Wrap(z.pc + 2)) /\ z'.r = z.r
        /\ ZERO \in z'.f <=> a = Peek(z.pc + 1)
        /\ CARRY \in z'.f <=> a < Peek(z.pc + 1)
    BY <1>3, <2>1, CompareRuns
  <2>3. Peek(z.pc + 1) = v /\ Wrap(z.pc + 2) = 258
    BY <1>7, BranchBytes DEF Wrap
  <2> QED
    BY <2>2, <2>3 DEF GoesOn, BranchAt, Flagged
<1>8. CASE z.pc = 258
  <2>1. Jump(i) /\ i.t = \hCA
    BY <1>3, <1>4, <1>8, BranchBytes, Selects
  <2>2. /\ GoesOn(IF ZERO \in z.f THEN PeekWord(z.pc + 1) ELSE Wrap(z.pc + 3))
        /\ z'.r = z.r /\ z'.f = z.f
    BY <1>3, <2>1, JumpRuns
  <2>3. PeekWord(z.pc + 1) = 267 /\ Wrap(z.pc + 3) = 261
    BY <1>8, BranchBytes DEF Wrap, PeekWord
  <2>4. Flagged(a, v)
    BY <1>8 DEF BranchAt
  <2> QED
    BY <2>2, <2>3, <2>4 DEF GoesOn, BranchAt, Flagged
<1>9. CASE z.pc = 261
  <2>1. Jump(i) /\ i.t = \hDA
    BY <1>3, <1>4, <1>9, BranchBytes, Selects
  <2>2. /\ GoesOn(IF CARRY \in z.f THEN PeekWord(z.pc + 1) ELSE Wrap(z.pc + 3))
        /\ z'.r = z.r /\ z'.f = z.f
    BY <1>3, <2>1, JumpRuns
  <2>3. PeekWord(z.pc + 1) = 270 /\ Wrap(z.pc + 3) = 264
    BY <1>9, BranchBytes DEF Wrap, PeekWord
  <2>4. Flagged(a, v) /\ a # v
    BY <1>9 DEF BranchAt
  <2>5. ~(a < v) => a > v
    BY <2>4 DEF Byte
  <2> QED
    BY <2>2, <2>3, <2>4, <2>5 DEF GoesOn, BranchAt, Flagged
<1>10. CASE z.pc \in {264, 267, 270}
  <2>1. LoadImmediate(i) /\ i.t = \h16
    BY <1>3, <1>4, <1>10, BranchBytes, Selects
  <2>2. /\ GoesOn(Wrap(z.pc + 2))
        /\ z'.r = [z.r EXCEPT ![D] = Peek(z.pc + 1)]
    BY <1>3, <2>1, ImmediateRuns
  <2>3. z'.r[A] = a /\ z'.r[D] = Peek(z.pc + 1)
    BY <1>5, <2>2
  <2>4. /\ z.pc = 264 => Peek(z.pc + 1) = 1 /\ Wrap(z.pc + 2) = 266 /\ a > v
        /\ z.pc = 267 => Peek(z.pc + 1) = 2 /\ Wrap(z.pc + 2) = 269 /\ a = v
        /\ z.pc = 270 => Peek(z.pc + 1) = 3 /\ Wrap(z.pc + 2) = 272 /\ a < v
    BY BranchBytes DEF Wrap, BranchAt
  <2> QED
    BY <1>10, <2>2, <2>3, <2>4 DEF GoesOn, BranchAt
<1>11. CASE z.pc \in {266, 269, 272}
  <2>1. Control(i) /\ i.t = \h76
    BY <1>3, <1>4, <1>11, BranchBytes, Selects
  <2>2. z'.st = "halt" /\ z'.r = z.r /\ mem' = mem
    BY <1>3, <2>1, HaltRuns
  <2>3. z.r[D] = Compared(a, v)
    BY <1>11 DEF BranchAt, Compared, Byte
  <2> QED
    BY <2>2, <2>3 DEF BranchAt
<1> QED
  BY <1>1, <1>7, <1>8, <1>9, <1>10, <1>11

LEMMA BranchInvHolds ==
  /\ Init => BranchInv
  /\ CpuOK /\ BranchInv /\ [Next]_<<vars, prog>> => BranchInv'
  /\ BranchInv => BranchesCompare
<1>1. ASSUME Init PROVE BranchInv
  <2> SUFFICES ASSUME prog.kind = "branch"
               PROVE  \E a \in Operands, v \in Operands :
                        /\ prog = Program("branch", BranchCode(v), Regs(0, 0, 0, a, {}, 0), NoData)
                        /\ mem = Loaded(Bytes(Org, BranchCode(v)), NoData)
                        /\ z.r[A] = a
                        /\ BranchAt(a, v)
    BY DEF BranchInv
  <2>1. prog \in Branches
    BY <1>1, Kinds DEF Init
  <2>2. PICK a \in Operands, v \in Operands :
          prog = Program("branch", BranchCode(v), Regs(0, 0, 0, a, {}, 0), NoData)
    BY <2>1 DEF Branches, BranchCode
  <2>3. /\ mem = Loaded(Bytes(Org, BranchCode(v)), NoData)
        /\ z = Regs(0, 0, 0, a, {}, 0)
    BY <1>1, <2>2 DEF Init, Program
  <2>4. z.r[A] = a /\ z.st = "run" /\ z.pc = 256
    BY <2>3 DEF Regs, Blank, Reg, Org, A, B, C, D, E, H, L
  <2> QED
    BY <2>2, <2>3, <2>4 DEF BranchAt
<1>2. ASSUME CpuOK, BranchInv, [Next]_<<vars, prog>> PROVE BranchInv'
  <2> SUFFICES ASSUME prog'.kind = "branch" PROVE BranchInv'
    BY DEF BranchInv
  <2>1. prog' = prog
    BY <1>2 DEF Next
  <2>2. PICK a \in Operands, v \in Operands :
          /\ prog = Program("branch", BranchCode(v), Regs(0, 0, 0, a, {}, 0), NoData)
          /\ mem = Loaded(Bytes(Org, BranchCode(v)), NoData)
          /\ z.r[A] = a
          /\ BranchAt(a, v)
    BY <1>2, <2>1 DEF BranchInv
  <2>3. a \in Byte /\ v \in Byte
    BY OperandsAssumption
  <2>4. CASE Next
    <3>1. z.st = "run"
      BY <2>4 DEF Next, Ended
    <3>2. mem' = mem /\ z'.r[A] = a /\ BranchAt(a, v)'
      BY <1>2, <2>2, <2>3, <2>4, <3>1, BranchStep
    <3> QED
      BY <2>1, <2>2, <3>2 DEF BranchInv
  <2>5. CASE UNCHANGED <<vars, prog>>
    <3>1. z' = z /\ mem' = mem
      BY <2>5 DEF vars
    <3>2. BranchAt(a, v)'
      BY <2>2, <3>1 DEF BranchAt, Flagged
    <3> QED
      BY <2>1, <2>2, <3>1, <3>2 DEF BranchInv
  <2> QED
    BY <1>2, <2>4, <2>5
<1>3. ASSUME BranchInv PROVE BranchesCompare
  <2> SUFFICES ASSUME Halted("branch")
               PROVE  z.r[D] = CASE Before.r[A] > prog.code[2] -> 1
                                 [] Before.r[A] = prog.code[2] -> 2
                                 [] Before.r[A] < prog.code[2] -> 3
    BY DEF BranchesCompare
  <2>1. PICK a \in Operands, v \in Operands :
          /\ prog = Program("branch", BranchCode(v), Regs(0, 0, 0, a, {}, 0), NoData)
          /\ BranchAt(a, v)
    BY <1>3 DEF BranchInv, Halted
  <2>2. prog.code[2] = v /\ Before = Regs(0, 0, 0, a, {}, 0)
    BY <2>1 DEF Program, BranchCode, Before
  <2>3. Before.r[A] = a
    BY <2>2 DEF Regs, Blank, Reg, A, B, C, D, E, H, L
  <2>4. z.r[D] = Compared(a, v)
    BY <2>1 DEF BranchAt, Halted
  <2>5. a \in Byte /\ v \in Byte
    BY OperandsAssumption
  <2>6. a > v \/ a = v \/ a < v
    BY <2>5 DEF Byte
  <2> QED
    BY <2>2, <2>3, <2>4, <2>5, <2>6 DEF Compared, Byte
<1> QED
  BY <1>1, <1>2, <1>3

(* cp followed by jp z and jp c parts any two unsigned bytes the right     *)
(* way, for all operands (z80.c:611-627, 858-893).                         *)
THEOREM ComparisonsBranch == Spec => []BranchesCompare
<1>1. Init => CpuOK /\ BranchInv
  BY InitIsTyped, BranchInvHolds
<1>2. CpuOK /\ BranchInv /\ [Next]_<<vars, prog>> => (CpuOK /\ BranchInv)'
  BY StepKeepsTypes, BranchInvHolds
<1>3. CpuOK /\ BranchInv => BranchesCompare
  BY BranchInvHolds
<1> QED
  BY <1>1, <1>2, <1>3, PTL DEF Spec

-----------------------------------------------------------------------------
(* What arith8 computes, as sums and differences of numbers. *)
AddOf(a, b, f) == Arith8(a, b, FALSE, FALSE, f)
AdcOf(a, b, f) == Arith8(a, b, TRUE, FALSE, f)
SubOf(a, b, f) == Arith8(a, b, FALSE, TRUE, f)
SbcOf(a, b, f) == Arith8(a, b, TRUE, TRUE, f)

\* The byte and the flags n that are left of a + b + c, and of a - b - c.
Added(a, b, c, n) ==
  /\ n.v = (a + b + c) % 256
  /\ CARRY \in n.f <=> a + b + c > 255
  /\ NEGATIVE \notin n.f
  /\ HALF \in n.f <=> Low(a) + Low(b) >= 16

Subtracted(a, b, c, n) ==
  /\ n.v = (a - b - c) % 256
  /\ CARRY \in n.f <=> a - b - c < 0
  /\ NEGATIVE \in n.f
  /\ HALF \in n.f <=> Low(a) < Low(b)

LEMMA AddIs ==
  ASSUME NEW f, NEW a \in Byte, NEW b \in Byte, NEW c, NEW n,
         \/ c = 0 /\ n = AddOf(a, b, f)
         \/ c = CarryIn(f) /\ n = AdcOf(a, b, f)
  PROVE  c \in {0, 1} /\ Added(a, b, c, n)
<1> DEFINE tt == a + b + c
           sum(cin) == LET t == a + b + cin
                           r == t % \h100
                       IN  [v |-> r,
                            f |-> (f \cap {3, 5}) \cup SignZero(r)
                                  \cup When(t \notin Byte, CARRY)
                                  \cup When(FALSE, NEGATIVE)
                                  \cup When(HalfCarry(a, b, FALSE), HALF)
                                  \cup When(/\ (a >= \h80) = (b >= \h80)
                                            /\ (a >= \h80) # (r >= \h80), OVERFLOW)]
<1>1. c \in {0, 1}
  BY DEF CarryIn
<1>2. tt \notin Byte <=> a + b + c > 255
  BY <1>1 DEF Byte
<1>3. n = sum(c)
  <2>1. AddOf(a, b, f) = sum(0)
    BY DEF AddOf, Arith8
  <2>2. AdcOf(a, b, f) = sum(CarryIn(f))
    BY DEF AdcOf, Arith8
  <2> HIDE DEF sum
  <2> QED
    BY <2>1, <2>2
<1>4. tt = a + b + c
  OBVIOUS
<1> HIDE DEF tt
<1>5. n.v = tt % 256
  BY <1>3, <1>4
<1>6. CARRY \in n.f <=> tt \notin Byte
  BY <1>3, <1>4 DEF SignZero, When, ZERO, SIGN, CARRY, NEGATIVE, HALF, OVERFLOW, PARITY
<1>7. NEGATIVE \notin n.f
  BY <1>3, <1>4 DEF SignZero, When, ZERO, SIGN, CARRY, NEGATIVE, HALF, OVERFLOW, PARITY
<1>8. HALF \in n.f <=> Low(a) + Low(b) >= 16
  BY <1>3, <1>4 DEF HalfCarry, SignZero, When, ZERO, SIGN, CARRY, NEGATIVE, HALF, OVERFLOW, PARITY
<1> QED
  BY <1>1, <1>2, <1>4, <1>5, <1>6, <1>7, <1>8 DEF Added

LEMMA SubIs ==
  ASSUME NEW f, NEW a \in Byte, NEW b \in Byte, NEW c, NEW n,
         \/ c = 0 /\ n = SubOf(a, b, f)
         \/ c = CarryIn(f) /\ n = SbcOf(a, b, f)
  PROVE  c \in {0, 1} /\ Subtracted(a, b, c, n)
<1> DEFINE tt == a - b - c
           sum(cin) == LET t == a - b - cin
                           r == t % \h100
                       IN  [v |-> r,
                            f |-> (f \cap {3, 5}) \cup SignZero(r)
                                  \cup When(t \notin Byte, CARRY)
                                  \cup When(TRUE, NEGATIVE)
                                  \cup When(HalfCarry(a, b, TRUE), HALF)
                                  \cup When(/\ (a >= \h80) = (b >= \h80)
                                            /\ (a >= \h80) # (r >= \h80), OVERFLOW)]
<1>1. c \in {0, 1}
  BY DEF CarryIn
<1>2. tt \notin Byte <=> a - b - c < 0
  BY <1>1 DEF Byte
<1>3. n = sum(c)
  <2>1. SubOf(a, b, f) = sum(0)
    BY DEF SubOf, Arith8
  <2>2. SbcOf(a, b, f) = sum(CarryIn(f))
    BY DEF SbcOf, Arith8
  <2> HIDE DEF sum
  <2> QED
    BY <2>1, <2>2
<1>4. tt = a - b - c
  OBVIOUS
<1> HIDE DEF tt
<1>5. n.v = tt % 256
  BY <1>3, <1>4
<1>6. CARRY \in n.f <=> tt \notin Byte
  BY <1>3, <1>4 DEF SignZero, When, ZERO, SIGN, CARRY, NEGATIVE, HALF, OVERFLOW, PARITY
<1>7. NEGATIVE \in n.f
  BY <1>3, <1>4 DEF SignZero, When, ZERO, SIGN, CARRY, NEGATIVE, HALF, OVERFLOW, PARITY
<1>8. HALF \in n.f <=> Low(a) < Low(b)
  BY <1>3, <1>4 DEF HalfCarry, SignZero, When, ZERO, SIGN, CARRY, NEGATIVE, HALF, OVERFLOW, PARITY
<1> QED
  BY <1>1, <1>2, <1>4, <1>5, <1>6, <1>7, <1>8 DEF Subtracted

(* daa adds the number of its table; NEGATIVE stays. *)
LEMMA DaaIs ==
  ASSUME NEW f, NEW a \in Byte, Adjustment(a, f) \in Byte
  PROVE  /\ Daa(a, f).v = (a + Adjustment(a, f)) % 256
         /\ CARRY \in Daa(a, f).f <=> a + Adjustment(a, f) > 255
<1> DEFINE b == Adjustment(a, f)
           sum == AddOf(a, b, f)
           n == Daa(a, f)
<1>1. n = [v |-> sum.v, f |-> (sum.f \ {PARITY}) \cup (f \cap {NEGATIVE})
                                \cup When(EvenBits(sum.v), PARITY)]
  BY DEF Daa, AddOf
<1>2. b \in Byte
  OBVIOUS
<1>3. sum = AddOf(a, b, f)
  OBVIOUS
<1> HIDE DEF b, sum, n
<1>4. sum.v = (a + b + 0) % 256 /\ (CARRY \in sum.f <=> a + b + 0 > 255)
  <2>1. Added(a, b, 0, sum)
    BY <1>2, <1>3, AddIs
  <2> QED
    BY <2>1 DEF Added
<1>5. a + b + 0 = a + b
  BY <1>2 DEF Byte
<1>6. n.v = sum.v /\ (CARRY \in n.f <=> CARRY \in sum.f)
  BY <1>1 DEF When, CARRY, PARITY, NEGATIVE
<1>7. n.v = (a + b) % 256 /\ (CARRY \in n.f <=> a + b > 255)
  BY <1>4, <1>5, <1>6
<1> QED
  BY <1>7 DEF b, n

-----------------------------------------------------------------------------
(* daa, digit by digit. *)
LEMMA Nibbles ==
  ASSUME NEW h \in 0 .. 15, NEW l \in 0 .. 15
  PROVE  /\ 16 * h + l \in Byte
         /\ Low(16 * h + l) = l /\ High(16 * h + l) = 16 * h
<1>1. 16 * h + l \in Byte
  BY DEF Byte
<1>2. (16 * h + l) % 16 = l
  OBVIOUS
<1>3. Low(16 * h + l) = l
  BY <1>2 DEF Low
<1>4. High(16 * h + l) = 16 * h
  BY <1>3 DEF High
<1> QED
  BY <1>1, <1>3, <1>4

(* What is added after an addition, and after a subtraction. *)
Above(h, l, carry, half) ==
  IF carry THEN IF half THEN IF h <= 3 /\ l <= 3 THEN 102 ELSE 0
                        ELSE IF h > 2 THEN 0 ELSE IF l <= 9 THEN 96 ELSE 102
           ELSE IF half THEN IF l > 3 THEN 0 ELSE IF h <= 9 THEN 6 ELSE 102
                        ELSE IF l <= 9 THEN IF h >= 10 THEN 96 ELSE 0
                                       ELSE IF h <= 8 THEN 6 ELSE 102

Below(h, l, carry, half) ==
  IF carry THEN IF half THEN IF h >= 6 /\ l >= 6 THEN 154 ELSE 0
                        ELSE IF h >= 7 /\ l <= 9 THEN 160 ELSE 0
           ELSE IF half /\ h <= 8 /\ l >= 6 THEN 250 ELSE 0

LEMMA AdjustmentIs ==
  ASSUME NEW f, NEW h \in 0 .. 15, NEW l \in 0 .. 15
  PROVE  /\ NEGATIVE \notin f =>
              Adjustment(16 * h + l, f) = Above(h, l, CARRY \in f, HALF \in f)
         /\ NEGATIVE \in f =>
              Adjustment(16 * h + l, f) = Below(h, l, CARRY \in f, HALF \in f)
<1> DEFINE a == 16 * h + l
<1>1. Low(a) = l /\ High(a) = 16 * h
  BY Nibbles
<1> HIDE DEF a
<1>2. CASE NEGATIVE \in f /\ CARRY \in f
  BY <1>1, <1>2 DEF Adjustment, Below, a
<1>3. CASE NEGATIVE \in f /\ CARRY \notin f
  BY <1>1, <1>3 DEF Adjustment, Below, a
<1>4. CASE NEGATIVE \notin f /\ CARRY \in f
  BY <1>1, <1>4 DEF Adjustment, Above, a
<1>5. CASE NEGATIVE \notin f /\ CARRY \notin f
  BY <1>1, <1>5 DEF Adjustment, Above, a
<1> QED
  BY <1>2, <1>3, <1>4, <1>5

LEMMA DigitsOf ==
  ASSUME NEW q \in 0 .. 9, NEW p \in 0 .. 9
  PROVE  ToDecimal(10 * q + p) = 16 * q + p
<1>1. (10 * q + p) \div 10 = q /\ (10 * q + p) % 10 = p
  OBVIOUS
<1> QED
  BY <1>1 DEF ToDecimal

(* What add or adc of two decimal bytes leaves, in tens and units, and     *)
(* what daa makes of it.                                                   *)
LEMMA DecimalAdd ==
  ASSUME NEW q \in 0 .. 18, NEW p \in 0 .. 19, NEW f, NEW r,
         r = (16 * q + p) % 256,
         CARRY \in f <=> 16 * q + p > 255,
         HALF \in f <=> p >= 16,
         NEGATIVE \notin f
  PROVE  /\ r \in Byte /\ Adjustment(r, f) \in Byte
         /\ (r + Adjustment(r, f)) % 256 = ToDecimal((10 * q + p) % 100)
         /\ r + Adjustment(r, f) > 255 <=> 10 * q + p >= 100 /\ 16 * q + p <= 255
<1> DEFINE k == IF p >= 16 THEN q + 1 ELSE q
           l == IF p >= 16 THEN p - 16 ELSE p
           h == IF k >= 16 THEN k - 16 ELSE k
           b == Above(h, l, CARRY \in f, HALF \in f)
           d == IF p >= 10 THEN q + 1 ELSE q
           u == IF p >= 10 THEN p - 10 ELSE p
           t == IF d >= 10 THEN d - 10 ELSE d
<1>1. h \in 0 .. 15 /\ l \in 0 .. 15 /\ r = 16 * h + l
  OBVIOUS
<1>2. CARRY \in f <=> k >= 16
  OBVIOUS
<1>3. r \in Byte /\ Adjustment(r, f) = b
  <2> HIDE DEF h, l
  <2> QED
    BY <1>1, Nibbles, AdjustmentIs
<1>4. t \in 0 .. 9 /\ u \in 0 .. 9 /\ (10 * q + p) % 100 = 10 * t + u
  OBVIOUS
<1>5. ToDecimal((10 * q + p) % 100) = 16 * t + u
  <2> HIDE DEF t, u
  <2> QED
    BY <1>4, DigitsOf
<1>6. b \in Byte
  BY DEF Above, Byte
<1> DEFINE Goal == /\ (r + b) % 256 = 16 * t + u
                   /\ r + b > 255 <=> 10 * q + p >= 100 /\ 16 * q + p <= 255
<1>7. ASSUME p <= 9 /\ q <= 9 PROVE Goal
  <2>1. h = q /\ l = p /\ t = q /\ u = p
    BY <1>7
  <2>2. b = 0
    BY <1>2, <1>7, <2>1 DEF Above
  <2> HIDE DEF h, l, t, u, b
  <2> QED
    BY <1>1, <1>7, <2>1, <2>2
<1>8. ASSUME p <= 9 /\ q \in 10 .. 15 PROVE Goal
  <2>1. h = q /\ l = p /\ t = q - 10 /\ u = p
    BY <1>8
  <2>2. b = 96
    BY <1>2, <1>8, <2>1 DEF Above
  <2> HIDE DEF h, l, t, u, b
  <2> QED
    BY <1>1, <1>8, <2>1, <2>2
<1>9. ASSUME p <= 9 /\ q >= 16 PROVE Goal
  <2>1. h = q - 16 /\ l = p /\ t = q - 10 /\ u = p
    BY <1>9
  <2>2. b = 96
    BY <1>2, <1>9, <2>1 DEF Above
  <2> HIDE DEF h, l, t, u, b
  <2> QED
    BY <1>1, <1>9, <2>1, <2>2
<1>10. ASSUME p \in 10 .. 15 /\ q <= 8 PROVE Goal
  <2>1. h = q /\ l = p /\ t = q + 1 /\ u = p - 10
    BY <1>10
  <2>2. b = 6
    BY <1>2, <1>10, <2>1 DEF Above
  <2> HIDE DEF h, l, t, u, b
  <2> QED
    BY <1>1, <1>10, <2>1, <2>2
<1>11. ASSUME p \in 10 .. 15 /\ q \in 9 .. 15 PROVE Goal
  <2>1. h = q /\ l = p /\ t = q - 9 /\ u = p - 10
    BY <1>11
  <2>2. b = 102
    BY <1>2, <1>11, <2>1 DEF Above
  <2> HIDE DEF h, l, t, u, b
  <2> QED
    BY <1>1, <1>11, <2>1, <2>2
<1>12. ASSUME p \in 10 .. 15 /\ q >= 16 PROVE Goal
  <2>1. h = q - 16 /\ l = p /\ t = q - 9 /\ u = p - 10
    BY <1>12
  <2>2. b = 102
    BY <1>2, <1>12, <2>1 DEF Above
  <2> HIDE DEF h, l, t, u, b
  <2> QED
    BY <1>1, <1>12, <2>1, <2>2
<1>13. ASSUME p >= 16 /\ q <= 8 PROVE Goal
  <2>1. h = q + 1 /\ l = p - 16 /\ t = q + 1 /\ u = p - 10
    BY <1>13
  <2>2. b = 6
    BY <1>2, <1>13, <2>1 DEF Above
  <2> HIDE DEF h, l, t, u, b
  <2> QED
    BY <1>1, <1>13, <2>1, <2>2
<1>14. ASSUME p >= 16 /\ q \in 9 .. 14 PROVE Goal
  <2>1. h = q + 1 /\ l = p - 16 /\ t = q - 9 /\ u = p - 10
    BY <1>14
  <2>2. b = 102
    BY <1>2, <1>14, <2>1 DEF Above
  <2> HIDE DEF h, l, t, u, b
  <2> QED
    BY <1>1, <1>14, <2>1, <2>2
<1>15. ASSUME p >= 16 /\ q >= 15 PROVE Goal
  <2>1. h = q - 15 /\ l = p - 16 /\ t = q - 9 /\ u = p - 10
    BY <1>15
  <2>2. b = 102
    BY <1>2, <1>15, <2>1 DEF Above
  <2> HIDE DEF h, l, t, u, b
  <2> QED
    BY <1>1, <1>15, <2>1, <2>2
<1>16. Goal
  <2> HIDE DEF Goal
  <2> QED
    BY <1>7, <1>8, <1>9, <1>10, <1>11, <1>12, <1>13, <1>14, <1>15
<1> QED
  BY <1>3, <1>5, <1>6, <1>16

\* The tens q and the units p of a difference, and the byte r and the flags
\* f that sub or sbc leaves of it.
Difference(q, p, f, r) ==
  /\ q \in -9 .. 9 /\ p \in -10 .. 9 /\ r = (16 * q + p) % 256
  /\ CARRY \in f <=> 16 * q + p < 0
  /\ HALF \in f <=> p < 0
  /\ NEGATIVE \in f

LEMMA DecimalSubtract ==
  ASSUME NEW q, NEW p, NEW f, NEW r, Difference(q, p, f, r)
  PROVE  /\ r \in Byte /\ Adjustment(r, f) \in Byte
         /\ (r + Adjustment(r, f)) % 256 = ToDecimal((10 * q + p) % 100)
         /\ r + Adjustment(r, f) > 255 <=> 10 * q + p < 0 \/ p < 0
<1> DEFINE k == IF p < 0 THEN q - 1 ELSE q
           l == IF p < 0 THEN p + 16 ELSE p
           h == IF k < 0 THEN k + 16 ELSE k
           b == Below(h, l, CARRY \in f, HALF \in f)
           u == IF p < 0 THEN p + 10 ELSE p
           t == IF k < 0 THEN k + 10 ELSE k
<1> USE DEF Difference
<1>1. h \in 0 .. 15 /\ l \in 0 .. 15 /\ r = 16 * h + l
  OBVIOUS
<1>2. CARRY \in f <=> k < 0
  OBVIOUS
<1>3. r \in Byte /\ Adjustment(r, f) = b
  <2> HIDE DEF h, l
  <2> QED
    BY <1>1, Nibbles, AdjustmentIs
<1>4. t \in 0 .. 9 /\ u \in 0 .. 9 /\ (10 * q + p) % 100 = 10 * t + u
  OBVIOUS
<1>5. ToDecimal((10 * q + p) % 100) = 16 * t + u
  <2> HIDE DEF t, u
  <2> QED
    BY <1>4, DigitsOf
<1>6. b \in Byte
  BY DEF Below, Byte
<1> DEFINE Goal == /\ (r + b) % 256 = 16 * t + u
                   /\ r + b > 255 <=> 10 * q + p < 0 \/ p < 0
<1>7. ASSUME p >= 0 /\ q >= 0 PROVE Goal
  <2>1. h = q /\ l = p /\ t = q /\ u = p
    BY <1>7
  <2>2. b = 0
    BY <1>2, <1>7, <2>1 DEF Below
  <2> HIDE DEF h, l, t, u, b
  <2> QED
    BY <1>1, <1>7, <2>1, <2>2
<1>8. ASSUME p >= 0 /\ q < 0 PROVE Goal
  <2>1. h = q + 16 /\ l = p /\ t = q + 10 /\ u = p
    BY <1>8
  <2>2. b = 160
    BY <1>2, <1>8, <2>1 DEF Below
  <2> HIDE DEF h, l, t, u, b
  <2> QED
    BY <1>1, <1>8, <2>1, <2>2
<1>9. ASSUME p < 0 /\ q >= 1 PROVE Goal
  <2>1. h = q - 1 /\ l = p + 16 /\ t = q - 1 /\ u = p + 10
    BY <1>9
  <2>2. b = 250
    BY <1>2, <1>9, <2>1 DEF Below
  <2> HIDE DEF h, l, t, u, b
  <2> QED
    BY <1>1, <1>9, <2>1, <2>2
<1>10. ASSUME p < 0 /\ q <= 0 PROVE Goal
  <2>1. h = q + 15 /\ l = p + 16 /\ t = q + 9 /\ u = p + 10
    BY <1>10
  <2>2. b = 154
    BY <1>2, <1>10, <2>1 DEF Below
  <2> HIDE DEF h, l, t, u, b
  <2> QED
    BY <1>1, <1>10, <2>1, <2>2
<1>11. Goal
  <2> HIDE DEF Goal
  <2> QED
    BY <1>7, <1>8, <1>9, <1>10
<1> QED
  BY <1>3, <1>5, <1>6, <1>11

-----------------------------------------------------------------------------
(* The instructions of the programs that add and subtract. *)

\* What the opcode t computes of A, its operand and the flags.
SumOf(t, a, b, f) ==
  IF t \in {\hC6, \h83} THEN AddOf(a, b, f)
  ELSE IF t \in {\hCE, \h8A} THEN AdcOf(a, b, f)
  ELSE IF t \in {\hD6, \h93} THEN SubOf(a, b, f)
  ELSE SbcOf(a, b, f)

LEMMA SumIs ==
  ASSUME NEW t \in {\hC6, \hCE, \hD6, \hDE, \h83, \h93, \h8A, \h9A}, NEW a, NEW b, NEW f
  PROVE  Arith8(a, b, Y(t) % 2 = 1, Y(t) >= 2, f) = SumOf(t, a, b, f)
<1>1. CASE t \in {\hC6, \h83}
  <2>1. Y(t) = 0
    BY <1>1 DEF Y
  <2>2. (Y(t) % 2 = 1) = FALSE /\ (Y(t) >= 2) = FALSE
    BY <2>1
  <2>3. SumOf(t, a, b, f) = AddOf(a, b, f)
    BY <1>1 DEF SumOf
  <2> QED
    BY <2>2, <2>3, Zenon DEF AddOf
<1>2. CASE t \in {\hCE, \h8A}
  <2>1. Y(t) = 1
    BY <1>2 DEF Y
  <2>2. (Y(t) % 2 = 1) = TRUE /\ (Y(t) >= 2) = FALSE
    BY <2>1
  <2>3. SumOf(t, a, b, f) = AdcOf(a, b, f)
    BY <1>2 DEF SumOf
  <2> QED
    BY <2>2, <2>3, Zenon DEF AdcOf
<1>3. CASE t \in {\hD6, \h93}
  <2>1. Y(t) = 2
    BY <1>3 DEF Y
  <2>2. (Y(t) % 2 = 1) = FALSE /\ (Y(t) >= 2) = TRUE
    BY <2>1
  <2>3. SumOf(t, a, b, f) = SubOf(a, b, f)
    BY <1>3 DEF SumOf
  <2> QED
    BY <2>2, <2>3, Zenon DEF SubOf
<1>4. CASE t \in {\hDE, \h9A}
  <2>1. Y(t) = 3
    BY <1>4 DEF Y
  <2>2. (Y(t) % 2 = 1) = TRUE /\ (Y(t) >= 2) = TRUE
    BY <2>1
  <2>3. SumOf(t, a, b, f) = SbcOf(a, b, f)
    BY <1>4 DEF SumOf
  <2> QED
    BY <2>2, <2>3, Zenon DEF SbcOf
<1> QED
  BY <1>1, <1>2, <1>3, <1>4

LEMMA ArithmeticRuns ==
  ASSUME CpuOK, NEW i, InsOK(i), i.at = 1, Arithmetic(i), NEW b,
         \/ i.t \in {\hC6, \hCE, \hD6, \hDE} /\ b = Peek(z.pc + 1)
         \/ i.t \in {\h83, \h93} /\ b = z.r[E]
         \/ i.t \in {\h8A, \h9A} /\ b = z.r[D]
  PROVE  /\ GoesOn(Wrap(z.pc + (IF i.t < \hC0 THEN 1 ELSE 2)))
         /\ z'.f = SumOf(i.t, z.r[A], b, z.f).f
         /\ z'.r = [z.r EXCEPT ![A] = SumOf(i.t, z.r[A], b, z.f).v]
<1>1. i.t \in {\hC6, \hCE, \hD6, \hDE, \h83, \h93, \h8A, \h9A}
  OBVIOUS
<1>2. Operand(i) = b /\ PastAlu(i) = Past(i, IF i.t < \hC0 THEN 0 ELSE 1)
  <2>1. CASE i.t \in {\hC6, \hCE, \hD6, \hDE} /\ b = Peek(z.pc + 1)
    <3>1. X(i.t) = 3 /\ ~(i.t < \hC0)
      BY <2>1 DEF X
    <3> QED
      BY <2>1, <3>1 DEF Operand, PastAlu, Byte1
  <2>2. CASE i.t \in {\h83, \h93} /\ b = z.r[E]
    <3>1. X(i.t) = 2 /\ Z(i.t) = E /\ E # M /\ i.t < \hC0
      BY <2>2 DEF X, Z, E, M
    <3> QED
      BY <2>2, <3>1 DEF Operand, PastAlu, Get
  <2>3. CASE i.t \in {\h8A, \h9A} /\ b = z.r[D]
    <3>1. X(i.t) = 2 /\ Z(i.t) = D /\ D # M /\ i.t < \hC0
      BY <2>3 DEF X, Z, D, M
    <3> QED
      BY <2>3, <3>1 DEF Operand, PastAlu, Get
  <2> QED
    BY <2>1, <2>2, <2>3
<1> DEFINE m == IF i.t < \hC0 THEN 0 ELSE 1
           n == SumOf(i.t, z.r[A], b, z.f)
<1>3. z' = [PastAlu(i) EXCEPT !.r[A] = n.v, !.f = n.f] /\ mem' = mem
  <2>1. Arith8(z.r[A], b, Y(i.t) % 2 = 1, Y(i.t) >= 2, z.f) = n
    BY <1>1, SumIs
  <2>2. z' = Accumulate(PastAlu(i), Arith8(z.r[A], Operand(i), Y(i.t) % 2 = 1, Y(i.t) >= 2, z.f))
    BY DEF Arithmetic
  <2> HIDE DEF n
  <2>3. z' = Accumulate(PastAlu(i), n)
    BY <1>2, <2>1, <2>2
  <2> QED
    BY <2>3 DEF Accumulate, Arithmetic
<1>4. PastAlu(i) = [z EXCEPT !.pc = Wrap(z.pc + 1 + m)]
  BY <1>2, PastIs
<1>5. z.pc + 1 + m = z.pc + (IF i.t < \hC0 THEN 1 ELSE 2)
  BY FieldTypes DEF CpuOK, Word
<1> HIDE DEF n, m
<1>6. /\ z'.pc = Wrap(z.pc + 1 + m) /\ z'.st = z.st /\ z'.f = n.f
      /\ z'.r = [z.r EXCEPT ![A] = n.v]
  BY <1>3, <1>4 DEF CpuOK, CpuState
<1> QED
  BY <1>3, <1>5, <1>6 DEF GoesOn, n

LEMMA LoadRuns ==
  ASSUME CpuOK, NEW i, InsOK(i), i.at = 1, LoadRegister(i),
         NEW n \in Reg, NEW m \in Reg,
         \/ i.t = \h7D /\ n = A /\ m = L
         \/ i.t = \h6F /\ n = L /\ m = A
         \/ i.t = \h7C /\ n = A /\ m = H
         \/ i.t = \h67 /\ n = H /\ m = A
  PROVE  GoesOn(Wrap(z.pc + 1)) /\ z'.f = z.f /\ z'.r = [z.r EXCEPT ![n] = z.r[m]]
<1>1. Y(i.t) = n /\ Z(i.t) = m /\ n # M /\ m # M
  BY DEF Y, Z, A, H, L, M
<1>2. Past(i, 0) = [z EXCEPT !.pc = Wrap(z.pc + 1 + 0)]
  BY PastIs
<1>3. z.pc + 1 + 0 = z.pc + 1
  BY FieldTypes DEF CpuOK, Word
<1>4. z' = [Past(i, 0) EXCEPT !.r[n] = z.r[m]] /\ mem' = mem
  BY <1>1 DEF LoadRegister, Put, Get
<1> QED
  BY <1>2, <1>3, <1>4 DEF GoesOn, CpuOK, CpuState

LEMMA AdjustRuns ==
  ASSUME CpuOK, NEW i, InsOK(i), i.at = 1, Adjust(i), i.t = \h27
  PROVE  /\ GoesOn(Wrap(z.pc + 1)) /\ z'.f = Daa(z.r[A], z.f).f
         /\ z'.r = [z.r EXCEPT ![A] = Daa(z.r[A], z.f).v]
<1> DEFINE n == Daa(z.r[A], z.f)
<1>1. z' = [Past(i, 0) EXCEPT !.r[A] = n.v, !.f = n.f] /\ mem' = mem
  BY DEF Adjust, Accumulate
<1>2. Past(i, 0) = [z EXCEPT !.pc = Wrap(z.pc + 1 + 0)]
  BY PastIs
<1>3. z.pc + 1 + 0 = z.pc + 1
  BY FieldTypes DEF CpuOK, Word
<1> HIDE DEF n
<1>4. /\ z'.pc = Wrap(z.pc + 1) /\ z'.st = z.st /\ z'.f = n.f
      /\ z'.r = [z.r EXCEPT ![A] = n.v]
  BY <1>1, <1>2, <1>3 DEF CpuOK, CpuState
<1> QED
  BY <1>1, <1>4 DEF GoesOn, n

-----------------------------------------------------------------------------
(* The decimal programs: an addition or subtraction, daa, halt. *)
BcdOps == {\hC6, \hCE, \hD6, \hDE}

BcdCode(op, v) == <<op, v, \h27, \h76>>

IsDecimal(b) == \E t \in 0 .. 9, u \in 0 .. 9 : b = 16 * t + u

BcdAt(op, a, v, f) ==
  LET n == SumOf(op, a, v, f)
      d == Daa(n.v, n.f)
  IN  \/ z.st = "run" /\ z.pc = 256 /\ z.r[A] = a /\ z.f = f
      \/ z.st = "run" /\ z.pc = 258 /\ z.r[A] = n.v /\ z.f = n.f
      \/ z.st = "run" /\ z.pc = 259 /\ z.r[A] = d.v /\ z.f = d.f
      \/ z.st = "halt" /\ z.r[A] = d.v /\ z.f = d.f

BcdInv ==
  prog.kind = "bcd" =>
    \E op \in BcdOps, a \in Byte, v \in Byte, f \in {{}, {CARRY}} :
      /\ IsDecimal(a) /\ IsDecimal(v)
      /\ prog = Program("bcd", BcdCode(op, v), Regs(0, 0, 0, a, f, 0), NoData)
      /\ mem = Loaded(Bytes(Org, BcdCode(op, v)), NoData)
      /\ BcdAt(op, a, v, f)

LEMMA BcdCodeIs ==
  ASSUME NEW v \in Byte, NEW op \in BcdOps
  PROVE  BcdCode(op, v) \in ByteCode /\ Len(BcdCode(op, v)) = 4
<1>1. {op, \h27, \h76} \subseteq Byte
  BY DEF Byte, BcdOps
<1> QED
  BY <1>1 DEF ByteCode, BcdCode

LEMMA BcdBytes ==
  ASSUME NEW v \in Byte, NEW op \in BcdOps, mem = Loaded(Bytes(Org, BcdCode(op, v)), NoData)
  PROVE  Peek(256) = op /\ Peek(257) = v /\ Peek(258) = \h27 /\ Peek(259) = \h76
<1>1. ASSUME NEW k \in 1 .. 4, NEW a, a = 255 + k PROVE Peek(a) = BcdCode(op, v)[k]
  <2>1. Peek(Org + k - 1) = BcdCode(op, v)[k]
    BY BcdCodeIs, Fetched
  <2>2. Org + k - 1 = 255 + k
    BY DEF Org
  <2> QED
    BY <1>1, <2>1, <2>2
<1>2. /\ Peek(256) = BcdCode(op, v)[1] /\ Peek(257) = BcdCode(op, v)[2]
      /\ Peek(258) = BcdCode(op, v)[3] /\ Peek(259) = BcdCode(op, v)[4]
  BY <1>1
<1> QED
  BY <1>2 DEF BcdCode

LEMMA BcdStep ==
  ASSUME CpuOK, NEW op \in BcdOps, NEW a \in Byte, NEW v \in Byte, NEW f,
         mem = Loaded(Bytes(Org, BcdCode(op, v)), NoData),
         BcdAt(op, a, v, f), z.st = "run", Next
  PROVE  mem' = mem /\ BcdAt(op, a, v, f)'
<1> DEFINE i == Ins
           n == SumOf(op, a, v, f)
           d == Daa(n.v, n.f)
<1>1. \/ z.pc = 256 /\ z.r[A] = a /\ z.f = f
      \/ z.pc = 258 /\ z.r[A] = n.v /\ z.f = n.f
      \/ z.pc = 259 /\ z.r[A] = d.v /\ z.f = d.f
  BY DEF BcdAt
<1>2. Peek(z.pc) \in BcdOps \cup {\h27, \h76}
  BY <1>1, BcdBytes
<1>3. i.set = "main" /\ i.t = Peek(z.pc) /\ i.at = 1 /\ InsOK(i)
  BY <1>2, MainIns, InsTypes DEF BcdOps
<1>4. MainInstruction(i)
  BY <1>3, OnlyMain DEF Next, Execute
<1>5. \/ z'.st = "run" /\ z'.pc = 258 /\ z'.r[A] = n.v /\ z'.f = n.f
      \/ z'.st = "run" /\ z'.pc = 259 /\ z'.r[A] = d.v /\ z'.f = d.f
      \/ z'.st = "halt" /\ z'.r[A] = d.v /\ z'.f = d.f
      => BcdAt(op, a, v, f)'
  BY DEF BcdAt
<1>6. z.r \in [Reg -> Byte] /\ A \in Reg
  BY DEF CpuOK, CpuState, A, Reg
<1> HIDE DEF i, d
<1>7. CASE z.pc = 256 /\ z.r[A] = a /\ z.f = f
  <2>1. Arithmetic(i) /\ i.t = op
    BY <1>3, <1>4, <1>7, BcdBytes, Selects DEF BcdOps
  <2>2. /\ GoesOn(Wrap(z.pc + (IF i.t < \hC0 THEN 1 ELSE 2)))
        /\ z'.f = SumOf(i.t, z.r[A], v, z.f).f
        /\ z'.r = [z.r EXCEPT ![A] = SumOf(i.t, z.r[A], v, z.f).v]
    <3>1. i.t \in {\hC6, \hCE, \hD6, \hDE} /\ v = Peek(z.pc + 1)
      BY <2>1, <1>7, BcdBytes DEF BcdOps
    <3> QED
      BY <1>3, <2>1, <3>1, ArithmeticRuns
  <2>3. Wrap(z.pc + (IF i.t < \hC0 THEN 1 ELSE 2)) = 258
    BY <1>7, <2>1 DEF Wrap, BcdOps
  <2> HIDE DEF n
  <2>4. z'.st = "run" /\ z'.pc = 258 /\ z'.r[A] = n.v /\ z'.f = n.f /\ mem' = mem
    BY <1>6, <1>7, <2>1, <2>2, <2>3 DEF GoesOn, n
  <2> QED
    BY <1>5, <2>4
<1> HIDE DEF n
<1>8. CASE z.pc = 258 /\ z.r[A] = n.v /\ z.f = n.f
  <2>1. Adjust(i) /\ i.t = \h27
    BY <1>3, <1>4, <1>8, BcdBytes, Selects
  <2>2. /\ GoesOn(Wrap(z.pc + 1)) /\ z'.f = d.f
        /\ z'.r = [z.r EXCEPT ![A] = d.v]
    BY <1>3, <1>8, <2>1, AdjustRuns DEF d
  <2>3. Wrap(z.pc + 1) = 259
    BY <1>8 DEF Wrap
  <2> QED
    BY <1>5, <1>6, <2>2, <2>3 DEF GoesOn
<1>9. CASE z.pc = 259 /\ z.r[A] = d.v /\ z.f = d.f
  <2>1. Control(i) /\ i.t = \h76
    BY <1>3, <1>4, <1>9, BcdBytes, Selects
  <2> QED
    BY <1>3, <1>5, <1>9, <2>1, HaltRuns
<1> QED
  BY <1>1, <1>7, <1>8, <1>9

LEMMA BcdStarts == Init => BcdInv
<1> SUFFICES ASSUME Init, prog.kind = "bcd"
             PROVE  \E op \in BcdOps, a \in Byte, v \in Byte, f \in {{}, {CARRY}} :
                      /\ IsDecimal(a) /\ IsDecimal(v)
                      /\ prog = Program("bcd", BcdCode(op, v), Regs(0, 0, 0, a, f, 0), NoData)
                      /\ mem = Loaded(Bytes(Org, BcdCode(op, v)), NoData)
                      /\ BcdAt(op, a, v, f)
  BY DEF BcdInv
<1> DEFINE bcd == {16 * t + u : t \in Digits, u \in 0 .. 9}
           flags == {{}, {CARRY}}
           program(op, a, v, f) == Program("bcd", BcdCode(op, v), Regs(0, 0, 0, a, f, 0), NoData)
<1>1. prog \in Decimals
  BY Kinds DEF Init
<1>2. Decimals = {program(op, a, v, f) : op \in BcdOps, a \in bcd, v \in bcd, f \in flags}
  BY DEF Decimals, BcdOps, BcdCode
<1>3. \A b \in bcd : b \in Byte /\ IsDecimal(b)
  BY OperandsAssumption DEF IsDecimal, Byte
<1> HIDE DEF bcd, flags, program
<1>4. PICK op \in BcdOps, a \in bcd, v \in bcd, f \in flags : prog = program(op, a, v, f)
  BY <1>1, <1>2
<1>5. prog = Program("bcd", BcdCode(op, v), Regs(0, 0, 0, a, f, 0), NoData)
  BY <1>4 DEF program
<1>6. /\ mem = Loaded(Bytes(Org, BcdCode(op, v)), NoData)
      /\ z = Regs(0, 0, 0, a, f, 0)
  BY <1>5 DEF Init, Program
<1>7. z.r[A] = a /\ z.f = f /\ z.st = "run" /\ z.pc = 256
  BY <1>6 DEF Regs, Blank, Reg, Org, A, B, C, D, E, H, L
<1>8. BcdAt(op, a, v, f)
  BY <1>7 DEF BcdAt
<1> QED
  BY <1>3, <1>5, <1>6, <1>8 DEF flags

LEMMA BcdNext ==
  ASSUME CpuOK, BcdInv, [Next]_<<vars, prog>>
  PROVE  BcdInv'
<1> SUFFICES ASSUME prog'.kind = "bcd" PROVE BcdInv'
  BY DEF BcdInv
<1>1. prog' = prog
  BY DEF Next
<1>2. PICK op \in BcdOps, a \in Byte, v \in Byte, f \in {{}, {CARRY}} :
        /\ IsDecimal(a) /\ IsDecimal(v)
        /\ prog = Program("bcd", BcdCode(op, v), Regs(0, 0, 0, a, f, 0), NoData)
        /\ mem = Loaded(Bytes(Org, BcdCode(op, v)), NoData)
        /\ BcdAt(op, a, v, f)
  BY <1>1 DEF BcdInv
<1>3. mem' = mem /\ BcdAt(op, a, v, f)'
  <2>1. CASE Next
    <3>1. z.st = "run"
      BY <2>1 DEF Next, Ended
    <3> QED
      BY <1>2, <2>1, <3>1, BcdStep
  <2>2. CASE UNCHANGED <<vars, prog>>
    BY <1>2, <2>2 DEF vars, BcdAt
  <2> QED
    BY <2>1, <2>2
<1> QED
  BY <1>1, <1>2, <1>3 DEF BcdInv

LEMMA DecimalIs ==
  ASSUME NEW b, IsDecimal(b)
  PROVE  \E t \in 0 .. 9, u \in 0 .. 9 : b = 16 * t + u /\ Low(b) = u /\ Decimal(b) = 10 * t + u
<1>1. PICK t \in 0 .. 9, u \in 0 .. 9 : b = 16 * t + u
  BY DEF IsDecimal
<1>2. b % 16 = u /\ b \div 16 = t
  BY <1>1
<1> QED
  BY <1>1, <1>2 DEF Low, Decimal

LEMMA DecimalSums ==
  ASSUME NEW op \in {\hC6, \hCE}, NEW a \in Byte, NEW v \in Byte, NEW f,
         IsDecimal(a), IsDecimal(v),
         NEW c, c = (IF op = \hCE THEN CarryIn(f) ELSE 0),
         NEW n, n = SumOf(op, a, v, f), NEW d, d = Daa(n.v, n.f),
         NEW sum, sum = Decimal(a) + Decimal(v) + c
  PROVE  \/ c = 1 /\ Low(a) + Low(v) = 15
         \/ /\ d.v = ToDecimal(sum % 100)
            /\ CARRY \in d.f <=> sum >= 100 /\ a + v + c \in Byte
<1> SUFFICES ASSUME ~(c = 1 /\ Low(a) + Low(v) = 15)
             PROVE  /\ d.v = ToDecimal(sum % 100)
                    /\ CARRY \in d.f <=> sum >= 100 /\ a + v + c \in Byte
  OBVIOUS
<1>1. \/ c = 0 /\ n = AddOf(a, v, f)
      \/ c = CarryIn(f) /\ n = AdcOf(a, v, f)
  BY DEF SumOf
<1>2. /\ c \in {0, 1} /\ n.v = (a + v + c) % 256
      /\ CARRY \in n.f <=> a + v + c > 255
      /\ NEGATIVE \notin n.f
      /\ HALF \in n.f <=> Low(a) + Low(v) >= 16
  <2>1. c \in {0, 1} /\ Added(a, v, c, n)
    BY <1>1, AddIs
  <2> QED
    BY <2>1 DEF Added
<1>3. PICK t \in 0 .. 9, u \in 0 .. 9 : a = 16 * t + u /\ Low(a) = u /\ Decimal(a) = 10 * t + u
  BY DecimalIs
<1>4. PICK s \in 0 .. 9, w \in 0 .. 9 : v = 16 * s + w /\ Low(v) = w /\ Decimal(v) = 10 * s + w
  BY DecimalIs
<1> DEFINE q == t + s
           p == u + w + c
           r == n.v
           g == n.f
<1>5. /\ q \in 0 .. 18 /\ p \in 0 .. 19
      /\ a + v + c = 16 * q + p /\ sum = 10 * q + p
      /\ u + w >= 16 <=> p >= 16
  <2>1. q \in 0 .. 18 /\ p \in 0 .. 19 /\ sum = 10 * q + p
    <3>1. c \in {0, 1}
      BY <1>2
    <3>2. sum = (10 * t + u) + (10 * s + w) + c
      BY <1>3, <1>4
    <3>3. q \in 0 .. 18 /\ p \in 0 .. 19
      BY <3>1
    <3> QED
      BY <3>1, <3>2, <3>3
  <2>2. a + v + c = 16 * q + p
    BY <1>2, <1>3, <1>4
  <2>3. ~(c = 1 /\ u + w = 15)
    BY <1>3, <1>4
  <2>4. u + w >= 16 <=> p >= 16
    BY <1>2, <2>3
  <2> QED
    BY <2>1, <2>2, <2>4
<1>6. /\ r = (16 * q + p) % 256
      /\ CARRY \in g <=> 16 * q + p > 255
      /\ HALF \in g <=> p >= 16
      /\ NEGATIVE \notin g
  BY <1>2, <1>3, <1>4, <1>5
<1>7. d = Daa(r, g)
  OBVIOUS
<1> HIDE DEF q, p, r, g
<1>8. /\ r \in Byte /\ Adjustment(r, g) \in Byte
      /\ (r + Adjustment(r, g)) % 256 = ToDecimal((10 * q + p) % 100)
      /\ r + Adjustment(r, g) > 255 <=> 10 * q + p >= 100 /\ 16 * q + p <= 255
  BY <1>5, <1>6, DecimalAdd
<1>9. d.v = (r + Adjustment(r, g)) % 256 /\ (CARRY \in d.f <=> r + Adjustment(r, g) > 255)
  BY <1>7, <1>8, DaaIs
<1>10. a + v + c \in Byte <=> 16 * q + p <= 255
  BY <1>5 DEF Byte
<1> QED
  BY <1>5, <1>8, <1>9, <1>10

LEMMA DecimalDifferences ==
  ASSUME NEW op \in {\hD6, \hDE}, NEW a \in Byte, NEW v \in Byte, NEW f,
         IsDecimal(a), IsDecimal(v),
         NEW c, c = (IF op = \hDE THEN CarryIn(f) ELSE 0),
         NEW n, n = SumOf(op, a, v, f), NEW d, d = Daa(n.v, n.f),
         NEW sum, sum = Decimal(a) - Decimal(v) - c
  PROVE  \/ c = 1 /\ Low(a) = Low(v)
         \/ /\ d.v = ToDecimal(sum % 100)
            /\ CARRY \in d.f <=> sum < 0 \/ Low(a) < Low(v)
<1> SUFFICES ASSUME ~(c = 1 /\ Low(a) = Low(v))
             PROVE  /\ d.v = ToDecimal(sum % 100)
                    /\ CARRY \in d.f <=> sum < 0 \/ Low(a) < Low(v)
  OBVIOUS
<1>1. \/ c = 0 /\ n = SubOf(a, v, f)
      \/ c = CarryIn(f) /\ n = SbcOf(a, v, f)
  BY DEF SumOf
<1>2. /\ c \in {0, 1} /\ n.v = (a - v - c) % 256
      /\ CARRY \in n.f <=> a - v - c < 0
      /\ NEGATIVE \in n.f
      /\ HALF \in n.f <=> Low(a) < Low(v)
  <2>1. c \in {0, 1} /\ Subtracted(a, v, c, n)
    BY <1>1, SubIs
  <2> QED
    BY <2>1 DEF Subtracted
<1>3. PICK t \in 0 .. 9, u \in 0 .. 9 : a = 16 * t + u /\ Low(a) = u /\ Decimal(a) = 10 * t + u
  BY DecimalIs
<1>4. PICK s \in 0 .. 9, w \in 0 .. 9 : v = 16 * s + w /\ Low(v) = w /\ Decimal(v) = 10 * s + w
  BY DecimalIs
<1> DEFINE q == t - s
           p == u - w - c
           r == n.v
           g == n.f
<1>5. /\ q \in -9 .. 9 /\ p \in -10 .. 9
      /\ a - v - c = 16 * q + p /\ sum = 10 * q + p
      /\ u < w <=> p < 0
  <2>1. q \in -9 .. 9 /\ p \in -10 .. 9 /\ sum = 10 * q + p
    BY <1>2, <1>3, <1>4
  <2>2. a - v - c = 16 * q + p
    BY <1>2, <1>3, <1>4
  <2>3. ~(c = 1 /\ u = w)
    BY <1>3, <1>4
  <2>4. u < w <=> p < 0
    BY <1>2, <2>3
  <2> QED
    BY <2>1, <2>2, <2>4
<1>6. /\ r = (16 * q + p) % 256
      /\ CARRY \in g <=> 16 * q + p < 0
      /\ HALF \in g <=> p < 0
      /\ NEGATIVE \in g
  BY <1>2, <1>3, <1>4, <1>5
<1>7. d = Daa(r, g)
  OBVIOUS
<1>8. Low(a) < Low(v) <=> p < 0
  BY <1>3, <1>4, <1>5
<1> HIDE DEF q, p, r, g
<1>9. /\ r \in Byte /\ Adjustment(r, g) \in Byte
      /\ (r + Adjustment(r, g)) % 256 = ToDecimal((10 * q + p) % 100)
      /\ r + Adjustment(r, g) > 255 <=> 10 * q + p < 0 \/ p < 0
  <2>1. Difference(q, p, g, r)
    BY <1>5, <1>6 DEF Difference
  <2> QED
    BY <2>1, DecimalSubtract
<1>10. d.v = (r + Adjustment(r, g)) % 256 /\ (CARRY \in d.f <=> r + Adjustment(r, g) > 255)
  BY <1>7, <1>9, DaaIs
<1> QED
  BY <1>5, <1>8, <1>9, <1>10

LEMMA BcdIsDecimal ==
  ASSUME BcdInv
  PROVE  DecimalSum /\ DecimalDifference
<1> SUFFICES ASSUME Halted("bcd") PROVE DecimalSum /\ DecimalDifference
  BY DEF DecimalSum, DecimalDifference
<1>1. PICK op \in BcdOps, a \in Byte, v \in Byte, f \in {{}, {CARRY}} :
        /\ IsDecimal(a) /\ IsDecimal(v)
        /\ prog = Program("bcd", BcdCode(op, v), Regs(0, 0, 0, a, f, 0), NoData)
        /\ BcdAt(op, a, v, f)
  BY DEF BcdInv, Halted
<1> DEFINE n == SumOf(op, a, v, f)
           d == Daa(n.v, n.f)
<1>2. z.r[A] = d.v /\ z.f = d.f
  BY <1>1 DEF BcdAt, Halted
<1>3. prog.code[1] = op /\ prog.code[2] = v /\ Before = Regs(0, 0, 0, a, f, 0)
  BY <1>1 DEF Program, BcdCode, Before
<1>4. Before.r[A] = a /\ Before.f = f
  BY <1>3 DEF Regs, Blank, Reg, A, B, C, D, E, H, L
<1>5. n = SumOf(op, a, v, f) /\ d = Daa(n.v, n.f)
  OBVIOUS
<1> HIDE DEF n, d
<1>6. DecimalSum
  <2> SUFFICES ASSUME op \in {\hC6, \hCE}
               PROVE  LET c == IF op = \hCE THEN CarryIn(f) ELSE 0
                          s == Decimal(a) + Decimal(v) + c
                      IN  ~HalfMissed(a, v, c) => /\ z.r[A] = ToDecimal(s % 100)
                                                  /\ CarryDropped(a, v, c) \/ Carried = (s >= 100)
    BY <1>3, <1>4 DEF DecimalSum
  <2> DEFINE c == IF op = \hCE THEN CarryIn(f) ELSE 0
             s == Decimal(a) + Decimal(v) + c
  <2>1. c = (IF op = \hCE THEN CarryIn(f) ELSE 0) /\ s = Decimal(a) + Decimal(v) + c
    OBVIOUS
  <2> HIDE DEF c, s
  <2>2. \/ c = 1 /\ Low(a) + Low(v) = 15
        \/ /\ d.v = ToDecimal(s % 100)
           /\ CARRY \in d.f <=> s >= 100 /\ a + v + c \in Byte
    BY <1>1, <1>5, <2>1, DecimalSums
  <2>3. Carried <=> CARRY \in d.f
    BY <1>2 DEF Carried
  <2> USE DEF c, s
  <2> QED
    BY <1>2, <2>2, <2>3 DEF HalfMissed, CarryDropped, Carried
<1>7. DecimalDifference
  <2> SUFFICES ASSUME op \in {\hD6, \hDE}
               PROVE  LET c == IF op = \hDE THEN CarryIn(f) ELSE 0
                          s == Decimal(a) - Decimal(v) - c
                      IN  ~BorrowMissed(a, v, c) => /\ z.r[A] = ToDecimal(s % 100)
                                                    /\ CarryAdded(a, v, s) \/ Carried = (s < 0)
    BY <1>3, <1>4 DEF DecimalDifference
  <2> DEFINE c == IF op = \hDE THEN CarryIn(f) ELSE 0
             s == Decimal(a) - Decimal(v) - c
  <2>1. c = (IF op = \hDE THEN CarryIn(f) ELSE 0) /\ s = Decimal(a) - Decimal(v) - c
    OBVIOUS
  <2>4. s \in Int
    <3>1. Decimal(a) \in Int /\ Decimal(v) \in Int
      BY <1>1, DecimalIs
    <3> QED
      BY <3>1 DEF CarryIn
  <2> HIDE DEF c, s
  <2>2. \/ c = 1 /\ Low(a) = Low(v)
        \/ /\ d.v = ToDecimal(s % 100)
           /\ CARRY \in d.f <=> s < 0 \/ Low(a) < Low(v)
    BY <1>1, <1>5, <2>1, DecimalDifferences
  <2>3. Carried <=> CARRY \in d.f
    BY <1>2 DEF Carried
  <2> USE DEF c, s
  <2> QED
    <3>1. CarryAdded(a, v, s) \/ ((s < 0 \/ Low(a) < Low(v)) <=> s < 0)
      BY <2>4 DEF CarryAdded
    <3> QED
      BY <1>2, <2>2, <2>3, <3>1 DEF BorrowMissed, Carried
<1> QED
  BY <1>6, <1>7

-----------------------------------------------------------------------------
(* 16-bit sums at once: add, adc and sbc of HL and DE. *)
AdcWide(x, y, f) == Arith16(x, y, FALSE, f)
SbcWide(x, y, f) == Arith16(x, y, TRUE, f)

LEMMA Words == \A w : w \in Word <=> w \in Int /\ 0 <= w /\ w <= 65535
BY DEF Word

LEMMA WideIs ==
  ASSUME NEW f, NEW x \in Word, NEW y \in Word, NEW t, NEW n,
         \/ n = Add16(x, y, f) /\ t = x + y
         \/ n = AdcWide(x, y, f) /\ t = x + y + CarryIn(f)
         \/ n = SbcWide(x, y, f) /\ t = x - y - CarryIn(f)
  PROVE  /\ t \in Int /\ n.v = t % 65536 /\ n.v \in Word
         /\ CARRY \in n.f <=> t \notin Word
<1>1. /\ CarryIn(f) \in {0, 1}
      /\ x \in Int /\ 0 <= x /\ x <= 65535 /\ y \in Int /\ 0 <= y /\ y <= 65535
  BY Words DEF CarryIn
<1>2. t \in Int
  BY <1>1
<1>3. n.v = t % 65536
  <2>1. n = Add16(x, y, f) /\ t = x + y => n.v = t % 65536
    BY DEF Add16
  <2>2. n = AdcWide(x, y, f) /\ t = x + y + CarryIn(f) => n.v = t % 65536
    BY DEF AdcWide, Arith16
  <2>3. n = SbcWide(x, y, f) /\ t = x - y - CarryIn(f) => n.v = t % 65536
    BY DEF SbcWide, Arith16
  <2> QED
    BY <2>1, <2>2, <2>3
<1>4. n.v \in Word
  BY <1>2, <1>3, Words
<1>5. CARRY \in n.f <=> t \notin Word
  <2>1. CASE n = Add16(x, y, f) /\ t = x + y
    <3>1. t \in Int /\ 0 <= t
      BY <1>1, <2>1
    <3>2. t > 65535 <=> t \notin Word
      BY <3>1, Words
    <3>3. n.f = (f \ {NEGATIVE, CARRY}) \cup (IF t > 65535 THEN {CARRY} ELSE {})
      BY <2>1 DEF Add16, When
    <3> QED
      BY <3>2, <3>3
  <2>2. CASE n = AdcWide(x, y, f) /\ t = x + y + CarryIn(f)
    BY <2>2 DEF AdcWide, Arith16, When, ZERO, SIGN, CARRY, NEGATIVE, HALF, OVERFLOW, PARITY
  <2>3. CASE n = SbcWide(x, y, f) /\ t = x - y - CarryIn(f)
    BY <2>3 DEF SbcWide, Arith16, When, ZERO, SIGN, CARRY, NEGATIVE, HALF, OVERFLOW, PARITY
  <2> QED
    BY <2>1, <2>2, <2>3
<1> QED
  BY <1>2, <1>3, <1>4, <1>5

LEMMA ExtIns ==
  ASSUME CpuOK, Peek(z.pc) = \hED
  PROVE  Ins.set = "ext" /\ Ins.t = Peek(z.pc + 1) /\ Ins.at = 2
<1> DEFINE b(n) == Peek(z.pc + n)
<1>1. z.pc + 0 = z.pc
  BY FieldTypes DEF CpuOK, Word
<1>2. b(0) = \hED /\ b(1) = Peek(z.pc + 1)
  BY <1>1
<1>3. Ins = CASE b(0) = \hCB -> [set |-> "bit", t |-> b(1), at |-> 2]
              [] b(0) = \hED -> [set |-> "ext", t |-> b(1), at |-> 2]
              [] b(0) \in {\hDD, \hFD} /\ b(1) # \hCB -> [set |-> "ireg", t |-> b(1), at |-> 2]
              [] b(0) \in {\hDD, \hFD} /\ b(1) = \hCB -> [set |-> "iregbit", t |-> b(3), at |-> 4]
              [] OTHER -> [set |-> "main", t |-> b(0), at |-> 1]
  BY DEF Ins
<1> HIDE DEF b
<1>4. Ins = [set |-> "ext", t |-> b(1), at |-> 2]
  BY <1>2, <1>3
<1> QED
  BY <1>2, <1>4

LEMMA SelectsExt ==
  ASSUME NEW i, i.set = "ext", i.t \in {\h5A, \h52},
         \/ MainInstruction(i) \/ BitInstruction(i) \/ IregInstruction(i)
         \/ IregBitInstruction(i) \/ ExtInstruction(i) \/ Undefined(i)
  PROVE  ArithmeticHL(i)
<1>1. X(i.t) = 1 /\ Z(i.t) = 2
  BY DEF X, Z
<1>2. InSwitch(i)
  BY <1>1 DEF InSwitch
<1>3. ExtInstruction(i)
  BY <1>2 DEF MainInstruction, BitInstruction, IregInstruction, IregBitInstruction, Undefined
<1>4. ~LoadIR(i) /\ ~LoadPairDirect(i) /\ ~Negate(i) /\ ~RotateDigit(i)
      /\ ~ReturnFromInterrupt(i)
  BY <1>1 DEF LoadIR, LoadPairDirect, Negate, RotateDigit, ReturnFromInterrupt
<1>5. ~BlockLoad(i) /\ ~BlockCompare(i) /\ ~BlockIn(i) /\ ~BlockOut(i)
  BY <1>1 DEF BlockLoad, BlockCompare, BlockIn, BlockOut, Block
<1>6. ~InPort(i) /\ ~OutPort(i)
  BY <1>1 DEF InPort, OutPort
<1> QED
  BY <1>3, <1>4, <1>5, <1>6 DEF ExtInstruction

LEMMA PutHL ==
  ASSUME CpuOK, NEW pc, NEW f, NEW w \in Word,
         z' = WithPair([z EXCEPT !.pc = pc, !.f = f], "SP", 2, w)
  PROVE  z'.pc = pc /\ z'.st = z.st /\ z'.f = f /\ HL' = w
<1> DEFINE s == [z EXCEPT !.pc = pc, !.f = f]
           a == w \div 256
           b == w % 256
<1>1. s.r = z.r /\ s.pc = pc /\ s.f = f /\ s.st = z.st /\ "r" \in DOMAIN s
      /\ "pc" \in DOMAIN s /\ "f" \in DOMAIN s /\ "st" \in DOMAIN s
  BY DEF CpuOK, CpuState
<1>2. z' = [s EXCEPT !.r[4] = a, !.r[5] = b]
  BY DEF WithPair
<1>3. 256 * a + b = w
  <2>1. w \in Int
    BY Words
  <2> QED
    BY <2>1
<1> HIDE DEF s, a, b
<1>4. z'.pc = pc /\ z'.st = z.st /\ z'.f = f
  BY <1>1, <1>2
<1>5. z'.r[4] = a /\ z'.r[5] = b
  <2>1. z.r \in [Reg -> Byte] /\ 4 \in Reg /\ 5 \in Reg
    BY DEF CpuOK, CpuState, Reg
  <2>2. z'.r = [s.r EXCEPT ![4] = a, ![5] = b]
    BY <1>1, <1>2
  <2> QED
    BY <1>1, <2>1, <2>2
<1>6. HL' = 256 * z'.r[4] + z'.r[5]
  <2>1. 2 * 2 = 4 /\ 2 * 2 + 1 = 5 /\ 2 < 3
    OBVIOUS
  <2> QED
    BY <2>1 DEF HL, Pair
<1> QED
  BY <1>3, <1>4, <1>5, <1>6

\* What add hl,de, adc hl,de and sbc hl,de are to leave.
WideTotal(t, x, y, f) ==
  CASE t = \h19 -> x + y
    [] t = \h5A -> x + y + CarryIn(f)
    [] t = \h52 -> x - y - CarryIn(f)

LEMMA WideRuns ==
  ASSUME CpuOK, NEW i, InsOK(i),
         \/ i.t = \h19 /\ i.at = 1 /\ AddHL(i)
         \/ i.t \in {\h5A, \h52} /\ i.at = 2 /\ ArithmeticHL(i),
         NEW t, t = WideTotal(i.t, HL, DE, z.f)
  PROVE  /\ GoesOn(Wrap(z.pc + i.at)) /\ HL' = t % 65536
         /\ CARRY \in z'.f <=> t \notin Word
<1> DEFINE x == HL
           y == DE
           f == z.f
           n == CASE i.t = \h19 -> Add16(x, y, f)
                  [] i.t = \h5A -> AdcWide(x, y, f)
                  [] i.t = \h52 -> SbcWide(x, y, f)
           p == Wrap(z.pc + i.at)
<1>1. x \in Word /\ y \in Word
  BY PairsTypes
<1>2. P(i.t) = 1
  BY DEF P, Y
<1>3. Past(i, 0) = [z EXCEPT !.pc = p]
  <2>1. Past(i, 0) = [z EXCEPT !.pc = Wrap(z.pc + i.at + 0)]
    BY PastIs
  <2>2. z.pc + i.at + 0 = z.pc + i.at
    BY FieldTypes DEF CpuOK, Word, InsOK
  <2> QED
    BY <2>1, <2>2
<1>4. z' = WithPair([Past(i, 0) EXCEPT !.f = n.f], "SP", 2, n.v) /\ mem' = mem
  <2>1. CASE i.t = \h19
    BY <1>2, <2>1 DEF AddHL, DE, ArithmeticHL
  <2>2. CASE i.t = \h5A
    <3>1. Y(i.t) = 3
      BY <2>2 DEF Y
    <3>2. (Y(i.t) % 2 = 0) = FALSE
      BY <3>1
    <3>3. n = AdcWide(HL, DE, z.f) /\ Pair("SP", P(i.t)) = DE
      BY <1>2, <2>2 DEF DE
    <3>4. z' = WithPair([Past(i, 0) EXCEPT !.f = AdcWide(HL, DE, z.f).f], "SP", 2,
                        AdcWide(HL, DE, z.f).v) /\ mem' = mem
      <4>1. ArithmeticHL(i)
        BY <2>2
      <4> QED
        BY <3>2, <3>3, <4>1, Zenon DEF ArithmeticHL, AdcWide
    <3> HIDE DEF n
    <3> QED
      BY <3>3, <3>4
  <2>3. CASE i.t = \h52
    <3>1. Y(i.t) = 2
      BY <2>3 DEF Y
    <3>2. (Y(i.t) % 2 = 0) = TRUE
      BY <3>1
    <3>3. n = SbcWide(HL, DE, z.f) /\ Pair("SP", P(i.t)) = DE
      BY <1>2, <2>3 DEF DE
    <3>4. z' = WithPair([Past(i, 0) EXCEPT !.f = SbcWide(HL, DE, z.f).f], "SP", 2,
                        SbcWide(HL, DE, z.f).v) /\ mem' = mem
      <4>1. ArithmeticHL(i)
        BY <2>3
      <4> QED
        BY <3>2, <3>3, <4>1, Zenon DEF ArithmeticHL, SbcWide
    <3> HIDE DEF n
    <3> QED
      BY <3>3, <3>4
  <2> QED
    BY <2>1, <2>2, <2>3
<1>5. \/ n = Add16(x, y, f) /\ t = x + y
      \/ n = AdcWide(x, y, f) /\ t = x + y + CarryIn(f)
      \/ n = SbcWide(x, y, f) /\ t = x - y - CarryIn(f)
  BY DEF WideTotal
<1> HIDE DEF x, y, f, n, p
<1>6. /\ n.v = t % 65536 /\ n.v \in Word
      /\ CARRY \in n.f <=> t \notin Word
  BY <1>1, <1>5, WideIs
<1>7. z' = WithPair([z EXCEPT !.pc = p, !.f = n.f], "SP", 2, n.v)
  BY <1>3, <1>4
<1>8. z'.pc = p /\ z'.st = z.st /\ z'.f = n.f /\ HL' = n.v
  <2> DEFINE g == n.f
             w == n.v
  <2>1. w \in Word /\ z' = WithPair([z EXCEPT !.pc = p, !.f = g], "SP", 2, w)
    BY <1>6, <1>7
  <2> HIDE DEF g, w
  <2>2. z'.pc = p /\ z'.st = z.st /\ z'.f = g /\ HL' = w
    BY <2>1, PutHL
  <2> QED
    BY <2>2 DEF g, w
<1> QED
  BY <1>4, <1>6, <1>8 DEF GoesOn, p

-----------------------------------------------------------------------------
(* The programs that add and subtract 16 bits, at once or byte by byte,    *)
(* named by the opcode that they differ in.                                *)
SumOps == {\h19, \h5A, \h52, \h83, \h93}

Upper(op) == IF op = \h83 THEN \h8A ELSE \h9A

SumCode(op) ==
  IF op = \h19 THEN <<\h19, \h76>>
  ELSE IF op \in {\h5A, \h52} THEN <<\hED, op, \h76>>
  ELSE <<\h7D, op, \h6F, \h7C, Upper(op), \h67, \h76>>

\* What such a program is to leave of h * 256 + l and d * 256 + e.
Total(op, h, l, d, e, f) ==
  LET x == 256 * h + l
      y == 256 * d + e
      c == IF op \in {\h5A, \h52} THEN CarryIn(f) ELSE 0
  IN  IF op \in {\h52, \h93} THEN x - y - c ELSE x + y + c

Holding(h, l, d, e, f) ==
  z.r[H] = h /\ z.r[L] = l /\ z.r[D] = d /\ z.r[E] = e /\ z.f = f

Summed(t) == HL = t % 65536 /\ (CARRY \in z.f <=> t \notin Word)

WideAt(op, h, l, d, e, f) ==
  \/ z.st = "run" /\ z.pc = 256 /\ Holding(h, l, d, e, f)
  \/ /\ z.st = "run" /\ z.pc = (IF op = \h19 THEN 257 ELSE 258)
     /\ Summed(Total(op, h, l, d, e, f))
  \/ z.st = "halt" /\ Summed(Total(op, h, l, d, e, f))

\* The sums of the lower and of the upper bytes.
LowSum(op, l, e, f)        == SumOf(op, l, e, f)
HighSum(op, h, l, d, e, f) == SumOf(Upper(op), h, d, LowSum(op, l, e, f).f)

ByteAt(op, h, l, d, e, f) ==
  LET m == LowSum(op, l, e, f)
      n == HighSum(op, h, l, d, e, f)
  IN  \/ z.st = "run" /\ z.pc = 256 /\ Holding(h, l, d, e, f)
      \/ z.st = "run" /\ z.pc = 257 /\ Holding(h, l, d, e, f) /\ z.r[A] = l
      \/ z.st = "run" /\ z.pc = 258 /\ z.r[A] = m.v /\ z.r[H] = h /\ z.r[D] = d /\ z.f = m.f
      \/ z.st = "run" /\ z.pc = 259 /\ z.r[L] = m.v /\ z.r[H] = h /\ z.r[D] = d /\ z.f = m.f
      \/ /\ z.st = "run" /\ z.pc = 260 /\ z.r[A] = h /\ z.r[L] = m.v /\ z.r[D] = d
         /\ z.f = m.f
      \/ z.st = "run" /\ z.pc = 261 /\ z.r[A] = n.v /\ z.r[L] = m.v /\ z.f = n.f
      \/ z.st = "run" /\ z.pc = 262 /\ z.r[H] = n.v /\ z.r[L] = m.v /\ z.f = n.f
      \/ z.st = "halt" /\ z.r[H] = n.v /\ z.r[L] = m.v /\ z.f = n.f

SumAt(op, h, l, d, e, f) ==
  IF op \in {\h83, \h93} THEN ByteAt(op, h, l, d, e, f) ELSE WideAt(op, h, l, d, e, f)

SumStart(op, h, l, d, e, f) ==
  Program("sum", SumCode(op), Regs(0, 256 * d + e, 256 * h + l, 0, f, 0), NoData)

SumRuns(op, h, l, d, e, f) ==
  /\ prog = SumStart(op, h, l, d, e, f)
  /\ mem = Loaded(Bytes(Org, SumCode(op)), NoData)
  /\ SumAt(op, h, l, d, e, f)

SumInv ==
  prog.kind = "sum" =>
    \E op \in SumOps, h \in Byte, l \in Byte, d \in Byte, e \in Byte, f \in {{}, {CARRY}} :
      SumRuns(op, h, l, d, e, f)

LEMMA SumCodeIs ==
  ASSUME NEW op \in SumOps
  PROVE  /\ SumCode(op) \in ByteCode
         /\ Len(SumCode(op)) = IF op = \h19 THEN 2 ELSE IF op \in {\h5A, \h52} THEN 3 ELSE 7
<1>1. {op, Upper(op), \h19, \h76, \hED, \h7D, \h6F, \h7C, \h67} \subseteq Byte
  BY DEF Byte, SumOps, Upper
<1> QED
  BY <1>1 DEF ByteCode, SumCode

LEMMA SumBytes ==
  ASSUME NEW op \in SumOps, mem = Loaded(Bytes(Org, SumCode(op)), NoData)
  PROVE  /\ op = \h19 => Peek(256) = \h19 /\ Peek(257) = \h76
         /\ op \in {\h5A, \h52} => Peek(256) = \hED /\ Peek(257) = op /\ Peek(258) = \h76
         /\ op \in {\h83, \h93} =>
              /\ Peek(256) = \h7D /\ Peek(257) = op /\ Peek(258) = \h6F /\ Peek(259) = \h7C
              /\ Peek(260) = Upper(op) /\ Peek(261) = \h67 /\ Peek(262) = \h76
<1>1. ASSUME NEW k \in 1 .. Len(SumCode(op)), NEW a, a = 255 + k
      PROVE  Peek(a) = SumCode(op)[k]
  <2>1. Peek(Org + k - 1) = SumCode(op)[k]
    BY SumCodeIs, Fetched
  <2>2. Org + k - 1 = 255 + k
    BY SumCodeIs DEF Org
  <2> QED
    BY <1>1, <2>1, <2>2
<1>2. CASE op = \h19
  <2>1. Peek(256) = SumCode(op)[1] /\ Peek(257) = SumCode(op)[2]
    BY <1>1, <1>2, SumCodeIs
  <2> QED
    BY <1>2, <2>1 DEF SumCode
<1>3. CASE op \in {\h5A, \h52}
  <2>1. Peek(256) = SumCode(op)[1] /\ Peek(257) = SumCode(op)[2] /\ Peek(258) = SumCode(op)[3]
    BY <1>1, <1>3, SumCodeIs
  <2> QED
    BY <1>3, <2>1 DEF SumCode
<1>4. CASE op \in {\h83, \h93}
  <2>1. /\ Peek(256) = SumCode(op)[1] /\ Peek(257) = SumCode(op)[2]
        /\ Peek(258) = SumCode(op)[3] /\ Peek(259) = SumCode(op)[4]
        /\ Peek(260) = SumCode(op)[5] /\ Peek(261) = SumCode(op)[6]
        /\ Peek(262) = SumCode(op)[7]
    BY <1>1, <1>4, SumCodeIs
  <2> QED
    BY <1>4, <2>1 DEF SumCode
<1> QED
  BY <1>2, <1>3, <1>4 DEF SumOps

LEMMA WideStep ==
  ASSUME CpuOK, NEW op \in {\h19, \h5A, \h52}, NEW h \in Byte, NEW l \in Byte,
         NEW d \in Byte, NEW e \in Byte, NEW f,
         mem = Loaded(Bytes(Org, SumCode(op)), NoData),
         WideAt(op, h, l, d, e, f), z.st = "run", Next
  PROVE  mem' = mem /\ WideAt(op, h, l, d, e, f)'
<1> DEFINE i == Ins
           t == Total(op, h, l, d, e, f)
<1>1. op \in SumOps
  BY DEF SumOps
<1>2. InsOK(i)
  BY InsTypes
<1>3. CASE z.pc = 256 /\ Holding(h, l, d, e, f)
  <2>1. HL = 256 * h + l /\ DE = 256 * d + e
    BY <1>3 DEF Holding, HL, DE, Pair, H, L, D, E
  <2>2. t = WideTotal(op, HL, DE, z.f)
    <3>1. z.f = f
      BY <1>3 DEF Holding
    <3>2. /\ h \in Int /\ l \in Int /\ d \in Int /\ e \in Int
      BY DEF Byte
    <3> QED
      BY <2>1, <3>1, <3>2 DEF Total, WideTotal
  <2>3. /\ i.t = op
        /\ \/ i.t = \h19 /\ i.at = 1 /\ AddHL(i)
           \/ i.t \in {\h5A, \h52} /\ i.at = 2 /\ ArithmeticHL(i)
    <3>1. CASE op = \h19
      <4>1. Peek(z.pc) = \h19
        BY <1>1, <1>3, <3>1, SumBytes
      <4>2. i.set = "main" /\ i.t = \h19 /\ i.at = 1
        BY <4>1, MainIns
      <4> HIDE DEF i
      <4>3. MainInstruction(i)
        BY <4>2, OnlyMain DEF Next, Execute, i
      <4> QED
        BY <3>1, <4>2, <4>3, Selects
    <3>2. CASE op \in {\h5A, \h52}
      <4>1. Peek(z.pc) = \hED /\ Peek(z.pc + 1) = op
        BY <1>1, <1>3, <3>2, SumBytes
      <4>2. i.set = "ext" /\ i.t = op /\ i.at = 2
        BY <4>1, ExtIns
      <4>3. \/ MainInstruction(i) \/ BitInstruction(i) \/ IregInstruction(i)
            \/ IregBitInstruction(i) \/ ExtInstruction(i) \/ Undefined(i)
        BY DEF Next, Execute
      <4> HIDE DEF i
      <4> QED
        BY <3>2, <4>2, <4>3, SelectsExt
    <3> QED
      BY <3>1, <3>2
  <2>4. t = WideTotal(i.t, HL, DE, z.f)
    BY <2>2, <2>3
  <2> HIDE DEF i, t
  <2>5. /\ GoesOn(Wrap(z.pc + i.at)) /\ HL' = t % 65536
        /\ CARRY \in z'.f <=> t \notin Word
    BY <1>2, <2>3, <2>4, WideRuns
  <2>6. Wrap(z.pc + i.at) = IF op = \h19 THEN 257 ELSE 258
    BY <1>3, <2>3 DEF Wrap
  <2> QED
    BY <1>3, <2>5, <2>6 DEF GoesOn, WideAt, Summed, t
<1>4. CASE z.pc = (IF op = \h19 THEN 257 ELSE 258) /\ Summed(t)
  <2>1. Peek(z.pc) = \h76
    BY <1>1, <1>4, SumBytes
  <2>2. i.set = "main" /\ i.t = \h76 /\ i.at = 1
    BY <2>1, MainIns
  <2> HIDE DEF i
  <2>3. MainInstruction(i)
    BY <2>2, OnlyMain DEF Next, Execute, i
  <2>4. z'.st = "halt" /\ z'.r = z.r /\ z'.f = z.f /\ mem' = mem
    BY <1>2, <2>2, <2>3, Selects, HaltRuns
  <2>5. HL' = HL
    BY <2>4 DEF HL, Pair
  <2> QED
    BY <1>4, <2>4, <2>5 DEF WideAt, Summed
<1> QED
  BY <1>3, <1>4 DEF WideAt

LEMMA ByteStep ==
  ASSUME CpuOK, NEW op \in {\h83, \h93}, NEW h \in Byte, NEW l \in Byte,
         NEW d \in Byte, NEW e \in Byte, NEW f,
         mem = Loaded(Bytes(Org, SumCode(op)), NoData),
         ByteAt(op, h, l, d, e, f), z.st = "run", Next
  PROVE  mem' = mem /\ ByteAt(op, h, l, d, e, f)'
<1> DEFINE i == Ins
           m == LowSum(op, l, e, f)
           n == HighSum(op, h, l, d, e, f)
<1>1. \/ z.pc = 256 /\ Holding(h, l, d, e, f)
      \/ z.pc = 257 /\ Holding(h, l, d, e, f) /\ z.r[A] = l
      \/ z.pc = 258 /\ z.r[A] = m.v /\ z.r[H] = h /\ z.r[D] = d /\ z.f = m.f
      \/ z.pc = 259 /\ z.r[L] = m.v /\ z.r[H] = h /\ z.r[D] = d /\ z.f = m.f
      \/ z.pc = 260 /\ z.r[A] = h /\ z.r[L] = m.v /\ z.r[D] = d /\ z.f = m.f
      \/ z.pc = 261 /\ z.r[A] = n.v /\ z.r[L] = m.v /\ z.f = n.f
      \/ z.pc = 262 /\ z.r[H] = n.v /\ z.r[L] = m.v /\ z.f = n.f
  BY DEF ByteAt
<1>2. /\ Peek(256) = \h7D /\ Peek(257) = op /\ Peek(258) = \h6F /\ Peek(259) = \h7C
      /\ Peek(260) = Upper(op) /\ Peek(261) = \h67 /\ Peek(262) = \h76
  BY SumBytes DEF SumOps
<1>3. i.set = "main" /\ i.t = Peek(z.pc) /\ i.at = 1 /\ InsOK(i)
  <2>1. Peek(z.pc) \in {\h7D, \h83, \h93, \h6F, \h7C, \h8A, \h9A, \h67, \h76}
    BY <1>1, <1>2 DEF Upper
  <2> QED
    BY <2>1, MainIns, InsTypes
<1>4. MainInstruction(i)
  BY <1>3, OnlyMain DEF Next, Execute
<1>5. /\ z.r \in [Reg -> Byte] /\ {A, D, E, H, L} \subseteq Reg
      /\ A # D /\ A # E /\ A # H /\ A # L /\ D # E /\ D # H /\ D # L
      /\ E # H /\ E # L /\ H # L
  BY DEF CpuOK, CpuState, Reg, A, D, E, H, L
<1> HIDE DEF i, m, n
<1>6. \/ z'.st = "run" /\ z'.pc = 257 /\ Holding(h, l, d, e, f)' /\ z'.r[A] = l
      \/ z'.st = "run" /\ z'.pc = 258 /\ z'.r[A] = m.v /\ z'.r[H] = h /\ z'.r[D] = d
         /\ z'.f = m.f
      \/ z'.st = "run" /\ z'.pc = 259 /\ z'.r[L] = m.v /\ z'.r[H] = h /\ z'.r[D] = d
         /\ z'.f = m.f
      \/ z'.st = "run" /\ z'.pc = 260 /\ z'.r[A] = h /\ z'.r[L] = m.v /\ z'.r[D] = d
         /\ z'.f = m.f
      \/ z'.st = "run" /\ z'.pc = 261 /\ z'.r[A] = n.v /\ z'.r[L] = m.v /\ z'.f = n.f
      \/ z'.st = "run" /\ z'.pc = 262 /\ z'.r[H] = n.v /\ z'.r[L] = m.v /\ z'.f = n.f
      \/ z'.st = "halt" /\ z'.r[H] = n.v /\ z'.r[L] = m.v /\ z'.f = n.f
      => ByteAt(op, h, l, d, e, f)'
  BY DEF ByteAt, m, n
<1>7. CASE z.pc = 256 /\ Holding(h, l, d, e, f)
  <2>1. LoadRegister(i) /\ i.t = \h7D
    BY <1>2, <1>3, <1>4, <1>7, Selects
  <2>2. GoesOn(Wrap(z.pc + 1)) /\ z'.f = z.f /\ z'.r = [z.r EXCEPT ![A] = z.r[L]]
    BY <1>3, <1>5, <2>1, LoadRuns
  <2>3. Wrap(z.pc + 1) = 257
    BY <1>7 DEF Wrap
  <2>4. /\ z'.r[A] = z.r[L] /\ z'.r[H] = z.r[H] /\ z'.r[L] = z.r[L] /\ z'.r[D] = z.r[D]
        /\ z'.r[E] = z.r[E]
    BY <1>5, <2>2
  <2>5. Holding(h, l, d, e, f)' /\ z'.r[A] = l
    BY <1>7, <2>2, <2>4 DEF Holding
  <2> QED
    BY <1>6, <2>2, <2>3, <2>5 DEF GoesOn
<1>8. CASE z.pc = 257 /\ Holding(h, l, d, e, f) /\ z.r[A] = l
  <2>1. Arithmetic(i) /\ i.t = op
    BY <1>2, <1>3, <1>4, <1>8, Selects
  <2>2. /\ GoesOn(Wrap(z.pc + (IF i.t < \hC0 THEN 1 ELSE 2)))
        /\ z'.f = SumOf(i.t, z.r[A], e, z.f).f
        /\ z'.r = [z.r EXCEPT ![A] = SumOf(i.t, z.r[A], e, z.f).v]
    <3>1. i.t \in {\h83, \h93} /\ e = z.r[E]
      BY <1>8, <2>1 DEF Holding
    <3> QED
      BY <1>3, <2>1, <3>1, ArithmeticRuns
  <2>3. Wrap(z.pc + (IF i.t < \hC0 THEN 1 ELSE 2)) = 258
    BY <1>8, <2>1 DEF Wrap
  <2>4. SumOf(i.t, z.r[A], e, z.f) = m
    BY <1>8, <2>1 DEF Holding, LowSum, m
  <2>5. z'.r[A] = m.v /\ z'.r[H] = h /\ z'.r[D] = d /\ z'.f = m.f
    BY <1>5, <1>8, <2>2, <2>4 DEF Holding
  <2> QED
    BY <1>6, <2>2, <2>3, <2>5 DEF GoesOn
<1>9. CASE z.pc = 258 /\ z.r[A] = m.v /\ z.r[H] = h /\ z.r[D] = d /\ z.f = m.f
  <2>1. LoadRegister(i) /\ i.t = \h6F
    BY <1>2, <1>3, <1>4, <1>9, Selects
  <2>2. GoesOn(Wrap(z.pc + 1)) /\ z'.f = z.f /\ z'.r = [z.r EXCEPT ![L] = z.r[A]]
    BY <1>3, <1>5, <2>1, LoadRuns
  <2>3. Wrap(z.pc + 1) = 259
    BY <1>9 DEF Wrap
  <2>4. z'.r[L] = m.v /\ z'.r[H] = h /\ z'.r[D] = d /\ z'.f = m.f
    BY <1>5, <1>9, <2>2
  <2> QED
    BY <1>6, <2>2, <2>3, <2>4 DEF GoesOn
<1>10. CASE z.pc = 259 /\ z.r[L] = m.v /\ z.r[H] = h /\ z.r[D] = d /\ z.f = m.f
  <2>1. LoadRegister(i) /\ i.t = \h7C
    BY <1>2, <1>3, <1>4, <1>10, Selects
  <2>2. GoesOn(Wrap(z.pc + 1)) /\ z'.f = z.f /\ z'.r = [z.r EXCEPT ![A] = z.r[H]]
    BY <1>3, <1>5, <2>1, LoadRuns
  <2>3. Wrap(z.pc + 1) = 260
    BY <1>10 DEF Wrap
  <2>4. z'.r[A] = h /\ z'.r[L] = m.v /\ z'.r[D] = d /\ z'.f = m.f
    BY <1>5, <1>10, <2>2
  <2> QED
    BY <1>6, <2>2, <2>3, <2>4 DEF GoesOn
<1>11. CASE z.pc = 260 /\ z.r[A] = h /\ z.r[L] = m.v /\ z.r[D] = d /\ z.f = m.f
  <2>1. Arithmetic(i) /\ i.t = Upper(op) /\ i.t \in {\h8A, \h9A}
    BY <1>2, <1>3, <1>4, <1>11, Selects DEF Upper
  <2>2. /\ GoesOn(Wrap(z.pc + (IF i.t < \hC0 THEN 1 ELSE 2)))
        /\ z'.f = SumOf(i.t, z.r[A], d, z.f).f
        /\ z'.r = [z.r EXCEPT ![A] = SumOf(i.t, z.r[A], d, z.f).v]
    <3>1. i.t \in {\h8A, \h9A} /\ d = z.r[D]
      BY <1>11, <2>1
    <3> QED
      BY <1>3, <2>1, <3>1, ArithmeticRuns
  <2>3. Wrap(z.pc + (IF i.t < \hC0 THEN 1 ELSE 2)) = 261
    BY <1>11, <2>1 DEF Wrap
  <2>4. SumOf(i.t, z.r[A], d, z.f) = n
    BY <1>11, <2>1 DEF HighSum, m, n
  <2>5. z'.r[A] = n.v /\ z'.r[L] = m.v /\ z'.f = n.f
    BY <1>5, <1>11, <2>2, <2>4
  <2> QED
    BY <1>6, <2>2, <2>3, <2>5 DEF GoesOn
<1>12. CASE z.pc = 261 /\ z.r[A] = n.v /\ z.r[L] = m.v /\ z.f = n.f
  <2>1. LoadRegister(i) /\ i.t = \h67
    BY <1>2, <1>3, <1>4, <1>12, Selects
  <2>2. GoesOn(Wrap(z.pc + 1)) /\ z'.f = z.f /\ z'.r = [z.r EXCEPT ![H] = z.r[A]]
    BY <1>3, <1>5, <2>1, LoadRuns
  <2>3. Wrap(z.pc + 1) = 262
    BY <1>12 DEF Wrap
  <2>4. z'.r[H] = n.v /\ z'.r[L] = m.v /\ z'.f = n.f
    BY <1>5, <1>12, <2>2
  <2> QED
    BY <1>6, <2>2, <2>3, <2>4 DEF GoesOn
<1>13. CASE z.pc = 262 /\ z.r[H] = n.v /\ z.r[L] = m.v /\ z.f = n.f
  <2>1. Control(i) /\ i.t = \h76
    BY <1>2, <1>3, <1>4, <1>13, Selects
  <2>2. z'.st = "halt" /\ z'.r = z.r /\ z'.f = z.f /\ mem' = mem
    BY <1>3, <2>1, HaltRuns
  <2> QED
    BY <1>6, <1>13, <2>2
<1> QED
  BY <1>1, <1>7, <1>8, <1>9, <1>10, <1>11, <1>12, <1>13

(* The two bytes and the carry between them make the 16-bit sum. *)
LEMMA BytesAdd ==
  ASSUME NEW op \in {\h83, \h93}, NEW h \in Byte, NEW l \in Byte,
         NEW d \in Byte, NEW e \in Byte, NEW f,
         NEW m, m = LowSum(op, l, e, f), NEW n, n = HighSum(op, h, l, d, e, f),
         NEW t, t = Total(op, h, l, d, e, f)
  PROVE  256 * n.v + m.v = t % 65536 /\ (CARRY \in n.f <=> t \notin Word)
<1> DEFINE g == m.f
           c == CarryIn(g)
<1>1. c = (IF CARRY \in g THEN 1 ELSE 0) /\ n = SumOf(Upper(op), h, d, g)
  BY DEF CarryIn, HighSum
<1>2. /\ h \in Int /\ 0 <= h /\ h <= 255 /\ l \in Int /\ 0 <= l /\ l <= 255
      /\ d \in Int /\ 0 <= d /\ d <= 255 /\ e \in Int /\ 0 <= e /\ e <= 255
  BY DEF Byte
<1> DEFINE k == 0
<1>3. k = 0 /\ (c = CarryIn(g))
  OBVIOUS
<1> HIDE DEF g, c, k
<1>4. CASE op = \h83
  <2>1. m = AddOf(l, e, f) /\ n = AdcOf(h, d, g)
    BY <1>1, <1>4 DEF LowSum, SumOf, Upper
  <2>2. m.v = (l + e + k) % 256 /\ (CARRY \in g <=> l + e + k > 255)
    <3>1. Added(l, e, k, m)
      BY <1>3, <2>1, AddIs
    <3> QED
      BY <3>1 DEF g, Added
  <2>3. n.v = (h + d + c) % 256 /\ (CARRY \in n.f <=> h + d + c > 255)
    <3>1. Added(h, d, c, n)
      BY <1>3, <2>1, AddIs
    <3> QED
      BY <3>1 DEF Added
  <2>4. t = 256 * (h + d) + (l + e)
    BY <1>2, <1>4 DEF Total
  <2>5. CASE l + e <= 255
    <3>1. c = 0 /\ m.v = l + e
      BY <1>1, <1>2, <1>3, <2>2, <2>5
    <3>2. CASE h + d <= 255
      <4>1. n.v = h + d /\ CARRY \notin n.f
        BY <1>2, <2>3, <3>1, <3>2
      <4>2. 256 * n.v + m.v = t /\ t \in Int /\ 0 <= t /\ t <= 65535
        BY <1>2, <2>4, <2>5, <3>1, <3>2, <4>1
      <4> QED
        BY <4>1, <4>2, Words
    <3>3. CASE h + d > 255
      <4>1. n.v = h + d - 256 /\ CARRY \in n.f
        BY <1>2, <2>3, <3>1, <3>3
      <4>2. /\ 256 * n.v + m.v = t - 65536 /\ t \in Int /\ 65536 <= t /\ t <= 131071
        BY <1>2, <2>4, <2>5, <3>1, <3>3, <4>1
      <4> QED
        BY <4>1, <4>2, Words
    <3> QED
      BY <1>2, <3>2, <3>3
  <2>6. CASE l + e > 255
    <3>1. c = 1 /\ m.v = l + e - 256
      BY <1>1, <1>2, <1>3, <2>2, <2>6
    <3>2. CASE h + d + 1 <= 255
      <4>1. n.v = h + d + 1 /\ CARRY \notin n.f
        BY <1>2, <2>3, <3>1, <3>2
      <4>2. 256 * n.v + m.v = t /\ t \in Int /\ 0 <= t /\ t <= 65535
        BY <1>2, <2>4, <2>6, <3>1, <3>2, <4>1
      <4> QED
        BY <4>1, <4>2, Words
    <3>3. CASE h + d + 1 > 255
      <4>1. n.v = h + d + 1 - 256 /\ CARRY \in n.f
        BY <1>2, <2>3, <3>1, <3>3
      <4>2. /\ 256 * n.v + m.v = t - 65536 /\ t \in Int /\ 65536 <= t /\ t <= 131071
        BY <1>2, <2>4, <2>6, <3>1, <3>3, <4>1
      <4> QED
        BY <4>1, <4>2, Words
    <3> QED
      BY <1>2, <3>2, <3>3
  <2> QED
    BY <1>2, <2>5, <2>6
<1>5. CASE op = \h93
  <2>1. m = SubOf(l, e, f) /\ n = SbcOf(h, d, g)
    BY <1>1, <1>5 DEF LowSum, SumOf, Upper
  <2>2. m.v = (l - e - k) % 256 /\ (CARRY \in g <=> l - e - k < 0)
    <3>1. Subtracted(l, e, k, m)
      BY <1>3, <2>1, SubIs
    <3> QED
      BY <3>1 DEF g, Subtracted
  <2>3. n.v = (h - d - c) % 256 /\ (CARRY \in n.f <=> h - d - c < 0)
    <3>1. Subtracted(h, d, c, n)
      BY <1>3, <2>1, SubIs
    <3> QED
      BY <3>1 DEF Subtracted
  <2>4. t = 256 * (h - d) + (l - e)
    BY <1>2, <1>5 DEF Total
  <2>5. CASE l >= e
    <3>1. c = 0 /\ m.v = l - e
      BY <1>1, <1>2, <1>3, <2>2, <2>5
    <3>2. CASE h >= d
      <4>1. n.v = h - d /\ CARRY \notin n.f
        BY <1>2, <2>3, <3>1, <3>2
      <4>2. 256 * n.v + m.v = t /\ t \in Int /\ 0 <= t /\ t <= 65535
        BY <1>2, <2>4, <2>5, <3>1, <3>2, <4>1
      <4> QED
        BY <4>1, <4>2, Words
    <3>3. CASE h < d
      <4>1. n.v = h - d + 256 /\ CARRY \in n.f
        BY <1>2, <2>3, <3>1, <3>3
      <4>2. 256 * n.v + m.v = t + 65536 /\ t \in Int /\ -65536 <= t /\ t < 0
        BY <1>2, <2>4, <2>5, <3>1, <3>3, <4>1
      <4> QED
        BY <4>1, <4>2, Words
    <3> QED
      BY <1>2, <3>2, <3>3
  <2>6. CASE l < e
    <3>1. c = 1 /\ m.v = l - e + 256
      BY <1>1, <1>2, <1>3, <2>2, <2>6
    <3>2. CASE h - d - 1 >= 0
      <4>1. n.v = h - d - 1 /\ CARRY \notin n.f
        BY <1>2, <2>3, <3>1, <3>2
      <4>2. 256 * n.v + m.v = t /\ t \in Int /\ 0 <= t /\ t <= 65535
        BY <1>2, <2>4, <2>6, <3>1, <3>2, <4>1
      <4> QED
        BY <4>1, <4>2, Words
    <3>3. CASE h - d - 1 < 0
      <4>1. n.v = h - d - 1 + 256 /\ CARRY \in n.f
        BY <1>2, <2>3, <3>1, <3>3
      <4>2. 256 * n.v + m.v = t + 65536 /\ t \in Int /\ -65536 <= t /\ t < 0
        BY <1>2, <2>4, <2>6, <3>1, <3>3, <4>1
      <4> QED
        BY <4>1, <4>2, Words
    <3> QED
      BY <1>2, <3>2, <3>3
  <2> QED
    BY <1>2, <2>5, <2>6
<1> QED
  BY <1>4, <1>5

LEMMA WordIs ==
  ASSUME NEW h \in Byte, NEW l \in Byte
  PROVE  /\ 256 * h + l \in Word
         /\ (256 * h + l) \div 256 = h /\ (256 * h + l) % 256 = l
<1>1. h \in Int /\ 0 <= h /\ h <= 255 /\ l \in Int /\ 0 <= l /\ l <= 255
  BY DEF Byte
<1>2. (256 * h + l) \div 256 = h /\ (256 * h + l) % 256 = l
  BY <1>1
<1> QED
  BY <1>2, WordsAndBytes

LEMMA SumStartIs ==
  ASSUME NEW op, NEW h \in Byte, NEW l \in Byte, NEW d \in Byte, NEW e \in Byte, NEW f,
         prog = SumStart(op, h, l, d, e, f)
  PROVE  /\ prog.code = SumCode(op) /\ prog.data = NoData
         /\ prog.regs.r[H] = h /\ prog.regs.r[L] = l
         /\ prog.regs.r[D] = d /\ prog.regs.r[E] = e /\ prog.regs.f = f
         /\ prog.regs.st = "run" /\ prog.regs.pc = 256
<1> DEFINE x == 256 * h + l
           y == 256 * d + e
<1>1. x \div 256 = h /\ x % 256 = l /\ y \div 256 = d /\ y % 256 = e
  BY WordIs
<1>2. prog = Program("sum", SumCode(op), Regs(0, y, x, 0, f, 0), NoData)
  BY DEF SumStart
<1> HIDE DEF x, y
<1>3. /\ prog.code = SumCode(op) /\ prog.data = NoData
      /\ prog.regs = Regs(0, y, x, 0, f, 0)
  BY <1>2 DEF Program
<1>4. /\ prog.regs.r[H] = x \div 256 /\ prog.regs.r[L] = x % 256
      /\ prog.regs.r[D] = y \div 256 /\ prog.regs.r[E] = y % 256
  BY <1>3 DEF Regs, Blank, Reg, A, B, C, D, E, H, L
<1>5. prog.regs.f = f /\ prog.regs.st = "run" /\ prog.regs.pc = 256
  BY <1>3 DEF Regs, Blank, Org
<1> QED
  BY <1>1, <1>3, <1>4, <1>5

LEMMA SumStarts == Init => SumInv
<1> SUFFICES ASSUME Init, prog.kind = "sum"
             PROVE  \E op \in SumOps, h \in Byte, l \in Byte, d \in Byte, e \in Byte,
                       f \in {{}, {CARRY}} : SumRuns(op, h, l, d, e, f)
  BY DEF SumInv
<1> DEFINE words == {\h100 * h + l : h \in Operands, l \in Operands}
           flags == {{}, {CARRY}}
           codes == {<<\h19, \h76>>, <<\hED, \h5A, \h76>>, <<\hED, \h52, \h76>>,
                     <<\h7D, \h83, \h6F, \h7C, \h8A, \h67, \h76>>,
                     <<\h7D, \h93, \h6F, \h7C, \h9A, \h67, \h76>>}
           program(c, x, y, f) == Program("sum", c, Regs(0, y, x, 0, f, 0), NoData)
<1>1. prog \in Sums
  BY Kinds DEF Init
<1>2. Sums = {program(c, x, y, f) : c \in codes, x \in words, y \in words, f \in flags}
  BY DEF Sums
<1>3. \A c \in codes : \E op \in SumOps : c = SumCode(op)
  <2>1. /\ <<\h19, \h76>> = SumCode(\h19)
        /\ <<\hED, \h5A, \h76>> = SumCode(\h5A)
        /\ <<\hED, \h52, \h76>> = SumCode(\h52)
        /\ <<\h7D, \h83, \h6F, \h7C, \h8A, \h67, \h76>> = SumCode(\h83)
        /\ <<\h7D, \h93, \h6F, \h7C, \h9A, \h67, \h76>> = SumCode(\h93)
    BY DEF SumCode, Upper
  <2>2. {\h19, \h5A, \h52, \h83, \h93} = SumOps
    BY DEF SumOps
  <2> QED
    BY <2>1, <2>2
<1>4. \A x \in words : \E h \in Byte, l \in Byte : x = 256 * h + l
  BY OperandsAssumption
<1> HIDE DEF words, flags, codes, program
<1>5. PICK c \in codes, x \in words, y \in words, f \in flags : prog = program(c, x, y, f)
  BY <1>1, <1>2
<1>6. PICK op \in SumOps : c = SumCode(op)
  BY <1>3
<1>7. PICK h \in Byte, l \in Byte : x = 256 * h + l
  BY <1>4
<1>8. PICK d \in Byte, e \in Byte : y = 256 * d + e
  BY <1>4
<1>9. prog = SumStart(op, h, l, d, e, f)
  BY <1>5, <1>6, <1>7, <1>8 DEF program, SumStart
<1>10. mem = Loaded(Bytes(Org, SumCode(op)), NoData) /\ z = prog.regs
  BY <1>9, SumStartIs DEF Init
<1>11. z.st = "run" /\ z.pc = 256 /\ Holding(h, l, d, e, f)
  BY <1>9, <1>10, SumStartIs DEF Holding
<1>12. SumAt(op, h, l, d, e, f)
  BY <1>11 DEF SumAt, ByteAt, WideAt
<1>13. SumRuns(op, h, l, d, e, f)
  BY <1>9, <1>10, <1>12 DEF SumRuns
<1> QED
  BY <1>13 DEF flags

LEMMA SumNext ==
  ASSUME CpuOK, SumInv, [Next]_<<vars, prog>>
  PROVE  SumInv'
<1> SUFFICES ASSUME prog'.kind = "sum" PROVE SumInv'
  BY DEF SumInv
<1>1. prog' = prog
  BY DEF Next
<1>2. PICK op \in SumOps, h \in Byte, l \in Byte, d \in Byte, e \in Byte, f \in {{}, {CARRY}} :
        SumRuns(op, h, l, d, e, f)
  BY <1>1 DEF SumInv
<1>3. mem' = mem /\ SumAt(op, h, l, d, e, f)'
  <2>1. CASE Next
    <3>1. z.st = "run"
      BY <2>1 DEF Next, Ended
    <3>2. CASE op \in {\h83, \h93}
      <4>1. ByteAt(op, h, l, d, e, f)
        BY <1>2, <3>2 DEF SumAt, SumRuns
      <4>2. mem' = mem /\ ByteAt(op, h, l, d, e, f)'
        BY <1>2, <2>1, <3>1, <3>2, <4>1, ByteStep DEF SumRuns
      <4> QED
        BY <3>2, <4>2 DEF SumAt
    <3>3. CASE op \notin {\h83, \h93}
      <4>1. op \in {\h19, \h5A, \h52} /\ WideAt(op, h, l, d, e, f)
        BY <1>2, <3>3 DEF SumAt, SumOps, SumRuns
      <4>2. mem' = mem /\ WideAt(op, h, l, d, e, f)'
        BY <1>2, <2>1, <3>1, <4>1, WideStep DEF SumRuns
      <4> QED
        BY <3>3, <4>2 DEF SumAt
    <3> QED
      BY <3>2, <3>3
  <2>2. CASE UNCHANGED <<vars, prog>>
    <3>1. z' = z /\ mem' = mem
      BY <2>2 DEF vars
    <3>2. ByteAt(op, h, l, d, e, f)' <=> ByteAt(op, h, l, d, e, f)
      BY <3>1 DEF ByteAt, Holding
    <3>3. WideAt(op, h, l, d, e, f)' <=> WideAt(op, h, l, d, e, f)
      BY <3>1 DEF WideAt, Holding, Summed, HL, Pair
    <3> QED
      BY <1>2, <3>1, <3>2, <3>3 DEF SumAt, SumRuns
  <2> QED
    BY <2>1, <2>2
<1>4. SumRuns(op, h, l, d, e, f)'
  BY <1>1, <1>2, <1>3 DEF SumRuns
<1> QED
  BY <1>4 DEF SumInv

LEMMA SumIsExact ==
  ASSUME SumInv
  PROVE  WideSum
<1> SUFFICES ASSUME Halted("sum")
             PROVE  LET bytewise == prog.code[1] = \h7D
                        sub == (bytewise /\ prog.code[2] = \h93) \/ prog.code[2] = \h52
                        cin == IF prog.code[1] = \hED THEN CarryIn(Before.f) ELSE 0
                        x   == Value(<<Before.r[H], Before.r[L]>>)
                        y   == Value(<<Before.r[D], Before.r[E]>>)
                        n   == IF sub THEN x - y - cin ELSE x + y + cin
                    IN  HL = n % \h10000 /\ Carried = (n \notin Word)
  BY DEF WideSum
<1>1. PICK op \in SumOps, h \in Byte, l \in Byte, d \in Byte, e \in Byte, f \in {{}, {CARRY}} :
        SumRuns(op, h, l, d, e, f)
  BY DEF SumInv, Halted
<1> DEFINE t == Total(op, h, l, d, e, f)
<1>2. Summed(t)
  <2>1. CASE op \in {\h83, \h93}
    <3> DEFINE m == LowSum(op, l, e, f)
               n == HighSum(op, h, l, d, e, f)
    <3>1. z.r[H] = n.v /\ z.r[L] = m.v /\ z.f = n.f
      BY <1>1, <2>1 DEF SumRuns, SumAt, ByteAt, Halted
    <3>2. HL = 256 * z.r[H] + z.r[L]
      BY DEF HL, Pair, H, L
    <3>3. /\ m = LowSum(op, l, e, f) /\ n = HighSum(op, h, l, d, e, f)
          /\ t = Total(op, h, l, d, e, f)
      OBVIOUS
    <3> HIDE DEF m, n, t
    <3>4. 256 * n.v + m.v = t % 65536 /\ (CARRY \in n.f <=> t \notin Word)
      BY <2>1, <3>3, BytesAdd
    <3> QED
      BY <3>1, <3>2, <3>4 DEF Summed
  <2>2. CASE op \notin {\h83, \h93}
    BY <1>1, <2>2 DEF SumRuns, SumAt, WideAt, Halted
  <2> QED
    BY <2>1, <2>2
<1>3. /\ prog.code[1] = \h7D <=> op \in {\h83, \h93}
      /\ prog.code[1] = \hED <=> op \in {\h5A, \h52}
      /\ prog.code[2] = \h93 <=> op = \h93
      /\ prog.code[2] = \h52 <=> op = \h52
  <2>1. prog.code = SumCode(op)
    BY <1>1, SumStartIs DEF SumRuns
  <2> QED
    BY <2>1 DEF SumCode, SumOps
<1>4. /\ Before.r[H] = h /\ Before.r[L] = l /\ Before.r[D] = d /\ Before.r[E] = e
      /\ Before.f = f
  <2>1. Before = prog.regs
    BY DEF Before
  <2>2. /\ prog.regs.r[H] = h /\ prog.regs.r[L] = l
        /\ prog.regs.r[D] = d /\ prog.regs.r[E] = e /\ prog.regs.f = f
    BY <1>1, SumStartIs DEF SumRuns
  <2> HIDE DEF Before
  <2> QED
    BY <2>1, <2>2
<1>5. Value(<<h, l>>) = 256 * h + l /\ Value(<<d, e>>) = 256 * d + e
  BY DEF Value
<1> DEFINE x == 256 * h + l
           y == 256 * d + e
           sub == (prog.code[1] = \h7D /\ prog.code[2] = \h93) \/ prog.code[2] = \h52
           c == IF prog.code[1] = \hED THEN CarryIn(f) ELSE 0
           n == IF sub THEN x - y - c ELSE x + y + c
<1>6. n = t
  BY <1>3 DEF Total
<1>7. HL = n % 65536 /\ Carried = (n \notin Word)
  <2> HIDE DEF n, t
  <2>1. HL = n % 65536
    BY <1>2, <1>6 DEF Summed
  <2>2. Carried <=> n \notin Word
    BY <1>2, <1>6 DEF Summed, Carried
  <2> QED
    BY <2>1, <2>2 DEF Carried
<1> QED
  BY <1>4, <1>5, <1>7

-----------------------------------------------------------------------------
(* Whatever two bytes or words a program adds or subtracts - decimal with  *)
(* daa behind it, byte by byte with the carry between, or 16 bits at once  *)
(* - it leaves their sum or difference and the carry a longer number goes  *)
(* on with, but for the decimal cases that the property names: for all     *)
(* operands (z80.c:94-118, 674-808, 1733-1762).                            *)
THEOREM ArithmeticIsExact == Spec => []ArithmeticExact
<1>1. Init => CpuOK /\ BcdInv /\ SumInv
  BY InitIsTyped, BcdStarts, SumStarts
<1>2. CpuOK /\ BcdInv /\ SumInv /\ [Next]_<<vars, prog>> => (CpuOK /\ BcdInv /\ SumInv)'
  BY StepKeepsTypes, BcdNext, SumNext
<1>3. CpuOK /\ BcdInv /\ SumInv => ArithmeticExact
  BY BcdIsDecimal, SumIsExact DEF ArithmeticExact
<1> QED
  BY <1>1, <1>2, <1>3, PTL DEF Spec
=============================================================================
