---------------------------- MODULE Z80Programs ----------------------------
(***************************************************************************)
(* The whole instruction set at work: the emulator runs short programs,    *)
(* each from the state of init_z80info with registers of its own, and the  *)
(* properties compare what a program leaves behind with plain arithmetic,  *)
(* a plain copy or search, or the disassembler's listing.  A program ends  *)
(* in HALT; one of kind "step" is a single instruction.                    *)
(***************************************************************************)
EXTENDS Z80Main, Z80Prefixed, Z80Disasm

CONSTANTS Operands,    \* bytes for the binary arithmetic
          Digits       \* digits for the decimal arithmetic

ASSUME OperandsAssumption == Operands \subseteq Byte /\ Digits \subseteq 0 .. 9

VARIABLE prog          \* the program, and the numbers it is about

Org  == \h0100         \* where a program is loaded
Data == \h8000         \* where its data is

(* init_z80info clears the structure. *)
Blank == [r |-> [n \in Reg |-> 0], f |-> {}, alt |-> [p \in 0 .. 3 |-> 0],
          xy |-> [n \in 0 .. 1 |-> 0], sp |-> 0, pc |-> 0,
          ir |-> [n \in 0 .. 1 |-> 0], iff |-> FALSE, iff2 |-> FALSE,
          imode |-> 0, st |-> "run"]

Execute == LET i == Ins
           IN  \/ MainInstruction(i) \/ BitInstruction(i) \/ IregInstruction(i)
               \/ IregBitInstruction(i) \/ ExtInstruction(i) \/ Undefined(i)

-----------------------------------------------------------------------------
(* Programs: their code, the registers they start with, their data. *)
Program(kind, code, regs, data) ==
  [kind |-> kind, code |-> code, regs |-> regs, data |-> data]

Regs(bc, de, hl, a, f, sp) ==
  [Blank EXCEPT !.r = [n \in Reg |->
       CASE n = B -> bc \div \h100 [] n = C -> bc % \h100
         [] n = D -> de \div \h100 [] n = E -> de % \h100
         [] n = H -> hl \div \h100 [] n = L -> hl % \h100
         [] n = A -> a],
     !.f = f, !.sp = sp, !.pc = Org, !.xy = [n \in 0 .. 1 |-> Data + 16 + 16 * n]]

Bytes(base, s) == [a \in {base + k - 1 : k \in DOMAIN s} |-> s[a - base + 1]]
NoData == Bytes(Data, <<>>)

\* The code and the data beside it.
Loaded(code, data) ==
  [a \in DOMAIN code \cup DOMAIN data |-> IF a \in DOMAIN code THEN code[a] ELSE data[a]]

\* Every opcode of every prefix, once with all flags off and once with all on.
Steps ==
  LET codes == {<<t, 5, 6>> : t \in Byte \ {\hCB, \hDD, \hED, \hFD}}
               \cup {<<p, t, 5, 6>> : p \in {\hCB, \hED}, t \in Byte}
               \cup {<<p, t, 5, 6>> : p \in {\hDD, \hFD}, t \in Byte \ {\hCB}}
               \cup {<<p, \hCB, 5, t>> : p \in {\hDD, \hFD}, t \in Byte}
      regs  == {Regs(\h0201, Data + 4, Data, \h12, {}, \h9000),
                Regs(\h0102, \hFFFF, 0, \hF7, Bit, 0)}
  IN  {Program("step", c, r, NoData) : c \in codes, r \in regs}

\* add, adc, sub or sbc of two decimal bytes, and daa.
Decimals ==
  LET bcd == {16 * t + u : t \in Digits, u \in 0 .. 9}
  IN  {Program("bcd", <<op, v, \h27, \h76>>, Regs(0, 0, 0, a, f, 0), NoData) :
         op \in {\hC6, \hCE, \hD6, \hDE}, a \in bcd, v \in bcd,
         f \in {{}, {CARRY}}}

\* 16-bit sums: add hl,de; adc hl,de; sbc hl,de; and byte by byte through A.
Sums ==
  LET words == {\h100 * h + l : h \in Operands, l \in Operands}
      codes == {<<\h19, \h76>>, <<\hED, \h5A, \h76>>, <<\hED, \h52, \h76>>,
                <<\h7D, \h83, \h6F, \h7C, \h8A, \h67, \h76>>,
                <<\h7D, \h93, \h6F, \h7C, \h9A, \h67, \h76>>}
  IN  {Program("sum", c, Regs(0, y, x, 0, f, 0), NoData) :
         c \in codes, x \in words, y \in words, f \in {{}, {CARRY}}}

\* cp v; jp z,equal; jp c,less; ld d,1; halt; equal: ld d,2; halt; less: ld d,3
Branches ==
  LET code(v) == <<\hFE, v, \hCA, 11, 1, \hDA, 14, 1,
                   \h16, 1, \h76, \h16, 2, \h76, \h16, 3, \h76>>
  IN  {Program("branch", code(v), Regs(0, 0, 0, a, {}, 0), NoData) :
         a \in Operands, v \in Operands}

\* ld b,n; loop: inc hl; djnz loop
Loops == {Program("loop", <<\h06, n, \h23, \h10, \hFD, \h76>>,
                 Regs(0, 0, 0, 0, {}, 0), NoData) : n \in 0 .. 3}

\* The repeating block instructions over four cells.
Cells  == <<1, 2, 3, 4>>
Blocks ==
  LET here == Data .. Data + 3
      data == Bytes(Data, Cells)
  IN  {Program("move", <<\hED, op, \h76>>, Regs(n, d, s, 0, {}, 0), data) :
         op \in {\hB0, \hB8}, n \in 1 .. 3, d \in here, s \in here}
      \cup {Program("search", <<\hED, op, \h76>>, Regs(n, 0, s, a, {}, 0), data) :
         op \in {\hB1, \hB9}, n \in 1 .. 4, s \in here, a \in 1 .. 4}
      \cup {Program("port", <<\hED, op, \h76>>, Regs(\h100 * n + 7, 0, s, 0, {}, 0),
                    data) :
         op \in {\hB2, \hBA, \hB3, \hBB}, n \in 1 .. 3, s \in here}

\* push qq and pop rr; ex (sp),hl twice; push ix and pop iy; call and ret.
Stacks ==
  LET codes == {<<\hC5 + 16 * q, \hC1 + 16 * p, \h76>> : q \in 0 .. 3, p \in 0 .. 3}
               \cup {<<\hE3, \hE3, \h76>>, <<\hDD, \hE5, \hFD, \hE1, \h76>>,
                     <<\hCD, 4, 1, \h76, \hC9>>}
  IN  {Program("stack", c, Regs(\h1234, \h5678, \h9ABC, \hDE, f, sp), NoData) :
         c \in codes, f \in {{}, Bit}, sp \in {0, 1, 2, Data}}

\* Two instructions on a place that holds v: rlc rrc, rl rr, set or res and bit;
\* the same through (ix+0); rld rrd.
Place(code) == IF code[1] = \hCB THEN code[2] % 8 ELSE M
Pairs ==
  LET regs(n, v, f) ==
        LET w == \h101 * v
        IN  Regs(w, w, IF n \in {H, L} THEN w ELSE Data + 16, v, f, 0)
      two(n) == {<<\hCB, n, \hCB, \h08 + n, \h76>>,
                 <<\hCB, \h10 + n, \hCB, \h18 + n, \h76>>}
                \cup {<<\hCB, o + 8 * y + n, \hCB, \h40 + 8 * x + n, \h76>> :
                        o \in {\h80, \hC0}, y \in {0, 3, 7}, x \in {0, 3, 7}}
      other == {<<\hDD, \hCB, 0, c[2], \hDD, \hCB, 0, c[4], \h76>> : c \in two(M)}
               \cup {<<\hED, \h6F, \hED, \h67, \h76>>}
      codes == (UNION {two(n) : n \in 0 .. 7}) \cup other
  IN  {Program("pair", c, regs(Place(c), v, f), Bytes(Data + 16, <<v>>)) :
         c \in codes, v \in Operands, f \in {{}, {CARRY}}}

Programs == Steps \cup Decimals \cup Sums \cup Branches \cup Loops \cup Blocks \cup Stacks
            \cup Pairs

Init ==
  /\ prog \in Programs
  /\ z = prog.regs
  /\ mem = Loaded(Bytes(Org, prog.code), prog.data)
  /\ io = <<>>

Ended == z.st # "run" \/ (prog.kind = "step" /\ z.pc # Org)

Next == ~Ended /\ Execute /\ UNCHANGED prog

Spec == Init /\ [][Next]_<<vars, prog>>

-----------------------------------------------------------------------------
Halted(kind) == prog.kind = kind /\ z.st = "halt"
Value(pair)  == \h100 * pair[1] + pair[2]
Before       == prog.regs
Carried      == CARRY \in z.f

Decimal(b)   == 10 * (b \div 16) + Low(b)
ToDecimal(n) == 16 * (n \div 10) + (n % 10)

\* Where arith8 does not see that the units carry into the tens, or that they
\* borrow from them, as its half carry leaves the carry in out.
HalfMissed(x, y, c)   == c = 1 /\ Low(x) + Low(y) = 15
BorrowMissed(x, y, c) == c = 1 /\ Low(x) = Low(y)

\* Where daa sets CARRY from its own addition alone: it drops the carry of a
\* binary sum, and carries when only the units borrowed from the tens.
CarryDropped(x, y, c) == x + y + c \notin Byte
CarryAdded(x, y, n)   == n >= 0 /\ Low(x) < Low(y)

(* add and adc of decimal bytes and daa give the decimal sum, HalfMissed   *)
(* left aside, and its carry, unless it is one that CarryDropped names     *)
(* (z80.c:94-118, 674-764): what is then left in CARRY is not said.        *)
DecimalSum ==
  Halted("bcd") /\ prog.code[1] \in {\hC6, \hCE} =>
    LET a == Before.r[A]
        v == prog.code[2]
        c == IF prog.code[1] = \hCE THEN CarryIn(Before.f) ELSE 0
        n == Decimal(a) + Decimal(v) + c
    IN  ~HalfMissed(a, v, c) => /\ z.r[A] = ToDecimal(n % 100)
                                /\ CarryDropped(a, v, c) \/ Carried = (n >= 100)

(* sub and sbc of decimal bytes and daa give the decimal difference,       *)
(* BorrowMissed left aside, and its borrow, unless CarryAdded.             *)
DecimalDifference ==
  Halted("bcd") /\ prog.code[1] \in {\hD6, \hDE} =>
    LET a == Before.r[A]
        v == prog.code[2]
        c == IF prog.code[1] = \hDE THEN CarryIn(Before.f) ELSE 0
        n == Decimal(a) - Decimal(v) - c
    IN  ~BorrowMissed(a, v, c) => /\ z.r[A] = ToDecimal(n % 100)
                                  /\ CarryAdded(a, v, n) \/ Carried = (n < 0)

(* The 16-bit instructions and the two byte-wide steps through A and CARRY *)
(* agree with the sum of the numbers, and with each other in HL and CARRY  *)
(* (z80.c:94-118, 800-806, 1733-1762).                                     *)
WideSum ==
  Halted("sum") =>
    LET bytewise == prog.code[1] = \h7D
        sub == (bytewise /\ prog.code[2] = \h93) \/ prog.code[2] = \h52
        cin == IF prog.code[1] = \hED THEN CarryIn(Before.f) ELSE 0
        x   == Value(<<Before.r[H], Before.r[L]>>)
        y   == Value(<<Before.r[D], Before.r[E]>>)
        n   == IF sub THEN x - y - cin ELSE x + y + cin
    IN  HL = n % \h10000 /\ Carried = (n \notin Word)

(* What a program of the guest adds and subtracts is the sum and the       *)
(* difference, digit by digit, byte by byte or 16 bits at once, with the   *)
(* carry that the next step of a longer number needs - but for the four    *)
(* cases named above, in which the decimal digits or the decimal carry are *)
(* not what a Z80 leaves (z80.c:94-118, 674-808, 1733-1762).               *)
ArithmeticExact == DecimalSum /\ DecimalDifference /\ WideSum

(* After cp, jp z and jp c part the unsigned numbers (z80.c:611-627,       *)
(* 858-893): the comparison every table search and every loop bound uses.  *)
BranchesCompare ==
  Halted("branch") =>
    z.r[D] = CASE Before.r[A] > prog.code[2] -> 1
               [] Before.r[A] = prog.code[2] -> 2
               [] Before.r[A] < prog.code[2] -> 3

(* djnz goes round as often as B says, 256 times for 0 (z80.c:915-921). *)
LoopCounts ==
  Halted("loop") =>
    HL = IF prog.code[2] = 0 THEN \h100 ELSE prog.code[2]

(* What ldir and lddr leave is the copy, byte after byte: where the target *)
(* begins inside the source, its first bytes repeat; no other cell changes,*)
(* and BC, DE, HL and PC are where a program relies on them                *)
(* (z80.c:1661-1687).                                                      *)
BlockMoved ==
  Halted("move") =>
    LET dir == IF prog.code[2] = \hB0 THEN 1 ELSE -1
        n   == Value(<<Before.r[B], Before.r[C]>>)
        src == Value(<<Before.r[H], Before.r[L]>>)
        dst == Value(<<Before.r[D], Before.r[E]>>)
        gap == dir * (dst - src)
        old(a) == IF a \in DOMAIN prog.data THEN prog.data[a] ELSE 0
        copied(k) == IF gap > 0 THEN old(src + dir * (k % gap))
                                ELSE old(src + dir * k)
    IN  /\ BC = 0 /\ DE = dst + dir * n /\ HL = src + dir * n
        /\ z.pc = Org + 3
        /\ \A k \in 0 .. n - 1 : Peek(dst + dir * k) = copied(k)
        /\ \A a \in DOMAIN mem \ {dst + dir * k : k \in 0 .. n - 1} :
             a >= Data - 4 => mem[a] = old(a)

(* cpir and cpdr stop behind the first match, with ZERO, or at the end of  *)
(* the count without it (z80.c:1689-1708).                                 *)
SearchStops ==
  Halted("search") =>
    LET dir == IF prog.code[2] = \hB1 THEN 1 ELSE -1
        n   == Value(<<Before.r[B], Before.r[C]>>)
        src == Value(<<Before.r[H], Before.r[L]>>)
        hits == {k \in 0 .. n - 1 : Peek(src + dir * k) = Before.r[A]}
        k   == CHOOSE j \in hits \cup {n - 1} : \A h \in hits : j <= h
    IN  /\ HL = src + dir * (k + 1) /\ BC = n - k - 1
        /\ (ZERO \in z.f) = (hits # {})
        /\ (OVERFLOW \in z.f) = (BC # 0)

(* inir and otir move one byte for each count of B, in order, through the  *)
(* port in C; the high address byte is B before an input and after the     *)
(* count of an output (z80.c:1838-1872).                                   *)
BlockPorts ==
  Halted("port") =>
    LET dir == IF prog.code[2] \in {\hB2, \hB3} THEN 1 ELSE -1
        inp == prog.code[2] \in {\hB2, \hBA}
        n   == Before.r[B]
        src == Value(<<Before.r[H], Before.r[L]>>)
    IN  /\ z.r[B] = 0 /\ HL = src + dir * n /\ Len(io) = n
        /\ \A k \in 1 .. n :
             /\ io[k][1] = IF inp THEN "in" ELSE "out"
             /\ io[k][2] = IF inp THEN n - k + 1 ELSE n - k
             /\ io[k][3] = 7
             /\ io[k][4] = Peek(src + dir * (k - 1))

(* Whatever repeats by a count - djnz and the block copies, searches and   *)
(* port transfers - does so exactly as often as the count says and leaves  *)
(* the pointers where the next instruction relies on them (z80.c:914-919,  *)
(* 1661-1708, 1831-1870).                                                  *)
BlockInstructions == BlockMoved /\ SearchStops /\ BlockPorts /\ LoopCounts

(* What is pushed comes back, into whatever pair takes it, with SP where   *)
(* it was and no cell changed but the two under it, also when SP wraps; a  *)
(* called routine returns behind its call (z80.c:458-501, 926-1002).       *)
StackRestored ==
  Halted("stack") =>
    LET c == prog.code
        word(s, q) == IF q = 3 THEN \h100 * s.r[A] + ByteOf[s.f]
                      ELSE Value(<<s.r[2 * q], s.r[2 * q + 1]>>)
        target(q) == Len(c) = 3 /\ c[1] # \hE3 /\ P(c[2]) = q
    IN  /\ z.sp = Before.sp
        /\ z.pc = Org + (IF c[1] = \hCD THEN 4 ELSE Len(c))
        /\ \A q \in 0 .. 3 : word(z, q) =
             word(Before, IF target(q) THEN P(c[1]) ELSE q)
        /\ c[1] = \hDD => z.xy = [Before.xy EXCEPT ![1] = Before.xy[0]]
        /\ \A a \in DOMAIN mem : mem[a] # 0 =>
             \/ a \in DOMAIN Bytes(Org, c)
             \/ a \in {Wrap(Before.sp - 1), Wrap(Before.sp - 2)}

(* A rotation one way and back restores the byte, rl and rr the carry as   *)
(* well; rld and rrd restore memory and A; set and res change the one bit  *)
(* and bit reports it (z80.c:1054-1392, 1767-1780, 1890-1990).             *)
PairsAgree ==
  Halted("pair") =>
    LET c    == prog.code
        ixed == c[1] = \hDD
        op   == IF ixed THEN c[4] ELSE c[2]
        test == IF ixed THEN c[8] ELSE c[4]
        v    == prog.data[Data + 16]
        now  == Get(Place(c), Data + 16)
        want == CASE X(op) = 2 -> BitsOf[v] \ {Y(op)}
                  [] X(op) = 3 -> BitsOf[v] \cup {Y(op)}
                  [] OTHER     -> BitsOf[v]
    IN  IF c[1] = \hED THEN now = v /\ z.r[A] = Before.r[A]
        ELSE /\ BitsOf[now] = want
             /\ X(op) >= 2 => (ZERO \in z.f) = (Y(test) \notin want)
             /\ Y(op) = 2 /\ X(op) = 0 => Carried = (CARRY \in Before.f)

(* The disassembler takes for one line what the emulator takes for one     *)
(* instruction (disassem.c:313-853 against z80.c:289-1992), but for        *)
(* restarts, the prefix FD, and behind DD the displacements and the        *)
(* opcodes that the emulator has none for.                                 *)
Misread(i) ==
  \/ i.set = "main" /\ X(i.t) = 3 /\ Z(i.t) = 7
  \/ Peek(z.pc) = \hFD
  \/ i.set = "iregbit"
  \/ i.set = "ireg" /\ (~InSwitch(i) \/ M \in {Y(i.t), Z(i.t)}) /\ i.t # \h36

ListingAgrees ==
  [][ prog.kind = "step" =>
        LET l == Listed(z.pc)
        IN  \/ Misread(Ins)
            \/ z'.pc = Wrap(z.pc + l.len)
            \/ l.says = "flow"
            \/ l.says = "repeat" /\ z'.pc = z.pc ]_<<vars, prog>>

(* daa leaves the carry of the decimal sum (z80.c:674-764).                *)
DecimalCarry ==
  Halted("bcd") /\ prog.code[1] = \hC6 =>
    Carried = (Decimal(Before.r[A]) + Decimal(prog.code[2]) >= 100)
=============================================================================
