------------------------------ MODULE Z80Main ------------------------------
(***************************************************************************)
(* The instructions without a prefix (z80.c:289-1040).  One action for     *)
(* each group of cases with the same body; i is the decoded opcode.        *)
(***************************************************************************)
EXTENDS Z80Cpu

\* ld r,r'   ld r,(hl)   ld (hl),r
LoadRegister(i) ==
  /\ i.t \in \h40 .. \h7F \ {\h76}
  /\ Put(Past(i, 0), Y(i.t), HL, Get(Z(i.t), HL))
  /\ UNCHANGED io

\* ld r,n   ld (hl),n
LoadImmediate(i) ==
  /\ X(i.t) = 0 /\ Z(i.t) = 6
  /\ Put(Past(i, 1), Y(i.t), HL, Byte1(i))
  /\ UNCHANGED io

\* ld a,(bc)   ld a,(de)   ld a,(nn), and the stores
LoadAccumulator(i) ==
  /\ i.t \in {\h0A, \h1A, \h3A, \h02, \h12, \h32}
  /\ LET direct == P(i.t) = 3
         a == IF direct THEN Word1(i) ELSE Pair("AF", P(i.t))
         s == Past(i, IF direct THEN 2 ELSE 0)
     IN  IF Y(i.t) % 2 = 1
         THEN z' = [s EXCEPT !.r[A] = Peek(a)] /\ UNCHANGED mem
         ELSE z' = s /\ mem' = Poke(a, z.r[A])
  /\ UNCHANGED io

\* ld dd,nn
LoadPair(i) ==
  /\ i.t \in {\h01, \h11, \h21, \h31}
  /\ z' = WithPair(Past(i, 2), "SP", P(i.t), Word1(i))
  /\ UNCHANGED <<mem, io>>

\* ld hl,(nn)   ld (nn),hl   ld sp,hl
LoadHL(i) ==
  /\ \/ /\ i.t = \h2A
        /\ z' = WithPair(Past(i, 2), "SP", 2, PeekWord(Word1(i)))
        /\ UNCHANGED mem
     \/ /\ i.t = \h22
        /\ z' = Past(i, 2)
        /\ mem' = PokeWord(Word1(i), HL)
     \/ /\ i.t = \hF9
        /\ z' = [Past(i, 0) EXCEPT !.sp = HL]
        /\ UNCHANGED mem
  /\ UNCHANGED io

\* push qq
PushPair(i) ==
  /\ i.t \in {\hC5, \hD5, \hE5, \hF5}
  /\ Push(Past(i, 0), Pair("AF", P(i.t)))
  /\ UNCHANGED io

\* pop qq
PopPair(i) ==
  /\ i.t \in {\hC1, \hD1, \hE1, \hF1}
  /\ z' = WithPair(Popped(Past(i, 0)), "AF", P(i.t), Top)
  /\ UNCHANGED <<mem, io>>

\* exx: the registers b to l out of the other set, and their pairs into it.
AltRegs ==
  [n \in Reg |-> CASE n = A                -> z.r[A]
                  [] n # A /\ n % 2 = 0 -> z.alt[n \div 2] \div \h100
                  [] n # A /\ n % 2 = 1 -> z.alt[n \div 2] % \h100]
AltPairs == [p \in 0 .. 3 |-> IF p = 3 THEN z.alt[3] ELSE Pair("SP", p)]

\* ex af,af'   ex de,hl   exx
Exchange(i) ==
  /\ i.t \in {\h08, \hEB, \hD9}
  /\ LET s == Past(i, 0)
     IN  z' = CASE i.t = \h08 -> [WithPair(s, "AF", 3, z.alt[3])
                                    EXCEPT !.alt[3] = Pair("AF", 3)]
                [] i.t = \hEB -> WithPair(WithPair(s, "SP", 1, HL), "SP", 2, DE)
                [] i.t = \hD9 -> [s EXCEPT !.r = AltRegs, !.alt = AltPairs]
  /\ UNCHANGED <<mem, io>>

\* ex (sp),hl
ExchangeTop(i) ==
  /\ i.t = \hE3
  /\ z' = WithPair(Past(i, 0), "SP", 2, Top)
  /\ mem' = PokeWord(z.sp, HL)
  /\ UNCHANGED io

-----------------------------------------------------------------------------
(* The operand of the arithmetic of the accumulator: r, (hl) or n. *)
AluGroup(i) == X(i.t) = 2 \/ (X(i.t) = 3 /\ Z(i.t) = 6)
Operand(i)  == IF X(i.t) = 2 THEN Get(Z(i.t), HL) ELSE Byte1(i)
PastAlu(i)  == Past(i, IF X(i.t) = 2 THEN 0 ELSE 1)

Accumulate(s, result) == [s EXCEPT !.r[A] = result.v, !.f = result.f]

\* add adc sub sbc
Arithmetic(i) ==
  /\ AluGroup(i) /\ Y(i.t) \in 0 .. 3
  /\ z' = Accumulate(PastAlu(i), Arith8(z.r[A], Operand(i),
                       Y(i.t) % 2 = 1, Y(i.t) >= 2, z.f))
  /\ UNCHANGED <<mem, io>>

\* and xor or
Logic(i) ==
  /\ AluGroup(i) /\ Y(i.t) \in 4 .. 6
  /\ z' = Accumulate(PastAlu(i), Logical(<<"and", "xor", "or">>[Y(i.t) - 3],
                       z.r[A], Operand(i), z.f))
  /\ UNCHANGED <<mem, io>>

\* cp
Compare(i) ==
  /\ AluGroup(i) /\ Y(i.t) = 7
  /\ z' = [PastAlu(i) EXCEPT !.f =
             Arith8(z.r[A], Operand(i), FALSE, TRUE, z.f).f]
  /\ UNCHANGED <<mem, io>>

\* inc r   dec r   inc (hl)   dec (hl)
IncDec(i) ==
  /\ X(i.t) = 0 /\ Z(i.t) \in {4, 5}
  /\ LET n == Increment(Get(Y(i.t), HL), Z(i.t) = 5, z.f)
     IN  Put([Past(i, 0) EXCEPT !.f = n.f], Y(i.t), HL, n.v)
  /\ UNCHANGED io

\* daa   cpl
Adjust(i) ==
  /\ \/ /\ i.t = \h27
        /\ z' = Accumulate(Past(i, 0), Daa(z.r[A], z.f))
     \/ /\ i.t = \h2F
        /\ z' = [Past(i, 0) EXCEPT !.r[A] = \hFF - @,
                                   !.f = @ \cup {HALF, NEGATIVE}]
  /\ UNCHANGED <<mem, io>>

\* ccf, which leaves HALF alone, and scf
CarryFlag(i) ==
  /\ \/ /\ i.t = \h3F
        /\ z' = [Past(i, 0) EXCEPT !.f =
                   (@ \ {CARRY, NEGATIVE}) \cup When(CARRY \notin @, CARRY)]
     \/ /\ i.t = \h37
        /\ z' = [Past(i, 0) EXCEPT !.f = (@ \ {HALF, NEGATIVE}) \cup {CARRY}]
  /\ UNCHANGED <<mem, io>>

\* nop halt di ei
Control(i) ==
  /\ i.t \in {\h00, \h76, \hF3, \hFB}
  /\ z' = CASE i.t = \h00 -> Past(i, 0)
            [] i.t = \h76 -> [Past(i, 0) EXCEPT !.st = "halt"]
            [] i.t = \hF3 -> [Past(i, 0) EXCEPT !.iff = FALSE, !.iff2 = FALSE]
            [] i.t = \hFB -> [Past(i, 0) EXCEPT !.iff = TRUE, !.iff2 = TRUE]
  /\ UNCHANGED <<mem, io>>

-----------------------------------------------------------------------------
\* add hl,ss
AddHL(i) ==
  /\ i.t \in {\h09, \h19, \h29, \h39}
  /\ LET sum == Add16(HL, Pair("SP", P(i.t)), z.f)
     IN  z' = WithPair([Past(i, 0) EXCEPT !.f = sum.f], "SP", 2, sum.v)
  /\ UNCHANGED <<mem, io>>

\* inc ss   dec ss
IncDecPair(i) ==
  /\ X(i.t) = 0 /\ Z(i.t) = 3
  /\ z' = WithPair(Past(i, 0), "SP", P(i.t),
            Wrap(Pair("SP", P(i.t)) + (IF Y(i.t) % 2 = 1 THEN -1 ELSE 1)))
  /\ UNCHANGED <<mem, io>>

\* rlca rrca rla rra: of the flags only CARRY, HALF and NEGATIVE change
RotateA(i) ==
  /\ i.t \in {\h07, \h0F, \h17, \h1F}
  /\ LET n == Shift(Y(i.t), z.r[A], z.f)
     IN  z' = [Past(i, 0) EXCEPT !.r[A] = n.v,
                 !.f = (@ \ {CARRY, HALF, NEGATIVE}) \cup (n.f \cap {CARRY})]
  /\ UNCHANGED <<mem, io>>

-----------------------------------------------------------------------------
\* jp nn   jp cc,nn   jp (hl)
Jump(i) ==
  /\ \/ /\ i.t = \hC3 \/ (X(i.t) = 3 /\ Z(i.t) = 2)
        /\ z' = IF i.t = \hC3 \/ Holds(Y(i.t))
                THEN [z EXCEPT !.pc = Word1(i)] ELSE Past(i, 2)
     \/ /\ i.t = \hE9
        /\ z' = [z EXCEPT !.pc = HL]
  /\ UNCHANGED <<mem, io>>

\* jr e   jr cc,e
JumpRelative(i) ==
  /\ i.t \in {\h18, \h20, \h28, \h30, \h38}
  /\ z' = [Past(i, 1) EXCEPT !.pc = IF i.t = \h18 \/ Holds(Y(i.t) - 4)
                                    THEN Wrap(@ + Signed(Byte1(i))) ELSE @]
  /\ UNCHANGED <<mem, io>>

\* djnz e
Djnz(i) ==
  /\ i.t = \h10
  /\ z' = [Past(i, 1) EXCEPT !.r[B] = (@ - 1) % \h100,
                             !.pc = IF z.r[B] # 1
                                    THEN Wrap(@ + Signed(Byte1(i))) ELSE @]
  /\ UNCHANGED <<mem, io>>

\* call nn   call cc,nn
Call(i) ==
  /\ i.t = \hCD \/ (X(i.t) = 3 /\ Z(i.t) = 4)
  /\ IF i.t = \hCD \/ Holds(Y(i.t))
     THEN Push([z EXCEPT !.pc = Word1(i)], Past(i, 2).pc)
     ELSE z' = Past(i, 2) /\ UNCHANGED mem
  /\ UNCHANGED io

\* ret   ret cc
Return(i) ==
  /\ i.t = \hC9 \/ (X(i.t) = 3 /\ Z(i.t) = 0)
  /\ z' = IF i.t = \hC9 \/ Holds(Y(i.t))
          THEN [Popped(z) EXCEPT !.pc = Top] ELSE Past(i, 0)
  /\ UNCHANGED <<mem, io>>

\* rst p
Restart(i) ==
  /\ X(i.t) = 3 /\ Z(i.t) = 7
  /\ Push([z EXCEPT !.pc = 8 * Y(i.t)], Past(i, 0).pc)
  /\ UNCHANGED io

\* in a,(n)   out (n),a
PortA(i) ==
  /\ \/ /\ i.t = \hDB
        /\ \E b \in Inputs :
             /\ z' = [Past(i, 1) EXCEPT !.r[A] = b]
             /\ io' = Append(io, <<"in", z.r[A], Byte1(i), b>>)
     \/ /\ i.t = \hD3
        /\ z' = Past(i, 1)
        /\ io' = Append(io, <<"out", z.r[A], Byte1(i), z.r[A]>>)
  /\ UNCHANGED mem

MainInstruction(i) ==
  /\ i.set = "main"
  /\ \/ LoadRegister(i) \/ LoadImmediate(i) \/ LoadAccumulator(i)
     \/ LoadPair(i) \/ LoadHL(i) \/ PushPair(i) \/ PopPair(i)
     \/ Exchange(i) \/ ExchangeTop(i)
     \/ Arithmetic(i) \/ Logic(i) \/ Compare(i) \/ IncDec(i)
     \/ Adjust(i) \/ CarryFlag(i) \/ Control(i)
     \/ AddHL(i) \/ IncDecPair(i) \/ RotateA(i)
     \/ Jump(i) \/ JumpRelative(i) \/ Djnz(i) \/ Call(i) \/ Return(i) \/ Restart(i)
     \/ PortA(i)
=============================================================================
