---------------------------- MODULE Z80Prefixed ----------------------------
(***************************************************************************)
(* The instructions behind the prefixes CB (z80.c:1046-1392), DD and FD    *)
(* (1397-1611), ED (1616-1866) and DD CB, FD CB (1868-1992), and what the  *)
(* emulator does with an opcode that none of the switches has.             *)
(***************************************************************************)
EXTENDS Z80Cpu

\* rlc rrc rl rr sla sra srl, of a register or (hl)
ShiftReg(i) ==
  /\ X(i.t) = 0 /\ Y(i.t) # 6
  /\ LET n == Shift(Y(i.t), Get(Z(i.t), HL), z.f)
     IN  Put([Past(i, 0) EXCEPT !.f = n.f], Z(i.t), HL, n.v)
  /\ UNCHANGED io

(* bit: the flags after testing bit y of b. *)
Tested(f, y, b) ==
  (f \ {ZERO, NEGATIVE}) \cup {HALF} \cup When(y \notin BitsOf[b], ZERO)

\* bit y,r   bit y,(hl)
TestBit(i) ==
  /\ X(i.t) = 1
  /\ z' = [Past(i, 0) EXCEPT !.f = Tested(@, Y(i.t), Get(Z(i.t), HL))]
  /\ UNCHANGED <<mem, io>>

(* res and set: b with bit y as opcode t wants it. *)
Changed_SetOnly(t, b) == ByteOf[BitsOf[b] \cup {Y(t)}]
Changed(t, b) ==
  ByteOf[IF X(t) = 2 THEN BitsOf[b] \ {Y(t)} ELSE BitsOf[b] \cup {Y(t)}]

\* res y,r   res y,(hl)
ResetBit(i) ==
  /\ X(i.t) = 2
  /\ Put(Past(i, 0), Z(i.t), HL, Changed(i.t, Get(Z(i.t), HL)))
  /\ UNCHANGED io

\* set y,r   set y,(hl)
SetBit(i) ==
  /\ X(i.t) = 3
  /\ Put(Past(i, 0), Z(i.t), HL, Changed(i.t, Get(Z(i.t), HL)))
  /\ UNCHANGED io

BitInstruction(i) ==
  i.set = "bit" /\ (ShiftReg(i) \/ TestBit(i) \/ ResetBit(i) \/ SetBit(i))

-----------------------------------------------------------------------------
(* Behind DD and FD: the opcodes that z80.c has, one with (ir+d) followed  *)
(* by the displacement.                                                    *)

\* ld r,(ir+d)
IregLoad(i) ==
  /\ X(i.t) = 1 /\ Z(i.t) = M /\ Y(i.t) # M
  /\ z' = [Past(i, 1) EXCEPT !.r[Y(i.t)] = Peek(Indexed)]
  /\ UNCHANGED <<mem, io>>

\* ld (ir+d),r   ld (ir+d),n
IregStore(i) ==
  /\ \/ /\ X(i.t) = 1 /\ Y(i.t) = M /\ Z(i.t) # M
        /\ z' = Past(i, 1)
        /\ mem' = Poke(Indexed, z.r[Z(i.t)])
     \/ /\ i.t = \h36
        /\ z' = Past(i, 2)
        /\ mem' = Poke(Indexed, Peek(z.pc + 3))
  /\ UNCHANGED io

WithIndex(s, w) == [s EXCEPT !.xy[Index] = w]

\* ld ir,nn   ld ir,(nn)   ld (nn),ir   ld sp,ir
IregLoadWord(i) ==
  /\ \/ /\ i.t = \h21
        /\ z' = WithIndex(Past(i, 2), Word1(i))
        /\ UNCHANGED mem
     \/ /\ i.t = \h2A
        /\ z' = WithIndex(Past(i, 2), PeekWord(Word1(i)))
        /\ UNCHANGED mem
     \/ /\ i.t = \h22
        /\ z' = Past(i, 2)
        /\ mem' = PokeWord(Word1(i), z.xy[Index])
     \/ /\ i.t = \hF9
        /\ z' = [Past(i, 0) EXCEPT !.sp = z.xy[Index]]
        /\ UNCHANGED mem
  /\ UNCHANGED io

\* push ir   pop ir   ex (sp),ir
IregStack(i) ==
  /\ \/ /\ i.t = \hE5
        /\ Push(Past(i, 0), z.xy[Index])
     \/ /\ i.t = \hE1
        /\ z' = WithIndex(Popped(Past(i, 0)), Top)
        /\ UNCHANGED mem
     \/ /\ i.t = \hE3
        /\ z' = WithIndex(Past(i, 0), Top)
        /\ mem' = PokeWord(z.sp, z.xy[Index])
  /\ UNCHANGED io

\* add adc sub sbc and xor or cp, of (ir+d)
IregAlu(i) ==
  /\ X(i.t) = 2 /\ Z(i.t) = M
  /\ LET y == Y(i.t)
         n == CASE y < 4 -> Arith8(z.r[A], Peek(Indexed), y % 2 = 1, y >= 2, z.f)
                [] y \in 4 .. 6 -> Logical(<<"and", "xor", "or">>[y - 3],
                                           z.r[A], Peek(Indexed), z.f)
                [] y = 7 -> [Arith8(z.r[A], Peek(Indexed), FALSE, TRUE, z.f)
                               EXCEPT !.v = z.r[A]]
     IN  z' = [Past(i, 1) EXCEPT !.r[A] = n.v, !.f = n.f]
  /\ UNCHANGED <<mem, io>>

\* inc (ir+d)   dec (ir+d)
IregIncDec(i) ==
  /\ i.t \in {\h34, \h35}
  /\ LET n == Increment(Peek(Indexed), i.t = \h35, z.f)
     IN  z' = [Past(i, 1) EXCEPT !.f = n.f] /\ mem' = Poke(Indexed, n.v)
  /\ UNCHANGED io

\* add ir,bc   add ir,de   add ir,ir   add ir,sp   inc ir   dec ir   jp (ir)
IregWord(i) ==
  /\ \/ /\ i.t \in {\h09, \h19, \h29, \h39}
        /\ LET rr  == z.xy[Index]
               sum == Add16(rr, IF P(i.t) = 2 THEN rr ELSE Pair("SP", P(i.t)), z.f)
           IN  z' = WithIndex([Past(i, 0) EXCEPT !.f = sum.f], sum.v)
     \/ /\ i.t \in {\h23, \h2B}
        /\ z' = WithIndex(Past(i, 0),
                          Wrap(z.xy[Index] + (IF i.t = \h2B THEN -1 ELSE 1)))
     \/ /\ i.t = \hE9
        /\ z' = [z EXCEPT !.pc = z.xy[Index]]
  /\ UNCHANGED <<mem, io>>

IregInstruction(i) ==
  /\ i.set = "ireg"
  /\ \/ IregLoad(i) \/ IregStore(i) \/ IregLoadWord(i) \/ IregStack(i)
     \/ IregAlu(i) \/ IregIncDec(i) \/ IregWord(i)

-----------------------------------------------------------------------------
(* Behind DD CB d and FD CB d: only the opcodes that name (ir+d). *)
IregBitShift(i) ==
  /\ X(i.t) = 0
  /\ LET n == Shift(Y(i.t), Peek(Indexed), z.f)
     IN  z' = [Past(i, 0) EXCEPT !.f = n.f] /\ mem' = Poke(Indexed, n.v)
  /\ UNCHANGED io

IregBitTest(i) ==
  /\ X(i.t) = 1
  /\ z' = [Past(i, 0) EXCEPT !.f = Tested(@, Y(i.t), Peek(Indexed))]
  /\ UNCHANGED <<mem, io>>

IregBitChange(i) ==
  /\ X(i.t) \in {2, 3}
  /\ z' = Past(i, 0)
  /\ mem' = Poke(Indexed, Changed(i.t, Peek(Indexed)))
  /\ UNCHANGED io

IregBitInstruction(i) ==
  /\ i.set = "iregbit" /\ Z(i.t) = M /\ i.t # \h36
  /\ IregBitShift(i) \/ IregBitTest(i) \/ IregBitChange(i)

-----------------------------------------------------------------------------
(* Behind ED. *)

\* ld a,i   ld a,r   ld i,a   ld r,a
LoadIR(i) ==
  /\ i.t \in {\h57, \h5F, \h47, \h4F}
  /\ LET n == Y(i.t) % 2
         b == z.ir[n]
     IN  z' = IF Y(i.t) >= 2
              THEN [Past(i, 0) EXCEPT !.r[A] = b,
                      !.f = (@ \cap {CARRY, 3, 5}) \cup SignZero(b)
                                                   \cup When(z.iff2, PARITY)]
              ELSE [Past(i, 0) EXCEPT !.ir[n] = z.r[A]]
  /\ UNCHANGED <<mem, io>>

\* ld dd,(nn)   ld (nn),dd
LoadPairDirect(i) ==
  /\ X(i.t) = 1 /\ Z(i.t) = 3
  /\ IF Y(i.t) % 2 = 1
     THEN z' = WithPair(Past(i, 2), "SP", P(i.t), PeekWord(Word1(i)))
          /\ UNCHANGED mem
     ELSE z' = Past(i, 2) /\ mem' = PokeWord(Word1(i), Pair("SP", P(i.t)))
  /\ UNCHANGED io

(* The block instructions: which way HL and DE go, and PC again at the     *)
(* instruction when it repeats.                                            *)
Block(i, z0) == X(i.t) = 2 /\ Y(i.t) \in 4 .. 7 /\ Z(i.t) = z0
Stride_Up(i) == 1
Stride(i)    == IF Y(i.t) % 2 = 1 THEN -1 ELSE 1
Repeated(i, again) ==
  [z EXCEPT !.pc = IF Y(i.t) >= 6 /\ again THEN @ ELSE Wrap(@ + 2)]

\* ldi ldd ldir lddr
BlockLoad(i) ==
  /\ Block(i, 0)
  /\ LET bc == Wrap(BC - 1)
         s  == [Repeated(i, bc # 0) EXCEPT !.f =
                  (@ \ {OVERFLOW, HALF, NEGATIVE}) \cup When(bc # 0, OVERFLOW)]
     IN  z' = WithPair(WithPair(WithPair(s, "SP", 0, bc),
                "SP", 1, Wrap(DE + Stride(i))), "SP", 2, Wrap(HL + Stride(i)))
  /\ mem' = Poke(DE, Peek(HL))
  /\ UNCHANGED io

\* cpi cpd cpir cpdr
BlockCompare(i) ==
  /\ Block(i, 1)
  /\ LET b  == Peek(HL)
         t2 == (z.r[A] - b) % \h100
         bc == Wrap(BC - 1)
         s  == [Repeated(i, t2 # 0 /\ bc # 0) EXCEPT !.f =
                  (@ \cap {CARRY, 3, 5}) \cup SignZero(t2) \cup {NEGATIVE}
                    \cup When(Low(z.r[A]) < Low(b), HALF)
                    \cup When(bc # 0, OVERFLOW)]
     IN  z' = WithPair(WithPair(s, "SP", 0, bc), "SP", 2, Wrap(HL + Stride(i)))
  /\ UNCHANGED <<mem, io>>

\* neg   im 0   im 1   im 2
Negate(i) ==
  /\ \/ /\ i.t = \h44
        /\ LET n == Neg(z.r[A], z.f)
           IN  z' = [Past(i, 0) EXCEPT !.r[A] = n.v, !.f = n.f]
     \/ /\ i.t \in {\h46, \h56, \h5E}
        /\ z' = [Past(i, 0) EXCEPT !.imode =
                   CASE i.t = \h46 -> 0 [] i.t = \h56 -> 1 [] i.t = \h5E -> 2]
  /\ UNCHANGED <<mem, io>>

\* adc hl,ss   sbc hl,ss
ArithmeticHL(i) ==
  /\ X(i.t) = 1 /\ Z(i.t) = 2
  /\ LET n == Arith16(HL, Pair("SP", P(i.t)), Y(i.t) % 2 = 0, z.f)
     IN  z' = WithPair([Past(i, 0) EXCEPT !.f = n.f], "SP", 2, n.v)
  /\ UNCHANGED <<mem, io>>

\* rrd   rld
RotateDigit(i) ==
  /\ i.t \in {\h67, \h6F}
  /\ LET b == Peek(HL)
         a == High(z.r[A]) + (IF i.t = \h6F THEN b \div 16 ELSE Low(b))
     IN  /\ z' = [Past(i, 0) EXCEPT !.r[A] = a, !.f = FlagsOf(@, a)]
         /\ mem' = Poke(HL, IF i.t = \h6F THEN 16 * Low(b) + Low(z.r[A])
                            ELSE (b \div 16) + 16 * Low(z.r[A]))
  /\ UNCHANGED io

\* retn   reti
ReturnFromInterrupt(i) ==
  /\ i.t \in {\h45, \h4D}
  /\ z' = [Popped(z) EXCEPT !.pc = Top,
             !.iff = IF i.t = \h45 THEN z.iff2 ELSE @]
  /\ UNCHANGED <<mem, io>>

\* in r,(c), which stores through the empty REG[6] when r is 6
InPort(i) ==
  /\ X(i.t) = 1 /\ Z(i.t) = 0
  /\ \E b \in Inputs :
       /\ z' = IF Y(i.t) = M THEN [Past(i, 0) EXCEPT !.st = "crash"]
               ELSE [Past(i, 0) EXCEPT !.r[Y(i.t)] = b, !.f = FlagsOf(@, b)]
       /\ io' = Append(io, <<"in", z.r[B], z.r[C], b>>)
  /\ UNCHANGED mem

\* out (c),r
OutPort(i) ==
  /\ X(i.t) = 1 /\ Z(i.t) = 1 /\ Y(i.t) # M
  /\ z' = Past(i, 0)
  /\ io' = Append(io, <<"out", z.r[B], z.r[C], z.r[Y(i.t)]>>)
  /\ UNCHANGED mem

(* ini and outi: B counted down, HL moved, of the flags ZERO and NEGATIVE. *)
BlockPort(i) ==
  LET b == (z.r[B] - 1) % \h100
  IN  WithPair([Repeated(i, b # 0) EXCEPT !.r[B] = b,
                  !.f = (@ \ {ZERO}) \cup {NEGATIVE} \cup When(b = 0, ZERO)],
               "SP", 2, Wrap(HL + Stride(i)))

\* ini ind inir indr
BlockIn(i) ==
  /\ Block(i, 2)
  /\ z' = BlockPort(i)
  /\ \E b \in Inputs :
       /\ mem' = Poke(HL, b)
       /\ io' = Append(io, <<"in", z.r[B], z.r[C], b>>)

\* outi outd otir otdr: the port sees B already counted down
BlockOut(i) ==
  /\ Block(i, 3)
  /\ z' = BlockPort(i)
  /\ io' = Append(io, <<"out", BlockPort(i).r[B], z.r[C], Peek(HL)>>)
  /\ UNCHANGED mem

ExtInstruction(i) ==
  /\ i.set = "ext"
  /\ \/ LoadIR(i) \/ LoadPairDirect(i) \/ BlockLoad(i) \/ BlockCompare(i)
     \/ Negate(i) \/ ArithmeticHL(i) \/ RotateDigit(i)
     \/ ReturnFromInterrupt(i) \/ InPort(i) \/ OutPort(i)
     \/ BlockIn(i) \/ BlockOut(i)

-----------------------------------------------------------------------------
(* Which opcodes the four switches have a case for. *)
InSwitch(i) ==
  CASE i.set = "main"    -> TRUE
    [] i.set = "bit"     -> i.t \notin \h30 .. \h37
    [] i.set = "iregbit" -> Z(i.t) = M /\ i.t # \h36
    [] i.set = "ireg"    ->
         \/ X(i.t) = 1 /\ (Y(i.t) = M) # (Z(i.t) = M)
         \/ X(i.t) = 2 /\ Z(i.t) = M
         \/ i.t \in {\h36, \h21, \h2A, \h22, \hF9, \hE5, \hE1, \hE3, \h34,
                     \h35, \h09, \h19, \h29, \h39, \h23, \h2B, \hE9}
    [] i.set = "ext"     ->
         \/ X(i.t) = 1 /\ (Z(i.t) \in {0, 2, 3} \/ (Z(i.t) = 1 /\ Y(i.t) # M))
         \/ i.t \in {\h57, \h5F, \h47, \h4F, \h44, \h46, \h56, \h5E, \h67, \h6F,
                     \h45, \h4D}
         \/ X(i.t) = 2 /\ Y(i.t) \in 4 .. 7 /\ Z(i.t) \in 0 .. 3

(* default: undefinstr() gives the user the prompt.  Behind DD CB and FD   *)
(* CB only the displacement has been skipped by then, not the opcode.      *)
Undefined(i) ==
  /\ ~InSwitch(i)
  /\ z' = [Past(i, IF i.set = "iregbit" THEN -1 ELSE 0) EXCEPT !.st = "prompt"]
  /\ UNCHANGED <<mem, io>>
=============================================================================
