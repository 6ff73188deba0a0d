------------------------------- MODULE Z80Cpu -------------------------------
(***************************************************************************)
(* The state that an instruction of the emulated Z80 works on              *)
(* (z80orig/src/defs.h:124-170), and how z80.c reaches it: memory, the     *)
(* register tables of init_z80info, the opcode with its prefixes, the      *)
(* stack.  Interrupts and the debugger are left to Z80Events.              *)
(***************************************************************************)
EXTENDS Z80Alu, Sequences

CONSTANT Inputs     \* the bytes a port may return

ASSUME InputsAssumption == Inputs \subseteq Byte

VARIABLES
  z,     \* the registers of z80info
  mem,   \* the bytes of memory that were written; the others are still zero
  io     \* what went over the ports: <<"in" or "out", high, low, data>>

vars == <<z, mem, io>>

(* REG[]: b c d e h l (hl) a; the place of (hl) holds no register. *)
Reg == {0, 1, 2, 3, 4, 5, 7}
B == 0   C == 1   D == 2   E == 3   H == 4   L == 5   M == 6   A == 7

CpuTypeOK ==
  /\ z.r \in [Reg -> Byte]
  /\ z.f \subseteq Bit
  /\ z.alt \in [0 .. 3 -> Word]
  /\ z.xy \in [0 .. 1 -> Word]
  /\ z.ir \in [0 .. 1 -> Byte]
  /\ z.sp \in Word /\ z.pc \in Word
  /\ z.iff \in BOOLEAN /\ z.iff2 \in BOOLEAN /\ z.imode \in 0 .. 2
  /\ z.st \in {"run", "halt", "prompt", "crash"}
  /\ DOMAIN mem \subseteq Word
  /\ \A a \in DOMAIN mem : mem[a] \in Byte

-----------------------------------------------------------------------------
Wrap(w)    == w % \h10000
Peek(a)    == IF Wrap(a) \in DOMAIN mem THEN mem[Wrap(a)] ELSE 0
PeekWord(a) == Peek(a) + \h100 * Peek(a + 1)
(* Memory m with byte b at address a; a word is stored low byte first. *)
Stored(m, a, b) ==
  [x \in DOMAIN m \cup {Wrap(a)} |-> IF x = Wrap(a) THEN b ELSE m[x]]
Poke(a, b) == Stored(mem, a, b)
PokeWord_Swapped(a, w) ==
  Stored(Stored(mem, a, w \div \h100), a + 1, w % \h100)
PokeWord(a, w) ==
  Stored(Stored(mem, a, w % \h100), a + 1, w \div \h100)

(* Register pairs: REGPAIRSP[] has SP in the last place, REGPAIRAF[] AF. *)
Pair(last, p) ==
  CASE p < 3               -> \h100 * z.r[2 * p] + z.r[2 * p + 1]
    [] p = 3 /\ last = "SP" -> z.sp
    [] p = 3 /\ last = "AF" -> \h100 * z.r[A] + ByteOf[z.f]

WithPair(s, last, p, w) ==
  CASE p < 3               -> [s EXCEPT !.r[2 * p] = w \div \h100,
                                        !.r[2 * p + 1] = w % \h100]
    [] p = 3 /\ last = "SP" -> [s EXCEPT !.sp = w]
    [] p = 3 /\ last = "AF" -> [s EXCEPT !.r[A] = w \div \h100,
                                         !.f = BitsOf[w % \h100]]
BC == Pair("SP", 0)
DE == Pair("SP", 1)
HL == Pair("SP", 2)
-----------------------------------------------------------------------------
(* The fields of an opcode. *)
X(t) == t \div 64
Y(t) == (t \div 8) % 8
Z(t) == t % 8
P(t) == Y(t) \div 2

(* The opcode at PC: the switch that its prefixes lead to, the opcode      *)
(* itself and the number of bytes up to the one behind it.                 *)
Ins ==
  LET b(n)  == Peek(z.pc + n)
      index == b(0) \in {\hDD, \hFD}
      ins(set, t, at) == [set |-> set, t |-> t, at |-> at]
  IN  CASE b(0) = \hCB            -> ins("bit", b(1), 2)
        [] b(0) = \hED            -> ins("ext", b(1), 2)
        [] index /\ b(1) # \hCB   -> ins("ireg", b(1), 2)
        [] index /\ b(1) = \hCB   -> ins("iregbit", b(3), 4)
        [] OTHER                  -> ins("main", b(0), 1)

(* rr: IX or IY by the prefix, and the address ir+d that wraps. *)
Index   == IF Peek(z.pc) = \hDD THEN 0 ELSE 1
Indexed == Wrap(z.xy[Index] + Signed(Peek(z.pc + 2)))

(* The machine behind an opcode and n bytes of operands; the operands. *)
Past(i, n) == [z EXCEPT !.pc = Wrap(@ + i.at + n)]
Byte1(i)   == Peek(z.pc + i.at)
Word1(i)   == PeekWord(z.pc + i.at)

(* Register n, or the memory at address a when the opcode names (hl). *)
Get(n, a) == IF n = M THEN Peek(a) ELSE z.r[n]
Put(s, n, a, b) ==
  /\ z' = IF n = M THEN s ELSE [s EXCEPT !.r[n] = b]
  /\ mem' = IF n = M THEN Poke(a, b) ELSE mem

(* flagmask[] and the sense of a condition nz z nc c po pe p m. *)
Holds_Carry(y) == (<<CARRY, ZERO, PARITY, SIGN>>[(y \div 2) + 1] \in z.f) = (y % 2 = 1)
Holds(y) == (<<ZERO, CARRY, PARITY, SIGN>>[(y \div 2) + 1] \in z.f) = (y % 2 = 1)

(* Push a word, going on in state s; the word a pop or a return takes. *)
Push(s, w) ==
  /\ z' = [s EXCEPT !.sp = Wrap(@ - 2)]
  /\ mem' = PokeWord(Wrap(z.sp - 2), w)
Top == PeekWord(z.sp)
Popped_Wide(s) == [s EXCEPT !.sp = @ + 2]
Popped(s) == [s EXCEPT !.sp = Wrap(@ + 2)]
=============================================================================
