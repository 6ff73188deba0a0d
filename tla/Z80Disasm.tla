----------------------------- MODULE Z80Disasm -----------------------------
(***************************************************************************)
(* The disassembler of the debugger (z80orig/src/disassem.c), which        *)
(* decodes by bit fields of its own and shares no table with the emulator. *)
(* Of a line it prints the model keeps how many bytes the line stands for  *)
(* and what it says the instruction does: "flow" may go elsewhere,         *)
(* "repeat" may come back, "***" is an opcode it calls illegal, "data" is  *)
(* anything else.                                                          *)
(***************************************************************************)
EXTENDS Z80Cpu

Line(len, says) == [len |-> len, says |-> says]

(* case 0.  indexed: behind DD, index_reg names IX.  The displacement of   *)
(* inc, dec and ld through (IX+d) is printed by put_reg, but only ld       *)
(* counts it.                                                              *)
ListLoads(t, indexed) ==
  CASE t % 8 = 0 -> IF Y(t) < 2 THEN Line(1, "data") ELSE Line(2, "flow")
    [] t % 16 = 1 -> Line(3, "data")
    [] t % 8 = 2 -> Line(IF P(t) >= 2 THEN 3 ELSE 1, "data")
    [] t % 8 = 6 -> Line(IF indexed /\ Y(t) = M THEN 3 ELSE 2, "data")
    [] OTHER -> Line(1, "data")

(* case 1 and case 2. *)
ListRegisters(t) == Line(1, IF t = \h76 THEN "halt" ELSE "data")

(* Behind ED. *)
ListExtended_Short(t) == Line(2, "data")
ListExtended(t) ==
  CASE X(t) = 1 /\ Z(t) \in {0, 1, 2} -> Line(2, "data")
    [] X(t) = 1 /\ Z(t) = 3 -> Line(4, "data")
    [] t \in {\h45, \h4D} -> Line(2, "flow")
    [] t \in {\h44, \h46, \h56, \h5E, \h47, \h57, \h67, \h4F, \h5F, \h6F} ->
         Line(2, "data")
    [] X(t) = 2 /\ Y(t) >= 4 /\ Z(t) < 4 ->
         Line(2, IF Y(t) >= 6 THEN "repeat" ELSE "data")
    [] OTHER -> Line(2, "***")

(* case 3 without the prefixes.  The test for the operations with n takes  *)
(* bits 2 and 1 of the opcode, so it also takes RST, and FD ends up as the *)
(* call of bit 3.                                                          *)
ListControl(t) ==
  CASE Z(t) \in {6, 7} -> Line(2, "data")
    [] Z(t) = 0 -> Line(1, "flow")
    [] Z(t) = 1 -> Line(1, IF t \in {\hC9, \hE9} THEN "flow" ELSE "data")
    [] Z(t) = 2 -> Line(3, "flow")
    [] t = \hC3 -> Line(3, "flow")
    [] t \in {\hD3, \hDB} -> Line(2, "data")
    [] Z(t) = 3 /\ t >= \hE3 -> Line(1, "data")
    [] Z(t) = 4 -> Line(3, "flow")
    [] Z(t) = 5 -> IF Y(t) % 2 = 1 THEN Line(3, "flow") ELSE Line(1, "data")

(* The switch over the first byte, at loc and behind DD. *)
ListAt(loc, indexed) ==
  LET t == Peek(loc)
  IN  CASE X(t) = 0 -> ListLoads(t, indexed)
        [] X(t) \in {1, 2} -> ListRegisters(t)
        [] t = \hCB -> Line(2, "data")
        [] t = \hED -> ListExtended(Peek(loc + 1))
        [] OTHER -> ListControl(t)

(* disassem(): it calls itself once for every DD (at most MaxPrefixes here). *)
MaxPrefixes == 4

Listed(loc) ==
  LET n == CHOOSE k \in 0 .. MaxPrefixes :
             /\ Peek(loc + k) # \hDD \/ k = MaxPrefixes
             /\ \A j \in 0 .. k - 1 : Peek(loc + j) = \hDD
      l == ListAt(loc + n, n > 0)
  IN  [l EXCEPT !.len = @ + n]
=============================================================================
