---------------------------- MODULE PagedMemory ----------------------------
(***************************************************************************)
(* What a machine's memory promises a program, as the READMEs of the       *)
(* machines tell it: one flat RAM, a ROM that may lie over it, and a       *)
(* selection that says which of them an address reads from and whether a   *)
(* write to it is kept.                                                    *)
(***************************************************************************)
CONSTANTS Addr, Value,
          Machines,
          RomAt,      \* the content of the ROM, [Addr -> Value]
          Blank,      \* the content of fresh RAM
          Unmapped,   \* what a read returns where nothing is mapped
          ReadsFrom,  \* "rom", "ram" or "none" for <<machine, selection, address>>
          Kept,       \* those <<machine, selection, address>> whose writes are kept
          Switches,   \* the <<machine, from, to>> that a program may do
          Restarts    \* and those that a restart does

VARIABLES machine, select, ram, data

pagedVars == <<machine, select, ram, data>>

Init ==
  /\ machine \in Machines
  /\ select = "rom"
  /\ ram = [a \in Addr |-> Blank]
  /\ data = Unmapped

Read(a) ==
  /\ data' = CASE ReadsFrom[<<machine, select, a>>] = "rom" -> RomAt[a]
               [] ReadsFrom[<<machine, select, a>>] = "ram" -> ram[a]
               [] OTHER -> Unmapped
  /\ UNCHANGED <<machine, select, ram>>

Write(a, v) ==
  /\ ram' = IF <<machine, select, a>> \in Kept THEN [ram EXCEPT ![a] = v] ELSE ram
  /\ UNCHANGED <<machine, select, data>>

Switch(s) ==
  /\ <<machine, select, s>> \in Switches
  /\ select' = s
  /\ UNCHANGED <<machine, ram, data>>

\* The machine is started again, and its RAM is fresh.
Restart ==
  /\ <<machine, select, select'>> \in Restarts
  /\ ram' = [a \in Addr |-> Blank]
  /\ UNCHANGED <<machine, data>>

Next ==
  \/ \E a \in Addr : Read(a) \/ \E v \in Value : Write(a, v)
  \/ \E s \in {"rom", "ram"} : Switch(s)
  \/ Restart

Spec == Init /\ [][Next]_pagedVars
=============================================================================
