------------------------------ MODULE MemBanks ------------------------------
(***************************************************************************)
(* The memory of the four RC2014 machines: the list of regions that a read *)
(* or write searches (Common/src/memregion.c), the ports that switch ROM   *)
(* and RAM (each machine's system.c), and the copy of memory in the CPU's  *)
(* structure that the debugger looks at and changes (z80->mem).            *)
(*                                                                         *)
(* Switching takes several stores, and SIGUSR1's handler, which sets the   *)
(* memory up again, may run between any two of them: "stores" holds those  *)
(* that are still to be done.  The machine is chosen at the start.         *)
(***************************************************************************)
EXTENDS Naturals, Sequences, FiniteSetsExt

CONSTANTS Machines,     \* those that are looked at
          RomLen,       \* the size of the ROM's image
          HalfLen,      \* half of the address space
          Image,        \* the content of every byte of the ROM's image
          Value         \* the bytes that are written

ASSUME MemAssumption ==
  /\ Machines \subseteq {"rc2014", "rc2014SB", "rc2014LL", "Llichen80"}
  /\ RomLen \in Nat \ {0} /\ HalfLen \in Nat /\ RomLen < HalfLen
  /\ Image \in 0 .. 255 /\ Value \subseteq 0 .. 255

Addr == 0 .. 2 * HalfLen - 1

VARIABLES
  machine,   \* the machine that is emulated
  active,    \* which regions are active
  mem,       \* the content of the regions
  shadow,    \* z80->mem
  lastByte,  \* romen_update's static variable
  stores,    \* stores of a switch that are still to be done, in order
  data,      \* the result of the CPU's last read
  latch,     \* auxiliary: what the guest wrote to the switch port since the last start
  signalled, \* auxiliary: there was a SIGUSR1
  torn       \* auxiliary: the last one came between the stores of a toggle that
             \* went on after it, and no switch was made since

vars == <<machine, active, mem, shadow, lastByte, stores, data, latch, signalled, torn>>

Rom(start, length) == [start |-> start, len |-> length, writable |-> FALSE]
Ram(start, length) == [start |-> start, len |-> length, writable |-> TRUE]

\* The machines' lists of regions.
memsOf == [m \in Machines |->
  CASE m = "Llichen80" ->
         << Rom(0, RomLen), Ram(0, RomLen), Ram(RomLen, HalfLen - RomLen),
            Ram(HalfLen, HalfLen) >>
    [] m = "rc2014LL" ->
         << Rom(0, HalfLen), Ram(0, HalfLen), Ram(HalfLen, HalfLen) >>
    [] OTHER ->
         << Rom(0, RomLen), Ram(0, HalfLen), Ram(HalfLen, HalfLen) >>]

mems == memsOf[machine]

Region == DOMAIN mems

\* Region 2, the RAM at 0, is off at first; rc2014LL has it on all the time.
PowerOn == [r \in Region |-> IF r = 2 /\ machine # "rc2014LL" THEN 0 ELSE 1]

Holds(r, a) == mems[r].start <= a /\ a < mems[r].start + mems[r].len

Offset(r, a) == a - mems[r].start

\* A slip: the regions' memory is not zeroed, some other byte is found there.
Loaded_Unzeroed ==
  [r \in Region |-> [o \in 0 .. mems[r].len - 1 |->
                       IF r = 1 /\ o < RomLen THEN Image ELSE 255]]

\* regions_init: zeroed memory, the ROM's file at the start of region 1, and
\* all but the last byte of every region, in order, copied for the debugger.
Loaded ==
  [r \in Region |-> [o \in 0 .. mems[r].len - 1 |->
                       IF r = 1 /\ o < RomLen THEN Image ELSE 0]]

FreshShadow ==
  [a \in Addr |->
     LET copied == {r \in Region : Holds(r, a) /\ Offset(r, a) < mems[r].len - 1}
     IN  IF copied = {} THEN 255 ELSE Loaded[Max(copied)][Offset(Max(copied), a)]]

Init ==
  /\ machine \in Machines
  /\ active = PowerOn
  /\ mem = Loaded
  /\ shadow = FreshShadow
  /\ lastByte = 0
  /\ stores = <<>>
  /\ data = 255
  /\ latch = 0
  /\ signalled = FALSE
  /\ torn = FALSE

-----------------------------------------------------------------------------
(* The CPU's reads and writes: the first active region that holds the      *)
(* address, and for a write is writable.                                   *)

regions_read(a) ==
  LET hits == {r \in Region : Holds(r, a) /\ active[r] = 1}
  IN  IF hits = {} THEN 255 ELSE mem[Min(hits)][Offset(Min(hits), a)]

\* A slip: a region that is switched off is written as well.
regions_write_Inactive(a, v) ==
  LET hits == {r \in Region : Holds(r, a) /\ mems[r].writable}
  IN  mem' = IF hits = {} THEN mem
             ELSE [mem EXCEPT ![Min(hits)][Offset(Min(hits), a)] = v]

regions_write(a, v) ==
  LET hits == {r \in Region : Holds(r, a) /\ active[r] = 1 /\ mems[r].writable}
  IN  mem' = IF hits = {} THEN mem
             ELSE [mem EXCEPT ![Min(hits)][Offset(Min(hits), a)] = v]

AtRest == stores = <<>>

Read(a) ==
  /\ AtRest
  /\ data' = regions_read(a)
  /\ UNCHANGED <<machine, active, mem, shadow, lastByte, stores, latch, signalled, torn>>

Write(a, v) ==
  /\ AtRest
  /\ regions_write(a, v)
  /\ shadow' = [shadow EXCEPT ![a] = v]
  /\ UNCHANGED <<machine, active, lastByte, stores, data, latch, signalled, torn>>

-----------------------------------------------------------------------------
(* Switching.  A store is a pair of what is set and to what; 0 is lastByte. *)

RomOn  == << <<1, 1>>, <<2, 0>> >>
RomOff == << <<1, 0>>, <<2, 1>> >>

\* A slip: the whole byte is compared, and not bit 0 of it.
RomenStores_Remembers(v) ==
  IF lastByte = v THEN <<>> ELSE << <<1, IF v = 0 THEN 1 ELSE 0>>, <<0, v>> >>

\* rc2014LL: bit 0 switches the ROM, and only when it differs from last time.
RomenStores(v) ==
  IF lastByte = v % 2 THEN <<>> ELSE << <<1, 1 - (v % 2)>>, <<0, v>> >>

SwitchStores(v) ==
  CASE machine = "rc2014LL" -> RomenStores(v)
    [] machine = "rc2014SB" -> RomOff
    [] OTHER -> IF active[1] = 1 THEN RomOff ELSE RomOn

\* An OUT to the machine's switch port.
Out(v) ==
  /\ AtRest
  /\ stores' = SwitchStores(v)
  /\ latch' = v
  /\ torn' = FALSE
  /\ UNCHANGED <<machine, active, mem, shadow, lastByte, data, signalled>>

\* The CPU's RESET, on the machines with a RESET_HANDLER.
ResetHandle ==
  /\ AtRest
  /\ machine \in {"rc2014", "Llichen80"}
  /\ stores' = RomOn
  /\ torn' = FALSE
  /\ UNCHANGED <<machine, active, mem, shadow, lastByte, data, latch, signalled>>

Store ==
  /\ ~AtRest
  /\ LET target == Head(stores)[1]  v == Head(stores)[2]
     IN  IF target = 0
         THEN lastByte' = v /\ UNCHANGED active
         ELSE active' = [active EXCEPT ![target] = v] /\ UNCHANGED lastByte
  /\ stores' = Tail(stores)
  /\ UNCHANGED <<machine, mem, shadow, data, latch, signalled, torn>>

\* SIGUSR1: system_init, io_init and mem_init.  rc2014LL's system_init and
\* Llichen80's mem_init put the regions back, the other machines' do not.  A
\* switch that it comes into goes on behind it.
Sigusr1 ==
  /\ mem' = Loaded
  /\ shadow' = FreshShadow
  /\ active' = IF machine \in {"rc2014LL", "Llichen80"} THEN PowerOn ELSE active
  /\ latch' = 0
  /\ signalled' = TRUE
  /\ torn' = (machine = "Llichen80" /\ stores = << <<2, 1>> >>)
  /\ UNCHANGED <<machine, lastByte, stores, data>>

-----------------------------------------------------------------------------
(* The debugger, at its prompt: 'p' pokes a byte, 'l' loads a run of them. *)

Poke(a, v) ==
  /\ AtRest
  /\ shadow' = [shadow EXCEPT ![a] = v]
  /\ UNCHANGED <<machine, active, mem, lastByte, stores, data, latch, signalled, torn>>

\* The address of a record is a word and wraps.
LoadHex(first, n, v) ==
  /\ AtRest
  /\ LET run == {(first + i) % (2 * HalfLen) : i \in 0 .. n - 1}
     IN  shadow' = [a \in Addr |-> IF a \in run THEN v ELSE shadow[a]]
  /\ UNCHANGED <<machine, active, mem, lastByte, stores, data, latch, signalled, torn>>

Debugger ==
  \E a \in Addr, v \in Value : Poke(a, v) \/ LoadHex(a, 2, v)

Cpu ==
  \/ \E a \in Addr : Read(a) \/ \E v \in Value : Write(a, v)
  \/ \E v \in 0 .. 3 : Out(v)
  \/ ResetHandle
  \/ Store

Next == Cpu \/ Sigusr1 \/ Debugger

Spec == Init /\ [][Next]_vars

-----------------------------------------------------------------------------
TypeOK ==
  /\ machine \in Machines
  /\ active \in [Region -> {0, 1}]
  /\ DOMAIN mem = Region
  /\ \A r \in Region : mem[r] \in [0 .. mems[r].len - 1 -> {0, Image} \cup Value]
  /\ shadow \in [Addr -> {0, 255, Image} \cup Value]
  /\ lastByte \in 0 .. 255
  /\ stores \in Seq({0, 1, 2} \X (0 .. 255)) /\ Len(stores) <= 2
  /\ data \in {0, 255, Image} \cup Value
  /\ latch \in 0 .. 255
  /\ {signalled, torn} \subseteq BOOLEAN

\* The RAM as one flat memory, whichever regions it is kept in.
FlatRam ==
  [a \in Addr |->
     LET r == CHOOSE r \in Region : mems[r].writable /\ Holds(r, a)
     IN  mem[r][Offset(r, a)]]

\* Where the RAM is read while the ROM is selected.
RamBeside(m, a) == a >= IF m = "Llichen80" THEN RomLen ELSE HalfLen

\* "torn" is Llichen80 with both on: the ROM is read, the RAM below it written.
Selection == {"rom", "ram", "torn"}

\* rc2014LL's ROM region is as long as the RAM below it, though its image is
\* not, and reads as zero behind the image.
Source == [x \in Machines \X Selection \X Addr |->
  CASE x[2] = "ram" -> "ram"
    [] x[2] # "ram" /\ x[3] < memsOf[x[1]][1].len -> "rom"
    [] x[2] # "ram" /\ RamBeside(x[1], x[3]) -> "ram"
    [] OTHER -> "none"]

KeptWrites ==
  {x \in Machines \X Selection \X Addr :
     x[2] # "rom" \/ x[1] = "rc2014LL" \/ RamBeside(x[1], x[3])}

Ways ==
  {x \in Machines \X Selection \X {"rom", "ram"} :
     x[2] # x[3] /\ (x[1] = "rc2014SB" => x[3] = "ram")}

\* What a restart selects: the ROM where it puts the banks back, which a toggle
\* that it tears on Llichen80 adds the RAM to.
Started ==
  {x \in Machines \X Selection \X Selection :
     CASE x[1] = "Llichen80" -> x[3] # "ram"
       [] x[1] = "rc2014LL" -> x[3] = "rom"
       [] OTHER -> x[3] = x[2]}

RomContent == [a \in Addr |-> IF a < RomLen THEN Image ELSE 0]

Paged == INSTANCE PagedMemory WITH
  select <- IF torn THEN "torn" ELSE IF active[1] = 1 THEN "rom" ELSE "ram",
  ram <- FlatRam,
  RomAt <- RomContent,
  Blank <- 0,
  Unmapped <- 255,
  ReadsFrom <- Source,
  Kept <- KeptWrites,
  Switches <- Ways,
  Restarts <- Started

(* The regions behave as the one flat RAM under a ROM that the machine's   *)
(* README describes: whatever is switched and written, in any order, a     *)
(* read returns the last byte that was kept for the address or the ROM's,  *)
(* a SIGUSR1 at any time leaves nothing of the old content and the banks   *)
(* as Started says, and on rc2014SB the switch is one way                  *)
(* (rc2014/README.md:26-28, rc2014SB/README.md:12-15,                      *)
(* rc2014LL/README.md:25-37, main.c:1166-1195).                            *)
ImplementsPaged == Paged!Spec

(* Between instructions the low block is the ROM or the RAM, never both    *)
(* and never neither (Llichen80/src/system.c:27-38 lists the two maps),    *)
(* until a SIGUSR1 tears Llichen80's toggle, which leaves both on up to    *)
(* the next switch; rc2014LL keeps the RAM below its ROM on.               *)
TwoMaps ==
  AtRest => CASE machine = "rc2014LL" -> active[2] = 1
              [] torn -> machine = "Llichen80" /\ active[1] = 1 /\ active[2] = 1
              [] OTHER -> {active[1], active[2]} = {0, 1}

\* rc2014LL: what is read at 0 is what the port's bit 0 says.
FollowsPort == machine = "rc2014LL" /\ AtRest => active[1] = 1 - (latch % 2)

(* "When bit 0 of the Digital IO output is set to 0, reads ... return with *)
(* values from the ROM.  When that bit is set to 1, reads will come from   *)
(* the RAM" (rc2014LL/README.md:25-27): the comparison with the byte that  *)
(* romen_update remembers never swallows a change of the bit, as long as   *)
(* no SIGUSR1 comes.                                                       *)
RomenObeysPort == ~signalled => FollowsPort

(* Whatever writes to the port, resets and signals came before and in      *)
(* between, the low block is one of the machine's two maps but for what a  *)
(* torn toggle leaves, and on rc2014LL the one that the port's last byte   *)
(* asks for (Llichen80/src/system.c:27-55, rc2014LL/src/system.c:40-54).   *)
MapsFollowPorts == TwoMaps /\ RomenObeysPort
=============================================================================
