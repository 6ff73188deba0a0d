--------------------------- MODULE MemBanks_proofs ---------------------------
(***************************************************************************)
(* The switching of ROM and RAM, for every size of the two and whatever    *)
(* SIGUSR1 comes into.  Then the types, with every store inside its array, *)
(* and the flat RAM under a switched ROM that the search through the       *)
(* regions implements.                                                     *)
(***************************************************************************)
EXTENDS MemBanks, TLAPS

(* What is left of a switch between two maps, and what is already done.    *)
TwoMapsInv ==
  \/ stores = <<>> /\ active[2] = IF torn THEN 1 ELSE 1 - active[1]
  \/ (stores = RomOn \/ stores = RomOff) /\ ~torn
  \/ stores = << <<2, 0>> >> /\ active[1] = 1 /\ ~torn
  \/ stores = << <<2, 1>> >> /\ (torn \/ active[1] = 0)

(* The same of romen_update, which compares with lastByte before.  Of a    *)
(* switch that a signal came before or into only the shape is known.       *)
RomenInv ==
  /\ active[2] = 1
  /\ \/ /\ stores = <<>>
        /\ ~signalled => active[1] = 1 - (latch % 2) /\ lastByte % 2 = latch % 2
     \/ \E v \in 0 .. 3 :
          /\ stores = << <<1, 1 - (v % 2)>>, <<0, v>> >>
          /\ ~signalled => v = latch
     \/ \E v \in 0 .. 3 :
          /\ stores = << <<0, v>> >>
          /\ ~signalled => v = latch /\ active[1] = 1 - (latch % 2)

BankTypes ==
  /\ machine \in Machines
  /\ active \in [Region -> {0, 1}]
  /\ lastByte \in 0 .. 3 /\ latch \in 0 .. 3
  /\ signalled \in BOOLEAN /\ torn \in BOOLEAN
  /\ torn => machine = "Llichen80" /\ active[1] = 1

BankInv ==
  /\ BankTypes
  /\ machine # "rc2014LL" => TwoMapsInv
  /\ machine = "rc2014LL" => RomenInv

-----------------------------------------------------------------------------
(* The tables of regions: at least three, with the ROM first, at 0, and    *)
(* the RAM that lies there second.                                         *)
LEMMA RegionsAtZero ==
  ASSUME machine \in Machines
  PROVE  /\ 1 \in Region /\ 2 \in Region /\ Region \subseteq Nat \ {0}
         /\ Holds(1, 0) /\ Offset(1, 0) = 0
         /\ 0 \in 0 .. mems[1].len - 1
<1>1. \E n \in {RomLen, HalfLen} :
        /\ mems[1] = Rom(0, n) /\ 1 \in Region
        /\ 2 \in Region /\ Region \subseteq Nat \ {0}
  <2>1. CASE machine = "Llichen80"
    <3>1. mems = << Rom(0, RomLen), Ram(0, RomLen), Ram(RomLen, HalfLen - RomLen),
                    Ram(HalfLen, HalfLen) >>
      BY <2>1 DEF mems, memsOf
    <3> QED
      BY <3>1 DEF Region
  <2>2. CASE machine = "rc2014LL"
    <3>1. mems = << Rom(0, HalfLen), Ram(0, HalfLen), Ram(HalfLen, HalfLen) >>
      BY <2>2 DEF mems, memsOf
    <3> QED
      BY <3>1 DEF Region
  <2>3. CASE machine \notin {"Llichen80", "rc2014LL"}
    <3>1. mems = << Rom(0, RomLen), Ram(0, HalfLen), Ram(HalfLen, HalfLen) >>
      BY <2>3 DEF mems, memsOf
    <3> QED
      BY <3>1 DEF Region
  <2> QED
    BY <2>1, <2>2, <2>3
<1> QED
  BY <1>1, MemAssumption DEF Rom, Holds, Offset

LEMMA PowerOnIsRom ==
  ASSUME machine \in Machines
  PROVE  /\ PowerOn \in [Region -> {0, 1}]
         /\ PowerOn[1] = 1
         /\ PowerOn[2] = IF machine = "rc2014LL" THEN 1 ELSE 0
BY RegionsAtZero DEF PowerOn

LEMMA InitBanks == Init => BankInv
<1> SUFFICES ASSUME Init PROVE BankInv
  OBVIOUS
<1>1. machine \in Machines /\ active = PowerOn /\ stores = <<>>
  BY DEF Init
<1>2. BankTypes
  <2>1. active \in [Region -> {0, 1}]
    BY <1>1, PowerOnIsRom
  <2>2. lastByte \in 0 .. 3 /\ latch \in 0 .. 3
    BY DEF Init
  <2>3. signalled \in BOOLEAN /\ torn = FALSE
    BY DEF Init
  <2> QED
    BY <1>1, <2>1, <2>2, <2>3 DEF BankTypes
<1>3. machine # "rc2014LL" => TwoMapsInv
  <2>1. torn = FALSE
    BY DEF Init
  <2> QED
    BY <1>1, <2>1, PowerOnIsRom DEF TwoMapsInv
<1>4. machine = "rc2014LL" => RomenInv
  BY <1>1, PowerOnIsRom DEF Init, RomenInv
<1> QED
  BY <1>2, <1>3, <1>4 DEF BankInv

(* A switch of one machine is made of its own stores. *)
LEMMA OutKeepsBanks ==
  ASSUME BankInv, NEW v \in 0 .. 3, Out(v)
  PROVE  BankInv'
<1> USE DEF BankInv, Out, AtRest
<1>1. BankTypes'
  BY DEF BankTypes, Region, mems
<1>2. ASSUME machine # "rc2014LL" PROVE TwoMapsInv'
  <2>1. stores' = RomOn \/ stores' = RomOff
    BY <1>2 DEF SwitchStores
  <2> QED
    BY <2>1 DEF TwoMapsInv, RomOn, RomOff
<1>3. ASSUME machine = "rc2014LL" PROVE RomenInv'
  <2>1. stores' = RomenStores(v)
    BY <1>3 DEF SwitchStores
  <2>2. CASE lastByte = v % 2
    BY <1>3, <2>1, <2>2 DEF RomenInv, RomenStores, BankTypes
  <2>3. CASE lastByte # v % 2
    BY <1>3, <2>1, <2>3 DEF RomenInv, RomenStores
  <2> QED
    BY <2>2, <2>3
<1> QED
  BY <1>1, <1>2, <1>3

LEMMA StoreKeepsBanks ==
  ASSUME BankInv, Store
  PROVE  BankInv'
<1> USE DEF BankInv, Store, AtRest
<1>0. /\ machine \in Machines /\ 1 \in Region /\ 2 \in Region
      /\ Region' = Region
  BY RegionsAtZero DEF BankTypes, Region, mems
<1>1. ASSUME machine # "rc2014LL" PROVE BankTypes' /\ TwoMapsInv'
  <2>1. CASE stores = RomOn
    BY <1>0, <1>1, <2>1 DEF TwoMapsInv, RomOn, BankTypes
  <2>2. CASE stores = RomOff
    BY <1>0, <1>1, <2>2 DEF TwoMapsInv, RomOff, BankTypes
  <2>3. CASE stores = << <<2, 0>> >> /\ active[1] = 1
    BY <1>0, <1>1, <2>3 DEF TwoMapsInv, BankTypes
  <2>4. CASE stores = << <<2, 1>> >> /\ (torn \/ active[1] = 0)
    BY <1>0, <1>1, <2>4 DEF TwoMapsInv, BankTypes
  <2> QED
    BY <1>1, <2>1, <2>2, <2>3, <2>4 DEF TwoMapsInv
<1>2. ASSUME machine = "rc2014LL" PROVE BankTypes' /\ RomenInv'
  <2>1. ASSUME NEW v \in 0 .. 3,
               stores = << <<1, 1 - (v % 2)>>, <<0, v>> >>,
               ~signalled => v = latch
        PROVE  BankTypes' /\ RomenInv'
    <3>1. /\ stores' = << <<0, v>> >>
          /\ active' = [active EXCEPT ![1] = 1 - (v % 2)]
          /\ lastByte' = lastByte
      BY <2>1
    <3>2. 1 - (v % 2) \in {0, 1}
      OBVIOUS
    <3> QED
      BY <1>0, <1>2, <2>1, <3>1, <3>2 DEF RomenInv, BankTypes
  <2>2. ASSUME NEW v \in 0 .. 3,
               stores = << <<0, v>> >>,
               ~signalled => v = latch /\ active[1] = 1 - (latch % 2)
        PROVE  BankTypes' /\ RomenInv'
    <3>1. stores' = <<>> /\ active' = active /\ lastByte' = v
      BY <2>2
    <3> QED
      BY <1>0, <1>2, <2>2, <3>1 DEF RomenInv, BankTypes
  <2> QED
    BY <1>2, <2>1, <2>2 DEF RomenInv
<1> QED
  BY <1>1, <1>2

LEMMA RestartKeepsBanks ==
  ASSUME BankInv, Sigusr1
  PROVE  BankInv'
<1> USE DEF BankInv, Sigusr1
<1>0. machine \in Machines /\ Region' = Region
  BY DEF BankTypes, Region, mems
<1>1. BankTypes'
  BY <1>0, PowerOnIsRom DEF BankTypes
<1>2. ASSUME machine # "rc2014LL" PROVE TwoMapsInv'
  <2>1. CASE machine = "Llichen80"
    <3>1. active'[1] = 1 /\ active'[2] = 0 /\ stores' = stores
      BY <1>0, <2>1, PowerOnIsRom
    <3>2. torn' <=> stores = << <<2, 1>> >>
      BY <2>1
    <3>3. stores = <<>> \/ stores = RomOn \/ stores = RomOff
            \/ stores = << <<2, 0>> >> \/ stores = << <<2, 1>> >>
      BY <1>2 DEF TwoMapsInv
    <3>4. /\ <<>> # << <<2, 1>> >> /\ RomOn # << <<2, 1>> >> /\ RomOff # << <<2, 1>> >>
          /\ << <<2, 0>> >> # << <<2, 1>> >>
      BY DEF RomOn, RomOff
    <3>5. RomOn' = RomOn /\ RomOff' = RomOff
      BY DEF RomOn, RomOff
    <3> QED
      BY <3>1, <3>2, <3>3, <3>4, <3>5 DEF TwoMapsInv
  <2>2. CASE machine # "Llichen80"
    BY <1>2, <2>2 DEF TwoMapsInv, RomOn, RomOff, BankTypes
  <2> QED
    BY <2>1, <2>2
<1>3. ASSUME machine = "rc2014LL" PROVE RomenInv'
  BY <1>0, <1>3, PowerOnIsRom DEF RomenInv
<1> QED
  BY <1>1, <1>2, <1>3

LEMMA NextKeepsBanks ==
  ASSUME BankInv, [Next]_vars
  PROVE  BankInv'
<1>1. CASE \E v \in 0 .. 3 : Out(v)
  BY <1>1, OutKeepsBanks
<1>2. CASE ResetHandle
  BY <1>2 DEF ResetHandle, BankInv, BankTypes, TwoMapsInv, RomOn, RomOff, Region, mems
<1>3. CASE Store
  BY <1>3, StoreKeepsBanks
<1>4. CASE Sigusr1
  BY <1>4, RestartKeepsBanks
<1>5. ASSUME UNCHANGED <<machine, active, lastByte, stores, latch, signalled, torn>>
      PROVE  BankInv'
  BY <1>5 DEF BankInv, BankTypes, TwoMapsInv, RomenInv, RomOn, RomOff, Region, mems
<1>6. CASE \E a \in Addr : Read(a)
  BY <1>5, <1>6 DEF Read
<1>7. CASE \E a \in Addr, v \in Value : Write(a, v)
  BY <1>5, <1>7 DEF Write
<1>8. CASE Debugger
  BY <1>5, <1>8 DEF Debugger, Poke, LoadHex
<1>9. CASE UNCHANGED vars
  BY <1>5, <1>9 DEF vars
<1> QED
  BY <1>1, <1>2, <1>3, <1>4, <1>6, <1>7, <1>8, <1>9 DEF Next, Cpu

LEMMA BanksGiveMaps == BankInv => MapsFollowPorts
<1> SUFFICES ASSUME BankInv, AtRest PROVE MapsFollowPorts
  BY DEF MapsFollowPorts, TwoMaps, RomenObeysPort, FollowsPort
<1>1. CASE machine = "rc2014LL"
  BY <1>1 DEF BankInv, BankTypes, RomenInv, AtRest, MapsFollowPorts, TwoMaps, RomenObeysPort,
              FollowsPort
<1>2. CASE machine # "rc2014LL"
  <2>1. active[2] = IF torn THEN 1 ELSE 1 - active[1]
    BY <1>2 DEF BankInv, TwoMapsInv, RomOn, RomOff, AtRest
  <2>2. active[1] \in {0, 1} /\ (torn => machine = "Llichen80" /\ active[1] = 1)
    BY RegionsAtZero DEF BankInv, BankTypes
  <2>3. ~torn => {active[1], active[2]} = {0, 1}
    BY <2>1, <2>2
  <2> QED
    BY <1>2, <2>1, <2>2, <2>3 DEF MapsFollowPorts, TwoMaps, RomenObeysPort, FollowsPort
<1> QED
  BY <1>1, <1>2

(* Whatever writes to the port, resets, signals and prompts came before    *)
(* and into a switch, the low block is one of the machine's two maps, or   *)
(* after a torn toggle Llichen80's ROM over its RAM until the next switch, *)
(* and rc2014LL's the one that its port asks for until the first signal -  *)
(* for every size of ROM and RAM (Llichen80/src/system.c:27-55,            *)
(* rc2014LL/src/system.c:40-54).                                           *)
THEOREM PortsSelectMaps == Spec => []MapsFollowPorts
<1>1. Init => BankInv
  BY InitBanks
<1>2. BankInv /\ [Next]_vars => BankInv'
  BY NextKeepsBanks
<1>3. BankInv => MapsFollowPorts
  BY BanksGiveMaps
<1> QED
  BY <1>1, <1>2, <1>3, PTL DEF Spec

-----------------------------------------------------------------------------
(* Every region is a piece of the address space; the first one, at 0, is   *)
(* the ROM, the others are RAM.                                            *)
LEMMA Regions ==
  ASSUME machine \in Machines
  PROVE  /\ Region \subseteq 1 .. 4 /\ 1 \in Region /\ 2 \in Region
         /\ \A r \in Region : /\ mems[r].start \in Nat /\ mems[r].len \in Nat \ {0}
                              /\ r # 1 => mems[r].writable = TRUE
         /\ mems[1].writable = FALSE /\ mems[1].start = 0 /\ RomLen <= mems[1].len
<1> USE MemAssumption DEF Rom, Ram
<1>1. CASE machine = "Llichen80"
  <2>1. mems = << Rom(0, RomLen), Ram(0, RomLen), Ram(RomLen, HalfLen - RomLen),
                  Ram(HalfLen, HalfLen) >>
    BY <1>1 DEF mems, memsOf
  <2>2. Region = 1 .. 4
    BY <2>1 DEF Region
  <2>3. /\ mems[1] = Rom(0, RomLen) /\ mems[2] = Ram(0, RomLen)
        /\ mems[3] = Ram(RomLen, HalfLen - RomLen) /\ mems[4] = Ram(HalfLen, HalfLen)
    BY <2>1
  <2>4. \A r \in Region : r = 1 \/ r = 2 \/ r = 3 \/ r = 4
    BY <2>2
  <2> QED
    BY <2>2, <2>3, <2>4
<1>2. CASE machine = "rc2014LL"
  <2>1. mems = << Rom(0, HalfLen), Ram(0, HalfLen), Ram(HalfLen, HalfLen) >>
    BY <1>2 DEF mems, memsOf
  <2>2. Region = 1 .. 3
    BY <2>1 DEF Region
  <2>3. /\ mems[1] = Rom(0, HalfLen) /\ mems[2] = Ram(0, HalfLen)
        /\ mems[3] = Ram(HalfLen, HalfLen)
    BY <2>1
  <2>4. \A r \in Region : r = 1 \/ r = 2 \/ r = 3
    BY <2>2
  <2> QED
    BY <2>2, <2>3, <2>4
<1>3. CASE machine \notin {"Llichen80", "rc2014LL"}
  <2>1. mems = << Rom(0, RomLen), Ram(0, HalfLen), Ram(HalfLen, HalfLen) >>
    BY <1>3 DEF mems, memsOf
  <2>2. Region = 1 .. 3
    BY <2>1 DEF Region
  <2>3. /\ mems[1] = Rom(0, RomLen) /\ mems[2] = Ram(0, HalfLen)
        /\ mems[3] = Ram(HalfLen, HalfLen)
    BY <2>1
  <2>4. \A r \in Region : r = 1 \/ r = 2 \/ r = 3
    BY <2>2
  <2> QED
    BY <2>2, <2>3, <2>4
<1> QED
  BY <1>1, <1>2, <1>3

(* Every address lies in exactly one region of RAM, the second one if it   *)
(* can be hidden by the ROM.                                               *)
LEMMA OneRam ==
  ASSUME machine \in Machines, NEW a \in Addr
  PROVE  \E r \in Region \ {1} :
           /\ Holds(r, a) /\ \A s \in Region \ {1} : Holds(s, a) => s = r
           /\ r = 2 <=> ~RamBeside(machine, a)
<1> USE MemAssumption DEF Rom, Ram, Holds, RamBeside, Addr
<1>1. CASE machine = "Llichen80"
  <2>1. mems = << Rom(0, RomLen), Ram(0, RomLen), Ram(RomLen, HalfLen - RomLen),
                  Ram(HalfLen, HalfLen) >>
    BY <1>1 DEF mems, memsOf
  <2>2. Region = 1 .. 4
    BY <2>1 DEF Region
  <2>3. /\ Holds(2, a) <=> a < RomLen
        /\ Holds(3, a) <=> RomLen <= a /\ a < HalfLen
        /\ Holds(4, a) <=> HalfLen <= a
    BY <2>1
  <2> QED
    BY <1>1, <2>2, <2>3
<1>2. CASE machine # "Llichen80"
  <2>1. \E n \in {RomLen, HalfLen} :
          mems = << Rom(0, n), Ram(0, HalfLen), Ram(HalfLen, HalfLen) >>
    BY <1>2 DEF mems, memsOf
  <2>2. Region = 1 .. 3
    BY <2>1 DEF Region
  <2>3. /\ Holds(2, a) <=> a < HalfLen
        /\ Holds(3, a) <=> HalfLen <= a
    BY <2>1
  <2> QED
    BY <1>2, <2>2, <2>3
<1> QED
  BY <1>1, <1>2

(* The first and the last of some regions are among them. *)
LEMMA EndsOfRegions ==
  ASSUME NEW S \in SUBSET (1 .. 4), S # {}
  PROVE  /\ Min(S) \in S /\ \A s \in S : Min(S) <= s
         /\ Max(S) \in S
<1>0. \E s \in 1 .. 4 : s \in S
  OBVIOUS
<1>1. \E m \in S : \A s \in S : m <= s
  <2>1. CASE 1 \in S
    BY <2>1
  <2>2. CASE 1 \notin S /\ 2 \in S
    BY <2>2
  <2>3. CASE 1 \notin S /\ 2 \notin S /\ 3 \in S
    BY <2>3
  <2>4. CASE 1 \notin S /\ 2 \notin S /\ 3 \notin S
    <3>1. 4 \in S /\ \A s \in S : 4 <= s
      BY <1>0, <2>4
    <3> QED
      BY <3>1
  <2> QED
    BY <2>1, <2>2, <2>3, <2>4
<1>2. \E m \in S : \A s \in S : m >= s
  <2>1. CASE 4 \in S
    BY <2>1
  <2>2. CASE 4 \notin S /\ 3 \in S
    BY <2>2
  <2>3. CASE 4 \notin S /\ 3 \notin S /\ 2 \in S
    BY <2>3
  <2>4. CASE 4 \notin S /\ 3 \notin S /\ 2 \notin S
    <3>1. 1 \in S /\ \A s \in S : 1 >= s
      BY <1>0, <2>4
    <3> QED
      BY <3>1
  <2> QED
    BY <2>1, <2>2, <2>3, <2>4
<1> QED
  BY <1>1, <1>2 DEF Min, Max

LEMMA RegionBytes ==
  ASSUME machine \in Machines, NEW r \in Region, NEW a \in Addr, Holds(r, a)
  PROVE  Offset(r, a) \in 0 .. mems[r].len - 1
<1>1. mems[r].start \in Nat /\ mems[r].len \in Nat
  BY Regions
<1>2. a \in Nat
  BY MemAssumption DEF Addr
<1> QED
  BY <1>1, <1>2 DEF Holds, Offset

-----------------------------------------------------------------------------
(* Types.  What is still to be stored fits the variable it is meant for.   *)
StoreTypes == ({1, 2} \X {0, 1}) \cup ({0} \X (0 .. 255))

TypeInv == TypeOK /\ stores \in Seq(StoreTypes)

Cells == {0, Image} \cup Value

LEMMA FreshTypes ==
  ASSUME machine \in Machines
  PROVE  /\ DOMAIN Loaded = Region
         /\ \A r \in Region : Loaded[r] \in [0 .. mems[r].len - 1 -> {0, Image}]
         /\ FreshShadow \in [Addr -> {0, 255, Image} \cup Value]
         /\ PowerOn \in [Region -> {0, 1}]
<1>1. DOMAIN Loaded = Region /\ PowerOn \in [Region -> {0, 1}]
  BY DEF Loaded, PowerOn
<1>2. ASSUME NEW r \in Region
      PROVE  Loaded[r] \in [0 .. mems[r].len - 1 -> {0, Image}]
  BY DEF Loaded
<1>3. ASSUME NEW a \in Addr
      PROVE  FreshShadow[a] \in {0, 255, Image} \cup Value
  <2> DEFINE copied == {r \in Region : Holds(r, a) /\ Offset(r, a) < mems[r].len - 1}
             top    == Max(copied)
  <2>1. FreshShadow[a] = IF copied = {} THEN 255 ELSE Loaded[top][Offset(top, a)]
    BY DEF FreshShadow
  <2>2. CASE copied = {}
    BY <2>1, <2>2
  <2>3. CASE copied # {}
    <3>1. copied \in SUBSET (1 .. 4)
      BY Regions
    <3>2. top \in copied
      BY <2>3, <3>1, EndsOfRegions
    <3>3. Offset(top, a) \in 0 .. mems[top].len - 1
      BY <3>2, RegionBytes
    <3>4. Loaded[top][Offset(top, a)] \in {0, Image}
      BY <1>2, <3>2, <3>3
    <3> QED
      BY <2>1, <2>3, <3>4
  <2> QED
    BY <2>2, <2>3
<1>4. FreshShadow = [a \in Addr |-> FreshShadow[a]]
  BY DEF FreshShadow
<1> QED
  BY <1>1, <1>2, <1>3, <1>4

LEMMA ReadTypes ==
  ASSUME TypeOK, NEW a \in Addr
  PROVE  regions_read(a) \in {255} \cup Cells
<1> DEFINE hits  == {r \in Region : Holds(r, a) /\ active[r] = 1}
           first == Min(hits)
<1>1. regions_read(a) = IF hits = {} THEN 255 ELSE mem[first][Offset(first, a)]
  BY DEF regions_read
<1>2. CASE hits # {}
  <2>1. hits \in SUBSET (1 .. 4)
    BY Regions DEF TypeOK
  <2>2. first \in hits
    BY <1>2, <2>1, EndsOfRegions
  <2>3. Offset(first, a) \in 0 .. mems[first].len - 1
    BY <2>2, RegionBytes DEF TypeOK
  <2>4. mem[first][Offset(first, a)] \in Cells
    BY <2>2, <2>3 DEF TypeOK, Cells
  <2> QED
    BY <1>1, <1>2, <2>4
<1> QED
  BY <1>1, <1>2

LEMMA OutTypes ==
  ASSUME TypeOK, NEW v \in 0 .. 3
  PROVE  /\ SwitchStores(v) \in Seq(StoreTypes) /\ Len(SwitchStores(v)) <= 2
         /\ RomOn \in Seq(StoreTypes) /\ Len(RomOn) = 2
<1>1. RomOn \in Seq(StoreTypes) /\ Len(RomOn) = 2
  BY DEF RomOn, StoreTypes
<1>2. RomOff \in Seq(StoreTypes) /\ Len(RomOff) = 2
  BY DEF RomOff, StoreTypes
<1>3. RomenStores(v) \in Seq(StoreTypes) /\ Len(RomenStores(v)) <= 2
  <2>1. <<1, 1 - (v % 2)>> \in StoreTypes /\ <<0, v>> \in StoreTypes
    BY DEF StoreTypes
  <2>2. << <<1, 1 - (v % 2)>>, <<0, v>> >> \in Seq(StoreTypes)
    BY <2>1
  <2>3. <<>> \in Seq(StoreTypes) /\ Len(<<>>) = 0
    OBVIOUS
  <2> QED
    BY <2>2, <2>3 DEF RomenStores
<1>4. \/ SwitchStores(v) = RomOn \/ SwitchStores(v) = RomOff
      \/ SwitchStores(v) = RomenStores(v)
  BY DEF SwitchStores
<1>5. Len(RomOn) <= 2 /\ Len(RomOff) <= 2
  BY <1>1, <1>2
<1> QED
  BY <1>1, <1>2, <1>3, <1>4, <1>5

LEMMA WiderStores ==
  ASSUME NEW s \in Seq(StoreTypes)
  PROVE  s \in Seq({0, 1, 2} \X (0 .. 255))
<1>1. StoreTypes \subseteq {0, 1, 2} \X (0 .. 255)
  BY DEF StoreTypes
<1> QED
  BY <1>1

(* A write changes one byte of one region. *)
LEMMA WriteTypes ==
  ASSUME machine \in Machines, DOMAIN mem = Region,
         \A r \in Region : mem[r] \in [0 .. mems[r].len - 1 -> Cells],
         NEW m \in Region, NEW o \in 0 .. mems[m].len - 1, NEW v \in Value
  PROVE  LET after == [mem EXCEPT ![m][o] = v]
         IN  /\ DOMAIN after = Region
             /\ \A r \in Region : after[r] \in [0 .. mems[r].len - 1 -> Cells]
<1> DEFINE after == [mem EXCEPT ![m][o] = v]
<1>1. DOMAIN after = Region
  OBVIOUS
<1>2. ASSUME NEW r \in Region PROVE after[r] \in [0 .. mems[r].len - 1 -> Cells]
  <2>1. CASE r = m
    <3>1. after[r] = [mem[m] EXCEPT ![o] = v]
      BY <2>1
    <3>2. v \in Cells
      BY DEF Cells
    <3> QED
      BY <2>1, <3>1, <3>2
  <2>2. CASE r # m
    BY <2>2
  <2> QED
    BY <2>1, <2>2
<1> QED
  BY <1>1, <1>2

LEMMA NextKeepsTypes ==
  ASSUME TypeInv, [Next]_vars
  PROVE  TypeInv'
<1>0. machine \in Machines /\ machine' = machine
  BY DEF TypeInv, TypeOK, Next, Cpu, Read, Write, Out, ResetHandle, Store, Sigusr1,
         Debugger, Poke, LoadHex, vars
<1>m. mems' = mems /\ Region' = Region
  BY <1>0 DEF mems, Region
<1>1. ASSUME UNCHANGED <<active, mem, shadow, lastByte, stores, data, latch>>,
             signalled' \in BOOLEAN, torn' \in BOOLEAN
      PROVE  TypeInv'
  BY <1>0, <1>m, <1>1 DEF TypeInv, TypeOK
<1>2. ASSUME NEW a \in Addr, Read(a) PROVE TypeInv'
  <2>1. data' \in {0, 255, Image} \cup Value
    BY <1>2, ReadTypes DEF Read, TypeInv, Cells
  <2> QED
    BY <1>0, <1>2, <1>m, <2>1 DEF Read, TypeInv, TypeOK
<1>3. ASSUME NEW a \in Addr, NEW v \in Value, Write(a, v) PROVE TypeInv'
  <2> DEFINE hits  == {r \in Region : Holds(r, a) /\ active[r] = 1 /\ mems[r].writable}
             first == Min(hits)
             off   == Offset(first, a)
  <2>1. mem' = IF hits = {} THEN mem ELSE [mem EXCEPT ![first][off] = v]
    BY <1>3 DEF Write, regions_write
  <2>2. /\ DOMAIN mem = Region
        /\ \A r \in Region : mem[r] \in [0 .. mems[r].len - 1 -> Cells]
    BY DEF TypeInv, TypeOK, Cells
  <2>3. /\ DOMAIN mem' = Region
        /\ \A r \in Region : mem'[r] \in [0 .. mems[r].len - 1 -> Cells]
    <3>1. CASE hits = {}
      BY <2>1, <2>2, <3>1
    <3>2. CASE hits # {}
      <4>1. hits \in SUBSET (1 .. 4)
        BY <1>0, Regions
      <4>2. first \in hits
        BY <3>2, <4>1, EndsOfRegions
      <4>3. off \in 0 .. mems[first].len - 1
        BY <1>0, <4>2, RegionBytes
      <4>4. mem' = [mem EXCEPT ![first][off] = v]
        BY <2>1, <3>2
      <4> HIDE DEF hits, first, off
      <4>5. first \in Region
        BY <4>2 DEF hits
      <4> QED
        BY <1>0, <2>2, <4>3, <4>4, <4>5, WriteTypes
    <3> QED
      BY <3>1, <3>2
  <2>4. shadow' \in [Addr -> {0, 255, Image} \cup Value]
    BY <1>3 DEF Write, TypeInv, TypeOK
  <2> QED
    BY <1>0, <1>3, <1>m, <2>3, <2>4 DEF Write, TypeInv, TypeOK, Cells
<1>4. ASSUME NEW v \in 0 .. 3, Out(v) PROVE TypeInv'
  <2>1. stores' \in Seq(StoreTypes) /\ Len(stores') <= 2 /\ latch' \in 0 .. 255
    BY <1>4, OutTypes DEF Out, TypeInv
  <2>2. stores' \in Seq({0, 1, 2} \X (0 .. 255))
    BY <2>1, WiderStores
  <2>3. torn' \in BOOLEAN
    BY <1>4 DEF Out
  <2> QED
    BY <1>0, <1>4, <1>m, <2>1, <2>2, <2>3 DEF Out, TypeInv, TypeOK
<1>5. CASE ResetHandle
  <2>1. stores' \in Seq(StoreTypes) /\ Len(stores') <= 2
    <3>1. RomOn \in Seq(StoreTypes) /\ Len(RomOn) = 2
      BY OutTypes DEF TypeInv
    <3> QED
      BY <1>5, <3>1 DEF ResetHandle
  <2>2. stores' \in Seq({0, 1, 2} \X (0 .. 255))
    BY <2>1, WiderStores
  <2>3. torn' \in BOOLEAN
    BY <1>5 DEF ResetHandle
  <2> QED
    BY <1>0, <1>5, <1>m, <2>1, <2>2, <2>3 DEF ResetHandle, TypeInv, TypeOK
<1>6. CASE Store
  <2>0. stores \in Seq(StoreTypes) /\ Len(stores) <= 2 /\ stores # <<>>
    BY <1>6 DEF Store, AtRest, TypeInv, TypeOK
  <2>1. stores' \in Seq(StoreTypes) /\ Len(stores') <= 2
    BY <1>6, <2>0 DEF Store
  <2>2. stores' \in Seq({0, 1, 2} \X (0 .. 255))
    BY <2>1, WiderStores
  <2>3. Head(stores) \in StoreTypes
    BY <2>0
  <2>4. active' \in [Region -> {0, 1}] /\ lastByte' \in 0 .. 255
    <3>1. active \in [Region -> {0, 1}] /\ lastByte \in 0 .. 255
      BY DEF TypeInv, TypeOK
    <3>2. CASE Head(stores)[1] = 0
      <4>1. Head(stores)[2] \in 0 .. 255
        BY <2>3 DEF StoreTypes
      <4>2. lastByte' = Head(stores)[2] /\ active' = active
        BY <1>6, <3>2 DEF Store
      <4> QED
        BY <3>1, <4>1, <4>2
    <3>3. CASE Head(stores)[1] # 0
      <4>1. Head(stores)[2] \in {0, 1}
        BY <2>3, <3>3 DEF StoreTypes
      <4> QED
        BY <1>6, <3>1, <3>3, <4>1 DEF Store
    <3> QED
      BY <3>2, <3>3
  <2> QED
    BY <1>0, <1>6, <1>m, <2>1, <2>2, <2>4 DEF Store, TypeInv, TypeOK
<1>7. CASE Sigusr1
  <2>1. /\ DOMAIN mem' = Region
        /\ \A r \in Region : mem'[r] \in [0 .. mems[r].len - 1 -> {0, Image} \cup Value]
        /\ shadow' \in [Addr -> {0, 255, Image} \cup Value]
    BY <1>0, <1>7, FreshTypes DEF Sigusr1
  <2>2. active' \in [Region -> {0, 1}]
    BY <1>0, <1>7, FreshTypes DEF Sigusr1, TypeInv, TypeOK
  <2>3. latch' \in 0 .. 255
    BY <1>7 DEF Sigusr1
  <2>4. signalled' \in BOOLEAN /\ torn' \in BOOLEAN
    BY <1>7 DEF Sigusr1
  <2> QED
    BY <1>0, <1>7, <1>m, <2>1, <2>2, <2>3, <2>4 DEF Sigusr1, TypeInv, TypeOK
<1>8. ASSUME NEW a \in Addr, NEW v \in Value, Poke(a, v) PROVE TypeInv'
  <2>1. shadow' \in [Addr -> {0, 255, Image} \cup Value]
    BY <1>8 DEF Poke, TypeInv, TypeOK
  <2> QED
    BY <1>0, <1>8, <1>m, <2>1 DEF Poke, TypeInv, TypeOK
<1>9. ASSUME NEW a \in Addr, NEW v \in Value, LoadHex(a, 2, v) PROVE TypeInv'
  <2>1. shadow' \in [Addr -> {0, 255, Image} \cup Value]
    BY <1>9 DEF LoadHex, TypeInv, TypeOK
  <2> QED
    BY <1>0, <1>9, <1>m, <2>1 DEF LoadHex, TypeInv, TypeOK
<1>10. CASE UNCHANGED vars
  BY <1>1, <1>10 DEF vars, TypeInv, TypeOK
<1> QED
  BY <1>2, <1>3, <1>4, <1>5, <1>6, <1>7, <1>8, <1>9, <1>10 DEF Next, Cpu, Debugger

LEMMA InitTypes == Init => TypeInv
<1> SUFFICES ASSUME Init PROVE TypeInv
  OBVIOUS
<1>1. machine \in Machines
  BY DEF Init
<1>2. /\ DOMAIN mem = Region /\ active \in [Region -> {0, 1}]
      /\ \A r \in Region : mem[r] \in [0 .. mems[r].len - 1 -> {0, Image} \cup Value]
      /\ shadow \in [Addr -> {0, 255, Image} \cup Value]
  BY <1>1, FreshTypes DEF Init
<1>3. /\ stores \in Seq({0, 1, 2} \X (0 .. 255)) /\ Len(stores) <= 2
      /\ stores \in Seq(StoreTypes)
      /\ lastByte \in 0 .. 255 /\ latch \in 0 .. 255
      /\ data \in {0, 255, Image} \cup Value
  BY DEF Init
<1>4. signalled \in BOOLEAN /\ torn \in BOOLEAN
  BY DEF Init
<1> QED
  BY <1>1, <1>2, <1>3, <1>4 DEF TypeInv, TypeOK

(* Every byte that is read, kept or shown is one that was loaded, written  *)
(* or floats on an empty bus, no switch has more than two stores, and none *)
(* of them is for a region that the machine does not have or longer than   *)
(* its variable - for every machine, size and interruption                 *)
(* (Common/src/memregion.c:100-160, the machines' system.c).               *)
THEOREM TypeCorrect == Spec => []TypeOK
<1>1. Init => TypeInv
  BY InitTypes
<1>2. TypeInv /\ [Next]_vars => TypeInv'
  BY NextKeepsTypes
<1>3. TypeInv => TypeOK
  BY DEF TypeInv
<1> QED
  BY <1>1, <1>2, <1>3, PTL DEF Spec

-----------------------------------------------------------------------------
(* The regions are a flat RAM under a ROM.  Nothing writes the ROM or      *)
(* switches the upper RAM, and rc2014SB has no way back to its ROM.        *)
OneWayInv == machine = "rc2014SB" => stores \in {<<>>, RomOff, << <<2, 1>> >>}

UpperInv == \A r \in Region : r > 2 => active[r] = 1

PagedInv ==
  /\ BankInv /\ TypeInv /\ OneWayInv /\ UpperInv
  /\ mem[1] = Loaded[1]

(* The region that keeps an address's RAM. *)
RamIn(ms, a) ==
  CHOOSE r \in DOMAIN ms :
    ms[r].writable /\ (ms[r].start <= a /\ a < ms[r].start + ms[r].len)

RamOf(a) == RamIn(mems, a)

LEMMA RamOfIs ==
  ASSUME machine \in Machines, NEW a \in Addr
  PROVE  /\ RamOf(a) \in Region \ {1} /\ Holds(RamOf(a), a)
         /\ \A s \in Region \ {1} : Holds(s, a) => s = RamOf(a)
         /\ RamOf(a) = 2 <=> ~RamBeside(machine, a)
         /\ Offset(RamOf(a), a) \in 0 .. mems[RamOf(a)].len - 1
<1>1. PICK r \in Region \ {1} :
        /\ Holds(r, a) /\ \A s \in Region \ {1} : Holds(s, a) => s = r
        /\ r = 2 <=> ~RamBeside(machine, a)
  BY OneRam
<1>2. mems[r].writable
  BY Regions
<1>3. RamOf(a) \in Region /\ mems[RamOf(a)].writable /\ Holds(RamOf(a), a)
  BY <1>1, <1>2 DEF RamOf, RamIn, Region, Holds
<1>4. RamOf(a) # 1
  BY <1>3, Regions
<1>5. RamOf(a) = r
  BY <1>1, <1>3, <1>4
<1>6. Offset(RamOf(a), a) \in 0 .. mems[RamOf(a)].len - 1
  BY <1>3, RegionBytes
<1> QED
  BY <1>1, <1>5, <1>6

LEMMA FlatRamIs ==
  /\ FlatRam = [a \in Addr |-> mem[RamOf(a)][Offset(RamOf(a), a)]]
  /\ machine' = machine =>
       FlatRam' = [a \in Addr |-> mem'[RamOf(a)][Offset(RamOf(a), a)]]
<1>1. FlatRam = [a \in Addr |-> mem[RamIn(mems, a)][a - mems[RamIn(mems, a)].start]]
  BY DEF FlatRam, RamIn, Region, Holds, Offset
<1>2. FlatRam' = [a \in Addr |-> mem'[RamIn(mems', a)][a - mems'[RamIn(mems', a)].start]]
  BY DEF FlatRam, RamIn, Region, Holds, Offset
<1>3. machine' = machine => mems' = mems
  BY DEF mems
<1> QED
  BY <1>1, <1>2, <1>3 DEF RamOf, Offset

Selected == IF torn THEN "torn" ELSE IF active[1] = 1 THEN "rom" ELSE "ram"

(* At rest the second region is on beside the ROM only on rc2014LL and     *)
(* after a torn toggle, and always without it.                             *)
LEMMA BanksAtRest ==
  ASSUME BankInv, AtRest
  PROVE  /\ active[1] \in {0, 1}
         /\ torn => machine = "Llichen80" /\ active[1] = 1
         /\ active[2] = 1 <=> active[1] = 0 \/ machine = "rc2014LL" \/ torn
<1>1. /\ active[1] \in {0, 1} /\ active[2] \in {0, 1}
      /\ torn => machine = "Llichen80" /\ active[1] = 1
  BY RegionsAtZero DEF BankInv, BankTypes
<1>2. CASE machine = "rc2014LL"
  BY <1>1, <1>2 DEF BankInv, RomenInv
<1>3. CASE machine # "rc2014LL"
  BY <1>1, <1>3 DEF BankInv, TwoMapsInv, AtRest, RomOn, RomOff
<1> QED
  BY <1>1, <1>2, <1>3

(* The region that keeps an address is on when it is beside the ROM, when  *)
(* the ROM is off, on rc2014LL, and after a torn toggle.                   *)
LEMMA RamIsOn ==
  ASSUME PagedInv, AtRest, NEW a \in Addr
  PROVE  active[RamOf(a)] = 1 <=>
           RamBeside(machine, a) \/ active[1] = 0 \/ machine = "rc2014LL" \/ torn
<1>1. machine \in Machines /\ Region \subseteq 1 .. 4
  BY Regions DEF PagedInv, BankInv, BankTypes
<1>2. CASE RamOf(a) = 2
  BY <1>1, <1>2, RamOfIs, BanksAtRest DEF PagedInv
<1>3. CASE RamOf(a) # 2
  <2>0. RamOf(a) \in Region /\ RamOf(a) # 1
    BY <1>1, RamOfIs
  <2>1. RamOf(a) \in Region /\ RamOf(a) > 2
    <3> DEFINE r == RamOf(a)
    <3>1. r \in 1 .. 4 /\ r # 1 /\ r # 2
      BY <1>1, <1>3, <2>0
    <3> HIDE DEF r
    <3>2. r > 2
      BY <3>1
    <3> QED
      BY <2>0, <3>2 DEF r
  <2>2. RamBeside(machine, a)
    BY <1>1, <1>3, RamOfIs
  <2> QED
    BY <2>1, <2>2 DEF PagedInv, UpperInv
<1> QED
  BY <1>2, <1>3

(* The RAM that the ROM hides is all that is not beside it. *)
LEMMA RomOverRam ==
  ASSUME machine \in Machines, NEW a \in Addr, Holds(1, a)
  PROVE  ~RamBeside(machine, a) /\ a < mems[1].len /\ Offset(1, a) = a
<1> USE MemAssumption DEF Rom, Ram, Holds, RamBeside, Addr, Offset
<1>1. CASE machine = "Llichen80"
  <2>1. mems[1] = Rom(0, RomLen)
    BY <1>1 DEF mems, memsOf
  <2> QED
    BY <1>1, <2>1
<1>2. CASE machine # "Llichen80"
  <2>1. mems[1] = Rom(0, RomLen) \/ mems[1] = Rom(0, HalfLen)
    BY <1>2 DEF mems, memsOf
  <2> QED
    BY <1>2, <2>1
<1> QED
  BY <1>1, <1>2

LEMMA ReadIs ==
  ASSUME PagedInv, AtRest, NEW a \in Addr
  PROVE  regions_read(a) =
           CASE Source[<<machine, Selected, a>>] = "rom" -> RomContent[a]
             [] Source[<<machine, Selected, a>>] = "ram" -> FlatRam[a]
             [] OTHER -> 255
<1> DEFINE hits  == {r \in Region : Holds(r, a) /\ active[r] = 1}
           ram   == RamOf(a)
           first == Min(hits)
<1>1. /\ machine \in Machines /\ Region \subseteq 1 .. 4 /\ 1 \in Region
      /\ mems[1].len \in Nat
  BY Regions DEF PagedInv, BankInv, BankTypes
<1>2. regions_read(a) = IF hits = {} THEN 255 ELSE mem[first][Offset(first, a)]
  BY DEF regions_read
<1>3. hits # {} => first \in hits /\ \A s \in hits : first <= s
  <2>1. hits \in SUBSET (1 .. 4)
    BY <1>1
  <2> QED
    BY <2>1, EndsOfRegions
<1>4. \A r \in hits : r = 1 \/ r = ram
  BY <1>1, RamOfIs
<1>5. /\ ram \in Region /\ ram # 1
      /\ ram \in hits <=> active[ram] = 1
  BY <1>1, RamOfIs
<1>6. FlatRam[a] = mem[ram][Offset(ram, a)]
  BY FlatRamIs
<1>7. Holds(1, a) <=> a < mems[1].len
  <2>1. mems[1].start = 0 /\ a \in Nat
    BY <1>1, Regions, MemAssumption DEF Addr
  <2> QED
    BY <1>1, <2>1 DEF Holds
<1>8. /\ Source[<<machine, Selected, a>>] \in {"rom", "ram", "none"}
      /\ Source[<<machine, Selected, a>>] = "rom" <=> active[1] = 1 /\ a < mems[1].len
      /\ Source[<<machine, Selected, a>>] = "ram" <=>
           active[1] # 1 \/ (a >= mems[1].len /\ RamBeside(machine, a))
  <2>1. <<machine, Selected, a>> \in Machines \X Selection \X Addr
    BY <1>1 DEF Selected, Selection
  <2>2. Source[<<machine, Selected, a>>] =
          CASE Selected = "ram" -> "ram"
            [] Selected # "ram" /\ a < memsOf[machine][1].len -> "rom"
            [] Selected # "ram" /\ RamBeside(machine, a) -> "ram"
            [] OTHER -> "none"
    BY <2>1 DEF Source
  <2>3. a \in Nat
    BY MemAssumption DEF Addr
  <2>4. CASE active[1] # 1
    <3>1. Selected = "ram"
      BY <2>4, BanksAtRest DEF Selected, PagedInv
    <3> QED
      BY <2>2, <2>4, <3>1
  <2>5. CASE active[1] = 1
    <3>1. Selected # "ram"
      BY <2>5 DEF Selected
    <3>0. mems[1].len = memsOf[machine][1].len
      BY DEF mems
    <3>2. CASE a < mems[1].len
      <4>0. a < memsOf[machine][1].len
        BY <3>0, <3>2
      <4>1. Source[<<machine, Selected, a>>] = "rom"
        <5>1. ~RamBeside(machine, a)
          BY <1>1, <1>7, <3>2, RomOverRam
        <5> QED
          BY <2>2, <3>1, <4>0, <5>1
      <4>2. ~(a >= mems[1].len)
        BY <1>1, <2>3, <3>2
      <4> QED
        BY <2>5, <3>2, <4>1, <4>2
    <3>3. CASE ~(a < mems[1].len)
      <4>1. Source[<<machine, Selected, a>>]
              = IF RamBeside(machine, a) THEN "ram" ELSE "none"
        BY <2>2, <3>0, <3>1, <3>3
      <4>2. a >= mems[1].len
        BY <1>1, <2>3, <3>3
      <4>3. CASE RamBeside(machine, a)
        <5>1. Source[<<machine, Selected, a>>] = "ram"
          BY <4>1, <4>3
        <5> QED
          BY <2>5, <3>3, <4>2, <4>3, <5>1
      <4>4. CASE ~RamBeside(machine, a)
        <5>1. Source[<<machine, Selected, a>>] = "none"
          BY <4>1, <4>4
        <5> QED
          BY <2>5, <3>3, <4>4, <5>1
      <4> QED
        BY <4>3, <4>4
    <3> QED
      BY <3>2, <3>3
  <2> QED
    BY <2>4, <2>5
<1>9. a \in Nat
  BY MemAssumption DEF Addr
<1>10. CASE active[1] = 1 /\ a < mems[1].len
  <2>1. 1 \in hits
    BY <1>1, <1>7, <1>10
  <2>2. first = 1
    <3>1. first \in hits /\ first <= 1
      BY <1>3, <2>1
    <3>2. first \in 1 .. 4
      BY <1>1, <3>1
    <3> QED
      BY <3>1, <3>2
  <2>3. regions_read(a) = mem[1][a]
    BY <1>1, <1>2, <1>7, <1>10, <2>1, <2>2, RomOverRam
  <2>4. mem[1][a] = RomContent[a]
    BY <1>1, <1>9, <1>10 DEF PagedInv, Loaded, RomContent
  <2> QED
    BY <1>8, <1>10, <2>3, <2>4
<1>11. CASE ~(active[1] = 1 /\ a < mems[1].len)
  <2>1. 1 \notin hits
    BY <1>7, <1>11
  <2>2. regions_read(a) = IF active[ram] = 1 THEN FlatRam[a] ELSE 255
    <3>1. CASE active[ram] = 1
      <4>1. hits # {} /\ first = ram
        BY <1>3, <1>4, <1>5, <2>1, <3>1
      <4> QED
        BY <1>2, <1>6, <3>1, <4>1
    <3>2. CASE active[ram] # 1
      <4>1. hits = {}
        BY <1>4, <1>5, <2>1, <3>2
      <4> QED
        BY <1>2, <3>2, <4>1
    <3> QED
      BY <3>1, <3>2
  <2>3. active[ram] = 1 <=> Source[<<machine, Selected, a>>] = "ram"
    <3>1. active[1] \in {0, 1}
      BY BanksAtRest DEF PagedInv
    <3>3. active[1] = 1 => a >= mems[1].len
      BY <1>1, <1>9, <1>11
    <3>2. (machine = "rc2014LL" \/ torn) /\ active[1] = 1 => RamBeside(machine, a)
      <4>1. machine = "rc2014LL" => mems[1].len = HalfLen
        BY <1>1 DEF mems, memsOf, Rom
      <4>2. torn => machine = "Llichen80"
        BY BanksAtRest DEF PagedInv
      <4>3. machine = "Llichen80" => mems[1].len = RomLen
        BY <1>1 DEF mems, memsOf, Rom
      <4> QED
        BY <3>3, <4>1, <4>2, <4>3 DEF RamBeside
    <3> QED
      BY <1>8, <3>1, <3>2, <3>3, RamIsOn
  <2>4. Source[<<machine, Selected, a>>] # "rom"
    BY <1>8, <1>11
  <2>5. CASE active[ram] = 1
    BY <2>2, <2>3, <2>4, <2>5
  <2>6. CASE active[ram] # 1
    BY <2>2, <2>3, <2>4, <2>6
  <2> QED
    BY <2>5, <2>6
<1> QED
  BY <1>10, <1>11

(* A write goes to the one place of the flat RAM that it means, or nowhere. *)
LEMMA WriteIs ==
  ASSUME PagedInv, NEW a \in Addr, NEW v \in Value, Write(a, v)
  PROVE  FlatRam' = IF <<machine, Selected, a>> \in KeptWrites
                    THEN [FlatRam EXCEPT ![a] = v] ELSE FlatRam
<1> DEFINE hits  == {r \in Region : Holds(r, a) /\ active[r] = 1 /\ mems[r].writable}
           ram   == RamOf(a)
           first == Min(hits)
<1>1. machine \in Machines /\ machine' = machine /\ Region \subseteq 1 .. 4
  BY Regions DEF Write, PagedInv, BankInv, BankTypes
<1>2. mem' = IF hits = {} THEN mem ELSE [mem EXCEPT ![first][Offset(first, a)] = v]
  BY DEF Write, regions_write
<1>3. /\ ram \in Region /\ ram # 1
      /\ \A r \in hits : r = ram
      /\ ram \in hits <=> active[ram] = 1
  <2>1. ram \in Region \ {1} /\ Holds(ram, a)
    BY <1>1, RamOfIs
  <2>2. mems[ram].writable = TRUE /\ mems[1].writable = FALSE
    BY <1>1, <2>1, Regions
  <2>3. \A r \in hits : r = ram
    BY <1>1, <2>2, RamOfIs
  <2> QED
    BY <2>1, <2>2, <2>3
<1>4. <<machine, Selected, a>> \in KeptWrites <=> active[ram] = 1
  <2>1. <<machine, Selected, a>> \in KeptWrites <=>
          Selected # "rom" \/ machine = "rc2014LL" \/ RamBeside(machine, a)
    BY <1>1 DEF KeptWrites, Selected, Selection
  <2>2. Selected # "rom" <=> active[1] = 0 \/ torn
    BY BanksAtRest DEF Selected, PagedInv, Write
  <2> QED
    BY <2>1, <2>2, RamIsOn DEF Write
<1>5. /\ FlatRam = [b \in Addr |-> mem[RamOf(b)][Offset(RamOf(b), b)]]
      /\ FlatRam' = [b \in Addr |-> mem'[RamOf(b)][Offset(RamOf(b), b)]]
  BY <1>1, FlatRamIs
<1>6. CASE active[ram] # 1
  <2>1. hits = {}
    BY <1>3, <1>6
  <2>2. mem' = mem
    BY <1>2, <2>1
  <2> QED
    BY <1>4, <1>5, <1>6, <2>2
<1>7. CASE active[ram] = 1
  <2>1. hits = {ram} /\ hits \in SUBSET (1 .. 4) /\ hits # {}
    BY <1>1, <1>3, <1>7
  <2>2. first = ram
    BY <2>1, EndsOfRegions
  <2>3. mem' = [mem EXCEPT ![ram][Offset(ram, a)] = v]
    BY <1>2, <2>1, <2>2
  <2>4. ASSUME NEW b \in Addr
        PROVE  FlatRam'[b] = IF b = a THEN v ELSE FlatRam[b]
    <3> DEFINE at == RamOf(b)  o == Offset(at, b)  p == Offset(ram, a)
    <3>1. /\ DOMAIN mem = Region
          /\ \A r \in Region : DOMAIN mem[r] = 0 .. mems[r].len - 1
      BY DEF PagedInv, TypeInv, TypeOK
    <3>2. at \in Region /\ o \in 0 .. mems[at].len - 1 /\ p \in 0 .. mems[ram].len - 1
      BY <1>1, RamOfIs
    <3>3. at = ram /\ b # a => o # p
      <4>0. mems[ram].start \in Nat
        BY <1>1, <1>3, Regions
      <4>1. a \in Nat /\ b \in Nat
        BY MemAssumption DEF Addr
      <4>2. o = b - mems[at].start /\ p = a - mems[ram].start
        BY DEF Offset
      <4> HIDE DEF o, p, at, ram
      <4> SUFFICES ASSUME at = ram, b # a PROVE o # p
        OBVIOUS
      <4>3. o = b - mems[ram].start
        BY <4>2
      <4> QED
        BY <4>0, <4>1, <4>2, <4>3
    <3>4. FlatRam'[b] = mem'[at][o] /\ FlatRam[b] = mem[at][o]
      BY <1>5
    <3>5. b = a => at = ram /\ o = p
      OBVIOUS
    <3> HIDE DEF at, o, p, ram
    <3>6. mem' = [mem EXCEPT ![ram][p] = v]
      BY <2>3 DEF ram, p
    <3>7. CASE at = ram
      <4>1. mem'[at] = [mem[ram] EXCEPT ![p] = v]
        BY <3>1, <3>2, <3>6, <3>7
      <4>2. CASE b = a
        <5>1. o = p /\ o \in DOMAIN mem[ram]
          BY <3>1, <3>2, <3>5, <3>7, <4>2
        <5>2. mem'[at][o] = v
          BY <4>1, <5>1
        <5> QED
          BY <3>4, <4>2, <5>2
      <4>3. CASE b # a
        <5>1. o # p /\ o \in DOMAIN mem[ram]
          BY <3>1, <3>2, <3>3, <3>7, <4>3
        <5>2. mem'[at][o] = mem[at][o]
          BY <3>7, <4>1, <5>1
        <5> QED
          BY <3>4, <4>3, <5>2
      <4> QED
        BY <4>2, <4>3
    <3>8. CASE at # ram
      <4>1. mem'[at] = mem[at]
        BY <3>1, <3>2, <3>6, <3>8
      <4>2. b # a
        BY <3>5, <3>8
      <4> QED
        BY <3>4, <4>1, <4>2
    <3> QED
      BY <3>7, <3>8
  <2>5. FlatRam' = [FlatRam EXCEPT ![a] = v]
    <3>1. DOMAIN FlatRam = Addr
      BY <1>5
    <3>2. FlatRam' = [b \in Addr |-> FlatRam'[b]]
      BY <1>5
    <3> HIDE DEF hits, first, ram
    <3>3. FlatRam' = [b \in Addr |-> IF b = a THEN v ELSE FlatRam[b]]
      BY <2>4, <3>2
    <3>4. [FlatRam EXCEPT ![a] = v] = [b \in Addr |-> IF b = a THEN v ELSE FlatRam[b]]
      BY <1>5
    <3> QED
      BY <3>3, <3>4
  <2> QED
    BY <1>4, <1>7, <2>5
<1> QED
  BY <1>6, <1>7

(* What is loaded into the RAM is blank. *)
LEMMA LoadedIsBlank ==
  ASSUME machine \in Machines
  PROVE  /\ mem = Loaded => FlatRam = [a \in Addr |-> 0]
         /\ machine' = machine /\ mem' = Loaded => FlatRam' = [a \in Addr |-> 0]
<1>1. ASSUME NEW a \in Addr
      PROVE  Loaded[RamOf(a)][Offset(RamOf(a), a)] = 0
  <2>1. RamOf(a) \in Region /\ RamOf(a) # 1
        /\ Offset(RamOf(a), a) \in 0 .. mems[RamOf(a)].len - 1
    BY RamOfIs
  <2> QED
    BY <2>1 DEF Loaded
<1> QED
  BY <1>1, FlatRamIs

LEMMA NextKeepsPaged ==
  ASSUME PagedInv, [Next]_vars
  PROVE  PagedInv'
<1> USE DEF PagedInv
<1>0. machine \in Machines /\ machine' = machine
  BY DEF TypeInv, TypeOK, Next, Cpu, Read, Write, Out, ResetHandle, Store, Sigusr1,
         Debugger, Poke, LoadHex, vars
<1>m. mems' = mems /\ Region' = Region /\ Loaded' = Loaded
  BY <1>0 DEF mems, Region, Loaded
<1>1. BankInv' /\ TypeInv'
  BY NextKeepsBanks, NextKeepsTypes
<1>2. ASSUME UNCHANGED <<active, mem, stores>> PROVE OneWayInv' /\ UpperInv' /\ (mem[1] = Loaded[1])'
  BY <1>0, <1>m, <1>2 DEF OneWayInv, UpperInv, RomOff
<1>3. ASSUME NEW a \in Addr, NEW v \in Value, Write(a, v)
      PROVE  OneWayInv' /\ UpperInv' /\ (mem[1] = Loaded[1])'
  <2> DEFINE hits == {r \in Region : Holds(r, a) /\ active[r] = 1 /\ mems[r].writable}
             first == Min(hits)
  <2>1. mem' = IF hits = {} THEN mem ELSE [mem EXCEPT ![first][Offset(first, a)] = v]
    BY <1>3 DEF Write, regions_write
  <2>2. hits # {} => first # 1
    <3>1. hits \in SUBSET (1 .. 4) /\ mems[1].writable = FALSE
      BY <1>0, Regions
    <3>2. hits # {} => first \in hits
      BY <3>1, EndsOfRegions
    <3>3. 1 \notin hits
      BY <3>1
    <3> QED
      BY <3>2, <3>3
  <2>3. 1 \in DOMAIN mem
    BY <1>0, Regions DEF TypeInv, TypeOK
  <2>4. mem'[1] = mem[1]
    <3> HIDE DEF hits, first
    <3> QED
      BY <2>1, <2>2, <2>3
  <2>5. UNCHANGED <<active, stores>>
    BY <1>3 DEF Write
  <2> QED
    BY <1>0, <1>m, <2>4, <2>5 DEF OneWayInv, UpperInv, RomOff
<1>4. ASSUME NEW v \in 0 .. 3, Out(v)
      PROVE  OneWayInv' /\ UpperInv' /\ (mem[1] = Loaded[1])'
  <2>1. machine = "rc2014SB" => stores' = RomOff
    BY <1>4 DEF Out, SwitchStores
  <2>2. UNCHANGED <<active, mem>>
    BY <1>4 DEF Out
  <2> QED
    BY <1>0, <1>m, <2>1, <2>2 DEF OneWayInv, UpperInv, RomOff
<1>5. CASE ResetHandle
  <2>1. machine # "rc2014SB" /\ UNCHANGED <<active, mem>>
    BY <1>5 DEF ResetHandle
  <2> QED
    BY <1>0, <1>1, <1>m, <2>1 DEF OneWayInv, UpperInv
<1>6. CASE Store
  <2>1. OneWayInv'
    <3> SUFFICES ASSUME machine = "rc2014SB"
                 PROVE  stores' \in {<<>>, RomOff, << <<2, 1>> >>}
      BY <1>0 DEF OneWayInv
    <3>1. CASE stores = RomOff
      <4>1. stores' = << <<2, 1>> >>
        BY <1>6, <3>1 DEF Store, RomOff
      <4> QED
        BY <4>1
    <3>2. CASE stores = << <<2, 1>> >>
      <4>1. stores' = <<>>
        BY <1>6, <3>2 DEF Store
      <4> QED
        BY <4>1
    <3> QED
      BY <1>6, <3>1, <3>2 DEF Store, AtRest, OneWayInv
  <2>2. UpperInv'
    <3>1. Head(stores)[1] \in {0, 1, 2}
      BY <1>6 DEF TypeInv, Store, AtRest, StoreTypes
    <3>2. ASSUME NEW r \in Region, r > 2 PROVE active'[r] = active[r]
      <4>1. r \in Nat
        BY <1>0, Regions
      <4>2. r # Head(stores)[1]
        BY <3>1, <3>2, <4>1
      <4>3. active \in [Region -> {0, 1}]
        BY DEF TypeInv, TypeOK
      <4> QED
        BY <1>6, <4>2, <4>3 DEF Store
    <3> QED
      BY <1>m, <3>2 DEF UpperInv
  <2>3. mem' = mem
    BY <1>6 DEF Store
  <2> QED
    BY <1>1, <1>m, <2>1, <2>2, <2>3
<1>7. CASE Sigusr1
  <2>1. mem' = Loaded /\ stores' = stores
    BY <1>7 DEF Sigusr1
  <2>2. active' = PowerOn \/ active' = active
    BY <1>7 DEF Sigusr1
  <2>3. UpperInv'
    <3>1. ASSUME NEW r \in Region, r > 2 PROVE PowerOn[r] = 1
      BY <3>1 DEF PowerOn
    <3> QED
      BY <1>m, <2>2, <3>1 DEF UpperInv
  <2> QED
    BY <1>0, <1>1, <1>m, <2>1, <2>3 DEF OneWayInv, RomOff
<1>8. CASE UNCHANGED <<active, mem, stores>>
  BY <1>1, <1>2, <1>8
<1> QED
  BY <1>1, <1>3, <1>4, <1>5, <1>6, <1>7, <1>8
     DEF Next, Cpu, Debugger, Read, Poke, LoadHex, vars

(* Step by step: a store that changes region 1 is the switch, and one that *)
(* is left of a torn toggle changes region 2 only.                         *)
LEMMA StoreSwitches ==
  ASSUME PagedInv, Store
  PROVE  \/ UNCHANGED Paged!pagedVars
         \/ \E s \in {"rom", "ram"} : Paged!Switch(s)
<1> USE DEF PagedInv
<1>1. machine' = machine /\ mem' = mem /\ data' = data /\ torn' = torn
  BY DEF Store
<1>2. FlatRam' = FlatRam
  BY <1>1, FlatRamIs
<1>3. /\ machine \in Machines /\ 1 \in Region /\ active \in [Region -> {0, 1}]
  BY Regions DEF TypeInv, TypeOK
<1>4. CASE Head(stores)[1] # 1
  <2>1. active'[1] = active[1]
    BY <1>3, <1>4 DEF Store
  <2> QED
    BY <1>1, <1>2, <2>1 DEF Paged!pagedVars
<1>5. CASE Head(stores)[1] = 1
  <2>0. ~torn
    <3>1. stores # <<>> /\ Head(stores) # <<2, 1>>
      BY <1>5 DEF Store, AtRest
    <3> QED
      BY <3>1 DEF BankInv, BankTypes, TwoMapsInv
  <2>1. active'[1] = Head(stores)[2]
    BY <1>3, <1>5 DEF Store
  <2>2. Head(stores)[2] \in {0, 1}
    BY <1>5 DEF TypeInv, StoreTypes, Store, AtRest
  <2>3. machine = "rc2014SB" => active'[1] = 0
    <3>1. machine = "rc2014SB" => Head(stores)[2] = 0
      BY <1>5 DEF Store, AtRest, OneWayInv, RomOff
    <3> QED
      BY <2>1, <3>1
  <2>4. CASE active'[1] = active[1]
    BY <1>1, <1>2, <2>4 DEF Paged!pagedVars
  <2>5. CASE active'[1] # active[1]
    <3>1. active[1] \in {0, 1} /\ active'[1] \in {0, 1}
      BY <1>3, <2>1, <2>2
    <3>2. Selected' \in {"rom", "ram"} /\ Selected \in {"rom", "ram"}
      BY <1>1, <2>0 DEF Selected
    <3>3. Selected # Selected' /\ (machine = "rc2014SB" => Selected' = "ram")
      BY <1>1, <2>0, <2>3, <2>5, <3>1 DEF Selected
    <3>4. <<machine, Selected, Selected'>> \in Ways
      BY <1>3, <3>2, <3>3 DEF Ways, Selection
    <3>5. Paged!Switch(Selected')
      BY <1>1, <1>2, <3>4 DEF Paged!Switch, Selected
    <3> QED
      BY <3>2, <3>5
  <2> QED
    BY <2>4, <2>5
<1> QED
  BY <1>4, <1>5

LEMMA NextIsPaged ==
  ASSUME PagedInv, [Next]_vars
  PROVE  [Paged!Next]_Paged!pagedVars
<1>0. machine \in Machines
  BY DEF PagedInv, TypeInv, TypeOK
<1>1. ASSUME UNCHANGED <<machine, active, mem, data, torn>>
      PROVE  UNCHANGED Paged!pagedVars
  BY <1>1, FlatRamIs DEF Paged!pagedVars
<1>2. ASSUME NEW a \in Addr, Read(a) PROVE Paged!Read(a)
  <2>1. UNCHANGED <<machine, active, mem, torn>>
    BY <1>2 DEF Read
  <2>2. FlatRam' = FlatRam
    BY <2>1, FlatRamIs
  <2>3. data' = CASE Source[<<machine, Selected, a>>] = "rom" -> RomContent[a]
                  [] Source[<<machine, Selected, a>>] = "ram" -> FlatRam[a]
                  [] OTHER -> 255
    BY <1>2, ReadIs DEF Read
  <2> QED
    BY <2>1, <2>2, <2>3 DEF Paged!Read, Selected
<1>3. ASSUME NEW a \in Addr, NEW v \in Value, Write(a, v) PROVE Paged!Write(a, v)
  <2>1. UNCHANGED <<machine, active, data, torn>>
    BY <1>3 DEF Write
  <2> QED
    BY <1>3, <2>1, WriteIs DEF Paged!Write, Selected
<1>4. CASE Sigusr1
  <2>1. UNCHANGED <<machine, data>> /\ mem' = Loaded
    BY <1>4 DEF Sigusr1
  <2>2. FlatRam' = [a \in Addr |-> 0]
    BY <1>0, <2>1, LoadedIsBlank
  <2>3. <<machine, Selected, Selected'>> \in Started
    <3>1. {Selected, Selected'} \subseteq Selection
      BY DEF Selected, Selection
    <3>2. torn \in BOOLEAN /\ (torn => machine = "Llichen80")
      BY DEF PagedInv, BankInv, BankTypes
    <3>3. CASE machine \in {"rc2014LL", "Llichen80"}
      <4>1. active'[1] = 1
        BY <1>0, <1>4, <3>3, PowerOnIsRom DEF Sigusr1
      <4>2. machine = "rc2014LL" => ~torn'
        BY <1>4 DEF Sigusr1
      <4>3. Selected' # "ram" /\ (machine = "rc2014LL" => Selected' = "rom")
        BY <4>1, <4>2 DEF Selected
      <4> QED
        BY <1>0, <3>1, <3>3, <4>3 DEF Started
    <3>4. CASE machine \notin {"rc2014LL", "Llichen80"}
      <4>1. active' = active /\ ~torn /\ ~torn'
        BY <1>4, <3>2, <3>4 DEF Sigusr1
      <4> QED
        BY <1>0, <3>1, <3>4, <4>1 DEF Started, Selected
    <3> QED
      BY <3>3, <3>4
  <2>4. Paged!Restart
    BY <2>1, <2>2, <2>3 DEF Paged!Restart, Selected
  <2> QED
    BY <2>4 DEF Paged!Next
<1>5. CASE Store
  BY <1>5, StoreSwitches DEF Paged!Next
<1>6. CASE UNCHANGED <<machine, active, mem, data, torn>>
  BY <1>1, <1>6
<1>8. CASE ResetHandle \/ \E v \in 0 .. 3 : Out(v)
  <2>1. UNCHANGED <<machine, active, mem, data>> /\ ~torn'
    BY <1>8 DEF ResetHandle, Out
  <2>2. FlatRam' = FlatRam
    BY <2>1, FlatRamIs
  <2>3. CASE torn
    <3>1. machine = "Llichen80" /\ active[1] = 1
      BY <2>3 DEF PagedInv, BankInv, BankTypes
    <3>2. Selected = "torn" /\ Selected' = "rom"
      BY <2>1, <2>3, <3>1 DEF Selected
    <3>3. <<machine, Selected, "rom">> \in Ways
      BY <1>0, <3>1, <3>2 DEF Ways, Selection
    <3>4. Paged!Switch("rom")
      BY <2>1, <2>2, <3>2, <3>3 DEF Paged!Switch, Selected
    <3> QED
      BY <3>4 DEF Paged!Next
  <2>4. CASE ~torn
    BY <2>1, <2>2, <2>4 DEF Paged!pagedVars
  <2> QED
    BY <2>3, <2>4
<1>7. CASE \E a \in Addr : Read(a) \/ \E v \in Value : Write(a, v)
  BY <1>2, <1>3, <1>7 DEF Paged!Next
<1> QED
  BY <1>4, <1>5, <1>6, <1>7, <1>8
     DEF Next, Cpu, Debugger, Poke, LoadHex, vars

LEMMA InitIsPaged == Init => PagedInv /\ Paged!Init
<1> SUFFICES ASSUME Init PROVE PagedInv /\ Paged!Init
  OBVIOUS
<1>1. machine \in Machines /\ mem = Loaded /\ active = PowerOn /\ stores = <<>> /\ data = 255
  BY DEF Init
<1>2. BankInv /\ TypeInv
  BY InitBanks, InitTypes
<1>3. OneWayInv
  BY <1>1 DEF OneWayInv
<1>4. UpperInv
  BY <1>1 DEF UpperInv, PowerOn
<1>5. FlatRam = [a \in Addr |-> 0]
  BY <1>1, LoadedIsBlank
<1>6. active[1] = 1 /\ ~torn
  BY <1>1, PowerOnIsRom DEF Init
<1> QED
  BY <1>1, <1>2, <1>3, <1>4, <1>5, <1>6 DEF PagedInv, Paged!Init

(* The regions, their banks and the ports that switch them behave as one   *)
(* flat RAM under a ROM, on every machine, for every size of ROM and RAM:  *)
(* whatever was switched, written, reset or restarted before, a read       *)
(* returns the byte that was kept last or the ROM's, and rc2014SB's switch *)
(* is one way - a SIGUSR1 between the stores of Llichen80's toggle, which  *)
(* leaves ROM and RAM on, included                                         *)
(* (Common/src/memregion.c:100-160, the machines' system.c and README.md). *)
THEOREM RegionsArePaged == Spec => ImplementsPaged
<1>1. Init => PagedInv /\ Paged!Init
  BY InitIsPaged
<1>2. PagedInv /\ [Next]_vars => PagedInv'
  BY NextKeepsPaged
<1>3. PagedInv /\ [Next]_vars => [Paged!Next]_Paged!pagedVars
  BY NextIsPaged
<1> QED
  BY <1>1, <1>2, <1>3, PTL DEF Spec, ImplementsPaged, Paged!Spec
=============================================================================
