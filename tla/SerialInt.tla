----------------------------- MODULE SerialInt -----------------------------
(***************************************************************************)
(* The emulated machine with the program it was built for: BASIC's serial  *)
(* driver (Z80asm/basic.32/int32K.asm), an interrupt routine that moves    *)
(* bytes from the ACIA into the ring serBuf and the routine RXA that takes *)
(* them out, runs on the console buffer of module ConsoleBuffer.           *)
(*                                                                         *)
(* What couples them is the emulator's loop: system_poll pulls INTR before *)
(* every instruction as long as the ACIA has a byte, INTR stays pulled     *)
(* until the interrupt is taken (module Z80Events, LinesLatched), and EI   *)
(* lets the next instruction be interrupted already.                       *)
(***************************************************************************)
EXTENDS ConsoleBuffer, SequencesExt

CONSTANTS
  SerSize,      \* SER_BUFSIZE
  ClockDepth    \* the clock ticks only while fewer interrupts than this are nested

ASSUME SerialAssumption ==
  /\ SerSize \in Nat \ {0}
  /\ ClockDepth \in Nat \ {0}

VARIABLES
  pc,          \* where the guest is
  stack,       \* return addresses of interrupts, the last one on top
  iff, intr,   \* interrupts on; the INTR "line"
  serBuf,      \* the ring
  serInPtr, serRdPtr, serBufUsed,
  hl, acc,     \* registers HL and A of RXA
  got          \* the byte RXA returned last

guestVars == <<pc, stack, iff, intr, serBuf, serInPtr, serRdPtr, serBufUsed, hl, acc, got>>
serVars   == <<vars, guestVars>>
ringPtrs  == <<serBuf, serInPtr, serRdPtr, serBufUsed>>

\* RXA's places, and those of the interrupt routine.
RxPlace  == {"basic", "waitForChar", "notRdWrap", "load", "save", "rts1", "ei"}
IntPlace == {"serialInt", "data", "store", "rts0", "reti"}

\* After INIT: IM 1, interrupts on, an empty ring.
SerInit ==
  /\ Init
  /\ pc = "basic" /\ stack = <<>>
  /\ iff = TRUE /\ intr = FALSE
  /\ serBuf \in {[i \in 0 .. SerSize - 1 |-> b] : b \in Byte}
  /\ serInPtr = 0 /\ serRdPtr = 0 /\ serBufUsed = 0
  /\ hl = 0 /\ acc = 0
  /\ got = NoByte

\* INC HL, the comparison with the end of serBuf and the wrap.
Bump(p) == (p + 1) % SerSize

-----------------------------------------------------------------------------
(* The emulator around the guest.                                          *)

Host ==
  /\ \/ \E c \in Byte : HostTypes(c)
     \/ Tick /\ Len(stack) < ClockDepth
     \/ PollKey
  /\ UNCHANGED guestVars

\* The end of system_poll.
SystemPoll ==
  /\ PollDone
  /\ intr' = (intr \/ Available)
  /\ UNCHANGED <<pc, stack, iff, ringPtrs, hl, acc, got>>

\* Interrupt mode 1; the jump at 0x38 runs in the same turn of the loop.
Interrupt ==
  /\ intr /\ iff
  /\ OtherInstruction
  /\ stack' = Append(stack, pc)
  /\ pc' = "serialInt"
  /\ iff' = FALSE /\ intr' = FALSE
  /\ UNCHANGED <<ringPtrs, hl, acc, got>>

-----------------------------------------------------------------------------
(* serialInt.  Its registers are saved, and interrupts are off until EI.   *)

\* A slip: the status tells of bytes that the throttle holds back.
StatusReady_Unthrottled == bs # be

\* mc6850_in_from_buffered_console_status: bit 0 of the status.
StatusReady == Available

IntStatus ==
  /\ pc = "serialInt"
  /\ OtherInstruction
  /\ pc' = IF StatusReady THEN "data" ELSE "rts0"
  /\ UNCHANGED <<stack, iff, ringPtrs, hl, acc, got>>

IntData ==
  /\ pc = "data"
  /\ ReadData
  /\ pc' = "store"
  /\ UNCHANGED <<stack, iff, ringPtrs, hl, acc, got>>

\* A slip: the ring is taken for full one byte late.
IntStore_Late ==
  /\ pc = "store"
  /\ OtherInstruction
  /\ IF serBufUsed > SerSize
     THEN UNCHANGED ringPtrs
     ELSE /\ serInPtr' = Bump(serInPtr)
          /\ serBuf' = [serBuf EXCEPT ![serInPtr'] = rx]
          /\ serBufUsed' = serBufUsed + 1
          /\ UNCHANGED serRdPtr
  /\ pc' = "rts0"
  /\ UNCHANGED <<stack, iff, hl, acc, got>>

\* RTS is raised here and lowered in RXA; the emulator's ACIA ignores both.
IntStore ==
  /\ pc = "store"
  /\ OtherInstruction
  /\ IF serBufUsed = SerSize
     THEN UNCHANGED ringPtrs
     ELSE /\ serInPtr' = Bump(serInPtr)
          /\ serBuf' = [serBuf EXCEPT ![serInPtr'] = rx]
          /\ serBufUsed' = serBufUsed + 1
          /\ UNCHANGED serRdPtr
  /\ pc' = "rts0"
  /\ UNCHANGED <<stack, iff, hl, acc, got>>

IntEi ==
  /\ pc = "rts0"
  /\ OtherInstruction
  /\ iff' = TRUE
  /\ pc' = "reti"
  /\ UNCHANGED <<stack, ringPtrs, hl, acc, got>>

IntReti ==
  /\ pc = "reti"
  /\ OtherInstruction
  /\ pc' = Last(stack)
  /\ stack' = Front(stack)
  /\ UNCHANGED <<iff, ringPtrs, hl, acc, got>>

SerialIsr == IntStatus \/ IntData \/ IntStore \/ IntEi \/ IntReti

-----------------------------------------------------------------------------
(* RXA, and BASIC around it, which does whatever it does between two calls. *)

Basic ==
  /\ pc = "basic"
  /\ OtherInstruction
  /\ UNCHANGED <<pc, stack, iff, ringPtrs, hl, acc, got>>

CallRxa ==
  /\ pc = "basic"
  /\ OtherInstruction
  /\ pc' = "waitForChar"
  /\ UNCHANGED <<stack, iff, ringPtrs, hl, acc, got>>

WaitForChar ==
  /\ pc = "waitForChar"
  /\ OtherInstruction
  /\ IF serBufUsed = 0
     THEN UNCHANGED <<pc, hl>>
     ELSE pc' = "notRdWrap" /\ hl' = Bump(serRdPtr)
  /\ UNCHANGED <<stack, iff, ringPtrs, acc, got>>

\* A slip: interrupts stay on while the ring is changed.
RxDi_Forgets ==
  /\ pc = "notRdWrap"
  /\ OtherInstruction
  /\ pc' = "load"
  /\ UNCHANGED <<stack, iff, ringPtrs, hl, acc, got>>

RxDi ==
  /\ pc = "notRdWrap"
  /\ OtherInstruction
  /\ iff' = FALSE
  /\ pc' = "load"
  /\ UNCHANGED <<stack, ringPtrs, hl, acc, got>>

RxLoad ==
  /\ pc = "load"
  /\ OtherInstruction
  /\ serRdPtr' = hl
  /\ acc' = serBufUsed
  /\ pc' = "save"
  /\ UNCHANGED <<stack, iff, serBuf, serInPtr, serBufUsed, hl, got>>

RxSave ==
  /\ pc = "save"
  /\ OtherInstruction
  /\ serBufUsed' = acc - 1
  /\ pc' = "rts1"
  /\ UNCHANGED <<stack, iff, serBuf, serInPtr, serRdPtr, hl, acc, got>>

RxByte ==
  /\ pc = "rts1"
  /\ OtherInstruction
  /\ got' = serBuf[hl]
  /\ pc' = "ei"
  /\ UNCHANGED <<stack, iff, ringPtrs, hl, acc>>

\* A slip: RXA returns with interrupts off.
RxEi_Forgets ==
  /\ pc = "ei"
  /\ OtherInstruction
  /\ pc' = "basic"
  /\ UNCHANGED <<stack, iff, ringPtrs, hl, acc, got>>

RxEi ==
  /\ pc = "ei"
  /\ OtherInstruction
  /\ iff' = TRUE
  /\ pc' = "basic"
  /\ UNCHANGED <<stack, ringPtrs, hl, acc, got>>

RXA == WaitForChar \/ RxDi \/ RxLoad \/ RxSave \/ RxByte \/ RxEi

\* The guest's instruction, when no interrupt is taken before it.
Instruction ==
  /\ ~(intr /\ iff)
  /\ SerialIsr \/ Basic \/ CallRxa \/ RXA
  /\ UNCHANGED intr

SerNext == Host \/ SystemPoll \/ Interrupt \/ Instruction

SerSpec == SerInit /\ [][SerNext]_serVars

(* The emulator keeps running, time passes, and BASIC asks for a byte      *)
(* again and again.                                                        *)
SerFairness ==
  /\ WF_serVars(Tick /\ Host)
  /\ WF_serVars(PollKey /\ Host)
  /\ WF_serVars(SystemPoll \/ Interrupt \/ Instruction)
  /\ SF_serVars(Instruction /\ CallRxa)

SerFairSpec == SerSpec /\ SerFairness

-----------------------------------------------------------------------------
SerTypeOK ==
  /\ TypeOK
  /\ pc \in RxPlace \cup IntPlace
  /\ stack \in Seq(RxPlace \cup {"reti"})
  /\ iff \in BOOLEAN /\ intr \in BOOLEAN
  /\ serBuf \in [0 .. SerSize - 1 -> Byte]
  /\ {serInPtr, serRdPtr, hl} \subseteq 0 .. SerSize - 1
  /\ serBufUsed \in 0 .. SerSize /\ acc \in 0 .. SerSize
  /\ got \in Byte \cup {NoByte}

\* The byte between the ACIA and the ring, then those that wait in the ACIA.
AtAcia == (IF pc = "store" THEN <<rx>> ELSE <<>>) \o Pending

\* The bytes in the ring.  In RXA the byte is out once it is in A.
InRing ==
  LET first == IF pc \in {"save", "rts1"} THEN hl ELSE Bump(serRdPtr)
      n     == IF pc = "rts1" THEN serBufUsed + 1 ELSE serBufUsed
  IN  [i \in 1 .. n |-> serBuf[(first + i - 1) % SerSize]]

Driver == INSTANCE ByteFifo WITH
            Room <- SerSize, typed <- AtAcia, queue <- InRing, out <- got

(* The driver is a FIFO from the ACIA to BASIC: however interrupts nest    *)
(* and wherever they hit RXA, no byte is lost while the ring has room,     *)
(* none is doubled, overtaken or made of a slot that was overwritten       *)
(* (int32K.asm:70-131).                                                    *)
DriverIsFifo == Driver!Spec

(* Between the status read and the data read of the interrupt routine the  *)
(* byte does not go away, so that 0xff is never stored as a byte           *)
(* (int32K.asm:73-77, mc6850_console.c:164-234).                           *)
DataStillThere == pc = "data" => Available

(* EI; RETI is interrupted before RETI as long as INTR is pulled, and      *)
(* every such interrupt leaves an address on the stack: with a burst       *)
(* served faster than the clock ticks, the throttle bounds the nesting to  *)
(* two interrupts a byte, one that reads it and one that finds it gone,    *)
(* on top of those during which the clock still ticks                      *)
(* (int32K.asm:101-104, z80.c:793-795).                                    *)
NestingBounded == Len(stack) < ClockDepth + 2 * (BurstCount + 2)

(* Once the host stops typing, every byte that the ACIA's buffer took      *)
(* leaves it and the ring: no interrupt is missed for good.                *)
EverythingIsRead == HostFallsSilent => <>[](keys = <<>> /\ AtAcia = <<>> /\ serBufUsed = 0)
=============================================================================
