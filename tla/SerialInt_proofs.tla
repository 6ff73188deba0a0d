-------------------------- MODULE SerialInt_proofs --------------------------
(***************************************************************************)
(* BASIC's serial driver on the console buffer, for every size of the two  *)
(* buffers and every throttle: its types, that no byte goes away between   *)
(* the status and the data, that it is a FIFO, and how deep interrupts     *)
(* nest.                                                                   *)
(***************************************************************************)
EXTENDS SerialInt, ConsoleBuffer_proofs

-----------------------------------------------------------------------------
(* The inductive invariant.                                                *)

\* Where an interrupt may find the guest.
Interruptible == {"basic", "waitForChar", "notRdWrap", "reti"}

\* Interrupts are off from the acceptance to EI and in RXA's critical section.
\* The first address on the stack is one of BASIC or RXA, the others are
\* those of interrupted RETIs.
ControlOK ==
  /\ iff <=> pc \in Interruptible
  /\ pc \in RxPlace <=> stack = <<>>
  /\ stack # <<>> => stack[1] \in Interruptible \ {"reti"}
  /\ \A i \in 2 .. Len(stack) : stack[i] = "reti"

\* Where BASIC or RXA is, or was when the first interrupt came.
Base == IF stack = <<>> THEN pc ELSE stack[1]

\* What RXA knows of the ring: nobody but itself takes a byte out.
RxaOK ==
  /\ Base \in {"notRdWrap", "load"} => serBufUsed >= 1 /\ hl = Bump(serRdPtr)
  /\ pc \in {"save", "rts1"} => hl = serRdPtr
  /\ pc = "save" => serBufUsed >= 1 /\ acc = serBufUsed
  /\ pc = "rts1" => serBufUsed < SerSize

\* The two pointers are apart by the bytes in the ring.
RingOK ==
  LET n == IF pc = "save" THEN serBufUsed - 1 ELSE serBufUsed
  IN  serInPtr = serRdPtr + n \/ serInPtr = serRdPtr + n - SerSize

ByteRead == pc = "store" => rx \in Byte

SerIInv ==
  /\ IInv /\ SerTypeOK /\ ControlOK /\ RxaOK /\ RingOK
  /\ ByteRead /\ DataStillThere

-----------------------------------------------------------------------------
(* Lemmas on the operators and on the console's part of a step.            *)

LEMMA BumpIs ==
  ASSUME NEW p \in 0 .. SerSize - 1
  PROVE  /\ Bump(p) \in 0 .. SerSize - 1
         /\ Bump(p) = IF p + 1 = SerSize THEN 0 ELSE p + 1
<1>1. CASE p + 1 = SerSize
  BY <1>1, SerialAssumption DEF Bump
<1>2. CASE p + 1 # SerSize
  BY <1>2, SerialAssumption DEF Bump
<1> QED
  BY <1>1, <1>2

LEMMA OtherIsStutter == OtherInstruction => UNCHANGED <<keys, intbuffer, bs, be, pause, burst, rx>>
  BY DEF OtherInstruction, ringVars, throttle

LEMMA InstructionSteps == Instruction => ReadData \/ OtherInstruction
  BY DEF Instruction, SerialIsr, IntStatus, IntData, IntStore, IntEi, IntReti, Basic, CallRxa,
         RXA, WaitForChar, RxDi, RxLoad, RxSave, RxByte, RxEi

LEMMA ConsoleSteps == [SerNext]_serVars => [Next]_vars
<1>1. Host => Next
  BY DEF Host, Next
<1>2. SystemPoll \/ Interrupt => Next
  BY DEF SystemPoll, Interrupt, Next
<1>3. Instruction => Next
  BY InstructionSteps DEF Next
<1>4. UNCHANGED serVars => UNCHANGED vars
  BY DEF serVars
<1> QED
  BY <1>1, <1>2, <1>3, <1>4 DEF SerNext

(* A byte that may be read stays there until it is read: no poll, key or   *)
(* tick of the clock takes it away.                                        *)
LEMMA AvailableStays ==
  ASSUME IInv, Available,
         Host \/ SystemPoll \/ OtherInstruction
  PROVE  Available'
<1> USE ConsoleAssumption DEF IInv, TypeOK, IndexOK, Available
<1>1. CASE OtherInstruction
  BY <1>1, OtherIsStutter
<1>2. CASE SystemPoll
  BY <1>2 DEF SystemPoll, PollDone, ringVars, throttle
<1>3. ASSUME NEW c \in Byte, HostTypes(c) PROVE Available'
  BY <1>3 DEF HostTypes, ringVars, throttle
<1>4. CASE Tick
  BY <1>4 DEF Tick, ringVars
<1>5. CASE PollKey
  BY <1>5 DEF PollKey, QueueChar, WriteSlot, throttle
<1> QED
  BY <1>1, <1>2, <1>3, <1>4, <1>5 DEF Host

(* The routine stores a byte that was there, and none is made up.          *)
LEMMA DataInv ==
  ASSUME SerIInv, SerNext
  PROVE  DataStillThere' /\ ByteRead'
<1> USE DEF DataStillThere, ByteRead
<1>1. CASE Host
  <2>1. UNCHANGED <<pc, rx>>
    BY <1>1 DEF Host, guestVars, HostTypes, Tick, PollKey
  <2> QED
    BY <1>1, <2>1, AvailableStays DEF SerIInv
<1>2. CASE SystemPoll
  <2>1. UNCHANGED <<pc, rx>>
    BY <1>2 DEF SystemPoll, PollDone
  <2> QED
    BY <1>2, <2>1, AvailableStays DEF SerIInv
<1>3. CASE Interrupt
  BY <1>3 DEF Interrupt
<1>4. CASE IntStatus
  BY <1>4, AvailableStays DEF IntStatus, StatusReady, SerIInv
<1>5. CASE IntData
  <2>1. Available
    BY <1>5 DEF IntData, SerIInv
  <2>2. rx' \in Byte
    BY <1>5, <2>1, DequeueInv DEF IntData, ReadData, SerIInv
  <2> QED
    BY <1>5, <2>2 DEF IntData
<1>6. CASE IntStore \/ IntEi
  BY <1>6 DEF IntStore, IntEi
<1>7. CASE IntReti
  <2>1. stack # <<>> /\ Last(stack) \in RxPlace \cup {"reti"}
    BY <1>7 DEF IntReti, SerIInv, ControlOK, SerTypeOK, RxPlace, Last
  <2> QED
    BY <1>7, <2>1 DEF IntReti, RxPlace
<1>8. CASE Basic \/ CallRxa \/ RXA
  BY <1>8 DEF Basic, CallRxa, RXA, WaitForChar, RxDi, RxLoad, RxSave, RxByte, RxEi
<1> QED
  BY <1>1, <1>2, <1>3, <1>4, <1>5, <1>6, <1>7, <1>8 DEF SerNext, Instruction, SerialIsr

-----------------------------------------------------------------------------
(* Every step keeps the invariant: first the types and the control, then   *)
(* RXA and the ring.                                                       *)

GuestTypeOK ==
  /\ pc \in RxPlace \cup IntPlace
  /\ stack \in Seq(RxPlace \cup {"reti"})
  /\ iff \in BOOLEAN /\ intr \in BOOLEAN
  /\ serBuf \in [0 .. SerSize - 1 -> Byte]
  /\ {serInPtr, serRdPtr, hl} \subseteq 0 .. SerSize - 1
  /\ serBufUsed \in 0 .. SerSize /\ acc \in 0 .. SerSize
  /\ got \in Byte \cup {NoByte}

LEMMA GuestType == SerTypeOK <=> TypeOK /\ GuestTypeOK
  BY DEF SerTypeOK, GuestTypeOK

LEMMA StackInv ==
  ASSUME SerIInv, Interrupt \/ IntReti
  PROVE  /\ pc' \in RxPlace \cup IntPlace
         /\ stack' \in Seq(RxPlace \cup {"reti"})
         /\ ControlOK'
<1> USE DEF ControlOK, RxPlace, IntPlace, Interruptible
<1>1. /\ pc \in RxPlace \cup IntPlace
      /\ stack \in Seq(RxPlace \cup {"reti"})
      /\ ControlOK
  BY DEF SerIInv, SerTypeOK
<1>2. CASE Interrupt
  <2>1. pc \in Interruptible
    BY <1>1, <1>2 DEF Interrupt
  <2>2. /\ stack' = Append(stack, pc)
        /\ pc' = "serialInt" /\ iff' = FALSE
    BY <1>2 DEF Interrupt
  <2>3. /\ stack' \in Seq(RxPlace \cup {"reti"})
        /\ Len(stack') = Len(stack) + 1
        /\ \A i \in 1 .. Len(stack) : stack'[i] = stack[i]
        /\ stack'[Len(stack) + 1] = pc
    BY <1>1, <2>1, <2>2
  <2>4. stack'[1] \in Interruptible \ {"reti"}
    BY <1>1, <2>1, <2>3
  <2>5. \A i \in 2 .. Len(stack') : stack'[i] = "reti"
    BY <1>1, <2>1, <2>3
  <2>6. stack' # <<>>
    BY <1>1, <2>3
  <2> QED
    BY <2>2, <2>3, <2>4, <2>5, <2>6
<1>3. CASE IntReti
  <2>1. /\ pc = "reti" /\ iff /\ iff' = iff
        /\ pc' = stack[Len(stack)] /\ stack' = Front(stack)
        /\ Len(stack) >= 1
    BY <1>1, <1>3 DEF IntReti, Last
  <2>2. /\ stack' \in Seq(RxPlace \cup {"reti"})
        /\ Len(stack') = Len(stack) - 1
        /\ \A i \in 1 .. Len(stack) - 1 : stack'[i] = stack[i]
    <3>1. \A i \in 1 .. Len(stack) - 1 : stack[i] \in RxPlace \cup {"reti"}
      BY <1>1
    <3>2. stack' = SubSeq(stack, 1, Len(stack) - 1) /\ Len(stack) \in Nat
      BY <1>1, <2>1 DEF Front
    <3> DEFINE Places == RxPlace \cup {"reti"}
           last == Len(stack) - 1
    <3> last \in Nat /\ Len(stack) - 1 = last
      BY <2>1, <3>2
    <3>3. /\ stack' = SubSeq(stack, 1, last)
          /\ \A i \in 1 .. last : stack[i] \in Places
      BY <3>1, <3>2
    <3> HIDE DEF Places, last
    <3>4. /\ SubSeq(stack, 1, last) \in Seq(Places)
          /\ Len(SubSeq(stack, 1, last)) = IF 1 <= last THEN last - 1 + 1 ELSE 0
          /\ \A i \in 1 .. last - 1 + 1 : SubSeq(stack, 1, last)[i] = stack[1 + i - 1]
      BY <3>3, SubSeqProperties
    <3>5. /\ stack' \in Seq(Places)
          /\ Len(stack') = last
          /\ \A i \in 1 .. last : stack'[i] = stack[i]
      BY <3>3, <3>4
    <3> QED
      BY <3>5 DEF Places, last
  <2>3. CASE Len(stack) = 1
    BY <1>1, <2>1, <2>2, <2>3
  <2>4. CASE Len(stack) > 1
    <3>1. pc' = "reti" /\ stack' # <<>>
      BY <1>1, <2>1, <2>2, <2>4
    <3>2. stack'[1] \in Interruptible \ {"reti"}
      BY <1>1, <2>1, <2>2, <2>4
    <3>3. \A i \in 2 .. Len(stack') : stack'[i] = "reti"
      BY <1>1, <2>1, <2>2
    <3> QED
      BY <2>1, <2>2, <3>1, <3>2, <3>3
  <2> QED
    BY <2>1, <2>3, <2>4
<1> QED
  BY <1>2, <1>3

LEMMA TypeAndControlInv ==
  ASSUME SerIInv, SerNext
  PROVE  GuestTypeOK' /\ ControlOK'
<1> USE DEF ControlOK, GuestTypeOK, RxPlace, IntPlace, Interruptible, ringPtrs
<1>1. GuestTypeOK /\ ControlOK /\ RxaOK /\ ByteRead
  BY GuestType DEF SerIInv
<1>2. CASE Host
  BY <1>1, <1>2 DEF Host, guestVars
<1>3. CASE SystemPoll
  <2>1. intr' \in BOOLEAN
    BY <1>1, <1>3 DEF SystemPoll, Available
  <2> QED
    BY <1>1, <1>3, <2>1 DEF SystemPoll
<1>4. CASE Interrupt
  <2>1. intr' \in BOOLEAN /\ iff' \in BOOLEAN
    BY <1>4 DEF Interrupt
  <2>2. UNCHANGED <<serBuf, serInPtr, serRdPtr, serBufUsed, hl, acc, got>>
    BY <1>4 DEF Interrupt
  <2> QED
    BY <1>1, <1>4, <2>1, <2>2, StackInv
<1>5. CASE IntReti /\ UNCHANGED intr
  <2>1. UNCHANGED <<intr, iff, serBuf, serInPtr, serRdPtr, serBufUsed, hl, acc, got>>
    BY <1>5 DEF IntReti
  <2> QED
    BY <1>1, <1>5, <2>1, StackInv
<1>6. CASE (IntStatus \/ IntData \/ IntEi) /\ UNCHANGED intr
  <2>1. /\ UNCHANGED <<stack, serBuf, serInPtr, serRdPtr, serBufUsed, hl, acc, got>>
        /\ pc' \in {"data", "store", "rts0", "reti"}
        /\ iff' \in BOOLEAN
    BY <1>1, <1>6 DEF IntStatus, IntData, IntEi
  <2>2. iff' <=> pc' \in Interruptible
    BY <1>1, <1>6 DEF IntStatus, IntData, IntEi
  <2>3. stack # <<>>
    BY <1>1, <1>6 DEF IntStatus, IntData, IntEi
  <2> QED
    BY <1>1, <1>6, <2>1, <2>2, <2>3
<1>7. CASE IntStore /\ UNCHANGED intr
  <2>1. CASE serBufUsed = SerSize
    BY <1>1, <1>7, <2>1 DEF IntStore
  <2>2. CASE serBufUsed # SerSize
    <3>1. serInPtr' \in 0 .. SerSize - 1
      BY <1>1, <1>7, <2>2, BumpIs DEF IntStore
    <3>2. serBuf' \in [0 .. SerSize - 1 -> Byte]
      BY <1>1, <1>7, <2>2, <3>1 DEF IntStore, ByteRead
    <3>3. serBufUsed' \in 0 .. SerSize
      BY <1>1, <1>7, <2>2, SerialAssumption DEF IntStore
    <3> QED
      BY <1>1, <1>7, <2>2, <3>1, <3>2, <3>3 DEF IntStore
  <2> QED
    BY <2>1, <2>2
<1>8. CASE (Basic \/ CallRxa \/ RxDi \/ RxEi) /\ UNCHANGED intr
  BY <1>1, <1>8 DEF Basic, CallRxa, RxDi, RxEi
<1>9. CASE WaitForChar /\ UNCHANGED intr
  <2>1. hl' \in 0 .. SerSize - 1
    BY <1>1, <1>9, BumpIs DEF WaitForChar
  <2> QED
    BY <1>1, <1>9, <2>1 DEF WaitForChar
<1>10. CASE RxLoad /\ UNCHANGED intr
  BY <1>1, <1>10 DEF RxLoad
<1>11. CASE RxSave /\ UNCHANGED intr
  <2>1. serBufUsed' \in 0 .. SerSize
    BY <1>1, <1>11, SerialAssumption DEF RxSave, RxaOK
  <2> QED
    BY <1>1, <1>11, <2>1 DEF RxSave
<1>12. CASE RxByte /\ UNCHANGED intr
  BY <1>1, <1>12 DEF RxByte
<1> QED
  BY <1>2, <1>3, <1>4, <1>5, <1>6, <1>7, <1>8, <1>9, <1>10, <1>11, <1>12
     DEF SerNext, Instruction, SerialIsr, RXA

(* An interrupt changes nothing that RXA knows, except that it may add to  *)
(* the ring.                                                               *)
LEMMA BaseKept ==
  ASSUME SerIInv,
         Interrupt \/ IntReti \/ IntStatus \/ IntData \/ IntStore \/ IntEi
  PROVE  Base' = Base
<1> USE DEF Base, RxPlace, IntPlace
<1>1. GuestTypeOK /\ ControlOK
  BY GuestType DEF SerIInv
<1>2. CASE Interrupt
  <2>1. /\ stack' = Append(stack, pc)
        /\ stack \in Seq(RxPlace \cup {"reti"})
        /\ pc \in RxPlace \cup {"reti"}
    BY <1>1, <1>2 DEF Interrupt, GuestTypeOK, ControlOK, Interruptible
  <2>2. stack' # <<>> /\ stack'[1] = IF stack = <<>> THEN pc ELSE stack[1]
    BY <2>1
  <2> QED
    BY <2>2
<1>3. CASE IntReti
  <2>1. /\ stack # <<>> /\ pc' = stack[Len(stack)]
        /\ stack \in Seq(RxPlace \cup {"reti"})
        /\ stack' = SubSeq(stack, 1, Len(stack) - 1)
    BY <1>1, <1>3 DEF IntReti, GuestTypeOK, ControlOK, Last, Front
  <2>2. stack' \in Seq(RxPlace \cup {"reti"}) /\ ControlOK'
    BY <1>3, StackInv
  <2>3. CASE Len(stack) = 1
    <3>1. pc' = stack[1] /\ stack[1] \in Interruptible \ {"reti"}
      BY <1>1, <2>1, <2>3 DEF ControlOK
    <3>2. stack' = <<>>
      BY <2>2, <3>1 DEF ControlOK, Interruptible
    <3> QED
      BY <2>1, <3>1, <3>2
  <2>4. CASE Len(stack) > 1
    <3>1. pc' = "reti"
      BY <1>1, <2>1, <2>4 DEF ControlOK
    <3>2. stack' # <<>>
      BY <2>2, <3>1 DEF ControlOK
    <3>3. stack'[1] = stack[1]
      BY <2>1, <2>4
    <3> QED
      BY <2>1, <3>2, <3>3
  <2> QED
    BY <2>1, <2>3, <2>4
<1>4. CASE IntStatus \/ IntData \/ IntStore \/ IntEi
  BY <1>1, <1>4 DEF IntStatus, IntData, IntStore, IntEi, ControlOK
<1> QED
  BY <1>2, <1>3, <1>4

LEMMA RingInv ==
  ASSUME SerIInv, SerNext
  PROVE  RxaOK' /\ RingOK'
<1> USE DEF RxaOK, RingOK, ringPtrs
<1>1. GuestTypeOK /\ ControlOK /\ RxaOK /\ RingOK
  BY GuestType DEF SerIInv
<1>2. CASE Host \/ SystemPoll
  BY <1>1, <1>2 DEF Host, SystemPoll, guestVars, Base, Bump
<1>3. CASE Interrupt
  <2>1. pc \in Interruptible /\ pc' = "serialInt"
    BY <1>1, <1>3 DEF Interrupt, ControlOK
  <2> QED
    BY <1>1, <1>3, <2>1, BaseKept DEF Interrupt, Interruptible, Bump
<1>4. CASE IntReti
  <2>1. pc = "reti" /\ pc' \in RxPlace \cup IntPlace /\ ControlOK' /\ iff'
    BY <1>1, <1>4, StackInv DEF IntReti, ControlOK, Interruptible
  <2>2. pc' \in Interruptible
    BY <2>1 DEF ControlOK
  <2> QED
    BY <1>1, <1>4, <2>1, <2>2, BaseKept DEF IntReti, Interruptible, Bump
<1>5. CASE IntStatus \/ IntData \/ IntEi
  BY <1>1, <1>5, BaseKept DEF IntStatus, IntData, IntEi, Bump
<1>6. CASE IntStore
  <2>1. Base \notin {"save", "rts1"} /\ Base' = Base /\ pc' = "rts0" /\ UNCHANGED hl
    BY <1>1, <1>6, BaseKept DEF IntStore, Base, ControlOK, Interruptible, RxPlace
  <2>2. CASE serBufUsed = SerSize
    BY <1>1, <1>6, <2>1, <2>2 DEF IntStore, Bump
  <2>3. CASE serBufUsed # SerSize
    <3>1. /\ serInPtr' = IF serInPtr + 1 = SerSize THEN 0 ELSE serInPtr + 1
          /\ serBufUsed' = serBufUsed + 1
          /\ UNCHANGED serRdPtr
      BY <1>1, <1>6, <2>3, BumpIs DEF IntStore, GuestTypeOK
    <3>2. /\ serInPtr \in 0 .. SerSize - 1 /\ serRdPtr \in 0 .. SerSize - 1
          /\ serBufUsed \in 0 .. SerSize
      BY <1>1 DEF GuestTypeOK
    <3>3. RingOK'
      BY <1>1, <1>6, <2>1, <2>3, <3>1, <3>2, SerialAssumption DEF IntStore
    <3>4. RxaOK'
      BY <1>1, <2>1, <3>1, <3>2 DEF Bump
    <3> QED
      BY <3>3, <3>4
  <2> QED
    BY <2>2, <2>3
<1>7. CASE Basic \/ CallRxa \/ RxEi
  BY <1>1, <1>7 DEF Basic, CallRxa, RxEi, Base, ControlOK, RxPlace, Bump
<1>8. CASE WaitForChar
  BY <1>1, <1>8 DEF WaitForChar, Base, ControlOK, RxPlace, Bump, GuestTypeOK
<1>9. CASE RxDi
  BY <1>1, <1>9 DEF RxDi, Base, ControlOK, RxPlace, Bump
<1>10. CASE RxLoad
  <2>1. stack = <<>> /\ stack' = <<>> /\ pc = "load" /\ pc' = "save"
    BY <1>1, <1>10 DEF RxLoad, ControlOK, RxPlace
  <2>2. serRdPtr' = IF serRdPtr + 1 = SerSize THEN 0 ELSE serRdPtr + 1
    BY <1>1, <1>10, <2>1, BumpIs DEF RxLoad, GuestTypeOK, Base
  <2>3. /\ serInPtr \in 0 .. SerSize - 1 /\ serRdPtr \in 0 .. SerSize - 1
        /\ serBufUsed \in 1 .. SerSize
        /\ UNCHANGED <<serInPtr, serBufUsed>>
    BY <1>1, <1>10, <2>1 DEF GuestTypeOK, Base, RxLoad
  <2>4. RingOK'
    BY <1>1, <2>1, <2>2, <2>3, SerialAssumption
  <2>5. RxaOK'
    BY <1>10, <2>1, <2>3 DEF RxLoad, Base
  <2> QED
    BY <2>4, <2>5
<1>11. CASE RxSave
  <2>1. /\ stack = <<>> /\ stack' = <<>> /\ pc = "save" /\ pc' = "rts1"
        /\ serBufUsed' = serBufUsed - 1
        /\ UNCHANGED <<serInPtr, serRdPtr, hl>>
    BY <1>1, <1>11 DEF RxSave, ControlOK, RxPlace
  <2>2. serBufUsed \in 1 .. SerSize
    BY <1>1, <2>1 DEF GuestTypeOK
  <2> QED
    <3>1. RingOK'
      BY <1>1, <2>1, <2>2, SerialAssumption
    <3>2. RxaOK'
      BY <1>1, <2>1, <2>2, SerialAssumption DEF Base
    <3> QED
      BY <3>1, <3>2
<1>12. CASE RxByte
  BY <1>1, <1>12 DEF RxByte, Base, ControlOK, RxPlace, GuestTypeOK
<1> QED
  BY <1>2, <1>3, <1>4, <1>5, <1>6, <1>7, <1>8, <1>9, <1>10, <1>11, <1>12
     DEF SerNext, Instruction, SerialIsr, RXA

LEMMA SerInitInv == SerInit => SerIInv
<1> SUFFICES ASSUME SerInit PROVE SerIInv
  OBVIOUS
<1>1. IInv
  BY InitInv DEF SerInit
<1>2. GuestTypeOK
  <2>1. serBuf \in [0 .. SerSize - 1 -> Byte] /\ stack \in Seq(RxPlace \cup {"reti"})
    BY DEF SerInit
  <2> QED
    <3>1. 0 \in 0 .. SerSize - 1 /\ 0 \in 0 .. SerSize
      BY SerialAssumption
    <3>2. iff \in BOOLEAN /\ intr \in BOOLEAN /\ pc \in RxPlace
      BY DEF SerInit, RxPlace
    <3> QED
      BY <2>1, <3>1, <3>2 DEF SerInit, GuestTypeOK
<1>3. ControlOK /\ RxaOK /\ RingOK /\ ByteRead /\ DataStillThere
  BY SerialAssumption
     DEF SerInit, ControlOK, RxaOK, RingOK, ByteRead, DataStillThere, Base, RxPlace, Interruptible
<1> QED
  BY <1>1, <1>2, <1>3, GuestType DEF SerIInv, IInv

LEMMA SerNextInv == SerIInv /\ [SerNext]_serVars => SerIInv'
<1> SUFFICES ASSUME SerIInv, [SerNext]_serVars PROVE SerIInv'
  OBVIOUS
<1>1. IInv'
  BY ConsoleSteps, NextInv DEF SerIInv
<1>2. CASE SerNext
  <2>1. GuestTypeOK' /\ ControlOK' /\ RxaOK' /\ RingOK' /\ DataStillThere' /\ ByteRead'
    BY <1>2, TypeAndControlInv, RingInv, DataInv
  <2> QED
    BY <1>1, <2>1 DEF SerIInv, SerTypeOK, GuestTypeOK, IInv
<1>3. CASE UNCHANGED serVars
  BY <1>3 DEF serVars, guestVars, vars, SerIInv, IInv, TypeOK, IndexOK, SerTypeOK, ControlOK,
              RxaOK, RingOK, ByteRead, DataStillThere, Available, Base, Bump
<1> QED
  BY <1>2, <1>3

(* Type correctness of the driver and of the buffer it runs on.            *)
THEOREM DriverTypeCorrect == SerSpec => []SerTypeOK
<1>1. SerIInv => SerTypeOK
  BY DEF SerIInv
<1> QED
  BY <1>1, SerInitInv, SerNextInv, PTL DEF SerSpec

(* The byte that the status announced is still there when the interrupt    *)
(* routine reads it, so 0xff is never stored for a byte (int32K.asm:73-77, *)
(* mc6850_console.c:164-234).                                              *)
THEOREM AnnouncedByteStays == SerSpec => []DataStillThere
<1>1. SerIInv => DataStillThere
  BY DEF SerIInv
<1> QED
  BY <1>1, SerInitInv, SerNextInv, PTL DEF SerSpec

-----------------------------------------------------------------------------
(* How deep interrupts nest.  Each reads at most one byte, and once the    *)
(* throttle has struck the clock must tick.                                *)

\* Reads that the throttle lets through before the clock must tick.
Reads == IF pause < 0 THEN BurstCount + 2 - burst ELSE 0

Depth == ClockDepth - 1 + 2 * (BurstCount + 2)

\* INTR is pulled for a byte that was read since.
Stale == intr /\ ~Available

(* With two addresses for each byte that can still be read the depth stays *)
(* within the bound: an interrupt that was taken and has not read its byte *)
(* is one ahead, a stale INTR is one more to come.                         *)
NestOK ==
  /\ burst = 0 => /\ pause < 0 /\ Len(stack) <= 1
                  /\ stack # <<>> => pc \in {"serialInt", "data"} /\ Available
  /\ Stale => burst >= 1
  /\ pc \in {"serialInt", "data"} =>
       ~Stale /\ Len(stack) + 2 * Reads <= Depth + (IF Available THEN 1 ELSE 0)
  /\ pc \in {"store", "rts0", "reti"} =>
       Len(stack) + 2 * Reads <= Depth - (IF Stale THEN 1 ELSE 0)

NestInv == SerIInv /\ NestOK

LEMMA ReadsIs ==
  ASSUME SerIInv
  PROVE  /\ Reads \in 0 .. BurstCount + 2
         /\ burst >= 1 => Reads <= BurstCount + 1
         /\ Available => Reads >= 1
         /\ burst \in Nat /\ pause \in Int /\ Len(stack) \in Nat
         /\ Depth \in Nat /\ Depth >= 2 * (BurstCount + 2)
         /\ Available \in BOOLEAN /\ intr \in BOOLEAN
  BY ConsoleAssumption, SerialAssumption
     DEF SerIInv, SerTypeOK, TypeOK, Reads, Depth, Available

LEMMA TakeInterrupt ==
  ASSUME NestInv, Interrupt
  PROVE  NestOK'
<1>1. /\ UNCHANGED <<burst, pause, bs, be>>
      /\ pc' = "serialInt" /\ intr' = FALSE /\ intr
      /\ Len(stack') = Len(stack) + 1
  <2>1. /\ stack \in Seq(RxPlace \cup {"reti"})
        /\ pc \in RxPlace \cup {"reti"}
    BY DEF Interrupt, NestInv, SerIInv, SerTypeOK, ControlOK, Interruptible, RxPlace
  <2> QED
    BY <2>1, OtherIsStutter DEF Interrupt
<1>2. Reads' = Reads /\ (Available' <=> Available) /\ ~Stale'
  BY <1>1 DEF Reads, Available, Stale
<1>3. stack = <<>> \/ (pc = "reti" /\ burst # 0)
  BY <1>1 DEF Interrupt, NestInv, SerIInv, ControlOK, NestOK, Interruptible, RxPlace
<1>4. burst = 0 => Available
  BY <1>1 DEF NestInv, NestOK, Stale
<1>5. Len(stack') + 2 * Reads <= Depth + (IF Available THEN 1 ELSE 0)
  <2>1. CASE stack = <<>>
    <3>1. Len(stack') = 1
      BY <1>1, <2>1
    <3>2. CASE Available
      BY <3>1, <3>2, ReadsIs, ConsoleAssumption DEF NestInv
    <3>3. CASE ~Available
      <4>1. Stale
        BY <1>1, <3>3 DEF Stale
      <4>2. burst >= 1
        BY <4>1 DEF NestInv, NestOK
      <4> QED
        BY <3>1, <3>3, <4>2, ReadsIs, ConsoleAssumption DEF NestInv
    <3> QED
      BY <3>2, <3>3
  <2>2. CASE pc = "reti"
    <3>1. Len(stack) + 2 * Reads <= Depth - (IF Stale THEN 1 ELSE 0)
      BY <2>2 DEF NestInv, NestOK
    <3>2. CASE Available
      <4>1. ~Stale
        BY <3>2 DEF Stale
      <4> QED
        BY <1>1, <3>1, <3>2, <4>1, ReadsIs, ConsoleAssumption DEF NestInv
    <3>3. CASE ~Available
      <4>1. Stale
        BY <1>1, <3>3 DEF Stale
      <4> QED
        BY <1>1, <3>1, <3>3, <4>1, ReadsIs, ConsoleAssumption DEF NestInv
    <3> QED
      BY <3>2, <3>3
  <2> QED
    BY <1>3, <2>1, <2>2
<1>6. Depth' = Depth
  BY DEF Depth
<1>7. burst = 0 => pause < 0 /\ Len(stack') <= 1
  BY <1>1, <1>3 DEF NestInv, NestOK
<1> QED
  BY <1>1, <1>2, <1>4, <1>5, <1>6, <1>7 DEF NestOK

\* A key, or an end of a poll, may only make a byte available.
LEMMA PollNest ==
  ASSUME NestInv, Host \/ SystemPoll, UNCHANGED throttle
  PROVE  NestOK'
<1>1. UNCHANGED <<pc, stack, burst, pause>>
  BY DEF Host, SystemPoll, guestVars, throttle
<1>2. Available => Available'
  BY AvailableStays DEF NestInv, SerIInv
<1>3. Stale' => Stale
  <2>1. CASE Host
    BY <1>2, <2>1 DEF Host, guestVars, Stale
  <2>2. CASE SystemPoll
    <3>1. (Available' <=> Available) /\ (intr' <=> intr \/ Available)
      BY <2>2 DEF SystemPoll, PollDone, ringVars, throttle, Available
    <3> QED
      BY <3>1 DEF Stale
  <2> QED
    BY <2>1, <2>2
<1>4. Reads' = Reads /\ Depth' = Depth
  BY <1>1 DEF Reads, Depth
<1>5. ASSUME pc \in {"serialInt", "data"}
      PROVE  /\ ~Stale'
             /\ Len(stack) + 2 * Reads <= Depth + (IF Available' THEN 1 ELSE 0)
  <2>1. ~Stale /\ Len(stack) + 2 * Reads <= Depth + (IF Available THEN 1 ELSE 0)
    BY <1>5 DEF NestInv, NestOK
  <2> QED
    BY <1>2, <1>3, <2>1, ReadsIs DEF NestInv
<1>6. ASSUME pc \in {"store", "rts0", "reti"}
      PROVE  Len(stack) + 2 * Reads <= Depth - (IF Stale' THEN 1 ELSE 0)
  <2>1. Len(stack) + 2 * Reads <= Depth - (IF Stale THEN 1 ELSE 0)
    BY <1>6 DEF NestInv, NestOK
  <2> QED
    BY <1>3, <2>1, ReadsIs DEF NestInv
<1> QED
  BY <1>1, <1>2, <1>3, <1>4, <1>5, <1>6 DEF NestInv, NestOK

\* The clock ticks only while the nesting has not reached ClockDepth.
LEMMA TickNest ==
  ASSUME NestInv, Tick, Len(stack) < ClockDepth, UNCHANGED guestVars
  PROVE  NestOK'
<1> USE ConsoleAssumption, SerialAssumption
<1>1. /\ UNCHANGED <<pc, stack, intr, burst, bs, be>>
      /\ pause >= 0 /\ pause' = pause - 1
  BY DEF guestVars, Tick, ringVars
<1>2. burst >= 1
  BY <1>1, ReadsIs DEF NestInv, NestOK
<1>3. Available => Available'
  BY <1>1, ReadsIs DEF Available, NestInv
<1>4. Stale' => Stale
  BY <1>1, <1>3 DEF Stale
<1>5. Reads' <= BurstCount + 1 /\ Reads' \in Int
  BY <1>1, <1>2, ReadsIs DEF Reads, NestInv
<1>6. Len(stack) + 2 * Reads' <= Depth - 1 /\ Depth' = Depth
  BY <1>5, ReadsIs DEF Depth, NestInv
<1>7. Len(stack) \in Nat /\ Depth \in Nat
  BY ReadsIs DEF NestInv
<1>8. /\ Len(stack) + 2 * Reads' <= Depth + (IF Available' THEN 1 ELSE 0)
      /\ Len(stack) + 2 * Reads' <= Depth - (IF Stale' THEN 1 ELSE 0)
  BY <1>5, <1>6, <1>7
<1> QED
  BY <1>1, <1>2, <1>4, <1>6, <1>8, ReadsIs DEF NestInv, NestOK

\* The guest's instructions.
LEMMA InstructionNest ==
  ASSUME NestInv, Instruction
  PROVE  NestOK'
<1> USE DEF NestInv
<1>1. ASSUME OtherInstruction
      PROVE  /\ UNCHANGED <<burst, pause, bs, be>>
             /\ Reads' = Reads /\ (Available' <=> Available) /\ (Stale' <=> Stale)
             /\ Depth' = Depth
  BY <1>1, OtherIsStutter DEF Instruction, Reads, Available, Stale, Depth
<1>2. CASE IntStatus
  <2>1. /\ UNCHANGED stack /\ pc = "serialInt"
        /\ pc' = IF Available THEN "data" ELSE "rts0"
        /\ OtherInstruction
    BY <1>2 DEF IntStatus, StatusReady
  <2>2. ~Stale /\ Len(stack) + 2 * Reads <= Depth + (IF Available THEN 1 ELSE 0)
    BY <2>1 DEF NestOK
  <2>3. stack # <<>>
    BY <2>1 DEF SerIInv, ControlOK, RxPlace
  <2>4. CASE Available
    BY <1>1, <2>1, <2>2, <2>3, <2>4, ReadsIs DEF NestOK
  <2>5. CASE ~Available
    <3>1. burst # 0
      BY <2>3, <2>5 DEF NestOK
    <3> QED
      BY <1>1, <2>1, <2>2, <2>5, <3>1, ReadsIs DEF NestOK
  <2> QED
    BY <2>4, <2>5
<1>3. CASE IntData
  <2>1. /\ UNCHANGED stack /\ pc = "data" /\ pc' = "store"
        /\ Available /\ CountByte
    BY <1>3 DEF IntData, SerIInv, DataStillThere, ReadData
  <2>2. Len(stack) + 2 * Reads <= Depth + 1
    BY <2>1 DEF NestOK
  <2>3. Reads' = Reads - 1 /\ burst' >= 1
    BY <2>1, ConsoleAssumption
       DEF CountByte, Reads, Available, SerIInv, SerTypeOK, TypeOK
  <2>4. Len(stack) + 2 * Reads' <= Depth - 1
    BY <2>2, <2>3, ReadsIs
  <2>5. Len(stack) + 2 * Reads' <= Depth - (IF Stale' THEN 1 ELSE 0)
    BY <2>3, <2>4, ReadsIs
  <2> QED
    BY <2>1, <2>3, <2>5, ReadsIs DEF NestOK, Depth
<1>4. CASE IntStore \/ IntEi
  <2>1. /\ UNCHANGED stack /\ pc \in {"store", "rts0"} /\ pc' \in {"rts0", "reti"}
        /\ OtherInstruction
    BY <1>4 DEF IntStore, IntEi
  <2> QED
    BY <1>1, <2>1 DEF NestOK, SerIInv, ControlOK, RxPlace
<1>5. CASE IntReti
  <2>1. /\ pc = "reti" /\ OtherInstruction
        /\ pc' \in RxPlace \cup {"reti"} /\ Len(stack') <= Len(stack) /\ Len(stack') \in Nat
        /\ stack # <<>>
    <3>1. /\ stack \in Seq(RxPlace \cup {"reti"}) /\ stack # <<>>
          /\ pc = "reti" /\ pc' = stack[Len(stack)]
          /\ stack' = SubSeq(stack, 1, Len(stack) - 1)
      BY <1>5 DEF IntReti, SerIInv, SerTypeOK, ControlOK, RxPlace, Last, Front
    <3>2. pc' \in RxPlace \cup {"reti"}
      BY <3>1
    <3>3. Len(stack') <= Len(stack) /\ Len(stack') \in Nat
      BY <3>1
    <3> QED
      BY <1>5, <3>1, <3>2, <3>3 DEF IntReti
  <2>2. burst # 0 /\ Len(stack) + 2 * Reads <= Depth - (IF Stale THEN 1 ELSE 0)
    BY <2>1 DEF NestOK
  <2>3. Len(stack') + 2 * Reads <= Depth - (IF Stale THEN 1 ELSE 0)
    BY <2>1, <2>2, ReadsIs
  <2> QED
    BY <1>1, <2>1, <2>2, <2>3 DEF NestOK, RxPlace
<1>6. CASE Basic \/ CallRxa \/ RXA
  <2>1. /\ UNCHANGED stack /\ pc \in RxPlace /\ pc' \in RxPlace
        /\ OtherInstruction
    BY <1>6 DEF Basic, CallRxa, RXA, WaitForChar, RxDi, RxLoad, RxSave, RxByte, RxEi, RxPlace
  <2>2. stack = <<>>
    BY <2>1 DEF SerIInv, ControlOK
  <2> QED
    BY <1>1, <2>1, <2>2 DEF NestOK, RxPlace
<1> QED
  BY <1>2, <1>3, <1>4, <1>5, <1>6 DEF Instruction, SerialIsr

LEMMA NestNext == NestInv /\ [SerNext]_serVars => NestInv'
<1> SUFFICES ASSUME NestInv, [SerNext]_serVars PROVE NestOK'
  BY SerNextInv DEF NestInv
<1>1. CASE Host
  <2>1. CASE Tick /\ Len(stack) < ClockDepth
    BY <1>1, <2>1, TickNest DEF Host
  <2>2. CASE PollKey \/ \E c \in Byte : HostTypes(c)
    <3>1. UNCHANGED throttle
      BY <2>2 DEF PollKey, HostTypes
    <3> QED
      BY <1>1, <3>1, PollNest
  <2> QED
    BY <1>1, <2>1, <2>2 DEF Host
<1>2. CASE SystemPoll
  <2>1. UNCHANGED throttle
    BY <1>2 DEF SystemPoll, PollDone
  <2> QED
    BY <1>2, <2>1, PollNest
<1>3. CASE UNCHANGED serVars
  BY <1>3 DEF serVars, guestVars, vars, NestInv, NestOK, Stale, Available, Reads, Depth
<1> QED
  BY <1>1, <1>2, <1>3, TakeInterrupt, InstructionNest DEF SerNext

(* EI; RETI can be interrupted before RETI again and again, but the stack  *)
(* grows by at most two addresses for each byte of a burst, whatever the   *)
(* host types, on top of those during which the clock still ticks.         *)
THEOREM NestingIsBounded == SerSpec => []NestingBounded
<1>1. SerInit => NestInv
  <2>1. ASSUME SerInit PROVE NestOK
    BY <2>1, ConsoleAssumption DEF SerInit, Init, NestOK, Stale
  <2> QED
    BY <2>1, SerInitInv DEF NestInv
<1>2. NestInv => NestingBounded
  <2> SUFFICES ASSUME NestInv PROVE Len(stack) <= Depth
    BY ReadsIs, ConsoleAssumption, SerialAssumption DEF NestInv, NestingBounded, Depth
  <2>1. CASE pc \in {"serialInt", "data"}
    BY <2>1, ReadsIs DEF NestInv, NestOK
  <2>2. CASE pc \in {"store", "rts0", "reti"}
    BY <2>2, ReadsIs DEF NestInv, NestOK
  <2>3. CASE stack = <<>>
    BY <2>3, ReadsIs DEF NestInv
  <2> QED
    BY <2>1, <2>2, <2>3 DEF NestInv, SerIInv, SerTypeOK, ControlOK, IntPlace
<1> QED
  BY <1>1, <1>2, NestNext, PTL DEF SerSpec

-----------------------------------------------------------------------------
(* The driver is a FIFO.                                                   *)

First == IF pc \in {"save", "rts1"} THEN hl ELSE Bump(serRdPtr)
Count == IF pc = "rts1" THEN serBufUsed + 1 ELSE serBufUsed

\* The slot that is i places behind slot x.
LEMMA SlotIs ==
  ASSUME NEW x \in 0 .. 2 * SerSize - 1
  PROVE  /\ x % SerSize = IF x < SerSize THEN x ELSE x - SerSize
         /\ x % SerSize \in 0 .. SerSize - 1
<1>1. CASE x < SerSize
  BY <1>1, SerialAssumption
<1>2. CASE ~(x < SerSize)
  BY <1>2, SerialAssumption
<1> QED
  BY <1>1, <1>2

\* The bytes in n slots of a ring form a sequence.
LEMMA RingSeq ==
  ASSUME NEW buf \in [0 .. SerSize - 1 -> Byte],
         NEW first \in 0 .. SerSize - 1, NEW n \in 0 .. SerSize
  PROVE  LET s == [i \in 1 .. n |-> buf[(first + i - 1) % SerSize]]
         IN  /\ s \in Seq(Byte)
             /\ Len(s) = n
             /\ \A i \in 1 .. n : s[i] = buf[(first + i - 1) % SerSize]
<1>1. \A i \in 1 .. n : buf[(first + i - 1) % SerSize] \in Byte
  <2> TAKE i \in 1 .. n
  <2>1. first + i - 1 \in 0 .. 2 * SerSize - 1
    BY SerialAssumption
  <2>2. (first + i - 1) % SerSize \in 0 .. SerSize - 1
    BY <2>1, SlotIs
  <2> QED
    BY <2>2
<1>2. n \in Nat
  BY SerialAssumption
<1> QED
  BY <1>1, <1>2

LEMMA FirstAndCount ==
  ASSUME SerIInv
  PROVE  First \in 0 .. SerSize - 1 /\ Count \in 0 .. SerSize
<1>1. GuestTypeOK /\ RxaOK
  BY GuestType DEF SerIInv
<1>2. Bump(serRdPtr) \in 0 .. SerSize - 1
  BY <1>1, BumpIs DEF GuestTypeOK
<1>3. First \in 0 .. SerSize - 1
  BY <1>1, <1>2 DEF GuestTypeOK, First
<1>4. Count \in 0 .. SerSize
  BY <1>1, SerialAssumption DEF GuestTypeOK, RxaOK, Count
<1> QED
  BY <1>3, <1>4

LEMMA InRingSeq ==
  ASSUME SerIInv
  PROVE  /\ InRing \in Seq(Byte)
         /\ Len(InRing) = Count
         /\ \A i \in 1 .. Count : InRing[i] = serBuf[(First + i - 1) % SerSize]
<1>1. InRing = [i \in 1 .. Count |-> serBuf[(First + i - 1) % SerSize]]
  BY DEF InRing, First, Count
<1>2. serBuf \in [0 .. SerSize - 1 -> Byte]
  BY DEF SerIInv, SerTypeOK
<1> HIDE DEF First, Count
<1> QED
  BY <1>1, <1>2, FirstAndCount, RingSeq

\* The ring is as it was, unless a byte is stored or RXA has one in A.
LEMMA RingKept ==
  ASSUME UNCHANGED <<serBuf, serRdPtr, serBufUsed>>,
         {pc, pc'} \cap {"save", "rts1"} = {} \/ UNCHANGED <<pc, hl>>
  PROVE  InRing' = InRing
  BY DEF InRing, Bump

\* RXA gives up a slot in two steps, which no interrupt comes between.
LEMMA RxaKeepsRing ==
  ASSUME SerIInv, RxLoad \/ RxSave
  PROVE  InRing' = InRing
<1>1. CASE RxLoad
  <2>1. First' = First /\ Count' = Count
    BY <1>1 DEF RxLoad, First, Count, SerIInv, RxaOK, ControlOK, Base, RxPlace
  <2> QED
    BY <1>1, <2>1 DEF RxLoad, InRing, First, Count
<1>2. CASE RxSave
  <2>1. First' = First /\ Count' = Count
    BY <1>2 DEF RxSave, First, Count, SerIInv, RxaOK, ringPtrs, SerTypeOK
  <2> QED
    BY <1>2, <2>1 DEF RxSave, InRing, First, Count, ringPtrs
<1> QED
  BY <1>1, <1>2

\* A stored byte is behind the others, and overwrites none of them.
LEMMA StoreAppends ==
  ASSUME SerIInv, SerIInv', IntStore, serBufUsed # SerSize
  PROVE  InRing' = Append(InRing, rx)
<1> USE SerialAssumption
<1>1. /\ pc = "store" /\ pc' = "rts0"
      /\ serInPtr' = Bump(serInPtr)
      /\ serBuf' = [serBuf EXCEPT ![serInPtr'] = rx]
      /\ serBufUsed' = serBufUsed + 1
      /\ serRdPtr' = serRdPtr
      /\ rx \in Byte
  BY DEF IntStore, SerIInv, ByteRead
<1>2. First' = First /\ Count' = Count + 1 /\ Count = serBufUsed /\ First = Bump(serRdPtr)
  BY <1>1 DEF First, Count, Bump
<1>3. /\ First \in 0 .. SerSize - 1 /\ Count \in 0 .. SerSize - 1
      /\ serInPtr \in 0 .. SerSize - 1 /\ serRdPtr \in 0 .. SerSize - 1
      /\ serBuf \in [0 .. SerSize - 1 -> Byte]
  <2>1. GuestTypeOK
    BY GuestType DEF SerIInv
  <2> QED
    BY <2>1, <1>2, FirstAndCount DEF GuestTypeOK
<1>4. (First + Count) % SerSize = serInPtr'
  <2>1. /\ serInPtr' = IF serInPtr + 1 = SerSize THEN 0 ELSE serInPtr + 1
        /\ First = IF serRdPtr + 1 = SerSize THEN 0 ELSE serRdPtr + 1
    BY <1>1, <1>2, <1>3, BumpIs
  <2>2. serInPtr = serRdPtr + Count \/ serInPtr = serRdPtr + Count - SerSize
    BY <1>1, <1>2 DEF SerIInv, RingOK
  <2> HIDE DEF First, Count
  <2> DEFINE x == First + Count
  <2>3. x \in 0 .. 2 * SerSize - 1
    BY <1>3
  <2> HIDE DEF x
  <2>4. x % SerSize = IF x < SerSize THEN x ELSE x - SerSize
    BY <2>3, SlotIs
  <2>5. x % SerSize = serInPtr'
    BY <1>3, <2>1, <2>2, <2>4 DEF x
  <2> QED
    BY <2>5 DEF x
<1> HIDE DEF First, Count
<1>5. \A i \in 1 .. Count : (First + i - 1) % SerSize # serInPtr'
  <2> SUFFICES ASSUME NEW i \in 1 .. Count
               PROVE  (First + i - 1) % SerSize # (First + Count) % SerSize
    BY <1>4
  <2> DEFINE x == First + i - 1
             y == First + Count
  <2>1. x \in 0 .. 2 * SerSize - 1 /\ y \in 0 .. 2 * SerSize - 1 /\ x < y
    BY <1>3
  <2> HIDE DEF x, y
  <2>2. /\ x % SerSize = IF x < SerSize THEN x ELSE x - SerSize
        /\ y % SerSize = IF y < SerSize THEN y ELSE y - SerSize
    BY <2>1, SlotIs
  <2>3. y - x < SerSize
    BY <1>3 DEF x, y
  <2>4. x % SerSize # y % SerSize
    BY <2>1, <2>2, <2>3
  <2> QED
    BY <2>4 DEF x, y
<1>6. /\ InRing \in Seq(Byte) /\ Len(InRing) = Count
      /\ \A i \in 1 .. Count : InRing[i] = serBuf[(First + i - 1) % SerSize]
  BY InRingSeq
<1>7. /\ InRing' \in Seq(Byte) /\ Len(InRing') = Count + 1
      /\ \A i \in 1 .. Count + 1 : InRing'[i] = serBuf'[(First + i - 1) % SerSize]
  <2>1. InRing' = [i \in 1 .. Count + 1 |-> serBuf'[(First + i - 1) % SerSize]]
    BY <1>1, <1>2 DEF InRing, First, Count
  <2>2. serBuf' \in [0 .. SerSize - 1 -> Byte]
    BY DEF SerIInv, SerTypeOK
  <2>3. Count + 1 \in 0 .. SerSize
    BY <1>3
  <2> QED
    BY <1>3, <2>1, <2>2, <2>3, RingSeq
<1>8. /\ Append(InRing, rx) \in Seq(Byte)
      /\ Len(Append(InRing, rx)) = Count + 1
      /\ \A i \in 1 .. Count : Append(InRing, rx)[i] = InRing[i]
      /\ Append(InRing, rx)[Count + 1] = rx
  <2>1. rx \in Byte /\ InRing \in Seq(Byte) /\ Len(InRing) = Count
    BY <1>1, <1>6
  <2> QED
    BY <2>1, AppendProperties
<1>9. ASSUME NEW i \in 1 .. Count + 1
      PROVE  InRing'[i] = Append(InRing, rx)[i]
  <2>1. CASE i = Count + 1
    <3>1. First + i - 1 = First + Count
      BY <1>3, <2>1
    <3>2. InRing'[i] = serBuf'[serInPtr']
      BY <1>4, <1>7, <3>1
    <3>3. serInPtr' \in 0 .. SerSize - 1
      BY <1>1, <1>3, BumpIs
    <3> QED
      BY <1>1, <1>3, <1>8, <2>1, <3>2, <3>3
  <2>2. CASE i # Count + 1
    <3>1. i \in 1 .. Count
      BY <1>3, <2>2
    <3>2. First + i - 1 \in 0 .. 2 * SerSize - 1
      BY <1>3, <3>1
    <3>3. (First + i - 1) % SerSize \in 0 .. SerSize - 1 /\ (First + i - 1) % SerSize # serInPtr'
      BY <1>5, <3>1, <3>2, SlotIs
    <3> QED
      BY <1>1, <1>3, <1>6, <1>7, <1>8, <3>1, <3>3
  <2> QED
    BY <2>1, <2>2
<1> QED
  BY <1>7, <1>8, <1>9, SeqEqual

\* RXA returns the oldest byte of the ring.
LEMMA RxByteTakesHead ==
  ASSUME SerIInv, SerIInv', RxByte
  PROVE  /\ InRing # <<>>
         /\ got' = Head(InRing)
         /\ InRing' = Tail(InRing)
<1> USE SerialAssumption
<1>1. /\ pc = "rts1" /\ pc' = "ei"
      /\ got' = serBuf[hl] /\ hl = serRdPtr
      /\ UNCHANGED <<serBuf, serRdPtr, serBufUsed, hl>>
  BY DEF RxByte, ringPtrs, SerIInv, RxaOK
<1>2. First = serRdPtr /\ First' = Bump(serRdPtr) /\ Count = serBufUsed + 1 /\ Count' = serBufUsed
  BY <1>1 DEF First, Count, Bump
<1>3. /\ serRdPtr \in 0 .. SerSize - 1 /\ serBufUsed \in 0 .. SerSize - 1
  BY <1>1 DEF SerIInv, SerTypeOK, RxaOK
<1>4. /\ InRing \in Seq(Byte) /\ Len(InRing) = Count
      /\ \A i \in 1 .. Count : InRing[i] = serBuf[(First + i - 1) % SerSize]
  BY InRingSeq
<1>5. /\ InRing' \in Seq(Byte) /\ Len(InRing') = Count'
      /\ \A i \in 1 .. Count' : InRing'[i] = serBuf'[(First' + i - 1) % SerSize]
  <2>1. InRing' = [i \in 1 .. serBufUsed |-> serBuf[(Bump(serRdPtr) + i - 1) % SerSize]]
    BY <1>1 DEF InRing, Bump
  <2>2. serBuf \in [0 .. SerSize - 1 -> Byte]
    BY DEF SerIInv, SerTypeOK
  <2>3. Bump(serRdPtr) \in 0 .. SerSize - 1 /\ serBufUsed \in 0 .. SerSize
    BY <1>3, BumpIs
  <2> QED
    BY <1>1, <1>2, <2>1, <2>2, <2>3, RingSeq
<1> HIDE DEF First, Count
<1>6. InRing # <<>>
  BY <1>2, <1>3, <1>4
<1>7. got' = Head(InRing)
  <2>1. First + 1 - 1 = serRdPtr /\ serRdPtr % SerSize = serRdPtr
    BY <1>2, <1>3, SlotIs
  <2>2. Head(InRing) = InRing[1]
    BY <1>4, <1>6
  <2>3. InRing[1] = serBuf[(First + 1 - 1) % SerSize]
    BY <1>2, <1>3, <1>4
  <2> QED
    BY <1>1, <2>1, <2>2, <2>3
<1>8. InRing' = Tail(InRing)
  <2>1. /\ Tail(InRing) \in Seq(Byte) /\ Len(Tail(InRing)) = serBufUsed
        /\ \A i \in 1 .. serBufUsed : Tail(InRing)[i] = InRing[i + 1]
    BY <1>2, <1>3, <1>4, <1>6, HeadTailProperties
  <2>2. ASSUME NEW i \in 1 .. serBufUsed
        PROVE  InRing'[i] = Tail(InRing)[i]
    <3> DEFINE x == Bump(serRdPtr) + i - 1
               y == serRdPtr + (i + 1) - 1
    <3>1. Bump(serRdPtr) = IF serRdPtr + 1 = SerSize THEN 0 ELSE serRdPtr + 1
      BY <1>3, BumpIs
    <3>2. /\ x \in 0 .. 2 * SerSize - 1 /\ y \in 0 .. 2 * SerSize - 1
          /\ x = y \/ (x = y - SerSize /\ y >= SerSize /\ x < SerSize)
      BY <1>3, <3>1
    <3>3. InRing'[i] = serBuf[x % SerSize] /\ Tail(InRing)[i] = serBuf[y % SerSize]
      <4>1. InRing'[i] = serBuf[(Bump(serRdPtr) + i - 1) % SerSize]
        BY <1>1, <1>2, <1>5
      <4>2. Tail(InRing)[i] = serBuf[(serRdPtr + (i + 1) - 1) % SerSize]
        BY <1>2, <1>3, <1>4, <2>1
      <4> QED
        BY <4>1, <4>2
    <3> HIDE DEF x, y
    <3>4. /\ x % SerSize = IF x < SerSize THEN x ELSE x - SerSize
          /\ y % SerSize = IF y < SerSize THEN y ELSE y - SerSize
      BY <3>2, SlotIs
    <3>5. x % SerSize = y % SerSize
      BY <3>2, <3>4
    <3> QED
      BY <3>3, <3>5
  <2> QED
    BY <1>2, <1>5, <2>1, <2>2, SeqEqual
<1> QED
  BY <1>6, <1>7, <1>8

LEMMA SerInitRefines == SerInit => Driver!Init
<1> SUFFICES ASSUME SerInit PROVE AtAcia = <<>> /\ InRing = <<>>
  BY DEF SerInit, Driver!Init
<1>1. Pending = <<>>
  BY DEF SerInit, Init, Pending
<1>2. AtAcia = <<>>
  BY <1>1 DEF SerInit, AtAcia
<1>3. InRing = <<>>
  BY DEF SerInit, InRing
<1> QED
  BY <1>2, <1>3

\* A poll hands the ACIA at most one byte more.
LEMMA HostRefines ==
  ASSUME SerIInv, SerIInv', Host \/ SystemPoll
  PROVE  [Driver!Next]_(Driver!fifoVars)
<1>1. UNCHANGED <<pc, ringPtrs, hl, got, rx>>
  BY DEF Host, SystemPoll, guestVars, PollDone, HostTypes, Tick, PollKey, ringPtrs
<1>2. UNCHANGED <<InRing, got>>
  BY <1>1, RingKept DEF ringPtrs
<1>3. CASE UNCHANGED ringVars
  <2>1. UNCHANGED AtAcia
    BY <1>1, <1>3 DEF AtAcia, Pending, ringVars
  <2> QED
    BY <1>2, <2>1 DEF Driver!fifoVars
<1>4. CASE PollKey
  <2>1. Head(keys) \in Byte /\ QueueChar(Head(keys))
    <3>1. keys \in Seq(Byte)
      BY DEF SerIInv, SerTypeOK, TypeOK
    <3> QED
      BY <1>4, <3>1 DEF PollKey
  <2>2. Pending' = Append(Pending, Head(keys)) \/ Pending' = Pending
    BY <2>1, QueueCharAppends DEF SerIInv
  <2>3. Pending \in Seq(Byte)
    BY PendingSeq DEF SerIInv
  <2>4. CASE Pending' = Pending
    BY <1>1, <1>2, <2>4 DEF AtAcia, Driver!fifoVars
  <2>5. CASE Pending' = Append(Pending, Head(keys))
    <3>1. AtAcia' = Append(AtAcia, Head(keys))
      <4>1. CASE pc = "store"
        <5>1. rx \in Byte
          BY <4>1 DEF SerIInv, ByteRead
        <5>2. <<rx>> \o Append(Pending, Head(keys)) = Append(<<rx>> \o Pending, Head(keys))
          BY <2>1, <2>3, <5>1
        <5> QED
          BY <1>1, <2>5, <4>1, <5>2 DEF AtAcia
      <4>2. CASE pc # "store"
        <5>1. <<>> \o Append(Pending, Head(keys)) = Append(<<>> \o Pending, Head(keys))
          BY <2>1, <2>3
        <5> QED
          BY <1>1, <2>5, <4>2, <5>1 DEF AtAcia
      <4> QED
        BY <4>1, <4>2
    <3> QED
      BY <1>2, <2>1, <3>1 DEF Driver!Next, Driver!Type
  <2> QED
    BY <2>2, <2>4, <2>5
<1> QED
  BY <1>3, <1>4 DEF Host, SystemPoll, HostTypes, Tick, PollDone

\* The guest's instructions: only the store and the load of the byte show.
LEMMA GuestRefines ==
  ASSUME SerIInv, SerIInv', Interrupt \/ Instruction
  PROVE  [Driver!Next]_(Driver!fifoVars)
<1> USE DEF Driver!fifoVars
<1>1. ASSUME OtherInstruction PROVE UNCHANGED <<Pending, rx>>
  BY <1>1, OtherIsStutter DEF Pending
<1>2. CASE Interrupt
  <2>1. UNCHANGED AtAcia
    BY <1>1, <1>2 DEF Interrupt, AtAcia, SerIInv, ControlOK, Interruptible
  <2>2. UNCHANGED InRing
    BY <1>2, RingKept DEF Interrupt, ringPtrs, SerIInv, ControlOK, Interruptible
  <2> QED
    BY <1>2, <2>1, <2>2 DEF Interrupt
<1>3. CASE IntStatus \/ IntEi \/ IntReti
  <2>1. pc \in {"serialInt", "rts0", "reti"} /\ pc' \in {"data", "rts0", "reti"} \cup Interruptible
    <3>1. ASSUME IntReti PROVE pc = "reti" /\ pc' \in Interruptible
      BY <3>1, StackInv DEF IntReti, SerIInv, ControlOK, Interruptible
    <3> QED
      BY <1>3, <3>1 DEF IntStatus, IntEi
  <2>2. UNCHANGED AtAcia
    BY <1>1, <1>3, <2>1 DEF IntStatus, IntEi, IntReti, AtAcia, Interruptible
  <2>3. UNCHANGED InRing
    BY <1>3, <2>1, RingKept DEF IntStatus, IntEi, IntReti, ringPtrs, Interruptible
  <2> QED
    BY <1>3, <2>2, <2>3 DEF IntStatus, IntEi, IntReti
<1>4. CASE IntData
  <2>1. Dequeue /\ pc = "data" /\ pc' = "store"
    BY <1>4 DEF IntData, ReadData, SerIInv, DataStillThere
  <2>2. /\ Pending # <<>> /\ rx' = Head(Pending) /\ Pending' = Tail(Pending)
        /\ Pending \in Seq(Byte)
    BY <2>1, DequeueTakesHead, PendingSeq DEF SerIInv
  <2>3. <<Head(Pending)>> \o Tail(Pending) = <<>> \o Pending
    BY <2>2
  <2>4. UNCHANGED AtAcia
    BY <2>1, <2>2, <2>3 DEF AtAcia
  <2>5. UNCHANGED InRing
    BY <1>4, <2>1, RingKept DEF IntData, ringPtrs
  <2> QED
    BY <1>4, <2>4, <2>5 DEF IntData
<1>5. CASE IntStore
  <2>1. pc = "store" /\ pc' = "rts0" /\ Pending' = Pending /\ rx \in Byte /\ got' = got
    BY <1>1, <1>5 DEF IntStore, SerIInv, ByteRead
  <2>2. Pending \in Seq(Byte)
    BY PendingSeq DEF SerIInv
  <2>3. AtAcia = <<rx>> \o Pending /\ AtAcia' = <<>> \o Pending
    BY <2>1 DEF AtAcia
  <2>4. AtAcia # <<>> /\ Head(AtAcia) = rx /\ Tail(AtAcia) = AtAcia'
    BY <2>1, <2>2, <2>3
  <2>5. CASE serBufUsed = SerSize
    <3>1. InRing' = InRing
      BY <1>5, <2>1, <2>5, RingKept DEF IntStore, ringPtrs
    <3>2. Len(InRing) >= SerSize
      BY <2>1, <2>5, InRingSeq, SerialAssumption DEF Count
    <3>3. Driver!Take
      BY <2>1, <2>4, <3>1, <3>2 DEF Driver!Take
    <3> QED
      BY <3>3 DEF Driver!Next
  <2>6. CASE serBufUsed # SerSize
    <3>1. InRing' = Append(InRing, rx)
      BY <1>5, <2>6, StoreAppends
    <3>2. Driver!Take
      BY <2>1, <2>4, <3>1 DEF Driver!Take
    <3> QED
      BY <3>2 DEF Driver!Next
  <2> QED
    BY <2>5, <2>6
<1>6. CASE Basic \/ CallRxa \/ WaitForChar \/ RxDi \/ RxEi
  <2>1. {pc, pc'} \subseteq {"basic", "waitForChar", "notRdWrap", "load", "ei"}
    BY <1>6 DEF Basic, CallRxa, WaitForChar, RxDi, RxEi
  <2>2. UNCHANGED AtAcia
    BY <1>1, <1>6, <2>1 DEF Basic, CallRxa, WaitForChar, RxDi, RxEi, AtAcia
  <2>3. UNCHANGED InRing
    BY <1>6, <2>1, RingKept DEF Basic, CallRxa, WaitForChar, RxDi, RxEi, ringPtrs
  <2> QED
    BY <1>6, <2>2, <2>3 DEF Basic, CallRxa, WaitForChar, RxDi, RxEi
<1>7. CASE RxLoad \/ RxSave
  <2>1. UNCHANGED AtAcia
    BY <1>1, <1>7 DEF RxLoad, RxSave, AtAcia
  <2> QED
    BY <1>7, <2>1, RxaKeepsRing DEF RxLoad, RxSave
<1>8. CASE RxByte
  <2>1. UNCHANGED AtAcia
    BY <1>1, <1>8 DEF RxByte, AtAcia
  <2>2. Driver!Give
    BY <1>8, <2>1, RxByteTakesHead DEF Driver!Give
  <2> QED
    BY <2>2 DEF Driver!Next
<1> QED
  BY <1>2, <1>3, <1>4, <1>5, <1>6, <1>7, <1>8 DEF Instruction, SerialIsr, RXA

LEMMA SerNextRefines ==
  SerIInv /\ SerIInv' /\ [SerNext]_serVars => [Driver!Next]_(Driver!fifoVars)
<1>1. ASSUME UNCHANGED serVars PROVE UNCHANGED Driver!fifoVars
  BY <1>1 DEF serVars, vars, guestVars, Driver!fifoVars, AtAcia, Pending, InRing, Bump
<1> QED
  BY <1>1, HostRefines, GuestRefines DEF SerNext

(* BASIC's serial driver implements the FIFO of bytes: wherever interrupts *)
(* hit RXA, and however they nest, BASIC gets the bytes that the ACIA      *)
(* gave, in order, none twice, none made up, and none is dropped but when  *)
(* the ring is full (int32K.asm:70-131).                                   *)
THEOREM SerialDriverIsFifo == SerSpec => DriverIsFifo
<1>1. SerSpec => []SerIInv
  BY SerInitInv, SerNextInv, PTL DEF SerSpec
<1> QED
  BY <1>1, SerInitRefines, SerNextRefines, PTL DEF SerSpec, DriverIsFifo, Driver!Spec
=============================================================================
