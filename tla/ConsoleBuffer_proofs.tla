------------------------ MODULE ConsoleBuffer_proofs ------------------------
(***************************************************************************)
(* The console buffer's invariants, that it is a FIFO, and the rate at     *)
(* which it feeds the guest, for every size of the buffer, every burst     *)
(* length and every pause.                                                 *)
(***************************************************************************)
EXTENDS ConsoleRate, SequenceTheorems, TLAPS

IInv == TypeOK /\ IndexOK

(* Queueing a byte keeps the indices in order and the slots typed.         *)
LEMMA QueueCharInv ==
  ASSUME IInv, NEW c \in Byte, QueueChar(c)
  PROVE  /\ intbuffer' \in [Slots -> Byte]
         /\ bs' \in 0 .. Size
         /\ be' \in 0 .. Size
         /\ IndexOK'
  BY ConsoleAssumption
     DEF IInv, TypeOK, IndexOK, QueueChar, WriteSlot, Slots

(* Taking a byte out keeps the indices in order; the byte is one that was  *)
(* queued.                                                                 *)
LEMMA DequeueInv ==
  ASSUME IInv, Dequeue
  PROVE  /\ bs' \in 0 .. Size
         /\ be' \in 0 .. Size
         /\ IndexOK'
         /\ rx' \in Byte
  BY ConsoleAssumption DEF IInv, TypeOK, IndexOK, Dequeue, Slots

LEMMA InitInv == Init => IInv
  BY ConsoleAssumption DEF Init, IInv, TypeOK, IndexOK, Slots

LEMMA NextInv == IInv /\ [Next]_vars => IInv'
<1> SUFFICES ASSUME IInv, [Next]_vars PROVE IInv'
  OBVIOUS
<1> USE ConsoleAssumption
<1>1. ASSUME NEW c \in Byte, HostTypes(c) PROVE IInv'
  BY <1>1 DEF HostTypes, IInv, TypeOK, IndexOK, ringVars, throttle
<1>2. CASE Tick
  BY <1>2 DEF Tick, IInv, TypeOK, IndexOK, ringVars
<1>3. CASE PollKey
  <2>1. Head(keys) \in Byte /\ Tail(keys) \in Seq(Byte)
    BY <1>3 DEF PollKey, IInv, TypeOK
  <2>2. QueueChar(Head(keys))
    BY <1>3 DEF PollKey
  <2>3. /\ intbuffer' \in [Slots -> Byte]
        /\ bs' \in 0 .. Size
        /\ be' \in 0 .. Size
        /\ IndexOK'
    BY <2>1, <2>2, QueueCharInv
  <2>4. QED
    BY <1>3, <2>1, <2>3 DEF PollKey, IInv, TypeOK, throttle
<1>4. CASE PollDone
  BY <1>4 DEF PollDone, IInv, TypeOK, IndexOK, ringVars, throttle
<1>5. CASE ReadData
  <2>1. CASE Available /\ Dequeue /\ CountByte
    <3>1. /\ bs' \in 0 .. Size
          /\ be' \in 0 .. Size
          /\ IndexOK'
          /\ rx' \in Byte
      BY <2>1, DequeueInv
    <3>2. pause' \in -1 .. ThrottleMS /\ burst' \in 0 .. BurstCount + 1
      BY <2>1 DEF CountByte, IInv, TypeOK
    <3>3. QED
      BY <1>5, <2>1, <3>1, <3>2 DEF ReadData, Dequeue, IInv, TypeOK
  <2>2. CASE rx' = NoByte /\ UNCHANGED <<ringVars, throttle>>
    BY <1>5, <2>2 DEF ReadData, IInv, TypeOK, IndexOK, ringVars, throttle
  <2>3. QED
    BY <1>5, <2>1, <2>2 DEF ReadData
<1>6. CASE OtherInstruction
  BY <1>6 DEF OtherInstruction, IInv, TypeOK, IndexOK, ringVars, throttle
<1>7. CASE UNCHANGED vars
  BY <1>7 DEF vars, IInv, TypeOK, IndexOK
<1>8. QED
  BY <1>1, <1>2, <1>3, <1>4, <1>5, <1>6, <1>7 DEF Next

(* Type correctness of the console buffer.                                 *)
THEOREM TypeCorrect == Spec => []TypeOK
<1>1. IInv => TypeOK
  BY DEF IInv
<1>2. QED
  BY <1>1, InitInv, NextInv, PTL DEF Spec

(* The indices enclose the waiting bytes and a drained buffer is back at   *)
(* slot 0: no byte is ever read from a slot that was not written.          *)
THEOREM IndicesInOrder == Spec => []IndexOK
<1>1. IInv => IndexOK
  BY DEF IInv
<1>2. QED
  BY <1>1, InitInv, NextInv, PTL DEF Spec

-----------------------------------------------------------------------------
(* The bytes in the slots from first to last - 1 form a sequence.          *)
LEMMA SlotsSeq ==
  ASSUME NEW buf \in [Slots -> Byte],
         NEW first \in 0 .. Size, NEW last \in 0 .. Size, first <= last
  PROVE  LET s == [i \in 1 .. last - first |-> buf[first + i - 1]]
         IN  /\ s \in Seq(Byte)
             /\ Len(s) = last - first
             /\ \A i \in 1 .. last - first : s[i] = buf[first + i - 1]
<1>1. last - first \in Nat
  BY ConsoleAssumption
<1>2. \A i \in 1 .. last - first : buf[first + i - 1] \in Byte
  BY ConsoleAssumption DEF Slots
<1>3. QED
  BY <1>1, <1>2

(* The bytes that wait are a sequence of be - bs bytes.                    *)
LEMMA PendingSeq ==
  ASSUME IInv
  PROVE  /\ Pending \in Seq(Byte)
         /\ Len(Pending) = be - bs
         /\ \A i \in 1 .. be - bs : Pending[i] = intbuffer[bs + i - 1]
<1>1. bs <= be
  BY ConsoleAssumption DEF IInv, TypeOK, IndexOK
<1>2. QED
  BY <1>1, SlotsSeq DEF IInv, TypeOK, Pending

LEMMA PendingSeqNext ==
  ASSUME IInv'
  PROVE  /\ Pending' \in Seq(Byte)
         /\ Len(Pending') = be' - bs'
         /\ \A i \in 1 .. be' - bs' : Pending'[i] = intbuffer'[bs' + i - 1]
<1>1. bs' <= be'
  BY ConsoleAssumption DEF IInv, TypeOK, IndexOK
<1>2. QED
  BY <1>1, SlotsSeq DEF IInv, TypeOK, Pending

(* A queued byte is the newest that waits, or, with the array used up to   *)
(* its end, it is refused.                                                 *)
LEMMA QueueCharAppends ==
  ASSUME IInv, IInv', NEW c \in Byte, QueueChar(c)
  PROVE  \/ Pending' = Append(Pending, c)
         \/ Len(Pending) >= 1 /\ Pending' = Pending
<1> USE ConsoleAssumption
<1>1. /\ Pending \in Seq(Byte)
      /\ Len(Pending) = be - bs
      /\ \A i \in 1 .. be - bs : Pending[i] = intbuffer[bs + i - 1]
  BY PendingSeq
<1>2. /\ Pending' \in Seq(Byte)
      /\ Len(Pending') = be' - bs'
      /\ \A i \in 1 .. be' - bs' : Pending'[i] = intbuffer'[bs' + i - 1]
  BY PendingSeqNext
<1>3. CASE WriteSlot < Size
  <2>1. be' - bs' = be - bs + 1
    BY <1>3 DEF QueueChar, WriteSlot, IInv, TypeOK, IndexOK
  <2>2. \A i \in 1 .. be - bs : intbuffer'[bs' + i - 1] = intbuffer[bs + i - 1]
    BY <1>3 DEF QueueChar, WriteSlot, IInv, TypeOK, IndexOK, Slots
  <2>3. intbuffer'[bs' + (be - bs + 1) - 1] = c
    BY <1>3 DEF QueueChar, WriteSlot, IInv, TypeOK, IndexOK, Slots
  <2>4. /\ Append(Pending, c) \in Seq(Byte)
        /\ Len(Append(Pending, c)) = be - bs + 1
        /\ \A i \in 1 .. be - bs : Append(Pending, c)[i] = Pending[i]
        /\ Append(Pending, c)[be - bs + 1] = c
    BY <1>1
  <2>5. ASSUME NEW i \in 1 .. be - bs + 1
        PROVE  Pending'[i] = Append(Pending, c)[i]
    <3>1. Pending'[i] = intbuffer'[bs' + i - 1]
      BY <1>2, <2>1
    <3>2. CASE i = be - bs + 1
      BY <3>1, <3>2, <2>3, <2>4
    <3>3. CASE i # be - bs + 1
      <4>1. i \in 1 .. be - bs
        BY <3>3 DEF IInv, TypeOK
      <4>2. QED
        BY <4>1, <3>1, <1>1, <2>2, <2>4
    <3>4. QED
      BY <3>2, <3>3
  <2>6. Pending' = Append(Pending, c)
    BY <1>2, <2>1, <2>4, <2>5, SeqEqual
  <2>7. QED
    BY <2>6
<1>4. CASE ~(WriteSlot < Size)
  <2>1. be' = be /\ bs' = bs /\ be = Size /\ bs < be
    BY <1>4 DEF QueueChar, WriteSlot, IInv, TypeOK, IndexOK
  <2>2. \A i \in 1 .. be - bs : intbuffer'[bs + i - 1] = intbuffer[bs + i - 1]
    BY <1>4, <2>1 DEF QueueChar, WriteSlot, IInv, TypeOK, Slots
  <2>3. Pending' = Pending
    <3>1. Len(Pending') = Len(Pending)
      BY <1>1, <1>2, <2>1
    <3>2. \A i \in 1 .. Len(Pending) : Pending'[i] = Pending[i]
      BY <1>1, <1>2, <2>1, <2>2
    <3> QED BY <1>1, <1>2, <3>1, <3>2, SeqEqual
  <2>4. Len(Pending) >= 1
    BY <1>1, <2>1 DEF IInv, TypeOK
  <2>5. QED
    BY <2>3, <2>4
<1>5. QED
  BY <1>3, <1>4

(* A byte taken out is the oldest that waits.                              *)
LEMMA DequeueTakesHead ==
  ASSUME IInv, IInv', Dequeue
  PROVE  /\ Pending # <<>>
         /\ rx' = Head(Pending)
         /\ Pending' = Tail(Pending)
<1> USE ConsoleAssumption
<1>1. /\ Pending \in Seq(Byte)
      /\ Len(Pending) = be - bs
      /\ \A i \in 1 .. be - bs : Pending[i] = intbuffer[bs + i - 1]
  BY PendingSeq
<1>2. /\ Pending' \in Seq(Byte)
      /\ Len(Pending') = be' - bs'
      /\ \A i \in 1 .. be' - bs' : Pending'[i] = intbuffer'[bs' + i - 1]
  BY PendingSeqNext
<1>3. bs < be
  BY DEF Dequeue, IInv, TypeOK, IndexOK
<1>4. Pending # <<>>
  BY <1>1, <1>3 DEF IInv, TypeOK
<1>5. rx' = Head(Pending)
  <2>1. Head(Pending) = Pending[1]
    BY <1>1, <1>4
  <2>2. Pending[1] = intbuffer[bs]
    BY <1>1, <1>3 DEF IInv, TypeOK
  <2>3. QED
    BY <2>1, <2>2 DEF Dequeue
<1>6. Pending' = Tail(Pending)
  <2>1. /\ Tail(Pending) \in Seq(Byte)
        /\ Len(Tail(Pending)) = be - bs - 1
        /\ \A i \in 1 .. be - bs - 1 : Tail(Pending)[i] = Pending[i + 1]
    BY <1>1, <1>4, HeadTailProperties
  <2> bs \in Int /\ be \in Int
    BY DEF IInv, TypeOK
  <2>0. \/ bs' = 0 /\ be' = 0 /\ be = bs + 1
        \/ bs' = bs + 1 /\ be' = be
    BY DEF Dequeue
  <2>2. be' - bs' = be - bs - 1
    BY <2>0
  <2>3. \A i \in 1 .. be - bs - 1 : intbuffer'[bs' + i - 1] = intbuffer[bs + i]
    BY <2>0 DEF Dequeue
  <2>4. \A i \in 1 .. be - bs - 1 : Pending[i + 1] = intbuffer[bs + i]
    BY <1>1, <1>3 DEF IInv, TypeOK
  <2>5. \A i \in 1 .. be - bs - 1 : Pending'[i] = Tail(Pending)[i]
    BY <1>2, <2>1, <2>2, <2>3, <2>4 DEF IInv, TypeOK
  <2>6. QED
    BY <1>2, <2>1, <2>2, <2>5, SeqEqual
<1>7. QED
  BY <1>4, <1>5, <1>6

-----------------------------------------------------------------------------
LEMMA InitRefines == Init => Fifo!Init
<1>1. SUFFICES ASSUME Init PROVE Pending = <<>>
  BY DEF Init, Fifo!Init
<1>2. QED
  BY <1>1 DEF Init, Pending

LEMMA NextRefines ==
  IInv /\ IInv' /\ [Next]_vars => [Fifo!Next]_(Fifo!fifoVars)
<1> SUFFICES ASSUME IInv, IInv', [Next]_vars
             PROVE  [Fifo!Next]_(Fifo!fifoVars)
  OBVIOUS
<1> USE DEF Fifo!Next, Fifo!fifoVars
<1>1. ASSUME NEW c \in Byte, HostTypes(c) PROVE Fifo!Next
  BY <1>1 DEF HostTypes, Fifo!Type, Pending, ringVars
<1>2. CASE Tick
  BY <1>2 DEF Tick, Pending, ringVars
<1>3. CASE PollKey
  <2>1. Head(keys) \in Byte
    BY <1>3 DEF PollKey, IInv, TypeOK
  <2>2. QueueChar(Head(keys))
    BY <1>3 DEF PollKey
  <2>3. \/ Pending' = Append(Pending, Head(keys))
        \/ Len(Pending) >= 1 /\ Pending' = Pending
    BY <2>1, <2>2, QueueCharAppends
  <2>4. Fifo!Take
    BY <1>3, <2>3 DEF PollKey, Fifo!Take
  <2>5. QED
    BY <2>4
<1>4. CASE PollDone
  BY <1>4 DEF PollDone, Pending, ringVars
<1>5. CASE ReadData
  <2>1. CASE Available /\ Dequeue /\ CountByte
    <3>1. Fifo!Give
      BY <1>5, <2>1, DequeueTakesHead DEF ReadData, Fifo!Give
    <3>2. QED
      BY <3>1
  <2>2. CASE rx' = NoByte /\ UNCHANGED <<ringVars, throttle>>
    <3>1. Fifo!GiveNothing
      BY <1>5, <2>2 DEF ReadData, Fifo!GiveNothing, Pending, ringVars
    <3>2. QED
      BY <3>1
  <2>3. QED
    BY <1>5, <2>1, <2>2 DEF ReadData
<1>6. CASE OtherInstruction
  BY <1>6 DEF OtherInstruction, Pending, ringVars
<1>7. CASE UNCHANGED vars
  BY <1>7 DEF vars, Pending
<1>8. QED
  BY <1>1, <1>2, <1>3, <1>4, <1>5, <1>6, <1>7 DEF Next

(* The console buffer implements the FIFO of bytes: what the guest reads   *)
(* is what the host typed, in order, without duplicates or inventions, and *)
(* a byte is refused only while others wait.                               *)
THEOREM BufferIsFifo == Spec => ImplementsFifo
<1>1. Spec => []IInv
  BY InitInv, NextInv, PTL DEF Spec
<1>2. QED
  BY <1>1, InitRefines, NextRefines, PTL DEF Spec, ImplementsFifo, Fifo!Spec
-----------------------------------------------------------------------------
(* The rate.                                                               *)

Long == ThrottleMS + 1     \* the age at which a read is not counted further

(* While the throttle lets bytes through, all reads but those of the burst *)
(* are longer ago than the pause.  While it does not, the clock and the    *)
(* ages go together, and all reads are that old but those of the burst     *)
(* that made it strike, at most BurstCount + 2.                            *)
AgesOK ==
  /\ ages \in Seq(0 .. Long) /\ Len(ages) <= Window
  /\ pause < 0  => \A i \in 1 .. Len(ages) - burst : ages[i] = Long
  /\ pause >= 0 => /\ burst = 1
                   /\ \A i \in 1 .. Len(ages) - (BurstCount + 2) : ages[i] = Long
                   /\ \A i \in 1 .. Len(ages) : ages[i] >= ThrottleMS - pause

RateInv == IInv /\ AgesOK

\* What the clock does to the ages.
LEMMA OlderIs ==
  ASSUME NEW s \in Seq(0 .. Long)
  PROVE  /\ Older(s) \in Seq(0 .. Long)
         /\ Len(Older(s)) = Len(s)
         /\ \A i \in 1 .. Len(s) : Older(s)[i] = IF s[i] = Long THEN Long ELSE s[i] + 1
<1>1. \A i \in 1 .. Len(s) : s[i] \in 0 .. Long
  BY ElementOfSeq
<1>2. Older(s) = [i \in 1 .. Len(s) |-> IF s[i] > ThrottleMS THEN s[i] ELSE s[i] + 1]
  BY DEF Older
<1>3. \A i \in 1 .. Len(s) :
        (IF s[i] > ThrottleMS THEN s[i] ELSE s[i] + 1) \in 0 .. Long
  BY <1>1, ConsoleAssumption DEF Long
<1>4. Older(s) \in Seq(0 .. Long) /\ Len(Older(s)) = Len(s)
  BY <1>2, <1>3
<1>5. \A i \in 1 .. Len(s) : Older(s)[i] = IF s[i] = Long THEN Long ELSE s[i] + 1
  BY <1>1, <1>2, ConsoleAssumption DEF Long
<1> QED
  BY <1>4, <1>5

\* What a read does to the record: the last age is 0, the others move up when
\* it is full.
LEMMA RememberIs ==
  ASSUME NEW s \in Seq(0 .. Long), Len(s) <= Window
  PROVE  /\ Remember(s) \in Seq(0 .. Long)
         /\ Len(s) < Window => /\ Len(Remember(s)) = Len(s) + 1
                               /\ \A i \in 1 .. Len(s) : Remember(s)[i] = s[i]
         /\ Len(s) = Window => /\ Len(Remember(s)) = Window
                               /\ \A i \in 1 .. Window - 1 : Remember(s)[i] = s[i + 1]
<1> USE ConsoleAssumption DEF Window
<1>0. 0 \in 0 .. Long
  BY DEF Long
<1>1. CASE Len(s) < Window
  <2>1. Remember(s) = Append(s, 0)
    BY <1>1 DEF Remember
  <2> QED
    BY <1>0, <1>1, <2>1, AppendProperties
<1>2. CASE Len(s) = Window
  <2>1. Remember(s) = Append(Tail(s), 0)
    BY <1>2 DEF Remember
  <2>2. s # <<>>
    BY <1>2
  <2>3. /\ Tail(s) \in Seq(0 .. Long) /\ Len(Tail(s)) = Window - 1
        /\ \A i \in 1 .. Window - 1 : Tail(s)[i] = s[i + 1]
    BY <1>2, <2>2, HeadTailProperties
  <2>4. /\ Append(Tail(s), 0) \in Seq(0 .. Long)
        /\ Len(Append(Tail(s), 0)) = Window - 1 + 1
        /\ \A i \in 1 .. Window - 1 : Append(Tail(s), 0)[i] = Tail(s)[i]
    BY <1>0, <2>3, AppendProperties
  <2> QED
    BY <1>2, <2>1, <2>3, <2>4
<1> QED
  BY <1>1, <1>2

\* The clock ticks only during a pause, and at its end all reads are old.
LEMMA TickAges ==
  ASSUME RateInv, Tick, ages' = Older(ages)
  PROVE  AgesOK'
<1> USE ConsoleAssumption DEF Long
<1>1. pause \in 0 .. ThrottleMS /\ pause' = pause - 1 /\ burst' = burst /\ burst = 1
  BY DEF Tick, RateInv, IInv, TypeOK, AgesOK
<1>2. /\ ages \in Seq(0 .. Long) /\ Len(ages) <= Window
      /\ \A i \in 1 .. Len(ages) - (BurstCount + 2) : ages[i] = Long
      /\ \A i \in 1 .. Len(ages) : ages[i] >= ThrottleMS - pause /\ ages[i] \in 0 .. Long
  BY <1>1 DEF RateInv, AgesOK
<1>3. /\ ages' \in Seq(0 .. Long) /\ Len(ages') = Len(ages)
      /\ \A i \in 1 .. Len(ages) : ages'[i] = IF ages[i] = Long THEN Long ELSE ages[i] + 1
  BY <1>2, OlderIs
<1>4. \A i \in 1 .. Len(ages) - (BurstCount + 2) : ages'[i] = Long
  BY <1>2, <1>3
<1>5. \A i \in 1 .. Len(ages) : ages'[i] >= ThrottleMS - pause' /\ ages'[i] \in 0 .. Long
  BY <1>1, <1>2, <1>3
<1>6. pause' < 0 => \A i \in 1 .. Len(ages) : ages'[i] = Long
  BY <1>1, <1>5
<1>7. pause' < 0 => \A i \in 1 .. Len(ages') - burst' : ages'[i] = Long
  BY <1>1, <1>2, <1>3, <1>6
<1> QED
  BY <1>1, <1>2, <1>3, <1>4, <1>5, <1>7 DEF AgesOK, Window

\* A read is part of the burst, and the one that the throttle strikes at is
\* the last of BurstCount + 2.
LEMMA ReadAges ==
  ASSUME RateInv, Available, CountByte, ages' = Remember(ages)
  PROVE  AgesOK'
<1> USE ConsoleAssumption DEF Long, Window
<1>1. pause < 0 /\ pause \in Int /\ burst \in 0 .. BurstCount + 1
  BY DEF Available, RateInv, IInv, TypeOK
<1>2. /\ ages \in Seq(0 .. Long) /\ Len(ages) <= Window
      /\ \A i \in 1 .. Len(ages) - burst : ages[i] = Long
  BY <1>1 DEF RateInv, AgesOK
<1>3. /\ ages' \in Seq(0 .. Long)
      /\ Len(ages) < Window => /\ Len(ages') = Len(ages) + 1
                               /\ \A i \in 1 .. Len(ages) : ages'[i] = ages[i]
      /\ Len(ages) = Window => /\ Len(ages') = Window
                               /\ \A i \in 1 .. Window - 1 : ages'[i] = ages[i + 1]
  BY <1>2, RememberIs
<1>4. Len(ages') <= Window
  BY <1>2, <1>3
<1>5. \A i \in 1 .. Len(ages') - (burst + 1) : ages'[i] = Long
  <2> SUFFICES ASSUME NEW i \in 1 .. Len(ages') - (burst + 1) PROVE ages'[i] = Long
    OBVIOUS
  <2>1. CASE Len(ages) < Window
    <3>1. i \in 1 .. Len(ages) - burst /\ i \in 1 .. Len(ages) /\ ages'[i] = ages[i]
      BY <1>1, <1>2, <1>3, <2>1
    <3> QED
      BY <1>2, <3>1
  <2>2. CASE Len(ages) = Window
    <3>1. i + 1 \in 1 .. Len(ages) - burst /\ ages'[i] = ages[i + 1]
      BY <1>1, <1>2, <1>3, <2>2
    <3> QED
      BY <1>2, <3>1
  <2> QED
    BY <1>2, <2>1, <2>2
<1>6. CASE burst > BurstCount
  <2>1. pause' = ThrottleMS /\ burst' = 1 /\ burst + 1 = BurstCount + 2
    BY <1>1, <1>6 DEF CountByte
  <2>2. \A i \in 1 .. Len(ages') : ages'[i] >= ThrottleMS - pause'
    BY <1>3, <2>1
  <2> QED
    BY <1>3, <1>4, <1>5, <2>1, <2>2 DEF AgesOK
<1>7. CASE ~(burst > BurstCount)
  <2>1. pause' = pause /\ burst' = burst + 1
    BY <1>1, <1>7 DEF CountByte
  <2> QED
    BY <1>1, <1>3, <1>4, <1>5, <2>1 DEF AgesOK
<1> QED
  BY <1>6, <1>7

LEMMA RateInvNext == RateInv /\ [RateNext]_<<vars, ages>> => RateInv'
<1> SUFFICES ASSUME RateInv, [RateNext]_<<vars, ages>> PROVE RateInv'
  OBVIOUS
<1> USE DEF RateInv
<1>1. [Next]_vars
  BY DEF RateNext
<1>2. IInv'
  BY <1>1, NextInv
<1>3. pause \in Int
  BY DEF IInv, TypeOK
<1>4. ASSUME UNCHANGED <<throttle, ages>> PROVE AgesOK'
  BY <1>4 DEF AgesOK, throttle
<1>5. CASE UNCHANGED <<vars, ages>>
  BY <1>2, <1>4, <1>5 DEF vars, throttle
<1>6. ASSUME RateNext, UNCHANGED throttle, ~GotByte
      PROVE  UNCHANGED ages
  BY <1>3, <1>6 DEF RateNext, throttle
<1>7. CASE RateNext /\ Tick
  <2>1. ages' = Older(ages)
    BY <1>3, <1>7 DEF RateNext, Tick
  <2> QED
    BY <1>2, <1>7, <2>1, TickAges
<1>8. CASE RateNext /\ (PollKey \/ PollDone \/ OtherInstruction \/ \E c \in Byte : HostTypes(c))
  <2>1. UNCHANGED throttle /\ ~GotByte
    BY <1>8 DEF PollKey, PollDone, OtherInstruction, HostTypes, GotByte, ringVars
  <2> QED
    BY <1>2, <1>4, <1>6, <1>8, <2>1
<1>9. CASE RateNext /\ ReadData
  <2>1. CASE Available /\ Dequeue /\ CountByte
    <3>1. GotByte
      BY <1>9, <2>1 DEF ReadData, GotByte, Dequeue, IInv, TypeOK, IndexOK
    <3>2. ~(pause' < pause)
      BY <2>1, ConsoleAssumption DEF CountByte, Available, IInv, TypeOK
    <3>3. ages' = Remember(ages)
      BY <1>9, <3>1, <3>2 DEF RateNext
    <3> QED
      BY <1>2, <2>1, <3>3, ReadAges
  <2>2. CASE UNCHANGED <<ringVars, throttle>>
    <3>1. ~GotByte
      BY <2>2 DEF GotByte, ringVars
    <3> QED
      BY <1>2, <1>4, <1>6, <1>9, <2>2, <3>1
  <2> QED
    BY <1>9, <2>1, <2>2 DEF ReadData
<1> QED
  BY <1>5, <1>7, <1>8, <1>9 DEF RateNext, Next

(* Of any kBurstCount + 3 bytes in a row the guest never gets the first    *)
(* and the last within kThrottleMS milliseconds, whatever the burst length *)
(* and the pause are and whenever it reads (mc6850_console.c:203-218).     *)
THEOREM RateIsBounded == RateSpec => []RateBound
<1>1. RateInit => RateInv
  <2>1. ASSUME RateInit PROVE AgesOK
    <3>1. ages = <<>> /\ pause = -1
      BY <2>1 DEF RateInit, Init
    <3>2. <<>> \in Seq(0 .. Long) /\ Len(<<>>) = 0
      OBVIOUS
    <3>3. burst = 0
      BY <2>1 DEF RateInit, Init
    <3> QED
      BY <3>1, <3>2, <3>3, ConsoleAssumption DEF AgesOK, Window
  <2> QED
    BY <2>1, InitInv DEF RateInit, RateInv
<1>2. RateInv => RateBound
  <2> SUFFICES ASSUME RateInv, Len(ages) = Window PROVE ages[1] = Long
    BY ConsoleAssumption DEF RateBound, Long
  <2>1. burst \in 0 .. BurstCount + 1 /\ pause \in Int
    BY DEF RateInv, IInv, TypeOK
  <2>2. CASE pause < 0
    <3>1. 1 \in 1 .. Len(ages) - burst
      BY <2>1, ConsoleAssumption DEF Window
    <3> QED
      BY <2>2, <3>1 DEF RateInv, AgesOK
  <2>3. CASE pause >= 0
    <3>1. 1 \in 1 .. Len(ages) - (BurstCount + 2)
      BY ConsoleAssumption DEF Window
    <3> QED
      BY <2>3, <3>1 DEF RateInv, AgesOK
  <2> QED
    BY <2>1, <2>2, <2>3
<1> QED
  BY <1>1, <1>2, RateInvNext, PTL DEF RateSpec
=============================================================================
