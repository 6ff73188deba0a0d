------------------------ MODULE CpmMachine_proofs ------------------------
(***************************************************************************)
(* A call of the BIOS reaches it, whatever the user and the host do; the   *)
(* drives, the host's files and what the BIOS keeps about them keep their  *)
(* types and lengths, also where the host fails late; the drives are discs *)
(* of sectors; a floppy of makedisc is read as it was written; and GETUNIX *)
(* and PUTUNIX copy their files whole.  For every program, every set of    *)
(* discs and files and every size of a sector.                             *)
(***************************************************************************)
EXTENDS CpmMachine, FiniteSetTheorems, SequenceTheorems, WellFoundedInduction, TLAPS

(* A call that no SIGINT has come to since, and that is not served yet, is *)
(* on its way: EVENT is still up, or haltcpu is already behind the signal. *)
CallOnItsWay ==
  syscall /\ ~broke =>
    /\ ~sig
    /\ \/ phase = "top" /\ event
       \/ phase = "serve"
       \/ phase = "prompt" /\ resume = "serve"
       \/ phase = "crashed"

LEMMA EmulatorKeepsCall ==
  ASSUME CallOnItsWay, Emulator
  PROVE  CallOnItsWay'
<1> USE DEF CallOnItsWay
<1>1. CASE PowerOn
  BY <1>1 DEF PowerOn, Remembers
<1>2. CASE Execute
  BY <1>2 DEF Execute, history
<1>3. CASE SignalStops
  BY <1>3 DEF SignalStops, history
<1>4. CASE Traced
  BY <1>4 DEF Traced, history
<1>5. CASE NothingToServe
  BY <1>5 DEF NothingToServe, history
<1>6. CASE Serve
  BY <1>6 DEF Serve, Remembers
<1>7. CASE WildFile
  BY <1>7 DEF WildFile, history
<1> QED
  BY <1>1, <1>2, <1>3, <1>4, <1>5, <1>6, <1>7 DEF Emulator

LEMMA UserKeepsCall ==
  ASSUME CallOnItsWay, User
  PROVE  CallOnItsWay'
<1> USE DEF CallOnItsWay
<1>1. CASE Break
  BY <1>1 DEF Break
<1>2. CASE PromptBoot
  BY <1>2 DEF PromptBoot, Remembers
<1>3. CASE PromptTrace \/ PromptStep
  BY <1>3 DEF PromptTrace, PromptStep, history
<1>4. CASE PromptGo
  BY <1>4 DEF PromptGo, history
<1> QED
  BY <1>1, <1>2, <1>3, <1>4 DEF User

LEMMA ProgramKeepsCall ==
  ASSUME CallOnItsWay, Program
  PROVE  CallOnItsWay'
<1> USE DEF CallOnItsWay
<1>1. ASSUME NEW calls, Starts(calls) PROVE CallOnItsWay'
  BY <1>1 DEF Starts, history
<1>2. CASE StartAccess \/ StartRaw \/ StartRestart \/ StartGetunix \/ StartPutunix
  BY <1>1, <1>2 DEF StartAccess, StartRaw, StartRestart, StartGetunix, StartPutunix
<1>3. CASE GuestCall
  BY <1>3 DEF GuestCall
<1>4. CASE GuestReturn
  BY <1>4 DEF GuestReturn, history
<1> QED
  BY <1>2, <1>3, <1>4 DEF Program

LEMMA NextKeepsCall == CallOnItsWay /\ [Next]_vars => CallOnItsWay'
<1>1. ASSUME CallOnItsWay, UNCHANGED vars PROVE CallOnItsWay'
  BY <1>1 DEF CallOnItsWay, vars, emulator, history
<1> QED
  BY <1>1, EmulatorKeepsCall, UserKeepsCall, ProgramKeepsCall DEF Next

(* The program goes on with a call that was not served only if a SIGINT    *)
(* came since its OUT: tracing, single steps and the prompt's commands     *)
(* never take one away (main.c, haltcpu: "done here so tracing still       *)
(* works").                                                                *)
THEOREM CallsAreServed == Spec => ServedUnlessBroken
<1>1. Init => CallOnItsWay
  BY DEF Init, CallOnItsWay
<1>2. CallOnItsWay /\ [Next]_vars => CallOnItsWay'
  BY NextKeepsCall
<1>3. CallOnItsWay /\ [Next]_vars => [GuestReturn => ~syscall \/ broke]_vars
  BY DEF CallOnItsWay, GuestReturn
<1> QED
  BY <1>1, <1>2, <1>3, PTL DEF Spec, ServedUnlessBroken

-----------------------------------------------------------------------------
(* Whole sectors, and what fwrite makes of a file.                         *)

Whole(n) == (n \div SectorSize) * SectorSize

\* n units are whole sectors.
IsWhole(n) == \E k \in Nat : n = k * SectorSize

LEMMA SectorsInOrder ==
  ASSUME NEW k \in Int, NEW l \in Int, k < l
  PROVE  k * SectorSize + SectorSize <= l * SectorSize
<1>1. (l - k - 1) * SectorSize >= 0
  BY BiosAssumption
<1>2. l * SectorSize = (k * SectorSize + SectorSize) + (l - k - 1) * SectorSize
  BY BiosAssumption
<1>3. k * SectorSize \in Int /\ l * SectorSize \in Int /\ (l - k - 1) * SectorSize \in Int
  BY BiosAssumption
<1> QED
  BY <1>1, <1>2, <1>3, BiosAssumption

LEMMA WholeIs ==
  ASSUME NEW n \in Nat
  PROVE  /\ Whole(n) \in Nat /\ IsWhole(Whole(n))
         /\ Whole(n) <= n /\ n < Whole(n) + SectorSize
<1>1. /\ n \div SectorSize \in Nat
      /\ n = SectorSize * (n \div SectorSize) + (n % SectorSize)
      /\ n % SectorSize \in 0 .. SectorSize - 1
  BY BiosAssumption
<1>2. (n \div SectorSize) * SectorSize \in Nat
  BY <1>1, BiosAssumption
<1>3. IsWhole(Whole(n))
  BY <1>1 DEF Whole, IsWhole
<1>4. SectorSize * (n \div SectorSize) = Whole(n)
  BY <1>1, BiosAssumption DEF Whole
<1>5. Whole(n) \in Nat /\ n = Whole(n) + (n % SectorSize)
  BY <1>1, <1>2, <1>4 DEF Whole
<1> QED
  BY <1>1, <1>3, <1>5, BiosAssumption

LEMMA WholeUnique ==
  ASSUME NEW n \in Nat, NEW m \in Nat, IsWhole(m), m <= n, n < m + SectorSize
  PROVE  Whole(n) = m
<1>1. PICK k \in Nat : m = k * SectorSize
  BY DEF IsWhole
<1>2. PICK l \in Nat : Whole(n) = l * SectorSize
  BY WholeIs DEF IsWhole
<1>3. /\ Whole(n) \in Nat /\ Whole(n) <= n /\ n < Whole(n) + SectorSize
      /\ SectorSize \in Nat
  BY WholeIs, BiosAssumption
<1>4. ~(k < l)
  BY <1>1, <1>2, <1>3, SectorsInOrder
<1>5. ~(l < k)
  BY <1>1, <1>2, <1>3, SectorsInOrder
<1> QED
  BY <1>1, <1>2, <1>4, <1>5

LEMMA WholeApart ==
  ASSUME NEW m \in Nat, NEW n \in Nat, IsWhole(m), IsWhole(n), m < n
  PROVE  m + SectorSize <= n
<1>1. PICK k \in Nat : m = k * SectorSize
  BY DEF IsWhole
<1>2. PICK l \in Nat : n = l * SectorSize
  BY DEF IsWhole
<1>3. CASE k < l
  BY <1>1, <1>2, <1>3, SectorsInOrder
<1>4. CASE l < k
  BY <1>1, <1>2, <1>4, SectorsInOrder, BiosAssumption
<1> QED
  BY <1>1, <1>2, <1>3, <1>4

LEMMA WholeSum ==
  ASSUME NEW m \in Nat, NEW n \in Nat, IsWhole(m)
  PROVE  /\ IsWhole(n) => IsWhole(m + n)
         /\ Whole(m + n) = m + Whole(n)
<1>1. PICK k \in Nat : m = k * SectorSize
  BY DEF IsWhole
<1>2. ASSUME NEW x \in Nat, IsWhole(x) PROVE IsWhole(m + x)
  <2>1. PICK l \in Nat : x = l * SectorSize
    BY <1>2 DEF IsWhole
  <2>2. m + x = (k + l) * SectorSize
    BY <1>1, <2>1, BiosAssumption
  <2> QED
    BY <2>2 DEF IsWhole
<1>3. IsWhole(m + Whole(n)) /\ Whole(n) \in Nat
  BY <1>2, WholeIs
<1>4. m + Whole(n) <= m + n /\ m + n < (m + Whole(n)) + SectorSize
  <2>1. Whole(n) <= n /\ n < Whole(n) + SectorSize /\ SectorSize \in Nat
    BY WholeIs, BiosAssumption
  <2> QED
    BY <1>3, <2>1
<1>5. Whole(m + n) = m + Whole(n)
  BY <1>3, <1>4, WholeUnique
<1> QED
  BY <1>2, <1>5

\* A function on 1 .. n is a sequence of n elements.
LEMMA FunctionLen ==
  ASSUME NEW n \in Nat, NEW S, NEW f \in [1 .. n -> S]
  PROVE  f \in Seq(S) /\ Len(f) = n /\ \A i \in 1 .. n : f[i] \in S
  OBVIOUS

LEMMA SeqFunction ==
  ASSUME NEW S, NEW s \in Seq(S)
  PROVE  s \in [1 .. Len(s) -> S] /\ Len(s) \in Nat
  OBVIOUS

\* What a write makes of a file: units before, between and behind it.
LEMMA StoredIs ==
  ASSUME NEW s \in Seq(Units), NEW at \in Nat, NEW data \in Seq(Units)
  PROVE  /\ Stored(s, at, data) \in Seq(Units)
         /\ Len(Stored(s, at, data))
              = IF Len(data) > 0 /\ at + Len(data) > Len(s) THEN at + Len(data) ELSE Len(s)
         /\ \A i \in 1 .. Len(s) : i \notin at + 1 .. at + Len(data)
                                     => Stored(s, at, data)[i] = s[i]
         /\ \A i \in 1 .. Len(data) : Stored(s, at, data)[at + i] = data[i]
<1> DEFINE size == IF Len(data) > 0 /\ at + Len(data) > Len(s) THEN at + Len(data) ELSE Len(s)
           e(i) == IF i \in at + 1 .. at + Len(data) THEN data[i - at]
                   ELSE IF i <= Len(s) THEN s[i] ELSE 0
<1>1. /\ Len(s) \in Nat /\ Len(data) \in Nat
      /\ \A i \in 1 .. Len(s) : s[i] \in Units
      /\ \A i \in 1 .. Len(data) : data[i] \in Units
      /\ data # <<>> <=> Len(data) > 0
  BY ElementOfSeq, EmptySeq
<1>2. size \in Nat
  BY <1>1
<1>3. \A i \in 1 .. size : e(i) \in Units
  <2> SUFFICES ASSUME NEW i \in 1 .. size PROVE e(i) \in Units
    OBVIOUS
  <2>1. CASE i \in at + 1 .. at + Len(data)
    <3>1. i - at \in 1 .. Len(data)
      BY <1>1, <2>1
    <3> QED
      BY <1>1, <2>1, <3>1
  <2>2. CASE i \notin at + 1 .. at + Len(data) /\ i <= Len(s)
    BY <1>1, <2>2
  <2>3. CASE i \notin at + 1 .. at + Len(data) /\ ~(i <= Len(s))
    BY <2>3 DEF Units
  <2> QED
    BY <2>1, <2>2, <2>3
<1>4. Stored(s, at, data) = [i \in 1 .. size |-> e(i)]
  BY <1>1 DEF Stored
<1>5. Stored(s, at, data) \in [1 .. size -> Units]
  BY <1>3, <1>4
<1>6. \A i \in 1 .. size : Stored(s, at, data)[i] = e(i)
  BY <1>4
<1>7. \A i \in 1 .. Len(s) : i \notin at + 1 .. at + Len(data) => Stored(s, at, data)[i] = s[i]
  BY <1>1, <1>6
<1>8. ASSUME NEW i \in 1 .. Len(data) PROVE Stored(s, at, data)[at + i] = data[i]
  <2>1. at + i \in 1 .. size /\ at + i \in at + 1 .. at + Len(data) /\ (at + i) - at = i
    BY <1>1
  <2> QED
    BY <1>6, <2>1
<1> HIDE DEF size
<1>9. Stored(s, at, data) \in Seq(Units) /\ Len(Stored(s, at, data)) = size
  BY <1>2, <1>5, FunctionLen
<1> QED
  BY <1>7, <1>8, <1>9 DEF size

LEMMA StoredLen ==
  ASSUME NEW s \in Seq(Units), NEW at \in Nat, NEW data \in Seq(Units)
  PROVE  /\ Stored(s, at, data) \in Seq(Units)
         /\ Len(Stored(s, at, data))
              = IF Len(data) > 0 /\ at + Len(data) > Len(s) THEN at + Len(data) ELSE Len(s)
  BY StoredIs

LEMMA StoredOld ==
  ASSUME NEW s \in Seq(Units), NEW at \in Nat, NEW data \in Seq(Units), NEW i \in 1 .. Len(s),
         i <= at \/ i > at + Len(data)
  PROVE  Stored(s, at, data)[i] = s[i]
<1>1. i \notin at + 1 .. at + Len(data)
  OBVIOUS
<1> QED
  BY <1>1, StoredIs

LEMMA StoredNew ==
  ASSUME NEW s \in Seq(Units), NEW at \in Nat, NEW data \in Seq(Units), NEW i \in 1 .. Len(data)
  PROVE  Stored(s, at, data)[at + i] = data[i]
  BY StoredIs

\* Two sequences with the same elements.
LEMMA SeqsEqual ==
  ASSUME NEW S, NEW s \in Seq(S), NEW t \in Seq(S), Len(s) = Len(t),
         \A i \in 1 .. Len(s) : s[i] = t[i]
  PROVE  s = t
  OBVIOUS

LEMMA StoredNothing ==
  ASSUME NEW s \in Seq(Units), NEW at \in Nat
  PROVE  Stored(s, at, <<>>) = s
<1> DEFINE none == <<>>
<1>1. none \in Seq(Units) /\ Len(none) = 0
  OBVIOUS
<1> HIDE DEF none
<1>2. Len(s) \in Nat
  OBVIOUS
<1>3. Stored(s, at, none) \in Seq(Units) /\ Len(Stored(s, at, none)) = Len(s)
  <2>1. /\ Stored(s, at, none) \in Seq(Units)
        /\ Len(Stored(s, at, none))
             = IF Len(none) > 0 /\ at + Len(none) > Len(s) THEN at + Len(none) ELSE Len(s)
    BY <1>1, StoredLen
  <2> QED
    BY <1>1, <2>1
<1>4. \A i \in 1 .. Len(s) : Stored(s, at, none)[i] = s[i]
  <2> SUFFICES ASSUME NEW i \in 1 .. Len(s) PROVE Stored(s, at, none)[i] = s[i]
    OBVIOUS
  <2>1. i <= at \/ i > at + Len(none)
    BY <1>1, <1>2
  <2> QED
    BY <1>1, <2>1, StoredOld
<1>5. Stored(s, at, none) = s
  BY <1>3, <1>4, SeqsEqual
<1> QED
  BY <1>5 DEF none

LEMMA FillIs ==
  ASSUME NEW n \in Nat
  PROVE  Fill(n) \in [1 .. n -> Units] /\ Fill(n) \in Seq(Units) /\ Len(Fill(n)) = n
<1>1. Fill(n) \in [1 .. n -> Units]
  BY DEF Fill, Filler, Units
<1> QED
  BY <1>1, FunctionLen

\* What may have been stored of data is a beginning of it.
LEMMA TornIs ==
  ASSUME NEW data \in Seq(Units), NEW part \in Torn(data)
  PROVE  part \in Seq(Units) /\ Len(part) < Len(data)
<1>1. PICK n \in 0 .. Len(data) - 1 : part = SubSeq(data, 1, n)
  BY DEF Torn
<1>2. Len(data) \in Nat /\ \A i \in 1 .. n : data[i] \in Units
  BY ElementOfSeq
<1>3. /\ SubSeq(data, 1, n) \in Seq(Units)
      /\ Len(SubSeq(data, 1, n)) = IF 1 <= n THEN n - 1 + 1 ELSE 0
  BY <1>2, SubSeqProperties
<1> QED
  BY <1>1, <1>2, <1>3

-----------------------------------------------------------------------------
(* The drives: what each function leaves of their files and lengths.       *)
\* The beginning of a sequence.
LEMMA PrefixIs ==
  ASSUME NEW data \in Seq(Units), NEW n \in 0 .. Len(data)
  PROVE  /\ SubSeq(data, 1, n) \in Seq(Units) /\ Len(SubSeq(data, 1, n)) = n
         /\ \A i \in 1 .. n : SubSeq(data, 1, n)[i] = data[i]
<1>1. Len(data) \in Nat /\ \A i \in 1 .. n : data[i] \in Units
  BY ElementOfSeq
<1>2. /\ SubSeq(data, 1, n) \in Seq(Units)
      /\ Len(SubSeq(data, 1, n)) = IF 1 <= n THEN n - 1 + 1 ELSE 0
      /\ \A i \in 1 .. n - 1 + 1 : SubSeq(data, 1, n)[i] = data[1 + i - 1]
  BY <1>1, SubSeqProperties
<1> QED
  BY <1>1, <1>2

\* What stdio holds for a file.
Held == [at : Nat, data : Seq(Units)]

LEMMA HeldIs ==
  /\ \A h \in Held : h.at \in Nat /\ h.data \in Seq(Units) /\ Len(h.data) \in Nat
  /\ Nothing \in Held /\ Nothing.data = <<>> /\ Nothing.at = 0
  /\ \A at \in Nat, data \in Seq(Units) :
        LET h == [at |-> at, data |-> data] IN h \in Held /\ h.at = at /\ h.data = data
<1>1. <<>> \in Seq(Units)
  OBVIOUS
<1> QED
  BY <1>1 DEF Held, Nothing

LEMMA PutIs ==
  ASSUME NEW s \in Seq(Units), NEW h \in Held, NEW n \in Reach(h)
  PROVE  /\ n \in 0 .. Len(h.data) /\ h.at \in Nat
         /\ Put(s, h, n) \in Seq(Units)
         /\ Len(Put(s, h, n)) = IF n > 0 /\ h.at + n > Len(s) THEN h.at + n ELSE Len(s)
         /\ \A i \in 1 .. Len(s) : i <= h.at \/ i > h.at + n => Put(s, h, n)[i] = s[i]
         /\ \A i \in 1 .. n : Put(s, h, n)[h.at + i] = h.data[i]
<1>1. h.at \in Nat /\ h.data \in Seq(Units) /\ Len(h.data) \in Nat
  BY HeldIs
<1>2. n \in 0 .. Len(h.data)
  BY <1>1 DEF Reach
<1> DEFINE part == SubSeq(h.data, 1, n)
<1>3. part \in Seq(Units) /\ Len(part) = n /\ \A i \in 1 .. n : part[i] = h.data[i]
  BY <1>1, <1>2, PrefixIs
<1>4. Put(s, h, n) = Stored(s, h.at, part)
  BY DEF Put
<1> HIDE DEF part
<1>5. /\ Stored(s, h.at, part) \in Seq(Units)
      /\ Len(Stored(s, h.at, part)) = IF n > 0 /\ h.at + n > Len(s) THEN h.at + n ELSE Len(s)
  BY <1>1, <1>3, StoredLen
<1>6. ASSUME NEW i \in 1 .. Len(s), i <= h.at \/ i > h.at + n
      PROVE  Stored(s, h.at, part)[i] = s[i]
  BY <1>1, <1>3, <1>6, StoredOld
<1>7. ASSUME NEW i \in 1 .. n PROVE Stored(s, h.at, part)[h.at + i] = h.data[i]
  <2>1. i \in 1 .. Len(part) /\ part[i] = h.data[i]
    BY <1>3
  <2>2. Stored(s, h.at, part)[h.at + i] = part[i]
    BY <1>1, <1>3, <2>1, StoredNew
  <2> QED
    BY <2>1, <2>2
<1> QED
  BY <1>1, <1>2, <1>4, <1>5, <1>6, <1>7

LEMMA BehindIs ==
  ASSUME NEW s \in Seq(Units), NEW h \in Held
  PROVE  /\ Behind(s, h) \in Seq(Units)
         /\ Len(Behind(s, h)) = IF Len(h.data) > 0 /\ h.at + Len(h.data) > Len(s)
                                  THEN h.at + Len(h.data) ELSE Len(s)
         /\ \A i \in 1 .. Len(s) : i <= h.at \/ i > h.at + Len(h.data) => Behind(s, h)[i] = s[i]
         /\ \A i \in 1 .. Len(h.data) : Behind(s, h)[h.at + i] = h.data[i]
         /\ h = Nothing => Behind(s, h) = s
<1>1. h.at \in Nat /\ h.data \in Seq(Units)
  BY HeldIs
<1>2. h = Nothing => Behind(s, h) = s
  BY HeldIs, StoredNothing DEF Behind
<1>3. ASSUME NEW i \in 1 .. Len(s), i <= h.at \/ i > h.at + Len(h.data)
      PROVE  Behind(s, h)[i] = s[i]
  BY <1>1, <1>3, StoredOld DEF Behind
<1>4. ASSUME NEW i \in 1 .. Len(h.data) PROVE Behind(s, h)[h.at + i] = h.data[i]
  BY <1>1, StoredNew DEF Behind
<1> QED
  BY <1>1, <1>2, <1>3, <1>4, StoredLen DEF Behind

\* A sector that is read, or a part of it at the end of the file.
LEMMA GotIs ==
  ASSUME NEW s \in Seq(Units), NEW at \in Nat
  PROVE  /\ Got(s, at) \in Seq(Units)
         /\ Len(Got(s, at)) = IF at + SectorSize <= Len(s) THEN SectorSize
                              ELSE IF at <= Len(s) THEN Len(s) - at ELSE 0
         /\ \A i \in 1 .. Len(Got(s, at)) : Got(s, at)[i] = s[at + i]
<1> DEFINE end == IF at + SectorSize < Len(s) THEN at + SectorSize ELSE Len(s)
           m == at + 1
<1>1. end \in Nat /\ end <= Len(s) /\ Len(s) \in Nat /\ m \in Nat
  BY BiosAssumption
<1>2. \A i \in m .. end : s[i] \in Units
  <2> SUFFICES ASSUME NEW i \in m .. end PROVE s[i] \in Units
    OBVIOUS
  <2>1. i \in 1 .. Len(s)
    BY <1>1
  <2> QED
    BY <2>1, ElementOfSeq
<1>3. Got(s, at) = SubSeq(s, m, end)
  BY DEF Got
<1> HIDE DEF m, end
<1>4. /\ SubSeq(s, m, end) \in Seq(Units)
      /\ Len(SubSeq(s, m, end)) = IF m <= end THEN end - m + 1 ELSE 0
      /\ \A i \in 1 .. end - m + 1 : SubSeq(s, m, end)[i] = s[m + i - 1]
  BY <1>1, <1>2, SubSeqProperties
<1> QED
  BY <1>3, <1>4, <1>1, BiosAssumption DEF m, end

LEMMA OverIs ==
  ASSUME NEW got \in Seq(Units), NEW old \in [1 .. SectorSize -> Units]
  PROVE  /\ Over(got, old) \in [1 .. SectorSize -> Units]
         /\ Len(got) = SectorSize => Over(got, old) = got
<1>1. Len(got) \in Nat /\ DOMAIN got = 1 .. Len(got) /\ \A i \in 1 .. Len(got) : got[i] \in Units
  BY ElementOfSeq
<1>2. Over(got, old) \in [1 .. SectorSize -> Units]
  BY <1>1 DEF Over
<1>3. ASSUME Len(got) = SectorSize PROVE Over(got, old) = got
  <2>1. Over(got, old) \in Seq(Units) /\ Len(Over(got, old)) = SectorSize
    BY <1>2, FunctionLen, BiosAssumption
  <2>2. \A i \in 1 .. SectorSize : Over(got, old)[i] = got[i]
    BY <1>1, <1>3 DEF Over
  <2> QED
    BY <1>3, <2>1, <2>2, SeqsEqual
<1> QED
  BY <1>2, <1>3

LEMMA BlankIs ==
  /\ Blank \in Seq(Units) /\ Len(Blank) = SectorSize
  /\ Blank \in [1 .. SectorSize -> Units]
  BY FillIs, BiosAssumption DEF Blank

\* An open drive: the length that is kept for it is of whole sectors and the
\* file is less than one longer, and what is held is one of them.
DriveFits(s, h, top) ==
  /\ IsWhole(top) /\ Len(s) < top + SectorSize
  /\ h = Nothing \/ (IsWhole(h.at) /\ Len(h.data) = SectorSize /\ h.at + SectorSize <= top)

DiscsOK(files, hs, open, tops) ==
  /\ files \in [Drives -> Seq(Units)] /\ hs \in [Drives -> Held] /\ tops \in [Drives -> Nat]
  /\ open \subseteq Openable
  /\ \A d \in open : DriveFits(files[d], hs[d], tops[d])
  /\ \A d \in Drives \ open : hs[d] = Nothing

DiscOK == DiscsOK(file, held, drives, drivelen)

\* The sectors that the length counts are there, but for drives that failed.
Counted(files, hs, open, tops, bad) ==
  \A d \in open \ bad : tops[d] <= Len(Behind(files[d], hs[d]))

AllThere == Counted(file, held, drives, drivelen, failed)

SelectionOK == drive \in Drives /\ track \in Nat /\ sector \in Nat /\ dma \in DmaAddr

MemOK == mem \in [DmaAddr -> [1 .. SectorSize -> Units]]

RegsOK == a \in 0 .. 255 /\ bc \in Nat /\ hl \in Nat

LEMMA SectorIsWhole == IsWhole(0) /\ IsWhole(SectorSize) /\ SectorSize \in Nat /\ SectorSize > 0
<1>1. 0 = 0 * SectorSize /\ SectorSize = 1 * SectorSize
  BY BiosAssumption
<1> QED
  BY <1>1, BiosAssumption DEF IsWhole

LEMMA DiscIs ==
  ASSUME NEW files, NEW hs, NEW open, NEW tops, DiscsOK(files, hs, open, tops),
         NEW d \in Drives
  PROVE  /\ files[d] \in Seq(Units) /\ Len(files[d]) \in Nat
         /\ hs[d] \in Held /\ hs[d].at \in Nat /\ hs[d].data \in Seq(Units)
         /\ Len(hs[d].data) \in Nat /\ tops[d] \in Nat
         /\ Behind(files[d], hs[d]) \in Seq(Units) /\ Len(Behind(files[d], hs[d])) \in Nat
         /\ Len(Behind(files[d], hs[d])) >= Len(files[d])
         /\ d \in open => /\ DriveFits(files[d], hs[d], tops[d])
                          /\ Len(Behind(files[d], hs[d])) < tops[d] + SectorSize
<1>1. /\ files[d] \in Seq(Units) /\ hs[d] \in Held /\ tops[d] \in Nat
      /\ d \in open => DriveFits(files[d], hs[d], tops[d])
  BY DEF DiscsOK
<1>2. hs[d].at \in Nat /\ hs[d].data \in Seq(Units) /\ Len(hs[d].data) \in Nat
  BY <1>1, HeldIs
<1>3. Len(files[d]) \in Nat
  BY <1>1
<1>4. /\ Behind(files[d], hs[d]) \in Seq(Units)
      /\ Len(Behind(files[d], hs[d]))
           = IF Len(hs[d].data) > 0 /\ hs[d].at + Len(hs[d].data) > Len(files[d])
               THEN hs[d].at + Len(hs[d].data) ELSE Len(files[d])
      /\ hs[d] = Nothing => Behind(files[d], hs[d]) = files[d]
  BY <1>1, BehindIs
<1>5. Len(Behind(files[d], hs[d])) \in Nat /\ Len(Behind(files[d], hs[d])) >= Len(files[d])
  BY <1>2, <1>3, <1>4
<1>6. ASSUME d \in open PROVE Len(Behind(files[d], hs[d])) < tops[d] + SectorSize
  <2>1. /\ Len(files[d]) < tops[d] + SectorSize
        /\ hs[d] = Nothing
           \/ (Len(hs[d].data) = SectorSize /\ hs[d].at + SectorSize <= tops[d])
    BY <1>1, <1>6 DEF DriveFits
  <2>2. CASE hs[d] = Nothing
    BY <1>4, <2>1, <2>2
  <2>3. CASE Len(hs[d].data) = SectorSize /\ hs[d].at + SectorSize <= tops[d]
    <3>1. hs[d].at + Len(hs[d].data) < tops[d] + SectorSize
      BY <1>1, <1>2, <2>3, SectorIsWhole
    <3> QED
      BY <1>4, <2>1, <3>1
  <2> QED
    BY <2>1, <2>2, <2>3
<1> QED
  BY <1>1, <1>2, <1>3, <1>4, <1>5, <1>6

\* Which drive is selected, and what is opened, when seldisc or a boot is done.
LEMMA SelectKeeps ==
  ASSUME NEW c \in Nat, NEW old, NEW bad,
         old.drive \in Drives, old.track \in Nat, old.sector \in Nat,
         DiscsOK(old.file, old.held, old.drives, drivelen),
         Counted(old.file, old.held, old.drives, drivelen, bad),
         SelectDisc(c, old)
  PROVE  /\ DiscOK' /\ Counted(file', held', drives', drivelen', bad)
         /\ drive' \in Drives /\ track' \in Nat /\ sector' \in Nat /\ hl' \in Nat
<1> USE BiosAssumption
<1>1. ASSUME Selects(c), c \in Drives
      PROVE  drive' \in Drives /\ track' \in Nat /\ sector' \in Nat /\ hl' \in Nat
  BY <1>1 DEF Selects, Header
<1>2. ASSUME NotSelected(old)
      PROVE  drive' \in Drives /\ track' \in Nat /\ sector' \in Nat /\ hl' \in Nat
  BY <1>2 DEF NotSelected, NoHeader
<1>3. ASSUME file' = old.file, held' = old.held, drives' = old.drives, drivelen' = drivelen
      PROVE  DiscOK' /\ Counted(file', held', drives', drivelen', bad)
  BY <1>3 DEF DiscOK
<1>4. CASE SelRefused(c, old)
  <2>1. NotSelected(old) /\ file' = old.file
    BY <1>4 DEF SelRefused
  <2> QED
    BY <1>2, <1>3, <2>1 DEF NotSelected
<1>5. CASE SelOpened(c, old)
  <2>1. c \in Drives
    BY <1>5 DEF SelOpened, DiscsOK
  <2> QED
    BY <1>1, <1>3, <1>5, <2>1 DEF SelOpened
<1>6. ASSUME c \in Openable \ old.drives
      PROVE  /\ c \in Drives /\ old.held[c] = Nothing
             /\ old.file[c] \in Seq(Units) /\ Len(old.file[c]) \in Nat
             /\ WholeSectors(old.file[c]) = Whole(Len(old.file[c]))
             /\ Whole(Len(old.file[c])) \in Nat /\ IsWhole(Whole(Len(old.file[c])))
             /\ Whole(Len(old.file[c])) <= Len(old.file[c])
             /\ Len(old.file[c]) < Whole(Len(old.file[c])) + SectorSize
  <2>1. c \in Drives /\ old.held[c] = Nothing
    BY <1>6 DEF DiscsOK
  <2>2. old.file[c] \in Seq(Units) /\ Len(old.file[c]) \in Nat
    BY <2>1, DiscIs
  <2> QED
    BY <2>1, <2>2, WholeIs DEF WholeSectors, Whole
<1>7. CASE SelOpens(c, old)
  <2> DEFINE len == Whole(Len(old.file[c]))
  <2>1. c \in Openable \ old.drives
    BY <1>7 DEF SelOpens
  <2>2. /\ file' = old.file /\ held' = old.held /\ drives' = old.drives \union {c}
        /\ drivelen' = [drivelen EXCEPT ![c] = len] /\ Selects(c)
    BY <1>6, <1>7, <2>1 DEF SelOpens
  <2>3. /\ c \in Drives /\ old.held[c] = Nothing /\ old.file[c] \in Seq(Units)
        /\ len \in Nat /\ IsWhole(len) /\ len <= Len(old.file[c])
        /\ Len(old.file[c]) < len + SectorSize
    BY <1>6, <2>1
  <2> HIDE DEF len
  <2>4. Behind(old.file[c], old.held[c]) = old.file[c]
    BY <2>3, HeldIs, BehindIs
  <2>5. /\ drivelen' \in [Drives -> Nat] /\ drivelen'[c] = len
        /\ \A d \in Drives \ {c} : drivelen'[d] = drivelen[d]
    BY <2>2, <2>3 DEF DiscsOK
  <2>6. DriveFits(file'[c], held'[c], drivelen'[c])
    BY <2>2, <2>3, <2>5 DEF DriveFits
  <2>7. \A d \in drives' : DriveFits(file'[d], held'[d], drivelen'[d])
    BY <2>2, <2>5, <2>6 DEF DiscsOK
  <2>8. DiscOK'
    BY <2>1, <2>2, <2>5, <2>7 DEF DiscOK, DiscsOK
  <2>9. Counted(file', held', drives', drivelen', bad)
    <3> SUFFICES ASSUME NEW d \in drives' \ bad
                 PROVE  drivelen'[d] <= Len(Behind(file'[d], held'[d]))
      BY DEF Counted
    <3>1. CASE d = c
      BY <2>2, <2>3, <2>4, <2>5, <3>1
    <3>2. CASE d # c
      <4>1. d \in old.drives \ bad /\ d \in Drives
        BY <2>2, <3>2 DEF DiscsOK
      <4>2. drivelen'[d] = drivelen[d]
        BY <2>5, <3>2, <4>1
      <4> QED
        BY <2>2, <4>1, <4>2 DEF Counted
    <3> QED
      BY <3>1, <3>2
  <2> QED
    BY <1>1, <2>2, <2>3, <2>8, <2>9
<1>8. CASE SelBegins(c, old)
  <2> DEFINE h == [at |-> 0, data |-> Blank]
  <2>1. c \in Openable \ old.drives /\ WholeSectors(old.file[c]) = 0
    BY <1>8 DEF SelBegins
  <2>2. /\ file' = old.file /\ held' = [old.held EXCEPT ![c] = h]
        /\ drives' = old.drives \union {c}
        /\ drivelen' = [drivelen EXCEPT ![c] = SectorSize] /\ Selects(c)
    BY <1>8 DEF SelBegins
  <2>3. /\ h \in Held /\ h.at = 0 /\ h.data = Blank /\ Len(Blank) = SectorSize
    BY HeldIs, BlankIs
  <2>4. /\ c \in Drives /\ old.file[c] \in Seq(Units) /\ Len(old.file[c]) \in Nat
        /\ Len(old.file[c]) < SectorSize
    <3>1. Whole(Len(old.file[c])) = 0
      BY <1>6, <2>1
    <3> QED
      BY <1>6, <2>1, <3>1
  <2> HIDE DEF h
  <2>5. /\ held' \in [Drives -> Held] /\ held'[c] = h
        /\ \A d \in Drives \ {c} : held'[d] = old.held[d]
    BY <2>2, <2>3, <2>4 DEF DiscsOK
  <2>6. /\ drivelen' \in [Drives -> Nat] /\ drivelen'[c] = SectorSize
        /\ \A d \in Drives \ {c} : drivelen'[d] = drivelen[d]
    BY <2>2, <2>4 DEF DiscsOK
  <2>7. DriveFits(file'[c], held'[c], drivelen'[c])
    <3>1. IsWhole(h.at) /\ Len(h.data) = SectorSize /\ h.at + SectorSize <= SectorSize
      BY <2>3, SectorIsWhole
    <3>2. Len(old.file[c]) < SectorSize + SectorSize
      BY <2>4
    <3> QED
      BY <2>2, <2>5, <2>6, <3>1, <3>2, SectorIsWhole DEF DriveFits
  <2>8. \A d \in drives' : DriveFits(file'[d], held'[d], drivelen'[d])
    <3> SUFFICES ASSUME NEW d \in drives', d # c
                 PROVE  DriveFits(file'[d], held'[d], drivelen'[d])
      BY <2>7
    <3>1. d \in old.drives /\ d \in Drives
      BY <2>2 DEF DiscsOK
    <3> QED
      BY <2>2, <2>5, <2>6, <3>1 DEF DiscsOK
  <2>9. DiscOK'
    <3>1. \A d \in Drives \ drives' : held'[d] = Nothing
      BY <2>2, <2>5 DEF DiscsOK
    <3> QED
      BY <2>1, <2>2, <2>5, <2>6, <2>8, <3>1 DEF DiscOK, DiscsOK
  <2>10. Counted(file', held', drives', drivelen', bad)
    <3> SUFFICES ASSUME NEW d \in drives' \ bad
                 PROVE  drivelen'[d] <= Len(Behind(file'[d], held'[d]))
      BY DEF Counted
    <3>1. CASE d = c
      <4>1. Len(Behind(old.file[c], h))
              = IF Len(h.data) > 0 /\ h.at + Len(h.data) > Len(old.file[c])
                  THEN h.at + Len(h.data) ELSE Len(old.file[c])
        BY <2>3, <2>4, BehindIs
      <4>2. Len(Behind(old.file[c], h)) = SectorSize
        BY <2>3, <2>4, <4>1
      <4> QED
        BY <2>2, <2>5, <2>6, <3>1, <4>2
    <3>2. CASE d # c
      <4>1. d \in old.drives \ bad /\ d \in Drives
        BY <2>2, <3>2 DEF DiscsOK
      <4>2. drivelen'[d] = drivelen[d] /\ held'[d] = old.held[d]
        BY <2>5, <2>6, <3>2, <4>1
      <4> QED
        BY <2>2, <4>1, <4>2 DEF Counted
    <3> QED
      BY <3>1, <3>2
  <2> QED
    BY <1>1, <2>2, <2>4, <2>9, <2>10
<1>9. CASE SelUncreated(c, old)
  <2>1. c \in Openable \ old.drives /\ NotSelected(old)
    BY <1>9 DEF SelUncreated
  <2>2. PICK begun \in Torn(Blank) : file' = [old.file EXCEPT ![c] = Stored(@, 0, begun)]
    BY <1>9 DEF SelUncreated
  <2>3. Stored(old.file[c], 0, begun) \in Seq(Units)
    <3>1. begun \in Seq(Units)
      BY BlankIs, TornIs
    <3> QED
      BY <1>6, <2>1, <3>1, StoredLen
  <2>4. drives' = old.drives /\ held' = old.held /\ drivelen' = drivelen
    BY <2>1 DEF NotSelected
  <2>5. /\ file' \in [Drives -> Seq(Units)]
        /\ \A d \in Drives \ {c} : file'[d] = old.file[d]
    BY <1>6, <2>1, <2>2, <2>3 DEF DiscsOK
  <2>6. \A d \in drives' : file'[d] = old.file[d] /\ d \in Drives
    BY <2>1, <2>4, <2>5 DEF DiscsOK
  <2>7. DiscOK'
    BY <2>4, <2>5, <2>6 DEF DiscOK, DiscsOK
  <2>8. Counted(file', held', drives', drivelen', bad)
    BY <2>4, <2>6 DEF Counted
  <2> QED
    BY <1>2, <2>1, <2>7, <2>8
<1> QED
  BY <1>4, <1>5, <1>7, <1>8, <1>9 DEF SelectDisc

\* The files that a boot leaves, when each drive's cut is what could be put there.
Closes(cut) ==
  /\ cut \in [Drives -> 0 .. SectorSize]
  /\ \A c \in Drives : cut[c] \in Reach(held[c])

Cut(cut) == [c \in Drives |-> Put(file[c], held[c], cut[c])]

LEMMA ClosedOK ==
  ASSUME DiscOK, NEW cut, Closes(cut)
  PROVE  /\ DiscsOK(Cut(cut), [c \in Drives |-> Nothing], {}, drivelen)
         /\ Counted(Cut(cut), [c \in Drives |-> Nothing], {}, drivelen, {})
<1>1. \A c \in Drives : Put(file[c], held[c], cut[c]) \in Seq(Units)
  <2> SUFFICES ASSUME NEW c \in Drives PROVE Put(file[c], held[c], cut[c]) \in Seq(Units)
    OBVIOUS
  <2>1. file[c] \in Seq(Units) /\ held[c] \in Held
    BY DiscIs DEF DiscOK
  <2> QED
    BY <2>1, PutIs DEF Closes
<1>2. Cut(cut) \in [Drives -> Seq(Units)]
  BY <1>1 DEF Cut
<1>3. [c \in Drives |-> Nothing] \in [Drives -> Held]
  BY HeldIs
<1>4. drivelen \in [Drives -> Nat]
  BY DEF DiscOK, DiscsOK
<1> QED
  BY <1>2, <1>3, <1>4 DEF DiscsOK, Counted

LEMMA StartKeepsDisc ==
  ASSUME DiscOK, NEW d \in Drives, StartFrom(d)
  PROVE  /\ DiscOK' /\ Counted(file', held', drives', drivelen', {})
         /\ drive' \in Drives /\ track' \in Nat /\ sector' \in Nat /\ hl' \in Nat
         /\ dma' = DefaultDma /\ bc' = d /\ UNCHANGED <<mem, a, unixState>>
<1>1. PICK cut \in [Drives -> 0 .. SectorSize] :
        /\ \A c \in Drives : cut[c] \in Reach(held[c])
        /\ SelectDisc(d, [drive |-> d, track |-> 0, sector |-> 1, drives |-> {},
                          file |-> [c \in Drives |-> Put(file[c], held[c], cut[c])],
                          held |-> [c \in Drives |-> Nothing]])
  BY DEF StartFrom
<1> DEFINE old == [drive |-> d, track |-> 0, sector |-> 1, drives |-> {},
                   file |-> Cut(cut), held |-> [c \in Drives |-> Nothing]]
<1>2. SelectDisc(d, old) /\ Closes(cut)
  BY <1>1 DEF Closes, Cut
<1>3. /\ old.drive \in Drives /\ old.track \in Nat /\ old.sector \in Nat
      /\ DiscsOK(old.file, old.held, old.drives, drivelen)
      /\ Counted(old.file, old.held, old.drives, drivelen, {})
  BY <1>2, ClosedOK
<1>4. d \in Nat
  BY BiosAssumption
<1> HIDE DEF old
<1>5. /\ DiscOK' /\ Counted(file', held', drives', drivelen', {})
      /\ drive' \in Drives /\ track' \in Nat /\ sector' \in Nat /\ hl' \in Nat
  BY <1>2, <1>3, <1>4, SelectKeeps
<1> QED
  BY <1>5 DEF StartFrom

LEMMA OffsetIs ==
  ASSUME SelectionOK
  PROVE  /\ Place(drive, track, sector) \in Int
         /\ Offset \in Int
         /\ Offset >= 0 => IsWhole(Offset) /\ Offset = Place(drive, track, sector) * SectorSize
<1> USE BiosAssumption
<1>1. SectorsPerTrack(drive) \in Nat
  BY DEF SectorsPerTrack
<1>2. SectorsPerTrack(drive) * track \in Nat
  BY <1>1 DEF SelectionOK
<1>3. Place(drive, track, sector) \in Int
  BY <1>2 DEF Place, SelectionOK
<1> DEFINE p == Place(drive, track, sector)
<1> HIDE DEF p
<1>4. p \in Int /\ Offset = SectorSize * p
  BY <1>3 DEF p, Offset
<1>5. SectorSize * p \in Int /\ SectorSize * p = p * SectorSize
  BY <1>4
<1>6. p < 0 => SectorSize * p < 0
  BY <1>4
<1>7. Offset >= 0 => p \in Nat
  BY <1>4, <1>5, <1>6
<1> QED
  BY <1>3, <1>4, <1>5, <1>7 DEF IsWhole, p

-----------------------------------------------------------------------------
(* Transfers change the selected drive alone.                              *)

LEMMA Rewritten ==
  ASSUME DiscOK, AllThere, NEW d \in drives, NEW s \in Seq(Units), NEW h \in Held, NEW top \in Nat,
         DriveFits(s, h, top),
         file' = [file EXCEPT ![d] = s], held' = [held EXCEPT ![d] = h],
         drivelen' = [drivelen EXCEPT ![d] = top], drives' = drives,
         NEW bad, failed \subseteq bad, d \in bad \/ top <= Len(Behind(s, h))
  PROVE  DiscOK' /\ Counted(file', held', drives', drivelen', bad)
<1>1. d \in Drives /\ drives \subseteq Drives
  BY BiosAssumption DEF DiscOK, DiscsOK
<1>2. /\ file \in [Drives -> Seq(Units)] /\ held \in [Drives -> Held]
      /\ drivelen \in [Drives -> Nat] /\ drives \subseteq Openable
      /\ \A c \in drives : DriveFits(file[c], held[c], drivelen[c])
      /\ \A c \in Drives \ drives : held[c] = Nothing
  BY DEF DiscOK, DiscsOK
<1>3. /\ file' \in [Drives -> Seq(Units)] /\ held' \in [Drives -> Held]
      /\ drivelen' \in [Drives -> Nat]
  BY <1>1, <1>2
<1>4. file'[d] = s /\ held'[d] = h /\ drivelen'[d] = top
  BY <1>1, <1>2
<1>5. \A c \in Drives \ {d} : file'[c] = file[c] /\ held'[c] = held[c] /\ drivelen'[c] = drivelen[c]
  BY <1>2
<1>6. \A c \in drives' : DriveFits(file'[c], held'[c], drivelen'[c])
  <2> SUFFICES ASSUME NEW c \in drives PROVE DriveFits(file'[c], held'[c], drivelen'[c])
    OBVIOUS
  <2>1. CASE c = d
    BY <1>4, <2>1
  <2>2. CASE c # d
    BY <1>1, <1>2, <1>5, <2>2
  <2> QED
    BY <2>1, <2>2
<1>7. \A c \in Drives \ drives' : held'[c] = Nothing
  BY <1>2, <1>5
<1>8. DiscOK'
  BY <1>2, <1>3, <1>6, <1>7 DEF DiscOK, DiscsOK
<1>9. Counted(file', held', drives', drivelen', bad)
  <2> SUFFICES ASSUME NEW c \in drives \ bad
               PROVE  drivelen'[c] <= Len(Behind(file'[c], held'[c]))
    BY DEF Counted
  <2>1. CASE c = d
    BY <1>4, <2>1
  <2>2. CASE c # d
    <3>1. drivelen[c] <= Len(Behind(file[c], held[c]))
      BY DEF AllThere, Counted
    <3> QED
      BY <1>1, <1>5, <2>2, <3>1
  <2> QED
    BY <2>1, <2>2
<1> QED
  BY <1>8, <1>9

\* What a flush that may fail leaves.
LEMMA PutFits ==
  ASSUME DiscOK, NEW d \in drives, NEW n \in Reach(held[d])
  PROVE  /\ Put(file[d], held[d], n) \in Seq(Units)
         /\ DriveFits(Put(file[d], held[d], n), Nothing, drivelen[d])
<1>1. d \in Drives
  BY BiosAssumption DEF DiscOK, DiscsOK
<1>2. /\ file[d] \in Seq(Units) /\ held[d] \in Held /\ held[d].at \in Nat
      /\ Len(held[d].data) \in Nat /\ Len(file[d]) \in Nat /\ drivelen[d] \in Nat
      /\ DriveFits(file[d], held[d], drivelen[d])
  BY <1>1, DiscIs DEF DiscOK
<1>3. /\ n \in 0 .. Len(held[d].data)
      /\ Put(file[d], held[d], n) \in Seq(Units)
      /\ Len(Put(file[d], held[d], n))
           = IF n > 0 /\ held[d].at + n > Len(file[d]) THEN held[d].at + n ELSE Len(file[d])
  BY <1>2, PutIs
<1>4. Len(file[d]) < drivelen[d] + SectorSize /\ IsWhole(drivelen[d])
  BY <1>2 DEF DriveFits
<1>5. n > 0 => held[d].at + n < drivelen[d] + SectorSize
  <2>1. CASE held[d] = Nothing
    BY <1>3, <2>1, HeldIs
  <2>2. CASE Len(held[d].data) = SectorSize /\ held[d].at + SectorSize <= drivelen[d]
    BY <1>2, <1>3, <2>2, SectorIsWhole
  <2> QED
    BY <1>2, <2>1, <2>2 DEF DriveFits
<1>6. Len(Put(file[d], held[d], n)) < drivelen[d] + SectorSize
  BY <1>3, <1>4, <1>5
<1> QED
  BY <1>3, <1>4, <1>6 DEF DriveFits

LEMMA SeekFailsKeeps ==
  ASSUME DiscOK, AllThere, SeekFails
  PROVE  DiscOK' /\ Counted(file', held', drives', drivelen', failed \union {drive})
<1>1. drive \in drives /\ drives' = drives /\ drivelen' = drivelen
  BY DEF SeekFails
<1>2. PICK n \in Reach(held[drive]) : Flushes(n)
  BY DEF SeekFails
<1> DEFINE s == Put(file[drive], held[drive], n)
<1>3. s \in Seq(Units) /\ DriveFits(s, Nothing, drivelen[drive])
  BY <1>1, PutFits
<1>4. file' = [file EXCEPT ![drive] = s] /\ held' = [held EXCEPT ![drive] = Nothing]
  BY <1>2 DEF Flushes
<1>5. drivelen[drive] \in Nat /\ drivelen' = [drivelen EXCEPT ![drive] = drivelen[drive]]
  <2>1. drivelen \in [Drives -> Nat] /\ drive \in Drives
    BY <1>1, BiosAssumption DEF DiscOK, DiscsOK
  <2> QED
    BY <1>1, <2>1
<1> HIDE DEF s
<1>6. Nothing \in Held
  BY HeldIs
<1>7. failed \subseteq failed \union {drive} /\ drive \in failed \union {drive}
  OBVIOUS
<1> DEFINE bad == failed \union {drive}
<1>8. failed \subseteq bad /\ drive \in bad
  BY <1>7
<1> HIDE DEF bad
<1>9. DiscOK' /\ Counted(file', held', drives', drivelen', bad)
  BY <1>1, <1>3, <1>4, <1>5, <1>6, <1>8, Rewritten
<1> QED
  BY <1>9 DEF bad

\* What a sector that is read leaves: the file as it was to be.
LEMMA ReadWithinKeeps ==
  ASSUME DiscOK, AllThere, SelectionOK, MemOK, ReadWithin, NEW bad, failed \subseteq bad
  PROVE  /\ DiscOK' /\ Counted(file', held', drives', drivelen', bad)
         /\ MemOK' /\ a' \in {0, 1}
<1> DEFINE now == Behind(file[drive], held[drive])
           got == Got(now, Offset)
<1>1. /\ drive \in drives /\ Offset >= 0 /\ Offset < drivelen[drive]
      /\ file' = [file EXCEPT ![drive] = now] /\ held' = [held EXCEPT ![drive] = Nothing]
      /\ mem' = [mem EXCEPT ![dma] = Over(got, mem[dma])]
      /\ a' \in {0, 1} /\ drives' = drives /\ drivelen' = drivelen
  BY DEF ReadWithin
<1>2. drive \in Drives
  BY DEF SelectionOK
<1>3. /\ now \in Seq(Units) /\ Len(now) \in Nat /\ drivelen[drive] \in Nat
      /\ Len(now) < drivelen[drive] + SectorSize /\ IsWhole(drivelen[drive])
  BY <1>1, <1>2, DiscIs DEF DiscOK, DriveFits
<1>4. got \in Seq(Units)
  <2>1. Offset \in Nat
    BY <1>1, OffsetIs
  <2> HIDE DEF now
  <2> QED
    BY <1>3, <2>1, GotIs
<1>5. MemOK'
  <2> HIDE DEF got
  <2>1. mem[dma] \in [1 .. SectorSize -> Units]
    BY DEF MemOK, SelectionOK
  <2>2. Over(got, mem[dma]) \in [1 .. SectorSize -> Units]
    BY <1>4, <2>1, OverIs
  <2> QED
    BY <1>1, <2>2 DEF MemOK
<1>6. drivelen' = [drivelen EXCEPT ![drive] = drivelen[drive]]
  BY <1>1, <1>2 DEF DiscOK, DiscsOK
<1>7. drive \in bad \/ drivelen[drive] <= Len(Behind(now, Nothing))
  <2>1. drive \notin failed => drivelen[drive] <= Len(now)
    BY <1>1 DEF AllThere, Counted
  <2>2. Behind(now, Nothing) = now
    <3> HIDE DEF now
    <3> QED
      BY <1>3, HeldIs, BehindIs
  <2> QED
    BY <2>1, <2>2
<1> HIDE DEF now, got
<1>8. DriveFits(now, Nothing, drivelen[drive])
  BY <1>3 DEF DriveFits
<1>9. Nothing \in Held
  BY HeldIs
<1>10. DiscOK' /\ Counted(file', held', drives', drivelen', bad)
  BY <1>1, <1>3, <1>6, <1>7, <1>8, <1>9, Rewritten
<1> QED
  BY <1>1, <1>5, <1>10

\* The file of the selected drive as a write finds it, and as it leaves it
\* before the sector.
LEMMA FilledIs ==
  ASSUME DiscOK, SelectionOK, drive \in drives, Offset >= 0,
         NEW now, now = Behind(file[drive], held[drive]), NEW len, len = drivelen[drive],
         NEW o, o = Offset
  PROVE  /\ o \in Nat /\ IsWhole(o) /\ len \in Nat /\ IsWhole(len)
         /\ now \in Seq(Units) /\ Len(now) \in Nat /\ Len(now) < len + SectorSize
         /\ Gap(len) \in Seq(Units) /\ Len(Gap(len)) = IF o > len THEN o - len ELSE 0
         /\ o > len => len + SectorSize <= o /\ Len(now) < o
         /\ Filled \in Seq(Units) /\ Len(Filled) = IF o > len THEN o ELSE Len(now)
<1>1. o \in Nat /\ IsWhole(o)
  BY OffsetIs
<1>2. /\ now \in Seq(Units) /\ Len(now) \in Nat /\ len \in Nat
      /\ Len(now) < len + SectorSize /\ IsWhole(len)
  BY DiscIs DEF DiscOK, DriveFits, SelectionOK
<1>3. o > len => len + SectorSize <= o
  BY <1>1, <1>2, WholeApart
<1>4. Gap(len) \in Seq(Units) /\ Len(Gap(len)) = IF o > len THEN o - len ELSE 0
  <2> DEFINE gap == IF o > len THEN o - len ELSE 0
  <2>1. gap \in Nat
    BY <1>1, <1>2
  <2>2. Gap(len) = Fill(gap)
    BY DEF Gap
  <2> HIDE DEF gap
  <2>3. Gap(len) \in Seq(Units) /\ Len(Gap(len)) = gap
    BY <2>1, <2>2, FillIs
  <2> QED
    BY <2>3 DEF gap
<1>5. Filled = Stored(now, len, Gap(len))
  BY DEF Filled
<1>6. /\ Stored(now, len, Gap(len)) \in Seq(Units)
      /\ Len(Stored(now, len, Gap(len)))
           = IF Len(Gap(len)) > 0 /\ len + Len(Gap(len)) > Len(now)
               THEN len + Len(Gap(len)) ELSE Len(now)
  BY <1>2, <1>4, StoredLen, ZenonT(60)
<1>7. o > len => Len(now) < o
  BY <1>1, <1>2, <1>3, SectorIsWhole
<1>8. Len(Stored(now, len, Gap(len))) = IF o > len THEN o ELSE Len(now)
  BY <1>1, <1>2, <1>4, <1>6, <1>7
<1> QED
  BY <1>1, <1>2, <1>3, <1>4, <1>5, <1>6, <1>7, <1>8

LEMMA DmaIs ==
  ASSUME SelectionOK, MemOK
  PROVE  mem[dma] \in [1 .. SectorSize -> Units] /\ mem[dma] \in Seq(Units) /\ Len(mem[dma]) = SectorSize
<1>1. mem[dma] \in [1 .. SectorSize -> Units]
  BY DEF MemOK, SelectionOK
<1> QED
  BY <1>1, FunctionLen, SectorIsWhole

LEMMA WriteGapKeeps ==
  ASSUME DiscOK, AllThere, SelectionOK, WriteGapFails
  PROVE  DiscOK' /\ Counted(file', held', drives', drivelen', failed \union {drive})
<1> DEFINE now == Behind(file[drive], held[drive])
           len == drivelen[drive]
           o == Offset
           bad == failed \union {drive}
<1>1. PICK n \in 0 .. Len(Gap(len)) - 1 :
        /\ file' = [file EXCEPT ![drive] = Stored(now, len, SubSeq(Gap(len), 1, n))]
        /\ \E k \in n \div SectorSize .. Len(Gap(len)) \div SectorSize :
             drivelen' = [drivelen EXCEPT ![drive] = len + k * SectorSize]
  BY DEF WriteGapFails
<1>2. drive \in drives /\ drives' = drives /\ held' = [held EXCEPT ![drive] = Nothing]
  BY DEF WriteGapFails
<1>3. PICK k \in n \div SectorSize .. Len(Gap(len)) \div SectorSize :
        drivelen' = [drivelen EXCEPT ![drive] = len + k * SectorSize]
  BY <1>1
<1>4. Offset \in Int
  BY OffsetIs
<1>5. len \in Nat
  BY <1>2, DiscIs DEF DiscOK, SelectionOK
<1>6. Offset >= 0
  <2>1. CASE Offset > len
    BY <1>4, <1>5, <2>1
  <2>2. CASE ~(Offset > len)
    <3>1. Gap(len) = Fill(0)
      BY <2>2 DEF Gap
    <3>2. Len(Gap(len)) = 0
      BY <3>1, FillIs
    <3> QED
      BY <1>1, <3>2
  <2> QED
    BY <2>1, <2>2
<1>7. /\ now \in Seq(Units) /\ Len(now) \in Nat /\ Len(now) < len + SectorSize /\ IsWhole(len)
      /\ Gap(len) \in Seq(Units)
  BY <1>2, <1>6, FilledIs
<1> DEFINE part == SubSeq(Gap(len), 1, n)
           s == Stored(now, len, part)
           top == len + k * SectorSize
<1>8. n \in Nat /\ n \in 0 .. Len(Gap(len)) /\ Len(Gap(len)) \in Nat
  BY <1>7
<1> HIDE DEF now, len
<1>9. part \in Seq(Units) /\ Len(part) = n
  BY <1>7, <1>8, PrefixIs
<1>10. s \in Seq(Units) /\ Len(s) = IF n > 0 /\ len + n > Len(now) THEN len + n ELSE Len(now)
  <2> HIDE DEF part
  <2>1. /\ Stored(now, len, part) \in Seq(Units)
        /\ Len(Stored(now, len, part))
             = IF Len(part) > 0 /\ len + Len(part) > Len(now) THEN len + Len(part) ELSE Len(now)
    BY <1>5, <1>7, <1>9, StoredLen DEF len
  <2> QED
    BY <1>9, <2>1
<1>11. k \in Nat /\ k * SectorSize \in Nat /\ n < k * SectorSize + SectorSize
  <2>1. n \div SectorSize \in Nat /\ Len(Gap(len)) \div SectorSize \in Nat
    BY <1>8, BiosAssumption
  <2>2. k \in Nat /\ n \div SectorSize <= k
    BY <2>1
  <2>3. Whole(n) \in Nat /\ n < Whole(n) + SectorSize /\ Whole(n) = (n \div SectorSize) * SectorSize
    BY <1>8, WholeIs DEF Whole
  <2>4. (n \div SectorSize) * SectorSize <= k * SectorSize /\ k * SectorSize \in Nat
    <3> DEFINE j == n \div SectorSize
    <3>1. j \in Nat /\ j <= k
      BY <2>1, <2>2
    <3> HIDE DEF j
    <3>2. (k - j) * SectorSize >= 0 /\ k * SectorSize = j * SectorSize + (k - j) * SectorSize
      BY <2>2, <3>1, BiosAssumption
    <3>3. j * SectorSize \in Nat /\ k * SectorSize \in Nat /\ (k - j) * SectorSize \in Int
      BY <2>2, <3>1, BiosAssumption
    <3>4. j * SectorSize <= k * SectorSize
      BY <3>2, <3>3
    <3> QED
      BY <3>3, <3>4 DEF j
  <2> QED
    BY <1>8, <2>2, <2>3, <2>4, SectorIsWhole
<1>12. top \in Nat /\ IsWhole(top)
  <2> DEFINE x == k * SectorSize
  <2>1. IsWhole(x) /\ x \in Nat
    BY <1>11 DEF IsWhole
  <2> HIDE DEF x
  <2>2. IsWhole(len + x)
    BY <1>5, <1>7, <2>1, WholeSum DEF len
  <2> QED
    BY <1>5, <2>1, <2>2 DEF len, x
<1>13. Len(s) < top + SectorSize
  <2> DEFINE x == k * SectorSize
  <2>1. x \in Nat /\ n < x + SectorSize /\ top = len + x /\ len \in Nat
    BY <1>5, <1>11 DEF len
  <2> HIDE DEF x, s, top
  <2> QED
    BY <1>7, <1>8, <1>10, <2>1, SectorIsWhole
<1>14. file' = [file EXCEPT ![drive] = s] /\ drivelen' = [drivelen EXCEPT ![drive] = top]
  BY <1>1, <1>3
<1> HIDE DEF s, top
<1>15. DriveFits(s, Nothing, top)
  BY <1>12, <1>13 DEF DriveFits
<1>16. failed \subseteq bad /\ drive \in bad
  OBVIOUS
<1>17. Nothing \in Held
  BY HeldIs
<1> HIDE DEF bad
<1>18. DiscOK' /\ Counted(file', held', drives', drivelen', bad)
  BY <1>2, <1>10, <1>12, <1>14, <1>15, <1>16, <1>17, Rewritten
<1> QED
  BY <1>18 DEF bad

LEMMA WriteFailsKeeps ==
  ASSUME DiscOK, AllThere, SelectionOK, MemOK, WriteFails
  PROVE  DiscOK' /\ Counted(file', held', drives', drivelen', failed \union {drive})
<1> DEFINE now == Behind(file[drive], held[drive])
           len == drivelen[drive]
           o == Offset
           bad == failed \union {drive}
           top == Longer(len, o)
<1>1. PICK part \in Torn(mem[dma]) : file' = [file EXCEPT ![drive] = Stored(Filled, o, part)]
  BY DEF WriteFails
<1>2. /\ drive \in drives /\ Offset >= 0 /\ drives' = drives
      /\ held' = [held EXCEPT ![drive] = Nothing]
      /\ drivelen' = [drivelen EXCEPT ![drive] = top]
  BY DEF WriteFails
<1>3. part \in Seq(Units) /\ Len(part) \in Nat /\ Len(part) < SectorSize
  BY DmaIs, TornIs
<1>4. /\ o \in Nat /\ IsWhole(o) /\ len \in Nat /\ IsWhole(len)
      /\ Len(now) \in Nat /\ Len(now) < len + SectorSize
      /\ Filled \in Seq(Units) /\ Len(Filled) = IF o > len THEN o ELSE Len(now)
  BY <1>2, FilledIs
<1> DEFINE s == Stored(Filled, o, part)
<1> HIDE DEF now, len, o
<1>5. /\ s \in Seq(Units)
      /\ Len(s) = IF Len(part) > 0 /\ o + Len(part) > Len(Filled) THEN o + Len(part) ELSE Len(Filled)
  BY <1>3, <1>4, StoredLen
<1>6. top \in Nat /\ IsWhole(top) /\ Len(s) < top + SectorSize
  BY <1>3, <1>4, <1>5, SectorIsWhole DEF Longer
<1> HIDE DEF s, top
<1>7. DriveFits(s, Nothing, top)
  BY <1>6 DEF DriveFits
<1>8. failed \subseteq bad /\ drive \in bad /\ Nothing \in Held
  BY HeldIs
<1> HIDE DEF bad
<1>9. file' = [file EXCEPT ![drive] = s]
  BY <1>1 DEF s
<1>10. DiscOK' /\ Counted(file', held', drives', drivelen', bad)
  BY <1>2, <1>5, <1>6, <1>7, <1>8, <1>9, Rewritten
<1> QED
  BY <1>10 DEF bad

LEMMA WriteDoneKeeps ==
  ASSUME DiscOK, AllThere, SelectionOK, MemOK, WriteDone
  PROVE  DiscOK' /\ Counted(file', held', drives', drivelen', failed)
<1> DEFINE now == Behind(file[drive], held[drive])
           len == drivelen[drive]
           o == Offset
           top == Longer(len, o + SectorSize)
           h == [at |-> o, data |-> mem[dma]]
<1>1. /\ drive \in drives /\ Offset >= 0 /\ drives' = drives
      /\ file' = [file EXCEPT ![drive] = Filled]
      /\ held' = [held EXCEPT ![drive] = h]
      /\ drivelen' = [drivelen EXCEPT ![drive] = top]
  BY DEF WriteDone
<1>2. /\ o \in Nat /\ IsWhole(o) /\ len \in Nat /\ IsWhole(len)
      /\ Len(now) \in Nat /\ Len(now) < len + SectorSize
      /\ Filled \in Seq(Units) /\ Len(Filled) = IF o > len THEN o ELSE Len(now)
  BY <1>1, FilledIs
<1>3. h \in Held /\ h.at = o /\ h.data \in Seq(Units) /\ Len(h.data) = SectorSize
  BY <1>2, DmaIs, HeldIs
<1>4. IsWhole(o + SectorSize)
  BY <1>2, SectorIsWhole, WholeSum
<1>5. drive \notin failed => len <= Len(now)
  BY <1>1 DEF AllThere, Counted, len, now
<1> HIDE DEF now, len, o, h
<1>6. /\ top \in Nat /\ IsWhole(top) /\ Len(Filled) < top + SectorSize /\ o + SectorSize <= top
      /\ top = len \/ top = o + SectorSize
  BY <1>2, <1>4, SectorIsWhole DEF Longer
<1>7. drive \in failed \/ top <= Len(Behind(Filled, h))
  <2>1. Len(Behind(Filled, h))
          = IF Len(h.data) > 0 /\ h.at + Len(h.data) > Len(Filled)
              THEN h.at + Len(h.data) ELSE Len(Filled)
    BY <1>2, <1>3, BehindIs
  <2>2. o + SectorSize <= Len(Behind(Filled, h)) /\ Len(Filled) <= Len(Behind(Filled, h))
    BY <1>2, <1>3, <2>1, SectorIsWhole
  <2>3. Len(Behind(Filled, h)) \in Nat
    BY <1>2, <1>3, BehindIs
  <2>4. ASSUME drive \notin failed, top = len, top # o + SectorSize PROVE len <= Len(Filled)
    <3>1. ~(o > len)
      BY <1>2, <2>4, SectorIsWhole DEF Longer
    <3> QED
      BY <1>2, <1>5, <2>4, <3>1
  <2>5. CASE top = o + SectorSize
    BY <2>2, <2>5
  <2>6. CASE drive \notin failed /\ top = len /\ top # o + SectorSize
    <3>1. len <= Len(Filled) /\ Len(Filled) \in Nat
      BY <1>2, <2>4, <2>6
    <3> QED
      BY <1>2, <2>2, <2>3, <2>6, <3>1
  <2> QED
    BY <1>6, <2>5, <2>6
<1> HIDE DEF top
<1>8. DriveFits(Filled, h, top)
  BY <1>3, <1>2, <1>6 DEF DriveFits
<1> QED
  BY <1>1, <1>2, <1>3, <1>6, <1>7, <1>8, Rewritten

\* A transfer that fails is remembered.
LEMMA TransferKeepsDisc ==
  ASSUME DiscOK, AllThere, SelectionOK, MemOK, RegsOK, rdsector \/ wrsector,
         failed' = IF a' = 1 THEN failed \union {drive} ELSE failed
  PROVE  DiscOK' /\ AllThere' /\ MemOK' /\ a' \in {0, 1} /\ UNCHANGED <<selection, bc, hl, unixState>>
<1>1. ASSUME Counted(file', held', drives', drivelen', failed') PROVE AllThere'
  BY <1>1 DEF AllThere
<1>2. ASSUME UNCHANGED discState PROVE DiscOK' /\ AllThere'
  <2>1. failed \subseteq failed'
    OBVIOUS
  <2> QED
    BY <1>2, <2>1 DEF discState, DiscOK, AllThere, Counted
<1>3. ASSUME UNCHANGED mem PROVE MemOK'
  BY <1>3 DEF MemOK
<1>4. CASE rdsector
  <2>1. CASE NotOpen /\ UNCHANGED mem
    BY <1>2, <1>3, <1>4, <2>1 DEF NotOpen, rdsector
  <2>2. CASE SeekFails /\ UNCHANGED mem
    <3>1. a' = 1
      BY <2>2 DEF SeekFails
    <3> QED
      BY <1>1, <1>3, <1>4, <2>2, <3>1, SeekFailsKeeps DEF rdsector
  <2>3. CASE ReadBeyond
    <3>1. MemOK'
      BY <2>3, BlankIs DEF ReadBeyond, MemOK, SelectionOK
    <3> QED
      BY <1>2, <1>4, <2>3, <3>1 DEF ReadBeyond, rdsector
  <2>4. CASE ReadWithin
    <3>1. failed \subseteq failed'
      OBVIOUS
    <3> QED
      BY <1>1, <1>4, <2>4, <3>1, ReadWithinKeeps DEF rdsector
  <2> QED
    BY <1>4, <2>1, <2>2, <2>3, <2>4 DEF rdsector
<1>5. CASE wrsector
  <2>1. UNCHANGED <<selection, mem, bc, hl, unixState>>
    BY <1>5 DEF wrsector
  <2>2. CASE NotOpen
    BY <1>2, <1>3, <2>1, <2>2 DEF NotOpen
  <2>3. CASE SeekFails
    BY <1>1, <1>3, <2>1, <2>3, SeekFailsKeeps DEF SeekFails
  <2>4. CASE WriteGapFails
    BY <1>1, <1>3, <2>1, <2>4, WriteGapKeeps DEF WriteGapFails
  <2>5. CASE WriteFails
    BY <1>1, <1>3, <2>1, <2>5, WriteFailsKeeps DEF WriteFails
  <2>6. CASE WriteDone
    BY <1>1, <1>3, <2>1, <2>6, WriteDoneKeeps DEF WriteDone
  <2> QED
    BY <1>5, <2>2, <2>3, <2>4, <2>5, <2>6 DEF wrsector
<1> QED
  BY <1>4, <1>5

-----------------------------------------------------------------------------
(* The files of the host, and the FCB.                                     *)

\* The quotient and the remainder that a number is made of.
LEMMA QuotientOf ==
  ASSUME NEW n \in Nat \ {0}, NEW q \in Nat, NEW r \in 0 .. n - 1
  PROVE  (n * q + r) \div n = q /\ (n * q + r) % n = r
<1> DEFINE x == n * q + r
           d == x \div n
           m == x % n
<1>1. n * q \in Nat /\ x \in Nat
  OBVIOUS
<1>2. d \in Nat /\ m \in 0 .. n - 1 /\ x = n * d + m
  BY <1>1
<1> HIDE DEF d, m
<1>3. ~(d < q)
  <2> SUFFICES ASSUME d < q PROVE FALSE
    OBVIOUS
  <2>1. q - d - 1 \in Nat
    BY <1>2
  <2>2. n * (q - d - 1) \in Nat /\ n * q = n * d + n * (q - d - 1) + n /\ n * d \in Nat
    BY <1>2, <2>1
  <2> QED
    BY <1>1, <1>2, <2>2
<1>4. ~(q < d)
  <2> SUFFICES ASSUME q < d PROVE FALSE
    OBVIOUS
  <2>1. d - q - 1 \in Nat
    BY <1>2
  <2>2. n * (d - q - 1) \in Nat /\ n * d = n * q + n * (d - q - 1) + n
    BY <1>2, <2>1
  <2> QED
    BY <1>1, <1>2, <2>2
<1>5. d = q
  BY <1>2, <1>3, <1>4
<1>6. m = r
  BY <1>1, <1>2, <1>5
<1> QED
  BY <1>5, <1>6 DEF d, m

\* A pointer that an FCB gives back is one that it would give back again.
LEMMA RestoredIs ==
  ASSUME NEW p \in Nat, NEW r, r = Restored(p)
  PROVE  r \in Nat /\ (r # 0 => Restored(r) = r)
<1> DEFINE low == p % IntRange
           q == WordRange \div IntRange
           half == IntRange \div 2
<1>1. IntRange \in Nat \ {0} /\ WordRange \in Nat \ {0} /\ WordRange % IntRange = 0
  BY BiosAssumption
<1>2. low \in 0 .. IntRange - 1 /\ half \in Nat /\ half <= IntRange
  BY <1>1
<1>3. q \in Nat /\ WordRange = IntRange * q
  BY <1>1
<1>4. q # 0
  BY <1>1, <1>3
<1>5. r = IF low < half THEN low ELSE WordRange - IntRange + low
  BY DEF Restored
<1>6. Restored(r) = IF r % IntRange < half THEN r % IntRange
                    ELSE WordRange - IntRange + (r % IntRange)
  BY DEF Restored
<1> HIDE DEF low, q, half
<1>7. r \in Nat /\ r % IntRange = low
  <2>1. CASE low < half
    <3>1. low % IntRange = low
      BY <1>1, <1>2
    <3> QED
      BY <1>2, <1>5, <2>1, <3>1
  <2>2. CASE ~(low < half)
    <3> DEFINE k == q - 1
    <3>1. k \in Nat /\ IntRange * q = IntRange * k + IntRange
      BY <1>1, <1>3, <1>4
    <3> HIDE DEF k
    <3>2. IntRange * k \in Nat /\ r = IntRange * k + low
      BY <1>1, <1>2, <1>3, <1>5, <2>2, <3>1
    <3>3. (IntRange * k + low) % IntRange = low
      BY <1>1, <1>2, <3>1, QuotientOf
    <3> QED
      BY <1>2, <3>2, <3>3
  <2> QED
    BY <2>1, <2>2
<1> QED
  BY <1>5, <1>6, <1>7

Fcbs == [name : UnixNames, fd : Nat, blk : Nat, size : Nat]

Files(names) == [name : names, held : Held]

UnixOK ==
  /\ DOMAIN unix \subseteq UnixNames
  /\ unix \in [DOMAIN unix -> Seq(Units)]
  /\ DOMAIN fds \subseteq Addresses
  /\ fds \in [DOMAIN fds -> Files(DOMAIN unix)]
  /\ fcb \in Fcbs
  /\ fcb.fd # 0 => Restored(fcb.fd) = fcb.fd

FcbWith(n, fd, blk, size) == [name |-> n, fd |-> fd, blk |-> blk, size |-> size]

LEMMA FcbWithIs ==
  ASSUME NEW n \in UnixNames, NEW fd \in Nat, NEW blk \in Nat, NEW size \in Nat
  PROVE  LET f == FcbWith(n, fd, blk, size)
         IN  f \in Fcbs /\ f.name = n /\ f.fd = fd /\ f.blk = blk /\ f.size = size
  BY DEF FcbWith, Fcbs

LEMMA FcbEqual ==
  ASSUME NEW n \in UnixNames, NEW fd \in Nat, NEW blk \in Nat, NEW size \in Nat,
         NEW g, g = FcbWith(n, fd, blk, size)
  PROVE  g \in Fcbs /\ g.name = n /\ g.fd = fd /\ g.blk = blk /\ g.size = size
  BY FcbWithIs

LEMMA FcbFields ==
  ASSUME NEW f \in Fcbs
  PROVE  f.name \in UnixNames /\ f.fd \in Nat /\ f.blk \in Nat /\ f.size \in Nat
  BY DEF Fcbs

LEMMA FcbExcept ==
  ASSUME NEW f \in Fcbs, NEW n \in Nat
  PROVE  /\ [f EXCEPT !.fd = n] = FcbWith(f.name, n, f.blk, f.size)
         /\ [f EXCEPT !.blk = n] = FcbWith(f.name, f.fd, n, f.size)
         /\ [f EXCEPT !.size = n] = FcbWith(f.name, f.fd, f.blk, n)
<1>1. [f EXCEPT !.fd = n] = FcbWith(f.name, n, f.blk, f.size)
  BY DEF Fcbs, FcbWith
<1>2. [f EXCEPT !.blk = n] = FcbWith(f.name, f.fd, n, f.size)
  BY DEF Fcbs, FcbWith
<1>3. [f EXCEPT !.size = n] = FcbWith(f.name, f.fd, f.blk, n)
  BY DEF Fcbs, FcbWith
<1> QED
  BY <1>1, <1>2, <1>3

LEMMA FcbRewritten ==
  ASSUME NEW f \in Fcbs, NEW y \in Nat, NEW n \in Nat
  PROVE  [f EXCEPT !.blk = y, !.size = n] = FcbWith(f.name, f.fd, y, n)
<1> DEFINE g == [f EXCEPT !.blk = y]
<1>1. g = FcbWith(f.name, f.fd, y, f.size)
  BY FcbExcept
<1>2. [f EXCEPT !.blk = y, !.size = n] = [g EXCEPT !.size = n]
  OBVIOUS
<1> HIDE DEF g
<1>3. g \in Fcbs /\ g.blk = y /\ g.fd = f.fd /\ g.name = f.name
  BY <1>1, FcbWithIs, FcbFields
<1>4. [g EXCEPT !.size = n] = FcbWith(g.name, g.fd, g.blk, n)
  BY <1>3, FcbExcept
<1> QED
  BY <1>2, <1>3, <1>4

LEMMA FcbIs ==
  ASSUME NEW f \in Fcbs, NEW n \in Nat
  PROVE  NextBlock(f, n) = FcbWith(f.name, f.fd, f.blk + 1, n)
<1>1. f.blk + 1 \in Nat
  BY FcbFields
<1>2. NextBlock(f, n) = [f EXCEPT !.blk = f.blk + 1, !.size = n]
  BY DEF NextBlock
<1> QED
  BY <1>1, <1>2, FcbRewritten

LEMMA FcbReopened ==
  ASSUME NEW f \in Fcbs, NEW m \in Nat
  PROVE  [f EXCEPT !.fd = m, !.blk = 0, !.size = 0] = FcbWith(f.name, m, 0, 0)
<1> DEFINE g == [f EXCEPT !.fd = m]
           k == 0
<1>1. k \in Nat
  OBVIOUS
<1> HIDE DEF k
<1>2. [f EXCEPT !.fd = m, !.blk = k, !.size = k] = [g EXCEPT !.blk = k, !.size = k]
  OBVIOUS
<1>3. g = FcbWith(f.name, m, f.blk, f.size)
  BY FcbExcept
<1> HIDE DEF g
<1>4. g \in Fcbs /\ g.fd = m /\ g.name = f.name
  BY <1>3, FcbWithIs, FcbFields
<1>5. [g EXCEPT !.blk = k, !.size = k] = FcbWith(g.name, g.fd, k, k)
  BY <1>1, <1>4, FcbRewritten
<1>6. [f EXCEPT !.fd = m, !.blk = k, !.size = k] = FcbWith(f.name, m, k, k)
  BY <1>2, <1>4, <1>5
<1> QED
  BY <1>6 DEF k

LEMMA FilesIs ==
  /\ \A names : \A f \in Files(names) : f.name \in names /\ f.held \in Held
  /\ \A names : \A n \in names, h \in Held :
        LET f == [name |-> n, held |-> h] IN f \in Files(names) /\ f.name = n /\ f.held = h
  /\ \A names : \A f \in Files(names) :
        \A h \in Held : [f EXCEPT !.held = h] = [name |-> f.name, held |-> h]
<1>1. \A names : \A f \in Files(names) : f.name \in names /\ f.held \in Held
  BY DEF Files
<1>2. \A names : \A n \in names, h \in Held :
        LET f == [name |-> n, held |-> h] IN f \in Files(names) /\ f.name = n /\ f.held = h
  BY DEF Files
<1>3. \A names : \A f \in Files(names) :
        \A h \in Held : [f EXCEPT !.held = h] = [name |-> f.name, held |-> h]
  BY DEF Files
<1> QED
  BY <1>1, <1>2, <1>3

\* A file that is open.
LEMMA OpenIs ==
  ASSUME UnixOK, Open(fcb.fd)
  PROVE  /\ fds[fcb.fd] \in Files(DOMAIN unix)
         /\ Name \in DOMAIN unix /\ Unsaved \in Held /\ unix[Name] \in Seq(Units)
         /\ Holding \in Seq(Units) /\ Block \in Nat /\ fcb.blk \in Nat
         /\ Restored(fcb.fd) = fcb.fd /\ fcb.fd \in DOMAIN fds /\ fcb.fd # 0
<1>1. fds[fcb.fd] \in Files(DOMAIN unix)
  BY DEF UnixOK, Open
<1>2. Name \in DOMAIN unix /\ Unsaved \in Held
  BY <1>1, FilesIs DEF Name, Unsaved
<1>3. unix[Name] \in Seq(Units)
  BY <1>2 DEF UnixOK
<1>4. Holding \in Seq(Units)
  BY <1>2, <1>3, BehindIs DEF Holding
<1>5. fcb.blk \in Nat
  BY FcbFields DEF UnixOK
<1>6. Block \in Nat
  BY <1>5, BiosAssumption DEF Block
<1>7. fcb.fd \in Addresses /\ fcb.fd # 0
  BY BiosAssumption DEF UnixOK, Open
<1> QED
  BY <1>1, <1>2, <1>3, <1>4, <1>5, <1>6, <1>7 DEF UnixOK, Open

\* What becomes of the files when one is written, or not, and its FCB moves on.
LEMMA FileMoves ==
  ASSUME UnixOK, Open(fcb.fd), NEW s \in Seq(Units), NEW h \in Held,
         unix' = [unix EXCEPT ![Name] = s], Holds(h),
         fcb' = fcb \/ \E n \in Nat : fcb' = NextBlock(fcb, n)
  PROVE  /\ UnixOK' /\ DOMAIN fds' = DOMAIN fds /\ fcb'.fd = fcb.fd
         /\ fds'[fcb.fd] = [name |-> Name, held |-> h] /\ unix'[Name] = s /\ fcb'.name = fcb.name
         /\ DOMAIN unix' = DOMAIN unix
<1> DEFINE f == [name |-> Name, held |-> h]
<1>1. fds[fcb.fd] \in Files(DOMAIN unix) /\ Name \in DOMAIN unix
  BY OpenIs
<1>2. f \in Files(DOMAIN unix)
  BY <1>1, FilesIs
<1>3. [fds[fcb.fd] EXCEPT !.held = h] = f
  BY <1>1, FilesIs DEF Name
<1>4. fds' = [fds EXCEPT ![fcb.fd] = f]
  BY <1>3 DEF Holds
<1> HIDE DEF f
<1>5. /\ fds \in [DOMAIN fds -> Files(DOMAIN unix)] /\ fcb.fd \in DOMAIN fds
      /\ DOMAIN unix \subseteq UnixNames /\ unix \in [DOMAIN unix -> Seq(Units)]
      /\ DOMAIN fds \subseteq Addresses /\ fcb \in Fcbs
  BY DEF UnixOK, Open
<1>6. DOMAIN fds' = DOMAIN fds /\ fds' \in [DOMAIN fds -> Files(DOMAIN unix)] /\ fds'[fcb.fd] = f
  BY <1>2, <1>4, <1>5
<1>7. DOMAIN unix' = DOMAIN unix /\ unix' \in [DOMAIN unix -> Seq(Units)] /\ unix'[Name] = s
  BY <1>1, <1>5
<1>8. fcb' \in Fcbs /\ fcb'.fd = fcb.fd /\ fcb'.name = fcb.name
  <2>1. CASE fcb' = fcb
    BY <1>5, <2>1
  <2>2. ASSUME NEW n \in Nat, fcb' = NextBlock(fcb, n)
        PROVE  fcb' \in Fcbs /\ fcb'.fd = fcb.fd /\ fcb'.name = fcb.name
    <3>1. fcb' = FcbWith(fcb.name, fcb.fd, fcb.blk + 1, n)
      BY <1>5, <2>2, FcbIs
    <3>2. fcb.name \in UnixNames /\ fcb.fd \in Nat /\ fcb.blk + 1 \in Nat
      BY <1>5, FcbFields
    <3> QED
      BY <3>1, <3>2, FcbEqual, SMTT(40)
  <2> QED
    BY <2>1, <2>2
<1>9. fcb'.fd # 0 => Restored(fcb'.fd) = fcb'.fd
  BY <1>8 DEF UnixOK
<1>10. UnixOK'
  BY <1>5, <1>6, <1>7, <1>8, <1>9 DEF UnixOK
<1> QED
  BY <1>6, <1>7, <1>8, <1>10 DEF f

LEMMA OpensKeeps ==
  ASSUME UnixOK, NEW files, DOMAIN files \subseteq UnixNames,
         files \in [DOMAIN files -> Seq(Units)],
         DOMAIN unix \subseteq DOMAIN files, fcb.name \in DOMAIN files, Opens(files)
  PROVE  /\ UnixOK' /\ a' = 0 /\ unix' = files
         /\ fcb' = FcbWith(fcb.name, fcb'.fd, 0, 0) /\ fcb' \in Fcbs
         /\ \E p \in Addresses \ DOMAIN fds :
              /\ DOMAIN fds' = DOMAIN fds \union {p} /\ fcb'.fd = Restored(p)
              /\ fds'[p] = [name |-> fcb.name, held |-> Nothing]
<1> DEFINE new == [name |-> fcb.name, held |-> Nothing]
<1>1. PICK p \in Addresses \ DOMAIN fds :
        /\ fds' = [q \in DOMAIN fds \union {p} |-> IF q = p THEN new ELSE fds[q]]
        /\ fcb' = [fcb EXCEPT !.fd = Restored(p), !.blk = 0, !.size = 0]
  BY DEF Opens
<1>2. p \in Nat /\ p # 0
  BY BiosAssumption
<1>3. Restored(p) \in Nat /\ (Restored(p) # 0 => Restored(Restored(p)) = Restored(p))
  BY <1>2, RestoredIs
<1>4. fcb \in Fcbs /\ fcb.name \in UnixNames
  BY FcbFields DEF UnixOK
<1> DEFINE r == Restored(p)
<1>5. fcb' = FcbWith(fcb.name, r, 0, 0)
  <2>1. r \in Nat /\ fcb' = [fcb EXCEPT !.fd = r, !.blk = 0, !.size = 0]
    BY <1>1, <1>3
  <2> HIDE DEF r
  <2> QED
    BY <1>4, <2>1, FcbReopened
<1>6. fcb' \in Fcbs /\ fcb'.fd = r
  <2> DEFINE nm == fcb.name
             z == 0
             new1 == fcb'
  <2>1. r \in Nat /\ z \in Nat /\ nm \in UnixNames /\ new1 = FcbWith(nm, r, z, z)
    BY <1>3, <1>4, <1>5
  <2> HIDE DEF r, nm, z, new1
  <2>2. new1 \in Fcbs /\ new1.fd = r
    BY <2>1, FcbEqual
  <2> QED
    BY <2>2 DEF new1
<1>7. new \in Files(DOMAIN files)
  BY HeldIs, FilesIs
<1> HIDE DEF new
<1>8. \A q \in DOMAIN fds : fds[q] \in Files(DOMAIN files)
  <2>1. \A q \in DOMAIN fds : fds[q] \in Files(DOMAIN unix)
    BY DEF UnixOK
  <2> QED
    BY <2>1 DEF Files
<1>9. /\ DOMAIN fds' = DOMAIN fds \union {p} /\ fds'[p] = new
      /\ fds' \in [DOMAIN fds' -> Files(DOMAIN files)]
  BY <1>1, <1>7, <1>8
<1>10. unix' = files /\ a' = 0
  BY DEF Opens
<1>11. DOMAIN fds' \subseteq Addresses
  BY <1>9 DEF UnixOK
<1>12. UnixOK'
  BY <1>3, <1>6, <1>9, <1>10, <1>11 DEF UnixOK
<1> QED
  BY <1>5, <1>6, <1>9, <1>10, <1>12 DEF new

\* The FCB's pointer is that of an open file, or one was cut.
FileReady == Open(fcb.fd) \/ ~PointersFit

LEMMA OpenUnixKeeps ==
  ASSUME UnixOK, openunix \/ createunix
  PROVE  /\ UnixOK' /\ a' \in {0, 255}
         /\ DOMAIN fds \subseteq DOMAIN fds'
         /\ a' = 0 => FileReady'
<1>1. fcb.name \in UnixNames /\ DOMAIN unix \subseteq UnixNames
      /\ unix \in [DOMAIN unix -> Seq(Units)]
  BY FcbFields DEF UnixOK
<1>2. CASE Refuses
  BY <1>2 DEF Refuses, unixState, UnixOK
<1>3. ASSUME NEW files, DOMAIN files \subseteq UnixNames,
             files \in [DOMAIN files -> Seq(Units)],
             DOMAIN unix \subseteq DOMAIN files, fcb.name \in DOMAIN files, Opens(files)
      PROVE  UnixOK' /\ a' = 0 /\ DOMAIN fds \subseteq DOMAIN fds' /\ FileReady'
  <2>1. PICK p \in Addresses \ DOMAIN fds :
          DOMAIN fds' = DOMAIN fds \union {p} /\ fcb'.fd = Restored(p)
    BY <1>3, OpensKeeps
  <2>2. FileReady'
    <3>1. CASE Restored(p) = p
      BY <2>1, <3>1 DEF FileReady, Open
    <3>2. CASE Restored(p) # p
      BY <2>1, <3>2 DEF FileReady, PointersFit
    <3> QED
      BY <3>1, <3>2
  <2> QED
    BY <1>3, <2>1, <2>2, OpensKeeps
<1>4. CASE openunix
  BY <1>1, <1>2, <1>3, <1>4 DEF openunix
<1>5. CASE createunix
  <2> DEFINE files == [n \in DOMAIN unix \union {fcb.name} |->
                         IF n = fcb.name THEN <<>> ELSE unix[n]]
  <2>1. /\ DOMAIN files = DOMAIN unix \union {fcb.name}
        /\ files \in [DOMAIN files -> Seq(Units)]
    <3>1. <<>> \in Seq(Units)
      OBVIOUS
    <3> QED
      BY <1>1, <3>1
  <2>2. Opens(files) \/ Refuses
    BY <1>5 DEF createunix
  <2> HIDE DEF files
  <2> QED
    BY <1>1, <1>2, <1>3, <2>1, <2>2
<1> QED
  BY <1>4, <1>5

LEMMA BlockFailsKeeps ==
  ASSUME UnixOK, Open(fcb.fd), BlockFails
  PROVE  UnixOK' /\ DOMAIN fds' = DOMAIN fds /\ fcb'.fd = fcb.fd /\ a' = 255 /\ UNCHANGED mem
<1>1. PICK n \in Reach(Unsaved) : unix' = [unix EXCEPT ![Name] = Put(@, Unsaved, n)]
  BY DEF BlockFails
<1> DEFINE s == Put(unix[Name], Unsaved, n)
<1>2. s \in Seq(Units) /\ Nothing \in Held
  BY OpenIs, PutIs, HeldIs
<1>3. unix' = [unix EXCEPT ![Name] = s] /\ Holds(Nothing) /\ a' = 255 /\ UNCHANGED <<mem, fcb>>
  BY <1>1 DEF BlockFails
<1> HIDE DEF s
<1> QED
  BY <1>2, <1>3, FileMoves

LEMMA RdunixKeeps ==
  ASSUME UnixOK, MemOK, SelectionOK, rdunix
  PROVE  /\ UnixOK' /\ MemOK' /\ a' \in {0, 255}
         /\ DOMAIN fds' = DOMAIN fds /\ fcb'.fd = fcb.fd
<1>1. Open(fcb.fd)
  BY DEF rdunix
<1>2. CASE BlockFails
  BY <1>1, <1>2, BlockFailsKeeps DEF MemOK
<1>3. CASE RecordRead
  <2> DEFINE record == Got(Holding, Block)
             filler == [i \in 1 .. SectorSize |-> CtrlZ]
  <2>1. Holding \in Seq(Units) /\ Block \in Nat /\ Nothing \in Held
    BY <1>1, OpenIs, HeldIs
  <2>2. record \in Seq(Units) /\ Len(record) \in Nat
    BY <2>1, GotIs
  <2>3. filler \in [1 .. SectorSize -> Units]
    BY DEF CtrlZ, Units
  <2>4. /\ unix' = [unix EXCEPT ![Name] = Holding] /\ Holds(Nothing)
        /\ IF record = <<>> THEN a' = 255 /\ UNCHANGED <<mem, fcb>>
           ELSE /\ mem' = [mem EXCEPT ![dma] = Over(record, filler)]
                /\ fcb' = NextBlock(fcb, Len(record)) /\ a' = 0
    BY <1>3 DEF RecordRead
  <2> HIDE DEF record, filler
  <2>5. fcb' = fcb \/ \E n \in Nat : fcb' = NextBlock(fcb, n)
    BY <2>2, <2>4
  <2>6. MemOK'
    <3>1. Over(record, filler) \in [1 .. SectorSize -> Units]
      BY <2>2, <2>3, OverIs
    <3> QED
      BY <2>4, <3>1 DEF MemOK, SelectionOK
  <2>7. UnixOK' /\ DOMAIN fds' = DOMAIN fds /\ fcb'.fd = fcb.fd
    BY <1>1, <2>1, <2>4, <2>5, FileMoves
  <2> QED
    BY <2>4, <2>6, <2>7
<1> QED
  BY <1>2, <1>3 DEF rdunix

LEMMA WrunixKeeps ==
  ASSUME UnixOK, MemOK, SelectionOK, wrunix
  PROVE  /\ UnixOK' /\ UNCHANGED mem /\ a' \in {0, 255}
         /\ DOMAIN fds' = DOMAIN fds /\ fcb'.fd = fcb.fd
<1>1. Open(fcb.fd)
  BY DEF wrunix
<1>2. Holding \in Seq(Units) /\ Block \in Nat /\ Nothing \in Held
  BY <1>1, OpenIs, HeldIs
<1>3. CASE BlockFails
  BY <1>1, <1>3, BlockFailsKeeps
<1>4. CASE RecordWritten
  <2> DEFINE h == [at |-> Block, data |-> mem[dma]]
  <2>1. h \in Held
    BY <1>2, DmaIs, HeldIs
  <2>2. /\ unix' = [unix EXCEPT ![Name] = Holding] /\ Holds(h)
        /\ fcb' = NextBlock(fcb, SectorSize) /\ a' = 0 /\ UNCHANGED mem
    BY <1>4 DEF RecordWritten
  <2> HIDE DEF h
  <2> QED
    BY <1>1, <1>2, <2>1, <2>2, SectorIsWhole, FileMoves
<1>5. CASE RecordFails
  <2>1. PICK part \in Torn(mem[dma]) : unix' = [unix EXCEPT ![Name] = Stored(Holding, Block, part)]
    BY <1>5 DEF RecordFails
  <2> DEFINE s == Stored(Holding, Block, part)
  <2>2. s \in Seq(Units)
    <3>1. part \in Seq(Units)
      BY DmaIs, TornIs
    <3> QED
      BY <1>2, <3>1, StoredLen
  <2>3. /\ unix' = [unix EXCEPT ![Name] = s] /\ Holds(Nothing) /\ a' = 255 /\ UNCHANGED <<mem, fcb>>
    BY <1>5, <2>1 DEF RecordFails
  <2> HIDE DEF s
  <2> QED
    BY <1>1, <1>2, <2>2, <2>3, FileMoves
<1> QED
  BY <1>3, <1>4, <1>5 DEF wrunix

LEMMA CloseunixKeeps ==
  ASSUME UnixOK, closeunix
  PROVE  /\ UnixOK' /\ a' \in {0, 255} /\ UNCHANGED <<mem, fcb>>
         /\ DOMAIN fds' = DOMAIN fds \ {fcb.fd} /\ Restored(fcb.fd) = fcb.fd
<1>1. Open(fcb.fd) /\ UNCHANGED <<mem, fcb>>
  BY DEF closeunix
<1>2. PICK n \in Reach(Unsaved) :
        /\ unix' = [unix EXCEPT ![Name] = Put(@, Unsaved, n)]
        /\ a' \in CloseAnswer(Unsaved, n)
  BY DEF closeunix
<1>3. a' \in {0, 255}
  BY <1>2 DEF CloseAnswer
<1> DEFINE s == Put(unix[Name], Unsaved, n)
<1>4. s \in Seq(Units) /\ Name \in DOMAIN unix /\ Restored(fcb.fd) = fcb.fd
  BY <1>1, OpenIs, PutIs
<1>5. unix' = [unix EXCEPT ![Name] = s]
  BY <1>2
<1> HIDE DEF s
<1>6. DOMAIN unix' = DOMAIN unix /\ unix' \in [DOMAIN unix -> Seq(Units)]
  BY <1>4, <1>5 DEF UnixOK
<1>7. /\ DOMAIN fds' = DOMAIN fds \ {fcb.fd}
      /\ fds' \in [DOMAIN fds' -> Files(DOMAIN unix)]
  <2>1. fds' = [p \in DOMAIN fds \ {fcb.fd} |-> fds[p]]
    BY DEF closeunix
  <2> QED
    BY <2>1 DEF UnixOK
<1>8. UnixOK'
  BY <1>1, <1>6, <1>7 DEF UnixOK
<1> QED
  BY <1>1, <1>3, <1>4, <1>7, <1>8

-----------------------------------------------------------------------------
(* Every function of the BIOS, served with whatever the registers hold.    *)

BiosOK == DiscOK /\ SelectionOK /\ MemOK /\ RegsOK /\ UnixOK

LEMMA StartKeeps ==
  ASSUME BiosOK, NEW d \in Drives, StartFrom(d), failed' = {}
  PROVE  BiosOK' /\ AllThere' /\ UNCHANGED unixState /\ bc' = d
<1>1. d \in Nat
  BY BiosAssumption
<1>2. /\ DiscOK' /\ Counted(file', held', drives', drivelen', {})
      /\ drive' \in Drives /\ track' \in Nat /\ sector' \in Nat /\ hl' \in Nat
      /\ dma' = DefaultDma /\ bc' = d /\ UNCHANGED <<mem, a, unixState>>
  BY StartKeepsDisc DEF BiosOK
<1>3. AllThere'
  BY <1>2 DEF AllThere
<1>4. SelectionOK'
  BY <1>2, BiosAssumption DEF SelectionOK
<1>5. MemOK' /\ RegsOK'
  BY <1>1, <1>2 DEF BiosOK, MemOK, RegsOK
<1>6. UnixOK'
  BY <1>2 DEF BiosOK, UnixOK, unixState
<1> QED
  BY <1>2, <1>3, <1>4, <1>5, <1>6 DEF BiosOK

LEMMA PlacingKeeps ==
  ASSUME BiosOK,
         home \/ settrack \/ setsector \/ secttran \/ (setdma /\ bc \in DmaAddr)
  PROVE  BiosOK' /\ UNCHANGED <<discState, unixState>> /\ a' = a
<1>1. UNCHANGED <<discState, drive, mem, a, bc, unixState>>
  BY DEF home, settrack, setsector, secttran, setdma, selection
<1>2. DiscOK' /\ MemOK' /\ UnixOK'
  BY <1>1 DEF BiosOK, DiscOK, MemOK, UnixOK, discState, unixState
<1>3. SelectionOK'
  <2>1. CASE home \/ settrack \/ setsector \/ (setdma /\ bc \in DmaAddr)
    BY <2>1 DEF BiosOK, SelectionOK, RegsOK, home, settrack, setsector, setdma
  <2>2. CASE secttran
    BY <2>2 DEF BiosOK, SelectionOK, secttran, selection
  <2> QED
    BY <2>1, <2>2
<1>4. hl' \in Nat
  <2>1. CASE UNCHANGED hl
    BY <2>1 DEF BiosOK, RegsOK
  <2>2. CASE secttran
    <3>1. hl' \in Translated(drive, bc) /\ bc \in Nat
      BY <2>2 DEF BiosOK, RegsOK, secttran
    <3>2. bc < Len(sectorxlat) => sectorxlat[bc + 1] \in Nat
      <4>1. bc < Len(sectorxlat) => bc + 1 \in 1 .. Len(sectorxlat)
        BY <3>1, BiosAssumption
      <4> QED
        BY <4>1, ElementOfSeq, BiosAssumption
    <3>3. CASE drive \in HardDiscs
      BY <3>1, <3>3 DEF Translated
    <3>4. CASE drive \notin HardDiscs /\ bc < Len(sectorxlat)
      BY <3>1, <3>2, <3>4 DEF Translated
    <3>5. CASE drive \notin HardDiscs /\ ~(bc < Len(sectorxlat))
      BY <3>1, <3>5, BiosAssumption DEF Translated
    <3> QED
      BY <3>3, <3>4, <3>5
  <2> QED
    BY <2>1, <2>2 DEF home, settrack, setsector, setdma
<1>5. RegsOK'
  BY <1>1, <1>4 DEF BiosOK, RegsOK
<1> QED
  BY <1>1, <1>2, <1>3, <1>5 DEF BiosOK

OpenFns == {"openunix", "createunix"}

LEMMA FileKeeps ==
  ASSUME BiosOK, AllThere, openunix \/ createunix \/ rdunix \/ wrunix \/ closeunix,
         UnixOK', a' \in 0 .. 255, MemOK', failed' = failed
  PROVE  BiosOK' /\ AllThere'
<1>1. UNCHANGED <<discState, selection, bc, hl>>
  BY DEF openunix, createunix, rdunix, wrunix, closeunix
<1>2. DiscOK' /\ SelectionOK' /\ AllThere'
  BY <1>1 DEF BiosOK, DiscOK, SelectionOK, AllThere, discState, selection
<1>3. RegsOK'
  BY <1>1 DEF BiosOK, RegsOK
<1> QED
  BY <1>2, <1>3 DEF BiosOK

LEMMA FnsApart ==
  /\ \A fn \in OpenFns : fn \notin {"boot", "warmboot", "rdsector", "wrsector", "seldisc", "closeunix"}
  /\ \A fn : fn \notin {"boot", "warmboot", "rdsector", "wrsector"} /\ Remembers(fn) => failed' = failed
  /\ \A fn \in {"boot", "warmboot"} : Remembers(fn) => failed' = {}
  /\ \A fn \in {"rdsector", "wrsector"} :
        Remembers(fn) => failed' = IF a' = 1 THEN failed \union {drive} ELSE failed
<1>1. \A fn \in OpenFns : fn \notin {"boot", "warmboot", "rdsector", "wrsector", "seldisc", "closeunix"}
  BY DEF OpenFns
<1>2. ASSUME NEW fn, fn \notin {"boot", "warmboot", "rdsector", "wrsector"}, Remembers(fn)
      PROVE  failed' = failed
  BY <1>2 DEF Remembers
<1>3. ASSUME NEW fn \in {"boot", "warmboot"}, Remembers(fn) PROVE failed' = {}
  BY <1>3 DEF Remembers
<1>4. ASSUME NEW fn \in {"rdsector", "wrsector"}, Remembers(fn)
      PROVE  failed' = IF a' = 1 THEN failed \union {drive} ELSE failed
  <2>1. CASE a' = 1
    BY <1>4, <2>1 DEF Remembers
  <2>2. CASE a' # 1
    BY <1>4, <2>2 DEF Remembers
  <2> QED
    BY <2>1, <2>2
<1> QED
  BY <1>1, <1>2, <1>3, <1>4

LEMMA BiosKeeps ==
  ASSUME BiosOK, AllThere, NEW fn, bios(fn), Remembers(fn),
         fn = "setdma" => bc \in DmaAddr
  PROVE  /\ BiosOK' /\ AllThere'
         /\ fn \notin OpenFns \union {"closeunix"} =>
              DOMAIN fds' = DOMAIN fds /\ fcb'.fd = fcb.fd
         /\ fn \in OpenFns => DOMAIN fds \subseteq DOMAIN fds' /\ (a' = 0 => FileReady')
         /\ fn = "closeunix" =>
              DOMAIN fds' = DOMAIN fds \ {fcb.fd} /\ Restored(fcb.fd) = fcb.fd
<1> DEFINE Same == DOMAIN fds' = DOMAIN fds /\ fcb'.fd = fcb.fd
<1>1. ASSUME UNCHANGED unixState PROVE Same
  BY <1>1 DEF unixState
<1>2. ASSUME fn \in {"boot", "warmboot"} PROVE BiosOK' /\ AllThere' /\ UNCHANGED unixState
  <2>1. StartFrom(drive) \/ StartFrom(0)
    BY <1>2 DEF bios, boot, warmboot
  <2>2. drive \in Drives /\ 0 \in Drives
    BY BiosAssumption DEF BiosOK, SelectionOK
  <2>3. failed' = {}
    BY <1>2, FnsApart
  <2> QED
    BY <2>1, <2>2, <2>3, StartKeeps
<1>3. ASSUME fn = "seldisc" PROVE BiosOK' /\ AllThere' /\ UNCHANGED unixState
  <2> DEFINE old == [drive |-> drive, track |-> track, sector |-> sector,
                     drives |-> drives, file |-> file, held |-> held]
  <2>1. SelectDisc(bc, old) /\ UNCHANGED <<dma, mem, a, bc, unixState>>
    BY <1>3 DEF bios, seldisc
  <2>2. /\ old.drive \in Drives /\ old.track \in Nat /\ old.sector \in Nat /\ bc \in Nat
        /\ DiscsOK(old.file, old.held, old.drives, drivelen)
        /\ Counted(old.file, old.held, old.drives, drivelen, failed)
    BY DEF BiosOK, SelectionOK, RegsOK, DiscOK, AllThere
  <2> HIDE DEF old
  <2>3. /\ DiscOK' /\ Counted(file', held', drives', drivelen', failed)
        /\ drive' \in Drives /\ track' \in Nat /\ sector' \in Nat /\ hl' \in Nat
    BY <2>1, <2>2, SelectKeeps
  <2>4. AllThere'
    <3>1. failed' = failed
      BY <1>3, FnsApart
    <3> QED
      BY <2>3, <3>1 DEF AllThere
  <2>5. SelectionOK' /\ RegsOK'
    BY <2>1, <2>3 DEF BiosOK, SelectionOK, RegsOK
  <2>6. MemOK' /\ UnixOK'
    BY <2>1 DEF BiosOK, MemOK, UnixOK, unixState
  <2> QED
    BY <2>1, <2>3, <2>4, <2>5, <2>6 DEF BiosOK
<1>4. ASSUME fn \in {"home", "settrack", "setsector", "secttran", "setdma"}
      PROVE  BiosOK' /\ AllThere' /\ UNCHANGED unixState
  <2>1. BiosOK' /\ UNCHANGED <<discState, unixState>>
    BY <1>4, PlacingKeeps DEF bios
  <2>2. failed' = failed
    BY <1>4, FnsApart
  <2> QED
    BY <2>1, <2>2 DEF AllThere, discState
<1>5. ASSUME fn \in {"rdsector", "wrsector"} PROVE BiosOK' /\ AllThere' /\ UNCHANGED unixState
  <2>1. failed' = IF a' = 1 THEN failed \union {drive} ELSE failed
    BY <1>5, FnsApart
  <2>2. rdsector \/ wrsector
    BY <1>5 DEF bios
  <2>3. DiscOK' /\ AllThere' /\ MemOK' /\ a' \in {0, 1} /\ UNCHANGED <<selection, bc, hl, unixState>>
    BY <2>1, <2>2, TransferKeepsDisc DEF BiosOK
  <2>4. SelectionOK' /\ UnixOK' /\ RegsOK'
    BY <2>3 DEF BiosOK, SelectionOK, UnixOK, RegsOK, selection, unixState
  <2> QED
    BY <2>3, <2>4 DEF BiosOK
<1>6. ASSUME fn \in OpenFns
      PROVE  /\ BiosOK' /\ AllThere' /\ DOMAIN fds \subseteq DOMAIN fds'
             /\ (a' = 0 => FileReady')
  <2>1. openunix \/ createunix
    BY <1>6 DEF bios, OpenFns
  <2>2. UnixOK' /\ a' \in {0, 255} /\ DOMAIN fds \subseteq DOMAIN fds' /\ (a' = 0 => FileReady')
    BY <2>1, OpenUnixKeeps DEF BiosOK
  <2>3. UNCHANGED mem
    BY <2>1 DEF openunix, createunix
  <2>4. MemOK' /\ a' \in 0 .. 255 /\ failed' = failed
    BY <1>6, <2>2, <2>3, FnsApart DEF BiosOK, MemOK
  <2> QED
    BY <2>1, <2>2, <2>4, FileKeeps
<1>7. ASSUME fn = "rdunix" PROVE BiosOK' /\ AllThere' /\ Same
  <2>1. rdunix
    BY <1>7 DEF bios
  <2>2. UnixOK' /\ MemOK' /\ a' \in {0, 255} /\ Same
    BY <2>1, RdunixKeeps DEF BiosOK
  <2>3. a' \in 0 .. 255 /\ failed' = failed
    BY <1>7, <2>2, FnsApart
  <2> QED
    BY <2>1, <2>2, <2>3, FileKeeps
<1>8. ASSUME fn = "wrunix" PROVE BiosOK' /\ AllThere' /\ Same
  <2>1. wrunix
    BY <1>8 DEF bios
  <2>2. UnixOK' /\ UNCHANGED mem /\ a' \in {0, 255} /\ Same
    BY <2>1, WrunixKeeps DEF BiosOK
  <2>3. MemOK' /\ a' \in 0 .. 255 /\ failed' = failed
    BY <1>8, <2>2, FnsApart DEF BiosOK, MemOK
  <2> QED
    BY <2>1, <2>2, <2>3, FileKeeps
<1>9. ASSUME fn = "closeunix"
      PROVE  /\ BiosOK' /\ AllThere'
             /\ DOMAIN fds' = DOMAIN fds \ {fcb.fd} /\ Restored(fcb.fd) = fcb.fd
  <2>1. closeunix
    BY <1>9 DEF bios
  <2>2. /\ UnixOK' /\ a' \in {0, 255} /\ UNCHANGED mem
        /\ DOMAIN fds' = DOMAIN fds \ {fcb.fd} /\ Restored(fcb.fd) = fcb.fd
    BY <2>1, CloseunixKeeps DEF BiosOK
  <2>3. MemOK' /\ a' \in 0 .. 255 /\ failed' = failed
    BY <1>9, <2>2, FnsApart DEF BiosOK, MemOK
  <2> QED
    BY <2>1, <2>2, <2>3, FileKeeps
<1>10. fn \in {"boot", "warmboot", "seldisc", "home", "settrack", "setsector", "secttran", "setdma",
               "rdsector", "wrsector", "rdunix", "wrunix", "closeunix"} \union OpenFns
  BY DEF bios, OpenFns
<1>11. CASE fn \in {"boot", "warmboot", "seldisc", "home", "settrack", "setsector", "secttran",
                   "setdma", "rdsector", "wrsector"}
  <2>1. BiosOK' /\ AllThere' /\ UNCHANGED unixState
    BY <1>2, <1>3, <1>4, <1>5, <1>11
  <2>2. fn \notin OpenFns /\ fn # "closeunix"
    BY <1>11 DEF OpenFns
  <2> QED
    BY <1>1, <2>1, <2>2
<1>12. CASE fn \in OpenFns
  BY <1>6, <1>12, FnsApart
<1>13. CASE fn \in {"rdunix", "wrunix", "closeunix"}
  <2>1. fn \notin OpenFns
    BY <1>13 DEF OpenFns
  <2> HIDE DEF Same
  <2>2. BiosOK' /\ AllThere' /\ (fn # "closeunix" => Same)
        /\ (fn = "closeunix" => DOMAIN fds' = DOMAIN fds \ {fcb.fd} /\ Restored(fcb.fd) = fcb.fd)
    BY <1>7, <1>8, <1>9, <1>13
  <2> QED
    BY <2>1, <2>2 DEF Same
<1> QED
  BY <1>10, <1>11, <1>12, <1>13

(* The files that are there at first.                                      *)

\* x lies within m times n, and its quotient and remainder with it.
LEMMA Quotient ==
  ASSUME NEW n \in Nat \ {0}, NEW m \in Nat, NEW x \in Nat, x < m * n
  PROVE  x \div n \in 0 .. m - 1 /\ x % n \in 0 .. n - 1
<1> DEFINE q == x \div n
           r == x % n
<1>1. q \in Nat /\ r \in 0 .. n - 1 /\ x = n * q + r
  OBVIOUS
<1> HIDE DEF q, r
<1>2. ~(m <= q)
  <2> SUFFICES ASSUME m <= q PROVE FALSE
    OBVIOUS
  <2>1. q - m \in Nat
    BY <1>1
  <2>2. n * (q - m) \in Nat /\ n * q = m * n + n * (q - m)
    BY <1>1, <2>1
  <2>3. m * n \in Nat
    OBVIOUS
  <2> QED
    BY <1>1, <2>2, <2>3
<1> QED
  BY <1>1, <1>2 DEF q, r

LEMMA MadeIs == MadeFile \in Seq(Units)
<1> DEFINE spt == Len(sectorxlat)
           T == MadeTracks * spt
           logical(p) == CHOOSE l \in 0 .. spt - 1 : sectorxlat[l + 1] - 1 = (p % spt)
           at(p) == spt * (p \div spt) + logical(p)
           unit(i) == Made[at((i - 1) \div SectorSize) + 1][((i - 1) % SectorSize) + 1]
<1>1. /\ spt \in Nat /\ MadeTracks \in Nat /\ T \in Nat /\ T * SectorSize \in Nat
      /\ Made \in Seq([1 .. SectorSize -> Units]) /\ Len(Made) = T
      /\ SectorSize \in Nat \ {0}
  BY BiosAssumption, CpmAssumption
<1>2. ASSUME NEW p \in Nat, p < T PROVE at(p) \in 0 .. T - 1
  <2>1. spt \in Nat \ {0}
    BY <1>1, <1>2
  <2> HIDE DEF spt
  <2>2. p \div spt \in 0 .. MadeTracks - 1 /\ p % spt \in 0 .. spt - 1
    BY <1>1, <1>2, <2>1, Quotient
  <2>3. logical(p) \in 0 .. spt - 1
    <3>1. \E x \in DOMAIN sectorxlat : sectorxlat[x] = (p % spt) + 1
      <4>1. (p % spt) + 1 \in 1 .. spt
        BY <1>1, <2>2
      <4>2. 1 .. spt = Range(sectorxlat)
        BY BiosAssumption DEF spt
      <4> QED
        BY <4>1, <4>2 DEF Range
    <3>2. PICK x \in DOMAIN sectorxlat : sectorxlat[x] = (p % spt) + 1
      BY <3>1
    <3>3. x \in 1 .. spt
      BY BiosAssumption DEF spt
    <3> DEFINE k == x - 1
    <3>4. k \in 0 .. spt - 1 /\ k + 1 = x
      BY <1>1, <3>3
    <3>5. sectorxlat[k + 1] - 1 = (p % spt)
      BY <2>2, <3>2, <3>4
    <3> HIDE DEF k
    <3> QED
      BY <3>4, <3>5
  <2> DEFINE t == p \div spt
             l == logical(p)
  <2>4. t \in 0 .. MadeTracks - 1 /\ l \in 0 .. spt - 1
    BY <2>2, <2>3
  <2> HIDE DEF t, l
  <2>5. spt * t + l \in 0 .. T - 1
    <3>1. /\ spt * (MadeTracks - 1 - t) \in Nat /\ spt * t \in Nat
          /\ T = spt * t + spt * (MadeTracks - 1 - t) + spt
      BY <1>1, <2>4
    <3> HIDE DEF T
    <3> QED
      BY <1>1, <2>4, <3>1
  <2> QED
    BY <2>5 DEF t, l
<1>3. ASSUME NEW i \in 1 .. T * SectorSize PROVE unit(i) \in Units
  <2> HIDE DEF T
  <2>1. i - 1 \in Nat /\ i - 1 < T * SectorSize
    BY <1>1, <1>3
  <2>2. /\ (i - 1) \div SectorSize \in 0 .. T - 1
        /\ (i - 1) % SectorSize \in 0 .. SectorSize - 1
    BY <1>1, <2>1, Quotient
  <2> DEFINE p == (i - 1) \div SectorSize
             r == (i - 1) % SectorSize
  <2>3. p \in Nat /\ p < T /\ r \in 0 .. SectorSize - 1
    BY <1>1, <2>2
  <2> HIDE DEF p, r
  <2>4. at(p) \in 0 .. T - 1
    BY <1>2, <2>3
  <2> DEFINE k == at(p)
  <2> HIDE DEF at, k
  <2>5. k \in 0 .. T - 1
    BY <2>4 DEF k
  <2>6. k + 1 \in 1 .. Len(Made) /\ r + 1 \in 1 .. SectorSize
    BY <1>1, <2>3, <2>5
  <2>7. Made[k + 1] \in [1 .. SectorSize -> Units]
    BY <1>1, <2>6, ElementOfSeq
  <2>8. Made[k + 1][r + 1] \in Units
    BY <2>6, <2>7
  <2> QED
    BY <2>8 DEF k, p, r
<1>4. MadeFile = [i \in 1 .. T * SectorSize |-> unit(i)]
  BY DEF MadeFile, MadeDisc
<1> HIDE DEF T, unit
<1>5. MadeFile \in [1 .. T * SectorSize -> Units]
  BY <1>3, <1>4
<1> QED
  BY <1>1, <1>5, FunctionLen

-----------------------------------------------------------------------------
(* The calls that programs make.                                           *)

NumberFns == {"boot", "warmboot", "home", "seldisc", "rdsector", "rdunix", "closeunix"}
DataFns   == {"wrsector", "wrunix"}

Calls ==
  [fn : NumberFns, arg : Nat]
    \union [fn : {"settrack"}, arg : Tracks] \union [fn : {"secttran"}, arg : Logicals \union {0}]
    \union [fn : {"setsector"}, arg : RawSectors \union {InHL}]
    \union [fn : {"setdma"}, arg : DmaAddr]
    \union [fn : DataFns, arg : [1 .. SectorSize -> Units]]
    \union [fn : OpenFns, arg : UnixNames]

LEMMA CallIs ==
  /\ \A f \in NumberFns, x \in Nat : Call(f, x) \in Calls
  /\ \A x \in Tracks : Call("settrack", x) \in Calls
  /\ \A x \in Logicals \union {0} : Call("secttran", x) \in Calls
  /\ \A x \in RawSectors \union {InHL} : Call("setsector", x) \in Calls
  /\ \A x \in DmaAddr : Call("setdma", x) \in Calls
  /\ \A f \in DataFns, x \in [1 .. SectorSize -> Units] : Call(f, x) \in Calls
  /\ \A f \in OpenFns, x \in UnixNames : Call(f, x) \in Calls
<1>1. \A f \in NumberFns, x \in Nat : Call(f, x) \in Calls
  BY DEF Call, Calls
<1>2. /\ \A x \in Tracks : Call("settrack", x) \in Calls
      /\ \A x \in Logicals \union {0} : Call("secttran", x) \in Calls
      /\ \A x \in RawSectors \union {InHL} : Call("setsector", x) \in Calls
  BY DEF Call, Calls
<1>3. \A x \in DmaAddr : Call("setdma", x) \in Calls
  BY DEF Call, Calls
<1>4. \A f \in DataFns, x \in [1 .. SectorSize -> Units] : Call(f, x) \in Calls
  BY DEF Call, Calls
<1>5. \A f \in OpenFns, x \in UnixNames : Call(f, x) \in Calls
  BY DEF Call, Calls
<1> QED
  BY <1>1, <1>2, <1>3, <1>4, <1>5

LEMMA CallFn == \A f, x : Call(f, x).fn = f
  BY DEF Call

LEMMA CallHas ==
  ASSUME NEW c \in Calls
  PROVE  /\ c.fn \in NumberFns => c.arg \in Nat
         /\ c.fn = "settrack" => c.arg \in Tracks
         /\ c.fn = "secttran" => c.arg \in Logicals \union {0}
         /\ c.fn = "setsector" => c.arg \in RawSectors \union {InHL}
         /\ c.fn = "setdma" => c.arg \in DmaAddr
         /\ c.fn \in DataFns => c.arg \in [1 .. SectorSize -> Units]
         /\ c.fn \in OpenFns => c.arg \in UnixNames
<1>1. CASE c \in [fn : NumberFns, arg : Nat]
  <2>1. c.fn \in NumberFns /\ c.arg \in Nat
    BY <1>1
  <2> QED
    BY <2>1 DEF NumberFns, DataFns, OpenFns
<1>2. CASE c \in [fn : {"setsector"}, arg : RawSectors \union {InHL}]
  <2>1. c.fn = "setsector" /\ c.arg \in RawSectors \union {InHL}
    BY <1>2
  <2> QED
    BY <2>1 DEF NumberFns, DataFns, OpenFns
<1>6. CASE c \in [fn : {"settrack"}, arg : Tracks]
  <2>1. c.fn = "settrack" /\ c.arg \in Tracks
    BY <1>6
  <2> QED
    BY <2>1 DEF NumberFns, DataFns, OpenFns
<1>7. CASE c \in [fn : {"secttran"}, arg : Logicals \union {0}]
  <2>1. c.fn = "secttran" /\ c.arg \in Logicals \union {0}
    BY <1>7
  <2> QED
    BY <2>1 DEF NumberFns, DataFns, OpenFns
<1>3. CASE c \in [fn : {"setdma"}, arg : DmaAddr]
  <2>1. c.fn = "setdma" /\ c.arg \in DmaAddr
    BY <1>3
  <2> QED
    BY <2>1 DEF NumberFns, DataFns, OpenFns
<1>4. CASE c \in [fn : DataFns, arg : [1 .. SectorSize -> Units]]
  <2>1. c.fn \in DataFns /\ c.arg \in [1 .. SectorSize -> Units]
    BY <1>4
  <2> QED
    BY <2>1 DEF NumberFns, DataFns, OpenFns
<1>5. CASE c \in [fn : OpenFns, arg : UnixNames]
  <2>1. c.fn \in OpenFns /\ c.arg \in UnixNames
    BY <1>5
  <2> QED
    BY <2>1 DEF NumberFns, DataFns, OpenFns
<1> QED
  BY <1>1, <1>2, <1>3, <1>4, <1>5, <1>6, <1>7 DEF Calls

\* What has been called of a program and what is left: a file is opened
\* first and closed last, and either read or written.
OneFile(s) ==
  /\ \A i \in 1 .. Len(s) : /\ s[i].fn \in OpenFns => i = 1
                            /\ s[i].fn = "closeunix" => i = Len(s)
  /\ \A i, j \in 1 .. Len(s) : ~(s[i].fn = "rdunix" /\ s[j].fn = "wrunix")

\* A program that starts.
WholeProgram(s) ==
  /\ s \in Seq(Calls)
  /\ OneFile(s)
  /\ \A i \in 1 .. Len(s) : /\ UsesFile(s[i].fn) => s[1].fn \in OpenFns
                            /\ s[i].fn = "wrunix" => s[1].fn = "createunix"

LEMMA PlainProgram ==
  ASSUME NEW s \in Seq(Calls),
         \A i \in 1 .. Len(s) : ~UsesFile(s[i].fn) /\ s[i].fn \notin OpenFns
  PROVE  WholeProgram(s)
  BY DEF WholeProgram, OneFile, UsesFile

LEMMA TransferIs ==
  ASSUME NEW last \in Transfers
  PROVE  last \in Calls /\ ~UsesFile(last.fn) /\ last.fn \notin OpenFns
<1>1. CASE last = Call("rdsector", 0)
  <2>1. "rdsector" \in NumberFns /\ 0 \in Nat
    BY DEF NumberFns
  <2> QED
    BY <1>1, <2>1, CallIs, CallFn DEF UsesFile, OpenFns
<1>2. ASSUME NEW w \in Written, last = Call("wrsector", Sector(w))
      PROVE  last \in Calls /\ ~UsesFile(last.fn) /\ last.fn \notin OpenFns
  <2>1. "wrsector" \in DataFns /\ Sector(w) \in [1 .. SectorSize -> Units]
    BY CpmAssumption DEF Sector, DataFns
  <2> QED
    BY <1>2, <2>1, CallIs, CallFn DEF UsesFile, OpenFns
<1> QED
  BY <1>1, <1>2 DEF Transfers

\* PUTUNIX opens the file, writes each record and closes the file.
PutCalls(n, records) ==
  <<Call("createunix", n), Call("setdma", DefaultDma)>>
    \o [i \in 1 .. Len(records) |-> Call("wrunix", records[i])]
    \o <<Call("closeunix", 0)>>

LEMMA PutunixIs ==
  ASSUME NEW n \in UnixNames, NEW records \in Records, NEW s, s = PutCalls(n, records)
  PROVE  /\ s \in Seq(Calls) /\ Len(records) \in Nat /\ Len(s) = Len(records) + 3
         /\ s[1].fn = "createunix" /\ s[2].fn = "setdma"
         /\ \A i \in 3 .. Len(records) + 2 : s[i].fn = "wrunix"
         /\ s[Len(records) + 3].fn = "closeunix"
<1> DEFINE m == Len(records)
           u == <<Call("createunix", n), Call("setdma", DefaultDma)>>
           w == [i \in 1 .. m |-> Call("wrunix", records[i])]
           c == <<Call("closeunix", 0)>>
<1>1. m \in Nat /\ \A i \in 1 .. m : records[i] \in [1 .. SectorSize -> Units]
  <2>1. records \in Seq([1 .. SectorSize -> Units])
    BY CpmAssumption
  <2> QED
    BY <2>1, ElementOfSeq
<1>2. /\ u \in Seq(Calls) /\ Len(u) = 2 /\ c \in Seq(Calls) /\ Len(c) = 1
      /\ u[1].fn = "createunix" /\ u[2].fn = "setdma" /\ c[1].fn = "closeunix"
  <2>1. Call("createunix", n) \in Calls /\ Call("setdma", DefaultDma) \in Calls
    BY CallIs, BiosAssumption DEF OpenFns
  <2>2. Call("closeunix", 0) \in Calls
    BY CallIs DEF NumberFns
  <2> QED
    BY <2>1, <2>2, CallFn
<1>3. w \in Seq(Calls) /\ Len(w) = m /\ \A i \in 1 .. m : w[i].fn = "wrunix"
  <2>1. \A i \in 1 .. m : Call("wrunix", records[i]) \in Calls
    BY <1>1, CallIs DEF DataFns
  <2> HIDE DEF m
  <2>2. w \in [1 .. m -> Calls]
    BY <2>1
  <2>3. \A i \in 1 .. m : w[i] = Call("wrunix", records[i])
    OBVIOUS
  <2> HIDE DEF w
  <2> QED
    BY <1>1, <2>2, <2>3, FunctionLen, CallFn
<1>4. s = (u \o w) \o c
  BY DEF PutCalls
<1> HIDE DEF m, u, w, c
<1>5. /\ s \in Seq(Calls) /\ Len(s) = m + 3
      /\ s[1].fn = "createunix" /\ s[2].fn = "setdma"
      /\ \A i \in 3 .. m + 2 : s[i].fn = "wrunix"
      /\ s[m + 3].fn = "closeunix"
  <2> DEFINE v == u \o w
  <2>1. /\ v \in Seq(Calls) /\ Len(v) = m + 2
        /\ v[1] = u[1] /\ v[2] = u[2]
        /\ \A i \in 3 .. m + 2 : v[i] = w[i - 2]
    <3>1. /\ v \in Seq(Calls) /\ Len(v) = Len(u) + Len(w)
          /\ \A i \in 1 .. Len(u) + Len(w) : v[i] = IF i <= Len(u) THEN u[i] ELSE w[i - Len(u)]
      BY <1>2, <1>3, ConcatProperties
    <3> HIDE DEF v
    <3>2. Len(u) = 2 /\ Len(w) = m
      BY <1>2, <1>3
    <3>3. v[1] = u[1] /\ v[2] = u[2]
      BY <1>1, <3>1, <3>2
    <3>4. Len(v) = m + 2
      BY <1>1, <3>1, <3>2
    <3>5. \A i \in 3 .. m + 2 : v[i] = w[i - 2]
      BY <1>1, <3>1, <3>2
    <3> QED
      BY <3>1, <3>3, <3>4, <3>5
  <2> HIDE DEF v
  <2>2. /\ v \o c \in Seq(Calls) /\ Len(v \o c) = m + 3
        /\ \A i \in 1 .. m + 2 : (v \o c)[i] = v[i]
        /\ (v \o c)[m + 3] = c[1]
    <3> DEFINE x == v \o c
    <3>1. /\ x \in Seq(Calls) /\ Len(x) = Len(v) + Len(c)
          /\ \A i \in 1 .. Len(v) + Len(c) : x[i] = IF i <= Len(v) THEN v[i] ELSE c[i - Len(v)]
      BY <1>2, <2>1, ConcatProperties
    <3> HIDE DEF x
    <3>2. Len(v) = m + 2 /\ Len(c) = 1
      BY <1>2, <2>1
    <3>3. Len(x) = m + 3 /\ \A i \in 1 .. m + 2 : x[i] = v[i]
      BY <1>1, <3>1, <3>2
    <3>4. x[m + 3] = c[1]
      <4>1. /\ m + 3 \in 1 .. Len(v) + Len(c) /\ ~(m + 3 <= Len(v))
            /\ (m + 3) - Len(v) = 1
        BY <1>1, <3>2
      <4> QED
        BY <3>1, <4>1
    <3> QED
      BY <3>1, <3>3, <3>4 DEF x
  <2>3. s = v \o c
    BY <1>4 DEF v
  <2>4. \A i \in 3 .. m + 2 : w[i - 2].fn = "wrunix"
    <3> SUFFICES ASSUME NEW i \in 3 .. m + 2 PROVE w[i - 2].fn = "wrunix"
      OBVIOUS
    <3>1. i - 2 \in 1 .. m
      BY <1>1
    <3> QED
      BY <1>3, <3>1
  <2>5. ASSUME NEW i \in 3 .. m + 2 PROVE s[i] = w[i - 2]
    <3>1. i \in 1 .. m + 2
      BY <1>1
    <3> QED
      BY <2>1, <2>2, <2>3, <3>1
  <2>6. s[1] = u[1] /\ s[2] = u[2] /\ s[m + 3] = c[1]
    BY <1>1, <2>1, <2>2, <2>3
  <2> QED
    BY <1>2, <2>2, <2>3, <2>4, <2>5, <2>6
<1> QED
  BY <1>1, <1>5 DEF m

LEMMA StartsWhole ==
  ASSUME StartAccess \/ StartRaw \/ StartRestart \/ StartGetunix \/ StartPutunix
  PROVE  \E s : Starts(s) /\ WholeProgram(s)
<1> DEFINE Plain(c) == c \in Calls /\ ~UsesFile(c.fn) /\ c.fn \notin OpenFns
<1>1. \A f \in {"boot", "warmboot", "home", "seldisc"}, x \in Nat : Plain(Call(f, x))
  <2> SUFFICES ASSUME NEW f \in {"boot", "warmboot", "home", "seldisc"}, NEW x \in Nat
               PROVE  Plain(Call(f, x))
    OBVIOUS
  <2>1. f \in NumberFns /\ ~UsesFile(f) /\ f \notin OpenFns
    BY DEF NumberFns, UsesFile, OpenFns
  <2> QED
    BY <2>1, CallIs, CallFn
<1>2. /\ \A x \in Tracks : Plain(Call("settrack", x))
      /\ \A x \in Logicals \union {0} : Plain(Call("secttran", x))
      /\ \A x \in RawSectors \union {InHL} : Plain(Call("setsector", x))
  <2>1. \A f \in {"settrack", "secttran", "setsector"} : ~UsesFile(f) /\ f \notin OpenFns
    BY DEF UsesFile, OpenFns
  <2> QED
    BY <2>1, CallIs, CallFn
<1>3. \A last \in Transfers : Plain(last)
  BY TransferIs
<1> HIDE DEF Plain
<1>4. CASE StartAccess
  <2>1. PICK d \in Selected, t \in Tracks, l \in Logicals \union {0}, last \in Transfers :
          Starts(Access(d, t, l, last))
    BY <1>4, CpmAssumption DEF StartAccess, Logical
  <2> DEFINE s == Access(d, t, l, last)
  <2>2. d \in Nat
    BY CpmAssumption
  <2>3. /\ Plain(Call("seldisc", d)) /\ Plain(Call("settrack", t)) /\ Plain(Call("secttran", l))
        /\ Plain(Call("setsector", InHL)) /\ Plain(last)
    BY <1>1, <1>2, <1>3, <2>2
  <2>4. s \in Seq(Calls) /\ \A i \in 1 .. Len(s) : Plain(s[i])
    <3>1. s \in Seq(Calls)
      BY <2>3 DEF Access, Plain
    <3>2. \A i \in 1 .. 5 : Plain(s[i])
      BY <2>3 DEF Access
    <3>3. Len(s) = 5
      BY DEF Access
    <3> QED
      BY <3>1, <3>2, <3>3
  <2> HIDE DEF s
  <2>5. WholeProgram(s)
    BY <2>4, PlainProgram DEF Plain
  <2> QED
    BY <2>1, <2>5 DEF s
<1>5. CASE StartRaw
  <2>1. PICK x \in RawSectors, last \in Transfers :
          Starts(<<Call("home", 0), Call("setsector", x), last>>)
    BY <1>5 DEF StartRaw
  <2> DEFINE s == <<Call("home", 0), Call("setsector", x), last>>
  <2>2. x \in RawSectors \union {InHL} /\ 0 \in Nat
    OBVIOUS
  <2>3. Plain(Call("home", 0)) /\ Plain(Call("setsector", x)) /\ Plain(last)
    BY <1>1, <1>2, <1>3, <2>2
  <2>4. s \in Seq(Calls) /\ \A i \in 1 .. Len(s) : Plain(s[i])
    <3>1. s \in Seq(Calls)
      BY <2>3 DEF Plain
    <3>2. \A i \in 1 .. 3 : Plain(s[i])
      BY <2>3
    <3> QED
      BY <3>1, <3>2
  <2> HIDE DEF s
  <2>5. WholeProgram(s)
    BY <2>4, PlainProgram DEF Plain
  <2> QED
    BY <2>1, <2>5 DEF s
<1>6. CASE StartRestart
  <2>1. PICK fn \in {"boot", "warmboot"} : Starts(<<Call(fn, 0)>>)
    BY <1>6 DEF StartRestart
  <2> DEFINE s == <<Call(fn, 0)>>
  <2>2. Plain(Call(fn, 0))
    BY <1>1
  <2>3. s \in Seq(Calls) /\ \A i \in 1 .. Len(s) : Plain(s[i])
    BY <2>2 DEF Plain
  <2> HIDE DEF s
  <2>4. WholeProgram(s)
    BY <2>3, PlainProgram DEF Plain
  <2> QED
    BY <2>1, <2>4 DEF s
<1>7. CASE StartGetunix
  <2>1. PICK n \in UnixNames : Starts(<<Call("openunix", n), Call("setdma", DefaultDma),
                                        Call("rdunix", 0), Call("closeunix", 0)>>)
    BY <1>7 DEF StartGetunix
  <2> DEFINE s == <<Call("openunix", n), Call("setdma", DefaultDma),
                    Call("rdunix", 0), Call("closeunix", 0)>>
  <2>2. s \in Seq(Calls)
    <3>1. Call("openunix", n) \in Calls /\ Call("setdma", DefaultDma) \in Calls
      BY CallIs, BiosAssumption DEF OpenFns
    <3>2. Call("rdunix", 0) \in Calls /\ Call("closeunix", 0) \in Calls
      BY CallIs DEF NumberFns
    <3> QED
      BY <3>1, <3>2
  <2>3. /\ Len(s) = 4
        /\ s[1].fn = "openunix" /\ s[2].fn = "setdma" /\ s[3].fn = "rdunix" /\ s[4].fn = "closeunix"
    BY CallFn
  <2> HIDE DEF s
  <2>4. \A i \in 1 .. Len(s) : i = 1 \/ i = 2 \/ i = 3 \/ i = 4
    BY <2>3
  <2>5. OneFile(s)
    BY <2>3, <2>4 DEF OneFile, OpenFns
  <2>6. WholeProgram(s)
    BY <2>2, <2>3, <2>4, <2>5 DEF WholeProgram, OpenFns
  <2> QED
    BY <2>1, <2>6 DEF s
<1>8. CASE StartPutunix
  <2>1. PICK n \in UnixNames, records \in Records : Starts(PutCalls(n, records))
    BY <1>8 DEF StartPutunix, PutCalls
  <2> DEFINE m == Len(records)
             s == PutCalls(n, records)
  <2>2. /\ s \in Seq(Calls) /\ m \in Nat /\ Len(s) = m + 3
        /\ s[1].fn = "createunix" /\ s[2].fn = "setdma"
        /\ \A i \in 3 .. m + 2 : s[i].fn = "wrunix"
        /\ s[m + 3].fn = "closeunix"
    BY PutunixIs
  <2> HIDE DEF m
  <2> HIDE DEF s
  <2>3. \A i \in 1 .. Len(s) :
          /\ s[i].fn \in {"createunix", "setdma", "wrunix", "closeunix"}
          /\ s[i].fn = "createunix" => i = 1
          /\ s[i].fn = "closeunix" => i = Len(s)
    <3> SUFFICES ASSUME NEW i \in 1 .. Len(s)
                 PROVE  /\ s[i].fn \in {"createunix", "setdma", "wrunix", "closeunix"}
                        /\ s[i].fn = "createunix" => i = 1
                        /\ s[i].fn = "closeunix" => i = Len(s)
      OBVIOUS
    <3>1. Len(s) = m + 3
      BY <2>2
    <3>2. i = 1 \/ i = 2 \/ i \in 3 .. m + 2 \/ i = m + 3
      BY <2>2, <3>1
    <3>3. i \in 3 .. m + 2 => s[i].fn = "wrunix"
      BY <2>2
    <3>4. /\ i = 1 => s[i].fn = "createunix"
          /\ i = 2 => s[i].fn = "setdma"
          /\ i = m + 3 => s[i].fn = "closeunix"
      BY <2>2
    <3> QED
      BY <3>1, <3>2, <3>3, <3>4
  <2>4. OneFile(s)
    BY <2>3 DEF OneFile, OpenFns
  <2>5. WholeProgram(s)
    BY <2>2, <2>4 DEF WholeProgram, OpenFns
  <2> QED
    BY <2>1, <2>5 DEF s
<1> QED
  BY <1>4, <1>5, <1>6, <1>7, <1>8

-----------------------------------------------------------------------------
(* The invariant: the drives, the files and the registers are what the     *)
(* functions left, and the sectors that count are there.                   *)

EmulatorOK ==
  /\ event \in BOOLEAN /\ sig \in BOOLEAN /\ trace \in BOOLEAN /\ step \in BOOLEAN
  /\ syscall \in BOOLEAN /\ broke \in BOOLEAN
  /\ phase \in {"start", "top", "serve", "prompt", "exec", "crashed"}
  /\ resume \in {"exec", "serve"}
  /\ breaks \in Nat

ProgramOK ==
  /\ pc \in {"out", "ret"}
  /\ todo \in Seq(Calls)
  /\ pc = "ret" => todo # <<>>
  /\ OneFile(todo)
  /\ syscall /\ biosfn = "setdma" => bc \in DmaAddr

CpmInv == BiosOK /\ AllThere /\ EmulatorOK /\ ProgramOK

LEMMA EmulatorStays ==
  ASSUME EmulatorOK, [Next]_vars
  PROVE  EmulatorOK'
<1> USE DEF EmulatorOK
<1>1. CASE PowerOn \/ Execute \/ NothingToServe \/ WildFile
  BY <1>1 DEF PowerOn, Remembers, Execute, NothingToServe, WildFile, history
<1>2. CASE SignalStops \/ Traced
  <2>1. UNCHANGED <<trace, step, syscall, breaks, broke>>
    BY <1>2 DEF SignalStops, Traced, history
  <2>2. event' \in BOOLEAN /\ sig' \in BOOLEAN
    BY <1>2 DEF SignalStops, Traced
  <2>3. phase' \in {"start", "top", "serve", "prompt", "exec", "crashed"} /\ resume' \in {"exec", "serve"}
    BY <1>2 DEF SignalStops, Traced
  <2> QED
    BY <2>1, <2>2, <2>3
<1>3. CASE Serve
  BY <1>3 DEF Serve, Remembers
<1>4. CASE Break
  BY <1>4 DEF Break
<1>5. CASE PromptBoot
  BY <1>5 DEF PromptBoot, Remembers
<1>6. CASE PromptTrace \/ PromptStep
  BY <1>6, Zenon DEF PromptTrace, PromptStep, history
<1>7. CASE PromptGo
  <2>1. event' = (event \/ trace) /\ phase' = resume
        /\ UNCHANGED <<sig, trace, step, syscall, resume, breaks, broke>>
    BY <1>7 DEF PromptGo, history
  <2>2. event' \in BOOLEAN
    BY <2>1, Zenon
  <2>3. phase' \in {"start", "top", "serve", "prompt", "exec", "crashed"}
    BY <2>1
  <2> QED
    BY <2>1, <2>2, <2>3
<1>8. ASSUME NEW calls, Starts(calls) PROVE EmulatorOK'
  BY <1>8 DEF Starts, history
<1>9. CASE StartAccess \/ StartRaw \/ StartRestart \/ StartGetunix \/ StartPutunix
  BY <1>8, <1>9, StartsWhole
<1>10. CASE GuestCall
  BY <1>10 DEF GuestCall
<1>11. CASE GuestReturn
  BY <1>11 DEF GuestReturn, history
<1>12. CASE UNCHANGED vars
  BY <1>12 DEF vars, emulator, history
<1> QED
  BY <1>1, <1>2, <1>3, <1>4, <1>5, <1>6, <1>7, <1>9, <1>10, <1>11, <1>12
     DEF Next, Emulator, User, Program

LEMMA BiosUnchanged ==
  ASSUME BiosOK, AllThere, UNCHANGED <<biosVars, failed>>
  PROVE  /\ BiosOK' /\ AllThere' /\ bc' = bc
         /\ (Open(fcb.fd)' <=> Open(fcb.fd)) /\ (PointersFit' <=> PointersFit)
<1>1. /\ UNCHANGED <<file, held, drives, drivelen, failed>> /\ UNCHANGED <<drive, track, sector, dma>>
      /\ UNCHANGED <<mem, a, bc, hl>> /\ UNCHANGED <<unix, fds, fcb>>
  BY DEF biosVars, discState, selection, unixState
<1>2. DiscOK' /\ AllThere' /\ SelectionOK' /\ MemOK' /\ RegsOK'
  BY <1>1 DEF BiosOK, DiscOK, AllThere, SelectionOK, MemOK, RegsOK
<1>3. UnixOK'
  BY <1>1 DEF BiosOK, UnixOK
<1>4. (Open(fcb.fd)' <=> Open(fcb.fd)) /\ (PointersFit' <=> PointersFit)
  BY <1>1 DEF PointersFit, Open
<1> QED
  BY <1>1, <1>2, <1>3, <1>4 DEF BiosOK

\* The emulator and the user at work, between two calls of the BIOS.
LEMMA Between ==
  ASSUME CpmInv, UNCHANGED <<biosVars, failed, program, syscall, biosfn>>
  PROVE  BiosOK' /\ AllThere' /\ ProgramOK'
<1>1. /\ UNCHANGED <<biosVars, failed>> /\ UNCHANGED <<pc, todo>> /\ UNCHANGED <<syscall, biosfn>>
  BY DEF program
<1>2. BiosOK' /\ AllThere' /\ bc' = bc
  BY <1>1, BiosUnchanged DEF CpmInv
<1>3. ProgramOK'
  BY <1>1, <1>2 DEF CpmInv, ProgramOK, OneFile
<1> QED
  BY <1>2, <1>3

\* A system reset leaves the program nothing to do.
LEMMA Restarted ==
  ASSUME Restarts("boot")
  PROVE  pc' = "out" /\ todo' = <<>> /\ todo' \in Seq(Calls) /\ OneFile(todo)'
<1>1. pc' = "out" /\ todo' = <<>>
  BY DEF Restarts
<1>2. todo' \in Seq(Calls) /\ Len(todo') = 0
  BY <1>1
<1> QED
  BY <1>1, <1>2 DEF OneFile

LEMMA BootKeeps ==
  ASSUME CpmInv, PowerOn \/ PromptBoot
  PROVE  BiosOK' /\ AllThere' /\ ProgramOK' /\ UNCHANGED unixState
<1>1. StartFrom(0) /\ 0 \in Drives /\ UNCHANGED <<syscall, biosfn>> /\ failed' = {}
  BY BiosAssumption DEF PowerOn, PromptBoot, boot, Remembers
<1>2. BiosOK' /\ AllThere' /\ UNCHANGED unixState /\ bc' = 0
  BY <1>1, StartKeeps DEF CpmInv
<1>3. bc' \in DmaAddr
  BY <1>2, CpmAssumption
<1>4. CASE PowerOn
  <2>1. UNCHANGED <<pc, todo>>
    BY <1>4 DEF PowerOn, program
  <2>2. ProgramOK'
    BY <1>1, <1>3, <2>1 DEF CpmInv, ProgramOK, OneFile
  <2> QED
    BY <1>2, <2>2
<1>5. CASE PromptBoot
  <2>1. pc' = "out" /\ todo' = <<>> /\ todo' \in Seq(Calls) /\ OneFile(todo)'
    BY <1>5, Restarted DEF PromptBoot
  <2>2. ProgramOK'
    BY <1>3, <2>1 DEF ProgramOK
  <2> QED
    BY <1>2, <2>2
<1> QED
  BY <1>4, <1>5

LEMMA ServeKeeps ==
  ASSUME CpmInv, Serve
  PROVE  BiosOK' /\ AllThere' /\ ProgramOK'
<1>1. syscall /\ syscall' = FALSE /\ bios(biosfn) /\ Restarts(biosfn) /\ Remembers(biosfn)
  BY DEF Serve
<1>2. biosfn = "setdma" => bc \in DmaAddr
  BY <1>1 DEF CpmInv, ProgramOK
<1>3. BiosOK' /\ AllThere'
  BY <1>1, <1>2, BiosKeeps DEF CpmInv
<1>4. CASE biosfn \in {"boot", "warmboot"}
  <2>1. Restarts("boot")
    BY <1>1, <1>4 DEF Restarts
  <2>2. pc' = "out" /\ todo' = <<>> /\ todo' \in Seq(Calls) /\ OneFile(todo)'
    BY <2>1, Restarted
  <2> QED
    BY <1>1, <1>3, <2>2 DEF ProgramOK
<1>5. CASE biosfn \notin {"boot", "warmboot"}
  <2>1. UNCHANGED <<pc, todo>>
    BY <1>1, <1>5 DEF Restarts, program
  <2>2. ProgramOK'
    BY <1>1, <2>1 DEF CpmInv, ProgramOK, OneFile
  <2> QED
    BY <1>3, <2>2
<1> QED
  BY <1>4, <1>5

LEMMA StartedKeeps ==
  ASSUME CpmInv, NEW s, Starts(s), WholeProgram(s)
  PROVE  BiosOK' /\ AllThere' /\ ProgramOK'
<1>1. /\ UNCHANGED <<biosVars, failed>> /\ UNCHANGED <<syscall, biosfn>>
      /\ pc = "out" /\ pc' = "out" /\ todo' = s
  BY DEF Starts, history
<1>2. BiosOK' /\ AllThere' /\ bc' = bc
  BY <1>1, BiosUnchanged DEF CpmInv
<1>3. ProgramOK'
  BY <1>1, <1>2 DEF CpmInv, ProgramOK, WholeProgram, OneFile
<1> QED
  BY <1>2, <1>3

LEMMA HeadIs ==
  ASSUME NEW s \in Seq(Calls), s # <<>>
  PROVE  /\ Head(s) = s[1] /\ s[1] \in Calls /\ 1 \in 1 .. Len(s)
         /\ Tail(s) \in Seq(Calls) /\ Len(Tail(s)) = Len(s) - 1
         /\ \A i \in 1 .. Len(s) - 1 : Tail(s)[i] = s[i + 1]
<1>1. 1 \in 1 .. Len(s)
  OBVIOUS
<1>2. s[1] \in Calls
  BY <1>1, ElementOfSeq
<1>3. /\ Tail(s) \in Seq(Calls) /\ Len(Tail(s)) = Len(s) - 1 /\ Head(s) = s[1]
  OBVIOUS
<1>4. \A i \in 1 .. Len(s) - 1 : Tail(s)[i] = s[i + 1]
  OBVIOUS
<1> QED
  BY <1>1, <1>2, <1>3, <1>4

LEMMA CallKeeps ==
  ASSUME CpmInv, GuestCall
  PROVE  BiosOK' /\ AllThere' /\ ProgramOK'
<1> DEFINE c == todo[1]
<1>1. /\ todo # <<>> /\ pc = "out" /\ pc' = "ret" /\ UNCHANGED todo
      /\ syscall' = TRUE /\ biosfn' = Head(todo).fn /\ Arguments(Head(todo))
      /\ UNCHANGED <<discState, selection, a, hl, unix, fds, failed>>
  BY DEF GuestCall
<1>2. Head(todo) = c /\ c \in Calls /\ 1 \in 1 .. Len(todo)
  BY <1>1, HeadIs DEF CpmInv, ProgramOK
<1> HIDE DEF c
<1>3. /\ c.fn \in NumberFns => c.arg \in Nat
      /\ c.fn = "settrack" => c.arg \in Nat
      /\ c.fn = "secttran" => c.arg \in Nat
      /\ c.fn = "setsector" => c.arg \in Nat \union {InHL}
      /\ c.fn = "setdma" => c.arg \in DmaAddr
      /\ c.fn \in DataFns => c.arg \in [1 .. SectorSize -> Units]
      /\ c.fn \in OpenFns => c.arg \in UnixNames
  BY <1>2, CallHas, CpmAssumption
<1>4. bc' \in Nat /\ (c.fn = "setdma" => bc' \in DmaAddr)
  <2>1. CASE c.fn \in {"seldisc", "settrack", "secttran"}
    <3>1. bc' = c.arg
      BY <1>1, <1>2, <2>1 DEF Arguments
    <3> QED
      BY <1>3, <2>1, <3>1 DEF NumberFns
  <2>2. CASE c.fn = "setdma"
    <3>1. bc' = c.arg
      BY <1>1, <1>2, <2>2 DEF Arguments
    <3> QED
      BY <1>3, <2>2, <3>1, CpmAssumption
  <2>3. CASE c.fn = "setsector"
    <3>1. bc' = IF c.arg = InHL THEN hl ELSE c.arg
      BY <1>1, <1>2, <2>3 DEF Arguments
    <3>2. hl \in Nat
      BY DEF CpmInv, BiosOK, RegsOK
    <3> QED
      BY <1>3, <2>3, <3>1, <3>2
  <2>4. CASE c.fn \notin {"seldisc", "settrack", "setdma", "secttran", "setsector"}
    <3>1. bc' = bc
      BY <1>1, <1>2, <2>4 DEF Arguments
    <3> QED
      BY <2>4, <3>1 DEF CpmInv, BiosOK, RegsOK
  <2> QED
    BY <2>1, <2>2, <2>3, <2>4
<1>5. MemOK'
  <2>1. CASE c.fn \in DataFns
    <3>1. mem' = [mem EXCEPT ![dma] = c.arg]
      BY <1>1, <1>2, <2>1 DEF Arguments, DataFns
    <3> QED
      BY <1>3, <2>1, <3>1 DEF CpmInv, BiosOK, MemOK, SelectionOK
  <2>2. CASE c.fn \notin DataFns
    <3>1. mem' = mem
      BY <1>1, <1>2, <2>2 DEF Arguments, DataFns
    <3> QED
      BY <3>1 DEF CpmInv, BiosOK, MemOK
  <2> QED
    BY <2>1, <2>2
<1>6. UnixOK'
  <2>1. CASE c.fn \in OpenFns
    <3>1. fcb' = FcbWith(c.arg, 0, 0, 0)
      BY <1>1, <1>2, <2>1 DEF Arguments, OpenFns, FcbWith
    <3>2. fcb' \in Fcbs /\ fcb'.fd = 0
      BY <1>3, <2>1, <3>1 DEF FcbWith, Fcbs
    <3> QED
      BY <1>1, <3>2 DEF CpmInv, BiosOK, UnixOK
  <2>2. CASE c.fn \notin OpenFns
    <3>1. UNCHANGED <<unix, fds, fcb>>
      BY <1>1, <1>2, <2>2 DEF Arguments, OpenFns
    <3> QED
      BY <3>1 DEF CpmInv, BiosOK, UnixOK
  <2> QED
    BY <2>1, <2>2
<1>7. BiosOK' /\ AllThere'
  <2>1. DiscOK' /\ SelectionOK' /\ AllThere'
    BY <1>1 DEF CpmInv, BiosOK, DiscOK, AllThere, SelectionOK, discState, selection
  <2>2. RegsOK'
    BY <1>1, <1>4 DEF CpmInv, BiosOK, RegsOK
  <2> QED
    BY <1>5, <1>6, <2>1, <2>2 DEF BiosOK
<1>8. ProgramOK'
  <2>1. todo \in Seq(Calls) /\ OneFile(todo)
    BY DEF CpmInv, ProgramOK
  <2> QED
    BY <1>1, <1>2, <1>4, <2>1 DEF ProgramOK, OneFile
<1> QED
  BY <1>7, <1>8

\* What is left of a program after a call: nothing, a reset, the same again,
\* or the rest.
LEMMA ContinuedIs ==
  ASSUME NEW c, NEW rest
  PROVE  /\ Continued(c, rest) \in {<<Call("warmboot", 0)>>, <<>>, todo, rest}
         /\ c.fn = "closeunix" => Continued(c, rest) = rest
         /\ c.fn \in OpenFns /\ a # 0 => Continued(c, rest) = <<>>
<1>1. CASE c.fn = "seldisc" /\ hl = NoHeader
  <2>1. Continued(c, rest) = <<Call("warmboot", 0)>>
    BY <1>1 DEF Continued
  <2> QED
    BY <1>1, <2>1 DEF OpenFns
<1>2. CASE c.fn \in {"openunix", "createunix", "wrunix"} /\ a # 0
  <2>1. Continued(c, rest) = <<>>
    BY <1>2 DEF Continued
  <2> QED
    BY <1>2, <2>1
<1>3. CASE c.fn = "rdunix" /\ a = 0
  <2>1. Continued(c, rest) = todo
    BY <1>3 DEF Continued
  <2> QED
    BY <1>3, <2>1 DEF OpenFns
<1>4. CASE /\ ~(c.fn = "seldisc" /\ hl = NoHeader)
           /\ ~(c.fn \in {"openunix", "createunix", "wrunix"} /\ a # 0)
           /\ ~(c.fn = "rdunix" /\ a = 0)
  <2>1. Continued(c, rest) = rest
    BY <1>4 DEF Continued
  <2> QED
    BY <1>4, <2>1 DEF OpenFns
<1> QED
  BY <1>1, <1>2, <1>3, <1>4

LEMMA ReturnKeeps ==
  ASSUME CpmInv, GuestReturn
  PROVE  BiosOK' /\ AllThere' /\ ProgramOK'
<1>1. /\ pc = "ret" /\ pc' = "out" /\ UNCHANGED <<biosVars, failed>> /\ UNCHANGED <<syscall, biosfn>>
      /\ todo' = Continued(Head(todo), Tail(todo))
  BY DEF GuestReturn, history
<1>2. BiosOK' /\ AllThere' /\ bc' = bc
  BY <1>1, BiosUnchanged DEF CpmInv
<1>3. /\ todo \in Seq(Calls) /\ todo # <<>> /\ OneFile(todo)
      /\ Tail(todo) \in Seq(Calls) /\ Len(Tail(todo)) = Len(todo) - 1
      /\ \A i \in 1 .. Len(todo) - 1 : Tail(todo)[i] = todo[i + 1]
  BY <1>1, HeadIs DEF CpmInv, ProgramOK
<1>4. todo' \in {<<Call("warmboot", 0)>>, <<>>, todo, Tail(todo)}
  BY <1>1, ContinuedIs
<1>5. ASSUME NEW s \in {<<Call("warmboot", 0)>>, <<>>, todo, Tail(todo)}
      PROVE  s \in Seq(Calls) /\ OneFile(s)
  <2>1. CASE s = <<Call("warmboot", 0)>>
    <3>1. Call("warmboot", 0) \in Calls /\ Call("warmboot", 0).fn = "warmboot"
      BY CallIs, CallFn DEF NumberFns
    <3>2. s \in Seq(Calls) /\ Len(s) = 1 /\ s[1].fn = "warmboot"
      BY <2>1, <3>1
    <3> QED
      BY <3>2 DEF OneFile, OpenFns
  <2>2. CASE s = <<>>
    <3>1. s \in Seq(Calls) /\ Len(s) = 0
      BY <2>2
    <3> QED
      BY <3>1 DEF OneFile
  <2>3. CASE s = todo
    BY <1>3, <2>3, SMTT(40)
  <2>4. CASE s = Tail(todo)
    <3>1. Len(s) = Len(todo) - 1 /\ Len(todo) \in Nat /\ \A i \in 1 .. Len(s) : s[i] = todo[i + 1]
      BY <1>3, <2>4
    <3>2. \A i \in 1 .. Len(s) : i + 1 \in 1 .. Len(todo) /\ i + 1 # 1 /\ (i + 1 = Len(todo) => i = Len(s))
      BY <3>1, SMTT(40)
    <3>3. OneFile(s)
      BY <1>3, <3>1, <3>2, ZenonT(40) DEF OneFile
    <3> QED
      BY <1>3, <2>4, <3>1, <3>2, <3>3, ZenonT(40)
  <2> QED
    BY <2>1, <2>2, <2>3, <2>4
<1>6. todo' \in Seq(Calls) /\ OneFile(todo')
  BY <1>4, <1>5
<1>7. ProgramOK'
  BY <1>1, <1>2, <1>6 DEF CpmInv, ProgramOK, OneFile
<1> QED
  BY <1>2, <1>7

LEMMA InitHolds == Init => CpmInv
<1> SUFFICES ASSUME Init PROVE CpmInv
  OBVIOUS
<1>1. PICK h \in HardFiles, f \in {<<>>, MadeFile} :
        BiosInit([d \in Drives |-> IF d \in HardDiscs THEN h ELSE f])
  BY DEF Init
<1> USE BiosAssumption, CpmAssumption
<1>2. h \in Seq(Units) /\ f \in Seq(Units)
  <2>1. <<>> \in Seq(Units)
    OBVIOUS
  <2>2. h \in Seq(Units)
    BY CpmAssumption
  <2> QED
    BY <2>1, <2>2, MadeIs
<1>3. DiscOK /\ AllThere
  <2>1. /\ file = [d \in Drives |-> IF d \in HardDiscs THEN h ELSE f]
        /\ held = [d \in Drives |-> Nothing]
        /\ drives = {} /\ drivelen = [d \in Drives |-> 0]
    BY <1>1 DEF BiosInit
  <2>2. file \in [Drives -> Seq(Units)] /\ held \in [Drives -> Held]
    BY <1>2, <2>1, HeldIs
  <2>3. drivelen \in [Drives -> Nat]
    BY <2>1
  <2> QED
    BY <2>1, <2>2, <2>3 DEF DiscOK, DiscsOK, AllThere, Counted
<1>4. SelectionOK /\ RegsOK
  BY <1>1 DEF BiosInit, SelectionOK, RegsOK
<1>5. MemOK
  <2>1. [i \in 1 .. SectorSize |-> 0] \in [1 .. SectorSize -> Units]
    BY DEF Units
  <2> QED
    BY <1>1, <2>1 DEF BiosInit, MemOK
<1>6. UnixOK
  <2>1. /\ fcb = FcbWith(CHOOSE n \in UnixNames : TRUE, 0, 0, 0)
        /\ unix = UnixFiles /\ fds = [p \in {} |-> 0]
    BY <1>1 DEF BiosInit, FcbWith
  <2>2. (CHOOSE n \in UnixNames : TRUE) \in UnixNames
    <3>1. UnixNames # {}
      BY CpmAssumption
    <3>2. \E n : n \in UnixNames
      BY <3>1
    <3> QED
      BY <3>2, Zenon
  <2>3. fcb \in Fcbs /\ fcb.fd = 0
    BY <2>1, <2>2 DEF FcbWith, Fcbs
  <2>4. UnixFiles \in [DOMAIN UnixFiles -> Seq(Units)]
    OBVIOUS
  <2>5. DOMAIN fds = {} /\ fds \in [{} -> Files(DOMAIN unix)]
    BY <2>1
  <2> QED
    BY <2>1, <2>3, <2>4, <2>5 DEF UnixOK
<1>7. EmulatorOK
  BY DEF Init, EmulatorOK
<1>8. ProgramOK
  BY DEF Init, ProgramOK, OneFile
<1> QED
  BY <1>3, <1>4, <1>5, <1>6, <1>7, <1>8 DEF CpmInv, BiosOK

LEMMA NextKeepsAll == CpmInv /\ [Next]_vars => CpmInv'
<1> SUFFICES ASSUME CpmInv, [Next]_vars PROVE BiosOK' /\ AllThere' /\ ProgramOK'
  BY EmulatorStays DEF CpmInv
<1>1. CASE Execute \/ SignalStops \/ Traced \/ NothingToServe \/ WildFile
  BY <1>1, Between DEF Execute, SignalStops, Traced, NothingToServe, WildFile, history
<1>2. CASE Break \/ PromptTrace \/ PromptStep \/ PromptGo
  BY <1>2, Between DEF Break, PromptTrace, PromptStep, PromptGo, history
<1>3. CASE PowerOn \/ PromptBoot
  BY <1>3, BootKeeps
<1>4. CASE Serve
  BY <1>4, ServeKeeps
<1>5. CASE StartAccess \/ StartRaw \/ StartRestart \/ StartGetunix \/ StartPutunix
  BY <1>5, StartsWhole, StartedKeeps
<1>6. CASE GuestCall
  BY <1>6, CallKeeps
<1>7. CASE GuestReturn
  BY <1>7, ReturnKeeps
<1>8. CASE UNCHANGED vars
  BY <1>8, Between DEF vars, emulator, history
<1> QED
  BY <1>1, <1>2, <1>3, <1>4, <1>5, <1>6, <1>7, <1>8 DEF Next, Emulator, User, Program

LEMMA CpmInvariant == Spec => []CpmInv
<1> QED
  BY InitHolds, NextKeepsAll, PTL DEF Spec

(* The emulator, the drives, the memory and the FCB keep their types, and  *)
(* a sector or nothing is held for an open drive.                          *)
THEOREM CpmTypeCorrect == Spec => []CpmTypeOK
<1>1. CpmInv => CpmTypeOK
  <2> SUFFICES ASSUME CpmInv PROVE CpmTypeOK
    OBVIOUS
  <2>1. drives \subseteq Openable /\ drive \in Drives
        /\ track \in Nat /\ sector \in Nat /\ dma \in DmaAddr
        /\ a \in 0 .. 255
    BY DEF CpmInv, BiosOK, DiscOK, DiscsOK, SelectionOK, RegsOK
  <2>2. \A m \in DmaAddr : mem[m] \in [1 .. SectorSize -> Units]
    BY DEF CpmInv, BiosOK, MemOK
  <2>3. /\ phase \in {"start", "top", "serve", "prompt", "exec", "crashed"} /\ resume \in {"exec", "serve"}
        /\ {event, sig, trace, step, syscall, broke} \subseteq BOOLEAN
    BY DEF CpmInv, EmulatorOK
  <2>4. DOMAIN fds \subseteq Addresses /\ fcb.fd \in Nat
    BY FcbFields DEF CpmInv, BiosOK, UnixOK
  <2>5. \A d \in Drives : held[d] # Nothing => d \in drives /\ Len(held[d].data) = SectorSize
    BY DEF CpmInv, BiosOK, DiscOK, DiscsOK, DriveFits
  <2> QED
    BY <2>1, <2>2, <2>3, <2>4, <2>5 DEF CpmTypeOK
<1> QED
  BY CpmInvariant, <1>1, PTL

(* The length that is kept for an open drive counts every whole sector of  *)
(* its file and what stdio holds for it, after every failure, every boot   *)
(* and every call that a SIGINT took, and no other one unless a transfer   *)
(* failed: rdsector hides no written sector, and wrsector fills none anew  *)
(* (bios.c, seldisc, rdsector, wrsector).                                  *)
THEOREM LengthsAgree == Spec => []LengthAgrees
<1>1. CpmInv => LengthAgrees
  <2> SUFFICES ASSUME CpmInv, NEW d \in drives
               PROVE  /\ WholeSectors(Shown(d)) <= drivelen[d]
                      /\ d \notin failed => WholeSectors(Shown(d)) = drivelen[d]
    BY DEF LengthAgrees
  <2> DEFINE len == Len(Shown(d))
             top == drivelen[d]
  <2>1. d \in Drives
    BY BiosAssumption DEF CpmInv, BiosOK, DiscOK, DiscsOK
  <2>2. len \in Nat /\ top \in Nat /\ IsWhole(top) /\ len < top + SectorSize
    BY <2>1, DiscIs DEF CpmInv, BiosOK, DiscOK, DriveFits, Shown
  <2>3. d \notin failed => top <= len
    BY DEF CpmInv, AllThere, Counted, Shown
  <2>4. WholeSectors(Shown(d)) = Whole(len)
    BY DEF WholeSectors, Whole
  <2> HIDE DEF len, top
  <2>5. /\ Whole(len) \in Nat /\ IsWhole(Whole(len))
        /\ Whole(len) <= len /\ len < Whole(len) + SectorSize
    BY <2>2, WholeIs
  <2>6. Whole(len) <= top
    <3>1. CASE top < Whole(len)
      <4>1. top + SectorSize <= Whole(len)
        BY <2>2, <2>5, <3>1, WholeApart
      <4> QED
        BY <2>2, <2>5, <4>1, SectorIsWhole
    <3> QED
      BY <2>2, <2>5, <3>1
  <2>7. d \notin failed => Whole(len) = top
    BY <2>2, <2>3, <2>5, WholeUnique
  <2> QED
    BY <2>4, <2>6, <2>7 DEF top
<1> QED
  BY CpmInvariant, <1>1, PTL

-----------------------------------------------------------------------------
(* Without a SIGINT there is no prompt, and the program is served call by  *)
(* call: the file it uses is the one it has opened, or a pointer was cut.  *)

Quiet == ~sig /\ ~trace /\ ~broke /\ phase # "prompt"

HasFile ==
  /\ syscall => pc = "ret" /\ biosfn = todo[1].fn
  /\ \/ FileReady
     \/ \A i \in 1 .. Len(todo) : ~UsesFile(todo[i].fn)
     \/ todo[1].fn \in OpenFns /\ ~(pc = "ret" /\ ~syscall /\ a = 0)
     \/ todo[1].fn = "closeunix" /\ pc = "ret" /\ ~syscall

Unbroken == breaks = 0 => Quiet /\ HasFile /\ (phase = "crashed" => ~PointersFit)

LEMMA ReadyStays ==
  ASSUME DOMAIN fds' = DOMAIN fds, fcb'.fd = fcb.fd
  PROVE  (FileReady' <=> FileReady) /\ (Open(fcb.fd)' <=> Open(fcb.fd)) /\ (PointersFit' <=> PointersFit)
  BY DEF FileReady, Open, PointersFit

LEMMA EmulatorKeepsFile ==
  ASSUME CpmInv, Quiet, HasFile, Emulator
  PROVE  Quiet' /\ HasFile' /\ (phase' = "crashed" => ~PointersFit' \/ phase = "crashed")
<1> USE DEF Quiet
<1>1. CASE PowerOn
  <2>1. StartFrom(0) /\ 0 \in Drives /\ UNCHANGED program
        /\ UNCHANGED <<sig, trace, syscall, biosfn, broke>> /\ phase' = "top"
    BY <1>1, BiosAssumption DEF PowerOn, boot, Remembers
  <2>2. UNCHANGED <<unixState, a>>
    BY <2>1 DEF StartFrom
  <2>3. FileReady' <=> FileReady
    BY <2>2, ReadyStays DEF unixState
  <2> QED
    BY <2>1, <2>2, <2>3 DEF HasFile, program
<1>2. CASE Execute \/ NothingToServe \/ Traced
  <2>1. UNCHANGED <<biosVars, program, sig, trace, syscall, biosfn, broke>>
    BY <1>2 DEF Execute, NothingToServe, Traced, history
  <2>2. phase' \notin {"prompt", "crashed"}
    BY <1>2 DEF Execute, NothingToServe, Traced
  <2>3. (FileReady' <=> FileReady) /\ a' = a
    BY <2>1, ReadyStays DEF biosVars, unixState
  <2> QED
    BY <2>1, <2>2, <2>3 DEF HasFile, program
<1>3. CASE SignalStops
  BY <1>3 DEF SignalStops
<1>4. CASE Serve
  <2>1. /\ syscall /\ syscall' = FALSE /\ bios(biosfn) /\ Restarts(biosfn)
        /\ phase' = "exec" /\ UNCHANGED <<sig, trace, broke>> /\ Remembers(biosfn)
    BY <1>4 DEF Serve, Remembers
  <2>2. pc = "ret" /\ biosfn = todo[1].fn
    BY <2>1 DEF HasFile
  <2>3. /\ biosfn \notin OpenFns \union {"closeunix"} => (FileReady => FileReady')
        /\ biosfn \in OpenFns /\ a' = 0 => FileReady'
    <3>1. biosfn = "setdma" => bc \in DmaAddr
      BY <2>1 DEF CpmInv, ProgramOK
    <3>2. /\ biosfn \notin OpenFns \union {"closeunix"} =>
               DOMAIN fds' = DOMAIN fds /\ fcb'.fd = fcb.fd
          /\ biosfn \in OpenFns /\ a' = 0 => FileReady'
      BY <2>1, <3>1, BiosKeeps DEF CpmInv
    <3> QED
      BY <3>2, ReadyStays
  <2>4. CASE biosfn \in {"boot", "warmboot"}
    <3>1. todo' = <<>>
      BY <2>1, <2>4 DEF Restarts
    <3>2. Len(todo') = 0
      BY <3>1
    <3> QED
      BY <2>1, <3>2 DEF HasFile
  <2>5. CASE biosfn \notin {"boot", "warmboot"}
    <3>1. UNCHANGED <<pc, todo>>
      BY <2>1, <2>5 DEF Restarts, program
    <3>2. CASE biosfn \in OpenFns
      BY <2>1, <2>2, <2>3, <3>1, <3>2 DEF HasFile
    <3>3. CASE biosfn = "closeunix"
      BY <2>1, <2>2, <3>1, <3>3 DEF HasFile
    <3>4. CASE biosfn \notin OpenFns \union {"closeunix"}
      <4>1. FileReady \/ \A i \in 1 .. Len(todo) : ~UsesFile(todo[i].fn)
        BY <2>2, <3>4 DEF HasFile
      <4>2. FileReady' \/ \A i \in 1 .. Len(todo') : ~UsesFile(todo'[i].fn)
        BY <2>3, <3>1, <3>4, <4>1
      <4> QED
        BY <2>1, <4>2 DEF HasFile
    <3> QED
      BY <3>2, <3>3, <3>4
  <2> QED
    BY <2>4, <2>5
<1>5. CASE WildFile
  <2>1. syscall /\ UsesFile(biosfn) /\ ~Open(fcb.fd)
    BY <1>5 DEF WildFile
  <2>2. pc = "ret" /\ biosfn = todo[1].fn
    BY <2>1 DEF HasFile
  <2>3. 1 \in 1 .. Len(todo)
    BY <2>2, HeadIs DEF CpmInv, ProgramOK
  <2>4. biosfn \notin OpenFns
    BY <2>1 DEF UsesFile, OpenFns
  <2>5. FileReady
    BY <2>1, <2>2, <2>3, <2>4 DEF HasFile
  <2>6. UNCHANGED <<biosVars, program, sig, trace, syscall, biosfn, broke>> /\ phase' = "crashed"
    BY <1>5 DEF WildFile, history
  <2>7. (FileReady' <=> FileReady) /\ (PointersFit' <=> PointersFit) /\ a' = a
    BY <2>6, ReadyStays DEF biosVars, unixState
  <2>8. ~PointersFit
    BY <2>1, <2>5 DEF FileReady
  <2> QED
    BY <2>6, <2>7, <2>8 DEF HasFile, program
<1> QED
  BY <1>1, <1>2, <1>3, <1>4, <1>5 DEF Emulator

LEMMA ProgramKeepsFile ==
  ASSUME CpmInv, CallOnItsWay, Quiet, HasFile, Program
  PROVE  Quiet' /\ HasFile' /\ phase' # "crashed"
<1> USE DEF Quiet
<1>1. ASSUME NEW s, Starts(s), WholeProgram(s) PROVE Quiet' /\ HasFile' /\ phase' # "crashed"
  <2>1. /\ UNCHANGED <<sig, trace, syscall, broke>> /\ phase' = "top"
        /\ pc = "out" /\ pc' = "out" /\ todo' = s
    BY <1>1 DEF Starts, history
  <2>2. ~syscall
    BY <2>1 DEF HasFile
  <2>3. s[1].fn \in OpenFns \/ \A i \in 1 .. Len(s) : ~UsesFile(s[i].fn)
    BY <1>1 DEF WholeProgram
  <2> QED
    BY <2>1, <2>2, <2>3 DEF HasFile
<1>2. CASE StartAccess \/ StartRaw \/ StartRestart \/ StartGetunix \/ StartPutunix
  BY <1>1, <1>2, StartsWhole
<1>3. CASE GuestCall
  <2>1. /\ pc = "out" /\ pc' = "ret" /\ syscall' = TRUE /\ biosfn' = Head(todo).fn
        /\ todo # <<>> /\ todo' = todo
        /\ phase' = "top" /\ broke' = sig /\ UNCHANGED <<sig, trace, unix, fds>>
        /\ Arguments(Head(todo))
    BY <1>3 DEF GuestCall
  <2>2. Head(todo) = todo[1]
    BY <2>1, HeadIs DEF CpmInv, ProgramOK
  <2>3. CASE todo[1].fn \in OpenFns
    BY <2>1, <2>2, <2>3 DEF HasFile
  <2>4. CASE todo[1].fn \notin OpenFns
    <3>1. fcb' = fcb
      BY <2>1, <2>2, <2>4 DEF Arguments, OpenFns
    <3>2. FileReady' <=> FileReady
      BY <2>1, <3>1, ReadyStays
    <3>3. FileReady \/ \A i \in 1 .. Len(todo) : ~UsesFile(todo[i].fn)
      BY <2>1, <2>4 DEF HasFile
    <3> QED
      BY <2>1, <2>2, <3>2, <3>3 DEF HasFile
  <2> QED
    BY <2>3, <2>4
<1>4. CASE GuestReturn
  <2>1. /\ phase = "exec" /\ pc = "ret" /\ pc' = "out" /\ phase' = "top"
        /\ todo' = Continued(Head(todo), Tail(todo))
        /\ UNCHANGED <<sig, trace, syscall, broke>> /\ UNCHANGED biosVars
    BY <1>4 DEF GuestReturn, history
  <2>2. ~syscall
    BY <2>1 DEF CallOnItsWay
  <2>3. /\ todo \in Seq(Calls) /\ todo # <<>> /\ OneFile(todo) /\ Head(todo) = todo[1]
        /\ Len(Tail(todo)) = Len(todo) - 1 /\ Len(todo) \in Nat /\ 1 \in 1 .. Len(todo)
        /\ \A i \in 1 .. Len(todo) - 1 : Tail(todo)[i] = todo[i + 1]
    BY <2>1, HeadIs DEF CpmInv, ProgramOK
  <2>4. FileReady' <=> FileReady
    BY <2>1, ReadyStays DEF biosVars, unixState
  <2>5. todo' \in {<<Call("warmboot", 0)>>, <<>>, todo, Tail(todo)}
    BY <2>1, ContinuedIs
  <2> DEFINE NoneUses(s) == \A i \in 1 .. Len(s) : ~UsesFile(s[i].fn)
  <2>6. NoneUses(todo) => NoneUses(todo')
    <3> SUFFICES ASSUME NoneUses(todo) PROVE NoneUses(todo')
      OBVIOUS
    <3>1. NoneUses(<<Call("warmboot", 0)>>)
      <4> DEFINE s == <<Call("warmboot", 0)>>
      <4>1. Len(s) = 1 /\ s[1].fn = "warmboot"
        BY CallFn
      <4> HIDE DEF s
      <4>2. NoneUses(s)
        BY <4>1 DEF UsesFile
      <4> QED
        BY <4>2 DEF s
    <3>2. NoneUses(<<>>)
      OBVIOUS
    <3>3. NoneUses(Tail(todo))
      <4> SUFFICES ASSUME NEW i \in 1 .. Len(Tail(todo)) PROVE ~UsesFile(Tail(todo)[i].fn)
        OBVIOUS
      <4>1. i + 1 \in 1 .. Len(todo) /\ Tail(todo)[i] = todo[i + 1]
        BY <2>3
      <4> QED
        BY <4>1
    <3> HIDE DEF NoneUses
    <3> QED
      BY <2>5, <3>1, <3>2, <3>3
  <2>7. todo[1].fn \in OpenFns /\ a # 0 => NoneUses(todo')
    <3> SUFFICES ASSUME todo[1].fn \in OpenFns, a # 0 PROVE NoneUses(todo')
      OBVIOUS
    <3>1. todo' = <<>>
      BY <2>1, <2>3, ContinuedIs
    <3>2. Len(todo') = 0
      BY <3>1
    <3> QED
      BY <3>2
  <2>8. todo[1].fn = "closeunix" => NoneUses(todo')
    <3> SUFFICES ASSUME todo[1].fn = "closeunix" PROVE NoneUses(todo')
      OBVIOUS
    <3>1. todo' = Tail(todo)
      BY <2>1, <2>3, ContinuedIs
    <3>2. Len(todo) = 1
      BY <2>3 DEF OneFile
    <3>3. Len(todo') = 0
      BY <2>3, <3>1, <3>2
    <3> QED
      BY <3>3
  <2>9. FileReady' \/ NoneUses(todo')
    <3> HIDE DEF NoneUses
    <3>1. \/ FileReady \/ NoneUses(todo)
          \/ todo[1].fn \in OpenFns /\ a # 0
          \/ todo[1].fn = "closeunix"
      BY <2>1, <2>2 DEF HasFile, NoneUses
    <3> QED
      BY <2>4, <2>6, <2>7, <2>8, <3>1
  <2> QED
    BY <2>1, <2>2, <2>9 DEF HasFile
<1> QED
  BY <1>2, <1>3, <1>4 DEF Program

LEMMA NextKeepsUnbroken ==
  ASSUME CpmInv, CallOnItsWay, Unbroken, [Next]_vars
  PROVE  Unbroken'
<1> SUFFICES ASSUME breaks' = 0 PROVE Quiet' /\ HasFile' /\ (phase' = "crashed" => ~PointersFit')
  BY DEF Unbroken
<1>1. breaks \in Nat
  BY DEF CpmInv, EmulatorOK
<1>2. CASE Break
  BY <1>1, <1>2 DEF Break
<1>3. CASE Emulator
  <2>1. UNCHANGED breaks
    BY <1>3 DEF Emulator, PowerOn, Execute, SignalStops, Traced, NothingToServe, Serve, WildFile,
                Remembers, history
  <2>2. Quiet' /\ HasFile' /\ (phase' = "crashed" => ~PointersFit' \/ phase = "crashed")
    BY <1>3, <2>1, EmulatorKeepsFile DEF Unbroken
  <2>3. phase # "crashed"
    BY <1>3 DEF Emulator, PowerOn, Execute, SignalStops, Traced, NothingToServe, Serve, WildFile
  <2> QED
    BY <2>2, <2>3
<1>4. CASE PromptBoot \/ PromptTrace \/ PromptStep \/ PromptGo
  <2>1. phase = "prompt" /\ UNCHANGED breaks
    BY <1>4 DEF PromptBoot, PromptTrace, PromptStep, PromptGo, Remembers, history
  <2> QED
    BY <2>1 DEF Unbroken, Quiet
<1>5. CASE Program
  <2>1. ASSUME NEW s, Starts(s) PROVE UNCHANGED breaks
    BY <2>1 DEF Starts, history
  <2>2. GuestCall => UNCHANGED breaks
    BY DEF GuestCall
  <2>3. GuestReturn => UNCHANGED breaks
    BY DEF GuestReturn, history
  <2>4. UNCHANGED breaks
    BY <1>5, <2>1, <2>2, <2>3, StartsWhole DEF Program
  <2> QED
    BY <1>5, <2>4, ProgramKeepsFile DEF Unbroken
<1>6. CASE UNCHANGED vars
  <2>1. UNCHANGED <<biosVars, pc, todo, sig, trace, broke, phase, syscall, biosfn, breaks>>
    BY <1>6 DEF vars, emulator, program, history
  <2>2. Quiet /\ HasFile /\ (phase = "crashed" => ~PointersFit)
    BY <2>1 DEF Unbroken
  <2>3. (FileReady' <=> FileReady) /\ (PointersFit' <=> PointersFit) /\ a' = a
    BY <2>1, ReadyStays DEF biosVars, unixState
  <2> QED
    BY <2>1, <2>2, <2>3 DEF Quiet, HasFile
<1> QED
  BY <1>2, <1>3, <1>4, <1>5, <1>6 DEF Next, User

(* The emulator uses a file pointer that the program does not have only    *)
(* after a SIGINT took the call that opens it, or when a pointer that fopen *)
(* returned was cut to fit into its FCB: the programs of utils check       *)
(* what openunix and createunix return, and close their file once (bios.c, *)
(* rdunix to closeunix; utils/getunix.mac and putunix.mac).                *)
THEOREM WildNeedsBreak == Spec => []WildOnlyAfterBreak
<1>1. Init => CallOnItsWay /\ Unbroken
  BY DEF Init, CallOnItsWay, Unbroken, Quiet, HasFile
<1>2. CpmInv /\ CallOnItsWay /\ Unbroken /\ [Next]_vars => CallOnItsWay' /\ Unbroken'
  BY NextKeepsCall, NextKeepsUnbroken
<1>3. CpmInv /\ Unbroken => WildOnlyAfterBreak
  BY DEF CpmInv, EmulatorOK, Unbroken, WildOnlyAfterBreak
<1> QED
  BY CpmInvariant, <1>1, <1>2, <1>3, PTL DEF Spec

-----------------------------------------------------------------------------
(* The drives as discs of sectors.                                         *)

Sectors == [1 .. SectorSize -> Units]

\* A sector of a file when the length that is kept for it is top.
SectorOf(s, top, p) ==
  IF (p + 1) * SectorSize <= Len(s) THEN SubSeq(s, p * SectorSize + 1, (p + 1) * SectorSize)
  ELSE IF p * SectorSize < top THEN Missing ELSE Blank

LEMMA PlaceOffset ==
  ASSUME NEW p \in Nat, NEW o, o = p * SectorSize
  PROVE  o \in Nat /\ IsWhole(o) /\ (p + 1) * SectorSize = o + SectorSize
BY BiosAssumption DEF IsWhole

LEMMA SectorValue ==
  ASSUME NEW s, NEW top, NEW p \in Nat, NEW o, o = p * SectorSize
  PROVE  SectorOf(s, top, p) = IF o + SectorSize <= Len(s) THEN SubSeq(s, o + 1, o + SectorSize)
                               ELSE IF o < top THEN Missing ELSE Blank
BY PlaceOffset DEF SectorOf

LEMMA SliceIs ==
  ASSUME NEW s \in Seq(Units), NEW o \in Nat, o + SectorSize <= Len(s),
         NEW t, t = SubSeq(s, o + 1, o + SectorSize)
  PROVE  /\ t \in Seq(Units) /\ Len(t) = SectorSize
         /\ \A j \in 1 .. SectorSize : t[j] = s[o + j]
<1> DEFINE m == o + 1
           k == o + SectorSize
<1>0. Len(s) \in Nat /\ SectorSize \in Nat /\ SectorSize > 0
  BY SectorIsWhole
<1>1. m \in Nat /\ k \in Nat /\ m <= k /\ k - m + 1 = SectorSize
  BY <1>0
<1>2. \A i \in m .. k : s[i] \in Units
  <2> SUFFICES ASSUME NEW i \in m .. k PROVE s[i] \in Units
    OBVIOUS
  <2>1. i \in 1 .. Len(s)
    BY <1>0
  <2> QED
    BY <2>1, ElementOfSeq
<1>3. \A j \in 1 .. SectorSize : m + j - 1 = o + j
  BY <1>0
<1>4. t = SubSeq(s, m, k)
  OBVIOUS
<1> HIDE DEF m, k
<1>5. /\ SubSeq(s, m, k) \in Seq(Units) /\ Len(SubSeq(s, m, k)) = SectorSize
      /\ \A j \in 1 .. SectorSize : SubSeq(s, m, k)[j] = s[m + j - 1]
  BY <1>1, <1>2, SubSeqProperties
<1> QED
  BY <1>3, <1>4, <1>5

LEMMA SectorFull ==
  ASSUME NEW s \in Seq(Units), NEW top \in Nat, NEW p \in Nat, NEW o, o = p * SectorSize,
         o + SectorSize <= Len(s)
  PROVE  /\ SectorOf(s, top, p) \in Seq(Units) /\ Len(SectorOf(s, top, p)) = SectorSize
         /\ \A j \in 1 .. SectorSize : SectorOf(s, top, p)[j] = s[o + j]
<1>1. SectorOf(s, top, p) = SubSeq(s, o + 1, o + SectorSize)
  BY SectorValue
<1>2. o \in Nat
  BY PlaceOffset
<1> HIDE DEF SectorOf
<1> QED
  BY <1>1, <1>2, SliceIs

LEMMA SectorShort ==
  ASSUME NEW s \in Seq(Units), NEW top \in Nat, NEW p \in Nat, NEW o, o = p * SectorSize,
         ~(o + SectorSize <= Len(s))
  PROVE  SectorOf(s, top, p) = IF o < top THEN Missing ELSE Blank
BY SectorValue

LEMMA SectorTyped ==
  ASSUME NEW s \in Seq(Units), NEW top \in Nat, NEW p \in Nat
  PROVE  /\ SectorOf(s, top, p) \in Sectors \union {Missing}
         /\ top = 0 => SectorOf(s, top, p) \in Sectors
<1> DEFINE o == p * SectorSize
<1>1. o \in Nat
  BY PlaceOffset
<1>2. Blank \in Sectors
  BY BlankIs DEF Sectors
<1>3. CASE o + SectorSize <= Len(s)
  <2> DEFINE x == SectorOf(s, top, p)
  <2>1. x \in Seq(Units) /\ Len(x) = SectorSize
    BY <1>3, SectorFull
  <2> HIDE DEF x
  <2>2. x \in Sectors
    BY <2>1, SeqFunction DEF Sectors
  <2> QED
    BY <2>2 DEF x
<1>4. CASE ~(o + SectorSize <= Len(s))
  <2>1. SectorOf(s, top, p) = IF o < top THEN Missing ELSE Blank
    BY <1>4, SectorShort
  <2> HIDE DEF o
  <2> QED
    BY <1>1, <1>2, <2>1
<1> QED
  BY <1>3, <1>4

\* Two files have the same sector at o, or have none there.
SameAt(s, t, o) ==
  /\ o + SectorSize <= Len(s) <=> o + SectorSize <= Len(t)
  /\ o + SectorSize <= Len(s) => \A j \in 1 .. SectorSize : t[o + j] = s[o + j]

LEMMA SameSector ==
  ASSUME NEW s \in Seq(Units), NEW t \in Seq(Units), NEW top \in Nat, NEW limit \in Nat,
         NEW p \in Nat, NEW o, o = p * SectorSize, SameAt(s, t, o),
         o + SectorSize <= Len(s) \/ (o < top <=> o < limit)
  PROVE  SectorOf(t, limit, p) = SectorOf(s, top, p)
<1>0. /\ o + SectorSize <= Len(s) <=> o + SectorSize <= Len(t)
      /\ o + SectorSize <= Len(s) => \A j \in 1 .. SectorSize : t[o + j] = s[o + j]
  BY DEF SameAt
<1>1. CASE o + SectorSize <= Len(s)
  <2>1. /\ SectorOf(s, top, p) \in Seq(Units) /\ Len(SectorOf(s, top, p)) = SectorSize
        /\ \A j \in 1 .. SectorSize : SectorOf(s, top, p)[j] = s[o + j]
    BY <1>1, SectorFull
  <2>2. /\ SectorOf(t, limit, p) \in Seq(Units) /\ Len(SectorOf(t, limit, p)) = SectorSize
        /\ \A j \in 1 .. SectorSize : SectorOf(t, limit, p)[j] = t[o + j]
    BY <1>0, <1>1, SectorFull, SMTT(40)
  <2>3. \A j \in 1 .. SectorSize : SectorOf(t, limit, p)[j] = SectorOf(s, top, p)[j]
    BY <1>0, <1>1, <2>1, <2>2
  <2> DEFINE x == SectorOf(s, top, p)
             y == SectorOf(t, limit, p)
  <2>4. x \in Seq(Units) /\ y \in Seq(Units) /\ Len(x) = Len(y) /\ Len(x) = SectorSize
        /\ \A j \in 1 .. SectorSize : y[j] = x[j]
    BY <2>1, <2>2, <2>3
  <2> HIDE DEF x, y
  <2>5. y = x
    BY <2>4, SeqsEqual
  <2> QED
    BY <2>5 DEF x, y
<1>2. CASE ~(o + SectorSize <= Len(s))
  <2>1. SectorOf(s, top, p) = IF o < top THEN Missing ELSE Blank
    BY <1>2, SectorShort
  <2>2. SectorOf(t, limit, p) = IF o < limit THEN Missing ELSE Blank
    BY <1>0, <1>2, SectorShort
  <2> QED
    BY <1>2, <2>1, <2>2
<1> QED
  BY <1>1, <1>2

\* A sector that is there holds what its units are.
SectorAt(s, o, data) ==
  o + SectorSize <= Len(s) /\ \A j \in 1 .. SectorSize : s[o + j] = data[j]

LEMMA SectorHolds ==
  ASSUME NEW s \in Seq(Units), NEW top \in Nat, NEW p \in Nat, NEW o, o = p * SectorSize,
         NEW data \in Seq(Units), Len(data) = SectorSize, SectorAt(s, o, data)
  PROVE  SectorOf(s, top, p) = data
<1>0. o + SectorSize <= Len(s) /\ \A j \in 1 .. SectorSize : s[o + j] = data[j]
  BY DEF SectorAt
<1>1. /\ SectorOf(s, top, p) \in Seq(Units) /\ Len(SectorOf(s, top, p)) = SectorSize
      /\ \A j \in 1 .. SectorSize : SectorOf(s, top, p)[j] = s[o + j]
  BY <1>0, SectorFull
<1> DEFINE x == SectorOf(s, top, p)
<1>2. x \in Seq(Units) /\ Len(x) = Len(data) /\ Len(x) = SectorSize
      /\ \A j \in 1 .. SectorSize : x[j] = data[j]
  BY <1>0, <1>1
<1> HIDE DEF x
<1>3. x = data
  BY <1>2, SeqsEqual
<1> QED
  BY <1>3 DEF x

LEMMA BlankUnits == \A j \in 1 .. SectorSize : Blank[j] = Filler
  BY DEF Blank, Fill

LEMMA BlankThere == Blank # Missing
<1>1. Len(Blank) = SectorSize /\ SectorSize > 0
  BY BlankIs, SectorIsWhole
<1>2. Len(Missing) = 0
  BY DEF Missing
<1> QED
  BY <1>1, <1>2

LEMMA SectorThere ==
  ASSUME NEW data \in Seq(Units), Len(data) = SectorSize
  PROVE  data # Missing
<1>1. Len(data) # Len(Missing)
  BY SectorIsWhole DEF Missing
<1> QED
  BY <1>1

\* The places that what is held for a file is to go to, its own and those before it.
Unsafe(s, h) == {p \in 0 .. MaxPlace : /\ h # Nothing /\ p * SectorSize <= h.at
                                       /\ p * SectorSize = h.at \/ (p + 1) * SectorSize > Len(s)}

\* Two sectors' places: one is behind the other.
LEMMA PlacesApart ==
  ASSUME NEW x \in Nat, NEW y \in Nat, IsWhole(x), IsWhole(y), x # y
  PROVE  x + SectorSize <= y \/ y + SectorSize <= x
<1>1. x < y \/ y < x
  OBVIOUS
<1> QED
  BY <1>1, WholeApart

\* What a flush and one that is complete leave apart from where they go to.
LEMMA PutElsewhere ==
  ASSUME NEW s \in Seq(Units), NEW h \in Held, NEW n \in Reach(h), NEW o \in Nat,
         \/ Len(h.data) = 0
         \/ o + SectorSize <= h.at /\ o + SectorSize <= Len(s)
         \/ h.at + Len(h.data) <= o,
         NEW t, t = Put(s, h, n), NEW b, b = Behind(s, h)
  PROVE  t \in Seq(Units) /\ b \in Seq(Units) /\ SameAt(b, t, o)
<1> DEFINE at == h.at
           k  == Len(h.data)
<1>1. /\ n \in 0 .. k /\ at \in Nat /\ t \in Seq(Units)
      /\ Len(t) = IF n > 0 /\ at + n > Len(s) THEN at + n ELSE Len(s)
      /\ \A i \in 1 .. Len(s) : i <= at \/ i > at + n => t[i] = s[i]
  BY PutIs
<1>2. /\ b \in Seq(Units)
      /\ Len(b) = IF k > 0 /\ at + k > Len(s) THEN at + k ELSE Len(s)
      /\ \A i \in 1 .. Len(s) : i <= at \/ i > at + k => b[i] = s[i]
  BY BehindIs
<1>3. k \in Nat /\ Len(s) \in Nat /\ SectorSize \in Nat /\ SectorSize > 0
  BY HeldIs, SectorIsWhole
<1>4. k = 0 \/ (o + SectorSize <= at /\ o + SectorSize <= Len(s)) \/ at + k <= o
  OBVIOUS
<1> HIDE DEF at, k
<1>5. o + SectorSize <= Len(b) <=> o + SectorSize <= Len(t)
  BY <1>1, <1>2, <1>3, <1>4
<1>6. ASSUME o + SectorSize <= Len(b), NEW j \in 1 .. SectorSize PROVE t[o + j] = b[o + j]
  <2>1. o + SectorSize <= Len(s)
    BY <1>2, <1>3, <1>4, <1>6
  <2>2. /\ o + j \in 1 .. Len(s)
        /\ o + j <= at \/ o + j > at + k
        /\ o + j <= at \/ o + j > at + n
    BY <1>1, <1>3, <1>4, <2>1
  <2>3. t[o + j] = s[o + j]
    BY <1>1, <2>2
  <2>4. b[o + j] = s[o + j]
    BY <1>2, <2>2
  <2> QED
    BY <2>3, <2>4
<1> QED
  BY <1>1, <1>2, <1>5, <1>6 DEF SameAt

\* A flush, whether it fails or not, leaves the other sectors as they were.
LEMMA PutSectors ==
  ASSUME NEW s \in Seq(Units), NEW h \in Held, NEW top \in Nat, DriveFits(s, h, top) \/ h = Nothing,
         NEW n \in Reach(h), NEW p \in 0 .. MaxPlace, p \notin Unsafe(s, h),
         NEW t, t = Put(s, h, n)
  PROVE  t \in Seq(Units) /\ SectorOf(t, top, p) = SectorOf(Behind(s, h), top, p)
<1> DEFINE o == p * SectorSize
           b == Behind(s, h)
<1>1. p \in Nat
  BY PlaceAssumption
<1>2. o \in Nat /\ IsWhole(o) /\ (p + 1) * SectorSize = o + SectorSize
  BY <1>1, PlaceOffset
<1>3. ~(h # Nothing /\ o <= h.at /\ (o = h.at \/ o + SectorSize > Len(s)))
  BY <1>2 DEF Unsafe
<1>4. o = p * SectorSize
  OBVIOUS
<1> HIDE DEF o
<1>5. \/ Len(h.data) = 0
      \/ o + SectorSize <= h.at /\ o + SectorSize <= Len(s)
      \/ h.at + Len(h.data) <= o
  <2> SUFFICES ASSUME h # Nothing
               PROVE  \/ o + SectorSize <= h.at /\ o + SectorSize <= Len(s)
                      \/ h.at + Len(h.data) <= o
    BY HeldIs
  <2>1. h # Nothing
    OBVIOUS
  <2>2. Len(h.data) = SectorSize /\ IsWhole(h.at)
    BY <2>1 DEF DriveFits
  <2>3. h.at \in Nat /\ Len(s) \in Nat
    BY HeldIs
  <2>4. o # h.at /\ (o <= h.at => o + SectorSize <= Len(s))
    BY <1>2, <1>3, <2>1, <2>3, SectorIsWhole
  <2>5. o + SectorSize <= h.at \/ h.at + SectorSize <= o
    BY <1>2, <2>2, <2>3, <2>4, PlacesApart
  <2> QED
    BY <1>2, <2>2, <2>3, <2>4, <2>5, SectorIsWhole
<1>6. t \in Seq(Units) /\ b \in Seq(Units) /\ SameAt(b, t, o)
  <2>1. o \in Nat /\ b = Behind(s, h)
    BY <1>2
  <2> HIDE DEF b
  <2> QED
    BY <1>5, <2>1, PutElsewhere
<1> HIDE DEF b
<1>7. SectorOf(t, top, p) = SectorOf(b, top, p)
  BY <1>1, <1>4, <1>6, SameSector
<1> QED
  BY <1>6, <1>7 DEF b

\* A sector of a file that is too short for any is unwritten.
LEMMA ShortIsBlank ==
  ASSUME NEW s \in Seq(Units), Len(s) < SectorSize, NEW p \in Nat
  PROVE  SectorOf(s, 0, p) = Blank
<1> DEFINE o == p * SectorSize
<1>1. o \in Nat /\ Len(s) \in Nat /\ SectorSize \in Nat
  BY PlaceOffset, SectorIsWhole
<1>2. o = p * SectorSize
  OBVIOUS
<1> HIDE DEF o
<1>3. ~(o + SectorSize <= Len(s)) /\ ~(o < 0)
  BY <1>1
<1>4. SectorOf(s, 0, p) = IF o < 0 THEN Missing ELSE Blank
  BY <1>2, <1>3, SectorShort
<1> QED
  BY <1>3, <1>4

\* The length of a drive that is opened counts the sectors that are there.
LEMMA OpenedSectors ==
  ASSUME NEW s \in Seq(Units), NEW p \in Nat
  PROVE  SectorOf(s, Whole(Len(s)), p) = SectorOf(s, 0, p)
<1> DEFINE o == p * SectorSize
           w == Whole(Len(s))
<1>1. o \in Nat /\ IsWhole(o) /\ Len(s) \in Nat /\ SectorSize \in Nat
  BY PlaceOffset, SectorIsWhole
<1>2. o = p * SectorSize
  OBVIOUS
<1>3. w \in Nat /\ IsWhole(w) /\ w <= Len(s)
  BY <1>1, WholeIs
<1> HIDE DEF o, w
<1>4. o < w => o + SectorSize <= w
  BY <1>1, <1>3, WholeApart
<1>5. o + SectorSize <= Len(s) \/ (o < 0 <=> o < w)
  BY <1>1, <1>3, <1>4
<1>6. SameAt(s, s, o)
  BY DEF SameAt
<1>7. 0 \in Nat
  OBVIOUS
<1>8. SectorOf(s, w, p) = SectorOf(s, 0, p)
  BY <1>2, <1>3, <1>5, <1>6, <1>7, SameSector
<1> QED
  BY <1>8 DEF w

\* A file that gets its first sector: it is unwritten as before.
LEMMA BegunSectors ==
  ASSUME NEW s \in Seq(Units), Len(s) < SectorSize, NEW p \in Nat,
         NEW h, h = [at |-> 0, data |-> Blank]
  PROVE  /\ SectorOf(Behind(s, h), SectorSize, p) = Blank
         /\ \A q \in Unsafe(s, h) : q = 0
<1> DEFINE o == p * SectorSize
           b == Behind(s, h)
<1>1. o \in Nat /\ IsWhole(o) /\ Len(s) \in Nat /\ SectorSize \in Nat /\ SectorSize > 0
  BY PlaceOffset, SectorIsWhole
<1>2. h \in Held /\ h.at = 0 /\ h.data = Blank /\ Len(Blank) = SectorSize /\ Blank \in Seq(Units)
  BY HeldIs, BlankIs
<1>3. /\ b \in Seq(Units)
      /\ Len(b) = IF SectorSize > 0 /\ 0 + SectorSize > Len(s) THEN 0 + SectorSize ELSE Len(s)
      /\ \A i \in 1 .. SectorSize : b[0 + i] = Blank[i]
  BY <1>2, BehindIs
<1>4. Len(b) = SectorSize
  BY <1>1, <1>3
<1>5. o = p * SectorSize
  OBVIOUS
<1> HIDE DEF o, b
<1>6. ASSUME o = 0 PROVE SectorOf(b, SectorSize, p) = Blank
  <2>1. o + SectorSize <= Len(b) /\ \A j \in 1 .. SectorSize : b[o + j] = Blank[j]
    BY <1>1, <1>3, <1>4, <1>6
  <2>2. SectorAt(b, o, Blank)
    BY <2>1 DEF SectorAt
  <2> QED
    BY <1>1, <1>2, <1>3, <1>5, <2>2, SectorHolds
<1>7. ASSUME o # 0 PROVE SectorOf(b, SectorSize, p) = Blank
  <2>1. SectorSize <= o
    BY <1>1, <1>7, SectorIsWhole, WholeApart
  <2>2. ~(o + SectorSize <= Len(b)) /\ ~(o < SectorSize)
    BY <1>1, <1>4, <2>1
  <2>3. SectorOf(b, SectorSize, p) = IF o < SectorSize THEN Missing ELSE Blank
    BY <1>1, <1>3, <1>5, <2>2, SectorShort
  <2> QED
    BY <2>2, <2>3
<1>8. ASSUME NEW q \in Unsafe(s, h) PROVE q = 0
  <2> DEFINE x == q * SectorSize
  <2>1. q \in 0 .. MaxPlace /\ x <= 0
    BY <1>2 DEF Unsafe
  <2>2. q \in Nat
    BY <2>1, PlaceAssumption
  <2>3. q # 0 => x > 0
    BY <2>2, BiosAssumption
  <2>4. x \in Nat
    BY <2>2, PlaceOffset
  <2> HIDE DEF x
  <2> QED
    BY <2>1, <2>3, <2>4
<1> QED
  BY <1>6, <1>7, <1>8 DEF b

\* How a drive looks when its length is kept, and when it is not.
TopIn(d, open, tops) == IF d \in open THEN tops[d] ELSE 0

LEMMA SelectSectors ==
  ASSUME NEW c, NEW old, DiscsOK(old.file, old.held, old.drives, drivelen), SelectDisc(c, old),
         NEW d \in Drives, NEW p \in 0 .. MaxPlace
  PROVE  /\ SectorOf(Behind(file'[d], held'[d]), TopIn(d, drives', drivelen'), p)
              = SectorOf(Behind(old.file[d], old.held[d]), TopIn(d, old.drives, drivelen), p)
         /\ p \in Unsafe(file'[d], held'[d]) =>
              \/ p \in Unsafe(old.file[d], old.held[d])
              \/ p = 0 /\ SectorOf(Behind(file'[d], held'[d]), TopIn(d, drives', drivelen'), p) = Blank
<1>0. p \in Nat
  BY PlaceAssumption
<1>1. ASSUME file'[d] = old.file[d], held'[d] = old.held[d],
             TopIn(d, drives', drivelen') = TopIn(d, old.drives, drivelen)
      PROVE  /\ SectorOf(Behind(file'[d], held'[d]), TopIn(d, drives', drivelen'), p)
                  = SectorOf(Behind(old.file[d], old.held[d]), TopIn(d, old.drives, drivelen), p)
             /\ p \in Unsafe(file'[d], held'[d]) => p \in Unsafe(old.file[d], old.held[d])
  BY <1>1
<1>2. CASE SelRefused(c, old) \/ SelOpened(c, old)
  <2>1. drives' = old.drives /\ held' = old.held /\ drivelen' = drivelen /\ file' = old.file
    BY <1>2 DEF SelRefused, SelOpened, NotSelected
  <2>2. TopIn(d, drives', drivelen') = TopIn(d, old.drives, drivelen)
    BY <2>1 DEF TopIn
  <2> QED
    BY <1>1, <2>1, <2>2
<1>3. ASSUME c \in Openable \ old.drives
      PROVE  /\ c \in Drives /\ old.held[c] = Nothing /\ TopIn(c, old.drives, drivelen) = 0
             /\ old.file[c] \in Seq(Units) /\ Len(old.file[c]) \in Nat
             /\ Behind(old.file[c], old.held[c]) = old.file[c]
             /\ WholeSectors(old.file[c]) = Whole(Len(old.file[c]))
             /\ WholeSectors(old.file[c]) = 0 => Len(old.file[c]) < SectorSize
  <2>1. c \in Drives /\ old.held[c] = Nothing
    BY <1>3, BiosAssumption DEF DiscsOK
  <2>2. old.file[c] \in Seq(Units) /\ Len(old.file[c]) \in Nat
    BY <2>1, DiscIs
  <2>3. Whole(Len(old.file[c])) \in Nat /\ Len(old.file[c]) < Whole(Len(old.file[c])) + SectorSize
    BY <2>2, WholeIs
  <2>4. WholeSectors(old.file[c]) = Whole(Len(old.file[c]))
    BY DEF WholeSectors, Whole
  <2>5. Behind(old.file[c], old.held[c]) = old.file[c]
    BY <2>1, <2>2, HeldIs, BehindIs
  <2> QED
    BY <1>3, <2>1, <2>2, <2>3, <2>4, <2>5, SectorIsWhole DEF TopIn
<1>4. drivelen \in [Drives -> Nat] /\ old.file \in [Drives -> Seq(Units)] /\ old.held \in [Drives -> Held]
  BY DEF DiscsOK
<1>5. CASE SelOpens(c, old)
  <2>1. /\ c \in Openable \ old.drives /\ file' = old.file /\ held' = old.held
        /\ drives' = old.drives \union {c}
        /\ drivelen' = [drivelen EXCEPT ![c] = WholeSectors(old.file[c])]
    BY <1>5 DEF SelOpens
  <2>2. CASE d # c
    <3>1. TopIn(d, drives', drivelen') = TopIn(d, old.drives, drivelen)
      BY <1>4, <2>1, <2>2 DEF TopIn
    <3> QED
      BY <1>1, <2>1, <3>1
  <2>3. CASE d = c
    <3>1. TopIn(d, drives', drivelen') = Whole(Len(old.file[c]))
      BY <1>3, <1>4, <2>1, <2>3 DEF TopIn
    <3>2. SectorOf(old.file[c], Whole(Len(old.file[c])), p) = SectorOf(old.file[c], 0, p)
      BY <1>0, <1>3, <2>1, OpenedSectors
    <3>3. file'[d] = old.file[c] /\ held'[d] = old.held[c]
      BY <2>1, <2>3
    <3> QED
      BY <1>3, <2>1, <2>3, <3>1, <3>2, <3>3
  <2> QED
    BY <2>2, <2>3
<1>6. CASE SelBegins(c, old)
  <2> DEFINE h == [at |-> 0, data |-> Blank]
  <2>1. /\ c \in Openable \ old.drives /\ file' = old.file /\ WholeSectors(old.file[c]) = 0
        /\ held' = [old.held EXCEPT ![c] = h]
        /\ drives' = old.drives \union {c} /\ drivelen' = [drivelen EXCEPT ![c] = SectorSize]
    BY <1>6 DEF SelBegins
  <2>h. h = [at |-> 0, data |-> Blank]
    OBVIOUS
  <2> HIDE DEF h
  <2>2. CASE d # c
    <3>1. TopIn(d, drives', drivelen') = TopIn(d, old.drives, drivelen)
      BY <1>4, <2>1, <2>2 DEF TopIn
    <3>2. held'[d] = old.held[d] /\ file'[d] = old.file[d]
      BY <1>4, <2>1, <2>2
    <3> QED
      BY <1>1, <3>1, <3>2
  <2>3. CASE d = c
    <3>1. TopIn(d, drives', drivelen') = SectorSize
      BY <1>3, <1>4, <2>1, <2>3 DEF TopIn
    <3>2. file'[d] = old.file[c] /\ held'[d] = h
      BY <1>3, <1>4, <2>1, <2>3
    <3>3. /\ SectorOf(Behind(old.file[c], h), SectorSize, p) = Blank
          /\ \A q \in Unsafe(old.file[c], h) : q = 0
      BY <1>0, <1>3, <2>1, <2>h, BegunSectors
    <3>4. SectorOf(old.file[c], 0, p) = Blank
      BY <1>0, <1>3, <2>1, ShortIsBlank
    <3> QED
      BY <1>3, <2>1, <2>3, <3>1, <3>2, <3>3, <3>4
  <2> QED
    BY <2>2, <2>3
<1>7. CASE SelUncreated(c, old)
  <2>1. /\ c \in Openable \ old.drives /\ WholeSectors(old.file[c]) = 0
        /\ drives' = old.drives /\ held' = old.held /\ drivelen' = drivelen
    BY <1>7 DEF SelUncreated, NotSelected
  <2>2. PICK begun \in Torn(Blank) : file' = [old.file EXCEPT ![c] = Stored(@, 0, begun)]
    BY <1>7 DEF SelUncreated
  <2> DEFINE t == Stored(old.file[c], 0, begun)
  <2>3. begun \in Seq(Units) /\ Len(begun) < SectorSize
    BY BlankIs, TornIs
  <2>4. t \in Seq(Units) /\ Len(t) = IF Len(begun) > 0 /\ 0 + Len(begun) > Len(old.file[c])
                                      THEN 0 + Len(begun) ELSE Len(old.file[c])
    <3> DEFINE s == old.file[c]
    <3>1. s \in Seq(Units) /\ 0 \in Nat
      BY <1>3, <2>1
    <3> HIDE DEF s
    <3> QED
      BY <2>3, <3>1, StoredLen DEF s
  <2>5. Len(t) < SectorSize
    <3> HIDE DEF t
    <3>1. Len(old.file[c]) < SectorSize /\ Len(begun) \in Nat
      BY <1>3, <2>1, <2>3
    <3> QED
      BY <1>3, <2>1, <2>3, <2>4, <3>1, SectorIsWhole
  <2>6. TopIn(d, drives', drivelen') = TopIn(d, old.drives, drivelen)
    BY <2>1 DEF TopIn
  <2>7. CASE d # c
    BY <1>1, <1>4, <2>1, <2>2, <2>6, <2>7
  <2>8. CASE d = c
    <3>1. file'[d] = t /\ held'[d] = Nothing
      BY <1>3, <1>4, <2>1, <2>2, <2>8
    <3> HIDE DEF t
    <3>2. Behind(t, Nothing) = t
      BY <2>4, HeldIs, BehindIs
    <3>3. SectorOf(t, 0, p) = Blank /\ SectorOf(old.file[c], 0, p) = Blank
      BY <1>0, <1>3, <2>1, <2>4, <2>5, ShortIsBlank
    <3>4. Unsafe(t, Nothing) = {}
      BY DEF Unsafe
    <3> QED
      BY <1>3, <2>1, <2>6, <2>8, <3>1, <3>2, <3>3, <3>4
  <2> QED
    BY <2>7, <2>8
<1> QED
  BY <1>2, <1>5, <1>6, <1>7 DEF SelectDisc

LEMMA FillerIs ==
  ASSUME NEW m \in Nat, NEW n \in 0 .. m, NEW part, part = SubSeq(Fill(m), 1, n)
  PROVE  part \in Seq(Units) /\ Len(part) = n /\ \A i \in 1 .. n : part[i] = Filler
<1> DEFINE g == Fill(m)
<1>1. g \in Seq(Units) /\ Len(g) = m /\ \A i \in 1 .. m : g[i] = Filler
  BY FillIs DEF Fill
<1> HIDE DEF g
<1>2. /\ SubSeq(g, 1, n) \in Seq(Units) /\ Len(SubSeq(g, 1, n)) = n
      /\ \A i \in 1 .. n : SubSeq(g, 1, n)[i] = g[i]
  BY <1>1, PrefixIs
<1> QED
  BY <1>1, <1>2 DEF g

\* The sectors of a file s whose end len is filled up with n units: those that
\* counted without being there may be, and one behind len may count without it.
Fillers(part) == part \in Seq(Units) /\ \A i \in 1 .. Len(part) : part[i] = Filler

LEMMA GapSectors ==
  ASSUME NEW s \in Seq(Units), NEW len \in Nat, IsWhole(len), Len(s) < len + SectorSize,
         NEW part, Fillers(part), NEW top \in Nat, len <= top,
         NEW p \in Nat, NEW x, x = p * SectorSize
  PROVE  \/ SectorOf(Stored(s, len, part), top, p) = SectorOf(s, len, p)
         \/ SectorOf(s, len, p) = Missing
         \/ /\ x < top /\ len <= x /\ len + Len(part) < x + SectorSize
            /\ SectorOf(s, len, p) = Blank /\ SectorOf(Stored(s, len, part), top, p) = Missing
<1> DEFINE n == Len(part)
           t == Stored(s, len, part)
<1>a. t = Stored(s, len, part) /\ n = Len(part)
  OBVIOUS
<1>0. part \in Seq(Units) /\ n \in Nat /\ \A i \in 1 .. n : part[i] = Filler
  BY DEF Fillers
<1> HIDE DEF n, t
<1>1. x \in Nat /\ IsWhole(x) /\ SectorSize \in Nat /\ SectorSize > 0 /\ Len(s) \in Nat
  BY PlaceOffset, SectorIsWhole
<1>2. t \in Seq(Units) /\ Len(t) = IF n > 0 /\ len + n > Len(s) THEN len + n ELSE Len(s)
  BY <1>a, <1>0, StoredLen
<1> DEFINE Goal == \/ SectorOf(t, top, p) = SectorOf(s, len, p)
                   \/ SectorOf(s, len, p) = Missing
                   \/ /\ x < top /\ len <= x /\ len + n < x + SectorSize
                      /\ SectorOf(s, len, p) = Blank /\ SectorOf(t, top, p) = Missing
<1> SUFFICES Goal
  BY DEF n, t
<1>3. CASE x + SectorSize <= Len(s)
  <2>1. x + SectorSize <= len
    <3>1. x < len
      BY <1>1, <1>3
    <3> QED
      BY <1>1, <3>1, WholeApart
  <2>2. x + SectorSize <= Len(t)
    BY <1>1, <1>2, <1>3
  <2>3. ASSUME NEW j \in 1 .. SectorSize PROVE t[x + j] = s[x + j]
    <3>1. x + j \in 1 .. Len(s) /\ x + j <= len
      BY <1>1, <1>3, <2>1
    <3> QED
      BY <1>a, <1>0, <3>1, StoredOld
  <2>4. SameAt(s, t, x)
    BY <1>3, <2>2, <2>3 DEF SameAt
  <2>5. SectorOf(t, top, p) = SectorOf(s, len, p)
    BY <1>2, <1>3, <2>4, SameSector
  <2> QED
    BY <2>5
<1>4. CASE ~(x + SectorSize <= Len(s)) /\ x < len
  <2>1. SectorOf(s, len, p) = IF x < len THEN Missing ELSE Blank
    BY <1>4, SectorShort
  <2> QED
    BY <1>4, <2>1
<1>5. CASE ~(x + SectorSize <= Len(s)) /\ ~(x < len)
  <2>1. SectorOf(s, len, p) = IF x < len THEN Missing ELSE Blank
    BY <1>5, SectorShort
  <2>2. SectorOf(s, len, p) = Blank
    BY <1>5, <2>1
  <2>3. CASE x + SectorSize <= Len(t)
    <3>1. n > 0 /\ x + SectorSize <= len + n
      BY <1>0, <1>1, <1>2, <1>5, <2>3
    <3>2. ASSUME NEW j \in 1 .. SectorSize PROVE t[x + j] = Blank[j]
      <4> DEFINE i == x + j - len
      <4>1. i \in 1 .. n /\ len + i = x + j
        BY <1>0, <1>1, <1>5, <3>1
      <4> HIDE DEF i
      <4>2. t[len + i] = part[i]
        BY <1>a, <1>0, <4>1, StoredNew
      <4> QED
        BY <1>0, <4>1, <4>2, BlankUnits
    <3>3. SectorAt(t, x, Blank)
      BY <2>3, <3>2 DEF SectorAt
    <3>4. SectorOf(t, top, p) = Blank
      BY <1>2, <3>3, BlankIs, SectorHolds
    <3> QED
      BY <2>2, <3>4
  <2>4. CASE ~(x + SectorSize <= Len(t))
    <3>1. SectorOf(t, top, p) = IF x < top THEN Missing ELSE Blank
      BY <1>2, <2>4, SectorShort
    <3>2. CASE x < top
      <4>1. len + n < x + SectorSize
        BY <1>0, <1>1, <1>2, <1>5, <2>4
      <4>2. SectorOf(t, top, p) = Missing
        BY <3>1, <3>2
      <4>3. len <= x
        BY <1>1, <1>5
      <4> QED
        BY <2>2, <3>2, <4>1, <4>2, <4>3
    <3>3. CASE ~(x < top)
      BY <2>2, <3>1, <3>3
    <3> QED
      BY <3>2, <3>3
  <2> QED
    BY <2>3, <2>4
<1> QED
  BY <1>3, <1>4, <1>5

\* The sectors of a file that is filled up to o and has something written there,
\* apart from the sector at o.
LEMMA DataSectors ==
  ASSUME NEW s \in Seq(Units), NEW o \in Nat, IsWhole(o),
         NEW data \in Seq(Units), Len(data) <= SectorSize,
         NEW t, t = Stored(s, o, data), NEW top \in Nat, NEW limit \in Nat,
         NEW p \in Nat, NEW x, x = p * SectorSize, x # o,
         x < o => x + SectorSize <= Len(s),
         o + SectorSize <= x => (x < top <=> x < limit)
  PROVE  SectorOf(t, limit, p) = SectorOf(s, top, p)
<1>1. /\ x \in Nat /\ IsWhole(x) /\ SectorSize \in Nat /\ SectorSize > 0 /\ Len(s) \in Nat
      /\ Len(data) \in Nat
  BY PlaceOffset, SectorIsWhole
<1>2. t \in Seq(Units) /\ Len(t) = IF Len(data) > 0 /\ o + Len(data) > Len(s)
                                      THEN o + Len(data) ELSE Len(s)
  BY StoredLen
<1>3. x + SectorSize <= o \/ o + SectorSize <= x
  BY <1>1, PlacesApart
<1>4. x + SectorSize <= Len(s) <=> x + SectorSize <= Len(t)
  BY <1>1, <1>2, <1>3
<1>5. ASSUME x + SectorSize <= Len(s), NEW j \in 1 .. SectorSize PROVE t[x + j] = s[x + j]
  <2>1. x + j \in 1 .. Len(s) /\ (x + j <= o \/ x + j > o + Len(data))
    BY <1>1, <1>3, <1>5
  <2> QED
    BY <2>1, StoredOld
<1>6. SameAt(s, t, x)
  BY <1>4, <1>5 DEF SameAt
<1>7. x + SectorSize <= Len(s) \/ (x < top <=> x < limit)
  BY <1>1, <1>3
<1> QED
  BY <1>2, <1>6, <1>7, SameSector

\* The sectors before the one that is written: there, or lost before.
LEMMA FilledLost ==
  ASSUME DiscOK, SelectionOK, drive \in drives, Offset >= 0,
         NEW now, now = Behind(file[drive], held[drive]), NEW len, len = drivelen[drive],
         NEW o, o = Offset, NEW p \in Nat, NEW x, x = p * SectorSize,
         x < o, ~(x + SectorSize <= Len(Filled))
  PROVE  SectorOf(now, len, p) = Missing
<1>1. /\ o \in Nat /\ IsWhole(o) /\ len \in Nat
      /\ now \in Seq(Units) /\ Len(now) \in Nat
      /\ Len(Filled) = IF o > len THEN o ELSE Len(now)
  BY FilledIs
<1>2. x \in Nat /\ IsWhole(x) /\ SectorSize \in Nat
  BY PlaceOffset, SectorIsWhole
<1>3. x + SectorSize <= o
  BY <1>1, <1>2, WholeApart
<1>4. x < len /\ ~(x + SectorSize <= Len(now))
  BY <1>1, <1>2, <1>3
<1>5. SectorOf(now, len, p) = IF x < len THEN Missing ELSE Blank
  BY <1>1, <1>4, SectorShort
<1> QED
  BY <1>4, <1>5

LEMMA GapUnits ==
  ASSUME SelectionOK, NEW len \in Nat, NEW n, n = Len(Gap(len))
  PROVE  \A i \in 1 .. n : Gap(len)[i] = Filler
<1> DEFINE m == IF Offset > len THEN Offset - len ELSE 0
<1>1. Offset \in Int
  BY OffsetIs
<1>2. m \in Nat
  BY <1>1
<1>3. Gap(len) = Fill(m)
  BY DEF Gap
<1> HIDE DEF m
<1>4. n = m
  BY <1>2, <1>3, FillIs
<1> QED
  BY <1>3, <1>4 DEF Fill

LEMMA SectorsCounted ==
  ASSUME NEW m \in Nat, NEW n \in 0 .. m,
         NEW k \in n \div SectorSize .. m \div SectorSize, NEW y, y = k * SectorSize
  PROVE  y \in Nat /\ y <= m
<1> DEFINE j == m \div SectorSize
           z == j * SectorSize
<1>1. j \in Nat /\ n \div SectorSize \in Nat
  BY BiosAssumption
<1>2. k \in Nat /\ k <= j
  BY <1>1
<1>3. z \in Nat /\ z <= m
  BY WholeIs DEF Whole
<1> HIDE DEF j
<1>4. (j - k) * SectorSize >= 0 /\ z = y + (j - k) * SectorSize /\ (j - k) * SectorSize \in Int
  BY <1>1, <1>2, BiosAssumption
<1>5. y \in Nat
  BY <1>2, BiosAssumption
<1> HIDE DEF z
<1> QED
  BY <1>3, <1>4, <1>5

\* A write leaves the other sectors, but for some that were lost.
LEMMA WrittenSectors ==
  ASSUME DiscOK, SelectionOK, drive \in drives, Offset >= 0,
         NEW now, now = Behind(file[drive], held[drive]), NEW len, len = drivelen[drive],
         NEW o, o = Offset, NEW p \in Nat, NEW x, x = p * SectorSize, x # o,
         NEW data \in Seq(Units), Len(data) <= SectorSize,
         NEW t, t = Stored(Filled, o, data),
         NEW limit, limit = Longer(len, o) \/ limit = Longer(len, o + SectorSize)
  PROVE  SectorOf(t, limit, p) = SectorOf(now, len, p) \/ SectorOf(now, len, p) = Missing
<1>1. /\ o \in Nat /\ IsWhole(o) /\ len \in Nat /\ IsWhole(len)
      /\ now \in Seq(Units) /\ Len(now) \in Nat /\ Len(now) < len + SectorSize
      /\ Gap(len) \in Seq(Units) /\ Len(Gap(len)) = IF o > len THEN o - len ELSE 0
      /\ Filled \in Seq(Units)
  BY FilledIs
<1>2. x \in Nat /\ IsWhole(x) /\ SectorSize \in Nat /\ SectorSize > 0
  BY PlaceOffset, SectorIsWhole
<1> DEFINE top == Longer(len, o)
           n == Len(Gap(len))
<1>3. top = (IF o > len THEN o ELSE len) /\ top \in Nat /\ len <= top
  BY <1>1 DEF Longer
<1>4. limit \in Nat /\ (o + SectorSize <= x => (x < top <=> x < limit))
  BY <1>1, <1>2, <1>3, SMTT(40) DEF Longer
<1>5. Filled = Stored(now, len, Gap(len))
  BY DEF Filled
<1>6. n \in Nat /\ n = IF o > len THEN o - len ELSE 0
  BY <1>1
<1>7. \A i \in 1 .. n : Gap(len)[i] = Filler
  BY <1>1, GapUnits
<1>8. n = Len(Gap(len))
  OBVIOUS
<1> HIDE DEF top, n
<1>9. \/ SectorOf(Filled, top, p) = SectorOf(now, len, p)
      \/ SectorOf(now, len, p) = Missing
      \/ x < top /\ len <= x /\ len + n < x + SectorSize
  <2> DEFINE part == Gap(len)
  <2>1. Fillers(part) /\ n = Len(part)
    BY <1>1, <1>7, <1>8 DEF Fillers
  <2>2. Filled = Stored(now, len, part)
    BY <1>5
  <2> HIDE DEF part
  <2> QED
    <3>1. \/ SectorOf(Stored(now, len, part), top, p) = SectorOf(now, len, p)
          \/ SectorOf(now, len, p) = Missing
          \/ x < top /\ len <= x /\ len + Len(part) < x + SectorSize
      <4>1. /\ now \in Seq(Units) /\ len \in Nat /\ IsWhole(len) /\ Len(now) < len + SectorSize
            /\ top \in Nat /\ len <= top
        BY <1>1, <1>3
      <4> QED
        BY <2>1, <4>1, GapSectors
    <3> QED
      BY <2>1, <2>2, <3>1
<1>10. ~(x < top /\ len <= x /\ len + n < x + SectorSize)
  <2> SUFFICES ASSUME x < top, len <= x PROVE ~(len + n < x + SectorSize)
    OBVIOUS
  <2>1. o > len /\ x < o
    BY <1>1, <1>2, <1>3
  <2>2. x + SectorSize <= o
    BY <1>1, <1>2, <2>1, WholeApart
  <2> QED
    BY <1>1, <1>2, <1>6, <2>1, <2>2
<1>11. CASE x < o /\ ~(x + SectorSize <= Len(Filled))
  BY <1>11, FilledLost
<1>12. CASE x < o => x + SectorSize <= Len(Filled)
  <2>1. SectorOf(t, limit, p) = SectorOf(Filled, top, p)
    BY <1>1, <1>3, <1>4, <1>12, DataSectors
  <2> QED
    BY <1>9, <1>10, <2>1
<1> QED
  BY <1>11, <1>12

\* A gap that is not filled up: sectors before the selected one may count that
\* are not there.
LEMMA GapLeft ==
  ASSUME DiscOK, SelectionOK, WriteGapFails,
         NEW now, now = Behind(file[drive], held[drive]), NEW len, len = drivelen[drive],
         NEW p \in Nat, NEW x, x = p * SectorSize
  PROVE  /\ drive \in drives /\ drives' = drives /\ Offset >= 0
         /\ \/ SectorOf(file'[drive], drivelen'[drive], p) = SectorOf(now, len, p)
            \/ SectorOf(now, len, p) = Missing
            \/ /\ x < Offset /\ SectorOf(now, len, p) = Blank
               /\ SectorOf(file'[drive], drivelen'[drive], p) = Missing
<1>1. drive \in drives /\ drives' = drives /\ drive \in Drives
  BY DEF WriteGapFails, SelectionOK
<1>2. Offset \in Int /\ len \in Nat
  BY <1>1, OffsetIs, DiscIs DEF DiscOK
<1>3. Offset >= 0 /\ Gap(len) \in Seq(Units) /\ Len(Gap(len)) = IF Offset > len THEN Offset - len ELSE 0
  <2>1. PICK n : n \in 0 .. Len(Gap(len)) - 1
    BY DEF WriteGapFails
  <2>2. CASE Offset > len
    <3>1. Offset >= 0
      BY <1>2, <2>2
    <3> QED
      BY <1>1, <3>1, FilledIs
  <2>3. CASE ~(Offset > len)
    <3>1. Gap(len) = Fill(0)
      BY <2>3 DEF Gap
    <3>2. Len(Gap(len)) = 0
      BY <3>1, FillIs
    <3> QED
      BY <2>1, <3>2
  <2> QED
    BY <2>2, <2>3
<1> DEFINE o == Offset
           g == Gap(len)
           m == Len(g)
<1>4. /\ o \in Nat /\ IsWhole(o) /\ IsWhole(len)
      /\ now \in Seq(Units) /\ Len(now) \in Nat /\ Len(now) < len + SectorSize
      /\ g \in Seq(Units) /\ m = (IF o > len THEN o - len ELSE 0) /\ m \in Nat
  BY <1>1, <1>3, FilledIs
<1>5. \A i \in 1 .. m : g[i] = Filler
  BY <1>2, GapUnits
<1>6. PICK n \in 0 .. m, y \in Nat :
        /\ file'[drive] = Stored(now, len, SubSeq(g, 1, n))
        /\ drivelen'[drive] = len + y /\ y <= m
  <2>1. PICK n \in 0 .. m - 1 :
          /\ file' = [file EXCEPT ![drive] = Stored(now, len, SubSeq(g, 1, n))]
          /\ \E k \in n \div SectorSize .. m \div SectorSize :
               drivelen' = [drivelen EXCEPT ![drive] = len + k * SectorSize]
    BY DEF WriteGapFails
  <2>2. PICK k \in n \div SectorSize .. m \div SectorSize :
          drivelen' = [drivelen EXCEPT ![drive] = len + k * SectorSize]
    BY <2>1
  <2>3. n \in 0 .. m
    BY <1>4
  <2>4. k * SectorSize \in Nat /\ k * SectorSize <= m
    <3> HIDE DEF m
    <3> QED
      BY <1>4, <2>3, SectorsCounted
  <2>5. file \in [Drives -> Seq(Units)] /\ drivelen \in [Drives -> Nat]
    BY DEF DiscOK, DiscsOK
  <2>6. file'[drive] = Stored(now, len, SubSeq(g, 1, n)) /\ drivelen'[drive] = len + k * SectorSize
    BY <1>1, <2>1, <2>2, <2>5
  <2> DEFINE y == k * SectorSize
  <2>7. y \in Nat /\ y <= m /\ drivelen'[drive] = len + y
    BY <2>4, <2>6
  <2> HIDE DEF y, m, g
  <2> QED
    BY <2>3, <2>6, <2>7
<1> DEFINE part == SubSeq(g, 1, n)
           t == file'[drive]
           top == drivelen'[drive]
<1> HIDE DEF g, o
<1>7. part \in Seq(Units) /\ Len(part) = n /\ \A i \in 1 .. n : part[i] = Filler
  <2>1. /\ part \in Seq(Units) /\ Len(part) = n
        /\ \A i \in 1 .. n : part[i] = g[i]
    BY <1>4, PrefixIs
  <2>2. \A i \in 1 .. n : i \in 1 .. m
    BY <1>4
  <2> HIDE DEF part, m
  <2> QED
    BY <1>5, <2>1, <2>2
<1>12. Fillers(part) /\ n = Len(part)
  <2> HIDE DEF part
  <2> QED
    BY <1>7 DEF Fillers
<1>8. t = Stored(now, len, part) /\ top = len + y
  BY <1>6
<1> HIDE DEF m, part, t, top
<1>9. n \in Nat /\ top \in Nat /\ len <= top /\ top <= len + m
  BY <1>2, <1>4, <1>6, <1>8, SMTT(40)
<1>10. \/ SectorOf(t, top, p) = SectorOf(now, len, p)
       \/ SectorOf(now, len, p) = Missing
       \/ /\ x < top /\ len <= x /\ len + n < x + SectorSize
          /\ SectorOf(now, len, p) = Blank /\ SectorOf(t, top, p) = Missing
  <2>1. /\ now \in Seq(Units) /\ len \in Nat /\ IsWhole(len) /\ Len(now) < len + SectorSize
        /\ Fillers(part) /\ top \in Nat /\ len <= top
    BY <1>2, <1>4, <1>9, <1>12
  <2>2. \/ SectorOf(Stored(now, len, part), top, p) = SectorOf(now, len, p)
        \/ SectorOf(now, len, p) = Missing
        \/ /\ x < top /\ len <= x /\ len + Len(part) < x + SectorSize
           /\ SectorOf(now, len, p) = Blank /\ SectorOf(Stored(now, len, part), top, p) = Missing
    BY <2>1, GapSectors
  <2> QED
    BY <1>8, <1>12, <2>2
<1>11. x < top /\ len <= x => x < o
  <2>1. x \in Nat
    BY PlaceOffset
  <2> QED
    BY <1>2, <1>4, <1>9, <2>1
<1> QED
  BY <1>1, <1>3, <1>10, <1>11 DEF t, top, o

-----------------------------------------------------------------------------
(* The places that are asked for.                                          *)

\* What HL holds while a drive is selected: its header, or a sector that was
\* translated for it.
HlOf(d) == {NoHeader, Header(d)} \union UNION {Translated(d, l) : l \in Logicals \union {0}}

PlacesOK ==
  /\ track \in Tracks \union {0} /\ sector \in Reached(drive) /\ hl \in HlOf(drive)
  /\ syscall => /\ biosfn = "settrack" => bc \in Tracks \union {0}
                /\ biosfn = "secttran" => bc \in Logicals \union {0}
                /\ biosfn = "setsector" => bc \in Reached(drive)

LEMMA ReachedHas ==
  ASSUME NEW d
  PROVE  /\ HlOf(d) \subseteq Reached(d) /\ RawSectors \subseteq Reached(d)
         /\ 0 \in Reached(d) /\ 1 \in Reached(d)
         /\ NoHeader \in HlOf(d) /\ Header(d) \in HlOf(d)
         /\ \A l \in Logicals \union {0} : Translated(d, l) \subseteq HlOf(d)
  BY DEF Reached, HlOf

LEMMA PlacesStay ==
  ASSUME PlacesOK, UNCHANGED <<drive, track, sector, hl, bc, syscall, biosfn>>
  PROVE  PlacesOK'
  BY DEF PlacesOK

LEMMA SelectPlaces ==
  ASSUME NEW c, NEW old, SelectDisc(c, old)
  PROVE  \/ hl' = Header(c) /\ drive' = c /\ track' = 0 /\ sector' = 1
         \/ hl' = NoHeader /\ drive' = old.drive /\ track' = old.track /\ sector' = old.sector
  BY DEF SelectDisc, SelOpened, SelRefused, SelOpens, SelBegins, SelUncreated, Selects, NotSelected

LEMMA StartPlaces ==
  ASSUME NEW d, StartFrom(d)
  PROVE  /\ drive' = d /\ track' = 0 /\ sector' = 1 /\ hl' \in {NoHeader, Header(d)}
         /\ bc' = d
<1>1. PICK cut \in [Drives -> 0 .. SectorSize] :
        SelectDisc(d, [drive |-> d, track |-> 0, sector |-> 1, drives |-> {},
                       file |-> [c \in Drives |-> Put(file[c], held[c], cut[c])],
                       held |-> [c \in Drives |-> Nothing]])
  BY DEF StartFrom
<1> DEFINE old == [drive |-> d, track |-> 0, sector |-> 1, drives |-> {},
                   file |-> [c \in Drives |-> Put(file[c], held[c], cut[c])],
                   held |-> [c \in Drives |-> Nothing]]
<1>2. SelectDisc(d, old)
  BY <1>1
<1>3. old.drive = d /\ old.track = 0 /\ old.sector = 1
  OBVIOUS
<1>4. bc' = d
  BY DEF StartFrom
<1> HIDE DEF old
<1> QED
  BY <1>2, <1>3, <1>4, SelectPlaces

LEMMA BootPlacesOK ==
  ASSUME PowerOn \/ PromptBoot
  PROVE  PlacesOK'
<1>1. StartFrom(0)
  BY DEF PowerOn, PromptBoot, boot
<1>2. drive' = 0 /\ track' = 0 /\ sector' = 1 /\ hl' \in {NoHeader, Header(0)} /\ bc' = 0
  BY <1>1, StartPlaces
<1> QED
  BY <1>2, ReachedHas DEF PlacesOK

LEMMA ServePlacesOK ==
  ASSUME CpmInv, PlacesOK, Serve
  PROVE  PlacesOK'
<1> DEFINE Placed == track' \in Tracks \union {0} /\ sector' \in Reached(drive') /\ hl' \in HlOf(drive')
<1> SUFFICES Placed
  BY DEF Serve, PlacesOK
<1>1. bios(biosfn) /\ syscall
  BY DEF Serve
<1>2. track \in Tracks \union {0} /\ sector \in Reached(drive) /\ hl \in HlOf(drive)
  BY DEF PlacesOK
<1>3. CASE boot \/ warmboot
  <2>1. PICK d : StartFrom(d)
    BY <1>3 DEF boot, warmboot
  <2> QED
    BY <2>1, StartPlaces, ReachedHas
<1>4. CASE seldisc
  <2> DEFINE old == [drive |-> drive, track |-> track, sector |-> sector,
                     drives |-> drives, file |-> file, held |-> held]
  <2>1. SelectDisc(bc, old)
    BY <1>4 DEF seldisc
  <2>2. old.drive = drive /\ old.track = track /\ old.sector = sector
    OBVIOUS
  <2> HIDE DEF old
  <2>3. CASE hl' = Header(bc) /\ drive' = bc /\ track' = 0 /\ sector' = 1
    BY <2>3, ReachedHas
  <2>4. CASE hl' = NoHeader /\ drive' = drive /\ track' = track /\ sector' = sector
    BY <1>2, <2>4, ReachedHas
  <2> QED
    BY <2>1, <2>2, <2>3, <2>4, SelectPlaces
<1>5. CASE home
  BY <1>2, <1>5, ReachedHas DEF home
<1>6. CASE biosfn = "settrack" /\ settrack
  BY <1>1, <1>2, <1>6 DEF settrack, PlacesOK
<1>7. CASE biosfn = "setsector" /\ setsector
  BY <1>1, <1>2, <1>7 DEF setsector, PlacesOK
<1>8. CASE biosfn = "secttran" /\ secttran
  <2>1. /\ hl' \in Translated(drive, bc) /\ bc \in Logicals \union {0}
        /\ UNCHANGED <<drive, track, sector>>
    BY <1>1, <1>8 DEF secttran, PlacesOK, selection
  <2> QED
    BY <1>2, <2>1, ReachedHas
<1>9. CASE \/ setdma \/ rdsector \/ wrsector
           \/ openunix \/ createunix \/ rdunix \/ wrunix \/ closeunix
  <2>1. UNCHANGED <<drive, track, sector, hl>>
    BY <1>9 DEF setdma, rdsector, wrsector, openunix, createunix, rdunix, wrunix, closeunix, selection
  <2> QED
    BY <1>2, <2>1
<1> QED
  BY <1>1, <1>3, <1>4, <1>5, <1>6, <1>7, <1>8, <1>9 DEF bios

LEMMA CallPlacesOK ==
  ASSUME CpmInv, PlacesOK, GuestCall
  PROVE  PlacesOK'
<1> DEFINE c == todo[1]
<1>1. /\ todo # <<>> /\ biosfn' = Head(todo).fn /\ Arguments(Head(todo))
      /\ UNCHANGED <<drive, track, sector, hl>>
  BY DEF GuestCall, selection
<1>2. Head(todo) = c /\ c \in Calls
  BY <1>1, HeadIs DEF CpmInv, ProgramOK
<1> HIDE DEF c
<1>3. /\ c.fn = "settrack" => c.arg \in Tracks
      /\ c.fn = "secttran" => c.arg \in Logicals \union {0}
      /\ c.fn = "setsector" => c.arg \in RawSectors \union {InHL}
  BY <1>2, CallHas
<1>4. c.fn \in {"settrack", "secttran"} => bc' = c.arg
  BY <1>1, <1>2 DEF Arguments
<1>5. c.fn = "setsector" => bc' = IF c.arg = InHL THEN hl ELSE c.arg
  BY <1>1, <1>2 DEF Arguments
<1>6. track \in Tracks \union {0} /\ sector \in Reached(drive) /\ hl \in HlOf(drive)
  BY DEF PlacesOK
<1>7. c.fn = "setsector" => bc' \in Reached(drive)
  BY <1>3, <1>5, <1>6, ReachedHas
<1> QED
  BY <1>1, <1>2, <1>3, <1>4, <1>6, <1>7 DEF PlacesOK

LEMMA NextKeepsPlaces ==
  ASSUME CpmInv, PlacesOK, [Next]_vars
  PROVE  PlacesOK'
<1>1. CASE UNCHANGED <<biosVars, syscall, biosfn>>
  BY <1>1, PlacesStay DEF biosVars, selection
<1>2. CASE Execute \/ SignalStops \/ Traced \/ NothingToServe \/ WildFile
  BY <1>1, <1>2 DEF Execute, SignalStops, Traced, NothingToServe, WildFile
<1>3. CASE Break \/ PromptTrace \/ PromptStep \/ PromptGo
  BY <1>1, <1>3 DEF Break, PromptTrace, PromptStep, PromptGo
<1>4. CASE PowerOn \/ PromptBoot
  BY <1>4, BootPlacesOK
<1>5. CASE Serve
  BY <1>5, ServePlacesOK
<1>6. CASE StartAccess \/ StartRaw \/ StartRestart \/ StartGetunix \/ StartPutunix
  <2>1. PICK s : Starts(s)
    BY <1>6, StartsWhole
  <2> QED
    BY <1>1, <2>1 DEF Starts
<1>7. CASE GuestCall
  BY <1>7, CallPlacesOK
<1>8. CASE GuestReturn
  BY <1>1, <1>8 DEF GuestReturn
<1>9. CASE UNCHANGED vars
  BY <1>1, <1>9 DEF vars, emulator
<1> QED
  BY <1>2, <1>3, <1>4, <1>5, <1>6, <1>7, <1>8, <1>9 DEF Next, Emulator, User, Program

LEMMA InitPlaces == Init => PlacesOK
  BY ReachedHas DEF Init, BiosInit, PlacesOK, NoHeader

\* Where a transfer takes place.
LEMMA PlaceIs ==
  ASSUME CpmInv, PlacesOK
  PROVE  /\ drive \in Drives /\ Place(drive, track, sector) \in Int
         /\ Place(drive, track, sector) <= MaxPlace
         /\ Offset \in Int
         /\ Offset >= 0 => /\ IsWhole(Offset) /\ Place(drive, track, sector) \in 0 .. MaxPlace
                           /\ Offset = Place(drive, track, sector) * SectorSize
<1>1. SelectionOK
  BY DEF CpmInv, BiosOK
<1>2. Place(drive, track, sector) <= MaxPlace /\ MaxPlace \in Nat
  BY <1>1, PlaceAssumption DEF PlacesOK, SelectionOK
<1> DEFINE p == Place(drive, track, sector)
<1>3. /\ p \in Int /\ Offset \in Int
      /\ Offset >= 0 => IsWhole(Offset) /\ Offset = p * SectorSize
  BY <1>1, OffsetIs
<1>4. p <= MaxPlace
  BY <1>2
<1>5. drive \in Drives
  BY <1>1 DEF SelectionOK
<1>6. p < 0 => Offset < 0
  <2>1. SectorSize \in Nat \ {0} /\ Offset = SectorSize * p
    BY BiosAssumption DEF Offset
  <2> HIDE DEF p
  <2> QED
    BY <1>3, <2>1
<1> HIDE DEF p
<1>7. Offset >= 0 => p \in 0 .. MaxPlace
  BY <1>2, <1>3, <1>4, <1>6
<1> QED
  BY <1>3, <1>4, <1>5, <1>7 DEF p

-----------------------------------------------------------------------------
(* What the drives hold for CP/M.                                          *)

SectorNow(d, p) == SectorOf(Behind(file[d], held[d]), TopIn(d, drives, drivelen), p)

LEMMA DriveIs ==
  ASSUME DiscOK, NEW d \in Drives
  PROVE  /\ Behind(file[d], held[d]) \in Seq(Units) /\ TopIn(d, drives, drivelen) \in Nat
         /\ file[d] \in Seq(Units) /\ held[d] \in Held
         /\ d \in drives => TopIn(d, drives, drivelen) = drivelen[d]
<1>1. /\ file[d] \in Seq(Units) /\ held[d] \in Held /\ drivelen[d] \in Nat
      /\ Behind(file[d], held[d]) \in Seq(Units)
  BY DiscIs DEF DiscOK
<1> QED
  BY <1>1 DEF TopIn

LEMMA SectorNowIs ==
  ASSUME DiscOK, NEW d \in Drives, NEW p \in 0 .. MaxPlace
  PROVE  /\ p \in Nat
         /\ SectorNow(d, p) \in Sectors \union {Missing}
         /\ d \notin drives => SectorNow(d, p) \in Sectors
         /\ Image[d][p] = SectorNow(d, p)
         /\ UnsavedPlaces[d] = Unsafe(file[d], held[d])
<1>1. p \in Nat
  BY PlaceAssumption
<1>2. Behind(file[d], held[d]) \in Seq(Units) /\ TopIn(d, drives, drivelen) \in Nat
  BY DriveIs
<1>3. d \notin drives => TopIn(d, drives, drivelen) = 0
  BY DEF TopIn
<1>4. SectorNow(d, p) \in Sectors \union {Missing} /\ (d \notin drives => SectorNow(d, p) \in Sectors)
  BY <1>1, <1>2, <1>3, SectorTyped DEF SectorNow
<1>5. d \in drives /\ p * SectorSize < drivelen[d] <=> p * SectorSize < TopIn(d, drives, drivelen)
  <2>1. p * SectorSize \in Nat
    BY <1>1, PlaceOffset
  <2> QED
    BY <2>1 DEF TopIn
<1>6. Image[d][p] = SectorNow(d, p)
  BY <1>5 DEF Image, SectorNow, SectorOf, Shown
<1>7. UnsavedPlaces[d] = Unsafe(file[d], held[d])
  BY DEF UnsavedPlaces, Unsafe
<1> QED
  BY <1>1, <1>4, <1>6, <1>7

\* The abstract disc's view of a state and of the next one.
LEMMA ImageIs ==
  /\ Image = [d \in Drives |-> [p \in 0 .. MaxPlace |-> Image[d][p]]]
  /\ UnsavedPlaces = [d \in Drives |-> UnsavedPlaces[d]]
  /\ \A d \in Drives : UnsavedPlaces[d] \subseteq 0 .. MaxPlace
  BY DEF Image, UnsavedPlaces

ImageTyped ==
  /\ Image \in [Drives -> [0 .. MaxPlace -> [1 .. SectorSize -> Units] \union {Missing}]]
  /\ UnsavedPlaces \in [Drives -> SUBSET (0 .. MaxPlace)]

\* What is seen of a drive is what its file, with what is held for it, says.
ViewIs ==
  \A d \in Drives, p \in 0 .. MaxPlace :
    /\ SectorNow(d, p) \in Sectors \union {Missing}
    /\ Image[d][p] = SectorNow(d, p)
    /\ UnsavedPlaces[d] = Unsafe(file[d], held[d])

LEMMA ViewOK == DiscOK => ImageTyped /\ ViewIs
<1> SUFFICES ASSUME DiscOK PROVE ImageTyped /\ ViewIs
  OBVIOUS
<1>1. \A d \in Drives, p \in 0 .. MaxPlace : Image[d][p] \in Sectors \union {Missing}
  BY SectorNowIs
<1>2. Image \in [Drives -> [0 .. MaxPlace -> Sectors \union {Missing}]]
  BY <1>1, ImageIs
<1>3. UnsavedPlaces \in [Drives -> SUBSET (0 .. MaxPlace)]
  BY ImageIs
<1>4. ViewIs
  BY SectorNowIs DEF ViewIs
<1> QED
  BY <1>2, <1>3, <1>4 DEF Sectors, ImageTyped

LEMMA ViewOKNext == DiscOK' => ImageTyped' /\ ViewIs'
  BY ViewOK, PTL

LEMMA ChangesTyped ==
  ASSUME DiscOK'
  PROVE  Disc!Changes
BY ViewOKNext DEF ImageTyped, Disc!Changes

\* Only the selected drive is touched.
Touched ==
  /\ drives' = drives /\ drive \in drives
  /\ \A d \in Drives \ {drive} :
        file'[d] = file[d] /\ held'[d] = held[d] /\ drivelen'[d] = drivelen[d]

LEMMA TouchedStay ==
  ASSUME DiscOK, DiscOK', Touched, NEW d \in Drives \ {drive}
  PROVE  Image'[d] = Image[d] /\ UnsavedPlaces'[d] = UnsavedPlaces[d]
<1>1. file'[d] = file[d] /\ held'[d] = held[d] /\ drivelen'[d] = drivelen[d] /\ drives' = drives
  BY DEF Touched
<1>2. Image'[d] = Image[d]
  BY <1>1 DEF Image, Shown
<1>3. UnsavedPlaces'[d] = UnsavedPlaces[d]
  BY <1>1 DEF UnsavedPlaces
<1> QED
  BY <1>2, <1>3

LEMMA TransferTouches ==
  ASSUME DiscOK, SelectionOK,
         SeekFails \/ ReadWithin \/ WriteGapFails \/ WriteFails \/ WriteDone
  PROVE  Touched
<1>1. drive \in drives /\ drives' = drives
  BY DEF SeekFails, ReadWithin, WriteGapFails, WriteFails, WriteDone
<1>2. file \in [Drives -> Seq(Units)] /\ held \in [Drives -> Held] /\ drivelen \in [Drives -> Nat]
  BY DEF DiscOK, DiscsOK
<1>3. /\ \E x : file' = [file EXCEPT ![drive] = x]
      /\ \E x : held' = [held EXCEPT ![drive] = x]
      /\ drivelen' = drivelen \/ \E x : drivelen' = [drivelen EXCEPT ![drive] = x]
  <2>1. CASE SeekFails
    BY <2>1 DEF SeekFails, Flushes
  <2>2. CASE ReadWithin
    BY <2>2 DEF ReadWithin
  <2>3. CASE WriteGapFails
    BY <2>3 DEF WriteGapFails
  <2>4. CASE WriteFails
    BY <2>4 DEF WriteFails
  <2>5. CASE WriteDone
    BY <2>5 DEF WriteDone
  <2> QED
    BY <2>1, <2>2, <2>3, <2>4, <2>5
<1> QED
  BY <1>1, <1>2, <1>3 DEF Touched

\* A transfer, as the disc sees it.
LEMMA TransferDone ==
  ASSUME CpmInv, CpmInv', Serve, biosfn \in {"rdsector", "wrsector"},
         Touched \/ UNCHANGED discState
  PROVE  Disc!Done(biosfn, a')
<1>1. phase = "serve" /\ syscall /\ phase' = "exec" /\ bios(biosfn)
  BY DEF Serve
<1>2. Request = biosfn /\ Request' = "other"
  BY <1>1 DEF Request
<1>3. rdsector \/ wrsector
  BY <1>1 DEF bios
<1>4. UNCHANGED selection
  BY <1>3 DEF rdsector, wrsector
<1>5. drive' = drive /\ Place(drive, track, sector)' = Place(drive, track, sector)
  BY <1>4 DEF selection, Place, SectorsPerTrack
<1>6. DiscOK /\ DiscOK'
  BY DEF CpmInv, BiosOK
<1>7. Disc!Changes
  BY <1>6, ChangesTyped
<1>8. \A d \in Drives \ {drive} : Image'[d] = Image[d] /\ UnsavedPlaces'[d] = UnsavedPlaces[d]
  <2>1. CASE Touched
    BY <1>6, <2>1, TouchedStay
  <2>2. CASE UNCHANGED discState
    BY <2>2 DEF discState, Image, UnsavedPlaces, Shown
  <2> QED
    BY <2>1, <2>2
<1> QED
  BY <1>2, <1>5, <1>7, <1>8 DEF Disc!Done

-----------------------------------------------------------------------------
(* The drives are discs of sectors: the transfers.                         *)

\* What the disc shows of the selected drive.
LEMMA SelectedNow ==
  ASSUME DiscOK, drive \in Drives, drive \in drives, NEW p \in 0 .. MaxPlace
  PROVE  /\ Image[drive][p] = SectorOf(Behind(file[drive], held[drive]), drivelen[drive], p)
         /\ UnsavedPlaces[drive] = Unsafe(file[drive], held[drive])
<1>1. ViewIs
  BY ViewOK
<1>2. Image[drive][p] = SectorNow(drive, p) /\ UnsavedPlaces[drive] = Unsafe(file[drive], held[drive])
  BY <1>1 DEF ViewIs
<1> QED
  BY <1>2 DEF SectorNow, TopIn

LEMMA SelectedNext ==
  ASSUME DiscOK', drive \in Drives, drive \in drives, drives' = drives, NEW p \in 0 .. MaxPlace
  PROVE  /\ Image'[drive][p] = SectorOf(Behind(file'[drive], held'[drive]), drivelen'[drive], p)
         /\ UnsavedPlaces'[drive] = Unsafe(file'[drive], held'[drive])
<1>1. ViewIs'
  BY ViewOKNext
<1>2. \A d \in Drives : /\ Image'[d][p] = SectorNow(d, p)'
                        /\ UnsavedPlaces'[d] = Unsafe(file'[d], held'[d])
  BY <1>1 DEF ViewIs, Unsafe
<1>3. \A d \in Drives : SectorNow(d, p)' = SectorOf(Behind(file'[d], held'[d]), TopIn(d, drives', drivelen'), p)
  BY DEF SectorNow, SectorOf, Behind, Stored, TopIn
<1> QED
  BY <1>2, <1>3 DEF TopIn

LEMMA NothingUnsafe == \A s : Unsafe(s, Nothing) = {}
  BY DEF Unsafe

\* A flush of all that is held shows what was shown.
LEMMA FlushedIs ==
  ASSUME DiscOK, drive \in Drives
  PROVE  /\ Behind(file[drive], held[drive]) \in Seq(Units)
         /\ Behind(Behind(file[drive], held[drive]), Nothing) = Behind(file[drive], held[drive])
<1>1. Behind(file[drive], held[drive]) \in Seq(Units)
  BY DriveIs
<1> QED
  BY <1>1, BehindIs, HeldIs

\* A transfer that leaves the disc as it is.
LEMMA ImageStays ==
  ASSUME UNCHANGED discState
  PROVE  Image' = Image /\ UnsavedPlaces' = UnsavedPlaces
BY DEF discState, Image, UnsavedPlaces, Shown

LEMMA SeekFailsSectors ==
  ASSUME DiscOK, DiscOK', SelectionOK, SeekFails, NEW p \in 0 .. MaxPlace
  PROVE  /\ Image'[drive][p] = Image[drive][p] \/ p \in UnsavedPlaces[drive]
         /\ UnsavedPlaces'[drive] = {}
<1>1. drive \in Drives /\ drive \in drives /\ drives' = drives /\ drivelen' = drivelen
  BY DEF SelectionOK, SeekFails
<1>2. file[drive] \in Seq(Units) /\ held[drive] \in Held /\ drivelen[drive] \in Nat
      /\ (DriveFits(file[drive], held[drive], drivelen[drive]))
  BY <1>1, DiscIs DEF DiscOK
<1>3. PICK n \in Reach(held[drive]) : Flushes(n)
  BY DEF SeekFails
<1>4. file'[drive] = Put(file[drive], held[drive], n) /\ held'[drive] = Nothing
  BY <1>1, <1>3 DEF Flushes, DiscOK, DiscsOK
<1>5. Put(file[drive], held[drive], n) \in Seq(Units)
  BY <1>2, PutIs
<1>6. Behind(file'[drive], held'[drive]) = Put(file[drive], held[drive], n)
  BY <1>4, <1>5, BehindIs, HeldIs
<1>7. UnsavedPlaces'[drive] = {}
  BY <1>1, <1>4, SelectedNext, NothingUnsafe
<1>8. p \notin Unsafe(file[drive], held[drive]) =>
        SectorOf(Put(file[drive], held[drive], n), drivelen[drive], p)
          = SectorOf(Behind(file[drive], held[drive]), drivelen[drive], p)
  BY <1>2, <1>3, PutSectors
<1>9. Image'[drive][p] = SectorOf(Put(file[drive], held[drive], n), drivelen[drive], p)
  BY <1>1, <1>6, SelectedNext
<1> QED
  BY <1>1, <1>7, <1>8, <1>9, SelectedNow

LEMMA ReadWithinSectors ==
  ASSUME DiscOK, DiscOK', SelectionOK, ReadWithin
  PROVE  Image' = Image /\ UnsavedPlaces'[drive] = {}
<1>1. drive \in Drives /\ drive \in drives /\ drives' = drives /\ drivelen' = drivelen
  BY DEF SelectionOK, ReadWithin
<1>2. /\ file' = [file EXCEPT ![drive] = Behind(file[drive], held[drive])]
      /\ held' = [held EXCEPT ![drive] = Nothing]
  BY DEF ReadWithin
<1>3. file'[drive] = Behind(file[drive], held[drive]) /\ held'[drive] = Nothing
  BY <1>1, <1>2 DEF DiscOK, DiscsOK
<1>4. \A d \in Drives : Behind(file'[d], held'[d]) = Behind(file[d], held[d])
  <2>1. Behind(file'[drive], held'[drive]) = Behind(file[drive], held[drive])
    BY <1>1, <1>3, FlushedIs
  <2>2. \A d \in Drives \ {drive} : file'[d] = file[d] /\ held'[d] = held[d]
    BY <1>2 DEF DiscOK, DiscsOK
  <2> QED
    BY <2>1, <2>2
<1>5. Image' = [d \in Drives |-> LET shown == Behind(file'[d], held'[d]) IN
                  [p \in 0 .. MaxPlace |->
                     IF (p + 1) * SectorSize <= Len(shown)
                       THEN SubSeq(shown, p * SectorSize + 1, (p + 1) * SectorSize)
                       ELSE IF d \in drives /\ p * SectorSize < drivelen[d] THEN Missing ELSE Blank]]
  BY <1>1 DEF Image, Shown
<1>6. Image' = Image
  BY <1>4, <1>5 DEF Image, Shown
<1>7. UnsavedPlaces'[drive] = {}
  <2>1. 0 \in 0 .. MaxPlace
    BY PlaceAssumption
  <2> QED
    BY <1>1, <1>3, <2>1, SelectedNext, NothingUnsafe
<1> QED
  BY <1>6, <1>7

\* A sector is read in full exactly when it is there.
LEMMA ReadWithinIs ==
  ASSUME DiscOK, SelectionOK, MemOK, ReadWithin, NEW p \in 0 .. MaxPlace,
         NEW o, o = p * SectorSize, o = Offset
  PROVE  /\ mem'[dma] \in Sectors
         /\ a' = 0 => Image[drive][p] # Missing /\ mem'[dma] = Image[drive][p]
         /\ a' \in {0, 1}
<1> DEFINE now == Behind(file[drive], held[drive])
           got == Got(now, o)
           len == drivelen[drive]
<1>1. /\ drive \in Drives /\ drive \in drives /\ dma \in DmaAddr
      /\ mem' = [mem EXCEPT ![dma] = Over(got, @)]
      /\ a' = IF Len(got) = SectorSize THEN 0 ELSE 1
  BY DEF SelectionOK, ReadWithin
<1>2. p \in Nat
  BY PlaceAssumption
<1>3. o \in Nat /\ now \in Seq(Units) /\ len \in Nat
  BY <1>1, <1>2, PlaceOffset, DriveIs, DiscIs DEF DiscOK
<1>4. mem[dma] \in [1 .. SectorSize -> Units]
  BY <1>1 DEF MemOK
<1>5. mem'[dma] = Over(got, mem[dma])
  BY <1>1 DEF MemOK
<1>6. Image[drive][p] = SectorOf(now, len, p)
  BY <1>1, SelectedNow
<1> HIDE DEF now, len
<1>7. /\ got \in Seq(Units)
      /\ Len(got) = IF o + SectorSize <= Len(now) THEN SectorSize
                    ELSE IF o <= Len(now) THEN Len(now) - o ELSE 0
      /\ \A i \in 1 .. Len(got) : got[i] = now[o + i]
  <2> HIDE DEF got
  <2>1. got = Got(now, o)
    BY DEF got
  <2>2. \A s \in Seq(Units), at \in Nat :
           /\ Got(s, at) \in Seq(Units)
           /\ Len(Got(s, at)) = IF at + SectorSize <= Len(s) THEN SectorSize
                                ELSE IF at <= Len(s) THEN Len(s) - at ELSE 0
           /\ \A i \in 1 .. Len(Got(s, at)) : Got(s, at)[i] = s[at + i]
    BY GotIs
  <2>3. now \in Seq(Units) /\ o \in Nat
    BY <1>3
  <2> QED
    BY <2>1, <2>2, <2>3, Zenon
<1> HIDE DEF got
<1>8. mem'[dma] \in Sectors /\ (Len(got) = SectorSize => mem'[dma] = got)
  BY <1>4, <1>5, <1>7, OverIs DEF Sectors
<1>9. SectorSize \in Nat \ {0} /\ Len(now) \in Nat
  BY <1>3, BiosAssumption
<1>10. Len(got) = SectorSize => o + SectorSize <= Len(now)
  BY <1>3, <1>7, <1>9
<1>11. Len(got) = SectorSize => got = SectorOf(now, len, p)
  <2> SUFFICES ASSUME Len(got) = SectorSize PROVE got = SectorOf(now, len, p)
    OBVIOUS
  <2>1. SectorAt(now, o, got)
    BY <1>7, <1>10 DEF SectorAt
  <2> QED
    BY <1>2, <1>3, <1>7, <2>1, SectorHolds
<1>12. Len(got) = SectorSize => got # Missing
  BY <1>7, SectorThere
<1> QED
  BY <1>1, <1>6, <1>8, <1>11, <1>12

LEMMA ReadBeyondIs ==
  ASSUME DiscOK, SelectionOK, MemOK, ReadBeyond, NEW p \in 0 .. MaxPlace,
         NEW o, o = p * SectorSize, o = Offset
  PROVE  /\ mem'[dma] = Blank /\ Image[drive][p] = Blank /\ Blank # Missing
         /\ UNCHANGED discState /\ a' = 0
<1> DEFINE now == Behind(file[drive], held[drive])
           len == drivelen[drive]
<1>1. /\ drive \in Drives /\ drive \in drives /\ dma \in DmaAddr /\ o >= len
      /\ mem' = [mem EXCEPT ![dma] = Blank] /\ a' = 0 /\ UNCHANGED discState
  BY DEF SelectionOK, ReadBeyond
<1>2. p \in Nat
  BY PlaceAssumption
<1>3. o \in Nat /\ now \in Seq(Units) /\ len \in Nat /\ Len(now) < len + SectorSize
  BY <1>1, <1>2, PlaceOffset, DriveIs, DiscIs DEF DiscOK
<1>4. Image[drive][p] = SectorOf(now, len, p)
  BY <1>1, SelectedNow
<1> HIDE DEF now, len
<1>5. ~(o + SectorSize <= Len(now)) /\ ~(o < len)
  <2>1. SectorSize \in Nat /\ Len(now) \in Nat
    BY <1>3, BiosAssumption
  <2> QED
    BY <1>1, <1>3, <2>1
<1>6. SectorOf(now, len, p) = Blank
  BY <1>2, <1>3, <1>5, SectorShort
<1>7. mem'[dma] = Blank
  BY <1>1 DEF MemOK
<1> QED
  BY <1>1, <1>4, <1>6, <1>7, BlankThere

LEMMA ReadOnDisc ==
  ASSUME CpmInv, CpmInv', PlacesOK, Serve, biosfn = "rdsector"
  PROVE  Disc!Next
<1> DEFINE place == Place(drive, track, sector)
<1>1. DiscOK /\ DiscOK' /\ SelectionOK /\ MemOK /\ MemOK'
  BY DEF CpmInv, BiosOK
<1>2. rdsector
  BY DEF Serve, bios
<1>3. dma' = dma /\ dma \in DmaAddr /\ drive \in Drives
  BY <1>1, <1>2 DEF rdsector, selection, SelectionOK
<1>4. mem'[dma'] \in [1 .. SectorSize -> Units]
  BY <1>1, <1>3 DEF MemOK
<1>5. CASE NotOpen
  <2>1. UNCHANGED discState /\ a' = 1
    BY <1>5 DEF NotOpen
  <2>2. Disc!Done("rdsector", a')
    BY <2>1, TransferDone
  <2>3. Image' = Image /\ UnsavedPlaces' = UnsavedPlaces
    BY <2>1, ImageStays
  <2>4. Disc!ReadFails
    BY <1>4, <2>1, <2>2, <2>3 DEF Disc!ReadFails, Disc!Kept, Disc!Saved
  <2> QED
    BY <2>4 DEF Disc!Next
<1>6. CASE SeekFails
  <2>1. Disc!Done("rdsector", a')
    BY <1>1, <1>6, TransferTouches, TransferDone
  <2>2. \A p \in 0 .. MaxPlace : Image'[drive][p] = Image[drive][p] \/ p \in UnsavedPlaces[drive]
    BY <1>1, <1>6, SeekFailsSectors
  <2>3. UnsavedPlaces'[drive] = {}
    <3>1. 0 \in 0 .. MaxPlace
      BY PlaceAssumption
    <3> QED
      BY <1>1, <1>6, <3>1, SeekFailsSectors
  <2>4. a' = 1
    BY <1>6 DEF SeekFails
  <2>5. Disc!ReadFails
    BY <1>4, <2>1, <2>2, <2>3, <2>4 DEF Disc!ReadFails, Disc!Kept, Disc!Saved
  <2> QED
    BY <2>5 DEF Disc!Next
<1>7. ASSUME Offset >= 0 PROVE place \in 0 .. MaxPlace /\ Offset = place * SectorSize
  BY <1>7, PlaceIs
<1>8. CASE ReadBeyond
  <2>1. Offset >= 0
    <3>1. drivelen[drive] \in Nat /\ Offset \in Int
      BY <1>1, <1>3, PlaceIs, DiscIs DEF DiscOK
    <3> QED
      BY <1>8, <3>1 DEF ReadBeyond
  <2> HIDE DEF place
  <2>2. place \in 0 .. MaxPlace /\ Offset = place * SectorSize
    BY <1>7, <2>1
  <2>3. /\ mem'[dma] = Blank /\ Image[drive][place] = Blank /\ Blank # Missing
        /\ UNCHANGED discState /\ a' = 0
    BY <1>1, <1>8, <2>2, ReadBeyondIs
  <2>4. Disc!Done("rdsector", a')
    BY <2>3, TransferDone
  <2>5. Image' = Image /\ UnsavedPlaces' = UnsavedPlaces
    BY <2>3, ImageStays
  <2>6. Disc!Read
    BY <1>3, <2>2, <2>3, <2>4, <2>5 DEF Disc!Read, Disc!Saved, place
  <2> QED
    BY <2>6 DEF Disc!Next
<1>9. CASE ReadWithin
  <2> HIDE DEF place
  <2>2. place \in 0 .. MaxPlace /\ Offset = place * SectorSize
    BY <1>7, <1>9 DEF ReadWithin
  <2>3. /\ a' = 0 => Image[drive][place] # Missing /\ mem'[dma] = Image[drive][place]
        /\ a' \in {0, 1}
    BY <1>1, <1>9, <2>2, ReadWithinIs
  <2>4. Disc!Done("rdsector", a')
    BY <1>1, <1>9, TransferTouches, TransferDone
  <2>5. Image' = Image /\ UnsavedPlaces'[drive] = {}
    BY <1>1, <1>9, ReadWithinSectors
  <2>6. a' = 0 => Disc!Read
    BY <1>3, <2>2, <2>3, <2>4, <2>5 DEF Disc!Read, Disc!Saved, place
  <2>7. a' = 1 => Disc!ReadFails
    BY <1>4, <2>4, <2>5 DEF Disc!ReadFails, Disc!Kept, Disc!Saved
  <2> QED
    BY <2>3, <2>6, <2>7 DEF Disc!Next
<1> QED
  BY <1>2, <1>5, <1>6, <1>8, <1>9 DEF rdsector

LEMMA PlacesDiffer ==
  ASSUME NEW p \in Nat, NEW q \in Nat, NEW x, NEW o, x = p * SectorSize, o = q * SectorSize, p # q
  PROVE  x \in Nat /\ o \in Nat /\ x # o /\ (x < o => p < q)
<1>1. x \in Nat /\ o \in Nat
  BY PlaceOffset
<1>2. SectorSize \in Nat \ {0}
  BY BiosAssumption
<1>3. p < q \/ q < p
  OBVIOUS
<1>4. p < q => x + SectorSize <= o
  BY SectorsInOrder
<1>5. q < p => o + SectorSize <= x
  BY SectorsInOrder
<1> QED
  BY <1>1, <1>2, <1>3, <1>4, <1>5

LEMMA WriteGapSectors ==
  ASSUME DiscOK, DiscOK', SelectionOK, WriteGapFails, NEW q \in 0 .. MaxPlace,
         Offset = q * SectorSize, NEW p \in 0 .. MaxPlace
  PROVE  /\ \/ Image'[drive][p] = Image[drive][p]
            \/ Image[drive][p] = Missing
            \/ p < q /\ Image[drive][p] = Blank /\ Image'[drive][p] = Missing
         /\ UnsavedPlaces'[drive] = {}
<1> DEFINE now == Behind(file[drive], held[drive])
           len == drivelen[drive]
           x   == p * SectorSize
<1>1. p \in Nat /\ q \in Nat /\ drive \in Drives
  BY PlaceAssumption DEF SelectionOK
<1>2. /\ drive \in drives /\ drives' = drives /\ Offset >= 0
      /\ \/ SectorOf(file'[drive], drivelen'[drive], p) = SectorOf(now, len, p)
         \/ SectorOf(now, len, p) = Missing
         \/ /\ x < Offset /\ SectorOf(now, len, p) = Blank
            /\ SectorOf(file'[drive], drivelen'[drive], p) = Missing
  BY <1>1, GapLeft
<1>3. held'[drive] = Nothing
  BY <1>1 DEF WriteGapFails, DiscOK, DiscsOK
<1>4. Behind(file'[drive], held'[drive]) = file'[drive]
  <2>1. file'[drive] \in Seq(Units)
    BY <1>1 DEF DiscOK, DiscsOK
  <2> QED
    BY <1>3, <2>1, BehindIs, HeldIs
<1>5. Image'[drive][p] = SectorOf(file'[drive], drivelen'[drive], p)
  BY <1>1, <1>2, <1>4, SelectedNext
<1>6. UnsavedPlaces'[drive] = {}
  BY <1>1, <1>2, <1>3, SelectedNext, NothingUnsafe
<1>7. Image[drive][p] = SectorOf(now, len, p)
  BY <1>1, <1>2, SelectedNow
<1>8. x < Offset => p < q
  <2>1. p = q \/ p # q
    OBVIOUS
  <2>2. p # q => (x < Offset => p < q)
    BY <1>1, PlacesDiffer
  <2>3. p = q => ~(x < Offset)
    <3>1. x \in Nat
      BY <1>1, PlaceOffset
    <3> QED
      BY <3>1
  <2> QED
    BY <2>1, <2>2, <2>3
<1> HIDE DEF now, len, x
<1> QED
  BY <1>2, <1>5, <1>6, <1>7, <1>8

\* The sectors but the selected one, after a write that reached it.
LEMMA WriteSectors ==
  ASSUME DiscOK, DiscOK', SelectionOK, drive \in drives, drives' = drives,
         NEW q \in 0 .. MaxPlace, Offset = q * SectorSize, NEW p \in 0 .. MaxPlace, p # q,
         NEW data \in Seq(Units), Len(data) <= SectorSize,
         Behind(file'[drive], held'[drive]) = Stored(Filled, Offset, data),
         drivelen'[drive] = Longer(drivelen[drive], Offset)
           \/ drivelen'[drive] = Longer(drivelen[drive], Offset + SectorSize)
  PROVE  Image'[drive][p] = Image[drive][p] \/ Image[drive][p] = Missing
<1> DEFINE now == Behind(file[drive], held[drive])
           len == drivelen[drive]
           x   == p * SectorSize
           o   == Offset
           t   == Stored(Filled, Offset, data)
           top == drivelen'[drive]
<1>1. p \in Nat /\ q \in Nat /\ drive \in Drives
  BY PlaceAssumption DEF SelectionOK
<1>2. x # o /\ Offset >= 0
  BY <1>1, PlacesDiffer
<1>3. Image'[drive][p] = SectorOf(t, top, p)
  BY <1>1, SelectedNext
<1>4. Image[drive][p] = SectorOf(now, len, p)
  BY <1>1, SelectedNow
<1>5. top = Longer(len, o) \/ top = Longer(len, o + SectorSize)
  OBVIOUS
<1>6. now = Behind(file[drive], held[drive]) /\ len = drivelen[drive] /\ o = Offset
      /\ x = p * SectorSize /\ t = Stored(Filled, o, data)
  OBVIOUS
<1> HIDE DEF now, len, x, o, t, top
<1>7. SectorOf(t, top, p) = SectorOf(now, len, p) \/ SectorOf(now, len, p) = Missing
  BY <1>1, <1>2, <1>5, <1>6, WrittenSectors
<1> QED
  BY <1>3, <1>4, <1>7

\* What a write leaves of the drive, whether its sector was accepted or torn.
LEMMA WriteFailsSectors ==
  ASSUME DiscOK, DiscOK', SelectionOK, MemOK, WriteFails, NEW q \in 0 .. MaxPlace,
         Offset = q * SectorSize
  PROVE  /\ \A p \in 0 .. MaxPlace \ {q} :
              Image'[drive][p] = Image[drive][p] \/ Image[drive][p] = Missing
         /\ UnsavedPlaces'[drive] = {}
<1>1. /\ drive \in Drives /\ drive \in drives /\ drives' = drives /\ Offset >= 0
      /\ held' = [held EXCEPT ![drive] = Nothing]
      /\ drivelen' = [drivelen EXCEPT ![drive] = Longer(@, Offset)]
  BY DEF SelectionOK, WriteFails
<1>2. PICK part \in Torn(mem[dma]) : file' = [file EXCEPT ![drive] = Stored(Filled, Offset, part)]
  BY DEF WriteFails
<1>3. /\ file'[drive] = Stored(Filled, Offset, part) /\ held'[drive] = Nothing
      /\ drivelen'[drive] = Longer(drivelen[drive], Offset)
  BY <1>1, <1>2 DEF DiscOK, DiscsOK
<1>4. mem[dma] \in Seq(Units) /\ Len(mem[dma]) = SectorSize
  BY DmaIs
<1>5. part \in Seq(Units) /\ Len(part) < SectorSize
  BY <1>2, <1>4, TornIs
<1>6. Behind(file'[drive], held'[drive]) = Stored(Filled, Offset, part)
  <2>1. file'[drive] \in Seq(Units)
    BY <1>1 DEF DiscOK, DiscsOK
  <2> QED
    BY <1>3, <2>1, BehindIs, HeldIs
<1>7. Len(part) <= SectorSize
  BY <1>5, BiosAssumption
<1>8. ASSUME NEW p \in 0 .. MaxPlace \ {q}
      PROVE  Image'[drive][p] = Image[drive][p] \/ Image[drive][p] = Missing
  BY <1>1, <1>3, <1>5, <1>6, <1>7, WriteSectors
<1>9. UnsavedPlaces'[drive] = {}
  BY <1>1, <1>3, SelectedNext, NothingUnsafe
<1> QED
  BY <1>8, <1>9

LEMMA WriteDoneSectors ==
  ASSUME DiscOK, DiscOK', SelectionOK, MemOK, WriteDone, NEW q \in 0 .. MaxPlace,
         Offset = q * SectorSize
  PROVE  /\ Image'[drive][q] = mem[dma]
         /\ \A p \in 0 .. MaxPlace \ {q} :
              Image'[drive][p] = Image[drive][p] \/ Image[drive][p] = Missing
         /\ UnsavedPlaces'[drive] \subseteq {q} \union {p \in 0 .. MaxPlace : Image[drive][p] = Missing}
<1> DEFINE data == mem[dma]
           h    == [at |-> Offset, data |-> data]
           t    == Stored(Filled, Offset, data)
           top  == drivelen'[drive]
<1>1. /\ drive \in Drives /\ drive \in drives /\ drives' = drives /\ Offset >= 0
      /\ file' = [file EXCEPT ![drive] = Filled]
      /\ held' = [held EXCEPT ![drive] = h]
      /\ drivelen' = [drivelen EXCEPT ![drive] = Longer(@, Offset + SectorSize)]
  BY DEF SelectionOK, WriteDone
<1>2. /\ file'[drive] = Filled /\ held'[drive] = h
      /\ top = Longer(drivelen[drive], Offset + SectorSize)
  BY <1>1 DEF DiscOK, DiscsOK
<1>3. data \in Seq(Units) /\ Len(data) = SectorSize /\ Len(data) <= SectorSize /\ SectorSize \in Nat \ {0}
  BY DmaIs, BiosAssumption
<1>4. Offset \in Nat /\ Filled \in Seq(Units) /\ q \in Nat
  BY <1>1, FilledIs, PlaceAssumption
<1>5. Behind(file'[drive], held'[drive]) = t
  BY <1>2 DEF Behind
<1>6. top \in Nat
  BY <1>1 DEF DiscOK, DiscsOK
<1>7. t \in Seq(Units) /\ SectorAt(t, Offset, data)
  <2> HIDE DEF data
  <2>1. /\ t \in Seq(Units)
        /\ Len(t) = IF Len(data) > 0 /\ Offset + Len(data) > Len(Filled) THEN Offset + Len(data) ELSE Len(Filled)
    BY <1>3, <1>4, StoredLen
  <2>2. \A i \in 1 .. SectorSize : t[Offset + i] = data[i]
    BY <1>3, <1>4, StoredNew
  <2> HIDE DEF t
  <2>3. Len(Filled) \in Nat
    BY <1>4
  <2>4. Offset + SectorSize <= Len(t)
    BY <1>3, <1>4, <2>1, <2>3
  <2> QED
    BY <2>1, <2>2, <2>4 DEF SectorAt
<1>8. Image'[drive][q] = SectorOf(t, top, q)
  BY <1>1, <1>5, SelectedNext
<1>9. SectorOf(t, top, q) = data
  <2> HIDE DEF t, data, top
  <2> QED
    BY <1>3, <1>4, <1>6, <1>7, SectorHolds
<1>10. ASSUME NEW p \in 0 .. MaxPlace \ {q}
       PROVE  Image'[drive][p] = Image[drive][p] \/ Image[drive][p] = Missing
  <2> HIDE DEF data
  <2> QED
    BY <1>1, <1>2, <1>3, <1>5, WriteSectors
<1>11. UnsavedPlaces'[drive] = Unsafe(Filled, h)
  BY <1>1, <1>2, SelectedNext
<1>12. ASSUME NEW p \in Unsafe(Filled, h), p # q
       PROVE  Image[drive][p] = Missing
  <2> DEFINE x == p * SectorSize
             now == Behind(file[drive], held[drive])
             len == drivelen[drive]
  <2>1. p \in 0 .. MaxPlace /\ p \in Nat /\ h.at = Offset
    BY <1>12, PlaceAssumption DEF Unsafe
  <2>2. x <= Offset /\ (x = Offset \/ (p + 1) * SectorSize > Len(Filled))
    BY <1>12, <2>1 DEF Unsafe
  <2>3. x \in Nat /\ x # Offset
    BY <1>4, <1>12, <2>1, PlacesDiffer
  <2>4. (p + 1) * SectorSize = x + SectorSize
    BY <2>1, PlaceOffset
  <2> HIDE DEF x
  <2>5. x < Offset /\ x + SectorSize > Len(Filled)
    BY <1>4, <2>2, <2>3, <2>4
  <2>6. ~(x + SectorSize <= Len(Filled))
    BY <1>3, <1>4, <2>3, <2>5
  <2>7. SectorOf(now, len, p) = Missing
    <3>1. now = Behind(file[drive], held[drive]) /\ len = drivelen[drive] /\ x = p * SectorSize
      BY DEF x
    <3> HIDE DEF now, len
    <3> QED
      BY <1>1, <2>1, <2>5, <2>6, <3>1, FilledLost
  <2> QED
    BY <1>1, <2>1, <2>7, SelectedNow
<1>13. UnsavedPlaces'[drive] \subseteq 0 .. MaxPlace
  BY <1>11 DEF Unsafe
<1> HIDE DEF h
<1> QED
  BY <1>8, <1>9, <1>10, <1>11, <1>12, <1>13

LEMMA WriteOnDisc ==
  ASSUME CpmInv, CpmInv', PlacesOK, Serve, biosfn = "wrsector"
  PROVE  Disc!Next
<1> DEFINE place == Place(drive, track, sector)
<1>1. DiscOK /\ DiscOK' /\ SelectionOK /\ MemOK
  BY DEF CpmInv, BiosOK
<1>2. wrsector
  BY DEF Serve, bios
<1>3. mem'[dma'] = mem[dma]
  BY <1>2 DEF wrsector, selection
<1>4. ASSUME Offset >= 0 PROVE place \in 0 .. MaxPlace /\ Offset = place * SectorSize
  BY <1>4, PlaceIs
<1>5. 0 \in 0 .. MaxPlace
  BY PlaceAssumption
<1>6. CASE NotOpen
  <2>1. UNCHANGED discState /\ a' = 1
    BY <1>6 DEF NotOpen
  <2>2. Disc!Done("wrsector", a')
    BY <2>1, TransferDone
  <2>3. Image' = Image /\ UnsavedPlaces' = UnsavedPlaces
    BY <2>1, ImageStays
  <2>4. Disc!WriteFails
    BY <1>3, <2>1, <2>2, <2>3 DEF Disc!WriteFails, Disc!Kept, Disc!Saved
  <2> QED
    BY <2>4 DEF Disc!Next
<1>7. CASE SeekFails
  <2>1. Disc!Done("wrsector", a')
    BY <1>1, <1>7, TransferTouches, TransferDone
  <2>2. \A p \in 0 .. MaxPlace : Image'[drive][p] = Image[drive][p] \/ p \in UnsavedPlaces[drive]
    BY <1>1, <1>7, SeekFailsSectors
  <2>3. UnsavedPlaces'[drive] = {}
    BY <1>1, <1>5, <1>7, SeekFailsSectors
  <2>4. a' = 1
    BY <1>7 DEF SeekFails
  <2>5. Disc!WriteFails
    BY <1>3, <2>1, <2>2, <2>3, <2>4 DEF Disc!WriteFails, Disc!Kept, Disc!Saved, Disc!Risky
  <2> QED
    BY <2>5 DEF Disc!Next
<1>8. CASE WriteGapFails
  <2>1. Offset >= 0
    BY <1>1, <1>8, GapLeft, PlaceAssumption
  <2> HIDE DEF place
  <2>2. place \in 0 .. MaxPlace /\ Offset = place * SectorSize
    BY <1>4, <2>1
  <2>3. \A p \in 0 .. MaxPlace :
           /\ \/ Image'[drive][p] = Image[drive][p]
              \/ Image[drive][p] = Missing
              \/ p < place /\ Image[drive][p] = Blank /\ Image'[drive][p] = Missing
           /\ UnsavedPlaces'[drive] = {}
    BY <1>1, <1>8, <2>2, WriteGapSectors
  <2>4. Disc!Done("wrsector", a')
    BY <1>1, <1>8, TransferTouches, TransferDone
  <2>5. a' = 1
    BY <1>8 DEF WriteGapFails
  <2>6. Disc!WriteFails
    BY <1>3, <1>5, <2>3, <2>4, <2>5 DEF Disc!WriteFails, Disc!Kept, Disc!Saved, Disc!Risky, place
  <2> QED
    BY <2>6 DEF Disc!Next
<1>9. CASE WriteFails
  <2> HIDE DEF place
  <2>2. place \in 0 .. MaxPlace /\ Offset = place * SectorSize
    BY <1>4, <1>9 DEF WriteFails
  <2>3. /\ \A p \in 0 .. MaxPlace \ {place} :
              Image'[drive][p] = Image[drive][p] \/ Image[drive][p] = Missing
        /\ UnsavedPlaces'[drive] = {}
    BY <1>1, <1>9, <2>2, WriteFailsSectors
  <2>4. Disc!Done("wrsector", a')
    BY <1>1, <1>9, TransferTouches, TransferDone
  <2>5. a' = 1
    BY <1>9 DEF WriteFails
  <2>6. Disc!WriteFails
    BY <1>3, <2>3, <2>4, <2>5 DEF Disc!WriteFails, Disc!Kept, Disc!Saved, Disc!Risky, place
  <2> QED
    BY <2>6 DEF Disc!Next
<1>10. CASE WriteDone
  <2> HIDE DEF place
  <2>2. place \in 0 .. MaxPlace /\ Offset = place * SectorSize
    BY <1>4, <1>10 DEF WriteDone
  <2>3. /\ Image'[drive][place] = mem[dma]
        /\ \A p \in 0 .. MaxPlace \ {place} :
              Image'[drive][p] = Image[drive][p] \/ Image[drive][p] = Missing
        /\ UnsavedPlaces'[drive]
             \subseteq {place} \union {p \in 0 .. MaxPlace : Image[drive][p] = Missing}
    BY <1>1, <1>10, <2>2, WriteDoneSectors
  <2>4. Disc!Done("wrsector", a')
    BY <1>1, <1>10, TransferTouches, TransferDone
  <2>5. a' = 0
    BY <1>10 DEF WriteDone
  <2>6. Disc!Write
    BY <1>3, <2>2, <2>3, <2>4, <2>5 DEF Disc!Write, Disc!Kept, place
  <2> QED
    BY <2>6 DEF Disc!Next
<1> QED
  BY <1>2, <1>6, <1>7, <1>8, <1>9, <1>10 DEF wrsector

-----------------------------------------------------------------------------
(* The drives are discs of sectors: selecting and starting.                *)

\* What a drive shows once one is selected, from what it was made of.
LEMMA SelectSeen ==
  ASSUME DiscOK', NEW c, NEW old, DiscsOK(old.file, old.held, old.drives, drivelen),
         SelectDisc(c, old), NEW d \in Drives, NEW p \in 0 .. MaxPlace
  PROVE  /\ Image'[d][p] = SectorOf(Behind(old.file[d], old.held[d]), TopIn(d, old.drives, drivelen), p)
         /\ p \in UnsavedPlaces'[d] =>
              p \in Unsafe(old.file[d], old.held[d]) \/ (p = 0 /\ Image'[d][p] = Blank)
<1>1. ViewIs'
  BY ViewOKNext
<1>2. Image'[d][p] = SectorNow(d, p)' /\ UnsavedPlaces'[d] = Unsafe(file'[d], held'[d])
  BY <1>1 DEF ViewIs, Unsafe
<1>3. SectorNow(d, p)' = SectorOf(Behind(file'[d], held'[d]), TopIn(d, drives', drivelen'), p)
  BY DEF SectorNow, SectorOf, Behind, Stored, TopIn
<1>4. /\ SectorOf(Behind(file'[d], held'[d]), TopIn(d, drives', drivelen'), p)
           = SectorOf(Behind(old.file[d], old.held[d]), TopIn(d, old.drives, drivelen), p)
      /\ p \in Unsafe(file'[d], held'[d]) =>
           \/ p \in Unsafe(old.file[d], old.held[d])
           \/ p = 0 /\ SectorOf(Behind(file'[d], held'[d]), TopIn(d, drives', drivelen'), p) = Blank
  BY SelectSectors
<1> QED
  BY <1>2, <1>3, <1>4

LEMMA SelectOnDisc ==
  ASSUME CpmInv, CpmInv', Serve, biosfn = "seldisc"
  PROVE  Disc!Next
<1>1. DiscOK /\ DiscOK'
  BY DEF CpmInv, BiosOK
<1>2. seldisc /\ Request = "seldisc"
  BY DEF Serve, bios, Request
<1> DEFINE old == [drive |-> drive, track |-> track, sector |-> sector,
                   drives |-> drives, file |-> file, held |-> held]
<1>3. SelectDisc(bc, old)
  BY <1>2 DEF seldisc
<1>4. old.file = file /\ old.held = held /\ old.drives = drives
  OBVIOUS
<1> HIDE DEF old
<1>5. DiscsOK(old.file, old.held, old.drives, drivelen)
  BY <1>1, <1>4 DEF DiscOK
<1>6. ASSUME NEW d \in Drives, NEW p \in 0 .. MaxPlace
      PROVE  /\ Image'[d][p] = Image[d][p]
             /\ p \in UnsavedPlaces'[d] => p \in UnsavedPlaces[d] \/ (p = 0 /\ Image'[d][p] = Blank)
  <2>1. /\ Image'[d][p] = SectorOf(Behind(old.file[d], old.held[d]), TopIn(d, old.drives, drivelen), p)
        /\ p \in UnsavedPlaces'[d] =>
              p \in Unsafe(old.file[d], old.held[d]) \/ (p = 0 /\ Image'[d][p] = Blank)
    BY <1>1, <1>3, <1>5, SelectSeen
  <2>2. Image[d][p] = SectorNow(d, p) /\ UnsavedPlaces[d] = Unsafe(file[d], held[d])
    BY <1>1, ViewOK DEF ViewIs
  <2> QED
    BY <1>4, <2>1, <2>2 DEF SectorNow
<1>7. Image' = Image
  <2>1. Image = [d \in Drives |-> [p \in 0 .. MaxPlace |-> Image[d][p]]]
    BY ImageIs
  <2>2. Image' = [d \in Drives |-> [p \in 0 .. MaxPlace |-> Image'[d][p]]]
    BY DEF Image
  <2>3. [d \in Drives |-> [p \in 0 .. MaxPlace |-> Image'[d][p]]]
          = [d \in Drives |-> [p \in 0 .. MaxPlace |-> Image[d][p]]]
    BY <1>6
  <2> QED
    BY <2>1, <2>2, <2>3
<1>8. Disc!Changes
  BY <1>1, ChangesTyped
<1>9. \A d \in Drives : Disc!Opened(d)
  <2>1. UnsavedPlaces' \in [Drives -> SUBSET (0 .. MaxPlace)]
    BY <1>1, ViewOKNext DEF ImageTyped
  <2> QED
    BY <1>6, <2>1 DEF Disc!Opened
<1>10. Disc!Select
  BY <1>2, <1>7, <1>8, <1>9 DEF Disc!Select
<1> QED
  BY <1>10 DEF Disc!Next

\* The files are closed, and what could not be put into one is lost.
LEMMA ClosedSectors ==
  ASSUME DiscOK, NEW d \in Drives, NEW n \in Reach(held[d]), NEW p \in 0 .. MaxPlace,
         p \notin UnsavedPlaces[d], Image[d][p] # Missing
  PROVE  SectorOf(Put(file[d], held[d], n), 0, p) = Image[d][p]
<1> DEFINE top == TopIn(d, drives, drivelen)
           t == Put(file[d], held[d], n)
<1>1. file[d] \in Seq(Units) /\ held[d] \in Held /\ top \in Nat
  BY DriveIs
<1>2. DriveFits(file[d], held[d], top) \/ held[d] = Nothing
  BY DEF DiscOK, DiscsOK, TopIn
<1>3. Image[d][p] = SectorOf(Behind(file[d], held[d]), top, p) /\ p \notin Unsafe(file[d], held[d])
  BY ViewOK DEF ViewIs, SectorNow
<1>4. SectorOf(t, top, p) = SectorOf(Behind(file[d], held[d]), top, p)
  BY <1>1, <1>2, <1>3, PutSectors
<1>5. p \in Nat /\ p * SectorSize \in Nat
  BY PlaceAssumption, PlaceOffset
<1> HIDE DEF top, t
<1>6. SectorOf(t, top, p) # Missing => SectorOf(t, 0, p) = SectorOf(t, top, p)
  BY <1>5 DEF SectorOf
<1> QED
  BY <1>3, <1>4, <1>6 DEF t

LEMMA StartOnDisc ==
  ASSUME CpmInv, CpmInv', NEW c \in Drives, StartFrom(c), Request \in {"boot", "warmboot"}
  PROVE  Disc!Next
<1>1. DiscOK /\ DiscOK'
  BY DEF CpmInv, BiosOK
<1>2. PICK cut : /\ Closes(cut)
                 /\ SelectDisc(c, [drive |-> c, track |-> 0, sector |-> 1, drives |-> {},
                                   file |-> Cut(cut), held |-> [x \in Drives |-> Nothing]])
  BY DEF StartFrom, Closes, Cut
<1> DEFINE old == [drive |-> c, track |-> 0, sector |-> 1, drives |-> {},
                   file |-> Cut(cut), held |-> [x \in Drives |-> Nothing]]
<1>3. SelectDisc(c, old)
  BY <1>2
<1>4. old.file = Cut(cut) /\ old.held = [x \in Drives |-> Nothing] /\ old.drives = {}
  OBVIOUS
<1> HIDE DEF old
<1>5. DiscsOK(old.file, old.held, old.drives, drivelen)
  BY <1>1, <1>2, <1>4, ClosedOK
<1>6. ASSUME NEW d \in Drives, NEW p \in 0 .. MaxPlace
      PROVE  /\ Image'[d][p] = SectorOf(Put(file[d], held[d], cut[d]), 0, p)
             /\ p \in UnsavedPlaces'[d] => p = 0 /\ Image'[d][p] = Blank
  <2>1. /\ Image'[d][p] = SectorOf(Behind(old.file[d], old.held[d]), TopIn(d, old.drives, drivelen), p)
        /\ p \in UnsavedPlaces'[d] =>
              p \in Unsafe(old.file[d], old.held[d]) \/ (p = 0 /\ Image'[d][p] = Blank)
    BY <1>1, <1>3, <1>5, SelectSeen
  <2>2. old.file[d] = Put(file[d], held[d], cut[d]) /\ old.held[d] = Nothing
    BY <1>4 DEF Cut
  <2>3. TopIn(d, old.drives, drivelen) = 0
    BY <1>4 DEF TopIn
  <2>4. old.file[d] \in Seq(Units)
    BY <1>5 DEF DiscsOK
  <2>5. Behind(old.file[d], old.held[d]) = old.file[d]
    BY <2>2, <2>4, BehindIs, HeldIs
  <2> QED
    BY <2>1, <2>2, <2>3, <2>5, NothingUnsafe
<1>7. Disc!Changes
  BY <1>1, ChangesTyped
<1>8. \A d \in Drives : Disc!Opened(d)
  <2>1. UnsavedPlaces' \in [Drives -> SUBSET (0 .. MaxPlace)]
    BY <1>1, ViewOKNext DEF ImageTyped
  <2> QED
    BY <1>6, <2>1 DEF Disc!Opened
<1>9. \A d \in Drives : \A p \in 0 .. MaxPlace : Disc!Kept(d, p) \/ Disc!Risky(d, p)
  <2> SUFFICES ASSUME NEW d \in Drives, NEW p \in 0 .. MaxPlace,
                      p \notin UnsavedPlaces[d], Image[d][p] # Missing
               PROVE  Image'[d][p] = Image[d][p]
    BY DEF Disc!Kept, Disc!Risky
  <2>1. cut[d] \in Reach(held[d])
    BY <1>2 DEF Closes
  <2> QED
    BY <1>1, <1>6, <2>1, ClosedSectors
<1>10. Disc!Restart
  BY <1>7, <1>8, <1>9 DEF Disc!Restart
<1> QED
  BY <1>10 DEF Disc!Next

\* A step that leaves the drives as they are, whatever was asked for.
LEMMA StayOnDisc ==
  ASSUME CpmInv, CpmInv', UNCHANGED discState, Request \notin {"rdsector", "wrsector", "seldisc"}
  PROVE  Disc!Next
<1>1. Image' = Image /\ UnsavedPlaces' = UnsavedPlaces
  BY ImageStays
<1>2. Disc!Changes
  BY ChangesTyped DEF CpmInv, BiosOK
<1>3. CASE Request \in {"boot", "warmboot"}
  BY <1>1, <1>2, <1>3 DEF Disc!Next, Disc!Restart, Disc!Opened, Disc!Kept
<1>4. CASE Request \notin {"boot", "warmboot"}
  BY <1>1, <1>4 DEF Disc!Next, Disc!Other
<1> QED
  BY <1>3, <1>4

LEMMA ServeOnDisc ==
  ASSUME CpmInv, CpmInv', PlacesOK, Serve
  PROVE  Disc!Next
<1>1. Request = biosfn /\ bios(biosfn)
  BY DEF Serve, Request
<1>2. CASE biosfn \in {"boot", "warmboot"}
  <2>1. boot \/ warmboot
    BY <1>1, <1>2 DEF bios
  <2>2. StartFrom(drive) \/ StartFrom(0)
    BY <2>1 DEF boot, warmboot
  <2>3. drive \in Drives /\ 0 \in Drives
    BY BiosAssumption DEF CpmInv, BiosOK, SelectionOK
  <2> QED
    BY <1>1, <1>2, <2>2, <2>3, StartOnDisc
<1>3. CASE biosfn = "seldisc"
  BY <1>3, SelectOnDisc
<1>4. CASE biosfn = "rdsector"
  BY <1>4, ReadOnDisc
<1>5. CASE biosfn = "wrsector"
  BY <1>5, WriteOnDisc
<1>6. CASE biosfn \notin {"boot", "warmboot", "seldisc", "rdsector", "wrsector"}
  <2>1. \/ home \/ settrack \/ setsector \/ setdma \/ secttran
        \/ openunix \/ createunix \/ rdunix \/ wrunix \/ closeunix
    BY <1>1, <1>6 DEF bios
  <2>2. UNCHANGED discState
    BY <2>1 DEF home, settrack, setsector, setdma, secttran,
                openunix, createunix, rdunix, wrunix, closeunix
  <2> QED
    BY <1>1, <1>6, <2>2, StayOnDisc
<1> QED
  BY <1>2, <1>3, <1>4, <1>5, <1>6

\* A step that leaves the drives, the selection and the request as they are.
LEMMA SameOnDisc ==
  ASSUME UNCHANGED <<biosVars, phase, syscall, biosfn>>
  PROVE  UNCHANGED (Disc!discVars)
<1>1. UNCHANGED discState /\ UNCHANGED selection /\ UNCHANGED <<mem, a>>
  BY DEF biosVars
<1>2. Image' = Image /\ UnsavedPlaces' = UnsavedPlaces
  BY <1>1, ImageStays
<1>3. Request' = Request
  BY DEF Request
<1>4. /\ drive' = drive /\ Place(drive, track, sector)' = Place(drive, track, sector)
      /\ (mem[dma])' = mem[dma] /\ a' = a
  BY <1>1 DEF selection, Place, SectorsPerTrack
<1> QED
  BY <1>2, <1>3, <1>4 DEF Disc!discVars

LEMMA NextOnDisc ==
  ASSUME CpmInv, CpmInv', PlacesOK, [Next]_vars
  PROVE  [Disc!Next]_(Disc!discVars)
<1>1. CASE Execute \/ SignalStops \/ Traced \/ NothingToServe
  <2>1. UNCHANGED discState /\ Request = "other"
    BY <1>1 DEF Execute, SignalStops, Traced, NothingToServe, biosVars, Request
  <2> QED
    BY <2>1, StayOnDisc
<1>2. CASE WildFile
  <2>1. UNCHANGED discState /\ Request = biosfn /\ UsesFile(biosfn)
    BY <1>2 DEF WildFile, biosVars, Request
  <2>2. Request \notin {"rdsector", "wrsector", "seldisc"}
    BY <2>1 DEF UsesFile
  <2> QED
    BY <2>1, <2>2, StayOnDisc
<1>3. CASE Break \/ PromptTrace \/ PromptStep \/ UNCHANGED vars
  <2>1. UNCHANGED <<biosVars, phase, syscall, biosfn>>
    BY <1>3 DEF Break, PromptTrace, PromptStep, vars, emulator
  <2> QED
    BY <2>1, SameOnDisc
<1>4. CASE PromptGo
  <2>1. UNCHANGED discState /\ Request = "boot"
    BY <1>4 DEF PromptGo, biosVars, Request
  <2> QED
    BY <2>1, StayOnDisc
<1>5. CASE PowerOn \/ PromptBoot
  <2>1. StartFrom(0) /\ Request = "boot"
    BY <1>5 DEF PowerOn, PromptBoot, boot, Request
  <2> QED
    BY <2>1, BiosAssumption, StartOnDisc
<1>6. CASE Serve
  BY <1>6, ServeOnDisc
<1>7. CASE StartAccess \/ StartRaw \/ StartRestart \/ StartGetunix \/ StartPutunix
  <2>1. PICK s : Starts(s)
    BY <1>7, StartsWhole
  <2>2. UNCHANGED discState /\ Request = "other"
    BY <2>1 DEF Starts, biosVars, Request
  <2> QED
    BY <2>2, StayOnDisc
<1>8. CASE GuestCall \/ GuestReturn
  <2>1. UNCHANGED discState /\ Request = "other"
    BY <1>8 DEF GuestCall, GuestReturn, biosVars, Request
  <2> QED
    BY <2>1, StayOnDisc
<1> QED
  BY <1>1, <1>2, <1>3, <1>4, <1>5, <1>6, <1>7, <1>8 DEF Next, Emulator, User, Program

LEMMA InitOnDisc ==
  ASSUME Init
  PROVE  Disc!Init
<1>1. DiscOK /\ SelectionOK /\ MemOK
  BY InitHolds DEF CpmInv, BiosOK
<1>2. drives = {} /\ held = [d \in Drives |-> Nothing] /\ drive = 0 /\ track = 0 /\ sector = 1 /\ a = 0
  BY DEF Init, BiosInit
<1>3. Image \in [Drives -> [0 .. MaxPlace -> Sectors]]
  <2>1. \A d \in Drives, p \in 0 .. MaxPlace : Image[d][p] \in Sectors
    BY <1>1, <1>2, SectorNowIs
  <2> QED
    BY <2>1, ImageIs
<1>4. UnsavedPlaces = [d \in Drives |-> {}]
  BY <1>2 DEF UnsavedPlaces
<1>5. Request = "boot"
  BY DEF Init, Request
<1>6. Place(drive, track, sector) \in 0 .. MaxPlace
  <2>1. SectorsPerTrack(drive) * 0 = 0
    BY BiosAssumption DEF SectorsPerTrack
  <2>2. Place(drive, track, sector) = 0
    BY <1>2, <2>1 DEF Place
  <2> QED
    BY <2>2, PlaceAssumption
<1>7. drive \in Drives /\ mem[dma] \in [1 .. SectorSize -> Units]
  BY <1>1 DEF SelectionOK, MemOK
<1> QED
  BY <1>2, <1>3, <1>4, <1>5, <1>6, <1>7 DEF Disc!Init, Sectors

(* The drives are discs of sectors.  A read that succeeds gives what the   *)
(* selected sector was written with last, a write that succeeds puts what  *)
(* is in memory there and in no other sector.  Lost is only what was written last, or what lay   *)
(* between the end of the file and it, and then a later transfer reports   *)
(* an error or the drives are closed, by a boot - whatever the host        *)
(* refuses, and though a SIGINT may take any call away (bios.c, closeall,  *)
(* seldisc to wrsector).                                                   *)
THEOREM DrivesAreDiscs == Spec => ImplementsDisc
<1>1. Init => PlacesOK /\ Disc!Init
  BY InitPlaces, InitOnDisc
<1>2. CpmInv /\ CpmInv' /\ PlacesOK /\ [Next]_vars => PlacesOK' /\ [Disc!Next]_(Disc!discVars)
  BY NextKeepsPlaces, NextOnDisc
<1> QED
  BY CpmInvariant, <1>1, <1>2, PTL DEF Spec, ImplementsDisc, Disc!Spec

-----------------------------------------------------------------------------
(* The floppy that makedisc wrote.                                         *)

\* A table that visits each sector of a track visits none twice.
LEMMA SkewOnce ==
  ASSUME NEW k \in 1 .. Len(sectorxlat), NEW l \in 1 .. Len(sectorxlat),
         sectorxlat[k] = sectorxlat[l]
  PROVE  k = l
<1> DEFINE S == 1 .. Len(sectorxlat)
<1>1. Len(sectorxlat) \in Nat /\ sectorxlat \in [S -> Nat] /\ Range(sectorxlat) = S
  BY BiosAssumption
<1>2. sectorxlat \in Surjection(S, S)
  <2>1. DOMAIN sectorxlat = S
    BY <1>1
  <2>2. \A x \in S : sectorxlat[x] \in S
    BY <1>1, <2>1 DEF Range
  <2>3. \A y \in S : \E x \in S : sectorxlat[x] = y
    BY <1>1, <2>1 DEF Range
  <2>4. sectorxlat \in [S -> S]
    <3> HIDE DEF S
    <3> QED
      BY <1>1, <2>2
  <2> HIDE DEF S
  <2> QED
    BY <2>3, <2>4 DEF Surjection
<1>3. IsFiniteSet(S)
  BY <1>1, FS_Interval
<1> HIDE DEF S
<1>4. sectorxlat \in Injection(S, S)
  BY <1>2, <1>3, FS_Surjection
<1>5. DOMAIN sectorxlat = S
  BY <1>1
<1> QED
  BY <1>4, <1>5 DEF Injection, IsInjective, S

\* Where the skew puts a logical sector, makedisc's content is.
LEMMA MadeSector ==
  ASSUME NEW t \in Nat, NEW l \in 0 .. Len(sectorxlat) - 1, NEW top \in Nat
  PROVE  LET spt == Len(sectorxlat)
             p   == sectorxlat[l + 1] - 1 + spt * t
         IN  /\ p \in Nat
             /\ t < MadeTracks => SectorOf(MadeFile, top, p) = Made[spt * t + l + 1]
             /\ ~(t < MadeTracks) => SectorOf(MadeFile, top, p) \in {Blank, Missing}
<1> DEFINE spt == Len(sectorxlat)
           x == sectorxlat[l + 1] - 1
           p == x + spt * t
           T == MadeTracks * spt
           o == p * SectorSize
           logical(n) == CHOOSE k \in 0 .. spt - 1 : sectorxlat[k + 1] - 1 = (n % spt)
           at(n) == spt * (n \div spt) + logical(n)
           unit(i) == Made[at((i - 1) \div SectorSize) + 1][((i - 1) % SectorSize) + 1]
<1>1. /\ spt \in Nat /\ MadeTracks \in Nat /\ T \in Nat /\ T * SectorSize \in Nat
      /\ Made \in Seq([1 .. SectorSize -> Units]) /\ Len(Made) = T
      /\ SectorSize \in Nat \ {0}
  BY BiosAssumption, CpmAssumption, SMTT(40)
<1>2. spt \in Nat \ {0} /\ l \in Nat /\ l < spt /\ l + 1 \in 1 .. spt
  BY <1>1
<1>3. x \in 0 .. spt - 1
  <2>1. sectorxlat[l + 1] \in Range(sectorxlat)
    BY <1>2, BiosAssumption DEF Range
  <2>2. sectorxlat[l + 1] \in 1 .. spt
    BY <2>1, BiosAssumption
  <2> QED
    BY <1>1, <2>2
<1>4. spt * t \in Nat /\ p \in Nat /\ p = spt * t + x
  <2> HIDE DEF spt, x
  <2> QED
    BY <1>1, <1>3
<1>5. /\ MadeFile = [i \in 1 .. T * SectorSize |-> unit(i)]
      /\ MadeFile \in Seq(Units)
  BY MadeIs DEF MadeFile, MadeDisc
<1>6. p \div spt = t /\ p % spt = x
  <2> HIDE DEF spt, x, p
  <2> QED
    BY <1>2, <1>3, <1>4, QuotientOf
<1>7. logical(p) = l
  <2>1. sectorxlat[l + 1] - 1 = (p % spt) /\ l \in 0 .. spt - 1
    BY <1>2, <1>6
  <2>2. ASSUME NEW k \in 0 .. spt - 1, sectorxlat[k + 1] - 1 = (p % spt) PROVE k = l
    <3>1. k + 1 \in 1 .. spt
      BY <1>2
    <3>2. sectorxlat[k + 1] \in Nat /\ sectorxlat[l + 1] \in Nat
      BY <1>2, <3>1, BiosAssumption
    <3>3. sectorxlat[k + 1] = sectorxlat[l + 1]
      <4> HIDE DEF spt, p
      <4> QED
        BY <2>1, <2>2, <3>2
    <3>4. k + 1 = l + 1
      BY <1>2, <3>1, <3>3, SkewOnce
    <3> QED
      BY <1>2, <3>4
  <2> HIDE DEF spt, p
  <2> QED
    BY <2>1, <2>2
<1>8. at(p) = spt * t + l
  BY <1>6, <1>7
<1> HIDE DEF x, logical
<1>9. p \in Nat /\ T \in Nat /\ SectorSize \in Nat \ {0}
  BY <1>1, <1>4
<1>10. o \in Nat /\ (p + 1) * SectorSize = o + SectorSize /\ IsWhole(o)
  <2> HIDE DEF p
  <2> QED
    BY <1>9 DEF IsWhole
<1>11. Len(MadeFile) = T * SectorSize
  <2> HIDE DEF T, unit
  <2> QED
    BY <1>1, <1>5
<1>13. CASE t < MadeTracks
  <2>1. p < T
    <3>1. /\ spt * (MadeTracks - 1 - t) \in Nat
          /\ T = spt * t + spt * (MadeTracks - 1 - t) + spt
      <4> HIDE DEF spt
      <4>1. MadeTracks - 1 - t \in Nat
        BY <1>1, <1>13
      <4> QED
        BY <1>1, <4>1
    <3> HIDE DEF T, p, spt
    <3> QED
      BY <1>2, <1>3, <1>4, <3>1
  <2>2. o + SectorSize <= T * SectorSize
    <3> HIDE DEF p, T
    <3> QED
      BY <1>9, <2>1, SectorsInOrder
  <2> DEFINE c == spt * t + l + 1
  <2>4. ASSUME NEW j \in 1 .. SectorSize PROVE MadeFile[o + j] = Made[c][j]
    <3>1. o + j \in 1 .. T * SectorSize /\ (o + j) - 1 = SectorSize * p + (j - 1) /\ j - 1 \in 0 .. SectorSize - 1
      <4>1. SectorSize * p = o
        <5> HIDE DEF p
        <5> QED
          BY <1>1, <1>4
      <4> HIDE DEF o, p, T
      <4> QED
        BY <1>1, <1>10, <2>2, <4>1
    <3>2. ((o + j) - 1) \div SectorSize = p /\ ((o + j) - 1) % SectorSize = j - 1
      <4> DEFINE y == (o + j) - 1
                 r == j - 1
      <4>1. y = SectorSize * p + r /\ r \in 0 .. SectorSize - 1
        BY <3>1
      <4> HIDE DEF y, r, p
      <4>2. y \div SectorSize = p /\ y % SectorSize = r
        BY <1>9, <4>1, QuotientOf
      <4> QED
        BY <4>2 DEF y, r
    <3>3. unit(o + j) = Made[c][(j - 1) + 1]
      <4> HIDE DEF o, p, spt
      <4> QED
        BY <1>8, <3>2
    <3>4. (j - 1) + 1 = j
      BY <1>1
    <3>5. MadeFile[o + j] = unit(o + j)
      <4> HIDE DEF o, unit, T
      <4> QED
        BY <1>5, <3>1
    <3> HIDE DEF o, unit, c
    <3> QED
      BY <3>3, <3>4, <3>5
  <2>5. Made[c] \in [1 .. SectorSize -> Units]
    <3>1. at(p) \in 0 .. T - 1
      <4>1. /\ spt * (MadeTracks - 1 - t) \in Nat
            /\ T = spt * t + spt * (MadeTracks - 1 - t) + spt
        <5> HIDE DEF spt
        <5>1. MadeTracks - 1 - t \in Nat
          BY <1>1, <1>13
        <5> QED
          BY <1>1, <5>1
      <4> HIDE DEF T, p, spt, at
      <4> QED
        BY <1>2, <1>4, <1>8, <4>1
    <3>2. c \in 1 .. Len(Made)
      <4> HIDE DEF T, p, spt, at
      <4> QED
        BY <1>1, <1>2, <1>4, <1>8, <3>1
    <3> HIDE DEF c
    <3> QED
      BY <1>1, <3>2
  <2> HIDE DEF c, p, o, T
  <2>6. Made[c] \in Seq(Units) /\ Len(Made[c]) = SectorSize
    BY <1>9, <2>5, FunctionLen
  <2>7. SectorAt(MadeFile, o, Made[c])
    BY <1>11, <2>2, <2>4 DEF SectorAt
  <2>8. SectorOf(MadeFile, top, p) = Made[c]
    BY <1>4, <1>5, <2>6, <2>7, SectorHolds DEF o
  <2> QED
    BY <1>4, <1>13, <2>8 DEF c, p, spt, x
<1>14. CASE ~(t < MadeTracks)
  <2>1. T <= p
    <3>1. spt * (t - MadeTracks) \in Nat /\ spt * t = T + spt * (t - MadeTracks)
      <4> HIDE DEF spt
      <4>1. t - MadeTracks \in Nat
        BY <1>1, <1>14
      <4> QED
        BY <1>1, <4>1
    <3> HIDE DEF T, p, spt
    <3> QED
      BY <1>1, <1>3, <1>4, <3>1
  <2>2. T * SectorSize <= o
    <3>1. T = p \/ T < p
      <4> HIDE DEF T, p
      <4> QED
        BY <1>1, <1>4, <2>1
    <3>2. T < p => T * SectorSize + SectorSize <= p * SectorSize
      <4> HIDE DEF T, p
      <4> QED
        BY <1>9, SectorsInOrder
    <3>3. T * SectorSize \in Nat /\ p * SectorSize \in Nat
      BY <1>1, <1>10
    <3> HIDE DEF T, p
    <3> QED
      BY <1>1, <3>1, <3>2, <3>3
  <2>3. ~(o + SectorSize <= Len(MadeFile))
    <3> HIDE DEF T, p, o
    <3> QED
      BY <1>1, <1>10, <1>11, <2>2
  <2>4. SectorOf(MadeFile, top, p) \in {Blank, Missing}
    <3> HIDE DEF p
    <3> QED
      BY <1>4, <1>5, <2>3, SectorShort
  <2> QED
    BY <1>4, <1>14, <2>4 DEF p, spt, x
<1> QED
  BY <1>13, <1>14

-----------------------------------------------------------------------------
(* A disc access that no SIGINT came to is made as it was planned.         *)

Skewed    == sectorxlat[plan.logical + 1]
OnDrive   == drive = plan.drive /\ drive \in drives
OnTrack   == OnDrive /\ track = plan.track
Abandoned == todo \in {<<>>, <<Call("warmboot", 0)>>}

\* What is left of the access, from each of its calls on.
Placing(last)     == <<Call("setsector", InHL), last>>
Translating(last) == <<Call("secttran", plan.logical), Call("setsector", InHL), last>>
Tracking(last)    == <<Call("settrack", plan.track), Call("secttran", plan.logical),
                       Call("setsector", InHL), last>>
Selecting(last)   == Access(plan.drive, plan.track, plan.logical, last)

Asked(x) == pc = "ret" /\ syscall => bc = x
Served   == pc = "ret" /\ ~syscall

AtSelect(last)    == /\ todo = Selecting(last)
                     /\ Asked(plan.drive) /\ (Served => hl = NoHeader \/ OnDrive)
AtTrack(last)     == /\ todo = Tracking(last) /\ OnDrive
                     /\ Asked(plan.track) /\ (Served => track = plan.track)
AtTranslate(last) == /\ todo = Translating(last) /\ OnTrack
                     /\ Asked(plan.logical) /\ (Served => hl = Skewed)
AtSector(last)    == /\ todo = Placing(last) /\ OnTrack /\ hl = Skewed
                     /\ Asked(Skewed) /\ (Served => sector = Skewed)
AtTransfer(last)  == todo = <<last>> /\ OnTrack /\ sector = Skewed

AtStage(last) ==
  AtSelect(last) \/ AtTrack(last) \/ AtTranslate(last) \/ AtSector(last) \/ AtTransfer(last)

Planned == plan.track \in Nat /\ plan.logical \in 0 .. Len(sectorxlat) - 1

OnPlan ==
  plan.drive \in Floppies => Planned /\ (Abandoned \/ \E last \in Transfers : AtStage(last))

AtStart == phase = "start" => todo = <<>>

Undisturbed == breaks = 0 => AtStart /\ OnPlan

LEMMA AccessIs ==
  ASSUME NEW last
  PROVE  /\ Selecting(last) # <<>> /\ Head(Selecting(last)) = Call("seldisc", plan.drive)
         /\ Tail(Selecting(last)) = Tracking(last)
         /\ Tracking(last) # <<>> /\ Head(Tracking(last)) = Call("settrack", plan.track)
         /\ Tail(Tracking(last)) = Translating(last)
         /\ Translating(last) # <<>> /\ Head(Translating(last)) = Call("secttran", plan.logical)
         /\ Tail(Translating(last)) = Placing(last)
         /\ Placing(last) # <<>> /\ Head(Placing(last)) = Call("setsector", InHL)
         /\ Tail(Placing(last)) = <<last>>
         /\ Head(<<last>>) = last /\ Tail(<<last>>) = <<>>
  BY DEF Selecting, Access, Tracking, Translating, Placing

LEMMA PlanStays ==
  ASSUME OnPlan, UNCHANGED <<plan, todo, pc, syscall, bc, hl, drive, drives, track, sector>>
  PROVE  OnPlan'
<1>1. ASSUME NEW last PROVE AtStage(last)' <=> AtStage(last)
  BY DEF AtStage, AtSelect, AtTrack, AtTranslate, AtSector, AtTransfer, Selecting, Tracking,
         Translating, Placing, Skewed, OnDrive, OnTrack, Asked, Served
<1> QED
  BY <1>1 DEF OnPlan, Planned, Abandoned

\* The stage of an access is kept, or it is the next one.
LEMMA StageHolds ==
  ASSUME NEW last \in Transfers, UNCHANGED plan, Planned, AtStage(last)'
  PROVE  OnPlan'
<1>1. Planned'
  BY DEF Planned
<1> QED
  BY <1>1 DEF OnPlan

LEMMA PlanCalls ==
  ASSUME CpmInv, OnPlan, GuestCall
  PROVE  OnPlan'
<1>1. /\ pc' = "ret" /\ syscall' = TRUE /\ Arguments(Head(todo))
      /\ UNCHANGED <<todo, plan, hl, drive, drives, track, sector>>
  BY DEF GuestCall, discState, selection
<1>2. CASE plan.drive \notin Floppies
  BY <1>1, <1>2 DEF OnPlan
<1>3. CASE plan.drive \in Floppies /\ Abandoned
  BY <1>1, <1>3 DEF OnPlan, Abandoned, Planned
<1>4. CASE plan.drive \in Floppies /\ ~Abandoned
  <2>1. PICK last \in Transfers : AtStage(last)
    BY <1>4 DEF OnPlan
  <2>2. Planned
    BY <1>4 DEF OnPlan
  <2>3. Served' = FALSE
    BY <1>1 DEF Served
  <2>4. CASE AtSelect(last)
    <3>1. bc' = plan.drive
      BY <1>1, <2>4, AccessIs DEF AtSelect, Arguments, Call
    <3> QED
      BY <1>1, <2>2, <2>3, <2>4, <3>1, StageHolds DEF AtStage, AtSelect, Selecting, Asked
  <2>5. CASE AtTrack(last)
    <3>1. bc' = plan.track
      BY <1>1, <2>5, AccessIs DEF AtTrack, Arguments, Call
    <3> QED
      BY <1>1, <2>2, <2>3, <2>5, <3>1, StageHolds DEF AtStage, AtTrack, Tracking, Asked, OnDrive
  <2>6. CASE AtTranslate(last)
    <3>1. bc' = plan.logical
      BY <1>1, <2>6, AccessIs DEF AtTranslate, Arguments, Call
    <3> QED
      BY <1>1, <2>2, <2>3, <2>6, <3>1, StageHolds
         DEF AtStage, AtTranslate, Translating, Asked, OnTrack, OnDrive
  <2>7. CASE AtSector(last)
    <3>1. bc' = hl
      BY <1>1, <2>7, AccessIs DEF AtSector, Arguments, Call
    <3> QED
      BY <1>1, <2>2, <2>3, <2>7, <3>1, StageHolds
         DEF AtStage, AtSector, Placing, Asked, OnTrack, OnDrive, Skewed
  <2>8. CASE AtTransfer(last)
    BY <1>1, <2>2, <2>8, StageHolds DEF AtStage, AtTransfer, OnTrack, OnDrive, Skewed
  <2> QED
    BY <2>1, <2>4, <2>5, <2>6, <2>7, <2>8 DEF AtStage
<1> QED
  BY <1>2, <1>3, <1>4

LEMMA TransferFn == \A last \in Transfers : last.fn \in {"rdsector", "wrsector"}
  BY CallFn DEF Transfers

\* What seldisc leaves when it finds the drive.
LEMMA SelectFinds ==
  ASSUME NEW c, NEW old, SelectDisc(c, old)
  PROVE  hl' = NoHeader \/ (drive' = c /\ c \in drives')
<1>1. SelRefused(c, old) \/ SelUncreated(c, old) => hl' = NoHeader
  BY DEF SelRefused, SelUncreated, NotSelected
<1>2. SelOpened(c, old) \/ SelOpens(c, old) \/ SelBegins(c, old) => drive' = c /\ c \in drives'
  BY DEF SelOpened, SelOpens, SelBegins, Selects
<1> QED
  BY <1>1, <1>2 DEF SelectDisc

LEMMA PlanServes ==
  ASSUME CpmInv, OnPlan, Serve, pc = "ret", biosfn = Head(todo).fn
  PROVE  OnPlan'
<1>1. /\ syscall /\ syscall' = FALSE /\ bios(biosfn) /\ Restarts(biosfn) /\ todo # <<>>
  BY DEF Serve, CpmInv, ProgramOK
<1>2. CASE biosfn \in {"boot", "warmboot"}
  <2>1. plan' = NoPlan
    BY <1>1, <1>2 DEF Restarts
  <2>2. plan'.drive \notin Floppies
    BY <2>1, BiosAssumption DEF NoPlan, Drives
  <2> QED
    BY <2>2 DEF OnPlan
<1>3. CASE biosfn \notin {"boot", "warmboot"}
  <2>1. UNCHANGED <<plan, todo, pc>>
    BY <1>1, <1>3 DEF Restarts, program
  <2>2. CASE plan.drive \notin Floppies
    BY <2>1, <2>2 DEF OnPlan
  <2>3. CASE plan.drive \in Floppies /\ Abandoned
    <3>1. todo = <<Call("warmboot", 0)>>
      BY <1>1, <2>3 DEF Abandoned
    <3>2. Head(todo) = Call("warmboot", 0)
      BY <3>1
    <3> QED
      BY <1>3, <3>2, CallFn
  <2>4. CASE plan.drive \in Floppies /\ ~Abandoned
    <3>1. PICK last \in Transfers : AtStage(last)
      BY <2>4 DEF OnPlan
    <3>2. Planned
      BY <2>4 DEF OnPlan
    <3>3. ~(pc' = "ret" /\ syscall')
      BY <1>1
    <3>4. CASE AtSelect(last)
      <4>1. biosfn = "seldisc" /\ bc = plan.drive
        BY <1>1, <3>4, AccessIs, CallFn DEF AtSelect, Asked
      <4>2. seldisc
        BY <1>1, <4>1 DEF bios
      <4>3. hl' = NoHeader \/ OnDrive'
        BY <2>1, <4>1, <4>2, SelectFinds DEF seldisc, OnDrive
      <4> QED
        BY <2>1, <3>2, <3>3, <3>4, <4>3, StageHolds DEF AtStage, AtSelect, Selecting, Asked
    <3>5. CASE AtTrack(last)
      <4>1. biosfn = "settrack" /\ bc = plan.track
        BY <1>1, <3>5, AccessIs, CallFn DEF AtTrack, Asked
      <4>2. settrack
        BY <1>1, <4>1 DEF bios
      <4>3. track' = plan.track /\ UNCHANGED <<drive, drives>>
        BY <4>1, <4>2 DEF settrack, discState
      <4> QED
        BY <2>1, <3>2, <3>3, <3>5, <4>3, StageHolds DEF AtStage, AtTrack, Tracking, Asked, OnDrive
    <3>6. CASE AtTranslate(last)
      <4>1. biosfn = "secttran" /\ bc = plan.logical
        BY <1>1, <3>6, AccessIs, CallFn DEF AtTranslate, Asked
      <4>2. secttran
        BY <1>1, <4>1 DEF bios
      <4>3. UNCHANGED <<drive, drives, track>> /\ hl' \in Translated(drive, bc)
        BY <4>2 DEF secttran, discState, selection
      <4>4. hl' = Skewed
        <5>1. drive \in Floppies /\ drive \notin HardDiscs
          BY <2>4, <3>6, BiosAssumption DEF AtTranslate, OnTrack, OnDrive
        <5>2. bc < Len(sectorxlat)
          BY <3>2, <4>1, BiosAssumption DEF Planned
        <5> QED
          BY <4>1, <4>3, <5>1, <5>2 DEF Translated, Skewed
      <4> QED
        BY <2>1, <3>2, <3>3, <3>6, <4>3, <4>4, StageHolds
           DEF AtStage, AtTranslate, Translating, Asked, OnTrack, OnDrive, Skewed
    <3>7. CASE AtSector(last)
      <4>1. biosfn = "setsector" /\ bc = Skewed
        BY <1>1, <3>7, AccessIs, CallFn DEF AtSector, Asked
      <4>2. setsector
        BY <1>1, <4>1 DEF bios
      <4>3. sector' = Skewed /\ UNCHANGED <<drive, drives, track, hl>>
        BY <4>1, <4>2 DEF setsector, discState
      <4> QED
        BY <2>1, <3>2, <3>3, <3>7, <4>3, StageHolds
           DEF AtStage, AtSector, Placing, Asked, OnTrack, OnDrive, Skewed
    <3>8. CASE AtTransfer(last)
      <4>1. biosfn \in {"rdsector", "wrsector"}
        BY <3>8, AccessIs, TransferFn DEF AtTransfer
      <4>2. rdsector \/ wrsector
        BY <1>1, <4>1 DEF bios
      <4>3. UNCHANGED <<drive, drives, track, sector>>
        <5>1. UNCHANGED <<drive, track, sector>>
          BY <4>2 DEF rdsector, wrsector, selection
        <5>2. UNCHANGED drives
          BY <4>2 DEF rdsector, wrsector, NotOpen, SeekFails, ReadBeyond, ReadWithin,
                      WriteGapFails, WriteFails, WriteDone, discState
        <5> QED
          BY <5>1, <5>2
      <4> QED
        BY <2>1, <3>2, <3>8, <4>3, StageHolds DEF AtStage, AtTransfer, OnTrack, OnDrive, Skewed
    <3> QED
      BY <3>1, <3>4, <3>5, <3>6, <3>7, <3>8 DEF AtStage
  <2> QED
    BY <2>2, <2>3, <2>4
<1> QED
  BY <1>2, <1>3

LEMMA PlanReturns ==
  ASSUME CpmInv, OnPlan, GuestReturn, ~syscall
  PROVE  OnPlan'
<1>1. /\ pc = "ret" /\ pc' = "out" /\ UNCHANGED <<plan, syscall, biosVars>>
      /\ todo' = Continued(Head(todo), Tail(todo)) /\ todo # <<>>
  BY DEF GuestReturn, CpmInv, ProgramOK
<1>2. UNCHANGED <<drive, drives, track, sector, hl, bc>>
  BY <1>1 DEF biosVars, discState, selection
<1>3. Served /\ Asked(0)' /\ Served' = FALSE /\ ~(pc' = "ret")
  BY <1>1 DEF Served, Asked
<1>4. CASE plan.drive \notin Floppies
  BY <1>1, <1>4 DEF OnPlan
<1>5. ASSUME plan.drive \in Floppies, Abandoned' PROVE OnPlan'
  <2>1. Planned'
    BY <1>1, <1>5 DEF OnPlan, Planned
  <2> QED
    BY <1>5, <2>1 DEF OnPlan
<1>6. CASE plan.drive \in Floppies /\ Abandoned
  <2>1. todo = <<Call("warmboot", 0)>>
    BY <1>1, <1>6 DEF Abandoned
  <2>2. Head(todo) = Call("warmboot", 0) /\ Tail(todo) = <<>>
    BY <2>1
  <2>3. todo' = <<>>
    BY <1>1, <2>2, CallFn DEF Continued
  <2> QED
    BY <1>5, <1>6, <2>3 DEF Abandoned
<1>7. CASE plan.drive \in Floppies /\ ~Abandoned
  <2>1. PICK last \in Transfers : AtStage(last)
    BY <1>7 DEF OnPlan
  <2>2. Planned
    BY <1>7 DEF OnPlan
  <2>3. CASE AtSelect(last)
    <3>1. Head(todo) = Call("seldisc", plan.drive) /\ Tail(todo) = Tracking(last)
      BY <2>3, AccessIs DEF AtSelect
    <3>2. CASE hl = NoHeader
      <4>1. todo' = <<Call("warmboot", 0)>>
        BY <1>1, <3>1, <3>2, CallFn DEF Continued
      <4> QED
        BY <1>5, <1>7, <4>1 DEF Abandoned
    <3>3. CASE hl # NoHeader
      <4>1. todo' = Tracking(last)
        BY <1>1, <3>1, <3>3, CallFn DEF Continued
      <4>2. OnDrive
        BY <1>3, <2>3, <3>3 DEF AtSelect
      <4> QED
        BY <1>1, <1>2, <1>3, <2>2, <4>1, <4>2, StageHolds
           DEF AtStage, AtTrack, Tracking, Asked, OnDrive
    <3> QED
      BY <3>2, <3>3
  <2>4. CASE AtTrack(last)
    <3>1. Head(todo) = Call("settrack", plan.track) /\ Tail(todo) = Translating(last)
      BY <2>4, AccessIs DEF AtTrack
    <3>2. todo' = Translating(last)
      BY <1>1, <3>1, CallFn DEF Continued
    <3>3. OnTrack
      BY <1>3, <2>4 DEF AtTrack, OnTrack
    <3> QED
      BY <1>1, <1>2, <1>3, <2>2, <3>2, <3>3, StageHolds
         DEF AtStage, AtTranslate, Translating, Asked, OnTrack, OnDrive
  <2>5. CASE AtTranslate(last)
    <3>1. Head(todo) = Call("secttran", plan.logical) /\ Tail(todo) = Placing(last)
      BY <2>5, AccessIs DEF AtTranslate
    <3>2. todo' = Placing(last)
      BY <1>1, <3>1, CallFn DEF Continued
    <3>3. OnTrack /\ hl = Skewed
      BY <1>3, <2>5 DEF AtTranslate
    <3> QED
      BY <1>1, <1>2, <1>3, <2>2, <3>2, <3>3, StageHolds
         DEF AtStage, AtSector, Placing, Asked, OnTrack, OnDrive, Skewed
  <2>6. CASE AtSector(last)
    <3>1. Head(todo) = Call("setsector", InHL) /\ Tail(todo) = <<last>>
      BY <2>6, AccessIs DEF AtSector
    <3>2. todo' = <<last>>
      BY <1>1, <3>1, CallFn DEF Continued
    <3>3. OnTrack /\ sector = Skewed
      BY <1>3, <2>6 DEF AtSector
    <3> QED
      BY <1>1, <1>2, <2>2, <3>2, <3>3, StageHolds
         DEF AtStage, AtTransfer, OnTrack, OnDrive, Skewed
  <2>7. CASE AtTransfer(last)
    <3>1. Head(todo) = last /\ Tail(todo) = <<>> /\ last.fn \in {"rdsector", "wrsector"}
      BY <2>7, AccessIs, TransferFn DEF AtTransfer
    <3>2. todo' = <<>>
      BY <1>1, <3>1 DEF Continued
    <3> QED
      BY <1>5, <1>7, <3>2 DEF Abandoned
  <2> QED
    BY <2>1, <2>3, <2>4, <2>5, <2>6, <2>7 DEF AtStage
<1> QED
  BY <1>4, <1>6, <1>7

LEMMA NoPlanned == ASSUME plan' = NoPlan PROVE OnPlan'
<1>1. plan'.drive \notin Floppies
  BY BiosAssumption DEF NoPlan, Drives
<1> QED
  BY <1>1 DEF OnPlan

LEMMA PlanStarts ==
  ASSUME StartAccess
  PROVE  OnPlan'
<1>1. PICK d \in Selected, t \in Tracks :
        \E l \in IF d \in Drives THEN Logical(d) ELSE {0} :
          /\ \E last \in Transfers : Starts(Access(d, t, l, last))
          /\ plan' = [drive |-> d, track |-> t, logical |-> l]
  BY DEF StartAccess
<1>2. PICK l \in IF d \in Drives THEN Logical(d) ELSE {0} :
          /\ \E last \in Transfers : Starts(Access(d, t, l, last))
          /\ plan' = [drive |-> d, track |-> t, logical |-> l]
  BY <1>1
<1>3. PICK last \in Transfers : Starts(Access(d, t, l, last))
  BY <1>2
<1>4. plan'.drive = d /\ plan'.track = t /\ plan'.logical = l
  BY <1>2
<1>5. todo' = Access(d, t, l, last) /\ pc' = "out"
  BY <1>3 DEF Starts
<1>6. SUFFICES ASSUME d \in Floppies PROVE OnPlan'
  BY <1>4 DEF OnPlan
<1>7. d \notin HardDiscs /\ d \in Drives
  BY <1>6, BiosAssumption DEF Drives
<1>8. l \in Logicals /\ l < Len(sectorxlat)
  BY <1>7 DEF Logical, SectorsPerTrack
<1>9. Planned'
  <2>1. l \in Nat /\ t \in Nat /\ Len(sectorxlat) \in Nat
    BY <1>8, BiosAssumption, CpmAssumption
  <2> QED
    BY <1>4, <1>8, <2>1 DEF Planned
<1>10. AtStage(last)'
  BY <1>4, <1>5 DEF AtStage, AtSelect, Selecting, Asked, Served
<1> QED
  BY <1>9, <1>10 DEF OnPlan

LEMMA NextKeepsPlan ==
  ASSUME CpmInv, CallOnItsWay, Unbroken, Undisturbed, [Next]_vars
  PROVE  Undisturbed'
<1> SUFFICES ASSUME breaks' = 0 PROVE AtStart' /\ OnPlan'
  BY DEF Undisturbed
<1>1. breaks \in Nat
  BY DEF CpmInv, EmulatorOK
<1>2. CASE breaks # 0
  <2>1. breaks' # breaks
    BY <1>2
  <2>2. Break
    BY <2>1 DEF Next, Emulator, User, Program, PowerOn, Execute, SignalStops, Traced, NothingToServe,
                Serve, Remembers, WildFile, PromptBoot, PromptTrace, PromptStep, PromptGo, GuestCall, GuestReturn,
                StartAccess, StartRaw, StartRestart, StartGetunix, StartPutunix, Starts, history, vars
  <2> QED
    BY <1>1, <2>2 DEF Break
<1>3. CASE breaks = 0
  <2>1. Quiet /\ HasFile /\ AtStart /\ OnPlan
    BY <1>3 DEF Unbroken, Undisturbed
  <2>2. CASE Break
    BY <1>1, <2>2 DEF Break
  <2>3. CASE PromptBoot \/ PromptTrace \/ PromptStep \/ PromptGo
    BY <2>1, <2>3 DEF PromptBoot, PromptTrace, PromptStep, PromptGo, Quiet
  <2>4. CASE Execute \/ SignalStops \/ Traced \/ NothingToServe \/ WildFile \/ UNCHANGED vars
    <3>1. UNCHANGED <<biosVars, program, syscall>>
      BY <2>4 DEF Execute, SignalStops, Traced, NothingToServe, WildFile, vars, emulator
    <3>2. UNCHANGED <<plan, todo, pc, syscall, bc, hl, drive, drives, track, sector>>
      BY <3>1 DEF biosVars, program, discState, selection
    <3>3. phase' = "start" => phase = "start"
      BY <2>4 DEF Execute, SignalStops, Traced, NothingToServe, WildFile, vars, emulator
    <3> QED
      BY <2>1, <3>2, <3>3, PlanStays DEF AtStart
  <2>5. CASE PowerOn
    <3>1. todo = <<>> /\ phase' = "top" /\ UNCHANGED <<todo, plan>>
      BY <2>1, <2>5 DEF PowerOn, AtStart, program
    <3> QED
      BY <2>1, <3>1 DEF AtStart, OnPlan, Planned, Abandoned
  <2>6. CASE Serve
    <3>1. syscall /\ phase' = "exec"
      BY <2>6 DEF Serve
    <3>2. pc = "ret" /\ biosfn = todo[1].fn
      BY <2>1, <3>1 DEF HasFile
    <3>3. Head(todo) = todo[1]
      BY <3>2, HeadIs DEF CpmInv, ProgramOK
    <3> QED
      BY <2>1, <2>6, <3>1, <3>2, <3>3, PlanServes DEF AtStart
  <2>7. CASE StartAccess
    <3>1. phase' = "top"
      BY <2>7 DEF StartAccess, Starts
    <3> QED
      BY <2>7, <3>1, PlanStarts DEF AtStart
  <2>8. CASE StartRaw \/ StartRestart \/ StartGetunix \/ StartPutunix
    <3>1. phase' = "top" /\ plan' = NoPlan
      BY <2>8 DEF StartRaw, StartRestart, StartGetunix, StartPutunix, Starts
    <3> QED
      BY <3>1, NoPlanned DEF AtStart
  <2>9. CASE GuestCall
    <3>1. phase' = "top"
      BY <2>9 DEF GuestCall
    <3> QED
      BY <2>1, <2>9, <3>1, PlanCalls DEF AtStart
  <2>10. CASE GuestReturn
    <3>1. phase = "exec" /\ phase' = "top"
      BY <2>10 DEF GuestReturn
    <3>2. ~syscall
      BY <2>1, <3>1 DEF CallOnItsWay, Quiet
    <3> QED
      BY <2>1, <2>10, <3>1, <3>2, PlanReturns DEF AtStart
  <2> QED
    BY <2>2, <2>3, <2>4, <2>5, <2>6, <2>7, <2>8, <2>9, <2>10 DEF Next, Emulator, User, Program
<1> QED
  BY <1>2, <1>3

\* A read of the program is the last call of its access.
LEMMA ReadOnPlan ==
  ASSUME CpmInv, Unbroken, Undisturbed, Serve, biosfn = "rdsector", breaks = 0,
         plan.drive \in Floppies
  PROVE  OnTrack /\ sector = Skewed /\ Planned
<1>1. syscall
  BY DEF Serve
<1>2. pc = "ret" /\ biosfn = todo[1].fn /\ OnPlan
  BY <1>1 DEF Unbroken, HasFile, Undisturbed
<1>3. todo # <<>> /\ Head(todo).fn = "rdsector"
  BY <1>2, HeadIs DEF CpmInv, ProgramOK
<1>4. ~Abandoned
  <2>1. Head(<<Call("warmboot", 0)>>).fn = "warmboot"
    BY CallFn
  <2> QED
    BY <1>3, <2>1 DEF Abandoned
<1>5. PICK last \in Transfers : AtStage(last)
  BY <1>2, <1>4 DEF OnPlan
<1>6. AtTransfer(last)
  BY <1>3, <1>5, AccessIs, CallFn DEF AtStage, AtSelect, AtTrack, AtTranslate, AtSector
<1> QED
  BY <1>2, <1>6 DEF AtTransfer, OnPlan

(* Without a SIGINT a floppy that makedisc wrote is read as it was         *)
(* written, or with an error: at every place, for every skew that visits each sector of a    *)
(* track once, and through the five calls that BDOS makes of an access -   *)
(* the skew of secttran and the place of rdsector undo those of            *)
(* writesector, and a track beyond the file is unwritten (makedisc.c,      *)
(* writesector; bios.c, secttran, rdsector).                               *)
THEOREM MadeDiscsAreRead == Spec => MadeDiscReads
<1>1. Init => CallOnItsWay /\ Unbroken /\ Undisturbed
  <2>1. Init => CallOnItsWay /\ Unbroken
    BY DEF Init, CallOnItsWay, Unbroken, Quiet, HasFile
  <2>2. Init => Undisturbed
    <3>1. -1 \notin Floppies
      BY BiosAssumption DEF Drives
    <3> QED
      BY <3>1 DEF Init, Undisturbed, AtStart, OnPlan, NoPlan
  <2> QED
    BY <2>1, <2>2
<1>2. CpmInv /\ CallOnItsWay /\ Unbroken /\ Undisturbed /\ [Next]_vars
        => CallOnItsWay' /\ Unbroken' /\ Undisturbed'
  BY NextKeepsCall, NextKeepsUnbroken, NextKeepsPlan
<1>3. ASSUME CpmInv, Unbroken, Undisturbed, Serve, biosfn = "rdsector", breaks = 0, a' = 0,
             plan.drive \in Floppies, Shown(plan.drive) = MadeFile, PlacesOK
      PROVE  mem'[dma] = IF plan.track < MadeTracks
                           THEN Made[Len(sectorxlat) * plan.track + plan.logical + 1] ELSE Blank
  <2> DEFINE p == Place(drive, track, sector)
  <2>1. OnTrack /\ sector = Skewed /\ Planned
    BY <1>3, ReadOnPlan
  <2>2. drive = plan.drive /\ drive \in drives /\ drive \notin HardDiscs /\ drive \in Drives
    BY <1>3, <2>1, BiosAssumption DEF OnTrack, OnDrive, Drives
  <2>3. rdsector /\ DiscOK /\ SelectionOK /\ MemOK
    BY <1>3 DEF Serve, bios, CpmInv, BiosOK
  <2>4. /\ p \in 0 .. MaxPlace
        /\ mem'[dma] = Image[drive][p] /\ Image[drive][p] # Missing
    <3>1. ReadBeyond \/ ReadWithin
      BY <1>3, <2>2, <2>3 DEF rdsector, NotOpen, SeekFails
    <3>2. drivelen[drive] \in Nat /\ Offset \in Int
      BY <1>3, <2>2, <2>3, PlaceIs, DiscIs DEF DiscOK
    <3>3. Offset >= 0
      BY <3>1, <3>2 DEF ReadBeyond, ReadWithin
    <3> HIDE DEF p
    <3>4. p \in 0 .. MaxPlace /\ Offset = p * SectorSize
      BY <1>3, <3>3, PlaceIs DEF p
    <3>5. ReadBeyond => mem'[dma] = Image[drive][p] /\ Image[drive][p] # Missing
      BY <2>3, <3>4, ReadBeyondIs
    <3>6. ReadWithin => mem'[dma] = Image[drive][p] /\ Image[drive][p] # Missing
      BY <1>3, <2>3, <3>4, ReadWithinIs
    <3> QED
      BY <3>1, <3>4, <3>5, <3>6
  <2>5. Image[drive][p] = SectorOf(MadeFile, drivelen[drive], p)
    <3> HIDE DEF p
    <3> QED
      BY <1>3, <2>2, <2>3, <2>4, SelectedNow DEF Shown
  <2>6. p = sectorxlat[plan.logical + 1] - 1 + Len(sectorxlat) * plan.track
    BY <2>1, <2>2 DEF Place, SectorsPerTrack, OnTrack, Skewed
  <2>7. drivelen[drive] \in Nat /\ plan.track \in Nat /\ plan.logical \in 0 .. Len(sectorxlat) - 1
    BY <2>1, <2>2, <2>3, DiscIs DEF DiscOK, Planned
  <2>8. /\ plan.track < MadeTracks =>
             SectorOf(MadeFile, drivelen[drive], p)
               = Made[Len(sectorxlat) * plan.track + plan.logical + 1]
        /\ ~(plan.track < MadeTracks) =>
             SectorOf(MadeFile, drivelen[drive], p) \in {Blank, Missing}
    <3>1. ASSUME NEW t \in Nat, NEW l \in 0 .. Len(sectorxlat) - 1, NEW top \in Nat, NEW q,
                 q = sectorxlat[l + 1] - 1 + Len(sectorxlat) * t
          PROVE  /\ t < MadeTracks => SectorOf(MadeFile, top, q) = Made[Len(sectorxlat) * t + l + 1]
                 /\ ~(t < MadeTracks) => SectorOf(MadeFile, top, q) \in {Blank, Missing}
      BY <3>1, MadeSector
    <3> HIDE DEF p
    <3> QED
      BY <2>6, <2>7, <3>1
  <2> HIDE DEF p
  <2> QED
    BY <2>4, <2>5, <2>8
<1>4. CpmInv /\ Unbroken /\ Undisturbed /\ PlacesOK
        => [Serve /\ biosfn = "rdsector" /\ breaks = 0 /\ a' = 0
              /\ plan.drive \in Floppies /\ Shown(plan.drive) = MadeFile
            => mem'[dma] = IF plan.track < MadeTracks
                             THEN Made[Len(sectorxlat) * plan.track + plan.logical + 1] ELSE Blank]_vars
  BY <1>3
<1> QED
  BY CpmInvariant, InitPlaces, NextKeepsPlaces, <1>1, <1>2, <1>4, PTL DEF Spec, MadeDiscReads

-----------------------------------------------------------------------------
(* Induction, and what FlattenSeq makes of the records that are copied.    *)

\* A set of naturals has a least one: of its initial segments one is included
\* in the others.
LEMMA LeastNat ==
  ASSUME NEW T \in SUBSET Nat, T # {}
  PROVE  \E m \in T : \A n \in T : m <= n
<1>1. PICK t \in T : TRUE
  OBVIOUS
<1> DEFINE S == 0 .. t
           R == StrictSubsetOrdering(S)
           F == {0 .. k : k \in {n \in T : n <= t}}
<1>2. t \in Nat /\ IsFiniteSet(S)
  BY FS_Interval
<1>3. IsWellFoundedOn(R, SUBSET S)
  <2>1. IsWellFoundedOn(R, FiniteSubsetsOf(S))
    BY FS_StrictSubsetOrderingWellFounded
  <2>2. FiniteSubsetsOf(S) = SUBSET S
    BY <1>2, FS_FiniteSubsetsOfFinite
  <2> QED
    BY <2>1, <2>2
<1>4. F \subseteq SUBSET S /\ F # {}
  BY <1>2
<1>5. \E x \in F : \A y \in F : ~ (<<y, x>> \in R)
  <2> HIDE DEF R, F, S
  <2> QED
    BY <1>3, <1>4, WFMin
<1>6. PICK m \in {n \in T : n <= t} : \A n \in {j \in T : j <= t} : ~ (<<0 .. n, 0 .. m>> \in R)
  BY <1>5
<1>7. \A n \in {j \in T : j <= t} : n < m => <<0 .. n, 0 .. m>> \in R
  <2> SUFFICES ASSUME NEW n \in T, n <= t, n < m PROVE <<0 .. n, 0 .. m>> \in R
    OBVIOUS
  <2>1. m \in 0 .. m /\ m \notin 0 .. n /\ 0 .. n \subseteq 0 .. m /\ 0 .. m \subseteq S /\ 0 .. n \subseteq S
    BY <1>2
  <2> QED
    BY <2>1 DEF StrictSubsetOrdering
<1>8. ASSUME NEW n \in T PROVE m <= n
  <2>1. m \in Nat /\ n \in Nat /\ m <= t /\ t \in Nat
    BY <1>2
  <2>2. n <= t => ~(n < m)
    <3> HIDE DEF R
    <3> QED
      BY <1>6, <1>7
  <2> QED
    BY <2>1, <2>2
<1> QED
  BY <1>8

\* A set with 0 and the successor of each of its numbers has them all.
LEMMA NatSet ==
  ASSUME NEW T, 0 \in T, \A n \in Nat : n \in T => n + 1 \in T
  PROVE  Nat \subseteq T
<1> SUFFICES ASSUME NEW x \in Nat, x \notin T PROVE FALSE
  OBVIOUS
<1>1. PICK m \in Nat \ T : \A n \in Nat \ T : m <= n
  BY LeastNat
<1>2. m # 0 /\ m - 1 \in Nat
  BY <1>1
<1>3. m - 1 \in T
  BY <1>1, <1>2
<1> QED
  BY <1>1, <1>2, <1>3

Record == [1 .. SectorSize -> Units]

\* f[i] is the concatenation of the first i elements of s, up to the n-th.
Joins(f, s, n) == f = [i \in 1 .. n |-> IF i = 1 THEN s[i] ELSE f[i - 1] \o s[i]]

Joined(s) == CHOOSE f : Joins(f, s, Len(s))

LEMMA FlattenIs == \A s : FlattenSeq(s) = IF Len(s) = 0 THEN s ELSE Joined(s)[Len(s)]
  BY DEF FlattenSeq, Joined, Joins

LEMMA JoinedIs ==
  ASSUME NEW s, NEW m \in Nat, Len(s) = m
  PROVE  Joins(Joined(s), s, m)
<1> DEFINE T == {n \in Nat : \E f : Joins(f, s, n)}
<1>1. 0 \in T
  <2> DEFINE f == [i \in 1 .. 0 |-> s]
  <2>1. Joins(f, s, 0)
    BY DEF Joins
  <2> HIDE DEF f
  <2> QED
    BY <2>1
<1>2. ASSUME NEW n \in Nat, n \in T PROVE n + 1 \in T
  <2>1. PICK g : Joins(g, s, n)
    BY <1>2
  <2> DEFINE f == [i \in 1 .. n + 1 |-> IF i = 1 THEN s[i] ELSE g[i - 1] \o s[i]]
  <2>2. ASSUME NEW i \in 1 .. n PROVE f[i] = g[i]
    <3>1. g[i] = IF i = 1 THEN s[i] ELSE g[i - 1] \o s[i]
      BY <2>1 DEF Joins
    <3> QED
      BY <3>1
  <2>3. ASSUME NEW i \in 1 .. n + 1
        PROVE  f[i] = IF i = 1 THEN s[i] ELSE f[i - 1] \o s[i]
    <3>1. i # 1 => i - 1 \in 1 .. n
      OBVIOUS
    <3>2. i # 1 => f[i - 1] = g[i - 1]
      BY <2>2, <3>1
    <3>3. f[i] = IF i = 1 THEN s[i] ELSE g[i - 1] \o s[i]
      OBVIOUS
    <3> QED
      BY <3>2, <3>3
  <2>4. f = [i \in 1 .. n + 1 |-> f[i]]
    OBVIOUS
  <2> HIDE DEF f
  <2>5. Joins(f, s, n + 1)
    BY <2>3, <2>4, Zenon DEF Joins
  <2> QED
    BY <2>5
<1>3. m \in T
  <2> HIDE DEF T
  <2> QED
    BY <1>1, <1>2, NatSet
<1>4. \E f : Joins(f, s, m)
  BY <1>3
<1> QED
  BY <1>4 DEF Joined

LEMMA FlattenAppend ==
  ASSUME NEW s \in Seq(Record), NEW x \in Record
  PROVE  FlattenSeq(Append(s, x)) = FlattenSeq(s) \o x
<1> DEFINE t == Append(s, x)
           n == Len(s)
           f == Joined(s)
           g == Joined(t)
<1>1. n \in Nat /\ Len(t) = n + 1 /\ t[n + 1] = x /\ \A i \in 1 .. n : t[i] = s[i]
  OBVIOUS
<1>2. x \in Seq(Units)
  BY FunctionLen, BiosAssumption DEF Record
<1> HIDE DEF t
<1>3. /\ FlattenSeq(t) = g[n + 1]
      /\ FlattenSeq(s) = IF n = 0 THEN s ELSE f[n]
  BY <1>1, FlattenIs
<1>4. Joins(f, s, n)
  BY <1>1, JoinedIs
<1>5. Joins(g, t, n + 1)
  <2>1. n + 1 \in Nat
    BY <1>1
  <2> QED
    BY <1>1, <2>1, JoinedIs
<1> HIDE DEF f, g
<1>6. ASSUME NEW i \in 1 .. n PROVE f[i] = IF i = 1 THEN s[i] ELSE f[i - 1] \o s[i]
  BY <1>4 DEF Joins
<1>7. ASSUME NEW i \in 1 .. n + 1 PROVE g[i] = IF i = 1 THEN t[i] ELSE g[i - 1] \o t[i]
  BY <1>5 DEF Joins
<1> HIDE DEF n
<1>8. CASE n = 0
  <2>1. s = <<>>
    BY <1>8 DEF n
  <2>2. g[1] = x
    BY <1>1, <1>7, <1>8
  <2>3. <<>> \o x = x
    BY <1>2
  <2> QED
    BY <1>3, <1>8, <2>1, <2>2, <2>3 DEF t
<1>9. CASE n # 0
  <2> DEFINE T == {k \in Nat : k + 1 \in 1 .. n => g[k + 1] = f[k + 1]}
  <2>1. 0 \in T
    <3>1. 1 \in 1 .. n /\ 1 \in 1 .. n + 1
      BY <1>1, <1>9
    <3> QED
      BY <1>1, <1>6, <1>7, <3>1
  <2>2. ASSUME NEW k \in Nat, k \in T PROVE k + 1 \in T
    <3> SUFFICES ASSUME (k + 1) + 1 \in 1 .. n PROVE g[(k + 1) + 1] = f[(k + 1) + 1]
      OBVIOUS
    <3>1. k + 1 \in 1 .. n /\ (k + 1) + 1 # 1 /\ ((k + 1) + 1) - 1 = k + 1
          /\ (k + 1) + 1 \in 1 .. n + 1
      BY <1>1
    <3>2. g[k + 1] = f[k + 1]
      BY <2>2, <3>1
    <3>3. g[(k + 1) + 1] = g[k + 1] \o t[(k + 1) + 1]
      BY <1>7, <3>1
    <3>4. f[(k + 1) + 1] = f[k + 1] \o s[(k + 1) + 1]
      BY <1>6, <3>1
    <3> QED
      BY <1>1, <3>2, <3>3, <3>4
  <2>3. n - 1 \in Nat
    BY <1>1, <1>9
  <2>4. n - 1 \in T
    <3> HIDE DEF T
    <3> QED
      BY <2>1, <2>2, <2>3, NatSet
  <2>5. g[n] = f[n]
    <3>1. (n - 1) + 1 = n /\ n \in 1 .. n
      BY <1>1, <1>9
    <3> QED
      BY <2>4, <3>1
  <2>6. g[n + 1] = g[n] \o t[n + 1]
    <3>1. n + 1 \in 1 .. n + 1 /\ n + 1 # 1 /\ (n + 1) - 1 = n
      BY <1>1, <1>9
    <3> QED
      BY <1>7, <3>1
  <2> QED
    BY <1>1, <1>3, <1>9, <2>5, <2>6 DEF t
<1> QED
  BY <1>8, <1>9

-----------------------------------------------------------------------------
(* A file as far as its records go.                                        *)

\* The first n units of a file that is filled up with ^Z.
UpTo(s, n) == [i \in 1 .. n |-> IF i <= Len(s) THEN s[i] ELSE CtrlZ]

LEMMA UpToIs ==
  ASSUME NEW s \in Seq(Units), NEW n \in Nat
  PROVE  /\ UpTo(s, n) \in Seq(Units) /\ Len(UpTo(s, n)) = n
         /\ \A i \in 1 .. n : UpTo(s, n)[i] = IF i <= Len(s) THEN s[i] ELSE CtrlZ
<1>1. CtrlZ \in Units
  BY DEF CtrlZ, Units
<1>2. \A i \in 1 .. n : i <= Len(s) => s[i] \in Units
  OBVIOUS
<1>3. UpTo(s, n) \in [1 .. n -> Units]
  BY <1>1, <1>2 DEF UpTo
<1>4. UpTo(s, n) \in Seq(Units) /\ Len(UpTo(s, n)) = n
  BY <1>3, FunctionLen
<1> QED
  BY <1>4 DEF UpTo

LEMMA UpToWhole ==
  ASSUME NEW s \in Seq(Units)
  PROVE  UpTo(s, Len(s)) = s /\ UpTo(s, 0) = <<>>
<1> DEFINE n == Len(s)
           t == UpTo(s, n)
           e == UpTo(s, 0)
<1>1. n \in Nat /\ 0 \in Nat
  OBVIOUS
<1>2. t \in Seq(Units) /\ Len(t) = n /\ \A i \in 1 .. n : t[i] = IF i <= Len(s) THEN s[i] ELSE CtrlZ
  BY <1>1, UpToIs
<1>3. e \in Seq(Units) /\ Len(e) = 0
  BY <1>1, UpToIs
<1> HIDE DEF t, e
<1>4. t = s
  BY <1>2, SeqsEqual
<1>5. e = <<>>
  BY <1>3
<1> QED
  BY <1>4, <1>5 DEF t, e

\* The record that rdunix makes of the units at a place of the file.
LEMMA UpToGrows ==
  ASSUME NEW s \in Seq(Units), NEW n \in Nat, NEW r \in Record,
         \A i \in 1 .. SectorSize : r[i] = IF n + i <= Len(s) THEN s[n + i] ELSE CtrlZ
  PROVE  UpTo(s, n) \o r = UpTo(s, n + SectorSize)
<1> DEFINE t == UpTo(s, n)
           u == UpTo(s, n + SectorSize)
           v == t \o r
<1>1. SectorSize \in Nat /\ n + SectorSize \in Nat
  BY BiosAssumption
<1>2. r \in Seq(Units) /\ Len(r) = SectorSize
  BY <1>1, FunctionLen DEF Record
<1>3. t \in Seq(Units) /\ Len(t) = n /\ \A i \in 1 .. n : t[i] = IF i <= Len(s) THEN s[i] ELSE CtrlZ
  BY UpToIs
<1>4. /\ u \in Seq(Units) /\ Len(u) = n + SectorSize
      /\ \A i \in 1 .. n + SectorSize : u[i] = IF i <= Len(s) THEN s[i] ELSE CtrlZ
  BY <1>1, UpToIs
<1> HIDE DEF t, u
<1>5. /\ v \in Seq(Units) /\ Len(v) = n + SectorSize
      /\ \A i \in 1 .. n + SectorSize : v[i] = IF i <= n THEN t[i] ELSE r[i - n]
  BY <1>2, <1>3, ConcatProperties, ZenonT(60)
<1> HIDE DEF v
<1>6. ASSUME NEW i \in 1 .. n + SectorSize PROVE v[i] = u[i]
  <2>1. CASE i <= n
    BY <1>3, <1>4, <1>5, <2>1
  <2>2. CASE ~(i <= n)
    <3>1. i - n \in 1 .. SectorSize /\ n + (i - n) = i
      BY <1>1, <2>2
    <3>2. v[i] = r[i - n]
      BY <1>5, <2>2
    <3>3. r[i - n] = IF n + (i - n) <= Len(s) THEN s[n + (i - n)] ELSE CtrlZ
      BY <3>1
    <3>4. r[i - n] = IF i <= Len(s) THEN s[i] ELSE CtrlZ
      BY <3>1, <3>3
    <3> QED
      BY <1>4, <3>2, <3>4
  <2> QED
    BY <2>1, <2>2
<1>7. v = u
  BY <1>4, <1>5, <1>6, SeqsEqual
<1> QED
  BY <1>7 DEF v, t, u

\* At the first block behind the end a file is read whole.
LEMMA PaddedIs ==
  ASSUME NEW s \in Seq(Units), NEW n \in Nat, IsWhole(n), Len(s) <= n, n < Len(s) + SectorSize
  PROVE  Padded(s) = UpTo(s, n)
<1> USE BiosAssumption
<1> DEFINE l == Len(s)
           more == (SectorSize - (l % SectorSize)) % SectorSize
           t == UpTo(s, n)
<1>1. PICK k \in Nat : n = k * SectorSize
  BY DEF IsWhole
<1>2. more = n - l
  <2> DEFINE r == n - l
             m == SectorSize
  <2>1. l \in Nat /\ r \in 0 .. m - 1 /\ m \in Nat \ {0}
    OBVIOUS
  <2>2. n = m * k
    BY <1>1
  <2>3. CASE r = 0
    <3>1. l = m * k + 0 /\ m = m * 1 + 0 /\ 0 \in 0 .. m - 1
      BY <2>1, <2>2, <2>3
    <3>2. (m * k + 0) % m = 0 /\ (m * 1 + 0) % m = 0
      BY <2>1, <3>1, QuotientOf, ZenonT(60)
    <3>3. l % m = 0 /\ m % m = 0
      BY <3>1, <3>2
    <3>4. m - 0 = m
      BY <2>1
    <3> QED
      BY <2>3, <3>3, <3>4
  <2>4. CASE r # 0
    <3>1. k - 1 \in Nat
      <4>1. k # 0
        BY <2>1, <2>2, <2>4
      <4> QED
        BY <4>1
    <3>2. m * k = m * (k - 1) + m /\ m * (k - 1) \in Nat
      BY <2>1, <3>1
    <3>3. l = m * (k - 1) + (m - r) /\ m - r \in 0 .. m - 1
      BY <2>1, <2>2, <2>4, <3>2
    <3>4. (m * (k - 1) + (m - r)) % m = m - r
      BY <2>1, <3>1, <3>3, QuotientOf
    <3>5. l % m = m - r
      BY <3>3, <3>4
    <3>6. (m * 0 + r) % m = r
      <4>1. 0 \in Nat
        OBVIOUS
      <4> QED
        BY <2>1, <4>1, QuotientOf
    <3>7. m * 0 + r = r /\ m - (m - r) = r
      BY <2>1
    <3> QED
      BY <3>5, <3>6, <3>7
  <2> QED
    BY <2>3, <2>4
<1> HIDE DEF more
<1>3. l \in Nat /\ more \in Nat /\ l + more = n
  BY <1>2
<1> DEFINE z == [i \in 1 .. more |-> CtrlZ]
           v == s \o z
<1>4. z \in [1 .. more -> Units] /\ \A i \in 1 .. more : z[i] = CtrlZ
  BY DEF CtrlZ, Units
<1> HIDE DEF z
<1>5. z \in Seq(Units) /\ Len(z) = more
  BY <1>3, <1>4, FunctionLen
<1>6. /\ v \in Seq(Units) /\ Len(v) = n
      /\ \A i \in 1 .. n : v[i] = IF i <= l THEN s[i] ELSE z[i - l]
  <2>1. /\ v \in Seq(Units) /\ Len(v) = l + Len(z)
        /\ \A i \in 1 .. l + Len(z) : v[i] = IF i <= l THEN s[i] ELSE z[i - l]
    BY <1>5, ConcatProperties
  <2> HIDE DEF v
  <2> QED
    BY <1>3, <1>5, <2>1
<1>7. t \in Seq(Units) /\ Len(t) = n /\ \A i \in 1 .. n : t[i] = IF i <= l THEN s[i] ELSE CtrlZ
  BY UpToIs
<1> HIDE DEF v, t
<1>8. ASSUME NEW i \in 1 .. n PROVE v[i] = t[i]
  <2>1. ~(i <= l) => i - l \in 1 .. more
    BY <1>3
  <2>2. ~(i <= l) => z[i - l] = CtrlZ
    BY <1>4, <2>1
  <2> QED
    BY <1>6, <1>7, <2>2
<1>9. v = t
  BY <1>6, <1>7, <1>8, SeqsEqual
<1>10. Padded(s) = v
  BY DEF Padded, v, z, more
<1> QED
  BY <1>9, <1>10 DEF t

LEMMA PaddedWhole ==
  ASSUME NEW s \in Seq(Units), IsWhole(Len(s))
  PROVE  Padded(s) = s
<1>1. Len(s) \in Nat /\ Len(s) <= Len(s) /\ Len(s) < Len(s) + SectorSize
  BY BiosAssumption
<1> QED
  BY <1>1, PaddedIs, UpToWhole

\* A write at the end of a file.
LEMMA StoredAtEnd ==
  ASSUME NEW s \in Seq(Units), NEW data \in Seq(Units)
  PROVE  Stored(s, Len(s), data) = s \o data
<1> DEFINE l == Len(s)
           n == Len(data)
           t == Stored(s, l, data)
           v == s \o data
<1>1. l \in Nat /\ n \in Nat /\ l \in 0 .. Len(s)
  OBVIOUS
<1>2. /\ t \in Seq(Units)
      /\ Len(t) = IF n > 0 /\ l + n > l THEN l + n ELSE l
      /\ \A i \in 1 .. l : i \notin l + 1 .. l + n => t[i] = s[i]
      /\ \A i \in 1 .. n : t[l + i] = data[i]
  BY <1>1, StoredIs
<1>3. /\ v \in Seq(Units) /\ Len(v) = l + n
      /\ \A i \in 1 .. l + n : v[i] = IF i <= l THEN s[i] ELSE data[i - l]
  BY ConcatProperties
<1> HIDE DEF t, v
<1>4. Len(t) = l + n
  BY <1>1, <1>2
<1>5. ASSUME NEW i \in 1 .. l + n PROVE v[i] = t[i]
  <2>1. CASE i <= l
    BY <1>1, <1>2, <1>3, <2>1
  <2>2. CASE ~(i <= l)
    <3>1. i - l \in 1 .. n /\ l + (i - l) = i
      BY <1>1, <2>2
    <3>2. t[l + (i - l)] = data[i - l]
      BY <1>2, <3>1
    <3> QED
      BY <1>3, <2>2, <3>1, <3>2
  <2> QED
    BY <2>1, <2>2
<1>6. v = t
  BY <1>2, <1>3, <1>4, <1>5, SeqsEqual
<1> QED
  BY <1>6 DEF t, v

-----------------------------------------------------------------------------
(* What the functions of the BIOS do to the file of an FCB: Named, the FCB *)
(* is open at it; Block, as far as it was read or written; Holding, what   *)
(* is in it with what stdio holds.                                         *)

Named == Open(fcb.fd) /\ Name = fcb.name

LEMMA NamedIs ==
  ASSUME UnixOK, Named
  PROVE  /\ fcb.name \in DOMAIN unix /\ unix[fcb.name] \in Seq(Units) /\ Unsaved \in Held
         /\ Holding = Behind(unix[fcb.name], Unsaved)
         /\ Holding \in Seq(Units) /\ Len(Holding) \in Nat
         /\ Block \in Nat /\ IsWhole(Block)
<1>1. Open(fcb.fd) /\ Name = fcb.name
  BY DEF Named
<1>2. /\ Name \in DOMAIN unix /\ Unsaved \in Held /\ unix[Name] \in Seq(Units)
      /\ Holding \in Seq(Units) /\ Block \in Nat /\ fcb.blk \in Nat
  BY <1>1, OpenIs
<1>3. IsWhole(Block)
  BY <1>2 DEF Block, IsWhole
<1>4. Holding = Behind(unix[fcb.name], Unsaved)
  BY <1>1 DEF Holding
<1>5. Len(Holding) \in Nat
  BY <1>2
<1> QED
  BY <1>1, <1>2, <1>3, <1>4, <1>5

LEMMA FileStays ==
  ASSUME UNCHANGED <<unix, fds, fcb>>
  PROVE  /\ (Named' <=> Named) /\ (PointersFit' <=> PointersFit)
         /\ Holding' = Holding /\ Block' = Block /\ Unsaved' = Unsaved
<1>1. Named' <=> Named
  BY DEF Named, Open, Name
<1>2. PointersFit' <=> PointersFit
  BY DEF PointersFit
<1>3. Block' = Block
  BY DEF Block
<1>4. Unsaved' = Unsaved
  BY DEF Unsaved
<1>5. Holding' = Holding
  BY DEF Holding, Unsaved, Name, Behind, Stored
<1> QED
  BY <1>1, <1>2, <1>3, <1>4, <1>5

\* A file that was moved along holds what it held before, with what is held anew.
LEMMA MovedIs ==
  ASSUME UnixOK, Named, NEW s \in Seq(Units), NEW h \in Held,
         unix' = [unix EXCEPT ![Name] = s], Holds(h),
         fcb' = fcb \/ \E n \in Nat : fcb' = NextBlock(fcb, n)
  PROVE  /\ Named' /\ Unsaved' = h /\ unix'[fcb.name] = s
         /\ Holding' = Behind(s, h)
<1>1. Open(fcb.fd) /\ Name = fcb.name
  BY DEF Named
<1>2. /\ DOMAIN fds' = DOMAIN fds /\ fcb'.fd = fcb.fd
      /\ fds'[fcb.fd] = [name |-> Name, held |-> h] /\ unix'[Name] = s /\ fcb'.name = fcb.name
  BY <1>1, FileMoves
<1>3. Name' = Name /\ Unsaved' = h
  BY <1>2 DEF Name, Unsaved
<1>4. Open(fcb.fd)'
  BY <1>1, <1>2 DEF Open
<1>5. Named'
  BY <1>1, <1>2, <1>3, <1>4 DEF Named
<1>6. unix'[Name'] = s
  BY <1>2, <1>3
<1>7. Holding' = Behind(s, h)
  BY <1>3, <1>6 DEF Holding, Behind, Stored
<1> QED
  BY <1>1, <1>2, <1>3, <1>5, <1>7

LEMMA OpensNames ==
  ASSUME UnixOK, openunix \/ createunix, a' = 0, PointersFit'
  PROVE  /\ PointersFit /\ Named' /\ fcb'.blk = 0 /\ Unsaved' = Nothing
         /\ createunix => Holding' = <<>>
<1>0. fcb \in Fcbs /\ fcb.name \in UnixNames /\ DOMAIN unix \subseteq UnixNames
      /\ unix \in [DOMAIN unix -> Seq(Units)]
  BY FcbFields DEF UnixOK
<1>1. PICK files : /\ Opens(files) /\ DOMAIN unix \subseteq DOMAIN files
                   /\ DOMAIN files \subseteq UnixNames /\ files \in [DOMAIN files -> Seq(Units)]
                   /\ fcb.name \in DOMAIN files /\ (createunix => files[fcb.name] = <<>>)
  <2>1. CASE openunix /\ ~createunix
    <3>1. fcb.name \in DOMAIN unix /\ Opens(unix)
      BY <2>1 DEF openunix, Refuses
    <3> QED
      BY <1>0, <2>1, <3>1
  <2>2. CASE createunix
    <3> DEFINE files == [n \in DOMAIN unix \union {fcb.name} |->
                           IF n = fcb.name THEN <<>> ELSE unix[n]]
    <3>1. Opens(files)
      BY <2>2 DEF createunix, Refuses
    <3>2. /\ files[fcb.name] = <<>> /\ DOMAIN files = DOMAIN unix \union {fcb.name}
          /\ <<>> \in Seq(Units)
      OBVIOUS
    <3>3. files \in [DOMAIN unix \union {fcb.name} -> Seq(Units)]
      BY <1>0, <3>2
    <3> HIDE DEF files
    <3> QED
      BY <1>0, <3>1, <3>2, <3>3
  <2> QED
    BY <2>1, <2>2
<1>2. /\ unix' = files /\ fcb' = FcbWith(fcb.name, fcb'.fd, 0, 0) /\ fcb' \in Fcbs
      /\ \E p \in Addresses \ DOMAIN fds :
           /\ DOMAIN fds' = DOMAIN fds \union {p} /\ fcb'.fd = Restored(p)
           /\ fds'[p] = [name |-> fcb.name, held |-> Nothing]
  BY <1>1, OpensKeeps
<1>3. PICK p \in Addresses \ DOMAIN fds :
           /\ DOMAIN fds' = DOMAIN fds \union {p} /\ fcb'.fd = Restored(p)
           /\ fds'[p] = [name |-> fcb.name, held |-> Nothing]
  BY <1>2
<1>4. Restored(p) = p /\ PointersFit
  <2>1. \A q \in DOMAIN fds' : Restored(q) = q
    BY DEF PointersFit
  <2> QED
    BY <1>3, <2>1 DEF PointersFit
<1>5. fcb'.fd = p /\ fcb'.name = fcb.name /\ fcb'.blk = 0
  <2>1. fcb'.fd \in Nat
    BY <1>2, FcbFields
  <2>2. fcb'.name = fcb.name /\ fcb'.blk = 0
    <3>1. ASSUME NEW m, NEW g, g = FcbWith(fcb.name, m, 0, 0)
          PROVE  g.name = fcb.name /\ g.blk = 0
      BY <3>1 DEF FcbWith
    <3> QED
      BY <1>2, <2>1, <3>1, Zenon
  <2> QED
    BY <1>3, <1>4, <2>2
<1>6. Name' = fcb.name /\ Unsaved' = Nothing
  BY <1>3, <1>5 DEF Name, Unsaved
<1>7. Open(fcb.fd)'
  BY <1>3, <1>5 DEF Open
<1>8. Named'
  BY <1>5, <1>6, <1>7 DEF Named
<1>9. createunix => Holding' = <<>>
  <2> SUFFICES ASSUME createunix PROVE Holding' = <<>>
    OBVIOUS
  <2>1. unix'[Name'] = <<>>
    BY <1>1, <1>2, <1>6
  <2>2. Holding' = Behind(<<>>, Nothing)
    BY <1>6, <2>1 DEF Holding, Behind, Stored
  <2>3. <<>> \in Seq(Units) /\ Nothing \in Held
    BY HeldIs
  <2> QED
    BY <2>2, <2>3, BehindIs
<1> QED
  BY <1>4, <1>5, <1>6, <1>8, <1>9

LEMMA NextBlockIs ==
  ASSUME UnixOK, NEW n \in Nat, fcb' = NextBlock(fcb, n)
  PROVE  Block' = Block + SectorSize
<1>1. fcb \in Fcbs
  BY DEF UnixOK
<1>2. fcb' = FcbWith(fcb.name, fcb.fd, fcb.blk + 1, n)
  BY <1>1, FcbIs
<1>3. fcb'.blk = fcb.blk + 1 /\ fcb.blk \in Nat
  BY <1>1, <1>2, FcbFields DEF FcbWith
<1>4. (fcb.blk + 1) * SectorSize = fcb.blk * SectorSize + SectorSize
  BY <1>3, BiosAssumption
<1> QED
  BY <1>3, <1>4 DEF Block

\* rdunix reads the next record, or finds that there is none.
LEMMA ReadsRecord ==
  ASSUME UnixOK, MemOK, SelectionOK, Named, Unsaved = Nothing, rdunix
  PROVE  /\ Named' /\ Unsaved' = Nothing /\ Holding' = Holding /\ UNCHANGED dma
         /\ IF Block < Len(Holding)
              THEN /\ a' = 0 /\ Block' = Block + SectorSize
                   /\ mem'[dma] \in Record
                   /\ \A i \in 1 .. SectorSize :
                        mem'[dma][i] = IF Block + i <= Len(Holding) THEN Holding[Block + i] ELSE CtrlZ
              ELSE a' = 255 /\ Block' = Block
<1> DEFINE record == Got(Holding, Block)
           filler == [i \in 1 .. SectorSize |-> CtrlZ]
<1>1. /\ Holding \in Seq(Units) /\ Len(Holding) \in Nat /\ Block \in Nat
      /\ SectorSize \in Nat \ {0} /\ Nothing \in Held
  BY NamedIs, HeldIs, BiosAssumption
<1>2. RecordRead
  <2>1. Len(Unsaved.data) = 0
    BY HeldIs
  <2>2. ~BlockFails
    BY <2>1 DEF BlockFails, Reach, Failing
  <2> QED
    BY <2>2 DEF rdunix
<1>3. /\ unix' = [unix EXCEPT ![Name] = Holding] /\ Holds(Nothing)
      /\ IF record = <<>> THEN a' = 255 /\ UNCHANGED <<mem, fcb>>
         ELSE /\ mem' = [mem EXCEPT ![dma] = Over(record, filler)]
              /\ fcb' = NextBlock(fcb, Len(record)) /\ a' = 0
  BY <1>2 DEF RecordRead
<1>4. UNCHANGED dma
  BY DEF rdunix, selection
<1>5. /\ record \in Seq(Units) /\ Len(record) \in Nat
      /\ Len(record) = IF Block + SectorSize <= Len(Holding) THEN SectorSize
                       ELSE IF Block <= Len(Holding) THEN Len(Holding) - Block ELSE 0
      /\ \A i \in 1 .. Len(record) : record[i] = Holding[Block + i]
  BY <1>1, GotIs
<1>6. filler \in [1 .. SectorSize -> Units]
  BY DEF CtrlZ, Units
<1>7. \A i \in 1 .. SectorSize :
        Over(record, filler)[i] = IF i \in DOMAIN record THEN record[i] ELSE CtrlZ
  BY DEF Over
<1>8. DOMAIN record = 1 .. Len(record)
  BY <1>5
<1> HIDE DEF record, filler
<1>9. fcb' = fcb \/ \E n \in Nat : fcb' = NextBlock(fcb, n)
  BY <1>3, <1>5
<1>10. Named' /\ Unsaved' = Nothing /\ Holding' = Behind(Holding, Nothing)
  BY <1>1, <1>3, <1>9, MovedIs
<1>11. Holding' = Holding
  BY <1>1, <1>10, BehindIs
<1>12. CASE Block < Len(Holding)
  <2>1. Len(record) # 0
    BY <1>1, <1>5, <1>12
  <2>2. record # <<>>
    BY <2>1
  <2>3. /\ mem' = [mem EXCEPT ![dma] = Over(record, filler)]
        /\ fcb' = NextBlock(fcb, Len(record)) /\ a' = 0
    BY <1>3, <2>2
  <2>4. Block' = Block + SectorSize
    BY <1>5, <2>3, NextBlockIs
  <2>5. mem'[dma] = Over(record, filler)
    BY <2>3 DEF MemOK, SelectionOK
  <2>6. Over(record, filler) \in Record
    BY <1>5, <1>6, OverIs DEF Record
  <2>7. ASSUME NEW i \in 1 .. SectorSize
        PROVE  Over(record, filler)[i]
                 = IF Block + i <= Len(Holding) THEN Holding[Block + i] ELSE CtrlZ
    <3>1. i \in 1 .. Len(record) <=> Block + i <= Len(Holding)
      BY <1>1, <1>5, <1>12
    <3> QED
      BY <1>5, <1>7, <1>8, <3>1
  <2> QED
    BY <1>4, <1>10, <1>11, <1>12, <2>3, <2>4, <2>5, <2>6, <2>7
<1>13. CASE ~(Block < Len(Holding))
  <2>1. Len(record) = 0
    BY <1>1, <1>5, <1>13
  <2>2. record = <<>>
    BY <1>5, <2>1
  <2>3. a' = 255 /\ fcb' = fcb
    BY <1>3, <2>2
  <2>4. Block' = Block
    BY <2>3 DEF Block
  <2> QED
    BY <1>4, <1>10, <1>11, <1>13, <2>3, <2>4
<1> QED
  BY <1>12, <1>13

\* wrunix at the end of the file appends the record.
LEMMA WritesRecord ==
  ASSUME UnixOK, MemOK, SelectionOK, Named, wrunix, Len(Holding) = Block
  PROVE  /\ Named' /\ UNCHANGED <<dma, mem>>
         /\ a' = 0 => Holding' = Holding \o mem[dma] /\ Len(Holding') = Block'
<1>1. UNCHANGED dma
  BY DEF wrunix, selection
<1>2. /\ fcb.name \in DOMAIN unix /\ unix[fcb.name] \in Seq(Units) /\ Unsaved \in Held
      /\ Holding \in Seq(Units) /\ Len(Holding) \in Nat /\ Block \in Nat
      /\ Nothing \in Held /\ Name = fcb.name /\ unix[Name] \in Seq(Units)
  BY NamedIs, HeldIs DEF Named
<1>3. mem[dma] \in [1 .. SectorSize -> Units] /\ mem[dma] \in Seq(Units) /\ Len(mem[dma]) = SectorSize
      /\ SectorSize \in Nat
  BY DmaIs, BiosAssumption
<1>4. CASE BlockFails
  <2>1. PICK n \in Reach(Unsaved) : unix' = [unix EXCEPT ![Name] = Put(@, Unsaved, n)]
    BY <1>4 DEF BlockFails
  <2> DEFINE s == Put(unix[Name], Unsaved, n)
  <2>2. s \in Seq(Units) /\ unix' = [unix EXCEPT ![Name] = s]
    BY <1>2, <2>1, PutIs
  <2> HIDE DEF s
  <2>3. Holds(Nothing) /\ fcb' = fcb /\ mem' = mem /\ a' = 255
    BY <1>4 DEF BlockFails
  <2>4. Named'
    BY <1>2, <2>2, <2>3, MovedIs
  <2> QED
    BY <1>1, <2>3, <2>4
<1>5. CASE RecordFails
  <2>1. PICK part \in Torn(mem[dma]) : unix' = [unix EXCEPT ![Name] = Stored(Holding, Block, part)]
    BY <1>5 DEF RecordFails
  <2> DEFINE s == Stored(Holding, Block, part)
  <2>2. s \in Seq(Units) /\ unix' = [unix EXCEPT ![Name] = s]
    BY <1>2, <1>3, <2>1, TornIs, StoredIs
  <2> HIDE DEF s
  <2>3. Holds(Nothing) /\ fcb' = fcb /\ mem' = mem /\ a' = 255
    BY <1>5 DEF RecordFails
  <2>4. Named'
    BY <1>2, <2>2, <2>3, MovedIs
  <2> QED
    BY <1>1, <2>3, <2>4
<1>6. CASE RecordWritten
  <2> DEFINE h == [at |-> Block, data |-> mem[dma]]
  <2>1. h \in Held /\ h.at = Block /\ h.data = mem[dma]
    BY <1>2, <1>3, HeldIs
  <2>2. unix' = [unix EXCEPT ![Name] = Holding] /\ Holds(h)
        /\ fcb' = NextBlock(fcb, SectorSize) /\ mem' = mem
    BY <1>6 DEF RecordWritten
  <2> HIDE DEF h
  <2>3. Named' /\ Holding' = Behind(Holding, h)
    BY <1>2, <1>3, <2>1, <2>2, MovedIs
  <2>4. Block' = Block + SectorSize
    BY <1>3, <2>2, NextBlockIs
  <2>5. Behind(Holding, h) = Stored(Holding, Len(Holding), mem[dma])
    BY <2>1 DEF Behind
  <2>6. Holding' = Holding \o mem[dma]
    BY <1>2, <1>3, <2>3, <2>5, StoredAtEnd
  <2>7. Len(Holding \o mem[dma]) = Len(Holding) + SectorSize
    <3>1. \A s \in Seq(Units), t \in Seq(Units) : Len(s \o t) = Len(s) + Len(t)
      OBVIOUS
    <3> QED
      BY <1>2, <1>3, <3>1, Zenon
  <2> QED
    BY <1>1, <2>2, <2>3, <2>4, <2>6, <2>7
<1> QED
  BY <1>4, <1>5, <1>6 DEF wrunix

\* closeunix that reports no error has put all into the file.
LEMMA CloseSaves ==
  ASSUME UnixOK, Named, closeunix, a' = 0
  PROVE  unix'[fcb.name] = Holding
<1>1. PICK n \in Reach(Unsaved) :
        unix' = [unix EXCEPT ![Name] = Put(@, Unsaved, n)] /\ a' \in CloseAnswer(Unsaved, n)
  BY DEF closeunix
<1>2. Unsaved \in Held /\ fcb.name \in DOMAIN unix /\ Name = fcb.name
      /\ Holding = Behind(unix[fcb.name], Unsaved) /\ unix[fcb.name] \in Seq(Units)
  BY NamedIs DEF Named
<1>3. n \in 0 .. Len(Unsaved.data) /\ Unsaved.data \in Seq(Units) /\ Len(Unsaved.data) \in Nat
  BY <1>1, <1>2, PutIs, HeldIs
<1>4. n = Len(Unsaved.data)
  BY <1>1, <1>3 DEF CloseAnswer, Failing
<1>5. SubSeq(Unsaved.data, 1, n) = Unsaved.data
  <2> DEFINE d == Unsaved.data
             t == SubSeq(d, 1, n)
  <2>1. t \in Seq(Units) /\ Len(t) = n /\ \A i \in 1 .. n : t[i] = d[i]
    BY <1>3, PrefixIs
  <2>2. d \in Seq(Units) /\ Len(d) = n
    BY <1>3, <1>4
  <2> HIDE DEF d, t
  <2>3. t = d
    BY <2>1, <2>2, SeqsEqual
  <2> QED
    BY <2>3 DEF d, t
<1>6. Put(unix[fcb.name], Unsaved, n) = Behind(unix[fcb.name], Unsaved)
  BY <1>5 DEF Put, Behind
<1> QED
  BY <1>1, <1>2, <1>6

-----------------------------------------------------------------------------
(* GETUNIX and PUTUNIX, from the call that opens the file to the one that  *)
(* closes it.  Between two calls what GETUNIX has copied is the beginning  *)
(* of the file up to its block, filled up with ^Z, and what PUTUNIX has    *)
(* copied is the file; a call that is served is one record ahead.          *)

GetsFrom(s, k) == Len(s) = k + 1 /\ s[k].fn = "rdunix" /\ s[k + 1].fn = "closeunix"

PutsFrom(s, k) ==
  /\ k <= Len(s) /\ s[Len(s)].fn = "closeunix"
  /\ \A i \in k .. Len(s) - 1 : s[i].fn = "wrunix"

NoClose == \A i \in 1 .. Len(todo) : todo[i].fn # "closeunix"

Fresh   == Named /\ Unsaved = Nothing /\ fcb.blk = 0 /\ copied = <<>>
Granted == Served /\ a = 0
Copy    == FlattenSeq(copied)

Opening ==
  /\ copied = <<>> /\ Len(todo) > 1 /\ todo[2].fn = "setdma"
  /\ \/ todo[1].fn = "openunix" /\ GetsFrom(todo, 3) /\ (Granted => Fresh)
     \/ todo[1].fn = "createunix" /\ PutsFrom(todo, 3) /\ (Granted => Fresh /\ Holding = <<>>)

Setting ==
  /\ todo[1].fn = "setdma" /\ Fresh
  /\ GetsFrom(todo, 2) \/ (PutsFrom(todo, 2) /\ Holding = <<>>)

Getting ==
  /\ GetsFrom(todo, 1) /\ Named /\ Unsaved = Nothing /\ Block < Len(Holding) + SectorSize
  /\ Granted => mem[dma] \in Record /\ Copy \o mem[dma] = UpTo(Holding, Block)
  /\ ~Granted => Copy = UpTo(Holding, Block)
  /\ Served /\ a # 0 => Copy = Padded(Holding)

Putting ==
  /\ PutsFrom(todo, 1) /\ Len(todo) > 1 /\ Named
  /\ pc = "ret" /\ syscall => mem[dma] = todo[1].arg
  /\ ~Served => Len(Holding) = Block /\ Holding = Copy
  /\ Granted => Len(Holding) = Block /\ Holding = Copy \o todo[1].arg

Closing ==
  /\ Len(todo) = 1 /\ todo[1].fn = "closeunix"
  /\ ~Served => Named /\ Copy = Padded(Holding)

OnCopy == NoClose \/ Opening \/ Setting \/ Getting \/ Putting \/ Closing

Copying == copied \in Seq(Record) /\ (breaks = 0 /\ PointersFit => OnCopy)

LEMMA CopyStays ==
  ASSUME OnCopy, UNCHANGED <<todo, pc, copied, syscall, a, mem, dma, unix, fds, fcb>>
  PROVE  OnCopy'
<1>0. (Named' <=> Named) /\ Holding' = Holding /\ Block' = Block /\ Unsaved' = Unsaved
  BY FileStays
<1>1. (Named' <=> Named) /\ Holding' = Holding /\ Block' = Block /\ Copy' = Copy
      /\ (Served' <=> Served) /\ (Granted' <=> Granted) /\ (Fresh' <=> Fresh)
      /\ (Unsaved' = Nothing <=> Unsaved = Nothing) /\ UNCHANGED <<todo, pc, copied, syscall, a, mem, dma>>
  BY <1>0 DEF Copy, Served, Granted, Fresh
<1>2. NoClose => NoClose'
  BY DEF NoClose
<1>3. Opening => Opening'
  BY <1>1 DEF Opening, GetsFrom, PutsFrom
<1>4. Setting => Setting'
  BY <1>1 DEF Setting, GetsFrom, PutsFrom
<1>5. Getting => Getting'
  BY <1>1 DEF Getting, GetsFrom
<1>6. Putting => Putting'
  BY <1>1 DEF Putting, PutsFrom
<1>7. Closing => Closing'
  <2>1. Padded(Holding)' = Padded(Holding)
    BY <1>1 DEF Padded
  <2> QED
    BY <1>1, <2>1 DEF Closing
<1> QED
  BY <1>2, <1>3, <1>4, <1>5, <1>6, <1>7 DEF OnCopy

\* The stages differ in the next call.
LEMMA StageCalls ==
  ASSUME todo \in Seq(Calls)
  PROVE  /\ Opening => todo # <<>> /\ todo[1].fn \in OpenFns
         /\ Setting => todo # <<>> /\ todo[1].fn = "setdma"
         /\ Getting => todo # <<>> /\ todo[1].fn = "rdunix" /\ Len(todo) = 2
         /\ Putting => todo # <<>> /\ todo[1].fn = "wrunix"
         /\ Closing => todo # <<>> /\ todo[1].fn = "closeunix"
<1>1. Len(todo) \in Nat /\ (Len(todo) # 0 => todo # <<>>)
  OBVIOUS
<1>2. Opening => todo # <<>> /\ todo[1].fn \in OpenFns
  BY <1>1 DEF Opening, OpenFns
<1>3. Setting => todo # <<>> /\ todo[1].fn = "setdma"
  BY <1>1 DEF Setting, GetsFrom, PutsFrom
<1>4. Getting => todo # <<>> /\ todo[1].fn = "rdunix" /\ Len(todo) = 2
  <2>1. Getting => Len(todo) = 1 + 1 /\ todo[1].fn = "rdunix"
    BY DEF Getting, GetsFrom
  <2> QED
    BY <1>1, <2>1
<1>5. Putting => todo # <<>> /\ todo[1].fn = "wrunix"
  BY <1>1 DEF Putting, PutsFrom
<1>6. Closing => todo # <<>> /\ todo[1].fn = "closeunix"
  <2>1. Closing => Len(todo) = 1 /\ todo[1].fn = "closeunix"
    BY DEF Closing
  <2> QED
    BY <1>1, <2>1
<1> QED
  BY <1>2, <1>3, <1>4, <1>5, <1>6

LEMMA NothingCloses ==
  ASSUME todo' = <<>> \/ todo' = <<Call("warmboot", 0)>>
  PROVE  OnCopy'
<1>1. CASE todo' = <<>>
  <2>1. Len(todo') = 0
    BY <1>1
  <2> QED
    BY <2>1 DEF OnCopy, NoClose
<1>2. CASE todo' = <<Call("warmboot", 0)>>
  <2>1. Len(todo') = 1 /\ todo'[1].fn = "warmboot"
    BY <1>2, CallFn
  <2> QED
    BY <2>1 DEF OnCopy, NoClose
<1> QED
  BY <1>1, <1>2

LEMMA TailFrom ==
  ASSUME NEW s \in Seq(Calls), s # <<>>, NEW k \in Nat \ {0}
  PROVE  /\ GetsFrom(s, k + 1) => GetsFrom(Tail(s), k)
         /\ PutsFrom(s, k + 1) => PutsFrom(Tail(s), k)
<1> DEFINE t == Tail(s)
<1>1. Len(s) \in Nat /\ Len(t) = Len(s) - 1 /\ \A i \in 1 .. Len(s) - 1 : t[i] = s[i + 1]
  BY HeadIs
<1> HIDE DEF t
<1>2. GetsFrom(s, k + 1) => GetsFrom(t, k)
  BY <1>1 DEF GetsFrom
<1>3. ASSUME PutsFrom(s, k + 1) PROVE PutsFrom(t, k)
  <2>1. /\ k + 1 <= Len(s) /\ s[Len(s)].fn = "closeunix"
        /\ \A i \in k + 1 .. Len(s) - 1 : s[i].fn = "wrunix"
    BY <1>3 DEF PutsFrom
  <2>2. k <= Len(t) /\ Len(t) \in 1 .. Len(s) - 1 /\ Len(t) + 1 = Len(s)
    BY <1>1, <2>1
  <2>3. t[Len(t)].fn = "closeunix"
    BY <1>1, <2>1, <2>2
  <2>4. ASSUME NEW i \in k .. Len(t) - 1 PROVE t[i].fn = "wrunix"
    <3>1. i \in 1 .. Len(s) - 1 /\ i + 1 \in k + 1 .. Len(s) - 1
      BY <1>1
    <3> QED
      BY <1>1, <2>1, <3>1
  <2> QED
    BY <2>2, <2>3, <2>4 DEF PutsFrom
<1> QED
  BY <1>2, <1>3 DEF t

LEMMA CopyCalls ==
  ASSUME CpmInv, OnCopy, GuestCall, ~syscall
  PROVE  OnCopy'
<1>1. /\ todo # <<>> /\ todo \in Seq(Calls) /\ pc = "out" /\ pc' = "ret" /\ syscall' = TRUE
      /\ UNCHANGED <<todo, copied, a, unix, fds, dma>> /\ Arguments(Head(todo))
      /\ ~Served /\ ~Served' /\ ~Granted /\ ~Granted'
  BY DEF GuestCall, selection, CpmInv, ProgramOK, Served, Granted
<1>2. Head(todo) = todo[1] /\ todo[1] \in Calls
  BY <1>1, HeadIs
<1>3. Copy' = Copy
  BY <1>1 DEF Copy
<1>4. CASE NoClose
  BY <1>1, <1>4 DEF OnCopy, NoClose
<1>5. CASE Opening
  BY <1>1, <1>5 DEF OnCopy, Opening, GetsFrom, PutsFrom
<1>6. CASE Setting \/ Getting \/ Putting \/ Closing
  <2>1. todo[1].fn \notin OpenFns
    BY <1>1, <1>6, StageCalls DEF OpenFns
  <2>2. fcb' = fcb
    BY <1>1, <1>2, <2>1 DEF Arguments, OpenFns
  <2>3. (Named' <=> Named) /\ Holding' = Holding /\ Block' = Block /\ Unsaved' = Unsaved
        /\ (Fresh' <=> Fresh)
    BY <1>1, <2>2, FileStays DEF Fresh
  <2>4. CASE Setting
    BY <1>1, <2>3, <2>4 DEF OnCopy, Setting, GetsFrom, PutsFrom
  <2>5. CASE Getting
    BY <1>1, <1>3, <2>3, <2>5 DEF OnCopy, Getting, GetsFrom
  <2>6. CASE Putting
    <3>1. todo[1].fn = "wrunix"
      BY <1>1, <2>6, StageCalls
    <3>2. mem' = [mem EXCEPT ![dma] = todo[1].arg]
      BY <1>1, <1>2, <3>1 DEF Arguments
    <3>3. mem'[dma] = todo[1].arg
      BY <3>2 DEF CpmInv, BiosOK, MemOK, SelectionOK
    <3> QED
      BY <1>1, <1>3, <2>3, <2>6, <3>3 DEF OnCopy, Putting, PutsFrom
  <2>7. CASE Closing
    <3>1. Padded(Holding)' = Padded(Holding)
      BY <2>3 DEF Padded
    <3> QED
      BY <1>1, <1>3, <2>3, <2>7, <3>1 DEF OnCopy, Closing
  <2> QED
    BY <1>6, <2>4, <2>5, <2>6, <2>7
<1> QED
  BY <1>4, <1>5, <1>6 DEF OnCopy

LEMMA CopyServes ==
  ASSUME CpmInv, HasFile, OnCopy, Serve, PointersFit'
  PROVE  OnCopy'
<1>1. /\ syscall /\ syscall' = FALSE /\ bios(biosfn) /\ Restarts(biosfn)
      /\ pc = "ret" /\ biosfn = todo[1].fn /\ todo \in Seq(Calls)
      /\ UnixOK /\ MemOK /\ SelectionOK
  BY DEF Serve, HasFile, CpmInv, ProgramOK, BiosOK
<1>2. CASE biosfn \in {"boot", "warmboot"}
  <2>1. todo' = <<>>
    BY <1>1, <1>2 DEF Restarts
  <2> QED
    BY <2>1, NothingCloses
<1>3. CASE biosfn \notin {"boot", "warmboot"}
  <2>1. UNCHANGED <<pc, todo, copied>>
    BY <1>1, <1>3 DEF Restarts, program
  <2>2. ~Served /\ ~Granted /\ Served' /\ (Granted' <=> a' = 0) /\ Copy' = Copy
    BY <1>1, <2>1 DEF Served, Granted, Copy
  <2>3. CASE NoClose
    BY <2>1, <2>3 DEF OnCopy, NoClose
  <2>4. CASE Opening
    <3>1. todo[1].fn \in OpenFns
      BY <1>1, <2>4, StageCalls
    <3>2. openunix \/ createunix
      BY <1>1, <3>1 DEF bios, OpenFns
    <3>3. todo[1].fn = "createunix" => createunix
      BY <1>1 DEF bios
    <3>4. a' = 0 => Named' /\ Unsaved' = Nothing /\ fcb'.blk = 0 /\ (createunix => Holding' = <<>>)
      BY <1>1, <3>2, OpensNames
    <3>5. copied' = <<>>
      BY <2>1, <2>4 DEF Opening
    <3> QED
      BY <2>1, <2>2, <2>4, <3>3, <3>4, <3>5 DEF OnCopy, Opening, Fresh, GetsFrom, PutsFrom
  <2>5. CASE Setting
    <3>1. setdma
      BY <1>1, <2>5, StageCalls DEF bios
    <3>2. UNCHANGED <<unix, fds, fcb>>
      BY <3>1 DEF setdma, unixState
    <3>3. (Fresh' <=> Fresh) /\ Holding' = Holding
      BY <2>1, <3>2, FileStays DEF Fresh
    <3> QED
      BY <2>1, <2>5, <3>3 DEF OnCopy, Setting, GetsFrom, PutsFrom
  <2>6. CASE Getting
    <3>1. rdunix
      BY <1>1, <2>6, StageCalls DEF bios
    <3>2. /\ Named /\ Unsaved = Nothing /\ Block < Len(Holding) + SectorSize
          /\ Copy = UpTo(Holding, Block) /\ GetsFrom(todo, 1)
      BY <2>2, <2>6 DEF Getting
    <3>3. /\ Named' /\ Unsaved' = Nothing /\ Holding' = Holding /\ dma' = dma
          /\ IF Block < Len(Holding)
               THEN /\ a' = 0 /\ Block' = Block + SectorSize
                    /\ mem'[dma] \in Record
                    /\ \A i \in 1 .. SectorSize :
                         mem'[dma][i] = IF Block + i <= Len(Holding) THEN Holding[Block + i] ELSE CtrlZ
               ELSE a' = 255 /\ Block' = Block
      BY <1>1, <3>1, <3>2, ReadsRecord
    <3>4. Holding \in Seq(Units) /\ Len(Holding) \in Nat /\ Block \in Nat /\ IsWhole(Block)
      BY <1>1, <3>2, NamedIs
    <3>5. GetsFrom(todo, 1)'
      BY <2>1, <3>2 DEF GetsFrom
    <3>6. CASE Block < Len(Holding)
      <4>1. a' = 0 /\ Block' = Block + SectorSize /\ mem'[dma] \in Record
        BY <3>3, <3>6
      <4>2. UpTo(Holding, Block) \o mem'[dma] = UpTo(Holding, Block + SectorSize)
        BY <3>3, <3>4, <3>6, UpToGrows
      <4>3. Copy' \o mem'[dma'] = UpTo(Holding', Block')
        BY <2>2, <3>2, <3>3, <4>1, <4>2
      <4>4. Block' < Len(Holding') + SectorSize
        <5>1. SectorSize \in Nat
          BY BiosAssumption
        <5> QED
          BY <3>3, <3>4, <3>6, <4>1, <5>1
      <4> QED
        BY <2>2, <3>3, <3>5, <4>1, <4>3, <4>4 DEF OnCopy, Getting
    <3>7. CASE ~(Block < Len(Holding))
      <4>1. a' = 255 /\ Block' = Block
        BY <3>3, <3>7
      <4>2. Padded(Holding) = UpTo(Holding, Block)
        BY <3>2, <3>4, <3>7, PaddedIs
      <4> QED
        BY <2>2, <3>2, <3>3, <3>5, <4>1, <4>2 DEF OnCopy, Getting
    <3> QED
      BY <3>6, <3>7
  <2>7. CASE Putting
    <3>1. wrunix
      BY <1>1, <2>7, StageCalls DEF bios
    <3>2. /\ Named /\ Len(Holding) = Block /\ Holding = Copy /\ mem[dma] = todo[1].arg
          /\ PutsFrom(todo, 1) /\ Len(todo) > 1
      BY <1>1, <2>2, <2>7 DEF Putting
    <3>3. /\ Named'
          /\ a' = 0 => Holding' = Holding \o mem[dma] /\ Len(Holding') = Block'
      BY <1>1, <3>1, <3>2, WritesRecord
    <3>4. PutsFrom(todo, 1)' /\ Len(todo') > 1
      BY <2>1, <3>2 DEF PutsFrom
    <3> QED
      BY <1>1, <2>1, <2>2, <3>2, <3>3, <3>4 DEF OnCopy, Putting
  <2>8. CASE Closing
    BY <2>1, <2>2, <2>8 DEF OnCopy, Closing
  <2> QED
    BY <2>3, <2>4, <2>5, <2>6, <2>7, <2>8 DEF OnCopy
<1> QED
  BY <1>2, <1>3

LEMMA CopyReturns ==
  ASSUME CpmInv, OnCopy, copied \in Seq(Record), GuestReturn, ~syscall
  PROVE  OnCopy'
<1>1. /\ pc = "ret" /\ pc' = "out" /\ UNCHANGED biosVars /\ UNCHANGED syscall
      /\ todo \in Seq(Calls) /\ todo # <<>>
      /\ todo' = Continued(Head(todo), Tail(todo))
      /\ copied' = CASE Head(todo).fn = "rdunix" /\ a = 0 -> Append(copied, mem[dma])
                     [] Head(todo).fn = "wrunix" -> Append(copied, Head(todo).arg)
                     [] OTHER -> copied
  BY DEF GuestReturn, CpmInv, ProgramOK
<1>2. UNCHANGED <<a, mem, dma, unix, fds, fcb>>
  BY <1>1 DEF biosVars, selection, unixState
<1>3. (Named' <=> Named) /\ Holding' = Holding /\ Block' = Block /\ Unsaved' = Unsaved
  BY <1>2, FileStays
<1>15. Padded(Holding)' = Padded(Holding)
  BY <1>3 DEF Padded
<1>4. Served /\ ~Served' /\ (Granted <=> a = 0) /\ ~Granted'
  BY <1>1 DEF Served, Granted
<1> DEFINE c == todo[1]
           rest == Tail(todo)
<1>5. /\ Head(todo) = c /\ c \in Calls
      /\ rest \in Seq(Calls) /\ Len(rest) = Len(todo) - 1 /\ Len(todo) \in Nat
      /\ \A i \in 1 .. Len(todo) - 1 : rest[i] = todo[i + 1]
  BY <1>1, HeadIs
<1>6. ASSUME NEW k \in Nat \ {0}
      PROVE  /\ GetsFrom(todo, k + 1) => GetsFrom(rest, k)
             /\ PutsFrom(todo, k + 1) => PutsFrom(rest, k)
  BY <1>1, TailFrom
<1> HIDE DEF c, rest
<1>7. FlattenSeq(<<>>) = <<>>
  BY FlattenIs
<1>8. CASE NoClose
  <2>1. todo' \in {<<Call("warmboot", 0)>>, <<>>, todo, rest}
    BY <1>1, <1>5, ContinuedIs DEF rest
  <2>2. CASE todo' = rest
    <3> SUFFICES ASSUME NEW i \in 1 .. Len(rest) PROVE rest[i].fn # "closeunix"
      BY <2>2 DEF OnCopy, NoClose
    <3>1. i + 1 \in 1 .. Len(todo) /\ rest[i] = todo[i + 1]
      BY <1>5
    <3> QED
      BY <1>8, <3>1 DEF NoClose
  <2>3. CASE todo' = todo
    BY <1>8, <2>3 DEF OnCopy, NoClose
  <2> QED
    BY <2>1, <2>2, <2>3, NothingCloses
<1>9. ASSUME PutsFrom(rest, 1), Named, Len(Holding) = Block, Holding = Copy', todo' = rest
      PROVE  OnCopy'
  <2>1. Holding \in Seq(Units) /\ Len(Holding) \in Nat /\ IsWhole(Block)
    BY <1>9, NamedIs DEF CpmInv, BiosOK
  <2>2. Padded(Holding) = Holding
    BY <1>9, <2>1, PaddedWhole
  <2>3. CASE Len(rest) = 1
    <3>1. rest[1].fn = "closeunix"
      BY <1>9, <2>3 DEF PutsFrom
    <3> QED
      BY <1>3, <1>9, <1>15, <2>2, <2>3, <3>1 DEF OnCopy, Closing
  <2>4. CASE Len(rest) > 1
    <3>1. PutsFrom(todo, 1)' /\ Len(todo') > 1
      BY <1>9, <2>4 DEF PutsFrom
    <3> QED
      BY <1>1, <1>3, <1>4, <1>9, <3>1 DEF OnCopy, Putting
  <2>5. Len(rest) = 1 \/ Len(rest) > 1
    <3>1. Len(rest) \in Nat
      BY <1>5
    <3>2. 1 <= Len(rest)
      BY <1>9 DEF PutsFrom
    <3>3. \A n \in Nat : 1 <= n => n = 1 \/ n > 1
      OBVIOUS
    <3> QED
      BY <3>1, <3>2, <3>3, Zenon
  <2> QED
    BY <2>3, <2>4, <2>5
<1>10. CASE Opening
  <2>1. c.fn \in OpenFns
    BY <1>1, <1>10, StageCalls DEF c
  <2>2. CASE a # 0
    <3>1. todo' = <<>>
      BY <1>1, <1>5, <2>1, <2>2, ContinuedIs
    <3> QED
      BY <3>1, NothingCloses
  <2>3. CASE a = 0
    <3>1. todo' = rest
      BY <1>1, <1>5, <2>1, <2>3, ZenonT(40) DEF Continued, OpenFns, rest
    <3>2. copied' = copied
      BY <1>1, <1>5, <2>1 DEF OpenFns
    <3>3. /\ Fresh /\ todo[2].fn = "setdma" /\ 1 \in 1 .. Len(todo) - 1
          /\ GetsFrom(todo, 2 + 1) \/ (PutsFrom(todo, 2 + 1) /\ Holding = <<>>)
      BY <1>4, <1>5, <1>10, <2>3 DEF Opening
    <3>4. rest[1].fn = "setdma"
      BY <1>5, <3>3
    <3>5. GetsFrom(rest, 2) \/ (PutsFrom(rest, 2) /\ Holding = <<>>)
      BY <1>6, <3>3
    <3>6. Fresh'
      BY <1>2, <1>3, <3>2, <3>3 DEF Fresh
    <3>7. todo'[1].fn = "setdma" /\ (GetsFrom(todo, 2)' \/ (PutsFrom(todo, 2)' /\ Holding' = <<>>))
      BY <1>3, <3>1, <3>4, <3>5 DEF GetsFrom, PutsFrom
    <3> QED
      BY <3>6, <3>7, SMTT(40) DEF OnCopy, Setting
  <2> QED
    BY <2>2, <2>3
<1>11. CASE Setting
  <2>1. c.fn = "setdma"
    BY <1>1, <1>11, StageCalls, SMTT(40) DEF c
  <2>2. todo' = rest /\ copied' = copied
    BY <1>1, <1>5, <2>1, ZenonT(40) DEF Continued, rest
  <2>3. Named /\ Unsaved = Nothing /\ Block = 0 /\ copied = <<>> /\ (GetsFrom(todo, 1 + 1) \/ (PutsFrom(todo, 1 + 1) /\ Holding = <<>>))
    <3>1. 0 * SectorSize = 0
      BY BiosAssumption
    <3> QED
      BY <1>11, <3>1 DEF Setting, Fresh, Block
  <2>4. Holding \in Seq(Units) /\ Len(Holding) \in Nat
    BY <2>3, NamedIs DEF CpmInv, BiosOK
  <2>5. Copy' = <<>>
    BY <1>7, <2>2, <2>3 DEF Copy
  <2>6. CASE GetsFrom(rest, 1)
    <3>1. UpTo(Holding, 0) = <<>>
      BY <2>4, UpToWhole
    <3>2. Copy' = UpTo(Holding', Block')
      BY <1>3, <2>3, <2>5, <3>1
    <3>3. Block' < Len(Holding') + SectorSize
      BY <1>3, <2>3, <2>4, BiosAssumption
    <3>4. GetsFrom(todo, 1)'
      BY <2>2, <2>6 DEF GetsFrom
    <3> QED
      BY <1>3, <1>4, <2>3, <3>2, <3>3, <3>4 DEF OnCopy, Getting
  <2>7. CASE PutsFrom(rest, 1) /\ Holding = <<>>
    <3>1. Len(Holding) = Block /\ Holding = Copy'
      BY <2>3, <2>5, <2>7
    <3> QED
      BY <1>9, <2>2, <2>3, <2>7, <3>1
  <2> QED
    BY <1>6, <2>3, <2>6, <2>7
<1>12. CASE Getting
  <2>1. c.fn = "rdunix" /\ Len(todo) = 2
    BY <1>1, <1>12, StageCalls DEF c
  <2>2. CASE a = 0
    <3>1. todo' = todo /\ copied' = Append(copied, mem[dma])
      BY <1>1, <1>5, <2>1, <2>2 DEF Continued
    <3>2. mem[dma] \in Record /\ Copy \o mem[dma] = UpTo(Holding, Block)
      BY <1>4, <1>12, <2>2 DEF Getting
    <3>3. Copy' = Copy \o mem[dma]
      BY <3>1, <3>2, FlattenAppend DEF Copy
    <3>4. Copy' = UpTo(Holding', Block')
      BY <1>3, <3>2, <3>3
    <3>5. GetsFrom(todo, 1)' /\ Named' /\ Unsaved' = Nothing /\ Block' < Len(Holding') + SectorSize
      BY <1>3, <1>12, <3>1 DEF Getting, GetsFrom
    <3> QED
      BY <1>4, <3>4, <3>5 DEF OnCopy, Getting
  <2>3. CASE a # 0
    <3>1. todo' = rest /\ copied' = copied
      BY <1>1, <1>5, <2>1, <2>3 DEF Continued, rest
    <3>2. Copy = Padded(Holding) /\ todo[2].fn = "closeunix"
      BY <1>4, <1>12, <2>3 DEF Getting, GetsFrom
    <3>3. Len(rest) = 1 /\ rest[1].fn = "closeunix"
      BY <1>5, <2>1, <3>2
    <3>4. Copy' = Padded(Holding')
      BY <1>3, <3>1, <3>2 DEF Copy
    <3>5. Named'
      BY <1>3, <1>12 DEF Getting
    <3> QED
      BY <1>15, <3>1, <3>3, <3>4, <3>5 DEF OnCopy, Closing
  <2> QED
    BY <2>2, <2>3
<1>13. CASE Putting
  <2>1. c.fn = "wrunix"
    BY <1>1, <1>13, StageCalls DEF c
  <2>2. CASE a # 0
    <3>1. todo' = <<>>
      BY <1>1, <1>5, <2>1, <2>2 DEF Continued
    <3> QED
      BY <3>1, NothingCloses
  <2>3. CASE a = 0
    <3>1. todo' = rest /\ copied' = Append(copied, c.arg)
      BY <1>1, <1>5, <2>1, <2>3, ZenonT(40) DEF Continued, rest
    <3>2. c.arg \in Record
      BY <1>5, <2>1, CallHas DEF DataFns, Record
    <3>3. /\ Len(Holding) = Block /\ Holding = Copy \o c.arg /\ Named
          /\ PutsFrom(todo, 1) /\ Len(todo) > 1
      BY <1>4, <1>13, <2>3 DEF Putting, c
    <3>4. Copy' = Copy \o c.arg
      BY <3>1, <3>2, FlattenAppend DEF Copy
    <3>5. PutsFrom(todo, 1 + 1)
      BY <1>5, <3>3 DEF PutsFrom
    <3>6. PutsFrom(rest, 1)
      BY <1>6, <3>5
    <3> QED
      BY <1>9, <3>1, <3>3, <3>4, <3>6, SMTT(40)
  <2> QED
    BY <2>2, <2>3
<1>14. CASE Closing
  <2>1. c.fn = "closeunix" /\ Len(todo) = 1
    BY <1>14 DEF Closing, c
  <2>2. todo' = rest
    BY <1>1, <1>5, <2>1, ContinuedIs DEF rest
  <2>3. Len(todo') = 0
    BY <1>5, <2>1, <2>2
  <2> QED
    BY <2>3 DEF OnCopy, NoClose
<1> QED
  BY <1>8, <1>10, <1>11, <1>12, <1>13, <1>14 DEF OnCopy

LEMMA CopyStarts ==
  ASSUME StartAccess \/ StartRaw \/ StartRestart \/ StartGetunix \/ StartPutunix
  PROVE  OnCopy' /\ copied' = <<>>
<1>1. ASSUME NEW s, Starts(s) PROVE todo' = s /\ copied' = <<>> /\ pc' = "out" /\ ~Granted'
  BY <1>1 DEF Starts, Granted, Served
<1>2. CASE StartAccess
  <2>1. PICK d \in Selected, t \in Tracks, l \in Logicals \union {0}, last \in Transfers :
          Starts(Access(d, t, l, last))
    BY <1>2, CpmAssumption DEF StartAccess, Logical
  <2> DEFINE s == Access(d, t, l, last)
  <2>2. Len(s) = 5 /\ \A i \in 1 .. 5 : s[i].fn # "closeunix"
    <3>1. last.fn # "closeunix"
      BY TransferFn
    <3>2. Len(s) = 5
      BY DEF Access
    <3>3. /\ s[1].fn = "seldisc" /\ s[2].fn = "settrack" /\ s[3].fn = "secttran"
          /\ s[4].fn = "setsector" /\ s[5] = last
      BY CallFn DEF Access
    <3> HIDE DEF s
    <3>4. ASSUME NEW i \in 1 .. 5 PROVE s[i].fn # "closeunix"
      <4>1. i = 1 \/ i = 2 \/ i = 3 \/ i = 4 \/ i = 5
        OBVIOUS
      <4> QED
        BY <3>1, <3>3, <4>1
    <3> QED
      BY <3>2, <3>4
  <2> QED
    BY <1>1, <2>1, <2>2 DEF OnCopy, NoClose
<1>3. CASE StartRaw
  <2>1. PICK x \in RawSectors, last \in Transfers :
          Starts(<<Call("home", 0), Call("setsector", x), last>>)
    BY <1>3 DEF StartRaw
  <2> DEFINE s == <<Call("home", 0), Call("setsector", x), last>>
  <2>2. Len(s) = 3 /\ \A i \in 1 .. 3 : s[i].fn # "closeunix"
    <3>1. last.fn # "closeunix"
      BY TransferFn
    <3>2. Len(s) = 3 /\ s[1].fn = "home" /\ s[2].fn = "setsector" /\ s[3] = last
      BY CallFn
    <3> HIDE DEF s
    <3>3. \A i \in 1 .. 3 : i = 1 \/ i = 2 \/ i = 3
      OBVIOUS
    <3> QED
      BY <3>1, <3>2, <3>3
  <2> QED
    BY <1>1, <2>1, <2>2 DEF OnCopy, NoClose
<1>4. CASE StartRestart
  <2>1. PICK fn \in {"boot", "warmboot"} : Starts(<<Call(fn, 0)>>)
    BY <1>4 DEF StartRestart
  <2>2. Len(<<Call(fn, 0)>>) = 1 /\ <<Call(fn, 0)>>[1].fn # "closeunix"
    BY CallFn
  <2> QED
    BY <1>1, <2>1, <2>2 DEF OnCopy, NoClose
<1>5. CASE StartGetunix
  <2>1. PICK n \in UnixNames : Starts(<<Call("openunix", n), Call("setdma", DefaultDma),
                                        Call("rdunix", 0), Call("closeunix", 0)>>)
    BY <1>5 DEF StartGetunix
  <2> DEFINE s == <<Call("openunix", n), Call("setdma", DefaultDma),
                    Call("rdunix", 0), Call("closeunix", 0)>>
  <2>2. /\ Len(s) = 4
        /\ s[1].fn = "openunix" /\ s[2].fn = "setdma" /\ s[3].fn = "rdunix" /\ s[4].fn = "closeunix"
    BY CallFn
  <2>3. todo' = s /\ copied' = <<>> /\ ~Granted'
    BY <1>1, <2>1
  <2> HIDE DEF s
  <2>4. GetsFrom(todo, 3)' /\ Len(todo') > 1 /\ todo'[1].fn = "openunix" /\ todo'[2].fn = "setdma"
    BY <2>2, <2>3 DEF GetsFrom
  <2>5. Opening'
    BY <2>3, <2>4 DEF Opening
  <2> QED
    BY <2>3, <2>5 DEF OnCopy
<1>6. CASE StartPutunix
  <2>1. PICK n \in UnixNames, records \in Records : Starts(PutCalls(n, records))
    BY <1>6 DEF StartPutunix, PutCalls
  <2> DEFINE s == PutCalls(n, records)
  <2>2. s[1].fn = "createunix" /\ s[2].fn = "setdma" /\ PutsFrom(s, 3)
    <3> DEFINE m == Len(records)
    <3>1. /\ s \in Seq(Calls) /\ m \in Nat /\ Len(s) = m + 3
          /\ s[1].fn = "createunix" /\ s[2].fn = "setdma"
          /\ \A i \in 3 .. m + 2 : s[i].fn = "wrunix"
          /\ s[m + 3].fn = "closeunix"
      BY PutunixIs
    <3> HIDE DEF s, m
    <3>2. 3 <= Len(s) /\ Len(s) - 1 = m + 2
      BY <3>1
    <3> QED
      BY <3>1, <3>2 DEF PutsFrom
  <2>3. todo' = s /\ copied' = <<>> /\ ~Granted'
    BY <1>1, <2>1
  <2> HIDE DEF s
  <2>4. PutsFrom(todo, 3)' /\ Len(todo') > 1
    <3>1. Len(s) \in Nat /\ 3 <= Len(s)
      BY <2>2 DEF PutsFrom
    <3> QED
      BY <2>2, <2>3, <3>1 DEF PutsFrom
  <2> QED
    BY <2>2, <2>3, <2>4 DEF OnCopy, Opening
<1> QED
  BY <1>2, <1>3, <1>4, <1>5, <1>6

\* What is copied are records.
LEMMA CopiedRecords ==
  ASSUME CpmInv, copied \in Seq(Record), [Next]_vars
  PROVE  copied' \in Seq(Record)
<1>1. CASE GuestReturn
  <2>1. /\ todo # <<>> /\ todo \in Seq(Calls)
        /\ copied' = CASE Head(todo).fn = "rdunix" /\ a = 0 -> Append(copied, mem[dma])
                       [] Head(todo).fn = "wrunix" -> Append(copied, Head(todo).arg)
                       [] OTHER -> copied
    BY <1>1 DEF GuestReturn, CpmInv, ProgramOK
  <2>2. mem[dma] \in Record
    BY DEF CpmInv, BiosOK, MemOK, SelectionOK, Record
  <2>3. Head(todo).fn = "wrunix" => Head(todo).arg \in Record
    BY <2>1, HeadIs, CallHas DEF DataFns, Record
  <2>4. \A r \in Record : Append(copied, r) \in Seq(Record)
    BY AppendProperties
  <2>5. CASE Head(todo).fn = "rdunix" /\ a = 0
    BY <2>1, <2>2, <2>4, <2>5
  <2>6. CASE Head(todo).fn = "wrunix"
    BY <2>1, <2>3, <2>4, <2>6
  <2>7. CASE ~(Head(todo).fn = "rdunix" /\ a = 0) /\ Head(todo).fn # "wrunix"
    BY <2>1, <2>7
  <2> QED
    BY <2>5, <2>6, <2>7
<1>2. CASE StartAccess \/ StartRaw \/ StartRestart \/ StartGetunix \/ StartPutunix
  <2>1. copied' = <<>>
    BY <1>2, CopyStarts
  <2> QED
    BY <2>1
<1>3. CASE UNCHANGED vars
  BY <1>3 DEF vars, program
<1>4. CASE Emulator \/ User \/ GuestCall
  BY <1>4 DEF Emulator, User, PowerOn, Execute, SignalStops, Traced, NothingToServe, Serve, WildFile,
              Break, PromptBoot, PromptTrace, PromptStep, PromptGo, GuestCall, Restarts, Remembers, program
<1> QED
  BY <1>1, <1>2, <1>3, <1>4 DEF Next, Program

\* Pointers are added by openunix and createunix, and taken back by closeunix.
LEMMA PointersStay ==
  ASSUME CpmInv, [Next]_vars, PointersFit'
  PROVE  PointersFit
<1>1. CASE UNCHANGED fds
  BY <1>1 DEF PointersFit
<1>2. CASE Serve
  <2>1. bios(biosfn) /\ Remembers(biosfn) /\ (biosfn = "setdma" => bc \in DmaAddr)
    BY <1>2 DEF Serve, CpmInv, ProgramOK
  <2>2. /\ biosfn \notin OpenFns \union {"closeunix"} => DOMAIN fds' = DOMAIN fds
        /\ biosfn \in OpenFns => DOMAIN fds \subseteq DOMAIN fds'
        /\ biosfn = "closeunix" =>
              DOMAIN fds' = DOMAIN fds \ {fcb.fd} /\ Restored(fcb.fd) = fcb.fd
    BY <2>1, BiosKeeps DEF CpmInv
  <2> QED
    BY <2>2 DEF PointersFit
<1>3. CASE PowerOn \/ PromptBoot
  BY <1>1, <1>3, BootKeeps DEF unixState
<1>4. CASE GuestCall
  BY <1>1, <1>4 DEF GuestCall
<1>5. ASSUME NEW s, Starts(s) PROVE UNCHANGED fds
  BY <1>5 DEF Starts, biosVars, unixState
<1>6. CASE StartAccess \/ StartRaw \/ StartRestart \/ StartGetunix \/ StartPutunix
  BY <1>1, <1>5, <1>6, StartsWhole
<1>7. CASE \/ Execute \/ SignalStops \/ Traced \/ NothingToServe \/ WildFile \/ Break
           \/ PromptTrace \/ PromptStep \/ PromptGo \/ GuestReturn \/ UNCHANGED vars
  <2>1. UNCHANGED biosVars
    BY <1>7 DEF Execute, SignalStops, Traced, NothingToServe, WildFile, Break,
                PromptTrace, PromptStep, PromptGo, GuestReturn, vars
  <2> QED
    BY <1>1, <2>1 DEF biosVars, unixState
<1> QED
  BY <1>2, <1>3, <1>4, <1>6, <1>7 DEF Next, Emulator, User, Program

LEMMA NextKeepsCopy ==
  ASSUME CpmInv, CallOnItsWay, Unbroken, Undisturbed, Copying, [Next]_vars
  PROVE  Copying'
<1>1. copied' \in Seq(Record)
  BY CopiedRecords DEF Copying
<1> SUFFICES ASSUME breaks' = 0, PointersFit' PROVE OnCopy'
  BY <1>1 DEF Copying
<1>2. breaks \in Nat
  BY DEF CpmInv, EmulatorOK
<1>3. CASE Break
  BY <1>2, <1>3 DEF Break
<1>4. CASE ~Break
  <2>1. breaks = 0
    BY <1>4 DEF Next, Emulator, User, Program, PowerOn, Execute, SignalStops, Traced, NothingToServe,
                Serve, WildFile, PromptBoot, PromptTrace, PromptStep, PromptGo, GuestCall, GuestReturn,
                StartAccess, StartRaw, StartRestart, StartGetunix, StartPutunix, Starts, Remembers,
                history, vars
  <2>2. Quiet /\ HasFile /\ AtStart /\ OnCopy
    BY <2>1, PointersStay DEF Unbroken, Undisturbed, Copying
  <2>3. CASE PromptBoot \/ PromptTrace \/ PromptStep \/ PromptGo
    BY <2>2, <2>3 DEF PromptBoot, PromptTrace, PromptStep, PromptGo, Quiet
  <2>4. CASE Execute \/ SignalStops \/ Traced \/ NothingToServe \/ WildFile \/ UNCHANGED vars
    <3>1. UNCHANGED <<biosVars, program, syscall>>
      BY <2>4 DEF Execute, SignalStops, Traced, NothingToServe, WildFile, vars, emulator
    <3>2. UNCHANGED <<todo, pc, copied, syscall, a, mem, dma, unix, fds, fcb>>
      BY <3>1 DEF biosVars, program, selection, unixState
    <3> QED
      BY <2>2, <3>2, CopyStays
  <2>5. CASE PowerOn
    <3>1. todo' = <<>>
      BY <2>2, <2>5 DEF PowerOn, AtStart, program
    <3> QED
      BY <3>1, NothingCloses
  <2>6. CASE Serve
    BY <2>2, <2>6, CopyServes
  <2>7. CASE StartAccess \/ StartRaw \/ StartRestart \/ StartGetunix \/ StartPutunix
    BY <2>7, CopyStarts
  <2>8. CASE GuestCall
    <3>1. pc = "out"
      BY <2>8 DEF GuestCall
    <3>2. ~syscall
      BY <2>2, <3>1 DEF HasFile
    <3> QED
      BY <2>2, <2>8, <3>2, CopyCalls
  <2>9. CASE GuestReturn
    <3>1. phase = "exec"
      BY <2>9 DEF GuestReturn
    <3>2. ~syscall
      BY <2>2, <3>1 DEF CallOnItsWay, Quiet
    <3> QED
      BY <2>2, <2>9, <3>2, CopyReturns DEF Copying
  <2> QED
    BY <1>4, <2>3, <2>4, <2>5, <2>6, <2>7, <2>8, <2>9 DEF Next, Emulator, User, Program
<1> QED
  BY <1>3, <1>4

(* What a program that was not interrupted has copied when closeunix       *)
(* reports no error for it is the file, as long as the pointers of the open *)
(* files were not cut: GETUNIX all of it, its last record filled up with   *)
(* ^Z, and with PUTUNIX neither more nor less than CP/M's is in the host's, *)
(* however long they are, however large a record is, and whatever the host *)
(* refuses on the way, at a transfer or behind it (bios.c, openunix to     *)
(* closeunix; utils/getunix.mac and putunix.mac).                          *)
THEOREM FilesAreCopied == Spec => CopiesWhole
<1>1. Init => CallOnItsWay /\ Unbroken /\ Undisturbed /\ Copying
  <2>1. Init => CallOnItsWay /\ Unbroken
    BY DEF Init, CallOnItsWay, Unbroken, Quiet, HasFile
  <2>2. Init => Undisturbed
    <3>1. -1 \notin Floppies
      BY BiosAssumption DEF Drives
    <3> QED
      BY <3>1 DEF Init, Undisturbed, AtStart, OnPlan, NoPlan
  <2>3. Init => Copying
    BY DEF Init, Copying, OnCopy, NoClose
  <2> QED
    BY <2>1, <2>2, <2>3
<1>2. CpmInv /\ CallOnItsWay /\ Unbroken /\ Undisturbed /\ Copying /\ [Next]_vars
        => CallOnItsWay' /\ Unbroken' /\ Undisturbed' /\ Copying'
  BY NextKeepsCall, NextKeepsUnbroken, NextKeepsPlan, NextKeepsCopy
<1>3. ASSUME CpmInv, Unbroken, Copying, Serve, biosfn = "closeunix", breaks = 0, PointersFit, a' = 0
      PROVE  FlattenSeq(copied) = Padded(unix'[fcb.name])
  <2>1. /\ todo \in Seq(Calls) /\ OnCopy /\ HasFile /\ syscall /\ closeunix /\ UnixOK
    BY <1>3 DEF CpmInv, ProgramOK, BiosOK, Serve, bios, Copying, Unbroken
  <2>2. pc = "ret" /\ todo[1].fn = "closeunix"
    BY <1>3, <2>1 DEF HasFile
  <2>3. todo # <<>>
    BY <1>3, <2>2 DEF CpmInv, ProgramOK
  <2>4. 1 \in 1 .. Len(todo)
    BY <2>1, <2>3, HeadIs
  <2>5. ~NoClose
    BY <2>2, <2>4 DEF NoClose
  <2>6. Closing
    BY <2>1, <2>2, <2>5, StageCalls DEF OnCopy, OpenFns
  <2>7. Named /\ Copy = Padded(Holding)
    BY <2>1, <2>6 DEF Closing, Served
  <2>8. unix'[fcb.name] = Holding
    BY <1>3, <2>1, <2>7, CloseSaves
  <2> QED
    BY <2>7, <2>8 DEF Copy
<1>4. CpmInv /\ Unbroken /\ Copying
        => [Serve /\ biosfn = "closeunix" /\ breaks = 0 /\ PointersFit /\ a' = 0
            => FlattenSeq(copied) = Padded(unix'[fcb.name])]_vars
  BY <1>3
<1> QED
  BY CpmInvariant, <1>1, <1>2, <1>4, PTL DEF Spec, CopiesWhole
=============================================================================
