-------------------------- MODULE Z80Events_proofs --------------------------
(***************************************************************************)
(* The invariants of the emulator's event handling, for the loop as it is  *)
(* written and as it is compiled.                                          *)
(***************************************************************************)
EXTENDS Z80Events, TLAPS

(* The loop is past TestEvent and not yet past the lines: what is pending  *)
(* will be looked at although EVENT has been cleared.                      *)
Dispatching ==
  \/ at \in {"clear", "test", "halt", "sig", "take", "lines"}
  \/ at = "prompt" /\ ret = "lines"

LinesInv == nmi \/ intr => event \/ Dispatching

(* With tracing on both flags are up wherever an instruction can come next *)
(* without haltcpu in between; once EVENT was seen, HALT leads there.      *)
TraceInv ==
  trace =>
    /\ at \in {"poll", "event", "lines", "fetch", "inc", "exec"} => event /\ halt
    /\ at \in {"clear", "test"} => halt
    /\ at = "clear" /\ HaltLoadedFirst => loaded

(* TypeOK in two parts: the provers treat Boolean variables differently    *)
(* from the others.                                                        *)
FlagsOK ==
  /\ event \in BOOLEAN /\ halt \in BOOLEAN /\ loaded \in BOOLEAN
  /\ sig \in BOOLEAN
  /\ reset \in BOOLEAN /\ nmi \in BOOLEAN /\ intr \in BOOLEAN
  /\ iff \in BOOLEAN /\ iff2 \in BOOLEAN
  /\ trace \in BOOLEAN /\ step \in BOOLEAN
  /\ avail \in BOOLEAN
  /\ restarted \in BOOLEAN

PlacesOK ==
  /\ at \in Place
  /\ ret \in {"poll", "lines", "inc", "exec"}
  /\ imode \in 0 .. 2
  /\ pc \in Address

LEMMA TypeSplit == (TypeOK <=> FlagsOK /\ PlacesOK) /\ (TypeOK' <=> FlagsOK' /\ PlacesOK')
  BY ZenonT(90) DEF TypeOK, FlagsOK, PlacesOK

LEMMA InitInv == Init => TypeOK /\ IffImpliesIff2 /\ TraceInv /\ LinesInv /\ BreakLatched
<1> SUFFICES ASSUME Init
             PROVE  TypeOK /\ IffImpliesIff2 /\ TraceInv /\ LinesInv /\ BreakLatched
  OBVIOUS
<1>1. FlagsOK
  BY ZenonT(90) DEF Init, FlagsOK
<1>2. PlacesOK
  BY DEF Init, PlacesOK, Place, Address
<1>3. IffImpliesIff2 /\ TraceInv /\ LinesInv /\ BreakLatched
  BY DEF Init, IffImpliesIff2, TraceInv, LinesInv, BreakLatched
<1>4. QED
  BY <1>1, <1>2, <1>3, TypeSplit

LEMMA FlagsNext == FlagsOK /\ [Next]_vars => FlagsOK'
<1> SUFFICES ASSUME FlagsOK, [Next]_vars PROVE FlagsOK'
  OBVIOUS
<1> USE DEF FlagsOK, lineVars, iffVars, flagVars, debugVars
<1>1. CASE ByteArrives
  BY ZenonT(90), <1>1 DEF ByteArrives
<1>2. CASE Sigint
  BY ZenonT(90), <1>2 DEF Sigint
<1>3. CASE Sigusr1
  BY ZenonT(90), <1>3 DEF Sigusr1
<1>4. CASE Loop
  <2>1. CASE SystemPoll
    BY ZenonT(90), <2>1 DEF SystemPoll, PollNmi
  <2>2. CASE TestEvent
    BY ZenonT(90), <2>2 DEF TestEvent
  <2>3. CASE ClearEvent
    BY ZenonT(90), <2>3 DEF ClearEvent
  <2>4. CASE TestHalt
    BY ZenonT(90), <2>4 DEF TestHalt
  <2>5. CASE ClearHalt
    BY ZenonT(90), <2>5 DEF ClearHalt
  <2>6. CASE TestSig
    <3>1. /\ UNCHANGED <<loaded, sig, reset, nmi, intr, iff, iff2, trace, step, avail, restarted>>
          /\ UNCHANGED <<event, halt>> \/ (event' = TRUE /\ halt' = TRUE)
      BY <2>6 DEF TestSig
    <3>2. QED
      BY ZenonT(90), <3>1
  <2>7. CASE TakeSig
    BY ZenonT(90), <2>7 DEF TakeSig
  <2>8. CASE Lines
    <3> UNCHANGED <<halt, loaded, sig, trace, step, avail, restarted>>
      BY <2>8 DEF Lines
    <3>1. CASE TakeReset
      BY ZenonT(90), <3>1 DEF TakeReset
    <3>2. CASE TakeNmi
      BY ZenonT(90), <3>2 DEF TakeNmi
    <3>3. CASE TakeIntr
      <4>1. UNCHANGED <<event, reset, nmi>> /\ iff' = FALSE /\ iff2' = FALSE /\ intr' = FALSE
        BY <3>3 DEF TakeIntr
      <4>2. QED
        BY ZenonT(90), <4>1
    <3>4. CASE DeferIntr
      BY ZenonT(90), <3>4 DEF DeferIntr
    <3>5. CASE NoLine
      BY ZenonT(90), <3>5 DEF NoLine
    <3>6. QED
      BY <2>8, <3>1, <3>2, <3>3, <3>4, <3>5 DEF Lines
  <2>9. CASE Fetch
    BY ZenonT(90), <2>9 DEF Fetch
  <2>10. CASE IncPC
    BY ZenonT(90), <2>10 DEF IncPC, Succ
  <2>11. CASE Exec
    <3> UNCHANGED <<loaded, sig, lineVars, debugVars, restarted>>
      BY ZenonT(90), <2>11 DEF Exec
    <3>1. CASE ExecEi
      BY ZenonT(90), <3>1 DEF ExecEi
    <3>2. CASE ExecDi
      BY ZenonT(90), <3>2 DEF ExecDi
    <3>3. CASE ExecIm
      <4>1. UNCHANGED <<event, halt, iff, iff2, avail>>
        BY <3>3 DEF ExecIm
      <4>2. QED
        BY ZenonT(90), <4>1
    <3>4. CASE ExecHalt
      BY ZenonT(90), <3>4 DEF ExecHalt
    <3>5. CASE ExecRetn
      BY ZenonT(90), <3>5 DEF ExecRetn
    <3>6. CASE ExecIn
      BY ZenonT(90), <3>6 DEF ExecIn
    <3>7. CASE ExecJump
      BY ZenonT(90), <3>7 DEF ExecJump
    <3>8. QED
      BY <2>11, <3>1, <3>2, <3>3, <3>4, <3>5, <3>6, <3>7 DEF Exec
  <2>12. CASE ExecBreak
    BY ZenonT(90), <2>12 DEF ExecBreak
  <2>13. QED
    BY <1>4, <2>1, <2>2, <2>3, <2>4, <2>5, <2>6, <2>7, <2>8, <2>9, <2>10, <2>11,
       <2>12 DEF Loop
<1>5. CASE Command
  <2>1. CASE CmdReset
    BY ZenonT(90), <2>1 DEF CmdReset
  <2>2. CASE CmdTrace
    BY ZenonT(90), <2>2 DEF CmdTrace
  <2>3. CASE CmdStep
    BY ZenonT(90), <2>3 DEF CmdStep
  <2>4. CASE CmdSetPC
    BY ZenonT(90), <2>4 DEF CmdSetPC
  <2>5. CASE CmdContinue
    BY ZenonT(90), <2>5 DEF CmdContinue
  <2>6. QED
    BY <1>5, <2>1, <2>2, <2>3, <2>4, <2>5 DEF Command
<1>6. CASE UNCHANGED vars
  <2>1. UNCHANGED <<event, halt, loaded, sig, reset, nmi, intr, iff, iff2, trace, step,
                    avail, restarted>>
    BY <1>6 DEF vars
  <2>2. QED
    BY ZenonT(90), <2>1
<1>7. QED
  BY <1>1, <1>2, <1>3, <1>4, <1>5, <1>6 DEF Next

LEMMA PlacesNext == PlacesOK /\ [Next]_vars => PlacesOK'
<1> SUFFICES ASSUME PlacesOK, [Next]_vars PROVE PlacesOK'
  OBVIOUS
<1> USE DEF PlacesOK, Place, Address, lineVars, iffVars, flagVars, debugVars
<1>1. CASE ByteArrives
  BY <1>1 DEF ByteArrives
<1>2. CASE Sigint
  BY <1>2 DEF Sigint
<1>3. CASE Sigusr1
  BY <1>3 DEF Sigusr1
<1>4. CASE Loop
  <2>1. CASE SystemPoll
    BY <2>1 DEF SystemPoll, PollNmi
  <2>2. CASE TestEvent
    BY <2>2 DEF TestEvent
  <2>3. CASE ClearEvent
    BY <2>3 DEF ClearEvent
  <2>4. CASE TestHalt
    BY <2>4 DEF TestHalt
  <2>5. CASE ClearHalt
    BY <2>5 DEF ClearHalt
  <2>6. CASE TestSig
    BY <2>6 DEF TestSig
  <2>7. CASE TakeSig
    BY <2>7 DEF TakeSig
  <2>8. CASE Lines
    BY <2>8 DEF Lines, TakeReset, TakeNmi, TakeIntr, DeferIntr, NoLine
  <2>9. CASE Fetch
    BY <2>9 DEF Fetch
  <2>10. CASE IncPC
    BY <2>10 DEF IncPC, Succ
  <2>11. CASE Exec
    BY <2>11 DEF Exec, ExecEi, ExecDi, ExecIm, ExecHalt, ExecRetn, ExecIn, ExecJump
  <2>12. CASE ExecBreak
    BY <2>12 DEF ExecBreak
  <2>13. QED
    BY <1>4, <2>1, <2>2, <2>3, <2>4, <2>5, <2>6, <2>7, <2>8, <2>9, <2>10, <2>11,
       <2>12 DEF Loop
<1>5. CASE Command
  BY <1>5 DEF Command, CmdReset, CmdTrace, CmdStep, CmdSetPC, CmdContinue
<1>6. CASE UNCHANGED vars
  BY <1>6 DEF vars
<1>7. QED
  BY <1>1, <1>2, <1>3, <1>4, <1>5, <1>6 DEF Next

LEMMA TypeNext == TypeOK /\ [Next]_vars => TypeOK'
  BY FlagsNext, PlacesNext, TypeSplit

LEMMA IffNext == TypeOK /\ IffImpliesIff2 /\ [Next]_vars => IffImpliesIff2'
<1> SUFFICES ASSUME TypeOK, IffImpliesIff2, [Next]_vars PROVE IffImpliesIff2'
  OBVIOUS
<1> USE DEF TypeOK, IffImpliesIff2, iffVars
<1>1. CASE Lines
  BY <1>1 DEF Lines, TakeReset, TakeNmi, TakeIntr, DeferIntr, NoLine
<1>2. CASE Exec
  BY <1>2 DEF Exec, ExecEi, ExecDi, ExecIm, ExecHalt, ExecRetn, ExecIn, ExecJump
<1>3. CASE UNCHANGED iffVars
  BY <1>3
<1>4. Lines \/ Exec \/ UNCHANGED iffVars
  BY DEF Next, vars, ByteArrives, Sigint, Sigusr1, Loop, SystemPoll, TestEvent,
         ClearEvent, TestHalt, ClearHalt, TestSig, TakeSig, Fetch, IncPC, ExecBreak,
         Command, CmdReset, CmdTrace, CmdStep, CmdSetPC, CmdContinue
<1>5. QED
  BY <1>1, <1>2, <1>3, <1>4

LEMMA TraceNext == TypeOK /\ TraceInv /\ [Next]_vars => TraceInv'
<1> SUFFICES ASSUME TypeOK, TraceInv, [Next]_vars PROVE TraceInv'
  OBVIOUS
<1> USE EventsAssumption
    DEF TypeOK, TraceInv, Place, lineVars, iffVars, flagVars, debugVars
<1>1. CASE ByteArrives
  BY <1>1 DEF ByteArrives
<1>2. CASE Sigint
  BY <1>2 DEF Sigint
<1>3. CASE Sigusr1
  BY <1>3 DEF Sigusr1
<1>4. CASE Loop
  <2>1. CASE SystemPoll
    BY <2>1 DEF SystemPoll, PollNmi
  <2>2. CASE TestEvent
    BY <2>2 DEF TestEvent
  <2>3. CASE ClearEvent
    BY <2>3 DEF ClearEvent
  <2>4. CASE TestHalt
    BY <2>4 DEF TestHalt
  <2>5. CASE ClearHalt
    BY <2>5 DEF ClearHalt
  <2>6. CASE TestSig
    BY <2>6 DEF TestSig
  <2>7. CASE TakeSig
    BY <2>7 DEF TakeSig
  <2>8. CASE Lines
    BY <2>8 DEF Lines, TakeReset, TakeNmi, TakeIntr, DeferIntr, NoLine
  <2>9. CASE Fetch
    BY <2>9 DEF Fetch
  <2>10. CASE IncPC
    BY <2>10 DEF IncPC
  <2>11. CASE Exec
    BY <2>11 DEF Exec, ExecEi, ExecDi, ExecIm, ExecHalt, ExecRetn, ExecIn, ExecJump
  <2>12. CASE ExecBreak
    BY <2>12 DEF ExecBreak
  <2>13. QED
    BY <1>4, <2>1, <2>2, <2>3, <2>4, <2>5, <2>6, <2>7, <2>8, <2>9, <2>10, <2>11,
       <2>12 DEF Loop
<1>5. CASE Command
  BY <1>5 DEF Command, CmdReset, CmdTrace, CmdStep, CmdSetPC, CmdContinue
<1>6. CASE UNCHANGED vars
  BY <1>6 DEF vars
<1>7. QED
  BY <1>1, <1>2, <1>3, <1>4, <1>5, <1>6 DEF Next

(* The lines and the break request are kept under assumptions on the       *)
(* build: an NMI comes with EVENT, and EVENT is cleared before HALT is     *)
(* loaded.                                                                 *)
LEMMA LinesNext ==
  ASSUME NmiPoll # "line", TypeOK, LinesInv, [Next]_vars
  PROVE  LinesInv'
<1> USE EventsAssumption DEF TypeOK, LinesInv, Dispatching, lineVars, iffVars, flagVars, debugVars
<1>1. CASE ByteArrives
  BY <1>1 DEF ByteArrives
<1>2. CASE Sigint
  BY <1>2 DEF Sigint
<1>3. CASE Sigusr1
  BY <1>3 DEF Sigusr1
<1>4. CASE Loop
  <2>1. CASE SystemPoll
    BY <2>1 DEF SystemPoll, PollNmi
  <2>2. CASE TestEvent
    BY <2>2 DEF TestEvent
  <2>3. CASE ClearEvent
    BY <2>3 DEF ClearEvent
  <2>4. CASE TestHalt
    BY <2>4 DEF TestHalt
  <2>5. CASE ClearHalt
    BY <2>5 DEF ClearHalt
  <2>6. CASE TestSig
    BY <2>6 DEF TestSig
  <2>7. CASE TakeSig
    BY <2>7 DEF TakeSig
  <2>8. CASE Lines
    BY <2>8 DEF Lines, TakeReset, TakeNmi, TakeIntr, DeferIntr, NoLine
  <2>9. CASE Fetch
    BY <2>9 DEF Fetch
  <2>10. CASE IncPC
    BY <2>10 DEF IncPC
  <2>11. CASE Exec
    BY <2>11 DEF Exec, ExecEi, ExecDi, ExecIm, ExecHalt, ExecRetn, ExecIn, ExecJump
  <2>12. CASE ExecBreak
    BY <2>12 DEF ExecBreak
  <2>13. QED
    BY <1>4, <2>1, <2>2, <2>3, <2>4, <2>5, <2>6, <2>7, <2>8, <2>9, <2>10, <2>11,
       <2>12 DEF Loop
<1>5. CASE Command
  BY <1>5 DEF Command, CmdReset, CmdTrace, CmdStep, CmdSetPC, CmdContinue
<1>6. CASE UNCHANGED vars
  BY <1>6 DEF vars
<1>7. QED
  BY <1>1, <1>2, <1>3, <1>4, <1>5, <1>6 DEF Next


LEMMA BreakNext ==
  ASSUME HaltLoadedFirst = FALSE, TypeOK, BreakLatched, [Next]_vars
  PROVE  BreakLatched'
<1> USE DEF TypeOK, BreakLatched, lineVars, iffVars, flagVars, debugVars
<1>1. CASE ByteArrives
  BY <1>1 DEF ByteArrives
<1>2. CASE Sigint
  BY <1>2 DEF Sigint
<1>3. CASE Sigusr1
  BY <1>3 DEF Sigusr1
<1>4. CASE Loop
  <2>1. CASE SystemPoll
    BY <2>1 DEF SystemPoll, PollNmi
  <2>2. CASE TestEvent
    BY <2>2 DEF TestEvent
  <2>3. CASE ClearEvent
    BY <2>3 DEF ClearEvent
  <2>4. CASE TestHalt
    BY <2>4 DEF TestHalt
  <2>5. CASE ClearHalt
    BY <2>5 DEF ClearHalt
  <2>6. CASE TestSig
    BY <2>6 DEF TestSig
  <2>7. CASE TakeSig
    BY <2>7 DEF TakeSig
  <2>8. CASE Lines
    BY <2>8 DEF Lines, TakeReset, TakeNmi, TakeIntr, DeferIntr, NoLine
  <2>9. CASE Fetch
    BY <2>9 DEF Fetch
  <2>10. CASE IncPC
    BY <2>10 DEF IncPC
  <2>11. CASE Exec
    BY <2>11 DEF Exec, ExecEi, ExecDi, ExecIm, ExecHalt, ExecRetn, ExecIn, ExecJump
  <2>12. CASE ExecBreak
    BY <2>12 DEF ExecBreak
  <2>13. QED
    BY <1>4, <2>1, <2>2, <2>3, <2>4, <2>5, <2>6, <2>7, <2>8, <2>9, <2>10, <2>11,
       <2>12 DEF Loop
<1>5. CASE Command
  BY <1>5 DEF Command, CmdReset, CmdTrace, CmdStep, CmdSetPC, CmdContinue
<1>6. CASE UNCHANGED vars
  BY <1>6 DEF vars
<1>7. QED
  BY <1>1, <1>2, <1>3, <1>4, <1>5, <1>6 DEF Next


-----------------------------------------------------------------------------
(* Every variable keeps its type, on every machine and in every build.     *)
THEOREM TypeCorrect == Spec => []TypeOK
<1>1. Init => TypeOK
  BY InitInv
<1>2. TypeOK /\ [Next]_vars => TypeOK'
  BY TypeNext
<1>3. QED
  BY <1>1, <1>2, PTL DEF Spec

(* No nesting of interrupts, NMIs, RETN and RESET leaves interrupts on     *)
(* while the flip-flop that RETN restores from says off.                   *)
THEOREM FlipFlopsAgree == Spec => []IffImpliesIff2
<1>1. Init => IffImpliesIff2
  BY InitInv
<1>2. TypeOK /\ IffImpliesIff2 /\ [Next]_vars => IffImpliesIff2'
  BY IffNext
<1>3. QED
  BY <1>1, <1>2, TypeCorrect, PTL DEF Spec

(* A line that is pulled is looked at before the next instruction, as long *)
(* as the machine sets EVENT together with NMI.                            *)
THEOREM LinesAreLatched == NmiPoll # "line" => (Spec => []LinesLatched)
<1> SUFFICES ASSUME NmiPoll # "line" PROVE Spec => []LinesLatched
  OBVIOUS
<1>1. Init => LinesInv
  BY InitInv
<1>2. TypeOK /\ LinesInv /\ [Next]_vars => LinesInv'
  BY LinesNext
<1>3. LinesInv => LinesLatched
  BY DEF LinesInv, Dispatching, LinesLatched
<1>4. QED
  BY <1>1, <1>2, <1>3, TypeCorrect, PTL DEF Spec

(* With tracing on, every instruction is preceded by a visit to haltcpu,   *)
(* in the loop as written and as compiled.                                 *)
THEOREM TraceIsLatched == Spec => []TraceLatched
<1>1. Init => TraceInv
  BY InitInv
<1>2. TypeOK /\ TraceInv /\ [Next]_vars => TraceInv'
  BY TraceNext
<1>3. TraceInv => TraceLatched
  BY DEF TraceInv, TraceLatched
<1>4. QED
  BY <1>1, <1>2, <1>3, TypeCorrect, PTL DEF Spec

(* In the loop as written a caught SIGINT is never forgotten; the run      *)
(* MCZ80EventsCompiled shows what the compiled loop makes of it.           *)
THEOREM BreakIsLatched == HaltLoadedFirst = FALSE => (Spec => []BreakLatched)
<1> SUFFICES ASSUME HaltLoadedFirst = FALSE PROVE Spec => []BreakLatched
  OBVIOUS
<1>1. Init => BreakLatched
  BY InitInv
<1>2. TypeOK /\ BreakLatched /\ [Next]_vars => BreakLatched'
  BY BreakNext
<1>3. QED
  BY <1>1, <1>2, TypeCorrect, PTL DEF Spec
=============================================================================
