------------------------------- MODULE Filter -------------------------------
(***************************************************************************)
(* The console filter of rc2014LL (filter.c, filter_storage.c) between the *)
(* emulated ACIA and the host's console.  What the remote (the emulated    *)
(* machine) prints passes Filter_ToConsole, what is typed passes           *)
(* Filter_ToRemote; either side hides commands in ESC { ... BEL and        *)
(* ESC } ... BEL, whose handlers answer on both sides, and a save diverts  *)
(* the remote's output into a file.                                        *)
(*                                                                         *)
(* A byte is a token: a command word, a name, a digit of a line number is  *)
(* one token, so that "loadrun" is <<"load", "run">> and begins with       *)
(* <<"load">> as it does in C.  None that is printed, typed or in a file   *)
(* is a NUL, at which C's string functions would stop.  A string of the    *)
(* filter's own is one token, marked as its own.  The state is one record, *)
(* as each byte goes through a cascade of calls that change many of its    *)
(* fields.                                                                 *)
(***************************************************************************)
EXTENDS Integers, SequencesExt

CONSTANTS
  HomeFiles,     \* the files of MASS_DRV/BASIC: name (a sequence) -> bytes
  ReadOnly,      \* the names that fopen( , "w") refuses
  Phrase,        \* kAutoBootPhrase
  ASBLen,        \* kASBLen, the size of autostartBuf
  LBsz,          \* kLBsz, the size of cfLineBuf
  CmdSize        \* kFCPosMax, the size of the command buffers

ASSUME FilterAssumption ==
  /\ ASBLen \in Nat /\ LBsz \in Nat \ {0} /\ CmdSize \in Nat \ {0}
  /\ Phrase \in Seq(Range(Phrase)) /\ Len(Phrase) < ASBLen - 2
  /\ HomeFiles = [n \in DOMAIN HomeFiles |-> HomeFiles[n]]
  /\ \A n \in DOMAIN HomeFiles : HomeFiles[n] \in Seq(Range(HomeFiles[n]))

NUL == "NUL"
ESC == "ESC"
BEL == "BEL"
LF  == "\n"
CR  == "\r"
EndsLine == {LF, CR}
Digits   == {"1", "2", "9"}
None     == "none"
NoFile   == <<>>       \* no name, no save

VARIABLE flt

Blank == [i \in 1 .. CmdSize |-> NUL]

FilterInit ==
  flt = [tcStage |-> "idle", tcCmd |-> Blank, tcPos |-> 0,
         trStage |-> "idle", trCmd |-> Blank, trPos |-> 0,
         toConsole |-> <<>>, toRemote |-> <<>>,
         asBuf |-> <<>>,
         consume |-> FALSE,            \* consumeFcn is consumeSaveByte
         savefp |-> NoFile, saved |-> <<>>, line |-> <<>>, gotNumbers |-> FALSE,
         cwd |-> None,                 \* NULL until Handle_init or Handle_cd
         files |-> HomeFiles,
         crashed |-> FALSE]

-----------------------------------------------------------------------------
(* The queues.  Tokens for the console say whether they are the filter's.  *)

Passed(b) == [own |-> FALSE, byte |-> b]
Own(s)    == [own |-> TRUE, byte |-> s]

Show(f, bs)    == [f EXCEPT !.toConsole = @ \o bs]
Say(f, s)      == Show(f, <<Own(s)>>)
Enter(f, bs)   == [f EXCEPT !.toRemote = @ \o bs]

-----------------------------------------------------------------------------
(* The handlers.                                                           *)

\* fopen( , "r"): only the home directory holds files; with no name it is
\* the directory that is opened, and it reads as an empty file.
Readable(f, name) == f.cwd # None /\ (name = <<>> \/ name \in DOMAIN f.files)
Contents(f, name) == IF name = <<>> THEN <<>> ELSE f.files[name]

\* CR and LF are typed as LF CR, the second of two goes through unchanged.
Typed(bytes) ==
  FoldLeft(LAMBDA t, c : IF c \in EndsLine /\ ~t.crlf
                           THEN [crlf |-> TRUE, out |-> t.out \o <<LF, CR>>]
                           ELSE [crlf |-> FALSE, out |-> Append(t.out, c)],
           [crlf |-> FALSE, out |-> <<>>], bytes).out

CannotOpen(f) == Say(f, "Cannot open")

Handle_type(f, name) ==
  IF Readable(f, name)
    THEN Say(Enter(Say(f, "Typing"), Typed(Contents(f, name))), "Done")
    ELSE CannotOpen(f)

Handle_more(f, name) ==
  IF Readable(f, name)
    THEN Show(f, [i \in DOMAIN Contents(f, name) |-> Own(Contents(f, name)[i])])
    ELSE CannotOpen(f)

Handle_load(f, name)    == Handle_type(Enter(f, <<"new", "clear">>), name)
Handle_chain(f, name)   == Enter(Handle_type(f, name), <<"run">>)
Handle_loadrun(f, name) == Enter(Handle_load(f, name), <<"run">>)
Handle_boot(f)          == Handle_loadrun(f, <<"boot">>)
\* opendir of a null pointer reads from it too.
Handle_catalog(f)       == IF f.cwd = None THEN [f EXCEPT !.crashed = TRUE] ELSE Say(f, "Listing")
Handle_cd(f, path)      == IF path = <<>> THEN [f EXCEPT !.cwd = "home"] ELSE f

\* Capture begins with an empty line.
Capture_KeepsLine(f) == [f EXCEPT !.saved = <<>>, !.gotNumbers = FALSE, !.consume = TRUE]
Capture(f)           == [f EXCEPT !.saved = <<>>, !.gotNumbers = FALSE, !.consume = TRUE, !.line = <<>>]

\* Before cwd is set, strncpy reads from a null pointer.  Opening truncates
\* the file; an open file that is replaced is never closed and what is in its
\* buffer is not written before the emulator exits.
Handle_save(f, name) ==
  CASE f.cwd = None -> [f EXCEPT !.crashed = TRUE]
    [] f.cwd # None /\ (name = <<>> \/ name \in ReadOnly) -> [f EXCEPT !.savefp = NoFile]
    [] OTHER ->
         Capture([Enter(f, <<"list">>) EXCEPT
           !.files = [n \in DOMAIN @ \union {name} |-> IF n = name THEN <<>> ELSE @[n]],
           !.savefp = name])

Handle(f, name, args) ==
  CASE name = <<"boot">>        -> Handle_boot(f)
    [] name = <<"more">>        -> Handle_more(f, args)
    [] name = <<"type">>        -> Handle_type(f, args)
    [] name = <<"chain">>       -> Handle_chain(f, args)
    [] name = <<"load", "run">> -> Handle_loadrun(f, args)
    [] name = <<"load">>        -> Handle_load(f, args)
    [] name = <<"save">>        -> Handle_save(f, args)
    [] name = <<"catalog">>     -> Handle_catalog(f)
    [] name = <<"cd">>          -> Handle_cd(f, args)
    [] name = <<"seconds">>     -> Enter(f, <<"time">>)
    [] name = <<"date">>        -> Enter(f, <<"date">>)

trFuncs == << <<"boot">>, <<"more">>, <<"type">>, <<"chain">>, <<"load", "run">>, <<"load">>,
              <<"save">>, <<"catalog">>, <<"cd">>, <<"seconds">>, <<"date">> >>
tcFuncs == << <<"boot">>, <<"type">>, <<"chain">>, <<"load", "run">>, <<"load">>,
              <<"save">>, <<"catalog">>, <<"cd">>, <<"seconds">>, <<"date">> >>

\* The bytes before the first NUL.
CString(buf) ==
  LET ends == {i \in DOMAIN buf : buf[i] = NUL}
  IN  IF ends = {} THEN buf ELSE SubSeq(buf, 1, (CHOOSE i \in ends : \A j \in ends : i <= j) - 1)

Fits(funcs, text)   == {i \in DOMAIN funcs : IsPrefix(funcs[i], text)}
Args(name, text)    == SubSeq(text, Len(name) + 1, Len(text))
Handle_init(f)      == IF f.cwd = None THEN [f EXCEPT !.cwd = "home"] ELSE f

HandleFits(f, text, name) ==
  IF IsPrefix(name, text) /\ ~f.crashed THEN Handle(f, name, Args(name, text)) ELSE f

\* A command of the remote: the first name that fits.
ProcessTC(f, text) ==
  LET fits == Fits(tcFuncs, text)
  IN  CASE text = <<>> -> f
        [] text # <<>> /\ fits = {} -> Say(f, "Command not found")
        [] OTHER -> LET name == tcFuncs[Min(fits)] IN Handle(Handle_init(f), name, Args(name, text))

\* A command of the console: every name that fits, one after the other, and
\* no Handle_init.
ProcessTR(f, text) ==
  CASE text = <<>> -> f
    [] text # <<>> /\ Fits(trFuncs, text) = {} -> Say(f, "Command not found")
    [] OTHER -> LET handled[i \in 0 .. Len(trFuncs)] ==
                      IF i = 0 THEN f ELSE HandleFits(handled[i - 1], text, trFuncs[i])
                IN  handled[Len(trFuncs)]

-----------------------------------------------------------------------------
(* From the remote to the console.                                         *)

\* Of a line that is too long only the beginning is kept.
Remember_Unbounded(f, b) == [f EXCEPT !.asBuf = Append(@, b)]
Remember_Short(f, b)     == IF Len(f.asBuf) < ASBLen - 3 THEN [f EXCEPT !.asBuf = Append(@, b)] ELSE f
Remember(f, b)           == IF Len(f.asBuf) < ASBLen - 2 THEN [f EXCEPT !.asBuf = Append(@, b)] ELSE f

\* The line the remote prints is compared with the phrase at its end.
AutostartCheck(f, b) ==
  LET booted == IF f.asBuf = Phrase THEN ProcessTC(Say(f, "Autostart"), <<"boot">>) ELSE f
  IN  IF b \in EndsLine THEN [booted EXCEPT !.asBuf = <<>>] ELSE Remember(f, b)

\* The capture is on as long as there is a file.
Capturing(f) == f.consume /\ f.savefp # NoFile

Numbered(l) == l # <<>> /\ l[1] \in Digits

SaveLine(f) == [f EXCEPT !.saved = @ \o f.line \o <<LF>>, !.gotNumbers = TRUE, !.line = <<>>]

CloseSave(f) ==
  [f EXCEPT !.gotNumbers = FALSE, !.savefp = NoFile, !.saved = <<>>, !.line = <<>>,
            !.files = [@ EXCEPT ![f.savefp] = f.saved]]

\* A line with a number is saved; the first other one after these ends the
\* save; an empty one is nothing.
EndOfSavedLine(f) ==
  LET g == Say(f, ".")
  IN  CASE f.line = <<>> -> g
        [] Numbered(f.line) -> SaveLine(g)
        [] f.line # <<>> /\ ~Numbered(f.line) /\ f.gotNumbers -> Say(CloseSave(g), "Done saving")
        [] OTHER -> [g EXCEPT !.line = <<>>]

consumeSaveByte(f, b) ==
  CASE b \in EndsLine -> EndOfSavedLine(f)
    [] b \notin EndsLine /\ Len(f.line) <= LBsz - 2 -> [f EXCEPT !.line = Append(@, b)]
    [] OTHER -> f

\* The loop that clears the buffer stops before its last byte.
Cleared_AfterFirst(cmd) == [i \in DOMAIN cmd |-> IF i \in 2 .. CmdSize - 1 THEN NUL ELSE cmd[i]]
Cleared(cmd) == [i \in DOMAIN cmd |-> IF i < CmdSize THEN NUL ELSE cmd[i]]

ReInitTC(f) == [f EXCEPT !.tcStage = "idle", !.tcCmd = Cleared(@), !.tcPos = 0]

CollectTC(f, b) ==
  IF f.tcPos < CmdSize
    THEN [f EXCEPT !.tcCmd[f.tcPos + 1] = b, !.tcPos = @ + 1]
    ELSE f

TextTC(f) == IF f.tcPos < 1 THEN <<>> ELSE CString(f.tcCmd)

\* The end of a line gives up whatever was begun.
BailsOut(f, b) == f.tcStage \in {"esc", "cmd"} /\ b \in EndsLine

\* An escape that opens no command is passed on with what follows it.
Inject_Last(f, b) == Show([f EXCEPT !.tcStage = "idle"], <<Passed(b)>>)
Inject(f, b)      == Show([f EXCEPT !.tcStage = "idle"], <<Passed(ESC), Passed(b)>>)

StageTC(f, b) ==
  CASE f.tcStage = "idle" /\ b = ESC -> [f EXCEPT !.tcStage = "esc"]
    [] f.tcStage = "idle" /\ b # ESC -> Show(f, <<Passed(b)>>)
    [] BailsOut(f, b) -> ReInitTC(f)
    [] f.tcStage = "esc" /\ b = "{" -> [f EXCEPT !.tcStage = "cmd"]
    [] f.tcStage = "esc" /\ b \notin EndsLine \union {"{"} -> Inject(f, b)
    [] f.tcStage = "cmd" /\ b = BEL -> ReInitTC(ProcessTC([f EXCEPT !.tcStage = "idle"], TextTC(f)))
    [] OTHER -> CollectTC(f, b)

Filter_ToConsole(f, b) ==
  LET g == AutostartCheck(f, b)
  IN  IF Capturing(g) THEN consumeSaveByte(g, b) ELSE StageTC([g EXCEPT !.consume = FALSE], b)

-----------------------------------------------------------------------------
(* From the console to the remote.                                         *)

\* It is the other direction's buffer that is cleared.
ReInitTR(f) == [f EXCEPT !.trStage = "idle", !.tcCmd = Cleared(@), !.trPos = 0]

CollectTR(f, b) ==
  IF f.trPos < CmdSize
    THEN [f EXCEPT !.trCmd[f.trPos + 1] = b, !.trPos = @ + 1]
    ELSE f

TextTR(f) == IF f.trPos < 1 THEN <<>> ELSE CString(f.trCmd)

\* The end of a line after the escape bails out and is then sent on, with
\* the escape, as any other byte.
StageTR(f, b) ==
  CASE f.trStage = "idle" /\ b = ESC -> [f EXCEPT !.trStage = "esc"]
    [] f.trStage = "idle" /\ b # ESC -> Enter(f, <<b>>)
    [] f.trStage = "esc" /\ b \in EndsLine -> Enter(ReInitTR(f), <<ESC, b>>)
    [] f.trStage = "esc" /\ b = "}" -> [f EXCEPT !.trStage = "cmd"]
    [] f.trStage = "esc" /\ b \notin EndsLine \union {"}"} ->
         Enter([f EXCEPT !.trStage = "idle"], <<ESC, b>>)
    [] f.trStage = "cmd" /\ b \in EndsLine -> ReInitTR(f)
    [] f.trStage = "cmd" /\ b = BEL -> ReInitTR(ProcessTR([f EXCEPT !.trStage = "idle"], TextTR(f)))
    [] OTHER -> CollectTR(f, b)

Filter_ToRemote(f, b) == StageTR(f, b)
=============================================================================
