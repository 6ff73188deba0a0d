----------------------------- MODULE FilterLine -----------------------------
(***************************************************************************)
(* The filter of module Filter at work: the emulated machine prints byte   *)
(* by byte through its data port, system_poll passes the keys on before    *)
(* every instruction, and either side is anywhere in a command while the   *)
(* other one speaks.                                                       *)
(***************************************************************************)
EXTENDS Filter

CONSTANTS
  RemoteSays,    \* what the machine may print: a set of sequences of bytes
  ConsoleSays,   \* what the user may type
  RemoteEnds,    \* what the machine may print as the last of the turns
  Turns          \* how many of these there are altogether (bound)

Bytes == {ESC, BEL, LF, CR} \union UNION {Range(s) : s \in RemoteSays \union RemoteEnds \union ConsoleSays}
Data  == Bytes \union UNION {Range(HomeFiles[n]) : n \in DOMAIN HomeFiles}
Cells == Data \union {"new", "clear", "run", "list", "time", "date"}

\* No file and no byte holds the word that the filter types to clear a program.
ASSUME LineAssumption ==
  /\ Turns \in Nat
  /\ RemoteSays \union RemoteEnds \union ConsoleSays \subseteq Seq(Bytes)
  /\ "new" \notin Data

VARIABLES
  printing, typing,      \* the rest of what is being printed and typed
  turns,                 \* what is left of Turns
  said, typed,           \* printed since the last end of line, typed since the last command or end of line
  screen,                \* what reached the host's console since the last end of line
  plain,                 \* the line began outside of any command and no byte of it was captured
  since                  \* printed since the capture began

lineVars == <<flt, printing, typing, turns, said, typed, screen, plain, since>>
history  == <<said, typed, screen, plain, since>>

LineInit ==
  /\ FilterInit
  /\ printing = <<>> /\ typing = <<>>
  /\ turns = Turns
  /\ said = <<>> /\ typed = <<>> /\ screen = <<>> /\ plain = TRUE /\ since = <<>>

\* The machine and the user, outside of the filter.
RemoteBegins ==
  /\ printing = <<>> /\ turns > 0
  /\ printing' \in RemoteSays \union (IF turns = 1 THEN RemoteEnds ELSE {})
  /\ turns' = turns - 1
  /\ UNCHANGED <<flt, typing, history>>

ConsoleBegins ==
  /\ typing = <<>> /\ turns > 0
  /\ typing' \in ConsoleSays
  /\ turns' = turns - 1
  /\ UNCHANGED <<flt, printing, history>>

\* mc6850_out_to_console_data: the filter, and then everything that waits for
\* the console, the answers to the console's own commands included.
OutData ==
  LET b == Head(printing)
      f == Filter_ToConsole(flt, b)
  IN  /\ printing # <<>> /\ ~flt.crashed
      /\ flt' = [f EXCEPT !.toConsole = <<>>]
      /\ printing' = Tail(printing)
      /\ said' = IF b \in EndsLine THEN <<>> ELSE Append(said, b)
      /\ screen' = IF b \in EndsLine THEN <<>> ELSE screen \o f.toConsole
      /\ plain' = IF b \in EndsLine THEN f.tcStage = "idle" /\ ~Capturing(f)
                                    ELSE plain /\ ~Capturing(flt) /\ ~Capturing(f)
      /\ since' = IF ~Capturing(f) \/ ~Capturing(flt) THEN <<>> ELSE Append(since, b)
      /\ UNCHANGED <<typing, turns, typed>>

\* FromConsoleBuffered_PollConsole: a key goes into the filter, and then
\* everything that waits for the remote into the console buffer.
PollKey ==
  LET b == Head(typing)
      f == Filter_ToRemote(flt, b)
  IN  /\ typing # <<>> /\ ~flt.crashed
      /\ flt' = [f EXCEPT !.toRemote = <<>>]
      /\ typing' = Tail(typing)
      /\ typed' = IF b \in EndsLine \union {BEL} THEN <<>> ELSE Append(typed, b)
      /\ since' = IF Capturing(f) /\ f.savefp = flt.savefp /\ f.saved = flt.saved /\ f.line = flt.line
                    THEN since ELSE <<>>
      /\ plain' = (plain /\ ~Capturing(f))
      /\ UNCHANGED <<printing, turns, said, screen>>

\* The poll when no key is hit.
PollQuiet ==
  /\ flt.toRemote # <<>> /\ ~flt.crashed
  /\ flt' = [flt EXCEPT !.toRemote = <<>>]
  /\ UNCHANGED <<printing, typing, turns, history>>

LineNext == RemoteBegins \/ ConsoleBegins \/ OutData \/ PollKey \/ PollQuiet

LineSpec == LineInit /\ [][LineNext]_lineVars

-----------------------------------------------------------------------------
\* Every field of the filter's state has its type, a saved line and the
\* autostart buffer fit into their arrays and what waits for the console came
\* from a command typed there.
FilterTypeOK ==
  /\ flt.tcStage \in {"idle", "esc", "cmd"} /\ flt.trStage \in {"idle", "esc", "cmd"}
  /\ flt.tcPos \in 0 .. CmdSize /\ flt.trPos \in 0 .. CmdSize
  /\ DOMAIN flt.tcCmd = 1 .. CmdSize /\ DOMAIN flt.trCmd = 1 .. CmdSize
  /\ Range(flt.tcCmd) \union Range(flt.trCmd) \subseteq Bytes \union {NUL}
  /\ \A t \in Range(flt.toConsole) : t.own
  /\ Range(flt.toRemote) \subseteq Cells
  /\ Len(flt.asBuf) < ASBLen /\ Len(flt.line) < LBsz
  /\ Range(flt.saved) \union Range(flt.line) \subseteq Bytes
  /\ flt.cwd \in {None, "home"}

\* Where a command was opened after the last one that ended.
Openings(line, open) ==
  {i \in 2 .. Len(line) : /\ line[i - 1] = ESC /\ line[i] = open
                         /\ \A j \in i .. Len(line) : line[j] # BEL}

\* The text of the message that ends now: what follows its opening.
Message(line, open) ==
  LET starts == Openings(line, open)
  IN  SubSeq(line, (CHOOSE i \in starts : \A j \in starts : i <= j) + 1, Len(line))

\* An escape after an escape opens nothing, and is not one that opens.
NoDouble(line) == \A i \in 1 .. Len(line) - 1 : line[i] = ESC => line[i + 1] # ESC

\* A command that the buffer holds as a string, short of its last byte, which
\* is never cleared.
Fitting(text) == NUL \notin Range(text) /\ Len(text) < CmdSize - 1

RunsTC == printing # <<>> /\ Head(printing) = BEL /\ flt.tcStage = "cmd" /\ ~Capturing(flt)
RunsTR == typing # <<>> /\ Head(typing) = BEL /\ flt.trStage = "cmd"

\* Filter_ReInitTR clears the buffer in which a command of the remote may be
\* under way: such a command is run as it was sent or not at all, never as
\* something else.
WholeOrNothing ==
  RunsTC /\ plain /\ NoDouble(said) /\ Fitting(Message(said, "{"))
    => TextTC(flt) \in {Message(said, "{"), <<>>}

\* The console's command is the one that was typed, "load file.bas" the load
\* of file.bas (rc2014LL/README.md:112-126).
CommandAsTyped == RunsTR => TextTR(flt) = Message(typed, "}")

\* Escapes that open no command.
Harmless(line) == \A i \in 1 .. Len(line) - 1 : line[i] = ESC => line[i + 1] \notin {ESC, "{"}

\* The remote's bytes on the screen.
Shown == FoldLeft(LAMBDA s, t : IF t.own THEN s ELSE Append(s, t.byte), <<>>, screen)

\* "It should send down the 'esc' then the other character, so that its
\* operation is transparent" (rc2014LL/README.md:178-181): a line with no
\* command in it comes out whole and in order, whatever commands, answers and
\* saves went before and whatever the console has run in the meantime; an
\* escape at its end is held back.
LineShown ==
  plain /\ Harmless(said) =>
    Shown = IF said # <<>> /\ Last(said) = ESC THEN Front(said) ELSE said

\* A step that prints a byte.
Prints == printing # <<>> /\ printing' = Tail(printing)

\* The machine is booted from boot.bas when it prints a line that is the
\* phrase, captured or not, and however long the line is; else only a command
\* of its own clears it, once: "loadrun" is not a "load" too.
AutostartExact ==
  [][Prints =>
       LET b     == Head(printing)
           news(s) == Cardinality({i \in DOMAIN s : s[i] = "new"})
           fresh == news(flt'.toRemote) - news(flt.toRemote)
       IN  IF b = BEL THEN fresh <= 1
           ELSE fresh = IF b \in EndsLine /\ said = Phrase THEN 1 ELSE 0]_lineVars

\* Where the line of position i begins.
LineStart(s, i) == CHOOSE j \in 1 .. i : /\ \A k \in j .. i - 1 : s[k] \notin EndsLine
                                         /\ j = 1 \/ s[j - 1] \in EndsLine

\* The lines with a number, cut to what cfLineBuf holds.
Listing(s) ==
  LET kept == {i \in DOMAIN s : LET j == LineStart(s, i)
                                IN  s[j] \in Digits /\ (s[i] \in EndsLine \/ i - j < LBsz - 1)}
      at(k) == CHOOSE i \in kept : Cardinality({j \in kept : j < i}) = k - 1
  IN  [k \in 1 .. Cardinality(kept) |-> IF s[at(k)] \in EndsLine THEN LF ELSE s[at(k)]]

\* A save that ends leaves in its file the numbered lines that the machine
\* printed since it began, whole and in order, with commands and other output
\* around them.
SavedListing ==
  [][Prints /\ flt.savefp # NoFile /\ flt'.savefp = NoFile =>
       flt'.files[flt.savefp] = Listing(since)]_lineVars
=============================================================================
