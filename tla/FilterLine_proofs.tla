------------------------- MODULE FilterLine_proofs -------------------------
(***************************************************************************)
(* Theorems about the console filter at work.  The folds that type a file, *)
(* run a command of the console and collect what is on the screen are      *)
(* unfolded first: a set with 0 and the successor of each of its numbers   *)
(* holds them all (NatSet), so that what holds of a step of a fold holds   *)
(* of its result.  Then every handler and every stage is given what it     *)
(* keeps, the line that is printed what it says of the stage it leaves the *)
(* filter in, and LineInv and Buffered, which are inductive, follow.       *)
(***************************************************************************)
EXTENDS FilterLine, SequenceTheorems, FiniteSetTheorems, TLAPS

-----------------------------------------------------------------------------
(* Induction.                                                              *)

\* A set of naturals has a least one: of its initial segments one is included
\* in the others.
LEMMA LeastNat ==
  ASSUME NEW T \in SUBSET Nat, T # {}
  PROVE  \E m \in T : \A n \in T : m <= n
<1>1. PICK t \in T : TRUE
  OBVIOUS
<1> DEFINE S == 0 .. t
           R == StrictSubsetOrdering(S)
           F == {0 .. k : k \in {n \in T : n <= t}}
<1>2. t \in Nat /\ IsFiniteSet(S)
  BY FS_Interval
<1>3. IsWellFoundedOn(R, SUBSET S)
  <2>1. IsWellFoundedOn(R, FiniteSubsetsOf(S))
    BY FS_StrictSubsetOrderingWellFounded
  <2>2. FiniteSubsetsOf(S) = SUBSET S
    BY <1>2, FS_FiniteSubsetsOfFinite
  <2> QED BY <2>1, <2>2
<1>4. F \subseteq SUBSET S /\ F # {}
  BY <1>2
<1>5. \E x \in F : \A y \in F : ~ (<<y, x>> \in R)
  <2> HIDE DEF R, F, S
  <2> QED BY <1>3, <1>4, WFMin
<1>6. PICK m \in {n \in T : n <= t} : \A n \in {j \in T : j <= t} : ~ (<<0 .. n, 0 .. m>> \in R)
  BY <1>5
<1>7. \A n \in {j \in T : j <= t} : n < m => <<0 .. n, 0 .. m>> \in R
  <2> SUFFICES ASSUME NEW n \in T, n <= t, n < m PROVE <<0 .. n, 0 .. m>> \in R
    OBVIOUS
  <2>1. m \in 0 .. m /\ m \notin 0 .. n /\ 0 .. n \subseteq 0 .. m /\ 0 .. m \subseteq S /\ 0 .. n \subseteq S
    BY <1>2
  <2> QED BY <2>1 DEF StrictSubsetOrdering
<1>8. ASSUME NEW n \in T PROVE m <= n
  <2>1. m \in Nat /\ n \in Nat /\ m <= t /\ t \in Nat
    BY <1>2
  <2>2. n <= t => ~(n < m)
    <3> HIDE DEF R
    <3> QED BY <1>6, <1>7
  <2> QED BY <2>1, <2>2
<1> QED BY <1>8

\* A set with 0 and the successor of each of its numbers has them all.
LEMMA NatSet ==
  ASSUME NEW T, 0 \in T, \A n \in Nat : n \in T => n + 1 \in T
  PROVE  Nat \subseteq T
<1> SUFFICES ASSUME NEW x \in Nat, x \notin T PROVE FALSE
  OBVIOUS
<1>1. PICK m \in Nat \ T : \A n \in Nat \ T : m <= n
  BY LeastNat
<1>2. m # 0 /\ m - 1 \in Nat
  BY <1>1
<1>3. m - 1 \in T
  BY <1>1, <1>2
<1> QED BY <1>1, <1>2, <1>3

\* The order in which a fold takes the elements of 1 .. n.
LEMMA MaxIs ==
  ASSUME NEW n \in Nat, NEW S \in SUBSET (1 .. n), S # {}
  PROVE  Max(S) \in S /\ \A k \in S : k <= Max(S)
<1> DEFINE T == {n - k : k \in S}
<1>1. T \in SUBSET Nat /\ T # {}
  <2>1. \A k \in S : n - k \in Nat
    OBVIOUS
  <2> QED BY <2>1
<1>2. PICK m \in T : \A k \in T : m <= k
  <2> HIDE DEF T
  <2> QED BY <1>1, LeastNat
<1>3. PICK x \in S : m = n - x
  BY <1>2
<1>4. ASSUME NEW k \in S PROVE k <= x
  <2>1. n - k \in T
    OBVIOUS
  <2>2. n - x <= n - k
    <3> HIDE DEF T
    <3> QED BY <1>2, <1>3, <2>1
  <2>3. n \in Nat /\ k \in Nat /\ x \in Nat
    OBVIOUS
  <2> QED BY <2>2, <2>3
<1> QED BY <1>3, <1>4 DEF Max

LEMMA InitialSegment ==
  ASSUME NEW n \in Nat
  PROVE  /\ Max(1 .. n + 1) = n + 1
         /\ (1 .. n + 1) \ {n + 1} = 1 .. n
         /\ 1 .. n + 1 # {}
<1>1. n + 1 \in 1 .. n + 1 /\ n + 1 \in Nat /\ 1 .. n + 1 \in SUBSET (1 .. n + 1)
  OBVIOUS
<1>2. Max(1 .. n + 1) \in 1 .. n + 1 /\ n + 1 <= Max(1 .. n + 1)
  <2> DEFINE S == 1 .. n + 1
  <2>1. S \in SUBSET (1 .. n + 1) /\ S # {} /\ n + 1 \in S
    BY <1>1
  <2>2. Max(S) \in S /\ \A k \in S : k <= Max(S)
    <3> HIDE DEF S
    <3> QED BY <1>1, <2>1, MaxIs
  <2> QED BY <2>1, <2>2
<1>3. ASSUME NEW k PROVE k \in (1 .. n + 1) \ {n + 1} <=> k \in 1 .. n
  OBVIOUS
<1> QED BY <1>1, <1>2, <1>3

\* A function that folds F over the subsets of 1 .. N, from their least
\* element on, as MapThenFoldSet chooses it.
FoldsOver(g, T, base, N, F) ==
  /\ g \in [SUBSET (1 .. N) -> T]
  /\ \A S \in SUBSET (1 .. N) : g[S] = IF S = {} THEN base ELSE F[<<g[S \ {Max(S)}], Max(S)>>]

LEMMA FoldExists ==
  ASSUME NEW T, NEW base \in T, NEW N \in Nat, NEW F \in [T \X (1 .. N) -> T]
  PROVE  \E g : FoldsOver(g, T, base, N, F)
<1> DEFINE P(n) == \E g \in [SUBSET (1 .. n) -> T] : \A S \in SUBSET (1 .. n) :
                     g[S] = IF S = {} THEN base ELSE F[<<g[S \ {Max(S)}], Max(S)>>]
           Good == {n \in Nat : n <= N => P(n)}
<1>1. 0 \in Good
  <2> DEFINE g == [S \in SUBSET (1 .. 0) |-> base]
  <2>1. g \in [SUBSET (1 .. 0) -> T] /\ \A S \in SUBSET (1 .. 0) : S = {} /\ g[S] = base
    OBVIOUS
  <2> QED BY <2>1
<1>2. ASSUME NEW n \in Nat, n \in Good PROVE n + 1 \in Good
  <2> SUFFICES ASSUME n + 1 <= N PROVE P(n + 1)
    <3> HIDE DEF P
    <3> QED BY DEF Good
  <2>0. n <= N /\ P(n)
    <3> HIDE DEF P
    <3> QED BY <1>2
  <2>1. PICK g \in [SUBSET (1 .. n) -> T] : \A S \in SUBSET (1 .. n) :
                g[S] = IF S = {} THEN base ELSE F[<<g[S \ {Max(S)}], Max(S)>>]
    BY <2>0
  <2> DEFINE h == [S \in SUBSET (1 .. n + 1) |->
                     IF n + 1 \in S THEN F[<<g[S \ {n + 1}], n + 1>>] ELSE g[S]]
  <2>2. \A S \in SUBSET (1 .. n + 1) : n + 1 \notin S => S \in SUBSET (1 .. n)
    OBVIOUS
  <2>3. \A S \in SUBSET (1 .. n + 1) : S \ {n + 1} \in SUBSET (1 .. n)
    <3>1. \A j \in 1 .. n + 1 : j # n + 1 => j \in 1 .. n
      OBVIOUS
    <3> QED BY <3>1
  <2>4. h \in [SUBSET (1 .. n + 1) -> T]
    BY <2>1, <2>2, <2>3
  <2>5. ASSUME NEW S \in SUBSET (1 .. n + 1)
        PROVE  h[S] = IF S = {} THEN base ELSE F[<<h[S \ {Max(S)}], Max(S)>>]
    <3>1. CASE n + 1 \in S
      <4>1. Max(S) = n + 1
        <5>1. Max(S) \in S /\ n + 1 <= Max(S)
          BY <3>1, MaxIs, n + 1 \in Nat
        <5>2. Max(S) \in 1 .. n + 1
          BY <5>1
        <5> QED BY <5>1, <5>2
      <4>2. h[S \ {n + 1}] = g[S \ {n + 1}]
        BY <2>3
      <4> QED BY <3>1, <4>1, <4>2
    <3>2. CASE n + 1 \notin S
      <4>1. S \in SUBSET (1 .. n) /\ h[S] = g[S]
        BY <3>2, <2>2
      <4>2. S # {} => h[S \ {Max(S)}] = g[S \ {Max(S)}]
        BY <3>2, <4>1
      <4> QED BY <2>1, <4>1, <4>2
    <3> QED BY <3>1, <3>2
  <2> HIDE DEF h
  <2> QED BY <2>4, <2>5
<1>3. Nat \subseteq Good
  <2> HIDE DEF Good
  <2> QED BY <1>1, <1>2, NatSet
<1> QED
  <2>1. P(N)
    <3> HIDE DEF P
    <3> QED BY <1>3
  <2> QED BY <2>1 DEF FoldsOver

\* A function that is defined by recursion over 0 .. N.
RecursOver(h, T, base, N, F) ==
  /\ h \in [0 .. N -> T]
  /\ \A i \in 0 .. N : h[i] = IF i = 0 THEN base ELSE F[<<h[i - 1], i>>]

LEMMA RecursionExists ==
  ASSUME NEW T, NEW base \in T, NEW N \in Nat, NEW F \in [T \X (1 .. N) -> T]
  PROVE  \E h : RecursOver(h, T, base, N, F)
<1>1. PICK g : FoldsOver(g, T, base, N, F)
  BY FoldExists
<1> DEFINE h == [i \in 0 .. N |-> g[1 .. i]]
<1>2. \A i \in 0 .. N : 1 .. i \in SUBSET (1 .. N)
  OBVIOUS
<1>3. h \in [0 .. N -> T]
  BY <1>1, <1>2 DEF FoldsOver
<1>4. ASSUME NEW i \in 0 .. N PROVE h[i] = IF i = 0 THEN base ELSE F[<<h[i - 1], i>>]
  <2>1. CASE i = 0
    <3>1. 1 .. 0 = {} /\ {} \in SUBSET (1 .. N)
      OBVIOUS
    <3> QED BY <1>1, <2>1, <3>1 DEF FoldsOver
  <2>2. CASE i # 0
    <3> DEFINE n == i - 1
               S == 1 .. i
    <3>1. n \in Nat /\ n \in 0 .. N /\ n + 1 = i
      BY <2>2
    <3>2. Max(S) = i /\ S \ {i} = 1 .. n /\ S # {}
      <4> HIDE DEF n
      <4> QED BY <3>1, InitialSegment
    <3>3. S \in SUBSET (1 .. N)
      BY <1>2
    <3>4. h[i] = g[S] /\ h[n] = g[1 .. n]
      BY <3>1
    <3> HIDE DEF S, n, h
    <3>5. g[S] = F[<<g[S \ {Max(S)}], Max(S)>>]
      BY <1>1, <3>2, <3>3 DEF FoldsOver
    <3> QED BY <2>2, <3>2, <3>4, <3>5 DEF n
  <2> QED BY <2>1, <2>2
<1> QED
  <2> HIDE DEF h
  <2>1. RecursOver(h, T, base, N, F)
    BY <1>3, <1>4 DEF RecursOver
  <2> QED BY <2>1

-----------------------------------------------------------------------------
(* The types.                                                              *)

\* A command and its arguments, as a buffer holds them.
Text  == Seq(Bytes \union {NUL})
Names == Text \union DOMAIN HomeFiles

Messages == {"Typing", "Done", "Cannot open", "Listing", "Command not found", "Autostart",
             ".", "Done saving"}
Token    == [own : BOOLEAN, byte : Cells \union Messages]
OwnToken == [own : {TRUE}, byte : Cells \union Messages]

FilesType == UNION {[D -> Seq(Data)] : D \in SUBSET Names}

Stages   == {"idle", "esc", "cmd"}
Buffer   == [1 .. CmdSize -> Bytes \union {NUL}]
Position == 0 .. CmdSize
Shows    == Seq(Token)
Sends    == Seq(Cells)
Printed  == Seq(Bytes)
Dirs     == {None, "home"}

Flt == [tcStage : Stages, tcCmd : Buffer, tcPos : Position,
        trStage : Stages, trCmd : Buffer, trPos : Position,
        toConsole : Shows, toRemote : Sends, asBuf : Printed,
        consume : BOOLEAN, savefp : Names, saved : Printed, line : Printed, gotNumbers : BOOLEAN,
        cwd : Dirs, files : FilesType, crashed : BOOLEAN]

\* What no handler touches.
SameLine(f, g) ==
  /\ g.tcStage = f.tcStage /\ g.tcCmd = f.tcCmd /\ g.tcPos = f.tcPos
  /\ g.trStage = f.trStage /\ g.trCmd = f.trCmd /\ g.trPos = f.trPos
  /\ g.asBuf = f.asBuf

\* What no handler touches but that of a save.
SameSave(f, g) ==
  /\ g.consume = f.consume /\ g.savefp = f.savefp /\ g.saved = f.saved
  /\ g.line = f.line /\ g.gotNumbers = f.gotNumbers /\ g.files = f.files

\* What is queued for the console.
LEMMA ShowIs ==
  ASSUME NEW f \in Flt, NEW bs \in Seq(Token)
  PROVE  /\ Show(f, bs) \in Flt
         /\ SameLine(f, Show(f, bs)) /\ SameSave(f, Show(f, bs))
         /\ Show(f, bs).toConsole = f.toConsole \o bs
         /\ Show(f, bs).toRemote = f.toRemote
         /\ Show(f, bs).cwd = f.cwd /\ Show(f, bs).crashed = f.crashed
<1> DEFINE v == f.toConsole \o bs
<1>1. f.toConsole \in Seq(Token)
  BY DEF Flt, Shows
<1>2. v \in Shows
  BY <1>1 DEF Shows
<1>3. Show(f, bs) = [f EXCEPT !.toConsole = v]
  BY DEF Show
<1> HIDE DEF v
<1>4. Show(f, bs) \in Flt /\ Show(f, bs).toConsole = v
  BY <1>2, <1>3 DEF Flt
<1>5. SameLine(f, Show(f, bs)) /\ SameSave(f, Show(f, bs))
         /\ Show(f, bs).toRemote = f.toRemote
         /\ Show(f, bs).cwd = f.cwd /\ Show(f, bs).crashed = f.crashed
  BY <1>2, <1>3 DEF Flt, SameLine, SameSave
<1> QED BY <1>4, <1>5 DEF v

\* An answer of the filter on either side, and what a handler may do.
Answered(f, g) ==
  /\ g \in Flt /\ SameLine(f, g) /\ SameSave(f, g)
  /\ f.toConsole \in Seq(OwnToken) => g.toConsole \in Seq(OwnToken)
  /\ g.cwd = f.cwd /\ g.crashed = f.crashed

Handled(f, g) ==
  /\ g \in Flt /\ SameLine(f, g)
  /\ Len(f.line) < LBsz => Len(g.line) < LBsz
  /\ f.toConsole \in Seq(OwnToken) => g.toConsole \in Seq(OwnToken)

LEMMA AnsweredTwice ==
  ASSUME NEW f, NEW g, NEW h, Answered(f, g), Answered(g, h)
  PROVE  Answered(f, h)
  BY DEF Answered, SameLine, SameSave

LEMMA HandledTwice ==
  ASSUME NEW f, NEW g, NEW h, Handled(f, g), Handled(g, h)
  PROVE  Handled(f, h)
  BY DEF Handled, SameLine

LEMMA AnsweredHandled ==
  ASSUME NEW f, NEW g, Answered(f, g)
  PROVE  Handled(f, g)
  BY DEF Answered, Handled, SameSave

LEMMA HandledSelf ==
  ASSUME NEW f \in Flt
  PROVE  Handled(f, f) /\ Answered(f, f)
  BY DEF Answered, Handled, SameLine, SameSave

\* What is queued for the remote.
LEMMA EnterIs ==
  ASSUME NEW f \in Flt, NEW bs \in Seq(Cells)
  PROVE  Answered(f, Enter(f, bs)) /\ Enter(f, bs).toConsole = f.toConsole
         /\ Enter(f, bs).toRemote = f.toRemote \o bs
<1> DEFINE v == f.toRemote \o bs
<1>1. f.toRemote \in Seq(Cells)
  BY DEF Flt, Sends
<1>2. v \in Sends
  BY <1>1 DEF Sends
<1>3. Enter(f, bs) = [f EXCEPT !.toRemote = v]
  BY DEF Enter
<1> HIDE DEF v
<1>4. Enter(f, bs) \in Flt /\ Enter(f, bs).toRemote = v
  BY <1>2, <1>3 DEF Flt
<1>5. SameLine(f, Enter(f, bs)) /\ SameSave(f, Enter(f, bs))
         /\ Enter(f, bs).toConsole = f.toConsole
         /\ Enter(f, bs).cwd = f.cwd /\ Enter(f, bs).crashed = f.crashed
  BY <1>2, <1>3 DEF Flt, SameLine, SameSave
<1> QED BY <1>4, <1>5 DEF v, Answered

LEMMA OwnIs ==
  ASSUME NEW s \in Cells \union Messages
  PROVE  Own(s) \in OwnToken
  BY DEF Own, OwnToken

LEMMA OwnTokens == OwnToken \subseteq Token /\ Seq(OwnToken) \subseteq Seq(Token)
<1>1. OwnToken \subseteq Token
  BY DEF OwnToken, Token
<1> QED BY <1>1, SeqMonotonic

LEMMA ShowOwnIs ==
  ASSUME NEW f \in Flt, NEW bs \in Seq(OwnToken)
  PROVE  Answered(f, Show(f, bs)) /\ Show(f, bs).toRemote = f.toRemote
<1>1. bs \in Seq(Token)
  BY OwnTokens
<1>2. f.toConsole \in Seq(OwnToken) => f.toConsole \o bs \in Seq(OwnToken)
  OBVIOUS
<1> QED BY <1>1, <1>2, ShowIs DEF Answered

\* What the filter says.
LEMMA SayIs ==
  ASSUME NEW f \in Flt, NEW s \in Cells \union Messages
  PROVE  Answered(f, Say(f, s)) /\ Say(f, s).toRemote = f.toRemote
<1>1. <<Own(s)>> \in Seq(OwnToken)
  BY OwnIs
<1> QED BY <1>1, ShowOwnIs DEF Say

LEMMA InitIs ==
  ASSUME NEW f \in Flt
  PROVE  LET g == Handle_init(f)
         IN  /\ g \in Flt /\ SameLine(f, g) /\ SameSave(f, g) /\ g.cwd = "home"
             /\ g.toConsole = f.toConsole /\ g.toRemote = f.toRemote /\ g.crashed = f.crashed
<1>1. "home" \in Dirs /\ f.cwd \in Dirs
  BY DEF Dirs, Flt
<1>2. CASE f.cwd = None
  <2>1. Handle_init(f) = [f EXCEPT !.cwd = "home"]
    BY <1>2 DEF Handle_init
  <2> QED BY <2>1, <1>1 DEF Flt, SameLine, SameSave
<1>3. CASE f.cwd # None
  BY <1>1, <1>3 DEF Handle_init, Dirs, SameLine, SameSave
<1> QED BY <1>2, <1>3

-----------------------------------------------------------------------------
\* What is typed of a file, one byte after the other.
TypedStep(t, c) ==
  IF c \in EndsLine /\ ~t.crlf THEN [crlf |-> TRUE, out |-> t.out \o <<LF, CR>>]
                               ELSE [crlf |-> FALSE, out |-> Append(t.out, c)]

TypedType == [crlf : BOOLEAN, out : Seq(Data)]

LEMMA TypedStepIs ==
  ASSUME NEW t \in TypedType, NEW c \in Data
  PROVE  TypedStep(t, c) \in TypedType
<1>1. LF \in Data /\ CR \in Data
  BY DEF Data, Bytes
<1>2. t.out \in Seq(Data)
  BY DEF TypedType
<1>3. t.out \o <<LF, CR>> \in Seq(Data) /\ Append(t.out, c) \in Seq(Data)
  BY <1>1, <1>2
<1> QED BY <1>3 DEF TypedStep, TypedType

LEMMA TypedIs ==
  ASSUME NEW s \in Seq(Data)
  PROVE  Typed(s) \in Seq(Data)
<1> DEFINE base == [crlf |-> FALSE, out |-> <<>>]
           N    == Len(s)
           F    == [p \in TypedType \X (1 .. N) |-> TypedStep(p[1], s[p[2]])]
           iter == CHOOSE f : f = [S \in SUBSET (DOMAIN s) |->
                      IF S = {} THEN base ELSE TypedStep(f[S \ {Max(S)}], s[Max(S)])]
<1>1. base \in TypedType /\ N \in Nat /\ DOMAIN s = 1 .. N
  BY DEF TypedType
<1>2. \A t \in TypedType, i \in 1 .. N :
        F[<<t, i>>] = TypedStep(t, s[i]) /\ TypedStep(t, s[i]) \in TypedType
  BY TypedStepIs
<1>3. PICK g : FoldsOver(g, TypedType, base, N, F)
  <2>1. F \in [TypedType \X (1 .. N) -> TypedType]
    BY <1>2 DEF F
  <2> HIDE DEF F, base, N, iter
  <2> QED BY <1>1, <2>1, FoldExists
<1>4. g = [S \in SUBSET (DOMAIN s) |-> IF S = {} THEN base ELSE TypedStep(g[S \ {Max(S)}], s[Max(S)])]
  <2>1. ASSUME NEW S \in SUBSET (1 .. N), S # {}
        PROVE  g[S] = TypedStep(g[S \ {Max(S)}], s[Max(S)])
    <3>1. Max(S) \in 1 .. N
      BY <1>1, <2>1, MaxIs
    <3>2. g[S \ {Max(S)}] \in TypedType
      BY <1>3 DEF FoldsOver
    <3> HIDE DEF F, base, N
    <3> QED BY <1>2, <1>3, <2>1, <3>1, <3>2 DEF FoldsOver
  <2> HIDE DEF F, base, N
  <2> QED BY <1>1, <1>3, <2>1 DEF FoldsOver
<1>5. /\ Typed(s) = iter[DOMAIN s].out
      /\ iter = [S \in SUBSET (DOMAIN s) |-> IF S = {} THEN base ELSE TypedStep(iter[S \ {Max(S)}], s[Max(S)])]
  BY <1>4 DEF Typed, FoldLeft, MapThenFoldSet, TypedStep
<1> DEFINE Good == {n \in Nat : n <= N => iter[1 .. n] \in TypedType}
<1>6. 0 \in Good
  <2> HIDE DEF iter
  <2>1. 1 .. 0 = {} /\ {} \in SUBSET (DOMAIN s)
    OBVIOUS
  <2> QED BY <1>1, <1>5, <2>1
<1>7. ASSUME NEW n \in Nat, n \in Good PROVE n + 1 \in Good
  <2> SUFFICES ASSUME n + 1 <= N PROVE iter[1 .. n + 1] \in TypedType
    OBVIOUS
  <2> HIDE DEF iter
  <2>1. 1 .. n + 1 \in SUBSET (DOMAIN s) /\ n + 1 \in 1 .. N
    BY <1>1
  <2>2. iter[1 .. n + 1] = TypedStep(iter[1 .. n], s[n + 1])
    <3> DEFINE S == 1 .. n + 1
    <3>1. Max(S) = n + 1 /\ S \ {n + 1} = 1 .. n /\ S # {} /\ S \in SUBSET (DOMAIN s)
      BY <2>1, InitialSegment
    <3> HIDE DEF S
    <3>2. iter[S] = TypedStep(iter[S \ {Max(S)}], s[Max(S)])
      BY <1>5, <3>1
    <3> QED BY <3>1, <3>2 DEF S
  <2>3. iter[1 .. n] \in TypedType
    BY <1>7, <1>1
  <2> QED BY <2>1, <2>2, <2>3, TypedStepIs
<1>8. iter[1 .. N] \in TypedType
  <2>1. Nat \subseteq Good
    <3> HIDE DEF Good
    <3> QED BY <1>6, <1>7, NatSet
  <2> HIDE DEF iter
  <2> QED BY <1>1, <2>1
<1> QED BY <1>1, <1>5, <1>8 DEF TypedType
-----------------------------------------------------------------------------
(* The handlers.                                                           *)

LEMMA WordsAre == {"new", "clear", "run", "list", "time", "date"} \subseteq Cells /\ Data \subseteq Cells
  BY DEF Cells

LEMMA DataIsSent == Seq(Data) \subseteq Seq(Cells)
  BY WordsAre, SeqMonotonic

LEMMA ContentsAre ==
  ASSUME NEW f \in Flt, NEW name, Readable(f, name)
  PROVE  Contents(f, name) \in Seq(Data)
<1>1. f.files \in FilesType
  BY DEF Flt
<1>2. PICK D \in SUBSET Names : f.files \in [D -> Seq(Data)]
  BY <1>1 DEF FilesType
<1> QED BY <1>2 DEF Readable, Contents

LEMMA CannotOpenIs ==
  ASSUME NEW f \in Flt
  PROVE  Answered(f, CannotOpen(f)) /\ CannotOpen(f).toRemote = f.toRemote
  BY SayIs DEF CannotOpen, Messages

LEMMA TypeIs ==
  ASSUME NEW f \in Flt, NEW name
  PROVE  Answered(f, Handle_type(f, name))
<1>1. CASE Readable(f, name)
  <2> DEFINE g == Say(f, "Typing")
             h == Enter(g, Typed(Contents(f, name)))
  <2>1. Answered(f, g)
    BY SayIs DEF Messages
  <2>2. Typed(Contents(f, name)) \in Seq(Cells)
    BY <1>1, ContentsAre, TypedIs, DataIsSent
  <2>3. g \in Flt
    BY <2>1 DEF Answered
  <2>4. Answered(g, h)
    <3> HIDE DEF g
    <3> QED BY <2>2, <2>3, EnterIs
  <2>5. h \in Flt
    BY <2>4 DEF Answered
  <2>6. Answered(h, Say(h, "Done"))
    <3> HIDE DEF h
    <3> QED BY <2>5, SayIs DEF Messages
  <2>7. Handle_type(f, name) = Say(h, "Done")
    BY <1>1 DEF Handle_type
  <2> HIDE DEF g, h
  <2> QED BY <2>1, <2>4, <2>6, <2>7, AnsweredTwice
<1>2. CASE ~Readable(f, name)
  BY <1>2, CannotOpenIs DEF Handle_type
<1> QED BY <1>1, <1>2

LEMMA MoreIs ==
  ASSUME NEW f \in Flt, NEW name
  PROVE  Answered(f, Handle_more(f, name))
<1>1. CASE Readable(f, name)
  <2> DEFINE c  == Contents(f, name)
             bs == [i \in DOMAIN c |-> Own(c[i])]
  <2>1. c \in Seq(Data)
    BY <1>1, ContentsAre
  <2>2. \A i \in 1 .. Len(c) : Own(c[i]) \in OwnToken
    BY <2>1, OwnIs, WordsAre
  <2>3. bs \in Seq(OwnToken)
    <3> HIDE DEF c
    <3>1. bs = [i \in 1 .. Len(c) |-> Own(c[i])] /\ Len(c) \in Nat
      BY <2>1
    <3> QED BY <2>2, <3>1, IsASeq
  <2> HIDE DEF c
  <2> QED BY <1>1, <2>3, ShowOwnIs DEF Handle_more, c
<1>2. CASE ~Readable(f, name)
  BY <1>2, CannotOpenIs DEF Handle_more
<1> QED BY <1>1, <1>2

LEMMA WordIs ==
  ASSUME NEW f \in Flt, NEW w \in {"new", "clear", "run", "list", "time", "date"}
  PROVE  Answered(f, Enter(f, <<w>>))
<1>1. <<w>> \in Seq(Cells)
  BY WordsAre
<1> QED BY <1>1, EnterIs

LEMMA LoadIs ==
  ASSUME NEW f \in Flt, NEW name
  PROVE  Answered(f, Handle_load(f, name))
<1> DEFINE g == Enter(f, <<"new", "clear">>)
<1>1. <<"new", "clear">> \in Seq(Cells)
  BY WordsAre
<1>2. Answered(f, g)
  BY <1>1, EnterIs
<1>3. g \in Flt
  BY <1>2 DEF Answered
<1> HIDE DEF g
<1>4. Answered(g, Handle_type(g, name))
  BY <1>3, TypeIs
<1> QED BY <1>2, <1>4, AnsweredTwice DEF Handle_load, g

LEMMA ChainIs ==
  ASSUME NEW f \in Flt, NEW name
  PROVE  Answered(f, Handle_chain(f, name))
<1> DEFINE g == Handle_type(f, name)
<1>1. Answered(f, g) /\ g \in Flt
  BY TypeIs DEF Answered
<1> HIDE DEF g
<1>2. Answered(g, Enter(g, <<"run">>))
  BY <1>1, WordIs
<1> QED BY <1>1, <1>2, AnsweredTwice DEF Handle_chain, g

LEMMA LoadRunIs ==
  ASSUME NEW f \in Flt, NEW name
  PROVE  Answered(f, Handle_loadrun(f, name))
<1> DEFINE g == Handle_load(f, name)
<1>1. Answered(f, g) /\ g \in Flt
  BY LoadIs DEF Answered
<1> HIDE DEF g
<1>2. Answered(g, Enter(g, <<"run">>))
  BY <1>1, WordIs
<1> QED BY <1>1, <1>2, AnsweredTwice DEF Handle_loadrun, g

LEMMA BootIs ==
  ASSUME NEW f \in Flt
  PROVE  Answered(f, Handle_boot(f))
  BY LoadRunIs DEF Handle_boot

LEMMA CatalogIs ==
  ASSUME NEW f \in Flt
  PROVE  Handled(f, Handle_catalog(f))
<1>1. CASE f.cwd = None
  <2>1. Handle_catalog(f) = [f EXCEPT !.crashed = TRUE]
    BY <1>1 DEF Handle_catalog
  <2> QED BY <2>1 DEF Flt, Handled, SameLine
<1>2. CASE f.cwd # None
  <2>1. Answered(f, Say(f, "Listing"))
    BY SayIs DEF Messages
  <2> QED BY <1>2, <2>1, AnsweredHandled DEF Handle_catalog
<1> QED BY <1>1, <1>2

LEMMA CdIs ==
  ASSUME NEW f \in Flt, NEW path
  PROVE  Handled(f, Handle_cd(f, path))
<1>1. CASE path = <<>>
  <2>1. Handle_cd(f, path) = [f EXCEPT !.cwd = "home"] /\ "home" \in Dirs
    BY <1>1 DEF Handle_cd, Dirs
  <2> QED BY <2>1 DEF Flt, Handled, SameLine
<1>2. CASE path # <<>>
  BY <1>2, HandledSelf DEF Handle_cd
<1> QED BY <1>1, <1>2

LEMMA EmptySeqs == <<>> \in Printed /\ <<>> \in Names /\ <<>> \in Shows /\ <<>> \in Sends
  BY DEF Printed, Names, Text, Shows, Sends

LEMMA SaveIs ==
  ASSUME NEW f \in Flt, NEW name \in Text
  PROVE  Handled(f, Handle_save(f, name))
<1>1. CASE f.cwd = None
  <2>1. Handle_save(f, name) = [f EXCEPT !.crashed = TRUE]
    BY <1>1 DEF Handle_save
  <2> QED BY <2>1 DEF Flt, Handled, SameLine
<1>2. CASE f.cwd # None /\ (name = <<>> \/ name \in ReadOnly)
  <2>1. Handle_save(f, name) = [f EXCEPT !.savefp = NoFile] /\ NoFile \in Names
    BY <1>2, EmptySeqs DEF Handle_save, NoFile
  <2> QED BY <2>1 DEF Flt, Handled, SameLine
<1>3. CASE f.cwd # None /\ ~(name = <<>> \/ name \in ReadOnly)
  <2> DEFINE e  == Enter(f, <<"list">>)
             fs == [n \in DOMAIN e.files \union {name} |-> IF n = name THEN <<>> ELSE e.files[n]]
             g  == [e EXCEPT !.files = fs, !.savefp = name]
  <2>1. Answered(f, e) /\ e \in Flt
    BY WordIs DEF Answered
  <2>2. Handle_save(f, name) = Capture(g)
    BY <1>3 DEF Handle_save
  <2> HIDE DEF e
  <2>3. fs \in FilesType
    <3>1. PICK D \in SUBSET Names : e.files \in [D -> Seq(Data)]
      BY <2>1 DEF Flt, FilesType
    <3>2. D \union {name} \in SUBSET Names /\ fs \in [D \union {name} -> Seq(Data)]
      BY <3>1 DEF Names
    <3> QED BY <3>2 DEF FilesType
  <2>4. name \in Names
    BY DEF Names
  <2> HIDE DEF fs
  <2>5. Handled(e, g)
    BY <2>1, <2>3, <2>4 DEF Flt, Handled, SameLine
  <2> HIDE DEF g
  <2>6. Capture(g) = [g EXCEPT !.saved = <<>>, !.gotNumbers = FALSE, !.consume = TRUE, !.line = <<>>]
    BY DEF Capture
  <2>7. Handled(g, Capture(g))
    <3>1. Len(<<>>) < LBsz
      BY FilterAssumption
    <3> QED BY <2>5, <2>6, <3>1, EmptySeqs DEF Flt, Handled, SameLine
  <2> QED BY <2>1, <2>2, <2>5, <2>7, HandledTwice, AnsweredHandled
<1> QED BY <1>1, <1>2, <1>3

Commands == {<<"boot">>, <<"more">>, <<"type">>, <<"chain">>, <<"load", "run">>, <<"load">>,
             <<"save">>, <<"catalog">>, <<"cd">>, <<"seconds">>, <<"date">>}

LEMMA HandleIs ==
  ASSUME NEW f \in Flt, NEW name \in Commands, NEW args \in Text
  PROVE  Handled(f, Handle(f, name, args))
<1>1. /\ Handled(f, Handle_boot(f)) /\ Handled(f, Handle_more(f, args)) /\ Handled(f, Handle_type(f, args))
      /\ Handled(f, Handle_chain(f, args)) /\ Handled(f, Handle_loadrun(f, args))
      /\ Handled(f, Handle_load(f, args)) /\ Handled(f, Handle_save(f, args))
      /\ Handled(f, Handle_catalog(f)) /\ Handled(f, Handle_cd(f, args))
      /\ Handled(f, Enter(f, <<"time">>)) /\ Handled(f, Enter(f, <<"date">>))
  BY BootIs, MoreIs, TypeIs, ChainIs, LoadRunIs, LoadIs, SaveIs, CatalogIs, CdIs, WordIs, AnsweredHandled
<1>2. CASE name = <<"boot">>
  BY <1>1, <1>2 DEF Handle
<1>3. CASE name = <<"more">>
  BY <1>1, <1>3 DEF Handle
<1>4. CASE name = <<"type">>
  BY <1>1, <1>4 DEF Handle
<1>5. CASE name = <<"chain">>
  BY <1>1, <1>5 DEF Handle
<1>6. CASE name = <<"load", "run">>
  BY <1>1, <1>6 DEF Handle
<1>7. CASE name = <<"load">>
  BY <1>1, <1>7 DEF Handle
<1>8. CASE name = <<"save">>
  BY <1>1, <1>8 DEF Handle
<1>9. CASE name = <<"catalog">>
  BY <1>1, <1>9 DEF Handle
<1>10. CASE name = <<"cd">>
  BY <1>1, <1>10 DEF Handle
<1>11. CASE name = <<"seconds">>
  BY <1>1, <1>11 DEF Handle
<1>12. CASE name = <<"date">>
  BY <1>1, <1>12 DEF Handle
<1> QED BY <1>2, <1>3, <1>4, <1>5, <1>6, <1>7, <1>8, <1>9, <1>10, <1>11, <1>12 DEF Commands
-----------------------------------------------------------------------------
(* Commands.                                                               *)

\* The first of the numbers that have something, and nothing before it has.
LEMMA MinIs ==
  ASSUME NEW S \in SUBSET Nat, S # {}
  PROVE  Min(S) \in S /\ \A k \in S : Min(S) <= k
<1>1. \E m \in S : \A k \in S : m <= k
  BY LeastNat
<1> QED BY <1>1 DEF Min

LEMMA CStringAt ==
  ASSUME NEW buf \in Buffer, NEW n \in 1 .. CmdSize, buf[n] = NUL, \A i \in 1 .. n - 1 : buf[i] # NUL
  PROVE  CString(buf) = SubSeq(buf, 1, n - 1)
<1> DEFINE ends == {i \in DOMAIN buf : buf[i] = NUL}
           m == CHOOSE i \in ends : \A j \in ends : i <= j
<1>1. DOMAIN buf = 1 .. CmdSize /\ CmdSize \in Nat
  BY FilterAssumption DEF Buffer
<1>2. n \in ends /\ \A j \in ends : n <= j
  BY <1>1
<1>3. m \in ends /\ \A j \in ends : m <= j
  BY <1>2
<1>4. m = n
  BY <1>1, <1>2, <1>3
<1>5. CString(buf) = SubSeq(buf, 1, m - 1)
  BY <1>2 DEF CString
<1> QED BY <1>4, <1>5

LEMMA BufferIs ==
  ASSUME NEW buf \in Buffer
  PROVE  buf \in Text /\ Len(buf) = CmdSize
<1>1. CmdSize \in Nat
  BY FilterAssumption
<1> QED BY <1>1 DEF Buffer, Text

LEMMA CStringIs ==
  ASSUME NEW buf \in Buffer
  PROVE  CString(buf) \in Text
<1> DEFINE ends == {i \in DOMAIN buf : buf[i] = NUL}
<1>1. DOMAIN buf = 1 .. CmdSize /\ CmdSize \in Nat /\ ends \in SUBSET Nat
  BY FilterAssumption DEF Buffer
<1>2. CASE ends = {}
  BY <1>2, BufferIs DEF CString
<1>3. CASE ends # {}
  <2>1. PICK n \in ends : \A j \in ends : n <= j
    <3> HIDE DEF ends
    <3> QED BY <1>1, <1>3, LeastNat
  <2>2. n \in 1 .. CmdSize /\ buf[n] = NUL /\ \A i \in 1 .. n - 1 : buf[i] # NUL
    BY <1>1, <2>1
  <2>3. CString(buf) = SubSeq(buf, 1, n - 1)
    BY <2>2, CStringAt
  <2>4. \A i \in 1 .. n - 1 : i \in 1 .. Len(buf)
    BY <1>1, <2>2, BufferIs
  <2>5. SubSeq(buf, 1, n - 1) \in Text
    BY <2>2, BufferIs, <1>1 DEF Text
  <2> QED BY <2>3, <2>5
<1> QED BY <1>2, <1>3

LEMMA TextIs ==
  ASSUME NEW f \in Flt
  PROVE  TextTC(f) \in Text /\ TextTR(f) \in Text
<1>1. f.tcCmd \in Buffer /\ f.trCmd \in Buffer /\ <<>> \in Text
  BY DEF Flt, Text
<1> QED BY <1>1, CStringIs DEF TextTC, TextTR

LEMMA ArgsAre ==
  ASSUME NEW name \in Commands, NEW text \in Text
  PROVE  Args(name, text) \in Text
<1>1. Len(name) \in Nat
  BY DEF Commands
<1>2. \A i \in Len(name) + 1 .. Len(text) : i \in 1 .. Len(text)
  BY <1>1 DEF Text
<1> QED BY <1>1 DEF Args, Text

LEMMA FunctionsAre ==
  /\ DOMAIN tcFuncs = 1 .. 10 /\ \A i \in 1 .. 10 : tcFuncs[i] \in Commands
  /\ trFuncs \in Seq(Commands) /\ Len(trFuncs) = 11
  BY DEF tcFuncs, trFuncs, Commands

LEMMA ProcessTCIs ==
  ASSUME NEW f \in Flt, NEW text \in Text
  PROVE  Handled(f, ProcessTC(f, text))
<1> DEFINE fits == Fits(tcFuncs, text)
<1>1. CASE text = <<>>
  BY <1>1, HandledSelf DEF ProcessTC
<1>2. CASE text # <<>> /\ fits = {}
  <2>1. Answered(f, Say(f, "Command not found"))
    BY SayIs DEF Messages
  <2> QED BY <1>2, <2>1, AnsweredHandled DEF ProcessTC
<1>3. CASE text # <<>> /\ fits # {}
  <2>1. fits \in SUBSET (1 .. 10) /\ fits \in SUBSET Nat
    BY FunctionsAre DEF Fits
  <2>2. Min(fits) \in 1 .. 10
    BY <1>3, <2>1, MinIs
  <2>3. tcFuncs[Min(fits)] \in Commands
    BY <2>2, FunctionsAre
  <2> DEFINE name == tcFuncs[Min(fits)]
             g    == Handle_init(f)
             h    == Handle(g, name, Args(name, text))
  <2>4. ProcessTC(f, text) = h
    BY <1>3 DEF ProcessTC
  <2>5. Handled(f, g) /\ g \in Flt
    BY InitIs DEF Handled, SameSave
  <2>6. Args(name, text) \in Text
    BY <2>3, ArgsAre
  <2> HIDE DEF g
  <2>7. Handled(g, h)
    BY <2>3, <2>5, <2>6, HandleIs
  <2> QED BY <2>4, <2>5, <2>7, HandledTwice
<1> QED BY <1>1, <1>2, <1>3

LEMMA HandleFitsIs ==
  ASSUME NEW f \in Flt, NEW text \in Text, NEW name \in Commands
  PROVE  Handled(f, HandleFits(f, text, name))
  BY HandleIs, HandledSelf, ArgsAre DEF HandleFits

LEMMA ProcessTRIs ==
  ASSUME NEW f \in Flt, NEW text \in Text
  PROVE  Handled(f, ProcessTR(f, text))
<1>1. CASE text = <<>>
  BY <1>1, HandledSelf DEF ProcessTR
<1>2. CASE text # <<>> /\ Fits(trFuncs, text) = {}
  <2>1. Answered(f, Say(f, "Command not found"))
    BY SayIs DEF Messages
  <2> QED BY <1>2, <2>1, AnsweredHandled DEF ProcessTR
<1>3. CASE text # <<>> /\ Fits(trFuncs, text) # {}
  <2> DEFINE N == Len(trFuncs)
             T == {g \in Flt : Handled(f, g)}
             F == [p \in T \X (1 .. N) |-> HandleFits(p[1], text, trFuncs[p[2]])]
             handled == CHOOSE h : h = [i \in 0 .. N |->
                          IF i = 0 THEN f ELSE HandleFits(h[i - 1], text, trFuncs[i])]
  <2>1. f \in T /\ N \in Nat
    BY HandledSelf, FunctionsAre
  <2>2. ASSUME NEW t \in T, NEW i \in 1 .. N PROVE HandleFits(t, text, trFuncs[i]) \in T
    <3>1. trFuncs[i] \in Commands
      <4> HIDE DEF T, F, handled
      <4> QED BY FunctionsAre, ElementOfSeq
    <3>2. Handled(t, HandleFits(t, text, trFuncs[i]))
      BY <3>1, HandleFitsIs
    <3>3. HandleFits(t, text, trFuncs[i]) \in Flt
      BY <3>2 DEF Handled
    <3> QED BY <3>2, <3>3, HandledTwice
  <2>3. /\ F \in [T \X (1 .. N) -> T]
        /\ \A t \in T, i \in 1 .. N : F[<<t, i>>] = HandleFits(t, text, trFuncs[i])
    <3> HIDE DEF T, N
    <3> QED BY <2>2
  <2>4. PICK g : RecursOver(g, T, f, N, F)
    <3> HIDE DEF F, N, handled, T
    <3> QED BY <2>1, <2>3, RecursionExists
  <2>5. g = [i \in 0 .. N |-> IF i = 0 THEN f ELSE HandleFits(g[i - 1], text, trFuncs[i])]
    <3>1. ASSUME NEW i \in 0 .. N
          PROVE  g[i] = IF i = 0 THEN f ELSE HandleFits(g[i - 1], text, trFuncs[i])
      <4>1. CASE i = 0
        <5> HIDE DEF F, N, T
        <5> QED BY <2>4, <4>1 DEF RecursOver
      <4>2. CASE i # 0
        <5>1. i - 1 \in 0 .. N /\ i \in 1 .. N
          BY <2>1, <4>2
        <5>2. g[i - 1] \in T
          <6> HIDE DEF N, T, F
          <6> QED BY <2>4, <5>1 DEF RecursOver
        <5>3. F[<<g[i - 1], i>>] = HandleFits(g[i - 1], text, trFuncs[i])
          <6> HIDE DEF F, N, T
          <6> QED BY <2>3, <5>1, <5>2
        <5> HIDE DEF F, N, T
        <5> QED BY <2>4, <4>2, <5>3 DEF RecursOver
      <4> QED BY <4>1, <4>2
    <3>2. g = [i \in 0 .. N |-> g[i]]
      <4> HIDE DEF F, N, T
      <4> QED BY <2>4 DEF RecursOver
    <3> HIDE DEF F, N, T
    <3> QED BY <3>1, <3>2, Zenon
  <2>6. /\ ProcessTR(f, text) = handled[N]
        /\ handled = [i \in 0 .. N |->
                        IF i = 0 THEN f ELSE HandleFits(handled[i - 1], text, trFuncs[i])]
    BY <1>3, <2>5 DEF ProcessTR
  <2> DEFINE Good == {n \in Nat : n <= N => handled[n] \in T}
  <2> HIDE DEF handled, T
  <2>7. 0 \in Good
    BY <2>1, <2>6
  <2>8. ASSUME NEW n \in Nat, n \in Good PROVE n + 1 \in Good
    <3> SUFFICES ASSUME n + 1 <= N PROVE handled[n + 1] \in T
      OBVIOUS
    <3>1. n + 1 \in 1 .. N /\ n + 1 \in 0 .. N /\ (n + 1) - 1 = n /\ n + 1 # 0
      BY <2>1
    <3>2. handled[n + 1] = HandleFits(handled[n], text, trFuncs[n + 1])
      BY <2>6, <3>1
    <3>3. handled[n] \in T
      BY <2>8, <2>1
    <3> QED BY <2>2, <3>1, <3>2, <3>3
  <2>9. handled[N] \in T
    <3>1. Nat \subseteq Good
      <4> HIDE DEF Good
      <4> QED BY <2>7, <2>8, NatSet
    <3> QED BY <2>1, <3>1
  <2> QED BY <2>6, <2>9 DEF T
<1> QED BY <1>1, <1>2, <1>3
-----------------------------------------------------------------------------
(* From the remote to the console.                                         *)

\* What the bytes that the remote prints do to the command of the other side.
SameTR(f, g) == g.trStage = f.trStage /\ g.trCmd = f.trCmd /\ g.trPos = f.trPos

\* The bounds of the arrays.
Bounded(f) == Len(f.asBuf) < ASBLen /\ Len(f.line) < LBsz

\* The boot that the phrase asks for.
LEMMA BootedIs ==
  ASSUME NEW f \in Flt
  PROVE  LET g == ProcessTC(Say(f, "Autostart"), <<"boot">>)
         IN  /\ g \in Flt /\ SameLine(f, g) /\ SameSave(f, g)
             /\ f.toConsole \in Seq(OwnToken) => g.toConsole \in Seq(OwnToken)
             /\ \E t \in Flt : t.toRemote = f.toRemote /\ g = Handle_boot(t)
<1> DEFINE booted == ProcessTC(Say(f, "Autostart"), <<"boot">>)
           s == Say(f, "Autostart")
           t == Handle_init(s)
           fits == Fits(tcFuncs, <<"boot">>)
<1>1. Answered(f, s) /\ s \in Flt /\ s.toRemote = f.toRemote
  BY SayIs DEF Messages, Answered
<1> HIDE DEF s
<1>2. t \in Flt /\ SameLine(s, t) /\ SameSave(s, t) /\ t.toConsole = s.toConsole /\ t.toRemote = s.toRemote
  BY <1>1, InitIs
<1> HIDE DEF t
<1>3. Answered(t, Handle_boot(t))
  BY <1>2, BootIs
<1>4. fits \in SUBSET (1 .. 10) /\ fits \in SUBSET Nat /\ 1 \in fits
  <2>1. IsPrefix(<<"boot">>, <<"boot">>)
    BY DEF IsPrefix
  <2>2. tcFuncs[1] = <<"boot">>
    BY DEF tcFuncs
  <2> QED BY <2>1, <2>2, FunctionsAre DEF Fits
<1>5. Min(fits) = 1
  <2>1. Min(fits) \in fits /\ Min(fits) <= 1
    <3> HIDE DEF fits
    <3> QED BY <1>4, MinIs
  <2> QED BY <1>4, <2>1
<1>6. tcFuncs[Min(fits)] = <<"boot">>
  BY <1>5 DEF tcFuncs
<1>7. booted = Handle_boot(t)
  <2>1. fits # {} /\ <<"boot">> # <<>>
    BY <1>4
  <2>2. booted = Handle(t, <<"boot">>, Args(<<"boot">>, <<"boot">>))
    BY <1>6, <2>1 DEF ProcessTC, s, t
  <2> QED BY <2>2 DEF Handle
<1> HIDE DEF booted
<1>8. /\ booted \in Flt /\ SameLine(f, booted) /\ SameSave(f, booted)
      /\ f.toConsole \in Seq(OwnToken) => booted.toConsole \in Seq(OwnToken)
  BY <1>1, <1>2, <1>3, <1>7 DEF Answered, SameLine, SameSave
<1>9. \E u \in Flt : u.toRemote = f.toRemote /\ booted = Handle_boot(u)
  BY <1>1, <1>2, <1>7
<1> QED BY <1>8, <1>9 DEF booted

LEMMA AutostartIs ==
  ASSUME NEW f \in Flt, NEW b \in Bytes
  PROVE  LET g == AutostartCheck(f, b)
         IN  /\ g \in Flt /\ SameTR(f, g) /\ SameSave(f, g)
             /\ g.tcStage = f.tcStage /\ g.tcCmd = f.tcCmd /\ g.tcPos = f.tcPos
             /\ f.toConsole \in Seq(OwnToken) => g.toConsole \in Seq(OwnToken)
             /\ Bounded(f) => Bounded(g)
<1> DEFINE booted == ProcessTC(Say(f, "Autostart"), <<"boot">>)
           k == IF f.asBuf = Phrase THEN booted ELSE f
           Like(g) == /\ g \in Flt /\ SameLine(f, g) /\ SameSave(f, g)
                      /\ f.toConsole \in Seq(OwnToken) => g.toConsole \in Seq(OwnToken)
<1>1. Like(booted)
  BY BootedIs
<1>2. Like(k)
  BY <1>1 DEF SameLine, SameSave
<1>3. CASE b \in EndsLine
  <2>1. AutostartCheck(f, b) = [k EXCEPT !.asBuf = <<>>]
    BY <1>3 DEF AutostartCheck
  <2>2. Len(<<>>) < ASBLen
    BY FilterAssumption
  <2> HIDE DEF k
  <2> QED BY <1>2, <2>1, <2>2, EmptySeqs DEF Flt, SameLine, SameSave, SameTR, Bounded
<1>4. CASE b \notin EndsLine
  <2>1. AutostartCheck(f, b) = Remember(f, b)
    BY <1>4 DEF AutostartCheck
  <2>2. f.asBuf \in Seq(Bytes)
    BY DEF Flt, Printed
  <2>3. CASE Len(f.asBuf) < ASBLen - 2
    <3> DEFINE v == Append(f.asBuf, b)
    <3>1. v \in Printed /\ Len(v) < ASBLen
      BY <2>2, <2>3, FilterAssumption DEF Printed
    <3>2. AutostartCheck(f, b) = [f EXCEPT !.asBuf = v]
      BY <2>1, <2>3 DEF Remember
    <3> HIDE DEF v
    <3> QED BY <3>1, <3>2 DEF Flt, SameSave, SameTR, Bounded
  <2>4. CASE ~(Len(f.asBuf) < ASBLen - 2)
    BY <2>1, <2>4 DEF Remember, SameSave, SameTR
  <2> QED BY <2>3, <2>4
<1> QED BY <1>3, <1>4

\* A byte that is captured.
SameBuffers(f, g) ==
  /\ SameTR(f, g) /\ g.asBuf = f.asBuf
  /\ g.tcStage = f.tcStage /\ g.tcCmd = f.tcCmd /\ g.tcPos = f.tcPos
  /\ f.toConsole \in Seq(OwnToken) => g.toConsole \in Seq(OwnToken)
  /\ Len(f.line) < LBsz => Len(g.line) < LBsz

LEMMA AnsweredSame ==
  ASSUME NEW f, NEW g, Answered(f, g)
  PROVE  g \in Flt /\ SameBuffers(f, g) /\ SameSave(f, g)
  BY DEF Answered, SameBuffers, SameLine, SameTR, SameSave

LEMMA SameBuffersTwice ==
  ASSUME NEW f, NEW g, NEW h, SameBuffers(f, g), SameBuffers(g, h)
  PROVE  SameBuffers(f, h)
  BY DEF SameBuffers, SameTR

LEMMA EndOfSavedLineIs ==
  ASSUME NEW f \in Flt
  PROVE  EndOfSavedLine(f) \in Flt /\ SameBuffers(f, EndOfSavedLine(f))
<1> DEFINE g == Say(f, ".")
<1>1. Answered(f, g) /\ g \in Flt /\ SameBuffers(f, g) /\ SameSave(f, g)
  BY SayIs, AnsweredSame DEF Messages
<1>2. f.line \in Printed /\ f.saved \in Printed /\ g.line \in Printed /\ g.saved \in Printed
  BY <1>1 DEF Flt
<1>3. LF \in Bytes /\ Len(<<>>) < LBsz
  BY FilterAssumption DEF Bytes
<1>4. CASE f.line = <<>>
  <2>0. ~Numbered(f.line)
    BY <1>4 DEF Numbered
  <2>1. EndOfSavedLine(f) = g
    <3> HIDE DEF g
    <3> QED BY <1>4, <2>0 DEF EndOfSavedLine, g
  <2> QED BY <1>1, <2>1
<1>5. CASE f.line # <<>> /\ Numbered(f.line)
  <2> DEFINE v == g.saved \o g.line \o <<LF>>
  <2>1. v \in Printed
    <3>1. g.saved \o g.line \in Seq(Bytes)
      BY <1>2 DEF Printed
    <3> QED BY <3>1, <1>3 DEF Printed
  <2>2. EndOfSavedLine(f) = [g EXCEPT !.saved = v, !.gotNumbers = TRUE, !.line = <<>>]
    BY <1>5 DEF EndOfSavedLine, SaveLine
  <2> HIDE DEF g, v
  <2> QED BY <1>1, <1>3, <2>1, <2>2, EmptySeqs DEF Flt, SameBuffers, SameTR
<1>6. CASE f.line # <<>> /\ ~Numbered(f.line) /\ f.gotNumbers
  <2> DEFINE fs == [g.files EXCEPT ![g.savefp] = g.saved]
             c  == CloseSave(g)
  <2>1. fs \in FilesType
    <3>1. PICK D \in SUBSET Names : g.files \in [D -> Seq(Data)]
      BY <1>1 DEF Flt, FilesType
    <3>2. g.saved \in Seq(Data)
      <4>1. Bytes \subseteq Data
        BY DEF Data
      <4> QED BY <4>1, <1>2, SeqMonotonic DEF Printed
    <3> HIDE DEF g
    <3>3. fs \in [D -> Seq(Data)]
      BY <3>1, <3>2
    <3> QED BY <3>3 DEF FilesType
  <2>2. c = [g EXCEPT !.gotNumbers = FALSE, !.savefp = NoFile, !.saved = <<>>, !.line = <<>>, !.files = fs]
    BY DEF CloseSave
  <2> HIDE DEF g, fs, c
  <2>3. c \in Flt /\ SameBuffers(g, c)
    BY <1>1, <1>3, <2>1, <2>2, EmptySeqs DEF Flt, SameBuffers, SameTR, NoFile
  <2>4. Answered(c, Say(c, "Done saving"))
    BY <2>3, SayIs DEF Messages
  <2>5. EndOfSavedLine(f) = Say(c, "Done saving")
    BY <1>6 DEF EndOfSavedLine, g, c
  <2>6. Say(c, "Done saving") \in Flt /\ SameBuffers(c, Say(c, "Done saving"))
    BY <2>4, AnsweredSame
  <2>7. SameBuffers(f, g)
    BY <1>1 DEF g
  <2> QED BY <2>3, <2>5, <2>6, <2>7, SameBuffersTwice
<1>7. CASE f.line # <<>> /\ ~Numbered(f.line) /\ ~f.gotNumbers
  <2>1. EndOfSavedLine(f) = [g EXCEPT !.line = <<>>]
    BY <1>7 DEF EndOfSavedLine
  <2> HIDE DEF g
  <2> QED BY <1>1, <1>3, <2>1, EmptySeqs DEF Flt, SameBuffers, SameTR
<1> QED BY <1>4, <1>5, <1>6, <1>7

LEMMA ConsumeIs ==
  ASSUME NEW f \in Flt, NEW b \in Bytes
  PROVE  consumeSaveByte(f, b) \in Flt /\ SameBuffers(f, consumeSaveByte(f, b))
<1>1. CASE b \in EndsLine
  BY <1>1, EndOfSavedLineIs DEF consumeSaveByte
<1>2. CASE b \notin EndsLine /\ Len(f.line) <= LBsz - 2
  <2> DEFINE v == Append(f.line, b)
  <2>1. f.line \in Seq(Bytes)
    BY DEF Flt, Printed
  <2>2. v \in Printed /\ Len(v) < LBsz
    BY <1>2, <2>1, FilterAssumption DEF Printed
  <2>3. consumeSaveByte(f, b) = [f EXCEPT !.line = v]
    BY <1>2 DEF consumeSaveByte
  <2> HIDE DEF v
  <2> QED BY <2>2, <2>3 DEF Flt, SameBuffers, SameTR
<1>3. CASE b \notin EndsLine /\ ~(Len(f.line) <= LBsz - 2)
  BY <1>3 DEF consumeSaveByte, SameBuffers, SameTR
<1> QED BY <1>1, <1>2, <1>3
\* The buffer of a command is empty when none is under way, and what follows
\* the command in it has been cleared, but for its last byte.
BufferOK(f) ==
  /\ f.tcStage # "cmd" => f.tcPos = 0
  /\ \A i \in 1 .. CmdSize - 1 : i > f.tcPos => f.tcCmd[i] = NUL

LEMMA ClearedIs ==
  ASSUME NEW cmd \in Buffer
  PROVE  Cleared(cmd) \in Buffer /\ \A i \in 1 .. CmdSize - 1 : Cleared(cmd)[i] = NUL
<1>1. DOMAIN cmd = 1 .. CmdSize /\ CmdSize \in Nat /\ \A i \in 1 .. CmdSize : cmd[i] \in Bytes \union {NUL}
  BY FilterAssumption DEF Buffer
<1> QED BY <1>1 DEF Cleared, Buffer

LEMMA ReInitTCIs ==
  ASSUME NEW f \in Flt
  PROVE  LET g == ReInitTC(f)
         IN  /\ g \in Flt /\ SameTR(f, g) /\ SameSave(f, g) /\ g.asBuf = f.asBuf
             /\ g.toConsole = f.toConsole
             /\ g.tcStage = "idle" /\ BufferOK(g)
<1> DEFINE c == Cleared(f.tcCmd)
<1>1. f.tcCmd \in Buffer /\ 0 \in Position /\ "idle" \in Stages
  BY FilterAssumption DEF Flt, Position, Stages
<1>2. c \in Buffer /\ \A i \in 1 .. CmdSize - 1 : c[i] = NUL
  BY <1>1, ClearedIs
<1>3. ReInitTC(f) = [f EXCEPT !.tcStage = "idle", !.tcCmd = c, !.tcPos = 0]
  BY DEF ReInitTC
<1> HIDE DEF c
<1> QED BY <1>1, <1>2, <1>3 DEF Flt, SameTR, SameSave, BufferOK

LEMMA ReInitTRIs ==
  ASSUME NEW f \in Flt
  PROVE  LET g == ReInitTR(f)
         IN  /\ g \in Flt /\ SameSave(f, g) /\ g.asBuf = f.asBuf /\ g.toConsole = f.toConsole
             /\ g.tcStage = f.tcStage /\ g.tcPos = f.tcPos /\ g.tcCmd = Cleared(f.tcCmd)
<1> DEFINE c == Cleared(f.tcCmd)
<1>1. f.tcCmd \in Buffer /\ 0 \in Position /\ "idle" \in Stages
  BY FilterAssumption DEF Flt, Position, Stages
<1>2. c \in Buffer
  BY <1>1, ClearedIs
<1>3. ReInitTR(f) = [f EXCEPT !.trStage = "idle", !.tcCmd = c, !.trPos = 0]
  BY DEF ReInitTR
<1> HIDE DEF c
<1>4. ReInitTR(f) \in Flt /\ SameSave(f, ReInitTR(f)) /\ ReInitTR(f).tcCmd = c
      /\ ReInitTR(f).asBuf = f.asBuf /\ ReInitTR(f).toConsole = f.toConsole
      /\ ReInitTR(f).tcStage = f.tcStage /\ ReInitTR(f).tcPos = f.tcPos
  BY <1>1, <1>2, <1>3 DEF Flt, SameSave
<1> QED BY <1>4 DEF c

LEMMA CollectTCIs ==
  ASSUME NEW f \in Flt, NEW b \in Bytes
  PROVE  LET g == CollectTC(f, b)
         IN  /\ g \in Flt /\ SameTR(f, g) /\ SameSave(f, g) /\ g.asBuf = f.asBuf
             /\ g.toConsole = f.toConsole /\ g.tcStage = f.tcStage
             /\ f.tcPos < CmdSize => g.tcPos = f.tcPos + 1 /\ g.tcCmd = [f.tcCmd EXCEPT ![f.tcPos + 1] = b]
             /\ ~(f.tcPos < CmdSize) => g = f
<1>1. f.tcPos \in 0 .. CmdSize /\ CmdSize \in Nat /\ f.tcCmd \in [1 .. CmdSize -> Bytes \union {NUL}]
  BY FilterAssumption DEF Flt, Position, Buffer
<1>2. CASE f.tcPos < CmdSize
  <2> DEFINE c == [f.tcCmd EXCEPT ![f.tcPos + 1] = b]
             p == f.tcPos + 1
  <2>1. c \in Buffer /\ p \in Position
    BY <1>1, <1>2 DEF Position, Buffer
  <2>2. CollectTC(f, b) = [f EXCEPT !.tcCmd = c, !.tcPos = p]
    BY <1>2 DEF CollectTC, Flt
  <2> HIDE DEF c, p
  <2>3. LET g == CollectTC(f, b)
        IN  /\ g \in Flt /\ SameTR(f, g) /\ SameSave(f, g) /\ g.asBuf = f.asBuf
            /\ g.toConsole = f.toConsole /\ g.tcStage = f.tcStage
            /\ g.tcPos = p /\ g.tcCmd = c
    BY <2>1, <2>2 DEF Flt, SameTR, SameSave
  <2> QED BY <1>2, <2>3 DEF c, p
<1>3. CASE ~(f.tcPos < CmdSize)
  BY <1>3 DEF CollectTC, SameTR, SameSave
<1> QED BY <1>2, <1>3

LEMMA CollectTRIs ==
  ASSUME NEW f \in Flt, NEW b \in Bytes
  PROVE  LET g == CollectTR(f, b)
         IN  /\ g \in Flt /\ SameSave(f, g) /\ g.asBuf = f.asBuf /\ g.toConsole = f.toConsole
             /\ g.tcStage = f.tcStage /\ g.tcPos = f.tcPos /\ g.tcCmd = f.tcCmd
<1>1. f.trPos \in 0 .. CmdSize /\ CmdSize \in Nat /\ f.trCmd \in [1 .. CmdSize -> Bytes \union {NUL}]
  BY FilterAssumption DEF Flt, Position, Buffer
<1>2. CASE f.trPos < CmdSize
  <2> DEFINE c == [f.trCmd EXCEPT ![f.trPos + 1] = b]
             p == f.trPos + 1
  <2>1. c \in Buffer /\ p \in Position
    BY <1>1, <1>2 DEF Position, Buffer
  <2>2. CollectTR(f, b) = [f EXCEPT !.trCmd = c, !.trPos = p]
    BY <1>2 DEF CollectTR, Flt
  <2> HIDE DEF c, p
  <2> QED BY <2>1, <2>2 DEF Flt, SameSave
<1>3. CASE ~(f.trPos < CmdSize)
  BY <1>3 DEF CollectTR, SameSave
<1> QED BY <1>2, <1>3

\* A stage that is set.
LEMMA StageTCIs ==
  ASSUME NEW f \in Flt, NEW st \in Stages, NEW g, g = [f EXCEPT !.tcStage = st]
  PROVE  /\ g \in Flt /\ SameTR(f, g) /\ SameSave(f, g) /\ g.asBuf = f.asBuf
         /\ g.toConsole = f.toConsole /\ g.tcStage = st /\ g.tcPos = f.tcPos /\ g.tcCmd = f.tcCmd
  BY DEF Flt, SameTR, SameSave

LEMMA StageTRIs ==
  ASSUME NEW f \in Flt, NEW st \in Stages, NEW g, g = [f EXCEPT !.trStage = st]
  PROVE  /\ g \in Flt /\ SameSave(f, g) /\ g.asBuf = f.asBuf
         /\ g.toConsole = f.toConsole /\ g.tcStage = f.tcStage
         /\ g.tcPos = f.tcPos /\ g.tcCmd = f.tcCmd
  BY DEF Flt, SameSave

-----------------------------------------------------------------------------
\* What a byte does that is not captured, by the stage it meets.
LEMMA IdleStage ==
  ASSUME NEW f \in Flt, NEW b \in Bytes, f.tcStage = "idle"
  PROVE  LET g == StageTC(f, b)
         IN  /\ g \in Flt /\ SameTR(f, g) /\ SameSave(f, g) /\ g.asBuf = f.asBuf
             /\ g.tcStage = (IF b = ESC THEN "esc" ELSE "idle")
             /\ g.tcPos = f.tcPos /\ g.tcCmd = f.tcCmd
             /\ g.toConsole = IF b = ESC THEN f.toConsole ELSE f.toConsole \o <<Passed(b)>>
<1>1. "esc" \in Stages
  BY DEF Stages
<1>0. StageTC(f, b) = IF b = ESC THEN [f EXCEPT !.tcStage = "esc"] ELSE Show(f, <<Passed(b)>>)
  BY DEF StageTC, BailsOut
<1>2. CASE b = ESC
  <2> DEFINE g == [f EXCEPT !.tcStage = "esc"]
  <2>1. /\ g \in Flt /\ SameTR(f, g) /\ SameSave(f, g) /\ g.asBuf = f.asBuf
        /\ g.toConsole = f.toConsole /\ g.tcStage = "esc" /\ g.tcPos = f.tcPos /\ g.tcCmd = f.tcCmd
    BY <1>1, StageTCIs
  <2> HIDE DEF g
  <2> QED BY <1>0, <1>2, <2>1 DEF g
<1>3. CASE b # ESC
  <2> DEFINE s == <<Passed(b)>>
             g == Show(f, s)
  <2>1. StageTC(f, b) = g
    BY <1>0, <1>3
  <2>2. s \in Seq(Token)
    <3>1. Passed(b) \in Token
      BY DEF Passed, Token, Cells, Data
    <3> QED BY <3>1
  <2> HIDE DEF s
  <2>3. g \in Flt /\ SameLine(f, g) /\ SameSave(f, g) /\ g.toConsole = f.toConsole \o s
    BY <2>2, ShowIs
  <2> HIDE DEF g
  <2> QED BY <1>3, <2>1, <2>3 DEF SameLine, SameTR, s
<1> QED BY <1>2, <1>3

LEMMA EndsTheLine ==
  ASSUME NEW f \in Flt, NEW b \in EndsLine, f.tcStage # "idle"
  PROVE  LET g == StageTC(f, b)
         IN  /\ g \in Flt /\ SameTR(f, g) /\ SameSave(f, g) /\ g.asBuf = f.asBuf
             /\ g.tcStage = "idle" /\ BufferOK(g) /\ g.toConsole = f.toConsole
<1>1. f.tcStage \in {"esc", "cmd"}
  BY DEF Flt, Stages
<1>2. StageTC(f, b) = ReInitTC(f)
  <2>1. b \in {LF, CR} /\ b # "{" /\ b # BEL
    BY DEF EndsLine, LF, CR, BEL
  <2>2. BailsOut(f, b) /\ f.tcStage # "idle"
    BY <1>1 DEF BailsOut
  <2> QED BY <2>1, <2>2 DEF StageTC, EndsLine
<1> QED BY <1>2, ReInitTCIs

LEMMA EscStage ==
  ASSUME NEW f \in Flt, NEW b \in Bytes \ EndsLine, f.tcStage = "esc"
  PROVE  LET g == StageTC(f, b)
         IN  /\ g \in Flt /\ SameTR(f, g) /\ SameSave(f, g) /\ g.asBuf = f.asBuf
             /\ g.tcStage = (IF b = "{" THEN "cmd" ELSE "idle")
             /\ g.tcPos = f.tcPos /\ g.tcCmd = f.tcCmd
             /\ g.toConsole = IF b = "{" THEN f.toConsole ELSE f.toConsole \o <<Passed(ESC), Passed(b)>>
<1>1. "cmd" \in Stages /\ "idle" \in Stages
  BY DEF Stages
<1>2. CASE b = "{"
  <2> DEFINE g == StageTC(f, b)
  <2>1. g = [f EXCEPT !.tcStage = "cmd"]
    BY <1>2 DEF StageTC, BailsOut
  <2> HIDE DEF g
  <2>2. /\ g \in Flt /\ SameTR(f, g) /\ SameSave(f, g) /\ g.asBuf = f.asBuf
        /\ g.toConsole = f.toConsole /\ g.tcStage = "cmd" /\ g.tcPos = f.tcPos /\ g.tcCmd = f.tcCmd
    BY <1>1, <2>1, StageTCIs
  <2> QED BY <1>2, <2>2 DEF g
<1>3. CASE b # "{"
  <2> DEFINE g == [f EXCEPT !.tcStage = "idle"]
             s == <<Passed(ESC), Passed(b)>>
  <2>1. StageTC(f, b) = Show(g, s)
    BY <1>3 DEF StageTC, BailsOut, Inject
  <2>2. s \in Seq(Token)
    BY DEF Passed, Token, Cells, Data, Bytes
  <2>3. /\ g \in Flt /\ SameTR(f, g) /\ SameSave(f, g) /\ g.asBuf = f.asBuf
        /\ g.toConsole = f.toConsole /\ g.tcStage = "idle" /\ g.tcPos = f.tcPos /\ g.tcCmd = f.tcCmd
    BY <1>1, StageTCIs
  <2> HIDE DEF g, s
  <2>4. /\ Show(g, s) \in Flt /\ SameLine(g, Show(g, s)) /\ SameSave(g, Show(g, s))
        /\ Show(g, s).toConsole = g.toConsole \o s
    BY <2>2, <2>3, ShowIs
  <2> QED BY <1>3, <2>1, <2>3, <2>4 DEF SameLine, SameTR, SameSave, s
<1> QED BY <1>2, <1>3

LEMMA CmdStage ==
  ASSUME NEW f \in Flt, NEW b \in Bytes \ EndsLine, f.tcStage = "cmd", b # BEL
  PROVE  StageTC(f, b) = CollectTC(f, b)
  BY DEF StageTC, BailsOut

LEMMA EndOfCommand ==
  ASSUME NEW f \in Flt, f.tcStage = "cmd"
  PROVE  LET g == StageTC(f, BEL)
         IN  /\ g \in Flt /\ SameTR(f, g) /\ g.asBuf = f.asBuf
             /\ g.tcStage = "idle" /\ BufferOK(g)
             /\ f.toConsole \in Seq(OwnToken) => g.toConsole \in Seq(OwnToken)
             /\ Len(f.line) < LBsz => Len(g.line) < LBsz
<1> DEFINE e == [f EXCEPT !.tcStage = "idle"]
           p == ProcessTC(e, TextTC(f))
<1>1. "idle" \in Stages
  BY DEF Stages
<1>2. /\ e \in Flt /\ SameTR(f, e) /\ SameSave(f, e) /\ e.asBuf = f.asBuf
      /\ e.toConsole = f.toConsole
  BY <1>1, StageTCIs
<1>3. StageTC(f, BEL) = ReInitTC(p)
  BY DEF StageTC, BailsOut, BEL, EndsLine, LF, CR, ESC
<1> HIDE DEF e
<1>4. Handled(e, p)
  BY <1>2, TextIs, ProcessTCIs
<1>5. p \in Flt
  BY <1>4 DEF Handled
<1> HIDE DEF p
<1>6. LET g == ReInitTC(p)
      IN  /\ g \in Flt /\ SameTR(p, g) /\ SameSave(p, g) /\ g.asBuf = p.asBuf
          /\ g.toConsole = p.toConsole
          /\ g.tcStage = "idle" /\ BufferOK(g)
  BY <1>5, ReInitTCIs
<1> QED BY <1>2, <1>3, <1>4, <1>6 DEF Handled, SameTR, SameSave, SameLine

-----------------------------------------------------------------------------
\* A byte of the remote, whatever it meets: the types and the bounds hold.
Kept(f, g) ==
  /\ g \in Flt /\ SameTR(f, g)
  /\ f.toConsole \in Seq(OwnToken) => g.toConsole \in Seq(Token)
  /\ Bounded(f) => Bounded(g)
  /\ BufferOK(f) => BufferOK(g)

LEMMA PassedIs ==
  ASSUME NEW b \in Bytes
  PROVE  Passed(b) \in Token
  BY DEF Passed, Token, Cells, Data

LEMMA StageTCKeeps ==
  ASSUME NEW f \in Flt, NEW b \in Bytes
  PROVE  Kept(f, StageTC(f, b)) /\ StageTC(f, b).asBuf = f.asBuf
<1> DEFINE g == StageTC(f, b)
<1>1. f.tcStage \in {"idle", "esc", "cmd"}
  BY DEF Flt, Stages
<1>2. CASE f.tcStage = "idle"
  <2>1. /\ g \in Flt /\ SameTR(f, g) /\ SameSave(f, g) /\ g.asBuf = f.asBuf
        /\ g.tcStage \in {"esc", "idle"} /\ g.tcPos = f.tcPos /\ g.tcCmd = f.tcCmd
    <3> HIDE DEF g
    <3>1. LET h == StageTC(f, b)
          IN  /\ h \in Flt /\ SameTR(f, h) /\ SameSave(f, h) /\ h.asBuf = f.asBuf
              /\ h.tcStage = (IF b = ESC THEN "esc" ELSE "idle")
              /\ h.tcPos = f.tcPos /\ h.tcCmd = f.tcCmd
      BY <1>2, IdleStage
    <3> QED BY <3>1 DEF g
  <2> HIDE DEF g
  <2>2. g.toConsole \in Seq(Token) /\ Bounded(f) => Bounded(g)
    BY <2>1 DEF Flt, Shows, Bounded, SameSave
  <2>3. BufferOK(f) => BufferOK(g)
    BY <1>2, <2>1 DEF BufferOK
  <2>4. g.toConsole \in Seq(Token) /\ (Bounded(f) => Bounded(g))
    BY <2>1 DEF Flt, Shows, Bounded, SameSave
  <2> QED BY <2>1, <2>3, <2>4 DEF Kept, g
<1>3. CASE f.tcStage # "idle" /\ b \in EndsLine
  <2>1. /\ g \in Flt /\ SameTR(f, g) /\ SameSave(f, g) /\ g.asBuf = f.asBuf /\ BufferOK(g)
    BY <1>3, EndsTheLine
  <2> HIDE DEF g
  <2>2. g.toConsole \in Seq(Token) /\ (Bounded(f) => Bounded(g))
    BY <2>1 DEF Flt, Shows, Bounded, SameSave
  <2> QED BY <2>1, <2>2 DEF Kept, g
<1>4. CASE f.tcStage = "esc" /\ b \notin EndsLine
  <2>1. /\ g \in Flt /\ SameTR(f, g) /\ SameSave(f, g) /\ g.asBuf = f.asBuf
        /\ g.tcPos = f.tcPos /\ g.tcCmd = f.tcCmd
    BY <1>4, EscStage
  <2> HIDE DEF g
  <2>3. BufferOK(f) => BufferOK(g)
    BY <1>4, <2>1 DEF BufferOK
  <2>4. g.toConsole \in Seq(Token) /\ (Bounded(f) => Bounded(g))
    BY <2>1 DEF Flt, Shows, Bounded, SameSave
  <2> QED BY <2>1, <2>3, <2>4 DEF Kept, g
<1>5. CASE f.tcStage = "cmd" /\ b \notin EndsLine /\ b # BEL
  <2>1. g = CollectTC(f, b)
    BY <1>5, CmdStage
  <2>2. /\ g \in Flt /\ SameTR(f, g) /\ SameSave(f, g) /\ g.asBuf = f.asBuf
        /\ g.tcStage = f.tcStage
        /\ f.tcPos < CmdSize => g.tcPos = f.tcPos + 1 /\ g.tcCmd = [f.tcCmd EXCEPT ![f.tcPos + 1] = b]
        /\ ~(f.tcPos < CmdSize) => g = f
    <3> HIDE DEF g
    <3> QED BY <2>1, CollectTCIs
  <2> HIDE DEF g
  <2>3. BufferOK(f) => BufferOK(g)
    <3> SUFFICES ASSUME BufferOK(f), f.tcPos < CmdSize PROVE BufferOK(g)
      BY <2>2
    <3>1. f.tcCmd \in [1 .. CmdSize -> Bytes \union {NUL}] /\ CmdSize \in Nat /\ f.tcPos \in 0 .. CmdSize
      BY FilterAssumption DEF Flt, Buffer, Position
    <3> QED BY <1>5, <2>2, <3>1 DEF BufferOK
  <2>4. g.toConsole \in Seq(Token) /\ (Bounded(f) => Bounded(g))
    BY <2>2 DEF Flt, Shows, Bounded, SameSave
  <2> QED BY <2>2, <2>3, <2>4 DEF Kept, g
<1>6. CASE f.tcStage = "cmd" /\ b = BEL
  <2>1. /\ g \in Flt /\ SameTR(f, g) /\ g.asBuf = f.asBuf /\ BufferOK(g)
        /\ Len(f.line) < LBsz => Len(g.line) < LBsz
    BY <1>6, EndOfCommand
  <2> HIDE DEF g
  <2>2. g.toConsole \in Seq(Token) /\ (Bounded(f) => Bounded(g))
    BY <2>1 DEF Flt, Shows, Bounded
  <2> QED BY <2>1, <2>2 DEF Kept, g
<1> QED BY <1>1, <1>2, <1>3, <1>4, <1>5, <1>6

\* The byte that the filter stages, its autostart buffer and its hook set.
Staged(f, b) == [AutostartCheck(f, b) EXCEPT !.consume = FALSE]

LEMMA StagedIs ==
  ASSUME NEW f \in Flt, NEW b \in Bytes
  PROVE  LET g == Staged(f, b)
         IN  /\ g \in Flt /\ SameTR(f, g) /\ g.savefp = f.savefp /\ ~Capturing(g)
             /\ g.tcStage = f.tcStage /\ g.tcCmd = f.tcCmd /\ g.tcPos = f.tcPos
             /\ f.toConsole \in Seq(OwnToken) => g.toConsole \in Seq(OwnToken)
             /\ Bounded(f) => Bounded(g)
             /\ Capturing(AutostartCheck(f, b)) <=> Capturing(f)
<1> DEFINE h == AutostartCheck(f, b)
           g == [h EXCEPT !.consume = FALSE]
<1>1. /\ h \in Flt /\ SameTR(f, h) /\ SameSave(f, h)
      /\ h.tcStage = f.tcStage /\ h.tcCmd = f.tcCmd /\ h.tcPos = f.tcPos
      /\ f.toConsole \in Seq(OwnToken) => h.toConsole \in Seq(OwnToken)
      /\ Bounded(f) => Bounded(h)
  BY AutostartIs
<1> HIDE DEF h
<1>2. /\ g \in Flt /\ SameTR(h, g) /\ g.savefp = h.savefp /\ g.consume = FALSE
      /\ g.tcStage = h.tcStage /\ g.tcCmd = h.tcCmd /\ g.tcPos = h.tcPos
      /\ g.toConsole = h.toConsole /\ (Bounded(h) => Bounded(g))
  BY <1>1 DEF Flt, SameTR, Bounded
<1> HIDE DEF g
<1>3. Staged(f, b) = g
  BY DEF Staged, g, h
<1>4. ~Capturing(g) /\ (Capturing(h) <=> Capturing(f))
  BY <1>1, <1>2 DEF Capturing, SameSave
<1> QED BY <1>1, <1>2, <1>3, <1>4 DEF SameTR, SameSave, h

LEMMA ToConsoleKeeps ==
  ASSUME NEW f \in Flt, NEW b \in Bytes
  PROVE  Kept(f, Filter_ToConsole(f, b))
<1> DEFINE h == AutostartCheck(f, b)
           g == Staged(f, b)
<1>1. CASE Capturing(h)
  <2>1. Filter_ToConsole(f, b) = consumeSaveByte(h, b)
    BY <1>1 DEF Filter_ToConsole
  <2>2. /\ h \in Flt /\ SameTR(f, h)
        /\ h.tcStage = f.tcStage /\ h.tcCmd = f.tcCmd /\ h.tcPos = f.tcPos
        /\ Bounded(f) => Bounded(h)
    BY AutostartIs
  <2> HIDE DEF h
  <2> DEFINE c == consumeSaveByte(h, b)
  <2>3. c \in Flt /\ SameBuffers(h, c)
    BY <2>2, ConsumeIs
  <2> HIDE DEF c
  <2>4. c.toConsole \in Seq(Token)
    BY <2>3 DEF Flt, Shows
  <2>5. Kept(f, c)
    BY <2>2, <2>3, <2>4 DEF Kept, SameBuffers, SameTR, Bounded, BufferOK
  <2> QED BY <2>1, <2>5 DEF c
<1>2. CASE ~Capturing(h)
  <2>1. Filter_ToConsole(f, b) = StageTC(g, b)
    BY <1>2 DEF Filter_ToConsole, Staged
  <2>2. /\ g \in Flt /\ SameTR(f, g)
        /\ g.tcStage = f.tcStage /\ g.tcCmd = f.tcCmd /\ g.tcPos = f.tcPos
        /\ f.toConsole \in Seq(OwnToken) => g.toConsole \in Seq(OwnToken)
        /\ Bounded(f) => Bounded(g)
    BY StagedIs
  <2> HIDE DEF g
  <2>3. Kept(g, StageTC(g, b))
    BY <2>2, StageTCKeeps
  <2> QED BY <2>1, <2>2, <2>3 DEF Kept, SameTR, BufferOK
<1> QED BY <1>1, <1>2

-----------------------------------------------------------------------------
(* From the console to the remote.                                         *)

\* A key changes nothing of the remote's command but its bytes, which it may
\* clear.
Keyed(f, g) ==
  /\ g \in Flt /\ g.asBuf = f.asBuf
  /\ g.tcStage = f.tcStage /\ g.tcPos = f.tcPos
  /\ g.tcCmd = f.tcCmd \/ g.tcCmd = Cleared(f.tcCmd)
  /\ f.toConsole \in Seq(OwnToken) => g.toConsole \in Seq(OwnToken)
  /\ Len(f.line) < LBsz => Len(g.line) < LBsz

LEMMA EnterKeys ==
  ASSUME NEW f, NEW g \in Flt, Keyed(f, g), NEW bs \in Seq(Cells)
  PROVE  Keyed(f, Enter(g, bs))
<1>1. Answered(g, Enter(g, bs))
  BY EnterIs
<1> HIDE DEF Enter
<1> QED BY <1>1 DEF Answered, Keyed, SameLine, SameSave

LEMMA KeysAre ==
  ASSUME NEW f \in Flt, NEW b \in Bytes
  PROVE  Keyed(f, StageTR(f, b))
<1>1. f.trStage \in {"idle", "esc", "cmd"} /\ Stages = {"idle", "esc", "cmd"}
  BY DEF Flt, Stages
<1>2. <<b>> \in Seq(Cells) /\ <<ESC, b>> \in Seq(Cells)
  BY DEF Cells, Data, Bytes
<1>3. ASSUME NEW st \in Stages PROVE Keyed(f, [f EXCEPT !.trStage = st]) /\ [f EXCEPT !.trStage = st] \in Flt
  <2> DEFINE g == [f EXCEPT !.trStage = st]
  <2>1. /\ g \in Flt /\ SameSave(f, g) /\ g.asBuf = f.asBuf
        /\ g.toConsole = f.toConsole /\ g.tcStage = f.tcStage
        /\ g.tcPos = f.tcPos /\ g.tcCmd = f.tcCmd
    BY <1>3, StageTRIs
  <2> HIDE DEF g
  <2>2. g \in Flt /\ Keyed(f, g)
    BY <2>1 DEF Keyed, SameSave
  <2> QED BY <2>2 DEF g
<1>4. Keyed(f, f)
  BY DEF Keyed
<1>5. Keyed(f, ReInitTR(f)) /\ ReInitTR(f) \in Flt
  <2> DEFINE g == ReInitTR(f)
  <2>1. /\ g \in Flt /\ SameSave(f, g) /\ g.asBuf = f.asBuf /\ g.toConsole = f.toConsole
        /\ g.tcStage = f.tcStage /\ g.tcPos = f.tcPos /\ g.tcCmd = Cleared(f.tcCmd)
    BY ReInitTRIs
  <2> HIDE DEF g
  <2>2. g \in Flt /\ Keyed(f, g)
    BY <2>1 DEF Keyed, SameSave
  <2> QED BY <2>2 DEF g
<1>6. b = BEL => b \notin EndsLine
  BY DEF BEL, EndsLine, LF, CR
<1>7. CASE f.trStage = "idle"
  <2>1. StageTR(f, b) = IF b = ESC THEN [f EXCEPT !.trStage = "esc"] ELSE Enter(f, <<b>>)
    BY <1>7 DEF StageTR
  <2>2. Keyed(f, [f EXCEPT !.trStage = "esc"])
    BY <1>1, <1>3
  <2>3. Keyed(f, Enter(f, <<b>>))
    BY <1>2, <1>4, EnterKeys
  <2> QED BY <2>1, <2>2, <2>3
<1>8. CASE f.trStage = "esc"
  <2>1. CASE b \in EndsLine
    <3>1. StageTR(f, b) = Enter(ReInitTR(f), <<ESC, b>>)
      BY <1>8, <2>1 DEF StageTR, EndsLine, LF, CR
    <3> QED BY <1>2, <1>5, <3>1, EnterKeys
  <2>2. CASE b \notin EndsLine /\ b = "}"
    <3>1. StageTR(f, b) = [f EXCEPT !.trStage = "cmd"]
      BY <1>8, <2>2 DEF StageTR
    <3>2. Keyed(f, [f EXCEPT !.trStage = "cmd"])
      BY <1>1, <1>3
    <3> QED BY <3>1, <3>2
  <2>3. CASE b \notin EndsLine /\ b # "}"
    <3> DEFINE g == [f EXCEPT !.trStage = "idle"]
    <3>1. StageTR(f, b) = Enter(g, <<ESC, b>>)
      BY <1>8, <2>3 DEF StageTR
    <3>2. Keyed(f, g) /\ g \in Flt
      BY <1>1, <1>3
    <3> HIDE DEF g
    <3> QED BY <1>2, <3>1, <3>2, EnterKeys
  <2> QED BY <2>1, <2>2, <2>3
<1>9. CASE f.trStage = "cmd"
  <2>1. CASE b \in EndsLine
    <3>1. StageTR(f, b) = ReInitTR(f)
      BY <1>6, <1>9, <2>1 DEF StageTR
    <3> QED BY <1>5, <3>1
  <2>2. CASE b = BEL
    <3> DEFINE e == [f EXCEPT !.trStage = "idle"]
               p == ProcessTR(e, TextTR(f))
               g == ReInitTR(p)
    <3>1. StageTR(f, b) = g
      BY <1>6, <1>9, <2>2 DEF StageTR
    <3>2. Keyed(f, e) /\ e \in Flt /\ e.tcCmd = f.tcCmd
      BY <1>1, <1>3 DEF Flt
    <3> HIDE DEF e
    <3>3. Handled(e, p) /\ p \in Flt
      BY <3>2, TextIs, ProcessTRIs DEF Handled
    <3> HIDE DEF p
    <3>4. /\ g \in Flt /\ SameSave(p, g) /\ g.asBuf = p.asBuf /\ g.toConsole = p.toConsole
          /\ g.tcStage = p.tcStage /\ g.tcPos = p.tcPos /\ g.tcCmd = Cleared(p.tcCmd)
      BY <3>3, ReInitTRIs
    <3> HIDE DEF g
    <3> QED BY <3>1, <3>2, <3>3, <3>4 DEF Keyed, Handled, SameLine, SameSave
  <2>3. CASE b \notin EndsLine /\ b # BEL
    <3> DEFINE g == CollectTR(f, b)
    <3>1. StageTR(f, b) = g
      BY <1>9, <2>3 DEF StageTR
    <3>2. /\ g \in Flt /\ SameSave(f, g) /\ g.asBuf = f.asBuf /\ g.toConsole = f.toConsole
          /\ g.tcStage = f.tcStage /\ g.tcPos = f.tcPos /\ g.tcCmd = f.tcCmd
      BY CollectTRIs
    <3> HIDE DEF g
    <3> QED BY <3>1, <3>2 DEF Keyed, SameSave
  <2> QED BY <2>1, <2>2, <2>3
<1> QED BY <1>1, <1>7, <1>8, <1>9

-----------------------------------------------------------------------------
(* What reached the screen.                                                *)

Pick(s, t) == IF t.own THEN s ELSE Append(s, t.byte)
Picked(q)  == FoldLeft(LAMBDA s, t : IF t.own THEN s ELSE Append(s, t.byte), <<>>, q)

Glyphs == Seq(Cells \union Messages)

LEMMA PickIs ==
  ASSUME NEW s \in Glyphs, NEW t \in Token
  PROVE  Pick(s, t) \in Glyphs
  BY DEF Pick, Glyphs, Token

\* The fold, token by token.
LEMMA PickedRuns ==
  ASSUME NEW s \in Seq(Token)
  PROVE  \E g : /\ g[0] = <<>>
                /\ \A n \in 0 .. Len(s) - 1 : g[n + 1] = Pick(g[n], s[n + 1])
                /\ \A n \in 0 .. Len(s) : g[n] \in Glyphs
                /\ Picked(s) = g[Len(s)]
<1> DEFINE base == <<>>
           N    == Len(s)
           F    == [p \in Glyphs \X (1 .. N) |-> Pick(p[1], s[p[2]])]
           iter == CHOOSE f : f = [S \in SUBSET (DOMAIN s) |->
                      IF S = {} THEN base ELSE Pick(f[S \ {Max(S)}], s[Max(S)])]
<1>1. base \in Glyphs /\ N \in Nat /\ DOMAIN s = 1 .. N
  BY DEF Glyphs
<1>2. \A t \in Glyphs, i \in 1 .. N :
        F[<<t, i>>] = Pick(t, s[i]) /\ Pick(t, s[i]) \in Glyphs
  BY PickIs
<1>3. PICK g : FoldsOver(g, Glyphs, base, N, F)
  <2>1. F \in [Glyphs \X (1 .. N) -> Glyphs]
    BY <1>2 DEF F
  <2> HIDE DEF F, base, N, iter
  <2> QED BY <1>1, <2>1, FoldExists
<1>4. g = [S \in SUBSET (DOMAIN s) |-> IF S = {} THEN base ELSE Pick(g[S \ {Max(S)}], s[Max(S)])]
  <2>1. ASSUME NEW S \in SUBSET (1 .. N), S # {}
        PROVE  g[S] = Pick(g[S \ {Max(S)}], s[Max(S)])
    <3>1. Max(S) \in 1 .. N
      BY <1>1, <2>1, MaxIs
    <3>2. g[S \ {Max(S)}] \in Glyphs
      BY <1>3 DEF FoldsOver
    <3> HIDE DEF F, base, N
    <3> QED BY <1>2, <1>3, <2>1, <3>1, <3>2 DEF FoldsOver
  <2> HIDE DEF F, base, N
  <2> QED BY <1>1, <1>3, <2>1 DEF FoldsOver
<1>5. /\ Picked(s) = iter[DOMAIN s]
      /\ iter = [S \in SUBSET (DOMAIN s) |-> IF S = {} THEN base ELSE Pick(iter[S \ {Max(S)}], s[Max(S)])]
  BY <1>4 DEF Picked, FoldLeft, MapThenFoldSet, Pick
<1> DEFINE Good == {n \in Nat : n <= N => iter[1 .. n] \in Glyphs}
           h    == [n \in 0 .. N |-> iter[1 .. n]]
<1> HIDE DEF iter
<1>6. iter[1 .. 0] = base
  <2>1. 1 .. 0 = {} /\ {} \in SUBSET (DOMAIN s)
    OBVIOUS
  <2> QED BY <1>5, <2>1
<1>7. ASSUME NEW n \in Nat, n + 1 <= N PROVE iter[1 .. n + 1] = Pick(iter[1 .. n], s[n + 1])
  <2> DEFINE S == 1 .. n + 1
  <2>1. S \in SUBSET (DOMAIN s)
    BY <1>1, <1>7
  <2>2. Max(S) = n + 1 /\ S \ {n + 1} = 1 .. n /\ S # {}
    BY InitialSegment
  <2> HIDE DEF S
  <2>3. iter[S] = Pick(iter[S \ {Max(S)}], s[Max(S)])
    BY <1>5, <2>1, <2>2
  <2> QED BY <2>2, <2>3 DEF S
<1>8. Nat \subseteq Good
  <2>1. 0 \in Good
    BY <1>1, <1>6
  <2>2. ASSUME NEW n \in Nat, n \in Good PROVE n + 1 \in Good
    <3> SUFFICES ASSUME n + 1 <= N PROVE iter[1 .. n + 1] \in Glyphs
      OBVIOUS
    <3>1. iter[1 .. n] \in Glyphs /\ n + 1 \in 1 .. N
      BY <1>1, <2>2
    <3> QED BY <1>2, <1>7, <3>1
  <2> HIDE DEF Good
  <2> QED BY <2>1, <2>2, NatSet
<1>9. /\ h[0] = <<>>
      /\ \A n \in 0 .. N : h[n] \in Glyphs
      /\ Picked(s) = h[N]
  <2>1. \A n \in 0 .. N : h[n] \in Glyphs
    BY <1>1, <1>8
  <2>2. 0 \in 0 .. N /\ N \in 0 .. N
    BY <1>1
  <2>3. h[0] = <<>>
    BY <1>6, <2>2
  <2>4. h[N] = iter[1 .. N]
    BY <2>2
  <2>5. Picked(s) = h[N]
    BY <1>1, <1>5, <2>4
  <2> QED BY <2>1, <2>3, <2>5
<1>10. \A n \in 0 .. N - 1 : h[n + 1] = Pick(h[n], s[n + 1])
  BY <1>1, <1>7
<1> HIDE DEF h
<1> QED BY <1>9, <1>10

LEMMA PickedAppend ==
  ASSUME NEW s \in Seq(Token), NEW t \in Token
  PROVE  Picked(Append(s, t)) = Pick(Picked(s), t) /\ Picked(s) \in Glyphs
<1> DEFINE N == Len(s)
           a == Append(s, t)
<1>1. N \in Nat /\ a \in Seq(Token) /\ Len(a) = N + 1 /\ a[N + 1] = t /\ \A i \in 1 .. N : a[i] = s[i]
  OBVIOUS
<1>2. PICK g : /\ g[0] = <<>>
               /\ \A n \in 0 .. N - 1 : g[n + 1] = Pick(g[n], s[n + 1])
               /\ \A n \in 0 .. N : g[n] \in Glyphs
               /\ Picked(s) = g[N]
  BY PickedRuns
<1> HIDE DEF a
<1>3. PICK h : /\ h[0] = <<>>
               /\ \A n \in 0 .. N : h[n + 1] = Pick(h[n], a[n + 1])
               /\ Picked(a) = h[N + 1]
  <2>1. PICK h : /\ h[0] = <<>>
                 /\ \A n \in 0 .. Len(a) - 1 : h[n + 1] = Pick(h[n], a[n + 1])
                 /\ Picked(a) = h[Len(a)]
    BY <1>1, PickedRuns
  <2> QED BY <1>1, <2>1
<1> DEFINE Good == {n \in Nat : n <= N => g[n] = h[n]}
<1>4. 0 \in Good
  BY <1>2, <1>3
<1>5. ASSUME NEW n \in Nat, n \in Good PROVE n + 1 \in Good
  <2> SUFFICES ASSUME n + 1 <= N PROVE g[n + 1] = h[n + 1]
    OBVIOUS
  <2>1. n \in 0 .. N - 1 /\ n \in 0 .. N /\ n + 1 \in 1 .. N /\ g[n] = h[n]
    BY <1>1, <1>5
  <2> QED BY <1>1, <1>2, <1>3, <2>1
<1>6. g[N] = h[N]
  <2>1. Nat \subseteq Good
    <3> HIDE DEF Good
    <3> QED BY <1>4, <1>5, NatSet
  <2> QED BY <1>1, <2>1
<1>7. Picked(a) = Pick(h[N], t)
  BY <1>1, <1>3
<1> QED BY <1>1, <1>2, <1>6, <1>7 DEF a

LEMMA PickedOwn ==
  ASSUME NEW s \in Seq(Token), NEW q \in Seq(OwnToken)
  PROVE  Picked(s \o q) = Picked(s)
<1> DEFINE N == Len(q)
           part(n) == SubSeq(q, 1, n)
           Good == {n \in Nat : n <= N => Picked(s \o part(n)) = Picked(s)}
<1>1. N \in Nat /\ q \in Seq(Token)
  BY OwnTokens
<1>2. 0 \in Good
  <2>1. s \o part(0) = s
    BY <1>1
  <2> QED BY <2>1
<1>3. ASSUME NEW n \in Nat, n \in Good PROVE n + 1 \in Good
  <2> SUFFICES ASSUME n + 1 <= N PROVE Picked(s \o part(n + 1)) = Picked(s)
    OBVIOUS
  <2>1. part(n) \in Seq(Token) /\ q[n + 1] \in OwnToken /\ q[n + 1] \in Token
    <3>1. n \in 0 .. N /\ n + 1 \in 1 .. N
      BY <1>1
    <3>2. part(n) \in Seq(OwnToken)
      BY <3>1
    <3> QED BY <3>1, <3>2, OwnTokens
  <2>2. s \o part(n + 1) = Append(s \o part(n), q[n + 1])
    BY <1>1
  <2>3. s \o part(n) \in Seq(Token)
    BY <2>1
  <2>4. Picked(s \o part(n + 1)) = Pick(Picked(s \o part(n)), q[n + 1])
    BY <2>1, <2>2, <2>3, PickedAppend
  <2>5. q[n + 1].own = TRUE
    BY <2>1 DEF OwnToken
  <2>6. Picked(s \o part(n)) = Picked(s)
    BY <1>1, <1>3
  <2> HIDE DEF part, N
  <2> QED BY <2>4, <2>5, <2>6 DEF Pick
<1>4. Picked(s \o part(N)) = Picked(s)
  <2>1. Nat \subseteq Good
    <3> HIDE DEF Good
    <3> QED BY <1>2, <1>3, NatSet
  <2> QED BY <1>1, <2>1
<1>5. part(N) = q
  BY <1>1
<1> QED BY <1>4, <1>5

LEMMA PickedPassed ==
  ASSUME NEW s \in Seq(Token), NEW b \in Bytes
  PROVE  Picked(s \o <<Passed(b)>>) = Append(Picked(s), b)
<1>1. Passed(b) \in Token /\ Passed(b).own = FALSE /\ Passed(b).byte = b
  BY PassedIs DEF Passed
<1>2. s \o <<Passed(b)>> = Append(s, Passed(b))
  BY <1>1
<1> HIDE DEF Passed
<1> QED BY <1>1, <1>2, PickedAppend DEF Pick

-----------------------------------------------------------------------------
(* The command that the line holds.                                        *)

\* (a name for the character, which the provers' translation does not take)
Brace           == "{"
Opened(s)       == Openings(s, Brace)
EndsInEscape(s) == s # <<>> /\ s[Len(s)] = ESC

LEMMA AppendIs ==
  ASSUME NEW S, NEW s \in Seq(S), NEW b \in S
  PROVE  /\ Append(s, b) \in Seq(S) /\ Len(s) \in Nat /\ Len(Append(s, b)) = Len(s) + 1
         /\ Append(s, b)[Len(s) + 1] = b
         /\ \A i \in 1 .. Len(s) : Append(s, b)[i] = s[i]
  OBVIOUS

LEMMA NoDoubleAppend ==
  ASSUME NEW s \in Printed, NEW b \in Bytes, NoDouble(Append(s, b))
  PROVE  NoDouble(s) /\ (EndsInEscape(s) => b # ESC)
<1> DEFINE a == Append(s, b)
           n == Len(s)
<1>1. s \in Seq(Bytes)
  BY DEF Printed
<1>2. /\ n \in Nat /\ Len(a) = n + 1 /\ a[n + 1] = b
      /\ \A i \in 1 .. n : a[i] = s[i]
  BY <1>1, AppendIs
<1>3. \A i \in 1 .. Len(a) - 1 : a[i] = ESC => a[i + 1] # ESC
  BY DEF NoDouble
<1>4. s # <<>> => n \in 1 .. n
  BY <1>1
<1> HIDE DEF a
<1>5. NoDouble(s)
  <2> SUFFICES ASSUME NEW i \in 1 .. n - 1, s[i] = ESC PROVE s[i + 1] # ESC
    BY DEF NoDouble
  <2>1. i \in 1 .. n /\ i + 1 \in 1 .. n /\ i \in 1 .. Len(a) - 1
    BY <1>2
  <2> QED BY <1>2, <1>3, <2>1
<1>6. EndsInEscape(s) => b # ESC
  BY <1>2, <1>3, <1>4 DEF EndsInEscape
<1> QED BY <1>5, <1>6

LEMMA HarmlessAppend ==
  ASSUME NEW s \in Printed, NEW b \in Bytes, Harmless(Append(s, b))
  PROVE  Harmless(s) /\ (EndsInEscape(s) => b \notin {ESC, Brace})
<1> DEFINE a == Append(s, b)
           n == Len(s)
<1>1. s \in Seq(Bytes)
  BY DEF Printed
<1>2. /\ n \in Nat /\ Len(a) = n + 1 /\ a[n + 1] = b
      /\ \A i \in 1 .. n : a[i] = s[i]
  BY <1>1, AppendIs
<1>3. \A i \in 1 .. Len(a) - 1 : a[i] = ESC => a[i + 1] \notin {ESC, Brace}
  BY DEF Harmless, Brace
<1>4. s # <<>> => n \in 1 .. n
  BY <1>1
<1> HIDE DEF a
<1>5. Harmless(s)
  <2> SUFFICES ASSUME NEW i \in 1 .. n - 1, s[i] = ESC PROVE s[i + 1] \notin {ESC, Brace}
    BY DEF Harmless, Brace
  <2>1. i \in 1 .. n /\ i + 1 \in 1 .. n /\ i \in 1 .. Len(a) - 1
    BY <1>2
  <2> QED BY <1>2, <1>3, <2>1
<1>6. EndsInEscape(s) => b \notin {ESC, Brace}
  BY <1>2, <1>3, <1>4 DEF EndsInEscape
<1> QED BY <1>5, <1>6

\* A line of harmless escapes opens nothing.
LEMMA HarmlessIs ==
  ASSUME NEW s \in Printed, Harmless(s)
  PROVE  NoDouble(s) /\ Opened(s) = {}
<1>1. NoDouble(s)
  BY DEF Harmless, NoDouble
<1>2. ASSUME NEW i \in Opened(s) PROVE FALSE
  <2>1. i \in 2 .. Len(s) /\ s[i - 1] = ESC /\ s[i] = Brace
    BY DEF Opened, Openings
  <2>2. i - 1 \in 1 .. Len(s) - 1 /\ (i - 1) + 1 = i
    BY <2>1 DEF Printed
  <2>3. s[i] \notin {ESC, Brace}
    BY <2>1, <2>2 DEF Harmless, Brace
  <2> QED BY <2>1, <2>3
<1> QED BY <1>1, <1>2

LEMMA OpenedAppend ==
  ASSUME NEW s \in Printed, NEW b \in Bytes
  PROVE  /\ b = BEL => Opened(Append(s, b)) = {}
         /\ b # BEL => Opened(Append(s, b)) =
                         Opened(s) \union IF b = Brace /\ EndsInEscape(s) THEN {Len(s) + 1} ELSE {}
<1> DEFINE a == Append(s, b)
           n == Len(s)
<1>1. s \in Seq(Bytes)
  BY DEF Printed
<1>2. /\ n \in Nat /\ Len(a) = n + 1 /\ a[n + 1] = b
      /\ \A i \in 1 .. n : a[i] = s[i]
  BY <1>1, AppendIs
<1>3. EndsInEscape(s) <=> n \in 1 .. n /\ s[n] = ESC
  <2>1. s # <<>> <=> n \in 1 .. n
    BY <1>1
  <2> QED BY <2>1 DEF EndsInEscape
<1>4. \A i : i \in Opened(a) <=> /\ i \in 2 .. n + 1 /\ a[i - 1] = ESC /\ a[i] = Brace
                                 /\ \A j \in i .. n + 1 : a[j] # BEL
  BY <1>2 DEF Opened, Openings
<1>5. \A i : i \in Opened(s) <=> /\ i \in 2 .. n /\ s[i - 1] = ESC /\ s[i] = Brace
                                 /\ \A j \in i .. n : s[j] # BEL
  BY <1>2 DEF Opened, Openings
<1> HIDE DEF a, n
<1>6. b = BEL => Opened(a) = {}
  <2> SUFFICES ASSUME b = BEL, NEW i \in Opened(a) PROVE FALSE
    OBVIOUS
  <2>1. i \in 2 .. n + 1 /\ n + 1 \in i .. n + 1
    BY <1>2, <1>4
  <2> QED BY <1>2, <1>4, <2>1
<1>7. ASSUME b # BEL, NEW i \in Opened(a), i # n + 1 PROVE i \in Opened(s)
  <2>1. i \in 2 .. n /\ i \in 1 .. n /\ i - 1 \in 1 .. n
    BY <1>2, <1>4, <1>7
  <2>2. \A j \in i .. n : j \in i .. n + 1 /\ j \in 1 .. n
    BY <1>2, <2>1
  <2> QED BY <1>2, <1>4, <1>5, <1>7, <2>1, <2>2
<1>8. ASSUME b # BEL, NEW i \in Opened(s) PROVE i \in Opened(a)
  <2>1. i \in 2 .. n /\ i \in 1 .. n /\ i - 1 \in 1 .. n /\ i \in 2 .. n + 1
    BY <1>2, <1>5
  <2>2. ASSUME NEW j \in i .. n + 1 PROVE a[j] # BEL
    <3>1. j = n + 1 \/ (j \in i .. n /\ j \in 1 .. n)
      BY <1>2, <2>1
    <3> QED BY <1>2, <1>5, <1>8, <3>1
  <2> QED BY <1>2, <1>4, <1>5, <2>1, <2>2
<1>9. ASSUME b # BEL PROVE n + 1 \in Opened(a) <=> b = Brace /\ EndsInEscape(s)
  <2>1. \A j \in n + 1 .. n + 1 : j = n + 1
    BY <1>2
  <2>2. (n + 1) - 1 = n /\ (n \in 1 .. n <=> n + 1 \in 2 .. n + 1)
    BY <1>2
  <2> QED BY <1>2, <1>3, <1>4, <1>9, <2>1, <2>2
<1>10. n + 1 \notin Opened(s)
  BY <1>2, <1>5
<1> QED BY <1>6, <1>7, <1>8, <1>9 DEF a, n

\* The message, from any one that is the first opening.
LEMMA MessageAt ==
  ASSUME NEW s \in Printed, NEW i \in Opened(s), \A j \in Opened(s) : i <= j
  PROVE  Message(s, Brace) = SubSeq(s, i + 1, Len(s)) /\ i \in 2 .. Len(s)
<1> DEFINE S == Openings(s, Brace)
           m == CHOOSE k \in S : \A j \in S : k <= j
<1>1. S \in SUBSET (2 .. Len(s)) /\ i \in S /\ \A j \in S : i <= j
  BY DEF Openings, Opened
<1> HIDE DEF S
<1>2. m \in S /\ \A j \in S : m <= j
  BY <1>1
<1> HIDE DEF m
<1>3. m = i
  <2>1. m \in 2 .. Len(s) /\ i \in 2 .. Len(s) /\ m <= i /\ i <= m
    BY <1>1, <1>2
  <2> QED BY <2>1
<1>4. Message(s, Brace) = SubSeq(s, m + 1, Len(s))
  BY DEF Message, m, S
<1> QED BY <1>1, <1>3, <1>4

LEMMA FirstOpening ==
  ASSUME NEW s \in Printed, Opened(s) # {}
  PROVE  \E i \in Opened(s) : \A j \in Opened(s) : i <= j
<1>1. Opened(s) \in SUBSET Nat
  BY DEF Opened, Openings, Printed
<1> QED BY <1>1, LeastNat

LEMMA MessageBegins ==
  ASSUME NEW s \in Printed, Opened(s) = {}, EndsInEscape(s), NEW b \in Bytes, b = Brace
  PROVE  Message(Append(s, b), Brace) = <<>>
<1> DEFINE a == Append(s, b)
           n == Len(s)
<1>1. n \in Nat /\ a \in Printed /\ Len(a) = n + 1
  BY DEF Printed
<1>2. Opened(a) = {n + 1}
  <2>1. b # BEL
    BY DEF BEL, Brace
  <2> QED BY <2>1, OpenedAppend
<1> HIDE DEF a, n
<1>3. Message(a, Brace) = SubSeq(a, (n + 1) + 1, n + 1)
  BY <1>1, <1>2, MessageAt
<1>4. SubSeq(a, (n + 1) + 1, n + 1) = <<>>
  BY <1>1 DEF Printed
<1> QED BY <1>3, <1>4 DEF a

LEMMA MessageGrows ==
  ASSUME NEW s \in Printed, Opened(s) # {}, NEW b \in Bytes, b # BEL
  PROVE  /\ Message(Append(s, b), Brace) = Append(Message(s, Brace), b)
         /\ Message(s, Brace) \in Printed
<1> DEFINE a == Append(s, b)
           n == Len(s)
<1>1. n \in Nat /\ a \in Printed /\ Len(a) = n + 1
  BY DEF Printed
<1>2. PICK i \in Opened(s) : \A j \in Opened(s) : i <= j
  BY FirstOpening
<1>3. Message(s, Brace) = SubSeq(s, i + 1, n) /\ i \in 2 .. n
  BY <1>2, MessageAt
<1>4. i \in Opened(a) /\ \A j \in Opened(a) : i <= j
  <2>1. Opened(a) \subseteq Opened(s) \union {n + 1} /\ Opened(s) \subseteq Opened(a)
    BY OpenedAppend
  <2> HIDE DEF a, n
  <2> QED BY <1>1, <1>2, <1>3, <2>1
<1>5. Message(a, Brace) = SubSeq(a, i + 1, n + 1)
  <2> HIDE DEF a, n
  <2> QED BY <1>1, <1>4, MessageAt
<1>6. s \in Seq(Bytes)
  BY DEF Printed
<1>7. SubSeq(s, i + 1, n) \in Seq(Bytes)
  BY <1>3, <1>6
<1>8. SubSeq(a, i + 1, n + 1) = Append(SubSeq(s, i + 1, n), b)
  <2> DEFINE u == SubSeq(a, i + 1, n + 1)
             v == Append(SubSeq(s, i + 1, n), b)
  <2>1. /\ u \in Seq(Bytes) /\ Len(u) = n + 1 - i
        /\ \A k \in 1 .. n + 1 - i : u[k] = a[i + k]
    <3>1. a \in Seq(Bytes) /\ Len(a) = n + 1 /\ i \in 2 .. n /\ n \in Nat
      BY <1>3, <1>6
    <3> HIDE DEF a, n
    <3> QED BY <3>1
  <2>2. /\ v \in Seq(Bytes) /\ Len(v) = n + 1 - i
        /\ \A k \in 1 .. n - i : v[k] = s[i + k]
        /\ v[n + 1 - i] = b
    <3> DEFINE w == SubSeq(s, i + 1, n)
    <3>1. /\ w \in Seq(Bytes) /\ Len(w) = n - i
          /\ \A k \in 1 .. n - i : w[k] = s[i + k]
      BY <1>3, <1>6
    <3> HIDE DEF w
    <3> QED BY <3>1, <1>3, <1>6 DEF w
  <2>3. \A k \in 1 .. n - i : a[i + k] = s[i + k]
    BY <1>3, <1>6
  <2>4. a[n + 1] = b
    BY <1>6
  <2>5. \A k \in 1 .. n + 1 - i : u[k] = v[k]
    <3> HIDE DEF a, u, v
    <3>1. \A k \in 1 .. n + 1 - i : k \in 1 .. n - i \/ k = n + 1 - i
      BY <1>3, <1>6
    <3>2. i + (n + 1 - i) = n + 1 /\ n + 1 - i \in 1 .. n + 1 - i
      BY <1>3, <1>6
    <3> HIDE DEF n
    <3> QED BY <2>1, <2>2, <2>3, <2>4, <3>1, <3>2
  <2> HIDE DEF u, v, a, n
  <2>6. u = v
    BY <2>1, <2>2, <2>5, SeqEqual
  <2> QED BY <2>6 DEF u, v
<1> QED BY <1>3, <1>5, <1>7, <1>8 DEF Printed

-----------------------------------------------------------------------------
(* The invariant of the lines.                                             *)

\* The buffer holds the beginning m of a command, but for what the console's
\* commands have cleared of it.
Collected(f, m) ==
  /\ f.tcPos = IF Len(m) < CmdSize THEN Len(m) ELSE CmdSize
  /\ \E k \in 0 .. f.tcPos : /\ \A i \in 1 .. k : i < CmdSize => f.tcCmd[i] = NUL
                             /\ \A i \in k + 1 .. f.tcPos : f.tcCmd[i] = m[i]

\* The stage, from the line that was printed.
StageFits(f, s) ==
  /\ f.tcStage = "cmd" <=> Opened(s) # {}
  /\ f.tcStage = "esc" <=> EndsInEscape(s) /\ Opened(s) = {}
  /\ f.tcStage = "cmd" => Collected(f, Message(s, Brace))

\* What has been let through of a line without a command.
Released(s) == IF EndsInEscape(s) THEN SubSeq(s, 1, Len(s) - 1) ELSE s

LineTyped ==
  /\ flt \in Flt /\ flt.toConsole \in Seq(OwnToken) /\ Bounded(flt) /\ BufferOK(flt)
  /\ printing \in Printed /\ typing \in Printed /\ said \in Printed /\ screen \in Seq(Token)

LineInv ==
  /\ LineTyped
  /\ plain => ~Capturing(flt)
  /\ plain /\ NoDouble(said) => StageFits(flt, said)
  /\ plain /\ Harmless(said) => Picked(screen) = Released(said)

LEMMA LastOfAppend ==
  ASSUME NEW s \in Printed, NEW b \in Bytes
  PROVE  EndsInEscape(Append(s, b)) <=> b = ESC
<1>1. /\ Len(Append(s, b)) = Len(s) + 1 /\ Append(s, b)[Len(s) + 1] = b
      /\ Append(s, b) # <<>>
  BY DEF Printed
<1> QED BY <1>1 DEF EndsInEscape

LEMMA CollectedStep ==
  ASSUME NEW f \in Flt, NEW b \in Bytes, NEW m \in Printed, Collected(f, m), f.tcStage = "cmd"
  PROVE  Collected(CollectTC(f, b), Append(m, b))
<1> DEFINE g == CollectTC(f, b)
           a == Append(m, b)
           n == Len(m)
<1>1. /\ f.tcPos < CmdSize => g.tcPos = f.tcPos + 1 /\ g.tcCmd = [f.tcCmd EXCEPT ![f.tcPos + 1] = b]
      /\ ~(f.tcPos < CmdSize) => g = f
  BY CollectTCIs
<1>2. m \in Seq(Bytes)
  BY DEF Printed
<1>3. n \in Nat /\ Len(a) = n + 1 /\ a[n + 1] = b /\ \A i \in 1 .. n : a[i] = m[i]
  BY <1>2, AppendIs
<1>4. CmdSize \in Nat /\ f.tcPos \in 0 .. CmdSize /\ f.tcCmd \in [1 .. CmdSize -> Bytes \union {NUL}]
  BY FilterAssumption DEF Flt, Position, Buffer
<1> HIDE DEF g, a, n
<1>5. f.tcPos = IF n < CmdSize THEN n ELSE CmdSize
  BY DEF Collected, n
<1>6. PICK k \in 0 .. f.tcPos : /\ \A i \in 1 .. k : i < CmdSize => f.tcCmd[i] = NUL
                                /\ \A i \in k + 1 .. f.tcPos : f.tcCmd[i] = m[i]
  BY DEF Collected
<1>7. f.tcPos <= n
  BY <1>3, <1>4, <1>5
<1>8. CASE f.tcPos < CmdSize
  <2>1. f.tcPos = n /\ g.tcPos = n + 1 /\ g.tcCmd = [f.tcCmd EXCEPT ![n + 1] = b]
    BY <1>1, <1>3, <1>4, <1>5, <1>8
  <2>2. n + 1 \in 1 .. CmdSize /\ k \in 0 .. n + 1 /\ k \in 0 .. n
    BY <1>3, <1>4, <1>6, <1>8, <2>1
  <2>3. ASSUME NEW i \in 1 .. k, i < CmdSize PROVE g.tcCmd[i] = NUL
    <3>1. i # n + 1 /\ i \in 1 .. CmdSize
      BY <1>3, <1>4, <2>2, <2>3
    <3> QED BY <1>4, <1>6, <2>1, <2>3, <3>1
  <2>4. ASSUME NEW i \in k + 1 .. n + 1 PROVE g.tcCmd[i] = a[i]
    <3>1. CASE i = n + 1
      BY <1>3, <1>4, <2>1, <2>2, <3>1
    <3>2. CASE i # n + 1
      <4>1. i \in k + 1 .. f.tcPos /\ i \in 1 .. n /\ i \in 1 .. CmdSize
        BY <1>3, <1>4, <2>1, <2>2, <2>4, <3>2
      <4> QED BY <1>3, <1>4, <1>6, <2>1, <3>2, <4>1
    <3> QED BY <3>1, <3>2
  <2>5. n + 1 = IF n + 1 < CmdSize THEN n + 1 ELSE CmdSize
    BY <1>3, <1>4, <2>2
  <2> QED BY <1>3, <2>1, <2>2, <2>3, <2>4, <2>5 DEF Collected, g, a
<1>9. CASE ~(f.tcPos < CmdSize)
  <2>1. g = f /\ f.tcPos = CmdSize /\ CmdSize <= n
    BY <1>1, <1>3, <1>4, <1>5, <1>9
  <2>2. ASSUME NEW i \in k + 1 .. f.tcPos PROVE f.tcCmd[i] = a[i]
    <3>1. i \in 1 .. n
      BY <1>3, <1>4, <1>6, <1>7
    <3> QED BY <1>3, <1>6, <2>2, <3>1
  <2>3. CmdSize = IF n + 1 < CmdSize THEN n + 1 ELSE CmdSize
    BY <1>3, <1>4, <2>1
  <2> QED BY <1>3, <1>6, <2>1, <2>2, <2>3 DEF Collected, g, a
<1> QED BY <1>8, <1>9

LEMMA StageFitsStep ==
  ASSUME NEW f \in Flt, BufferOK(f), NEW s \in Printed, StageFits(f, s),
         NEW b \in Bytes \ EndsLine, NoDouble(Append(s, b))
  PROVE  StageFits(StageTC(f, b), Append(s, b))
<1> DEFINE g == StageTC(f, b)
           a == Append(s, b)
<1>1. f.tcStage \in {"idle", "esc", "cmd"}
  BY DEF Flt, Stages
<1>2. EndsInEscape(s) => b # ESC
  BY NoDoubleAppend
<1>3. EndsInEscape(a) <=> b = ESC
  BY LastOfAppend
<1>4. /\ b = BEL => Opened(a) = {}
      /\ b # BEL => Opened(a) = Opened(s) \union IF b = Brace /\ EndsInEscape(s) THEN {Len(s) + 1} ELSE {}
  BY OpenedAppend
<1>5. ESC # BEL /\ ESC # Brace /\ BEL # Brace
  BY DEF ESC, BEL, Brace
<1>6. CASE f.tcStage = "idle"
  <2>1. g.tcStage = IF b = ESC THEN "esc" ELSE "idle"
    BY <1>6, IdleStage
  <2>2. Opened(s) = {} /\ ~EndsInEscape(s)
    BY <1>6 DEF StageFits
  <2>3. Opened(a) = {}
    BY <1>4, <2>2
  <2> HIDE DEF g, a
  <2> QED BY <1>3, <2>1, <2>3 DEF StageFits, g, a
<1>7. CASE f.tcStage = "esc"
  <2>1. g.tcStage = (IF b = Brace THEN "cmd" ELSE "idle") /\ g.tcPos = f.tcPos
    BY <1>7, EscStage DEF Brace
  <2>2. Opened(s) = {} /\ EndsInEscape(s) /\ b # ESC
    BY <1>2, <1>7 DEF StageFits
  <2>3. CASE b = Brace
    <3>1. Opened(a) # {}
      BY <1>4, <1>5, <2>2, <2>3
    <3>2. Message(a, Brace) = <<>>
      <4>1. Message(Append(s, b), Brace) = <<>>
        BY <2>2, <2>3, MessageBegins
      <4> QED BY <4>1
    <3>3. g.tcPos = 0 /\ g.tcStage = "cmd"
      BY <1>7, <2>1, <2>3 DEF BufferOK
    <3>4. Collected(g, <<>>)
      <4>1. 0 \in 0 .. 0 /\ Len(<<>>) = 0 /\ CmdSize \in Nat /\ 0 < CmdSize
        BY FilterAssumption
      <4>2. \A i \in 1 .. 0 : FALSE
        OBVIOUS
      <4> HIDE DEF g
      <4> QED BY <3>3, <4>1, <4>2 DEF Collected
    <3> HIDE DEF g, a
    <3> QED BY <3>1, <3>2, <3>3, <3>4 DEF StageFits, g, a
  <2>4. CASE b # Brace
    <3>1. Opened(a) = {}
      BY <1>4, <2>2, <2>4
    <3>2. g.tcStage = "idle" /\ ~EndsInEscape(a)
      BY <1>3, <2>1, <2>2, <2>4
    <3> HIDE DEF g, a
    <3> QED BY <3>1, <3>2 DEF StageFits, g, a
  <2> QED BY <2>3, <2>4
<1>8. CASE f.tcStage = "cmd" /\ b # BEL
  <2>1. g = CollectTC(f, b)
    BY <1>8, CmdStage
  <2>2. g.tcStage = "cmd"
    <3>1. CollectTC(f, b).tcStage = f.tcStage
      BY DEF CollectTC, Flt
    <3> HIDE DEF g
    <3> QED BY <1>8, <2>1, <3>1
  <2>3. Opened(s) # {} /\ Collected(f, Message(s, Brace))
    BY <1>8 DEF StageFits
  <2>4. Opened(a) # {}
    BY <1>4, <1>8, <2>3
  <2>5. Message(a, Brace) = Append(Message(s, Brace), b) /\ Message(s, Brace) \in Printed
    BY <1>8, <2>3, MessageGrows
  <2>6. Collected(g, Message(a, Brace))
    BY <1>8, <2>1, <2>3, <2>5, CollectedStep
  <2> HIDE DEF g, a
  <2> QED BY <2>2, <2>4, <2>6 DEF StageFits, g, a
<1>9. CASE f.tcStage = "cmd" /\ b = BEL
  <2>1. g.tcStage = "idle"
    BY <1>9, EndOfCommand
  <2>2. Opened(a) = {} /\ ~EndsInEscape(a)
    BY <1>3, <1>4, <1>5, <1>9
  <2> HIDE DEF g, a
  <2> QED BY <2>1, <2>2 DEF StageFits, g, a
<1> QED BY <1>1, <1>6, <1>7, <1>8, <1>9

\* A key clears the buffer or leaves it.
LEMMA StageFitsKeyed ==
  ASSUME NEW f \in Flt, NEW g, Keyed(f, g), NEW s, StageFits(f, s)
  PROVE  StageFits(g, s)
<1> DEFINE m == Message(s, Brace)
<1>1. CmdSize \in Nat /\ f.tcPos \in 0 .. CmdSize /\ f.tcCmd \in Buffer
  BY FilterAssumption DEF Flt, Position
<1>2. ASSUME Collected(f, m) PROVE Collected(g, m)
  <2>1. CASE g.tcCmd = f.tcCmd
    BY <1>2, <2>1 DEF Collected, Keyed
  <2>2. CASE g.tcCmd = Cleared(f.tcCmd)
    <3>1. \A i \in 1 .. CmdSize - 1 : g.tcCmd[i] = NUL
      BY <1>1, <2>2, ClearedIs
    <3>2. g.tcPos = f.tcPos /\ f.tcPos \in 0 .. f.tcPos
      BY <1>1 DEF Keyed
    <3>3. ASSUME NEW i \in 1 .. f.tcPos, i < CmdSize PROVE g.tcCmd[i] = NUL
      <4>1. i \in 1 .. CmdSize - 1
        BY <1>1, <3>3
      <4> QED BY <3>1, <4>1
    <3>4. \A i \in f.tcPos + 1 .. f.tcPos : FALSE
      BY <1>1
    <3>5. f.tcPos = IF Len(m) < CmdSize THEN Len(m) ELSE CmdSize
      BY <1>2 DEF Collected
    <3> HIDE DEF m
    <3> QED BY <3>2, <3>3, <3>4, <3>5 DEF Collected
  <2> QED BY <2>1, <2>2 DEF Keyed
<1> QED BY <1>2 DEF StageFits, Keyed

LEMMA BufferKeyed ==
  ASSUME NEW f \in Flt, NEW g, Keyed(f, g), BufferOK(f)
  PROVE  BufferOK(g)
<1>1. f.tcCmd \in Buffer
  BY DEF Flt
<1>2. \A i \in 1 .. CmdSize - 1 : Cleared(f.tcCmd)[i] = NUL
  BY <1>1, ClearedIs
<1> QED BY <1>2 DEF BufferOK, Keyed

LEMMA TokensAssociate ==
  ASSUME NEW q \in Seq(Token), NEW t \in Seq(Token), NEW u \in Seq(Token)
  PROVE  q \o (t \o u) = (q \o t) \o u
<1>1. (q \o t) \o u = q \o (t \o u)
  BY ConcatAssociative
<1> QED BY <1>1

LEMMA TokenPair ==
  ASSUME NEW q \in Seq(Token), NEW t \in Seq(Token), NEW x \in Token, NEW y \in Token
  PROVE  q \o (t \o <<x, y>>) = ((q \o t) \o <<x>>) \o <<y>>
<1> DEFINE u == <<x>>
           v == <<y>>
<1>1. u \in Seq(Token) /\ v \in Seq(Token)
  OBVIOUS
<1>2. <<x, y>> = u \o v
  <2> DEFINE a == <<x, y>>
             c == u \o v
  <2>1. a \in Seq(Token) /\ Len(a) = 2 /\ a[1] = x /\ a[2] = y
    OBVIOUS
  <2>2. Len(u) = 1 /\ Len(v) = 1 /\ u[1] = x /\ v[1] = y
    OBVIOUS
  <2> HIDE DEF a, u, v
  <2>3. c \in Seq(Token) /\ Len(c) = 2 /\ c[1] = x /\ c[2] = y
    <3>1. /\ c \in Seq(Token) /\ Len(c) = Len(u) + Len(v)
          /\ \A i \in 1 .. Len(u) : c[i] = u[i]
          /\ \A i \in 1 .. Len(v) : c[Len(u) + i] = v[i]
      BY <1>1, ConcatProperties
    <3>2. 1 \in 1 .. Len(u) /\ 1 \in 1 .. Len(v) /\ Len(u) + 1 = 2 /\ Len(u) + Len(v) = 2
      BY <2>2
    <3> HIDE DEF c
    <3>3. c[2] = v[1] /\ c[1] = u[1]
      BY <3>1, <3>2
    <3> QED BY <2>2, <3>1, <3>2, <3>3
  <2> HIDE DEF c
  <2>4. \A i \in 1 .. 2 : a[i] = c[i]
    <3>1. \A i \in 1 .. 2 : i = 1 \/ i = 2
      OBVIOUS
    <3> QED BY <2>1, <2>3, <3>1
  <2>5. a = c
    BY <2>1, <2>3, <2>4, SeqEqual
  <2> QED BY <2>5 DEF a, c
<1> HIDE DEF u, v
<1>3. t \o u \in Seq(Token) /\ q \o t \in Seq(Token)
  BY <1>1
<1>4. t \o (u \o v) = (t \o u) \o v
  BY <1>1, TokensAssociate
<1>5. q \o ((t \o u) \o v) = (q \o (t \o u)) \o v
  BY <1>1, <1>3, TokensAssociate
<1>6. q \o (t \o u) = (q \o t) \o u
  BY <1>1, TokensAssociate
<1> QED BY <1>2, <1>4, <1>5, <1>6 DEF u, v

\* What a byte that opens no command puts out.
LEMMA ReleasedStep ==
  ASSUME NEW f \in Flt, NEW s \in Printed, NEW b \in Bytes \ EndsLine,
         StageFits(f, s), Harmless(Append(s, b)),
         f.toConsole \in Seq(OwnToken), NEW q \in Seq(Token), Picked(q) = Released(s)
  PROVE  Picked(q \o StageTC(f, b).toConsole) = Released(Append(s, b))
<1> DEFINE g == StageTC(f, b)
           a == Append(s, b)
           t == q \o f.toConsole
<1>1. Harmless(s) /\ (EndsInEscape(s) => b \notin {ESC, Brace})
  BY HarmlessAppend
<1>2. Opened(s) = {}
  BY <1>1, HarmlessIs
<1>3. EndsInEscape(a) <=> b = ESC
  BY LastOfAppend
<1>4. f.toConsole \in Seq(Token) /\ t \in Seq(Token) /\ Picked(t) = Released(s)
  <2>1. f.toConsole \in Seq(Token)
    BY OwnTokens
  <2> QED BY <2>1, PickedOwn
<1>5. s \in Seq(Bytes) /\ Len(s) \in Nat /\ SubSeq(a, 1, Len(a) - 1) = s
  BY DEF Printed
<1>6. ESC \in Bytes
  BY DEF Bytes
<1>7. f.tcStage \in {"idle", "esc"}
  BY <1>2 DEF Flt, Stages, StageFits
<1>8. CASE f.tcStage = "idle"
  <2>1. g.toConsole = IF b = ESC THEN f.toConsole ELSE f.toConsole \o <<Passed(b)>>
    BY <1>8, IdleStage
  <2>2. ~EndsInEscape(s) /\ Released(s) = s
    BY <1>2, <1>8 DEF StageFits, Released
  <2>3. CASE b = ESC
    <3>1. Picked(q \o g.toConsole) = s
      BY <1>4, <2>1, <2>2, <2>3
    <3>2. Released(a) = s
      BY <1>3, <1>5, <2>3 DEF Released
    <3> QED BY <3>1, <3>2
  <2>4. CASE b # ESC
    <3>1. q \o g.toConsole = t \o <<Passed(b)>>
      <4>1. <<Passed(b)>> \in Seq(Token)
        <5>1. Passed(b) \in Token
          BY PassedIs
        <5> QED BY <5>1
      <4>2. g.toConsole = f.toConsole \o <<Passed(b)>>
        BY <2>1, <2>4
      <4> HIDE DEF g
      <4> DEFINE p == <<Passed(b)>>
      <4> HIDE DEF p
      <4>3. p \in Seq(Token) /\ g.toConsole = f.toConsole \o p
        BY <4>1, <4>2 DEF p
      <4>4. q \o (f.toConsole \o p) = (q \o f.toConsole) \o p
        BY <1>4, <4>3, TokensAssociate
      <4> QED BY <4>3, <4>4 DEF p
    <3>2. Picked(t \o <<Passed(b)>>) = Append(s, b)
      <4> HIDE DEF t
      <4> QED BY <1>4, <2>2, PickedPassed
    <3>3. Released(a) = a
      BY <1>3, <2>4 DEF Released
    <3> QED BY <3>1, <3>2, <3>3
  <2> QED BY <2>3, <2>4
<1>9. CASE f.tcStage = "esc"
  <2>1. EndsInEscape(s) /\ b # ESC /\ b # Brace
    BY <1>1, <1>9 DEF StageFits
  <2>2. g.toConsole = f.toConsole \o <<Passed(ESC), Passed(b)>>
    BY <1>9, <2>1, EscStage DEF Brace
  <2> DEFINE r == SubSeq(s, 1, Len(s) - 1)
             u == t \o <<Passed(ESC)>>
  <2>3. Picked(t) = r
    BY <1>4, <2>1 DEF Released
  <2>4. Append(r, ESC) = s
    <3>1. s # <<>> /\ s[Len(s)] = ESC
      BY <2>1 DEF EndsInEscape
    <3> HIDE DEF Printed
    <3> QED BY <1>5, <3>1
  <2>5. Passed(ESC) \in Token /\ Passed(b) \in Token
    BY <1>6, PassedIs
  <2>6. u \in Seq(Token) /\ q \o g.toConsole = u \o <<Passed(b)>>
    <3>1. q \o (f.toConsole \o <<Passed(ESC), Passed(b)>>) = u \o <<Passed(b)>>
      BY <1>4, <2>5, TokenPair
    <3>2. u \in Seq(Token)
      <4> HIDE DEF t, Passed
      <4> QED BY <1>4, <2>5
    <3> QED BY <2>2, <3>1, <3>2
  <2>7. Picked(u) = s
    <3>1. Picked(u) = Append(r, ESC)
      <4> HIDE DEF t
      <4> QED BY <1>4, <1>6, <2>3, PickedPassed
    <3> QED BY <2>4, <3>1
  <2>8. Picked(u \o <<Passed(b)>>) = Append(s, b)
    <3> HIDE DEF u
    <3> QED BY <2>6, <2>7, PickedPassed
  <2>9. Released(a) = a
    BY <1>3, <2>1 DEF Released
  <2> QED BY <2>6, <2>8, <2>9
<1> QED BY <1>7, <1>8, <1>9

-----------------------------------------------------------------------------
LEMMA EmptyLine ==
  /\ <<>> \in Printed /\ Opened(<<>>) = {} /\ ~EndsInEscape(<<>>) /\ Released(<<>>) = <<>>
  /\ <<>> \in Seq(Token) /\ Picked(<<>>) = <<>>
<1> DEFINE q == <<>>
<1>1. q \in Seq(Token) /\ Len(q) = 0
  OBVIOUS
<1>2. Picked(q) = <<>>
  <2>1. PICK g : /\ g[0] = <<>>
                 /\ Picked(q) = g[Len(q)]
    <3> HIDE DEF q
    <3> QED BY <1>1, PickedRuns
  <2> QED BY <1>1, <2>1
<1>3. Opened(q) = {}
  <2>1. 2 .. Len(q) = {}
    BY <1>1
  <2> HIDE DEF q
  <2> QED BY <2>1 DEF Opened, Openings
<1>4. ~EndsInEscape(q) /\ q \in Printed
  BY DEF EndsInEscape, Printed
<1>5. Released(q) = q
  <2> HIDE DEF q
  <2> QED BY <1>4 DEF Released
<1> QED BY <1>1, <1>2, <1>3, <1>4, <1>5

LEMMA InitBlank == Blank \in Buffer /\ \A i \in 1 .. CmdSize : Blank[i] = NUL
  BY DEF Blank, Buffer

LEMMA LineInitInv ==
  ASSUME LineInit
  PROVE  LineInv
<1>1. /\ <<>> \in Printed /\ <<>> \in Names /\ <<>> \in Shows /\ <<>> \in Sends
      /\ 0 \in Position /\ "idle" \in Stages /\ None \in Dirs /\ HomeFiles \in FilesType
  <2>1. HomeFiles \in FilesType
    <3>1. ASSUME NEW n \in DOMAIN HomeFiles PROVE HomeFiles[n] \in Seq(Data)
      <4>1. Range(HomeFiles[n]) \subseteq Data
        BY DEF Data
      <4>2. HomeFiles[n] \in Seq(Range(HomeFiles[n]))
        BY FilterAssumption
      <4> QED BY <4>1, <4>2, SeqMonotonic
    <3>2. DOMAIN HomeFiles \in SUBSET Names
      BY DEF Names
    <3>3. HomeFiles = [n \in DOMAIN HomeFiles |-> HomeFiles[n]]
      BY FilterAssumption
    <3> QED BY <3>1, <3>2, <3>3 DEF FilesType
  <2> QED BY <2>1, EmptySeqs, FilterAssumption DEF Position, Stages, Dirs
<1>2. flt = [tcStage |-> "idle", tcCmd |-> Blank, tcPos |-> 0,
             trStage |-> "idle", trCmd |-> Blank, trPos |-> 0,
             toConsole |-> <<>>, toRemote |-> <<>>,
             asBuf |-> <<>>,
             consume |-> FALSE,
             savefp |-> NoFile, saved |-> <<>>, line |-> <<>>, gotNumbers |-> FALSE,
             cwd |-> None, files |-> HomeFiles, crashed |-> FALSE]
  BY DEF LineInit, FilterInit
<1>3. flt \in Flt
  BY <1>1, <1>2, InitBlank DEF Flt, NoFile
<1>4. flt.tcStage = "idle" /\ flt.tcPos = 0 /\ flt.tcCmd = Blank /\ flt.toConsole = <<>>
      /\ flt.asBuf = <<>> /\ flt.line = <<>> /\ ~flt.consume
  BY <1>2
<1>5. Bounded(flt)
  BY <1>4, FilterAssumption DEF Bounded
<1>6. BufferOK(flt)
  BY <1>4, InitBlank, FilterAssumption DEF BufferOK
<1>7. StageFits(flt, <<>>)
  BY <1>4, EmptyLine DEF StageFits
<1>8. LineTyped
  BY <1>1, <1>3, <1>4, <1>5, <1>6, EmptyLine DEF LineTyped, LineInit
<1> QED BY <1>4, <1>7, <1>8, EmptyLine DEF LineInv, LineInit, Capturing

LEMMA BeginsInv ==
  ASSUME LineInv, RemoteBegins \/ ConsoleBegins
  PROVE  LineInv'
<1>1. UNCHANGED <<flt, said, screen, plain>>
  BY DEF RemoteBegins, ConsoleBegins, history
<1>2. printing' \in Printed /\ typing' \in Printed
  BY LineAssumption DEF RemoteBegins, ConsoleBegins, LineInv, LineTyped, Printed
<1> QED BY <1>1, <1>2 DEF LineInv, LineTyped, Bounded, BufferOK, Capturing, StageFits, Collected

\* The rest of what is printed or typed.
LEMMA HeadTail ==
  ASSUME NEW s \in Printed, s # <<>>
  PROVE  Head(s) \in Bytes /\ Tail(s) \in Printed
  BY DEF Printed

\* A queue that is emptied.
LEMMA Emptied ==
  ASSUME NEW f \in Flt, NEW g,
         g = [f EXCEPT !.toConsole = <<>>] \/ g = [f EXCEPT !.toRemote = <<>>]
  PROVE  /\ g \in Flt /\ (Bounded(f) => Bounded(g)) /\ (BufferOK(f) => BufferOK(g))
         /\ (Capturing(g) <=> Capturing(f)) /\ g.tcStage = f.tcStage /\ g.asBuf = f.asBuf
         /\ g.tcPos = f.tcPos /\ g.tcCmd = f.tcCmd
         /\ g.toConsole \in {f.toConsole, <<>>}
<1>1. <<>> \in Shows /\ <<>> \in Sends
  BY EmptySeqs
<1>2. /\ g \in Flt /\ g.asBuf = f.asBuf /\ g.line = f.line
      /\ g.consume = f.consume /\ g.savefp = f.savefp /\ g.tcStage = f.tcStage
      /\ g.tcPos = f.tcPos /\ g.tcCmd = f.tcCmd /\ g.toConsole \in {f.toConsole, <<>>}
  BY <1>1 DEF Flt
<1> QED BY <1>2 DEF Bounded, BufferOK, Capturing

LEMMA FitsStays ==
  ASSUME NEW f, NEW g, g.tcStage = f.tcStage, g.tcPos = f.tcPos, g.tcCmd = f.tcCmd,
         NEW s, StageFits(f, s)
  PROVE  StageFits(g, s)
  BY DEF StageFits, Collected

LEMMA OutDataInv ==
  ASSUME LineInv, OutData
  PROVE  LineInv'
<1> DEFINE b == Head(printing)
           f == Filter_ToConsole(flt, b)
<1>1. /\ flt \in Flt /\ flt.toConsole \in Seq(OwnToken) /\ Bounded(flt) /\ BufferOK(flt)
      /\ printing \in Printed /\ typing \in Printed /\ said \in Printed /\ screen \in Seq(Token)
  BY DEF LineInv, LineTyped
<1>2. /\ printing # <<>>
      /\ flt' = [f EXCEPT !.toConsole = <<>>]
      /\ printing' = Tail(printing)
      /\ said' = (IF b \in EndsLine THEN <<>> ELSE Append(said, b))
      /\ screen' = (IF b \in EndsLine THEN <<>> ELSE screen \o f.toConsole)
      /\ plain' = (IF b \in EndsLine THEN f.tcStage = "idle" /\ ~Capturing(f)
                                     ELSE plain /\ ~Capturing(flt) /\ ~Capturing(f))
      /\ typing' = typing
  BY DEF OutData
<1>3. b \in Bytes /\ printing' \in Printed
  BY <1>1, <1>2, HeadTail
<1> HIDE DEF b
<1>4. Kept(flt, f) /\ f \in Flt
  BY <1>1, <1>3, ToConsoleKeeps DEF Kept
<1>5. f.toConsole \in Seq(Token) /\ Bounded(f) /\ BufferOK(f)
  BY <1>1, <1>4 DEF Kept
<1> HIDE DEF f
<1>6. /\ flt' \in Flt /\ Bounded(flt') /\ BufferOK(flt')
      /\ (Capturing(flt') <=> Capturing(f)) /\ flt'.tcStage = f.tcStage
      /\ flt'.tcPos = f.tcPos /\ flt'.tcCmd = f.tcCmd
  BY <1>2, <1>4, <1>5, Emptied
<1>7. flt'.toConsole = <<>>
  BY <1>2, <1>4 DEF Flt
<1>8. LineTyped'
  <2>1. <<>> \in Printed /\ <<>> \in Seq(Token) /\ <<>> \in Seq(OwnToken)
    BY EmptyLine
  <2>2. said' \in Printed
    BY <1>1, <1>2, <1>3, <2>1 DEF Printed
  <2>3. screen' \in Seq(Token)
    BY <1>1, <1>2, <1>5, <2>1
  <2>4. Bounded(flt)' /\ BufferOK(flt)'
    BY <1>6 DEF Bounded, BufferOK
  <2> QED BY <1>1, <1>2, <1>3, <1>6, <1>7, <2>1, <2>2, <2>3, <2>4 DEF LineTyped
<1>9. plain' => ~Capturing(f)
  BY <1>2
<1>10. plain' => ~Capturing(flt)'
  BY <1>6, <1>9 DEF Capturing
<1>11. CASE b \in EndsLine
  <2>1. said' = <<>> /\ screen' = <<>> /\ (plain' => f.tcStage = "idle")
    BY <1>2, <1>11
  <2>2. plain' => StageFits(flt', said')
    BY <1>6, <2>1, EmptyLine DEF StageFits
  <2>3. Picked(screen') = Released(said')
    BY <2>1, EmptyLine
  <2>4. plain' => StageFits(flt, said)'
    BY <2>2 DEF StageFits, Collected
  <2> QED BY <1>8, <1>10, <2>3, <2>4 DEF LineInv
<1>12. CASE b \notin EndsLine /\ plain'
  <2> DEFINE g == Staged(flt, b)
             a == Append(said, b)
  <2>1. said' = a /\ screen' = screen \o f.toConsole /\ plain /\ ~Capturing(flt)
    BY <1>2, <1>12
  <2>2. /\ g \in Flt /\ g.tcStage = flt.tcStage /\ g.tcCmd = flt.tcCmd /\ g.tcPos = flt.tcPos
        /\ g.toConsole \in Seq(OwnToken)
        /\ ~Capturing(AutostartCheck(flt, b))
    BY <1>1, <1>3, <2>1, StagedIs
  <2>3. f = StageTC(g, b)
    BY <2>2 DEF f, Filter_ToConsole, Staged
  <2>4. BufferOK(g)
    BY <1>1, <2>2 DEF BufferOK
  <2> HIDE DEF g
  <2>5. ASSUME NoDouble(a) PROVE StageFits(flt, said)'
    <3>1. NoDouble(said)
      BY <1>1, <1>3, <2>5, NoDoubleAppend
    <3>2. StageFits(flt, said)
      BY <2>1, <3>1 DEF LineInv
    <3>3. StageFits(g, said)
      BY <2>2, <3>2, FitsStays
    <3>4. StageFits(f, a)
      BY <1>1, <1>3, <1>12, <2>2, <2>3, <2>4, <2>5, <3>3, StageFitsStep
    <3>5. StageFits(flt', a)
      BY <1>6, <3>4, FitsStays
    <3>6. StageFits(flt', said')
      BY <2>1, <3>5
    <3> QED BY <3>6 DEF StageFits, Collected
  <2>6. ASSUME Harmless(a) PROVE Picked(screen') = Released(said')
    <3>1. Harmless(said)
      BY <1>1, <1>3, <2>6, HarmlessAppend
    <3>2. NoDouble(said)
      BY <1>1, <3>1, HarmlessIs
    <3>3. StageFits(flt, said) /\ Picked(screen) = Released(said)
      BY <2>1, <3>1, <3>2 DEF LineInv
    <3>4. StageFits(g, said)
      BY <2>2, <3>3, FitsStays
    <3>5. Picked(screen \o StageTC(g, b).toConsole) = Released(Append(said, b))
      BY <1>1, <1>3, <1>12, <2>2, <2>6, <3>3, <3>4, ReleasedStep
    <3> QED BY <2>1, <2>3, <3>5
  <2>7. (NoDouble(said)' => NoDouble(a)) /\ (Harmless(said)' => Harmless(a))
    BY <2>1 DEF NoDouble, Harmless
  <2> HIDE DEF a
  <2> QED BY <1>8, <1>10, <2>5, <2>6, <2>7 DEF LineInv
<1>13. CASE b \notin EndsLine /\ ~plain'
  BY <1>8, <1>13 DEF LineInv
<1> QED BY <1>11, <1>12, <1>13

LEMMA PollKeyInv ==
  ASSUME LineInv, PollKey
  PROVE  LineInv'
<1> DEFINE b == Head(typing)
           f == Filter_ToRemote(flt, b)
<1>1. /\ flt \in Flt /\ flt.toConsole \in Seq(OwnToken) /\ Bounded(flt) /\ BufferOK(flt)
      /\ printing \in Printed /\ typing \in Printed /\ said \in Printed /\ screen \in Seq(Token)
  BY DEF LineInv, LineTyped
<1>2. /\ typing # <<>>
      /\ flt' = [f EXCEPT !.toRemote = <<>>]
      /\ typing' = Tail(typing)
      /\ plain' = (plain /\ ~Capturing(f))
      /\ printing' = printing /\ said' = said /\ screen' = screen
  BY DEF PollKey
<1>3. b \in Bytes /\ typing' \in Printed
  BY <1>1, <1>2, HeadTail
<1> HIDE DEF b
<1>4. Keyed(flt, f) /\ f \in Flt
  BY <1>1, <1>3, KeysAre DEF Keyed, Filter_ToRemote
<1> HIDE DEF f
<1>5. BufferOK(f) /\ Bounded(f) /\ f.toConsole \in Seq(OwnToken)
  BY <1>1, <1>4, BufferKeyed DEF Bounded, Keyed
<1>6. /\ flt' \in Flt /\ Bounded(flt') /\ BufferOK(flt')
      /\ (Capturing(flt') <=> Capturing(f)) /\ flt'.tcStage = f.tcStage
      /\ flt'.tcPos = f.tcPos /\ flt'.tcCmd = f.tcCmd /\ flt'.toConsole \in {f.toConsole, <<>>}
  BY <1>2, <1>4, <1>5, Emptied
<1>7. LineTyped'
  <2>1. <<>> \in Seq(OwnToken)
    OBVIOUS
  <2>2. Bounded(flt)' /\ BufferOK(flt)'
    BY <1>6 DEF Bounded, BufferOK
  <2>3. flt'.toConsole \in Seq(OwnToken)
    BY <1>5, <1>6, <2>1
  <2> QED BY <1>1, <1>2, <1>3, <1>6, <2>2, <2>3 DEF LineTyped
<1>8. plain' => plain /\ ~Capturing(flt)'
  BY <1>2, <1>6 DEF Capturing
<1>9. ASSUME StageFits(flt, said) PROVE StageFits(flt, said)'
  <2>1. StageFits(f, said)
    BY <1>1, <1>4, <1>9, StageFitsKeyed
  <2>2. StageFits(flt', said')
    BY <1>2, <1>6, <2>1, FitsStays
  <2> QED BY <2>2 DEF StageFits, Collected
<1>10. (NoDouble(said)' => NoDouble(said)) /\ (Harmless(said)' => Harmless(said))
  BY <1>2 DEF NoDouble, Harmless
<1> QED BY <1>2, <1>7, <1>8, <1>9, <1>10 DEF LineInv

LEMMA PollQuietInv ==
  ASSUME LineInv, PollQuiet
  PROVE  LineInv'
<1>1. /\ flt \in Flt /\ flt.toConsole \in Seq(OwnToken) /\ Bounded(flt) /\ BufferOK(flt)
  BY DEF LineInv, LineTyped
<1>2. /\ flt' = [flt EXCEPT !.toRemote = <<>>]
      /\ UNCHANGED <<printing, typing, said, screen, plain>>
  BY DEF PollQuiet, history
<1>3. /\ flt' \in Flt /\ Bounded(flt') /\ BufferOK(flt')
      /\ (Capturing(flt') <=> Capturing(flt)) /\ flt'.tcStage = flt.tcStage
      /\ flt'.tcPos = flt.tcPos /\ flt'.tcCmd = flt.tcCmd /\ flt'.toConsole \in {flt.toConsole, <<>>}
  BY <1>1, <1>2, Emptied
<1>4. <<>> \in Seq(OwnToken)
  OBVIOUS
<1>5. Bounded(flt)' /\ BufferOK(flt)' /\ (Capturing(flt)' => Capturing(flt))
  BY <1>3 DEF Bounded, BufferOK, Capturing
<1>6. ASSUME StageFits(flt, said) PROVE StageFits(flt, said)'
  <2>1. StageFits(flt', said')
    BY <1>2, <1>3, <1>6, FitsStays
  <2> QED BY <2>1 DEF StageFits, Collected
<1>7. LineTyped'
  BY <1>1, <1>2, <1>3, <1>4, <1>5 DEF LineTyped, LineInv
<1> QED BY <1>2, <1>5, <1>6, <1>7 DEF LineInv

LEMMA LineInductive ==
  ASSUME LineInv, [LineNext]_lineVars
  PROVE  LineInv'
<1>1. CASE UNCHANGED lineVars
  BY <1>1 DEF lineVars, LineInv, LineTyped, Bounded, BufferOK, Capturing, StageFits, Collected
<1> QED BY <1>1, BeginsInv, OutDataInv, PollKeyInv, PollQuietInv DEF LineNext

LEMMA LineInvariant == LineSpec => []LineInv
<1> QED BY LineInitInv, LineInductive, PTL DEF LineSpec

-----------------------------------------------------------------------------
(* The theorems.                                                           *)

LEMMA SeqRange ==
  ASSUME NEW S, NEW s \in Seq(S)
  PROVE  Range(s) \subseteq S
  BY DEF Range

\* Every field of the filter's state has its type; the autostart buffer and a
\* saved line stay within their arrays; what waits for the console when the
\* next byte is printed came from a command typed there.
THEOREM FilterTypeCorrect == LineSpec => []FilterTypeOK
<1>1. ASSUME LineInv PROVE FilterTypeOK
  <2>1. flt \in Flt /\ flt.toConsole \in Seq(OwnToken) /\ Bounded(flt)
    BY <1>1 DEF LineInv, LineTyped
  <2>2. /\ flt.tcStage \in {"idle", "esc", "cmd"} /\ flt.trStage \in {"idle", "esc", "cmd"}
        /\ flt.tcPos \in 0 .. CmdSize /\ flt.trPos \in 0 .. CmdSize
        /\ flt.cwd \in {None, "home"}
    BY <2>1 DEF Flt, Stages, Position, Dirs
  <2>3. /\ flt.tcCmd \in [1 .. CmdSize -> Bytes \union {NUL}]
        /\ flt.trCmd \in [1 .. CmdSize -> Bytes \union {NUL}]
    BY <2>1 DEF Flt, Buffer
  <2>4. DOMAIN flt.tcCmd = 1 .. CmdSize /\ DOMAIN flt.trCmd = 1 .. CmdSize
    BY <2>3
  <2>5. Range(flt.tcCmd) \union Range(flt.trCmd) \subseteq Bytes \union {NUL}
    BY <2>3 DEF Range
  <2>6. \A t \in Range(flt.toConsole) : t.own
    <3>1. Range(flt.toConsole) \subseteq OwnToken
      BY <2>1, SeqRange
    <3>2. \A t \in OwnToken : t.own
      BY DEF OwnToken
    <3> QED BY <3>1, <3>2
  <2>7. Range(flt.toRemote) \subseteq Cells
    BY <2>1, SeqRange DEF Flt, Sends
  <2>8. Range(flt.saved) \subseteq Bytes /\ Range(flt.line) \subseteq Bytes
    <3>1. flt.saved \in Seq(Bytes) /\ flt.line \in Seq(Bytes)
      BY <2>1 DEF Flt, Printed
    <3> QED BY <3>1, SeqRange
  <2>9. Len(flt.asBuf) < ASBLen /\ Len(flt.line) < LBsz
    BY <2>1 DEF Bounded
  <2> QED BY <2>2, <2>4, <2>5, <2>6, <2>7, <2>8, <2>9 DEF FilterTypeOK
<1> QED BY <1>1, LineInvariant, PTL

\* A command of the remote that fits its buffer is run as it was sent or not at
\* all, whatever the console's commands, which clear that buffer
\* (Filter_ReInitTR), have come between its bytes.
THEOREM CommandsWholeOrNot == LineSpec => []WholeOrNothing
<1>1. ASSUME LineInv PROVE WholeOrNothing
  <2> DEFINE m == Message(said, Brace)
             p == flt.tcPos
             cmd == flt.tcCmd
  <2> SUFFICES ASSUME RunsTC, plain, NoDouble(said), Fitting(m)
               PROVE  TextTC(flt) \in {m, <<>>}
    BY DEF WholeOrNothing, Brace
  <2>1. flt \in Flt /\ BufferOK(flt) /\ said \in Printed /\ StageFits(flt, said) /\ flt.tcStage = "cmd"
    BY <1>1 DEF LineInv, LineTyped, RunsTC
  <2>2. Opened(said) # {} /\ Collected(flt, m)
    BY <2>1 DEF StageFits
  <2>3. m \in Seq(Bytes)
    <3>1. BEL # ESC /\ ESC \in Bytes
      BY DEF BEL, ESC, Bytes
    <3> QED BY <2>1, <2>2, <3>1, MessageGrows DEF Printed
  <2>4. CmdSize \in Nat /\ p \in 0 .. CmdSize /\ cmd \in [1 .. CmdSize -> Bytes \union {NUL}] /\ cmd \in Buffer
    BY <2>1, FilterAssumption DEF Flt, Position, Buffer
  <2>5. NUL \notin Range(m) /\ Len(m) < CmdSize - 1 /\ Len(m) \in Nat
    BY <2>3 DEF Fitting
  <2> HIDE DEF m
  <2>6. p = Len(m)
    BY <2>2, <2>4, <2>5 DEF Collected
  <2>7. PICK k \in 0 .. p : /\ \A i \in 1 .. k : i < CmdSize => cmd[i] = NUL
                            /\ \A i \in k + 1 .. p : cmd[i] = m[i]
    BY <2>2 DEF Collected
  <2>8. cmd[p + 1] = NUL /\ p + 1 \in 1 .. CmdSize
    <3>1. p + 1 \in 1 .. CmdSize - 1 /\ p + 1 > p
      BY <2>4, <2>5, <2>6
    <3> QED BY <2>1, <2>4, <3>1 DEF BufferOK
  <2>9. CASE p < 1
    BY <2>9 DEF TextTC
  <2>10. CASE p >= 1 /\ k > 0
    <3>1. 1 \in 1 .. k /\ 1 < CmdSize /\ 1 \in 1 .. CmdSize
      BY <2>4, <2>5, <2>6, <2>7, <2>10
    <3>2. cmd[1] = NUL
      BY <2>7, <3>1
    <3>3. \A i \in 1 .. 1 - 1 : cmd[i] # NUL
      OBVIOUS
    <3>4. CString(cmd) = SubSeq(cmd, 1, 1 - 1)
      <4> HIDE DEF cmd
      <4> QED BY <2>4, <3>1, <3>2, <3>3, CStringAt
    <3>5. SubSeq(cmd, 1, 1 - 1) = <<>>
      BY <2>4, BufferIs DEF Text
    <3> QED BY <2>4, <2>10, <3>4, <3>5 DEF TextTC
  <2>11. CASE p >= 1 /\ k = 0
    <3>1. \A i \in 1 .. p : cmd[i] = m[i]
      BY <2>7, <2>11
    <3>2. \A i \in 1 .. p : m[i] # NUL /\ m[i] \in Bytes
      BY <2>3, <2>5, <2>6 DEF Range
    <3>3. \A i \in 1 .. (p + 1) - 1 : cmd[i] # NUL
      BY <2>4, <3>1, <3>2
    <3>4. CString(cmd) = SubSeq(cmd, 1, (p + 1) - 1)
      <4> HIDE DEF cmd, p
      <4> QED BY <2>4, <2>8, <3>3, CStringAt
    <3>5. (p + 1) - 1 = p
      BY <2>4
    <3>6. SubSeq(cmd, 1, p) = m
      <4> DEFINE u == SubSeq(cmd, 1, p)
      <4>1. cmd \in Seq(Bytes \union {NUL}) /\ Len(cmd) = CmdSize
        BY <2>4, BufferIs DEF Text
      <4>2. u \in Seq(Bytes \union {NUL}) /\ Len(u) = p /\ \A i \in 1 .. p : u[i] = cmd[i]
        <5> HIDE DEF cmd, p
        <5> QED BY <2>4, <4>1
      <4>3. m \in Seq(Bytes \union {NUL})
        BY <2>3, SeqMonotonic
      <4> HIDE DEF u, cmd, p
      <4>4. u = m
        BY <2>6, <3>1, <4>2, <4>3, SeqEqual
      <4> QED BY <4>4 DEF u
    <3> QED BY <2>4, <2>11, <3>4, <3>5, <3>6 DEF TextTC
  <2> QED BY <2>4, <2>7, <2>9, <2>10, <2>11
<1> QED BY <1>1, LineInvariant, PTL

\* A line without a command comes out whole and in order: no byte of it is
\* lost, doubled or overtaken by another, whatever the filter says in between.
THEOREM LinesAreShown == LineSpec => []LineShown
<1>1. ASSUME LineInv PROVE LineShown
  <2> SUFFICES ASSUME plain, Harmless(said)
               PROVE  Shown = IF said # <<>> /\ Last(said) = ESC THEN Front(said) ELSE said
    BY DEF LineShown
  <2>1. Shown = Picked(screen)
    BY DEF Shown, Picked
  <2>2. Picked(screen) = Released(said)
    BY <1>1 DEF LineInv
  <2> QED BY <2>1, <2>2 DEF Released, EndsInEscape, Last, Front
<1> QED BY <1>1, LineInvariant, PTL

-----------------------------------------------------------------------------
(* How often the filter clears the program.                                *)

News(s) == Cardinality({i \in DOMAIN s : s[i] = "new"})

LEMMA NewsType ==
  ASSUME NEW s \in Seq(Cells)
  PROVE  News(s) \in Nat /\ IsFiniteSet({i \in DOMAIN s : s[i] = "new"})
<1> DEFINE S == {i \in DOMAIN s : s[i] = "new"}
<1>1. DOMAIN s = 1 .. Len(s) /\ Len(s) \in Nat
  OBVIOUS
<1>2. IsFiniteSet(1 .. Len(s))
  BY <1>1, FS_Interval
<1>3. S \in SUBSET (1 .. Len(s))
  BY <1>1
<1>4. IsFiniteSet(S)
  BY <1>2, <1>3, FS_Subset
<1> QED BY <1>4, FS_CardinalityType DEF News

LEMMA NewsAppend ==
  ASSUME NEW s \in Seq(Cells), NEW x \in Cells
  PROVE  News(Append(s, x)) = News(s) + IF x = "new" THEN 1 ELSE 0
<1> DEFINE a == Append(s, x)
           n == Len(s)
           S == {i \in DOMAIN s : s[i] = "new"}
           T == {i \in DOMAIN a : a[i] = "new"}
<1>1. /\ n \in Nat /\ DOMAIN s = 1 .. n /\ DOMAIN a = 1 .. n + 1 /\ a[n + 1] = x
      /\ \A i \in 1 .. n : a[i] = s[i]
  OBVIOUS
<1>2. n + 1 \notin S /\ IsFiniteSet(S) /\ Cardinality(S) \in Nat
  BY <1>1, NewsType DEF News
<1>3. \A i : i \in 1 .. n + 1 <=> i \in 1 .. n \/ i = n + 1
  BY <1>1
<1>4. CASE x = "new"
  <2>1. T = S \union {n + 1}
    <3> HIDE DEF a, n
    <3> QED BY <1>1, <1>3, <1>4
  <2> HIDE DEF S, T
  <2> QED BY <1>2, <1>4, <2>1, FS_AddElement DEF News, S, T
<1>5. CASE x # "new"
  <2>1. T = S
    <3> HIDE DEF a, n
    <3> QED BY <1>1, <1>3, <1>5
  <2>2. News(a) = News(s) /\ News(s) \in Nat
    BY <1>2, <2>1 DEF News
  <2>3. News(s) + (IF x = "new" THEN 1 ELSE 0) = News(s)
    BY <1>5, <2>2
  <2> HIDE DEF a
  <2> QED BY <2>2, <2>3 DEF a
<1> QED BY <1>4, <1>5

LEMMA NewsEmpty == News(<<>>) = 0 /\ <<>> \in Seq(Cells)
<1> DEFINE s == <<>>
<1>1. {i \in DOMAIN s : s[i] = "new"} = {}
  OBVIOUS
<1> QED BY <1>1, FS_EmptySet DEF News

LEMMA NewsConcat ==
  ASSUME NEW s \in Seq(Cells), NEW t \in Seq(Cells)
  PROVE  News(s \o t) = News(s) + News(t)
<1> DEFINE N == Len(t)
           part(n) == SubSeq(t, 1, n)
           Good == {n \in Nat : n <= N => News(s \o part(n)) = News(s) + News(part(n))}
<1>0. N \in Nat
  OBVIOUS
<1>1. N \in Nat /\ News(s) \in Nat
  <2>1. News(s) \in Nat
    BY NewsType
  <2> QED BY <1>0, <2>1
<1>2. 0 \in Good
  <2>1. part(0) = <<>> /\ s \o part(0) = s
    BY <1>1
  <2>2. News(s \o part(0)) = News(s) + News(part(0))
    <3>1. News(s \o part(0)) = News(s) /\ News(part(0)) = 0
      BY <2>1, NewsEmpty
    <3> QED BY <1>1, <3>1
  <2> QED BY <2>2
<1>3. ASSUME NEW n \in Nat, n \in Good PROVE n + 1 \in Good
  <2> SUFFICES ASSUME n + 1 <= N PROVE News(s \o part(n + 1)) = News(s) + News(part(n + 1))
    OBVIOUS
  <2> DEFINE p == part(n)
             x == t[n + 1]
  <2>1. p \in Seq(Cells) /\ x \in Cells /\ part(n + 1) = Append(p, x)
    BY <1>1
  <2>2. s \o part(n + 1) = Append(s \o p, x) /\ s \o p \in Seq(Cells)
    BY <1>1
  <2>3. News(s \o p) = News(s) + News(p)
    BY <1>1, <1>3
  <2> HIDE DEF p, x, part
  <2>4. News(Append(p, x)) = News(p) + IF x = "new" THEN 1 ELSE 0
    BY <2>1, NewsAppend
  <2>5. News(Append(s \o p, x)) = News(s \o p) + IF x = "new" THEN 1 ELSE 0
    BY <2>1, <2>2, NewsAppend
  <2>6. News(p) \in Nat
    BY <2>1, NewsType
  <2> DEFINE k == IF x = "new" THEN 1 ELSE 0
  <2>7. k \in Nat
    OBVIOUS
  <2> HIDE DEF k
  <2>8. News(Append(p, x)) = News(p) + k /\ News(Append(s \o p, x)) = News(s \o p) + k
    BY <2>4, <2>5 DEF k
  <2>9. News(s \o part(n + 1)) = News(s) + (News(p) + k)
    <3> DEFINE u == News(s)
               v == News(p)
               w == News(s \o p)
               z == News(s \o part(n + 1))
    <3>1. u \in Nat /\ v \in Nat /\ w = u + v /\ z = w + k
      BY <1>1, <2>2, <2>3, <2>6, <2>8
    <3> HIDE DEF u, v, w, z
    <3>2. z = u + (v + k)
      BY <2>7, <3>1
    <3> QED BY <3>2 DEF u, v, z
  <2> QED BY <2>1, <2>8, <2>9
<1>4. News(s \o part(N)) = News(s) + News(part(N))
  <2>1. Nat \subseteq Good
    <3> HIDE DEF Good
    <3> QED BY <1>2, <1>3, NatSet
  <2> QED BY <1>1, <2>1
<1>5. part(N) = t
  BY <1>1
<1> QED BY <1>4, <1>5

LEMMA NewsOfData ==
  ASSUME NEW t \in Seq(Data)
  PROVE  News(t) = 0
<1>1. {i \in DOMAIN t : t[i] = "new"} = {}
  BY LineAssumption, ElementOfSeq
<1> QED BY <1>1, FS_EmptySet DEF News

LEMMA NewsOfWords ==
  /\ \A w \in {"run", "list", "time", "date"} : News(<<w>>) = 0 /\ <<w>> \in Seq(Cells)
  /\ News(<<"new", "clear">>) = 1 /\ <<"new", "clear">> \in Seq(Cells)
<1>1. {"new", "clear", "run", "list", "time", "date"} \subseteq Cells
  BY WordsAre
<1>2. ASSUME NEW w \in {"run", "list", "time", "date"} PROVE News(<<w>>) = 0 /\ <<w>> \in Seq(Cells)
  <2>1. Append(<<>>, w) = <<w>> /\ w # "new" /\ w \in Cells /\ <<w>> \in Seq(Cells)
    BY <1>1
  <2>2. News(Append(<<>>, w)) = News(<<>>) + IF w = "new" THEN 1 ELSE 0
    BY <2>1, NewsEmpty, NewsAppend
  <2> QED BY <2>1, <2>2, NewsEmpty
<1>3. News(<<"new", "clear">>) = 1
  <2> DEFINE s == <<"new", "clear">>
             S == {i \in DOMAIN s : s[i] = "new"}
  <2>1. DOMAIN s = 1 .. 2 /\ s[1] = "new" /\ s[2] = "clear"
    OBVIOUS
  <2> HIDE DEF s
  <2>2. S = {1}
    <3>1. \A i \in 1 .. 2 : i = 1 \/ i = 2
      OBVIOUS
    <3>2. 1 \in 1 .. 2
      OBVIOUS
    <3> QED BY <2>1, <3>1, <3>2
  <2>3. Cardinality(S) = 1
    BY <2>2, FS_Singleton
  <2> QED BY <2>3 DEF News, s
<1>4. <<"new", "clear">> \in Seq(Cells)
  BY <1>1
<1> QED BY <1>2, <1>3, <1>4

\* So many times does a step type "new".
Adds(f, g, n) == News(g.toRemote) = News(f.toRemote) + n

LEMMA Sent ==
  ASSUME NEW f \in Flt
  PROVE  f.toRemote \in Seq(Cells) /\ News(f.toRemote) \in Nat /\ Adds(f, f, 0)
<1>1. f.toRemote \in Seq(Cells)
  BY DEF Flt, Sends
<1>2. News(f.toRemote) \in Nat
  BY <1>1, NewsType
<1> QED BY <1>1, <1>2 DEF Adds

LEMMA EnterAdds ==
  ASSUME NEW f \in Flt, NEW bs \in Seq(Cells)
  PROVE  Adds(f, Enter(f, bs), News(bs)) /\ Enter(f, bs) \in Flt
<1>1. Enter(f, bs).toRemote = f.toRemote \o bs /\ Enter(f, bs) \in Flt
  BY EnterIs DEF Answered
<1>2. f.toRemote \in Seq(Cells)
  BY Sent
<1> HIDE DEF Enter
<1> QED BY <1>1, <1>2, NewsConcat DEF Adds

LEMMA AddsTwice ==
  ASSUME NEW f \in Flt, NEW g, NEW h, NEW m \in Nat, NEW n \in Nat, Adds(f, g, m), Adds(g, h, n)
  PROVE  Adds(f, h, m + n)
  BY Sent DEF Adds

LEMMA SayAdds ==
  ASSUME NEW f \in Flt, NEW s \in Cells \union Messages
  PROVE  Adds(f, Say(f, s), 0) /\ Say(f, s) \in Flt
<1>1. Say(f, s).toRemote = f.toRemote /\ Say(f, s) \in Flt
  BY SayIs DEF Answered
<1> HIDE DEF Say
<1> QED BY <1>1, Sent DEF Adds

LEMMA TypeAdds ==
  ASSUME NEW f \in Flt, NEW name
  PROVE  Adds(f, Handle_type(f, name), 0) /\ Handle_type(f, name) \in Flt
<1>0. Handle_type(f, name) \in Flt
  BY TypeIs DEF Answered
<1>1. CASE Readable(f, name)
  <2> DEFINE g == Say(f, "Typing")
             t == Typed(Contents(f, name))
             h == Enter(g, t)
             i == Say(h, "Done")
  <2>1. Adds(f, g, 0) /\ g \in Flt
    BY SayAdds DEF Messages
  <2>2. t \in Seq(Data) /\ t \in Seq(Cells) /\ News(t) = 0
    BY <1>1, ContentsAre, TypedIs, DataIsSent, NewsOfData
  <2>3. Handle_type(f, name) = i
    BY <1>1 DEF Handle_type
  <2> HIDE DEF g, t
  <2>4. Adds(g, h, 0) /\ h \in Flt
    BY <2>1, <2>2, EnterAdds
  <2> HIDE DEF h
  <2>5. Adds(h, i, 0)
    BY <2>4, SayAdds DEF Messages
  <2> HIDE DEF i
  <2>6. Adds(f, h, 0)
    BY <2>1, <2>4, Sent DEF Adds
  <2>7. Adds(f, i, 0)
    BY <2>5, <2>6, <2>4, Sent DEF Adds
  <2> QED BY <1>0, <2>3, <2>7
<1>2. CASE ~Readable(f, name)
  <2>1. Handle_type(f, name).toRemote = f.toRemote
    BY <1>2, CannotOpenIs DEF Handle_type
  <2> QED BY <1>0, <2>1, Sent DEF Adds
<1> QED BY <1>1, <1>2

LEMMA MoreAdds ==
  ASSUME NEW f \in Flt, NEW name
  PROVE  Adds(f, Handle_more(f, name), 0)
<1>1. CASE Readable(f, name)
  <2>1. Handle_more(f, name).toRemote = f.toRemote
    BY <1>1 DEF Handle_more, Show, Flt
  <2> QED BY <2>1, Sent DEF Adds
<1>2. CASE ~Readable(f, name)
  <2>1. Handle_more(f, name).toRemote = f.toRemote
    BY <1>2, CannotOpenIs DEF Handle_more
  <2> QED BY <2>1, Sent DEF Adds
<1> QED BY <1>1, <1>2

LEMMA WordAdds ==
  ASSUME NEW f \in Flt, NEW w \in {"run", "list", "time", "date"}
  PROVE  Adds(f, Enter(f, <<w>>), 0)
<1> DEFINE bs == <<w>>
<1>1. bs \in Seq(Cells) /\ News(bs) = 0
  BY NewsOfWords
<1> HIDE DEF bs
<1>2. Adds(f, Enter(f, bs), 0)
  BY <1>1, EnterAdds
<1> QED BY <1>2 DEF bs

LEMMA LoadAdds ==
  ASSUME NEW f \in Flt, NEW name
  PROVE  Adds(f, Handle_load(f, name), 1) /\ Handle_load(f, name) \in Flt
<1> DEFINE bs == <<"new", "clear">>
           g == Enter(f, bs)
<1>1. bs \in Seq(Cells) /\ News(bs) = 1
  BY NewsOfWords
<1>2. Handle_load(f, name) = Handle_type(g, name)
  BY DEF Handle_load
<1> HIDE DEF bs
<1>3. Adds(f, g, 1) /\ g \in Flt
  BY <1>1, EnterAdds
<1> HIDE DEF g
<1>4. Adds(g, Handle_type(g, name), 0)
  BY <1>3, TypeAdds
<1>5. Handle_load(f, name) \in Flt
  BY LoadIs DEF Answered
<1> QED BY <1>2, <1>3, <1>4, <1>5, Sent DEF Adds

LEMMA ChainAdds ==
  ASSUME NEW f \in Flt, NEW name
  PROVE  Adds(f, Handle_chain(f, name), 0)
<1> DEFINE g == Handle_type(f, name)
<1>1. Adds(f, g, 0) /\ g \in Flt
  BY TypeAdds
<1>2. Handle_chain(f, name) = Enter(g, <<"run">>)
  BY DEF Handle_chain
<1> HIDE DEF g
<1>3. Adds(g, Enter(g, <<"run">>), 0)
  BY <1>1, WordAdds
<1> QED BY <1>1, <1>2, <1>3, Sent DEF Adds

LEMMA LoadRunAdds ==
  ASSUME NEW f \in Flt, NEW name
  PROVE  Adds(f, Handle_loadrun(f, name), 1)
<1> DEFINE g == Handle_load(f, name)
<1>1. Adds(f, g, 1) /\ g \in Flt
  BY LoadAdds
<1>2. Handle_loadrun(f, name) = Enter(g, <<"run">>)
  BY DEF Handle_loadrun
<1> HIDE DEF g
<1>3. Adds(g, Enter(g, <<"run">>), 0)
  BY <1>1, WordAdds
<1> QED BY <1>1, <1>2, <1>3, Sent DEF Adds

LEMMA SaveAdds ==
  ASSUME NEW f \in Flt, NEW name
  PROVE  Adds(f, Handle_save(f, name), 0)
<1>1. CASE f.cwd = None
  <2>1. Handle_save(f, name) = [f EXCEPT !.crashed = TRUE]
    BY <1>1 DEF Handle_save
  <2>2. Handle_save(f, name).toRemote = f.toRemote
    BY <2>1 DEF Flt
  <2> QED BY <2>2, Sent DEF Adds
<1>2. CASE f.cwd # None /\ (name = <<>> \/ name \in ReadOnly)
  <2>1. Handle_save(f, name) = [f EXCEPT !.savefp = NoFile]
    BY <1>2 DEF Handle_save
  <2>2. Handle_save(f, name).toRemote = f.toRemote
    BY <2>1 DEF Flt
  <2> QED BY <2>2, Sent DEF Adds
<1>3. CASE f.cwd # None /\ ~(name = <<>> \/ name \in ReadOnly)
  <2> DEFINE e  == Enter(f, <<"list">>)
             fs == [n \in DOMAIN e.files \union {name} |-> IF n = name THEN <<>> ELSE e.files[n]]
             g  == [e EXCEPT !.files = fs, !.savefp = name]
  <2>1. Adds(f, e, 0) /\ e \in Flt
    BY WordAdds, WordIs DEF Answered
  <2>2. Handle_save(f, name) = Capture(g)
    BY <1>3 DEF Handle_save
  <2> HIDE DEF e, fs
  <2>3. Capture(g).toRemote = e.toRemote
    BY <2>1 DEF Capture, Flt
  <2> QED BY <2>1, <2>2, <2>3 DEF Adds
<1> QED BY <1>1, <1>2, <1>3

LEMMA HandleAdds ==
  ASSUME NEW f \in Flt, NEW name \in Commands, NEW args
  PROVE  Adds(f, Handle(f, name, args), 0) \/ Adds(f, Handle(f, name, args), 1)
<1>1. CASE name = <<"boot">>
  BY <1>1, LoadRunAdds DEF Handle, Handle_boot
<1>2. CASE name = <<"more">>
  BY <1>2, MoreAdds DEF Handle
<1>3. CASE name = <<"type">>
  BY <1>3, TypeAdds DEF Handle
<1>4. CASE name = <<"chain">>
  BY <1>4, ChainAdds DEF Handle
<1>5. CASE name = <<"load", "run">>
  BY <1>5, LoadRunAdds DEF Handle
<1>6. CASE name = <<"load">>
  BY <1>6, LoadAdds DEF Handle
<1>7. CASE name = <<"save">>
  BY <1>7, SaveAdds DEF Handle
<1>8. CASE name = <<"catalog">>
  <2>1. Handle(f, name, args) = Handle_catalog(f)
    BY <1>8 DEF Handle
  <2>2. Handle_catalog(f).toRemote = f.toRemote
    <3>1. CASE f.cwd = None
      <4>1. Handle_catalog(f) = [f EXCEPT !.crashed = TRUE]
        BY <3>1 DEF Handle_catalog
      <4> QED BY <4>1 DEF Flt
    <3>2. CASE f.cwd # None
      <4>1. Say(f, "Listing").toRemote = f.toRemote
        BY SayIs DEF Messages
      <4> QED BY <3>2, <4>1 DEF Handle_catalog
    <3> QED BY <3>1, <3>2
  <2> QED BY <2>1, <2>2, Sent DEF Adds
<1>9. CASE name = <<"cd">>
  <2>1. Handle(f, name, args) = Handle_cd(f, args)
    BY <1>9 DEF Handle
  <2>2. Handle_cd(f, args).toRemote = f.toRemote
    BY DEF Handle_cd, Flt
  <2> QED BY <2>1, <2>2, Sent DEF Adds
<1>10. CASE name = <<"seconds">>
  BY <1>10, WordAdds DEF Handle
<1>11. CASE name = <<"date">>
  BY <1>11, WordAdds DEF Handle
<1> QED BY <1>1, <1>2, <1>3, <1>4, <1>5, <1>6, <1>7, <1>8, <1>9, <1>10, <1>11 DEF Commands

LEMMA ProcessTCAdds ==
  ASSUME NEW f \in Flt, NEW text \in Text
  PROVE  Adds(f, ProcessTC(f, text), 0) \/ Adds(f, ProcessTC(f, text), 1)
<1> DEFINE fits == Fits(tcFuncs, text)
<1>1. CASE text = <<>>
  BY <1>1, Sent DEF ProcessTC
<1>2. CASE text # <<>> /\ fits = {}
  <2>1. Adds(f, Say(f, "Command not found"), 0)
    BY SayAdds DEF Messages
  <2> QED BY <1>2, <2>1 DEF ProcessTC
<1>3. CASE text # <<>> /\ fits # {}
  <2>1. fits \in SUBSET (1 .. 10) /\ fits \in SUBSET Nat
    BY FunctionsAre DEF Fits
  <2>2. Min(fits) \in 1 .. 10
    BY <1>3, <2>1, MinIs
  <2>3. tcFuncs[Min(fits)] \in Commands
    BY <2>2, FunctionsAre
  <2> DEFINE name == tcFuncs[Min(fits)]
             g    == Handle_init(f)
             h    == Handle(g, name, Args(name, text))
  <2>4. ProcessTC(f, text) = h
    BY <1>3 DEF ProcessTC
  <2>5. g \in Flt /\ g.toRemote = f.toRemote
    BY InitIs
  <2> HIDE DEF g
  <2>6. Adds(g, h, 0) \/ Adds(g, h, 1)
    BY <2>3, <2>5, HandleAdds
  <2> QED BY <2>4, <2>5, <2>6 DEF Adds
<1> QED BY <1>1, <1>2, <1>3

-----------------------------------------------------------------------------
(* The line that the machine prints and its buffer.                        *)

\* The buffer holds the beginning of the line.
Buffered ==
  /\ Len(flt.asBuf) = IF Len(said) < ASBLen - 2 THEN Len(said) ELSE ASBLen - 2
  /\ \A i \in 1 .. Len(flt.asBuf) : flt.asBuf[i] = said[i]

LEMMA BufferedPhrase ==
  ASSUME LineInv, Buffered
  PROVE  flt.asBuf = Phrase <=> said = Phrase
<1>1. flt.asBuf \in Seq(Bytes) /\ said \in Seq(Bytes)
  BY DEF LineInv, LineTyped, Flt, Printed
<1>2. ASBLen \in Nat /\ Len(Phrase) < ASBLen - 2
  BY FilterAssumption
<1>3. Len(said) < ASBLen - 2 => flt.asBuf = said
  <2> SUFFICES ASSUME Len(said) < ASBLen - 2 PROVE flt.asBuf = said
    OBVIOUS
  <2>1. Len(flt.asBuf) = Len(said) /\ \A i \in 1 .. Len(flt.asBuf) : flt.asBuf[i] = said[i]
    BY DEF Buffered
  <2> QED BY <1>1, <2>1, SeqEqual
<1>4. flt.asBuf = Phrase => Len(said) < ASBLen - 2
  <2>1. Len(said) \in Nat
    BY <1>1
  <2>2. Len(flt.asBuf) < ASBLen - 2 => Len(said) < ASBLen - 2
    BY <1>2, <2>1 DEF Buffered
  <2> QED BY <1>2, <2>2
<1> QED BY <1>2, <1>3, <1>4

\* What a byte does to the buffer.
LEMMA AutostartBuffer ==
  ASSUME NEW f \in Flt, NEW b \in Bytes
  PROVE  AutostartCheck(f, b).asBuf =
           IF b \in EndsLine THEN <<>>
           ELSE IF Len(f.asBuf) < ASBLen - 2 THEN Append(f.asBuf, b) ELSE f.asBuf
<1> DEFINE booted == ProcessTC(Say(f, "Autostart"), <<"boot">>)
           k == IF f.asBuf = Phrase THEN booted ELSE f
<1>1. k \in Flt
  <2>1. booted \in Flt
    BY BootedIs
  <2> QED BY <2>1
<1>2. CASE b \in EndsLine
  <2>1. AutostartCheck(f, b) = [k EXCEPT !.asBuf = <<>>]
    BY <1>2 DEF AutostartCheck
  <2> HIDE DEF k
  <2> QED BY <1>1, <1>2, <2>1 DEF Flt
<1>3. CASE b \notin EndsLine
  <2>1. AutostartCheck(f, b) = Remember(f, b)
    BY <1>3 DEF AutostartCheck
  <2> QED BY <1>3, <2>1 DEF Remember, Flt
<1> QED BY <1>2, <1>3

LEMMA RoomIs == Len(<<>>) = 0 /\ 0 < ASBLen - 2
<1>1. Len(Phrase) \in Nat
  BY FilterAssumption
<1> QED BY <1>1, FilterAssumption

LEMMA ToConsoleBuffer ==
  ASSUME NEW f \in Flt, NEW b \in Bytes
  PROVE  Filter_ToConsole(f, b).asBuf = AutostartCheck(f, b).asBuf
<1> DEFINE h == AutostartCheck(f, b)
           g == [h EXCEPT !.consume = FALSE]
<1>1. h \in Flt
  BY AutostartIs
<1>2. Filter_ToConsole(f, b) = IF Capturing(h) THEN consumeSaveByte(h, b) ELSE StageTC(g, b)
  BY DEF Filter_ToConsole
<1> HIDE DEF h
<1>3. g \in Flt /\ g.asBuf = h.asBuf
  BY <1>1 DEF Flt
<1>4. consumeSaveByte(h, b).asBuf = h.asBuf
  BY <1>1, ConsumeIs DEF SameBuffers
<1> HIDE DEF g
<1>5. StageTC(g, b).asBuf = h.asBuf
  BY <1>3, StageTCKeeps
<1> QED BY <1>2, <1>4, <1>5 DEF h

LEMMA BufferedInit ==
  ASSUME LineInit
  PROVE  Buffered
<1>1. flt.asBuf = <<>> /\ said = <<>>
  BY DEF LineInit, FilterInit
<1>2. Len(<<>>) = 0 /\ 0 < ASBLen - 2
  BY RoomIs
<1>3. \A i \in 1 .. 0 : FALSE
  OBVIOUS
<1> QED BY <1>1, <1>2, <1>3 DEF Buffered

LEMMA BufferedStep ==
  ASSUME LineInv, Buffered, [LineNext]_lineVars
  PROVE  Buffered'
<1>1. /\ flt \in Flt /\ printing \in Printed /\ typing \in Printed /\ said \in Seq(Bytes)
      /\ flt.asBuf \in Seq(Bytes)
  BY DEF LineInv, LineTyped, Printed, Flt
<1>2. ASSUME flt'.asBuf = flt.asBuf, said' = said PROVE Buffered'
  BY <1>2 DEF Buffered
<1>3. CASE UNCHANGED <<flt, said>>
  BY <1>2, <1>3
<1>4. CASE OutData
  <2> DEFINE b == Head(printing)
             f == Filter_ToConsole(flt, b)
  <2>1. b \in Bytes
    BY <1>1, <1>4, HeadTail DEF OutData
  <2>2. flt' = [f EXCEPT !.toConsole = <<>>] /\ said' = (IF b \in EndsLine THEN <<>> ELSE Append(said, b))
    BY <1>4 DEF OutData
  <2> HIDE DEF b
  <2>3. f \in Flt
    BY <1>1, <2>1, ToConsoleKeeps DEF Kept
  <2>4. f.asBuf = IF b \in EndsLine THEN <<>>
                  ELSE IF Len(flt.asBuf) < ASBLen - 2 THEN Append(flt.asBuf, b) ELSE flt.asBuf
    BY <1>1, <2>1, ToConsoleBuffer, AutostartBuffer
  <2> HIDE DEF f
  <2>5. flt'.asBuf = f.asBuf
    BY <2>2, <2>3 DEF Flt
  <2>6. CASE b \in EndsLine
    <3>1. flt'.asBuf = <<>> /\ said' = <<>>
      BY <2>2, <2>4, <2>5, <2>6
    <3>2. Len(<<>>) = 0 /\ 0 < ASBLen - 2
      BY RoomIs
    <3>3. \A i \in 1 .. 0 : FALSE
      OBVIOUS
    <3> QED BY <3>1, <3>2, <3>3 DEF Buffered
  <2>7. CASE b \notin EndsLine
    <3> DEFINE s == said
               a == Append(said, b)
               u == flt.asBuf
               v == Append(flt.asBuf, b)
               n == Len(s)
               l == Len(u)
    <3>1. said' = a /\ flt'.asBuf = IF l < ASBLen - 2 THEN v ELSE u
      BY <2>2, <2>4, <2>5, <2>7
    <3>2. n \in Nat /\ Len(a) = n + 1 /\ a[n + 1] = b /\ \A i \in 1 .. n : a[i] = s[i]
      BY <1>1, <2>1, AppendIs
    <3>3. l \in Nat /\ Len(v) = l + 1 /\ v[l + 1] = b /\ \A i \in 1 .. l : v[i] = u[i]
      BY <1>1, <2>1, AppendIs
    <3>4. l = (IF n < ASBLen - 2 THEN n ELSE ASBLen - 2) /\ \A i \in 1 .. l : u[i] = s[i]
      BY DEF Buffered
    <3>5. ASBLen \in Nat /\ 0 < ASBLen - 2
      BY RoomIs, FilterAssumption
    <3> HIDE DEF s, a, u, v, n, l
    <3>6. CASE l < ASBLen - 2
      <4>1. l = n
        BY <3>2, <3>4, <3>5, <3>6
      <4>2. \A i \in 1 .. n + 1 : i \in 1 .. n \/ i = n + 1
        BY <3>2
      <4>3. \A i \in 1 .. Len(v) : v[i] = a[i]
        BY <3>2, <3>3, <3>4, <4>1, <4>2
      <4>4. Len(v) = IF Len(a) < ASBLen - 2 THEN Len(a) ELSE ASBLen - 2
        BY <3>2, <3>3, <3>5, <3>6, <4>1
      <4>5. flt'.asBuf = v /\ said' = a
        BY <3>1, <3>6
      <4> QED BY <4>3, <4>4, <4>5 DEF Buffered
    <3>7. CASE ~(l < ASBLen - 2)
      <4>1. l = ASBLen - 2 /\ l <= n
        BY <3>2, <3>3, <3>4, <3>5, <3>7
      <4>2. \A i \in 1 .. l : i \in 1 .. n
        BY <3>2, <3>3, <4>1
      <4>3. \A i \in 1 .. l : u[i] = a[i]
        BY <3>2, <3>4, <4>2
      <4>4. l = IF Len(a) < ASBLen - 2 THEN Len(a) ELSE ASBLen - 2
        BY <3>2, <3>3, <3>5, <4>1
      <4>5. flt'.asBuf = u /\ said' = a
        BY <3>1, <3>7
      <4> QED BY <4>3, <4>4, <4>5 DEF Buffered, l
    <3> QED BY <3>6, <3>7
  <2> QED BY <2>6, <2>7
<1>5. CASE PollKey
  <2> DEFINE b == Head(typing)
             f == Filter_ToRemote(flt, b)
  <2>1. b \in Bytes
    BY <1>1, <1>5, HeadTail DEF PollKey
  <2>2. flt' = [f EXCEPT !.toRemote = <<>>] /\ said' = said
    BY <1>5 DEF PollKey
  <2> HIDE DEF b
  <2>3. f \in Flt /\ f.asBuf = flt.asBuf
    BY <1>1, <2>1, KeysAre DEF Keyed, Filter_ToRemote
  <2> HIDE DEF f
  <2>4. flt'.asBuf = f.asBuf
    BY <2>2, <2>3 DEF Flt
  <2> QED BY <1>2, <2>2, <2>3, <2>4
<1>6. CASE PollQuiet
  <2>1. flt' = [flt EXCEPT !.toRemote = <<>>] /\ said' = said
    BY <1>6 DEF PollQuiet, history
  <2>2. flt'.asBuf = flt.asBuf
    BY <1>1, <2>1 DEF Flt
  <2> QED BY <1>2, <2>1, <2>2
<1>7. CASE RemoteBegins \/ ConsoleBegins
  BY <1>3, <1>7 DEF RemoteBegins, ConsoleBegins, history
<1> QED BY <1>3, <1>4, <1>5, <1>6, <1>7 DEF LineNext, lineVars

LEMMA AutostartAdds ==
  ASSUME NEW f \in Flt, NEW b \in Bytes
  PROVE  /\ AutostartCheck(f, b) \in Flt
         /\ Adds(f, AutostartCheck(f, b), IF b \in EndsLine /\ f.asBuf = Phrase THEN 1 ELSE 0)
<1> DEFINE booted == ProcessTC(Say(f, "Autostart"), <<"boot">>)
           k == IF f.asBuf = Phrase THEN booted ELSE f
<1>1. booted \in Flt /\ Adds(f, booted, 1)
  <2>1. PICK t \in Flt : t.toRemote = f.toRemote /\ booted = Handle_boot(t)
    BY BootedIs
  <2>2. Adds(t, Handle_boot(t), 1)
    BY LoadRunAdds DEF Handle_boot
  <2>3. booted \in Flt
    BY BootedIs
  <2> QED BY <2>1, <2>2, <2>3 DEF Adds
<1>2. AutostartCheck(f, b) \in Flt
  BY AutostartIs
<1>3. CASE b \in EndsLine
  <2>1. AutostartCheck(f, b) = [k EXCEPT !.asBuf = <<>>]
    BY <1>3 DEF AutostartCheck
  <2> HIDE DEF booted
  <2>2. k \in Flt
    BY <1>1
  <2>3. AutostartCheck(f, b).toRemote = k.toRemote
    BY <2>1, <2>2 DEF Flt
  <2> QED BY <1>1, <1>2, <1>3, <2>3, Sent DEF Adds
<1>4. CASE b \notin EndsLine
  <2>1. AutostartCheck(f, b).toRemote = f.toRemote
    BY <1>4 DEF AutostartCheck, Remember, Flt
  <2> QED BY <1>2, <1>4, <2>1, Sent DEF Adds
<1> QED BY <1>3, <1>4

LEMMA ConsumeAdds ==
  ASSUME NEW f \in Flt, NEW b \in Bytes
  PROVE  consumeSaveByte(f, b).toRemote = f.toRemote
<1> DEFINE g == Say(f, ".")
           c == CloseSave(g)
           e == Say(c, "Done saving")
<1>1. g \in Flt /\ g.toRemote = f.toRemote
  BY SayIs DEF Messages, Answered
<1> HIDE DEF g
<1>2. c.toRemote = g.toRemote
  BY <1>1 DEF CloseSave, Flt
<1>3. e.toRemote = c.toRemote
  BY <1>1 DEF Say, Show, CloseSave, Flt
<1> HIDE DEF c, e
<1>4. SaveLine(g).toRemote = g.toRemote /\ [g EXCEPT !.line = <<>>].toRemote = g.toRemote
  BY <1>1 DEF SaveLine, Flt
<1>5. EndOfSavedLine(f).toRemote = f.toRemote
  <2>1. CASE f.line = <<>>
    <3>1. ~Numbered(f.line)
      BY <2>1 DEF Numbered
    <3>2. EndOfSavedLine(f) = g
      BY <2>1, <3>1 DEF EndOfSavedLine, g
    <3> QED BY <1>1, <3>2
  <2>2. CASE f.line # <<>> /\ Numbered(f.line)
    <3>1. EndOfSavedLine(f) = SaveLine(g)
      BY <2>2 DEF EndOfSavedLine, g
    <3> QED BY <1>1, <1>4, <3>1
  <2>3. CASE f.line # <<>> /\ ~Numbered(f.line) /\ f.gotNumbers
    <3>1. EndOfSavedLine(f) = e
      BY <2>3 DEF EndOfSavedLine, g, c, e
    <3> QED BY <1>1, <1>2, <1>3, <3>1
  <2>4. CASE f.line # <<>> /\ ~Numbered(f.line) /\ ~f.gotNumbers
    <3>1. EndOfSavedLine(f) = [g EXCEPT !.line = <<>>]
      BY <2>4 DEF EndOfSavedLine, g
    <3> QED BY <1>1, <1>4, <3>1
  <2> QED BY <2>1, <2>2, <2>3, <2>4
<1>6. CASE b \in EndsLine
  BY <1>5, <1>6 DEF consumeSaveByte
<1>7. CASE b \notin EndsLine
  BY <1>7 DEF consumeSaveByte, Flt
<1> QED BY <1>6, <1>7

LEMMA StageAdds ==
  ASSUME NEW f \in Flt, NEW b \in Bytes
  PROVE  /\ b # BEL => Adds(f, StageTC(f, b), 0)
         /\ Adds(f, StageTC(f, b), 0) \/ Adds(f, StageTC(f, b), 1)
<1> DEFINE g == StageTC(f, b)
<1>1. f.tcStage \in {"idle", "esc", "cmd"}
  BY DEF Flt, Stages
<1>2. Adds(f, ReInitTC(f), 0)
  <2>1. ReInitTC(f).toRemote = f.toRemote
    BY DEF ReInitTC, Flt
  <2> QED BY <2>1, Sent DEF Adds
<1>3. CASE f.tcStage = "idle"
  <2>1. g = IF b = ESC THEN [f EXCEPT !.tcStage = "esc"] ELSE Show(f, <<Passed(b)>>)
    BY <1>3 DEF StageTC, BailsOut
  <2>2. g.toRemote = f.toRemote
    BY <2>1 DEF Show, Flt
  <2> QED BY <2>2, Sent DEF Adds
<1>4. CASE f.tcStage # "idle" /\ b \in EndsLine
  <2>1. b \in {LF, CR} /\ b # "{" /\ b # BEL
    BY <1>4 DEF EndsLine, LF, CR, BEL
  <2>2. g = ReInitTC(f)
    BY <1>1, <1>4, <2>1 DEF StageTC, BailsOut
  <2> QED BY <1>2, <2>2
<1>5. CASE f.tcStage = "esc" /\ b \notin EndsLine
  <2>1. CASE b = "{"
    <3>1. g = [f EXCEPT !.tcStage = "cmd"]
      BY <1>5, <2>1 DEF StageTC, BailsOut
    <3>2. g.toRemote = f.toRemote
      BY <3>1 DEF Flt
    <3> QED BY <3>2, Sent DEF Adds
  <2>2. CASE b # "{"
    <3>1. g = Inject(f, b)
      BY <1>5, <2>2 DEF StageTC, BailsOut
    <3>2. g.toRemote = f.toRemote
      BY <3>1 DEF Inject, Show, Flt
    <3> QED BY <3>2, Sent DEF Adds
  <2> QED BY <2>1, <2>2
<1>6. CASE f.tcStage = "cmd" /\ b \notin EndsLine /\ b # BEL
  <2>1. g = CollectTC(f, b)
    BY <1>6, CmdStage
  <2>2. g.toRemote = f.toRemote
    BY <2>1 DEF CollectTC, Flt
  <2> QED BY <2>2, Sent DEF Adds
<1>7. CASE f.tcStage = "cmd" /\ b = BEL
  <2> DEFINE e == [f EXCEPT !.tcStage = "idle"]
             p == ProcessTC(e, TextTC(f))
  <2>1. "idle" \in Stages
    BY DEF Stages
  <2>2. e \in Flt /\ e.toRemote = f.toRemote
    BY <2>1 DEF Flt
  <2>3. g = ReInitTC(p)
    BY <1>7 DEF StageTC, BailsOut, BEL, EndsLine, LF, CR, ESC
  <2> HIDE DEF e
  <2>4. Adds(e, p, 0) \/ Adds(e, p, 1)
    BY <2>2, TextIs, ProcessTCAdds
  <2>5. p \in Flt
    BY <2>2, TextIs, ProcessTCIs DEF Handled
  <2> HIDE DEF p
  <2>6. ReInitTC(p).toRemote = p.toRemote
    BY <2>5 DEF ReInitTC, Flt
  <2> QED BY <1>7, <2>2, <2>3, <2>4, <2>6 DEF Adds
<1> QED BY <1>1, <1>3, <1>4, <1>5, <1>6, <1>7

LEMMA ToConsoleAdds ==
  ASSUME NEW f \in Flt, NEW b \in Bytes
  PROVE  LET g == Filter_ToConsole(f, b)
         IN  IF b = BEL THEN Adds(f, g, 0) \/ Adds(f, g, 1)
             ELSE Adds(f, g, IF b \in EndsLine /\ f.asBuf = Phrase THEN 1 ELSE 0)
<1> DEFINE h == AutostartCheck(f, b)
           s == [h EXCEPT !.consume = FALSE]
           g == Filter_ToConsole(f, b)
           n == IF b \in EndsLine /\ f.asBuf = Phrase THEN 1 ELSE 0
<1>1. h \in Flt /\ Adds(f, h, n)
  BY AutostartAdds
<1>2. g = IF Capturing(h) THEN consumeSaveByte(h, b) ELSE StageTC(s, b)
  BY DEF Filter_ToConsole
<1> HIDE DEF h, g
<1>3. s \in Flt /\ s.toRemote = h.toRemote
  BY <1>1 DEF Flt
<1> HIDE DEF s
<1>4. Adds(s, StageTC(s, b), 0) => Adds(f, g, n) \/ Capturing(h)
  BY <1>1, <1>2, <1>3, Sent DEF Adds
<1>5. Capturing(h) => Adds(f, g, n)
  BY <1>1, <1>2, ConsumeAdds DEF Adds
<1>6. n \in Nat /\ (b = BEL => n = 0)
  BY DEF BEL, EndsLine, LF, CR
<1>7. CASE b # BEL
  BY <1>3, <1>4, <1>5, <1>7, StageAdds DEF g
<1>8. CASE b = BEL
  <2>1. Adds(f, h, 0)
    BY <1>1, <1>6, <1>8
  <2>2. Adds(s, StageTC(s, b), 1) => Adds(f, g, 1) \/ Capturing(h)
    BY <1>2, <1>3, <2>1, Sent DEF Adds
  <2>3. Adds(f, g, 0) \/ Adds(f, g, 1)
    BY <1>3, <1>4, <1>5, <1>6, <1>8, <2>2, StageAdds
  <2> QED BY <1>8, <2>3 DEF g
<1> QED BY <1>7, <1>8

\* The machine is booted when it prints a line that is the phrase, however long
\* the buffer is that holds it and whatever is captured, and no other byte but
\* the end of a command clears its program (AutostartCheck).
THEOREM BootsOnThePhrase == LineSpec => AutostartExact
<1> DEFINE Clears ==
      Prints =>
        LET b     == Head(printing)
            news(s) == Cardinality({i \in DOMAIN s : s[i] = "new"})
            fresh == news(flt'.toRemote) - news(flt.toRemote)
        IN  IF b = BEL THEN fresh <= 1
            ELSE fresh = IF b \in EndsLine /\ said = Phrase THEN 1 ELSE 0
<1>1. ASSUME LineInv, Buffered, [LineNext]_lineVars PROVE Clears
  <2> SUFFICES ASSUME Prints PROVE Clears
    OBVIOUS
  <2>1. flt \in Flt /\ printing \in Printed /\ printing # <<>> /\ printing' = Tail(printing)
    BY <1>1 DEF LineInv, LineTyped, Prints
  <2>2. printing' # printing
    <3>1. printing \in Seq(Bytes)
      BY <2>1 DEF Printed
    <3>2. Len(Tail(printing)) = Len(printing) - 1 /\ Len(printing) \in Nat
      BY <2>1, <3>1
    <3>3. Tail(printing) # printing
      BY <3>2
    <3> QED BY <2>1, <3>3
  <2>3. OutData
    BY <1>1, <2>1, <2>2 DEF LineNext, lineVars, RemoteBegins, ConsoleBegins, PollKey, PollQuiet
  <2> DEFINE b == Head(printing)
             f == Filter_ToConsole(flt, b)
  <2>4. b \in Bytes
    BY <2>1, HeadTail
  <2>5. flt' = [f EXCEPT !.toConsole = <<>>]
    BY <2>3 DEF OutData
  <2>6. f \in Flt
    BY <2>1, <2>4, ToConsoleKeeps DEF Kept
  <2>7. IF b = BEL THEN Adds(flt, f, 0) \/ Adds(flt, f, 1)
        ELSE Adds(flt, f, IF b \in EndsLine /\ flt.asBuf = Phrase THEN 1 ELSE 0)
    BY <2>1, <2>4, ToConsoleAdds
  <2>8. flt.asBuf = Phrase <=> said = Phrase
    BY <1>1, BufferedPhrase
  <2> HIDE DEF b, f
  <2>9. flt'.toRemote = f.toRemote
    BY <2>5, <2>6 DEF Flt
  <2> DEFINE before == News(flt.toRemote)
             after  == News(flt'.toRemote)
  <2>10. before \in Nat /\ after \in Nat
    BY <2>1, <2>6, <2>9, Sent
  <2>11. IF b = BEL THEN after = before + 0 \/ after = before + 1
         ELSE after = before + IF b \in EndsLine /\ said = Phrase THEN 1 ELSE 0
    BY <2>7, <2>8, <2>9 DEF Adds
  <2> HIDE DEF before, after
  <2>12. IF b = BEL THEN after - before <= 1
         ELSE after - before = IF b \in EndsLine /\ said = Phrase THEN 1 ELSE 0
    BY <2>10, <2>11
  <2> QED BY <2>12 DEF before, after, News, b
<1>2. LineSpec => [](LineInv /\ Buffered)
  <2>1. LineInit => LineInv /\ Buffered
    BY LineInitInv, BufferedInit
  <2>2. LineInv /\ Buffered /\ [LineNext]_lineVars => (LineInv /\ Buffered)'
    BY LineInductive, BufferedStep
  <2> QED BY <2>1, <2>2, PTL DEF LineSpec
<1>3. LineInv /\ Buffered /\ [LineNext]_lineVars => [Clears]_lineVars
  BY <1>1
<1> QED BY <1>2, <1>3, PTL DEF LineSpec, AutostartExact
=============================================================================
