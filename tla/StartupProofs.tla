---------------------------- MODULE StartupProofs ----------------------------
(***************************************************************************)
(* The parsers of Startup, for all inputs: the two command-line parsers,   *)
(* the paths, and the configuration file.  Each parser is a loop.  An      *)
(* instance of Loops gives it its equation; what it computes follows by    *)
(* induction over its turns.                                               *)
(***************************************************************************)
EXTENDS Startup, TLAPS, WellFoundedInduction

-----------------------------------------------------------------------------
(* Induction.                                                               *)

\* Induction, for a set.
LEMMA Induction == \A T \in SUBSET Nat : 0 \in T /\ (\A n \in T : n + 1 \in T) => T = Nat
<1> SUFFICES ASSUME NEW T \in SUBSET Nat, 0 \in T, \A n \in T : n + 1 \in T, Nat \ T # {}
             PROVE  FALSE
  OBVIOUS
<1> DEFINE R == OpToRel(<, Nat)
<1>1. IsWellFoundedOn(R, Nat)
  BY NatLessThanWellFounded
<1>2. \A x, y \in Nat : <<y, x>> \in R <=> y < x
  BY DEF OpToRel
<1> HIDE DEF R
<1>3. PICK x \in Nat \ T : \A y \in Nat \ T : ~(<<y, x>> \in R)
  <2>1. Nat \ T \subseteq Nat
    OBVIOUS
  <2> QED
    BY <1>1, <2>1, WFMin
<1>4. x \in Nat /\ x # 0
  OBVIOUS
<1>5. x - 1 \in Nat /\ x - 1 < x /\ (x - 1) + 1 = x
  BY <1>4
<1>6. x - 1 \in T
  BY <1>2, <1>3, <1>4, <1>5
<1> QED
  BY <1>5, <1>6

\* Induction up to a bound: what holds before the first turn and is kept by every turn
\* holds after each.
LEMMA UpTo ==
    ASSUME NEW m \in Nat, NEW T, 0 \in T,
           \A n \in 0 .. m - 1 : n \in T => n + 1 \in T
    PROVE  \A n \in 0 .. m : n \in T
<1> DEFINE S == {n \in Nat : n <= m => n \in T}
<1>1. 0 \in S
  OBVIOUS
<1>2. \A n \in S : n + 1 \in S
  OBVIOUS
<1>3. S = Nat
  <2> HIDE DEF S
  <2>1. S \subseteq Nat
    BY DEF S
  <2> QED
    BY <1>1, <1>2, <2>1, Induction
<1> QED
  BY <1>3

-----------------------------------------------------------------------------
(* Powers of two.                                                           *)

PowStart(c)      == 1
PowStep(c, x, n) == 2 * x
Powers == INSTANCE Loops WITH Start <- PowStart, Step <- PowStep

\* The equation of pow2.
LEMMA PowerIs ==
    /\ pow2[0] = 1
    /\ \A n \in Nat : pow2[n] \in Nat /\ pow2[n] > 0 /\ pow2[n + 1] = 2 * pow2[n]
<1>1. pow2 = Powers!Endless(0)
  BY DEF pow2, Powers!Endless, PowStart, PowStep
<1>2. pow2[0] = 1 /\ \A n \in Nat : pow2[n + 1] = 2 * pow2[n]
  BY <1>1, Powers!EndlessIs, Induction DEF Powers!Inductive, PowStart, PowStep
<1> DEFINE T == {n \in Nat : pow2[n] \in Nat /\ pow2[n] > 0}
<1>3. 0 \in T /\ \A n \in T : n + 1 \in T
  BY <1>2
<1>4. T = Nat
  <2> HIDE DEF T
  <2>1. T \subseteq Nat
    BY DEF T
  <2> QED
    BY <1>3, <2>1, Induction
<1> QED
  BY <1>2, <1>4

\* Powers of two multiply as the exponents add.
LEMMA PowerProduct == \A a, b \in Nat : pow2[a + b] = pow2[a] * pow2[b]
<1> SUFFICES ASSUME NEW a \in Nat PROVE \A b \in Nat : pow2[a + b] = pow2[a] * pow2[b]
  OBVIOUS
<1> DEFINE T == {b \in Nat : pow2[a + b] = pow2[a] * pow2[b]}
<1>1. 0 \in T
  BY PowerIs
<1>2. ASSUME NEW b \in T PROVE b + 1 \in T
  <2>1. a + b \in Nat /\ a + (b + 1) = (a + b) + 1
    OBVIOUS
  <2>2. pow2[a + (b + 1)] = 2 * pow2[a + b] /\ pow2[b + 1] = 2 * pow2[b]
    BY <2>1, PowerIs
  <2>3. 2 * (pow2[a] * pow2[b]) = pow2[a] * (2 * pow2[b])
    BY PowerIs
  <2> QED
    BY <2>2, <2>3
<1>3. T = Nat
  <2> HIDE DEF T
  <2>1. T \subseteq Nat
    BY DEF T
  <2> QED
    BY <1>1, <1>2, <2>1, Induction
<1> QED
  BY <1>3

-----------------------------------------------------------------------------
(* The two parsers of a command line.                                       *)

OptionsStart(a)      == [next |-> 1, config |-> "addrsyncd.toml", work_dir |-> "."]
OptionsStep(a, r, n) == ParseOption(a, r)
OptionLoop == INSTANCE Loops WITH Start <- OptionsStart, Step <- OptionsStep

SeekStart(a)      == [next |-> 1, work_dir |-> "."]
SeekStep(a, r, n) == SeekRun(a, r)
SeekLoop == INSTANCE Loops WITH Start <- SeekStart, Step <- SeekStep

\* The equation of the loop of parse_args.
LEMMA GlobalsIs ==
    ASSUME NEW W, NEW a \in Seq(W)
    PROVE  /\ Globals(a)[0] = [next |-> 1, config |-> "addrsyncd.toml", work_dir |-> "."]
           /\ \A n \in 1 .. Len(a) : Globals(a)[n] = ParseOption(a, Globals(a)[n - 1])
<1>1. Globals(a) = OptionLoop!Run(a, Len(a))
  BY DEF Globals, OptionLoop!Run, OptionsStart, OptionsStep
<1>2. Len(a) \in Nat
  OBVIOUS
<1> QED
  BY <1>1, <1>2, OptionLoop!RunIs, Induction DEF OptionLoop!Inductive, OptionsStart, OptionsStep

\* The same for parse_run_work_dir.
LEMMA RunAtIs ==
    ASSUME NEW W, NEW a \in Seq(W)
    PROVE  /\ RunAt(a)[0] = [next |-> 1, work_dir |-> "."]
           /\ \A n \in 1 .. Len(a) : RunAt(a)[n] = SeekRun(a, RunAt(a)[n - 1])
<1>1. RunAt(a) = SeekLoop!Run(a, Len(a))
  BY DEF RunAt, SeekLoop!Run, SeekStart, SeekStep
<1>2. Len(a) \in Nat
  OBVIOUS
<1> QED
  BY <1>1, <1>2, SeekLoop!RunIs, Induction DEF SeekLoop!Inductive, SeekStart, SeekStep

\* The two loops after n turns: they are at the same argument and know the same
\* directory, or there is no run for either.  An unfinished loop has passed n arguments.
Agree(a, g, r, n) ==
    /\ g.next \in Nat /\ g = [next |-> g.next, config |-> g.config, work_dir |-> g.work_dir]
    /\ r.next \in Nat /\ r = [next |-> r.next, work_dir |-> r.work_dir]
    /\ \/ g.next = r.next /\ r.next # 0 /\ g.work_dir = r.work_dir
       \/ r.next = 0 /\ (g.next \in DOMAIN a => a[g.next] \notin {"run", "-c", "-d"})
    /\ r.next \in DOMAIN a => r.next > n \/ a[r.next] = "run"

\* A turn of both keeps that.
LEMMA TurnsAgree ==
    ASSUME NEW W, NEW a \in Seq(W), NEW n \in Nat, NEW g, NEW r, Agree(a, g, r, n)
    PROVE  Agree(a, ParseOption(a, g), SeekRun(a, r), n + 1)
<1> USE DEF Agree
<1>1. CASE r.next = 0
  <2>1. SeekRun(a, r) = r
    BY <1>1 DEF SeekRun
  <2>2. ParseOption(a, g) = g \/ ParseOption(a, g) = [g EXCEPT !.next = 0]
    BY <1>1 DEF ParseOption
  <2> QED
    BY <1>1, <2>1, <2>2
<1>2. CASE r.next # 0 /\ r.next \notin DOMAIN a
  <2>1. SeekRun(a, r) = r /\ ParseOption(a, g) = g
    BY <1>2 DEF SeekRun, ParseOption
  <2> QED
    BY <1>2, <2>1
<1>3. CASE r.next \in DOMAIN a
  <2>1. CASE a[r.next] = "run"
    BY <1>3, <2>1 DEF SeekRun, ParseOption
  <2>2. CASE a[r.next] \in {"-c", "-d"} /\ r.next = Len(a)
    BY <1>3, <2>2 DEF SeekRun, ParseOption
  <2>3. CASE a[r.next] = "-c" /\ r.next # Len(a)
    <3>1. r.next + 1 \in DOMAIN a /\ g.next = r.next /\ r.next > n
      BY <1>3, <2>3
    <3>2. SeekRun(a, r) = [next |-> r.next + 2, work_dir |-> r.work_dir]
      BY <1>3, <2>3 DEF SeekRun
    <3>3. ParseOption(a, g) = [next |-> r.next + 2, config |-> a[r.next + 1], work_dir |-> g.work_dir]
      BY <1>3, <2>3, <3>1 DEF ParseOption
    <3> QED
      BY <1>3, <3>1, <3>2, <3>3
  <2>4. CASE a[r.next] = "-d" /\ r.next # Len(a)
    <3>1. r.next + 1 \in DOMAIN a /\ g.next = r.next /\ r.next > n
      BY <1>3, <2>4
    <3>2. SeekRun(a, r) = [next |-> r.next + 2, work_dir |-> a[r.next + 1]]
      BY <1>3, <2>4 DEF SeekRun
    <3>3. ParseOption(a, g) = [next |-> r.next + 2, config |-> g.config, work_dir |-> a[r.next + 1]]
      BY <1>3, <2>4, <3>1 DEF ParseOption
    <3> QED
      BY <1>3, <3>1, <3>2, <3>3
  <2>5. CASE a[r.next] \notin {"run", "-c", "-d"}
    BY <1>3, <2>5 DEF SeekRun, ParseOption
  <2> QED
    BY <2>1, <2>2, <2>3, <2>4, <2>5
<1> QED
  BY <1>1, <1>2, <1>3

\* So they agree when they end.
LEMMA LoopsAgree ==
    ASSUME NEW W, NEW a \in Seq(W)
    PROVE  Agree(a, Globals(a)[Len(a)], RunAt(a)[Len(a)], Len(a))
<1> DEFINE m == Len(a)
           T == {n \in 0 .. m : Agree(a, Globals(a)[n], RunAt(a)[n], n)}
<1>1. m \in Nat
  OBVIOUS
<1>2. 0 \in T
  <2>1. Agree(a, [next |-> 1, config |-> "addrsyncd.toml", work_dir |-> "."],
              [next |-> 1, work_dir |-> "."], 0)
    BY DEF Agree
  <2> QED
    BY <1>1, <2>1, GlobalsIs, RunAtIs
<1>3. ASSUME NEW n \in 0 .. m - 1, n \in T PROVE n + 1 \in T
  <2>1. n + 1 \in 1 .. m /\ (n + 1) - 1 = n /\ n \in Nat /\ n + 1 \in 0 .. m
    OBVIOUS
  <2>2. Globals(a)[n + 1] = ParseOption(a, Globals(a)[n]) /\ RunAt(a)[n + 1] = SeekRun(a, RunAt(a)[n])
    BY <2>1, GlobalsIs, RunAtIs
  <2> QED
    BY <1>3, <2>1, <2>2, TurnsAgree
<1> QED
  <2> HIDE DEF T, m
  <2>1. \A n \in 0 .. m : n \in T
    BY <1>1, <1>2, <1>3, UpTo
  <2>2. m \in T
    BY <1>1, <2>1
  <2> QED
    BY <2>2 DEF T, m

KeepStart(a)      == <<>>
KeepStep(a, s, n) == IF a[n] = NoArg THEN s ELSE Append(s, a[n])
KeepLoop == INSTANCE Loops WITH Start <- KeepStart, Step <- KeepStep

\* A command line without empty arguments is read from /proc as it was given.
LEMMA AllKept ==
    ASSUME NEW W, NEW a \in Seq(W), NoArg \notin Range(a)
    PROVE  read_cmdline_args(a) = a
<1> DEFINE m == Len(a)
           T == {n \in 0 .. m : NonEmpty(a)[n] = SubSeq(a, 1, n)}
<1>1. m \in Nat
  OBVIOUS
<1>2. NonEmpty(a) = KeepLoop!Run(a, m)
  BY DEF NonEmpty, KeepLoop!Run, KeepStart, KeepStep
<1>3. 0 \in T
  <2>1. SubSeq(a, 1, 0) = <<>>
    OBVIOUS
  <2>2. NonEmpty(a)[0] = <<>>
    BY <1>1, <1>2, KeepLoop!RunIs, Induction DEF KeepLoop!Inductive, KeepStart
  <2>3. 0 \in 0 .. m
    BY <1>1
  <2> QED
    BY <2>1, <2>2, <2>3, Zenon
<1>4. ASSUME NEW n \in 0 .. m - 1, n \in T PROVE n + 1 \in T
  <2>1. n + 1 \in 1 .. m /\ (n + 1) - 1 = n /\ n + 1 \in 0 .. m
    OBVIOUS
  <2>2. a[n + 1] # NoArg
    BY <2>1 DEF Range
  <2>3. NonEmpty(a)[n + 1] = Append(NonEmpty(a)[n], a[n + 1])
    BY <1>1, <1>2, <2>1, <2>2, KeepLoop!RunIs, Induction DEF KeepLoop!Inductive, KeepStep
  <2>4. Append(SubSeq(a, 1, n), a[n + 1]) = SubSeq(a, 1, n + 1)
    BY <2>1
  <2> QED
    BY <1>4, <2>1, <2>3, <2>4
<1>5. m \in T
  <2> HIDE DEF T, m
  <2>1. \A n \in 0 .. m : n \in T
    BY <1>1, <1>3, <1>4, UpTo
  <2> QED
    BY <1>1, <2>1
<1>6. SubSeq(a, 1, Len(a)) = a
  OBVIOUS
<1> QED
  BY <1>5, <1>6 DEF read_cmdline_args

\* parse_run_work_dir finds a run where parse_args does, with the same directory.
LEMMA SameRun ==
    ASSUME NEW W, NEW a \in Seq(W), NEW c
    PROVE  parse_run_work_dir(c, a) =
              IF parse_args(a).command # "run" THEN NoPath
              ELSE normalize_path(join(c, PathOf(parse_args(a).work_dir)))
<1> DEFINE g    == Globals(a)[Len(a)]
           r    == RunAt(a)[Len(a)]
           rest == SubSeq(a, g.next + 1, Len(a))
<1>1. Agree(a, g, r, Len(a)) /\ Len(a) \in Nat /\ DOMAIN a = 1 .. Len(a)
  BY LoopsAgree
<1>2. parse_run_work_dir(c, a) =
         IF r.next \notin DOMAIN a \/ \E i \in r.next + 1 .. Len(a) : a[i] # "--daemon"
         THEN NoPath ELSE normalize_path(join(c, PathOf(r.work_dir)))
  BY DEF parse_run_work_dir, resolve_daemon_work_dir
<1>3. parse_args(a).command = "run" <=>
         /\ g.next \in DOMAIN a /\ a[g.next] = "run" /\ parse_run_command(rest)
  BY DEF parse_args, Failed
<1>4. parse_args(a).command = "run" => parse_args(a).work_dir = g.work_dir
  BY DEF parse_args, Failed
<1> HIDE DEF g, r
<1>5. CASE r.next \in DOMAIN a
  <2>1. a[r.next] = "run" /\ g.next = r.next /\ g.work_dir = r.work_dir
    BY <1>1, <1>5 DEF Agree
  <2>2. parse_run_command(rest) <=> \A i \in r.next + 1 .. Len(a) : a[i] = "--daemon"
    <3>1. /\ DOMAIN rest = 1 .. Len(a) - r.next
          /\ \A i \in 1 .. Len(a) - r.next : rest[i] = a[r.next + i]
      BY <1>1, <1>5, <2>1
    <3>2. ASSUME NEW i \in r.next + 1 .. Len(a)
          PROVE  i - r.next \in 1 .. Len(a) - r.next /\ r.next + (i - r.next) = i
      BY <1>1, <1>5
    <3>3. ASSUME NEW i \in 1 .. Len(a) - r.next PROVE r.next + i \in r.next + 1 .. Len(a)
      BY <1>1, <1>5
    <3> HIDE DEF rest
    <3> QED
      BY <3>1, <3>2, <3>3 DEF parse_run_command
  <2> HIDE DEF rest
  <2> QED
    BY <1>2, <1>3, <1>4, <1>5, <2>1, <2>2
<1>6. CASE r.next \notin DOMAIN a
  <2>1. parse_args(a).command # "run"
    BY <1>1, <1>3, <1>6 DEF Agree
  <2> QED
    BY <1>2, <1>6, <2>1
<1> QED
  BY <1>5, <1>6

-----------------------------------------------------------------------------
(* Paths.                                                                   *)

PathStart(p)       == <<>>
LexStep(p, x, n)   == Push(x, p[n])
PhysStep(p, x, n)  == Resolved(Push(x, p[n]))
LexLoop  == INSTANCE Loops WITH Start <- PathStart, Step <- LexStep
PhysLoop == INSTANCE Loops WITH Start <- PathStart, Step <- PhysStep

\* The equation of the loop of normalize_path.
LEMMA LexicalIs ==
    ASSUME NEW W, NEW p \in Seq(W)
    PROVE  /\ Lexical(p)[0] = <<>>
           /\ \A n \in 1 .. Len(p) : Lexical(p)[n] = Push(Lexical(p)[n - 1], p[n])
<1>1. Lexical(p) = LexLoop!Run(p, Len(p))
  BY DEF Lexical, LexLoop!Run, PathStart, LexStep
<1>2. Len(p) \in Nat
  OBVIOUS
<1> QED
  BY <1>1, <1>2, LexLoop!RunIs, Induction DEF LexLoop!Inductive, PathStart, LexStep

\* The same for canonicalize.
LEMMA PhysicalIs ==
    ASSUME NEW W, NEW p \in Seq(W)
    PROVE  /\ Physical(p)[0] = <<>>
           /\ \A n \in 1 .. Len(p) : Physical(p)[n] = Resolved(Push(Physical(p)[n - 1], p[n]))
<1>1. Physical(p) = PhysLoop!Run(p, Len(p))
  BY DEF Physical, PhysLoop!Run, PathStart, PhysStep
<1>2. Len(p) \in Nat
  OBVIOUS
<1> QED
  BY <1>1, <1>2, PhysLoop!RunIs, Induction DEF PhysLoop!Inductive, PathStart, PhysStep

\* A path without dots that is not below the link.
Clean(p, W) ==
    /\ p \in Seq(W)
    /\ \A i \in 1 .. Len(p) : p[i] # "." /\ p[i] # ".."
    /\ Len(p) > 0 => p[1] # "l"

\* A component onto such a path gives one.
LEMMA StepClean ==
    ASSUME NEW W, "w" \in W, NEW x, Clean(x, W), NEW part \in W
    PROVE  Clean(Resolved(Push(x, part)), W)
<1>1. x \in Seq(W) /\ Len(x) \in Nat
  BY DEF Clean
<1>2. Resolved(x) = x
  BY <1>1 DEF Clean, Resolved
<1>3. CASE part = "." \/ (part = ".." /\ x = <<>>)
  BY <1>2, <1>3 DEF Push
<1>4. CASE part = ".." /\ x # <<>>
  <2> DEFINE y == SubSeq(x, 1, Len(x) - 1)
  <2>1. Push(x, part) = y
    BY <1>4 DEF Push
  <2>2. Len(x) > 0
    BY <1>1, <1>4
  <2>3. y \in Seq(W) /\ Len(y) = Len(x) - 1 /\ \A i \in 1 .. Len(y) : y[i] = x[i]
    <3>1. Len(x) - 1 \in Nat /\ Len(x) - 1 <= Len(x)
      BY <1>1, <2>2
    <3>2. \A k \in Nat : k <= Len(x) => /\ SubSeq(x, 1, k) \in Seq(W) /\ Len(SubSeq(x, 1, k)) = k
                                       /\ \A i \in 1 .. k : SubSeq(x, 1, k)[i] = x[i]
      BY <1>1
    <3> QED
      BY <3>1, <3>2, Zenon
  <2> HIDE DEF y
  <2>4. Clean(y, W)
    BY <1>1, <2>3 DEF Clean
  <2>5. Resolved(y) = y
    BY <2>4 DEF Clean, Resolved
  <2> QED
    BY <2>1, <2>4, <2>5
<1>5. CASE part # "." /\ part # ".."
  <2> DEFINE y == Append(x, part)
  <2>1. Push(x, part) = y
    BY <1>5 DEF Push
  <2>2. y \in Seq(W) /\ Len(y) = Len(x) + 1 /\ y[Len(y)] = part /\ \A i \in 1 .. Len(x) : y[i] = x[i]
    BY <1>1
  <2> HIDE DEF y
  <2>3. CASE y = <<"l">>
    <3>1. Clean(<<"w">>, W)
      BY DEF Clean
    <3> QED
      BY <2>1, <2>3, <3>1 DEF Resolved
  <2>4. CASE y # <<"l">>
    <3>1. y[1] # "l"
      <4>1. CASE Len(x) > 0
        BY <1>1, <2>2, <4>1 DEF Clean
      <4>2. CASE Len(x) = 0
        BY <2>2, <2>4, <4>2
      <4> QED
        BY <1>1, <4>1, <4>2
    <3>2. Clean(y, W)
      BY <1>1, <1>5, <2>2, <3>1 DEF Clean
    <3> QED
      BY <2>1, <2>4, <3>2 DEF Resolved
  <2> QED
    BY <2>3, <2>4
<1> QED
  BY <1>3, <1>4, <1>5

\* So a canonical path is one.
LEMMA PhysicalClean ==
    ASSUME NEW W, "w" \in W, NEW p \in Seq(W)
    PROVE  \A n \in 0 .. Len(p) : Clean(Physical(p)[n], W)
<1> DEFINE m == Len(p)
           T == {n \in 0 .. m : Clean(Physical(p)[n], W)}
<1>1. m \in Nat
  OBVIOUS
<1>2. 0 \in T
  <2>1. Clean(<<>>, W)
    BY DEF Clean
  <2> QED
    BY <1>1, <2>1, PhysicalIs
<1>3. ASSUME NEW n \in 0 .. m - 1, n \in T PROVE n + 1 \in T
  <2>1. n + 1 \in 1 .. m /\ (n + 1) - 1 = n /\ n + 1 \in 0 .. m /\ p[n + 1] \in W
    OBVIOUS
  <2>2. Physical(p)[n + 1] = Resolved(Push(Physical(p)[n], p[n + 1]))
    BY <2>1, PhysicalIs
  <2> QED
    BY <1>3, <2>1, <2>2, StepClean
<1> QED
  <2> HIDE DEF T, m
  <2>1. \A n \in 0 .. m : n \in T
    BY <1>1, <1>2, <1>3, UpTo
  <2> QED
    BY <2>1 DEF T, m

\* Normalising such a path, with or without the links, changes nothing.
LEMMA CleanStays ==
    ASSUME NEW W, NEW p, Clean(p, W)
    PROVE  Lexical(p)[Len(p)] = p /\ Physical(p)[Len(p)] = p
<1> DEFINE m == Len(p)
           T == {n \in 0 .. m : Lexical(p)[n] = SubSeq(p, 1, n) /\ Physical(p)[n] = SubSeq(p, 1, n)}
<1>1. p \in Seq(W) /\ m \in Nat
  BY DEF Clean
<1>2. 0 \in T
  <2>1. SubSeq(p, 1, 0) = <<>>
    BY <1>1
  <2>2. Lexical(p)[0] = <<>> /\ Physical(p)[0] = <<>>
    BY <1>1, LexicalIs, PhysicalIs
  <2>3. 0 \in 0 .. m
    BY <1>1
  <2> QED
    BY <2>1, <2>2, <2>3, Zenon
<1>3. ASSUME NEW n \in 0 .. m - 1, n \in T PROVE n + 1 \in T
  <2>1. n + 1 \in 1 .. m /\ (n + 1) - 1 = n /\ n + 1 \in 0 .. m
    BY <1>1
  <2>2. /\ Lexical(p)[n + 1] = Push(SubSeq(p, 1, n), p[n + 1])
        /\ Physical(p)[n + 1] = Resolved(Push(SubSeq(p, 1, n), p[n + 1]))
    BY <1>1, <1>3, <2>1, LexicalIs, PhysicalIs
  <2>3. Push(SubSeq(p, 1, n), p[n + 1]) = Append(SubSeq(p, 1, n), p[n + 1])
    BY <2>1 DEF Push, Clean
  <2>4. Append(SubSeq(p, 1, n), p[n + 1]) = SubSeq(p, 1, n + 1)
    BY <1>1, <2>1
  <2>5. SubSeq(p, 1, n + 1) # <<"l">>
    <3>1. SubSeq(p, 1, n + 1)[1] = p[1]
      BY <1>1, <2>1
    <3>2. p[1] # "l"
      BY <1>1, <2>1 DEF Clean
    <3>3. <<"l">>[1] = "l"
      OBVIOUS
    <3> QED
      BY <3>1, <3>2, <3>3, Zenon
  <2>6. Resolved(SubSeq(p, 1, n + 1)) = SubSeq(p, 1, n + 1)
    BY <2>5 DEF Resolved
  <2> QED
    BY <2>1, <2>2, <2>3, <2>4, <2>6
<1>4. SubSeq(p, 1, Len(p)) = p
  BY <1>1
<1> QED
  <2> HIDE DEF T, m
  <2>1. \A n \in 0 .. m : n \in T
    BY <1>1, <1>2, <1>3, UpTo
  <2>2. m \in T
    BY <1>1, <2>1
  <2> QED
    BY <1>4, <2>2 DEF T, m

\* The first components of a path lead where they lead on their own.
LEMMA PhysicalPrefix ==
    ASSUME NEW W, NEW a \in Seq(W), NEW b \in Seq(W)
    PROVE  \A n \in 0 .. Len(a) : Physical(a \o b)[n] = Physical(a)[n]
<1> DEFINE m == Len(a)
           T == {n \in 0 .. m : Physical(a \o b)[n] = Physical(a)[n]}
<1>1. m \in Nat /\ a \o b \in Seq(W) /\ Len(a \o b) \in Nat /\ m <= Len(a \o b)
  OBVIOUS
<1>2. 0 \in T
  <2>1. Physical(a)[0] = <<>>
    BY PhysicalIs
  <2>2. Physical(a \o b)[0] = <<>>
    BY <1>1, PhysicalIs
  <2>3. 0 \in 0 .. m
    BY <1>1
  <2> QED
    BY <2>1, <2>2, <2>3
<1>3. ASSUME NEW n \in 0 .. m - 1, n \in T PROVE n + 1 \in T
  <2>1. /\ n + 1 \in 1 .. m /\ (n + 1) - 1 = n /\ n + 1 \in 0 .. m
        /\ n + 1 \in 1 .. Len(a \o b) /\ (a \o b)[n + 1] = a[n + 1]
    BY <1>1
  <2>2. /\ Physical(a)[n + 1] = Resolved(Push(Physical(a)[n], a[n + 1]))
        /\ Physical(a \o b)[n + 1] = Resolved(Push(Physical(a \o b)[n], (a \o b)[n + 1]))
    BY <1>1, <2>1, PhysicalIs
  <2> QED
    BY <1>3, <2>1, <2>2
<1> QED
  <2> HIDE DEF T, m
  <2>1. \A n \in 0 .. m : n \in T
    BY <1>1, <1>2, <1>3, UpTo
  <2> QED
    BY <2>1 DEF T, m

\* From the same place the same components lead to the same place.
LEMMA SamePlace ==
    ASSUME NEW W, NEW a \in Seq(W), NEW a2 \in Seq(W), NEW b \in Seq(W),
           Physical(a)[Len(a)] = Physical(a2)[Len(a2)]
    PROVE  Physical(a \o b)[Len(a \o b)] = Physical(a2 \o b)[Len(a2 \o b)]
<1> DEFINE m == Len(b)
           T == {n \in 0 .. m : Physical(a \o b)[Len(a) + n] = Physical(a2 \o b)[Len(a2) + n]}
<1>1. /\ m \in Nat /\ Len(a) \in Nat /\ Len(a2) \in Nat
      /\ a \o b \in Seq(W) /\ Len(a \o b) = Len(a) + m
      /\ a2 \o b \in Seq(W) /\ Len(a2 \o b) = Len(a2) + m
  OBVIOUS
<1>2. 0 \in T
  <2>1. Len(a) \in 0 .. Len(a) /\ Len(a2) \in 0 .. Len(a2) /\ 0 \in 0 .. m
        /\ Len(a) + 0 = Len(a) /\ Len(a2) + 0 = Len(a2)
    BY <1>1
  <2>2. Physical(a \o b)[Len(a)] = Physical(a2 \o b)[Len(a2)]
    BY <2>1, PhysicalPrefix
  <2> QED
    BY <2>1, <2>2
<1>3. ASSUME NEW n \in 0 .. m - 1, n \in T PROVE n + 1 \in T
  <2>1. n + 1 \in 0 .. m /\ n \in Nat
    BY <1>1
  <2>2. /\ Len(a) + (n + 1) \in 1 .. Len(a \o b) /\ (Len(a) + (n + 1)) - 1 = Len(a) + n
        /\ (a \o b)[Len(a) + (n + 1)] = b[n + 1]
    BY <1>1
  <2>3. /\ Len(a2) + (n + 1) \in 1 .. Len(a2 \o b) /\ (Len(a2) + (n + 1)) - 1 = Len(a2) + n
        /\ (a2 \o b)[Len(a2) + (n + 1)] = b[n + 1]
    BY <1>1
  <2>4. Physical(a \o b)[Len(a) + (n + 1)] = Resolved(Push(Physical(a \o b)[Len(a) + n], b[n + 1]))
    BY <1>1, <2>2, PhysicalIs
  <2>5. Physical(a2 \o b)[Len(a2) + (n + 1)] = Resolved(Push(Physical(a2 \o b)[Len(a2) + n], b[n + 1]))
    BY <1>1, <2>3, PhysicalIs
  <2> QED
    BY <1>3, <2>1, <2>4, <2>5
<1>4. m \in T
  <2> HIDE DEF T, m
  <2>1. \A n \in 0 .. m : n \in T
    BY <1>1, <1>2, <1>3, UpTo
  <2> QED
    BY <1>1, <2>1
<1> QED
  BY <1>1, <1>4

\* A path with parts of W.
IsPath(p, W) == p = [abs |-> p.abs, parts |-> p.parts] /\ p.parts \in Seq(W) /\ p.abs \in BOOLEAN

PathWords == {"w", "l", "..", ".", "addrsyncd.toml"}

\* The path a word names is made of the words of paths.
LEMMA PathOfIs ==
    ASSUME NEW W, PathWords \subseteq W, NEW word \in W
    PROVE  IsPath(PathOf(word), W)
<1>1. "w" \in W /\ ".." \in W /\ "l" \in W
  BY DEF PathWords
<1>2. <<>> \in Seq(W) /\ <<"w">> \in Seq(W) /\ <<"w", "..", "l">> \in Seq(W) /\ <<"l">> \in Seq(W)
      /\ <<word>> \in Seq(W)
  BY <1>1
<1>3. \/ PathOf(word) = [abs |-> FALSE, parts |-> <<>>]
      \/ PathOf(word) = [abs |-> TRUE, parts |-> <<"w">>]
      \/ PathOf(word) = [abs |-> TRUE,  parts |-> <<"w", "..", "l">>]
      \/ PathOf(word) = [abs |-> TRUE,  parts |-> <<"l">>]
      \/ PathOf(word) = [abs |-> FALSE, parts |-> <<word>>]
  BY DEF PathOf
<1>4. \A b \in BOOLEAN, s \in Seq(W) : IsPath([abs |-> b, parts |-> s], W)
  BY DEF IsPath
<1> QED
  BY <1>2, <1>3, <1>4

\* A joined path is absolute if one of its parts is.
LEMMA JoinIs ==
    ASSUME NEW W, NEW c, IsPath(c, W), NEW p, IsPath(p, W)
    PROVE  /\ IsPath(join(c, p), W)
           /\ join(c, p).abs <=> c.abs \/ p.abs
<1>1. CASE p.abs
  BY <1>1 DEF IsPath, join
<1>2. CASE ~p.abs
  <2>1. join(c, p) = [abs |-> c.abs, parts |-> c.parts \o p.parts]
    BY <1>2 DEF join
  <2>2. c.parts \o p.parts \in Seq(W) /\ c.abs \in BOOLEAN
    BY DEF IsPath
  <2> QED
    BY <1>2, <2>1, <2>2 DEF IsPath
<1> QED
  BY <1>1, <1>2

\* A canonical path is left alone by normalize_path and by fs::canonicalize.
LEMMA CanonicalIs ==
    ASSUME NEW W, "w" \in W, NEW p, IsPath(p, W)
    PROVE  /\ IsPath(canonicalize(p), W) /\ Clean(canonicalize(p).parts, W)
           /\ canonicalize(p).abs = p.abs
           /\ canonicalize(p).parts = Physical(p.parts)[Len(p.parts)]
           /\ normalize_path(canonicalize(p)) = canonicalize(p)
           /\ canonicalize(canonicalize(p)) = canonicalize(p)
<1> DEFINE q == Physical(p.parts)[Len(p.parts)]
<1>1. p.parts \in Seq(W) /\ Len(p.parts) \in 0 .. Len(p.parts)
  BY DEF IsPath
<1>2. Clean(q, W)
  BY <1>1, PhysicalClean
<1>3. canonicalize(p) = [abs |-> p.abs, parts |-> q]
  BY DEF canonicalize, IsPath
<1>4. q \in Seq(W)
  BY <1>2 DEF Clean
<1>5. Lexical(q)[Len(q)] = q /\ Physical(q)[Len(q)] = q
  BY <1>2, CleanStays
<1> HIDE DEF q
<1>6. normalize_path([abs |-> p.abs, parts |-> q]) = [abs |-> p.abs, parts |-> q]
  BY <1>5 DEF normalize_path
<1>7. canonicalize([abs |-> p.abs, parts |-> q]) = [abs |-> p.abs, parts |-> q]
  BY <1>5 DEF canonicalize
<1>8. IsPath([abs |-> p.abs, parts |-> q], W)
  BY <1>4 DEF IsPath
<1>9. [abs |-> p.abs, parts |-> q].parts = q /\ [abs |-> p.abs, parts |-> q].abs = p.abs
  OBVIOUS
<1> QED
  BY <1>2, <1>3, <1>6, <1>7, <1>8, <1>9, Zenon DEF q

\* What parse_args knows of the work directory and of the file is from the command line.
LEMMA GlobalsTyped ==
    ASSUME NEW W, PathWords \subseteq W, NEW a \in Seq(W)
    PROVE  \A n \in 0 .. Len(a) : /\ Globals(a)[n].config \in W /\ Globals(a)[n].work_dir \in W
                                  /\ Globals(a)[n].next \in Nat
<1> DEFINE m == Len(a)
           Typed(g) == /\ g = [next |-> g.next, config |-> g.config, work_dir |-> g.work_dir]
                       /\ g.config \in W /\ g.work_dir \in W /\ g.next \in Nat
           T == {n \in 0 .. m : Typed(Globals(a)[n])}
<1>1. m \in Nat /\ "." \in W /\ "addrsyncd.toml" \in W
  BY DEF PathWords
<1>2. 0 \in T
  <2>1. Typed([next |-> 1, config |-> "addrsyncd.toml", work_dir |-> "."])
    BY <1>1
  <2> HIDE DEF Typed
  <2> QED
    BY <1>1, <2>1, GlobalsIs
<1>3. ASSUME NEW g, Typed(g) PROVE Typed(ParseOption(a, g))
  <2>1. \/ ParseOption(a, g) = g
        \/ ParseOption(a, g) = [next |-> 0, config |-> g.config, work_dir |-> g.work_dir]
        \/ /\ g.next \in DOMAIN a /\ g.next # Len(a)
           /\ \/ ParseOption(a, g) =
                    [next |-> g.next + 2, config |-> a[g.next + 1], work_dir |-> g.work_dir]
              \/ ParseOption(a, g) =
                    [next |-> g.next + 2, config |-> g.config, work_dir |-> a[g.next + 1]]
    <3>1. CASE g.next \notin DOMAIN a \/ a[g.next] \notin {"-c", "-d"}
      BY <1>3, <3>1 DEF ParseOption
    <3>2. CASE g.next \in DOMAIN a /\ a[g.next] \in {"-c", "-d"} /\ g.next = Len(a)
      BY <1>3, <3>2 DEF ParseOption
    <3>3. CASE g.next \in DOMAIN a /\ a[g.next] = "-c" /\ g.next # Len(a)
      BY <1>3, <3>3 DEF ParseOption
    <3>4. CASE g.next \in DOMAIN a /\ a[g.next] = "-d" /\ g.next # Len(a)
      BY <1>3, <3>4 DEF ParseOption
    <3> QED
      BY <3>1, <3>2, <3>3, <3>4
  <2>2. /\ g.next \in DOMAIN a /\ g.next # Len(a) => a[g.next + 1] \in W
        /\ g.next + 2 \in Nat /\ g.config \in W /\ g.work_dir \in W
    BY <1>3
  <2>3. \A k \in Nat, x \in W, y \in W : Typed([next |-> k, config |-> x, work_dir |-> y])
    OBVIOUS
  <2> HIDE DEF Typed
  <2> QED
    BY <1>3, <2>1, <2>2, <2>3
<1>4. ASSUME NEW n \in 0 .. m - 1, n \in T PROVE n + 1 \in T
  <2>1. n + 1 \in 1 .. m /\ (n + 1) - 1 = n /\ n + 1 \in 0 .. m
    BY <1>1
  <2>2. Globals(a)[n + 1] = ParseOption(a, Globals(a)[n])
    BY <2>1, GlobalsIs
  <2> HIDE DEF Typed
  <2> QED
    BY <1>3, <1>4, <2>1, <2>2
<1> QED
  <2> HIDE DEF T, m
  <2>1. \A n \in 0 .. m : n \in T
    BY <1>1, <1>2, <1>4, UpTo
  <2> QED
    BY <2>1 DEF T, m

\* The paths an accepted command line gives are words of it, or the defaults.
LEMMA CliTyped ==
    ASSUME NEW W, PathWords \subseteq W, NEW a \in Seq(W), parse_args(a).command # "error"
    PROVE  parse_args(a).config \in W /\ parse_args(a).work_dir \in W
<1> DEFINE g == Globals(a)[Len(a)]
<1>1. g.config \in W /\ g.work_dir \in W
  <2>1. Len(a) \in 0 .. Len(a)
    OBVIOUS
  <2> QED
    BY <2>1, GlobalsTyped
<1>2. \/ parse_args(a) = Failed
      \/ /\ parse_args(a).config = g.config
         /\ parse_args(a).work_dir = g.work_dir
  BY DEF parse_args
<1>3. Failed.command = "error"
  BY DEF Failed
<1> QED
  BY <1>1, <1>2, <1>3

\* The directory handed to the daemon is the canonical one, and the daemon is found
\* under it.
LEMMA ChildDirIs ==
    ASSUME NEW W, PathWords \subseteq W, NEW c, IsPath(c, W), c.abs = TRUE, NEW dir \in W
    PROVE  LET d == canonicalize(join(c, PathOf(dir)))
           IN /\ normalize_work_dir(c, PathOf(dir)) = d
              /\ resolve_daemon_work_dir(c, d) = d
              /\ join(c, d) = d /\ IsPath(d, W) /\ d.abs = TRUE
<1> DEFINE j == join(c, PathOf(dir))
           d == canonicalize(j)
<1>1. "w" \in W
  BY DEF PathWords
<1>2. IsPath(PathOf(dir), W)
  BY PathOfIs
<1>3. IsPath(j, W) /\ j.abs = TRUE
  <2>1. IsPath(j, W) /\ (j.abs <=> c.abs \/ PathOf(dir).abs)
    BY <1>2, JoinIs
  <2> QED
    BY <2>1 DEF IsPath
<1> HIDE DEF j
<1>4. IsPath(d, W) /\ d.abs = TRUE /\ normalize_path(d) = d
  BY <1>1, <1>3, CanonicalIs
<1>5. normalize_work_dir(c, PathOf(dir)) = d
  BY <1>4 DEF normalize_work_dir, j
<1> HIDE DEF d
<1>6. join(c, d) = d
  BY <1>4 DEF join
<1> QED
  BY <1>4, <1>5, <1>6 DEF resolve_daemon_work_dir, d, j

\* A path below another, an absolute one, and the canonical form of one.
LEMMA JoinParts ==
    ASSUME NEW c, NEW s
    PROVE  /\ join(c, [abs |-> FALSE, parts |-> s]) = [abs |-> c.abs, parts |-> c.parts \o s]
           /\ \A b : canonicalize([abs |-> b, parts |-> s]) = [abs |-> b, parts |-> Physical(s)[Len(s)]]
<1>1. join(c, [abs |-> FALSE, parts |-> s]) = [abs |-> c.abs, parts |-> c.parts \o s]
  BY DEF join
<1>2. ASSUME NEW b
      PROVE  canonicalize([abs |-> b, parts |-> s]) = [abs |-> b, parts |-> Physical(s)[Len(s)]]
  BY DEF canonicalize
<1> QED
  BY <1>1, <1>2, Zenon

\* An absolute path replaces what it is joined to.
LEMMA JoinAbsolute == ASSUME NEW c, NEW p, p.abs PROVE join(c, p) = p
BY DEF join

\* The daemon's file is the start's.
LEMMA SameFile ==
    ASSUME NEW W, PathWords \subseteq W, NEW c, IsPath(c, W), c.abs = TRUE,
           NEW cli, cli.config \in W, cli.work_dir \in W,
           PathOf(cli.work_dir).abs \/ cli.work_dir = "."
    PROVE  Loads(c, ChildConfig(c, cli)) = Loads(c, config_path(cli))
<1> DEFINE f == PathOf(cli.config)
           w == PathOf(cli.work_dir)
           e(p) == Physical(p)[Len(p)]
<1>1. IsPath(f, W) /\ IsPath(w, W)
  BY PathOfIs
<1>2. CASE f.abs \/ w.abs
  <2>1. config_path(cli).abs
    BY <1>1, <1>2 DEF config_path, resolve_relative_path, join, IsPath
  <2>2. ChildConfig(c, cli) = config_path(cli)
    BY <2>1 DEF ChildConfig, resolve_relative_path
  <2> QED
    BY <2>2
<1>3. CASE ~f.abs /\ ~w.abs
  <2>1. cli.work_dir = "." /\ "." \in W /\ "w" \in W
    BY <1>3 DEF PathWords
  <2>2. w = [abs |-> FALSE, parts |-> <<".">>]
    <3>1. "." # NoArg
      BY Zenon DEF NoArg
    <3> QED
      BY <2>1, <3>1 DEF PathOf
  <2> DEFINE b == <<".">> \o f.parts
             d == canonicalize(join(c, PathOf(".")))
  <2>3. config_path(cli) = [abs |-> FALSE, parts |-> b]
    BY <1>3, <2>2 DEF config_path, resolve_relative_path, join
  <2>4. /\ ChildDir(c, cli) = d /\ IsPath(d, W) /\ d.abs = TRUE
    BY <2>1, ChildDirIs DEF ChildDir
  <2>5. d.parts = e(c.parts)
    <3>1. c.parts \in Seq(W) /\ <<".">> \in Seq(W) /\ Len(c.parts) \in Nat
      BY <2>1 DEF IsPath
    <3> DEFINE k == c.parts \o <<".">>
    <3>2. k \in Seq(W) /\ Len(k) = Len(c.parts) + 1 /\ k[Len(c.parts) + 1] = "."
      BY <3>1
    <3>3. join(c, PathOf(".")) = [abs |-> c.abs, parts |-> k]
      <4>1. PathOf(".") = [abs |-> FALSE, parts |-> <<".">>]
        BY <2>1, <2>2
      <4> QED
        BY <4>1, JoinParts, Zenon
    <3>4. d.parts = e(k)
      <4> HIDE DEF k
      <4>1. d = [abs |-> c.abs, parts |-> e(k)]
        BY <3>3, JoinParts, Zenon
      <4> HIDE DEF d
      <4> QED
        BY <4>1
    <3>5. e(k) = Resolved(Push(Physical(k)[Len(c.parts)], "."))
      <4>1. Len(k) \in 1 .. Len(k) /\ Len(k) - 1 = Len(c.parts)
        BY <3>1, <3>2
      <4> HIDE DEF k
      <4> QED
        BY <3>2, <4>1, PhysicalIs
    <3>6. Physical(k)[Len(c.parts)] = e(c.parts) /\ Clean(e(c.parts), W)
      <4>1. Len(c.parts) \in 0 .. Len(c.parts)
        BY <3>1
      <4> QED
        BY <2>1, <3>1, <4>1, PhysicalPrefix, PhysicalClean
    <3> HIDE DEF k
    <3>7. Push(e(c.parts), ".") = e(c.parts)
      BY DEF Push
    <3>8. ASSUME NEW x, Clean(x, W) PROVE Resolved(x) = x
      BY <3>8 DEF Resolved, Clean
    <3> HIDE DEF e
    <3> QED
      BY <3>4, <3>5, <3>6, <3>7, <3>8
  <2>6. Clean(d.parts, W)
    <3>1. c.parts \in Seq(W) /\ Len(c.parts) \in 0 .. Len(c.parts)
      BY DEF IsPath
    <3> QED
      BY <2>1, <2>5, <3>1, PhysicalClean
  <2>7. e(d.parts) = e(c.parts)
    BY <2>5, <2>6, CleanStays
  <2>8. b \in Seq(W)
    BY <1>1, <2>1 DEF IsPath
  <2>9. e(d.parts \o b) = e(c.parts \o b)
    <3>1. c.parts \in Seq(W) /\ d.parts \in Seq(W)
      BY <2>4 DEF IsPath
    <3> HIDE DEF b, d
    <3> QED
      BY <2>7, <2>8, <3>1, SamePlace
  <2> HIDE DEF b, d
  <2>10. ChildConfig(c, cli) = [abs |-> d.abs, parts |-> d.parts \o b]
    <3>1. ChildConfig(c, cli) = join(d, [abs |-> FALSE, parts |-> b])
      BY <2>3, <2>4 DEF ChildConfig, resolve_relative_path
    <3> QED
      BY <3>1, JoinParts, Zenon
  <2>11. Loads(c, ChildConfig(c, cli)) = [abs |-> d.abs, parts |-> e(d.parts \o b)]
    <3>1. ChildConfig(c, cli).abs
      BY <2>4, <2>10
    <3>2. Loads(c, ChildConfig(c, cli)) = canonicalize(ChildConfig(c, cli))
      BY <3>1, JoinAbsolute DEF Loads
    <3> QED
      BY <2>10, <3>2, JoinParts, Zenon
  <2>12. Loads(c, config_path(cli)) = [abs |-> c.abs, parts |-> e(c.parts \o b)]
    <3>1. Loads(c, config_path(cli)) = canonicalize([abs |-> c.abs, parts |-> c.parts \o b])
      BY <2>3, JoinParts, Zenon DEF Loads
    <3> QED
      BY <3>1, JoinParts, Zenon
  <2> HIDE DEF e
  <2>13. d.abs = c.abs
    BY <2>4
  <2> QED
    BY <2>9, <2>11, <2>12, <2>13, Zenon
<1> QED
  BY <1>2, <1>3

-----------------------------------------------------------------------------
(* The command lines of Startup.                                            *)

Word == {"-c", "f", "-d", "/w", "/l", "/w/../l", "run", "--daemon", "stop", "-h", "x", NoArg,
         "cleanup", "--mode", "dump", "pbr", "apply", "--family", "4", "--mark", "0", "--table",
         "1", "--mask", "--pref"} \cup PathWords

\* The pieces of the command lines are made of these words.
LEMMA ChunkTyped == Chunk \subseteq Seq(Word)
<1>1. /\ <<>> \in Seq(Word) /\ <<"-c", "f">> \in Seq(Word) /\ <<"-c">> \in Seq(Word) /\ <<"-d", "/w">> \in Seq(Word)
      /\ <<"-d", "/l">> \in Seq(Word) /\ <<"-d", "/w/../l">> \in Seq(Word)
  BY DEF Word
<1>2. /\ <<"-d", "w">> \in Seq(Word) /\ <<"-d", "run">> \in Seq(Word) /\ <<"-d">> \in Seq(Word)
      /\ <<"run">> \in Seq(Word) /\ <<"--daemon">> \in Seq(Word) /\ <<"stop">> \in Seq(Word)
  BY DEF Word, PathWords
<1>3. /\ <<"-h">> \in Seq(Word) /\ <<"x">> \in Seq(Word) /\ <<NoArg>> \in Seq(Word)
      /\ <<"cleanup">> \in Seq(Word) /\ <<"--mode", "dump">> \in Seq(Word)
  BY DEF Word
<1>4. /\ <<"pbr", "apply", "--family", "4", "--mark", "0", "--table", "1">> \in Seq(Word)
  BY DEF Word
<1>5. /\ <<"--mask", "1">> \in Seq(Word) /\ <<"--mask", "0">> \in Seq(Word)
      /\ <<"--pref", "1">> \in Seq(Word)
  BY DEF Word
<1> QED
  BY <1>1, <1>2, <1>3, <1>4, <1>5, Zenon DEF Chunk

ArgsStart(x)      == {<<>>}
ArgsStep(x, S, n) == {a \o c : a \in S, c \in Chunk}
ArgsLoop == INSTANCE Loops WITH Start <- ArgsStart, Step <- ArgsStep

\* A piece more.
LEMMA ArgsStepTyped ==
    ASSUME NEW S, S \subseteq Seq(Word), NEW n
    PROVE  ArgsStep(0, S, n) \subseteq Seq(Word)
<1>1. \A a \in Seq(Word), c \in Seq(Word) : a \o c \in Seq(Word)
  OBVIOUS
<1>2. ASSUME NEW x \in ArgsStep(0, S, n) PROVE x \in Seq(Word)
  <2>1. PICK a \in S, c \in Chunk : x = a \o c
    BY <1>2 DEF ArgsStep
  <2>2. a \in Seq(Word) /\ c \in Seq(Word)
    BY ChunkTyped, Zenon
  <2> QED
    BY <1>1, <2>1, <2>2, Zenon
<1> QED
  BY <1>2

\* So are the command lines, however many pieces they have.
LEMMA ArgsTyped == Args \subseteq Seq(Word)
<1> DEFINE T == {n \in 0 .. MaxChunks : ArgsOf[n] \subseteq Seq(Word)}
<1>1. ArgsOf = ArgsLoop!Run(0, MaxChunks) /\ MaxChunks \in Nat
  BY ChunksAssumption DEF ArgsOf, ArgsLoop!Run, ArgsStart, ArgsStep
<1>2. /\ ArgsOf[0] = ArgsStart(0)
      /\ \A n \in 1 .. MaxChunks : ArgsOf[n] = ArgsStep(0, ArgsOf[n - 1], n)
  BY <1>1, ArgsLoop!RunIs, Induction DEF ArgsLoop!Inductive
<1>3. ArgsStart(0) \subseteq Seq(Word)
  BY DEF ArgsStart
<1>4. 0 \in T
  BY <1>1, <1>2, <1>3
<1>5. ASSUME NEW n \in 0 .. MaxChunks - 1, n \in T PROVE n + 1 \in T
  <2>1. n + 1 \in 1 .. MaxChunks /\ n + 1 \in 0 .. MaxChunks /\ (n + 1) - 1 = n
    BY <1>1
  <2>2. ArgsOf[n + 1] = ArgsStep(0, ArgsOf[n], n + 1)
    BY <1>2, <2>1
  <2>3. ArgsOf[n] \subseteq Seq(Word)
    BY <1>5
  <2>4. ArgsOf[n + 1] \subseteq Seq(Word)
    <3> DEFINE S == ArgsOf[n]
    <3>1. S \subseteq Seq(Word) /\ ArgsOf[n + 1] = ArgsStep(0, S, n + 1)
      BY <2>2, <2>3
    <3> HIDE DEF S
    <3> QED
      BY <3>1, ArgsStepTyped, Zenon
  <2> QED
    BY <2>1, <2>4
<1>6. MaxChunks \in T
  <2> HIDE DEF T
  <2>1. \A n \in 0 .. MaxChunks : n \in T
    BY <1>1, <1>4, <1>5, UpTo
  <2> QED
    BY <1>1, <2>1
<1> QED
  BY <1>6 DEF Args

\* A working directory is an absolute path.
LEMMA CwdTyped == \A c \in Cwd : IsPath(c, Word) /\ c.abs = TRUE
<1>1. <<>> \in Seq(Word) /\ <<"w">> \in Seq(Word)
  BY DEF Word, PathWords
<1>2. ASSUME NEW p \in Seq(Word)
      PROVE  IsPath([abs |-> TRUE, parts |-> p], Word) /\ [abs |-> TRUE, parts |-> p].abs = TRUE
  BY DEF IsPath
<1> QED
  BY <1>1, <1>2 DEF Cwd

\* The command line and the directory of a process do not change.
CommandInv == args \in Seq(Word) /\ cwd \in Cwd

\* It holds in every state.
LEMMA CommandInvHolds == Spec => []CommandInv
<1>1. Init => CommandInv
  <2>1. <<"run">> \in Seq(Word)
    BY DEF Word
  <2>2. [abs |-> TRUE, parts |-> <<>>] \in Cwd
    BY Zenon DEF Cwd
  <2> QED
    BY <2>1, <2>2, ArgsTyped, Zenon DEF Init, CommandInv
<1>2. CommandInv /\ [Next]_vars => CommandInv'
  BY Zenon DEF CommandInv, Next, run_main, load_options, receive, vars
<1> QED
  BY <1>1, <1>2, PTL DEF Spec

\* The two parsers of a command line agree on every command line made of the words of
\* Startup, however long (ParsersAgree): along the argument that their loops over the
\* options are at the same argument after every turn (LoopsAgree).
THEOREM ParsersAgreeAlways == Spec => []ParsersAgree
<1>1. CommandInv => ParsersAgree
  <2> SUFFICES ASSUME CommandInv, stage = "exec" /\ NoArg \notin Range(args)
               PROVE  parse_run_work_dir(cwd, read_cmdline_args(args)) =
                         IF parse_args(args).command # "run" THEN NoPath
                         ELSE normalize_path(join(cwd, PathOf(parse_args(args).work_dir)))
    BY Zenon DEF ParsersAgree
  <2>1. args \in Seq(Word)
    BY DEF CommandInv
  <2>2. read_cmdline_args(args) = args
    BY <2>1, AllKept
  <2>3. parse_run_work_dir(cwd, args) =
           IF parse_args(args).command # "run" THEN NoPath
           ELSE normalize_path(join(cwd, PathOf(parse_args(args).work_dir)))
    BY <2>1, SameRun
  <2> QED
    BY <2>2, <2>3, Zenon
<1> QED
  BY <1>1, CommandInvHolds, PTL

\* A daemon started in the background is found by every command that is given its
\* directory, by whatever name (StartedDaemonIsFound): the path it is handed is canonical,
\* and normalize_path leaves a canonical path alone (CanonicalIs).
THEOREM StartedDaemonIsAlwaysFound == Spec => []StartedDaemonIsFound
<1>1. CommandInv => StartedDaemonIsFound
  <2> DEFINE cli == parse_args(args)
             Place(dir) == canonicalize(join(cwd, PathOf(dir)))
  <2> SUFFICES ASSUME CommandInv, cli.command = "run",
                      NEW dir \in {"/w", "/l", "/w/../l", "w", "."}
               PROVE  (normalize_work_dir(cwd, PathOf(dir)) =
                       resolve_daemon_work_dir(cwd, ChildDir(cwd, cli))) <=>
                         (Place(dir) = Place(cli.work_dir))
    BY Zenon DEF StartedDaemonIsFound
  <2>1. args \in Seq(Word) /\ IsPath(cwd, Word) /\ cwd.abs = TRUE /\ PathWords \subseteq Word
    BY CwdTyped, Zenon DEF CommandInv, Word
  <2>2. cli.work_dir \in Word
    BY <2>1, CliTyped
  <2>3. dir \in Word
    BY Zenon DEF Word, PathWords
  <2>4. normalize_work_dir(cwd, PathOf(dir)) = Place(dir)
    BY <2>1, <2>3, ChildDirIs
  <2>5. /\ ChildDir(cwd, cli) = Place(cli.work_dir)
        /\ resolve_daemon_work_dir(cwd, Place(cli.work_dir)) = Place(cli.work_dir)
    BY <2>1, <2>2, ChildDirIs DEF ChildDir
  <2> HIDE DEF Place, cli
  <2> QED
    BY <2>4, <2>5
<1> QED
  BY <1>1, CommandInvHolds, PTL

\* The daemon loads the configuration file that its start has checked
\* (ChildLoadsTheSameFile): from the same place the same components lead to the same
\* place (SamePlace).
THEOREM ChildAlwaysLoadsTheSameFile == Spec => []ChildLoadsTheSameFile
<1>1. CommandInv => ChildLoadsTheSameFile
  <2> DEFINE cli == parse_args(args)
  <2> SUFFICES ASSUME CommandInv, cli.command = "run",
                      PathOf(cli.work_dir).abs \/ cli.work_dir = "."
               PROVE  Loads(cwd, ChildConfig(cwd, cli)) = Loads(cwd, config_path(cli))
    BY Zenon DEF ChildLoadsTheSameFile
  <2>1. args \in Seq(Word) /\ IsPath(cwd, Word) /\ cwd.abs = TRUE /\ PathWords \subseteq Word
    BY CwdTyped, Zenon DEF CommandInv, Word
  <2>2. cli.work_dir \in Word /\ cli.config \in Word
    BY <2>1, CliTyped
  <2> HIDE DEF cli
  <2> QED
    BY <2>1, <2>2, SameFile
<1> QED
  BY <1>1, CommandInvHolds, PTL

-----------------------------------------------------------------------------
(* The configuration file.                                                  *)

TableStart(f)      == NoTable
TableStep(f, t, n) == parse_line(t, f[n])
TableLoop == INSTANCE Loops WITH Start <- TableStart, Step <- TableStep

\* The equation of the loop of parse_toml.
LEMMA TablesIs ==
    ASSUME NEW L, NEW f \in Seq(L)
    PROVE  /\ Tables(f)[0] = NoTable
           /\ \A n \in 1 .. Len(f) : Tables(f)[n] = parse_line(Tables(f)[n - 1], f[n])
<1>1. Tables(f) = TableLoop!Run(f, Len(f))
  BY DEF Tables, TableLoop!Run, TableStart, TableStep
<1>2. Len(f) \in Nat
  OBVIOUS
<1> QED
  BY <1>1, <1>2, TableLoop!RunIs, Induction DEF TableLoop!Inductive, TableStart, TableStep

\* The section after a line.
LEMMA SectionAfter ==
    ASSUME NEW L, file \in Seq(L)
    PROVE  /\ SectionAt(1) = EmptyStr
           /\ \A n \in 1 .. Len(file) :
                 SectionAt(n + 1) = IF file[n].line = "section" THEN file[n].name ELSE SectionAt(n)
<1> DEFINE Above(i) == {j \in 1 .. i - 1 : file[j].line = "section"}
           Top(S)   == CHOOSE j \in S : \A k \in S : k <= j
<1>1. ASSUME NEW i
      PROVE  SectionAt(i) = IF Above(i) = {} THEN EmptyStr ELSE file[Top(Above(i))].name
  BY Zenon DEF SectionAt
<1>2. Above(1) = {}
  OBVIOUS
<1>3. ASSUME NEW n \in 1 .. Len(file), file[n].line = "section" PROVE SectionAt(n + 1) = file[n].name
  <2>1. n \in Above(n + 1) /\ \A k \in Above(n + 1) : k <= n /\ k \in Int
    BY <1>3
  <2>2. n \in Int
    OBVIOUS
  <2> HIDE DEF Above
  <2>3. Top(Above(n + 1)) = n
    <3> DEFINE S == Above(n + 1)
    <3> HIDE DEF S
    <3>1. n \in S /\ \A k \in S : k <= n /\ k \in Int
      BY <2>1 DEF S
    <3>2. \A j \in S : (\A k \in S : k <= j) => j = n
      BY <2>2, <3>1
    <3>3. Top(S) = n
      BY <3>1, <3>2
    <3> QED
      BY <3>3 DEF S
  <2> QED
    BY <1>1, <2>1, <2>3, Zenon
<1>4. ASSUME NEW n \in 1 .. Len(file), file[n].line # "section" PROVE SectionAt(n + 1) = SectionAt(n)
  <2>1. Above(n + 1) = Above(n)
    BY <1>4
  <2> HIDE DEF Above, Top
  <2> QED
    BY <1>1, <2>1, Zenon
<1> HIDE DEF Above, Top
<1>5. SectionAt(1) = EmptyStr
  BY <1>1, <1>2, Zenon
<1> QED
  BY <1>3, <1>4, <1>5

\* The key that line i gives.
KeyAt(i) == <<SectionAt(i), file[i].name>>

PairsTo(n) == {i \in 1 .. n : file[i].line = "pair"}

\* What the first n lines must be to be read: a line is a header or a pair, a pair is in a
\* section, has a value and a key of its own.
ReadTo(n) ==
    /\ \A i \in 1 .. n : file[i].line = "section" \/ file[i].line = "pair"
    /\ \A i \in PairsTo(n) : SectionAt(i) # EmptyStr /\ file[i].value.type # "bad"
    /\ \A i, j \in PairsTo(n) : KeyAt(i) = KeyAt(j) => i = j

\* The table t holds what the first n lines say.
Holds(t, n) ==
    /\ t = [error |-> FALSE, current |-> t.current, sections |-> t.sections,
            keys |-> t.keys, value |-> t.value]
    /\ t.current = SectionAt(n + 1)
    /\ t.sections = {file[i].name : i \in {j \in 1 .. n : file[j].line = "section"}}
    /\ t.keys = {KeyAt(i) : i \in PairsTo(n)} /\ DOMAIN t.value = t.keys
    /\ \A i \in PairsTo(n) : t.value[KeyAt(i)] = file[i].value

\* The table after n lines: an error, or all of them.
TableAt(t, n) == \/ t.error = TRUE /\ ~ReadTo(n)
                 \/ t.error = FALSE /\ ReadTo(n) /\ Holds(t, n)

\* A rejected table keeps its error.
LEMMA RejectedIs ==
    ASSUME NEW t, NEW c, NEW s, NEW k, NEW v, NEW e,
           t = [error |-> e, current |-> c, sections |-> s, keys |-> k, value |-> v]
    PROVE  Rejected(t).error = TRUE
BY DEF Rejected

\* More lines do not repair a file.
LEMMA ReadBefore == ASSUME NEW n \in Nat, ReadTo(n + 1) PROVE ReadTo(n)
<1>1. 1 .. n \subseteq 1 .. n + 1 /\ PairsTo(n) \subseteq PairsTo(n + 1)
  BY DEF PairsTo
<1> QED
  BY <1>1, Zenon DEF ReadTo

\* A line keeps that.
LEMMA LineRead ==
    ASSUME NEW L, file \in Seq(L), NEW n \in 0 .. Len(file) - 1, NEW t, TableAt(t, n),
           NEW h, h = parse_line(t, file[n + 1])
    PROVE  TableAt(h, n + 1)
<1> DEFINE l == file[n + 1]
<1>1. n \in Nat /\ n + 1 \in 1 .. Len(file) /\ n + 1 \in 1 .. n + 1
  OBVIOUS
<1>2. \A i \in 1 .. n + 1 : i \in 1 .. n \/ i = n + 1
  BY <1>1
<1>3. 1 .. n \subseteq 1 .. n + 1 /\ n + 1 \notin 1 .. n
  BY <1>1
<1>4. ~ReadTo(n) => ~ReadTo(n + 1)
  BY <1>1, ReadBefore
<1>5. SectionAt((n + 1) + 1) = IF l.line = "section" THEN l.name ELSE SectionAt(n + 1)
  BY <1>1, SectionAfter
<1>6. CASE t.error = TRUE
  <2>1. h = t
    BY <1>6 DEF parse_line
  <2> QED
    BY <1>4, <1>6, <2>1, Zenon DEF TableAt
<1>7. ASSUME t.error = FALSE, ReadTo(n), Holds(t, n), l.line = "section"
      PROVE  TableAt(h, n + 1)
  <2>1. h = [t EXCEPT !.sections = @ \cup {l.name}, !.current = l.name]
    BY <1>7 DEF parse_line
  <2>2. /\ h = [error |-> FALSE, current |-> h.current, sections |-> h.sections,
                keys |-> h.keys, value |-> h.value]
        /\ h.current = l.name /\ h.sections = t.sections \cup {l.name}
        /\ h.keys = t.keys /\ h.value = t.value
    BY <1>7, <2>1 DEF Holds
  <2>3. PairsTo(n + 1) = PairsTo(n)
    BY <1>2, <1>3, <1>7, Zenon DEF PairsTo
  <2>4. ReadTo(n + 1)
    BY <1>2, <1>7, <2>3, Zenon DEF ReadTo
  <2>5. {file[i].name : i \in {j \in 1 .. n + 1 : file[j].line = "section"}} =
           {file[i].name : i \in {j \in 1 .. n : file[j].line = "section"}} \cup {l.name}
    BY <1>1, <1>2, <1>3, <1>7
  <2>6. Holds(h, n + 1)
    BY <1>5, <1>7, <2>2, <2>3, <2>5, Zenon DEF Holds
  <2>7. h.error = FALSE
    BY <2>2
  <2> QED
    BY <2>4, <2>6, <2>7, Zenon DEF TableAt
<1>8. ASSUME t.error = FALSE, ReadTo(n), Holds(t, n), l.line = "pair"
      PROVE  TableAt(h, n + 1)
  <2> DEFINE k == KeyAt(n + 1)
  <2>1. k = <<t.current, l.name>> /\ t.current = SectionAt(n + 1)
    BY <1>8 DEF KeyAt, Holds
  <2>2. h = parse_pair(t, l)
    BY <1>8 DEF parse_line
  <2>3. PairsTo(n + 1) = PairsTo(n) \cup {n + 1} /\ n + 1 \notin PairsTo(n)
    BY <1>1, <1>2, <1>3, <1>8, Zenon DEF PairsTo
  <2>4. k \in t.keys <=> \E i \in PairsTo(n) : KeyAt(i) = k
    BY <1>8, Zenon DEF Holds
  <2>5. ReadTo(n + 1) <=> SectionAt(n + 1) # EmptyStr /\ l.value.type # "bad" /\ k \notin t.keys
    <3>1. ReadTo(n + 1) => SectionAt(n + 1) # EmptyStr /\ l.value.type # "bad" /\ k \notin t.keys
      BY <2>3, <2>4, Zenon DEF ReadTo
    <3>2. ASSUME SectionAt(n + 1) # EmptyStr, l.value.type # "bad", k \notin t.keys
          PROVE  ReadTo(n + 1)
      <4>1. \A i \in 1 .. n + 1 : file[i].line = "section" \/ file[i].line = "pair"
        BY <1>2, <1>8, Zenon DEF ReadTo
      <4>2. \A i \in PairsTo(n + 1) : SectionAt(i) # EmptyStr /\ file[i].value.type # "bad"
        BY <1>8, <2>3, <3>2, Zenon DEF ReadTo
      <4>3. \A i, j \in PairsTo(n + 1) : KeyAt(i) = KeyAt(j) => i = j
        BY <1>8, <2>3, <2>4, <3>2, Zenon DEF ReadTo
      <4> QED
        BY <4>1, <4>2, <4>3, Zenon DEF ReadTo
    <3> QED
      BY <3>1, <3>2
  <2>6. CASE ReadTo(n + 1)
    <3>1. h = [t EXCEPT !.keys = @ \cup {k}, !.value = Insert(@, k, l.value)]
      BY <2>1, <2>2, <2>5, <2>6 DEF parse_pair
    <3> HIDE DEF k
    <3>2. /\ h = [error |-> FALSE, current |-> h.current, sections |-> h.sections,
                  keys |-> h.keys, value |-> h.value]
          /\ h.current = t.current /\ h.sections = t.sections
          /\ h.keys = t.keys \cup {k} /\ h.value = Insert(t.value, k, l.value)
      BY <1>8, <3>1 DEF Holds
    <3>3. {file[i].name : i \in {j \in 1 .. n + 1 : file[j].line = "section"}} =
             {file[i].name : i \in {j \in 1 .. n : file[j].line = "section"}}
      BY <1>1, <1>2, <1>3, <1>8
    <3>4. h.keys = {KeyAt(i) : i \in PairsTo(n + 1)}
      <4>1. t.keys = {KeyAt(i) : i \in PairsTo(n)}
        BY <1>8 DEF Holds
      <4> QED
        BY <2>3, <3>2, <4>1 DEF k
    <3>5. DOMAIN h.value = h.keys /\ h.value[k] = l.value
      <4>1. DOMAIN t.value = t.keys
        BY <1>8, Zenon DEF Holds
      <4>2. /\ DOMAIN Insert(t.value, k, l.value) = DOMAIN t.value \cup {k}
            /\ Insert(t.value, k, l.value)[k] = l.value
        BY DEF Insert
      <4>3. h.keys = t.keys \cup {k} /\ h.value = Insert(t.value, k, l.value)
        BY <3>2
      <4> QED
        BY <4>1, <4>2, <4>3, Zenon
    <3>6. ASSUME NEW i \in PairsTo(n) PROVE h.value[KeyAt(i)] = file[i].value
      <4>1. KeyAt(i) \in t.keys /\ t.value[KeyAt(i)] = file[i].value /\ DOMAIN t.value = t.keys
        BY <1>8, Zenon DEF Holds
      <4>2. KeyAt(i) # k
        BY <2>5, <2>6, <4>1
      <4>3. Insert(t.value, k, l.value)[KeyAt(i)] = t.value[KeyAt(i)]
        BY <4>1, <4>2 DEF Insert
      <4>4. h.value = Insert(t.value, k, l.value)
        BY <3>2
      <4> QED
        BY <4>1, <4>3, <4>4, Zenon
    <3>7. \A i \in PairsTo(n + 1) : h.value[KeyAt(i)] = file[i].value
      BY <2>3, <3>5, <3>6, Zenon DEF k
    <3>8. h.current = SectionAt((n + 1) + 1)
      BY <1>5, <1>8, <2>1, <3>2
    <3>9. h.sections = {file[i].name : i \in {j \in 1 .. n + 1 : file[j].line = "section"}}
      <4>1. t.sections = {file[i].name : i \in {j \in 1 .. n : file[j].line = "section"}}
        BY <1>8, Zenon DEF Holds
      <4> QED
        BY <3>2, <3>3, <4>1, Zenon
    <3>10. h.error = FALSE
      BY <3>2
    <3>11. Holds(h, n + 1)
      BY <3>2, <3>4, <3>5, <3>7, <3>8, <3>9, Zenon DEF Holds
    <3> QED
      BY <2>6, <3>10, <3>11, Zenon DEF TableAt
  <2>7. CASE ~ReadTo(n + 1)
    <3>1. h = Rejected(t)
      BY <2>1, <2>2, <2>5, <2>7 DEF parse_pair
    <3>2. h.error = TRUE
      BY <1>8, <3>1, RejectedIs, Zenon DEF Holds
    <3> QED
      BY <2>7, <3>2, Zenon DEF TableAt
  <2> QED
    BY <2>6, <2>7
<1>9. ASSUME t.error = FALSE, Holds(t, n), l.line # "section", l.line # "pair"
      PROVE  TableAt(h, n + 1)
  <2>1. h = Rejected(t)
    BY <1>9 DEF parse_line
  <2>2. h.error = TRUE
    BY <1>9, <2>1, RejectedIs, Zenon DEF Holds
  <2>3. ~ReadTo(n + 1)
    BY <1>1, <1>9 DEF ReadTo
  <2> QED
    BY <2>2, <2>3, Zenon DEF TableAt
<1> HIDE DEF l
<1> QED
  BY <1>6, <1>7, <1>8, <1>9, Zenon DEF TableAt

\* So parse_toml reads the file or ends with an error.
LEMMA FileRead ==
    ASSUME NEW L, file \in Seq(L)
    PROVE  TableAt(parse_toml(file), Len(file))
<1> DEFINE m == Len(file)
           T == {n \in 0 .. m : TableAt(Tables(file)[n], n)}
<1>1. m \in Nat
  OBVIOUS
<1>2. 0 \in T
  <2>1. PairsTo(0) = {} /\ 1 .. 0 = {}
    BY DEF PairsTo
  <2>2. ReadTo(0)
    BY <2>1 DEF ReadTo
  <2>3. SectionAt(0 + 1) = EmptyStr
    BY SectionAfter
  <2> DEFINE h == NoTable
  <2>4. /\ h = [error |-> FALSE, current |-> h.current, sections |-> h.sections,
                keys |-> h.keys, value |-> h.value]
        /\ h.current = EmptyStr /\ h.sections = {} /\ h.keys = {} /\ DOMAIN h.value = {}
        /\ h.error = FALSE
    BY DEF NoTable
  <2>5. h.sections = {file[i].name : i \in {j \in 1 .. 0 : file[j].line = "section"}}
        /\ h.keys = {KeyAt(i) : i \in PairsTo(0)}
    BY <2>1, <2>4
  <2> HIDE DEF h
  <2>6. Holds(h, 0)
    BY <2>1, <2>3, <2>4, <2>5, Zenon DEF Holds
  <2>7. TableAt(h, 0)
    BY <2>2, <2>4, <2>6, Zenon DEF TableAt
  <2>8. Tables(file)[0] = h
    BY TablesIs DEF h
  <2> QED
    BY <1>1, <2>7, <2>8
<1>3. ASSUME NEW n \in 0 .. m - 1, n \in T PROVE n + 1 \in T
  <2>1. n + 1 \in 1 .. m /\ n + 1 \in 0 .. m /\ (n + 1) - 1 = n
    BY <1>1
  <2>2. Tables(file)[n + 1] = parse_line(Tables(file)[n], file[n + 1])
    BY <2>1, TablesIs
  <2>3. TableAt(Tables(file)[n], n)
    BY <1>3
  <2>4. TableAt(Tables(file)[n + 1], n + 1)
    BY <2>2, <2>3, LineRead
  <2> QED
    BY <2>1, <2>4
<1>4. m \in T
  <2> HIDE DEF T, m
  <2>1. \A n \in 0 .. m : n \in T
    BY <1>1, <1>2, <1>3, UpTo
  <2> QED
    BY <1>1, <2>1
<1> QED
  BY <1>4 DEF parse_toml

\* The lines of a key, one by one.
LEMMA LinesOfIs ==
    ASSUME NEW L, file \in Seq(L), NEW s, NEW k
    PROVE  LinesOf(s, k) = {i \in PairsTo(Len(file)) : KeyAt(i) = <<s, k>>}
<1>1. DOMAIN file = 1 .. Len(file)
  OBVIOUS
<1>2. \A i : KeyAt(i) = <<s, k>> <=> SectionAt(i) = s /\ file[i].name = k
  BY DEF KeyAt
<1> QED
  BY <1>1, <1>2, Zenon DEF LinesOf, PairsTo

\* What the table of a file that was read says of a key.
LEMMA KeyOf ==
    ASSUME NEW L, file \in Seq(L), NEW t, Holds(t, Len(file)), NEW s, NEW k
    PROVE  /\ <<s, k>> \in t.keys <=> LinesOf(s, k) # {}
           /\ LinesOf(s, k) # {} => t.value[<<s, k>>] = Given(s, k)
<1>1. LinesOf(s, k) = {i \in PairsTo(Len(file)) : KeyAt(i) = <<s, k>>}
  BY LinesOfIs
<1>2. t.keys = {KeyAt(i) : i \in PairsTo(Len(file))}
      /\ \A i \in PairsTo(Len(file)) : t.value[KeyAt(i)] = file[i].value
  BY Zenon DEF Holds
<1>3. <<s, k>> \in t.keys <=> LinesOf(s, k) # {}
  BY <1>1, <1>2, Zenon
<1>4. ASSUME LinesOf(s, k) # {} PROVE t.value[<<s, k>>] = Given(s, k)
  <2> DEFINE i == CHOOSE j \in LinesOf(s, k) : TRUE
  <2>1. i \in LinesOf(s, k)
    BY <1>4, Zenon
  <2>2. Given(s, k) = file[i].value
    BY DEF Given
  <2> HIDE DEF i
  <2> QED
    BY <1>1, <1>2, <2>1, <2>2, Zenon
<1> QED
  BY <1>3, <1>4

\* The lists of a file.
LEMMA ListsAreValid ==
    ASSUME NEW s
    PROVE  /\ parse_ignore_flag_mask(s) <=> ListIsValid("ignore_addr_flags", s)
           /\ parse_ip_list(s) <=> ListIsValid("ignore_ips", s)
           /\ parse_cidr_list(s) <=> ListIsValid("ignore_cidrs", s)
<1>1. parse_ignore_flag_mask(s) <=> ListIsValid("ignore_addr_flags", s)
  BY DEF parse_ignore_flag_mask, ListIsValid, IsInjective
<1>2. parse_ip_list(s) <=> ListIsValid("ignore_ips", s)
  BY DEF parse_ip_list, ListIsValid, IsInjective
<1>3. parse_cidr_list(s) <=> ListIsValid("ignore_cidrs", s)
  BY DEF parse_cidr_list, ListIsValid, IsInjective
<1> QED
  BY <1>1, <1>2, <1>3

\* A list that is not given is empty, and so valid.
LEMMA NoListIsValid == \A key \in Lists : ListIsValid(key, <<>>)
BY DEF ListIsValid

\* The keys that load takes.
LEMMA OnlyAllowedKeys == ASSUME NEW t PROVE OnlyKnownKeys(t) <=> t.keys \subseteq Allowed
<1> DEFINE K == {<<"daemon", k>> : k \in {"ipv6", "debounce_ms", "debounce_max_ms", "batch_max"}}
                \cup {<<"log", k>> : k \in {"level", "file"}}
                \cup {<<"rule", k>> : k \in {"pref", "table_id"}}
                \cup {<<"filters", k>> : k \in {"ignore_addr_flags", "ignore_ips", "ignore_cidrs"}}
<1>1. K = Allowed
  BY DEF Allowed, Required, Positive, Lists
<1>2. OnlyKnownKeys(t) <=> t.keys \subseteq K
  BY DEF OnlyKnownKeys
<1> HIDE DEF K
<1> QED
  BY <1>1, <1>2

\* A value that is given is the value of a line.
LEMMA GivenIs ==
    ASSUME NEW L, file \in Seq(L), NEW s, NEW k, LinesOf(s, k) # {}
    PROVE  \E l \in L : Given(s, k) = l.value
<1> DEFINE j == CHOOSE i \in LinesOf(s, k) : TRUE
<1>1. j \in LinesOf(s, k)
  BY Zenon
<1>2. j \in DOMAIN file
  BY <1>1, Zenon DEF LinesOf
<1>3. Given(s, k) = file[j].value
  BY DEF Given
<1> HIDE DEF j
<1>4. file[j] \in L
  BY <1>2
<1> QED
  BY <1>3, <1>4, Zenon

\* A file that load accepts is valid.
LEMMA AcceptedIsValid ==
    ASSUME NEW L, file \in Seq(L), \A l \in L : l.value.int \in Int,
           NEW t, TableAt(t, Len(file)), Accepts(t)
    PROVE  FileIsValid
<1>1. ReadTo(Len(file)) /\ Holds(t, Len(file))
  BY Zenon DEF TableAt, Accepts
<1>2. ASSUME NEW s, NEW k
      PROVE  /\ <<s, k>> \in t.keys <=> LinesOf(s, k) # {}
             /\ LinesOf(s, k) # {} => t.value[<<s, k>>] = Given(s, k)
  BY <1>1, KeyOf
<1>3. DOMAIN file = 1 .. Len(file)
  OBVIOUS
<1>4. ASSUME NEW i \in DOMAIN file
      PROVE  /\ file[i].line # "malformed"
             /\ file[i].line = "pair" => <<SectionAt(i), file[i].name>> \in Allowed
  <2>1. file[i].line = "section" \/ file[i].line = "pair"
    BY <1>1, <1>3, Zenon DEF ReadTo
  <2>2. file[i].line # "malformed"
    BY <2>1
  <2>3. t.keys \subseteq Allowed
    BY OnlyAllowedKeys, Zenon DEF Accepts
  <2>4. t.keys = {KeyAt(j) : j \in PairsTo(Len(file))}
    BY <1>1, Zenon DEF Holds
  <2>5. ASSUME file[i].line = "pair" PROVE <<SectionAt(i), file[i].name>> \in Allowed
    <3>1. i \in PairsTo(Len(file))
      BY <1>3, <2>5, Zenon DEF PairsTo
    <3> QED
      BY <2>3, <2>4, <3>1, Zenon DEF KeyAt
  <2> QED
    BY <2>2, <2>5
<1>5. {file[i].name : i \in {j \in DOMAIN file : file[j].line = "section"}} = KNOWN_SECTIONS
  <2>1. t.sections = {file[i].name : i \in {j \in 1 .. Len(file) : file[j].line = "section"}}
    BY <1>1, Zenon DEF Holds
  <2>2. t.sections = KNOWN_SECTIONS
    BY Zenon DEF Accepts
  <2> QED
    BY <1>3, <2>1, <2>2, Zenon
<1>6. ASSUME NEW s, NEW k PROVE \A i, j \in LinesOf(s, k) : i = j
  <2>1. \A i, j \in PairsTo(Len(file)) : KeyAt(i) = KeyAt(j) => i = j
    BY <1>1, Zenon DEF ReadTo
  <2> QED
    BY <2>1, LinesOfIs, Zenon
<1>7. ASSUME NEW s, NEW k, LinesOf(s, k) # {} PROVE Given(s, k).int \in Int
  <2>1. PICK l \in L : Given(s, k) = l.value
    BY <1>7, GivenIs
  <2> QED
    BY <2>1, Zenon
<1>8. ASSUME NEW s, NEW k, TakesU64(t, <<s, k>>)
      PROVE  /\ LinesOf(s, k) # {} /\ Given(s, k) = t.value[<<s, k>>]
             /\ Given(s, k).type = "Int" /\ Given(s, k).int \in Int /\ Given(s, k).int >= 0
  BY <1>2, <1>7, <1>8, Zenon DEF TakesU64
<1>9. ASSUME NEW k, TakesU64(t, <<"daemon", k>>), t.value[<<"daemon", k>>].int > 0
      PROVE  /\ LinesOf("daemon", k) # {}
             /\ Given("daemon", k).type = "Int" /\ Given("daemon", k).int > 0
  BY <1>8, <1>9, Zenon
<1>10. ASSUME NEW k, TakesU64(t, <<"rule", k>>), t.value[<<"rule", k>>].int % pow2[U] # 0
       PROVE  /\ LinesOf("rule", k) # {}
              /\ Given("rule", k).type = "Int" /\ Given("rule", k).int > 0
              /\ Given("rule", k).int % pow2[U] # 0
  <2>1. /\ LinesOf("rule", k) # {} /\ Given("rule", k) = t.value[<<"rule", k>>]
        /\ Given("rule", k).type = "Int" /\ Given("rule", k).int \in Int /\ Given("rule", k).int >= 0
    BY <1>8, <1>10, Zenon
  <2>2. pow2[U] \in Nat /\ pow2[U] > 0
    BY ConfigAssumption, PowerIs
  <2>3. Given("rule", k).int % pow2[U] # 0
    BY <1>10, <2>1
  <2>4. \A n \in Int : n >= 0 /\ n % pow2[U] # 0 => n > 0
    BY <2>2
  <2> QED
    BY <2>1, <2>3, <2>4
<1>11. /\ LinesOf("daemon", "ipv6") # {} /\ Given("daemon", "ipv6").type = "Bool"
  <2>1. TakesBool(t, <<"daemon", "ipv6">>)
    BY Zenon DEF Accepts
  <2> QED
    BY <1>2, <2>1, Zenon DEF TakesBool
<1>12. /\ LinesOf("log", "level") # {} /\ Given("log", "level").type = "Str"
       /\ Given("log", "level").str \in {"error", "warn", "info", "debug"}
  <2>1. TakesStr(t, <<"log", "level">>) /\ t.value[<<"log", "level">>].str \in {"error", "warn", "info", "debug"}
    BY Zenon DEF Accepts
  <2> QED
    BY <1>2, <2>1, Zenon DEF TakesStr
<1>13. /\ LinesOf("log", "file") # {} /\ Given("log", "file").type = "Str"
       /\ Given("log", "file").str # EmptyStr
  <2>1. TakesStr(t, <<"log", "file">>) /\ t.value[<<"log", "file">>].str # EmptyStr
    BY Zenon DEF Accepts
  <2> QED
    BY <1>2, <2>1, Zenon DEF TakesStr
<1>14. \A k \in {"debounce_ms", "debounce_max_ms", "batch_max"} :
          /\ LinesOf("daemon", k) # {}
          /\ Given("daemon", k).type = "Int" /\ Given("daemon", k).int > 0
  <2>1. \A k \in {"debounce_ms", "debounce_max_ms", "batch_max"} :
           TakesU64(t, <<"daemon", k>>) /\ t.value[<<"daemon", k>>].int > 0
    BY Zenon DEF Accepts
  <2> QED
    BY <1>9, <2>1, Zenon
<1>15. \A k \in {"pref", "table_id"} :
          /\ LinesOf("rule", k) # {}
          /\ Given("rule", k).type = "Int" /\ Given("rule", k).int > 0
          /\ Given("rule", k).int % pow2[U] # 0
  <2>1. \A k \in {"pref", "table_id"} :
           TakesU64(t, <<"rule", k>>) /\ t.value[<<"rule", k>>].int % pow2[U] # 0
    BY Zenon DEF Accepts
  <2> QED
    BY <1>10, <2>1, Zenon
<1>16. ASSUME NEW key \in Lists, LinesOf("filters", key) # {}
       PROVE  Given("filters", key).type = "Array" /\ ListIsValid(key, Given("filters", key).list)
  <2>1. <<"filters", key>> \in t.keys /\ t.value[<<"filters", key>>] = Given("filters", key)
    BY <1>2, <1>16, Zenon
  <2>2. TakenList(t, <<"filters", key>>) = Given("filters", key).list
    BY <2>1, Zenon DEF TakenList
  <2>3. \A k \in Lists : TakesList(t, <<"filters", k>>) /\ ListIsValid(k, TakenList(t, <<"filters", k>>))
    BY ListsAreValid, Zenon DEF Accepts, Lists
  <2> QED
    BY <2>1, <2>2, <2>3, Zenon DEF TakesList
<1>17. ASSUME NEW k \in Positive
       PROVE  /\ LinesOf(k[1], k[2]) # {}
              /\ Given(k[1], k[2]).type = "Int" /\ Given(k[1], k[2]).int > 0
              /\ k[1] = "rule" => Given(k[1], k[2]).int % pow2[U] # 0
  <2>1. \/ \E x \in {"debounce_ms", "debounce_max_ms", "batch_max"} : k[1] = "daemon" /\ k[2] = x
        \/ \E x \in {"pref", "table_id"} : k[1] = "rule" /\ k[2] = x
    BY DEF Positive
  <2> QED
    BY <1>14, <1>15, <2>1
<1>18. ASSUME NEW k \in Required PROVE LinesOf(k[1], k[2]) # {}
  <2>1. \/ k \in Positive
        \/ k[1] = "daemon" /\ k[2] = "ipv6"
        \/ k[1] = "log" /\ k[2] = "level"
        \/ k[1] = "log" /\ k[2] = "file"
    BY DEF Required
  <2> QED
    BY <1>11, <1>12, <1>13, <1>17, <2>1
<1> QED
  BY <1>4, <1>5, <1>6, <1>11, <1>12, <1>13, <1>16, <1>17, <1>18, Zenon DEF FileIsValid

\* Every line of a valid file is read.
LEMMA ValidIsRead ==
    ASSUME NEW L, file \in Seq(L), \A l \in L : l.line \in {"section", "pair", "malformed"},
           FileIsValid
    PROVE  ReadTo(Len(file))
<1>1. DOMAIN file = 1 .. Len(file)
  OBVIOUS
<1>2. ASSUME NEW i \in 1 .. Len(file) PROVE file[i].line = "section" \/ file[i].line = "pair"
  <2>1. file[i] \in L
    OBVIOUS
  <2>2. file[i].line # "malformed"
    BY <1>1, Zenon DEF FileIsValid
  <2> QED
    BY <2>1, <2>2
<1>3. ASSUME NEW i \in PairsTo(Len(file)) PROVE KeyAt(i) \in Allowed
  BY <1>1, Zenon DEF FileIsValid, PairsTo, KeyAt
<1>4. ASSUME NEW k \in Allowed
      PROVE  /\ k = <<k[1], k[2]>> /\ k[1] \in KNOWN_SECTIONS
             /\ \A i, j \in LinesOf(k[1], k[2]) : i = j
  <2>1. k = <<k[1], k[2]>> /\ k[1] \in KNOWN_SECTIONS
    BY DEF Allowed, Required, Positive, Lists, KNOWN_SECTIONS
  <2> QED
    BY <2>1, Zenon DEF FileIsValid
<1>5. EmptyStr \notin KNOWN_SECTIONS
  BY Zenon DEF EmptyStr, KNOWN_SECTIONS
<1>6. ASSUME NEW i \in PairsTo(Len(file)), NEW k \in Allowed, KeyAt(i) = k
      PROVE  /\ i \in LinesOf(k[1], k[2])
             /\ SectionAt(i) = k[1] /\ file[i].value = Given(k[1], k[2])
  <2>1. KeyAt(i) = <<k[1], k[2]>>
    BY <1>4, <1>6
  <2>2. i \in LinesOf(k[1], k[2])
    <3>1. LinesOf(k[1], k[2]) = {x \in PairsTo(Len(file)) : KeyAt(x) = <<k[1], k[2]>>}
      BY LinesOfIs
    <3> QED
      BY <2>1, <3>1, Zenon
  <2>3. SectionAt(i) = k[1]
    BY <2>2, Zenon DEF LinesOf
  <2>4. \A x, y \in LinesOf(k[1], k[2]) : x = y
    BY <1>4, Zenon
  <2>5. (CHOOSE x \in LinesOf(k[1], k[2]) : TRUE) = i
    BY <2>2, <2>4, Zenon
  <2> QED
    BY <2>2, <2>3, <2>5, Zenon DEF Given
<1>7. ASSUME NEW k \in Allowed, LinesOf(k[1], k[2]) # {}
      PROVE  Given(k[1], k[2]).type \in {"Int", "Bool", "Str", "Array"}
  <2>1. CASE k \in Positive
    <3>1. Given(k[1], k[2]).type = "Int"
      BY <2>1, Zenon DEF FileIsValid
    <3> QED
      BY <3>1
  <2>2. CASE k[1] = "daemon" /\ k[2] = "ipv6"
    <3>1. Given("daemon", "ipv6").type = "Bool"
      BY Zenon DEF FileIsValid
    <3> QED
      BY <2>2, <3>1
  <2>3. CASE k[1] = "log" /\ k[2] \in {"level", "file"}
    <3>1. Given("log", "level").type = "Str" /\ Given("log", "file").type = "Str"
      BY Zenon DEF FileIsValid
    <3> QED
      BY <2>3, <3>1
  <2>4. CASE k[1] = "filters" /\ k[2] \in Lists
    <3>1. Given("filters", k[2]).type = "Array"
      BY <1>7, <2>4, Zenon DEF FileIsValid
    <3> QED
      BY <2>4, <3>1
  <2>5. \/ k \in Positive
        \/ k[1] = "daemon" /\ k[2] = "ipv6"
        \/ k[1] = "log" /\ k[2] \in {"level", "file"}
        \/ k[1] = "filters" /\ k[2] \in Lists
    BY DEF Allowed, Required
  <2> QED
    BY <2>1, <2>2, <2>3, <2>4, <2>5
<1>8. ASSUME NEW i \in PairsTo(Len(file))
      PROVE  SectionAt(i) # EmptyStr /\ file[i].value.type # "bad"
  <2>1. PICK k \in Allowed : KeyAt(i) = k
    BY <1>3
  <2>2. /\ i \in LinesOf(k[1], k[2])
        /\ SectionAt(i) = k[1] /\ file[i].value = Given(k[1], k[2])
    BY <1>6, <2>1
  <2>3. Given(k[1], k[2]).type \in {"Int", "Bool", "Str", "Array"}
    BY <1>7, <2>2, Zenon
  <2>4. Given(k[1], k[2]).type # "bad"
    BY <2>3
  <2> QED
    BY <1>4, <1>5, <2>2, <2>4, Zenon
<1>9. ASSUME NEW i \in PairsTo(Len(file)), NEW j \in PairsTo(Len(file)), KeyAt(i) = KeyAt(j)
      PROVE  i = j
  <2>1. PICK k \in Allowed : KeyAt(i) = k
    BY <1>3
  <2>2. i \in LinesOf(k[1], k[2]) /\ j \in LinesOf(k[1], k[2])
    BY <1>6, <1>9, <2>1, Zenon
  <2> QED
    BY <1>4, <2>2, Zenon
<1> QED
  BY <1>2, <1>8, <1>9, Zenon DEF ReadTo

\* A valid file is accepted.
LEMMA ValidIsAccepted ==
    ASSUME NEW L, file \in Seq(L), \A l \in L : l.line \in {"section", "pair", "malformed"},
           \A l \in L : l.value.int \in Int,
           NEW t, TableAt(t, Len(file)), FileIsValid
    PROVE  Accepts(t)
<1>1. t.error = FALSE /\ Holds(t, Len(file))
  BY ValidIsRead, Zenon DEF TableAt
<1>2. ASSUME NEW s, NEW k
      PROVE  /\ <<s, k>> \in t.keys <=> LinesOf(s, k) # {}
             /\ LinesOf(s, k) # {} => t.value[<<s, k>>] = Given(s, k)
  BY <1>1, KeyOf
<1>3. DOMAIN file = 1 .. Len(file)
  OBVIOUS
<1>4. t.sections = KNOWN_SECTIONS
  <2>1. t.sections = {file[i].name : i \in {j \in 1 .. Len(file) : file[j].line = "section"}}
    BY <1>1, Zenon DEF Holds
  <2>2. {file[i].name : i \in {j \in DOMAIN file : file[j].line = "section"}} = KNOWN_SECTIONS
    BY Zenon DEF FileIsValid
  <2> QED
    BY <1>3, <2>1, <2>2, Zenon
<1>5. OnlyKnownKeys(t)
  <2>1. t.keys = {KeyAt(j) : j \in PairsTo(Len(file))}
    BY <1>1, Zenon DEF Holds
  <2>2. \A i \in PairsTo(Len(file)) : KeyAt(i) \in Allowed
    BY <1>3, Zenon DEF FileIsValid, PairsTo, KeyAt
  <2> QED
    BY <2>1, <2>2, OnlyAllowedKeys, Zenon
<1>6. ASSUME NEW s, NEW k, <<s, k>> \in Required
      PROVE  <<s, k>> \in t.keys /\ t.value[<<s, k>>] = Given(s, k)
  <2>1. <<s, k>>[1] = s /\ <<s, k>>[2] = k
    OBVIOUS
  <2>2. LinesOf(s, k) # {}
    <3>1. LinesOf(<<s, k>>[1], <<s, k>>[2]) # {}
      BY <1>6, Zenon DEF FileIsValid
    <3> QED
      BY <2>1, <3>1
  <2> QED
    BY <1>2, <2>2, Zenon
<1>7. ASSUME NEW s, NEW k, <<s, k>> \in Positive
      PROVE  /\ TakesU64(t, <<s, k>>) /\ t.value[<<s, k>>].int > 0
             /\ s = "rule" => t.value[<<s, k>>].int % pow2[U] # 0
  <2>1. <<s, k>>[1] = s /\ <<s, k>>[2] = k
    OBVIOUS
  <2>2. <<s, k>> \in t.keys /\ t.value[<<s, k>>] = Given(s, k) /\ LinesOf(s, k) # {}
    BY <1>2, <1>6, <1>7, Zenon DEF Required
  <2>3. /\ Given(s, k).type = "Int" /\ Given(s, k).int > 0
        /\ s = "rule" => Given(s, k).int % pow2[U] # 0
    <3>1. LET v == Given(<<s, k>>[1], <<s, k>>[2])
          IN /\ v.type = "Int" /\ v.int > 0
             /\ <<s, k>>[1] = "rule" => v.int % pow2[U] # 0
      BY <1>7, Zenon DEF FileIsValid
    <3> QED
      BY <2>1, <3>1
  <2>4. Given(s, k).int \in Int
    <3>1. PICK l \in L : Given(s, k) = l.value
      BY <2>2, GivenIs
    <3> QED
      BY <3>1, Zenon
  <2>5. Given(s, k).int >= 0
    BY <2>3, <2>4
  <2> QED
    BY <2>2, <2>3, <2>5, Zenon DEF TakesU64
<1>8. \A k \in {"debounce_ms", "debounce_max_ms", "batch_max"} :
         TakesU64(t, <<"daemon", k>>) /\ t.value[<<"daemon", k>>].int > 0
  <2>1. \A k \in {"debounce_ms", "debounce_max_ms", "batch_max"} : <<"daemon", k>> \in Positive
    BY DEF Positive
  <2> QED
    BY <1>7, <2>1, Zenon
<1>9. \A k \in {"pref", "table_id"} :
         TakesU64(t, <<"rule", k>>) /\ t.value[<<"rule", k>>].int % pow2[U] # 0
  <2>1. \A k \in {"pref", "table_id"} : <<"rule", k>> \in Positive
    BY DEF Positive
  <2> QED
    BY <1>7, <2>1, Zenon
<1>10. TakesBool(t, <<"daemon", "ipv6">>)
  <2>1. <<"daemon", "ipv6">> \in Required
    BY DEF Required
  <2>2. Given("daemon", "ipv6").type = "Bool"
    BY Zenon DEF FileIsValid
  <2> QED
    BY <1>6, <2>1, <2>2, Zenon DEF TakesBool
<1>11. /\ TakesStr(t, <<"log", "level">>) /\ TakesStr(t, <<"log", "file">>)
       /\ t.value[<<"log", "level">>].str \in {"error", "warn", "info", "debug"}
       /\ t.value[<<"log", "file">>].str # EmptyStr
  <2>1. <<"log", "level">> \in Required /\ <<"log", "file">> \in Required
    BY DEF Required
  <2>2. /\ Given("log", "level").type = "Str" /\ Given("log", "file").type = "Str"
        /\ Given("log", "level").str \in {"error", "warn", "info", "debug"}
        /\ Given("log", "file").str # EmptyStr
    BY Zenon DEF FileIsValid
  <2> QED
    BY <1>6, <2>1, <2>2, Zenon DEF TakesStr
<1>12. ASSUME NEW key \in Lists
       PROVE  /\ TakesList(t, <<"filters", key>>)
              /\ ListIsValid(key, TakenList(t, <<"filters", key>>))
  <2>1. CASE LinesOf("filters", key) # {}
    <3>1. Given("filters", key).type = "Array" /\ ListIsValid(key, Given("filters", key).list)
      BY <2>1, Zenon DEF FileIsValid
    <3> QED
      BY <1>2, <2>1, <3>1, Zenon DEF TakesList, TakenList
  <2>2. CASE LinesOf("filters", key) = {}
    <3>1. <<"filters", key>> \notin t.keys
      BY <1>2, <2>2, Zenon
    <3> QED
      BY <3>1, NoListIsValid, Zenon DEF TakesList, TakenList
  <2> QED
    BY <2>1, <2>2
<1>13. /\ TakesList(t, <<"filters", "ignore_addr_flags">>)
       /\ TakesList(t, <<"filters", "ignore_ips">>)
       /\ TakesList(t, <<"filters", "ignore_cidrs">>)
       /\ parse_ignore_flag_mask(TakenList(t, <<"filters", "ignore_addr_flags">>))
       /\ parse_ip_list(TakenList(t, <<"filters", "ignore_ips">>))
       /\ parse_cidr_list(TakenList(t, <<"filters", "ignore_cidrs">>))
  BY <1>12, ListsAreValid, Zenon DEF Lists
<1> QED
  BY <1>1, <1>4, <1>5, <1>8, <1>9, <1>10, <1>11, <1>13, Zenon DEF Accepts

\* The schema is strict for every file, of any lines: Options::load accepts what parse_toml
\* has read exactly if the file is valid (FileIsValid).
THEOREM SchemaIsStrict ==
    ASSUME NEW L, file \in Seq(L), \A l \in L : l.line \in {"section", "pair", "malformed"},
           \A l \in L : l.value.int \in Int
    PROVE  Accepts(parse_toml(file)) <=> FileIsValid
<1> DEFINE t == parse_toml(file)
<1>1. TableAt(t, Len(file))
  BY FileRead
<1> HIDE DEF t
<1>2. Accepts(t) => FileIsValid
  BY <1>1, AcceptedIsValid
<1>3. FileIsValid => Accepts(t)
  BY <1>1, ValidIsAccepted
<1> QED
  BY <1>2, <1>3 DEF t

=============================================================================
