------------------------------- MODULE Loops --------------------------------
(***************************************************************************)
(* A loop of the program as a recursive function of the number of turns:   *)
(* it starts in the state Start(c), where c is its input, and turn n takes *)
(* the state x to Step(c, x, n).  The function exists, that is it          *)
(* satisfies its equation, for every Start and Step; what a loop computes  *)
(* follows by induction over its turns.                                    *)
(***************************************************************************)
EXTENDS Integers

CONSTANTS Start(_), Step(_, _, _)

Run(c, m) ==
    LET state[n \in 0 .. m] == IF n = 0 THEN Start(c) ELSE Step(c, state[n - 1], n)
    IN state

Endless(c) ==
    LET state[n \in Nat] == IF n = 0 THEN Start(c) ELSE Step(c, state[n - 1], n)
    IN state

\* Induction, for a set.  It is an assumption of the theorems here and is proved where
\* they are used, so that an instance of this module is small.
Inductive == \A T \in SUBSET Nat : 0 \in T /\ (\A n \in T : n + 1 \in T) => T = Nat

-----------------------------------------------------------------------------
\* f are the states of the first m turns.
IsRun(f, c, m) ==
    /\ f = [n \in 0 .. m |-> f[n]]
    /\ f[0] = Start(c) /\ \A n \in 1 .. m : f[n] = Step(c, f[n - 1], n)

\* A loop has states.
LEMMA SomeRun == ASSUME Inductive, NEW c, NEW m \in Nat PROVE \E f : IsRun(f, c, m)
<1> DEFINE T == {k \in Nat : \E f : IsRun(f, c, k)}
<1>1. 0 \in T
  <2>1. IsRun([n \in 0 .. 0 |-> Start(c)], c, 0)
    BY DEF IsRun
  <2> QED
    BY <2>1
<1>2. ASSUME NEW k \in T PROVE k + 1 \in T
  <2>1. PICK f : IsRun(f, c, k)
    BY <1>2
  <2> DEFINE h == [n \in 0 .. k + 1 |-> IF n = k + 1 THEN Step(c, f[k], k + 1) ELSE f[n]]
  <2>2. k \in Nat /\ f[0] = Start(c) /\ \A n \in 1 .. k : f[n] = Step(c, f[n - 1], n)
    BY <1>2, <2>1 DEF IsRun
  <2>3. h[0] = Start(c)
    BY <2>2
  <2>4. ASSUME NEW n \in 1 .. k + 1 PROVE h[n] = Step(c, h[n - 1], n)
    <3>1. h[n - 1] = f[n - 1]
      BY <2>2
    <3>2. CASE n = k + 1
      <4>1. h[n] = Step(c, f[k], n) /\ n - 1 = k
        BY <2>2, <3>2
      <4> HIDE DEF h
      <4> QED
        BY <3>1, <4>1
    <3>3. CASE n # k + 1
      <4>1. n \in 1 .. k /\ h[n] = f[n]
        BY <2>2, <3>3
      <4> HIDE DEF h
      <4> QED
        BY <2>2, <3>1, <4>1
    <3> QED
      BY <3>2, <3>3
  <2>5. h = [n \in 0 .. k + 1 |-> h[n]]
    OBVIOUS
  <2> HIDE DEF h
  <2>6. IsRun(h, c, k + 1)
    BY <2>3, <2>4, <2>5 DEF IsRun
  <2> QED
    BY <2>2, <2>6
<1>3. T = Nat
  <2> HIDE DEF T
  <2>1. T \subseteq Nat
    BY DEF T
  <2> QED
    BY <1>1, <1>2, <2>1 DEF Inductive
<1> QED
  BY <1>3

\* The states of a loop are those that its equation says.
THEOREM RunIs ==
    ASSUME Inductive, NEW c, NEW m \in Nat
    PROVE  /\ Run(c, m)[0] = Start(c)
           /\ \A n \in 1 .. m : Run(c, m)[n] = Step(c, Run(c, m)[n - 1], n)
<1> DEFINE Eqn(f) == f = [n \in 0 .. m |-> IF n = 0 THEN Start(c) ELSE Step(c, f[n - 1], n)]
<1>1. PICK f : IsRun(f, c, m)
  BY SomeRun
<1>2. Eqn(f)
  <2>1. ASSUME NEW n \in 0 .. m PROVE f[n] = IF n = 0 THEN Start(c) ELSE Step(c, f[n - 1], n)
    <3>1. f[0] = Start(c) /\ \A k \in 1 .. m : f[k] = Step(c, f[k - 1], k)
      BY <1>1 DEF IsRun
    <3>2. CASE n = 0
      BY <3>1, <3>2
    <3>3. CASE n # 0
      <4>1. n \in 1 .. m
        BY <3>3
      <4> QED
        BY <3>1, <3>3, <4>1
    <3> QED
      BY <3>2, <3>3
  <2>2. f = [n \in 0 .. m |-> f[n]]
    BY <1>1 DEF IsRun
  <2> QED
    BY <2>1, <2>2
<1>3. Eqn(Run(c, m))
  <2>1. Run(c, m) = CHOOSE g : Eqn(g)
    BY DEF Run
  <2> HIDE DEF Eqn
  <2> QED
    BY <1>2, <2>1
<1> DEFINE g == Run(c, m)
<1>4. g = [n \in 0 .. m |-> IF n = 0 THEN Start(c) ELSE Step(c, g[n - 1], n)]
  BY <1>3
<1> HIDE DEF g
<1>5. g[0] = Start(c)
  BY <1>4
<1>6. ASSUME NEW n \in 1 .. m PROVE g[n] = Step(c, g[n - 1], n)
  <2>1. n \in 0 .. m /\ n # 0
    OBVIOUS
  <2> QED
    BY <1>4, <2>1
<1> QED
  BY <1>5, <1>6 DEF g

\* The first states of a run do not depend on how long it is.
LEMMA RunsAgree ==
    ASSUME Inductive, NEW c, NEW m \in Nat, NEW k \in 0 .. m
    PROVE  \A n \in 0 .. k : Run(c, k)[n] = Run(c, m)[n]
<1> DEFINE T == {n \in Nat : n <= k => Run(c, k)[n] = Run(c, m)[n]}
<1>1. 0 \in T
  BY RunIs
<1>2. ASSUME NEW n \in T PROVE n + 1 \in T
  <2> SUFFICES ASSUME n + 1 <= k PROVE Run(c, k)[n + 1] = Run(c, m)[n + 1]
    BY <1>2
  <2>1. n + 1 \in 1 .. k /\ n + 1 \in 1 .. m /\ (n + 1) - 1 = n /\ n <= k
    OBVIOUS
  <2>2. Run(c, k)[n + 1] = Step(c, Run(c, k)[n], n + 1)
    BY <2>1, RunIs
  <2>3. Run(c, m)[n + 1] = Step(c, Run(c, m)[n], n + 1)
    BY <2>1, RunIs
  <2> QED
    BY <1>2, <2>1, <2>2, <2>3
<1>3. T = Nat
  <2> HIDE DEF T
  <2>1. T \subseteq Nat
    BY DEF T
  <2> QED
    BY <1>1, <1>2, <2>1 DEF Inductive
<1> QED
  BY <1>3

\* So are those of a loop without end.
THEOREM EndlessIs ==
    ASSUME Inductive, NEW c
    PROVE  /\ Endless(c)[0] = Start(c)
           /\ \A n \in Nat : Endless(c)[n + 1] = Step(c, Endless(c)[n], n + 1)
<1> DEFINE Eqn(f) == f = [n \in Nat |-> IF n = 0 THEN Start(c) ELSE Step(c, f[n - 1], n)]
           g == [n \in Nat |-> Run(c, n)[n]]
<1>1. Eqn(g)
  <2>1. ASSUME NEW n \in Nat, n # 0 PROVE g[n] = Step(c, g[n - 1], n)
    <3>1. n - 1 \in 0 .. n /\ n - 1 \in Nat /\ n \in 1 .. n
      BY <2>1
    <3>2. Run(c, n)[n] = Step(c, Run(c, n)[n - 1], n)
      BY <3>1, RunIs
    <3>3. Run(c, n - 1)[n - 1] = Run(c, n)[n - 1]
      BY <3>1, RunsAgree
    <3>4. g[n] = Run(c, n)[n] /\ g[n - 1] = Run(c, n - 1)[n - 1]
      BY <3>1
    <3> HIDE DEF g
    <3> QED
      BY <3>2, <3>3, <3>4
  <2>2. g[0] = Start(c) /\ g = [n \in Nat |-> g[n]]
    BY RunIs
  <2> HIDE DEF g
  <2> QED
    BY <2>1, <2>2
<1>2. Eqn(Endless(c))
  <2>1. Endless(c) = CHOOSE f : Eqn(f)
    BY DEF Endless
  <2> HIDE DEF Eqn, g
  <2> QED
    BY <1>1, <2>1
<1>3. ASSUME NEW n \in Nat PROVE Endless(c)[n + 1] = Step(c, Endless(c)[n], n + 1)
  <2>1. n + 1 \in Nat /\ n + 1 # 0 /\ (n + 1) - 1 = n
    OBVIOUS
  <2> QED
    BY <1>2, <2>1
<1> QED
  BY <1>2, <1>3
=============================================================================
