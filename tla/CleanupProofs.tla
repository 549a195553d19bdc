--------------------------- MODULE CleanupProofs ----------------------------
(***************************************************************************)
(* What cleanup_rules promises, for any rules, packet sizes, rings, batch  *)
(* sizes and changes by others: one that reports success has deleted what  *)
(* it was to delete, and the rules of others stay.                         *)
(***************************************************************************)
EXTENDS CleanupOnce, TLAPS, WellFoundedInduction

-----------------------------------------------------------------------------
(* Lists.                                                                   *)

\* Induction, for a set.
LEMMA Induction ==
    ASSUME NEW T \in SUBSET Nat, 0 \in T, \A n \in T : n + 1 \in T
    PROVE  T = Nat
<1> SUFFICES ASSUME Nat \ T # {} PROVE FALSE
  OBVIOUS
<1> DEFINE R == OpToRel(<, Nat)
<1>1. IsWellFoundedOn(R, Nat)
  BY NatLessThanWellFounded
<1>2. \A x, y \in Nat : <<y, x>> \in R <=> y < x
  BY DEF OpToRel
<1> HIDE DEF R
<1>3. PICK x \in Nat \ T : \A y \in Nat \ T : ~(<<y, x>> \in R)
  <2>1. Nat \ T \subseteq Nat
    OBVIOUS
  <2> QED
    BY <1>1, <2>1, WFMin
<1>4. x \in Nat /\ x # 0
  OBVIOUS
<1>5. x - 1 \in Nat /\ x - 1 < x /\ (x - 1) + 1 = x
  BY <1>4
<1>6. x - 1 \in T
  BY <1>2, <1>3, <1>4, <1>5
<1> QED
  BY <1>5, <1>6

LEMMA RangeCat ==
    ASSUME NEW S, NEW s \in Seq(S), NEW t \in Seq(S)
    PROVE  /\ s \o t \in Seq(S) /\ Range(s \o t) = Range(s) \cup Range(t)
           /\ Len(s \o t) = Len(s) + Len(t)
           /\ \A i \in 1 .. Len(s) + Len(t) :
                 (s \o t)[i] = IF i <= Len(s) THEN s[i] ELSE t[i - Len(s)]
<1>1. /\ s \o t \in Seq(S) /\ Len(s \o t) = Len(s) + Len(t)
      /\ \A i \in 1 .. Len(s) + Len(t) : (s \o t)[i] = IF i <= Len(s) THEN s[i] ELSE t[i - Len(s)]
      /\ DOMAIN (s \o t) = 1 .. Len(s) + Len(t) /\ DOMAIN s = 1 .. Len(s) /\ DOMAIN t = 1 .. Len(t)
      /\ Len(s) \in Nat /\ Len(t) \in Nat
  OBVIOUS
<1>2. ASSUME NEW x \in Range(s \o t) PROVE x \in Range(s) \cup Range(t)
  <2>1. PICK i \in 1 .. Len(s) + Len(t) : x = (s \o t)[i]
    BY <1>1, <1>2 DEF Range
  <2>2. CASE i <= Len(s)
    BY <1>1, <2>1, <2>2 DEF Range
  <2>3. CASE ~(i <= Len(s))
    <3>1. i - Len(s) \in 1 .. Len(t)
      BY <1>1, <2>3
    <3> QED
      BY <1>1, <2>1, <2>3, <3>1 DEF Range
  <2> QED
    BY <2>2, <2>3
<1>3. ASSUME NEW x \in Range(s) PROVE x \in Range(s \o t)
  <2>1. PICK i \in 1 .. Len(s) : x = s[i]
    BY <1>1, <1>3 DEF Range
  <2>2. i \in 1 .. Len(s) + Len(t) /\ i <= Len(s)
    BY <1>1
  <2> QED
    BY <1>1, <2>1, <2>2 DEF Range
<1>4. ASSUME NEW x \in Range(t) PROVE x \in Range(s \o t)
  <2>1. PICK i \in 1 .. Len(t) : x = t[i]
    BY <1>1, <1>4 DEF Range
  <2>2. Len(s) + i \in 1 .. Len(s) + Len(t) /\ ~(Len(s) + i <= Len(s)) /\ (Len(s) + i) - Len(s) = i
    BY <1>1
  <2> QED
    BY <1>1, <2>1, <2>2 DEF Range
<1> QED
  BY <1>1, <1>2, <1>3, <1>4

LEMMA RangeAppend ==
    ASSUME NEW S, NEW s \in Seq(S), NEW e \in S
    PROVE  Append(s, e) \in Seq(S) /\ Range(Append(s, e)) = Range(s) \cup {e}
<1> DEFINE t == <<e>>
<1>1. t \in Seq(S) /\ Append(s, e) = s \o t /\ Range(t) = {e}
  BY DEF Range
<1> HIDE DEF t
<1> QED
  BY <1>1, RangeCat

LEMMA RangeTail ==
    ASSUME NEW S, NEW s \in Seq(S), s # <<>>
    PROVE  /\ Tail(s) \in Seq(S) /\ Head(s) \in Range(s)
           /\ Range(s) = {Head(s)} \cup Range(Tail(s))
<1> DEFINE h == <<Head(s)>>
           t == Tail(s)
<1>1. h \in Seq(S) /\ t \in Seq(S) /\ s = h \o t /\ Range(h) = {Head(s)}
  BY DEF Range
<1> HIDE DEF h, t
<1>2. Range(h \o t) = Range(h) \cup Range(t)
  BY <1>1, RangeCat
<1> QED
  BY <1>1, <1>2 DEF t

LEMMA RangeEmpty == Range(<<>>) = {} /\ \A S : <<>> \in Seq(S)
BY DEF Range

LEMMA RangeType ==
    ASSUME NEW S, NEW s \in Seq(S)
    PROVE  /\ Range(s) \subseteq S /\ Len(s) \in Nat /\ DOMAIN s = 1 .. Len(s)
           /\ \A i \in 1 .. Len(s) : s[i] \in Range(s)
BY DEF Range

LEMMA RangeSub ==
    ASSUME NEW S, NEW s \in Seq(S), NEW m \in 1 .. Len(s) + 1, NEW n \in 0 .. Len(s), n >= m - 1
    PROVE  /\ SubSeq(s, m, n) \in Seq(S) /\ Len(SubSeq(s, m, n)) = n - m + 1
           /\ \A j \in 1 .. n - m + 1 : SubSeq(s, m, n)[j] = s[m + j - 1]
           /\ Range(SubSeq(s, m, n)) \subseteq Range(s)
<1> DEFINE t == SubSeq(s, m, n)
<1>1. /\ t \in Seq(S) /\ Len(t) = n - m + 1
      /\ \A j \in 1 .. n - m + 1 : t[j] = s[m + j - 1]
      /\ Len(s) \in Nat
  OBVIOUS
<1> HIDE DEF t
<1>2. ASSUME NEW x \in Range(t) PROVE x \in Range(s)
  <2>1. PICK j \in 1 .. n - m + 1 : x = t[j]
    BY <1>1, <1>2 DEF Range
  <2>2. m + j - 1 \in 1 .. Len(s)
    BY <1>1
  <2> QED
    BY <1>1, <2>1, <2>2, RangeType
<1> QED
  BY <1>1, <1>2 DEF t

\* An element that is inserted moves the others by at most one place, upwards.
LEMMA Inserted ==
    ASSUME NEW S, NEW s \in Seq(S), NEW i \in 1 .. Len(s) + 1, NEW e \in S
    PROVE  /\ InsertAt(s, i, e) \in Seq(S) /\ Len(InsertAt(s, i, e)) = Len(s) + 1
           /\ Range(InsertAt(s, i, e)) \subseteq Range(s) \cup {e}
           /\ \A k \in 1 .. Len(s) : \E j \in {k, k + 1} : InsertAt(s, i, e)[j] = s[k]
<1> DEFINE a == SubSeq(s, 1, i - 1)
           b == SubSeq(s, i, Len(s))
           m == <<e>>
           c == a \o m
           t == c \o b
<1>1. Len(s) \in Nat /\ 1 \in 1 .. Len(s) + 1 /\ i - 1 \in 0 .. Len(s) /\ Len(s) \in 0 .. Len(s)
  OBVIOUS
<1>2. /\ a \in Seq(S) /\ Len(a) = i - 1
      /\ \A j \in 1 .. i - 1 : a[j] = s[j]
      /\ Range(a) \subseteq Range(s)
  BY <1>1, RangeSub
<1>3. /\ b \in Seq(S) /\ Len(b) = Len(s) - i + 1
      /\ \A j \in 1 .. Len(s) - i + 1 : b[j] = s[i + j - 1]
      /\ Range(b) \subseteq Range(s)
  BY <1>1, RangeSub
<1>4. m \in Seq(S) /\ Len(m) = 1 /\ Range(m) = {e}
  BY DEF Range
<1>5. InsertAt(s, i, e) = t
  BY DEF InsertAt
<1> HIDE DEF a, b, m
<1>6. c \in Seq(S) /\ Len(c) = i /\ Range(c) \subseteq Range(s) \cup {e}
      /\ \A j \in 1 .. i - 1 : c[j] = s[j]
  <2>1. c \in Seq(S) /\ Range(c) = Range(a) \cup Range(m)
    BY <1>2, <1>4, RangeCat
  <2>2. /\ Len(c) = Len(a) + Len(m)
        /\ \A j \in 1 .. Len(a) + Len(m) : c[j] = IF j <= Len(a) THEN a[j] ELSE m[j - Len(a)]
    BY <1>2, <1>4, RangeCat
  <2>3. Len(c) = i /\ \A j \in 1 .. i - 1 : c[j] = a[j]
    BY <1>1, <1>2, <1>4, <2>2
  <2> QED
    BY <1>2, <1>4, <2>1, <2>3
<1> HIDE DEF c
<1>7. t \in Seq(S) /\ Range(t) \subseteq Range(s) \cup {e}
  BY <1>3, <1>6, RangeCat
<1>8. /\ Len(t) = Len(s) + 1
      /\ \A j \in 1 .. Len(s) + 1 : t[j] = IF j <= i THEN c[j] ELSE b[j - i]
  <2>1. /\ Len(t) = Len(c) + Len(b)
        /\ \A j \in 1 .. Len(c) + Len(b) : t[j] = IF j <= Len(c) THEN c[j] ELSE b[j - Len(c)]
    BY <1>3, <1>6, RangeCat
  <2>2. Len(c) + Len(b) = Len(s) + 1
    BY <1>1, <1>3, <1>6
  <2> QED
    BY <1>6, <2>1, <2>2
<1> HIDE DEF t
<1>9. ASSUME NEW k \in 1 .. Len(s) PROVE \E j \in {k, k + 1} : t[j] = s[k]
  <2>1. CASE k < i
    <3>1. k \in 1 .. Len(s) + 1 /\ k <= i /\ k \in 1 .. i - 1
      BY <1>1, <2>1
    <3>2. t[k] = c[k] /\ c[k] = s[k]
      BY <1>6, <1>8, <3>1
    <3> QED
      BY <3>2
  <2>2. CASE ~(k < i)
    <3>1. /\ k + 1 \in 1 .. Len(s) + 1 /\ ~(k + 1 <= i) /\ k + 1 - i \in 1 .. Len(s) - i + 1
          /\ i + (k + 1 - i) - 1 = k
      BY <1>1, <2>2
    <3>2. t[k + 1] = b[k + 1 - i] /\ b[k + 1 - i] = s[i + (k + 1 - i) - 1]
      BY <1>3, <1>8, <3>1
    <3> QED
      BY <3>1, <3>2
  <2> QED
    BY <2>1, <2>2
<1> QED
  BY <1>5, <1>7, <1>8, <1>9

LEMMA Removed ==
    ASSUME NEW S, NEW s \in Seq(S), NEW i \in DOMAIN s
    PROVE  RemoveAt(s, i) \in Seq(S) /\ Range(RemoveAt(s, i)) \subseteq Range(s)
<1> DEFINE a == SubSeq(s, 1, i - 1)
           b == SubSeq(s, i + 1, Len(s))
<1>1. /\ Len(s) \in Nat /\ 1 \in 1 .. Len(s) + 1 /\ i - 1 \in 0 .. Len(s) /\ Len(s) \in 0 .. Len(s)
      /\ i + 1 \in 1 .. Len(s) + 1 /\ i \in Nat /\ i <= Len(s)
  OBVIOUS
<1>2. a \in Seq(S) /\ Range(a) \subseteq Range(s)
  BY <1>1, RangeSub
<1>3. b \in Seq(S) /\ Range(b) \subseteq Range(s)
  BY <1>1, RangeSub
<1>4. RemoveAt(s, i) = a \o b
  BY DEF RemoveAt
<1> HIDE DEF a, b
<1> QED
  BY <1>2, <1>3, <1>4, RangeCat

\* The rules a set of requests matches.
Hit(S, rule) == \E a \in S : MatchedBy(build_rule_message(a), rule)

\* Surviving leaves the rules that no request matches.
LEMMA SurvivingList ==
    ASSUME NEW R, NEW list \in Seq(R), NEW S
    PROVE  /\ Surviving(list, S) \in Seq(R)
           /\ Range(Surviving(list, S)) = {rule \in Range(list) : ~Hit(S, rule)}
<1> DEFINE N        == Len(list)
           next(t, n) == IF Hit(S, list[n]) THEN t ELSE Append(t, list[n])
           Eqn(f, m)  == f = [n \in 0 .. m |-> IF n = 0 THEN <<>> ELSE next(f[n - 1], n)]
           kept     == CHOOSE f : Eqn(f, N)
<1>1. N \in Nat /\ \A n \in 1 .. N : list[n] \in R
  OBVIOUS
<1>2. Surviving(list, S) = kept[N]
  BY DEF Surviving, Hit
<1>3. \A m \in Nat : \E f : Eqn(f, m)
  <2> DEFINE T == {m \in Nat : \E f : Eqn(f, m)}
  <2>1. 0 \in T
    <3>1. Eqn([n \in 0 .. 0 |-> <<>>], 0)
      OBVIOUS
    <3> QED
      BY <3>1
  <2>2. ASSUME NEW m \in T PROVE m + 1 \in T
    <3>1. PICK g : Eqn(g, m)
      BY <2>2
    <3> DEFINE f == [n \in 0 .. m + 1 |-> IF n <= m THEN g[n] ELSE next(g[m], m + 1)]
    <3>2. ASSUME NEW n \in 0 .. m + 1 PROVE f[n] = IF n = 0 THEN <<>> ELSE next(f[n - 1], n)
      <4>1. CASE n <= m
        <5>1. n \in 0 .. m /\ f[n] = g[n] /\ (n # 0 => n - 1 \in 0 .. m + 1 /\ f[n - 1] = g[n - 1])
          BY <4>1
        <5>2. g[n] = IF n = 0 THEN <<>> ELSE next(g[n - 1], n)
          BY <3>1, <5>1
        <5> HIDE DEF f, next
        <5> QED
          BY <5>1, <5>2
      <4>2. CASE n = m + 1
        <5>1. f[n] = next(g[m], n) /\ f[n - 1] = g[m] /\ n # 0
          BY <4>2
        <5> HIDE DEF f, next
        <5> QED
          BY <5>1
      <4> QED
        BY <4>1, <4>2
    <3>3. f = [n \in 0 .. m + 1 |-> f[n]]
      OBVIOUS
    <3> HIDE DEF f, next
    <3>4. Eqn(f, m + 1)
      BY <3>2, <3>3
    <3> QED
      BY <3>4
  <2> HIDE DEF T
  <2>3. T = Nat
    <3>1. T \in SUBSET Nat
      BY DEF T
    <3> QED
      BY <2>1, <2>2, <3>1, Induction
  <2> QED
    BY <2>3 DEF T
<1>4. Eqn(kept, N)
  <2> HIDE DEF Eqn
  <2>1. \E f : Eqn(f, N)
    BY <1>1, <1>3
  <2> QED
    BY <2>1
<1> HIDE DEF kept
<1>5. kept[0] = <<>> /\ \A n \in 1 .. N : kept[n] = next(kept[n - 1], n)
  <2> HIDE DEF next
  <2> QED
    BY <1>1, <1>4
<1> DEFINE Good(n) == /\ kept[n] \in Seq(R)
                      /\ Range(kept[n]) = {rule \in {list[i] : i \in 1 .. n} : ~Hit(S, rule)}
           T == {n \in Nat : n <= N => Good(n)}
<1>6. 0 \in T
  <2>1. {list[i] : i \in 1 .. 0} = {}
    OBVIOUS
  <2>2. kept[0] \in Seq(R) /\ Range(kept[0]) = {}
    BY <1>5, RangeEmpty
  <2>3. Good(0)
    BY <2>1, <2>2
  <2> HIDE DEF Good
  <2> QED
    BY <2>3
<1>7. ASSUME NEW n \in T PROVE n + 1 \in T
  <2> SUFFICES ASSUME n + 1 <= N PROVE Good(n + 1)
    BY <1>1
  <2>1. Good(n) /\ n + 1 \in 1 .. N /\ (n + 1) - 1 = n /\ n \in Nat
    BY <1>1, <1>7
  <2>2. kept[n + 1] = next(kept[n], n + 1) /\ list[n + 1] \in R
    BY <1>1, <1>5, <2>1
  <2>3. {list[i] : i \in 1 .. n + 1} = {list[i] : i \in 1 .. n} \cup {list[n + 1]}
    <3>1. \A i : i \in 1 .. n + 1 <=> i \in 1 .. n \/ i = n + 1
      BY <2>1
    <3> QED
      BY <3>1
  <2>4. CASE Hit(S, list[n + 1])
    BY <2>1, <2>2, <2>3, <2>4
  <2>5. CASE ~Hit(S, list[n + 1])
    <3>1. Append(kept[n], list[n + 1]) \in Seq(R)
          /\ Range(Append(kept[n], list[n + 1])) = Range(kept[n]) \cup {list[n + 1]}
      BY <2>1, <2>2, RangeAppend
    <3> QED
      BY <2>1, <2>2, <2>3, <2>5, <3>1
  <2> QED
    BY <2>4, <2>5
<1>8. N \in T
  <2> HIDE DEF T
  <2>1. T \in SUBSET Nat
    BY DEF T
  <2> QED
    BY <1>1, <1>6, <1>7, <2>1, Induction
<1>9. Good(N)
  BY <1>1, <1>8
<1>10. Range(list) = {list[i] : i \in 1 .. N}
  BY DEF Range
<1> QED
  BY <1>2, <1>9, <1>10

-----------------------------------------------------------------------------
(* The invariant.                                                           *)

Addr     == Addr4 \cup Addr6
Rules    == {OwnRule(a) : a \in Addr} \cup OtherRules
Messages == Rules \cup {DONE}

Types ==
    /\ pc \in {"tracked", "family", "recv", "msgs", "flush", "ok", "err"}
    /\ families \in {<<4, 6>>, <<6>>, <<4>>, <<>>}
    /\ rules \in [{4, 6} -> Seq(Rules)]
    /\ packet \in Seq(Messages) /\ ring \in Seq(Messages) /\ position \in Nat
    /\ done \in BOOLEAN /\ disturbed \in BOOLEAN /\ changes \in Nat
    /\ chunk_ops \subseteq Addr /\ tracked \subseteq Addr /\ owed \subseteq Addr

Dumping == pc \in {"recv", "msgs"}

\* The end of a dump is the last that comes of it, and the last chunk is the last of all.
Order ==
    /\ pc = "ok" => chunk_ops = {}
    /\ pc = "family" => ring = <<>>
    /\ Dumping => /\ families # <<>>
                  /\ packet # <<>> \/ position > 0 => ~done /\ DONE \notin Range(ring)
                  /\ DONE \in Range(packet) => position = 0

\* A rule that is still to be deleted.
Due(a) == a \in owed \ refused /\ OwnRule(a) \in Range(rules[Family(a)])

\* What was seen is deleted, or will be.
Seen == \A a \in seen : Due(a) => a \in chunk_ops

\* A batch that is applied in the middle of a dump takes the rest with it, and the end.
Lost == ~done /\ DONE \notin Range(ring) /\ packet = <<>> /\ position = 0

Ahead(rule, list) ==
    \/ rule \in Range(ring) \cup Range(packet)
    \/ position > 0 /\ \E i \in position .. Len(list) : list[i] = rule
    \/ Lost

\* Where the rule of an address will still come up.
ToCome(a) ==
    \/ a \in chunk_ops \/ pc = "err"
    \/ pc = "tracked" /\ a \in tracked
    \/ pc = "family" /\ Family(a) \in Range(families)
    \/ Dumping /\ \/ Family(a) \in Range(Tail(families))
                  \/ Family(a) = Head(families) /\ Ahead(OwnRule(a), rules[Family(a)])

Complete == ~disturbed => \A a \in owed : Due(a) => ToCome(a)

CleanInv == Types /\ Order /\ Seen /\ Complete

-----------------------------------------------------------------------------
\* Rules, requests and the end of a dump are told apart.
LEMMA RuleFacts ==
    /\ DONE \notin Rules /\ Rules \subseteq Messages /\ NoDst \notin Addr
    /\ \A a : Family(a) \in {4, 6}
    /\ \A a, b : OwnRule(a) = OwnRule(b) => a = b
    /\ \A a \in Addr : /\ OwnRule(a) \in Rules /\ parse_cleanup_rule_addr(OwnRule(a)) = a
                       /\ OwnRule(a) # DONE /\ a # NoDst
    /\ \A m \in Messages : parse_cleanup_rule_addr(m) # NoDst => parse_cleanup_rule_addr(m) \in Addr
<1> USE DEF OwnRule, DONE, RuleContext, parse_cleanup_rule_addr
<1>1. NoDst \notin Addr
  BY CleanupAssumption DEF Addr
<1>2. \A a : OwnRule(a).dst = a /\ OwnRule(a).pref = 1 /\ OwnRule(a).table = 1
  OBVIOUS
<1>3. \A r \in OtherRules : r.pref = 1 /\ (r.dst = NoDst \/ r.table = 2)
  BY DEF OtherRules
<1>4. DONE.pref = 0
  OBVIOUS
<1>5. DONE \notin Rules
  <2>1. \A r \in Rules : r.pref = 1
    BY <1>2, <1>3 DEF Rules
  <2> HIDE DEF DONE
  <2> QED
    BY <1>4, <2>1
<1>6. \A m \in Messages : parse_cleanup_rule_addr(m) # NoDst => parse_cleanup_rule_addr(m) \in Addr
  BY <1>2, <1>3, <1>4 DEF Messages, Rules
<1> QED
  BY <1>1, <1>2, <1>4, <1>5, <1>6 DEF Rules, Messages, Family

\* The requests of a set of addresses delete the rules of these addresses that the
\* kernel does not refuse to delete, and none of the rules of others.
LEMMA Deletes ==
    ASSUME Types, NEW S \in SUBSET Addr, kernel_deletes(S)
    PROVE  /\ rules' \in [{4, 6} -> Seq(Rules)]
           /\ \A f \in {4, 6} : Range(rules'[f]) \subseteq Range(rules[f])
           /\ \A a \in S \ refused : OwnRule(a) \notin Range(rules'[Family(a)])
           /\ \A f \in {4, 6}, r \in OtherRules : r \in Range(rules[f]) => r \in Range(rules'[f])
<1> DEFINE hits(f) == {a \in S \ refused : Family(a) = f}
<1>1. \A f \in {4, 6} : rules'[f] = Surviving(rules[f], hits(f))
  BY DEF kernel_deletes
<1>2. \A f \in {4, 6} : rules[f] \in Seq(Rules)
  BY DEF Types
<1> HIDE DEF hits
<1>3. \A f \in {4, 6} : /\ rules'[f] \in Seq(Rules)
                        /\ Range(rules'[f]) = {rule \in Range(rules[f]) : ~Hit(hits(f), rule)}
  BY <1>1, <1>2, SurvivingList
<1>4. rules' \in [{4, 6} -> Seq(Rules)]
  BY <1>3 DEF kernel_deletes
<1>5. ASSUME NEW a \in S \ refused PROVE OwnRule(a) \notin Range(rules'[Family(a)])
  <2>1. Family(a) \in {4, 6} /\ a \in hits(Family(a))
    BY RuleFacts DEF hits
  <2>2. Hit(hits(Family(a)), OwnRule(a))
    BY <2>1 DEF Hit, MatchedBy, build_rule_message
  <2> QED
    BY <1>3, <2>1, <2>2
<1>6. ASSUME NEW f \in {4, 6}, NEW r \in OtherRules PROVE ~Hit(hits(f), r)
  <2> SUFFICES ASSUME NEW a \in Addr, MatchedBy(OwnRule(a), r) PROVE FALSE
    BY DEF Hit, hits, build_rule_message
  <2>1. /\ DOMAIN OwnRule(a) = {"dst", "pref", "table"}
        /\ OwnRule(a)["dst"] = a /\ OwnRule(a)["table"] = 1
    BY DEF OwnRule, RuleContext
  <2>2. r["dst"] = a /\ r["table"] = 1
    BY <2>1 DEF MatchedBy
  <2>3. r.dst = NoDst \/ r.table = 2
    BY DEF OtherRules
  <2> QED
    BY <2>2, <2>3, RuleFacts
<1> QED
  BY <1>3, <1>4, <1>5, <1>6

\* Whatever lies ahead of the dump's position is in the next packet, or ahead of the
\* next position.
LEMMA FillAhead ==
    ASSUME Types, NEW f \in {4, 6}, NEW from \in Nat \ {0}, Fill(f, from)
    PROVE  /\ packet' \in Seq(Messages) /\ position' \in Nat
           /\ DONE \in Range(packet') => position' = 0
           /\ \A i \in from .. Len(rules[f]) :
                 rules[f][i] \in Range(packet') \/ (position' > 0 /\ i >= position')
<1> DEFINE list == rules[f]
           upto == Min({Len(list), from + PacketRules - 1})
           some == SubSeq(list, from, upto)
<1>1. list \in Seq(Rules) /\ Len(list) \in Nat /\ PacketRules \in Nat \ {0}
  BY CleanupAssumption DEF Types
<1>2. upto \in Int /\ upto <= Len(list) /\ upto >= 0
      /\ (upto = Len(list) \/ upto = from + PacketRules - 1)
  <2> DEFINE x == Len(list)
             y == from + PacketRules - 1
  <2>1. x \in Nat /\ y \in Nat
    BY <1>1
  <2> HIDE DEF x, y
  <2>2. \E m \in {x, y} : \A z \in {x, y} : m =< z
    BY <2>1
  <2>3. Min({x, y}) \in {x, y} /\ \A z \in {x, y} : Min({x, y}) =< z
    BY <2>2 DEF Min
  <2> QED
    BY <2>1, <2>3 DEF x, y
<1> HIDE DEF upto, list
<1>3. /\ some \in Seq(Rules)
      /\ \A i \in from .. upto : list[i] \in Range(some)
      /\ Range(some) \subseteq Rules
  <2>1. CASE from <= upto
    <3>1. /\ some \in Seq(Rules) /\ Len(some) = upto - from + 1
          /\ \A j \in 1 .. upto - from + 1 : some[j] = list[from + j - 1]
      BY <1>1, <1>2, <2>1
    <3>2. ASSUME NEW i \in from .. upto PROVE list[i] \in Range(some)
      <4>1. i - from + 1 \in 1 .. Len(some) /\ from + (i - from + 1) - 1 = i
        BY <1>2, <2>1, <3>1
      <4>2. some[i - from + 1] = list[i]
        BY <3>1, <4>1
      <4> HIDE DEF some
      <4> QED
        BY <3>1, <4>1, <4>2, RangeType
    <3> HIDE DEF some
    <3> QED
      BY <3>1, <3>2, RangeType
  <2>2. CASE ~(from <= upto)
    <3>1. some = <<>> /\ ~\E i : i \in from .. upto
      BY <1>1, <1>2, <2>2
    <3> QED
      BY <3>1, RangeEmpty
  <2> QED
    BY <2>1, <2>2
<1>4. some \in Seq(Messages) /\ DONE \in Messages /\ DONE \notin Range(some)
  BY <1>3, RuleFacts DEF Messages
<1>5. \/ packet' = some /\ position' = upto + 1
      \/ upto = Len(list) /\ packet' = Append(some, DONE) /\ position' = 0
  BY DEF Fill, upto, list
<1> HIDE DEF some
<1>6. CASE packet' = some /\ position' = upto + 1
  BY <1>1, <1>2, <1>3, <1>4, <1>6 DEF list
<1>7. CASE upto = Len(list) /\ packet' = Append(some, DONE) /\ position' = 0
  <2>1. packet' \in Seq(Messages) /\ Range(packet') = Range(some) \cup {DONE}
    BY <1>4, <1>7, RangeAppend
  <2> QED
    BY <1>3, <1>7, <2>1 DEF list
<1> QED
  BY <1>5, <1>6, <1>7

-----------------------------------------------------------------------------
(* The steps.                                                               *)

\* A step that only deletes rules makes nothing due.
LEMMA DueShrinks ==
    ASSUME NEW a, Due(a)', owed' = owed, refused' = refused,
           \A f \in {4, 6} : Range(rules'[f]) \subseteq Range(rules[f])
    PROVE  Due(a)
BY RuleFacts DEF Due

\* push_target: the chunk grows, or it is deleted and the rest of the dump with it.
LEMMA Pushed ==
    ASSUME Types, NEW addr \in Addr, push_target(addr), owed' = owed, refused' = refused
    PROVE  /\ rules' \in [{4, 6} -> Seq(Rules)] /\ chunk_ops' \subseteq Addr
           /\ \A f \in {4, 6} : Range(rules'[f]) \subseteq Range(rules[f])
           /\ \A a \in chunk_ops \cup {addr} : Due(a)' => a \in chunk_ops'
           /\ \/ UNCHANGED <<rules, packet, position>>
              \/ packet' = <<>> /\ position' = 0
<1> DEFINE chunk == chunk_ops \cup {addr}
<1>1. chunk \in SUBSET Addr
  BY DEF Types
<1>2. \/ chunk_ops' = chunk /\ UNCHANGED <<rules, packet, position>>
      \/ chunk_ops' = {} /\ kernel_deletes(chunk) /\ packet' = <<>> /\ position' = 0
  BY DEF push_target, apply_batch_blocking
<1> HIDE DEF chunk
<1>3. CASE chunk_ops' = chunk /\ UNCHANGED <<rules, packet, position>>
  BY <1>1, <1>3 DEF Types, chunk
<1>4. CASE chunk_ops' = {} /\ kernel_deletes(chunk) /\ packet' = <<>> /\ position' = 0
  <2>1. /\ rules' \in [{4, 6} -> Seq(Rules)]
        /\ \A f \in {4, 6} : Range(rules'[f]) \subseteq Range(rules[f])
        /\ \A a \in chunk \ refused : OwnRule(a) \notin Range(rules'[Family(a)])
    BY <1>1, <1>4, Deletes
  <2>2. \A a \in chunk : ~Due(a)'
    <3> SUFFICES ASSUME NEW a \in chunk, Due(a)' PROVE FALSE
      OBVIOUS
    <3>1. a \notin refused /\ OwnRule(a) \in Range(rules'[Family(a)])
      BY DEF Due, OwnRule, Family
    <3> QED
      BY <2>1, <3>1
  <2> QED
    BY <1>4, <2>1, <2>2 DEF chunk
<1> QED
  BY <1>2, <1>3, <1>4

LEMMA TrackedStep == ASSUME CleanInv, push_tracked PROVE CleanInv'
<1>1. /\ pc = "tracked" /\ UNCHANGED <<families, ring, done, refused, changes, owed, disturbed, seen>>
  BY DEF push_tracked
<1>2. CASE \E a \in tracked : push_target(a) /\ tracked' = tracked \ {a} /\ UNCHANGED pc
  <2>1. PICK a \in tracked : push_target(a) /\ tracked' = tracked \ {a} /\ UNCHANGED pc
    BY <1>2
  <2>2. a \in Addr
    BY DEF CleanInv, Types
  <2>3. /\ rules' \in [{4, 6} -> Seq(Rules)] /\ chunk_ops' \subseteq Addr
        /\ \A f \in {4, 6} : Range(rules'[f]) \subseteq Range(rules[f])
        /\ \A b \in chunk_ops \cup {a} : Due(b)' => b \in chunk_ops'
        /\ \/ UNCHANGED <<rules, packet, position>>
           \/ packet' = <<>> /\ position' = 0
    BY <1>1, <2>1, <2>2, Pushed DEF CleanInv
  <2>4. Types'
    <3>1. packet' \in Seq(Messages) /\ position' \in Nat
      <4>1. CASE UNCHANGED <<rules, packet, position>>
        BY <4>1 DEF CleanInv, Types
      <4>2. CASE packet' = <<>> /\ position' = 0
        BY <4>2, RangeEmpty
      <4> QED
        BY <2>3, <4>1, <4>2
    <3>2. tracked' \subseteq Addr
      BY <2>1 DEF CleanInv, Types
    <3> QED
      BY <1>1, <2>1, <2>3, <3>1, <3>2 DEF CleanInv, Types
  <2>5. Order'
    BY <1>1, <2>1 DEF Order, Dumping
  <2>6. \A b : Due(b)' => Due(b)
    BY <1>1, <2>3, DueShrinks
  <2>7. Seen'
    BY <1>1, <2>3, <2>6 DEF CleanInv, Seen
  <2>8. Complete'
    <3> SUFFICES ASSUME ~disturbed, NEW b \in owed, Due(b)' PROVE ToCome(b)'
      BY <1>1 DEF Complete
    <3>1. b \in chunk_ops \/ b \in tracked
      BY <1>1, <2>6 DEF CleanInv, Complete, ToCome, Dumping
    <3> QED
      BY <1>1, <2>1, <2>3, <3>1 DEF ToCome
  <2> QED
    BY <2>4, <2>5, <2>7, <2>8 DEF CleanInv
<1>3. CASE /\ tracked = {} /\ pc' = "flush"
           /\ UNCHANGED <<tracked, chunk_ops, rules, packet, position>>
  <2>1. Types' /\ Order'
    BY <1>1, <1>3 DEF CleanInv, Types, Order, Dumping
  <2>2. \A b : Due(b)' <=> Due(b)
    BY <1>1, <1>3 DEF Due
  <2>3. Seen' /\ Complete'
    BY <1>1, <1>3, <2>2 DEF CleanInv, Seen, Complete, ToCome, Dumping
  <2> QED
    BY <2>1, <2>3 DEF CleanInv
<1> QED
  BY <1>2, <1>3 DEF push_tracked

LEMMA FlushStep == ASSUME CleanInv, flush_chunk PROVE CleanInv'
<1>1. /\ pc = "flush" /\ pc' = "ok" /\ chunk_ops' = {}
      /\ UNCHANGED <<families, tracked, ring, done, refused, changes, owed, disturbed, seen>>
  BY DEF flush_chunk
<1>2. /\ rules' \in [{4, 6} -> Seq(Rules)] /\ packet' \in Seq(Messages) /\ position' \in Nat
      /\ \A f \in {4, 6} : Range(rules'[f]) \subseteq Range(rules[f])
      /\ \A a \in chunk_ops : ~Due(a)'
  <2>1. CASE chunk_ops = {} /\ UNCHANGED <<rules, packet, position>>
    BY <2>1 DEF CleanInv, Types
  <2>2. CASE kernel_deletes(chunk_ops) /\ packet' = <<>> /\ position' = 0
    <3>1. /\ rules' \in [{4, 6} -> Seq(Rules)]
          /\ \A f \in {4, 6} : Range(rules'[f]) \subseteq Range(rules[f])
          /\ \A a \in chunk_ops \ refused : OwnRule(a) \notin Range(rules'[Family(a)])
      BY <2>2, Deletes DEF CleanInv, Types
    <3>2. \A a \in chunk_ops : ~Due(a)'
      <4> SUFFICES ASSUME NEW a \in chunk_ops, Due(a)' PROVE FALSE
        OBVIOUS
      <4>1. a \notin refused /\ OwnRule(a) \in Range(rules'[Family(a)])
        BY <1>1 DEF Due, OwnRule, Family
      <4> QED
        BY <3>1, <4>1
    <3> QED
      BY <2>2, <3>1, <3>2, RangeEmpty
  <2> QED
    BY <2>1, <2>2 DEF flush_chunk, apply_batch_blocking
<1>3. \A b : Due(b)' => Due(b)
  BY <1>1, <1>2, DueShrinks
<1>4. ~disturbed => \A b \in owed : ~Due(b)'
  BY <1>1, <1>2, <1>3 DEF CleanInv, Complete, ToCome, Dumping
<1>5. Types'
  BY <1>1, <1>2 DEF CleanInv, Types
<1>6. Order' /\ Complete'
  BY <1>1, <1>4 DEF Order, Dumping, Complete
<1>7. Seen'
  BY <1>1, <1>2, <1>3 DEF CleanInv, Seen
<1> QED
  BY <1>5, <1>6, <1>7 DEF CleanInv

LEMMA FamilyFacts ==
    ASSUME Types, families # <<>>
    PROVE  /\ Head(families) \in {4, 6} /\ Tail(families) \in {<<4, 6>>, <<6>>, <<4>>, <<>>}
           /\ Range(families) = {Head(families)} \cup Range(Tail(families))
<1> DEFINE F == {4, 6}
<1>1. 4 \in F /\ 6 \in F
  OBVIOUS
<1> HIDE DEF F
<1>2. CASE families = <<4, 6>>
  <2>1. families \in Seq(F) /\ Head(families) = 4 /\ Tail(families) = <<6>>
    BY <1>1, <1>2
  <2> QED
    BY <2>1, RangeTail
<1>3. CASE families = <<6>>
  <2>1. families \in Seq(F) /\ Head(families) = 6 /\ Tail(families) = <<>>
    BY <1>1, <1>3
  <2> QED
    BY <2>1, RangeTail
<1>4. CASE families = <<4>>
  <2>1. families \in Seq(F) /\ Head(families) = 4 /\ Tail(families) = <<>>
    BY <1>1, <1>4
  <2> QED
    BY <2>1, RangeTail
<1> QED
  BY <1>2, <1>3, <1>4 DEF Types

\* A rule that is there has a place.
LEMMA Placed ==
    ASSUME Types, NEW f \in {4, 6}, NEW r \in Range(rules[f])
    PROVE  \E i \in 1 .. Len(rules[f]) : rules[f][i] = r
<1>1. rules[f] \in Seq(Rules)
  BY DEF Types
<1> QED
  BY <1>1, RangeType DEF Range

LEMMA FamilyStep == ASSUME CleanInv, start_family PROVE CleanInv'
<1> USE DEF CleanInv
<1>1. /\ pc = "family"
      /\ UNCHANGED <<families, tracked, chunk_ops, ring, rules, refused, changes, owed, disturbed>>
  BY DEF start_family
<1>2. ring = <<>> /\ \A b : Due(b)' <=> Due(b)
  BY <1>1 DEF Order, Due
<1>3. CASE families = <<>> /\ pc' = "flush" /\ UNCHANGED <<packet, position, seen, done>>
  <2>1. Types'
    BY <1>1, <1>3 DEF Types
  <2>2. Order' /\ Seen'
    BY <1>1, <1>2, <1>3 DEF Order, Dumping, Seen
  <2>3. Complete'
    BY <1>1, <1>2, <1>3, RangeEmpty DEF Complete, ToCome, Dumping
  <2> QED
    BY <2>1, <2>2, <2>3
<1>4. CASE families # <<>> /\ pc' = "recv" /\ Fill(Head(families), 1) /\ seen' = {} /\ done' = FALSE
  <2> DEFINE f == Head(families)
  <2>1. f \in {4, 6} /\ Range(families) = {f} \cup Range(Tail(families))
    BY <1>4, FamilyFacts
  <2> HIDE DEF f
  <2>2. /\ packet' \in Seq(Messages) /\ position' \in Nat
        /\ DONE \in Range(packet') => position' = 0
        /\ \A i \in 1 .. Len(rules[f]) :
              rules[f][i] \in Range(packet') \/ (position' > 0 /\ i >= position')
    BY <1>4, <2>1, FillAhead DEF f
  <2>3. Types'
    BY <1>1, <1>4, <2>2 DEF Types
  <2>4. Order' /\ Seen'
    BY <1>1, <1>2, <1>4, <2>2, RangeEmpty DEF Order, Dumping, Seen
  <2>5. ASSUME NEW b \in owed, Due(b), Family(b) = f PROVE Ahead(OwnRule(b), rules[f])'
    <3>1. OwnRule(b) \in Range(rules[f])
      BY <2>5 DEF Due
    <3>2. PICK i \in 1 .. Len(rules[f]) : rules[f][i] = OwnRule(b)
      BY <2>1, <3>1, Placed
    <3>3. Len(rules[f]) \in Nat
      BY <2>1 DEF Types
    <3>4. OwnRule(b) \in Range(packet') \/ (position' > 0 /\ i \in position' .. Len(rules[f]))
      BY <2>2, <3>2, <3>3
    <3>5. f' = f /\ OwnRule(b)' = OwnRule(b)
      BY <1>1 DEF f, OwnRule
    <3> QED
      BY <1>1, <3>2, <3>4, <3>5 DEF Ahead
  <2>6. Complete'
    <3> SUFFICES ASSUME ~disturbed, NEW b \in owed, Due(b) PROVE ToCome(b)'
      BY <1>1, <1>2 DEF Complete
    <3>1. b \in chunk_ops \/ Family(b) \in Range(families)
      BY <1>1 DEF Complete, ToCome, Dumping
    <3>2. CASE b \in chunk_ops
      BY <1>1, <3>2 DEF ToCome
    <3>3. CASE Family(b) \in Range(Tail(families))
      BY <1>1, <1>4, <3>3 DEF ToCome, Dumping
    <3>4. CASE Family(b) = f
      <4>1. Ahead(OwnRule(b), rules[Family(b)])'
        BY <1>1, <2>5, <3>4 DEF f
      <4> QED
        BY <1>1, <1>4, <3>4, <4>1 DEF ToCome, Dumping, f
    <3> QED
      BY <2>1, <3>1, <3>2, <3>3, <3>4
  <2> QED
    BY <2>3, <2>4, <2>6
<1> QED
  BY <1>3, <1>4 DEF start_family

LEMMA PacketStep == ASSUME CleanInv, recv_packet PROVE CleanInv'
<1> USE DEF CleanInv
<1> DEFINE f == Head(families)
<1>1. /\ pc = "recv" /\ packet # <<>> /\ ring' = ring \o packet
      /\ UNCHANGED <<pc, families, tracked, chunk_ops, seen, done, rules, refused, changes, owed,
                     disturbed>>
  BY DEF recv_packet
<1>2. ring' \in Seq(Messages) /\ Range(ring') = Range(ring) \cup Range(packet)
  BY <1>1, RangeCat DEF Types
<1>3. /\ families # <<>> /\ ~done /\ DONE \notin Range(ring)
      /\ DONE \in Range(packet) => position = 0
  BY <1>1 DEF Order, Dumping
<1>4. f \in {4, 6}
  BY <1>3, FamilyFacts
<1>5. \A b : Due(b)' <=> Due(b)
  BY <1>1 DEF Due
<1>6. /\ packet' \in Seq(Messages) /\ position' \in Nat
      /\ DONE \in Range(packet') => position' = 0
      /\ packet' # <<>> \/ position' > 0 => DONE \notin Range(ring')
      /\ \A i \in position .. Len(rules[f]) : position > 0 =>
            rules[f][i] \in Range(packet') \/ (position' > 0 /\ i >= position')
  <2> HIDE DEF f
  <2>1. CASE position = 0 /\ packet' = <<>> /\ UNCHANGED position
    BY <2>1, RangeEmpty
  <2>2. CASE position # 0 /\ Fill(f, position)
    <3>1. position \in Nat \ {0}
      BY <2>2 DEF Types
    <3> QED
      BY <1>2, <1>3, <1>4, <2>2, <3>1, FillAhead
  <2> QED
    BY <2>1, <2>2 DEF recv_packet, f
<1>7. Types'
  BY <1>1, <1>2, <1>6 DEF Types
<1>8. Order'
  BY <1>1, <1>3, <1>6 DEF Order, Dumping
<1>9. Seen'
  BY <1>1, <1>5 DEF Seen
<1>10. Complete'
  <2> SUFFICES ASSUME ~disturbed, NEW b \in owed, Due(b) PROVE ToCome(b)'
    BY <1>1, <1>5 DEF Complete
  <2>1. \/ b \in chunk_ops
        \/ Family(b) \in Range(Tail(families))
        \/ Family(b) = f /\ Ahead(OwnRule(b), rules[Family(b)])
    BY <1>1 DEF Complete, ToCome, Dumping
  <2> HIDE DEF f
  <2>2. CASE Family(b) = f /\ Ahead(OwnRule(b), rules[Family(b)])
    <3>1. Len(rules[f]) \in Nat /\ position \in Nat
      BY <1>4 DEF Types
    <3>2. \/ OwnRule(b) \in Range(ring) \cup Range(packet)
          \/ position > 0 /\ \E i \in position .. Len(rules[f]) : rules[f][i] = OwnRule(b)
      BY <1>1, <2>2 DEF Ahead, Lost
    <3>3. \/ OwnRule(b) \in Range(ring') \cup Range(packet')
          \/ position' > 0 /\ \E i \in position' .. Len(rules[f]) : rules[f][i] = OwnRule(b)
      BY <1>2, <1>6, <3>1, <3>2
    <3>4. Ahead(OwnRule(b), rules[Family(b)])'
      BY <1>1, <2>2, <3>3 DEF Ahead, f, OwnRule
    <3> QED
      BY <1>1, <2>2, <3>4 DEF ToCome, Dumping, f
  <2> QED
    BY <1>1, <2>1, <2>2 DEF ToCome, Dumping
<1> QED
  BY <1>7, <1>8, <1>9, <1>10

\* recv_many returns, and the ways to give up.
LEMMA ReturnStep ==
    ASSUME CleanInv, recv_many_returns \/ dump_wait_timeout \/ fails PROVE CleanInv'
<1> USE DEF CleanInv
<1>1. /\ UNCHANGED <<families, tracked, chunk_ops, seen, ring, done, rules, packet, position,
                     refused, changes, owed, disturbed>>
      /\ (pc = "recv" /\ pc' = "msgs") \/ pc' = "err"
  BY DEF recv_many_returns, dump_wait_timeout, fails, kernel
<1>2. \A b : Due(b)' <=> Due(b)
  BY <1>1 DEF Due
<1>3. Types'
  BY <1>1 DEF Types
<1>4. Order'
  BY <1>1 DEF Order, Dumping
<1>5. Seen'
  BY <1>1, <1>2 DEF Seen
<1>6. Complete'
  <2> SUFFICES ASSUME ~disturbed, NEW b \in owed, Due(b) PROVE ToCome(b)'
    BY <1>1, <1>2 DEF Complete
  <2>1. ToCome(b)
    BY DEF Complete
  <2>2. Ahead(OwnRule(b), rules[Family(b)])' <=> Ahead(OwnRule(b), rules[Family(b)])
    BY <1>1 DEF Ahead, Lost, OwnRule
  <2> QED
    BY <1>1, <2>1, <2>2 DEF ToCome, Dumping
<1> QED
  BY <1>3, <1>4, <1>5, <1>6

LEMMA MessageStep == ASSUME CleanInv, on_msg PROVE CleanInv'
<1> USE DEF CleanInv
<1> DEFINE m == Head(ring)
           addr == parse_cleanup_rule_addr(m)
<1>1. /\ pc = "msgs" /\ ring # <<>> /\ ring' = Tail(ring)
      /\ UNCHANGED <<pc, families, tracked, refused, changes, owed, disturbed>>
  BY DEF on_msg
<1>2. /\ ring' \in Seq(Messages) /\ Range(ring) = {m} \cup Range(ring')
      /\ m \in Messages
  <2>1. ring \in Seq(Messages)
    BY DEF Types
  <2> QED
    BY <1>1, <2>1, RangeTail, RangeType
<1>3. /\ \A b \in Addr : OwnRule(b) = m => b = addr /\ m # DONE /\ addr # NoDst
      /\ addr # NoDst => addr \in Addr
  BY <1>2, RuleFacts
<1>4. \/ /\ m # DONE /\ addr # NoDst /\ addr \notin seen
         /\ seen' = seen \cup {addr} /\ push_target(addr) /\ UNCHANGED done
      \/ /\ m = DONE \/ addr = NoDst \/ addr \in seen
         /\ done' = (done \/ m = DONE) /\ UNCHANGED <<seen, chunk_ops, rules, packet, position>>
  BY DEF on_msg
<1>5. \A b \in owed : b \in Addr
  BY DEF Types
<1> HIDE DEF m, addr
<1>6. CASE /\ m # DONE /\ addr # NoDst /\ addr \notin seen
           /\ seen' = seen \cup {addr} /\ push_target(addr) /\ UNCHANGED done
  <2>1. /\ rules' \in [{4, 6} -> Seq(Rules)] /\ chunk_ops' \subseteq Addr
        /\ \A f \in {4, 6} : Range(rules'[f]) \subseteq Range(rules[f])
        /\ \A b \in chunk_ops \cup {addr} : Due(b)' => b \in chunk_ops'
        /\ \/ UNCHANGED <<rules, packet, position>>
           \/ packet' = <<>> /\ position' = 0
    BY <1>1, <1>3, <1>6, Pushed
  <2>2. packet' \in Seq(Messages) /\ position' \in Nat
    <3>1. CASE UNCHANGED <<rules, packet, position>>
      BY <3>1 DEF Types
    <3>2. CASE packet' = <<>> /\ position' = 0
      BY <3>2, RangeEmpty
    <3> QED
      BY <2>1, <3>1, <3>2
  <2>3. Types'
    BY <1>1, <1>2, <1>6, <2>1, <2>2 DEF Types
  <2>4. Order'
    <3>1. CASE UNCHANGED <<rules, packet, position>>
      BY <1>1, <1>2, <1>6, <3>1 DEF Order, Dumping
    <3>2. CASE packet' = <<>> /\ position' = 0
      BY <1>1, <1>6, <3>2 DEF Order, Dumping
    <3> QED
      BY <2>1, <3>1, <3>2
  <2>5. \A b : Due(b)' => Due(b)
    BY <1>1, <2>1, DueShrinks
  <2>6. Seen'
    BY <1>6, <2>1, <2>5 DEF Seen
  <2>7. Complete'
    <3> SUFFICES ASSUME ~disturbed, NEW b \in owed, Due(b)' PROVE ToCome(b)'
      BY <1>1 DEF Complete
    <3>1. \/ b \in chunk_ops
          \/ Family(b) \in Range(Tail(families))
          \/ Family(b) = Head(families) /\ Ahead(OwnRule(b), rules[Family(b)])
      BY <1>1, <2>5 DEF Complete, ToCome, Dumping
    <3>2. CASE b \in chunk_ops \/ OwnRule(b) = m
      <4>1. b \in chunk_ops'
        BY <1>3, <1>5, <2>1, <3>2
      <4> QED
        BY <4>1 DEF ToCome
    <3>3. CASE Family(b) \in Range(Tail(families))
      BY <1>1, <3>3 DEF ToCome, Dumping
    <3>4. CASE Family(b) = Head(families) /\ Ahead(OwnRule(b), rules[Family(b)]) /\ OwnRule(b) # m
      <4>1. Ahead(OwnRule(b), rules[Family(b)])'
        <5>1. OwnRule(b)' = OwnRule(b) /\ Family(b)' = Family(b)
          BY DEF OwnRule, Family
        <5>2. CASE OwnRule(b) \in Range(ring)
          BY <1>2, <3>4, <5>1, <5>2 DEF Ahead
        <5>3. CASE Lost
          <6>1. Lost'
            BY <1>2, <1>6, <2>1, <5>3 DEF Lost
          <6> QED
            BY <6>1 DEF Ahead
        <5>4. CASE OwnRule(b) \in Range(packet) \/ position > 0
          <6>1. ~done /\ DONE \notin Range(ring)
            BY <1>1, <5>4, RangeEmpty DEF Order, Dumping
          <6>2. CASE UNCHANGED <<rules, packet, position>>
            BY <3>4, <1>2, <5>1, <6>2, <6>1, <1>6 DEF Ahead, Lost
          <6>3. CASE packet' = <<>> /\ position' = 0
            BY <1>2, <1>6, <6>1, <6>3 DEF Ahead, Lost
          <6> QED
            BY <2>1, <6>2, <6>3
        <5> QED
          BY <3>4, <5>2, <5>3, <5>4 DEF Ahead
      <4> QED
        BY <1>1, <3>4, <4>1 DEF ToCome, Dumping
    <3> QED
      BY <3>1, <3>2, <3>3, <3>4
  <2> QED
    BY <2>3, <2>4, <2>6, <2>7
<1>7. CASE /\ m = DONE \/ addr = NoDst \/ addr \in seen
           /\ done' = (done \/ m = DONE) /\ UNCHANGED <<seen, chunk_ops, rules, packet, position>>
  <2>1. done' \in BOOLEAN
    BY <1>7
  <2>2. Types'
    BY <1>1, <1>2, <1>7, <2>1 DEF Types
  <2>3. Order'
    BY <1>1, <1>2, <1>7 DEF Order, Dumping
  <2>4. \A b : Due(b)' <=> Due(b)
    BY <1>1, <1>7 DEF Due
  <2>5. Seen'
    BY <1>7, <2>4 DEF Seen
  <2>6. Complete'
    <3> SUFFICES ASSUME ~disturbed, NEW b \in owed, Due(b) PROVE ToCome(b)'
      BY <1>1, <2>4 DEF Complete
    <3>1. \/ b \in chunk_ops
          \/ Family(b) \in Range(Tail(families))
          \/ Family(b) = Head(families) /\ Ahead(OwnRule(b), rules[Family(b)])
      BY <1>1 DEF Complete, ToCome, Dumping
    <3>2. CASE b \in chunk_ops \/ OwnRule(b) = m
      <4>1. b \in chunk_ops
        BY <1>3, <1>5, <1>7, <3>2 DEF Seen
      <4> QED
        BY <1>7, <4>1 DEF ToCome
    <3>3. CASE Family(b) \in Range(Tail(families))
      BY <1>1, <3>3 DEF ToCome, Dumping
    <3>4. CASE Family(b) = Head(families) /\ Ahead(OwnRule(b), rules[Family(b)]) /\ OwnRule(b) # m
      <4>1. Lost => Lost'
        BY <1>2, <1>7 DEF Lost
      <4>2. Ahead(OwnRule(b), rules[Family(b)])'
        BY <1>2, <1>7, <3>4, <4>1 DEF Ahead, OwnRule
      <4> QED
        BY <1>1, <3>4, <4>2 DEF ToCome, Dumping
    <3> QED
      BY <3>1, <3>2, <3>3, <3>4
  <2> QED
    BY <2>2, <2>3, <2>5, <2>6
<1> QED
  BY <1>4, <1>6, <1>7

LEMMA StepReturns == ASSUME CleanInv, recv_step_returns PROVE CleanInv'
<1> USE DEF CleanInv
<1>1. /\ pc = "msgs" /\ ring = <<>>
      /\ UNCHANGED <<tracked, chunk_ops, seen, ring, done, rules, packet, position, refused, changes,
                     owed, disturbed>>
      /\ \/ done /\ pc' = "family" /\ families' = Tail(families)
         \/ ~done /\ pc' = "recv" /\ UNCHANGED families
  BY DEF recv_step_returns, kernel
<1>2. \A b : Due(b)' <=> Due(b)
  BY <1>1 DEF Due
<1>3. families # <<>>
  BY <1>1 DEF Order, Dumping
<1>4. families' \in {<<4, 6>>, <<6>>, <<4>>, <<>>}
  BY <1>1, <1>3, FamilyFacts DEF Types
<1>5. Types'
  BY <1>1, <1>4 DEF Types
<1>6. Order'
  BY <1>1 DEF Order, Dumping
<1>7. Seen'
  BY <1>1, <1>2 DEF Seen
<1>8. Complete'
  <2> SUFFICES ASSUME ~disturbed, NEW b \in owed, Due(b) PROVE ToCome(b)'
    BY <1>1, <1>2 DEF Complete
  <2>1. \/ b \in chunk_ops
        \/ Family(b) \in Range(Tail(families))
        \/ Family(b) = Head(families) /\ Ahead(OwnRule(b), rules[Family(b)])
    BY <1>1 DEF Complete, ToCome, Dumping
  <2>2. CASE done
    <3>1. packet = <<>> /\ ~(position > 0)
      BY <1>1, <2>2 DEF Order, Dumping
    <3>2. ~Ahead(OwnRule(b), rules[Family(b)])
      BY <1>1, <2>2, <3>1, RangeEmpty DEF Ahead, Lost
    <3> QED
      BY <1>1, <2>1, <2>2, <3>2 DEF ToCome
  <2>3. CASE ~done
    <3>1. Ahead(OwnRule(b), rules[Family(b)]) => Ahead(OwnRule(b), rules[Family(b)])'
      BY <1>1 DEF Ahead, Lost, OwnRule
    <3> QED
      BY <1>1, <2>1, <2>3, <3>1 DEF ToCome, Dumping
  <2> QED
    BY <2>2, <2>3
<1> QED
  BY <1>5, <1>6, <1>7, <1>8

LEMMA AddStep == ASSUME CleanInv, OthersAdd PROVE CleanInv' /\ changes' # changes
<1> USE DEF CleanInv
<1>1. /\ changes' = changes + 1
      /\ UNCHANGED <<pc, families, tracked, chunk_ops, seen, ring, done, packet, position, refused,
                     disturbed>>
  BY DEF OthersAdd
<1>2. PICK a \in Addr4, i \in 1 .. Len(rules[4]) + 1 :
          /\ rules' = [rules EXCEPT ![4] = InsertAt(@, i, OwnRule(a))]
          /\ owed' = owed \ {a}
  BY DEF OthersAdd
<1> DEFINE list == rules[4]
           new  == InsertAt(list, i, OwnRule(a))
<1>3. list \in Seq(Rules) /\ OwnRule(a) \in Rules /\ Len(list) \in Nat
  BY RuleFacts DEF Types, Addr
<1>4. rules'[4] = new /\ rules'[6] = rules[6] /\ rules' = [rules EXCEPT ![4] = new]
  BY <1>2 DEF Types
<1> HIDE DEF list
<1>5. /\ new \in Seq(Rules) /\ Len(new) = Len(list) + 1
      /\ Range(new) \subseteq Range(list) \cup {OwnRule(a)}
      /\ \A k \in 1 .. Len(list) : \E j \in {k, k + 1} : new[j] = list[k]
  <2>1. i \in 1 .. Len(list) + 1
    BY DEF list
  <2> QED
    BY <1>3, <2>1, Inserted
<1> HIDE DEF new
<1>6. Types'
  <2>1. rules' \in [{4, 6} -> Seq(Rules)]
    BY <1>4, <1>5 DEF Types
  <2> QED
    BY <1>1, <1>2, <2>1 DEF Types
<1>7. Order'
  BY <1>1 DEF Order, Dumping
<1>8. ASSUME NEW b, Due(b)' PROVE Due(b) /\ b \in owed'
  <2>1. b \in owed /\ b # a /\ b \notin refused /\ OwnRule(b) \in Range(rules'[Family(b)])
        /\ OwnRule(b) # OwnRule(a) /\ Family(b) \in {4, 6}
    BY <1>1, <1>2, <1>8, RuleFacts DEF Due, OwnRule, Family
  <2>2. OwnRule(b) \in Range(rules[Family(b)])
    BY <1>4, <1>5, <2>1 DEF list
  <2> QED
    BY <1>2, <2>1, <2>2 DEF Due
<1>9. Seen'
  BY <1>1, <1>8 DEF Seen
<1>10. Complete'
  <2> SUFFICES ASSUME ~disturbed, NEW b \in owed, Due(b) PROVE ToCome(b)'
    BY <1>1, <1>2, <1>8 DEF Complete
  <2>1. ToCome(b)
    BY DEF Complete
  <2>2. ASSUME Ahead(OwnRule(b), rules[Family(b)]) PROVE Ahead(OwnRule(b), rules[Family(b)])'
    <3>1. Family(b) \in {4, 6} /\ OwnRule(b)' = OwnRule(b) /\ Family(b)' = Family(b)
      BY RuleFacts DEF OwnRule, Family
    <3>2. CASE OwnRule(b) \in Range(ring) \cup Range(packet) \/ Lost
      BY <1>1, <3>1, <3>2 DEF Ahead, Lost
    <3>3. CASE Family(b) = 6
      BY <1>1, <1>4, <2>2, <3>1, <3>3 DEF Ahead, Lost
    <3>4. CASE Family(b) = 4 /\ position > 0 /\ \E k \in position .. Len(list) : list[k] = OwnRule(b)
      <4>1. position \in Nat
        BY DEF Types
      <4>2. PICK k \in position .. Len(list) : list[k] = OwnRule(b)
        BY <3>4
      <4>3. k \in 1 .. Len(list)
        BY <1>3, <3>4, <4>1
      <4>4. PICK j \in {k, k + 1} : new[j] = OwnRule(b)
        BY <1>5, <4>2, <4>3
      <4>5. j \in position .. Len(new)
        BY <1>3, <1>5, <4>1, <4>3
      <4> QED
        BY <1>1, <1>4, <3>1, <3>4, <4>4, <4>5 DEF Ahead
    <3> QED
      BY <2>2, <3>1, <3>2, <3>3, <3>4 DEF Ahead, list
  <2> QED
    BY <1>1, <2>1, <2>2 DEF ToCome, Dumping
<1>11. changes' # changes
  BY <1>1 DEF Types
<1> QED
  BY <1>6, <1>7, <1>9, <1>10, <1>11

LEMMA DeleteStep == ASSUME CleanInv, OthersDelete PROVE CleanInv' /\ changes' # changes
<1> USE DEF CleanInv
<1>1. /\ changes' = changes + 1 /\ disturbed' = (disturbed \/ position > 0)
      /\ UNCHANGED <<pc, families, tracked, chunk_ops, seen, ring, done, packet, position, refused,
                     owed>>
  BY DEF OthersDelete
<1>2. PICK i \in DOMAIN rules[4] : rules' = [rules EXCEPT ![4] = RemoveAt(@, i)]
  BY DEF OthersDelete
<1> DEFINE new == RemoveAt(rules[4], i)
<1>3. rules'[4] = new /\ rules'[6] = rules[6] /\ rules' = [rules EXCEPT ![4] = new]
  BY <1>2 DEF Types
<1>4. new \in Seq(Rules) /\ Range(new) \subseteq Range(rules[4])
  <2>1. rules[4] \in Seq(Rules)
    BY DEF Types
  <2> QED
    BY <2>1, Removed
<1> HIDE DEF new
<1>5. Types'
  <2>1. rules' \in [{4, 6} -> Seq(Rules)]
    BY <1>3, <1>4 DEF Types
  <2>2. disturbed' \in BOOLEAN
    BY <1>1
  <2> QED
    BY <1>1, <2>1, <2>2 DEF Types
<1>6. Order'
  BY <1>1 DEF Order, Dumping
<1>7. \A b : Due(b)' => Due(b)
  BY <1>1, <1>3, <1>4, DueShrinks
<1>8. Seen'
  BY <1>1, <1>7 DEF Seen
<1>9. Complete'
  <2> SUFFICES ASSUME ~disturbed, ~(position > 0), NEW b \in owed, Due(b) PROVE ToCome(b)'
    BY <1>1, <1>7 DEF Complete
  <2>1. ToCome(b)
    BY DEF Complete
  <2>2. Ahead(OwnRule(b), rules[Family(b)]) => Ahead(OwnRule(b), rules[Family(b)])'
    BY <1>1 DEF Ahead, Lost, OwnRule
  <2> QED
    BY <1>1, <2>1, <2>2 DEF ToCome, Dumping
<1>10. changes' # changes
  BY <1>1 DEF Types
<1> QED
  BY <1>5, <1>6, <1>8, <1>9, <1>10

LEMMA CleanInit == Init => CleanInv
<1> SUFFICES ASSUME Init PROVE CleanInv
  OBVIOUS
<1>1. /\ families = AllFamilies /\ chunk_ops = {} /\ seen = {} /\ ring = <<>> /\ done = FALSE
      /\ packet = <<>> /\ position = 0 /\ changes = 0 /\ disturbed = FALSE
      /\ pc \in {"tracked", "family"}
      /\ tracked \subseteq Addr /\ owed \subseteq Addr
      /\ pc = "tracked" => owed = tracked
      /\ pc = "family" => \A a \in owed : Family(a) \in Range(AllFamilies)
  BY DEF Init, Addr
<1>2. rules \in [{4, 6} -> Seq(Rules)]
  <2>1. PICK r4 \in Lists({OwnRule(a) : a \in Addr4} \cup OtherRules),
             r6 \in Lists({OwnRule(a) : a \in Addr6}) :
               rules = [family \in {4, 6} |-> IF family = 4 THEN r4 ELSE r6]
    BY DEF Init
  <2>2. r4 \in Seq(Rules) /\ r6 \in Seq(Rules)
    <3>1. \A R : R \subseteq Rules => \A r \in Lists(R) : r \in Seq(Rules)
      <4> SUFFICES ASSUME NEW R \in SUBSET Rules, NEW r \in Lists(R) PROVE r \in Seq(Rules)
        OBVIOUS
      <4>1. PICK n \in 0 .. Cardinality(R) : r \in [1 .. n -> R]
        BY DEF Lists
      <4>2. n \in Nat
        OBVIOUS
      <4>3. r \in [1 .. n -> Rules]
        BY <4>1
      <4> QED
        BY <4>2, <4>3
    <3>2. /\ {OwnRule(a) : a \in Addr4} \cup OtherRules \subseteq Rules
          /\ {OwnRule(a) : a \in Addr6} \subseteq Rules
      BY DEF Rules, Addr
    <3> QED
      BY <2>1, <3>1, <3>2
  <2> QED
    BY <2>1, <2>2
<1>3. AllFamilies \in {<<4, 6>>, <<6>>, <<4>>, <<>>}
  BY DEF AllFamilies
<1>4. Types
  BY <1>1, <1>2, <1>3, RangeEmpty DEF Types
<1>5. Order /\ Seen
  BY <1>1 DEF Order, Dumping, Seen
<1>6. Complete
  BY <1>1 DEF Complete, ToCome
<1> QED
  BY <1>4, <1>5, <1>6 DEF CleanInv

LEMMA CleanNext == ASSUME CleanInv, [Next]_vars PROVE CleanInv'
<1>1. CASE UNCHANGED vars
  <2>1. /\ UNCHANGED <<pc, families, tracked, chunk_ops, seen, ring, done, rules>>
        /\ UNCHANGED <<packet, position, refused, changes, owed, disturbed>>
    BY <1>1 DEF vars, kernel
  <2>2. Types' /\ Order' /\ Seen'
    BY <2>1 DEF CleanInv, Types, Order, Dumping, Seen, Due
  <2>3. Complete'
    BY <2>1 DEF CleanInv, Complete, ToCome, Due, Dumping, Ahead, Lost
  <2> QED
    BY <2>2, <2>3 DEF CleanInv
<1> QED
  BY <1>1, TrackedStep, FlushStep, FamilyStep, PacketStep, ReturnStep, MessageStep, StepReturns,
     AddStep, DeleteStep DEF Next, Step

\* A cleanup that reports success has deleted every own rule that was there when it
\* began and that the kernel did not refuse to delete, unless another process deleted
\* a rule in the middle of a dump (cleanup_rules, drain_apply_ack_messages).
THEOREM SuccessHolds == Spec => []SuccessIsComplete
<1>1. CleanInv => SuccessIsComplete
  <2> SUFFICES ASSUME CleanInv, pc = "ok", ~disturbed, NEW a \in owed \ refused
               PROVE  OwnRule(a) \notin Range(rules[Family(a)])
    BY DEF SuccessIsComplete
  <2>1. Due(a) => a \in chunk_ops
    BY DEF CleanInv, Complete, ToCome, Dumping
  <2>2. chunk_ops = {}
    BY DEF CleanInv, Order
  <2> QED
    BY <2>1, <2>2 DEF Due
<1> QED
  BY <1>1, CleanInit, CleanNext, PTL DEF Spec

\* No step of the cleanup deletes a rule of another table or one without an address
\* (build_rule_message_into, parse_cleanup_rule_addr).
THEOREM OthersHold == Spec => OthersAreKept
<1> DEFINE Kept == changes' = changes =>
                     \A r \in OtherRules : r \in Range(rules[4]) => r \in Range(rules'[4])
<1>1. ASSUME CleanInv, [Next]_vars PROVE [Kept]_vars
  <2> SUFFICES ASSUME Next, changes' = changes
               PROVE  \A r \in OtherRules : r \in Range(rules[4]) => r \in Range(rules'[4])
    BY <1>1
  <2> DEFINE Only == UNCHANGED rules \/ \E S \in SUBSET Addr : kernel_deletes(S)
  <2>1. ASSUME NEW addr \in Addr, push_target(addr) PROVE Only
    BY <1>1, <2>1 DEF push_target, apply_batch_blocking, CleanInv, Types
  <2>2. ASSUME push_tracked PROVE Only
    BY <1>1, <2>1, <2>2 DEF push_tracked, CleanInv, Types
  <2>3. ASSUME flush_chunk PROVE Only
    BY <1>1, <2>3 DEF flush_chunk, apply_batch_blocking, CleanInv, Types
  <2>4. ASSUME on_msg PROVE Only
    <3>1. Head(ring) \in Messages
      <4>1. ring \in Seq(Messages) /\ ring # <<>>
        BY <1>1, <2>4 DEF on_msg, CleanInv, Types
      <4> QED
        BY <4>1, RangeTail, RangeType
    <3>2. parse_cleanup_rule_addr(Head(ring)) # NoDst => parse_cleanup_rule_addr(Head(ring)) \in Addr
      BY <3>1, RuleFacts
    <3> QED
      BY <2>1, <2>4, <3>2 DEF on_msg
  <2>5. ASSUME \/ start_family \/ recv_packet \/ recv_many_returns
               \/ dump_wait_timeout \/ recv_step_returns \/ fails
        PROVE  Only
    BY <2>5 DEF start_family, recv_packet, recv_many_returns, dump_wait_timeout,
                recv_step_returns, fails, kernel
  <2>6. Only
    BY <1>1, <2>2, <2>3, <2>4, <2>5, AddStep, DeleteStep DEF Next, Step
  <2>7. CASE UNCHANGED rules
    BY <2>7
  <2>8. ASSUME NEW S \in SUBSET Addr, kernel_deletes(S)
        PROVE  \A r \in OtherRules : r \in Range(rules[4]) => r \in Range(rules'[4])
    BY <1>1, <2>8, Deletes DEF CleanInv
  <2> QED
    BY <2>6, <2>7, <2>8
<1> QED
  BY <1>1, CleanInit, CleanNext, PTL DEF Spec, OthersAreKept
=============================================================================
