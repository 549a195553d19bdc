---------------------------- MODULE ConfigProofs -----------------------------
(***************************************************************************)
(* What a process of Startup makes of its file and of a message, for all   *)
(* widths of addresses and integers: the options, the filters, and the     *)
(* attributes of a message.                                                *)
(***************************************************************************)
EXTENDS StartupProofs

-----------------------------------------------------------------------------
(* The files of Startup.                                                    *)

FlagWord  == {EmptyStr, "temporary", "deprecated", "tmp"}
TomlItem  == [what : {"ip", "cidr", "flag", "empty", "bad"}, addr : IpAddr \cup {NoAddr},
              prefix : Nat, flag : FlagWord]
TomlType  == {"Int", "Str", "Bool", "Array", "bad", "none"}
TomlWord  == {EmptyStr, "debug", "warning", "info", "f"}
TomlValue == [type : TomlType, int : Int, str : TomlWord, bool : BOOLEAN, list : Seq(TomlItem)]
TomlName  == {EmptyStr, "daemon", "log", "rule", "filters", "x", "ipv6", "debounce_ms",
              "debounce_max_ms", "batch_max", "level", "file", "pref", "table_id",
              "ignore_addr_flags", "ignore_ips", "ignore_cidrs"}
TomlLine  == [line : {"section", "pair", "malformed"}, name : TomlName, value : TomlValue]

\* The elements of lists.
LEMMA ItemsTyped ==
    /\ \A w \in {"ip", "cidr", "flag", "empty", "bad"} : Item(w) \in TomlItem
    /\ \A a \in IpAddr : Ip(a) \in TomlItem
    /\ \A c : c[1] \in IpAddr /\ c[2] \in Nat => Net(c) \in TomlItem
    /\ \A f \in FlagWord : Flag(f) \in TomlItem
<1>1. \A w \in {"ip", "cidr", "flag", "empty", "bad"} : Item(w) \in TomlItem
  BY DEF Item, TomlItem, FlagWord
<1>2. ASSUME NEW i \in TomlItem, NEW a \in IpAddr PROVE [i EXCEPT !.addr = a] \in TomlItem
  BY DEF TomlItem
<1>3. ASSUME NEW i \in TomlItem, NEW a \in IpAddr, NEW p \in Nat
      PROVE  [i EXCEPT !.addr = a, !.prefix = p] \in TomlItem
  BY DEF TomlItem
<1>4. ASSUME NEW i \in TomlItem, NEW f \in FlagWord PROVE [i EXCEPT !.flag = f] \in TomlItem
  BY DEF TomlItem
<1>5. Item("ip") \in TomlItem /\ Item("cidr") \in TomlItem /\ Item("flag") \in TomlItem
  BY <1>1
<1> QED
  BY <1>1, <1>2, <1>3, <1>4, <1>5, Zenon DEF Ip, Net, Flag

\* Values.
LEMMA ValuesTyped ==
    /\ \A w \in TomlType : Value(w) \in TomlValue
    /\ \A n \in Int : Num(n) \in TomlValue
    /\ \A x \in TomlWord : Str(x) \in TomlValue
    /\ \A b \in BOOLEAN : Bool(b) \in TomlValue
    /\ \A s \in Seq(TomlItem) : Array(s) \in TomlValue
<1>1. \A w \in TomlType : Value(w) \in TomlValue
  <2>1. ASSUME NEW w \in TomlType, NEW b \in BOOLEAN
        PROVE  [type |-> w, int |-> 0, str |-> EmptyStr, bool |-> b, list |-> <<>>] \in TomlValue
    BY DEF TomlValue, TomlWord
  <2> QED
    BY <2>1, Zenon DEF Value
<1>2. ASSUME NEW v \in TomlValue, NEW n \in Int PROVE [v EXCEPT !.int = n] \in TomlValue
  BY DEF TomlValue
<1>3. ASSUME NEW v \in TomlValue, NEW x \in TomlWord PROVE [v EXCEPT !.str = x] \in TomlValue
  BY DEF TomlValue
<1>4. ASSUME NEW v \in TomlValue, NEW b \in BOOLEAN PROVE [v EXCEPT !.bool = b] \in TomlValue
  BY DEF TomlValue
<1>5. ASSUME NEW v \in TomlValue, NEW s \in Seq(TomlItem) PROVE [v EXCEPT !.list = s] \in TomlValue
  BY DEF TomlValue
<1>6. /\ Value("Int") \in TomlValue /\ Value("Str") \in TomlValue
      /\ Value("Bool") \in TomlValue /\ Value("Array") \in TomlValue
  BY <1>1, Zenon DEF TomlType
<1> QED
  BY <1>1, <1>2, <1>3, <1>4, <1>5, <1>6, Zenon DEF Num, Str, Bool, Array

\* Lines.
LEMMA LinesTyped ==
    /\ \A n \in TomlName : Section(n) \in TomlLine
    /\ \A n \in TomlName, v \in TomlValue : Pair(n, v) \in TomlLine
    /\ Malformed \in TomlLine
<1>1. Value("none") \in TomlValue
  BY ValuesTyped DEF TomlType
<1>2. \A n \in TomlName : Section(n) \in TomlLine
  BY <1>1 DEF Section, TomlLine
<1>3. \A n \in TomlName, v \in TomlValue : Pair(n, v) \in TomlLine
  BY DEF Pair, TomlLine
<1>4. Malformed \in TomlLine
  BY <1>1 DEF Malformed, TomlLine, TomlName
<1> QED
  BY <1>2, <1>3, <1>4, Zenon

\* The addresses in the files.
LEMMA SmallAddrs ==
    /\ \A n \in 0 .. 3 : [family |-> 4, value |-> n] \in IpAddr
    /\ [family |-> 6, value |-> MapTag * pow2[W4]] \in IpAddr
<1>1. /\ W4 \in Nat /\ W4 - 2 \in Nat /\ W4 = 2 + (W4 - 2)
      /\ W6 \in Nat /\ W6 - W4 \in Nat /\ W6 = (W6 - W4) + W4
  BY WidthAssumption
<1>2. pow2[2] = 4
  <2>1. pow2[0] = 1 /\ pow2[0 + 1] = 2 * pow2[0] /\ pow2[1 + 1] = 2 * pow2[1]
    BY PowerIs
  <2> QED
    BY <2>1
<1>3. pow2[W4] \in Nat /\ pow2[W4] >= 4
  <2>1. pow2[W4] = pow2[2] * pow2[W4 - 2]
    BY <1>1, PowerProduct
  <2>2. pow2[W4 - 2] \in Nat /\ pow2[W4 - 2] > 0
    BY <1>1, PowerIs
  <2> QED
    BY <1>2, <2>1, <2>2
<1>4. MapTag * pow2[W4] \in 0 .. pow2[W6] - 1
  <2>1. pow2[W6] = pow2[W6 - W4] * pow2[W4]
    BY <1>1, PowerProduct
  <2>2. pow2[W6 - W4] \in Nat /\ pow2[W6 - W4] > 0
    BY <1>1, PowerIs
  <2>3. ASSUME NEW q \in Nat, NEW p \in Nat, NEW m \in 0 .. q - 1, p > 0
        PROVE  m * p \in 0 .. (q * p) - 1
    <3>1. m \in Nat /\ q - m \in Nat /\ q - m >= 1 /\ (q - m) * p >= p
      BY <2>3
    <3>2. q * p = m * p + (q - m) * p /\ m * p \in Nat
      BY <3>1
    <3> QED
      BY <2>3, <3>1, <3>2
  <2> QED
    BY <1>3, <2>1, <2>2, <2>3, WidthAssumption
<1>5. \A n \in 0 .. 3 : n \in 0 .. pow2[W4] - 1
  BY <1>3
<1> QED
  BY <1>4, <1>5 DEF IpAddr, Addr, Width

\* The valid file.
LEMMA BaseTyped == Base \in Seq(TomlLine) /\ Len(Base) = 15
<1>1. /\ Section("daemon") \in TomlLine /\ Section("log") \in TomlLine
      /\ Section("rule") \in TomlLine /\ Section("filters") \in TomlLine
  BY LinesTyped DEF TomlName
<1>2. Bool(TRUE) \in TomlValue /\ Num(1) \in TomlValue /\ Num(2) \in TomlValue
      /\ Str("info") \in TomlValue /\ Str("f") \in TomlValue
  <2>1. TRUE \in BOOLEAN /\ 1 \in Int /\ 2 \in Int /\ "info" \in TomlWord /\ "f" \in TomlWord
    BY DEF TomlWord
  <2> QED
    BY <2>1, ValuesTyped, Zenon
<1>3. /\ Array(<<Flag("temporary")>>) \in TomlValue
      /\ Array(<<Ip([family |-> 4, value |-> 1])>>) \in TomlValue
      /\ Array(<<Net(<<[family |-> 4, value |-> 2], 1>>)>>) \in TomlValue
  <2>1. Flag("temporary") \in TomlItem
    BY ItemsTyped DEF FlagWord
  <2>2. [family |-> 4, value |-> 1] \in IpAddr /\ [family |-> 4, value |-> 2] \in IpAddr
    BY SmallAddrs
  <2>3. Ip([family |-> 4, value |-> 1]) \in TomlItem
    BY <2>2, ItemsTyped, Zenon
  <2>4. ASSUME NEW a \in IpAddr PROVE Net(<<a, 1>>) \in TomlItem
    <3>1. <<a, 1>>[1] \in IpAddr /\ <<a, 1>>[2] \in Nat
      OBVIOUS
    <3> QED
      BY <3>1, ItemsTyped, Zenon
  <2>5. \A i \in TomlItem : <<i>> \in Seq(TomlItem)
    OBVIOUS
  <2> QED
    BY <2>1, <2>2, <2>3, <2>4, <2>5, ValuesTyped, Zenon
<1>4. /\ Pair("ipv6", Bool(TRUE)) \in TomlLine /\ Pair("debounce_ms", Num(1)) \in TomlLine
      /\ Pair("debounce_max_ms", Num(2)) \in TomlLine /\ Pair("batch_max", Num(2)) \in TomlLine
      /\ Pair("level", Str("info")) \in TomlLine /\ Pair("file", Str("f")) \in TomlLine
      /\ Pair("pref", Num(1)) \in TomlLine /\ Pair("table_id", Num(1)) \in TomlLine
  BY <1>2, LinesTyped, Zenon DEF TomlName
<1>5. /\ Pair("ignore_addr_flags", Array(<<Flag("temporary")>>)) \in TomlLine
      /\ Pair("ignore_ips", Array(<<Ip([family |-> 4, value |-> 1])>>)) \in TomlLine
      /\ Pair("ignore_cidrs", Array(<<Net(<<[family |-> 4, value |-> 2], 1>>)>>)) \in TomlLine
  BY <1>3, LinesTyped, Zenon DEF TomlName
<1>6. ASSUME NEW a \in TomlLine, NEW b \in TomlLine, NEW c \in TomlLine, NEW d \in TomlLine,
             NEW e \in TomlLine, NEW f \in TomlLine, NEW g \in TomlLine, NEW h \in TomlLine,
             NEW i \in TomlLine, NEW j \in TomlLine, NEW k \in TomlLine, NEW l \in TomlLine,
             NEW m \in TomlLine, NEW n \in TomlLine, NEW o \in TomlLine
      PROVE  /\ <<a, b, c, d, e, f, g, h, i, j, k, l, m, n, o>> \in Seq(TomlLine)
             /\ Len(<<a, b, c, d, e, f, g, h, i, j, k, l, m, n, o>>) = 15
  OBVIOUS
<1> QED
  BY <1>1, <1>4, <1>5, <1>6, Zenon DEF Base

\* An edit of a file with lines of its kind.
LEMMA EditsTyped ==
    ASSUME NEW L, NEW f \in Seq(L), NEW M, M \subseteq L
    PROVE  Edits(f, M) \subseteq Seq(L)
<1>1. ASSUME NEW i \in DOMAIN f
      PROVE  SubSeq(f, 1, i - 1) \o SubSeq(f, i + 1, Len(f)) \in Seq(L)
  <2>1. SubSeq(f, 1, i - 1) \in Seq(L) /\ SubSeq(f, i + 1, Len(f)) \in Seq(L)
    OBVIOUS
  <2> QED
    BY <2>1
<1>2. ASSUME NEW i \in 1 .. Len(f) + 1, NEW l \in M
      PROVE  SubSeq(f, 1, i - 1) \o <<l>> \o SubSeq(f, i, Len(f)) \in Seq(L)
  <2>1. SubSeq(f, 1, i - 1) \in Seq(L) /\ SubSeq(f, i, Len(f)) \in Seq(L) /\ <<l>> \in Seq(L)
    OBVIOUS
  <2> QED
    BY <2>1
<1>3. ASSUME NEW i \in DOMAIN f, NEW l \in M PROVE [f EXCEPT ![i] = l] \in Seq(L)
  OBVIOUS
<1> DEFINE Cut(i)    == SubSeq(f, 1, i - 1) \o SubSeq(f, i + 1, Len(f))
           Put(i, l) == SubSeq(f, 1, i - 1) \o <<l>> \o SubSeq(f, i, Len(f))
           Set(i, l) == [f EXCEPT ![i] = l]
<1>4. Edits(f, M) = {Cut(i) : i \in DOMAIN f} \cup {Put(i, l) : i \in 1 .. Len(f) + 1, l \in M}
                    \cup {Set(i, l) : i \in DOMAIN f, l \in M}
  BY DEF Edits
<1>5. /\ \A i \in DOMAIN f : Cut(i) \in Seq(L)
      /\ \A i \in 1 .. Len(f) + 1, l \in M : Put(i, l) \in Seq(L)
      /\ \A i \in DOMAIN f, l \in M : Set(i, l) \in Seq(L)
  BY <1>1, <1>2, <1>3
<1> DEFINE D == DOMAIN f
           E == 1 .. Len(f) + 1
           S == Seq(L)
<1>6. /\ \A i \in D : Cut(i) \in S
      /\ \A i \in E, l \in M : Put(i, l) \in S
      /\ \A i \in D, l \in M : Set(i, l) \in S
  BY <1>5
<1>7. Edits(f, M) = {Cut(i) : i \in D} \cup {Put(i, l) : i \in E, l \in M}
                    \cup {Set(i, l) : i \in D, l \in M}
  BY <1>4
<1> HIDE DEF Cut, Put, Set, D, E, S
<1>8. Edits(f, M) \subseteq S
  BY <1>6, <1>7
<1> QED
  BY <1>8 DEF S

\* The files with given filters.
LEMMA WithFiltersTyped ==
    ASSUME NEW flags \in Seq(TomlItem), NEW ips \in Seq(TomlItem), NEW cidrs \in Seq(TomlItem),
           NEW ipv6 \in BOOLEAN
    PROVE  WithFilters(flags, ips, cidrs, ipv6) \in Seq(TomlLine)
<1>1. Bool(ipv6) \in TomlValue /\ Array(flags) \in TomlValue /\ Array(ips) \in TomlValue
      /\ Array(cidrs) \in TomlValue
  BY ValuesTyped, Zenon
<1>2. /\ Pair("ipv6", Bool(ipv6)) \in TomlLine /\ Pair("ignore_addr_flags", Array(flags)) \in TomlLine
      /\ Pair("ignore_ips", Array(ips)) \in TomlLine /\ Pair("ignore_cidrs", Array(cidrs)) \in TomlLine
  BY <1>1, LinesTyped, Zenon DEF TomlName
<1>3. DOMAIN Base = 1 .. 15 /\ \A i \in 1 .. 15 : Base[i] \in TomlLine
  <2>1. ASSUME NEW f \in Seq(TomlLine)
        PROVE  DOMAIN f = 1 .. Len(f) /\ \A i \in 1 .. Len(f) : f[i] \in TomlLine
    OBVIOUS
  <2> QED
    BY <2>1, BaseTyped, Zenon
<1>4. ASSUME NEW f \in [1 .. 15 -> TomlLine] PROVE f \in Seq(TomlLine)
  <2>1. Seq(TomlLine) = UNION {[1 .. n -> TomlLine] : n \in Nat}
    OBVIOUS
  <2> QED
    BY <2>1
<1>5. WithFilters(flags, ips, cidrs, ipv6) \in [1 .. 15 -> TomlLine]
  BY <1>2, <1>3 DEF WithFilters
<1> QED
  BY <1>4, <1>5

\* The lists of the filter files are made of the items of TomlItem.
LEMMA ListsTyped ==
    \A x \in {<<>>, <<Item("empty")>>, <<Item("bad")>>,
              <<Flag("temporary"), Flag("deprecated")>>,
              <<Flag("deprecated"), Flag("deprecated")>>, <<Flag("tmp")>>,
              <<Ip([family |-> 4, value |-> 2]), Ip([family |-> 4, value |-> 2])>>,
              <<Ip([family |-> 4, value |-> 0]), Ip([family |-> 6, value |-> MapTag * pow2[W4]])>>,
              <<Net(<<[family |-> 4, value |-> 0], W4>>)>>,
              <<Net(<<[family |-> 4, value |-> 0], W4 + 1>>)>>,
              <<Net(<<[family |-> 4, value |-> 0], 0>>), Net(<<[family |-> 4, value |-> 0], 0>>)>>} :
       x \in Seq(TomlItem)
<1>1. /\ Item("empty") \in TomlItem /\ Item("bad") \in TomlItem
      /\ Flag("temporary") \in TomlItem /\ Flag("deprecated") \in TomlItem /\ Flag("tmp") \in TomlItem
  BY ItemsTyped, Zenon DEF FlagWord
<1>2. /\ [family |-> 4, value |-> 0] \in IpAddr /\ [family |-> 4, value |-> 2] \in IpAddr
      /\ [family |-> 6, value |-> MapTag * pow2[W4]] \in IpAddr
  BY SmallAddrs
<1>3. /\ Ip([family |-> 4, value |-> 0]) \in TomlItem /\ Ip([family |-> 4, value |-> 2]) \in TomlItem
      /\ Ip([family |-> 6, value |-> MapTag * pow2[W4]]) \in TomlItem
  BY <1>2, ItemsTyped, Zenon
<1>4. ASSUME NEW a \in IpAddr, NEW p \in Nat PROVE Net(<<a, p>>) \in TomlItem
  <2>1. <<a, p>>[1] \in IpAddr /\ <<a, p>>[2] \in Nat
    OBVIOUS
  <2> QED
    BY <2>1, ItemsTyped, Zenon
<1>5. W4 \in Nat /\ W4 + 1 \in Nat /\ 0 \in Nat
  BY WidthAssumption
<1>6. /\ Net(<<[family |-> 4, value |-> 0], W4>>) \in TomlItem
      /\ Net(<<[family |-> 4, value |-> 0], W4 + 1>>) \in TomlItem
      /\ Net(<<[family |-> 4, value |-> 0], 0>>) \in TomlItem
  BY <1>2, <1>4, <1>5, Zenon
<1>7. <<>> \in Seq(TomlItem) /\ (\A i \in TomlItem : <<i>> \in Seq(TomlItem))
      /\ \A i, j \in TomlItem : <<i, j>> \in Seq(TomlItem)
  OBVIOUS
<1> QED
  BY <1>1, <1>3, <1>6, <1>7, Zenon

\* The edits of a file are lines of TomlLine.
LEMMA LinesOfFilesTyped ==
    Headers \subseteq TomlLine /\ Pairs \subseteq TomlLine /\ Malformed \in TomlLine
<1>1. Headers \subseteq TomlLine
  <2>1. KNOWN_SECTIONS \cup {"x"} \subseteq TomlName
    BY DEF KNOWN_SECTIONS, TomlName
  <2> QED
    BY <2>1, LinesTyped, Zenon DEF Headers
<1>2. Values \subseteq TomlValue
  <2>1. ASSUME NEW n \in {-1, 0, 3, pow2[U], pow2[U] + 1} PROVE n \in Int
    <3>1. pow2[U] \in Nat
      BY ConfigAssumption, PowerIs
    <3> QED
      BY <3>1
  <2>2. {Num(n) : n \in {-1, 0, 3, pow2[U], pow2[U] + 1}} \subseteq TomlValue
    BY <2>1, ValuesTyped, Zenon
  <2>3. {Str(x) : x \in {EmptyStr, "debug", "warning"}} \subseteq TomlValue
    BY ValuesTyped, Zenon DEF TomlWord
  <2>4. {Bool(FALSE), Value("bad")} \subseteq TomlValue
    <3>1. FALSE \in BOOLEAN /\ "bad" \in TomlType
      BY DEF TomlType
    <3> QED
      BY <3>1, ValuesTyped, Zenon
  <2>5. ASSUME NEW S, \A x \in S : x \in Seq(TomlItem) PROVE {Array(x) : x \in S} \subseteq TomlValue
    BY <2>5, ValuesTyped, Zenon
  <2>6. {Array(x) : x \in {<<>>, <<Item("empty")>>, <<Item("bad")>>,
                            <<Flag("temporary"), Flag("deprecated")>>,
                            <<Flag("deprecated"), Flag("deprecated")>>, <<Flag("tmp")>>,
                            <<Ip([family |-> 4, value |-> 2]), Ip([family |-> 4, value |-> 2])>>,
                            <<Ip([family |-> 4, value |-> 0]),
                              Ip([family |-> 6, value |-> MapTag * pow2[W4]])>>,
                            <<Net(<<[family |-> 4, value |-> 0], W4>>)>>,
                            <<Net(<<[family |-> 4, value |-> 0], W4 + 1>>)>>,
                            <<Net(<<[family |-> 4, value |-> 0], 0>>),
                              Net(<<[family |-> 4, value |-> 0], 0>>)>>}} \subseteq TomlValue
    BY <2>5, ListsTyped, Zenon
  <2> QED
    BY <2>2, <2>3, <2>4, <2>6, Zenon DEF Values
<1>3. Pairs \subseteq TomlLine
  <2>1. \A l \in TomlLine : l.name \in TomlName
    BY DEF TomlLine
  <2>2. \A i \in DOMAIN Base : Base[i] \in TomlLine
    <3>1. ASSUME NEW f \in Seq(TomlLine) PROVE \A i \in DOMAIN f : f[i] \in TomlLine
      OBVIOUS
    <3> QED
      BY <3>1, BaseTyped, Zenon
  <2>3. Pair("x", Num(1)) \in TomlLine
    BY ValuesTyped, LinesTyped DEF TomlName
  <2> DEFINE P == {j \in DOMAIN Base : Base[j].line = "pair"}
  <2>4. \A i \in P : Base[i].name \in TomlName
    BY <2>1, <2>2, Zenon
  <2>5. \A i \in P, v \in Values : Pair(Base[i].name, v) \in TomlLine
    BY <1>2, <2>4, LinesTyped, Zenon
  <2>6. Pairs = {Pair(Base[i].name, v) : i \in P, v \in Values} \cup {Pair("x", Num(1))}
    BY DEF Pairs
  <2> DEFINE Q(i, v) == Pair(Base[i].name, v)
  <2>7. \A i \in P, v \in Values : Q(i, v) \in TomlLine
    BY <2>5
  <2>8. Pairs = {Q(i, v) : i \in P, v \in Values} \cup {Pair("x", Num(1))}
    BY <2>6
  <2> HIDE DEF P, Q
  <2> QED
    BY <2>3, <2>7, <2>8
<1> QED
  BY <1>1, <1>3, LinesTyped, Zenon

\* A network of the files.
LEMMA CidrTyped == \A c \in Cidr : Net(c) \in TomlItem
<1>1. ASSUME NEW c \in Cidr PROVE c[1] \in IpAddr /\ c[2] \in Nat
  <2>1. Width(4) \in Nat /\ Width(6) \in Nat
    BY WidthAssumption DEF Width
  <2>2. Cidr = (Addr(4) \X (0 .. Width(4))) \cup (Addr(6) \X (0 .. Width(6)))
    BY DEF Cidr
  <2>3. c \in Addr(4) \X (0 .. Width(4)) \/ c \in Addr(6) \X (0 .. Width(6))
    BY <2>2
  <2>4. Addr(4) \subseteq IpAddr /\ Addr(6) \subseteq IpAddr
    BY DEF IpAddr
  <2> QED
    BY <2>1, <2>3, <2>4
<1> QED
  BY <1>1, ItemsTyped, Zenon

\* So are all lines of every file of the model.
LEMMA FilesTyped ==
    /\ EditedFiles \subseteq Seq(TomlLine)
    /\ FilterFiles \subseteq Seq(TomlLine)
    /\ EventFiles \subseteq Seq(TomlLine)
<1>1. EditedFiles \subseteq Seq(TomlLine)
  <2>1. Base \in Seq(TomlLine)
    BY BaseTyped
  <2>2. Pairs \cup Headers \cup {Malformed} \subseteq TomlLine /\ Headers \subseteq TomlLine
    BY LinesOfFilesTyped, Zenon
  <2>3. Edits(Base, Pairs \cup Headers \cup {Malformed}) \subseteq Seq(TomlLine)
    BY <2>1, <2>2, EditsTyped, Zenon
  <2>4. Edits(Base, Headers) \subseteq Seq(TomlLine)
    BY <2>1, <2>2, EditsTyped, Zenon
  <2>5. \A f \in Edits(Base, Headers) : Edits(f, Headers) \subseteq Seq(TomlLine)
    BY <2>2, <2>4, EditsTyped, Zenon
  <2> QED
    BY <2>3, <2>5, Zenon DEF EditedFiles
<1>2. <<>> \in Seq(TomlItem) /\ (\A i \in TomlItem : <<i>> \in Seq(TomlItem))
      /\ \A i, j \in TomlItem : <<i, j>> \in Seq(TomlItem)
  OBVIOUS
<1>3. FilterFiles \subseteq Seq(TomlLine)
  <2> DEFINE Nets(c, d) == IF c = d THEN <<Net(c)>> ELSE <<Net(c), Net(d)>>
             F(a, c, d) == WithFilters(<<>>, <<Ip(a)>>, Nets(c, d), TRUE)
  <2>1. \A c, d \in Cidr : Nets(c, d) \in Seq(TomlItem)
    BY <1>2, CidrTyped, Zenon
  <2>2. \A a \in IpAddr : <<Ip(a)>> \in Seq(TomlItem)
    BY <1>2, ItemsTyped, Zenon
  <2> HIDE DEF Nets
  <2>3. \A a \in IpAddr, c \in Cidr, d \in Cidr : F(a, c, d) \in Seq(TomlLine)
    <3>1. TRUE \in BOOLEAN
      OBVIOUS
    <3> QED
      BY <1>2, <2>1, <2>2, <3>1, WithFiltersTyped, Zenon
  <2>4. FilterFiles = {F(a, c, d) : a \in IpAddr, c \in Cidr, d \in Cidr}
    BY DEF FilterFiles, Nets
  <2> DEFINE S == Seq(TomlLine)
  <2>5. \A a \in IpAddr, c \in Cidr, d \in Cidr : F(a, c, d) \in S
    BY <2>3
  <2> HIDE DEF F, S
  <2>6. FilterFiles \subseteq S
    BY <2>4, <2>5
  <2> QED
    BY <2>6 DEF S
<1>4. EventFiles \subseteq Seq(TomlLine)
  <2> DEFINE F(flags, ipv6) == WithFilters(flags, <<>>, <<>>, ipv6)
             Flags == {<<>>, <<Flag("temporary")>>}
             S == Seq(TomlLine)
  <2>1. Flag("temporary") \in TomlItem
    BY ItemsTyped DEF FlagWord
  <2>2. \A flags \in Flags : flags \in Seq(TomlItem)
    BY <1>2, <2>1, Zenon
  <2> HIDE DEF Flags
  <2>3. \A flags \in Flags, ipv6 \in BOOLEAN : F(flags, ipv6) \in S
    BY <1>2, <2>2, WithFiltersTyped, Zenon
  <2>4. EventFiles = {F(flags, ipv6) : flags \in Flags, ipv6 \in BOOLEAN}
    BY DEF EventFiles, Flags
  <2> HIDE DEF F, S
  <2>5. EventFiles \subseteq S
    BY <2>3, <2>4
  <2> QED
    BY <2>5 DEF S
<1> QED
  BY <1>1, <1>3, <1>4

\* What load returns.
LEMMA LoadIs ==
    ASSUME NEW f, NEW t, t = parse_toml(f), NEW h, h = load(f)
    PROVE  /\ NoOptions.ok = FALSE
           /\ ~Accepts(t) => h = NoOptions
           /\ Accepts(t) =>
                 /\ h.ok = TRUE
                 /\ h.ipv6 = t.value[<<"daemon", "ipv6">>].bool
                 /\ h.debounce = t.value[<<"daemon", "debounce_ms">>].int
                 /\ h.debounce_max = debounce_max(t.value[<<"daemon", "debounce_ms">>].int,
                                                  t.value[<<"daemon", "debounce_max_ms">>].int)
                 /\ h.batch_max = t.value[<<"daemon", "batch_max">>].int
                 /\ h.pref = t.value[<<"rule", "pref">>].int % pow2[U]
                 /\ h.table_id = t.value[<<"rule", "table_id">>].int % pow2[U]
                 /\ h.filters =
                       IgnoreFilters({i.addr : i \in Range(TakenList(t, <<"filters", "ignore_ips">>))},
                          {<<i.addr, i.prefix>> : i \in Range(TakenList(t, <<"filters", "ignore_cidrs">>))},
                          {i.flag : i \in Range(TakenList(t, <<"filters", "ignore_addr_flags">>))})
<1>1. NoOptions.ok = FALSE
  BY DEF NoOptions
<1>2. ~Accepts(t) => h = NoOptions
  BY Zenon DEF load
<1> DEFINE yes  == TRUE
           ipv6 == t.value[<<"daemon", "ipv6">>].bool
           d    == t.value[<<"daemon", "debounce_ms">>].int
           e    == t.value[<<"daemon", "debounce_max_ms">>].int
           m    == debounce_max(d, e)
           b    == t.value[<<"daemon", "batch_max">>].int
           p    == t.value[<<"rule", "pref">>].int % pow2[U]
           q    == t.value[<<"rule", "table_id">>].int % pow2[U]
           fs   == IgnoreFilters({i.addr : i \in Range(TakenList(t, <<"filters", "ignore_ips">>))},
                      {<<i.addr, i.prefix>> : i \in Range(TakenList(t, <<"filters", "ignore_cidrs">>))},
                      {i.flag : i \in Range(TakenList(t, <<"filters", "ignore_addr_flags">>))})
<1>3. Accepts(t) => h = [ok |-> yes, ipv6 |-> ipv6, debounce |-> d, debounce_max |-> m,
                         batch_max |-> b, pref |-> p, table_id |-> q, filters |-> fs]
  BY Zenon DEF load
<1> HIDE DEF yes, ipv6, d, m, b, p, q, fs
<1>4. Accepts(t) => /\ h.ok = yes /\ h.ipv6 = ipv6 /\ h.debounce = d /\ h.debounce_max = m
                    /\ h.batch_max = b /\ h.pref = p /\ h.table_id = q /\ h.filters = fs
  BY <1>3
<1> QED
  BY <1>1, <1>2, <1>4, Zenon DEF yes, ipv6, d, m, b, p, q, fs

\* "run" alone is a run.
LEMMA RunIsRun == parse_args(<<"run">>).command = "run"
<1> DEFINE a == <<"run">>
<1>1. a \in Seq({"run"}) /\ Len(a) = 1 /\ DOMAIN a = {1} /\ a[1] = "run"
  OBVIOUS
<1> HIDE DEF a
<1>2. Globals(a)[1] = ParseOption(a, [next |-> 1, config |-> "addrsyncd.toml", work_dir |-> "."])
  <2>1. Globals(a)[1] = ParseOption(a, Globals(a)[1 - 1])
    BY <1>1, GlobalsIs
  <2>2. Globals(a)[0] = [next |-> 1, config |-> "addrsyncd.toml", work_dir |-> "."]
    BY <1>1, GlobalsIs
  <2> QED
    BY <2>1, <2>2
<1>3. ASSUME NEW g, g.next = 1 PROVE ParseOption(a, g) = g
  BY <1>1, <1>3 DEF ParseOption
<1> DEFINE g == Globals(a)[Len(a)]
<1>4. g.next = 1
  <2>1. [next |-> 1, config |-> "addrsyncd.toml", work_dir |-> "."].next = 1
    OBVIOUS
  <2> QED
    BY <1>1, <1>2, <1>3, <2>1
<1> HIDE DEF g
<1> DEFINE rest == SubSeq(a, g.next + 1, Len(a))
<1>5. rest = <<>> /\ parse_run_command(rest)
  BY <1>1, <1>4 DEF parse_run_command
<1> HIDE DEF rest
<1> DEFINE b == a[g.next] = "run" /\ rest # <<>>
<1>6. parse_args(a) = [command |-> a[g.next], config |-> g.config, work_dir |-> g.work_dir,
                       daemon |-> b]
  BY <1>1, <1>4, <1>5 DEF parse_args, g, rest
<1> HIDE DEF b
<1>7. parse_args(a).command = a[g.next]
  BY <1>6
<1> QED
  BY <1>1, <1>4, <1>7 DEF a

\* The stages of a process: what load has returned, that a run is only refused for its
\* file, and the message that was read.
StageInv ==
    /\ file \in Seq(TomlLine)
    /\ \/ stage \in {"exec", "load"} /\ options = NoOptions
       \/ stage \in {"loaded", "event"} /\ options = load(file) /\ Accepts(parse_toml(file))
       \/ /\ stage = "exited" /\ options = NoOptions
          /\ args = <<"run">> => ~Accepts(parse_toml(file))
    /\ stage = "event" =>
          /\ file \in EventFiles
          /\ \E family \in {4, 6}, type \in {"RTM_NEWADDR", "RTM_DELADDR"} :
                /\ ifa \in Messages(family)
                /\ event = parse_addr_event(type, ifa, options.ipv6, options.filters)

\* It holds in every state.
LEMMA StageInvHolds == Spec => []StageInv
<1>1. Init => StageInv
  <2> SUFFICES ASSUME Init PROVE StageInv
    OBVIOUS
  <2>1. stage \in {"exec", "load"} /\ stage # "event" /\ options = NoOptions
    BY DEF Init
  <2>2. file \in Seq(TomlLine)
    BY BaseTyped, FilesTyped, Zenon DEF Init
  <2> QED
    BY <2>1, <2>2, Zenon DEF StageInv
<1>2. StageInv /\ [Next]_vars => StageInv'
  <2> SUFFICES ASSUME StageInv, [Next]_vars PROVE StageInv'
    OBVIOUS
  <2>1. CASE run_main
    <3>1. stage = "exec" /\ UNCHANGED <<args, cwd, file, options, ifa, event>>
      BY <2>1 DEF run_main
    <3>2. file \in Seq(TomlLine) /\ options = NoOptions
      BY <3>1 DEF StageInv
    <3>3. CASE stage' = "load"
      BY <3>1, <3>2, <3>3 DEF StageInv
    <3>4. CASE stage' = "exited" /\ parse_args(args).command \notin {"run", "cleanup"}
      <4>1. args # <<"run">>
        BY <3>4, RunIsRun
      <4> QED
        BY <3>1, <3>2, <3>4, <4>1 DEF StageInv
    <3> QED
      BY <2>1, <3>3, <3>4, Zenon DEF run_main
  <2>2. CASE load_options
    <3>1. /\ stage = "load" /\ options' = load(file) /\ UNCHANGED <<args, cwd, file, ifa, event>>
          /\ stage' = IF options'.ok THEN "loaded" ELSE "exited"
      BY <2>2, Zenon DEF load_options
    <3>2. file' \in Seq(TomlLine) /\ file' = file /\ args' = args
      BY <3>1 DEF StageInv
    <3> DEFINE t == parse_toml(file)
               h == load(file)
    <3>3. NoOptions.ok = FALSE /\ (~Accepts(t) => h = NoOptions) /\ (Accepts(t) => h.ok = TRUE)
      BY LoadIs, Zenon
    <3>4. CASE Accepts(t)
      <4>1. stage' = "loaded"
        BY <3>1, <3>3, <3>4, Zenon
      <4> HIDE DEF h, t
      <4>2. options' = load(file') /\ Accepts(parse_toml(file'))
        BY <3>1, <3>2, <3>4, Zenon DEF t
      <4>3. stage' \in {"loaded", "event"} /\ stage' # "event"
        BY <4>1
      <4> QED
        BY <3>2, <4>2, <4>3, Zenon DEF StageInv
    <3>5. CASE ~Accepts(t)
      <4>1. stage' = "exited" /\ options' = NoOptions
        BY <3>1, <3>3, <3>5, Zenon
      <4> HIDE DEF h, t
      <4>2. ~Accepts(parse_toml(file'))
        BY <3>2, <3>5, Zenon DEF t
      <4>3. stage' # "event"
        BY <4>1
      <4> QED
        BY <3>2, <4>1, <4>2, <4>3, Zenon DEF StageInv
    <3> QED
      BY <3>4, <3>5, Zenon
  <2>3. CASE receive
    <3>1. /\ stage = "loaded" /\ file \in EventFiles /\ stage' = "event"
          /\ file' = file /\ options' = options /\ args' = args
      BY <2>3 DEF receive
    <3>2. \E family \in {4, 6}, type \in {"RTM_NEWADDR", "RTM_DELADDR"} :
             /\ ifa' \in Messages(family)
             /\ event' = parse_addr_event(type, ifa', options.ipv6, options.filters)
      BY <2>3, Zenon DEF receive
    <3>3. file \in Seq(TomlLine) /\ options = load(file) /\ Accepts(parse_toml(file))
      BY <3>1 DEF StageInv
    <3>4. stage' \in {"loaded", "event"}
      BY <3>1
    <3> QED
      BY <3>1, <3>2, <3>3, <3>4, Zenon DEF StageInv
  <2>4. CASE UNCHANGED vars
    BY <2>4, Zenon DEF StageInv, vars
  <2> QED
    BY <2>1, <2>2, <2>3, <2>4, Zenon DEF Next
<1> QED
  BY <1>1, <1>2, PTL DEF Spec

\* What load accepts, the daemon can run with.
LEMMA AcceptedRanges ==
    ASSUME NEW L, file \in Seq(L), \A l \in L : l.value.int \in Int,
           Accepts(parse_toml(file)), NEW h, h = load(file)
    PROVE  /\ h.batch_max > 0 /\ 0 < h.debounce /\ h.debounce <= h.debounce_max
           /\ h.pref \in 1 .. pow2[U] - 1 /\ h.table_id \in 1 .. pow2[U] - 1
<1> DEFINE t == parse_toml(file)
<1>1. TableAt(t, Len(file)) /\ Accepts(t) /\ t = parse_toml(file)
  BY FileRead
<1> HIDE DEF t
<1>2. Holds(t, Len(file))
  BY <1>1, Zenon DEF TableAt, Accepts
<1>3. ASSUME NEW s, NEW k, TakesU64(t, <<s, k>>) PROVE t.value[<<s, k>>].int \in Int
  <2>1. LinesOf(s, k) # {} /\ t.value[<<s, k>>] = Given(s, k)
    BY <1>2, <1>3, KeyOf, Zenon DEF TakesU64
  <2>2. PICK l \in L : Given(s, k) = l.value
    BY <2>1, GivenIs
  <2> QED
    BY <2>1, <2>2, Zenon
<1>4. pow2[U] \in Nat /\ pow2[U] > 0
  BY ConfigAssumption, PowerIs
<1>5. \A n \in Int : n % pow2[U] # 0 => n % pow2[U] \in 1 .. pow2[U] - 1
  BY <1>4
<1> DEFINE d == t.value[<<"daemon", "debounce_ms">>].int
           e == t.value[<<"daemon", "debounce_max_ms">>].int
           b == t.value[<<"daemon", "batch_max">>].int
           p == t.value[<<"rule", "pref">>].int
           q == t.value[<<"rule", "table_id">>].int
<1>6. d \in Int /\ e \in Int /\ b \in Int /\ p \in Int /\ q \in Int
  BY <1>1, <1>3, Zenon DEF Accepts
<1>7. d > 0 /\ e > 0 /\ b > 0 /\ p % pow2[U] # 0 /\ q % pow2[U] # 0
  BY <1>1, Zenon DEF Accepts
<1>8. /\ h.debounce = d /\ h.debounce_max = debounce_max(d, e) /\ h.batch_max = b
      /\ h.pref = p % pow2[U] /\ h.table_id = q % pow2[U]
  BY <1>1, LoadIs, Zenon
<1> HIDE DEF d, e, b, p, q
<1>9. d <= debounce_max(d, e)
  BY <1>6 DEF debounce_max
<1>10. h.pref \in 1 .. pow2[U] - 1 /\ h.table_id \in 1 .. pow2[U] - 1
  BY <1>5, <1>6, <1>7, <1>8
<1> QED
  BY <1>6, <1>7, <1>8, <1>9, <1>10

\* A run loads its file exactly if that is valid, and with what is loaded the daemon can
\* run (ConfigIsStrict), for every width of u32: by SchemaIsStrict for the file, and since
\* nothing but load makes options (StageInv).
THEOREM ConfigIsAlwaysStrict == Spec => []ConfigIsStrict
<1>1. StageInv => ConfigIsStrict
  <2> SUFFICES ASSUME StageInv PROVE ConfigIsStrict
    OBVIOUS
  <2>1. /\ file \in Seq(TomlLine)
        /\ \A l \in TomlLine : l.line \in {"section", "pair", "malformed"}
        /\ \A l \in TomlLine : l.value.int \in Int
    BY DEF StageInv, TomlLine, TomlValue
  <2>2. Accepts(parse_toml(file)) <=> FileIsValid
    BY <2>1, SchemaIsStrict
  <2>3. CASE options = NoOptions
    <3>1. ~options.ok
      BY <2>3, LoadIs, Zenon
    <3>2. stage # "loaded"
      <4>1. ASSUME stage = "loaded" PROVE FALSE
        <5>1. options = load(file) /\ Accepts(parse_toml(file))
          BY <4>1 DEF StageInv
        <5>2. load(file).ok = TRUE
          BY <5>1, LoadIs, Zenon
        <5> QED
          BY <3>1, <5>1, <5>2, Zenon
      <4> QED
        BY <4>1
    <3>3. stage = "exited" /\ args = <<"run">> => ~Accepts(parse_toml(file))
      BY Zenon DEF StageInv
    <3> QED
      BY <2>2, <3>1, <3>2, <3>3 DEF ConfigIsStrict
  <2>4. CASE stage \in {"loaded", "event"} /\ options = load(file) /\ Accepts(parse_toml(file))
    <3>1. /\ options.batch_max > 0 /\ 0 < options.debounce /\ options.debounce <= options.debounce_max
          /\ options.pref \in 1 .. pow2[U] - 1 /\ options.table_id \in 1 .. pow2[U] - 1
      BY <2>1, <2>4, AcceptedRanges
    <3>2. stage # "exited"
      BY <2>4
    <3> QED
      BY <2>2, <2>4, <3>1, <3>2, Zenon DEF ConfigIsStrict
  <2> QED
    BY <2>3, <2>4, Zenon DEF StageInv
<1> QED
  BY <1>1, StageInvHolds, PTL

-----------------------------------------------------------------------------
(* The filters.                                                             *)

\* Masks are equal exactly if the upper bits are.
LEMMA MaskIs ==
    ASSUME NEW w \in Nat, w > 0, NEW p \in 0 .. w,
           NEW x \in 0 .. pow2[w] - 1, NEW y \in 0 .. pow2[w] - 1
    PROVE  mask(x, p, w) = mask(y, p, w) <=> x \div pow2[w - p] = y \div pow2[w - p]
<1>1. \A n \in Nat : pow2[n] \in Nat /\ pow2[n] > 0
  BY PowerIs
<1>2. CASE p = 0
  <2>1. mask(x, p, w) = 0 /\ mask(y, p, w) = 0 /\ w - p = w
    BY <1>2 DEF mask
  <2> DEFINE q == pow2[w]
  <2>2. q \in Nat /\ q > 0 /\ x \in 0 .. q - 1 /\ y \in 0 .. q - 1
    BY <1>1
  <2> HIDE DEF q
  <2>3. x \div q = 0 /\ y \div q = 0
    BY <2>2
  <2> QED
    BY <2>1, <2>3 DEF q
<1>3. CASE p # 0
  <2>1. w - p \in 0 .. w - 1 /\ w - p \in Nat
    BY <1>3
  <2>2. (w - p) % w = w - p
    <3>1. \A n \in 0 .. w - 1 : n % w = n
      OBVIOUS
    <3> QED
      BY <2>1, <3>1
  <2> DEFINE q == pow2[w - p]
  <2>3. q \in Nat /\ q > 0
    BY <1>1, <2>1
  <2>4. mask(x, p, w) = x - (x % q) /\ mask(y, p, w) = y - (y % q)
    BY <1>3, <2>2 DEF mask
  <2>5. x \in Nat /\ y \in Nat
    BY <1>1
  <2> HIDE DEF q
  <2>6. x - (x % q) = y - (y % q) <=> x \div q = y \div q
    <3>1. x = q * (x \div q) + (x % q) /\ y = q * (y \div q) + (y % q)
      BY <2>3, <2>5
    <3>2. x - (x % q) = y - (y % q) => x \div q = y \div q
      BY <2>3, <2>5
    <3>3. x \div q = y \div q => x - (x % q) = y - (y % q)
      BY <2>3, <2>5, <3>1
    <3> QED
      BY <3>2, <3>3
  <2> QED
    BY <2>4, <2>6 DEF q
<1> QED
  BY <1>2, <1>3

\* An unmapped address is an address.
LEMMA UnmapTyped == \A a \in IpAddr : unmap_addr(a) \in IpAddr
<1> SUFFICES ASSUME NEW a \in IpAddr PROVE unmap_addr(a) \in IpAddr
  OBVIOUS
<1>1. pow2[W4] \in Nat /\ pow2[W4] > 0 /\ pow2[W6] \in Nat
  BY WidthAssumption, PowerIs
<1>2. CASE a.family = 6 /\ a.value \div pow2[W4] = MapTag
  <2>1. a.value \in Nat
    BY <1>1 DEF IpAddr, Addr, Width
  <2>2. a.value % pow2[W4] \in 0 .. pow2[W4] - 1
    BY <1>1, <2>1
  <2>3. unmap_addr(a) = [family |-> 4, value |-> a.value % pow2[W4]]
    BY <1>2 DEF unmap_addr
  <2> QED
    BY <2>2, <2>3 DEF IpAddr, Addr, Width
<1>3. CASE ~(a.family = 6 /\ a.value \div pow2[W4] = MapTag)
  BY <1>3 DEF unmap_addr
<1> QED
  BY <1>2, <1>3

\* The matcher has an address exactly if one of its networks has the same mask.
LEMMA MatcherIs ==
    ASSUME NEW C, NEW b \in IpAddr
    PROVE  contains(CidrMatcher(C), b) <=>
              \E c \in C : /\ c[1].family = b.family
                           /\ mask(b.value, c[2], Width(b.family)) = mask(c[1].value, c[2], Width(b.family))
<1> DEFINE of == {c \in C : c[1].family = b.family}
           w  == Width(b.family)
           m  == [prefix \in {c[2] : c \in of} |->
                     {mask(c[1].value, prefix, w) : c \in {d \in of : d[2] = prefix}}]
<1>1. b.family \in {4, 6}
  BY DEF IpAddr, Addr
<1>2. CidrMatcher(C)[b.family] = m
  BY <1>1 DEF CidrMatcher
<1>3. contains(CidrMatcher(C), b) <=> \E prefix \in DOMAIN m : mask(b.value, prefix, w) \in m[prefix]
  BY <1>2, Zenon DEF contains
<1>4. DOMAIN m = {c[2] : c \in of}
  OBVIOUS
<1>5. \A prefix \in {c[2] : c \in of} :
         m[prefix] = {mask(c[1].value, prefix, w) : c \in {d \in of : d[2] = prefix}}
  BY Zenon
<1> HIDE DEF m, w
<1>6. (\E prefix \in DOMAIN m : mask(b.value, prefix, w) \in m[prefix]) <=>
         \E c \in of : mask(b.value, c[2], w) = mask(c[1].value, c[2], w)
  <2>1. ASSUME NEW prefix \in DOMAIN m, mask(b.value, prefix, w) \in m[prefix]
        PROVE  \E c \in of : mask(b.value, c[2], w) = mask(c[1].value, c[2], w)
    <3>1. mask(b.value, prefix, w) \in
             {mask(c[1].value, prefix, w) : c \in {d \in of : d[2] = prefix}}
      BY <1>4, <1>5, <2>1, Zenon
    <3>2. PICK c \in of : c[2] = prefix /\ mask(b.value, prefix, w) = mask(c[1].value, prefix, w)
      BY <3>1, Zenon
    <3> QED
      BY <3>2
  <2>2. ASSUME NEW c \in of, mask(b.value, c[2], w) = mask(c[1].value, c[2], w)
        PROVE  \E prefix \in DOMAIN m : mask(b.value, prefix, w) \in m[prefix]
    <3>1. c[2] \in DOMAIN m /\ mask(c[1].value, c[2], w) \in m[c[2]]
      BY <1>4, <1>5, Zenon
    <3> QED
      BY <2>2, <3>1, Zenon
  <2> QED
    BY <2>1, <2>2
<1> QED
  BY <1>3, <1>6, Zenon DEF w

\* A network of a valid list has an address exactly if the masks are equal.
LEMMA InCidrIs ==
    ASSUME NEW i \in TomlItem, NEW b \in IpAddr, i.prefix <= Width(i.addr.family)
    PROVE  InCidr(b, i) <=>
              /\ i.addr.family = b.family
              /\ mask(b.value, i.prefix, Width(b.family)) = mask(i.addr.value, i.prefix, Width(b.family))
<1> SUFFICES ASSUME i.addr.family = b.family
             PROVE  b.value \div pow2[Width(b.family) - i.prefix] =
                       i.addr.value \div pow2[Width(b.family) - i.prefix]
                    <=> mask(b.value, i.prefix, Width(b.family)) =
                          mask(i.addr.value, i.prefix, Width(b.family))
  BY Zenon DEF InCidr
<1> DEFINE w == Width(b.family)
<1>1. b.family \in {4, 6} /\ b.value \in 0 .. pow2[w] - 1
  BY DEF IpAddr, Addr
<1>2. w \in Nat /\ w > 0
  BY WidthAssumption DEF Width
<1>3. i.prefix \in 0 .. w
  BY <1>2 DEF TomlItem
<1>4. i.addr \in IpAddr
  BY <1>1 DEF TomlItem, NoAddr
<1>5. i.addr.value \in 0 .. pow2[w] - 1
  BY <1>4 DEF IpAddr, Addr
<1> HIDE DEF w
<1>6. mask(b.value, i.prefix, w) = mask(i.addr.value, i.prefix, w) <=>
         b.value \div pow2[w - i.prefix] = i.addr.value \div pow2[w - i.prefix]
  BY <1>1, <1>2, <1>3, <1>5, MaskIs
<1> QED
  BY <1>6, Zenon DEF w

\* The list that load takes is the one that is given.
LEMMA TakenIs ==
    ASSUME NEW L, file \in Seq(L), NEW t, Holds(t, Len(file)), NEW key, NEW i
    PROVE  i \in Range(TakenList(t, <<"filters", key>>)) <=>
              LinesOf("filters", key) # {} /\ i \in Range(Given("filters", key).list)
<1>1. /\ <<"filters", key>> \in t.keys <=> LinesOf("filters", key) # {}
      /\ LinesOf("filters", key) # {} => t.value[<<"filters", key>>] = Given("filters", key)
  BY KeyOf
<1>2. i \notin Range(<<>>)
  BY DEF Range
<1> QED
  BY <1>1, <1>2, Zenon DEF TakenList

\* An element of a list that load takes.
LEMMA TakenTyped ==
    ASSUME file \in Seq(TomlLine), NEW t, Holds(t, Len(file)), NEW key,
           NEW i \in Range(TakenList(t, <<"filters", key>>))
    PROVE  i \in TomlItem
<1>1. LinesOf("filters", key) # {} /\ i \in Range(Given("filters", key).list)
  BY TakenIs
<1>2. PICK l \in TomlLine : Given("filters", key) = l.value
  BY <1>1, GivenIs
<1>3. l.value.list \in Seq(TomlItem)
  BY DEF TomlLine, TomlValue
<1> DEFINE s == l.value.list
<1>4. s \in Seq(TomlItem) /\ i \in Range(s)
  BY <1>1, <1>2, <1>3
<1> HIDE DEF s
<1> QED
  BY <1>4 DEF Range

\* The parts of the filters.
LEMMA PartsOfFilters ==
    ASSUME NEW ips, NEW cidrs, NEW flags, NEW f, f = IgnoreFilters(ips, cidrs, flags)
    PROVE  /\ f.ip_set = {unmap_addr(ip) : ip \in ips}
           /\ f.cidr_matcher = CidrMatcher(cidrs) /\ f.flag_mask = flags
BY DEF IgnoreFilters

\* The filters of a file that is accepted.
LEMMA FiltersOfFile ==
    ASSUME file \in Seq(TomlLine), Accepts(parse_toml(file)), NEW a \in IpAddr
    PROVE  should_ignore_addr(load(file).filters, a) <=>
              \E key \in {"ignore_ips", "ignore_cidrs"} :
                 LinesOf("filters", key) # {} /\
                 \E item \in Range(Given("filters", key).list) :
                    IF item.what = "ip" THEN unmap_addr(a) = unmap_addr(item.addr)
                    ELSE InCidr(unmap_addr(a), item)
<1> DEFINE t == parse_toml(file)
           b == unmap_addr(a)
           Ips == Range(TakenList(t, <<"filters", "ignore_ips">>))
           Nets == Range(TakenList(t, <<"filters", "ignore_cidrs">>))
           Addrs == {i.addr : i \in Ips}
           Cidrs == {<<i.addr, i.prefix>> : i \in Nets}
           Flags == {i.flag : i \in Range(TakenList(t, <<"filters", "ignore_addr_flags">>))}
<1>1. TableAt(t, Len(file)) /\ t = parse_toml(file) /\ Accepts(t)
  BY FileRead
<1>2. load(file).filters = IgnoreFilters(Addrs, Cidrs, Flags)
  BY <1>1, LoadIs, Zenon
<1> HIDE DEF t, Flags
<1>3. Holds(t, Len(file))
  BY <1>1, Zenon DEF TableAt, Accepts
<1>4. b \in IpAddr
  BY UnmapTyped
<1>5. \A i \in Ips : i.what = "ip"
  <2>1. parse_ip_list(TakenList(t, <<"filters", "ignore_ips">>))
    BY <1>1, Zenon DEF Accepts
  <2> QED
    BY <2>1 DEF parse_ip_list, Range
<1>6. \A i \in Nets : i.what # "ip" /\ i.prefix <= Width(i.addr.family) /\ i \in TomlItem
  <2>1. parse_cidr_list(TakenList(t, <<"filters", "ignore_cidrs">>))
    BY <1>1, Zenon DEF Accepts
  <2>2. \A i \in Nets : i.what = "cidr" /\ i.prefix <= Width(i.addr.family)
    BY <2>1 DEF parse_cidr_list, Range
  <2>3. \A i \in Nets : i \in TomlItem
    BY <1>3, TakenTyped
  <2> QED
    BY <2>2, <2>3
<1>7. \A i : i \in Ips <=> LinesOf("filters", "ignore_ips") # {}
                           /\ i \in Range(Given("filters", "ignore_ips").list)
  BY <1>3, TakenIs
<1>8. \A i : i \in Nets <=> LinesOf("filters", "ignore_cidrs") # {}
                            /\ i \in Range(Given("filters", "ignore_cidrs").list)
  BY <1>3, TakenIs
<1> HIDE DEF b, Ips, Nets
<1>9. /\ load(file).filters.ip_set = {unmap_addr(ip) : ip \in Addrs}
      /\ load(file).filters.cidr_matcher = CidrMatcher(Cidrs)
  BY <1>2, PartsOfFilters
<1>10. should_ignore_addr(load(file).filters, a) <=>
          \/ b \in {unmap_addr(ip) : ip \in Addrs}
          \/ contains(CidrMatcher(Cidrs), b)
  BY <1>9, Zenon DEF should_ignore_addr, b
<1>11. b \in {unmap_addr(ip) : ip \in Addrs} <=> \E i \in Ips : b = unmap_addr(i.addr)
  BY Zenon
<1>12. contains(CidrMatcher(Cidrs), b) <=> \E i \in Nets : InCidr(b, i)
  <2>1. contains(CidrMatcher(Cidrs), b) <=>
           \E c \in Cidrs : /\ c[1].family = b.family
                            /\ mask(b.value, c[2], Width(b.family)) = mask(c[1].value, c[2], Width(b.family))
    BY <1>4, MatcherIs
  <2>2. \A i \in Nets : InCidr(b, i) <=>
           /\ i.addr.family = b.family
           /\ mask(b.value, i.prefix, Width(b.family)) = mask(i.addr.value, i.prefix, Width(b.family))
    BY <1>4, <1>6, InCidrIs, Zenon
  <2>3. \A x, y : <<x, y>>[1] = x /\ <<x, y>>[2] = y
    OBVIOUS
  <2>4. ASSUME NEW c \in Cidrs, c[1].family = b.family,
               mask(b.value, c[2], Width(b.family)) = mask(c[1].value, c[2], Width(b.family))
        PROVE  \E i \in Nets : InCidr(b, i)
    <3>1. PICK i \in Nets : c = <<i.addr, i.prefix>>
      BY Zenon
    <3>2. c[1] = i.addr /\ c[2] = i.prefix
      BY <3>1
    <3> QED
      BY <2>2, <2>4, <3>2, Zenon
  <2>5. ASSUME NEW i \in Nets, InCidr(b, i)
        PROVE  \E c \in Cidrs : /\ c[1].family = b.family
                                /\ mask(b.value, c[2], Width(b.family)) = mask(c[1].value, c[2], Width(b.family))
    <3>1. /\ i.addr.family = b.family
          /\ mask(b.value, i.prefix, Width(b.family)) = mask(i.addr.value, i.prefix, Width(b.family))
      BY <2>2, <2>5, Zenon
    <3> DEFINE c == <<i.addr, i.prefix>>
    <3>2. c \in Cidrs /\ c[1] = i.addr /\ c[2] = i.prefix
      BY <2>3, Zenon
    <3> HIDE DEF c
    <3> QED
      BY <3>1, <3>2, Zenon
  <2> QED
    BY <2>1, <2>4, <2>5, Zenon
<1>13. (\E i \in Ips : b = unmap_addr(i.addr)) <=>
          LinesOf("filters", "ignore_ips") # {} /\
          \E item \in Range(Given("filters", "ignore_ips").list) :
             IF item.what = "ip" THEN b = unmap_addr(item.addr) ELSE InCidr(b, item)
  BY <1>5, <1>7, Zenon
<1>14. (\E i \in Nets : InCidr(b, i)) <=>
          LinesOf("filters", "ignore_cidrs") # {} /\
          \E item \in Range(Given("filters", "ignore_cidrs").list) :
             IF item.what = "ip" THEN b = unmap_addr(item.addr) ELSE InCidr(b, item)
  BY <1>6, <1>8, Zenon
<1> HIDE DEF Addrs, Cidrs
<1> QED
  BY <1>10, <1>11, <1>12, <1>13, <1>14, Zenon DEF b

\* An address is ignored exactly if it is listed or lies in a listed network
\* (FiltersAreExact), for all widths of addresses and all files that load accepts
\* (FiltersOfFile): masks are equal exactly if the first bits are (MaskIs).
THEOREM FiltersAreAlwaysExact == Spec => []FiltersAreExact
<1>1. StageInv => FiltersAreExact
  <2> SUFFICES ASSUME StageInv, options.ok, NEW a \in IpAddr
               PROVE  should_ignore_addr(options.filters, a) <=>
                         \E key \in {"ignore_ips", "ignore_cidrs"} :
                            LinesOf("filters", key) # {} /\
                            \E item \in Range(Given("filters", key).list) :
                               IF item.what = "ip" THEN unmap_addr(a) = unmap_addr(item.addr)
                               ELSE InCidr(unmap_addr(a), item)
    BY Zenon DEF FiltersAreExact
  <2>1. options # NoOptions
    BY LoadIs, Zenon
  <2>2. options = load(file) /\ Accepts(parse_toml(file)) /\ file \in Seq(TomlLine)
    BY <2>1, Zenon DEF StageInv
  <2> QED
    BY <2>2, FiltersOfFile, Zenon
<1> QED
  BY <1>1, StageInvHolds, PTL

-----------------------------------------------------------------------------
(* The messages.                                                            *)

AttrStart(m)      == [flags |-> m.flags, addr |-> NoAddr]
AttrTurn(m, r, n) == AttrStep(m.family, r, m.attrs[n])
AttrLoop == INSTANCE Loops WITH Start <- AttrStart, Step <- AttrTurn

\* The equation of the loop over the attributes.
LEMMA AttrsReadIs ==
    ASSUME NEW A, NEW m, m.attrs \in Seq(A)
    PROVE  /\ AttrsRead(m)[0] = [flags |-> m.flags, addr |-> NoAddr]
           /\ \A n \in 1 .. Len(m.attrs) :
                 AttrsRead(m)[n] = AttrStep(m.family, AttrsRead(m)[n - 1], m.attrs[n])
<1>1. AttrsRead(m) = AttrLoop!Run(m, Len(m.attrs))
  BY DEF AttrsRead, AttrLoop!Run, AttrStart, AttrTurn
<1>2. Len(m.attrs) \in Nat
  OBVIOUS
<1> QED
  BY <1>1, <1>2, AttrLoop!RunIs, Induction DEF AttrLoop!Inductive, AttrStart, AttrTurn

\* The attributes of the messages of a family.
Attr(family) == [type : {"IFA_LOCAL", "IFA_ADDRESS"}, addr : Addr(family)]
                   \cup [type : {"IFA_FLAGS"}, flags : SUBSET {"temporary"}]

\* A message has the attributes of its family, each at most once.
LEMMA MessagesTyped ==
    ASSUME NEW family \in {4, 6}, NEW m \in Messages(family)
    PROVE  /\ m.family = family /\ m.attrs \in Seq(Attr(family))
           /\ \A i, j \in DOMAIN m.attrs : m.attrs[i].type = m.attrs[j].type => i = j
<1> DEFINE S == {s \in UNION {[1 .. n -> Attr(family)] : n \in 0 .. 3} :
                     \A i, j \in DOMAIN s : s[i].type = s[j].type => i = j}
<1>1. m \in [family : {family}, scope : {0, 1}, flags : SUBSET {"temporary"}, attrs : S]
  BY Zenon DEF Messages, Attr
<1> HIDE DEF S
<1>2. m.family = family /\ m.attrs \in S
  BY <1>1
<1>3. Seq(Attr(family)) = UNION {[1 .. n -> Attr(family)] : n \in Nat}
  OBVIOUS
<1>4. 0 .. 3 \subseteq Nat
  OBVIOUS
<1>5. m.attrs \in Seq(Attr(family))
  BY <1>2, <1>3, <1>4, Zenon DEF S
<1> QED
  BY <1>2, <1>5, Zenon DEF S

\* A turn of the loop.
LEMMA AttrStepIs ==
    ASSUME NEW family, NEW r, NEW attr, r = [flags |-> r.flags, addr |-> r.addr],
           NEW h, h = AttrStep(family, r, attr)
    PROVE  /\ h = [flags |-> h.flags, addr |-> h.addr]
           /\ h.flags = IF attr.type = "IFA_FLAGS" THEN attr.flags ELSE r.flags
           /\ h.addr = IF \/ attr.type = "IFA_LOCAL" /\ family = 4
                          \/ attr.type = "IFA_ADDRESS" /\ (family # 4 \/ r.addr = NoAddr)
                       THEN attr.addr ELSE r.addr
<1>1. CASE attr.type = "IFA_FLAGS"
  <2>1. h = [r EXCEPT !.flags = attr.flags]
    BY <1>1 DEF AttrStep
  <2> QED
    BY <1>1, <2>1
<1>2. CASE \/ attr.type = "IFA_LOCAL" /\ family = 4
           \/ attr.type = "IFA_ADDRESS" /\ (family # 4 \/ r.addr = NoAddr)
  <2>1. h = [r EXCEPT !.addr = attr.addr] /\ attr.type # "IFA_FLAGS"
    BY <1>2 DEF AttrStep
  <2> QED
    BY <1>2, <2>1
<1>3. CASE /\ attr.type # "IFA_FLAGS"
           /\ ~(attr.type = "IFA_LOCAL" /\ family = 4)
           /\ ~(attr.type = "IFA_ADDRESS" /\ (family # 4 \/ r.addr = NoAddr))
  <2>1. h = r
    BY <1>3 DEF AttrStep
  <2> QED
    BY <1>3, <2>1
<1> QED
  BY <1>1, <1>2, <1>3

\* What is known after the first n attributes of m: the flags of IFA_FLAGS, if it was one of
\* them; of an IPv4 message the address of IFA_LOCAL, if it was one of them; else that of
\* IFA_ADDRESS.
None(m, n, type) == \A i \in 1 .. n : m.attrs[i].type # type

KnownTo(m, n, r) ==
    /\ r = [flags |-> r.flags, addr |-> r.addr]
    /\ \A i \in 1 .. n : m.attrs[i].type = "IFA_FLAGS" => r.flags = m.attrs[i].flags
    /\ None(m, n, "IFA_FLAGS") => r.flags = m.flags
    /\ \A i \in 1 .. n : m.attrs[i].type = "IFA_LOCAL" /\ m.family = 4 => r.addr = m.attrs[i].addr
    /\ m.family # 4 \/ None(m, n, "IFA_LOCAL") =>
          /\ \A i \in 1 .. n : m.attrs[i].type = "IFA_ADDRESS" => r.addr = m.attrs[i].addr
          /\ None(m, n, "IFA_ADDRESS") => r.addr = NoAddr

\* An attribute more.
LEMMA KnownStep ==
    ASSUME NEW family \in {4, 6}, NEW m \in Messages(family),
           NEW n \in 0 .. Len(m.attrs) - 1, NEW r, KnownTo(m, n, r),
           NEW h, h = AttrStep(m.family, r, m.attrs[n + 1])
    PROVE  KnownTo(m, n + 1, h)
<1> DEFINE a == m.attrs[n + 1]
<1>1. /\ m.family = family /\ m.attrs \in Seq(Attr(family))
      /\ \A i, j \in DOMAIN m.attrs : m.attrs[i].type = m.attrs[j].type => i = j
  BY MessagesTyped
<1>2. /\ n \in Nat /\ n + 1 \in DOMAIN m.attrs /\ a \in Attr(family)
      /\ 1 .. n \subseteq DOMAIN m.attrs /\ n + 1 \notin 1 .. n
      /\ 1 .. n + 1 = (1 .. n) \cup {n + 1}
  BY <1>1
<1>3. \A i \in 1 .. n : m.attrs[i].type # a.type
  BY <1>1, <1>2, Zenon
<1>4. /\ h = [flags |-> h.flags, addr |-> h.addr]
      /\ h.flags = IF a.type = "IFA_FLAGS" THEN a.flags ELSE r.flags
      /\ h.addr = IF \/ a.type = "IFA_LOCAL" /\ family = 4
                     \/ a.type = "IFA_ADDRESS" /\ (family # 4 \/ r.addr = NoAddr)
                  THEN a.addr ELSE r.addr
  BY <1>1, AttrStepIs DEF KnownTo
<1>5. a.type \in {"IFA_LOCAL", "IFA_ADDRESS", "IFA_FLAGS"}
  BY <1>2 DEF Attr
<1>6. \A i \in 1 .. n : m.attrs[i].type \in {"IFA_LOCAL", "IFA_ADDRESS"} => m.attrs[i].addr # NoAddr
  <2> SUFFICES ASSUME NEW i \in 1 .. n, m.attrs[i].type \in {"IFA_LOCAL", "IFA_ADDRESS"}
               PROVE  m.attrs[i].addr # NoAddr
    OBVIOUS
  <2>1. m.attrs[i] \in Attr(family)
    BY <1>1, <1>2
  <2>2. m.attrs[i].addr \in Addr(family)
    BY <2>1 DEF Attr
  <2> QED
    BY <2>2 DEF Addr, NoAddr
<1>7. \A type : None(m, n + 1, type) <=> None(m, n, type) /\ a.type # type
  BY <1>2, Zenon DEF None
<1> HIDE DEF a
<1>8. \A i \in 1 .. n + 1 : m.attrs[i].type = "IFA_FLAGS" => h.flags = m.attrs[i].flags
  <2>1. \A i \in 1 .. n : m.attrs[i].type = "IFA_FLAGS" => h.flags = m.attrs[i].flags
    BY <1>3, <1>4, Zenon DEF KnownTo
  <2>2. a.type = "IFA_FLAGS" => h.flags = a.flags
    BY <1>4, Zenon
  <2> QED
    BY <1>2, <2>1, <2>2, Zenon DEF a
<1>9. None(m, n + 1, "IFA_FLAGS") => h.flags = m.flags
  BY <1>4, <1>7, Zenon DEF KnownTo
<1>10. \A i \in 1 .. n + 1 : m.attrs[i].type = "IFA_LOCAL" /\ m.family = 4 => h.addr = m.attrs[i].addr
  <2>1. ASSUME NEW i \in 1 .. n, m.attrs[i].type = "IFA_LOCAL", m.family = 4
        PROVE  h.addr = m.attrs[i].addr
    <3>1. r.addr = m.attrs[i].addr /\ a.type # "IFA_LOCAL"
      BY <1>3, <2>1, Zenon DEF KnownTo
    <3>2. r.addr # NoAddr
      BY <1>6, <2>1, <3>1
    <3> QED
      BY <1>1, <1>4, <2>1, <3>1, <3>2
  <2>2. a.type = "IFA_LOCAL" /\ m.family = 4 => h.addr = a.addr
    BY <1>1, <1>4
  <2> QED
    BY <1>2, <2>1, <2>2, Zenon DEF a
<1>11. ASSUME m.family # 4 \/ None(m, n + 1, "IFA_LOCAL")
       PROVE  /\ \A i \in 1 .. n + 1 : m.attrs[i].type = "IFA_ADDRESS" => h.addr = m.attrs[i].addr
              /\ None(m, n + 1, "IFA_ADDRESS") => h.addr = NoAddr
  <2>1. /\ \A i \in 1 .. n : m.attrs[i].type = "IFA_ADDRESS" => r.addr = m.attrs[i].addr
        /\ None(m, n, "IFA_ADDRESS") => r.addr = NoAddr
    BY <1>7, <1>11, Zenon DEF KnownTo
  <2>2. ~(a.type = "IFA_LOCAL" /\ family = 4)
    BY <1>1, <1>7, <1>11, Zenon
  <2>3. CASE a.type = "IFA_ADDRESS"
    <3>1. None(m, n, "IFA_ADDRESS")
      BY <1>3, <2>3, Zenon DEF None
    <3>2. h.addr = a.addr
      BY <1>4, <2>1, <2>3, <3>1
    <3>3. \A i \in 1 .. n : m.attrs[i].type # "IFA_ADDRESS"
      BY <3>1 DEF None
    <3> QED
      BY <1>2, <1>7, <2>3, <3>2, <3>3, Zenon DEF a
  <2>4. CASE a.type # "IFA_ADDRESS"
    <3>1. h.addr = r.addr
      BY <1>4, <2>2, <2>4
    <3> QED
      BY <1>2, <1>7, <2>1, <2>4, <3>1, Zenon DEF a
  <2> QED
    BY <2>3, <2>4
<1> QED
  BY <1>4, <1>8, <1>9, <1>10, <1>11, Zenon DEF KnownTo

\* So the attributes are read whatever their order.
LEMMA AttrsKnown ==
    ASSUME NEW family \in {4, 6}, NEW m \in Messages(family)
    PROVE  KnownTo(m, Len(m.attrs), parse_ifaddr_attrs(m))
<1> DEFINE k == Len(m.attrs)
           T == {n \in 0 .. k : KnownTo(m, n, AttrsRead(m)[n])}
<1>1. m.attrs \in Seq(Attr(family)) /\ k \in Nat
  BY MessagesTyped
<1>2. 0 \in T
  <2> DEFINE r == AttrsRead(m)[0]
  <2>1. r = [flags |-> m.flags, addr |-> NoAddr]
    BY <1>1, AttrsReadIs
  <2> HIDE DEF r
  <2>2. r = [flags |-> r.flags, addr |-> r.addr] /\ r.flags = m.flags /\ r.addr = NoAddr
    BY <2>1
  <2>3. 1 .. 0 = {}
    OBVIOUS
  <2>4. KnownTo(m, 0, r)
    BY <2>2, <2>3, Zenon DEF KnownTo
  <2> QED
    BY <1>1, <2>4 DEF r
<1>3. ASSUME NEW n \in 0 .. k - 1, n \in T PROVE n + 1 \in T
  <2>1. n + 1 \in 1 .. k /\ n + 1 \in 0 .. k /\ (n + 1) - 1 = n
    BY <1>1
  <2>2. AttrsRead(m)[n + 1] = AttrStep(m.family, AttrsRead(m)[n], m.attrs[n + 1])
    BY <1>1, <2>1, AttrsReadIs
  <2>3. KnownTo(m, n, AttrsRead(m)[n])
    BY <1>3
  <2>4. KnownTo(m, n + 1, AttrsRead(m)[n + 1])
    BY <2>2, <2>3, KnownStep
  <2> QED
    BY <2>1, <2>4
<1>4. k \in T
  <2> HIDE DEF T, k
  <2>1. \A n \in 0 .. k : n \in T
    BY <1>1, <1>2, <1>3, UpTo
  <2> QED
    BY <1>1, <2>1
<1> QED
  BY <1>4 DEF parse_ifaddr_attrs

\* The attribute of a type is the only one.
LEMMA AttrOfIs ==
    ASSUME NEW family \in {4, 6}, ifa \in Messages(family), NEW ty, NEW default
    PROVE  /\ \A i \in 1 .. Len(ifa.attrs) :
                 ifa.attrs[i].type = ty => AttrOf(ty, default) = ifa.attrs[i]
           /\ None(ifa, Len(ifa.attrs), ty) => AttrOf(ty, default) = default
           /\ \/ None(ifa, Len(ifa.attrs), ty)
              \/ \E i \in 1 .. Len(ifa.attrs) : ifa.attrs[i].type = ty
<1>1. /\ ifa.attrs \in Seq(Attr(family))
      /\ \A i, j \in DOMAIN ifa.attrs : ifa.attrs[i].type = ifa.attrs[j].type => i = j
  BY MessagesTyped
<1>2. DOMAIN ifa.attrs = 1 .. Len(ifa.attrs)
  BY <1>1
<1>3. ASSUME NEW i \in 1 .. Len(ifa.attrs), ifa.attrs[i].type = ty
      PROVE  AttrOf(ty, default) = ifa.attrs[i]
  <2>1. (CHOOSE j \in DOMAIN ifa.attrs : ifa.attrs[j].type = ty) = i
    BY <1>1, <1>2, <1>3, Zenon
  <2> QED
    BY <1>2, <1>3, <2>1, Zenon DEF AttrOf
<1>4. None(ifa, Len(ifa.attrs), ty) => AttrOf(ty, default) = default
  BY <1>2, Zenon DEF AttrOf, None
<1> QED
  BY <1>3, <1>4, Zenon DEF None

\* The address and the flags that a message is about.
PeerOf  == AttrOf("IFA_ADDRESS", [addr |-> NoAddr]).addr
OwnOf   == IF ifa.family = 6 THEN PeerOf ELSE AttrOf("IFA_LOCAL", [addr |-> PeerOf]).addr
FlagsOf == AttrOf("IFA_FLAGS", [flags |-> ifa.flags]).flags

\* The loop ends with them.
LEMMA AttrsMeant ==
    ASSUME NEW family \in {4, 6}, ifa \in Messages(family)
    PROVE  /\ parse_ifaddr_attrs(ifa).addr = OwnOf
           /\ parse_ifaddr_attrs(ifa).flags = FlagsOf
           /\ OwnOf \in IpAddr \cup {NoAddr}
<1> DEFINE r == parse_ifaddr_attrs(ifa)
           n == Len(ifa.attrs)
<1>1. KnownTo(ifa, n, r)
  BY AttrsKnown
<1>2. ifa.family = family /\ ifa.attrs \in Seq(Attr(family)) /\ DOMAIN ifa.attrs = 1 .. n
      /\ \A i \in 1 .. n : ifa.attrs[i] \in Attr(family)
  BY MessagesTyped
<1>3. \A x : [addr |-> x].addr = x /\ [flags |-> x].flags = x
  OBVIOUS
<1> HIDE DEF r, n
<1>4. r.flags = FlagsOf
  <2>1. CASE None(ifa, n, "IFA_FLAGS")
    <3>1. AttrOf("IFA_FLAGS", [flags |-> ifa.flags]) = [flags |-> ifa.flags]
      BY <2>1, AttrOfIs DEF n
    <3>2. r.flags = ifa.flags
      BY <1>1, <2>1, Zenon DEF KnownTo
    <3> QED
      BY <1>3, <3>1, <3>2, Zenon DEF FlagsOf
  <2>2. ASSUME NEW i \in 1 .. n, ifa.attrs[i].type = "IFA_FLAGS" PROVE r.flags = FlagsOf
    <3>1. AttrOf("IFA_FLAGS", [flags |-> ifa.flags]) = ifa.attrs[i]
      BY <2>2, AttrOfIs DEF n
    <3>2. r.flags = ifa.attrs[i].flags
      BY <1>1, <2>2, Zenon DEF KnownTo
    <3> QED
      BY <3>1, <3>2, Zenon DEF FlagsOf
  <2> QED
    BY <2>1, <2>2, Zenon DEF None
<1>5. /\ \A i \in 1 .. n : ifa.attrs[i].type = "IFA_ADDRESS" => PeerOf = ifa.attrs[i].addr
      /\ None(ifa, n, "IFA_ADDRESS") => PeerOf = NoAddr
  <2>1. /\ \A i \in 1 .. n : ifa.attrs[i].type = "IFA_ADDRESS"
                             => AttrOf("IFA_ADDRESS", [addr |-> NoAddr]) = ifa.attrs[i]
        /\ None(ifa, n, "IFA_ADDRESS") => AttrOf("IFA_ADDRESS", [addr |-> NoAddr]) = [addr |-> NoAddr]
    BY AttrOfIs DEF n
  <2> QED
    BY <1>3, <2>1, Zenon DEF PeerOf
<1>6. /\ \A i \in 1 .. n : ifa.attrs[i].type = "IFA_LOCAL"
                           => AttrOf("IFA_LOCAL", [addr |-> PeerOf]).addr = ifa.attrs[i].addr
      /\ None(ifa, n, "IFA_LOCAL") => AttrOf("IFA_LOCAL", [addr |-> PeerOf]).addr = PeerOf
  <2>1. /\ \A i \in 1 .. n : ifa.attrs[i].type = "IFA_LOCAL"
                             => AttrOf("IFA_LOCAL", [addr |-> PeerOf]) = ifa.attrs[i]
        /\ None(ifa, n, "IFA_LOCAL") => AttrOf("IFA_LOCAL", [addr |-> PeerOf]) = [addr |-> PeerOf]
    BY AttrOfIs DEF n
  <2> QED
    BY <1>3, <2>1, Zenon
<1>7. ifa.family # 4 \/ None(ifa, n, "IFA_LOCAL") => r.addr = PeerOf
  <2>1. CASE None(ifa, n, "IFA_ADDRESS")
    BY <1>1, <1>5, <2>1, Zenon DEF KnownTo
  <2>2. ASSUME NEW i \in 1 .. n, ifa.attrs[i].type = "IFA_ADDRESS",
               ifa.family # 4 \/ None(ifa, n, "IFA_LOCAL")
        PROVE  r.addr = PeerOf
    BY <1>1, <1>5, <2>2, Zenon DEF KnownTo
  <2> QED
    BY <2>1, <2>2, Zenon DEF None
<1>8. \A i \in 1 .. n : ifa.attrs[i].type \in {"IFA_LOCAL", "IFA_ADDRESS"} => ifa.attrs[i].addr \in IpAddr
  <2> SUFFICES ASSUME NEW i \in 1 .. n, ifa.attrs[i].type \in {"IFA_LOCAL", "IFA_ADDRESS"}
               PROVE  ifa.attrs[i].addr \in IpAddr
    OBVIOUS
  <2>1. ifa.attrs[i] \in Attr(family)
    BY <1>2
  <2>2. ifa.attrs[i].addr \in Addr(family)
    BY <2>1 DEF Attr
  <2> QED
    BY <2>2 DEF IpAddr
<1>9. PeerOf \in IpAddr \cup {NoAddr}
  BY <1>5, <1>8, Zenon DEF None
<1>10. CASE ifa.family = 6
  BY <1>4, <1>7, <1>9, <1>10 DEF OwnOf, r
<1>11. CASE ifa.family = 4
  <2>1. OwnOf = AttrOf("IFA_LOCAL", [addr |-> PeerOf]).addr
    BY <1>11 DEF OwnOf
  <2>2. CASE None(ifa, n, "IFA_LOCAL")
    BY <1>4, <1>6, <1>7, <1>9, <2>1, <2>2, Zenon DEF r
  <2>3. ASSUME NEW i \in 1 .. n, ifa.attrs[i].type = "IFA_LOCAL"
        PROVE  r.addr = OwnOf /\ OwnOf \in IpAddr
    <3>1. r.addr = ifa.attrs[i].addr
      BY <1>1, <1>11, <2>3, Zenon DEF KnownTo
    <3>2. OwnOf = ifa.attrs[i].addr
      BY <1>6, <2>1, <2>3, Zenon
    <3> QED
      BY <1>8, <2>3, <3>1, <3>2, Zenon
  <2> QED
    BY <1>4, <2>2, <2>3, Zenon DEF None, r
<1> QED
  BY <1>2, <1>10, <1>11

\* A list keeps its elements.
LEMMA ArrayIs == \A s : Array(s).list = s
<1>1. ASSUME NEW v \in TomlValue, NEW s PROVE [v EXCEPT !.list = s].list = s
  BY DEF TomlValue
<1>2. Value("Array") \in TomlValue
  BY ValuesTyped DEF TomlType
<1> QED
  BY <1>1, <1>2, Zenon DEF Array

\* The files under which messages are read have no addresses and no networks.
LEMMA EventFilesIgnoreNothing ==
    ASSUME file \in EventFiles, NEW key \in {"ignore_ips", "ignore_cidrs"}, LinesOf("filters", key) # {}
    PROVE  Given("filters", key).list = <<>>
<1>1. PICK flags \in {<<>>, <<Flag("temporary")>>}, ipv6 \in BOOLEAN :
         file = WithFilters(flags, <<>>, <<>>, ipv6)
  BY DEF EventFiles
<1>2. DOMAIN Base = 1 .. 15
  <2>1. ASSUME NEW f \in Seq(TomlLine) PROVE DOMAIN f = 1 .. Len(f)
    OBVIOUS
  <2> QED
    BY <2>1, BaseTyped, Zenon
<1>3. \A i \in 1 .. 15 : i \notin {2, 13, 14, 15} => Base[i].name \notin {"ignore_ips", "ignore_cidrs"}
  BY DEF Base, Section, Pair
<1>4. \A n, v : Pair(n, v).name = n /\ Pair(n, v).value = v
  BY DEF Pair
<1>5. ASSUME NEW i \in 1 .. 15, file[i].name = key PROVE file[i].value.list = <<>>
  <2>1. CASE i \in {14, 15}
    <3>1. file[i] = Pair("ignore_ips", Array(<<>>)) \/ file[i] = Pair("ignore_cidrs", Array(<<>>))
      BY <1>1, <1>2, <2>1 DEF WithFilters
    <3>2. /\ Pair("ignore_ips", Array(<<>>)).value = Array(<<>>)
          /\ Pair("ignore_cidrs", Array(<<>>)).value = Array(<<>>)
      BY <1>4, Zenon
    <3>3. file[i].value = Array(<<>>)
      BY <3>1, <3>2
    <3> QED
      BY <3>3, ArrayIs, Zenon
  <2>2. CASE i = 2
    <3>1. file[i] = Pair("ipv6", Bool(ipv6))
      BY <1>1, <1>2, <2>2 DEF WithFilters
    <3>2. file[i].name = "ipv6"
      BY <1>4, <3>1, Zenon
    <3> QED
      BY <1>5, <3>2
  <2>3. CASE i = 13
    <3>1. file[i] = Pair("ignore_addr_flags", Array(flags))
      BY <1>1, <1>2, <2>3 DEF WithFilters
    <3>2. file[i].name = "ignore_addr_flags"
      BY <1>4, <3>1, Zenon
    <3> QED
      BY <1>5, <3>2
  <2>4. CASE i \notin {2, 13, 14, 15}
    <3>1. file[i] = Base[i]
      BY <1>1, <1>2, <2>4 DEF WithFilters
    <3> QED
      BY <1>3, <1>5, <2>4, <3>1
  <2> QED
    BY <2>1, <2>2, <2>3, <2>4
<1>6. DOMAIN file = 1 .. 15
  BY <1>1, <1>2 DEF WithFilters
<1> DEFINE j == CHOOSE i \in LinesOf("filters", key) : TRUE
<1>7. j \in LinesOf("filters", key)
  BY Zenon
<1>8. Given("filters", key) = file[j].value
  BY DEF Given
<1> HIDE DEF j
<1>9. j \in DOMAIN file /\ file[j].name = key
  BY <1>7, Zenon DEF LinesOf
<1> QED
  BY <1>5, <1>6, <1>8, <1>9, Zenon

\* A message concerns the daemon.
Concerns(m, ipv6, f, own, flags) ==
    /\ m.scope = 0
    /\ m.family = 6 => ipv6
    /\ flags \cap f.flag_mask = {}
    /\ own # NoAddr /\ is_valid_addr(unmap_addr(own))

\* What the event and the snapshot make of it.
EventMeans(type, m, ipv6, f, own, flags) ==
    LET e    == parse_addr_event(type, m, ipv6, f)
        ours == Concerns(m, ipv6, f, own, flags)
    IN /\ e.kind = IF own = NoAddr THEN "error" ELSE IF ours THEN "op" ELSE "none"
       /\ ours => e.addr = unmap_addr(own)
       /\ snapshot_interface_keys({m}, ipv6, f) = (IF ours THEN {unmap_addr(own)} ELSE {})

\* A message whose attributes are read means that, if nothing is ignored.
LEMMA EventIs ==
    ASSUME NEW type, NEW m, NEW ipv6, NEW f, NEW own \in IpAddr \cup {NoAddr}, NEW flags,
           parse_ifaddr_attrs(m).addr = own, parse_ifaddr_attrs(m).flags = flags,
           own # NoAddr => ~should_ignore_addr(f, unmap_addr(own))
    PROVE  EventMeans(type, m, ipv6, f, own, flags)
<1> DEFINE e    == parse_addr_event(type, m, ipv6, f)
           ours == Concerns(m, ipv6, f, own, flags)
<1>1. ours <=> /\ m.scope = 0
               /\ m.family = 6 => ipv6
               /\ flags \cap f.flag_mask = {}
               /\ own # NoAddr /\ is_valid_addr(unmap_addr(own))
  BY Zenon DEF Concerns
<1> DEFINE p == parse_ifaddr_attrs(m)
           a == unmap_addr(own)
           k == parse_addr_from_ifaddr(m, p, ipv6, f)
<1>2. k = IF \/ m.scope # 0
             \/ m.family = 6 /\ ~ipv6
             \/ flags \cap f.flag_mask # {}
             \/ ~is_valid_addr(a)
             \/ should_ignore_addr(f, a)
          THEN NoAddr ELSE a
  BY Zenon DEF parse_addr_from_ifaddr
<1>3. own # NoAddr => a # NoAddr
  <2>1. ASSUME own # NoAddr PROVE a # NoAddr
    <3>1. a \in IpAddr
      BY <2>1, UnmapTyped
    <3>2. a.family \in {4, 6}
      BY <3>1 DEF IpAddr, Addr
    <3> QED
      BY <3>2 DEF NoAddr
  <2> QED
    BY <2>1
<1>4. snapshot_interface_keys({m}, ipv6, f) =
         {parse_addr_from_ifaddr(x, parse_ifaddr_attrs(x), ipv6, f) :
             x \in {y \in {m} : /\ y.family = 6 => ipv6
                                /\ parse_ifaddr_attrs(y).addr # NoAddr}} \ {NoAddr}
  BY DEF snapshot_interface_keys
<1>5. e = IF own = NoAddr THEN [kind |-> "error"]
               ELSE IF k = NoAddr THEN [kind |-> "none"]
               ELSE [kind |-> "op", addr |-> k,
                     action |-> IF type = "RTM_DELADDR" THEN "Delete" ELSE "Add"]
  BY Zenon DEF parse_addr_event
<1>6. k = parse_addr_from_ifaddr(m, p, ipv6, f) /\ p = parse_ifaddr_attrs(m) /\ p.addr = own
  OBVIOUS
<1> HIDE DEF k, a, p, ours, e
<1>7. own # NoAddr => k = IF ours THEN a ELSE NoAddr
  BY <1>1, <1>2, Zenon DEF a
<1>8. CASE own = NoAddr
  <2>1. ~ours
    BY <1>1, <1>8, Zenon
  <2>2. e.kind = "error"
    BY <1>5, <1>8
  <2>3. snapshot_interface_keys({m}, ipv6, f) = {}
    BY <1>4, <1>6, <1>8, Zenon
  <2> QED
    BY <1>8, <2>1, <2>2, <2>3, Zenon DEF EventMeans, ours, e
<1>9. CASE own # NoAddr /\ ours
  <2>1. k = a /\ k # NoAddr
    BY <1>3, <1>7, <1>9, Zenon
  <2>2. e.kind = "op" /\ e.addr = a
    BY <1>5, <1>9, <2>1
  <2>3. snapshot_interface_keys({m}, ipv6, f) = {a}
    BY <1>1, <1>4, <1>6, <1>9, <2>1, Zenon
  <2> QED
    BY <1>9, <2>2, <2>3, Zenon DEF EventMeans, a, ours, e
<1>10. CASE own # NoAddr /\ ~ours
  <2>1. k = NoAddr
    BY <1>7, <1>10, Zenon
  <2>2. e.kind = "none"
    BY <1>5, <1>10, <2>1
  <2>3. snapshot_interface_keys({m}, ipv6, f) = {}
    BY <1>4, <1>6, <2>1, Zenon
  <2> QED
    BY <1>10, <2>2, <2>3, Zenon DEF EventMeans, ours, e
<1> QED
  BY <1>8, <1>9, <1>10, Zenon

\* A message means the same in whatever order its attributes come, and events and
\* snapshots agree on its key (MessagesReadAsMeant), for all widths of addresses: after
\* every attribute parse_ifaddr_attrs has what those so far say (KnownTo).
THEOREM MessagesAreReadAsMeant == Spec => []MessagesReadAsMeant
<1>1. StageInv => MessagesReadAsMeant
  <2> SUFFICES ASSUME StageInv, stage = "event" PROVE MessagesReadAsMeant
    BY Zenon DEF MessagesReadAsMeant
  <2>1. file \in EventFiles /\ file \in Seq(TomlLine)
    BY Zenon DEF StageInv
  <2>2. PICK family \in {4, 6}, type \in {"RTM_NEWADDR", "RTM_DELADDR"} :
           /\ ifa \in Messages(family)
           /\ event = parse_addr_event(type, ifa, options.ipv6, options.filters)
    BY Zenon DEF StageInv
  <2>3. options = load(file) /\ Accepts(parse_toml(file))
    BY DEF StageInv
  <2>4. /\ parse_ifaddr_attrs(ifa).addr = OwnOf /\ parse_ifaddr_attrs(ifa).flags = FlagsOf
        /\ OwnOf \in IpAddr \cup {NoAddr}
    BY <2>2, AttrsMeant
  <2>5. ASSUME NEW a \in IpAddr PROVE ~should_ignore_addr(options.filters, a)
    <3>1. \A key \in {"ignore_ips", "ignore_cidrs"} :
             LinesOf("filters", key) # {} => Range(Given("filters", key).list) = {}
      <4>1. Range(<<>>) = {}
        BY DEF Range
      <4> QED
        BY <2>1, <4>1, EventFilesIgnoreNothing
    <3>2. should_ignore_addr(load(file).filters, a) <=>
             \E key \in {"ignore_ips", "ignore_cidrs"} :
                LinesOf("filters", key) # {} /\
                \E item \in Range(Given("filters", key).list) :
                   IF item.what = "ip" THEN unmap_addr(a) = unmap_addr(item.addr)
                   ELSE InCidr(unmap_addr(a), item)
      BY <2>1, <2>3, FiltersOfFile
    <3> QED
      BY <2>3, <3>1, <3>2, Zenon
  <2>6. OwnOf # NoAddr => ~should_ignore_addr(options.filters, unmap_addr(OwnOf))
    BY <2>4, <2>5, UnmapTyped, Zenon
  <2>7. EventMeans(type, ifa, options.ipv6, options.filters, OwnOf, FlagsOf)
    BY <2>4, <2>6, EventIs, Zenon
  <2> QED
    BY <2>2, <2>7, Zenon DEF MessagesReadAsMeant, EventMeans, OwnOf, PeerOf, FlagsOf, Concerns
<1> QED
  BY <1>1, StageInvHolds, PTL
=============================================================================
