------------------------------- MODULE Config -------------------------------
(***************************************************************************)
(* The configuration file: parse_toml, the typed access to its keys and    *)
(* Options::load, up to the filters that Daemon::new builds from it.       *)
(* Constant operators.                                                     *)
(*                                                                         *)
(* A file is a sequence of lines that are neither blank nor comments; a    *)
(* line is a section header, a key with a value, or malformed.  The        *)
(* characters of a line are left out: an address in a list is an address,  *)
(* and whatever has no meaning is "bad".  Integers are read as i64 and two *)
(* of them are kept as u32, U bits wide here.                              *)
(***************************************************************************)
EXTENDS AddrFilter

CONSTANT U      \* the width of u32

ASSUME ConfigAssumption == U \in Nat \ {0}

EmptyStr == ""  \* also the section of a line above all headers

\* The elements of a list: ip, cidr, flag, "empty" or "bad".
Item(what) == [what |-> what, addr |-> NoAddr, prefix |-> 0, flag |-> EmptyStr]
Ip(a)      == [Item("ip") EXCEPT !.addr = a]
Net(c)     == [Item("cidr") EXCEPT !.addr = c[1], !.prefix = c[2]]
Flag(f)    == [Item("flag") EXCEPT !.flag = f]

\* TomlValue; "bad" is what parse_value or parse_array cannot read.
Value(type) == [type |-> type, int |-> 0, str |-> EmptyStr, bool |-> FALSE, list |-> <<>>]
Num(n)      == [Value("Int") EXCEPT !.int = n]
Str(s)      == [Value("Str") EXCEPT !.str = s]
Bool(b)     == [Value("Bool") EXCEPT !.bool = b]
Array(s)    == [Value("Array") EXCEPT !.list = s]

Section(name)    == [line |-> "section", name |-> name, value |-> Value("none")]
Pair(key, value) == [line |-> "pair", name |-> key, value |-> value]
Malformed        == [line |-> "malformed", name |-> EmptyStr, value |-> Value("none")]

-----------------------------------------------------------------------------
(* parse_toml: section -> key -> value                                      *)

NoTable == [error |-> FALSE, current |-> EmptyStr, sections |-> {}, keys |-> {},
            value |-> <<>>]

\* parse_toml returns an error: no line is read any more.
Rejected(t) == [t EXCEPT !.error = TRUE]

\* A map with a key, new or not.
Insert(map, key, value) ==
    [k \in DOMAIN map \cup {key} |-> IF k = key THEN value ELSE map[k]]

\* Mutant: a key that is given again replaces the value.
ParsePairAgain(t, line) ==
    IF t.current = EmptyStr \/ line.value.type = "bad" THEN Rejected(t)
    ELSE [t EXCEPT !.keys = @ \cup {<<t.current, line.name>>},
                   !.value = Insert(@, <<t.current, line.name>>, line.value)]

\* A key outside of a section, an unreadable value and a second value are errors.
parse_pair(t, line) ==
    IF \/ t.current = EmptyStr \/ line.value.type = "bad"
       \/ <<t.current, line.name>> \in t.keys
    THEN Rejected(t)
    ELSE [t EXCEPT !.keys = @ \cup {<<t.current, line.name>>},
                   !.value = Insert(@, <<t.current, line.name>>, line.value)]

\* A section may be opened again.
parse_line(t, line) ==
    CASE t.error -> t
      [] ~t.error /\ line.line = "section" ->
            [t EXCEPT !.sections = @ \cup {line.name}, !.current = line.name]
      [] ~t.error /\ line.line = "pair" -> parse_pair(t, line)
      [] OTHER -> Rejected(t)

\* The table after n lines.
Tables(file) ==
    LET t[n \in 0 .. Len(file)] == IF n = 0 THEN NoTable ELSE parse_line(t[n - 1], file[n])
    IN t

parse_toml(file) == Tables(file)[Len(file)]

-----------------------------------------------------------------------------
(* Options::load                                                            *)

KNOWN_SECTIONS == {"daemon", "log", "rule", "filters"}

\* take_u64, take_str, take_bool, take_array_or_default: the key is there and has
\* the type; only lists may be missing.
TakesU64(t, key)  == key \in t.keys /\ t.value[key].type = "Int" /\ t.value[key].int >= 0
TakesStr(t, key)  == key \in t.keys /\ t.value[key].type = "Str"
TakesBool(t, key) == key \in t.keys /\ t.value[key].type = "Bool"
TakesList(t, key) == key \in t.keys => t.value[key].type = "Array"

TakenList(t, key) == IF key \in t.keys THEN t.value[key].list ELSE <<>>

\* Mutant: keys that are not read are ignored.
AnyKeys(t) == TRUE

\* reject_unknown_keys: a section is empty once its keys are taken.
OnlyKnownKeys(t) ==
    t.keys \subseteq
        {<<"daemon", k>> : k \in {"ipv6", "debounce_ms", "debounce_max_ms", "batch_max"}}
        \cup {<<"log", k>> : k \in {"level", "file"}}
        \cup {<<"rule", k>> : k \in {"pref", "table_id"}}
        \cup {<<"filters", k>> : k \in {"ignore_addr_flags", "ignore_ips", "ignore_cidrs"}}

FlagName == {"temporary", "optimistic", "deprecated", "tentative", "dadfailed",
             "stable_privacy", "managetempaddr"}

\* The lists: every element of its kind, none twice.
parse_ignore_flag_mask(s) ==
    /\ \A i \in DOMAIN s : s[i].what = "flag" /\ s[i].flag \in FlagName
    /\ IsInjective(s)

parse_ip_list(s) ==
    /\ \A i \in DOMAIN s : s[i].what = "ip"
    /\ IsInjective(s)

parse_cidr_list(s) ==
    /\ \A i \in DOMAIN s : s[i].what = "cidr" /\ s[i].prefix <= Width(s[i].addr.family)
    /\ IsInjective(s)

\* The tables that load accepts: sections, keys and types, then the values.
Accepts(t) ==
    LET u32(key) == t.value[key].int % pow2[U]
    IN /\ ~t.error
       /\ t.sections = KNOWN_SECTIONS
       /\ OnlyKnownKeys(t)
       /\ TakesBool(t, <<"daemon", "ipv6">>)
       /\ TakesU64(t, <<"daemon", "debounce_ms">>)
       /\ TakesU64(t, <<"daemon", "debounce_max_ms">>)
       /\ TakesU64(t, <<"daemon", "batch_max">>)
       /\ TakesStr(t, <<"log", "level">>) /\ TakesStr(t, <<"log", "file">>)
       /\ TakesU64(t, <<"rule", "pref">>) /\ TakesU64(t, <<"rule", "table_id">>)
       /\ TakesList(t, <<"filters", "ignore_addr_flags">>)
       /\ TakesList(t, <<"filters", "ignore_ips">>)
       /\ TakesList(t, <<"filters", "ignore_cidrs">>)
       /\ t.value[<<"daemon", "debounce_ms">>].int > 0
       /\ t.value[<<"daemon", "debounce_max_ms">>].int > 0
       /\ t.value[<<"daemon", "batch_max">>].int > 0
       /\ u32(<<"rule", "pref">>) # 0 /\ u32(<<"rule", "table_id">>) # 0
       /\ t.value[<<"log", "level">>].str \in {"error", "warn", "info", "debug"}
       /\ t.value[<<"log", "file">>].str # EmptyStr
       /\ parse_ignore_flag_mask(TakenList(t, <<"filters", "ignore_addr_flags">>))
       /\ parse_ip_list(TakenList(t, <<"filters", "ignore_ips">>))
       /\ parse_cidr_list(TakenList(t, <<"filters", "ignore_cidrs">>))

\* A bound below the window is raised to it.
debounce_max(debounce_ms, debounce_max_ms) ==
    IF debounce_max_ms > debounce_ms THEN debounce_max_ms ELSE debounce_ms

NoOptions == [ok |-> FALSE]

load(file) ==
    LET t        == parse_toml(file)
        int(key) == t.value[key].int
        list(key) == Range(TakenList(t, <<"filters", key>>))
    IN IF ~Accepts(t) THEN NoOptions
       ELSE [ok |-> TRUE,
             ipv6 |-> t.value[<<"daemon", "ipv6">>].bool,
             debounce |-> int(<<"daemon", "debounce_ms">>),
             debounce_max |-> debounce_max(int(<<"daemon", "debounce_ms">>),
                                           int(<<"daemon", "debounce_max_ms">>)),
             batch_max |-> int(<<"daemon", "batch_max">>),
             pref |-> int(<<"rule", "pref">>) % pow2[U],
             table_id |-> int(<<"rule", "table_id">>) % pow2[U],
             filters |-> IgnoreFilters({i.addr : i \in list("ignore_ips")},
                                       {<<i.addr, i.prefix>> : i \in list("ignore_cidrs")},
                                       {i.flag : i \in list("ignore_addr_flags")})]
=============================================================================
