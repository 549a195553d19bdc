------------------------------ MODULE Startup -------------------------------
(***************************************************************************)
(* A process from its arguments to the first address message: run_main     *)
(* parses the arguments (CommandLine), Options::load reads the             *)
(* configuration (Config), and the daemon reads messages through the       *)
(* filters built from it (AddrFilter).  Every stage is checked for all     *)
(* inputs of a small set, so a process starts at exec with some arguments  *)
(* and a valid file, or at load with some file.                            *)
(***************************************************************************)
EXTENDS CommandLine, Config

CONSTANT MaxChunks      \* bound: pieces of a command line

ASSUME ChunksAssumption == MaxChunks \in Nat

VARIABLES
    stage,          \* "exec", "load", "loaded", "event" or "exited"
    args, cwd,      \* the command line and the working directory
    file, options,  \* the configuration file and what load made of it
    ifa, event      \* an address message and what parse_addr_event made of it

vars == <<stage, args, cwd, file, options, ifa, event>>

-----------------------------------------------------------------------------
(* The inputs.                                                              *)

Chunk == {<<>>, <<"-c", "f">>, <<"-c">>, <<"-d", "/w">>, <<"-d", "/l">>, <<"-d", "/w/../l">>,
          <<"-d", "w">>, <<"-d", "run">>, <<"-d">>, <<"run">>, <<"--daemon">>, <<"stop">>,
          <<"-h">>, <<"x">>, <<NoArg>>, <<"cleanup">>, <<"--mode", "dump">>,
          <<"pbr", "apply", "--family", "4", "--mark", "0", "--table", "1">>,
          <<"--mask", "1">>, <<"--mask", "0">>, <<"--pref", "1">>}

\* The command lines of at most n pieces.
ArgsOf[n \in 0 .. MaxChunks] ==
    IF n = 0 THEN {<<>>} ELSE {a \o c : a \in ArgsOf[n - 1], c \in Chunk}

Args == ArgsOf[MaxChunks]

Cwd == {[abs |-> TRUE, parts |-> p] : p \in {<<>>, <<"w">>}}

\* The file of the tests, in small numbers.
Base == <<Section("daemon"), Pair("ipv6", Bool(TRUE)), Pair("debounce_ms", Num(1)),
          Pair("debounce_max_ms", Num(2)), Pair("batch_max", Num(2)),
          Section("log"), Pair("level", Str("info")), Pair("file", Str("f")),
          Section("rule"), Pair("pref", Num(1)), Pair("table_id", Num(1)),
          Section("filters"), Pair("ignore_addr_flags", Array(<<Flag("temporary")>>)),
          Pair("ignore_ips", Array(<<Ip([family |-> 4, value |-> 1])>>)),
          Pair("ignore_cidrs", Array(<<Net(<<[family |-> 4, value |-> 2], 1>>)>>))>>

\* One line is taken out, put in or replaced by one of L.
Edits(f, L) ==
    {SubSeq(f, 1, i - 1) \o SubSeq(f, i + 1, Len(f)) : i \in DOMAIN f}
    \cup {SubSeq(f, 1, i - 1) \o <<l>> \o SubSeq(f, i, Len(f)) : i \in 1 .. Len(f) + 1, l \in L}
    \cup {[f EXCEPT ![i] = l] : i \in DOMAIN f, l \in L}

Values ==
    {Num(n) : n \in {-1, 0, 3, pow2[U], pow2[U] + 1}}
    \cup {Str(x) : x \in {EmptyStr, "debug", "warning"}}
    \cup {Bool(FALSE), Value("bad")}
    \cup {Array(x) : x \in {<<>>, <<Item("empty")>>, <<Item("bad")>>,
                            <<Flag("temporary"), Flag("deprecated")>>,
                            <<Flag("deprecated"), Flag("deprecated")>>, <<Flag("tmp")>>,
                            <<Ip([family |-> 4, value |-> 2]), Ip([family |-> 4, value |-> 2])>>,
                            <<Ip([family |-> 4, value |-> 0]),
                              Ip([family |-> 6, value |-> MapTag * pow2[W4]])>>,
                            <<Net(<<[family |-> 4, value |-> 0], W4>>)>>,
                            <<Net(<<[family |-> 4, value |-> 0], W4 + 1>>)>>,
                            <<Net(<<[family |-> 4, value |-> 0], 0>>),
                              Net(<<[family |-> 4, value |-> 0], 0>>)>>}}

Headers == {Section(name) : name \in KNOWN_SECTIONS \cup {"x"}}
Pairs   == {Pair(Base[i].name, v) : i \in {j \in DOMAIN Base : Base[j].line = "pair"}, v \in Values}
           \cup {Pair("x", Num(1))}

\* The valid file with given filters.
WithFilters(flags, ips, cidrs, ipv6) ==
    [i \in DOMAIN Base |-> CASE i = 2  -> Pair("ipv6", Bool(ipv6))
                             [] i = 13 -> Pair("ignore_addr_flags", Array(flags))
                             [] i = 14 -> Pair("ignore_ips", Array(ips))
                             [] i = 15 -> Pair("ignore_cidrs", Array(cidrs))
                             [] OTHER  -> Base[i]]

\* Any line edited, and any two headers taken out, put in or replaced.
EditedFiles ==
    Edits(Base, Pairs \cup Headers \cup {Malformed})
    \cup UNION {Edits(f, Headers) : f \in Edits(Base, Headers)}

FilterFiles ==
    {WithFilters(<<>>, <<Ip(a)>>, IF c = d THEN <<Net(c)>> ELSE <<Net(c), Net(d)>>, TRUE) :
        a \in IpAddr, c \in Cidr, d \in Cidr}

\* The configurations under which messages are enumerated.
EventFiles == {WithFilters(flags, <<>>, <<>>, ipv6) :
                  flags \in {<<>>, <<Flag("temporary")>>}, ipv6 \in BOOLEAN}

NoMessage == [family |-> 0, scope |-> 0, flags |-> {}, attrs |-> <<>>]
NoEvent   == [kind |-> "none"]

Init ==
    /\ \/ /\ stage = "exec"
          /\ args \in Args
          /\ file = Base
       \/ /\ stage = "load"
          /\ args = <<"run">>
          /\ file \in EditedFiles \cup FilterFiles \cup EventFiles
    /\ cwd \in (IF stage = "exec" THEN Cwd ELSE {[abs |-> TRUE, parts |-> <<>>]})
    /\ options = NoOptions
    /\ ifa = NoMessage /\ event = NoEvent

-----------------------------------------------------------------------------
\* main and run_cli: an error ends the process, as do the commands that need no
\* configuration (Control has them).
run_main ==
    /\ stage = "exec"
    /\ stage' = IF parse_args(args).command \in {"run", "cleanup"} THEN "load" ELSE "exited"
    /\ UNCHANGED <<args, cwd, file, options, ifa, event>>

load_options ==
    /\ stage = "load"
    /\ options' = load(file)
    /\ stage' = IF options'.ok THEN "loaded" ELSE "exited"
    /\ UNCHANGED <<args, cwd, file, ifa, event>>

\* The daemon receives an address message.
receive ==
    /\ stage = "loaded" /\ file \in EventFiles
    /\ \E family \in {4, 6}, type \in {"RTM_NEWADDR", "RTM_DELADDR"} :
          \E m \in Messages(family) :
             /\ ifa' = m
             /\ event' = parse_addr_event(type, m, options.ipv6, options.filters)
    /\ stage' = "event"
    /\ UNCHANGED <<args, cwd, file, options>>

Next == run_main \/ load_options \/ receive

Spec == Init /\ [][Next]_vars

-----------------------------------------------------------------------------
(* Properties.                                                              *)

\* The two parsers of a command line agree: a process that runs, or starts, a
\* daemon in a directory is recognised as one of that directory, and a process that
\* is recognised is one that runs or starts a daemon (parse_args on the one hand,
\* read_cmdline_args and parse_run_work_dir on the other).
ParsersAgree ==
    stage = "exec" /\ NoArg \notin Range(args) =>
        LET cli   == parse_args(args)
            found == parse_run_work_dir(cwd, read_cmdline_args(args))
        IN found = IF cli.command # "run" THEN NoPath
                   ELSE normalize_path(join(cwd, PathOf(cli.work_dir)))

\* A daemon started in the background is found by every command that is given the
\* same directory, by the same or another name: through a link, with "..", or
\* relative to where it is (start_background, find_running_daemon_normalized).
StartedDaemonIsFound ==
    stage = "exec" /\ NoArg \notin Range(args) =>
        LET cli   == parse_args(args)
            child == resolve_daemon_work_dir(cwd, ChildDir(cwd, cli))
        IN cli.command = "run" /\ cli.daemon =>
              \A dir \in {"/w", "/l", "/w/../l", "w", "."} :
                 LET sought == normalize_work_dir(cwd, PathOf(dir))
                 IN (sought = child) <=>
                       (canonicalize(join(cwd, PathOf(dir))) =
                        canonicalize(join(cwd, PathOf(cli.work_dir))))

\* The daemon loads the configuration file that its start has checked, if the
\* directory was given as an absolute path or not at all (start_background,
\* Options::load).
ChildLoadsTheSameFile ==
    stage = "exec" =>
        LET cli == parse_args(args)
        IN /\ cli.command = "run" /\ cli.daemon
           /\ PathOf(cli.work_dir).abs \/ cli.work_dir = "."
           => Loads(cwd, ChildConfig(cwd, cli)) = Loads(cwd, config_path(cli))

\* The section a line of a file is in, and the lines that give a key.
SectionAt(i) ==
    LET above == {j \in 1 .. i - 1 : file[j].line = "section"}
    IN IF above = {} THEN EmptyStr ELSE file[CHOOSE j \in above : \A k \in above : k <= j].name

LinesOf(section, key) ==
    {i \in DOMAIN file : file[i].line = "pair" /\ file[i].name = key /\ SectionAt(i) = section}

\* The value of a key that is given once.
Given(section, key) == file[CHOOSE i \in LinesOf(section, key) : TRUE].value

Positive == {<<"daemon", "debounce_ms">>, <<"daemon", "debounce_max_ms">>,
             <<"daemon", "batch_max">>, <<"rule", "pref">>, <<"rule", "table_id">>}
Required == Positive \cup {<<"daemon", "ipv6">>, <<"log", "level">>, <<"log", "file">>}
Lists    == {"ignore_addr_flags", "ignore_ips", "ignore_cidrs"}
Allowed  == Required \cup {<<"filters", key>> : key \in Lists}

\* A list has elements of the kind that its key asks for, none of them twice.
ListIsValid(key, list) ==
    \A i, j \in DOMAIN list :
       /\ list[i].what = CASE key = "ignore_ips"   -> "ip"
                           [] key = "ignore_cidrs" -> "cidr"
                           [] OTHER                -> "flag"
       /\ list[i].what = "flag" => list[i].flag \in FlagName
       /\ list[i].what = "cidr" => list[i].prefix <= Width(list[i].addr.family)
       /\ i # j => list[i] # list[j]

\* What the schema asks of a file.
FileIsValid ==
    /\ \A i \in DOMAIN file :
          /\ file[i].line # "malformed"
          /\ file[i].line = "pair" => <<SectionAt(i), file[i].name>> \in Allowed
    /\ {file[i].name : i \in {j \in DOMAIN file : file[j].line = "section"}} = KNOWN_SECTIONS
    /\ \A k \in Allowed : \A i, j \in LinesOf(k[1], k[2]) : i = j
    /\ \A k \in Required : LinesOf(k[1], k[2]) # {}
    /\ \A k \in Positive : LET v == Given(k[1], k[2])
                           IN /\ v.type = "Int" /\ v.int > 0
                              /\ k[1] = "rule" => v.int % pow2[U] # 0
    /\ Given("daemon", "ipv6").type = "Bool"
    /\ LET v == Given("log", "level")
       IN v.type = "Str" /\ v.str \in {"error", "warn", "info", "debug"}
    /\ LET v == Given("log", "file") IN v.type = "Str" /\ v.str # EmptyStr
    /\ \A key \in Lists : LinesOf("filters", key) # {} =>
          LET v == Given("filters", key) IN v.type = "Array" /\ ListIsValid(key, v.list)

\* The schema is strict: a file is accepted exactly if all its lines are read, its
\* sections are the four known ones, no key is unknown, missing or given twice, and
\* every value has its type and its range.  What is accepted the daemon can run with,
\* as AddrSync and Debounce assume of their constants: a batch holds an operation,
\* the debounce window is not empty and not longer than its upper bound, preference
\* and table fit their width (parse_toml, Options::load).
ConfigIsStrict ==
    /\ stage \in {"loaded", "exited"} /\ args = <<"run">> =>
           (stage = "loaded" <=> FileIsValid)
    /\ options.ok => /\ options.batch_max > 0
                     /\ 0 < options.debounce /\ options.debounce <= options.debounce_max
                     /\ options.pref \in 1 .. pow2[U] - 1 /\ options.table_id \in 1 .. pow2[U] - 1

\* The first bits of an address are those of a network.
InCidr(a, item) ==
    /\ a.family = item.addr.family
    /\ LET low == pow2[Width(a.family) - item.prefix]
       IN a.value \div low = item.addr.value \div low

\* An address is ignored exactly if it is listed, in whatever form, or lies in a
\* listed network of its family once it is unmapped: whether or not the network has
\* host bits, with the empty and the full prefix, and with several networks of one
\* length (CidrMatcher, mask_v4, mask_v6, should_ignore_addr).
FiltersAreExact ==
    options.ok =>
        \A a \in IpAddr :
            should_ignore_addr(options.filters, a) <=>
                \E key \in {"ignore_ips", "ignore_cidrs"} :
                   LinesOf("filters", key) # {} /\
                   \E item \in Range(Given("filters", key).list) :
                      IF item.what = "ip" THEN unmap_addr(a) = unmap_addr(item.addr)
                      ELSE InCidr(unmap_addr(a), item)

\* The attribute of a type, or a default.
AttrOf(type, default) ==
    IF \E i \in DOMAIN ifa.attrs : ifa.attrs[i].type = type
    THEN ifa.attrs[CHOOSE i \in DOMAIN ifa.attrs : ifa.attrs[i].type = type]
    ELSE default

\* A message means the same in whatever order its attributes come: an IPv4 message
\* is about its IFA_LOCAL if there is one, so no rule is made for the peer of a
\* point-to-point link; the flags of an address are those of IFA_FLAGS if there are
\* any; and events and snapshots agree on the key (parse_ifaddr_attrs,
\* parse_addr_event, dump_interface_keys_family).
MessagesReadAsMeant ==
    stage = "event" =>
        LET peer  == AttrOf("IFA_ADDRESS", [addr |-> NoAddr]).addr
            own   == IF ifa.family = 6 THEN peer ELSE AttrOf("IFA_LOCAL", [addr |-> peer]).addr
            flags == AttrOf("IFA_FLAGS", [flags |-> ifa.flags]).flags
            ours  == /\ ifa.scope = 0
                     /\ ifa.family = 6 => options.ipv6
                     /\ flags \cap options.filters.flag_mask = {}
                     /\ own # NoAddr /\ is_valid_addr(unmap_addr(own))
        IN /\ event.kind = IF own = NoAddr THEN "error" ELSE IF ours THEN "op" ELSE "none"
           /\ ours => event.addr = unmap_addr(own)
           /\ snapshot_interface_keys({ifa}, options.ipv6, options.filters) =
                 (IF ours THEN {unmap_addr(own)} ELSE {})
=============================================================================
