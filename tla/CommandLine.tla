---------------------------- MODULE CommandLine -----------------------------
(***************************************************************************)
(* What a process makes of its arguments, and what the others make of them *)
(* when they look for the daemon in /proc: parse_args on the one hand,     *)
(* read_cmdline_args and parse_run_work_dir on the other, the paths they   *)
(* yield, and the command line that start_background gives to the daemon.  *)
(* Constant operators.                                                     *)
(*                                                                         *)
(* An argument is a word.  A path is absolute or not and a sequence of     *)
(* parts; the words that are paths are listed in PathOf, any other word is *)
(* the relative path of one part.                                          *)
(***************************************************************************)
EXTENDS Integers, Sequences, Functions

NoArg == ""     \* the empty argument

PathOf(word) ==
    CASE word = NoArg      -> [abs |-> FALSE, parts |-> <<>>]
      [] word = "/w"       -> [abs |-> TRUE,  parts |-> <<"w">>]
      [] word = "/w/../l"  -> [abs |-> TRUE,  parts |-> <<"w", "..", "l">>]
      [] word = "/l"       -> [abs |-> TRUE,  parts |-> <<"l">>]
      [] OTHER             -> [abs |-> FALSE, parts |-> <<word>>]

\* The file system: /l is a symbolic link to /w.
Resolved(parts) == IF parts = <<"l">> THEN <<"w">> ELSE parts

join(base, path) ==
    IF path.abs THEN path ELSE [abs |-> base.abs, parts |-> base.parts \o path.parts]

\* One component onto a path: "." is nothing, ".." the parent.
Push(parts, part) ==
    CASE part = "."  -> parts
      [] part = ".." -> IF parts = <<>> THEN parts ELSE SubSeq(parts, 1, Len(parts) - 1)
      [] OTHER       -> Append(parts, part)

\* What the first n components of a path lead to, by the names alone and with
\* symbolic links followed.
Lexical(parts) ==
    LET to[n \in 0 .. Len(parts)] == IF n = 0 THEN <<>> ELSE Push(to[n - 1], parts[n])
    IN to

Physical(parts) ==
    LET to[n \in 0 .. Len(parts)] == IF n = 0 THEN <<>> ELSE Resolved(Push(to[n - 1], parts[n]))
    IN to

\* normalize_path and fs::canonicalize.
normalize_path(path) == [path EXCEPT !.parts = Lexical(path.parts)[Len(path.parts)]]
canonicalize(path)   == [path EXCEPT !.parts = Physical(path.parts)[Len(path.parts)]]

-----------------------------------------------------------------------------
(* cli.rs                                                                   *)

Failed == [command |-> "error", config |-> NoArg, work_dir |-> NoArg, daemon |-> FALSE]

\* One turn of the loop over the options: next is the argument it looks at, and 0
\* after an error or a help text.  The loop stays at the subcommand.
ParseOption(args, r) ==
    LET i == r.next
    IN CASE i \notin DOMAIN args -> r
         [] i \in DOMAIN args /\ args[i] \in {"-h", "-v"} -> [r EXCEPT !.next = 0]
         [] i \in DOMAIN args /\ args[i] \in {"-c", "-d"} ->
               IF i = Len(args) THEN [r EXCEPT !.next = 0]
               ELSE IF args[i] = "-c" THEN [r EXCEPT !.next = i + 2, !.config = args[i + 1]]
               ELSE [r EXCEPT !.next = i + 2, !.work_dir = args[i + 1]]
         [] OTHER -> r

\* The loop after n turns; it has ended after one turn per argument.
Globals(args) ==
    LET r[n \in 0 .. Len(args)] ==
            IF n = 0 THEN [next |-> 1, config |-> "addrsyncd.toml", work_dir |-> "."]
            ELSE ParseOption(args, r[n - 1])
    IN r

\* The rest of a pbr command: an action, then options with values, the last of each
\* kind counting; all are needed and only the mark may be 0.
PbrOption == {"--family", "--mark", "--mask", "--table", "--pref"}

parse_pbr_command(rest) ==
    LET opts == Tail(rest)
        At(o) == {i \in DOMAIN opts : i % 2 = 1 /\ opts[i] = o}
        Final(o) == opts[(CHOOSE i \in At(o) : \A j \in At(o) : j <= i) + 1]
    IN /\ rest # <<>> /\ rest[1] \in {"apply", "cleanup", "status"}
       /\ Len(opts) % 2 = 0
       /\ \A i \in DOMAIN opts : i % 2 = 1 =>
             /\ opts[i] \in PbrOption
             /\ opts[i + 1] \in (IF opts[i] = "--family" THEN {"4", "6"} ELSE {"0", "1", "4", "6"})
       /\ \A o \in PbrOption : At(o) # {}
       /\ Final("--mask") # "0" /\ Final("--table") # "0" /\ Final("--pref") # "0"

\* The rest of a cleanup: --mode with one of two words, any number of times.
parse_cleanup_command(rest) ==
    /\ Len(rest) % 2 = 0
    /\ \A i \in DOMAIN rest : rest[i] \in (IF i % 2 = 1 THEN {"--mode"} ELSE {"tracked", "dump"})

parse_run_command(rest) == \A i \in DOMAIN rest : rest[i] = "--daemon"

\* args does not have the program's name.
parse_args(args) ==
    LET g    == Globals(args)[Len(args)]
        sub  == args[g.next]
        rest == SubSeq(args, g.next + 1, Len(args))
    IN IF g.next \notin DOMAIN args THEN Failed
       ELSE IF \/ sub = "run" /\ parse_run_command(rest)
               \/ sub \in {"stop", "resync", "status"} /\ rest = <<>>
               \/ sub = "cleanup" /\ parse_cleanup_command(rest)
               \/ sub = "pbr" /\ parse_pbr_command(rest)
       THEN [command |-> sub, config |-> g.config, work_dir |-> g.work_dir,
             daemon |-> sub = "run" /\ rest # <<>>]
       ELSE Failed

-----------------------------------------------------------------------------
(* control.rs: the command line of another process.                         *)

NoPath == [abs |-> FALSE, parts |-> <<"none">>]

\* /proc/<pid>/cmdline has no empty arguments once it is split.
NonEmpty(args) ==
    LET kept[n \in 0 .. Len(args)] ==
            IF n = 0 THEN <<>>
            ELSE IF args[n] = NoArg THEN kept[n - 1] ELSE Append(kept[n - 1], args[n])
    IN kept

read_cmdline_args(args) == NonEmpty(args)[Len(args)]

\* One turn of the loop that looks for the run and the last work directory before
\* it: next is 0 if there is no run.
SeekRun(args, r) ==
    LET i == r.next
    IN CASE i \notin DOMAIN args -> r
         [] i \in DOMAIN args /\ args[i] = "run" -> r
         [] i \in DOMAIN args /\ args[i] \in {"-c", "-d"} ->
               IF i = Len(args) THEN [r EXCEPT !.next = 0]
               ELSE [next |-> i + 2,
                     work_dir |-> IF args[i] = "-d" THEN args[i + 1] ELSE r.work_dir]
         [] OTHER -> [r EXCEPT !.next = 0]

\* The loop after n turns.
RunAt(args) ==
    LET r[n \in 0 .. Len(args)] ==
            IF n = 0 THEN [next |-> 1, work_dir |-> "."] ELSE SeekRun(args, r[n - 1])
    IN r

\* A relative directory is that of the other process; links are not followed.
resolve_daemon_work_dir(cwd, path) == normalize_path(join(cwd, path))

\* Mutant: only the daemon's own form, without --daemon.
RunWithoutFlags(cwd, args) ==
    LET r == RunAt(args)[Len(args)]
    IN IF r.next # Len(args) THEN NoPath
       ELSE resolve_daemon_work_dir(cwd, PathOf(r.work_dir))

parse_run_work_dir(cwd, args) ==
    LET r == RunAt(args)[Len(args)]
    IN IF \/ r.next \notin DOMAIN args
          \/ \E i \in r.next + 1 .. Len(args) : args[i] # "--daemon"
       THEN NoPath
       ELSE resolve_daemon_work_dir(cwd, PathOf(r.work_dir))

\* The directory a command looks for: links are followed.
normalize_work_dir(cwd, path) == normalize_path(canonicalize(join(cwd, path)))

-----------------------------------------------------------------------------
(* Options::load and start_background: the paths a start hands to the       *)
(* daemon, which it runs as -c config_path -d work_dir run.                 *)

\* Mutant: the directory is handed on as it was given.
ChildDirAsGiven(cwd, cli) == join(cwd, PathOf(cli.work_dir))

ChildDir(cwd, cli) == normalize_work_dir(cwd, PathOf(cli.work_dir))

\* Mutant: an absolute path is put under the directory, too.
ResolveAlways(path, base) == [base EXCEPT !.parts = @ \o path.parts]

\* The configuration file of a process: relative to its work directory, which is
\* itself relative to cwd; config_path is what load remembers of it.
resolve_relative_path(path, base) == IF path.abs THEN path ELSE join(base, path)

config_path(cli) == resolve_relative_path(PathOf(cli.config), PathOf(cli.work_dir))

Loads(cwd, path) == canonicalize(join(cwd, path))

\* The daemon's file: its -c is the start's config_path, its -d the ChildDir.
ChildConfig(cwd, cli) == resolve_relative_path(config_path(cli), ChildDir(cwd, cli))
=============================================================================
