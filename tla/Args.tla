-------------------------------- MODULE Args --------------------------------
(***************************************************************************)
(* The command line, npcli/args.py, as pure operators.                     *)
(*                                                                         *)
(* An option is a record [opt, raw]: opt is the field of class Args that   *)
(* it sets, or "help", "version", "unknown", "SERVER"; raw is its value,   *)
(* None for a flag, Missing at the end of a command line that lacks it.    *)
(* How an option is spelled (-p 80, -p80, --port=80) is abstracted, and so *)
(* are empty values and the texts of messages.  Numbers are integers or    *)
(* NotANumber, durations <<number, unit>>, addresses sequences of symbols. *)
(***************************************************************************)
EXTENDS Integers, Sequences, SequencesExt

CONSTANTS None, NotANumber, Missing

DEFAULT_PORT == 1871
DEFAULT_WEB_PORT == 3871

Defaults ==
  [daemon |-> FALSE, stdio_server |-> FALSE, host |-> "0.0.0.0", host_set |-> FALSE,
   port |-> DEFAULT_PORT, port_set |-> FALSE, udp |-> FALSE, tls |-> FALSE, psk |-> None,
   tls_cert |-> None, tls_key |-> None, tls_ca |-> None, tls_insecure |-> FALSE,
   lam |-> 100, lam_set |-> FALSE, payload_size |-> 64, payload_min |-> None,
   payload_max |-> None, connections |-> 1, max_pending |-> None, status_interval_ms |-> 100,
   bucket_ms |-> 100, window_ms |-> None, window_set |-> FALSE, seed |-> None,
   timeout_ms |-> 2000, stats_ms |-> None, web |-> FALSE, web_addr |-> <<"127.0.0.1", ":", "3871">>,
   no_open |-> FALSE, json_out |-> FALSE, report_file |-> None, ssh_target |-> None,
   ssh_command |-> "ssh", remote_command |-> "netpoisson --stdio-server", ssh_options |-> <<>>,
   profile |-> None, install |-> FALSE, remove |-> FALSE, verbose |-> 0, server |-> None]

PROFILES ==
  [name \in {"ssh-interactive", "ssh-bulk"} |->
     IF name = "ssh-interactive"
       THEN [lam |-> 20, payload_min |-> 1, payload_max |-> 128, payload_size |-> 64,
             status_interval_ms |-> 200, timeout_ms |-> 5000, connections |-> 1]
       ELSE [lam |-> 100, payload_min |-> 4096, payload_max |-> 65536, payload_size |-> 16384,
             status_interval_ms |-> 100, timeout_ms |-> 10000, connections |-> 1]]

\* What a command line may give: the fields that options set, and the others.
Options ==
  (DOMAIN Defaults \ {"host_set", "port_set", "lam_set", "window_set", "server"})
    \cup {"quiet", "help", "version", "unknown", "SERVER"}

Flags == {"daemon", "stdio_server", "udp", "tls", "tls_insecure", "no_open", "json_out",
          "install", "remove", "web"}

\* The result of reading something: a value; UsageError; an exception that
\* main() does not handle; or the early end of the command line.
Good(v)  == [kind |-> "value", value |-> v]
Usage    == [kind |-> "usage"]
Uncaught == [kind |-> "uncaught"]

\* The arguments, some of them changed.
With(args, changes) ==
  [f \in DOMAIN args |-> IF f \in DOMAIN changes THEN changes[f] ELSE args[f]]

AtLeast(low, n) == IF n < low THEN low ELSE n

-----------------------------------------------------------------------------
(* Values *)

MaxPort == 65535
Port(n) == IF n # NotANumber /\ 0 <= n /\ n <= MaxPort THEN Good(n) ELSE Usage
Positive(n, unit) == IF n # NotANumber /\ n > 0 THEN Good(n * unit) ELSE Usage
Whole(n, low) == IF n = NotANumber THEN Uncaught ELSE Good(AtLeast(low, n))

\* parse_duration_ms knows ms and s; a bare number is milliseconds.
Duration(d) ==
  IF d[1] = NotANumber \/ d[2] \in {"m", "h"} THEN Uncaught
  ELSE Good(AtLeast(1, d[1] * (IF d[2] = "s" THEN 1000 ELSE 1)))

\* -s: with a unit as above, a bare number is seconds.
Stats(d) == IF d[2] = "" THEN Positive(d[1], 1000) ELSE Duration(d)

Window(d) == IF d = <<0, "">> THEN Good(None) ELSE Duration(d)

Convert(opt, raw) ==
  CASE opt = "port" -> Port(raw)
    [] opt = "lam" -> Positive(raw, 1)
    [] opt = "timeout_ms" -> Positive(raw, 1000)
    [] opt = "stats_ms" -> Stats(raw)
    [] opt = "window_ms" -> Window(raw)
    [] opt \in {"status_interval_ms", "bucket_ms"} -> Duration(raw)
    [] opt \in {"connections", "max_pending"} -> Whole(raw, 1)
    [] opt = "payload_size" -> Whole(raw, 0)
    [] opt = "seed" -> IF raw = NotANumber THEN Uncaught ELSE Good(raw)
    [] OTHER -> Good(raw)

-----------------------------------------------------------------------------
(* parse_args *)

\* What an option changes in the record of arguments.
Changes(args, opt, v) ==
  CASE opt = "verbose" -> [verbose |-> args.verbose + 1]
    [] opt = "quiet" -> [verbose |-> -1]
    [] opt = "web_addr" -> [web |-> TRUE, web_addr |-> v]
    [] opt = "ssh_options" -> [ssh_options |-> Append(args.ssh_options, v)]
    [] opt = "host" -> [host |-> v, host_set |-> TRUE]
    [] opt = "port" -> [port |-> v, port_set |-> TRUE]
    [] opt = "lam" -> [lam |-> v, lam_set |-> TRUE]
    [] opt = "window_ms" -> [window_ms |-> v, window_set |-> v # None]
    [] opt \in Flags -> [f \in {opt} |-> TRUE]
    [] OTHER -> [f \in {opt} |-> v]

\* Defective variant: a profile is applied where it stands.
ParseOptionProfileAtOnce(so_far, o) ==
  LET r == Convert(o.opt, o.raw) IN
  IF so_far.kind # "value" THEN so_far
  ELSE IF o.opt \in {"help", "version"} THEN [kind |-> o.opt]
  ELSE IF o.opt = "unknown" \/ o.raw = Missing THEN Usage
  ELSE IF o.opt = "SERVER" THEN [so_far EXCEPT !.positionals = Append(@, o.raw)]
  ELSE IF o.opt = "profile" /\ o.raw \in DOMAIN PROFILES
    THEN [so_far EXCEPT !.value = With(@, PROFILES[o.raw])]
  ELSE IF r.kind = "value" THEN [so_far EXCEPT !.value = With(@, Changes(@, o.opt, r.value))]
  ELSE r

ParseOption(so_far, o) ==
  LET r == Convert(o.opt, o.raw) IN
  IF so_far.kind # "value" THEN so_far
  ELSE IF o.opt \in {"help", "version"} THEN [kind |-> o.opt]
  ELSE IF o.opt = "unknown" \/ o.raw = Missing THEN Usage
  ELSE IF o.opt = "SERVER" THEN [so_far EXCEPT !.positionals = Append(@, o.raw)]
  ELSE IF r.kind = "value" THEN [so_far EXCEPT !.value = With(@, Changes(@, o.opt, r.value))]
  ELSE r

\* Defective variant: the profile wins over --lambda.
ApplyProfileOverLambda(args) ==
  IF args.profile = None THEN args ELSE With(args, PROFILES[args.profile])

\* The profile's values, also over options given explicitly, except --lambda.
ApplyProfile(args) ==
  IF args.profile = None THEN args
  ELSE LET p == PROFILES[args.profile]
       IN With(args, [f \in DOMAIN p |-> IF f = "lam" /\ args.lam_set THEN args.lam ELSE p[f]])

Conflict(args) ==
  \/ args.daemon /\ args.server # None
  \/ args.stdio_server /\ (args.server # None \/ args.ssh_target # None \/ args.daemon)
  \/ args.udp /\ args.ssh_target # None
  \/ args.tls /\ args.udp /\ args.psk = None
  \/ (args.tls_cert = None) # (args.tls_key = None)
  \/ args.install /\ args.remove

Finish(r) ==
  IF r.kind # "value" THEN r
  ELSE LET args == IF r.positionals = <<>> THEN r.value
                   ELSE [r.value EXCEPT !.server = r.positionals[1]]
           unknown == args.profile # None /\ args.profile \notin DOMAIN PROFILES
       IN IF Len(r.positionals) > 1 \/ unknown \/ Conflict(args) THEN Usage
          ELSE Good(ApplyProfile(args))

NoOptions == [kind |-> "value", value |-> Defaults, positionals |-> <<>>]

ParseArgs(argv) == Finish(FoldLeft(ParseOption, NoOptions, argv))

-----------------------------------------------------------------------------
(* Addresses *)

Digits == [d \in {"80", "3871", "99999"} |->
             CASE d = "80" -> 80 [] d = "3871" -> 3871 [] d = "99999" -> 99999]
IsNumber(text) == Len(text) = 1 /\ text[1] \in DOMAIN Digits
PortOf(text) == IF IsNumber(text) THEN Port(Digits[text[1]]) ELSE Usage

Places(text, symbol) == {i \in DOMAIN text : text[i] = symbol}
After(text, i) == SubSeq(text, i + 1, Len(text))

\* The address, if its port can be read.
WithPort(host, port) == IF port.kind = "value" THEN Good(<<host, port.value>>) ELSE port

\* Defective variant: any colon ends the host.
ParseServerLastColon(text, default_port) ==
  IF Places(text, ":") = {} THEN Good(<<text, default_port>>)
  ELSE LET i == CHOOSE i \in Places(text, ":") : \A j \in Places(text, ":") : j <= i
       IN  WithPort(SubSeq(text, 1, i - 1), PortOf(After(text, i)))

\* [host], [host]:port, host, host:port; more colons than one belong to the host.
ParseServer(text, default_port) ==
  IF text[1] = "["
    THEN IF Places(text, "]") = {} THEN Usage
         ELSE LET end  == CHOOSE i \in Places(text, "]") : \A j \in Places(text, "]") : i <= j
                  host == SubSeq(text, 2, end - 1)
              IN CASE end = Len(text) -> Good(<<host, default_port>>)
                   [] end < Len(text) /\ text[end + 1] = ":" -> WithPort(host, PortOf(After(text, end + 1)))
                   [] OTHER -> Usage
    ELSE IF \E i \in Places(text, ":") : Places(text, ":") = {i} /\ IsNumber(After(text, i))
           THEN LET i == CHOOSE i \in Places(text, ":") : TRUE
                IN  WithPort(SubSeq(text, 1, i - 1), PortOf(After(text, i)))
           ELSE Good(<<text, default_port>>)

ParseWebAddr(text) ==
  IF Places(text, ":") = {} THEN Good(<<text, DEFAULT_WEB_PORT>>)
  ELSE LET i == CHOOSE i \in Places(text, ":") : \A j \in Places(text, ":") : j <= i
           host == SubSeq(text, 1, i - 1)
       IN  WithPort(IF host = <<>> THEN <<"127.0.0.1">> ELSE host, PortOf(After(text, i)))
=============================================================================
