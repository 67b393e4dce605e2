---------------------------- MODULE MCNetpoisson ----------------------------
(***************************************************************************)
(* Command lines of a few options of each of a few families, for TLC.       *)
(***************************************************************************)
EXTENDS Netpoisson

Flag(opt) == [opt |-> opt, raw |-> None]
Set(opt, raw) == [opt |-> opt, raw |-> raw]

ModeOptions ==
  {Flag("daemon"), Flag("stdio_server"), Flag("udp"), Flag("tls"), Flag("install"), Flag("remove"),
   Flag("web"), Flag("version"), Set("ssh_target", "host"), Set("SERVER", <<"h">>),
   Set("report_file", "file"), Set("web_addr", <<"h", ":", "x">>), Set("psk", "key"), Flag("unknown")}

ValueOptions ==
  {Set("SERVER", <<"h">>), Set("lam", 5), Set("lam", 7), Set("profile", "ssh-bulk"), Set("payload_size", 1),
   Set("timeout_ms", 1), Set("window_ms", <<0, "">>), Set("window_ms", <<12, "s">>),
   Flag("verbose"), Flag("quiet")}

OddOptions ==
  {Set("SERVER", <<"h">>), Set("lam", 0), Set("lam", NotANumber), Set("profile", "other"),
   Set("connections", 0), Set("bucket_ms", <<12, "">>), Set("stats_ms", <<12, "">>), Set("stats_ms", <<0, "">>),
   Set("stats_ms", <<12, "m">>), Set("stats_ms", <<NotANumber, "">>), Set("seed", NotANumber), Set("seed", 1),
   Set("port", 7), Set("port", 65536), Set("host", "x"), Set("max_pending", Missing),
   Set("ssh_target", "host"), Set("ssh_options", "K=V"), Flag("help")}

Addresses ==
  {<<"h", ":", "80">>, <<"h", ":", "99999">>, <<"h", ":", "x">>, <<"h", ":">>, <<"a", ":", ":", "80">>,
   <<"[", "a", ":", ":", "80", "]">>, <<"[", "a">>, <<"[", "a", ":", ":", "80", "]", ":", "3871">>,
   <<"[", "a", "]", "x">>, <<"[", "a", "]", ":", "x">>}

MCCommandLines ==
  {line \in BoundedSeq(ModeOptions, 3) \cup BoundedSeq(ValueOptions, 3) \cup BoundedSeq(OddOptions, 2) :
     /\ \A i \in DOMAIN line : line[i].raw = Missing => i = Len(line)
     /\ ~{Flag("web"), Set("ssh_target", "host")} \subseteq ToSet(line)}
  \cup {<<Set("SERVER", text)>> : text \in Addresses}
  \cup {<<Set("port", 7), Set("SERVER", text)>> : text \in Addresses}
=============================================================================
