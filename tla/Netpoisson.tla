----------------------------- MODULE Netpoisson -----------------------------
(***************************************************************************)
(* The process: main() of npcli/main.py, from the command line to the exit *)
(* status.  In the mode --ssh the client and the remote server are module  *)
(* StdioSession, whose start() and stop() main() calls.  The server and    *)
(* the binary client of the other modes are modules TcpServer, ServerStats *)
(* and Client; here they only start, run and stop.                         *)
(*                                                                         *)
(* One failing exit status, 1, stands for every status a traceback or a    *)
(* broken standard output leads to.  Left out: the terminal, messages (a   *)
(* write to standard error is taken to return), the contents of reports    *)
(* and events, opening a browser, the options of ssh.                      *)
(***************************************************************************)
EXTENDS StdioSession, Args

CONSTANTS CommandLines

ASSUME CommandLinesAssumption ==
  \A line \in CommandLines :
    /\ line \in Seq(ToSet(line))
    /\ \A i \in DOMAIN line : LET o == line[i] IN
         /\ o.opt \in Options
         /\ o.raw = Missing => i = Len(line)
         /\ o.opt = "lam" => o.raw \in Int \cup {NotANumber, Missing}
         /\ o.opt = "SERVER" => o.raw \in Seq(ToSet(o.raw)) \ {<<>>}

VARIABLES proc,    \* label of main()
          argv,
          parsed,  \* what parse_args returned or raised
          target,  \* what parse_server returned
          plan,    \* the mode, and the settings that main() still looks at
          stop,    \* the event the signal handlers set, while anyone looks at it
          writing, \* is main() in a write to standard output?
          peer,    \* Server, or the binary Client
          dash, unit,
          trouble, \* where the run failed
          code

mainVars == <<proc, argv, parsed, target, plan, stop, writing, peer, dash, unit, trouble, code>>
allVars  == <<sessionVars, mainVars>>

ProcLabels == {"argv", "parsed", "usage", "serve", "popen", "security", "start", "pump", "stop",
               "report", "exited"}
Modes == {"none", "install", "remove", "stdio server", "daemon", "ssh", "client"}

NoPlan == [mode |-> "none", web |-> "no", tls |-> FALSE]

MainInit ==
  /\ SessionInit
  /\ proc = "argv" /\ argv \in CommandLines /\ parsed = Usage /\ target = Usage
  /\ plan = NoPlan /\ stop = FALSE /\ writing = FALSE
  /\ peer = "none" /\ dash = "none" /\ unit = FALSE /\ trouble = "none" /\ code = 0

Mode(args) ==
  IF args.install THEN "install"
  ELSE IF args.remove THEN "remove"
  ELSE IF args.stdio_server THEN "stdio server"
  ELSE IF args.daemon \/ (args.server = None /\ args.ssh_target = None) THEN "daemon"
  ELSE IF args.ssh_target # None THEN "ssh"
  ELSE "client"

\* Is a dashboard asked for, and at an address that can be read?
Web(args) == IF ~args.web THEN "no"
             ELSE IF ParseWebAddr(args.web_addr).kind = "value" THEN "yes" ELSE "unreadable"

\* Frames: the steps of main() before there is a peer, and those of each phase.
earlyRest == <<sessionVars, stop, writing, peer, dash, trouble>>
parseRest == <<argv, parsed, target>>

Go(a, b) == proc = a /\ proc' = b

\* Defective variant: the pipes to ssh stay open.
GoneDetached(ssh) ==
  /\ stdio_lock' = "free"
  /\ pc' = [th \in Threads |-> "none"] /\ main' = "gone" /\ alive' = ssh
  /\ UNCHANGED <<vars, report, noise, requestVars, flags, buf, stdin_closed, stdout_closed,
                 to_server, to_client, serverVars, requests, replies, stray>>

\* The process is gone: the threads with it, and its ends of the pipes.
Gone(ssh) ==
  /\ stdin_closed' = TRUE /\ stdout_closed' = TRUE /\ stdio_lock' = "free"
  /\ pc' = [th \in Threads |-> "none"] /\ main' = "gone" /\ alive' = ssh
  /\ UNCHANGED <<vars, report, noise, requestVars, flags, buf, to_server, to_client,
                 serverVars, requests, replies, stray>>

\* The finally clause closes the dashboard whatever happened.
Exit(c) ==
  /\ proc' = "exited" /\ code' = c /\ stop' = FALSE /\ writing' = FALSE
  /\ dash' = IF dash = "open" THEN "closed" ELSE dash

-----------------------------------------------------------------------------
(* The command line *)

\* Where to connect to; --port replaces the port.
Target(args) ==
  LET t == ParseServer(args.server, args.port)
  IN CASE args.server = None -> Usage
       [] args.server # None /\ t.kind = "value" /\ args.port_set -> Good(<<t.value[1], args.port>>)
       [] OTHER -> t

Parse ==
  /\ Go("argv", "parsed")
  /\ parsed' = ParseArgs(argv)
  /\ target' = IF parsed'.kind = "value" THEN Target(parsed'.value) ELSE Usage
  /\ UNCHANGED <<earlyRest, argv, plan, unit, code>>

ParseEnds ==
  /\ proc = "parsed"
  /\ IF parsed.kind = "value"
       THEN /\ Mode(parsed.value) \in {"install", "remove"} /\ Exit(0)
            /\ unit' = (Mode(parsed.value) = "install")
       ELSE Exit(IF parsed.kind \in {"help", "version"} THEN 0 ELSE 1) /\ UNCHANGED unit
  /\ UNCHANGED <<sessionVars, peer, trouble, parseRest, plan>>

\* A mode is chosen; what the rest of main() does not look at is forgotten.
Dispatch ==
  /\ proc = "parsed" /\ parsed.kind = "value"
  /\ LET args == parsed.value mode == Mode(args) IN
     /\ mode \notin {"install", "remove"}
     /\ plan' = [mode |-> mode, web |-> Web(args), tls |-> args.tls /\ ~args.udp]
     /\ proc' = CASE mode = "stdio server" -> "serve"
                  [] mode = "ssh" -> "popen"
                  [] mode = "client" /\ target.kind # "value" -> "usage"
                  [] OTHER -> "security"
  /\ argv' = <<>> /\ parsed' = Usage /\ target' = Usage
  /\ UNCHANGED <<earlyRest, unit, code>>

UsageExit ==
  /\ proc = "usage" /\ Exit(1)
  /\ UNCHANGED <<sessionVars, peer, trouble, parseRest, plan, unit>>

\* --stdio-server: StdioServer.run() returns at the end of its input or at a
\* signal, both seen between two reads.  While it answers what it has read it
\* may meet a line that is too long, with status 2, or one that raises.
Serve ==
  /\ proc = "serve" /\ \E c \in IF writing THEN {1, 2} ELSE {0, 1} : Exit(c)
  /\ UNCHANGED <<sessionVars, peer, trouble, parseRest, plan, unit>>

-----------------------------------------------------------------------------
(* The peer: from its start to its stop *)

peerRest == <<parseRest, plan, unit>>
Ssh == plan.mode = "ssh"

\* _start_ssh(): ssh runs, or could not be started.
Popen ==
  /\ Go("popen", "security")
  /\ UNCHANGED <<sessionVars, peerRest, stop, writing, peer, dash, trouble, code>>
PopenFails ==
  /\ proc = "popen" /\ Exit(1) /\ trouble' = "popen" /\ Gone(FALSE)
  /\ UNCHANGED <<peerRest, peer>>

\* _security(): a certificate or a CA file that cannot be read is an exception
\* that nothing handles, after ssh was started.
Security ==
  /\ Go("security", "start") /\ plan' = [plan EXCEPT !.tls = FALSE]
  /\ UNCHANGED <<sessionVars, parseRest, unit, stop, writing, peer, dash, trouble, code>>
SecurityFails ==
  /\ proc = "security" /\ plan.tls /\ Exit(1) /\ trouble' = "security" /\ Gone(alive)
  /\ UNCHANGED <<peerRest, peer>>

PeerStart ==
  /\ proc = "start" /\ ~Ssh /\ peer = "none" /\ peer' \in {"running", "failed"}
  /\ UNCHANGED <<sessionVars, peerRest, proc, stop, writing, dash, trouble, code>>

\* start() has returned: the dashboard, if one is asked for.  Nothing the peer
\* does in the meantime matters to it.
Started ==
  /\ proc = "start" /\ "running" \in {main, peer}
  /\ \/ plan.web = "no" /\ UNCHANGED dash
     \/ plan.web = "yes" /\ dash' = "open"
  /\ proc' = "pump"
  /\ plan' = [plan EXCEPT !.web = "no"]
  /\ UNCHANGED <<sessionVars, parseRest, unit, stop, writing, peer, trouble, code>>

\* Defective variant: the peer is not stopped.
StartWebFailsExit ==
  /\ proc = "start" /\ "running" \in {main, peer} /\ plan.web # "no"
  /\ Exit(1) /\ trouble' = "web"
  /\ plan' = [plan EXCEPT !.web = "no"]
  /\ UNCHANGED <<sessionVars, parseRest, unit, peer>>

\* Its address cannot be read or is taken.
StartWebFails ==
  /\ proc = "start" /\ "running" \in {main, peer} /\ plan.web # "no"
  /\ proc' = "stop" /\ trouble' = "web" /\ stop' = FALSE
  /\ plan' = [plan EXCEPT !.web = "no"]
  /\ UNCHANGED <<sessionVars, parseRest, unit, writing, peer, dash, code>>

\* Server.start() cleans up itself; a client that failed is stopped.
StartFailed ==
  /\ proc = "start" /\ "failed" \in {main, peer} /\ trouble' = "start"
  /\ plan' = [plan EXCEPT !.web = "no"]
  /\ IF plan.mode = "daemon" THEN Exit(1) ELSE proc' = "stop" /\ stop' = FALSE /\ UNCHANGED <<writing, dash, code>>
  /\ UNCHANGED <<sessionVars, parseRest, unit, peer>>

\* The loops of _pump() and of StdioServer.run() find the event unset, and main()
\* writes a tick, or answers what it has read ...
OutputBegins ==
  /\ proc \in {"pump", "serve"} /\ ~stop /\ ~writing /\ writing' = TRUE
  /\ UNCHANGED <<sessionVars, peerRest, proc, stop, peer, dash, trouble, code>>

\* ... which takes as long as the reader of standard output likes: the handler
\* of a signal sets the event, and the write goes on.
OutputEnds ==
  /\ proc \in {"pump", "serve"} /\ writing /\ writing' = FALSE
  /\ UNCHANGED <<sessionVars, peerRest, proc, stop, peer, dash, trouble, code>>

\* _pump() returns at a signal or when the duration is over, at most 0.1 s
\* after its last write; nobody looks at the event any more.
Pump ==
  /\ ~writing /\ Go("pump", "stop") /\ stop' = FALSE
  /\ UNCHANGED <<sessionVars, peerRest, writing, peer, dash, trouble, code>>

\* Standard output is closed: the exception passes every stop().
PumpBroken ==
  /\ proc = "pump" /\ writing /\ Exit(1) /\ trouble' = "pump" /\ Gone(alive)
  /\ UNCHANGED <<peerRest, peer>>

StopPeer ==
  /\ proc = "stop" /\ ~Ssh /\ peer # "stopped" /\ peer' = "stopped"
  /\ UNCHANGED <<sessionVars, peerRest, proc, stop, writing, dash, trouble, code>>

Stopped ==
  /\ proc = "stop" /\ "stopped" \in {main, peer}
  /\ IF trouble = "none"
       THEN proc' = "report" /\ writing' \in BOOLEAN /\ UNCHANGED <<dash, code, stop>>
       ELSE Exit(1)
  /\ UNCHANGED <<sessionVars, peerRest, peer, trouble>>

\* Defective variant: a run that wrote nothing has failed too.
ReportNothingSent ==
  /\ proc = "report"
  /\ \E none_back \in IF Ssh THEN {received = 0}
                      ELSE IF plan.mode = "client" THEN BOOLEAN ELSE {FALSE} :
       Exit(IF none_back THEN 1 ELSE 0)
  /\ UNCHANGED <<sessionVars, peerRest, peer, trouble>>

\* The report is made after stop(), and written if one is asked for, for as long
\* as its reader likes; the status looks at "sent" and "received"
\* of it, which are any numbers in the mode that has no session here.
Report ==
  /\ proc = "report"
  /\ \E none_back \in IF Ssh THEN {wire_sent > 0 /\ received = 0}
                      ELSE IF plan.mode = "client" THEN BOOLEAN ELSE {FALSE} :
       Exit(IF none_back THEN 1 ELSE 0)
  /\ UNCHANGED <<sessionVars, peerRest, peer, trouble>>

\* Standard output is closed or the file cannot be written.
ReportFails ==
  /\ proc = "report" /\ writing /\ Exit(1) /\ trouble' = "report"
  /\ UNCHANGED <<sessionVars, peerRest, peer>>

\* SIGINT or SIGTERM, while somebody will look at the event: the handler does
\* no more than set it.
Signal ==
  /\ ~stop /\ proc \in {"popen", "security", "start", "pump", "serve"} /\ stop' = TRUE
  /\ UNCHANGED <<sessionVars, peerRest, proc, writing, peer, dash, trouble, code>>

\* The session's steps: start() and stop() when main() calls them, the others
\* at any time.  While main() is between two calls nothing else moves: what
\* it does there touches nothing of the session.
MainsTurn == proc # "pump" /\ main \in {"running", "failed"}

Within(A) ==
  /\ Ssh /\ A /\ UNCHANGED mainVars
  /\ main = "start" => proc = "start"
  /\ main' = "grace" \/ MainsTurn => proc = "stop" /\ main' = "grace"

Finished == proc = "exited" /\ ~(Ssh /\ alive) /\ UNCHANGED allVars

Main ==
  \/ Popen \/ PopenFails \/ Security \/ SecurityFails \/ PeerStart
  \/ Started \/ StartFailed \/ StartWebFails
  \/ StopPeer \/ Stopped \/ Report \/ ReportFails

CommandLine == Parse \/ ParseEnds \/ Dispatch \/ UsageExit

Output == OutputBegins \/ OutputEnds

MainNext ==
  \/ CommandLine \/ Main \/ Serve \/ Output \/ Pump \/ PumpBroken \/ Signal
  \/ Within(SessionNext) \/ Finished

\* What the operating system and the other end sooner or later do: main()'s
\* waits are bounded, the threads and the remote server run, writes to a pipe of
\* ssh go on when there is room.  Not so the scheduler's and the reaper's steps,
\* failures, and the end of the pump, unless the event is set; and nobody is
\* taken to read the standard output, so no step is fair while main() writes to it.
Progress ==
  \/ ~writing /\ (Main \/ (stop /\ (Serve \/ Pump)))
  \/ Within(Start \/ StopCall \/ StopStep \/ SshKilled \/ Send \/ Probe \/ Read \/ Server)

\* Fairness of all of these together is less than of each of them, and enough:
\* none of them goes on for ever while another waits.
MainSpec == MainInit /\ [][MainNext]_allVars /\ WF_allVars(Progress)

-----------------------------------------------------------------------------
(* Properties *)

\* Labels and settings have their types.
MainTypeOK ==
  /\ SessionTypeOK
  /\ proc \in ProcLabels /\ plan.mode \in Modes /\ plan.web \in {"no", "yes", "unreadable"}
  /\ stop \in BOOLEAN /\ writing \in BOOLEAN /\ peer \in {"none", "running", "failed", "stopped"}
  /\ dash \in {"none", "open", "closed"} /\ unit \in BOOLEAN /\ code \in 0..2

\* Options that do not set the same field may stand in any order: neighbours
\* exchanged give the same arguments.  A rate given with --lambda is the rate
\* of the run, wherever a profile stands.
Field(o) == CASE o.opt \in {"verbose", "quiet"} -> "verbose"
              [] o.opt \in {"web", "web_addr"} -> "web"
              [] OTHER -> o.opt
OptionsKeepMeaning ==
  proc = "parsed" /\ parsed.kind = "value" =>
    /\ \A i \in 1..(Len(argv) - 1) :
         Field(argv[i]) # Field(argv[i + 1]) =>
           ParseArgs([argv EXCEPT ![i] = argv[i + 1], ![i + 1] = argv[i]]) = parsed
    /\ \A i \in DOMAIN argv :
         argv[i].opt = "lam" /\ (\A j \in DOMAIN argv : j > i => argv[j].opt # "lam") =>
           parsed.value.lam = argv[i].raw

\* The host and port main() connects to are written like that in SERVER, and no
\* text is read as another address; --port replaces the port.
Writings(host, port) ==
  LET digits == {d \in DOMAIN Digits : Digits[d] = port}
      bracketed == <<"[">> \o host \o <<"]">>
  IN  {bracketed \o <<":", d>> : d \in digits}
        \cup (IF ":" \in ToSet(host) THEN {} ELSE {host \o <<":", d>> : d \in digits})
        \cup (IF port = DEFAULT_PORT THEN {host, bracketed} ELSE {})
TargetAsWritten ==
  proc = "parsed" /\ target.kind = "value" =>
    LET args == parsed.value host == target.value[1] port == target.value[2] IN
    IF args.port_set
      THEN port = args.port /\ \E p \in {DEFAULT_PORT} \cup {Digits[d] : d \in DOMAIN Digits} :
                                 args.server \in Writings(host, p)
      ELSE args.server \in Writings(host, port)

\* The exit status of a session that ran to its end is 1 if and only if
\* requests were written and none came back; any trouble is a failure.  At exit
\* the dashboard is closed, and after an orderly end ssh is gone and every
\* request has its fate.
OrderlyExit ==
  proc = "exited" =>
    /\ Ssh => code = IF trouble # "none" \/ (wire_sent > 0 /\ received = 0) THEN 1 ELSE 0
    /\ dash # "open"
    /\ Ssh /\ trouble \notin {"popen", "security", "pump"} => main = "stopped" /\ ~alive

\* A signal ends the process from every phase, unless a write to its standard
\* output never returns: the handler only sets an event, and _pump(),
\* StdioServer.run() and the report wait in a write for as long as nobody reads.
\* No remote server outlives the client, however the client ended.
SignalEnds ==
  (stop \/ proc \in {"stop", "exited"}) ~> ((proc = "exited" /\ ~(Ssh /\ alive)) \/ []writing)
=============================================================================
