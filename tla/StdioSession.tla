---------------------------- MODULE StdioSession ----------------------------
(***************************************************************************)
(* A session over SSH stdio: the client of peer_client/stdio_io.py, with   *)
(* start() and stop() of client.py, and class StdioServer of               *)
(* peer_server.py at the other end of two bounded pipes.                   *)
(*                                                                         *)
(* A line is two cells, a beginning and an end, so that a read may cut it  *)
(* and a write may block inside it.  A line that does not consist of the   *)
(* two halves of one message lacks the prefix: it is noise.  Other programs *)
(* on the remote host may write lines of their own to the same stdout.     *)
(*                                                                         *)
(* The client keeps its requests in a RequestLedger; InflightBook is shown *)
(* to implement it, and module Client has the steps inside the threads     *)
(* that are one step here (offer, mark and count, take and count).         *)
(* Left out: payloads, telemetry values, byte counters, ssh's stderr,      *)
(* a queue limit, and threads that only sample.                            *)
(***************************************************************************)
EXTENDS RequestLedger, Sequences

CONSTANTS MaxEchoes, MaxProbes,  \* bounds on the requests
          Sizes,    \* the kinds of request size that occur
          RequestCap, ResponseCap, \* cells the two pipes hold
          MaxStray, Strays, \* bound on the lines of other programs, and their kinds
          Failures  \* may ssh die?

ASSUME SessionAssumption ==
  /\ MaxEchoes \in Nat /\ MaxProbes \in Nat /\ MaxStray \in Nat
  /\ Seqs = 1..(MaxEchoes + MaxProbes) /\ ECHO # STATUS
  /\ RequestCap \in Nat \ {0} /\ ResponseCap \in Nat \ {0}
  /\ Sizes \subseteq {"fits", "grows", "long", "huge"}
  /\ Strays \subseteq {"noise", "garbled"} /\ Failures \in BOOLEAN

Threads == {"schedule", "send", "probe", "read", "reap"}
Labels == {"none", "loop", "write", "rest", "lines", "done", "crashed"}
MainLabels == {"start", "hello", "hello lines", "running", "failed", "grace", "close stdin",
               "terminate", "join", "stopped", "gone"}
ServerLabels == {"read", "lines", "begin", "rest", "returned"}

VARIABLES main,      \* label of the main thread, in start() and stop()
          pc,        \* [Threads -> label]
          offered, wire_sent, received, late, status_sent, status_received,
          remote_noise, protocol_errors,
          seq,       \* the last number drawn
          size,      \* of the lines of this run's ECHO requests
          marked,    \* requests with a send time
          txq, sched_stop, stopped,
          item,      \* [{"send", "probe"} -> the request in hand]
          stdio_lock,
          buf,       \* _stdio_buf, then buf of _read_stdio
          stdin_closed, stdout_closed,
          alive,     \* does ssh, and with it the remote server, run?
          to_server, to_client,        \* the pipes
          server, server_buf, reply,   \* label, buf and line in hand of StdioServer.run
          echo_rx, echo_tx,
          requests,  \* requests written and not yet answered
          replies,   \* lines that went into to_client and are not yet split off
          stray

sendCounts == <<offered, wire_sent, status_sent>>
answerCounts == <<received, late, status_received>>
report   == <<sendCounts, answerCounts>>
noise    == <<remote_noise, protocol_errors>>
requestVars == <<seq, size, marked, txq, item>>
flags    == <<sched_stop, stopped>>
ends     == <<stdin_closed, stdout_closed, alive>>
serverVars == <<server, server_buf, reply, echo_rx, echo_tx>>
sessionVars == <<vars, main, pc, report, noise, requestVars, flags, stdio_lock, buf, ends,
                 to_server, to_client, serverVars, requests, replies, stray>>

Hello == <<"hello", 0>>
Noise == <<"noise", 0>>
Garbled == <<"garbled", 0>>  \* not UTF-8

Half(m, which) == <<m, which>>
LineEnds(cells) == {i \in DOMAIN cells : cells[i][2] \in {"ends", "whole"}}

\* The first line of a buffer that holds one, and what follows it.
FirstEnd(cells) == CHOOSE i \in LineEnds(cells) : \A j \in LineEnds(cells) : i <= j
FirstLine(cells) ==
  LET n == FirstEnd(cells) m == cells[n][1]
  IN  IF \/ n = 1 /\ cells[1] = Half(m, "whole")
         \/ n = 2 /\ cells[1] = Half(m, "begins") THEN m ELSE Noise
AfterLine(cells) == SubSeq(cells, FirstEnd(cells) + 1, Len(cells))

SessionInit ==
  /\ Init
  /\ main = "start" /\ pc = [th \in Threads |-> "none"]
  /\ offered = 0 /\ wire_sent = 0 /\ received = 0 /\ late = 0
  /\ status_sent = 0 /\ status_received = 0 /\ remote_noise = 0 /\ protocol_errors = 0
  /\ seq = 0 /\ size \in Sizes /\ marked = {} /\ txq = <<>>
  /\ sched_stop = FALSE /\ stopped = FALSE
  /\ item = [th \in {"send", "probe"} |-> 0] /\ stdio_lock = "free"
  /\ buf = <<>> /\ stdin_closed = FALSE /\ stdout_closed = FALSE /\ alive = TRUE
  /\ to_server = <<>> /\ to_client = <<>>
  /\ server = "read" /\ server_buf = <<>> /\ reply = Noise /\ echo_rx = 0 /\ echo_tx = 0
  /\ requests = <<>> /\ replies = <<>> /\ stray = 0

Step(th, a, b) == pc[th] = a /\ pc' = [pc EXCEPT ![th] = b]

-----------------------------------------------------------------------------
(* start(): _wait_hello() and the threads *)

mainRest == <<report, requestVars, stdio_lock, serverVars, stray>>

HelloWrite ==
  /\ main = "start"
  /\ IF alive
       THEN /\ main' = "hello"
            /\ to_server' = <<Half(Hello, "whole")>>
            /\ requests' = <<Hello>>
       ELSE main' = "failed" /\ UNCHANGED <<to_server, requests>>
  /\ UNCHANGED <<mainRest, vars, pc, noise, flags, buf, ends, to_client, replies>>

HelloRead ==
  /\ main = "hello" /\ main' = "hello lines"
  /\ \E n \in 1..Len(to_client) :
       /\ buf' = buf \o SubSeq(to_client, 1, n)
       /\ to_client' = SubSeq(to_client, n + 1, Len(to_client))
  /\ UNCHANGED <<mainRest, vars, pc, noise, flags, ends, to_server, requests, replies>>

\* Five seconds have passed, or ssh has ended and left nothing to read.
HelloFail ==
  /\ main = "hello" /\ main' = "failed"
  /\ UNCHANGED <<mainRest, vars, pc, noise, flags, buf, ends, to_server, to_client, requests, replies>>

\* Lines before hello_ack are skipped; what follows it is left in the buffer.
HelloLine ==
  /\ main = "hello lines"
  /\ IF LineEnds(buf) = {}
       THEN main' = "hello" /\ UNCHANGED <<buf, replies, remote_noise, pc>>
       ELSE LET m == FirstLine(buf) IN
            /\ buf' = AfterLine(buf) /\ replies' = Tail(replies)
            /\ remote_noise' = IF m = Noise THEN remote_noise + 1 ELSE remote_noise
            /\ IF m[1] = "hello_ack"
                 THEN main' = "running" /\ pc' = [th \in Threads |-> "loop"]
                 ELSE UNCHANGED <<main, pc>>
  /\ UNCHANGED <<mainRest, vars, protocol_errors, flags, ends, to_server, to_client, requests>>

Start == HelloWrite \/ HelloRead \/ HelloFail \/ HelloLine

-----------------------------------------------------------------------------
(* stop() *)

Marked == {s \in WithOutcome("open") : s \in marked}

stopRest == <<mainRest, noise, buf, alive, to_server, to_client, requests, replies, pc>>

Stop(a, b) == main = a /\ main' = b

StopCall ==
  /\ main \in {"running", "failed"} /\ main' = "grace"
  /\ sched_stop' = TRUE
  /\ UNCHANGED <<stopRest, vars, stopped, stdin_closed, stdout_closed>>

\* Nothing is queued or waited for, or the grace period is over.
StopSet ==
  /\ Stop("grace", "close stdin")
  /\ stopped' = TRUE
  /\ UNCHANGED <<stopRest, vars, sched_stop, stdin_closed, stdout_closed>>

StopStdin ==
  /\ Stop("close stdin", "terminate")
  /\ stdin_closed' = TRUE
  /\ UNCHANGED <<stopRest, vars, flags, stdout_closed>>

\* wait() until ssh is gone, killed after two seconds; then close its stdout.
StopWait ==
  /\ Stop("terminate", "join") /\ ~alive
  /\ stdout_closed' = TRUE
  /\ UNCHANGED <<stopRest, vars, flags, stdin_closed>>

\* What ends each thread at its next look, and does not go away again.
Over(th) ==
  \/ pc[th] \in {"none", "done", "crashed"}
  \/ pc[th] = "loop" /\ CASE th = "schedule" -> sched_stop \/ stopped
                           [] th = "send" -> stopped /\ txq = <<>>
                           [] th = "read" -> stopped \/ stdout_closed \/ (~alive /\ to_client = <<>>)
                           [] OTHER -> stopped

\* Defective variant: only what has a send time is settled.
StopJoinMarked ==
  /\ Stop("join", "stopped")
  /\ \A th \in Threads : Over(th)
  /\ GiveUp(Marked, {})
  /\ UNCHANGED <<stopRest, flags, stdin_closed, stdout_closed>>

\* The joins succeed, and the last reap settles what is still open.
StopJoin ==
  /\ Stop("join", "stopped")
  /\ \A th \in Threads : Over(th)
  /\ GiveUp(Marked, WithOutcome("open") \ Marked)
  /\ UNCHANGED <<stopRest, flags, stdin_closed, stdout_closed>>

StopStep == StopSet \/ StopStdin \/ StopWait \/ StopJoin
-----------------------------------------------------------------------------
(* _schedule, _send and _probe_stdio; _stdio_write() *)

writerRest == <<main, answerCounts, noise, size, sched_stop, buf, ends, to_client, serverVars,
                replies, stray>>
offWire    == <<writerRest, wire_sent, status_sent, marked, stdio_lock, requests, to_server>>

\* A line longer than MAX_STDIO_LINE raises ValueError: the scheduler ends, its
\* request counted but not in the book.
SchedOffer ==
  /\ ~sched_stop /\ ~stopped /\ offered < MaxEchoes
  /\ Step("schedule", "loop", IF size = "huge" THEN "crashed" ELSE "loop")
  /\ offered' = offered + 1 /\ seq' = seq + 1
  /\ IF size = "huge" THEN UNCHANGED <<vars, txq>>
                      ELSE Offer(seq + 1, ECHO) /\ txq' = Append(txq, seq + 1)
  /\ UNCHANGED <<offWire, item, stopped>>

SendGet ==
  /\ txq # <<>> /\ Step("send", "loop", "write")
  /\ item' = [item EXCEPT !["send"] = Head(txq)] /\ txq' = Tail(txq)
  /\ UNCHANGED <<offWire, vars, offered, seq, stopped>>

Probes == {s \in Seqs : outcome[s] # "idle" /\ mtype[s] = STATUS}

ProbeDue ==
  /\ ~stopped /\ Cardinality(Probes) < MaxProbes /\ Step("probe", "loop", "write")
  /\ seq' = seq + 1 /\ Offer(seq + 1, STATUS)
  /\ item' = [item EXCEPT !["probe"] = seq + 1]
  /\ UNCHANGED <<offWire, offered, txq, stopped>>

Request(s) == IF mtype[s] = ECHO THEN <<"e", s>> ELSE <<"s", s>>

\* write() or flush() raises ValueError if stop() has closed stdin: no handler,
\* the thread ends with its request in the book.
WriteClosed(th) ==
  /\ stdin_closed /\ stdio_lock = "free" /\ Step(th, "write", "crashed")
  /\ UNCHANGED <<offWire, vars, offered, seq, txq, item, stopped>>

\* OSError: ssh has ended.  The writer ends the run, the prober goes on probing.
WriteFail(th) ==
  /\ ~alive
  /\ \/ ~stdin_closed /\ stdio_lock = "free" /\ Step(th, "write", IF th = "send" THEN "done" ELSE "loop")
     \/ Step(th, "rest", IF th = "send" THEN "done" ELSE "loop")
  /\ stdio_lock' = "free"
  /\ GiveUp({}, {item[th]})
  /\ stopped' = (stopped \/ th = "send")
  /\ UNCHANGED <<writerRest, sendCounts, marked, requests, to_server, seq, txq, item>>

\* Defective variant: the line is written without the lock.
WriteBeginUnlocked(th) ==
  /\ alive /\ ~stdin_closed /\ Len(to_server) < RequestCap
  /\ Step(th, "write", "rest")
  /\ to_server' = Append(to_server, Half(Request(item[th]), "begins"))
  /\ UNCHANGED <<writerRest, vars, sendCounts, marked, stdio_lock, requests, seq, txq, item, stopped>>

WriteBegin(th) ==
  /\ alive /\ ~stdin_closed /\ stdio_lock = "free" /\ Len(to_server) < RequestCap
  /\ Step(th, "write", "rest")
  /\ stdio_lock' = th
  /\ to_server' = Append(to_server, Half(Request(item[th]), "begins"))
  /\ UNCHANGED <<writerRest, vars, sendCounts, marked, requests, seq, txq, item, stopped>>

\* The end of the line, mark_sent and the count.  stop() does not interrupt a
\* write, but the flush after it finds stdin closed: as WriteClosed.
WriteRest(th) ==
  /\ pc[th] = "rest" /\ alive /\ Len(to_server) < RequestCap
  /\ to_server' = Append(to_server, Half(Request(item[th]), "ends"))
  /\ requests' = Append(requests, Request(item[th]))
  /\ stdio_lock' = "free"
  /\ IF stdin_closed
       THEN Step(th, "rest", "crashed") /\ UNCHANGED <<marked, wire_sent, status_sent>>
       ELSE /\ Step(th, "rest", "loop")
            /\ marked' = marked \cup {item[th]}
            /\ wire_sent' = wire_sent + (IF th = "send" THEN 1 ELSE 0)
            /\ status_sent' = status_sent + (IF th = "probe" THEN 1 ELSE 0)
  /\ UNCHANGED <<writerRest, vars, offered, seq, txq, item, stopped>>

Write(th) == WriteClosed(th) \/ WriteFail(th) \/ WriteBegin(th) \/ WriteRest(th)

Send  == SendGet \/ Write("send")
Probe == ProbeDue \/ Write("probe")

-----------------------------------------------------------------------------
(* _read_stdio, _on_stdio_line and _reap *)

readerRest == <<main, sendCounts, requestVars, sched_stop, stdio_lock, ends, to_server,
                serverVars, requests, stray>>

AfterRead(cells) == IF LineEnds(cells) = {} THEN "loop" ELSE "lines"

\* Defective variants: a reader that needs the writers' lock; one that starts
\* with an empty buffer.
ReadChunkLocked ==
  /\ ~stopped /\ ~stdout_closed /\ to_client # <<>> /\ stdio_lock = "free"
  /\ buf' = buf \o to_client /\ to_client' = <<>>
  /\ Step("read", "loop", AfterRead(buf'))
  /\ UNCHANGED <<readerRest, vars, answerCounts, noise, stopped, replies>>
ReadChunkFresh ==
  /\ ~stopped /\ ~stdout_closed /\ to_client # <<>>
  /\ buf' = to_client /\ to_client' = <<>>
  /\ Step("read", "loop", AfterRead(buf'))
  /\ UNCHANGED <<readerRest, vars, answerCounts, noise, stopped, replies>>

\* A chunk, everything the pipe holds; lines are looked for only after one has come.
ReadChunk ==
  /\ ~stopped /\ ~stdout_closed /\ to_client # <<>>
  /\ buf' = buf \o to_client /\ to_client' = <<>>
  /\ Step("read", "loop", AfterRead(buf'))
  /\ UNCHANGED <<readerRest, vars, answerCounts, noise, stopped, replies>>

Taken(s) == outcome[s] \in {"open", "lost"}

\* Defective variant: every response is counted as an ECHO response.
OnResponseOneCounter(t, s) ==
  IF Taken(s) THEN Answer(s) /\ received' = received + 1 /\ UNCHANGED <<late, status_received>>
              ELSE UNCHANGED <<vars, answerCounts>>

OnResponse(t, s) ==
  IF Taken(s)
    THEN /\ Answer(s)
         /\ IF t = "er" THEN /\ received' = received + 1
                             /\ late' = IF outcome[s] = "lost" THEN late + 1 ELSE late
                             /\ UNCHANGED status_received
                        ELSE status_received' = status_received + 1 /\ UNCHANGED <<received, late>>
    ELSE UNCHANGED <<vars, answerCounts>>

\* The response of an ECHO carries two clock values and the telemetry on top of
\* the request, and may exceed the reader's limit where the request did not.
ReadLine ==
  LET m == FirstLine(buf) IN
  /\ pc["read"] = "lines"
  /\ buf' = AfterLine(buf)
  /\ replies' = Tail(replies)
  /\ IF m[1] = "er" /\ size # "fits"
       THEN /\ Step("read", "lines", "done") /\ stopped' = TRUE
            /\ UNCHANGED <<vars, answerCounts, noise>>
       ELSE /\ Step("read", "lines", AfterRead(buf'))
            /\ UNCHANGED stopped
            /\ remote_noise' = remote_noise + (IF m = Noise THEN 1 ELSE 0)
            /\ protocol_errors' = protocol_errors + (IF m = Garbled THEN 1 ELSE 0)
            /\ IF m[1] \in {"er", "sr"} THEN OnResponse(m[1], m[2])
                                        ELSE UNCHANGED <<vars, answerCounts>>
  /\ UNCHANGED <<readerRest, to_client>>

Read == ReadChunk \/ ReadLine

\* Any of the requests written may be found too old.
ReapSweep ==
  /\ pc["reap"] = "loop" /\ ~stopped
  /\ \E L \in SUBSET Marked \ {{}} : GiveUp(L, {})
  /\ UNCHANGED <<readerRest, pc, answerCounts, noise, stopped, replies, buf, to_client>>

-----------------------------------------------------------------------------
(* StdioServer.run and _on_line; ssh *)

remoteRest == <<vars, main, pc, report, noise, requestVars, flags, stdio_lock, buf,
                stdin_closed, stdout_closed>>

SStep(a, b) == alive /\ server = a /\ server' = b

Rest(cells) == IF LineEnds(cells) = {} THEN "read" ELSE "lines"

ServerRead ==
  /\ to_server # <<>>
  /\ server_buf' = server_buf \o to_server /\ to_server' = <<>>
  /\ SStep("read", Rest(server_buf'))
  /\ UNCHANGED <<remoteRest, alive, reply, echo_rx, echo_tx, to_client, requests, replies, stray>>

\* End of file, once no write is under way: run() returns and ssh ends.
ServerEof ==
  /\ SStep("read", "returned") /\ alive' = FALSE
  /\ stdin_closed /\ stdio_lock = "free" /\ to_server = <<>>
  /\ UNCHANGED <<remoteRest, server_buf, reply, echo_rx, echo_tx, to_server, to_client, requests, replies, stray>>

Response(m) == CASE m[1] = "hello" -> <<"hello_ack", 0>>
                 [] m[1] = "e" -> <<"er", m[2]>>
                 [] m[1] = "s" -> <<"sr", m[2]>>

\* A request longer than a million bytes ends run() with status 2; a line that
\* is no request is passed over.
ServerLine ==
  LET m == FirstLine(server_buf) IN
  /\ server = "lines"
  /\ server_buf' = AfterLine(server_buf)
  /\ echo_rx' = IF m[1] = "e" /\ size # "long" THEN echo_rx + 1 ELSE echo_rx
  /\ IF m[1] = "e" /\ size = "long" THEN SStep("lines", "returned") /\ alive' = FALSE /\ UNCHANGED reply
     ELSE /\ IF m = Noise THEN SStep("lines", Rest(server_buf')) /\ UNCHANGED reply
                          ELSE SStep("lines", "begin") /\ reply' = Response(m)
          /\ UNCHANGED alive
  /\ UNCHANGED <<remoteRest, echo_tx, to_server, to_client, requests, replies, stray>>

ServerBegin ==
  /\ SStep("begin", "rest") /\ ~stdout_closed /\ Len(to_client) < ResponseCap
  /\ to_client' = Append(to_client, Half(reply, "begins"))
  /\ UNCHANGED <<remoteRest, alive, server_buf, reply, echo_rx, echo_tx, to_server, requests, replies, stray>>

ServerRest ==
  /\ SStep("rest", Rest(server_buf)) /\ ~stdout_closed /\ Len(to_client) < ResponseCap
  /\ to_client' = Append(to_client, Half(reply, "ends"))
  /\ replies' = Append(replies, reply) /\ requests' = Tail(requests)
  /\ echo_tx' = IF reply[1] = "er" THEN echo_tx + 1 ELSE echo_tx
  /\ reply' = Noise
  /\ UNCHANGED <<remoteRest, alive, server_buf, echo_rx, to_server, stray>>

\* Writing to a client that is gone.
ServerBroken ==
  /\ stdout_closed /\ alive /\ server \in {"begin", "rest"}
  /\ server' = "returned" /\ alive' = FALSE
  /\ UNCHANGED <<remoteRest, server_buf, reply, echo_rx, echo_tx, to_server, to_client, requests, replies, stray>>

Server == ServerRead \/ ServerEof \/ ServerLine \/ ServerBegin \/ ServerRest \/ ServerBroken

\* A line of some other program on the remote host, taken to fall between two
\* lines of the server.
StrayLine ==
  /\ alive /\ stray < MaxStray /\ server # "rest" /\ Len(to_client) < ResponseCap
  /\ \E k \in Strays : LET m == <<k, 0>> IN
       /\ to_client' = Append(to_client, Half(m, "whole"))
       /\ replies' = Append(replies, m)
  /\ stray' = stray + 1
  /\ UNCHANGED <<remoteRest, alive, serverVars, to_server, requests>>

\* Defective variant: stop() waits for ssh without terminating it.
SshLeftAlone == main = "terminate" /\ alive /\ UNCHANGED sessionVars

\* The connection breaks; or stop() terminates ssh.
SshDies ==
  /\ alive /\ alive' = FALSE /\ Failures
  /\ UNCHANGED <<remoteRest, serverVars, to_server, to_client, requests, replies, stray>>
SshKilled ==
  /\ main = "terminate" /\ alive /\ alive' = FALSE
  /\ UNCHANGED <<remoteRest, serverVars, to_server, to_client, requests, replies, stray>>

SessionNext ==
  \/ Start \/ StopCall \/ StopStep \/ SchedOffer \/ Send \/ Probe \/ Read \/ ReapSweep
  \/ Server \/ StrayLine \/ SshDies \/ SshKilled

-----------------------------------------------------------------------------
(* Properties *)

\* The labels, queues and counters have their types, and the pipes their bound.
SessionTypeOK ==
  /\ outcome \in [Seqs -> Outcomes] /\ main \in MainLabels /\ pc \in [Threads -> Labels]
  /\ offered \in 0..MaxEchoes /\ wire_sent \in 0..offered /\ received \in 0..offered
  /\ late \in 0..received /\ status_sent \in 0..MaxProbes /\ status_received \in 0..MaxProbes
  /\ remote_noise + protocol_errors <= stray /\ echo_tx \in 0..echo_rx
  /\ seq \in 0..Cardinality(Seqs) /\ size \in Sizes /\ marked \subseteq Seqs /\ txq \in Seq(Seqs)
  /\ stdio_lock \in {"free", "send", "probe"}
  /\ Len(to_server) <= RequestCap /\ Len(to_client) <= ResponseCap

\* No line is lost, repeated or torn between the remote stdout and the client,
\* however the reads cut it and across the hand-over of the buffer from
\* _wait_hello to _read_stdio: what was written and is not yet split off is in
\* the buffer or in the pipe, and the next line is the next one written.
LinesIntact ==
  /\ Cardinality(LineEnds(buf)) + Cardinality(LineEnds(to_client)) = Len(replies)
  /\ LineEnds(buf) # {} => FirstLine(buf) = Head(replies)

\* Two threads write requests; the server sees each as one line and answers
\* them one by one, in the order in which they were written.  What the client
\* reports as received the server has counted.
AnsweredInOrder ==
  LET answering == server \in {"begin", "rest"} IN
  /\ answering => requests # <<>> /\ reply = Response(Head(requests))
  /\ alive => Len(requests) = Cardinality(LineEnds(to_server)) + Cardinality(LineEnds(server_buf))
                              + (IF answering THEN 1 ELSE 0)
  /\ received <= echo_rx

\* When stop() has returned, every ECHO offered was received, lost or never
\* sent, whichever way the threads ended, except one that was too long to
\* encode.  The never-sent are the ECHOs among those the report counts as
\* unsent, which are the STATUS probes that could not be written as well.
FinalAccounting ==
  main = "stopped" =>
    offered = received + lost + (IF pc["schedule"] = "crashed" THEN 1 ELSE 0)
              + Cardinality({s \in WithOutcome("unsent") : mtype[s] = ECHO})

\* What has begun to be written is written, answered and read to the last line,
\* unless the run ends: two bounded pipes, and a server that does not read
\* while it writes, do not lock each other up, because the client's reader
\* waits for nobody.
BurstDrains ==
  (stdio_lock # "free" \/ requests # <<>>)
    ~> ((stdio_lock = "free" /\ requests = <<>> /\ replies = <<>>) \/ stopped \/ ~alive)
=============================================================================
