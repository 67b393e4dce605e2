-------------------------------- MODULE Client --------------------------------
(***************************************************************************)
(* The binary (TCP or UDP) client, peer_client/: the threads that share    *)
(* the in-flight book, and stop().  One label per place where a thread can *)
(* be overtaken: between two critical sections, around a socket call, and  *)
(* around a read of the clock.                                             *)
(*                                                                         *)
(* The server and the network are external: wire[c] holds the requests     *)
(* written to connection c whose response the client has not yet read.  On *)
(* TCP they come back in order, some prefix per recv(); on UDP one         *)
(* datagram per recv(), in any order, perhaps twice.  A response that never *)
(* comes is one the reader never reads.                                    *)
(*                                                                         *)
(* A thread's locals are reset when they are dead.  _reap and _send_status *)
(* read the clock in the step that uses it: neither feeds an RTT, and      *)
(* InflightBook lets both values be old.                                   *)
(* Left out: payloads, byte counters, time series, tx_max, and the threads *)
(* _sample and (stdio only) _read_stdio, _read_ssh_err.                    *)
(***************************************************************************)
EXTENDS InflightBook, Sequences

CONSTANTS Udp,         \* TRUE for UDP, FALSE for TCP
          Connections, \* parallel TCP data connections
          MaxPending,  \* --max-pending, or Unlimited
          Unlimited,
          MaxEchoes,   \* bound on the ECHO requests offered
          MaxProbes,   \* bound on the STATUS requests sent
          Failures     \* may a write fail, a connection be closed by the peer?

ASSUME ClientAssumption ==
  /\ Udp \in BOOLEAN /\ Failures \in BOOLEAN
  /\ Connections \in Nat \ {0}
  /\ MaxPending \in Nat \cup {Unlimited} /\ Unlimited \notin Nat
  /\ MaxEchoes \in Nat /\ MaxProbes \in Nat
  /\ Seqs = 1..(MaxEchoes + MaxProbes)
  /\ Cardinality(Seqs) <= MaxDup   \* the network repeats a response at most once

\* start(): one UDP socket, or the data connections and a control connection.
Data  == IF Udp THEN {0} ELSE 0..(Connections - 1)
Ctrl  == IF Udp THEN 0 ELSE Connections
Conns == Data \cup {Ctrl}

Threads == {"schedule", "send", "probe", "reap", "stop"}

\* Where a thread, and a reader, can be overtaken.
Labels == {"loop", "check", "pause", "room", "offer", "add", "put",
           "write", "drop", "clock", "mark", "count",
           "grace", "waiting", "set", "close", "join", "reap", "done"}
ReaderLabels == {"recv", "frames", "take", "count", "done"}

VARIABLES pc,          \* [Threads -> Labels]
          seq,         \* the last number _next_seq handed out
          offered, wire_sent, received, late, status_sent, status_received,
          txq,         \* the queue between scheduler and writer
          sched_stop, stopped,   \* the two events
          closed,      \* stop() has closed the sockets
          error,       \* why the writer gave up, or "none"
          offer_seq,   \* local seq of _offer_echo
          item, send_clock, rr,  \* locals of _send
          probe_seq,   \* local seq of _send_status
          wire,        \* [Conns -> Seq(Seqs)]
          rpc,         \* [Conns -> ReaderLabels], the readers
          frames,      \* [Conns -> Seq(Seqs)], frames of the last recv()
          reply,       \* [Conns -> record], locals of _on_binary
          rtts         \* the RTT samples taken, as a set

progress == <<pc, rpc>>
counts   == <<offered, wire_sent, received, late, status_sent, status_received>>
flags    == <<sched_stop, stopped, closed, error>>
sender   == <<item, send_clock, rr>>
reader   == <<frames, reply, rtts>>
clientVars == <<vars, progress, counts, flags, sender, probe_seq, reader,
                seq, offer_seq, txq, wire>>

\* Thread th moves from label a to label b.
Step(th, a, b) == pc[th] = a /\ pc' = [pc EXCEPT ![th] = b]

NoReply == [seq |-> 0, clock |-> 0, kind |-> "none", sent |-> NotSent]

ClientInit ==
  /\ Init
  /\ pc = [th \in Threads |-> "loop"]
  /\ rpc = [c \in Conns |-> "recv"]
  /\ seq = 0 /\ offered = 0 /\ wire_sent = 0 /\ received = 0 /\ late = 0
  /\ status_sent = 0 /\ status_received = 0
  /\ txq = <<>> /\ wire = [c \in Conns |-> <<>>]
  /\ sched_stop = FALSE /\ stopped = FALSE /\ closed = FALSE /\ error = "none"
  /\ offer_seq = 0 /\ item = 0 /\ send_clock = 0 /\ rr = 0
  /\ probe_seq = 0
  /\ frames = [c \in Conns |-> <<>>]
  /\ reply = [c \in Conns |-> NoReply]
  /\ rtts = {}

-----------------------------------------------------------------------------
(* _schedule and _offer_echo *)

Full == MaxPending # Unlimited /\ Len(txq) >= MaxPending

schedRest == <<vars, rpc, flags, sender, probe_seq, reader, wire,
               wire_sent, received, late, status_sent, status_received>>

\* The next instant is due, or one of the events ends the thread.
SchedDue ==
  /\ IF sched_stop \/ stopped
       THEN Step("schedule", "loop", "done")
       ELSE offered < MaxEchoes /\ Step("schedule", "loop", "check")
  /\ UNCHANGED <<schedRest, seq, offered, offer_seq, txq>>

\* Defective variant: the queue is not looked at.
SchedCheckUnlimited ==
  /\ Step("schedule", "check", "offer")
  /\ UNCHANGED <<schedRest, seq, offered, offer_seq, txq>>

\* Is the queue full?  If so, wait for room.
SchedCheck ==
  /\ Step("schedule", "check", IF Full THEN "pause" ELSE "offer")
  /\ UNCHANGED <<schedRest, seq, offered, offer_seq, txq>>

\* sched_stop.wait(0.001): the event ends the thread, the timeout goes on ...
SchedPause ==
  /\ Step("schedule", "pause", IF sched_stop THEN "done" ELSE "room")
  /\ UNCHANGED <<schedRest, seq, offered, offer_seq, txq>>

\* ... to the loop's condition, which is also false once sched_stop is set.
SchedRoom ==
  /\ Step("schedule", "room", IF Full /\ ~sched_stop THEN "pause" ELSE "offer")
  /\ UNCHANGED <<schedRest, seq, offered, offer_seq, txq>>

SchedOffer ==
  /\ Step("schedule", "offer", "add")
  /\ offered' = offered + 1
  /\ seq' = seq + 1
  /\ offer_seq' = seq + 1
  /\ UNCHANGED <<schedRest, txq>>

SchedAdd ==
  /\ Step("schedule", "add", "put")
  /\ Add(offer_seq, ECHO)
  /\ UNCHANGED <<rpc, flags, sender, probe_seq, reader, wire, counts, seq, offer_seq, txq,
                 now, forced>>

SchedPut ==
  /\ Step("schedule", "put", "loop")
  /\ txq' = Append(txq, offer_seq)
  /\ offer_seq' = 0
  /\ UNCHANGED <<schedRest, seq, offered>>

Schedule == SchedDue \/ SchedCheck \/ SchedPause \/ SchedRoom \/ SchedOffer \/ SchedAdd \/ SchedPut

-----------------------------------------------------------------------------
(* _send *)

sendRest == <<rpc, sched_stop, closed, probe_seq, reader, seq, offer_seq, offered,
              received, late, status_sent, status_received>>

SendGet ==
  /\ txq # <<>>
  /\ Step("send", "loop", "write")
  /\ item' = Head(txq) /\ txq' = Tail(txq)
  /\ UNCHANGED <<sendRest, vars, stopped, error, send_clock, rr, wire, wire_sent>>

SendExit ==
  /\ stopped /\ txq = <<>>
  /\ Step("send", "loop", "done")
  /\ UNCHANGED <<sendRest, vars, stopped, error, sender, txq, wire, wire_sent>>

\* sendall() on the next data connection ...
SendWrite ==
  /\ ~closed
  /\ Step("send", "write", "clock")
  /\ wire' = [wire EXCEPT ![rr] = Append(@, item)]
  /\ rr' = (rr + 1) % Cardinality(Data)
  /\ UNCHANGED <<sendRest, vars, stopped, error, item, send_clock, txq, wire_sent>>

\* ... or OSError: a closed or reset socket, or 0.3 s without room to write.
SendFail ==
  /\ Failures \/ closed
  /\ Step("send", "write", "drop")
  /\ error' \in IF closed THEN {"closed"} ELSE {"reset", "timed out"}
  /\ UNCHANGED <<sendRest, vars, stopped, sender, txq, wire, wire_sent>>

SendDrop ==
  /\ Step("send", "drop", "done")
  /\ DropUnsent(item)
  /\ stopped' = TRUE
  /\ item' = 0
  /\ UNCHANGED <<sendRest, error, send_clock, rr, txq, wire, wire_sent, now, forced>>

SendClock ==
  /\ Step("send", "clock", "mark")
  /\ send_clock' = now
  /\ UNCHANGED <<sendRest, vars, stopped, error, item, rr, txq, wire, wire_sent>>

\* Defective variant: the time is never handed to the book.
SendMarkForgotten ==
  /\ Step("send", "mark", "count")
  /\ item' = 0 /\ send_clock' = 0
  /\ UNCHANGED <<sendRest, vars, stopped, error, rr, txq, wire, wire_sent>>

SendMark ==
  /\ Step("send", "mark", "count")
  /\ MarkSent(item, send_clock)
  /\ item' = 0 /\ send_clock' = 0
  /\ UNCHANGED <<sendRest, stopped, error, rr, txq, wire, wire_sent, now, forced>>

SendCount ==
  /\ Step("send", "count", IF stopped /\ txq = <<>> THEN "done" ELSE "loop")
  /\ wire_sent' = wire_sent + 1
  /\ UNCHANGED <<sendRest, vars, stopped, error, sender, txq, wire>>

Send == SendGet \/ SendExit \/ SendWrite \/ SendFail \/ SendDrop \/ SendClock \/ SendMark \/ SendCount

-----------------------------------------------------------------------------
(* _probe and _send_status *)

probeRest == <<rpc, flags, sender, reader, offer_seq, txq,
               offered, wire_sent, received, late, status_received>>

\* Defective variants: two threads draw the same number; the event is ignored.
ProbeDueUnlocked ==
  /\ IF stopped
       THEN Step("probe", "loop", "done") /\ UNCHANGED probe_seq
       ELSE /\ Cardinality({s \in Seqs : mtype[s] = STATUS}) < MaxProbes
            /\ Step("probe", "loop", "add")
            /\ probe_seq' = seq + 1
  /\ UNCHANGED <<probeRest, vars, status_sent, wire, seq>>
ProbeDueForever ==
  /\ Cardinality({s \in Seqs : mtype[s] = STATUS}) < MaxProbes
  /\ Step("probe", "loop", "add")
  /\ seq' = seq + 1 /\ probe_seq' = seq + 1
  /\ UNCHANGED <<probeRest, vars, status_sent, wire>>

ProbeDue ==
  /\ IF stopped
       THEN Step("probe", "loop", "done") /\ UNCHANGED <<seq, probe_seq>>
       ELSE /\ Cardinality({s \in Seqs : mtype[s] = STATUS}) < MaxProbes
            /\ Step("probe", "loop", "add")
            /\ seq' = seq + 1 /\ probe_seq' = seq + 1
  /\ UNCHANGED <<probeRest, vars, status_sent, wire>>

ProbeAdd ==
  /\ Step("probe", "add", "write")
  /\ Add(probe_seq, STATUS)
  /\ UNCHANGED <<probeRest, probe_seq, seq, status_sent, wire, now, forced>>

ProbeWrite ==
  /\ ~closed
  /\ Step("probe", "write", "mark")
  /\ wire' = [wire EXCEPT ![Ctrl] = Append(@, probe_seq)]
  /\ UNCHANGED <<probeRest, vars, probe_seq, seq, status_sent>>

\* A failed probe is dropped and the thread goes on probing.
ProbeFail ==
  /\ Failures \/ closed
  /\ Step("probe", "write", "loop")
  /\ DropUnsent(probe_seq)
  /\ probe_seq' = 0
  /\ UNCHANGED <<probeRest, seq, status_sent, wire, now, forced>>

ProbeMark ==
  /\ Step("probe", "mark", "loop")
  /\ MarkSent(probe_seq, now)
  /\ status_sent' = status_sent + 1
  /\ probe_seq' = 0
  /\ UNCHANGED <<probeRest, seq, wire, now, forced>>

Probe == ProbeDue \/ ProbeAdd \/ ProbeWrite \/ ProbeFail \/ ProbeMark

-----------------------------------------------------------------------------
(* _read_sock and _on_binary *)

RStep(c, a, b) == rpc[c] = a /\ rpc' = [rpc EXCEPT ![c] = b]

readRest == <<pc, flags, sender, probe_seq, seq, offer_seq, txq, offered, wire_sent, status_sent>>

\* recv(): some of what has come back, as whole frames.
ReadTcp(c) ==
  /\ ~Udp /\ ~stopped /\ ~closed
  /\ RStep(c, "recv", "frames")
  /\ \E n \in 1..Len(wire[c]) :
       /\ frames' = [frames EXCEPT ![c] = SubSeq(wire[c], 1, n)]
       /\ wire' = [wire EXCEPT ![c] = SubSeq(wire[c], n + 1, Len(wire[c]))]
  /\ UNCHANGED <<readRest, vars, reply, rtts, received, late, status_received>>

\* recv(): any one datagram; the network may deliver it a second time.
ReadUdp(c) ==
  /\ Udp /\ ~stopped /\ ~closed
  /\ RStep(c, "recv", "frames")
  /\ \E n \in 1..Len(wire[c]) :
       /\ frames' = [frames EXCEPT ![c] = <<wire[c][n]>>]
       /\ \/ wire' = [wire EXCEPT
                        ![c] = SubSeq(@, 1, n - 1) \o SubSeq(@, n + 1, Len(@))]
          \/ wire[c][n] \notin Answered /\ UNCHANGED wire
  /\ UNCHANGED <<readRest, vars, reply, rtts, received, late, status_received>>

\* The event, a closed socket or the end of the stream ends the reader.
ReadExit(c) ==
  /\ stopped \/ closed \/ Failures
  /\ RStep(c, "recv", "done")
  /\ UNCHANGED <<readRest, vars, reader, wire, received, late, status_received>>

\* The next frame: its receive time is read before the book is asked.
ReadFrame(c) ==
  /\ IF frames[c] = <<>>
       THEN RStep(c, "frames", "recv") /\ UNCHANGED <<frames, reply>>
       ELSE /\ RStep(c, "frames", "take")
            /\ frames' = [frames EXCEPT ![c] = Tail(@)]
            /\ reply' = [reply EXCEPT ![c] = [NoReply EXCEPT !.seq = Head(frames[c]),
                                                            !.clock = now]]
  /\ UNCHANGED <<readRest, vars, rtts, wire, received, late, status_received>>

\* Defective variant: a duplicate is counted like a first answer.
UsedTwice(kind) == kind \in {"ok", "late", "duplicate"}

\* The kinds of answer _on_binary goes on to count.
Used(kind) == kind \in {"ok", "late"}

ReadTake(c) ==
  LET s    == reply[c].seq
      kind == TakeKind(s)
      used == Used(kind)
  IN /\ RStep(c, "take", IF used THEN "count" ELSE "frames")
     /\ Take(s)
     /\ reply' = [reply EXCEPT ![c] = IF used THEN [@ EXCEPT !.kind = kind, !.sent = send_mono[s]]
                                              ELSE NoReply]
     /\ UNCHANGED <<readRest, now, forced, frames, rtts, wire, received, late, status_received>>

ReadCount(c) ==
  LET r == reply[c] IN
  /\ RStep(c, "count", "frames")
  /\ late' = IF r.kind = "late" THEN late + 1 ELSE late
  /\ IF Tracked(r.seq)
       THEN /\ received' = received + 1
            /\ rtts' = IF r.sent = NotSent THEN rtts ELSE rtts \cup {r.clock - r.sent}
            /\ UNCHANGED status_received
       ELSE status_received' = status_received + 1 /\ UNCHANGED <<received, rtts>>
  /\ reply' = [reply EXCEPT ![c] = NoReply]
  /\ UNCHANGED <<readRest, vars, frames, wire>>

Read(c) == ReadTcp(c) \/ ReadUdp(c) \/ ReadExit(c) \/ ReadFrame(c) \/ ReadTake(c) \/ ReadCount(c)

-----------------------------------------------------------------------------
(* _reap and stop() *)

restOfAll == <<rpc, counts, sender, probe_seq, reader, seq, offer_seq, txq, wire, error>>

\* Defective variant: the reaper ignores the event.
ReapStepForever ==
  /\ pc["reap"] = "loop" /\ Reap(now, FALSE)
  /\ UNCHANGED <<restOfAll, pc, flags, now, forced>>

ReapStep ==
  /\ IF stopped
       THEN Step("reap", "loop", "done") /\ UNCHANGED bookVars
       ELSE pc["reap"] = "loop" /\ Reap(now, FALSE) /\ UNCHANGED pc
  /\ UNCHANGED <<restOfAll, flags, now, forced>>

StopCall ==
  /\ Step("stop", "loop", "grace")
  /\ sched_stop' = TRUE
  /\ UNCHANGED <<restOfAll, vars, stopped, closed>>

\* The grace loop: txq.empty() and then book.waiting() == 0, two reads.
StopEmpty ==
  /\ txq = <<>>
  /\ Step("stop", "grace", "waiting")
  /\ UNCHANGED <<restOfAll, vars, flags>>

StopWaiting ==
  /\ Step("stop", "waiting", IF Waiting = {} THEN "set" ELSE "grace")
  /\ UNCHANGED <<restOfAll, vars, flags>>

\* The grace period is over.
StopExpire ==
  /\ Step("stop", "grace", "set")
  /\ UNCHANGED <<restOfAll, vars, flags>>

StopSet ==
  /\ Step("stop", "set", "close")
  /\ stopped' = TRUE
  /\ UNCHANGED <<restOfAll, vars, sched_stop, closed>>

StopClose ==
  /\ Step("stop", "close", "join")
  /\ closed' = TRUE
  /\ UNCHANGED <<restOfAll, vars, sched_stop, stopped>>

\* Every thread ends within its join timeout: none waits longer than 0.3 s.
StopJoin ==
  /\ \A th \in Threads \ {"stop"} : pc[th] = "done"
  /\ \A c \in Conns : rpc[c] = "done"
  /\ Step("stop", "join", "reap")
  /\ UNCHANGED <<restOfAll, vars, flags>>

\* Defective variant: the last reap is an ordinary one.
StopReapUnforced ==
  /\ Step("stop", "reap", "done")
  /\ Reap(now, FALSE)
  /\ UNCHANGED <<restOfAll, flags, now, forced>>

StopReap ==
  /\ Step("stop", "reap", "done")
  /\ Reap(now, TRUE)
  /\ forced' = TRUE
  /\ UNCHANGED <<restOfAll, flags, now>>

StopStep == StopEmpty \/ StopWaiting \/ StopExpire \/ StopSet \/ StopClose \/ StopJoin \/ StopReap

Clock ==
  /\ now < MaxTime
  /\ now' = now + 1
  /\ UNCHANGED <<bookVars, forced, progress, counts, flags, sender, probe_seq, reader,
                 seq, offer_seq, txq, wire>>

Finished == pc["stop"] = "done" /\ UNCHANGED clientVars

ClientNext ==
  \/ Schedule \/ Send \/ Probe \/ ReapStep \/ StopCall \/ StopStep \/ Clock \/ Finished
  \/ \E c \in Conns : Read(c)

\* Every thread keeps running: the operating system schedules it, no socket
\* call blocks longer than the sockets' 0.3 s timeout, no wait is unbounded.
\* Strong fairness of StopExpire: the grace deadline passes and stays passed,
\* so the loop, which returns to its test again and again, finds it passed.
ClientFairness ==
  /\ WF_clientVars(Schedule) /\ WF_clientVars(Send) /\ WF_clientVars(Probe)
  /\ WF_clientVars(ReapStep) /\ WF_clientVars(StopStep) /\ WF_clientVars(Clock)
  /\ \A c \in Conns : WF_clientVars(Read(c))
  /\ SF_clientVars(StopExpire)

ClientSpec == ClientInit /\ [][ClientNext]_clientVars
ClientFairSpec == ClientSpec /\ ClientFairness

-----------------------------------------------------------------------------
(* Properties *)

\* The program counters, queues and counters have their types.
ClientTypeOK ==
  /\ TypeOK
  /\ pc \in [Threads -> Labels] /\ rpc \in [Conns -> ReaderLabels]
  /\ seq \in 0..(MaxEchoes + MaxProbes)
  /\ offered \in 0..MaxEchoes /\ wire_sent \in 0..MaxEchoes /\ received \in 0..MaxEchoes
  /\ late \in Nat /\ status_sent \in 0..MaxProbes /\ status_received \in 0..MaxProbes
  /\ txq \in Seq(Seqs) /\ wire \in [Conns -> Seq(Seqs)] /\ frames \in [Conns -> Seq(Seqs)]
  /\ sched_stop \in BOOLEAN /\ stopped \in BOOLEAN /\ closed \in BOOLEAN
  /\ rtts \subseteq Int

Stopped == pc["stop"] = "done"

\* The threads' use of the book is one InflightBook allows: fresh numbers, each
\* marked once, clock values from the past.  What is proved of InflightBook
\* therefore holds of the client.
UsesBook == Spec

\* When stop() has returned every number handed out has exactly one fate: an
\* ECHO was received, is lost or was never sent, also when the writer died, when
\* the scheduler put a request behind a writer that had left, or when an answer
\* came before its request was marked sent.  The report's unsent counts the
\* STATUS probes that could not be written as well, so its numbers add up to
\* the ECHOs offered and those probes, which are the ones status_sent is short of.
FinalAccounting ==
  Stopped => /\ open = {}
             /\ offered = received + lost + Cardinality({s \in Abandoned : Tracked(s)})
             /\ received + lost + unsent + status_sent = seq

\* When stop() has returned every ECHO reported as sent is reported as received
\* or as lost, so loss_ratio = lost / wire_sent is a ratio of the same requests.
WireAccounting == Stopped => wire_sent = received + lost

\* The scheduler overruns --max-pending by at most one request.
OverrunByOne == MaxPending # Unlimited => Len(txq) <= MaxPending + 1

\* stop() returns: every thread notices that the run is over and every join
\* succeeds, wherever it is when the events are set and the sockets closed.
StopReturns == sched_stop ~> Stopped

\* When the writer gives up, the other threads wind down without stop().  Only
\* a scheduler waiting for room stays: its loop looks at sched_stop, not at
\* stopped (schedule.py:34), and no writer makes room any more.
WindDown ==
  stopped ~> /\ \A th \in Threads \ {"schedule", "stop"} : pc[th] = "done"
             /\ \A c \in Conns : rpc[c] = "done"
             /\ pc["schedule"] = "done" \/ (Full /\ pc["schedule"] \in {"pause", "room"})

\* README.md: RTT = client_receive - client_send, two readings of one
\* monotonic clock, the second taken after the first.
RttNonNegative == \A r \in rtts : r >= 0
=============================================================================
