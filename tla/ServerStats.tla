----------------------------- MODULE ServerStats -----------------------------
(***************************************************************************)
(* What class Server of peer_server.py counts, and who reads it while it   *)
(* is counted: every worker, for the telemetry of its response (terminal   *)
(* and dashboard call the same make_snapshot).  The UDP threads and their  *)
(* stop() are here; TCP takes part with its workers and writers, one pair  *)
(* per link, and with the two events that end them (module TcpServer has   *)
(* the rest of it).                                                        *)
(*                                                                         *)
(* Requests are numbered in the order they are written; Status, Junk and   *)
(* Unsealed say which are STATUS requests, frames decode_pdu rejects, and  *)
(* datagrams that do not unseal.  Long are the ECHOs whose response, with  *)
(* its telemetry, exceeds MAX_BODY when it is sent over TCP; a datagram    *)
(* never holds one.  A series is the number of events added to it (module  *)
(* CounterSeries has the slices).                                          *)
(*                                                                         *)
(* Left out: byte counters, queue depths and their maxima, kernel queue    *)
(* sizes (never known), the window and bucket settings.                    *)
(***************************************************************************)
EXTENDS Queues, FiniteSets

CONSTANTS Modes,      \* the values of udp: a UDP server, a TCP server, or either
          Links,      \* the TCP connections
          Socket,     \* the pair of queues of a UDP server
          MaxReqs,    \* bound on the requests written
          Status, Junk, Unsealed, Long,
          WritesFail, \* may sendto() and sendall() fail?
          StopModes   \* the values of udp for which stop() is called

ASSUME StatsAssumption ==
  /\ Modes \subseteq BOOLEAN /\ StopModes \subseteq BOOLEAN
  /\ IsFiniteSet(Links) /\ Socket \notin Links
  /\ MaxReqs \in Nat /\ WritesFail \in BOOLEAN
  /\ Status \cup Junk \subseteq 1..MaxReqs /\ Status \cap Junk = {} /\ Unsealed \subseteq Junk
  /\ Long \subseteq (1..MaxReqs) \ (Status \cup Junk)

VARIABLES udp,            \* is this a UDP server?
          written, net,   \* how many requests were written, and those on their way
          sent,           \* [link -> Seq(Nat)], the responses sent
          failed,         \* requests whose response could not be sent
          rxq, txq,       \* [link -> Seq(Nat)]
          udp_reader, stopper, stopped, lsock_closed,
          closed,         \* [link -> BOOLEAN], _Conn.closed
          worker, work_item, writer, write_item,  \* [link -> ...]
          draining,       \* [link -> BOOLEAN], is a TCP worker past its loop?
          processing, echo_rx, echo_tx, status_rx,
          interval_rx, interval_tx,
          recv_series, resp_series,
          looking,        \* [link -> label] in make_snapshot, or "no"
          snap,           \* [link -> StatusSnapshot]
          collected       \* what the resets of the interval counters returned

links   == IF udp THEN {Socket} ELSE Links
Places  == Links \cup {Socket}

network  == <<udp, written, net, sent, failed>>
queues   == <<rxq, txq>>
control  == <<udp_reader, stopper, stopped, lsock_closed, closed>>
workVars == <<worker, work_item, draining>>
sendVars == <<writer, write_item>>
counts   == <<processing, echo_rx, echo_tx, status_rx>>
interval == <<interval_rx, interval_tx, collected>>
series   == <<recv_series, resp_series>>
readVars == <<looking, snap>>
vars == <<network, queues, control, workVars, sendVars, counts, interval, series, readVars>>

IsEcho(r) == r \notin Status \cup Junk \cup Unsealed

\* Does _note_sent's decode_pdu make an ECHO of the response to r?
Noticed(r) == IsEcho(r) /\ (udp \/ r \notin Long)

NoSnapshot == [recv |-> 0, resp |-> 0, processing |-> 0, rx |-> 0, tx |-> 0]

Init ==
  /\ udp \in Modes
  /\ written = 0 /\ net = <<>> /\ failed = {}
  /\ sent = [l \in Places |-> <<>>] /\ rxq = sent /\ txq = sent
  /\ udp_reader = "test" /\ stopper = "idle" /\ stopped = FALSE /\ lsock_closed = FALSE
  /\ closed = [l \in Places |-> FALSE] /\ draining = closed
  /\ worker = [l \in Places |-> "test"] /\ work_item = [l \in Places |-> 0]
  /\ writer = [l \in Places |-> "test"] /\ write_item = [l \in Places |-> 0]
  /\ processing = 0 /\ echo_rx = 0 /\ echo_tx = 0 /\ status_rx = 0
  /\ interval_rx = 0 /\ interval_tx = 0
  /\ collected = [rx |-> 0, tx |-> 0]
  /\ recv_series = 0 /\ resp_series = 0
  /\ looking = [r \in Places |-> "no"]
  /\ snap = [r \in Places |-> NoSnapshot]

-----------------------------------------------------------------------------
(* Requests reach the server: a TCP reader queues them, _udp_read below *)

threads == <<workVars, sendVars, counts, interval, series, readVars>>

\* (Over TCP no more once the next is Unsealed: nothing is sealed there.)
Request ==
  /\ written < MaxReqs
  /\ written' = written + 1
  /\ udp \/ written' \notin Unsealed
  /\ IF udp
       THEN net' = Append(net, written') /\ UNCHANGED rxq
       ELSE /\ \E l \in Links : /\ ~closed[l] \/ stopped
                                /\ rxq' = [rxq EXCEPT ![l] = Append(@, written')]
            /\ UNCHANGED net
  /\ UNCHANGED <<udp, sent, failed, txq, control, threads>>

\* The client of a TCP link hangs up, or stop() closes it: the reader queues
\* nothing after its own closed.set(), but may after that of stop().
Close(l) ==
  /\ ~udp /\ ~closed[l]
  /\ closed' = [closed EXCEPT ![l] = TRUE]
  /\ UNCHANGED <<network, queues, udp_reader, stopper, stopped, lsock_closed, threads>>

UdpStep(a, b) == udp /\ udp_reader = a /\ udp_reader' = b

UdpReadTest ==
  /\ UdpStep("test", IF stopped THEN "done" ELSE "recv")
  /\ UNCHANGED <<network, queues, stopper, stopped, lsock_closed, closed, threads>>

\* recvfrom() returns a datagram, and open_datagram() unseals it or not.
UdpReadRecv ==
  /\ ~lsock_closed /\ net # <<>>
  /\ UdpStep("recv", "test")
  /\ net' = Tail(net)
  /\ rxq' = IF Head(net) \in Unsealed THEN rxq ELSE [rxq EXCEPT ![Socket] = Append(@, Head(net))]
  /\ UNCHANGED <<udp, written, sent, failed, txq, stopper, stopped, lsock_closed, closed, threads>>

\* TimeoutError after 0.3 s, or OSError when stop() has closed the socket.
UdpReadNothing ==
  /\ net = <<>> \/ lsock_closed
  /\ UdpStep("recv", IF lsock_closed THEN "done" ELSE "test")
  /\ UNCHANGED <<network, queues, stopper, stopped, lsock_closed, closed, threads>>

UdpRead == UdpReadTest \/ UdpReadRecv \/ UdpReadNothing

-----------------------------------------------------------------------------
(* make_snapshot(), one label per lock *)

\* Reader r, at label a, stores what it reads and goes on to label b.
Look(r, a, b, stored) ==
  /\ looking[r] = a
  /\ looking' = [looking EXCEPT ![r] = b]
  /\ snap' = [snap EXCEPT ![r] = stored]

lookRest == <<network, queues, control, workVars, sendVars, counts, series>>

LookRecv(r) ==
  /\ Look(r, "recv", "resp", [NoSnapshot EXCEPT !.recv = recv_series])
  /\ UNCHANGED <<lookRest, interval>>

LookResp(r) ==
  /\ Look(r, "resp", "processing", [snap[r] EXCEPT !.resp = resp_series])
  /\ UNCHANGED <<lookRest, interval>>

LookProcessing(r) ==
  /\ Look(r, "processing", "interval", [snap[r] EXCEPT !.processing = processing])
  /\ UNCHANGED <<lookRest, interval>>

\* Defective variant: only one of the counters is reset.
ResetReceivedOnly ==
  \/ /\ collected' = [rx |-> collected.rx + interval_rx, tx |-> collected.tx + interval_tx]
     /\ interval_rx' = 0 /\ UNCHANGED interval_tx
  \/ UNCHANGED interval

\* _interval_counts(): whoever comes 0.1 s after the last reset takes them all,
\* whoever comes earlier leaves them; any time may have passed.
ResetInterval ==
  \/ /\ collected' = [rx |-> collected.rx + interval_rx, tx |-> collected.tx + interval_tx]
     /\ interval_rx' = 0 /\ interval_tx' = 0
  \/ UNCHANGED interval

LookInterval(r) ==
  /\ Look(r, "interval", "totals", snap[r])
  /\ ResetInterval
  /\ UNCHANGED lookRest

LookTotals(r) ==
  /\ Look(r, "totals", "done", [snap[r] EXCEPT !.rx = echo_rx, !.tx = echo_tx])
  /\ UNCHANGED <<lookRest, interval>>

\* Defective variant: the totals are read first, the timelines after them.
SnapshotTotalsFirst(r) ==
  \/ LookProcessing(r) \/ LookInterval(r)
  \/ /\ \/ Look(r, "recv", "resp", [NoSnapshot EXCEPT !.rx = echo_rx, !.tx = echo_tx])
        \/ Look(r, "resp", "processing", [snap[r] EXCEPT !.recv = recv_series, !.resp = resp_series])
        \/ Look(r, "totals", "done", snap[r])
     /\ UNCHANGED <<lookRest, interval>>

Snapshot(r) ==
  LookRecv(r) \/ LookResp(r) \/ LookProcessing(r) \/ LookInterval(r) \/ LookTotals(r)

-----------------------------------------------------------------------------
(* _work_conn, _udp_work and _handle *)

\* The worker of link l moves from label a to label b.
Work(l, a, b) == l \in links /\ worker[l] = a /\ worker' = [worker EXCEPT ![l] = b]

loopRest == <<network, control, sendVars, collected, resp_series, echo_tx, interval_tx>>
workRest == <<loopRest, draining>>

WorkTest(l) ==
  /\ ~stopped /\ ~closed[l]
  /\ Work(l, "test", "get")
  /\ UNCHANGED <<workRest, queues, work_item, counts, interval_rx, recv_series, readVars>>

\* Defective variant: the worker ignores the event.
WorkLeaveOnClose(l) ==
  /\ stopped \/ closed[l]
  /\ Work(l, "test", IF closed[l] THEN "drain" ELSE "get")
  /\ draining' = [draining EXCEPT ![l] = closed[l]]
  /\ UNCHANGED <<loopRest, queues, work_item, counts, interval_rx, recv_series, readVars>>

\* After the loop a TCP worker handles what is still queued, a UDP worker ends.
WorkLeave(l) ==
  /\ stopped \/ closed[l]
  /\ Work(l, "test", IF udp THEN "done" ELSE "drain")
  /\ draining' = [draining EXCEPT ![l] = ~udp]
  /\ UNCHANGED <<loopRest, queues, work_item, counts, interval_rx, recv_series, readVars>>

WorkEmpty(l) ==
  /\ rxq[l] = <<>>
  /\ Work(l, "get", "test")
  /\ UNCHANGED <<workRest, queues, work_item, counts, interval_rx, recv_series, readVars>>

WorkGet(l) ==
  /\ rxq[l] # <<>>
  /\ Work(l, "get", "count")
  /\ work_item' = [work_item EXCEPT ![l] = Head(rxq[l])]
  /\ rxq' = [rxq EXCEPT ![l] = Tail(@)]
  /\ UNCHANGED <<workRest, txq, counts, interval_rx, recv_series, readVars>>

\* Defective variant: a flag instead of a count.
WorkCountFlag(l) ==
  /\ Work(l, "count", "handle")
  /\ processing' = 1
  /\ UNCHANGED <<workRest, queues, work_item, echo_rx, status_rx, interval_rx, recv_series, readVars>>

WorkCount(l) ==
  /\ Work(l, "count", "handle")
  /\ processing' = processing + 1
  /\ UNCHANGED <<workRest, queues, work_item, echo_rx, status_rx, interval_rx, recv_series, readVars>>

\* get_nowait() in the drain: no processing + 1 goes with it.
WorkDrain(l) ==
  /\ rxq[l] # <<>>
  /\ Work(l, "drain", "handle")
  /\ work_item' = [work_item EXCEPT ![l] = Head(rxq[l])]
  /\ rxq' = [rxq EXCEPT ![l] = Tail(@)]
  /\ UNCHANGED <<workRest, txq, counts, interval_rx, recv_series, readVars>>

WorkDrained(l) ==
  /\ rxq[l] = <<>>
  /\ Work(l, "drain", "done")
  /\ UNCHANGED <<workRest, queues, work_item, counts, interval_rx, recv_series, readVars>>

\* Where _handle returns to: the finally clause of the loop, or the drain.
Return(l) == IF draining[l] THEN "put" ELSE "uncount"

\* An ECHO is counted and then added to the series; a frame that is no
\* request is given up.
Handle(l) ==
  LET r == work_item[l] IN
  /\ Work(l, "handle", IF IsEcho(r) THEN "add" ELSE IF r \in Status THEN "look" ELSE Return(l))
  /\ echo_rx' = IF IsEcho(r) THEN echo_rx + 1 ELSE echo_rx
  /\ interval_rx' = IF IsEcho(r) THEN interval_rx + 1 ELSE interval_rx
  /\ status_rx' = IF r \in Status THEN status_rx + 1 ELSE status_rx
  /\ UNCHANGED <<workRest, queues, work_item, processing, recv_series, readVars>>

HandleAdd(l) ==
  /\ Work(l, "add", "look")
  /\ recv_series' = recv_series + 1
  /\ UNCHANGED <<workRest, queues, work_item, counts, interval_rx, readVars>>

\* Telemetry and STATUS bodies are snapshots, taken by the worker itself.
HandleLook(l) ==
  /\ Work(l, "look", "looking")
  /\ looking' = [looking EXCEPT ![l] = "recv"]
  /\ UNCHANGED <<workRest, queues, work_item, counts, interval_rx, recv_series, snap>>

HandleLooked(l) ==
  /\ looking[l] = "done"
  /\ Work(l, "looking", Return(l))
  /\ looking' = [looking EXCEPT ![l] = "no"]
  /\ snap' = [snap EXCEPT ![l] = NoSnapshot]
  /\ UNCHANGED <<workRest, queues, work_item, counts, interval_rx, recv_series>>

\* Defective variant: only a request with a response is uncounted.
WorkUncountAnswered(l) ==
  /\ Work(l, "uncount", "put")
  /\ processing' = IF work_item[l] \in Junk THEN processing ELSE processing - 1
  /\ UNCHANGED <<workRest, queues, work_item, echo_rx, status_rx, interval_rx, recv_series, readVars>>

WorkUncount(l) ==
  /\ Work(l, "uncount", "put")
  /\ processing' = IF processing > 0 THEN processing - 1 ELSE 0
  /\ UNCHANGED <<workRest, queues, work_item, echo_rx, status_rx, interval_rx, recv_series, readVars>>

\* Defective variants: None is queued like a response; the newest goes first.
WorkPutNone(l) ==
  /\ Work(l, "put", IF draining[l] THEN "drain" ELSE "test")
  /\ txq' = [txq EXCEPT ![l] = Append(@, IF work_item[l] \in Junk THEN 0 ELSE work_item[l])]
  /\ work_item' = [work_item EXCEPT ![l] = 0]
  /\ UNCHANGED <<workRest, rxq, counts, interval_rx, recv_series, readVars>>
WorkPutFront(l) ==
  /\ Work(l, "put", IF draining[l] THEN "drain" ELSE "test")
  /\ txq' = IF work_item[l] \in Junk THEN txq ELSE [txq EXCEPT ![l] = <<work_item[l]>> \o @]
  /\ work_item' = [work_item EXCEPT ![l] = 0]
  /\ UNCHANGED <<workRest, rxq, counts, interval_rx, recv_series, readVars>>

WorkPut(l) ==
  /\ Work(l, "put", IF draining[l] THEN "drain" ELSE "test")
  /\ txq' = IF work_item[l] \in Junk THEN txq ELSE [txq EXCEPT ![l] = Append(@, work_item[l])]
  /\ work_item' = [work_item EXCEPT ![l] = 0]
  /\ UNCHANGED <<workRest, rxq, counts, interval_rx, recv_series, readVars>>

Worker(l) == WorkTest(l) \/ WorkLeave(l) \/ WorkEmpty(l) \/ WorkGet(l) \/ WorkDrain(l) \/ WorkDrained(l)
             \/ WorkCount(l) \/ Handle(l) \/ HandleAdd(l) \/ HandleLook(l) \/ HandleLooked(l)
             \/ WorkUncount(l) \/ WorkPut(l)

-----------------------------------------------------------------------------
(* _write_conn, _udp_write and _note_sent *)

Write(l, a, b) == l \in links /\ writer[l] = a /\ writer' = [writer EXCEPT ![l] = b]

writeRest == <<udp, written, net, rxq, control, workVars, processing, echo_rx, status_rx,
               interval_rx, collected, recv_series, readVars>>

WriteTest(l) ==
  /\ Write(l, "test", IF stopped /\ txq[l] = <<>> THEN "done" ELSE "get")
  /\ UNCHANGED <<writeRest, sent, failed, txq, write_item, echo_tx, interval_tx, resp_series>>

WriteEmpty(l) ==
  /\ txq[l] = <<>>
  /\ Write(l, "get", IF stopped \/ closed[l] THEN "done" ELSE "test")
  /\ UNCHANGED <<writeRest, sent, failed, txq, write_item, echo_tx, interval_tx, resp_series>>

WriteGet(l) ==
  /\ txq[l] # <<>>
  /\ Write(l, "get", "send")
  /\ write_item' = [write_item EXCEPT ![l] = Head(txq[l])]
  /\ txq' = [txq EXCEPT ![l] = Tail(@)]
  /\ UNCHANGED <<writeRest, sent, failed, echo_tx, interval_tx, resp_series>>

WriteSend(l) ==
  /\ ~lsock_closed
  /\ Write(l, "send", "note")
  /\ sent' = [sent EXCEPT ![l] = Append(@, write_item[l])]
  /\ UNCHANGED <<writeRest, failed, txq, write_item, echo_tx, interval_tx, resp_series>>

\* Defective variant: an error ends the UDP writer, as it ends the TCP one.
WriteFailEnds(l) ==
  /\ WritesFail \/ lsock_closed \/ closed[l]
  /\ Write(l, "send", "done")
  /\ failed' = failed \cup {write_item[l]}
  /\ write_item' = [write_item EXCEPT ![l] = 0]
  /\ UNCHANGED <<writeRest, sent, txq, echo_tx, interval_tx, resp_series>>

\* The response cannot be sent, and is gone: a TCP writer ends, a UDP writer
\* goes on unless stopped.
WriteFail(l) ==
  /\ WritesFail \/ lsock_closed \/ closed[l]
  /\ Write(l, "send", IF stopped \/ ~udp THEN "done" ELSE "test")
  /\ failed' = failed \cup {write_item[l]}
  /\ write_item' = [write_item EXCEPT ![l] = 0]
  /\ UNCHANGED <<writeRest, sent, txq, echo_tx, interval_tx, resp_series>>

\* Defective variant: every response is noted as an ECHO.
WriteNoteAll(l) ==
  /\ Write(l, "note", "add")
  /\ echo_tx' = echo_tx + 1 /\ interval_tx' = interval_tx + 1
  /\ UNCHANGED <<writeRest, sent, failed, txq, write_item, resp_series>>

WriteNote(l) ==
  /\ Write(l, "note", IF Noticed(write_item[l]) THEN "add" ELSE "test")
  /\ IF Noticed(write_item[l])
       THEN /\ echo_tx' = echo_tx + 1 /\ interval_tx' = interval_tx + 1
            /\ UNCHANGED write_item
       ELSE /\ write_item' = [write_item EXCEPT ![l] = 0]
            /\ UNCHANGED <<echo_tx, interval_tx>>
  /\ UNCHANGED <<writeRest, sent, failed, txq, resp_series>>

WriteAdd(l) ==
  /\ Write(l, "add", "test")
  /\ resp_series' = resp_series + 1
  /\ write_item' = [write_item EXCEPT ![l] = 0]
  /\ UNCHANGED <<writeRest, sent, failed, txq, echo_tx, interval_tx>>

Writer(l) == WriteTest(l) \/ WriteEmpty(l) \/ WriteGet(l) \/ WriteSend(l) \/ WriteFail(l)
             \/ WriteNote(l) \/ WriteAdd(l)

-----------------------------------------------------------------------------
(* stop(): the event; of a UDP server also the socket and the joins *)

StopCall ==
  /\ udp \in StopModes /\ ~stopped /\ stopped' = TRUE
  /\ stopper' = IF udp THEN "close" ELSE stopper
  /\ UNCHANGED <<network, queues, udp_reader, lsock_closed, closed, threads>>

StopStep(a, b) == udp /\ stopper = a /\ stopper' = b

StopClose ==
  /\ StopStep("close", "join")
  /\ lsock_closed' = TRUE
  /\ UNCHANGED <<network, queues, udp_reader, stopped, closed, threads>>

StopJoin ==
  /\ {udp_reader, worker[Socket], writer[Socket]} = {"done"}
  /\ StopStep("join", "done")
  /\ UNCHANGED <<network, queues, udp_reader, stopped, lsock_closed, closed, threads>>

Stop == StopClose \/ StopJoin

\* A TCP server's stop() goes on in module TcpServer.
Finished ==
  /\ IF udp THEN stopper = "done" ELSE \A l \in Links : {worker[l], writer[l]} = {"done"}
  /\ UNCHANGED vars

Next ==
  \/ Request \/ UdpRead \/ StopCall \/ Stop \/ Finished
  \/ \E r \in Places : Snapshot(r)
  \/ \E l \in links : Close(l) \/ Worker(l) \/ Writer(l)

\* The UDP server's threads keep running (TcpServer has the TCP ones); nothing is
\* assumed of the clients or of stop()'s caller.
Fairness ==
  /\ WF_vars(UdpRead) /\ WF_vars(Stop)
  /\ WF_vars(Worker(Socket) \/ Snapshot(Socket)) /\ WF_vars(Writer(Socket))

Spec == Init /\ [][Next]_vars
FairSpec == Spec /\ Fairness

-----------------------------------------------------------------------------
(* Properties *)

\* Every variable has its type; no counter is negative.
TypeOK ==
  /\ udp \in BOOLEAN /\ written \in 0..MaxReqs
  /\ \A q \in {sent, rxq, txq} : q \in [Places -> Seq(1..MaxReqs)]
  /\ net \in Seq(1..MaxReqs) /\ failed \subseteq 1..MaxReqs
  /\ work_item \in [Places -> 0..MaxReqs] /\ write_item \in [Places -> 0..MaxReqs]
  /\ \A n \in {processing, echo_rx, echo_tx, status_rx, interval_rx, interval_tx,
               recv_series, resp_series} : n \in 0..MaxReqs
  /\ stopped \in BOOLEAN /\ lsock_closed \in BOOLEAN
  /\ closed \in [Places -> BOOLEAN] /\ draining \in [Places -> BOOLEAN]
  /\ DOMAIN looking = Places /\ DOMAIN snap = Places

\* One report never contradicts itself: the timelines it shows add up to at
\* most the totals it prints, and it never shows more responses than requests.
\* The telemetry of a response counts its own request as received and not yet
\* as answered; and as being processed, except for a request that a TCP worker
\* handles after its loop, which _work_conn does not count.  The parts are read
\* under different locks while the threads go on counting.
SnapshotCoherent ==
  \A r \in Places : looking[r] = "done" =>
    /\ snap[r].recv <= snap[r].rx /\ snap[r].resp <= snap[r].tx
    /\ snap[r].tx <= snap[r].rx
    /\ r \in links /\ ~draining[r] => snap[r].processing >= 1
    /\ r \in links /\ IsEcho(work_item[r]) => snap[r].tx < snap[r].rx

\* processing is the number of workers between their two updates of it.
InHandling == {"handle", "add", "look", "looking", "uncount"}
ProcessingExact ==
  processing = Cardinality({l \in links : worker[l] \in InHandling /\ ~draining[l]})

\* The intervals that end with a reset add up to the totals, however many
\* readers reset the two interval counters: each ECHO is in exactly one.  (A
\* reader that comes earlier than 0.1 s sees the unfinished interval.)
IntervalConserved ==
  /\ collected.rx + interval_rx = echo_rx
  /\ collected.tx + interval_tx = echo_tx

\* An ECHO that was counted as received is answered and counted as such, is
\* on its way through the server, or could not be sent; or it is a Long one,
\* answered and passed over.  The totals drift by nothing else.
Handled(l) == IF worker[l] \in {"add", "look", "looking", "uncount", "put"} THEN {work_item[l]} ELSE {}
Answering(l) == IF writer[l] \in {"send", "note"} THEN {write_item[l]} ELSE {}
PassedOver(l) == IF udp THEN {} ELSE Elems(sent[l]) \cap Long
TotalsBalance ==
  echo_rx - echo_tx =
    Cardinality({r \in 1..MaxReqs : IsEcho(r) /\
      \/ r \in failed
      \/ \E l \in links : r \in Handled(l) \cup Elems(txq[l]) \cup Answering(l) \cup PassedOver(l)})

\* The counters shared by the workers and writers of all links are exact.
CountersExact == ProcessingExact /\ IntervalConserved /\ TotalsBalance

\* A UDP client gets the response to each datagram at most once, and the
\* responses come in the order in which the datagrams were read.
AnsweredOnceInOrder == \A l \in links : Increasing(sent[l])

\* README.md: the server answers ECHO and STATUS.  Every datagram that is a
\* request is answered, unless sendto() failed for this very one, or stop() came.
DatagramsAnswered ==
  \A r \in (1..MaxReqs) \ (Junk \cup Unsealed) :
    udp /\ r <= written ~> r \in Elems(sent[Socket]) \cup failed \/ stopped

\* stop() returns: the three UDP threads notice, the writer with responses
\* still queued included.
StopReturns == udp /\ stopped ~> stopper = "done"
=============================================================================
