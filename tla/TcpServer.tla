------------------------------ MODULE TcpServer ------------------------------
(***************************************************************************)
(* The TCP server, class Server of peer_server.py: the acceptor, a reader, *)
(* a worker and a writer per connection joined by two queues, and stop().  *)
(*                                                                         *)
(* Requests are numbered 1, 2, ... per connection; Status and Junk say     *)
(* which numbers are STATUS requests and which are frames decode_pdu       *)
(* rejects, the others are ECHOs.  A response has the number of its        *)
(* request.  Long are the ECHOs whose payload leaves no room for the       *)
(* telemetry trailer: their responses exceed MAX_BODY, which is checked    *)
(* when a frame is decoded, not when it is encoded.  The clients are       *)
(* external: they connect, write, hang up, and may leave what the server   *)
(* sends unread.                                                           *)
(*                                                                         *)
(* Left out: what is counted besides the totals and what is reported of it *)
(* (module ServerStats), the 2 MB limit on unparsed bytes (PduStream).     *)
(***************************************************************************)
EXTENDS Queues, FiniteSets

CONSTANTS Conns,    \* connections clients may open
          NoConn,   \* no connection
          MaxReqs,  \* bound on the requests a client writes
          Status,   \* the numbers of STATUS requests
          Junk,     \* the numbers of frames that are no request
          Long,     \* the numbers of ECHOs with a response above MAX_BODY
          Tls,      \* is there a TLS handshake on accept?
          HandshakesFail, WritesFail  \* may they, while the client is there?

ASSUME ServerAssumption ==
  /\ IsFiniteSet(Conns) /\ NoConn \notin Conns
  /\ MaxReqs \in Nat
  /\ Status \subseteq 1..MaxReqs /\ Junk \subseteq 1..MaxReqs /\ Status \cap Junk = {}
  /\ Long \subseteq (1..MaxReqs) \ (Status \cup Junk)
  /\ Tls \in BOOLEAN /\ HandshakesFail \in BOOLEAN /\ WritesFail \in BOOLEAN

VARIABLES peer,      \* [Conns -> "none", "backlog", "open" or "gone"], the clients
          wire,      \* [Conns -> Seq(Nat)], written by the client, not yet read
          written,   \* [Conns -> Nat], how many requests the client has written
          out,       \* [Conns -> Seq(Nat)], responses sent to the client
          conns,     \* Server.conns
          stopped,   \* the event
          lsock_closed, sock_closed,  \* sockets closed by the server
          closed,    \* _Conn.closed
          rxq, txq,  \* the queues of _Conn
          acceptor, acc_conn,         \* _accept: label and connection in hand
          reader, frames,             \* _read_conn: label, frames not yet queued
          worker, work_item,          \* _work_conn: label, request in hand
          writer, write_item,         \* _write_conn: label, response in hand
          processing, echo_rx, echo_tx, status_rx,
          stopper, to_close           \* stop(): label, its copy of conns

clients  == <<peer, wire, written, out>>
sockets  == <<conns, lsock_closed, sock_closed, closed>>
counters == <<processing, echo_rx, echo_tx, status_rx>>
accVars  == <<acceptor, acc_conn>>
readVars == <<reader, frames>>
workVars == <<worker, work_item>>
sendVars == <<writer, write_item>>
stopVars == <<stopped, stopper, to_close>>
vars == <<clients, sockets, counters, rxq, txq, accVars, readVars, workVars, sendVars, stopVars>>

IsEcho(r) == r \notin Status \cup Junk

Init ==
  /\ peer = [c \in Conns |-> "none"]
  /\ wire = [c \in Conns |-> <<>>] /\ out = [c \in Conns |-> <<>>]
  /\ written = [c \in Conns |-> 0]
  /\ conns = {} /\ stopped = FALSE /\ lsock_closed = FALSE
  /\ sock_closed = [c \in Conns |-> FALSE] /\ closed = [c \in Conns |-> FALSE]
  /\ rxq = [c \in Conns |-> <<>>] /\ txq = [c \in Conns |-> <<>>]
  /\ acceptor = "test" /\ acc_conn = NoConn
  /\ reader = [c \in Conns |-> "none"] /\ frames = [c \in Conns |-> <<>>]
  /\ worker = [c \in Conns |-> "none"] /\ work_item = [c \in Conns |-> <<>>]
  /\ writer = [c \in Conns |-> "none"] /\ write_item = [c \in Conns |-> <<>>]
  /\ processing = 0 /\ echo_rx = 0 /\ echo_tx = 0 /\ status_rx = 0
  /\ stopper = "idle" /\ to_close = {}

-----------------------------------------------------------------------------
(* The clients *)

serverVars == <<sockets, counters, rxq, txq, accVars, readVars, workVars, sendVars, stopVars>>

Connect(c) ==
  /\ peer[c] = "none" /\ ~lsock_closed
  /\ peer' = [peer EXCEPT ![c] = "backlog"]
  /\ UNCHANGED <<wire, written, out, serverVars>>

ClientWrite(c) ==
  /\ peer[c] \in {"backlog", "open"} /\ written[c] < MaxReqs
  /\ written' = [written EXCEPT ![c] = @ + 1]
  /\ wire' = [wire EXCEPT ![c] = Append(@, written'[c])]
  /\ UNCHANGED <<peer, out, serverVars>>

ClientClose(c) ==
  /\ peer[c] = "open"
  /\ peer' = [peer EXCEPT ![c] = "gone"]
  /\ UNCHANGED <<wire, written, out, serverVars>>

-----------------------------------------------------------------------------
(* _accept *)

acceptRest == <<wire, written, out, counters, rxq, txq, stopVars, lsock_closed,
                frames, work_item, write_item>>

AcceptTest ==
  /\ acceptor = "test"
  /\ acceptor' = IF stopped THEN "done" ELSE "accept"
  /\ UNCHANGED <<acceptRest, acc_conn, peer, conns, sock_closed, closed, reader, worker, writer>>

\* accept() returns a connection; with TLS the handshake follows ...
AcceptConn(c) ==
  /\ acceptor = "accept" /\ ~lsock_closed /\ peer[c] = "backlog"
  /\ acceptor' = IF Tls THEN "handshake" ELSE "register"
  /\ acc_conn' = c
  /\ peer' = [peer EXCEPT ![c] = "open"]
  /\ UNCHANGED <<acceptRest, conns, sock_closed, closed, reader, worker, writer>>

\* ... or times out after 0.3 s.
AcceptTimeout ==
  /\ acceptor = "accept" /\ ~lsock_closed
  /\ \A c \in Conns : peer[c] # "backlog"
  /\ acceptor' = "test"
  /\ UNCHANGED <<acceptRest, acc_conn, peer, conns, sock_closed, closed, reader, worker, writer>>

HandshakeDone ==
  /\ acceptor = "handshake" /\ acceptor' = "register"
  /\ UNCHANGED <<acceptRest, acc_conn, peer, conns, sock_closed, closed, reader, worker, writer>>

\* OSError: the listening socket is closed, or the handshake failed; then the
\* accepted socket is lost, and with it the connection.
AcceptError ==
  /\ \/ acceptor = "accept" /\ lsock_closed
     \/ HandshakesFail /\ acceptor = "handshake"
  /\ acceptor' = "done"
  /\ acc_conn' = NoConn
  /\ IF acc_conn = NoConn
       THEN UNCHANGED <<peer, sock_closed>>
       ELSE /\ peer' = [peer EXCEPT ![acc_conn] = "gone"]
            /\ sock_closed' = [sock_closed EXCEPT ![acc_conn] = TRUE]
  /\ UNCHANGED <<acceptRest, conns, closed, reader, worker, writer>>

AcceptRegister ==
  /\ acceptor = "register" /\ acceptor' = "spawn"
  /\ conns' = conns \cup {acc_conn}
  /\ UNCHANGED <<acceptRest, acc_conn, peer, sock_closed, closed, reader, worker, writer>>

AcceptSpawn ==
  /\ acceptor = "spawn" /\ acceptor' = "test"
  /\ reader' = [reader EXCEPT ![acc_conn] = "recv"]
  /\ worker' = [worker EXCEPT ![acc_conn] = "test"]
  /\ writer' = [writer EXCEPT ![acc_conn] = "test"]
  /\ acc_conn' = NoConn
  /\ UNCHANGED <<acceptRest, peer, conns, sock_closed, closed>>

Accept == AcceptTest \/ AcceptTimeout \/ HandshakeDone \/ AcceptError \/ AcceptRegister \/ AcceptSpawn
          \/ \E c \in Conns : AcceptConn(c)

-----------------------------------------------------------------------------
(* _read_conn *)

readRest == <<peer, written, out, counters, txq, accVars, workVars, sendVars, stopVars, lsock_closed>>

\* The parsed frames of one recv().
ReadRecv(c) ==
  /\ reader[c] = "recv" /\ ~stopped /\ ~sock_closed[c]
  /\ \E n \in 1..Len(wire[c]) :
       /\ frames' = [frames EXCEPT ![c] = SubSeq(wire[c], 1, n)]
       /\ wire' = [wire EXCEPT ![c] = SubSeq(@, n + 1, Len(@))]
  /\ reader' = [reader EXCEPT ![c] = "put"]
  /\ UNCHANGED <<readRest, rxq, conns, sock_closed, closed>>

\* Defective variant: the newest frame is queued first.
ReadPutFront(c) ==
  /\ reader[c] = "put"
  /\ rxq' = [rxq EXCEPT ![c] = <<Head(frames[c])>> \o @]
  /\ frames' = [frames EXCEPT ![c] = Tail(@)]
  /\ reader' = [reader EXCEPT ![c] = IF Len(frames[c]) = 1 THEN "recv" ELSE "put"]
  /\ UNCHANGED <<readRest, wire, conns, sock_closed, closed>>

ReadPut(c) ==
  /\ reader[c] = "put"
  /\ rxq' = [rxq EXCEPT ![c] = Append(@, Head(frames[c]))]
  /\ frames' = [frames EXCEPT ![c] = Tail(@)]
  /\ reader' = [reader EXCEPT ![c] = IF Len(frames[c]) = 1 THEN "recv" ELSE "put"]
  /\ UNCHANGED <<readRest, wire, conns, sock_closed, closed>>

\* Defective variant: the reader ignores the event.
ReadEndUnstopped(c) ==
  /\ reader[c] = "recv"
  /\ sock_closed[c] \/ (peer[c] = "gone" /\ wire[c] = <<>>)
  /\ reader' = [reader EXCEPT ![c] = "closing"]
  /\ UNCHANGED <<readRest, rxq, frames, wire, conns, sock_closed, closed>>

\* The event, a closed socket, or the end of the client's stream.
ReadEnd(c) ==
  /\ reader[c] = "recv"
  /\ stopped \/ sock_closed[c] \/ (peer[c] = "gone" /\ wire[c] = <<>>)
  /\ reader' = [reader EXCEPT ![c] = "closing"]
  /\ UNCHANGED <<readRest, rxq, frames, wire, conns, sock_closed, closed>>

\* The finally clause: the event, then the socket, then the set.
ReadClosed(c) ==
  /\ reader[c] = "closing"
  /\ closed' = [closed EXCEPT ![c] = TRUE]
  /\ reader' = [reader EXCEPT ![c] = "discard"]
  /\ UNCHANGED <<readRest, rxq, frames, wire, conns, sock_closed>>

\* Defective variant: the reader leaves its socket open.
ReadDiscardUnclosed(c) ==
  /\ reader[c] = "discard"
  /\ conns' = conns \ {c}
  /\ reader' = [reader EXCEPT ![c] = "done"]
  /\ UNCHANGED <<readRest, rxq, frames, wire, closed, sock_closed>>

ReadDiscard(c) ==
  /\ reader[c] = "discard"
  /\ sock_closed' = [sock_closed EXCEPT ![c] = TRUE]
  /\ conns' = conns \ {c}
  /\ reader' = [reader EXCEPT ![c] = "done"]
  /\ UNCHANGED <<readRest, rxq, frames, wire, closed>>

Read(c) == ReadRecv(c) \/ ReadPut(c) \/ ReadEnd(c) \/ ReadClosed(c) \/ ReadDiscard(c)

-----------------------------------------------------------------------------
(* _work_conn and _handle *)

workRest == <<clients, sockets, echo_tx, accVars, readVars, sendVars, stopVars>>

\* _handle counts the request before its response is queued.
Handle(r) ==
  /\ echo_rx' = IF IsEcho(r) THEN echo_rx + 1 ELSE echo_rx
  /\ status_rx' = IF r \in Status THEN status_rx + 1 ELSE status_rx

WorkTest(c) ==
  /\ worker[c] = "test"
  /\ worker' = [worker EXCEPT ![c] = IF stopped \/ closed[c] THEN "drain" ELSE "get"]
  /\ UNCHANGED <<workRest, rxq, txq, work_item, processing, echo_rx, status_rx>>

WorkGet(c) ==
  /\ worker[c] = "get" /\ rxq[c] # <<>>
  /\ work_item' = [work_item EXCEPT ![c] = <<Head(rxq[c])>>]
  /\ rxq' = [rxq EXCEPT ![c] = Tail(@)]
  /\ worker' = [worker EXCEPT ![c] = "count"]
  /\ UNCHANGED <<workRest, txq, processing, echo_rx, status_rx>>

WorkEmpty(c) ==
  /\ worker[c] = "get" /\ rxq[c] = <<>>
  /\ worker' = [worker EXCEPT ![c] = "test"]
  /\ UNCHANGED <<workRest, rxq, txq, work_item, processing, echo_rx, status_rx>>

WorkCount(c) ==
  /\ worker[c] = "count"
  /\ processing' = processing + 1
  /\ worker' = [worker EXCEPT ![c] = "handle"]
  /\ UNCHANGED <<workRest, rxq, txq, work_item, echo_rx, status_rx>>

WorkHandle(c) ==
  /\ worker[c] = "handle"
  /\ Handle(work_item[c][1])
  /\ worker' = [worker EXCEPT ![c] = "uncount"]
  /\ UNCHANGED <<workRest, rxq, txq, work_item, processing>>

\* Defective variant: only a request with a response is uncounted.
WorkUncountSometimes(c) ==
  /\ worker[c] = "uncount"
  /\ processing' = IF work_item[c][1] \in Junk THEN processing ELSE processing - 1
  /\ worker' = [worker EXCEPT ![c] = "put"]
  /\ UNCHANGED <<workRest, rxq, txq, work_item, echo_rx, status_rx>>

WorkUncount(c) ==
  /\ worker[c] = "uncount"
  /\ processing' = IF processing > 0 THEN processing - 1 ELSE 0
  /\ worker' = [worker EXCEPT ![c] = "put"]
  /\ UNCHANGED <<workRest, rxq, txq, work_item, echo_rx, status_rx>>

\* A junk frame has no response.
WorkPut(c) ==
  /\ worker[c] \in {"put", "drain put"}
  /\ txq' = IF work_item[c][1] \in Junk THEN txq
              ELSE [txq EXCEPT ![c] = Append(@, work_item[c][1])]
  /\ work_item' = [work_item EXCEPT ![c] = <<>>]
  /\ worker' = [worker EXCEPT ![c] = IF @ = "put" THEN "test" ELSE "drain"]
  /\ UNCHANGED <<workRest, rxq, processing, echo_rx, status_rx>>

\* Defective variant: what is still queued is left behind.
WorkDrainSkipped(c) ==
  /\ worker[c] = "drain"
  /\ worker' = [worker EXCEPT ![c] = "done"]
  /\ UNCHANGED <<workRest, rxq, txq, work_item, processing, echo_rx, status_rx>>

\* After the loop, what is still queued is handled too.
WorkDrain(c) ==
  /\ worker[c] = "drain"
  /\ IF rxq[c] = <<>>
       THEN /\ worker' = [worker EXCEPT ![c] = "done"]
            /\ UNCHANGED <<rxq, work_item, echo_rx, status_rx>>
       ELSE /\ worker' = [worker EXCEPT ![c] = "drain put"]
            /\ work_item' = [work_item EXCEPT ![c] = <<Head(rxq[c])>>]
            /\ rxq' = [rxq EXCEPT ![c] = Tail(@)]
            /\ Handle(Head(rxq[c]))
  /\ UNCHANGED <<workRest, txq, processing>>

Work(c) == WorkTest(c) \/ WorkGet(c) \/ WorkEmpty(c) \/ WorkCount(c) \/ WorkHandle(c)
           \/ WorkUncount(c) \/ WorkPut(c) \/ WorkDrain(c)

-----------------------------------------------------------------------------
(* _write_conn and _note_sent *)

writeRest == <<peer, wire, written, sockets, processing, echo_rx, status_rx, rxq,
               accVars, readVars, workVars, stopVars>>

WriteTest(c) ==
  /\ writer[c] = "test"
  /\ writer' = [writer EXCEPT ![c] = IF stopped /\ txq[c] = <<>> THEN "done" ELSE "get"]
  /\ UNCHANGED <<writeRest, out, txq, write_item, echo_tx>>

WriteGet(c) ==
  /\ writer[c] = "get" /\ txq[c] # <<>>
  /\ write_item' = [write_item EXCEPT ![c] = <<Head(txq[c])>>]
  /\ txq' = [txq EXCEPT ![c] = Tail(@)]
  /\ writer' = [writer EXCEPT ![c] = "send"]
  /\ UNCHANGED <<writeRest, out, echo_tx>>

\* Defective variant: an empty queue ends the writer.
WriteEmptyEnds(c) ==
  /\ writer[c] = "get" /\ txq[c] = <<>>
  /\ writer' = [writer EXCEPT ![c] = "done"]
  /\ UNCHANGED <<writeRest, out, txq, write_item, echo_tx>>

WriteEmpty(c) ==
  /\ writer[c] = "get" /\ txq[c] = <<>>
  /\ writer' = [writer EXCEPT ![c] = IF closed[c] \/ stopped THEN "done" ELSE "test"]
  /\ UNCHANGED <<writeRest, out, txq, write_item, echo_tx>>

WriteSend(c) ==
  /\ writer[c] = "send" /\ ~sock_closed[c]
  /\ out' = [out EXCEPT ![c] = @ \o write_item[c]]
  /\ writer' = [writer EXCEPT ![c] = "note"]
  /\ UNCHANGED <<writeRest, txq, write_item, echo_tx>>

\* OSError: a closed or reset socket, or 0.3 s without room to write.
WriteFail(c) ==
  /\ writer[c] = "send"
  /\ sock_closed[c] \/ peer[c] = "gone" \/ WritesFail
  /\ writer' = [writer EXCEPT ![c] = "done"]
  /\ UNCHANGED <<writeRest, out, txq, write_item, echo_tx>>

\* Defective variant: _note_sent counts every response.
WriteNoteAll(c) ==
  /\ writer[c] = "note"
  /\ echo_tx' = echo_tx + 1
  /\ write_item' = [write_item EXCEPT ![c] = <<>>]
  /\ writer' = [writer EXCEPT ![c] = IF stopped /\ txq[c] = <<>> THEN "done" ELSE "test"]
  /\ UNCHANGED <<writeRest, out, txq>>

\* _note_sent decodes the response again, and does not count what it cannot.
WriteNote(c) ==
  /\ writer[c] = "note"
  /\ echo_tx' = IF IsEcho(write_item[c][1]) /\ write_item[c][1] \notin Long
                  THEN echo_tx + 1 ELSE echo_tx
  /\ write_item' = [write_item EXCEPT ![c] = <<>>]
  /\ writer' = [writer EXCEPT ![c] = IF stopped /\ txq[c] = <<>> THEN "done" ELSE "test"]
  /\ UNCHANGED <<writeRest, out, txq>>

Write(c) == WriteTest(c) \/ WriteGet(c) \/ WriteEmpty(c) \/ WriteSend(c) \/ WriteFail(c) \/ WriteNote(c)

-----------------------------------------------------------------------------
(* stop() *)

stopRest == <<clients, counters, rxq, txq, accVars, readVars, workVars, sendVars>>

StopCall ==
  /\ stopper = "idle" /\ stopper' = "copy"
  /\ stopped' = TRUE
  /\ UNCHANGED <<stopRest, sockets, to_close>>

StopCopy ==
  /\ stopper = "copy" /\ stopper' = "close"
  /\ to_close' = conns
  /\ UNCHANGED <<stopRest, sockets, stopped>>

StopCloseConn(c) ==
  /\ stopper = "close" /\ c \in to_close
  /\ closed' = [closed EXCEPT ![c] = TRUE]
  /\ sock_closed' = [sock_closed EXCEPT ![c] = TRUE]
  /\ to_close' = to_close \ {c}
  /\ UNCHANGED <<stopRest, conns, lsock_closed, stopped, stopper>>

StopCloseListener ==
  /\ stopper = "close" /\ to_close = {} /\ stopper' = "join"
  /\ lsock_closed' = TRUE
  /\ UNCHANGED <<stopRest, conns, sock_closed, closed, stopped, to_close>>

Ended(label) == label \in {"none", "done"}

\* The threads end within their join timeouts, except an acceptor inside a
\* handshake: that call has no timeout, so the join gives it up.
StopJoin ==
  /\ stopper = "join" /\ stopper' = "done"
  /\ acceptor \in {"done", "handshake"}
  /\ \A c \in Conns : Ended(reader[c]) /\ Ended(worker[c]) /\ Ended(writer[c])
  /\ UNCHANGED <<stopRest, sockets, stopped, to_close>>

Stop == StopCopy \/ StopCloseListener \/ StopJoin \/ \E c \in Conns : StopCloseConn(c)

Finished == stopper = "done" /\ UNCHANGED vars

Next ==
  \/ Accept \/ StopCall \/ Stop \/ Finished
  \/ \E c \in Conns : \/ Connect(c) \/ ClientWrite(c) \/ ClientClose(c)
                      \/ Read(c) \/ Work(c) \/ Write(c)

\* The server's threads keep running.  Nothing is assumed of the clients: a
\* handshake need not complete.
Fairness ==
  /\ WF_vars(Accept /\ acceptor # "handshake") /\ WF_vars(Stop)
  /\ \A c \in Conns : WF_vars(Read(c)) /\ WF_vars(Work(c)) /\ WF_vars(Write(c))

Spec == Init /\ [][Next]_vars
FairSpec == Spec /\ Fairness

-----------------------------------------------------------------------------
(* Properties *)

Labels == {"none", "done", "test", "get", "put", "recv", "closing", "discard", "count",
           "handle", "uncount", "drain", "drain put", "send", "note"}

\* Every variable has its type.
TypeOK ==
  /\ peer \in [Conns -> {"none", "backlog", "open", "gone"}]
  /\ written \in [Conns -> 0..MaxReqs]
  /\ \A q \in {wire, out, rxq, txq, frames, work_item, write_item} : q \in [Conns -> Seq(1..MaxReqs)]
  /\ conns \subseteq Conns /\ to_close \subseteq Conns
  /\ sock_closed \in [Conns -> BOOLEAN] /\ closed \in [Conns -> BOOLEAN]
  /\ lsock_closed \in BOOLEAN /\ stopped \in BOOLEAN
  /\ acceptor \in {"test", "accept", "handshake", "register", "spawn", "done"}
  /\ acc_conn \in Conns \cup {NoConn}
  /\ reader \in [Conns -> Labels] /\ worker \in [Conns -> Labels] /\ writer \in [Conns -> Labels]
  /\ stopper \in {"idle", "copy", "close", "join", "done"}
  /\ processing \in 0..Cardinality(Conns)
  /\ echo_rx \in Nat /\ echo_tx \in Nat /\ status_rx \in Nat

\* The response in the writer's hand that is not in out yet.
Unsent(c) == IF writer[c] = "note" THEN <<>> ELSE write_item[c]

\* A connection's requests and responses inside the server, oldest first.
Pipeline(c) == out[c] \o Unsent(c) \o txq[c] \o work_item[c] \o rxq[c] \o frames[c]

\* Between recv() and sendall() three threads and two queues neither lose nor
\* duplicate nor reorder a request of a connection, whatever stop(), the
\* client or a failing socket does: the client sees its responses in the order
\* of its requests.  Only junk drops out, as it has no response.
InOrder ==
  \A c \in Conns :
    LET taken == written[c] - Len(wire[c])
        inside == Elems(Pipeline(c))
    IN  /\ Increasing(Pipeline(c))
        /\ inside \subseteq 1..taken /\ (1..taken) \ Junk \subseteq inside

\* The reported totals differ by the ECHOs handled and not yet reported sent,
\* and for ever by the Long ones: their responses are sent and _note_sent passes
\* them over.  Nothing else makes the totals drift, whatever ends a thread, and
\* "responses" never exceeds "requests".
Handled(c) == IF worker[c] \in {"uncount", "put", "drain put"} THEN Elems(work_item[c]) ELSE {}
PassedOver(c) == Elems(out[c]) \cap Long
Answering(c) ==
  {r \in Handled(c) \cup Elems(txq[c]) \cup Elems(write_item[c]) \cup PassedOver(c) : IsEcho(r)}
TotalsBalance == echo_rx - echo_tx = Cardinality(UNION {{c} \X Answering(c) : c \in Conns})

\* When a client has hung up everything read from it is still handled, unless
\* the server is stopped: the worker sees closed only after the last request
\* was queued.
DrainAfterClose ==
  \A c \in Conns :
    closed[c] ~> stopped \/ (rxq[c] = <<>> /\ frames[c] = <<>> /\ work_item[c] = <<>>)

\* README.md: the server answers ECHO and STATUS.  A client that has completed
\* its handshake and stays connected gets the response to every request it has
\* written.
EveryRequestAnswered ==
  \A c \in Conns, r \in 1..MaxReqs :
    r \notin Junk /\ r <= written[c] /\ peer[c] = "open" /\ reader[c] # "none"
      ~> r \in Elems(out[c]) \/ peer[c] = "gone" \/ stopped

\* stop() returns, for every thread of every connection notices; and no
\* connection stays open or registered, not even one the acceptor registers
\* after stop() has copied the set.
StopClosesAll ==
  <>stopped => <>[]/\ stopper = "done"
                   /\ \A c \in Conns : reader[c] # "none" => sock_closed[c] /\ c \notin conns

\* README.md: with no SERVER it listens.  Until stop() the server accepts.
KeepsListening == acceptor = "done" => stopped
=============================================================================
