---------------------------- MODULE TcpServerProofs ----------------------------
(***************************************************************************)
(* Proofs about TcpServer, for every finite set of connections, any number *)
(* of requests, any choice of which are STATUS requests, junk or ECHOs too *)
(* long for the trailer, with or without TLS, and whatever may fail.       *)
(***************************************************************************)
EXTENDS TcpServer, SequenceFacts, FiniteSetTheorems

Reqs == 1..MaxReqs

-----------------------------------------------------------------------------
(* The inductive invariant, part 1: types, and what goes with a label *)

Holding == {"count", "handle", "uncount", "put", "drain put"}

Typed ==
  /\ peer \in [Conns -> {"none", "backlog", "open", "gone"}]
  /\ written \in [Conns -> 0..MaxReqs]
  /\ wire \in [Conns -> Seq(Reqs)] /\ out \in [Conns -> Seq(Reqs)]
  /\ rxq \in [Conns -> Seq(Reqs)] /\ txq \in [Conns -> Seq(Reqs)]
  /\ frames \in [Conns -> Seq(Reqs)]
  /\ work_item \in [Conns -> Seq(Reqs)] /\ write_item \in [Conns -> Seq(Reqs)]
  /\ conns \subseteq Conns /\ to_close \subseteq Conns
  /\ sock_closed \in [Conns -> BOOLEAN] /\ closed \in [Conns -> BOOLEAN]
  /\ lsock_closed \in BOOLEAN /\ stopped \in BOOLEAN
  /\ acceptor \in {"test", "accept", "handshake", "register", "spawn", "done"}
  /\ acc_conn \in Conns \cup {NoConn}
  /\ reader \in [Conns -> {"none", "recv", "put", "closing", "discard", "done"}]
  /\ worker \in [Conns -> {"none", "test", "get", "drain", "done"} \cup Holding]
  /\ writer \in [Conns -> {"none", "test", "get", "send", "note", "done"}]
  /\ stopper \in {"idle", "copy", "close", "join", "done"}
  /\ processing \in Nat /\ echo_rx \in Nat /\ echo_tx \in Nat /\ status_rx \in Nat

\* The acceptor has a connection in hand from accept() to spawn, and until then
\* the connection has no threads.
Accepting ==
  /\ acceptor \in {"handshake", "register", "spawn"} <=> acc_conn \in Conns
  /\ \A c \in Conns : c = acc_conn \/ peer[c] \in {"none", "backlog"} =>
                        reader[c] = "none" /\ worker[c] = "none" /\ writer[c] = "none"
  /\ \A c \in Conns : c = acc_conn => peer[c] \in {"open", "gone"}

\* A thread holds a request between get() and put() or sendall(); a writer that
\* failed still does.
Framed(c)     == reader[c] = "put" <=> frames[c] # <<>>
WorkHolds(c)  == IF worker[c] \in Holding THEN \E r \in Reqs : work_item[c] = <<r>>
                                          ELSE work_item[c] = <<>>
WriteHolds(c) == \/ writer[c] \in {"send", "note", "done"} /\ \E r \in Reqs : write_item[c] = <<r>>
                 \/ writer[c] \notin {"send", "note"} /\ write_item[c] = <<>>

Labelled == Accepting /\ \A c \in Conns : Framed(c) /\ WorkHolds(c) /\ WriteHolds(c)

-----------------------------------------------------------------------------
(* Part 2: the order of the requests on their way through a connection *)

Taken(c) == written[c] - Len(wire[c])

\* What has not been read is what was written last, in order.
Unread(c) ==
  /\ Len(wire[c]) <= written[c]
  /\ \A i \in 1..Len(wire[c]) : wire[c][i] = Taken(c) + i

InPlace(c) ==
  /\ Increasing(Pipeline(c))
  /\ Elems(Pipeline(c)) \subseteq 1..Taken(c)
  /\ (1..Taken(c)) \ Junk \subseteq Elems(Pipeline(c))

Ordered == \A c \in Conns : Unread(c) /\ InPlace(c)

\* A response the writer has sent and not yet counted was sent.
Noting == \A c \in Conns : writer[c] = "note" => Elems(write_item[c]) \subseteq Elems(out[c])

-----------------------------------------------------------------------------
(* Part 3: the counters *)

Busy == {c \in Conns : worker[c] \in {"handle", "uncount"}}
ProcessingExact == processing = Cardinality(Busy)

IInv == Typed /\ Labelled /\ Ordered /\ Noting /\ TotalsBalance /\ ProcessingExact

-----------------------------------------------------------------------------
(* Types and labels *)

\* Every step keeps the types.
LEMMA NextTyped ==
  ASSUME Typed, Labelled, [Next]_vars
  PROVE  Typed'
<1> USE DEF Typed
<1>1. ASSUME NEW c \in Conns, Connect(c) PROVE Typed'
  BY <1>1 DEF Connect, serverVars, sockets, counters, accVars, readVars, workVars, sendVars,
     stopVars
<1>2. ASSUME NEW c \in Conns, ClientWrite(c) PROVE Typed'
  <2>1. written[c] + 1 \in Reqs /\ written[c] + 1 \in 0..MaxReqs
    BY <1>2, ServerAssumption DEF ClientWrite, Reqs
  <2>2. Append(wire[c], written[c] + 1) \in Seq(Reqs)
    BY <2>1, AppendProperties
  <2>3. written' \in [Conns -> 0..MaxReqs] /\ wire' \in [Conns -> Seq(Reqs)]
    BY <1>2, <2>1, <2>2 DEF ClientWrite
  <2> QED BY <1>2, <2>1, <2>2, <2>3 DEF ClientWrite, serverVars, sockets, counters, accVars,
             readVars, workVars, sendVars, stopVars
<1>3. ASSUME NEW c \in Conns, ClientClose(c) PROVE Typed'
  BY <1>3 DEF ClientClose, serverVars, sockets, counters, accVars, readVars, workVars, sendVars,
     stopVars
<1>4. CASE AcceptTest
  BY <1>4 DEF AcceptTest, acceptRest, counters, stopVars
<1>5. CASE AcceptTimeout
  BY <1>5 DEF AcceptTimeout, acceptRest, counters, stopVars
<1>6. CASE HandshakeDone
  BY <1>6 DEF HandshakeDone, acceptRest, counters, stopVars
<1>7. CASE AcceptError
  BY <1>7 DEF AcceptError, acceptRest, counters, stopVars
<1>8. CASE AcceptRegister
  <2>1. acc_conn \in Conns
    BY <1>8 DEF AcceptRegister, Labelled, Accepting
  <2> QED BY <1>8, <2>1 DEF AcceptRegister, acceptRest, counters, stopVars
<1>9. CASE AcceptSpawn
  BY <1>9 DEF AcceptSpawn, acceptRest, counters, stopVars
<1>10. ASSUME NEW c \in Conns, AcceptConn(c) PROVE Typed'
  BY <1>10 DEF AcceptConn, acceptRest, counters, stopVars
<1>11. ASSUME NEW c \in Conns, ReadRecv(c) PROVE Typed'
  <2>1. PICK n \in 1..Len(wire[c]) :
             /\ frames' = [frames EXCEPT ![c] = SubSeq(wire[c], 1, n)]
             /\ wire' = [wire EXCEPT ![c] = SubSeq(@, n + 1, Len(@))]
    BY <1>11 DEF ReadRecv
  <2>2. SubSeq(wire[c], 1, n) \in Seq(Reqs) /\ SubSeq(wire[c], n + 1, Len(wire[c])) \in Seq(Reqs)
    BY ReadPrefix
  <2>3. frames' \in [Conns -> Seq(Reqs)] /\ wire' \in [Conns -> Seq(Reqs)]
    BY <2>1, <2>2
  <2> QED BY <1>11, <2>1, <2>2, <2>3 DEF ReadRecv, readRest, counters, accVars, workVars,
             sendVars, stopVars
<1>12. ASSUME NEW c \in Conns, ReadPut(c) PROVE Typed'
  <2>1. frames[c] # <<>>
    BY <1>12 DEF ReadPut, Labelled, Framed
  <2>2. Head(frames[c]) \in Reqs /\ Tail(frames[c]) \in Seq(Reqs)
    BY <2>1, HeadTailProperties
  <2>3. Append(rxq[c], Head(frames[c])) \in Seq(Reqs)
    BY <2>2, AppendProperties
  <2>4. frames' \in [Conns -> Seq(Reqs)] /\ rxq' \in [Conns -> Seq(Reqs)]
    BY <1>12, <2>2, <2>3 DEF ReadPut
  <2> QED BY <1>12, <2>1, <2>2, <2>3, <2>4 DEF ReadPut, readRest, counters, accVars, workVars,
             sendVars, stopVars
<1>13. ASSUME NEW c \in Conns, ReadEnd(c) PROVE Typed'
  BY <1>13 DEF ReadEnd, readRest, counters, accVars, workVars, sendVars, stopVars
<1>14. ASSUME NEW c \in Conns, ReadClosed(c) PROVE Typed'
  BY <1>14 DEF ReadClosed, readRest, counters, accVars, workVars, sendVars, stopVars
<1>15. ASSUME NEW c \in Conns, ReadDiscard(c) PROVE Typed'
  BY <1>15 DEF ReadDiscard, readRest, counters, accVars, workVars, sendVars, stopVars
<1>16. ASSUME NEW c \in Conns, WorkTest(c) PROVE Typed'
  BY <1>16 DEF WorkTest, workRest, clients, sockets, accVars, readVars, sendVars, stopVars, Holding
<1>17. ASSUME NEW c \in Conns, WorkGet(c) PROVE Typed'
  <2>1. <<Head(rxq[c])>> \in Seq(Reqs) /\ Tail(rxq[c]) \in Seq(Reqs)
    BY <1>17, HeadFirst DEF WorkGet
  <2>2. work_item' \in [Conns -> Seq(Reqs)] /\ rxq' \in [Conns -> Seq(Reqs)]
    BY <1>17, <2>1 DEF WorkGet
  <2> QED BY <1>17, <2>1, <2>2 DEF WorkGet, workRest, clients, sockets, accVars, readVars,
             sendVars, stopVars, Holding
<1>18. ASSUME NEW c \in Conns, WorkEmpty(c) PROVE Typed'
  BY <1>18 DEF WorkEmpty, workRest, clients, sockets, accVars, readVars, sendVars, stopVars, Holding
<1>19. ASSUME NEW c \in Conns, WorkCount(c) PROVE Typed'
  <2>1. processing' \in Nat
    BY <1>19 DEF WorkCount
  <2> QED BY <1>19, <2>1 DEF WorkCount, workRest, clients, sockets, accVars, readVars, sendVars,
             stopVars, Holding
<1>20. ASSUME NEW c \in Conns, WorkHandle(c) PROVE Typed'
  <2>1. echo_rx' \in Nat
    BY <1>20 DEF WorkHandle, Handle
  <2>2. status_rx' \in Nat
    BY <1>20 DEF WorkHandle, Handle
  <2> QED BY <1>20, <2>1, <2>2 DEF WorkHandle, workRest, clients, sockets, accVars, readVars,
             sendVars, stopVars, Holding
<1>21. ASSUME NEW c \in Conns, WorkUncount(c) PROVE Typed'
  <2>1. processing' \in Nat
    BY <1>21 DEF WorkUncount
  <2> QED BY <1>21, <2>1 DEF WorkUncount, workRest, clients, sockets, accVars, readVars, sendVars,
             stopVars, Holding
<1>22. ASSUME NEW c \in Conns, WorkPut(c) PROVE Typed'
  <2>1. PICK r \in Reqs : work_item[c] = <<r>>
    BY <1>22 DEF WorkPut, Labelled, WorkHolds, Holding
  <2>2. work_item[c][1] = r /\ Append(txq[c], r) \in Seq(Reqs) /\ <<>> \in Seq(Reqs)
    BY <2>1, AppendProperties, EmptySeq
  <2>3. txq' \in [Conns -> Seq(Reqs)] /\ work_item' \in [Conns -> Seq(Reqs)]
    BY <1>22, <2>2 DEF WorkPut
  <2> QED BY <1>22, <2>1, <2>2, <2>3 DEF WorkPut, workRest, clients, sockets, accVars, readVars,
             sendVars, stopVars, Holding
<1>23. ASSUME NEW c \in Conns, WorkDrain(c) PROVE Typed'
  <2>1. rxq[c] # <<>> => <<Head(rxq[c])>> \in Seq(Reqs) /\ Tail(rxq[c]) \in Seq(Reqs)
    BY HeadFirst
  <2>2. work_item' \in [Conns -> Seq(Reqs)] /\ rxq' \in [Conns -> Seq(Reqs)]
    BY ZenonT(60), <1>23, <2>1 DEF WorkDrain
  <2>3. echo_rx' = echo_rx \/ echo_rx' = echo_rx + 1
    BY <1>23 DEF WorkDrain, Handle
  <2>4. status_rx' = status_rx \/ status_rx' = status_rx + 1
    BY <1>23 DEF WorkDrain, Handle
  <2>5. echo_rx' \in Nat
    BY SMTT(30), <2>3
  <2>6. status_rx' \in Nat
    BY SMTT(30), <2>4
  <2> QED BY <1>23, <2>1, <2>2, <2>3, <2>4, <2>5, <2>6 DEF WorkDrain, workRest, clients, sockets,
             accVars, readVars, sendVars, stopVars, Holding
<1>24. ASSUME NEW c \in Conns, WriteTest(c) PROVE Typed'
  BY <1>24 DEF WriteTest, writeRest, sockets, accVars, readVars, workVars, stopVars
<1>25. ASSUME NEW c \in Conns, WriteGet(c) PROVE Typed'
  <2>1. <<Head(txq[c])>> \in Seq(Reqs) /\ Tail(txq[c]) \in Seq(Reqs)
    BY <1>25, HeadFirst DEF WriteGet
  <2>2. write_item' \in [Conns -> Seq(Reqs)] /\ txq' \in [Conns -> Seq(Reqs)]
    BY <1>25, <2>1 DEF WriteGet
  <2> QED BY <1>25, <2>1, <2>2 DEF WriteGet, writeRest, sockets, accVars, readVars, workVars,
             stopVars
<1>26. ASSUME NEW c \in Conns, WriteEmpty(c) PROVE Typed'
  BY <1>26 DEF WriteEmpty, writeRest, sockets, accVars, readVars, workVars, stopVars
<1>27. ASSUME NEW c \in Conns, WriteSend(c) PROVE Typed'
  <2>1. out[c] \o write_item[c] \in Seq(Reqs)
    BY ConcatProperties
  <2>2. out' \in [Conns -> Seq(Reqs)]
    BY <1>27, <2>1 DEF WriteSend
  <2> QED BY <1>27, <2>1, <2>2 DEF WriteSend, writeRest, sockets, accVars, readVars, workVars,
             stopVars
<1>28. ASSUME NEW c \in Conns, WriteFail(c) PROVE Typed'
  BY <1>28 DEF WriteFail, writeRest, sockets, accVars, readVars, workVars, stopVars
<1>29. ASSUME NEW c \in Conns, WriteNote(c) PROVE Typed'
  <2>1. write_item' \in [Conns -> Seq(Reqs)]
    BY <1>29, EmptySeq DEF WriteNote
  <2>2. echo_tx' \in Nat
    BY <1>29 DEF WriteNote
  <2> QED BY <1>29, <2>1, <2>2 DEF WriteNote, writeRest, sockets, accVars, readVars, workVars,
             stopVars
<1>30. CASE StopCall
  BY <1>30 DEF StopCall, stopRest, clients, sockets, counters, accVars, readVars, workVars, sendVars
<1>31. CASE StopCopy
  BY <1>31 DEF StopCopy, stopRest, clients, sockets, counters, accVars, readVars, workVars, sendVars
<1>32. CASE StopCloseListener
  BY <1>32 DEF StopCloseListener, stopRest, clients, sockets, counters, accVars, readVars,
     workVars, sendVars
<1>33. CASE StopJoin
  BY <1>33 DEF StopJoin, stopRest, clients, sockets, counters, accVars, readVars, workVars, sendVars
<1>34. ASSUME NEW c \in Conns, StopCloseConn(c) PROVE Typed'
  BY <1>34 DEF StopCloseConn, stopRest, clients, counters, accVars, readVars, workVars, sendVars
<1>35. CASE UNCHANGED vars
  BY <1>35 DEF vars, clients, sockets, counters, accVars, readVars, workVars, sendVars, stopVars
<1> HIDE DEF Typed
<1> QED BY <1>1, <1>2, <1>3, <1>4, <1>5, <1>6, <1>7, <1>8, <1>9, <1>10, <1>11, <1>12, <1>13,
           <1>14, <1>15, <1>16, <1>17, <1>18, <1>19, <1>20, <1>21, <1>22, <1>23, <1>24, <1>25,
           <1>26, <1>27, <1>28, <1>29, <1>30, <1>31, <1>32, <1>33, <1>34, <1>35
    DEF Next, Accept, Read, Work, Write, Stop, Finished

\* No thread of a connection starts before the acceptor spawns it.
LEMMA NextAccepting ==
  ASSUME Typed, Labelled, [Next]_vars
  PROVE  Accepting'
<1> DEFINE Idle(c) == reader[c] = "none" /\ worker[c] = "none" /\ writer[c] = "none"
<1>0. Accepting
  BY DEF Labelled
<1>1. ASSUME UNCHANGED <<peer, acceptor, acc_conn>>, \A c \in Conns : Idle(c) => Idle(c)'
      PROVE  Accepting'
  BY <1>0, <1>1 DEF Accepting
<1>2. ASSUME NEW c \in Conns, Read(c) PROVE Accepting'
  <2>1. UNCHANGED <<peer, acceptor, acc_conn, worker, writer>>
    BY <1>2 DEF Read, ReadRecv, ReadPut, ReadEnd, ReadClosed, ReadDiscard, readRest, accVars,
                workVars, sendVars
  <2>2. reader[c] # "none" /\ \A d \in Conns \ {c} : reader'[d] = reader[d]
    BY <1>2 DEF Read, ReadRecv, ReadPut, ReadEnd, ReadClosed, ReadDiscard, Typed
  <2> QED BY <1>1, <2>1, <2>2
<1>3. ASSUME NEW c \in Conns, Work(c) PROVE Accepting'
  <2>1. UNCHANGED <<peer, acceptor, acc_conn, reader, writer>>
    BY <1>3 DEF Work, WorkTest, WorkGet, WorkEmpty, WorkCount, WorkHandle, WorkUncount, WorkPut,
                WorkDrain, workRest, clients, accVars, readVars, sendVars
  <2>2. worker[c] # "none" /\ \A d \in Conns \ {c} : worker'[d] = worker[d]
    BY <1>3 DEF Work, WorkTest, WorkGet, WorkEmpty, WorkCount, WorkHandle, WorkUncount, WorkPut,
                WorkDrain, Typed
  <2> QED BY <1>1, <2>1, <2>2
<1>4. ASSUME NEW c \in Conns, Write(c) PROVE Accepting'
  <2>1. UNCHANGED <<peer, acceptor, acc_conn, reader, worker>>
    BY <1>4 DEF Write, WriteTest, WriteGet, WriteEmpty, WriteSend, WriteFail, WriteNote,
                writeRest, accVars, readVars, workVars
  <2>2. writer[c] # "none" /\ \A d \in Conns \ {c} : writer'[d] = writer[d]
    BY <1>4 DEF Write, WriteTest, WriteGet, WriteEmpty, WriteSend, WriteFail, WriteNote, Typed
  <2> QED BY <1>1, <2>1, <2>2
<1>5. CASE StopCall \/ Stop \/ UNCHANGED vars
  <2>1. UNCHANGED <<peer, acceptor, acc_conn, reader, worker, writer>>
    BY <1>5 DEF Stop, StopCall, StopCopy, StopCloseConn, StopCloseListener, StopJoin, stopRest,
                vars, clients, accVars, readVars, workVars, sendVars
  <2> QED BY <1>1, <2>1
<1>6. ASSUME NEW c \in Conns, Connect(c) \/ ClientWrite(c) \/ ClientClose(c) PROVE Accepting'
  <2>1. UNCHANGED <<acceptor, acc_conn, reader, worker, writer>>
    BY <1>6 DEF Connect, ClientWrite, ClientClose, serverVars, accVars, readVars, workVars, sendVars
  <2>2. /\ \A d \in Conns \ {c} : peer'[d] = peer[d]
        /\ \/ peer[c] = "none" /\ peer'[c] = "backlog"
           \/ peer'[c] = peer[c]
           \/ peer[c] = "open" /\ peer'[c] = "gone"
    BY <1>6 DEF Connect, ClientWrite, ClientClose, Typed
  <2> QED BY <1>0, <2>1, <2>2 DEF Accepting
<1>7. CASE AcceptTest \/ AcceptTimeout \/ HandshakeDone \/ AcceptRegister
  BY <1>0, <1>7 DEF AcceptTest, AcceptTimeout, HandshakeDone, AcceptRegister, Accepting
<1>8. CASE AcceptError
  BY <1>0, <1>8, ServerAssumption DEF AcceptError, Accepting, Typed
<1>9. CASE AcceptSpawn
  <2>1. acc_conn' \notin Conns /\ acceptor' = "test" /\ peer' = peer /\ acc_conn \in Conns
    BY <1>0, <1>9, ServerAssumption DEF AcceptSpawn, Accepting
  <2>2. \A d \in Conns \ {acc_conn} : /\ reader'[d] = reader[d] /\ worker'[d] = worker[d]
                                      /\ writer'[d] = writer[d]
    BY <1>9 DEF AcceptSpawn, Typed
  <2>3. peer[acc_conn] \notin {"none", "backlog"}
    BY <1>0, <2>1 DEF Accepting
  <2> QED BY <1>0, <2>1, <2>2, <2>3 DEF Accepting
<1>10. ASSUME NEW c \in Conns, AcceptConn(c) PROVE Accepting'
  BY <1>0, <1>10 DEF AcceptConn, Accepting, Typed
<1> QED BY <1>2, <1>3, <1>4, <1>5, <1>6, <1>7, <1>8, <1>9, <1>10 DEF Next, Accept, Finished
\* A reader has frames in hand exactly while it queues them.
LEMMA NextFramed ==
  ASSUME Typed, Labelled, [Next]_vars
  PROVE  \A c \in Conns : Framed(c)'
<1>0. \A c \in Conns : Framed(c)
  BY DEF Labelled
<1>1. ASSUME UNCHANGED readVars PROVE \A c \in Conns : Framed(c)'
  BY <1>0, <1>1 DEF Framed, readVars
<1>2. CASE UNCHANGED vars \/ StopCall \/ Stop
           \/ \E c \in Conns : Connect(c) \/ ClientWrite(c) \/ ClientClose(c) \/ Work(c) \/ Write(c)
  <2>1. UNCHANGED readVars
    BY <1>2 DEF vars, StopCall, Stop, StopCopy, StopCloseConn, StopCloseListener, StopJoin,
       stopRest,
      Connect, ClientWrite, ClientClose, serverVars, workRest, writeRest,
      Work, WorkTest, WorkGet, WorkEmpty, WorkCount, WorkHandle, WorkUncount, WorkPut, WorkDrain,
      Write, WriteTest, WriteGet, WriteEmpty, WriteSend, WriteFail, WriteNote
  <2> QED BY <1>1, <2>1
<1>3. CASE Accept
  <2>1. CASE AcceptSpawn
    <3>1. acc_conn \in Conns /\ reader[acc_conn] = "none"
      BY <2>1 DEF AcceptSpawn, Labelled, Accepting
    <3>2. frames[acc_conn] = <<>> /\ frames' = frames
      BY <1>0, <2>1, <3>1 DEF Framed, AcceptSpawn, acceptRest
    <3> QED BY <1>0, <2>1, <3>1, <3>2 DEF AcceptSpawn, Framed, Typed
  <2>2. CASE ~AcceptSpawn
    <3>1. UNCHANGED readVars
      BY <1>3, <2>2 DEF Accept, AcceptTest, AcceptTimeout, HandshakeDone, AcceptError,
         AcceptRegister,
                        AcceptConn, acceptRest, readVars
    <3> QED BY <1>1, <3>1
  <2> QED BY <2>1, <2>2
<1>4. ASSUME NEW c \in Conns, Read(c) PROVE \A d \in Conns : Framed(d)'
  <2>1. \A d \in Conns \ {c} : reader'[d] = reader[d] /\ frames'[d] = frames[d]
    BY <1>4 DEF Read, ReadRecv, ReadPut, ReadEnd, ReadClosed, ReadDiscard, Typed
  <2>2. Framed(c)'
    <3>1. CASE ReadRecv(c)
      <4>1. PICK n \in 1..Len(wire[c]) : frames'[c] = SubSeq(wire[c], 1, n)
        BY <3>1 DEF ReadRecv, Typed
      <4>2. wire[c] \in Seq(Reqs) /\ Len(SubSeq(wire[c], 1, n)) = n /\ n # 0
        BY ReadPrefix DEF Typed
      <4>3. frames'[c] # <<>>
        BY <4>1, <4>2, EmptySeq
      <4> QED BY <3>1, <4>3 DEF ReadRecv, Framed, Typed
    <3>2. CASE ReadPut(c)
      <4>1. frames[c] \in Seq(Reqs) /\ frames[c] # <<>> /\ frames'[c] = Tail(frames[c])
        BY <1>0, <3>2 DEF ReadPut, Framed, Typed
      <4>2. /\ Len(frames[c]) \in Nat /\ Tail(frames[c]) \in Seq(Reqs)
            /\ Len(Tail(frames[c])) = Len(frames[c]) - 1
        BY <4>1, HeadTailProperties, LenProperties
      <4>3. Tail(frames[c]) = <<>> <=> Len(frames[c]) = 1
        <5>1. Tail(frames[c]) = <<>> <=> Len(Tail(frames[c])) = 0
          BY <4>2, EmptySeq
        <5> QED BY <4>2, <5>1
      <4>4. reader'[c] = IF Len(frames[c]) = 1 THEN "recv" ELSE "put"
        BY <3>2 DEF ReadPut, Typed
      <4> QED BY <4>1, <4>3, <4>4 DEF Framed
    <3>3. CASE ReadEnd(c) \/ ReadClosed(c) \/ ReadDiscard(c)
      BY <1>0, <3>3 DEF ReadEnd, ReadClosed, ReadDiscard, Framed, Typed
    <3> QED BY <1>4, <3>1, <3>2, <3>3 DEF Read
  <2> QED BY <1>0, <2>1, <2>2 DEF Framed
<1> QED BY <1>2, <1>3, <1>4 DEF Next, Finished

\* A worker has a request in hand exactly from get() to put().
LEMMA NextWorkHolds ==
  ASSUME Typed, Labelled, [Next]_vars
  PROVE  \A c \in Conns : WorkHolds(c)'
<1>0. \A c \in Conns : WorkHolds(c)
  BY DEF Labelled
<1>1. ASSUME UNCHANGED workVars PROVE \A c \in Conns : WorkHolds(c)'
  BY <1>0, <1>1 DEF WorkHolds, workVars
<1>2. CASE UNCHANGED vars \/ StopCall \/ Stop
           \/ \E c \in Conns : Connect(c) \/ ClientWrite(c) \/ ClientClose(c) \/ Read(c) \/ Write(c)
  <2>1. UNCHANGED workVars
    BY <1>2 DEF vars, StopCall, Stop, StopCopy, StopCloseConn, StopCloseListener, StopJoin,
       stopRest,
      Connect, ClientWrite, ClientClose, serverVars, readRest, writeRest,
      Read, ReadRecv, ReadPut, ReadEnd, ReadClosed, ReadDiscard,
      Write, WriteTest, WriteGet, WriteEmpty, WriteSend, WriteFail, WriteNote
  <2> QED BY <1>1, <2>1
<1>3. CASE Accept
  <2>1. CASE AcceptSpawn
    <3>1. acc_conn \in Conns /\ worker[acc_conn] = "none"
      BY <2>1 DEF AcceptSpawn, Labelled, Accepting
    <3>2. work_item[acc_conn] = <<>> /\ work_item' = work_item
      BY <1>0, <2>1, <3>1 DEF WorkHolds, Holding, AcceptSpawn, acceptRest
    <3>3. worker' = [worker EXCEPT ![acc_conn] = "test"]
      BY <2>1 DEF AcceptSpawn
    <3> QED BY <1>0, <3>1, <3>2, <3>3 DEF WorkHolds, Holding, Typed
  <2>2. CASE ~AcceptSpawn
    <3>1. UNCHANGED workVars
      BY <1>3, <2>2 DEF Accept, AcceptTest, AcceptTimeout, HandshakeDone, AcceptError,
         AcceptRegister,
                        AcceptConn, acceptRest, workVars
    <3> QED BY <1>1, <3>1
  <2> QED BY <2>1, <2>2
<1>4. ASSUME NEW c \in Conns, Work(c) PROVE \A d \in Conns : WorkHolds(d)'
  <2>1. \A d \in Conns \ {c} : worker'[d] = worker[d] /\ work_item'[d] = work_item[d]
    BY ZenonT(60), <1>4 DEF Work, WorkTest, WorkGet, WorkEmpty, WorkCount, WorkHandle, WorkUncount, WorkPut,
                WorkDrain, Typed
  <2>2. WorkHolds(c)'
    <3>1. CASE WorkTest(c) \/ WorkEmpty(c) \/ WorkCount(c) \/ WorkHandle(c) \/ WorkUncount(c)
      <4>1. work_item' = work_item /\ (worker[c] \in Holding <=> worker'[c] \in Holding)
        BY ZenonT(60), <3>1 DEF WorkTest, WorkEmpty, WorkCount, WorkHandle, WorkUncount, Holding, Typed
      <4> QED BY <1>0, <4>1 DEF WorkHolds
    <3>2. CASE WorkGet(c)
      <4>1. Head(rxq[c]) \in Reqs
        BY <3>2, HeadTailProperties DEF WorkGet, Typed
      <4>2. worker'[c] = "count" /\ work_item'[c] = <<Head(rxq[c])>>
        BY <3>2 DEF WorkGet, Typed
      <4> QED BY <4>1, <4>2 DEF WorkHolds, Holding
    <3>3. CASE WorkPut(c)
      <4>1. worker'[c] \in {"test", "drain"} /\ work_item'[c] = <<>>
        BY <3>3 DEF WorkPut, Typed
      <4> QED BY <4>1 DEF WorkHolds, Holding
    <3>4. CASE WorkDrain(c) /\ rxq[c] = <<>>
      <4>1. worker[c] = "drain" /\ worker'[c] = "done" /\ work_item' = work_item
        BY <3>4 DEF WorkDrain, Typed
      <4> QED BY <1>0, <4>1 DEF WorkHolds, Holding
    <3>5. CASE WorkDrain(c) /\ rxq[c] # <<>>
      <4>1. Head(rxq[c]) \in Reqs
        BY <3>5, HeadTailProperties DEF Typed
      <4>2. worker'[c] = "drain put" /\ work_item'[c] = <<Head(rxq[c])>>
        BY <3>5 DEF WorkDrain, Typed
      <4> QED BY <4>1, <4>2 DEF WorkHolds, Holding
    <3> QED BY <1>4, <3>1, <3>2, <3>3, <3>4, <3>5 DEF Work
  <2> QED BY <1>0, <2>1, <2>2 DEF WorkHolds
<1> QED BY <1>2, <1>3, <1>4 DEF Next, Finished

\* A writer has a response in hand from get() to its note, or for good when
\* sendall() failed.
LEMMA NextWriteHolds ==
  ASSUME Typed, Labelled, [Next]_vars
  PROVE  \A c \in Conns : WriteHolds(c)'
<1>0. \A c \in Conns : WriteHolds(c)
  BY DEF Labelled
<1>1. ASSUME UNCHANGED sendVars PROVE \A c \in Conns : WriteHolds(c)'
  BY <1>0, <1>1 DEF WriteHolds, sendVars
<1>2. CASE UNCHANGED vars \/ StopCall \/ Stop
           \/ \E c \in Conns : Connect(c) \/ ClientWrite(c) \/ ClientClose(c) \/ Read(c) \/ Work(c)
  <2>1. UNCHANGED sendVars
    BY <1>2 DEF vars, StopCall, Stop, StopCopy, StopCloseConn, StopCloseListener, StopJoin,
       stopRest,
      Connect, ClientWrite, ClientClose, serverVars, readRest, workRest,
      Read, ReadRecv, ReadPut, ReadEnd, ReadClosed, ReadDiscard,
      Work, WorkTest, WorkGet, WorkEmpty, WorkCount, WorkHandle, WorkUncount, WorkPut, WorkDrain
  <2> QED BY <1>1, <2>1
<1>3. CASE Accept
  <2>1. CASE AcceptSpawn
    <3>1. acc_conn \in Conns /\ writer[acc_conn] = "none"
      BY <2>1 DEF AcceptSpawn, Labelled, Accepting
    <3>2. write_item[acc_conn] = <<>> /\ write_item' = write_item
      BY <1>0, <2>1, <3>1 DEF WriteHolds, AcceptSpawn, acceptRest
    <3>3. writer' = [writer EXCEPT ![acc_conn] = "test"]
      BY <2>1 DEF AcceptSpawn
    <3> QED BY <1>0, <3>1, <3>2, <3>3 DEF WriteHolds, Typed
  <2>2. CASE ~AcceptSpawn
    <3>1. UNCHANGED sendVars
      BY <1>3, <2>2 DEF Accept, AcceptTest, AcceptTimeout, HandshakeDone, AcceptError,
         AcceptRegister,
                        AcceptConn, acceptRest, sendVars
    <3> QED BY <1>1, <3>1
  <2> QED BY <2>1, <2>2
<1>4. ASSUME NEW c \in Conns, Write(c) PROVE \A d \in Conns : WriteHolds(d)'
  <2>1. \A d \in Conns \ {c} : writer'[d] = writer[d] /\ write_item'[d] = write_item[d]
    BY <1>4 DEF Write, WriteTest, WriteGet, WriteEmpty, WriteSend, WriteFail, WriteNote, Typed
  <2>2. WriteHolds(c)'
    <3>1. CASE WriteTest(c) \/ WriteEmpty(c)
      <4>1. /\ write_item' = write_item /\ writer[c] \in {"test", "get"}
            /\ writer'[c] \in {"test", "get", "done"}
        BY <3>1 DEF WriteTest, WriteEmpty, Typed
      <4> QED BY <1>0, <4>1 DEF WriteHolds
    <3>2. CASE WriteSend(c) \/ WriteFail(c)
      <4>1. write_item' = write_item /\ writer[c] = "send" /\ writer'[c] \in {"note", "done"}
        BY <3>2 DEF WriteSend, WriteFail, Typed
      <4> QED BY <1>0, <4>1 DEF WriteHolds
    <3>3. CASE WriteGet(c)
      <4>1. Head(txq[c]) \in Reqs
        BY <3>3, HeadTailProperties DEF WriteGet, Typed
      <4>2. writer'[c] = "send" /\ write_item'[c] = <<Head(txq[c])>>
        BY <3>3 DEF WriteGet, Typed
      <4> QED BY <4>1, <4>2 DEF WriteHolds
    <3>4. CASE WriteNote(c)
      <4>1. writer'[c] \in {"test", "done"} /\ write_item'[c] = <<>>
        BY <3>4 DEF WriteNote, Typed
      <4> QED BY <4>1 DEF WriteHolds
    <3> QED BY <1>4, <3>1, <3>2, <3>3, <3>4 DEF Write
  <2> QED BY <1>0, <2>1, <2>2 DEF WriteHolds
<1> QED BY <1>2, <1>3, <1>4 DEF Next, Finished

LEMMA NextLabelled ==
  ASSUME Typed, Labelled, [Next]_vars
  PROVE  Labelled'
BY NextAccepting, NextFramed, NextWorkHolds, NextWriteHolds DEF Labelled
-----------------------------------------------------------------------------
(* Order *)

\* What a client has written and the server has not read stays in order.
LEMMA NextUnread ==
  ASSUME Typed, Labelled, Ordered, [Next]_vars
  PROVE  \A c \in Conns : Unread(c)'
<1>0. \A c \in Conns : Unread(c)
  BY DEF Ordered
<1>1. ASSUME NEW d \in Conns, wire'[d] = wire[d], written'[d] = written[d] PROVE Unread(d)'
  BY <1>0, <1>1 DEF Unread, Taken
<1>2. ASSUME NEW c \in Conns, ClientWrite(c) PROVE \A d \in Conns : Unread(d)'
  <2>1. \A d \in Conns \ {c} : wire'[d] = wire[d] /\ written'[d] = written[d]
    BY <1>2 DEF ClientWrite, Typed
  <2>2. Unread(c)'
    <3>1. written'[c] = written[c] + 1 /\ wire'[c] = Append(wire[c], written[c] + 1)
      BY <1>2 DEF ClientWrite, Typed
    <3>2. written[c] + 1 \in Reqs /\ wire[c] \in Seq(Reqs) /\ written[c] \in Nat
      BY <1>2, ServerAssumption DEF ClientWrite, Typed, Reqs
    <3>3. /\ Len(wire[c]) \in Nat /\ Len(wire'[c]) = Len(wire[c]) + 1
          /\ wire'[c][Len(wire[c]) + 1] = written[c] + 1
          /\ \A i \in 1..Len(wire[c]) : wire'[c][i] = wire[c][i]
      BY <3>1, <3>2, AppendProperties, LenProperties
    <3> QED BY SMTT(30), <1>0, <3>1, <3>2, <3>3 DEF Unread, Taken
  <2> QED BY <1>1, <2>1, <2>2
<1>3. ASSUME NEW c \in Conns, ReadRecv(c) PROVE \A d \in Conns : Unread(d)'
  <2>1. \A d \in Conns \ {c} : wire'[d] = wire[d] /\ written'[d] = written[d]
    BY <1>3 DEF ReadRecv, readRest, Typed
  <2>2. Unread(c)'
    <3>1. PICK n \in 1..Len(wire[c]) : wire'[c] = SubSeq(wire[c], n + 1, Len(wire[c]))
      BY <1>3 DEF ReadRecv, Typed
    <3>2. wire[c] \in Seq(Reqs) /\ Len(wire[c]) \in Nat /\ written[c] \in Nat /\ written'[c] = written[c]
      BY <1>3, LenProperties DEF ReadRecv, readRest, Typed
    <3>3. /\ Len(wire'[c]) = Len(wire[c]) - n
          /\ \A i \in 1..(Len(wire[c]) - n) : wire'[c][i] = wire[c][n + i]
      <4>1. \A i \in (n + 1)..Len(wire[c]) : wire[c][i] \in Reqs
        BY <3>2, ElementOfSeq
      <4>2. Len(wire'[c]) = Len(wire[c]) - n
        BY <3>1, <3>2, ReadPrefix
      <4>3. \A i \in 1..(Len(wire[c]) - (n + 1) + 1) : wire'[c][i] = wire[c][n + 1 + i - 1]
        BY <3>1, <3>2, <4>1, SubSeqProperties
      <4>4. ASSUME NEW i \in 1..(Len(wire[c]) - n) PROVE wire'[c][i] = wire[c][n + i]
        <5>1. i \in 1..(Len(wire[c]) - (n + 1) + 1) /\ n + 1 + i - 1 = n + i
          BY <3>2
        <5> QED BY <4>3, <5>1
      <4> QED BY <4>2, <4>4
    <3>4. Taken(c) \in Int /\ Taken(c)' = Taken(c) + n /\ Len(wire'[c]) <= written'[c]
      BY <1>0, <3>2, <3>3 DEF Unread, Taken
    <3>5. ASSUME NEW i \in 1..(Len(wire[c]) - n) PROVE wire'[c][i] = Taken(c) + n + i
      <4>1. n + i \in 1..Len(wire[c]) /\ wire[c][n + i] = Taken(c) + (n + i)
        BY <1>0, <3>2 DEF Unread
      <4> QED BY <3>3, <3>4, <4>1
    <3> QED BY <3>3, <3>4, <3>5 DEF Unread
  <2> QED BY <1>1, <2>1, <2>2
<1>4. ASSUME ~\E c \in Conns : ClientWrite(c) \/ ReadRecv(c), [Next]_vars
      PROVE  UNCHANGED <<wire, written>>
  <2>1. CASE UNCHANGED vars \/ StopCall \/ Stop
    BY <2>1 DEF vars, StopCall, Stop, StopCopy, StopCloseConn, StopCloseListener, StopJoin,
                stopRest, clients
  <2>2. CASE Accept
    BY <2>2 DEF Accept, AcceptTest, AcceptTimeout, HandshakeDone, AcceptError, AcceptRegister,
                AcceptConn, AcceptSpawn, acceptRest
  <2>3. ASSUME NEW c \in Conns, Connect(c) \/ ClientClose(c) \/ Read(c) PROVE UNCHANGED <<wire, written>>
    BY <1>4, <2>3 DEF Connect, ClientClose, Read, ReadPut, ReadEnd, ReadClosed, ReadDiscard,
       readRest
  <2>4. ASSUME NEW c \in Conns, Work(c) PROVE UNCHANGED <<wire, written>>
    BY <2>4 DEF Work, WorkTest, WorkGet, WorkEmpty, WorkCount, WorkHandle, WorkUncount, WorkPut,
                WorkDrain, workRest, clients
  <2>5. ASSUME NEW c \in Conns, Write(c) PROVE UNCHANGED <<wire, written>>
    BY <2>5 DEF Write, WriteTest, WriteGet, WriteEmpty, WriteSend, WriteFail, WriteNote, writeRest
  <2> QED BY <1>4, <2>1, <2>2, <2>3, <2>4, <2>5 DEF Next, Finished
<1> QED BY <1>1, <1>2, <1>3, <1>4

\* A connection's requests and responses are numbers of requests.
LEMMA PipelineType ==
  ASSUME Typed, NEW c \in Conns
  PROVE  /\ out[c] \in Seq(Reqs) /\ Unsent(c) \in Seq(Reqs) /\ txq[c] \in Seq(Reqs)
         /\ work_item[c] \in Seq(Reqs) /\ rxq[c] \in Seq(Reqs) /\ frames[c] \in Seq(Reqs)
         /\ out[c] \o Unsent(c) \in Seq(Reqs)
         /\ out[c] \o Unsent(c) \o txq[c] \in Seq(Reqs)
         /\ out[c] \o Unsent(c) \o txq[c] \o work_item[c] \in Seq(Reqs)
         /\ out[c] \o Unsent(c) \o txq[c] \o work_item[c] \o rxq[c] \in Seq(Reqs)
         /\ Pipeline(c) \in Seq(Reqs)
<1>1. /\ out[c] \in Seq(Reqs) /\ Unsent(c) \in Seq(Reqs) /\ txq[c] \in Seq(Reqs)
      /\ work_item[c] \in Seq(Reqs) /\ rxq[c] \in Seq(Reqs) /\ frames[c] \in Seq(Reqs)
  BY EmptySeq DEF Typed, Unsent
<1> DEFINE p1 == out[c] \o Unsent(c)
           p2 == p1 \o txq[c]
           p3 == p2 \o work_item[c]
           p4 == p3 \o rxq[c]
<1>2. p1 \in Seq(Reqs)
  BY <1>1, ConcatProperties
<1> HIDE DEF p1
<1>3. p2 \in Seq(Reqs)
  BY <1>1, <1>2, ConcatProperties
<1> HIDE DEF p2
<1>4. p3 \in Seq(Reqs)
  BY <1>1, <1>3, ConcatProperties
<1> HIDE DEF p3
<1>5. p4 \in Seq(Reqs)
  BY <1>1, <1>4, ConcatProperties
<1> HIDE DEF p4
<1>6. p4 \o frames[c] \in Seq(Reqs)
  BY <1>1, <1>5, ConcatProperties
<1> QED BY <1>1, <1>2, <1>3, <1>4, <1>5, <1>6 DEF p1, p2, p3, p4, Pipeline

\* A queue of requests is a queue of integers.
LEMMA OfInts ==
  ASSUME NEW q \in Seq(Reqs)
  PROVE  q \in Seq(Int)
<1>1. Reqs \subseteq Int
  BY ServerAssumption DEF Reqs
<1> QED BY <1>1, SeqMonotonic

\* A row of queues loses one of them: what stays is still in order.
LEMMA DropMiddle ==
  ASSUME NEW p \in Seq(Reqs), NEW m \in Seq(Reqs), NEW q \in Seq(Reqs), NEW r \in Seq(Reqs)
  PROVE  /\ Elems(((p \o m) \o q) \o r) = Elems(((p \o <<>>) \o q) \o r) \cup Elems(m)
         /\ Increasing(((p \o m) \o q) \o r) => Increasing(((p \o <<>>) \o q) \o r)
<1> DEFINE pm  == p \o m
           pmq == pm \o q
           pq  == p \o q
<1>1. p \o <<>> = p
  BY ConcatEmptySeq
<1>2. /\ p \in Seq(Int) /\ m \in Seq(Int) /\ q \in Seq(Int) /\ r \in Seq(Int)
      /\ pm \in Seq(Reqs) /\ pq \in Seq(Reqs)
  BY OfInts, ConcatProperties
<1>3. pm \in Seq(Int) /\ pq \in Seq(Int)
  BY <1>2, OfInts
<1>4. Elems(pm) = Elems(p) \cup Elems(m) /\ Elems(pq) = Elems(p) \cup Elems(q)
  BY ElemsConcat
<1>5. /\ Increasing(pm) <=> Increasing(p) /\ Increasing(m) /\ Before(Elems(p), Elems(m))
      /\ Increasing(pq) <=> Increasing(p) /\ Increasing(q) /\ Before(Elems(p), Elems(q))
  BY <1>2, IncreasingConcat
<1> HIDE DEF pm, pq
<1>6. pmq \in Seq(Int) /\ Elems(pmq) = Elems(pm) \cup Elems(q)
  BY <1>2, <1>3, ElemsConcat
<1>7. Increasing(pmq) <=> Increasing(pm) /\ Increasing(q) /\ Before(Elems(pm), Elems(q))
  BY <1>2, <1>3, IncreasingConcat
<1> HIDE DEF pmq
<1>8. /\ Elems(pmq \o r) = Elems(pmq) \cup Elems(r) /\ Elems(pq \o r) = Elems(pq) \cup Elems(r)
  BY <1>2, <1>3, <1>6, ElemsConcat
<1>9. /\ Increasing(pmq \o r) <=> Increasing(pmq) /\ Increasing(r) /\ Before(Elems(pmq), Elems(r))
      /\ Increasing(pq \o r) <=> Increasing(pq) /\ Increasing(r) /\ Before(Elems(pq), Elems(r))
  BY <1>2, <1>3, <1>6, IncreasingConcat
<1>10. Elems(pmq \o r) = Elems(pq \o r) \cup Elems(m)
  BY <1>4, <1>6, <1>8
<1>11. Increasing(pmq \o r) => Increasing(pq \o r)
  BY <1>4, <1>5, <1>6, <1>7, <1>9 DEF Before
<1> QED BY <1>1, <1>10, <1>11 DEF pm, pq, pmq
\* A connection whose row of queues is the same stays in place.
LEMMA SameRow ==
  ASSUME Ordered, NEW c \in Conns, Pipeline(c)' = Pipeline(c),
         wire'[c] = wire[c], written'[c] = written[c]
  PROVE  InPlace(c)'
BY DEF Ordered, InPlace, Taken

\* A step that leaves a connection's queues alone leaves it in place.
LEMMA Untouched ==
  ASSUME Ordered, NEW c \in Conns,
         out'[c] = out[c], txq'[c] = txq[c], rxq'[c] = rxq[c], frames'[c] = frames[c],
         work_item'[c] = work_item[c], Unsent(c)' = Unsent(c),
         wire'[c] = wire[c], written'[c] = written[c]
  PROVE  InPlace(c)'
BY SameRow DEF Pipeline

\* A read appends the requests that are next to what is inside the server.
LEMMA ReadInPlace ==
  ASSUME Typed, Labelled, Ordered, NEW c \in Conns, ReadRecv(c)
  PROVE  InPlace(c)'
<1> DEFINE p == out[c] \o Unsent(c) \o txq[c] \o work_item[c] \o rxq[c]
           f == frames'[c]
<1>1. PICK n \in 1..Len(wire[c]) : /\ f = SubSeq(wire[c], 1, n)
                                   /\ wire'[c] = SubSeq(wire[c], n + 1, Len(wire[c]))
  BY DEF ReadRecv, Typed
<1>2. wire[c] \in Seq(Reqs) /\ Len(wire[c]) \in Nat /\ written[c] \in Nat /\ written'[c] = written[c]
  BY LenProperties DEF ReadRecv, readRest, Typed
<1>3. f \in Seq(Reqs) /\ Len(f) = n /\ Len(wire'[c]) = Len(wire[c]) - n
  BY <1>1, <1>2, ReadPrefix
<1>4. \A i \in 1..n : f[i] = Taken(c) + i
  <2>1. \A i \in 1..n : wire[c][i] \in Reqs
    BY <1>2, ElementOfSeq
  <2>2. \A i \in 1..(n - 1 + 1) : f[i] = wire[c][1 + i - 1]
    BY <1>1, <1>2, <2>1, SubSeqProperties
  <2>3. \A i \in 1..n : i \in 1..(n - 1 + 1) /\ 1 + i - 1 = i /\ i \in 1..Len(wire[c])
    BY <1>2
  <2> QED BY <2>2, <2>3 DEF Ordered, Unread
<1>5. Taken(c) \in Nat /\ Taken(c)' = Taken(c) + n
  BY <1>2, <1>3 DEF Ordered, Unread, Taken
<1>6. DOMAIN f = 1..n
  BY <1>3, LenProperties
<1>7. Pipeline(c) = p /\ p \in Seq(Reqs)
  <2>1. frames[c] = <<>>
    BY DEF ReadRecv, Labelled, Framed
  <2>2. p \in Seq(Reqs)
    BY PipelineType
  <2> QED BY <2>1, <2>2, ConcatEmptySeq DEF Pipeline
<1>8. Pipeline(c)' = p \o f
  <2>1. UNCHANGED <<out, rxq, txq, work_item, writer, write_item>>
    BY DEF ReadRecv, readRest, workVars, sendVars
  <2>2. Unsent(c)' = Unsent(c)
    BY <2>1 DEF Unsent
  <2> QED BY <2>1, <2>2 DEF Pipeline
<1> HIDE DEF p, f
<1>9. /\ Increasing(p) /\ Elems(p) \subseteq 1..Taken(c)
      /\ (1..Taken(c)) \ Junk \subseteq Elems(p)
  BY <1>7 DEF Ordered, InPlace
<1>10. Increasing(f)
  <2> SUFFICES ASSUME NEW i \in 1..n, NEW j \in 1..n, i < j PROVE f[i] < f[j]
    BY <1>6 DEF Increasing
  <2>1. f[i] = Taken(c) + i /\ f[j] = Taken(c) + j
    BY <1>4
  <2> QED BY <1>5, <2>1
<1>11. Elems(f) = (Taken(c) + 1)..(Taken(c) + n)
  <2>1. \A i \in 1..n : f[i] \in (Taken(c) + 1)..(Taken(c) + n)
    BY <1>2, <1>4, <1>5
  <2>2. ASSUME NEW x \in (Taken(c) + 1)..(Taken(c) + n) PROVE x \in Elems(f)
    <3>1. x - Taken(c) \in 1..n
      BY <1>2, <1>5
    <3>2. f[x - Taken(c)] = x
      BY <1>4, <1>5, <3>1
    <3> QED BY <1>6, <3>1, <3>2 DEF Elems
  <2> QED BY <1>6, <2>1, <2>2 DEF Elems
<1>12. Before(Elems(p), Elems(f))
  <2> SUFFICES ASSUME NEW x \in Elems(p), NEW y \in Elems(f) PROVE x < y
    BY DEF Before
  <2>1. x \in 1..Taken(c) /\ y \in (Taken(c) + 1)..(Taken(c) + n)
    BY <1>9, <1>11
  <2> QED BY <1>5, <2>1
<1>13. Increasing(p \o f) /\ Elems(p \o f) = Elems(p) \cup Elems(f)
  <2>1. p \in Seq(Int) /\ f \in Seq(Int)
    BY <1>3, <1>7, OfInts
  <2> QED BY <1>9, <1>10, <1>12, <2>1, IncreasingConcat, ElemsConcat
<1>14. 1..(Taken(c) + n) = 1..Taken(c) \cup (Taken(c) + 1)..(Taken(c) + n)
  BY <1>5
<1>15. /\ Elems(p \o f) \subseteq 1..(Taken(c) + n)
       /\ (1..(Taken(c) + n)) \ Junk \subseteq Elems(p \o f)
  BY <1>9, <1>11, <1>13, <1>14
<1> QED BY <1>5, <1>8, <1>13, <1>15 DEF InPlace

\* A thread that moves the head of a queue to the end of the one before it.
LEMMA MoveHead ==
  \A p, q, r \in Seq(Reqs) : r # <<>> =>
    (p \o Append(q, Head(r))) \o Tail(r) = (p \o q) \o r
<1> SUFFICES ASSUME NEW p \in Seq(Reqs), NEW q \in Seq(Reqs), NEW r \in Seq(Reqs), r # <<>>
             PROVE  (p \o Append(q, Head(r))) \o Tail(r) = (p \o q) \o r
  OBVIOUS
<1>1. \A s, t, u \in Seq(Reqs) : (s \o t) \o u = s \o (t \o u)
  BY SMTT(30), ConcatAssociative
<1>2. /\ <<Head(r)>> \in Seq(Reqs) /\ Tail(r) \in Seq(Reqs) /\ <<Head(r)>> \o Tail(r) = r
      /\ Append(q, Head(r)) = q \o <<Head(r)>>
  BY HeadFirst, HeadTailProperties, AppendIsConcat
<1>3. p \o q \in Seq(Reqs)
  BY ConcatProperties
<1> DEFINE h == <<Head(r)>>
           t == Tail(r)
<1> HIDE DEF h, t
<1>4. h \in Seq(Reqs) /\ t \in Seq(Reqs) /\ h \o t = r /\ Append(q, Head(r)) = q \o h
  BY <1>2 DEF h, t
<1>5. p \o (q \o h) = (p \o q) \o h
  BY ZenonT(60), <1>1, <1>4
<1>6. ((p \o q) \o h) \o t = (p \o q) \o (h \o t)
  BY ZenonT(60), <1>1, <1>3, <1>4
<1> QED BY <1>4, <1>5, <1>6 DEF t

\* put() of a frame: the row of queues is the same row.
LEMMA ReadPutInPlace ==
  ASSUME Typed, Labelled, Ordered, NEW c \in Conns, ReadPut(c)
  PROVE  InPlace(c)'
<1> DEFINE p == out[c] \o Unsent(c) \o txq[c] \o work_item[c]
<1>1. /\ frames[c] # <<>> /\ frames'[c] = Tail(frames[c])
      /\ rxq'[c] = Append(rxq[c], Head(frames[c]))
      /\ UNCHANGED <<out, txq, wire, written, work_item, writer, write_item>>
  BY DEF ReadPut, readRest, workVars, sendVars, Labelled, Framed, Typed
<1>2. Unsent(c)' = Unsent(c)
  BY <1>1 DEF Unsent
<1>3. p \in Seq(Reqs) /\ rxq[c] \in Seq(Reqs) /\ frames[c] \in Seq(Reqs)
  BY PipelineType
<1>4. Pipeline(c) = (p \o rxq[c]) \o frames[c]
  BY DEF Pipeline
<1>5. Pipeline(c)' = (p \o rxq'[c]) \o frames'[c]
  BY <1>1, <1>2 DEF Pipeline
<1> HIDE DEF p
<1>6. (p \o Append(rxq[c], Head(frames[c]))) \o Tail(frames[c]) = (p \o rxq[c]) \o frames[c]
  BY <1>1, <1>3, MoveHead
<1>7. Pipeline(c)' = Pipeline(c)
  BY <1>1, <1>4, <1>5, <1>6
<1> QED BY <1>1, <1>7, SameRow

\* get() of a request, in the worker's loop or after it.
LEMMA WorkGetInPlace ==
  ASSUME Typed, Labelled, Ordered, NEW c \in Conns,
         WorkGet(c) \/ (WorkDrain(c) /\ rxq[c] # <<>>)
  PROVE  InPlace(c)'
<1> DEFINE p == out[c] \o Unsent(c) \o txq[c]
<1>1. /\ rxq[c] # <<>> /\ rxq'[c] = Tail(rxq[c]) /\ work_item'[c] = <<Head(rxq[c])>>
      /\ UNCHANGED <<out, txq, wire, written, frames, writer, write_item>>
  BY DEF WorkGet, WorkDrain, workRest, clients, readVars, sendVars, Typed
<1>2. Unsent(c)' = Unsent(c)
  BY <1>1 DEF Unsent
<1>3. work_item[c] = <<>>
  <2>1. worker[c] \notin Holding
    BY DEF WorkGet, WorkDrain, Holding
  <2> QED BY <2>1 DEF Labelled, WorkHolds
<1>4. p \in Seq(Reqs) /\ rxq[c] \in Seq(Reqs)
  BY PipelineType
<1>5. Pipeline(c) = ((p \o <<>>) \o rxq[c]) \o frames[c]
  BY <1>3 DEF Pipeline
<1>6. Pipeline(c)' = ((p \o <<Head(rxq[c])>>) \o Tail(rxq[c])) \o frames[c]
  BY <1>1, <1>2 DEF Pipeline
<1> HIDE DEF p
<1>7. (p \o <<Head(rxq[c])>>) \o Tail(rxq[c]) = (p \o <<>>) \o rxq[c]
  BY <1>1, <1>4, TakeInHand
<1>8. Pipeline(c)' = Pipeline(c)
  BY <1>5, <1>6, <1>7
<1> QED BY <1>1, <1>8, SameRow

\* put() of a response; a junk frame leaves the row of queues.
LEMMA WorkPutInPlace ==
  ASSUME Typed, Labelled, Ordered, NEW c \in Conns, WorkPut(c)
  PROVE  InPlace(c)'
<1> DEFINE p == out[c] \o Unsent(c)
<1>1. PICK r \in Reqs : work_item[c] = <<r>>
  BY DEF WorkPut, Labelled, WorkHolds, Holding
<1>2. /\ work_item'[c] = <<>> /\ txq'[c] = IF r \in Junk THEN txq[c] ELSE Append(txq[c], r)
      /\ UNCHANGED <<out, rxq, wire, written, frames, writer, write_item>>
  <2>1. work_item[c][1] = r
    BY <1>1
  <2>2. work_item'[c] = <<>> /\ UNCHANGED <<out, rxq, wire, written, frames, writer, write_item>>
    BY DEF WorkPut, workRest, clients, readVars, sendVars, Typed
  <2>3. txq'[c] = IF r \in Junk THEN txq[c] ELSE Append(txq[c], r)
    BY <2>1 DEF WorkPut, Typed
  <2> QED BY <2>2, <2>3
<1>3. Unsent(c)' = Unsent(c)
  BY <1>2 DEF Unsent
<1>4. /\ p \in Seq(Reqs) /\ txq[c] \in Seq(Reqs) /\ p \o txq[c] \in Seq(Reqs)
      /\ rxq[c] \in Seq(Reqs) /\ frames[c] \in Seq(Reqs) /\ <<r>> \in Seq(Reqs)
  BY PipelineType, <1>1
<1>5. Pipeline(c) = (((p \o txq[c]) \o <<r>>) \o rxq[c]) \o frames[c]
  BY <1>1 DEF Pipeline
<1>6. Pipeline(c)' = (((p \o txq'[c]) \o <<>>) \o rxq[c]) \o frames[c]
  BY <1>2, <1>3 DEF Pipeline
<1> HIDE DEF p
<1>7. CASE r \notin Junk
  <2>1. txq'[c] = txq[c] \o <<r>>
    BY <1>2, <1>4, <1>7, AppendIsConcat
  <2>2. p \o txq'[c] = (p \o txq[c]) \o <<r>>
    <3> DEFINE x == txq[c]
               h == <<r>>
    <3>1. p \in Seq(Reqs) /\ x \in Seq(Reqs) /\ h \in Seq(Reqs)
      BY <1>4
    <3> HIDE DEF x, h
    <3>2. p \o (x \o h) = (p \o x) \o h
      BY <3>1, ConcatAssociative
    <3> QED BY <2>1, <3>2 DEF x, h
  <2>3. (p \o txq'[c]) \o <<>> = p \o txq'[c]
    <3>1. (p \o txq[c]) \o <<r>> \in Seq(Reqs)
      BY <1>4, ConcatProperties
    <3> QED BY <2>2, <3>1, ConcatEmptySeq
  <2>4. Pipeline(c)' = Pipeline(c)
    BY <1>5, <1>6, <2>2, <2>3
  <2> QED BY <1>2, <2>4, SameRow
<1>8. CASE r \in Junk
  <2> DEFINE q == p \o txq[c]
  <2>1. /\ Elems(((q \o <<r>>) \o rxq[c]) \o frames[c])
             = Elems(((q \o <<>>) \o rxq[c]) \o frames[c]) \cup Elems(<<r>>)
        /\ Increasing(((q \o <<r>>) \o rxq[c]) \o frames[c])
             => Increasing(((q \o <<>>) \o rxq[c]) \o frames[c])
    BY <1>4, DropMiddle
  <2>2. Elems(<<r>>) = {r}
    BY DEF Elems
  <2>3. Elems(Pipeline(c)) = Elems(Pipeline(c)') \cup {r}
    BY <1>2, <1>5, <1>6, <1>8, <2>1, <2>2
  <2>4. Increasing(Pipeline(c)) => Increasing(Pipeline(c)')
    BY <1>2, <1>5, <1>6, <1>8, <2>1
  <2>5. Taken(c)' = Taken(c)
    BY <1>2 DEF Taken
  <2> QED BY <1>8, <2>3, <2>4, <2>5 DEF Ordered, InPlace
<1> QED BY <1>7, <1>8

\* get() of a response.
LEMMA WriteGetInPlace ==
  ASSUME Typed, Labelled, Ordered, NEW c \in Conns, WriteGet(c)
  PROVE  InPlace(c)'
<1>1. /\ txq[c] # <<>> /\ txq'[c] = Tail(txq[c]) /\ write_item'[c] = <<Head(txq[c])>>
      /\ writer[c] = "get" /\ writer'[c] = "send"
      /\ UNCHANGED <<out, rxq, wire, written, frames, work_item>>
  BY DEF WriteGet, writeRest, readVars, workVars, Typed
<1>2. Unsent(c) = <<>> /\ Unsent(c)' = <<Head(txq[c])>>
  BY <1>1 DEF Unsent, Labelled, WriteHolds
<1>3. out[c] \in Seq(Reqs) /\ txq[c] \in Seq(Reqs)
  BY PipelineType
<1>4. (out[c] \o <<Head(txq[c])>>) \o Tail(txq[c]) = (out[c] \o <<>>) \o txq[c]
  BY <1>1, <1>3, TakeInHand
<1>5. Pipeline(c)' = Pipeline(c)
  BY <1>1, <1>2, <1>4 DEF Pipeline
<1> QED BY <1>1, <1>5, SameRow

\* sendall() of a response.
LEMMA WriteSendInPlace ==
  ASSUME Typed, Labelled, Ordered, NEW c \in Conns, WriteSend(c)
  PROVE  InPlace(c)'
<1>1. /\ out'[c] = out[c] \o write_item[c] /\ writer[c] = "send" /\ writer'[c] = "note"
      /\ UNCHANGED <<txq, rxq, wire, written, frames, work_item>>
  BY DEF WriteSend, writeRest, readVars, workVars, Typed
<1>2. Unsent(c) = write_item[c] /\ Unsent(c)' = <<>>
  BY <1>1 DEF Unsent
<1>3. out[c] \o Unsent(c) \in Seq(Reqs)
  BY PipelineType
<1>4. out'[c] \o <<>> = out[c] \o Unsent(c)
  BY <1>1, <1>2, <1>3, ConcatEmptySeq
<1>5. Pipeline(c)' = Pipeline(c)
  BY <1>1, <1>2, <1>4 DEF Pipeline
<1> QED BY <1>1, <1>5, SameRow
\* Whatever the threads, the clients and stop() do, no request leaves its place.
LEMMA NextOrdered ==
  ASSUME Typed, Labelled, Ordered, [Next]_vars
  PROVE  Ordered'
<1> USE DEF clients, accVars, readVars, workVars, sendVars
<1>1. ASSUME UNCHANGED <<out, txq, rxq, frames, work_item, write_item, wire, written>>,
             NEW d \in Conns, (writer[d] = "note") <=> (writer'[d] = "note")
      PROVE  InPlace(d)'
  BY <1>1, Untouched DEF Unsent
<1>2. CASE UNCHANGED vars \/ StopCall \/ Stop
  <2>1. UNCHANGED <<out, txq, rxq, frames, work_item, write_item, wire, written, writer>>
    BY <1>2 DEF vars, StopCall, Stop, StopCopy, StopCloseConn, StopCloseListener, StopJoin, stopRest
  <2>2. \A d \in Conns : InPlace(d)'
    BY <1>1, <2>1
  <2> QED BY <2>2, NextUnread DEF Ordered
<1>3. CASE Accept
  <2>1. UNCHANGED <<out, txq, rxq, frames, work_item, write_item, wire, written>>
    BY <1>3 DEF Accept, AcceptTest, AcceptTimeout, HandshakeDone, AcceptError, AcceptRegister,
                AcceptConn, AcceptSpawn, acceptRest
  <2>2. \A d \in Conns : (writer[d] = "note") <=> (writer'[d] = "note")
    <3>1. CASE AcceptSpawn
      <4>1. acc_conn \in Conns /\ writer[acc_conn] = "none"
        BY <3>1 DEF AcceptSpawn, Labelled, Accepting
      <4>2. writer' = [writer EXCEPT ![acc_conn] = "test"]
        BY <3>1 DEF AcceptSpawn
      <4> QED BY <4>1, <4>2 DEF Typed
    <3>2. CASE ~AcceptSpawn
      BY <1>3, <3>2 DEF Accept, AcceptTest, AcceptTimeout, HandshakeDone, AcceptError,
         AcceptRegister,
                        AcceptConn
    <3> QED BY <3>1, <3>2
  <2>3. \A d \in Conns : InPlace(d)'
    BY <1>1, <2>1, <2>2
  <2> QED BY <2>3, NextUnread DEF Ordered
<1>4. ASSUME NEW c \in Conns, Connect(c) \/ ClientClose(c) PROVE Ordered'
  <2>1. UNCHANGED <<out, txq, rxq, frames, work_item, write_item, wire, written, writer>>
    BY <1>4 DEF Connect, ClientClose, serverVars
  <2>2. \A d \in Conns : InPlace(d)'
    BY <1>1, <2>1
  <2> QED BY <2>2, NextUnread DEF Ordered
<1>5. ASSUME NEW c \in Conns, ClientWrite(c) PROVE Ordered'
  <2>1. UNCHANGED <<out, txq, rxq, frames, work_item, write_item, writer>>
    BY <1>5 DEF ClientWrite, serverVars
  <2>2. ASSUME NEW d \in Conns PROVE Pipeline(d)' = Pipeline(d)
    BY <2>1 DEF Pipeline, Unsent
  <2>3. ASSUME NEW d \in Conns PROVE Taken(d)' = Taken(d)
    <3>1. CASE d # c
      <4>1. wire'[d] = wire[d] /\ written'[d] = written[d]
        BY <1>5, <3>1 DEF ClientWrite, Typed
      <4> QED BY <4>1 DEF Taken
    <3>2. CASE d = c
      <4>1. written'[c] = written[c] + 1 /\ wire'[c] = Append(wire[c], written[c] + 1)
        BY <1>5 DEF ClientWrite, Typed
      <4>2. wire[c] \in Seq(Reqs) /\ written[c] \in 0..MaxReqs /\ written[c] < MaxReqs
        BY <1>5 DEF ClientWrite, Typed
      <4>3. Len(wire[c]) \in Nat /\ Len(wire'[c]) = Len(wire[c]) + 1
        <5>1. written[c] + 1 \in Reqs
          BY <4>2, ServerAssumption DEF Reqs
        <5> QED BY <4>1, <4>2, <5>1, AppendProperties, LenProperties
      <4>4. written[c] \in Int
        BY <4>2
      <4>5. written'[c] - Len(wire'[c]) = written[c] - Len(wire[c])
        <5>1. written'[c] = written[c] + 1
          BY <4>1
        <5> QED BY <4>3, <4>4, <5>1
      <4> QED BY <3>2, <4>5 DEF Taken
    <3> QED BY <3>1, <3>2
  <2>4. \A d \in Conns : InPlace(d)'
    BY <2>2, <2>3 DEF Ordered, InPlace
  <2> QED BY <2>4, NextUnread DEF Ordered
<1>6. ASSUME NEW c \in Conns, Read(c) PROVE Ordered'
  <2>1. ASSUME NEW d \in Conns, d # c PROVE InPlace(d)'
    <3>1. UNCHANGED <<out, txq, work_item, write_item, writer, written>>
      BY <1>6 DEF Read, ReadRecv, ReadPut, ReadEnd, ReadClosed, ReadDiscard, readRest
    <3>2. rxq'[d] = rxq[d] /\ frames'[d] = frames[d] /\ wire'[d] = wire[d]
      BY <1>6, <2>1 DEF Read, ReadRecv, ReadPut, ReadEnd, ReadClosed, ReadDiscard, readRest, Typed
    <3> QED BY <3>1, <3>2, Untouched DEF Unsent
  <2>2. InPlace(c)'
    <3>1. CASE ReadEnd(c) \/ ReadClosed(c) \/ ReadDiscard(c)
      <4>1. UNCHANGED <<out, txq, rxq, frames, work_item, write_item, wire, written, writer>>
        BY <3>1 DEF ReadEnd, ReadClosed, ReadDiscard, readRest
      <4> QED BY <1>1, <4>1
    <3> QED BY <1>6, <3>1, ReadInPlace, ReadPutInPlace DEF Read
  <2> QED BY <2>1, <2>2, NextUnread DEF Ordered
<1>7. ASSUME NEW c \in Conns, Work(c) PROVE Ordered'
  <2>1. ASSUME NEW d \in Conns, d # c PROVE InPlace(d)'
    <3>1. UNCHANGED <<out, frames, wire, write_item, writer, written>>
      BY <1>7 DEF Work, WorkTest, WorkGet, WorkEmpty, WorkCount, WorkHandle, WorkUncount, WorkPut,
                  WorkDrain, workRest
    <3>2. rxq'[d] = rxq[d] /\ txq'[d] = txq[d] /\ work_item'[d] = work_item[d]
      BY <1>7, <2>1 DEF Work, WorkTest, WorkGet, WorkEmpty, WorkCount, WorkHandle, WorkUncount,
                        WorkPut, WorkDrain, Typed
    <3> QED BY <3>1, <3>2, Untouched DEF Unsent
  <2>2. InPlace(c)'
    <3>1. CASE WorkTest(c) \/ WorkEmpty(c) \/ WorkCount(c) \/ WorkHandle(c) \/ WorkUncount(c)
               \/ (WorkDrain(c) /\ rxq[c] = <<>>)
      <4>1. UNCHANGED <<out, txq, rxq, frames, work_item, write_item, wire, written, writer>>
        BY <3>1 DEF WorkTest, WorkEmpty, WorkCount, WorkHandle, WorkUncount, WorkDrain, workRest
      <4> QED BY <1>1, <4>1
    <3> QED BY <1>7, <3>1, WorkGetInPlace, WorkPutInPlace DEF Work
  <2> QED BY <2>1, <2>2, NextUnread DEF Ordered
<1>8. ASSUME NEW c \in Conns, Write(c) PROVE Ordered'
  <2>1. ASSUME NEW d \in Conns, d # c PROVE InPlace(d)'
    <3>1. UNCHANGED <<rxq, frames, wire, work_item, written>>
      BY <1>8 DEF Write, WriteTest, WriteGet, WriteEmpty, WriteSend, WriteFail, WriteNote, writeRest
    <3>2. out'[d] = out[d] /\ txq'[d] = txq[d] /\ write_item'[d] = write_item[d] /\ writer'[d] = writer[d]
      BY <1>8, <2>1 DEF Write, WriteTest, WriteGet, WriteEmpty, WriteSend, WriteFail, WriteNote,
         Typed
    <3> QED BY <3>1, <3>2, Untouched DEF Unsent
  <2>2. InPlace(c)'
    <3>1. CASE WriteTest(c) \/ WriteEmpty(c) \/ WriteFail(c)
      <4>1. UNCHANGED <<out, txq, rxq, frames, work_item, write_item, wire, written>>
        BY <3>1 DEF WriteTest, WriteEmpty, WriteFail, writeRest
      <4>2. writer[c] # "note" /\ writer'[c] # "note"
        BY <3>1 DEF WriteTest, WriteEmpty, WriteFail, Typed
      <4> QED BY <1>1, <4>1, <4>2
    <3>2. CASE WriteNote(c)
      <4>1. /\ UNCHANGED <<out, txq, rxq, frames, work_item, wire, written>>
            /\ writer[c] = "note" /\ writer'[c] # "note" /\ write_item'[c] = <<>>
        BY <3>2 DEF WriteNote, writeRest, Typed
      <4> QED BY <4>1, Untouched DEF Unsent
    <3> QED BY <1>8, <3>1, <3>2, WriteGetInPlace, WriteSendInPlace DEF Write
  <2> QED BY <2>1, <2>2, NextUnread DEF Ordered
<1> QED BY <1>2, <1>3, <1>4, <1>5, <1>6, <1>7, <1>8 DEF Next, Finished

-----------------------------------------------------------------------------
(* Counters *)

\* Some connections' workers are counted.
LEMMA BusyFinite == IsFiniteSet(Busy) /\ Cardinality(Busy) \in Nat
<1>1. Busy \subseteq Conns
  BY DEF Busy
<1> QED BY <1>1, ServerAssumption, FS_Subset, FS_CardinalityType

\* The number of requests being processed is the number of workers between
\* the two updates of it.
LEMMA NextProcessing ==
  ASSUME Typed, Labelled, ProcessingExact, [Next]_vars
  PROVE  ProcessingExact'
<1>1. ASSUME processing' = processing,
             \A d \in Conns : (worker[d] \in {"handle", "uncount"}) <=> (worker'[d] \in {"handle", "uncount"})
      PROVE  ProcessingExact'
  <2>1. Busy' = Busy
    BY <1>1 DEF Busy
  <2> QED BY <1>1, <2>1 DEF ProcessingExact
<1>2. ASSUME UNCHANGED <<processing, worker>> PROVE ProcessingExact'
  BY <1>1, <1>2
<1>3. CASE UNCHANGED vars \/ StopCall \/ Stop
           \/ \E c \in Conns : Connect(c) \/ ClientWrite(c) \/ ClientClose(c) \/ Read(c) \/ Write(c)
  <2>1. UNCHANGED <<processing, worker>>
    BY <1>3 DEF vars, StopCall, Stop, StopCopy, StopCloseConn, StopCloseListener, StopJoin,
       stopRest,
      Connect, ClientWrite, ClientClose, serverVars, readRest, writeRest, counters, workVars,
      Read, ReadRecv, ReadPut, ReadEnd, ReadClosed, ReadDiscard,
      Write, WriteTest, WriteGet, WriteEmpty, WriteSend, WriteFail, WriteNote
  <2> QED BY <1>2, <2>1
<1>4. CASE Accept
  <2>1. CASE AcceptSpawn
    <3>1. acc_conn \in Conns /\ worker[acc_conn] = "none"
      BY <2>1 DEF AcceptSpawn, Labelled, Accepting
    <3>2. worker' = [worker EXCEPT ![acc_conn] = "test"] /\ processing' = processing
      BY <2>1 DEF AcceptSpawn, acceptRest, counters
    <3> QED BY <1>1, <3>1, <3>2 DEF Typed
  <2>2. CASE ~AcceptSpawn
    <3>1. UNCHANGED <<processing, worker>>
      BY <1>4, <2>2 DEF Accept, AcceptTest, AcceptTimeout, HandshakeDone, AcceptError,
         AcceptRegister,
                        AcceptConn, acceptRest, counters
    <3> QED BY <1>2, <3>1
  <2> QED BY <2>1, <2>2
<1>5. ASSUME NEW c \in Conns, Work(c) PROVE ProcessingExact'
  <2>0. \A d \in Conns \ {c} : worker'[d] = worker[d]
    BY <1>5 DEF Work, WorkTest, WorkGet, WorkEmpty, WorkCount, WorkHandle, WorkUncount, WorkPut,
                WorkDrain, Typed
  <2>1. CASE WorkTest(c) \/ WorkGet(c) \/ WorkEmpty(c) \/ WorkHandle(c) \/ WorkPut(c) \/ WorkDrain(c)
    <3>1. processing' = processing
      BY <2>1 DEF WorkTest, WorkGet, WorkEmpty, WorkHandle, WorkPut, WorkDrain
    <3>2. (worker[c] \in {"handle", "uncount"}) <=> (worker'[c] \in {"handle", "uncount"})
      BY <2>1 DEF WorkTest, WorkGet, WorkEmpty, WorkHandle, WorkPut, WorkDrain, Typed
    <3> QED BY <1>1, <2>0, <3>1, <3>2
  <2>2. CASE WorkCount(c)
    <3>1. worker[c] = "count" /\ worker'[c] = "handle" /\ processing' = processing + 1
      BY <2>2 DEF WorkCount, Typed
    <3>2. Busy' = Busy \cup {c} /\ c \notin Busy
      BY <2>0, <3>1 DEF Busy
    <3>3. Cardinality(Busy \cup {c}) = Cardinality(Busy) + 1
      BY <3>2, BusyFinite, FS_AddElement
    <3> QED BY <3>1, <3>2, <3>3 DEF ProcessingExact
  <2>3. CASE WorkUncount(c)
    <3>1. worker[c] = "uncount" /\ worker'[c] = "put"
      BY <2>3 DEF WorkUncount, Typed
    <3>2. Busy' = Busy \ {c} /\ c \in Busy
      BY <2>0, <3>1 DEF Busy
    <3>3. Cardinality(Busy \ {c}) = Cardinality(Busy) - 1
      BY <3>2, BusyFinite, FS_RemoveElement
    <3>4. Cardinality(Busy) \in Nat /\ Cardinality(Busy) # 0
      BY <3>2, BusyFinite, FS_EmptySet
    <3>5. processing > 0
      BY <3>4 DEF ProcessingExact
    <3>6. processing' = processing - 1
      BY <2>3, <3>5 DEF WorkUncount
    <3> QED BY <3>2, <3>3, <3>6 DEF ProcessingExact
  <2> QED BY <1>5, <2>1, <2>2, <2>3 DEF Work
<1> QED BY <1>3, <1>4, <1>5 DEF Next, Finished
\* A response that is noted has been sent.
LEMMA NextNoting ==
  ASSUME Typed, Labelled, Noting, [Next]_vars
  PROVE  Noting'
<1> USE DEF clients, accVars, readVars, workVars, sendVars
<1>1. ASSUME UNCHANGED <<out, write_item>>,
             \A d \in Conns : writer'[d] = "note" => writer[d] = "note"
      PROVE  Noting'
  BY <1>1 DEF Noting
<1>2. CASE UNCHANGED vars \/ StopCall \/ Stop
           \/ \E c \in Conns : Connect(c) \/ ClientWrite(c) \/ ClientClose(c) \/ Read(c) \/ Work(c)
  <2>1. UNCHANGED <<out, write_item, writer>>
    BY <1>2 DEF vars, StopCall, Stop, StopCopy, StopCloseConn, StopCloseListener, StopJoin,
       stopRest,
      Connect, ClientWrite, ClientClose, serverVars, readRest, workRest,
      Read, ReadRecv, ReadPut, ReadEnd, ReadClosed, ReadDiscard,
      Work, WorkTest, WorkGet, WorkEmpty, WorkCount, WorkHandle, WorkUncount, WorkPut, WorkDrain
  <2> QED BY <1>1, <2>1
<1>3. CASE Accept
  <2>1. UNCHANGED <<out, write_item>>
    BY <1>3 DEF Accept, AcceptTest, AcceptTimeout, HandshakeDone, AcceptError, AcceptRegister,
                AcceptConn, AcceptSpawn, acceptRest
  <2>2. writer' = writer \/ writer' = [writer EXCEPT ![acc_conn] = "test"]
    BY <1>3 DEF Accept, AcceptTest, AcceptTimeout, HandshakeDone, AcceptError, AcceptRegister,
                AcceptConn, AcceptSpawn
  <2> QED BY <1>1, <2>1, <2>2 DEF Typed
<1>4. ASSUME NEW c \in Conns, Write(c) PROVE Noting'
  <2>1. CASE WriteTest(c) \/ WriteEmpty(c) \/ WriteFail(c)
    <3>1. UNCHANGED <<out, write_item>> /\ \A d \in Conns : writer'[d] = "note" => writer[d] = "note"
      BY <2>1 DEF WriteTest, WriteEmpty, WriteFail, Typed
    <3> QED BY <1>1, <3>1
  <2>2. CASE WriteGet(c) \/ WriteNote(c)
    <3>1. /\ out' = out /\ writer'[c] # "note"
          /\ \A d \in Conns \ {c} : writer'[d] = writer[d] /\ write_item'[d] = write_item[d]
      BY <2>2 DEF WriteGet, WriteNote, Typed
    <3> QED BY <3>1 DEF Noting
  <2>3. CASE WriteSend(c)
    <3>1. /\ write_item' = write_item /\ out'[c] = out[c] \o write_item[c]
          /\ \A d \in Conns \ {c} : writer'[d] = writer[d] /\ out'[d] = out[d]
      BY <2>3 DEF WriteSend, Typed
    <3>2. Elems(out'[c]) = Elems(out[c]) \cup Elems(write_item[c])
      BY <3>1, ElemsConcat DEF Typed
    <3> QED BY <3>1, <3>2 DEF Noting
  <2> QED BY <1>4, <2>1, <2>2, <2>3 DEF Write
<1> QED BY <1>2, <1>3, <1>4 DEF Next, Finished

\* A request is at one place of the row only.
LEMMA RowApart ==
  ASSUME Typed, Ordered, Noting, NEW c \in Conns
  PROVE  /\ Elems(txq[c]) \cap (Elems(work_item[c]) \cup Elems(rxq[c])) = {}
         /\ Elems(write_item[c]) \cap (Elems(txq[c]) \cup Elems(work_item[c]) \cup Elems(rxq[c])) = {}
         /\ Elems(out[c]) \cap (Elems(work_item[c]) \cup Elems(rxq[c])) = {}
<1> DEFINE p1 == out[c] \o Unsent(c)
           p2 == p1 \o txq[c]
           p3 == p2 \o work_item[c]
           p4 == p3 \o rxq[c]
<1>1. /\ out[c] \in Seq(Int) /\ Unsent(c) \in Seq(Int) /\ txq[c] \in Seq(Int)
      /\ work_item[c] \in Seq(Int) /\ rxq[c] \in Seq(Int) /\ frames[c] \in Seq(Int)
      /\ p1 \in Seq(Int) /\ p2 \in Seq(Int) /\ p3 \in Seq(Int) /\ p4 \in Seq(Int)
  BY PipelineType, OfInts
<1>2. Elems(p1) = Elems(out[c]) \cup Elems(Unsent(c))
  BY <1>1, ElemsConcat
<1>3. Elems(write_item[c]) \subseteq Elems(p1) /\ Elems(out[c]) \subseteq Elems(p1)
  BY <1>2 DEF Noting, Unsent
<1>4. Pipeline(c) = p4 \o frames[c] /\ Increasing(Pipeline(c))
  BY DEF Pipeline, Ordered, InPlace
<1> HIDE DEF p1
<1>5. Elems(p2) = Elems(p1) \cup Elems(txq[c])
      /\ (Increasing(p2) => Before(Elems(p1), Elems(txq[c])))
  BY <1>1, ElemsConcat, IncreasingConcat
<1> HIDE DEF p2
<1>6. Elems(p3) = Elems(p2) \cup Elems(work_item[c])
      /\ (Increasing(p3) => Increasing(p2) /\ Before(Elems(p2), Elems(work_item[c])))
  BY <1>1, ElemsConcat, IncreasingConcat
<1> HIDE DEF p3
<1>7. Increasing(p4) => Increasing(p3) /\ Before(Elems(p3), Elems(rxq[c]))
  BY <1>1, IncreasingConcat
<1> HIDE DEF p4
<1>8. Increasing(p4)
  BY <1>1, <1>4, IncreasingConcat
<1>9. /\ Before(Elems(p1), Elems(txq[c])) /\ Before(Elems(p2), Elems(work_item[c]))
      /\ Before(Elems(p3), Elems(rxq[c]))
  BY <1>5, <1>6, <1>7, <1>8
<1>10. Elems(p1) \subseteq Int /\ Elems(txq[c]) \subseteq Int
  BY <1>1, ElemsType
<1>11. ASSUME NEW S, NEW T, S \subseteq Int, Before(S, T) PROVE S \cap T = {}
  <2> SUFFICES ASSUME NEW x \in S, x \in T PROVE FALSE
    OBVIOUS
  <2>1. x \in Int /\ x < x
    BY <1>11 DEF Before
  <2> QED BY <2>1
<1>12. Elems(p1) \cap Elems(txq[c]) = {}
  BY <1>9, <1>10, <1>11
<1>13. Elems(p2) \cap Elems(work_item[c]) = {}
  BY <1>5, <1>9, <1>10, <1>11
<1>14. Elems(p3) \cap Elems(rxq[c]) = {}
  <2>1. Elems(p3) \subseteq Int
    BY <1>1, ElemsType
  <2> QED BY <1>9, <1>11, <2>1
<1> QED BY <1>3, <1>5, <1>6, <1>12, <1>13, <1>14

\* The ECHOs handled and not reported sent, connection by connection.
Pairs == UNION {{c} \X Answering(c) : c \in Conns}

LEMMA PairsAre ==
  \A x : x \in Pairs <=> \E d \in Conns : \E r \in Answering(d) : x = <<d, r>>
BY DEF Pairs

LEMMA PairsFinite ==
  ASSUME Typed
  PROVE  IsFiniteSet(Pairs) /\ Cardinality(Pairs) \in Nat
<1>1. \A c \in Conns : Answering(c) \subseteq Reqs
  <2> SUFFICES ASSUME NEW c \in Conns PROVE Answering(c) \subseteq Reqs
    OBVIOUS
  <2>1. /\ Elems(txq[c]) \subseteq Reqs /\ Elems(write_item[c]) \subseteq Reqs
        /\ Elems(work_item[c]) \subseteq Reqs /\ Elems(out[c]) \subseteq Reqs
    BY ElemsType DEF Typed
  <2> QED BY <2>1 DEF Answering, Handled, PassedOver
<1>2. Pairs \subseteq Conns \X Reqs
  BY <1>1, PairsAre
<1>3. IsFiniteSet(Conns \X Reqs)
  <2>1. IsFiniteSet(Reqs)
    BY ServerAssumption, FS_Interval DEF Reqs
  <2> QED BY <2>1, ServerAssumption, FS_Product
<1> QED BY <1>2, <1>3, FS_Subset, FS_CardinalityType

\* Nothing handled, nothing sent: the totals stay balanced.
LEMMA BalanceKept ==
  ASSUME TotalsBalance, UNCHANGED <<echo_rx, echo_tx>>,
         \A d \in Conns : Answering(d)' = Answering(d)
  PROVE  TotalsBalance'
<1>1. Pairs' = Pairs
  BY DEF Pairs
<1> QED BY <1>1 DEF TotalsBalance, Pairs

\* One more ECHO handled.
LEMMA BalanceHandled ==
  ASSUME Typed, TotalsBalance, NEW c \in Conns, NEW r \in Reqs,
         \A d \in Conns \ {c} : Answering(d)' = Answering(d),
         IsEcho(r), r \notin Answering(c), Answering(c)' = Answering(c) \cup {r},
         echo_rx' = echo_rx + 1, echo_tx' = echo_tx
  PROVE  TotalsBalance'
<1>1. \A x : x \in Pairs' <=> \E d \in Conns : \E q \in Answering(d)' : x = <<d, q>>
  BY DEF Pairs
<1>2. Pairs' = Pairs \cup {<<c, r>>} /\ <<c, r>> \notin Pairs
  BY <1>1, PairsAre
<1>3. Cardinality(Pairs') = Cardinality(Pairs) + 1
  BY <1>2, PairsFinite, FS_AddElement
<1>4. echo_rx \in Nat /\ echo_tx \in Nat /\ Cardinality(Pairs) \in Nat
  BY PairsFinite DEF Typed
<1>5. echo_rx - echo_tx = Cardinality(Pairs)
  BY DEF TotalsBalance, Pairs
<1>6. echo_rx' - echo_tx' = Cardinality(Pairs')
  BY <1>3, <1>4, <1>5
<1> QED BY <1>6 DEF TotalsBalance, Pairs

\* One more response to an ECHO reported sent.
LEMMA BalanceSent ==
  ASSUME Typed, TotalsBalance, NEW c \in Conns, NEW r \in Reqs,
         \A d \in Conns \ {c} : Answering(d)' = Answering(d),
         IsEcho(r), r \in Answering(c), Answering(c)' = Answering(c) \ {r},
         echo_rx' = echo_rx, echo_tx' = echo_tx + 1
  PROVE  TotalsBalance'
<1>1. \A x : x \in Pairs' <=> \E d \in Conns : \E q \in Answering(d)' : x = <<d, q>>
  BY DEF Pairs
<1>2. Pairs' = Pairs \ {<<c, r>>} /\ <<c, r>> \in Pairs
  BY <1>1, PairsAre
<1>3. Cardinality(Pairs') = Cardinality(Pairs) - 1
  BY <1>2, PairsFinite, FS_RemoveElement
<1>4. echo_rx \in Nat /\ echo_tx \in Nat /\ Cardinality(Pairs) \in Nat
  BY PairsFinite DEF Typed
<1>5. echo_rx - echo_tx = Cardinality(Pairs)
  BY DEF TotalsBalance, Pairs
<1>6. echo_rx' - echo_tx' = Cardinality(Pairs')
  BY <1>3, <1>4, <1>5
<1> QED BY <1>6 DEF TotalsBalance, Pairs
\* A worker that handles a request, in its loop or after it.
LEMMA BalanceWorker ==
  ASSUME Typed, TotalsBalance, NEW c \in Conns, NEW r \in Reqs,
         UNCHANGED <<echo_tx, write_item, out>>, Handle(r),
         \A d \in Conns \ {c} : Answering(d)' = Answering(d),
         txq'[c] = txq[c], Handled(c) = {}, Handled(c)' = {r},
         r \notin Elems(txq[c]) \cup Elems(write_item[c]) \cup Elems(out[c])
  PROVE  TotalsBalance'
<1>1. CASE IsEcho(r)
  <2>1. r \notin Answering(c) /\ Answering(c)' = Answering(c) \cup {r}
    BY <1>1 DEF Answering, PassedOver, IsEcho
  <2>2. echo_rx' = echo_rx + 1
    BY <1>1 DEF Handle
  <2> QED BY <1>1, <2>1, <2>2, BalanceHandled
<1>2. CASE ~IsEcho(r)
  <2>1. Answering(c)' = Answering(c)
    BY <1>2 DEF Answering, PassedOver, IsEcho
  <2>2. echo_rx' = echo_rx
    BY <1>2 DEF Handle
  <2> QED BY <2>1, <2>2, BalanceKept
<1> QED BY <1>1, <1>2

\* Requests and responses differ by what is handled and not reported sent.
LEMMA NextBalance ==
  ASSUME Typed, Labelled, Ordered, Noting, TotalsBalance, [Next]_vars
  PROVE  TotalsBalance'
<1> USE DEF clients, accVars, readVars, workVars, sendVars, counters
<1>1. ASSUME UNCHANGED <<worker, work_item, txq, write_item, out>>, NEW d \in Conns
      PROVE  Answering(d)' = Answering(d)
  BY <1>1 DEF Answering, Handled, PassedOver, IsEcho
<1>2. CASE UNCHANGED vars \/ StopCall \/ Stop
           \/ \E c \in Conns : Connect(c) \/ ClientWrite(c) \/ ClientClose(c) \/ Read(c)
  <2>1. UNCHANGED <<worker, work_item, txq, write_item, out, echo_rx, echo_tx>>
    BY <1>2 DEF vars, StopCall, Stop, StopCopy, StopCloseConn, StopCloseListener, StopJoin,
       stopRest,
      Connect, ClientWrite, ClientClose, serverVars, readRest,
      Read, ReadRecv, ReadPut, ReadEnd, ReadClosed, ReadDiscard
  <2>2. \A d \in Conns : Answering(d)' = Answering(d)
    BY <1>1, <2>1
  <2> QED BY <2>1, <2>2, BalanceKept
<1>3. CASE Accept
  <2>1. UNCHANGED <<work_item, txq, write_item, out, echo_rx, echo_tx>>
    BY <1>3 DEF Accept, AcceptTest, AcceptTimeout, HandshakeDone, AcceptError, AcceptRegister,
                AcceptConn, AcceptSpawn, acceptRest
  <2>2. \A d \in Conns : Handled(d)' = Handled(d)
    <3>1. CASE AcceptSpawn
      <4>1. acc_conn \in Conns /\ worker[acc_conn] = "none"
        BY <3>1 DEF AcceptSpawn, Labelled, Accepting
      <4>2. worker' = [worker EXCEPT ![acc_conn] = "test"]
        BY <3>1 DEF AcceptSpawn
      <4> QED BY <2>1, <4>1, <4>2 DEF Handled, Typed
    <3>2. CASE ~AcceptSpawn
      <4>1. worker' = worker
        BY <1>3, <3>2 DEF Accept, AcceptTest, AcceptTimeout, HandshakeDone, AcceptError,
                          AcceptRegister, AcceptConn
      <4> QED BY <2>1, <4>1 DEF Handled
    <3> QED BY <3>1, <3>2
  <2>3. \A d \in Conns : Answering(d)' = Answering(d)
    BY <2>1, <2>2 DEF Answering, PassedOver, IsEcho
  <2> QED BY <2>1, <2>3, BalanceKept
<1>4. ASSUME NEW c \in Conns, Work(c) PROVE TotalsBalance'
  <2>1. UNCHANGED <<echo_tx, write_item, out>>
    BY <1>4 DEF Work, WorkTest, WorkGet, WorkEmpty, WorkCount, WorkHandle, WorkUncount, WorkPut,
                WorkDrain, workRest
  <2>2. \A d \in Conns \ {c} : Answering(d)' = Answering(d)
    <3>1. \A d \in Conns \ {c} : worker'[d] = worker[d] /\ work_item'[d] = work_item[d]
                                 /\ txq'[d] = txq[d]
      BY ZenonT(60), <1>4 DEF Work, WorkTest, WorkGet, WorkEmpty, WorkCount, WorkHandle, WorkUncount, WorkPut,
                  WorkDrain, Typed
    <3> QED BY <2>1, <3>1 DEF Answering, Handled, PassedOver, IsEcho
  <2>3. CASE WorkTest(c) \/ WorkGet(c) \/ WorkEmpty(c) \/ WorkCount(c) \/ WorkUncount(c)
             \/ (WorkDrain(c) /\ rxq[c] = <<>>)
    <3>1. echo_rx' = echo_rx /\ txq' = txq
      BY <2>3 DEF WorkTest, WorkGet, WorkEmpty, WorkCount, WorkUncount, WorkDrain, workRest
    <3>2. Handled(c)' = Handled(c)
      <4>1. CASE WorkUncount(c)
        <5>1. worker[c] = "uncount" /\ worker'[c] = "put" /\ work_item' = work_item
          BY <4>1 DEF WorkUncount, Typed
        <5> QED BY <5>1 DEF Handled
      <4>2. CASE ~WorkUncount(c)
        <5>1. /\ worker[c] \notin {"uncount", "put", "drain put"}
              /\ worker'[c] \notin {"uncount", "put", "drain put"}
          BY <2>3, <4>2 DEF WorkTest, WorkGet, WorkEmpty, WorkCount, WorkDrain, Typed
        <5> QED BY <5>1 DEF Handled
      <4> QED BY <4>1, <4>2
    <3>3. Answering(c)' = Answering(c)
      BY <2>1, <3>1, <3>2 DEF Answering, PassedOver, IsEcho
    <3> QED BY <2>1, <2>2, <3>1, <3>3, BalanceKept
  <2>4. CASE WorkHandle(c)
    <3>1. PICK r \in Reqs : work_item[c] = <<r>>
      BY <2>4 DEF WorkHandle, Labelled, WorkHolds, Holding
    <3>2. Elems(work_item[c]) = {r} /\ work_item[c][1] = r
      BY <3>1 DEF Elems
    <3>3. /\ worker[c] = "handle" /\ worker'[c] = "uncount" /\ txq' = txq /\ work_item' = work_item
          /\ Handle(r)
      BY <2>4, <3>2 DEF WorkHandle, Typed
    <3>4. Handled(c) = {} /\ Handled(c)' = {r}
      BY <3>2, <3>3 DEF Handled
    <3>5. r \notin Elems(txq[c]) \cup Elems(write_item[c]) \cup Elems(out[c])
      BY <3>2, RowApart
    <3> QED BY <2>1, <2>2, <3>3, <3>4, <3>5, BalanceWorker
  <2>5. CASE WorkDrain(c) /\ rxq[c] # <<>>
    <3> DEFINE r == Head(rxq[c])
    <3>1. /\ worker[c] = "drain" /\ worker'[c] = "drain put" /\ txq' = txq /\ work_item'[c] = <<r>>
          /\ Handle(r)
      BY <2>5 DEF WorkDrain, workRest, Typed
    <3>2. r \in Reqs /\ r \in Elems(rxq[c])
      <4>1. rxq[c] \in Seq(Reqs) /\ rxq[c] # <<>>
        BY <2>5 DEF Typed
      <4> QED BY <4>1, ElemsTail
    <3>3. Handled(c) = {} /\ Handled(c)' = {r}
      <4>1. Elems(<<r>>) = {r}
        BY DEF Elems
      <4> QED BY <3>1, <4>1 DEF Handled
    <3>4. r \notin Elems(txq[c]) \cup Elems(write_item[c]) \cup Elems(out[c])
      BY <3>2, RowApart
    <3> HIDE DEF r
    <3> QED BY <2>1, <2>2, <3>1, <3>2, <3>3, <3>4, BalanceWorker
  <2>6. CASE WorkPut(c)
    <3>1. PICK r \in Reqs : work_item[c] = <<r>>
      BY <2>6 DEF WorkPut, Labelled, WorkHolds, Holding
    <3>2. Elems(work_item[c]) = {r} /\ work_item[c][1] = r
      BY <3>1 DEF Elems
    <3>3. /\ worker[c] \in {"put", "drain put"} /\ worker'[c] \in {"test", "drain"}
          /\ echo_rx' = echo_rx
          /\ txq'[c] = IF r \in Junk THEN txq[c] ELSE Append(txq[c], r)
      <4>1. echo_rx' = echo_rx /\ worker[c] \in {"put", "drain put"} /\ worker'[c] \in {"test", "drain"}
        BY <2>6 DEF WorkPut, Typed
      <4>2. txq'[c] = IF r \in Junk THEN txq[c] ELSE Append(txq[c], r)
        BY <2>6, <3>2 DEF WorkPut, Typed
      <4> QED BY <4>1, <4>2
    <3>4. Handled(c) = {r} /\ Handled(c)' = {}
      BY <3>2, <3>3 DEF Handled
    <3>5. Elems(txq'[c]) = IF r \in Junk THEN Elems(txq[c]) ELSE Elems(txq[c]) \cup {r}
      <4>1. txq[c] \in Seq(Reqs)
        BY DEF Typed
      <4>2. Elems(Append(txq[c], r)) = Elems(txq[c]) \cup {r}
        BY <4>1, ElemsAppend
      <4> QED BY <3>3, <4>2
    <3>6. Answering(c)' = Answering(c)
      BY <2>1, <3>4, <3>5 DEF Answering, PassedOver, IsEcho
    <3> QED BY <2>1, <2>2, <3>3, <3>6, BalanceKept
  <2> QED BY <1>4, <2>3, <2>4, <2>5, <2>6 DEF Work
<1>5. ASSUME NEW c \in Conns, Write(c) PROVE TotalsBalance'
  <2>1. UNCHANGED <<echo_rx, worker, work_item>>
    BY <1>5 DEF Write, WriteTest, WriteGet, WriteEmpty, WriteSend, WriteFail, WriteNote, writeRest
  <2>2. \A d \in Conns \ {c} : Answering(d)' = Answering(d)
    <3>1. \A d \in Conns \ {c} : write_item'[d] = write_item[d] /\ txq'[d] = txq[d]
                                 /\ out'[d] = out[d]
      BY <1>5 DEF Write, WriteTest, WriteGet, WriteEmpty, WriteSend, WriteFail, WriteNote, Typed
    <3> QED BY <2>1, <3>1 DEF Answering, Handled, PassedOver, IsEcho
  <2>3. CASE WriteTest(c) \/ WriteEmpty(c) \/ WriteFail(c)
    <3>1. UNCHANGED <<echo_tx, txq, write_item, out>>
      BY <2>3 DEF WriteTest, WriteEmpty, WriteFail
    <3>2. \A d \in Conns : Answering(d)' = Answering(d)
      BY <1>1, <2>1, <3>1
    <3> QED BY <2>1, <3>1, <3>2, BalanceKept
  <2>4. CASE WriteGet(c)
    <3>1. /\ txq[c] # <<>> /\ txq'[c] = Tail(txq[c]) /\ write_item'[c] = <<Head(txq[c])>>
          /\ echo_tx' = echo_tx /\ out' = out /\ writer[c] = "get"
      BY <2>4 DEF WriteGet, Typed
    <3>2. write_item[c] = <<>>
      BY <3>1 DEF Labelled, WriteHolds
    <3>3. Elems(txq[c]) = {Head(txq[c])} \cup Elems(Tail(txq[c]))
      <4>1. txq[c] \in Seq(Reqs)
        BY DEF Typed
      <4> QED BY <3>1, <4>1, ElemsTail
    <3>4. Elems(write_item[c]) = {} /\ Elems(write_item'[c]) = {Head(txq[c])}
      BY <3>1, <3>2, EmptyQueue DEF Elems
    <3>5. Elems(txq[c]) \cup Elems(write_item[c]) = Elems(txq'[c]) \cup Elems(write_item'[c])
      BY <3>1, <3>3, <3>4
    <3>6. Handled(c)' = Handled(c)
      BY <2>1 DEF Handled
    <3>7. Answering(c)' = Answering(c)
      BY <3>1, <3>5, <3>6 DEF Answering, PassedOver, IsEcho
    <3> QED BY <2>1, <2>2, <3>1, <3>7, BalanceKept
  <2>5. CASE WriteSend(c)
    <3>1. UNCHANGED <<echo_tx, txq, write_item>> /\ out'[c] = out[c] \o write_item[c]
      BY <2>5 DEF WriteSend, Typed
    <3>2. Elems(out'[c]) = Elems(out[c]) \cup Elems(write_item[c])
      BY <3>1, ElemsConcat DEF Typed
    <3>3. Handled(c)' = Handled(c)
      BY <2>1 DEF Handled
    <3>4. Answering(c)' = Answering(c)
      BY <3>1, <3>2, <3>3 DEF Answering, PassedOver, IsEcho
    <3> QED BY <2>1, <2>2, <3>1, <3>4, BalanceKept
  <2>6. CASE WriteNote(c)
    <3>1. PICK r \in Reqs : write_item[c] = <<r>>
      BY <2>6 DEF WriteNote, Labelled, WriteHolds
    <3>2. Elems(write_item[c]) = {r} /\ write_item[c][1] = r
      BY <3>1 DEF Elems
    <3>3. /\ UNCHANGED <<txq, out>> /\ write_item'[c] = <<>> /\ writer[c] = "note"
          /\ echo_tx' = IF IsEcho(r) /\ r \notin Long THEN echo_tx + 1 ELSE echo_tx
      BY <2>6, <3>2 DEF WriteNote, Typed
    <3>4. Handled(c)' = Handled(c) /\ Elems(write_item'[c]) = {}
      BY <2>1, <3>3, EmptyQueue DEF Handled
    <3>5. r \notin Handled(c) \cup Elems(txq[c])
      BY <3>2, RowApart DEF Handled
    <3>6. r \in Elems(out[c])
      BY <3>2, <3>3 DEF Noting
    <3>7. CASE IsEcho(r) /\ r \notin Long
      <4>1. r \in Answering(c) /\ echo_tx' = echo_tx + 1
        BY <3>2, <3>3, <3>7 DEF Answering
      <4>2. Answering(c)' = Answering(c) \ {r}
        BY <3>2, <3>3, <3>4, <3>5, <3>7 DEF Answering, PassedOver, IsEcho
      <4> QED BY <2>1, <2>2, <3>7, <4>1, <4>2, BalanceSent
    <3>8. CASE ~IsEcho(r) \/ r \in Long
      <4>1. echo_tx' = echo_tx
        BY <3>3, <3>8
      <4>2. Answering(c)' = Answering(c)
        BY <3>2, <3>3, <3>4, <3>6, <3>8 DEF Answering, PassedOver, IsEcho
      <4> QED BY <2>1, <2>2, <4>1, <4>2, BalanceKept
    <3> QED BY <3>7, <3>8
  <2> QED BY <1>5, <2>3, <2>4, <2>5, <2>6 DEF Write
<1> QED BY <1>2, <1>3, <1>4, <1>5 DEF Next, Finished

-----------------------------------------------------------------------------
(* The theorems *)

\* Initially no client is connected and nothing is counted.
LEMMA InitInv == Init => IInv
<1> SUFFICES ASSUME Init PROVE IInv
  OBVIOUS
<1> USE DEF Init
<1>1. <<>> \in Seq(Reqs) /\ Len(<<>>) = 0
  BY EmptySeq
<1>2. Typed
  <2>1. /\ wire \in [Conns -> Seq(Reqs)] /\ out \in [Conns -> Seq(Reqs)]
        /\ rxq \in [Conns -> Seq(Reqs)] /\ txq \in [Conns -> Seq(Reqs)]
        /\ frames \in [Conns -> Seq(Reqs)]
        /\ work_item \in [Conns -> Seq(Reqs)] /\ write_item \in [Conns -> Seq(Reqs)]
    BY <1>1
  <2>2. written \in [Conns -> 0..MaxReqs]
    BY ServerAssumption
  <2> QED BY <2>1, <2>2 DEF Typed, Holding
<1>3. Labelled
  BY ServerAssumption DEF Labelled, Accepting, Framed, WorkHolds, WriteHolds, Holding
<1>4. ASSUME NEW c \in Conns PROVE Unread(c) /\ InPlace(c)
  <2>1. Taken(c) = 0 /\ Len(wire[c]) = 0 /\ written[c] = 0
    BY <1>1 DEF Taken
  <2>2. Pipeline(c) = <<>>
    <3>1. \A q \in Seq(Reqs) : q \o <<>> = q
      BY ConcatEmptySeq
    <3> QED BY <1>1, <3>1 DEF Pipeline, Unsent
  <2> QED BY <2>1, <2>2, EmptyQueue DEF Unread, InPlace
<1>5. Noting
  BY DEF Noting
<1>6. TotalsBalance
  <2>1. \A c \in Conns : Answering(c) = {}
    BY EmptyQueue DEF Answering, Handled, PassedOver
  <2>2. Pairs = {}
    BY <2>1 DEF Pairs
  <2> QED BY SMTT(30), <2>2, FS_EmptySet DEF TotalsBalance, Pairs
<1>7. ProcessingExact
  <2>1. Busy = {}
    BY DEF Busy
  <2> QED BY <2>1, FS_EmptySet DEF ProcessingExact
<1> QED BY <1>2, <1>3, <1>4, <1>5, <1>6, <1>7 DEF IInv, Ordered

\* The inductive invariant holds throughout every run of the server.
THEOREM Invariance == Spec => []IInv
<1>1. IInv /\ [Next]_vars => IInv'
  BY NextTyped, NextLabelled, NextOrdered, NextNoting, NextBalance, NextProcessing DEF IInv
<1> QED BY InitInv, <1>1, PTL DEF Spec

\* The client of a connection sees its responses in the order of its requests:
\* nothing between recv() and sendall() loses, duplicates or reorders one.
THEOREM ResponsesInOrder == Spec => []InOrder
<1>1. IInv => InOrder
  BY DEF IInv, Ordered, InPlace, Taken, InOrder
<1> QED BY <1>1, Invariance, PTL

\* The reported totals differ by what is handled and not yet reported sent, and
\* by the responses too long to be noted.
THEOREM TotalsBalanced == Spec => []TotalsBalance
<1>1. IInv => TotalsBalance
  BY DEF IInv
<1> QED BY <1>1, Invariance, PTL

\* Every variable keeps its type; no more requests are processed than there
\* are connections.
THEOREM TypeCorrect == Spec => []TypeOK
<1>1. ASSUME IInv PROVE TypeOK
  <2>1. processing \in 0..Cardinality(Conns)
    <3>1. Busy \subseteq Conns
      BY DEF Busy
    <3>2. Cardinality(Busy) <= Cardinality(Conns) /\ Cardinality(Conns) \in Nat
      BY <3>1, ServerAssumption, FS_Subset, FS_CardinalityType
    <3> QED BY <1>1, <3>2, BusyFinite DEF IInv, ProcessingExact
  <2>2. \A q \in {wire, out, rxq, txq, frames, work_item, write_item} : q \in [Conns -> Seq(Reqs)]
    BY <1>1 DEF IInv, Typed
  <2>3. reader \in [Conns -> Labels] /\ worker \in [Conns -> Labels] /\ writer \in [Conns -> Labels]
    BY <1>1 DEF IInv, Typed, Holding, Labels
  <2> QED BY <1>1, <2>1, <2>2, <2>3 DEF TypeOK, IInv, Typed, Reqs
<1> QED BY <1>1, Invariance, PTL
=============================================================================
