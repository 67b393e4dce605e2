--------------------------- MODULE ServerStatsProofs ---------------------------
(***************************************************************************)
(* Proofs about ServerStats, for every set of links, any number of         *)
(* requests and any choice of which of them are STATUS requests, junk, or  *)
(* too long to be answered in one PDU.                                     *)
(***************************************************************************)
EXTENDS ServerStats, SequenceFacts, FiniteSetTheorems

Reqs == 1..MaxReqs

-----------------------------------------------------------------------------
(* The inductive invariant, part 1: types, and what goes with a label *)

Holding    == {"count", "handle", "add", "look", "looking", "uncount", "put"}
WorkLabels == Holding \cup {"test", "get", "drain", "done"}
Sending    == {"send", "note", "add"}
WriteLabels == Sending \cup {"test", "get", "done"}

Typed ==
  /\ udp \in BOOLEAN /\ stopped \in BOOLEAN /\ lsock_closed \in BOOLEAN
  /\ written \in 0..MaxReqs
  /\ net \in Seq(Reqs) /\ failed \subseteq Reqs
  /\ sent \in [Places -> Seq(Reqs)] /\ rxq \in [Places -> Seq(Reqs)]
  /\ txq \in [Places -> Seq(Reqs)]
  /\ worker \in [Places -> WorkLabels] /\ writer \in [Places -> WriteLabels]
  /\ work_item \in [Places -> 0..MaxReqs] /\ write_item \in [Places -> 0..MaxReqs]
  /\ looking \in [Places -> {"no", "recv", "resp", "processing", "interval", "totals", "done"}]
  /\ snap \in [Places -> [recv : Nat, resp : Nat, processing : Nat, rx : Nat, tx : Nat]]
  /\ closed \in [Places -> BOOLEAN] /\ draining \in [Places -> BOOLEAN]
  /\ collected \in [rx : Nat, tx : Nat]
  /\ processing \in Nat /\ echo_rx \in Nat /\ echo_tx \in Nat /\ status_rx \in Nat
  /\ interval_rx \in Nat /\ interval_tx \in Nat /\ recv_series \in Nat /\ resp_series \in Nat

\* A thread holds a request between get() and put() or sendto(), makes a
\* snapshot while it is looking, and exists only on a link of the server.  A
\* worker that drains its queue has left its loop for good.
Labelled ==
  /\ \A l \in Places : worker[l] \in Holding => work_item[l] \in Reqs
  /\ \A l \in Places : writer[l] \in Sending => write_item[l] \in Reqs
  /\ \A l \in Places : looking[l] # "no" <=> worker[l] = "looking"
  /\ \A l \in Places : worker[l] = "add" => IsEcho(work_item[l])
  /\ \A l \in Places : writer[l] = "add" => Noticed(write_item[l])
  /\ \A l \in Places : worker[l] \in {"test", "get", "count", "uncount"} => ~draining[l]
  /\ \A l \in Places : worker[l] = "drain" => draining[l]
  /\ \A l \in Places \ links : worker[l] = "test" /\ writer[l] = "test" /\ sent[l] = <<>>
                                /\ txq[l] = <<>>

-----------------------------------------------------------------------------
(* Part 2: the order of the requests on their way through a link *)

Hand(l)     == IF writer[l] = "send" THEN {write_item[l]} ELSE {}
InWork(l)   == IF worker[l] \in Holding THEN {work_item[l]} ELSE {}
Arriving(l) == IF l = Socket THEN Elems(net) ELSE {}

\* From the response sent first to the request that arrives last.
LinkOrder(l) ==
  /\ Increasing(sent[l]) /\ Increasing(txq[l]) /\ Increasing(rxq[l])
  /\ Before(Elems(sent[l]), Hand(l) \cup Elems(txq[l]) \cup InWork(l) \cup Elems(rxq[l]) \cup Arriving(l))
  /\ Before(Hand(l), Elems(txq[l]) \cup InWork(l) \cup Elems(rxq[l]) \cup Arriving(l))
  /\ Before(Elems(txq[l]), InWork(l) \cup Elems(rxq[l]) \cup Arriving(l))
  /\ Before(InWork(l), Elems(rxq[l]) \cup Arriving(l))
  /\ Before(Elems(rxq[l]), Arriving(l))

Held(l) == Elems(sent[l]) \cup Hand(l) \cup Elems(txq[l]) \cup InWork(l) \cup Elems(rxq[l]) \cup Arriving(l)

\* Every request written has at most one place, on one link, or has failed.
Apart ==
  /\ failed \subseteq 1..written
  /\ \A l \in Places : Held(l) \subseteq (1..written) \ failed
  /\ \A l, m \in Places : l # m => Held(l) \cap Held(m) = {}

\* A response the writer has sent and not yet counted was sent.
Noting ==
  \A l \in Places : writer[l] \in {"note", "add"} => write_item[l] \in Elems(sent[l])

Pipelined == Increasing(net) /\ (\A l \in Places : LinkOrder(l)) /\ Apart /\ Noting

-----------------------------------------------------------------------------
(* Part 3: the counters count the requests that have come that far *)

\* What link l has counted as received, has added to the receive timeline,
\* has counted as answered, and has added to the response timeline.
Taken(l)  == Elems(sent[l]) \cup Hand(l) \cup Elems(txq[l]) \cup Handled(l)
Shown(l)  == Taken(l) \ (IF worker[l] = "add" THEN {work_item[l]} ELSE {})
Noted(l)  == Elems(sent[l]) \ (IF writer[l] = "note" THEN {write_item[l]} ELSE {})
Listed(l) == Elems(sent[l]) \ (IF writer[l] \in {"note", "add"} THEN {write_item[l]} ELSE {})

EchoesTaken  == {r \in Reqs : IsEcho(r) /\ (r \in failed \/ \E l \in Places : r \in Taken(l))}
EchoesShown  == {r \in Reqs : IsEcho(r) /\ (r \in failed \/ \E l \in Places : r \in Shown(l))}
EchoesNoted  == {r \in Reqs : Noticed(r) /\ \E l \in Places : r \in Noted(l)}
EchoesListed == {r \in Reqs : Noticed(r) /\ \E l \in Places : r \in Listed(l)}
StatusTaken  == {r \in Status : r \in failed \/ \E l \in Places : r \in Taken(l)}

Counted ==
  /\ echo_rx = Cardinality(EchoesTaken) /\ recv_series = Cardinality(EchoesShown)
  /\ echo_tx = Cardinality(EchoesNoted) /\ resp_series = Cardinality(EchoesListed)
  /\ status_rx = Cardinality(StatusTaken)
  /\ ProcessingExact /\ IntervalConserved

-----------------------------------------------------------------------------
(* Part 4: what a snapshot has read is no more than what there is now *)

Past(r, labels) == looking[r] \in labels

Snapped ==
  \A r \in Places :
    /\ Past(r, {"resp", "processing", "interval", "totals"}) => snap[r].recv <= recv_series
    /\ Past(r, {"processing", "interval", "totals"}) => snap[r].resp <= resp_series
    /\ Past(r, {"interval", "totals", "done"}) /\ ~draining[r] => snap[r].processing >= 1

IInv == Typed /\ Labelled /\ Pipelined /\ Counted /\ Snapped /\ SnapshotCoherent

-----------------------------------------------------------------------------
(* Types and labels *)

\* Every worker step keeps the types, and what goes with a label.
LEMMA WorkerTyped ==
  ASSUME Typed, Labelled, NEW l \in Places, Worker(l)
  PROVE  (Typed /\ Labelled)'
<1> USE DEF network, control, sendVars, queues, counts, readVars, workRest, loopRest, links,
            Noticed, Holding, Sending
<1>0. l \in links /\ UNCHANGED <<udp, closed, writer, write_item, sent>>
  BY DEF Worker, WorkTest, WorkLeave, WorkEmpty, WorkGet, WorkDrain, WorkDrained,
     WorkCount, Handle, HandleAdd, HandleLook, HandleLooked, WorkUncount, WorkPut, Work
<1>1a. CASE WorkTest(l)
  <2>1. Typed'
    BY <1>1a DEF WorkTest, Work, Typed, WorkLabels
  <2>2. Labelled'
    BY <1>1a DEF WorkTest, Work, Typed, Labelled, WorkLabels
  <2> QED BY <2>1, <2>2
<1>1c. CASE WorkLeave(l)
  <2>0. draining' \in [Places -> BOOLEAN]
    BY <1>1c DEF WorkLeave, Typed
  <2>1. Typed'
    BY <1>1c, <2>0 DEF WorkLeave, Work, Typed, WorkLabels
  <2>2. Labelled'
    <3>1. /\ worker[l] = "test" /\ worker'[l] \in {"done", "drain"}
          /\ worker'[l] = "drain" => draining'[l]
          /\ \A m \in Places \ {l} : worker'[m] = worker[m] /\ draining'[m] = draining[m]
      BY <1>1c DEF WorkLeave, Work, Typed
    <3>2. UNCHANGED <<udp, work_item, looking, writer, write_item, sent, txq>>
      BY <1>0, <1>1c DEF WorkLeave
    <3> QED BY <1>0, <3>1, <3>2 DEF Labelled
  <2> QED BY <2>1, <2>2
<1>1d. CASE WorkDrained(l)
  <2>1. Typed'
    BY <1>1d DEF WorkDrained, Work, Typed, WorkLabels
  <2>2. Labelled'
    BY <1>1d DEF WorkDrained, Work, Typed, Labelled, WorkLabels
  <2> QED BY <2>1, <2>2
<1>1b. CASE WorkEmpty(l)
  <2>1. Typed'
    BY <1>1b DEF WorkEmpty, Work, Typed, WorkLabels
  <2>2. Labelled'
    BY <1>1b DEF WorkEmpty, Work, Typed, Labelled, WorkLabels
  <2> QED BY <2>1, <2>2
<1>2a. CASE WorkGet(l) \/ WorkDrain(l)
  <2>0. Head(rxq[l]) \in Reqs /\ Tail(rxq[l]) \in Seq(Reqs) /\ Reqs \subseteq 0..MaxReqs
    <3>1. rxq[l] \in Seq(Reqs) /\ rxq[l] # <<>>
      BY <1>2a DEF WorkGet, WorkDrain, Typed
    <3>2. Reqs \subseteq 0..MaxReqs
      BY DEF Reqs
    <3> QED BY <3>1, <3>2, ElemsTail
  <2>1. Typed'
    <3>1. CASE WorkGet(l)
      BY <2>0, <3>1 DEF WorkGet, Work, Typed, WorkLabels
    <3>2. CASE WorkDrain(l)
      BY <2>0, <3>2 DEF WorkDrain, Work, Typed, WorkLabels
    <3> QED BY <1>2a, <3>1, <3>2
  <2>2. Labelled'
    <3>1. CASE WorkGet(l)
      BY <2>0, <3>1 DEF WorkGet, Work, Typed, Labelled
    <3>2. CASE WorkDrain(l)
      BY <2>0, <3>2 DEF WorkDrain, Work, Typed, Labelled
    <3> QED BY <1>2a, <3>1, <3>2
  <2> QED BY <2>1, <2>2
<1>3a. CASE WorkCount(l)
  <2>3. processing' \in Nat
    BY <1>3a DEF WorkCount, Typed
  <2>1. Typed'
    BY <1>3a, <2>3 DEF WorkCount, Work, Typed, WorkLabels
  <2>2. Labelled'
    BY <1>3a DEF WorkCount, Work, Typed, Labelled, WorkLabels
  <2> QED BY <2>1, <2>2
<1>3b. CASE WorkUncount(l)
  <2>3. processing' \in Nat
    BY <1>3b DEF WorkUncount, Typed
  <2>1. Typed'
    BY <1>3b, <2>3 DEF WorkUncount, Work, Typed, WorkLabels
  <2>2. Labelled'
    BY <1>3b DEF WorkUncount, Work, Typed, Labelled, WorkLabels
  <2> QED BY <2>1, <2>2
<1>4a. CASE Handle(l)
  <2>3. echo_rx' \in Nat /\ interval_rx' \in Nat /\ status_rx' \in Nat
    BY <1>4a DEF Handle, Typed
  <2>1. Typed'
    BY <1>4a, <2>3 DEF Handle, Return, Work, Typed, WorkLabels
  <2>2. Labelled'
    BY <1>4a DEF Handle, Return, Work, Typed, Labelled, WorkLabels
  <2> QED BY <2>1, <2>2
<1>4b. CASE HandleAdd(l)
  <2>3. recv_series' \in Nat
    BY <1>4b DEF HandleAdd, Typed
  <2>1. Typed'
    BY <1>4b, <2>3 DEF HandleAdd, Work, Typed, WorkLabels
  <2>2. Labelled'
    BY <1>4b DEF HandleAdd, Work, Typed, Labelled, WorkLabels
  <2> QED BY <2>1, <2>2
<1>5. CASE HandleLook(l)
  <2>1. Typed'
    BY <1>5 DEF HandleLook, Work, Typed, WorkLabels
  <2>2. Labelled'
    BY <1>5 DEF HandleLook, Work, Typed, Labelled
  <2> QED BY <2>1, <2>2
<1>6. CASE HandleLooked(l)
  <2>1. Typed'
    BY <1>6 DEF HandleLooked, Return, Work, Typed, WorkLabels, NoSnapshot
  <2>2. Labelled'
    BY <1>6 DEF HandleLooked, Return, Work, Typed, Labelled
  <2> QED BY <2>1, <2>2
<1>7. CASE WorkPut(l)
  <2>0. work_item[l] \in Reqs /\ Append(txq[l], work_item[l]) \in Seq(Reqs) /\ 0 \in 0..MaxReqs
    <3>1. work_item[l] \in Reqs
      BY <1>7 DEF WorkPut, Work, Labelled
    <3> QED BY <3>1, ElemsAppend, StatsAssumption DEF Typed
  <2>1. Typed'
    BY <1>7, <2>0 DEF WorkPut, Work, Typed, WorkLabels
  <2>2. Labelled'
    <3>1. /\ worker[l] = "put" /\ worker'[l] = IF draining[l] THEN "drain" ELSE "test"
          /\ \A m \in Places \ {l} : /\ worker'[m] = worker[m] /\ txq'[m] = txq[m]
                                     /\ work_item'[m] = work_item[m]
      BY <1>7 DEF WorkPut, Work, Typed
    <3>2. UNCHANGED <<udp, draining, looking, writer, write_item, sent>>
      BY <1>0, <1>7 DEF WorkPut
    <3> QED BY <1>0, <3>1, <3>2 DEF Labelled
  <2> QED BY <2>1, <2>2
<1> QED BY <1>1a, <1>1b, <1>1c, <1>1d, <1>2a, <1>3a, <1>3b, <1>4a, <1>4b, <1>5, <1>6, <1>7 DEF Worker

\* Every writer step does.
LEMMA WriterTyped ==
  ASSUME Typed, Labelled, NEW l \in Places, Writer(l)
  PROVE  (Typed /\ Labelled)'
<1> USE DEF control, workVars, readVars, writeRest, links, Noticed, Holding, Sending
<1>1a. CASE WriteTest(l)
  <2>1. Typed'
    BY <1>1a DEF WriteTest, Write, Typed, WriteLabels
  <2>2. Labelled'
    BY <1>1a DEF WriteTest, Write, Typed, Labelled, WriteLabels
  <2> QED BY <2>1, <2>2
<1>1b. CASE WriteEmpty(l)
  <2>1. Typed'
    BY <1>1b DEF WriteEmpty, Write, Typed, WriteLabels
  <2>2. Labelled'
    BY <1>1b DEF WriteEmpty, Write, Typed, Labelled, WriteLabels
  <2> QED BY <2>1, <2>2
<1>2. CASE WriteGet(l)
  <2>0. Head(txq[l]) \in Reqs /\ Tail(txq[l]) \in Seq(Reqs) /\ Reqs \subseteq 0..MaxReqs
    <3>1. txq[l] \in Seq(Reqs) /\ txq[l] # <<>>
      BY <1>2 DEF WriteGet, Typed
    <3>2. Reqs \subseteq 0..MaxReqs
      BY DEF Reqs
    <3> QED BY <3>1, <3>2, ElemsTail
  <2>1. Typed'
    BY <1>2, <2>0 DEF WriteGet, Write, Typed, WriteLabels
  <2>2. Labelled'
    BY <1>2, <2>0 DEF WriteGet, Write, Typed, Labelled
  <2> QED BY <2>1, <2>2
<1>3. CASE WriteSend(l)
  <2>0. write_item[l] \in Reqs /\ Append(sent[l], write_item[l]) \in Seq(Reqs)
    <3>1. write_item[l] \in Reqs
      BY <1>3 DEF WriteSend, Write, Labelled
    <3> QED BY <3>1, ElemsAppend DEF Typed
  <2>1. Typed'
    BY <1>3, <2>0 DEF WriteSend, Write, Typed, WriteLabels
  <2>2. Labelled'
    BY <1>3, <2>0 DEF WriteSend, Write, Typed, Labelled
  <2> QED BY <2>1, <2>2
<1>4. CASE WriteFail(l)
  <2>0. write_item[l] \in Reqs /\ 0 \in 0..MaxReqs
    BY <1>4, StatsAssumption DEF WriteFail, Write, Labelled
  <2>1. Typed'
    BY <1>4, <2>0 DEF WriteFail, Write, Typed, WriteLabels
  <2>2. Labelled'
    BY <1>4, <2>0 DEF WriteFail, Write, Typed, Labelled
  <2> QED BY <2>1, <2>2
<1>5a. CASE WriteNote(l)
  <2>0. 0 \in 0..MaxReqs
    BY StatsAssumption
  <2>3. echo_tx' \in Nat /\ interval_tx' \in Nat
    <3>1. \/ echo_tx' = echo_tx + 1 /\ interval_tx' = interval_tx + 1
          \/ echo_tx' = echo_tx /\ interval_tx' = interval_tx
      BY <1>5a DEF WriteNote
    <3>2. echo_tx \in Nat /\ interval_tx \in Nat
      BY DEF Typed
    <3> QED BY <3>1, <3>2
  <2>1. Typed'
    BY ZenonT(60), <1>5a, <2>0, <2>3 DEF WriteNote, Write, Typed, WriteLabels
  <2>2. Labelled'
    <3>1. /\ l \in links /\ writer[l] = "note" /\ writer'[l] \in {"add", "test"}
          /\ writer'[l] = "add" => Noticed(write_item[l]) /\ write_item'[l] = write_item[l]
          /\ \A m \in Places \ {l} : writer'[m] = writer[m] /\ write_item'[m] = write_item[m]
      BY <1>5a DEF WriteNote, Write, Typed
    <3>2. UNCHANGED <<udp, worker, draining, work_item, looking, sent, txq>>
      BY <1>5a DEF WriteNote
    <3> QED BY <3>1, <3>2 DEF Labelled
  <2> QED BY <2>1, <2>2
<1>5b. CASE WriteAdd(l)
  <2>0. 0 \in 0..MaxReqs
    BY StatsAssumption
  <2>3. resp_series' \in Nat
    BY <1>5b DEF WriteAdd, Typed
  <2>1. Typed'
    BY <1>5b, <2>0, <2>3 DEF WriteAdd, Write, Typed, WriteLabels
  <2>2. Labelled'
    BY <1>5b, <2>0 DEF WriteAdd, Write, Typed, Labelled, WriteLabels
  <2> QED BY <2>1, <2>2
<1> QED BY <1>1a, <1>1b, <1>2, <1>3, <1>4, <1>5a, <1>5b DEF Writer

\* Every other step does.
LEMMA OthersTyped ==
  ASSUME Typed, Labelled,
         Request \/ UdpRead \/ StopCall \/ Stop \/ UNCHANGED vars
           \/ (\E r \in Places : Snapshot(r)) \/ \E l \in links : Close(l)
  PROVE  (Typed /\ Labelled)'
<1> USE DEF network, queues, control, workVars, sendVars, counts, interval, series, readVars,
            threads, lookRest, links, Noticed
<1>1. CASE Request
  <2>0. written' \in 0..MaxReqs /\ written' \in Reqs
    BY <1>1, StatsAssumption DEF Request, Typed, Reqs
  <2>1. Typed'
    <3>1. CASE udp
      <4>1. Append(net, written') \in Seq(Reqs)
        BY <2>0, ElemsAppend DEF Typed
      <4> QED BY <1>1, <2>0, <3>1, <4>1 DEF Request, Typed
    <3>2. CASE ~udp
      <4>1. PICK l \in Links : rxq' = [rxq EXCEPT ![l] = Append(@, written')]
        BY <1>1, <3>2 DEF Request
      <4>2. Append(rxq[l], written') \in Seq(Reqs)
        BY <2>0, ElemsAppend DEF Typed, Places
      <4> QED BY <1>1, <2>0, <3>2, <4>1, <4>2 DEF Request, Typed
    <3> QED BY <3>1, <3>2
  <2>2. Labelled'
    BY <1>1 DEF Request, Labelled
  <2> QED BY <2>1, <2>2
<1>2. CASE UdpRead
  <2>1. Typed'
    <3>1. CASE UdpReadRecv
      <4>1. Head(net) \in Reqs /\ Tail(net) \in Seq(Reqs)
        BY <3>1, ElemsTail DEF UdpReadRecv, Typed
      <4>2. Append(rxq[Socket], Head(net)) \in Seq(Reqs)
        BY <4>1, ElemsAppend DEF Typed, Places
      <4> QED BY <3>1, <4>1, <4>2 DEF UdpReadRecv, Typed
    <3>2. CASE UdpReadTest \/ UdpReadNothing
      BY <3>2 DEF UdpReadTest, UdpReadNothing, Typed
    <3> QED BY <1>2, <3>1, <3>2 DEF UdpRead
  <2>2. Labelled'
    BY <1>2 DEF UdpRead, UdpReadTest, UdpReadRecv, UdpReadNothing, Labelled
  <2> QED BY <2>1, <2>2
<1>5. CASE StopCall
  BY <1>5 DEF StopCall, Typed, Labelled
<1>6. CASE Stop
  <2>1. CASE StopClose
    BY <2>1 DEF StopClose, Typed, Labelled
  <2>2. CASE StopJoin
    BY <2>2 DEF StopJoin, Typed, Labelled
  <2> QED BY <1>6, <2>1, <2>2 DEF Stop
<1>7. CASE UNCHANGED vars
  BY <1>7 DEF vars, Typed, Labelled
<1>8. ASSUME NEW l \in links, Close(l) PROVE (Typed /\ Labelled)'
  BY <1>8 DEF Close, Typed, Labelled
<1>4. ASSUME NEW r \in Places, Snapshot(r) PROVE (Typed /\ Labelled)'
  <2>1. CASE LookRecv(r)
    <3>1. Typed'
      BY <2>1 DEF LookRecv, Look, Typed, NoSnapshot
    <3>2. Labelled'
      BY <2>1 DEF LookRecv, Look, Typed, Labelled
    <3> QED BY <3>1, <3>2
  <2>2. CASE LookResp(r)
    <3>1. Typed'
      BY <2>2 DEF LookResp, Look, Typed
    <3>2. Labelled'
      BY <2>2 DEF LookResp, Look, Typed, Labelled
    <3> QED BY <3>1, <3>2
  <2>3. CASE LookProcessing(r)
    <3>1. Typed'
      BY <2>3 DEF LookProcessing, Look, Typed
    <3>2. Labelled'
      BY <2>3 DEF LookProcessing, Look, Typed, Labelled
    <3> QED BY <3>1, <3>2
  <2>4. CASE LookInterval(r)
    <3>1. /\ interval_rx' \in Nat /\ interval_tx' \in Nat
          /\ collected' \in [rx : Nat, tx : Nat]
      <4>1. CASE /\ interval_rx' = 0 /\ interval_tx' = 0
                 /\ collected' = [rx |-> collected.rx + interval_rx, tx |-> collected.tx + interval_tx]
        <5>2. collected.rx + interval_rx \in Nat /\ collected.tx + interval_tx \in Nat
          <6>1. /\ collected.rx \in Nat /\ collected.tx \in Nat
                /\ interval_rx \in Nat /\ interval_tx \in Nat
            BY DEF Typed
          <6> QED BY <6>1
        <5> QED BY <4>1, <5>2
      <4>2. CASE UNCHANGED interval
        BY <4>2 DEF interval, Typed
      <4> QED BY <2>4, <4>1, <4>2 DEF LookInterval, ResetInterval
    <3>2. Typed'
      BY <2>4, <3>1 DEF LookInterval, Look, Typed
    <3>3. Labelled'
      BY <2>4 DEF LookInterval, Look, Typed, Labelled
    <3> QED BY <3>2, <3>3
  <2>5. CASE LookTotals(r)
    <3>1. Typed'
      BY <2>5 DEF LookTotals, Look, Typed
    <3>2. Labelled'
      BY <2>5 DEF LookTotals, Look, Typed, Labelled
    <3> QED BY <3>1, <3>2
  <2> QED BY <1>4, <2>1, <2>2, <2>3, <2>4, <2>5 DEF Snapshot
<1> QED BY <1>1, <1>2, <1>4, <1>5, <1>6, <1>7, <1>8

-----------------------------------------------------------------------------
(* Order *)

\* The steps that move no request from one place to the next.
LEMMA PipeFrame ==
  ASSUME Pipelined, Noting',
         UNCHANGED <<written, net, failed, sent, txq, rxq>>,
         \A l \in Places : Hand(l)' = Hand(l) /\ InWork(l)' = InWork(l)
  PROVE  Pipelined'
<1>1. \A l \in Places : Arriving(l)' = Arriving(l)
  BY DEF Arriving
<1>2. \A l \in Places : LinkOrder(l)'
  BY <1>1 DEF Pipelined, LinkOrder
<1>3. \A l \in Places : Held(l)' = Held(l)
  BY <1>1 DEF Held
<1>4. Apart'
  BY <1>3 DEF Pipelined, Apart
<1> QED BY <1>2, <1>4 DEF Pipelined

\* The steps that move one, on link l: what the link holds only shrinks, and
\* what fails is no longer on it.
LEMMA PipeMove ==
  ASSUME Pipelined, Noting', Increasing(net'), NEW l \in Places, LinkOrder(l)',
         written' = written,
         \A m \in Places \ {l} :
           /\ sent'[m] = sent[m] /\ txq'[m] = txq[m] /\ rxq'[m] = rxq[m]
           /\ Hand(m)' = Hand(m) /\ InWork(m)' = InWork(m) /\ Arriving(m)' = Arriving(m),
         Held(l)' \subseteq Held(l) \ failed', failed' \subseteq failed \cup Held(l)
  PROVE  Pipelined'
<1>1. \A m \in Places \ {l} : LinkOrder(m)' /\ Held(m)' = Held(m)
  BY DEF Pipelined, LinkOrder, Held
<1>2. failed' \subseteq 1..written /\ \A m \in Places : Held(m)' \subseteq (1..written) \ failed'
  BY <1>1 DEF Pipelined, Apart
<1>3. \A m, k \in Places : m # k => Held(m)' \cap Held(k)' = {}
  BY <1>1 DEF Pipelined, Apart
<1>4. Apart'
  BY <1>2, <1>3 DEF Apart
<1> QED BY <1>1, <1>4 DEF Pipelined

LEMMA ReqsAreInts ==
  ASSUME NEW q \in Seq(Reqs)
  PROVE  q \in Seq(Int) /\ Elems(q) \subseteq Reqs
<1>1. Reqs \subseteq Int
  BY DEF Reqs
<1> QED BY <1>1, SeqMonotonic, ElemsType

\* A worker takes the oldest request of its queue, and passes it on to the
\* queue of its writer unless it is junk; its other steps move none.
LEMMA WorkerPipe ==
  ASSUME Typed, Labelled, Pipelined, NEW l \in Places, Worker(l)
  PROVE  Pipelined'
<1> USE DEF network, control, sendVars, queues, workRest, loopRest
<1>0. /\ UNCHANGED <<written, net, failed, sent, writer, write_item>>
      /\ Noting' /\ \A m \in Places : Hand(m)' = Hand(m) /\ Arriving(m)' = Arriving(m)
  <2>1. UNCHANGED <<written, net, failed, sent, writer, write_item>>
    BY DEF Worker, WorkTest, WorkLeave, WorkEmpty, WorkGet, WorkDrain, WorkDrained,
     WorkCount, Handle, HandleAdd, HandleLook, HandleLooked, WorkUncount, WorkPut
  <2> QED BY <2>1 DEF Pipelined, Noting, Hand, Arriving
<1>1. CASE WorkGet(l) \/ WorkDrain(l)
  <2> DEFINE h == Head(rxq[l])
  <2>1. rxq[l] \in Seq(Reqs) /\ rxq[l] \in Seq(Int) /\ rxq[l] # <<>> /\ Increasing(rxq[l])
    BY <1>1, ReqsAreInts DEF WorkGet, WorkDrain, Typed, Pipelined, LinkOrder
  <2>2. /\ rxq' = [rxq EXCEPT ![l] = Tail(@)] /\ work_item' = [work_item EXCEPT ![l] = h]
        /\ worker[l] \in {"get", "drain"} /\ txq' = txq
        /\ \/ worker' = [worker EXCEPT ![l] = "count"]
           \/ worker' = [worker EXCEPT ![l] = "handle"]
    BY <1>1 DEF WorkGet, WorkDrain, Work
  <2>3. /\ rxq'[l] = Tail(rxq[l]) /\ Increasing(rxq'[l]) /\ Before({h}, Elems(rxq'[l]))
        /\ Elems(rxq[l]) = {h} \cup Elems(rxq'[l])
    BY <2>1, <2>2, ElemsTail, IncreasingTail DEF Typed
  <2>4. InWork(l) = {} /\ InWork(l)' = {h}
    BY <2>2 DEF InWork, Typed, Holding
  <2>5. \A m \in Places \ {l} : InWork(m)' = InWork(m) /\ rxq'[m] = rxq[m]
    BY <2>2 DEF InWork, Typed
  <2> HIDE DEF h
  <2>6. LinkOrder(l)'
    BY <1>0, <2>2, <2>3, <2>4 DEF Pipelined, LinkOrder, Before
  <2>7. Held(l)' = Held(l)
    BY <1>0, <2>2, <2>3, <2>4 DEF Held
  <2>8. Held(l)' \subseteq Held(l) \ failed'
    BY <1>0, <2>7 DEF Pipelined, Apart
  <2> QED BY <1>0, <2>2, <2>5, <2>6, <2>8, PipeMove DEF Pipelined
<1>2. CASE WorkPut(l)
  <2> DEFINE x == work_item[l]
  <2>1. /\ worker[l] = "put" /\ rxq' = rxq
        /\ worker' = [worker EXCEPT ![l] = IF draining[l] THEN "drain" ELSE "test"]
        /\ txq' = IF x \in Junk THEN txq ELSE [txq EXCEPT ![l] = Append(@, x)]
        /\ work_item' = [work_item EXCEPT ![l] = 0]
    BY <1>2 DEF WorkPut, Work
  <2>2. InWork(l) = {x} /\ InWork(l)' = {}
    BY <2>1 DEF InWork, Typed, Holding
  <2>3. \A m \in Places \ {l} : InWork(m)' = InWork(m) /\ txq'[m] = txq[m]
    BY <2>1 DEF InWork, Typed
  <2>4. x \in Reqs /\ x \in Int /\ txq[l] \in Seq(Reqs) /\ txq[l] \in Seq(Int)
    <3>1. x \in Reqs /\ txq[l] \in Seq(Reqs)
      BY <2>1 DEF Labelled, Holding, Typed
    <3>2. x \in Int
      BY <3>1 DEF Reqs
    <3> QED BY <3>1, <3>2, ReqsAreInts
  <2>5. Before(Elems(txq[l]), {x}) /\ Increasing(txq[l])
    BY <2>2 DEF Pipelined, LinkOrder, Before
  <2>6. \/ txq'[l] = txq[l]
        \/ Elems(txq'[l]) = Elems(txq[l]) \cup {x} /\ Increasing(txq'[l])
    <3>1. CASE x \in Junk
      BY <2>1, <3>1
    <3>2. CASE x \notin Junk
      <4>1. txq'[l] = Append(txq[l], x)
        BY <2>1, <3>2 DEF Typed
      <4>2. Elems(txq'[l]) = Elems(txq[l]) \cup {x}
        BY <2>4, <4>1, ElemsAppend
      <4>3. Increasing(txq'[l])
        BY <2>4, <2>5, <4>1, IncreasingAppend
      <4> QED BY <4>2, <4>3
    <3> QED BY <3>1, <3>2
  <2> HIDE DEF x
  <2>7. LinkOrder(l)'
    <3>1. rxq'[l] = rxq[l] /\ sent'[l] = sent[l] /\ Hand(l)' = Hand(l) /\ Arriving(l)' = Arriving(l)
      BY <1>0, <2>1
    <3> QED BY <2>2, <2>6, <3>1 DEF Pipelined, LinkOrder, Before
  <2>8. Held(l)' \subseteq Held(l)
    BY <1>0, <2>1, <2>2, <2>6 DEF Held
  <2>9. Held(l)' \subseteq Held(l) \ failed'
    BY <1>0, <2>8 DEF Pipelined, Apart
  <2> QED BY <1>0, <2>1, <2>3, <2>7, <2>9, PipeMove DEF Pipelined
<1>3. ASSUME UNCHANGED <<rxq, txq, work_item>>,
             NEW label, worker' = [worker EXCEPT ![l] = label],
             worker[l] \in Holding <=> label \in Holding
      PROVE  Pipelined'
  <2>1. \A m \in Places : InWork(m)' = InWork(m)
    BY <1>3 DEF InWork, Typed
  <2> QED BY <1>0, <1>3, <2>1, PipeFrame
<1>4. CASE WorkTest(l) \/ WorkLeave(l) \/ WorkDrained(l)
  BY <1>3, <1>4 DEF WorkTest, WorkLeave, WorkDrained, Work, Holding
<1>5. CASE WorkEmpty(l) \/ WorkCount(l) \/ HandleAdd(l) \/ HandleLook(l) \/ HandleLooked(l)
             \/ WorkUncount(l)
  BY <1>3, <1>5 DEF WorkEmpty, WorkCount, HandleAdd, HandleLook, HandleLooked, WorkUncount, Return,
                    Work, Holding
<1>6. CASE Handle(l)
  BY <1>3, <1>6 DEF Handle, Return, Work, Holding
<1> QED BY <1>1, <1>2, <1>4, <1>5, <1>6 DEF Worker

\* A writer takes the oldest response of its queue, and sends it after all
\* that it sent before, or it fails; its other steps move none.
LEMMA WriterPipe ==
  ASSUME Typed, Labelled, Pipelined, NEW l \in Places, Writer(l)
  PROVE  Pipelined'
<1> USE DEF control, workVars, readVars, writeRest
<1>0. /\ UNCHANGED <<written, net, rxq, worker, work_item>>
      /\ \A m \in Places : InWork(m)' = InWork(m) /\ Arriving(m)' = Arriving(m)
  <2>1. UNCHANGED <<written, net, rxq, worker, work_item>>
    BY DEF Writer, WriteTest, WriteEmpty, WriteGet, WriteSend, WriteFail, WriteNote, WriteAdd
  <2> QED BY <2>1 DEF InWork, Arriving
<1>1. CASE WriteGet(l)
  <2> DEFINE h == Head(txq[l])
  <2>1. txq[l] \in Seq(Reqs) /\ txq[l] \in Seq(Int) /\ txq[l] # <<>> /\ Increasing(txq[l])
    BY <1>1, ReqsAreInts DEF WriteGet, Typed, Pipelined, LinkOrder
  <2>2. /\ txq' = [txq EXCEPT ![l] = Tail(@)] /\ write_item' = [write_item EXCEPT ![l] = h]
        /\ writer[l] = "get" /\ writer' = [writer EXCEPT ![l] = "send"]
        /\ UNCHANGED <<sent, failed>>
    BY <1>1 DEF WriteGet, Write
  <2>3. /\ txq'[l] = Tail(txq[l]) /\ Increasing(txq'[l]) /\ Before({h}, Elems(txq'[l]))
        /\ Elems(txq[l]) = {h} \cup Elems(txq'[l])
    BY <2>1, <2>2, ElemsTail, IncreasingTail DEF Typed
  <2>4. Hand(l) = {} /\ Hand(l)' = {h}
    BY <2>2 DEF Hand, Typed
  <2>5. \A m \in Places \ {l} : Hand(m)' = Hand(m) /\ txq'[m] = txq[m]
    BY <2>2 DEF Hand, Typed
  <2>6. Noting'
    BY <2>2 DEF Pipelined, Noting, Typed
  <2> HIDE DEF h
  <2>7. LinkOrder(l)'
    BY <1>0, <2>2, <2>3, <2>4 DEF Pipelined, LinkOrder, Before
  <2>8. Held(l)' = Held(l)
    BY <1>0, <2>2, <2>3, <2>4 DEF Held
  <2>9. Held(l)' \subseteq Held(l) \ failed'
    BY <2>2, <2>8 DEF Pipelined, Apart
  <2> QED BY <1>0, <2>2, <2>5, <2>6, <2>7, <2>9, PipeMove DEF Pipelined
<1>2. CASE WriteSend(l)
  <2> DEFINE x == write_item[l]
  <2>1. /\ writer[l] = "send" /\ writer' = [writer EXCEPT ![l] = "note"]
        /\ sent' = [sent EXCEPT ![l] = Append(@, x)] /\ UNCHANGED <<failed, txq, write_item>>
    BY <1>2 DEF WriteSend, Write
  <2>2. Hand(l) = {x} /\ Hand(l)' = {}
    BY <2>1 DEF Hand, Typed
  <2>3. \A m \in Places \ {l} : Hand(m)' = Hand(m) /\ sent'[m] = sent[m]
    BY <2>1 DEF Hand, Typed
  <2>4. x \in Reqs /\ x \in Int /\ sent[l] \in Seq(Reqs) /\ sent[l] \in Seq(Int)
    <3>1. x \in Reqs /\ sent[l] \in Seq(Reqs)
      BY <2>1 DEF Labelled, Sending, Typed
    <3>2. x \in Int
      BY <3>1 DEF Reqs
    <3> QED BY <3>1, <3>2, ReqsAreInts
  <2>5. Before(Elems(sent[l]), {x}) /\ Increasing(sent[l])
    BY <2>2 DEF Pipelined, LinkOrder, Before
  <2>6. Elems(sent'[l]) = Elems(sent[l]) \cup {x} /\ Increasing(sent'[l])
    <3>1. sent'[l] = Append(sent[l], x)
      BY <2>1 DEF Typed
    <3>2. Elems(sent'[l]) = Elems(sent[l]) \cup {x}
      BY <2>4, <3>1, ElemsAppend
    <3>3. Increasing(sent'[l])
      BY <2>4, <2>5, <3>1, IncreasingAppend
    <3> QED BY <3>2, <3>3
  <2>7. Noting'
    BY <2>1, <2>3, <2>6 DEF Pipelined, Noting, Typed
  <2> HIDE DEF x
  <2>8. LinkOrder(l)'
    BY <1>0, <2>1, <2>2, <2>6 DEF Pipelined, LinkOrder, Before
  <2>9. Held(l)' = Held(l)
    BY <1>0, <2>1, <2>2, <2>6 DEF Held
  <2>10. Held(l)' \subseteq Held(l) \ failed'
    BY <2>1, <2>9 DEF Pipelined, Apart
  <2> QED BY <1>0, <2>1, <2>3, <2>7, <2>8, <2>10, PipeMove DEF Pipelined
<1>3. CASE WriteFail(l)
  <2> DEFINE x == write_item[l]
  <2>1. /\ writer[l] = "send" /\ writer' = [writer EXCEPT ![l] = IF stopped \/ ~udp THEN "done" ELSE "test"]
        /\ failed' = failed \cup {x} /\ UNCHANGED <<sent, txq>>
        /\ write_item' = [write_item EXCEPT ![l] = 0]
    BY <1>3 DEF WriteFail, Write
  <2>2. Hand(l) = {x} /\ Hand(l)' = {}
    BY <2>1 DEF Hand, Typed
  <2>3. \A m \in Places \ {l} : Hand(m)' = Hand(m)
    BY <2>1 DEF Hand, Typed
  <2>4. Noting'
    BY <2>1 DEF Pipelined, Noting, Typed
  <2>5. x \notin Held(l)'
    <3>1. x \in Int
      BY <2>1 DEF Labelled, Sending, Reqs
    <3> QED BY <1>0, <2>1, <2>2, <3>1 DEF Held, Pipelined, LinkOrder, Before
  <2> HIDE DEF x
  <2>6. LinkOrder(l)'
    BY <1>0, <2>1, <2>2 DEF Pipelined, LinkOrder, Before
  <2>7. Held(l)' \subseteq Held(l) /\ x \in Held(l)
    BY <1>0, <2>1, <2>2 DEF Held
  <2>8. Held(l)' \subseteq Held(l) \ failed'
    BY <2>1, <2>5, <2>7 DEF Pipelined, Apart
  <2> QED BY <1>0, <2>1, <2>3, <2>4, <2>6, <2>7, <2>8, PipeMove DEF Pipelined
<1>4. ASSUME UNCHANGED <<sent, failed, txq>>, NEW label,
             writer' = [writer EXCEPT ![l] = label], writer[l] # "send", label # "send",
             UNCHANGED write_item \/ write_item' = [write_item EXCEPT ![l] = 0],
             label \in {"note", "add"} => writer[l] \in {"note", "add"} /\ UNCHANGED write_item
      PROVE  Pipelined'
  <2>1. \A m \in Places : Hand(m)' = Hand(m)
    BY <1>4 DEF Hand, Typed
  <2>2. Noting'
    BY <1>4 DEF Pipelined, Noting, Typed
  <2> QED BY <1>0, <1>4, <2>1, <2>2, PipeFrame
<1>5. CASE WriteTest(l) \/ WriteEmpty(l)
  BY <1>4, <1>5 DEF WriteTest, WriteEmpty, Write
<1>6. CASE WriteNote(l)
  BY <1>4, <1>6 DEF WriteNote, Write
<1>7. CASE WriteAdd(l)
  BY <1>4, <1>7 DEF WriteAdd, Write
<1> QED BY <1>1, <1>2, <1>3, <1>5, <1>6, <1>7 DEF Writer

\* A request that is written comes after all that were, on whatever link.
LEMMA RequestPipe ==
  ASSUME Typed, Labelled, Pipelined, Request
  PROVE  Pipelined'
<1> USE DEF control, workVars, sendVars, threads
<1>1. /\ written' = written + 1 /\ written \in Nat /\ written' \in Reqs /\ written' \in Int
      /\ \A x \in 1..written : x < written'
  BY StatsAssumption DEF Request, Typed, Reqs
<1>2. /\ UNCHANGED <<sent, failed, txq, worker, work_item, writer, write_item>>
      /\ \A m \in Places : Hand(m)' = Hand(m) /\ InWork(m)' = InWork(m)
  BY DEF Request, Hand, InWork
<1>3. Noting'
  BY <1>2 DEF Pipelined, Noting
<1>4. \A m \in Places : Before(Held(m), {written'})
  BY <1>1 DEF Pipelined, Apart, Before
<1>5. ASSUME NEW l \in Places, LinkOrder(l)', Increasing(net'),
             Held(l)' = Held(l) \cup {written'},
             \A m \in Places \ {l} : rxq'[m] = rxq[m] /\ Arriving(m)' = Arriving(m)
      PROVE  Pipelined'
  <2>1. \A m \in Places \ {l} : LinkOrder(m)' /\ Held(m)' = Held(m)
    BY <1>2, <1>5 DEF Pipelined, LinkOrder, Held
  <2>2. 1..written \subseteq 1..written' /\ written' \in 1..written' /\ written' \notin 1..written
    BY <1>1
  <2>3. Apart'
    <3> HIDE DEF Held
    <3>1. failed' \subseteq 1..written' /\ written' \notin failed'
      BY <1>2, <2>2 DEF Pipelined, Apart
    <3>2. \A m \in Places : Held(m)' \subseteq (1..written') \ failed'
      BY <1>2, <1>5, <2>1, <2>2, <3>1 DEF Pipelined, Apart
    <3>3. \A m, k \in Places : m # k => Held(m)' \cap Held(k)' = {}
      BY <1>5, <2>1, <2>2 DEF Pipelined, Apart
    <3> QED BY <3>1, <3>2, <3>3 DEF Apart
  <2> QED BY <1>3, <1>5, <2>1, <2>3 DEF Pipelined
<1>6. CASE udp
  <2>1. net' = Append(net, written') /\ rxq' = rxq
    BY <1>6 DEF Request
  <2>2. net \in Seq(Reqs) /\ net \in Seq(Int) /\ Increasing(net) /\ Socket \in Places
    BY ReqsAreInts DEF Typed, Pipelined, Places
  <2>3. Before(Elems(net), {written'})
    BY <1>4, <2>2 DEF Held, Arriving, Before
  <2>4. Increasing(net') /\ Elems(net') = Elems(net) \cup {written'}
    <3>1. Increasing(net')
      BY <1>1, <2>1, <2>2, <2>3, IncreasingAppend
    <3>2. Elems(net') = Elems(net) \cup {written'}
      BY <1>1, <2>1, <2>2, ElemsAppend
    <3> QED BY <3>1, <3>2
  <2>5. /\ Arriving(Socket)' = Arriving(Socket) \cup {written'}
        /\ \A m \in Places \ {Socket} : Arriving(m)' = Arriving(m)
    BY <2>4 DEF Arriving
  <2>6. Held(Socket)' = Held(Socket) \cup {written'}
    <3>1. /\ sent'[Socket] = sent[Socket] /\ txq'[Socket] = txq[Socket]
          /\ rxq'[Socket] = rxq[Socket]
          /\ Hand(Socket)' = Hand(Socket) /\ InWork(Socket)' = InWork(Socket)
      BY <1>2, <2>1, <2>2
    <3> QED BY <2>5, <3>1 DEF Held
  <2>7. LinkOrder(Socket)'
    BY <1>2, <1>4, <2>1, <2>2, <2>5 DEF Pipelined, LinkOrder, Held, Before
  <2> QED BY <1>5, <2>1, <2>2, <2>4, <2>5, <2>6, <2>7
<1>7. CASE ~udp
  <2>1. PICK l \in Links : rxq' = [rxq EXCEPT ![l] = Append(@, written')] /\ net' = net
    BY <1>7 DEF Request
  <2>2. /\ l \in Places /\ rxq[l] \in Seq(Reqs) /\ rxq[l] \in Seq(Int) /\ Increasing(rxq[l])
        /\ l # Socket /\ Increasing(net')
    BY <2>1, ReqsAreInts, StatsAssumption DEF Typed, Pipelined, LinkOrder, Places
  <2>3. Before(Elems(rxq[l]), {written'})
    BY <1>4, <2>2 DEF Held, Before
  <2>4. rxq'[l] = Append(rxq[l], written') /\ \A m \in Places \ {l} : rxq'[m] = rxq[m]
    BY <2>1, <2>2 DEF Typed
  <2>5. Increasing(rxq'[l]) /\ Elems(rxq'[l]) = Elems(rxq[l]) \cup {written'}
    <3>1. Increasing(rxq'[l])
      BY <1>1, <2>2, <2>3, <2>4, IncreasingAppend
    <3>2. Elems(rxq'[l]) = Elems(rxq[l]) \cup {written'}
      BY <1>1, <2>2, <2>4, ElemsAppend
    <3> QED BY <3>1, <3>2
  <2>6. Arriving(l)' = {} /\ Arriving(l) = {} /\ \A m \in Places : Arriving(m)' = Arriving(m)
    BY <2>1, <2>2 DEF Arriving
  <2>7. Held(l)' = Held(l) \cup {written'}
    <3>1. /\ sent'[l] = sent[l] /\ txq'[l] = txq[l] /\ Arriving(l)' = Arriving(l)
          /\ Hand(l)' = Hand(l) /\ InWork(l)' = InWork(l)
      BY <1>2, <2>2, <2>6
    <3> QED BY <2>5, <3>1 DEF Held
  <2>8. LinkOrder(l)'
    BY <1>2, <1>4, <2>2, <2>5, <2>6 DEF Pipelined, LinkOrder, Held, Before
  <2> QED BY <1>5, <2>2, <2>4, <2>6, <2>7, <2>8
<1> QED BY <1>6, <1>7

\* The UDP reader takes the datagram that was written first.
LEMMA UdpReadPipe ==
  ASSUME Typed, Labelled, Pipelined, UdpReadRecv
  PROVE  Pipelined'
<1> USE DEF control, workVars, sendVars, threads
<1> DEFINE h == Head(net)
<1>1. /\ UNCHANGED <<written, sent, failed, txq, worker, work_item, writer, write_item>>
      /\ \A m \in Places : Hand(m)' = Hand(m) /\ InWork(m)' = InWork(m)
  BY DEF UdpReadRecv, Hand, InWork
<1>2. /\ net # <<>> /\ net' = Tail(net)
      /\ rxq' = IF h \in Unsealed THEN rxq ELSE [rxq EXCEPT ![Socket] = Append(@, h)]
  BY DEF UdpReadRecv
<1>3. /\ net \in Seq(Reqs) /\ net \in Seq(Int) /\ Increasing(net) /\ Socket \in Places
      /\ rxq[Socket] \in Seq(Reqs) /\ rxq[Socket] \in Seq(Int) /\ Increasing(rxq[Socket])
  BY ReqsAreInts DEF Typed, Pipelined, LinkOrder, Places
<1>4. /\ h \in Reqs /\ h \in Int /\ Increasing(net') /\ Before({h}, Elems(net'))
      /\ Elems(net) = {h} \cup Elems(net')
  BY <1>2, <1>3, ElemsTail, IncreasingTail
<1>5. /\ Arriving(Socket) = Elems(net) /\ Arriving(Socket)' = Elems(net')
      /\ \A m \in Places \ {Socket} : Arriving(m)' = Arriving(m)
  BY DEF Arriving
<1>6. Before(Elems(rxq[Socket]), {h})
  BY <1>3, <1>4, <1>5 DEF Pipelined, LinkOrder, Before
<1>7. /\ \A m \in Places \ {Socket} : rxq'[m] = rxq[m]
      /\ \/ rxq'[Socket] = rxq[Socket]
         \/ Elems(rxq'[Socket]) = Elems(rxq[Socket]) \cup {h} /\ Increasing(rxq'[Socket])
  <2>1. CASE h \in Unsealed
    BY <1>2, <2>1
  <2>2. CASE h \notin Unsealed
    <3>1. rxq'[Socket] = Append(rxq[Socket], h) /\ \A m \in Places \ {Socket} : rxq'[m] = rxq[m]
      BY <1>2, <1>3, <2>2 DEF Typed
    <3>2. Elems(rxq'[Socket]) = Elems(rxq[Socket]) \cup {h}
      BY <1>3, <1>4, <3>1, ElemsAppend
    <3>3. Increasing(rxq'[Socket])
      BY <1>3, <1>4, <1>6, <3>1, IncreasingAppend
    <3> QED BY <3>1, <3>2, <3>3
  <2> QED BY <2>1, <2>2
<1>8. Noting'
  BY <1>1 DEF Pipelined, Noting
<1> HIDE DEF h
<1>9. LinkOrder(Socket)'
  BY <1>1, <1>3, <1>4, <1>5, <1>7 DEF Pipelined, LinkOrder, Before
<1>10. Held(Socket)' \subseteq Held(Socket)
  <2>1. /\ sent'[Socket] = sent[Socket] /\ txq'[Socket] = txq[Socket]
        /\ Hand(Socket)' = Hand(Socket) /\ InWork(Socket)' = InWork(Socket)
    BY <1>1, <1>3
  <2>2. Elems(rxq'[Socket]) \subseteq Elems(rxq[Socket]) \cup {h}
    BY <1>7
  <2>3. Arriving(Socket) = {h} \cup Arriving(Socket)'
    BY <1>4, <1>5
  <2> QED BY <2>1, <2>2, <2>3 DEF Held
<1>11. Held(Socket)' \subseteq Held(Socket) \ failed'
  BY <1>1, <1>3, <1>10 DEF Pipelined, Apart
<1> QED BY <1>1, <1>3, <1>4, <1>5, <1>7, <1>8, <1>9, <1>11, PipeMove DEF Pipelined

\* Whatever the threads do, requests keep their order on every link.
LEMMA NextPipe ==
  ASSUME Typed, Labelled, Pipelined, [Next]_vars
  PROVE  Pipelined'
<1>1. CASE StopCall \/ Stop \/ UNCHANGED vars \/ (\E r \in Places : Snapshot(r))
           \/ UdpReadTest \/ UdpReadNothing \/ (\E l \in links : Close(l))
  <2>1. UNCHANGED <<written, net, failed, sent, txq, rxq, writer, write_item, worker, work_item>>
    <3> USE DEF network, queues, sendVars, workVars, lookRest
    <3>1. CASE StopCall \/ Stop
      BY <3>1 DEF threads, StopCall, Stop, StopClose, StopJoin
    <3>2. CASE UNCHANGED vars
      BY <3>2 DEF vars
    <3>3. CASE UdpReadTest \/ UdpReadNothing
      BY <3>3 DEF threads, UdpReadTest, UdpReadNothing
    <3>4. ASSUME NEW r \in Places, Snapshot(r)
          PROVE  UNCHANGED <<network, queues, sendVars, workVars>>
      BY <3>4 DEF Snapshot, LookRecv, LookResp, LookProcessing, LookInterval, LookTotals
    <3>5. ASSUME NEW l \in links, Close(l)
          PROVE  UNCHANGED <<network, queues, sendVars, workVars>>
      BY <3>5 DEF threads, Close
    <3> QED BY <1>1, <3>1, <3>2, <3>3, <3>4, <3>5
  <2>2. Noting'
    BY <2>1 DEF Pipelined, Noting
  <2> QED BY <2>1, <2>2, PipeFrame DEF Hand, InWork
<1>2. ASSUME NEW l \in links, Worker(l) \/ Writer(l) PROVE Pipelined'
  BY <1>2, WorkerPipe, WriterPipe DEF links, Places
<1> QED BY <1>1, <1>2, RequestPipe, UdpReadPipe DEF Next, UdpRead, Finished

\* Every step of the server keeps the types.
LEMMA NextTyped ==
  ASSUME Typed, Labelled, [Next]_vars
  PROVE  (Typed /\ Labelled)'
<1>1. ASSUME NEW l \in links, Worker(l) \/ Writer(l) PROVE (Typed /\ Labelled)'
  BY <1>1, WorkerTyped, WriterTyped DEF links, Places
<1> QED BY <1>1, OthersTyped DEF Next, Finished

\* Initially nothing has been written.
LEMMA InitPipe == Init => Typed /\ Labelled /\ Pipelined
<1> SUFFICES ASSUME Init PROVE Typed /\ Labelled /\ Pipelined
  OBVIOUS
<1>0. 0 \in 0..MaxReqs /\ <<>> \in Seq(Reqs)
  BY StatsAssumption
<1>1. Typed
  BY <1>0, StatsAssumption DEF Init, Typed, WorkLabels, WriteLabels, NoSnapshot
<1>2. Labelled
  BY <1>0 DEF Init, Labelled, Holding, Sending, links, Places
<1>3. ASSUME NEW l \in Places
      PROVE  /\ sent[l] = <<>> /\ txq[l] = <<>> /\ rxq[l] = <<>>
             /\ Hand(l) = {} /\ InWork(l) = {} /\ Arriving(l) = {}
  BY EmptyQueue DEF Init, Hand, InWork, Arriving, Holding
<1>4. \A l \in Places : LinkOrder(l) /\ Held(l) = {}
  BY <1>3, EmptyQueue DEF LinkOrder, Held, Before
<1>5. Apart
  BY <1>4 DEF Init, Apart
<1>6. Noting /\ Increasing(net)
  BY EmptyQueue DEF Init, Noting
<1> QED BY <1>1, <1>2, <1>4, <1>5, <1>6 DEF Pipelined

\* The requests keep their order and their places throughout every run.
THEOREM OrderKept == Spec => [](Typed /\ Labelled /\ Pipelined)
<1>1. Typed /\ Labelled /\ Pipelined /\ [Next]_vars => (Typed /\ Labelled /\ Pipelined)'
  BY NextTyped, NextPipe
<1> QED BY <1>1, InitPipe, PTL DEF Spec

\* The responses of a link leave in the order of its requests, none twice.
THEOREM SentOnceInOrder == Spec => []AnsweredOnceInOrder
<1>1. Pipelined => AnsweredOnceInOrder
  BY DEF Pipelined, LinkOrder, AnsweredOnceInOrder, links, Places
<1> QED BY <1>1, OrderKept, PTL

-----------------------------------------------------------------------------
(* The counters of the ECHO and STATUS requests *)

\* A counter of requests goes up by one with a request it has not counted.
LEMMA OneMore ==
  ASSUME NEW A \in SUBSET Reqs, NEW x \in Reqs, x \notin A
  PROVE  Cardinality(A \cup {x}) = Cardinality(A) + 1
<1>1. IsFiniteSet(Reqs)
  BY FS_Interval, StatsAssumption DEF Reqs
<1>2. IsFiniteSet(A)
  BY <1>1, FS_Subset
<1> QED BY <1>2, FS_AddElement

\* A step at link l leaves what the others have counted.
LEMMA OthersCount ==
  ASSUME NEW l \in Places,
         \A m \in Places \ {l} :
           /\ sent'[m] = sent[m] /\ txq'[m] = txq[m]
           /\ worker'[m] = worker[m] /\ work_item'[m] = work_item[m]
           /\ writer'[m] = writer[m] /\ write_item'[m] = write_item[m]
  PROVE  \A m \in Places \ {l} : /\ Taken(m)' = Taken(m) /\ Shown(m)' = Shown(m)
                                 /\ Noted(m)' = Noted(m) /\ Listed(m)' = Listed(m)
<1> SUFFICES ASSUME NEW m \in Places \ {l}
             PROVE  /\ Taken(m)' = Taken(m) /\ Shown(m)' = Shown(m)
                    /\ Noted(m)' = Noted(m) /\ Listed(m)' = Listed(m)
  OBVIOUS
<1>1. Hand(m)' = Hand(m) /\ Handled(m)' = Handled(m)
  BY DEF Hand, Handled
<1>2. Taken(m)' = Taken(m)
  BY <1>1 DEF Taken
<1> QED BY <1>2 DEF Shown, Noted, Listed

\* The request in a worker's hands is nowhere else.
LEMMA WorkItemAlone ==
  ASSUME Labelled, Pipelined, NEW l \in Places, worker[l] \in Holding
  PROVE  /\ work_item[l] \in Reqs /\ work_item[l] \notin failed
         /\ work_item[l] \notin Elems(sent[l]) \cup Hand(l) \cup Elems(txq[l])
         /\ \A m \in Places \ {l} : work_item[l] \notin Taken(m)
<1> DEFINE x == work_item[l]
<1>1. x \in Reqs /\ x \in Int
  BY DEF Labelled, Reqs
<1>2. InWork(l) = {x}
  BY DEF InWork
<1>3. x \in Held(l) /\ x \notin failed
  BY <1>2 DEF Held, Pipelined, Apart
<1>4. x \notin Elems(sent[l]) \cup Hand(l) \cup Elems(txq[l])
  BY <1>1, <1>2 DEF Pipelined, LinkOrder, Before
<1>5. ASSUME NEW m \in Places \ {l} PROVE x \notin Taken(m)
  <2>1. Handled(m) \subseteq InWork(m)
    BY DEF Handled, InWork, Holding
  <2>2. Taken(m) \subseteq Held(m)
    BY <2>1 DEF Taken, Held
  <2> QED BY <1>3, <2>2 DEF Pipelined, Apart
<1> QED BY <1>1, <1>3, <1>4, <1>5

\* The response a writer has sent and not yet counted was sent nowhere else.
LEMMA WriteItemAlone ==
  ASSUME Labelled, Pipelined, NEW l \in Places, writer[l] \in {"note", "add"}
  PROVE  /\ write_item[l] \in Reqs /\ write_item[l] \in Elems(sent[l])
         /\ \A m \in Places \ {l} : write_item[l] \notin Elems(sent[m])
<1>1. write_item[l] \in Reqs /\ write_item[l] \in Elems(sent[l])
  BY DEF Labelled, Sending, Pipelined, Noting
<1>2. \A m \in Places : Elems(sent[m]) \subseteq Held(m)
  BY DEF Held
<1> QED BY <1>1, <1>2 DEF Pipelined, Apart

EchoCounts ==
  /\ echo_rx = Cardinality(EchoesTaken) /\ recv_series = Cardinality(EchoesShown)
  /\ echo_tx = Cardinality(EchoesNoted) /\ resp_series = Cardinality(EchoesListed)
  /\ status_rx = Cardinality(StatusTaken)

\* A worker counts the ECHO or STATUS request in its hands once, and adds the
\* ECHO to the receive timeline once.
LEMMA WorkerCounts ==
  ASSUME Typed, Labelled, Pipelined, EchoCounts, NEW l \in Places, Worker(l)
  PROVE  EchoCounts'
<1> USE DEF network, control, sendVars, queues, counts, workRest, loopRest
<1> DEFINE x == work_item[l]
<1>0. /\ UNCHANGED <<udp, failed, sent, writer, write_item, echo_tx, resp_series>>
      /\ Hand(l)' = Hand(l) /\ Noted(l)' = Noted(l) /\ Listed(l)' = Listed(l)
  <2>1. UNCHANGED <<udp, failed, sent, writer, write_item, echo_tx, resp_series>>
    BY DEF Worker, WorkTest, WorkLeave, WorkEmpty, WorkGet, WorkDrain, WorkDrained,
     WorkCount, Handle, HandleAdd, HandleLook, HandleLooked, WorkUncount, WorkPut
  <2> QED BY <2>1 DEF Hand, Noted, Listed
<1>1. \A m \in Places \ {l} : /\ Taken(m)' = Taken(m) /\ Shown(m)' = Shown(m)
                              /\ Noted(m)' = Noted(m) /\ Listed(m)' = Listed(m)
  <2>1. \A m \in Places \ {l} : /\ txq'[m] = txq[m] /\ worker'[m] = worker[m]
                                /\ work_item'[m] = work_item[m]
    <3>1. CASE WorkPut(l)
      BY <3>1 DEF WorkPut, Work, Typed
    <3>2. CASE WorkGet(l) \/ WorkDrain(l)
      BY <3>2 DEF WorkGet, WorkDrain, Work, Typed
    <3>3. CASE WorkTest(l) \/ WorkLeave(l) \/ WorkDrained(l) \/ WorkEmpty(l) \/ WorkCount(l) \/ Handle(l) \/ HandleAdd(l)
               \/ HandleLook(l) \/ HandleLooked(l) \/ WorkUncount(l)
      BY <3>3 DEF WorkTest, WorkLeave, WorkDrained, WorkEmpty, WorkCount, Handle, HandleAdd, HandleLook, HandleLooked,
                  WorkUncount, Work, Typed
    <3> QED BY <3>1, <3>2, <3>3 DEF Worker
  <2> QED BY <1>0, <2>1, OthersCount
<1>2. EchoesNoted' = EchoesNoted /\ EchoesListed' = EchoesListed
  BY <1>0, <1>1 DEF EchoesNoted, EchoesListed, Noticed
<1>3. ASSUME \A r : IsEcho(r) \/ r \in Status => (r \in Taken(l)' <=> r \in Taken(l)),
             \A r : IsEcho(r) => (r \in Shown(l)' <=> r \in Shown(l)),
             UNCHANGED <<echo_rx, status_rx, recv_series>>
      PROVE  EchoCounts'
  <2>1. EchoesTaken' = EchoesTaken /\ EchoesShown' = EchoesShown /\ StatusTaken' = StatusTaken
    BY <1>0, <1>1, <1>3 DEF EchoesTaken, EchoesShown, StatusTaken
  <2> QED BY <1>0, <1>2, <1>3, <2>1 DEF EchoCounts
<1>4. CASE Handle(l)
  <2>1. /\ worker[l] = "handle" /\ UNCHANGED <<txq, work_item, recv_series>>
        /\ worker' = [worker EXCEPT ![l] = IF IsEcho(x) THEN "add"
                                           ELSE IF x \in Status THEN "look" ELSE Return(l)]
        /\ echo_rx' = IF IsEcho(x) THEN echo_rx + 1 ELSE echo_rx
        /\ status_rx' = IF x \in Status THEN status_rx + 1 ELSE status_rx
    BY <1>4 DEF Handle, Work
  <2>2. /\ x \in Reqs /\ x \notin failed
        /\ x \notin Elems(sent[l]) \cup Hand(l) \cup Elems(txq[l])
        /\ \A m \in Places \ {l} : x \notin Taken(m)
    BY <2>1, WorkItemAlone DEF Holding
  <2>3. Handled(l) = {} /\ Handled(l)' = {x}
    BY <2>1 DEF Handled, Return, Typed
  <2>4. /\ Taken(l)' = Taken(l) \cup {x} /\ x \notin Taken(l) /\ Shown(l) = Taken(l)
        /\ Shown(l)' = IF IsEcho(x) THEN Taken(l) ELSE Taken(l) \cup {x}
    <3>1. Taken(l)' = Taken(l) \cup {x} /\ x \notin Taken(l)
      BY <1>0, <2>1, <2>2, <2>3 DEF Taken
    <3>2. worker'[l] = "add" <=> IsEcho(x)
      BY <2>1 DEF Return, Typed
    <3> QED BY <2>1, <3>1, <3>2 DEF Shown
  <2>5. \A m \in Places : x \notin Taken(m)
    BY <2>2, <2>4
  <2> HIDE DEF x
  <2>6. CASE IsEcho(x)
    <3>1. /\ EchoesTaken' = EchoesTaken \cup {x} /\ x \notin EchoesTaken
          /\ EchoesShown' = EchoesShown /\ StatusTaken' = StatusTaken /\ x \notin Status
      BY <1>0, <1>1, <2>2, <2>4, <2>5, <2>6
         DEF EchoesTaken, EchoesShown, StatusTaken, IsEcho
    <3>2. Cardinality(EchoesTaken') = Cardinality(EchoesTaken) + 1
      BY <2>2, <3>1, OneMore DEF EchoesTaken
    <3> QED BY <1>0, <1>2, <2>1, <2>6, <3>1, <3>2 DEF EchoCounts
  <2>7. CASE x \in Status
    <3>1. /\ EchoesTaken' = EchoesTaken /\ EchoesShown' = EchoesShown /\ ~IsEcho(x)
          /\ StatusTaken' = StatusTaken \cup {x} /\ x \notin StatusTaken
      BY <1>0, <1>1, <2>2, <2>4, <2>5, <2>7
         DEF EchoesTaken, EchoesShown, StatusTaken, IsEcho
    <3>2. Cardinality(StatusTaken') = Cardinality(StatusTaken) + 1
      BY <2>2, <3>1, OneMore, StatsAssumption DEF StatusTaken, Reqs
    <3> QED BY <1>0, <1>2, <2>1, <2>7, <3>1, <3>2 DEF EchoCounts
  <2>8. CASE ~IsEcho(x) /\ x \notin Status
    BY <1>3, <2>1, <2>4, <2>8
  <2> QED BY <2>6, <2>7, <2>8
<1>5. CASE HandleAdd(l)
  <2>1. /\ worker[l] = "add" /\ worker' = [worker EXCEPT ![l] = "look"]
        /\ UNCHANGED <<txq, work_item, echo_rx, status_rx>> /\ recv_series' = recv_series + 1
    BY <1>5 DEF HandleAdd, Work
  <2>2. /\ x \in Reqs /\ x \notin failed /\ IsEcho(x)
        /\ \A m \in Places \ {l} : x \notin Taken(m)
    BY <2>1, WorkItemAlone DEF Holding, Labelled
  <2>3. Handled(l) = {x} /\ Handled(l)' = {x}
    BY <2>1 DEF Handled, Typed
  <2>4. Taken(l)' = Taken(l) /\ Shown(l)' = Shown(l) \cup {x} /\ x \notin Shown(l)
    <3>1. Taken(l)' = Taken(l) /\ x \in Taken(l)
      BY <1>0, <2>1, <2>3 DEF Taken
    <3>2. worker'[l] # "add"
      BY <2>1 DEF Typed
    <3> QED BY <2>1, <3>1, <3>2 DEF Shown
  <2>5. \A m \in Places : x \notin Shown(m)
    BY <2>2, <2>4 DEF Shown
  <2> HIDE DEF x
  <2>6. /\ EchoesTaken' = EchoesTaken /\ StatusTaken' = StatusTaken
        /\ EchoesShown' = EchoesShown \cup {x} /\ x \notin EchoesShown
    BY <1>0, <1>1, <2>2, <2>4, <2>5 DEF EchoesTaken, EchoesShown, StatusTaken
  <2>7. Cardinality(EchoesShown') = Cardinality(EchoesShown) + 1
    BY <2>2, <2>6, OneMore DEF EchoesShown
  <2> QED BY <1>0, <1>2, <2>1, <2>6, <2>7 DEF EchoCounts
<1>6. CASE WorkPut(l)
  <2>1. /\ worker[l] = "put"
        /\ worker' = [worker EXCEPT ![l] = IF draining[l] THEN "drain" ELSE "test"]
        /\ txq' = IF x \in Junk THEN txq ELSE [txq EXCEPT ![l] = Append(@, x)]
        /\ UNCHANGED <<echo_rx, status_rx, recv_series>>
    BY <1>6 DEF WorkPut, Work
  <2>2. Handled(l) = {x} /\ Handled(l)' = {} /\ worker'[l] # "add"
    BY <2>1 DEF Handled, Typed
  <2>3. x \in Reqs /\ txq[l] \in Seq(Reqs)
    BY <2>1 DEF Labelled, Holding, Typed
  <2>4. Elems(txq'[l]) = IF x \in Junk THEN Elems(txq[l]) ELSE Elems(txq[l]) \cup {x}
    <3>1. CASE x \in Junk
      BY <2>1, <3>1
    <3>2. CASE x \notin Junk
      <4>1. txq'[l] = Append(txq[l], x)
        BY <2>1, <3>2 DEF Typed
      <4> QED BY <2>3, <3>2, <4>1, ElemsAppend
    <3> QED BY <3>1, <3>2
  <2> HIDE DEF x
  <2>5. /\ \A r : IsEcho(r) \/ r \in Status => (r \in Taken(l)' <=> r \in Taken(l))
        /\ Shown(l)' = Taken(l)' /\ Shown(l) = Taken(l)
    <3>1. x \in Junk => ~IsEcho(x) /\ x \notin Status
      BY StatsAssumption DEF IsEcho
    <3>2. \A r : IsEcho(r) \/ r \in Status => (r \in Taken(l)' <=> r \in Taken(l))
      BY <1>0, <2>2, <2>4, <3>1 DEF Taken
    <3> QED BY <2>1, <2>2, <3>2 DEF Shown
  <2> QED BY <1>3, <2>1, <2>5
<1>7. ASSUME UNCHANGED <<txq, echo_rx, status_rx, recv_series>>,
             Handled(l)' = Handled(l), UNCHANGED work_item, worker'[l] # "add", worker[l] # "add"
      PROVE  EchoCounts'
  <2>1. Taken(l)' = Taken(l)
    BY <1>0, <1>7 DEF Taken
  <2>2. Shown(l)' = Shown(l)
    BY <1>7, <2>1 DEF Shown
  <2> QED BY <1>3, <1>7, <2>1, <2>2
<1>8. CASE WorkGet(l) \/ WorkDrain(l)
  <2>1. /\ worker[l] \in {"get", "drain"}
        /\ \/ worker' = [worker EXCEPT ![l] = "count"]
           \/ worker' = [worker EXCEPT ![l] = "handle"]
        /\ UNCHANGED <<txq, echo_rx, status_rx, recv_series>>
    BY <1>8 DEF WorkGet, WorkDrain, Work
  <2>2. Handled(l) = {} /\ Handled(l)' = {} /\ worker'[l] # "add"
    BY <2>1 DEF Handled, Typed
  <2>3. Taken(l)' = Taken(l) /\ Shown(l)' = Taken(l)' /\ Shown(l) = Taken(l)
    BY <1>0, <2>1, <2>2 DEF Taken, Shown
  <2> QED BY <1>3, <2>1, <2>3
<1>9. CASE WorkTest(l) \/ WorkLeave(l) \/ WorkDrained(l)
  BY <1>7, <1>9 DEF WorkTest, WorkLeave, WorkDrained, Work, Handled, Typed
<1>10. CASE WorkEmpty(l) \/ WorkCount(l) \/ WorkUncount(l)
  BY <1>7, <1>10 DEF WorkEmpty, WorkCount, WorkUncount, Work, Handled, Typed
<1>11. CASE HandleLook(l) \/ HandleLooked(l)
  BY <1>7, <1>11 DEF HandleLook, HandleLooked, Return, Work, Handled, Typed
<1> QED BY <1>4, <1>5, <1>6, <1>8, <1>9, <1>10, <1>11 DEF Worker

\* A writer counts the ECHO response it has sent once, and adds it to the
\* response timeline once; a response that cannot be sent stays counted as
\* received.
LEMMA WriterCounts ==
  ASSUME Typed, Labelled, Pipelined, EchoCounts, NEW l \in Places, Writer(l)
  PROVE  EchoCounts'
<1> USE DEF control, workVars, readVars, writeRest
<1> DEFINE x == write_item[l]
<1>0. /\ UNCHANGED <<udp, worker, work_item, echo_rx, status_rx, recv_series>>
      /\ Handled(l)' = Handled(l)
  <2>1. UNCHANGED <<udp, worker, work_item, echo_rx, status_rx, recv_series>>
    BY DEF Writer, WriteTest, WriteEmpty, WriteGet, WriteSend, WriteFail, WriteNote, WriteAdd
  <2> QED BY <2>1 DEF Handled
<1>1. \A m \in Places \ {l} : /\ Taken(m)' = Taken(m) /\ Shown(m)' = Shown(m)
                              /\ Noted(m)' = Noted(m) /\ Listed(m)' = Listed(m)
  <2>1. \A m \in Places \ {l} : /\ sent'[m] = sent[m] /\ txq'[m] = txq[m]
                                /\ writer'[m] = writer[m] /\ write_item'[m] = write_item[m]
    <3>1. CASE WriteGet(l)
      BY <3>1 DEF WriteGet, Write, Typed
    <3>2. CASE WriteSend(l)
      BY <3>2 DEF WriteSend, Write, Typed
    <3>3. CASE WriteTest(l) \/ WriteEmpty(l) \/ WriteFail(l) \/ WriteAdd(l)
      BY <3>3 DEF WriteTest, WriteEmpty, WriteFail, WriteAdd, Write, Typed
    <3>4. CASE WriteNote(l)
      BY <3>4 DEF WriteNote, Write, Typed
    <3> QED BY <3>1, <3>2, <3>3, <3>4 DEF Writer
  <2> QED BY <1>0, <2>1, OthersCount
<1>2. ASSUME failed' = failed, Taken(l)' = Taken(l)
      PROVE  EchoesTaken' = EchoesTaken /\ EchoesShown' = EchoesShown /\ StatusTaken' = StatusTaken
  <2>1. Shown(l)' = Shown(l)
    BY <1>0, <1>2 DEF Shown
  <2> QED BY <1>1, <1>2, <2>1 DEF EchoesTaken, EchoesShown, StatusTaken
<1>3. ASSUME Noted(l)' = Noted(l), Listed(l)' = Listed(l)
      PROVE  EchoesNoted' = EchoesNoted /\ EchoesListed' = EchoesListed
  BY <1>0, <1>1, <1>3 DEF EchoesNoted, EchoesListed, Noticed
<1>4. CASE WriteGet(l)
  <2>1. /\ txq[l] # <<>> /\ txq' = [txq EXCEPT ![l] = Tail(@)]
        /\ write_item' = [write_item EXCEPT ![l] = Head(txq[l])]
        /\ writer[l] = "get" /\ writer' = [writer EXCEPT ![l] = "send"]
        /\ UNCHANGED <<sent, failed, echo_tx, resp_series>>
    BY <1>4 DEF WriteGet, Write
  <2>2. Elems(txq[l]) = {Head(txq[l])} \cup Elems(txq'[l])
    BY <2>1, ElemsTail DEF Typed
  <2>3. Hand(l) = {} /\ Hand(l)' = {Head(txq[l])}
    BY <2>1 DEF Hand, Typed
  <2>4. Taken(l)' = Taken(l)
    BY <1>0, <2>1, <2>2, <2>3 DEF Taken
  <2>5. Noted(l)' = Noted(l) /\ Listed(l)' = Listed(l)
    BY <2>1 DEF Noted, Listed, Typed
  <2> QED BY <1>0, <1>2, <1>3, <2>1, <2>4, <2>5 DEF EchoCounts
<1>5. CASE WriteSend(l)
  <2>1. /\ writer[l] = "send" /\ writer' = [writer EXCEPT ![l] = "note"]
        /\ sent' = [sent EXCEPT ![l] = Append(@, x)]
        /\ UNCHANGED <<failed, txq, write_item, echo_tx, resp_series>>
    BY <1>5 DEF WriteSend, Write
  <2>2. Hand(l) = {x} /\ Hand(l)' = {} /\ writer'[l] = "note"
    BY <2>1 DEF Hand, Typed
  <2>3. x \in Reqs /\ x \in Int /\ x \notin Elems(sent[l])
    <3>1. x \in Reqs /\ x \in Int
      BY <2>1 DEF Labelled, Sending, Reqs
    <3> QED BY <2>2, <3>1 DEF Pipelined, LinkOrder, Before
  <2>4. Elems(sent'[l]) = Elems(sent[l]) \cup {x}
    <3>1. sent'[l] = Append(sent[l], x) /\ sent[l] \in Seq(Reqs)
      BY <2>1 DEF Typed
    <3> QED BY <2>3, <3>1, ElemsAppend
  <2> HIDE DEF x
  <2>5. Taken(l)' = Taken(l)
    BY <1>0, <2>1, <2>2, <2>4 DEF Taken
  <2>6. Noted(l)' = Noted(l) /\ Listed(l)' = Listed(l)
    <3>1. write_item'[l] = x
      BY <2>1 DEF x
    <3> QED BY <2>1, <2>2, <2>3, <2>4, <3>1 DEF Noted, Listed
  <2> QED BY <1>0, <1>2, <1>3, <2>1, <2>5, <2>6 DEF EchoCounts
<1>6. CASE WriteFail(l)
  <2>1. /\ writer[l] = "send" /\ writer' = [writer EXCEPT ![l] = IF stopped \/ ~udp THEN "done" ELSE "test"]
        /\ failed' = failed \cup {x} /\ UNCHANGED <<sent, txq, echo_tx, resp_series>>
    BY <1>6 DEF WriteFail, Write
  <2>2. Hand(l) = {x} /\ Hand(l)' = {} /\ writer'[l] \notin Sending
    BY <2>1 DEF Hand, Typed, Sending
  <2>3. x \in Int
    BY <2>1 DEF Labelled, Sending, Reqs
  <2>4. worker[l] = "add" => x # work_item[l]
    <3>1. worker[l] = "add" => InWork(l) = {work_item[l]} /\ work_item[l] \in Int
      BY DEF InWork, Holding, Labelled, Reqs
    <3> QED BY <2>2, <2>3, <3>1 DEF Pipelined, LinkOrder, Before
  <2> HIDE DEF x
  <2>5. Taken(l)' \cup {x} = Taken(l)
    BY <1>0, <2>1, <2>2 DEF Taken
  <2>6. Shown(l)' \cup {x} = Shown(l)
    BY <1>0, <2>4, <2>5 DEF Shown
  <2>7. EchoesTaken' = EchoesTaken /\ StatusTaken' = StatusTaken
    BY <1>1, <2>1, <2>5 DEF EchoesTaken, StatusTaken
  <2>8. EchoesShown' = EchoesShown
    BY <1>1, <2>1, <2>6 DEF EchoesShown
  <2>9. Noted(l)' = Noted(l) /\ Listed(l)' = Listed(l)
    BY <2>1, <2>2 DEF Noted, Listed, Sending
  <2> QED BY <1>0, <1>3, <2>1, <2>7, <2>8, <2>9 DEF EchoCounts
<1>7. ASSUME UNCHANGED <<sent, failed, txq>>, Hand(l)' = Hand(l)
      PROVE  EchoesTaken' = EchoesTaken /\ EchoesShown' = EchoesShown /\ StatusTaken' = StatusTaken
  <2>1. Taken(l)' = Taken(l)
    BY <1>0, <1>7 DEF Taken
  <2> QED BY <1>2, <1>7, <2>1
<1>8. CASE WriteNote(l)
  <2>1. /\ writer[l] = "note"
        /\ writer' = [writer EXCEPT ![l] = IF Noticed(x) THEN "add" ELSE "test"]
        /\ UNCHANGED <<sent, failed, txq, resp_series>>
        /\ Noticed(x) => echo_tx' = echo_tx + 1 /\ UNCHANGED write_item
        /\ ~Noticed(x) => echo_tx' = echo_tx
    BY <1>8 DEF WriteNote, Write
  <2>2. /\ x \in Reqs /\ x \in Elems(sent[l])
        /\ \A m \in Places \ {l} : x \notin Elems(sent[m])
    BY <2>1, WriteItemAlone
  <2>3. Hand(l)' = Hand(l) /\ writer'[l] = IF Noticed(x) THEN "add" ELSE "test"
    BY <2>1 DEF Hand, Typed
  <2>4. /\ Noted(l)' = Noted(l) \cup {x} /\ x \notin Noted(l)
        /\ Listed(l)' = IF Noticed(x) THEN Listed(l) ELSE Listed(l) \cup {x}
    <3>1. Noted(l) = Elems(sent[l]) \ {x} /\ Listed(l) = Elems(sent[l]) \ {x}
      BY <2>1 DEF Noted, Listed
    <3>2. Noted(l)' = Elems(sent[l])
      BY <2>1, <2>3 DEF Noted
    <3>3. Listed(l)' = IF Noticed(x) THEN Elems(sent[l]) \ {x} ELSE Elems(sent[l])
      BY <2>1, <2>3 DEF Listed
    <3> QED BY <2>2, <3>1, <3>2, <3>3
  <2>5. \A m \in Places : x \notin Noted(m)
    BY <2>2, <2>4 DEF Noted
  <2> HIDE DEF x
  <2>6. EchoesTaken' = EchoesTaken /\ EchoesShown' = EchoesShown /\ StatusTaken' = StatusTaken
    BY <1>7, <2>1, <2>3
  <2>7. EchoesListed' = EchoesListed
    BY <1>0, <1>1, <2>4 DEF EchoesListed, Noticed
  <2>8. CASE Noticed(x)
    <3>1. EchoesNoted' = EchoesNoted \cup {x} /\ x \notin EchoesNoted
      BY <1>0, <1>1, <2>2, <2>4, <2>5, <2>8 DEF EchoesNoted, Noticed
    <3>2. Cardinality(EchoesNoted') = Cardinality(EchoesNoted) + 1
      BY <2>2, <3>1, OneMore DEF EchoesNoted
    <3> QED BY <1>0, <2>1, <2>6, <2>7, <2>8, <3>1, <3>2 DEF EchoCounts
  <2>9. CASE ~Noticed(x)
    <3>1. EchoesNoted' = EchoesNoted
      BY <1>0, <1>1, <2>4, <2>9 DEF EchoesNoted, Noticed
    <3> QED BY <1>0, <2>1, <2>6, <2>7, <2>9, <3>1 DEF EchoCounts
  <2> QED BY <2>8, <2>9
<1>9. CASE WriteAdd(l)
  <2>1. /\ writer[l] = "add" /\ writer' = [writer EXCEPT ![l] = "test"]
        /\ UNCHANGED <<sent, failed, txq, echo_tx>> /\ resp_series' = resp_series + 1
    BY <1>9 DEF WriteAdd, Write
  <2>2. /\ x \in Reqs /\ x \in Elems(sent[l]) /\ Noticed(x)
        /\ \A m \in Places \ {l} : x \notin Elems(sent[m])
    BY <2>1, WriteItemAlone DEF Labelled
  <2>3. Hand(l)' = Hand(l) /\ writer'[l] = "test"
    BY <2>1 DEF Hand, Typed
  <2>4. Noted(l)' = Noted(l) /\ Listed(l)' = Listed(l) \cup {x} /\ x \notin Listed(l)
    <3>1. Noted(l)' = Noted(l)
      BY <2>1, <2>3 DEF Noted
    <3>2. Listed(l) = Elems(sent[l]) \ {x} /\ Listed(l)' = Elems(sent[l])
      BY <2>1, <2>3 DEF Listed
    <3> QED BY <2>2, <3>1, <3>2
  <2>5. \A m \in Places : x \notin Listed(m)
    BY <2>2, <2>4 DEF Listed
  <2> HIDE DEF x
  <2>6. EchoesTaken' = EchoesTaken /\ EchoesShown' = EchoesShown /\ StatusTaken' = StatusTaken
    BY <1>7, <2>1, <2>3
  <2>7. EchoesNoted' = EchoesNoted
    BY <1>0, <1>1, <2>4 DEF EchoesNoted, Noticed
  <2>8. EchoesListed' = EchoesListed \cup {x} /\ x \notin EchoesListed
    BY <1>0, <1>1, <2>2, <2>4, <2>5 DEF EchoesListed, Noticed
  <2>9. Cardinality(EchoesListed') = Cardinality(EchoesListed) + 1
    BY <2>2, <2>8, OneMore DEF EchoesListed
  <2> QED BY <1>0, <2>1, <2>6, <2>7, <2>8, <2>9 DEF EchoCounts
<1>10. CASE WriteTest(l) \/ WriteEmpty(l)
  <2>1. /\ UNCHANGED <<sent, failed, txq, write_item, echo_tx, resp_series>>
        /\ writer[l] \notin Sending /\ writer'[l] \notin Sending
    BY <1>10 DEF WriteTest, WriteEmpty, Write, Typed, Sending
  <2>2. Hand(l)' = Hand(l) /\ Noted(l)' = Noted(l) /\ Listed(l)' = Listed(l)
    BY <2>1 DEF Hand, Noted, Listed, Sending
  <2> QED BY <1>0, <1>3, <1>7, <2>1, <2>2 DEF EchoCounts
<1> QED BY <1>4, <1>5, <1>6, <1>8, <1>9, <1>10 DEF Writer

\* Every step keeps the five counters exact.
LEMMA NextCounts ==
  ASSUME Typed, Labelled, Pipelined, EchoCounts, [Next]_vars
  PROVE  EchoCounts'
<1>1. ASSUME NEW l \in links, Worker(l) \/ Writer(l) PROVE EchoCounts'
  BY <1>1, WorkerCounts, WriterCounts DEF links, Places
<1>2. ASSUME UNCHANGED <<udp, failed, sent, txq, writer, write_item, worker, work_item, echo_rx, echo_tx,
                         status_rx, recv_series, resp_series>>
      PROVE  EchoCounts'
  <2>1. \A l \in Places : /\ Taken(l)' = Taken(l) /\ Shown(l)' = Shown(l)
                          /\ Noted(l)' = Noted(l) /\ Listed(l)' = Listed(l)
    BY <1>2 DEF Taken, Shown, Noted, Listed, Hand, Handled
  <2>2. /\ EchoesTaken' = EchoesTaken /\ EchoesShown' = EchoesShown /\ StatusTaken' = StatusTaken
        /\ EchoesNoted' = EchoesNoted /\ EchoesListed' = EchoesListed
    BY <1>2, <2>1 DEF EchoesTaken, EchoesShown, EchoesNoted, EchoesListed, StatusTaken, Noticed
  <2> QED BY <1>2, <2>2 DEF EchoCounts
<1> USE DEF network, queues, sendVars, workVars, counts, series, lookRest, threads
<1>3. CASE Request
  BY <1>2, <1>3 DEF Request
<1>4. CASE UdpRead
  BY <1>2, <1>4 DEF UdpRead, UdpReadTest, UdpReadRecv, UdpReadNothing
<1>5. CASE StopCall \/ Stop
  BY <1>2, <1>5 DEF StopCall, Stop, StopClose, StopJoin
<1>6. ASSUME NEW r \in Places, Snapshot(r) PROVE EchoCounts'
  BY <1>2, <1>6 DEF Snapshot, LookRecv, LookResp, LookProcessing, LookInterval, LookTotals
<1>7. CASE UNCHANGED vars
  BY <1>2, <1>7 DEF vars
<1>8. ASSUME NEW l \in links, Close(l) PROVE EchoCounts'
  BY <1>2, <1>8 DEF Close
<1> QED BY <1>1, <1>3, <1>4, <1>5, <1>6, <1>7, <1>8 DEF Next, Finished

-----------------------------------------------------------------------------
(* Workers at work, and the interval counters *)

Busy == {l \in links : worker[l] \in InHandling /\ ~draining[l]}

LEMMA BusyFinite == IsFiniteSet(Busy) /\ Cardinality(Busy) \in Nat
<1>1. IsFiniteSet({Socket}) /\ IsFiniteSet(Links)
  BY StatsAssumption, FS_Singleton
<1>2. IsFiniteSet(links)
  BY <1>1 DEF links
<1> QED BY <1>2, FS_Subset, FS_CardinalityType DEF Busy

\* A worker enters the count once and leaves it once per request; the count is
\* positive when it leaves, so max(0, processing - 1) never clamps.
LEMMA NextProcessing ==
  ASSUME Typed, Labelled, ProcessingExact, [Next]_vars
  PROVE  ProcessingExact'
<1>0. processing = Cardinality(Busy) /\ processing \in Nat
  BY DEF ProcessingExact, Busy, Typed
<1>1. ASSUME processing' = Cardinality(Busy') PROVE ProcessingExact'
  BY <1>1 DEF ProcessingExact, Busy
<1>2. ASSUME NEW l \in links, Worker(l) PROVE ProcessingExact'
  <2> USE DEF network, counts, workRest, loopRest
  <2>0. l \in Places /\ links' = links
    BY <1>2 DEF Worker, WorkTest, WorkLeave, WorkEmpty, WorkGet, WorkDrain, WorkDrained,
     WorkCount, Handle, HandleAdd, HandleLook, HandleLooked, WorkUncount, WorkPut, links, Places
  <2> USE DEF InHandling
  <2>1. CASE WorkCount(l)
    <3>1. /\ worker[l] = "count" /\ worker' = [worker EXCEPT ![l] = "handle"]
          /\ processing' = processing + 1 /\ draining' = draining /\ ~draining[l]
      BY <2>0, <2>1 DEF WorkCount, Work, Labelled
    <3>2. Busy' = Busy \cup {l} /\ l \notin Busy
      <4>1. links \subseteq Places
        BY DEF links, Places
      <4>2. \A m \in links : worker'[m] = IF m = l THEN "handle" ELSE worker[m]
        BY <3>1, <4>1 DEF Typed
      <4> QED BY <2>0, <3>1, <4>2 DEF Busy
    <3> QED BY <1>0, <1>1, <3>1, <3>2, BusyFinite, FS_AddElement
  <2>2. CASE WorkUncount(l)
    <3>1. /\ worker[l] = "uncount" /\ worker' = [worker EXCEPT ![l] = "put"]
          /\ processing' = IF processing > 0 THEN processing - 1 ELSE 0
          /\ draining' = draining /\ ~draining[l]
      BY <2>0, <2>2 DEF WorkUncount, Work, Labelled
    <3>2. Busy' = Busy \ {l} /\ l \in Busy
      <4>1. links \subseteq Places
        BY DEF links, Places
      <4>2. \A m \in links : worker'[m] = IF m = l THEN "put" ELSE worker[m]
        BY <3>1, <4>1 DEF Typed
      <4> QED BY <2>0, <3>1, <4>2 DEF Busy
    <3>3. Cardinality(Busy \ {l}) = Cardinality(Busy) - 1 /\ Cardinality(Busy) # 0
      BY <3>2, BusyFinite, FS_RemoveElement, FS_EmptySet
    <3> QED BY <1>0, <1>1, <3>1, <3>2, <3>3
  <2>3. ASSUME processing' = processing, draining' = draining,
               NEW label, worker' = [worker EXCEPT ![l] = label],
               draining[l] \/ (worker[l] \in InHandling <=> label \in InHandling)
        PROVE  ProcessingExact'
    <3>1. Busy' = Busy
      BY <2>0, <2>3 DEF Busy, Typed
    <3> QED BY <1>0, <1>1, <2>3, <3>1
  <2>4. CASE WorkTest(l)
    BY <2>3, <2>4 DEF WorkTest, Work
  <2>5. CASE WorkEmpty(l) \/ WorkGet(l) \/ WorkPut(l) \/ WorkDrained(l)
    BY <2>3, <2>5 DEF WorkEmpty, WorkGet, WorkPut, WorkDrained, Work
  <2>8. CASE WorkDrain(l)
    BY <2>0, <2>3, <2>8 DEF WorkDrain, Work, Labelled
  <2>9. CASE WorkLeave(l)
    <3>1. /\ processing' = processing /\ worker[l] = "test" /\ worker'[l] \in {"done", "drain"}
          /\ \A m \in Places \ {l} : worker'[m] = worker[m] /\ draining'[m] = draining[m]
      BY <2>0, <2>9 DEF WorkLeave, Work, Typed
    <3>2. links \subseteq Places
      BY DEF links, Places
    <3>3. Busy' = Busy
      BY <2>0, <3>1, <3>2 DEF Busy
    <3> QED BY <1>0, <1>1, <3>1, <3>3
  <2>6. CASE Handle(l)
    BY <2>3, <2>6 DEF Handle, Return, Work
  <2>7. CASE HandleAdd(l) \/ HandleLook(l) \/ HandleLooked(l)
    BY <2>3, <2>7 DEF HandleAdd, HandleLook, HandleLooked, Return, Work
  <2> QED BY <1>2, <2>1, <2>2, <2>4, <2>5, <2>6, <2>7, <2>8, <2>9 DEF Worker
<1>3. ASSUME UNCHANGED <<udp, worker, draining, processing>> PROVE ProcessingExact'
  <2>1. Busy' = Busy
    BY <1>3 DEF Busy, links
  <2> QED BY <1>0, <1>1, <1>3, <2>1
<1> USE DEF network, workVars, counts, lookRest, threads
<1>4. ASSUME NEW l \in links, Writer(l) PROVE ProcessingExact'
  BY <1>3, <1>4 DEF Writer, WriteTest, WriteEmpty, WriteGet, WriteSend, WriteFail, WriteNote,
                    WriteAdd, writeRest
<1>5. CASE Request \/ UdpRead \/ StopCall \/ Stop
  BY <1>3, <1>5 DEF Request, UdpRead, UdpReadTest, UdpReadRecv, UdpReadNothing,
                    StopCall, Stop, StopClose, StopJoin
<1>6. ASSUME NEW r \in Places, Snapshot(r) PROVE ProcessingExact'
  BY <1>3, <1>6 DEF Snapshot, LookRecv, LookResp, LookProcessing, LookInterval, LookTotals
<1>7. CASE UNCHANGED vars
  BY <1>3, <1>7 DEF vars
<1>8. ASSUME NEW l \in links, Close(l) PROVE ProcessingExact'
  BY <1>3, <1>8 DEF Close
<1> QED BY <1>2, <1>4, <1>5, <1>6, <1>7, <1>8 DEF Next, Finished

\* Each ECHO is in one interval, whoever resets the two counters and when.
LEMMA NextInterval ==
  ASSUME Typed, IntervalConserved, [Next]_vars
  PROVE  IntervalConserved'
<1>0. /\ collected.rx \in Nat /\ collected.tx \in Nat /\ interval_rx \in Nat /\ interval_tx \in Nat
      /\ collected.rx + interval_rx = echo_rx /\ collected.tx + interval_tx = echo_tx
  BY DEF Typed, IntervalConserved
<1>1. ASSUME UNCHANGED <<collected, interval_rx, interval_tx, echo_rx, echo_tx>>
      PROVE  IntervalConserved'
  BY <1>0, <1>1 DEF IntervalConserved
<1> USE DEF network, counts, interval, lookRest, threads
<1>2. ASSUME NEW l \in links, Worker(l) PROVE IntervalConserved'
  <2> USE DEF workRest, loopRest
  <2>1. CASE Handle(l)
    <3>1. /\ UNCHANGED <<collected, interval_tx, echo_tx>>
          /\ \/ echo_rx' = echo_rx + 1 /\ interval_rx' = interval_rx + 1
             \/ echo_rx' = echo_rx /\ interval_rx' = interval_rx
      BY <2>1 DEF Handle
    <3> QED BY <1>0, <3>1 DEF IntervalConserved
  <2>2. CASE WorkTest(l) \/ WorkLeave(l) \/ WorkDrain(l) \/ WorkDrained(l) \/ WorkEmpty(l) \/ WorkGet(l) \/ WorkCount(l) \/ HandleAdd(l)
             \/ HandleLook(l) \/ HandleLooked(l) \/ WorkUncount(l) \/ WorkPut(l)
    BY <1>1, <2>2 DEF WorkTest, WorkLeave, WorkDrain, WorkDrained, WorkEmpty, WorkGet, WorkCount, HandleAdd, HandleLook, HandleLooked,
                      WorkUncount, WorkPut
  <2> QED BY <1>2, <2>1, <2>2 DEF Worker
<1>3. ASSUME NEW l \in links, Writer(l) PROVE IntervalConserved'
  <2> USE DEF writeRest
  <2>1. CASE WriteNote(l)
    <3>1. /\ UNCHANGED <<collected, interval_rx, echo_rx>>
          /\ \/ echo_tx' = echo_tx + 1 /\ interval_tx' = interval_tx + 1
             \/ echo_tx' = echo_tx /\ interval_tx' = interval_tx
      BY <2>1 DEF WriteNote
    <3> QED BY <1>0, <3>1 DEF IntervalConserved
  <2>2. CASE WriteTest(l) \/ WriteEmpty(l) \/ WriteGet(l) \/ WriteSend(l) \/ WriteFail(l)
             \/ WriteAdd(l)
    BY <1>1, <2>2 DEF WriteTest, WriteEmpty, WriteGet, WriteSend, WriteFail, WriteAdd
  <2> QED BY <1>3, <2>1, <2>2 DEF Writer
<1>4. ASSUME NEW r \in Places, Snapshot(r) PROVE IntervalConserved'
  <2>1. CASE LookInterval(r)
    <3>1. echo_rx' = echo_rx /\ echo_tx' = echo_tx /\ ResetInterval
      BY <2>1 DEF LookInterval
    <3>2. CASE /\ interval_rx' = 0 /\ interval_tx' = 0
               /\ collected' = [rx |-> collected.rx + interval_rx, tx |-> collected.tx + interval_tx]
      <4>1. /\ collected'.rx = collected.rx + interval_rx
            /\ collected'.tx = collected.tx + interval_tx
        BY <3>2
      <4> QED BY <1>0, <3>1, <3>2, <4>1 DEF IntervalConserved
    <3>3. CASE UNCHANGED interval
      BY <1>1, <3>1, <3>3 DEF interval
    <3> QED BY <3>1, <3>2, <3>3 DEF ResetInterval
  <2>2. CASE LookRecv(r) \/ LookResp(r) \/ LookProcessing(r) \/ LookTotals(r)
    BY <1>1, <2>2 DEF LookRecv, LookResp, LookProcessing, LookTotals
  <2> QED BY <1>4, <2>1, <2>2 DEF Snapshot
<1>5. CASE Request \/ UdpRead \/ StopCall \/ Stop
  BY <1>1, <1>5 DEF Request, UdpRead, UdpReadTest, UdpReadRecv, UdpReadNothing,
                    StopCall, Stop, StopClose, StopJoin
<1>6. CASE UNCHANGED vars
  BY <1>1, <1>6 DEF vars
<1>7. ASSUME NEW l \in links, Close(l) PROVE IntervalConserved'
  BY <1>1, <1>7 DEF Close
<1> QED BY <1>2, <1>3, <1>4, <1>5, <1>6, <1>7 DEF Next, Finished

-----------------------------------------------------------------------------
(* Snapshots *)

\* Of two counters of requests the one that counts fewer is the smaller.
LEMMA FewerCounted ==
  ASSUME NEW A \in SUBSET Reqs, NEW B \in SUBSET Reqs, A \subseteq B
  PROVE  /\ Cardinality(A) \in Nat /\ Cardinality(B) \in Nat
         /\ Cardinality(A) <= Cardinality(B) /\ Cardinality(B) <= MaxReqs
<1>1. IsFiniteSet(Reqs) /\ Cardinality(Reqs) = MaxReqs
  BY FS_Interval, StatsAssumption DEF Reqs
<1>2. IsFiniteSet(B) /\ Cardinality(B) <= MaxReqs
  BY <1>1, FS_Subset
<1> QED BY <1>2, FS_Subset, FS_CardinalityType

\* The timelines lag behind the totals, the responses behind the requests,
\* and a worker that looks has its own request counted and not yet answered.
LEMMA CountersOrdered ==
  ASSUME Labelled, Pipelined, EchoCounts
  PROVE  /\ recv_series <= echo_rx /\ resp_series <= echo_tx /\ echo_tx <= echo_rx
         /\ echo_rx <= MaxReqs /\ status_rx <= MaxReqs
         /\ \A l \in Places : worker[l] = "looking" /\ IsEcho(work_item[l]) => echo_tx < echo_rx
<1>1. \A l \in Places : Shown(l) \subseteq Taken(l) /\ Listed(l) \subseteq Noted(l)
                        /\ Noted(l) \subseteq Taken(l)
  BY DEF Shown, Listed, Noted, Taken
<1>2. EchoesShown \subseteq EchoesTaken /\ EchoesListed \subseteq EchoesNoted
      /\ EchoesNoted \subseteq EchoesTaken
  BY <1>1 DEF EchoesShown, EchoesTaken, EchoesNoted, EchoesListed, Noticed
<1>3. EchoesShown \subseteq Reqs /\ EchoesTaken \subseteq Reqs /\ EchoesNoted \subseteq Reqs
      /\ EchoesListed \subseteq Reqs /\ StatusTaken \subseteq Reqs
  BY StatsAssumption DEF EchoesShown, EchoesTaken, EchoesNoted, EchoesListed, StatusTaken, Reqs
<1>4. ASSUME NEW l \in Places, worker[l] = "looking", IsEcho(work_item[l])
      PROVE  echo_tx < echo_rx
  <2> DEFINE x == work_item[l]
  <2>1. /\ x \in Reqs /\ x \notin Elems(sent[l])
        /\ \A m \in Places \ {l} : x \notin Taken(m)
    BY <1>4, WorkItemAlone DEF Holding
  <2>2. x \in Taken(l)
    BY <1>4 DEF Taken, Handled
  <2>3. \A m \in Places : x \notin Noted(m)
    BY <1>1, <2>1 DEF Noted
  <2>4. x \in EchoesTaken /\ x \notin EchoesNoted
    BY <1>4, <2>1, <2>2, <2>3 DEF EchoesTaken, EchoesNoted
  <2> HIDE DEF x
  <2>5. EchoesNoted \cup {x} \subseteq EchoesTaken
    BY <1>2, <2>4
  <2>6. Cardinality(EchoesNoted \cup {x}) = Cardinality(EchoesNoted) + 1
    BY <1>3, <2>1, <2>4, OneMore
  <2>7. Cardinality(EchoesNoted) + 1 <= Cardinality(EchoesTaken)
    BY <1>3, <2>5, <2>6, FewerCounted
  <2>8. Cardinality(EchoesNoted) \in Nat /\ Cardinality(EchoesTaken) \in Nat
    BY <1>2, <1>3, FewerCounted
  <2> QED BY <2>7, <2>8 DEF EchoCounts
<1>5. /\ Cardinality(EchoesShown) <= Cardinality(EchoesTaken)
      /\ Cardinality(EchoesListed) <= Cardinality(EchoesNoted)
      /\ Cardinality(EchoesNoted) <= Cardinality(EchoesTaken)
      /\ Cardinality(EchoesTaken) <= MaxReqs /\ Cardinality(StatusTaken) <= MaxReqs
  BY <1>2, <1>3, FewerCounted
<1> QED BY <1>4, <1>5 DEF EchoCounts

\* A step that takes no snapshot leaves the snapshots true.
LEMMA SnapFrame ==
  ASSUME Typed, Labelled, Snapped, SnapshotCoherent, udp' = udp,
         recv_series' \in Nat, resp_series' \in Nat,
         recv_series <= recv_series', resp_series <= resp_series',
         \A r \in Places : \/ looking'[r] \in {"no", "recv"}
                           \/ /\ looking'[r] = looking[r] /\ snap'[r] = snap[r]
                              /\ work_item'[r] = work_item[r] /\ draining'[r] = draining[r]
  PROVE  (Snapped /\ SnapshotCoherent)'
<1> SUFFICES ASSUME NEW r \in Places, looking'[r] \notin {"no", "recv"}
             PROVE  /\ Past(r, {"resp", "processing", "interval", "totals"})' =>
                         snap'[r].recv <= recv_series'
                    /\ Past(r, {"processing", "interval", "totals"})' =>
                         snap'[r].resp <= resp_series'
                    /\ Past(r, {"interval", "totals", "done"})' /\ ~draining'[r] => snap'[r].processing >= 1
                    /\ looking'[r] = "done" =>
                         /\ snap'[r].recv <= snap'[r].rx /\ snap'[r].resp <= snap'[r].tx
                         /\ snap'[r].tx <= snap'[r].rx
                         /\ r \in links' /\ ~draining'[r] => snap'[r].processing >= 1
                         /\ r \in links' /\ IsEcho(work_item'[r]) => snap'[r].tx < snap'[r].rx
  BY DEF Snapped, SnapshotCoherent, Past
<1>1. looking'[r] = looking[r] /\ snap'[r] = snap[r] /\ work_item'[r] = work_item[r]
      /\ draining'[r] = draining[r]
      /\ links' = links
  BY DEF links
<1>2. /\ snap[r].recv \in Nat /\ snap[r].resp \in Nat
      /\ recv_series \in Nat /\ resp_series \in Nat
  BY DEF Typed
<1>3. /\ Past(r, {"resp", "processing", "interval", "totals"}) => snap[r].recv <= recv_series
      /\ Past(r, {"processing", "interval", "totals"}) => snap[r].resp <= resp_series
      /\ Past(r, {"interval", "totals", "done"}) /\ ~draining[r] => snap[r].processing >= 1
  BY DEF Snapped
<1>4. looking[r] = "done" =>
        /\ snap[r].recv <= snap[r].rx /\ snap[r].resp <= snap[r].tx
        /\ snap[r].tx <= snap[r].rx
        /\ r \in links /\ ~draining[r] => snap[r].processing >= 1
        /\ r \in links /\ IsEcho(work_item[r]) => snap[r].tx < snap[r].rx
  BY DEF SnapshotCoherent
<1>5. /\ Past(r, {"resp", "processing", "interval", "totals"})' => snap'[r].recv <= recv_series'
      /\ Past(r, {"processing", "interval", "totals"})' => snap'[r].resp <= resp_series'
      /\ Past(r, {"interval", "totals", "done"})' /\ ~draining'[r] => snap'[r].processing >= 1
  BY <1>1, <1>2, <1>3 DEF Past
<1> QED BY <1>1, <1>4, <1>5

\* A snapshot reads each part later than the part it must not exceed.
LEMMA LookCoherent ==
  ASSUME Typed, Labelled, Pipelined, EchoCounts, ProcessingExact, Snapped, SnapshotCoherent,
         NEW r \in Places, Snapshot(r)
  PROVE  (Snapped /\ SnapshotCoherent)'
<1> USE DEF network, workVars, series, counts, lookRest
<1>0. /\ UNCHANGED <<udp, worker, draining, work_item, recv_series, resp_series, processing, echo_rx, echo_tx>>
      /\ links' = links
  BY DEF Snapshot, LookRecv, LookResp, LookProcessing, LookInterval, LookTotals, links
<1>1. worker[r] = "looking" /\ r \in links
  BY DEF Snapshot, LookRecv, LookResp, LookProcessing, LookInterval, LookTotals, Look, Labelled
<1>2. /\ recv_series \in Nat /\ resp_series \in Nat /\ echo_rx \in Nat /\ echo_tx \in Nat
      /\ snap[r] \in [recv : Nat, resp : Nat, processing : Nat, rx : Nat, tx : Nat]
  BY DEF Typed
<1>3. \A q \in Places \ {r} : looking'[q] = looking[q] /\ snap'[q] = snap[q]
                              /\ work_item'[q] = work_item[q]
  BY <1>0 DEF Snapshot, LookRecv, LookResp, LookProcessing, LookInterval, LookTotals, Look, Typed
<1> DEFINE Fine(q) ==
      /\ Past(q, {"resp", "processing", "interval", "totals"}) => snap[q].recv <= recv_series
      /\ Past(q, {"processing", "interval", "totals"}) => snap[q].resp <= resp_series
      /\ Past(q, {"interval", "totals", "done"}) /\ ~draining[q] => snap[q].processing >= 1
      /\ looking[q] = "done" =>
           /\ snap[q].recv <= snap[q].rx /\ snap[q].resp <= snap[q].tx
           /\ snap[q].tx <= snap[q].rx
           /\ q \in links /\ ~draining[q] => snap[q].processing >= 1
           /\ q \in links /\ IsEcho(work_item[q]) => snap[q].tx < snap[q].rx
<1>4. \A q \in Places : Fine(q)
  BY DEF Snapped, SnapshotCoherent
<1>5. \A q \in Places \ {r} : Fine(q)'
  BY <1>0, <1>3, <1>4 DEF Past
<1>6. ASSUME Fine(r)' PROVE (Snapped /\ SnapshotCoherent)'
  <2> HIDE DEF Fine
  <2>1. \A q \in Places : Fine(q)'
    BY <1>5, <1>6
  <2> QED BY <2>1 DEF Fine, Snapped, SnapshotCoherent
<1>7. CASE LookRecv(r)
  <2>1. looking'[r] = "resp" /\ snap'[r].recv = recv_series
    BY <1>7 DEF LookRecv, Look, Typed, NoSnapshot
  <2> QED BY <1>0, <1>2, <1>6, <2>1 DEF Past
<1>8. CASE LookResp(r)
  <2>1. /\ looking[r] = "resp" /\ looking'[r] = "processing"
        /\ snap'[r] = [snap[r] EXCEPT !.resp = resp_series]
    BY <1>8 DEF LookResp, Look, Typed
  <2>2. snap'[r].resp = resp_series /\ snap'[r].recv = snap[r].recv
    BY <1>2, <2>1
  <2> QED BY <1>0, <1>2, <1>4, <1>6, <2>1, <2>2 DEF Past
<1>9. CASE LookProcessing(r)
  <2>1. /\ looking[r] = "processing" /\ looking'[r] = "interval"
        /\ snap'[r] = [snap[r] EXCEPT !.processing = processing]
    BY <1>9 DEF LookProcessing, Look, Typed
  <2>2. /\ snap'[r].resp = snap[r].resp /\ snap'[r].recv = snap[r].recv
        /\ snap'[r].processing = processing
    BY <1>2, <2>1
  <2>3. ~draining[r] => processing >= 1
    <3> SUFFICES ASSUME ~draining[r] PROVE processing >= 1
      OBVIOUS
    <3>1. r \in Busy
      BY <1>1 DEF Busy, InHandling
    <3>2. Cardinality(Busy) \in Nat /\ Cardinality(Busy) # 0
      BY <3>1, BusyFinite, FS_EmptySet
    <3> QED BY <3>2 DEF ProcessingExact, Busy
  <2> QED BY <1>0, <1>2, <1>4, <1>6, <2>1, <2>2, <2>3 DEF Past
<1>10. CASE LookInterval(r)
  <2>1. looking[r] = "interval" /\ looking'[r] = "totals" /\ snap'[r] = snap[r]
    BY <1>10 DEF LookInterval, Look, Typed
  <2> QED BY <1>0, <1>4, <1>6, <2>1 DEF Past
<1>11. CASE LookTotals(r)
  <2>1. /\ looking[r] = "totals" /\ looking'[r] = "done"
        /\ snap'[r] = [snap[r] EXCEPT !.rx = echo_rx, !.tx = echo_tx]
    BY <1>11 DEF LookTotals, Look, Typed
  <2>2. /\ snap'[r].resp = snap[r].resp /\ snap'[r].recv = snap[r].recv
        /\ snap'[r].processing = snap[r].processing
        /\ snap'[r].rx = echo_rx /\ snap'[r].tx = echo_tx
    BY <1>2, <2>1
  <2>3. /\ recv_series <= echo_rx /\ resp_series <= echo_tx /\ echo_tx <= echo_rx
        /\ IsEcho(work_item[r]) => echo_tx < echo_rx
    BY <1>1, CountersOrdered
  <2>4. snap[r].recv <= recv_series /\ snap[r].resp <= resp_series
        /\ (~draining[r] => snap[r].processing >= 1)
    BY <1>4, <2>1 DEF Past
  <2>5. snap[r].recv \in Nat /\ snap[r].resp \in Nat
    BY <1>2
  <2>6. snap[r].recv <= echo_rx /\ snap[r].resp <= echo_tx
    BY <1>2, <2>3, <2>4, <2>5
  <2> QED BY <1>0, <1>6, <2>1, <2>2, <2>3, <2>4, <2>6 DEF Past
<1> QED BY <1>7, <1>8, <1>9, <1>10, <1>11 DEF Snapshot

\* Every other step leaves the snapshots true: the counters only grow, and a
\* worker keeps its request while it looks.
LEMMA NextCoherent ==
  ASSUME Typed, Labelled, Pipelined, EchoCounts, ProcessingExact, Snapped, SnapshotCoherent,
         [Next]_vars
  PROVE  (Snapped /\ SnapshotCoherent)'
<1> USE DEF network, workVars, series, readVars, lookRest, threads
<1>0. recv_series \in Nat /\ resp_series \in Nat
  BY DEF Typed
<1>1. ASSUME NEW l \in links, Worker(l) PROVE (Snapped /\ SnapshotCoherent)'
  <2> USE DEF workRest, loopRest
  <2>0. l \in Places /\ udp' = udp /\ resp_series' = resp_series
        /\ (recv_series' = recv_series \/ recv_series' = recv_series + 1)
    BY <1>1 DEF Worker, WorkTest, WorkLeave, WorkEmpty, WorkGet, WorkDrain, WorkDrained,
     WorkCount, Handle, HandleAdd, HandleLook, HandleLooked, WorkUncount, WorkPut, links, Places
  <2>1. recv_series' \in Nat /\ recv_series <= recv_series'
    BY <1>0, <2>0
  <2>2. \A r \in Places \ {l} : looking'[r] = looking[r] /\ snap'[r] = snap[r]
                                /\ work_item'[r] = work_item[r] /\ draining'[r] = draining[r]
    BY <1>1, <2>0 DEF Worker, WorkTest, WorkLeave, WorkEmpty, WorkGet, WorkDrain, WorkDrained,
     WorkCount, Handle, HandleAdd, HandleLook, HandleLooked, WorkUncount, WorkPut, Typed
  <2>3. looking'[l] \in {"no", "recv"}
    <3>1. CASE HandleLook(l) \/ HandleLooked(l)
      BY <2>0, <3>1 DEF HandleLook, HandleLooked, Typed
    <3>2. CASE ~(HandleLook(l) \/ HandleLooked(l))
      <4>1. looking' = looking /\ worker[l] # "looking"
        BY <1>1, <3>2 DEF Worker, WorkTest, WorkLeave, WorkEmpty, WorkGet, WorkDrain, WorkDrained,
                          WorkCount, Handle, HandleAdd, WorkUncount, WorkPut, Work
      <4> QED BY <2>0, <4>1 DEF Labelled
    <3> QED BY <3>1, <3>2
  <2> QED BY <1>0, <2>0, <2>1, <2>2, <2>3, SnapFrame
<1>2. ASSUME UNCHANGED <<udp, recv_series, work_item, draining, looking, snap>>,
             resp_series' = resp_series \/ resp_series' = resp_series + 1
      PROVE  (Snapped /\ SnapshotCoherent)'
  <2>1. resp_series' \in Nat /\ resp_series <= resp_series' /\ recv_series <= recv_series'
    BY <1>0, <1>2
  <2> QED BY <1>0, <1>2, <2>1, SnapFrame
<1>3. ASSUME NEW l \in links, Writer(l) PROVE (Snapped /\ SnapshotCoherent)'
  BY <1>2, <1>3 DEF Writer, WriteTest, WriteEmpty, WriteGet, WriteSend, WriteFail, WriteNote,
                    WriteAdd, writeRest
<1>4. CASE Request \/ UdpRead \/ StopCall \/ Stop
  BY <1>2, <1>4 DEF Request, UdpRead, UdpReadTest, UdpReadRecv, UdpReadNothing,
                    StopCall, Stop, StopClose, StopJoin
<1>5. ASSUME NEW r \in Places, Snapshot(r) PROVE (Snapped /\ SnapshotCoherent)'
  BY <1>5, LookCoherent
<1>6. CASE UNCHANGED vars
  BY <1>2, <1>6 DEF vars
<1>7. ASSUME NEW l \in links, Close(l) PROVE (Snapped /\ SnapshotCoherent)'
  BY <1>2, <1>7 DEF Close
<1> QED BY <1>1, <1>3, <1>4, <1>5, <1>6, <1>7 DEF Next, Finished

-----------------------------------------------------------------------------
(* The theorems *)

\* Initially nothing is counted.
LEMMA InitCounts == Init => EchoCounts /\ ProcessingExact /\ IntervalConserved
                            /\ Snapped /\ SnapshotCoherent
<1> SUFFICES ASSUME Init
             PROVE  EchoCounts /\ ProcessingExact /\ IntervalConserved /\ Snapped /\ SnapshotCoherent
  OBVIOUS
<1>1. \A l \in Places : /\ sent[l] = <<>> /\ txq[l] = <<>>
                        /\ worker[l] = "test" /\ writer[l] = "test" /\ looking[l] = "no"
  BY DEF Init
<1>2. \A l \in Places : Taken(l) = {} /\ Shown(l) = {} /\ Noted(l) = {} /\ Listed(l) = {}
  BY <1>1, EmptyQueue DEF Taken, Shown, Noted, Listed, Hand, Handled
<1>3. EchoesTaken = {} /\ EchoesShown = {} /\ EchoesNoted = {} /\ EchoesListed = {}
      /\ StatusTaken = {}
  BY <1>2 DEF Init, EchoesTaken, EchoesShown, EchoesNoted, EchoesListed, StatusTaken
<1>4. EchoCounts
  BY <1>3, FS_EmptySet DEF Init, EchoCounts
<1>5. ProcessingExact
  <2>1. Busy = {}
    BY <1>1 DEF Busy, InHandling, links, Places
  <2> QED BY <2>1, FS_EmptySet DEF Init, ProcessingExact, Busy
<1>6. IntervalConserved
  BY DEF Init, IntervalConserved
<1>7. Snapped /\ SnapshotCoherent
  BY <1>1 DEF Snapped, SnapshotCoherent, Past
<1> QED BY <1>4, <1>5, <1>6, <1>7

\* The inductive invariant holds throughout every run of the server.
THEOREM Invariance == Spec => []IInv
<1>1. Init => IInv
  BY InitPipe, InitCounts DEF IInv, Counted, EchoCounts
<1>2. IInv /\ [Next]_vars => IInv'
  <2> SUFFICES ASSUME IInv, [Next]_vars PROVE IInv'
    OBVIOUS
  <2>1. Typed /\ Labelled /\ Pipelined /\ EchoCounts /\ ProcessingExact /\ IntervalConserved
        /\ Snapped /\ SnapshotCoherent
    BY DEF IInv, Counted, EchoCounts
  <2>2. (Typed /\ Labelled /\ Pipelined /\ EchoCounts /\ ProcessingExact /\ IntervalConserved
         /\ Snapped /\ SnapshotCoherent)'
    BY <2>1, NextTyped, NextPipe, NextCounts, NextProcessing, NextInterval, NextCoherent
  <2> QED BY <2>2 DEF IInv, Counted, EchoCounts
<1> QED BY <1>1, <1>2, PTL DEF Spec

\* What is counted as received and not as answered is in the server, has
\* failed, or was too long for its response to be noted.
LEMMA Balance ==
  ASSUME Labelled, Pipelined, EchoCounts
  PROVE  TotalsBalance
<1> DEFINE moving(l) == Handled(l) \cup Elems(txq[l]) \cup Answering(l)
           inside(l) == moving(l) \cup PassedOver(l)
           B == {r \in Reqs : IsEcho(r) /\ (r \in failed \/ \E l \in links : r \in inside(l))}
<1>1. ASSUME NEW l \in Places
      PROVE  Taken(l) = Noted(l) \cup moving(l) /\ Noted(l) \cap moving(l) = {}
  <2>1. Answering(l) = Hand(l) \cup (IF writer[l] = "note" THEN {write_item[l]} ELSE {})
    BY DEF Answering, Hand
  <2>2. writer[l] = "note" => write_item[l] \in Elems(sent[l])
    BY DEF Pipelined, Noting
  <2>3. Taken(l) = Noted(l) \cup moving(l)
    BY <2>1, <2>2 DEF Taken, Noted
  <2>4. Handled(l) \subseteq InWork(l)
    BY DEF Handled, InWork, Holding
  <2>5. Elems(sent[l]) \cap (Hand(l) \cup Elems(txq[l]) \cup Handled(l)) = {}
    <3>1. Elems(sent[l]) \subseteq Int
      <4>1. Elems(sent[l]) \subseteq 1..written
        BY DEF Pipelined, Apart, Held
      <4> QED BY <4>1
    <3> QED BY <2>4, <3>1 DEF Pipelined, LinkOrder, Before
  <2> QED BY <2>1, <2>3, <2>5 DEF Noted
<1>2. \A l \in Places : Taken(l) \subseteq Held(l)
  BY DEF Taken, Held, Handled, InWork, Holding
<1> HIDE DEF moving
<1>3. ASSUME NEW l \in Places, NEW r, IsEcho(r)
      PROVE  /\ r \in Taken(l) <=> (Noticed(r) /\ r \in Noted(l)) \/ r \in inside(l)
             /\ ~(Noticed(r) /\ r \in Noted(l) /\ r \in inside(l))
  <2>1. Noted(l) \subseteq Elems(sent[l]) /\ Elems(sent[l]) \subseteq Taken(l)
    BY DEF Noted, Taken
  <2>2. Noticed(r) => r \notin PassedOver(l)
    BY DEF Noticed, PassedOver
  <2>3. ~Noticed(r) /\ r \in Elems(sent[l]) => r \in PassedOver(l)
    BY <1>3 DEF Noticed, PassedOver
  <2>4. r \in PassedOver(l) => r \in Elems(sent[l])
    BY DEF PassedOver
  <2> QED BY <1>1, <2>1, <2>2, <2>3, <2>4
<1>4. \A l \in Places \ links : Taken(l) = {}
  BY EmptyQueue DEF Labelled, Taken, Hand, Handled
<1>5. links \subseteq Places /\ \A r : Noticed(r) => IsEcho(r)
  BY DEF links, Places, Noticed
<1> HIDE DEF inside
<1>6. EchoesTaken = EchoesNoted \cup B
  <2>1. ASSUME NEW r \in EchoesTaken PROVE r \in EchoesNoted \cup B
    BY <1>3, <1>4, <2>1 DEF EchoesTaken, EchoesNoted
  <2>2. ASSUME NEW r \in EchoesNoted \cup B PROVE r \in EchoesTaken
    BY <1>3, <1>5, <2>2 DEF EchoesTaken, EchoesNoted
  <2> QED BY <2>1, <2>2
<1>7. ASSUME NEW l \in Places, NEW m \in Places, NEW r, Noticed(r), r \in Noted(l)
      PROVE  r \notin inside(m)
  <2>1. CASE l = m
    BY <1>3, <1>5, <1>7, <2>1
  <2>2. CASE l # m
    <3>1. r \in Held(l)
      BY <1>2, <1>3, <1>5, <1>7
    <3>2. r \in inside(m) => r \in Held(m)
      BY <1>2, <1>3, <1>5, <1>7
    <3> QED BY <2>2, <3>1, <3>2 DEF Pipelined, Apart
  <2> QED BY <2>1, <2>2
<1>8. \A l \in Places : Noted(l) \cap failed = {}
  BY <1>1, <1>2 DEF Pipelined, Apart
<1>9. EchoesNoted \cap B = {}
  BY <1>5, <1>7, <1>8 DEF EchoesNoted
<1>10. B \subseteq Reqs /\ EchoesNoted \subseteq Reqs
  BY DEF EchoesNoted
<1>11. TotalsBalance <=> echo_rx - echo_tx = Cardinality(B)
  BY DEF TotalsBalance, Reqs, inside, moving
<1> HIDE DEF B
<1>12. /\ IsFiniteSet(B) /\ IsFiniteSet(EchoesNoted)
       /\ Cardinality(B) \in Nat /\ Cardinality(EchoesNoted) \in Nat
  <2>1. IsFiniteSet(Reqs)
    BY FS_Interval, StatsAssumption DEF Reqs
  <2> QED BY <1>10, <2>1, FS_Subset, FS_CardinalityType
<1>13. Cardinality(EchoesTaken) = Cardinality(EchoesNoted) + Cardinality(B)
  <2>1. Cardinality(EchoesNoted \cap B) = 0
    BY <1>9, FS_EmptySet
  <2>2. Cardinality(EchoesNoted \cup B)
          = Cardinality(EchoesNoted) + Cardinality(B) - Cardinality(EchoesNoted \cap B)
    BY <1>12, FS_Union
  <2> QED BY <1>6, <1>12, <2>1, <2>2
<1> QED BY <1>11, <1>12, <1>13 DEF EchoCounts

\* The counters all workers and writers share are exact: the requests being
\* processed, the intervals, and the totals of requests and responses.
THEOREM CountersAreExact == Spec => []CountersExact
<1>1. IInv => CountersExact
  BY Balance DEF IInv, Counted, EchoCounts, CountersExact
<1> QED BY <1>1, Invariance, PTL

\* No snapshot contradicts itself, although its parts are read one by one
\* while the threads go on counting.
THEOREM SnapshotsCohere == Spec => []SnapshotCoherent
<1>1. IInv => SnapshotCoherent
  BY DEF IInv
<1> QED BY <1>1, Invariance, PTL

\* Each worker that is processing holds a request of its own, so no more are
\* processed than were written.
LEMMA ProcessingBound ==
  ASSUME Labelled, Pipelined, ProcessingExact
  PROVE  processing <= MaxReqs
<1> DEFINE f == [l \in Busy |-> work_item[l]]
<1>1. \A l \in Busy : l \in Places /\ worker[l] \in Holding
  BY DEF Busy, InHandling, Holding, links, Places
<1>2. \A l \in Busy : work_item[l] \in Reqs /\ InWork(l) = {work_item[l]}
  BY <1>1 DEF Labelled, InWork
<1>3. \A l, m \in Busy : work_item[l] = work_item[m] => l = m
  BY <1>1, <1>2 DEF Pipelined, Apart, Held
<1>4. f \in Injection(Busy, Reqs)
  BY <1>2, <1>3 DEF Injection, IsInjective
<1>5. IsFiniteSet(Reqs) /\ Cardinality(Reqs) = MaxReqs
  BY FS_Interval, StatsAssumption DEF Reqs
<1> HIDE DEF f
<1>6. Cardinality(Busy) <= MaxReqs
  BY <1>4, <1>5, FS_Injection
<1> QED BY <1>6 DEF ProcessingExact, Busy

\* Every variable keeps its type; the counters stay within the requests.
THEOREM TypeCorrect == Spec => []TypeOK
<1>1. ASSUME IInv PROVE TypeOK
  <2>1. /\ recv_series <= echo_rx /\ resp_series <= echo_tx /\ echo_tx <= echo_rx
        /\ echo_rx <= MaxReqs /\ status_rx <= MaxReqs /\ processing <= MaxReqs
    BY <1>1, CountersOrdered, ProcessingBound DEF IInv, Counted, EchoCounts
  <2>2. /\ processing \in Nat /\ echo_rx \in Nat /\ echo_tx \in Nat /\ status_rx \in Nat
        /\ interval_rx \in Nat /\ interval_tx \in Nat /\ recv_series \in Nat /\ resp_series \in Nat
        /\ collected.rx \in Nat /\ collected.tx \in Nat
    BY <1>1 DEF IInv, Typed
  <2>3. interval_rx <= echo_rx /\ interval_tx <= echo_tx
    BY <1>1, <2>2 DEF IInv, Counted, IntervalConserved
  <2>4. \A n \in {processing, echo_rx, echo_tx, status_rx, interval_rx, interval_tx,
                  recv_series, resp_series} : n \in 0..MaxReqs
    BY <2>1, <2>2, <2>3, StatsAssumption
  <2> QED BY <1>1, <2>4 DEF TypeOK, IInv, Typed, Reqs
<1> QED BY <1>1, Invariance, PTL
=============================================================================
