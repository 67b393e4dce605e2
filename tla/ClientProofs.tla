----------------------------- MODULE ClientProofs -----------------------------
(***************************************************************************)
(* What the binary client guarantees whatever the number of connections,   *)
(* requests and probes.  The client EXTENDS the book, so the book's own    *)
(* theorems (InflightBookProofs) hold of it once UsesBook is proved.       *)
(***************************************************************************)
EXTENDS Client, InflightBookProofs, SequenceFacts

\* Every variable has its type; the locals are reset when they are dead.
Typed ==
  /\ pc \in [Threads -> Labels] /\ rpc \in [Conns -> ReaderLabels]
  /\ seq \in Nat /\ offered \in Nat /\ wire_sent \in Nat /\ received \in Nat /\ late \in Nat
  /\ status_sent \in Nat /\ status_received \in Nat
  /\ txq \in Seq(Seqs) /\ wire \in [Conns -> Seq(Seqs)] /\ frames \in [Conns -> Seq(Seqs)]
  /\ sched_stop \in BOOLEAN /\ stopped \in BOOLEAN /\ closed \in BOOLEAN
  /\ send_clock \in 0..now /\ rr \in Data
  /\ reply \in [Conns -> [seq : Nat, clock : Nat, kind : {"none", "ok", "late"}, sent : Nat \cup {NotSent}]]
  /\ rtts \subseteq Int

\* The threads that hold a number.
Offering == pc["schedule"] \in {"add", "put"}
Writing  == pc["send"] \in {"write", "drop"}
Wrote    == pc["send"] \in {"clock", "mark"}
Probing  == pc["probe"] \in {"add", "write", "mark"}

Holding ==
  /\ IF Offering THEN offer_seq \in Seqs ELSE offer_seq = 0
  /\ IF Writing \/ Wrote THEN item \in Seqs ELSE item = 0
  /\ IF Probing THEN probe_seq \in Seqs ELSE probe_seq = 0
  /\ \A c \in Conns : rpc[c] \in {"take", "count"} => reply[c].seq \in Seqs
  /\ \A c \in Conns : rpc[c] \in {"recv", "done"} => frames[c] = <<>>

Echoes == {s \in Seqs : added_at[s] # 0 /\ Tracked(s)}
Probes == {s \in Seqs : ~Tracked(s)}

One(p) == IF p THEN 1 ELSE 0

\* _next_seq never hands out a number twice, nor more than there are.
Numbered ==
  /\ \A s \in Seqs : added_at[s] # 0 => s <= seq
  /\ \A s \in Probes : added_at[s] # 0
  /\ seq = offered + Cardinality(Probes) + One(pc["probe"] = "add")
  /\ Cardinality(Probes) + One(pc["probe"] = "add") <= MaxProbes
  /\ offered = Cardinality(Echoes) + One(pc["schedule"] = "add")
  /\ offered + One(pc["schedule"] \in {"check", "pause", "room", "offer"}) <= MaxEchoes
  /\ pc["schedule"] = "add" => added_at[offer_seq] = 0 /\ offer_seq <= seq
  /\ pc["probe"] = "add" => added_at[probe_seq] = 0 /\ probe_seq <= seq
  /\ pc["schedule"] = "add" /\ pc["probe"] = "add" => offer_seq # probe_seq

\* The requests on their way to the writer, oldest first, are ECHOs that wait
\* in the open table.
Queued ==
  /\ Increasing(txq)
  /\ pc["send"] # "done" => Elems(txq) \subseteq open
  /\ \A s \in Elems(txq) : added_at[s] # 0 /\ Tracked(s) /\ ~Sent(s)
  /\ pc["schedule"] = "put" => offer_seq \in open /\ Tracked(offer_seq) /\ ~Sent(offer_seq)
  /\ Offering => Before(Elems(txq), {offer_seq}) /\ item < offer_seq
  /\ Writing => item \in open /\ Tracked(item) /\ ~Sent(item) /\ Before({item}, Elems(txq))
  /\ Wrote => item \in open \cup Answered /\ Tracked(item) /\ ~Sent(item)
               /\ Before({item}, Elems(txq))
  /\ pc["probe"] = "write" => probe_seq \in open /\ ~Tracked(probe_seq) /\ ~Sent(probe_seq)
  /\ pc["probe"] = "mark" =>
       probe_seq \in open \cup Answered /\ ~Tracked(probe_seq) /\ ~Sent(probe_seq)

\* What a reader has in hand; what is out on a connection.
Hand(c) == Elems(frames[c]) \cup (IF rpc[c] = "take" THEN {reply[c].seq} ELSE {})
Out(c)  == Hand(c) \cup Elems(wire[c])

\* Written and not yet marked.
InFlight(s) == (Wrote /\ s = item) \/ (pc["probe"] = "mark" /\ s = probe_seq)

\* A number that has been on a connection.
Written(s) == added_at[s] # 0 /\ (Sent(s) \/ s \in Answered \/ InFlight(s))

\* A response is a request's, on the connection it was written to; only an
\* unanswered request may have a second copy on the way.
Carried ==
  /\ \A c \in Conns : Distinct(wire[c]) /\ Distinct(frames[c])
  /\ \A c \in Conns : rpc[c] = "take" => reply[c].seq \notin Elems(frames[c])
  /\ \A c, d \in Conns : c # d => Out(c) \cap Out(d) = {}
  /\ \A c \in Conns : Hand(c) \cap Answered \cap Elems(wire[c]) = {}
  /\ \A c \in Conns : \A s \in Out(c) : Written(s)

\* Every number marked sent is open, lost or answered; only these are lost.
Marked ==
  /\ \A s \in Seqs : Sent(s) => added_at[s] # 0 /\ s \in open \cup Stamped(lost_at) \cup Answered
  /\ \A s \in Stamped(lost_at) : Sent(s)

Settled  == {s \in Answered : \A c \in Conns : s \notin Out(c)}
Counting == {c \in Conns : rpc[c] = "count" /\ Tracked(reply[c].seq)}
ProbesCounting == {c \in Conns : rpc[c] = "count" /\ ~Tracked(reply[c].seq)}
Gone     == {s \in Seqs : Tracked(s) /\ (Sent(s) \/ s \in Answered)}
GoneProbes == {s \in Seqs : ~Tracked(s) /\ (Sent(s) \/ s \in Answered)}

Counted ==
  /\ \A c \in Conns : rpc[c] = "count" => reply[c].seq \in Answered
  /\ duplicates <= Cardinality(Settled)
  /\ received + Cardinality(Counting) = Cardinality({s \in Answered : Tracked(s)})
  /\ status_received + Cardinality(ProbesCounting) = Cardinality({s \in Answered : ~Tracked(s)})
  /\ wire_sent + One(pc["send"] = "count") = Cardinality(Gone \ {item})
  /\ status_sent = Cardinality(GoneProbes \ {probe_seq})

\* The last reap comes after every thread has ended, and empties open.
WoundUp ==
  /\ pc["stop"] \in {"reap", "done"} =>
       /\ \A th \in Threads \ {"stop"} : pc[th] = "done"
       /\ \A c \in Conns : rpc[c] = "done"
  /\ pc["stop"] = "done" => open = {}

CInv == Typed /\ Holding /\ Numbered /\ Queued /\ Carried /\ Marked /\ Counted /\ WoundUp

\* OverrunByOne is not inductive alone: the queue is over its limit only after
\* an offer made while sched_stop was set, and that offer is the last.
Overrun ==
  MaxPending # Unlimited =>
    /\ Len(txq) <= MaxPending \/ (sched_stop /\ pc["schedule"] \in {"loop", "done"})
    /\ pc["schedule"] \in {"offer", "add", "put"} /\ ~sched_stop => Len(txq) < MaxPending

-----------------------------------------------------------------------------
(* Where the threads are *)

\* A step of one thread leaves the others where they are.
LEMMA ScheduleSteps ==
  ASSUME pc \in [Threads -> Labels], NEW a, NEW b, Step("schedule", a, b)
  PROVE  /\ (b \in Labels => pc' \in [Threads -> Labels]) /\ pc["schedule"] = a /\ pc'["schedule"] = b
         /\ pc'["send"] = pc["send"] /\ pc'["probe"] = pc["probe"]
         /\ pc'["reap"] = pc["reap"] /\ pc'["stop"] = pc["stop"]
BY DEF Step, Threads

LEMMA SendSteps ==
  ASSUME pc \in [Threads -> Labels], NEW a, NEW b, Step("send", a, b)
  PROVE  /\ (b \in Labels => pc' \in [Threads -> Labels]) /\ pc["send"] = a /\ pc'["send"] = b
         /\ pc'["schedule"] = pc["schedule"] /\ pc'["probe"] = pc["probe"]
         /\ pc'["reap"] = pc["reap"] /\ pc'["stop"] = pc["stop"]
BY DEF Step, Threads

LEMMA ProbeSteps ==
  ASSUME pc \in [Threads -> Labels], NEW a, NEW b, Step("probe", a, b)
  PROVE  /\ (b \in Labels => pc' \in [Threads -> Labels]) /\ pc["probe"] = a /\ pc'["probe"] = b
         /\ pc'["schedule"] = pc["schedule"] /\ pc'["send"] = pc["send"]
         /\ pc'["reap"] = pc["reap"] /\ pc'["stop"] = pc["stop"]
BY DEF Step, Threads

LEMMA ReapSteps ==
  ASSUME pc \in [Threads -> Labels], NEW a, NEW b, Step("reap", a, b)
  PROVE  /\ (b \in Labels => pc' \in [Threads -> Labels]) /\ pc["reap"] = a /\ pc'["reap"] = b
         /\ pc'["schedule"] = pc["schedule"] /\ pc'["send"] = pc["send"]
         /\ pc'["probe"] = pc["probe"] /\ pc'["stop"] = pc["stop"]
BY DEF Step, Threads

LEMMA StopSteps ==
  ASSUME pc \in [Threads -> Labels], NEW a, NEW b, Step("stop", a, b)
  PROVE  /\ (b \in Labels => pc' \in [Threads -> Labels]) /\ pc["stop"] = a /\ pc'["stop"] = b
         /\ pc'["schedule"] = pc["schedule"] /\ pc'["send"] = pc["send"]
         /\ pc'["probe"] = pc["probe"] /\ pc'["reap"] = pc["reap"]
BY DEF Step, Threads

LEMMA ReaderSteps ==
  ASSUME rpc \in [Conns -> ReaderLabels], NEW c \in Conns, NEW a, NEW b,
         RStep(c, a, b)
  PROVE  /\ (b \in ReaderLabels => rpc' \in [Conns -> ReaderLabels]) /\ rpc[c] = a /\ rpc'[c] = b
         /\ \A d \in Conns \ {c} : rpc'[d] = rpc[d]
BY DEF RStep

-----------------------------------------------------------------------------
(* What the methods of the book do to what the threads rely on *)

LEMMA AddSeen ==
  ASSUME IInv, Marked, NEW s \in Seqs, added_at[s] = 0, NEW kind \in {ECHO, STATUS}, Add(s, kind)
  PROVE  /\ s \notin open /\ s \notin Answered /\ s \notin Stamped(lost_at) /\ ~Sent(s)
         /\ open' = open \cup {s}
         /\ \A r \in Seqs : added_at'[r] # 0 <=> added_at[r] # 0 \/ r = s
         /\ mtype' = [mtype EXCEPT ![s] = kind]
         /\ UNCHANGED <<acked_at, lost_at, send_mono, duplicates>>
<1>1. added_at \in [Seqs -> Nat] /\ NextStamp(added_at) \in Nat \ {0}
  BY NextStampPositive DEF IInv, TypeOK
<1>2. s \notin open /\ s \notin Answered /\ s \notin Stamped(lost_at) /\ ~Sent(s)
  BY DEF IInv, Placement, Marked, Answered, Stamped
<1>3. send_mono' = send_mono
  BY <1>2 DEF Add, Sent, IInv, TypeOK
<1>4. \A r \in Seqs : added_at'[r] # 0 <=> added_at[r] # 0 \/ r = s
  BY <1>1 DEF Add
<1> QED BY <1>2, <1>3, <1>4 DEF Add, counters

LEMMA MarkSeen ==
  ASSUME IInv, NEW s \in Seqs, NEW t \in Nat, MarkSent(s, t)
  PROVE  /\ send_mono' \in [Seqs -> Nat \cup {NotSent}]
         /\ \A r \in Seqs : Sent(r)' <=> Sent(r) \/ (r = s /\ s \in open)
         /\ UNCHANGED <<open, added_at, acked_at, lost_at, mtype, duplicates>>
BY BookAssumption DEF MarkSent, Sent, IInv, TypeOK, tables, stamps, counters

LEMMA DropSeen ==
  ASSUME NEW s, DropUnsent(s)
  PROVE  /\ open' = IF Sent(s) THEN open ELSE open \ {s}
         /\ UNCHANGED <<added_at, acked_at, lost_at, mtype, send_mono, duplicates>>
BY DEF DropUnsent, stamps

LEMMA TakeSeen ==
  ASSUME IInv, NEW s \in Seqs, Take(s)
  PROVE  /\ UNCHANGED <<added_at, lost_at, mtype, send_mono>>
         /\ IF Used(TakeKind(s))
              THEN /\ s \notin Answered /\ Answered' = Answered \cup {s}
                   /\ open' = open \ {s} /\ duplicates' = duplicates
              ELSE Answered' = Answered /\ open' = open
         /\ TakeKind(s) = "duplicate" => s \in Answered /\ duplicates' = duplicates + 1
         /\ TakeKind(s) # "duplicate" => duplicates' = duplicates
<1>0. /\ acked_at \in [Seqs -> Nat] /\ NextStamp(acked_at) \in Nat \ {0}
      /\ TakeKind(s) \in {"duplicate", "ok", "late", "unknown"}
  BY NextStampPositive DEF IInv, TypeOK, TakeKind
<1>1. CASE TakeKind(s) = "duplicate"
  <2>1. s \in Answered
    BY <1>1 DEF TakeKind, IInv, Placement, Answered, Stamped
  <2> QED BY <1>1, <2>1 DEF Take, TakeDuplicate, Used, Answered, stamps, tables
<1>2. CASE TakeKind(s) = "ok"
  <2>1. TakeOk(s) /\ s \in open
    BY <1>2 DEF Take, TakeKind
  <2>2. s \notin Answered /\ Answered' = Answered \cup {s}
    BY <1>0, <2>1 DEF TakeOk, IInv, Placement, Answered, Stamped
  <2> QED BY <1>2, <2>1, <2>2 DEF TakeOk, Used
<1>3. CASE TakeKind(s) = "late"
  <2>1. TakeLate(s) /\ s \in lost_seqs /\ s \notin open
    BY <1>3 DEF Take, TakeKind
  <2>2. s \notin Answered /\ Answered' = Answered \cup {s}
    BY <1>0, <2>1 DEF TakeLate, IInv, Placement, Answered, Stamped
  <2>3. open' = open \ {s}
    BY <2>1 DEF TakeLate
  <2> QED BY <1>3, <2>1, <2>2, <2>3 DEF TakeLate, Used
<1>4. CASE TakeKind(s) = "unknown"
  BY <1>4 DEF Take, Used, bookVars, Answered, stamps, tables, counters
<1> QED BY <1>0, <1>1, <1>2, <1>3, <1>4

LEMMA ReapSeen ==
  ASSUME IInv, NEW t \in Nat, NEW force \in BOOLEAN, Reap(t, force)
  PROVE  /\ UNCHANGED <<added_at, acked_at, mtype, send_mono, duplicates>>
         /\ open' = open \ (Expired(t, force) \cup (IF force THEN NeverSent ELSE {}))
         /\ force => open' = {}
         /\ Stamped(lost_at)' = Stamped(lost_at) \cup Expired(t, force)
<1> DEFINE due == Expired(t, force)
           at  == StampAll(lost_at, due, added_at)
<1>1. due \in SUBSET Seqs /\ lost_at \in [Seqs -> Nat] /\ added_at \in [Seqs -> Nat]
  BY DEF Expired, IInv, TypeOK
<1>2. at \in [Seqs -> Nat] /\ (\A s \in due : at[s] # 0) /\ (\A s \in Seqs \ due : at[s] = lost_at[s])
  <2> HIDE DEF due
  <2> QED BY <1>1, StampAllFacts
<1>3. lost_at' = at
  BY DEF Reap
<1>4. Stamped(lost_at)' = Stamped(lost_at) \cup due
  <2> HIDE DEF due, at
  <2> QED BY <1>1, <1>2, <1>3 DEF Stamped
<1>5. open' = open \ (due \cup (IF force THEN NeverSent ELSE {}))
  BY DEF Reap
<1>6. force => open' = {}
  BY <1>5 DEF Expired, NeverSent
<1> QED BY <1>4, <1>5, <1>6 DEF Reap

-----------------------------------------------------------------------------
(* Types *)

\* The round robin of the writer stays within the data connections.
LEMMA ConnFacts ==
  /\ IsFiniteSet(Conns) /\ Data \subseteq Conns /\ Ctrl \in Conns /\ 0 \in Data
  /\ \A r \in Data : (r + 1) % Cardinality(Data) \in Data
<1>1. CASE Udp
  <2>1. Data = {0} /\ Conns = {0} /\ Ctrl = 0 /\ Cardinality(Data) = 1
    BY <1>1, FS_Singleton DEF Data, Ctrl, Conns
  <2>2. (0 + 1) % 1 = 0
    OBVIOUS
  <2>3. \A r \in Data : (r + 1) % Cardinality(Data) \in Data
    BY <2>1, <2>2
  <2>4. IsFiniteSet(Conns)
    BY <2>1, FS_Singleton
  <2> QED BY <2>1, <2>3, <2>4
<1>2. CASE ~Udp
  <2>0. Connections \in Nat \ {0}
    BY ClientAssumption
  <2>1. /\ Data = 0..(Connections - 1) /\ Ctrl = Connections /\ Conns = 0..Connections
        /\ 0 - 1 + Connections - 0 + 1 = Connections
    BY <1>2, <2>0 DEF Data, Ctrl, Conns
  <2>2. IsFiniteSet(Conns) /\ Cardinality(Data) = Connections
    BY <2>0, <2>1, FS_Interval
  <2> QED BY <2>0, <2>1, <2>2
<1> QED BY <1>1, <1>2

LEMMA SeqsRange ==
  /\ MaxEchoes \in Nat /\ MaxProbes \in Nat /\ Seqs = 1..(MaxEchoes + MaxProbes)
  /\ \A n \in Nat : n + 1 <= MaxEchoes + MaxProbes => n + 1 \in Seqs
BY ClientAssumption

LEMMA NextTyped ==
  ASSUME IInv, IInv', Typed, Holding, [ClientNext]_clientVars
  PROVE  Typed'
<1> USE DEF Typed, Labels, ReaderLabels
<1>0. /\ now \in Nat /\ now' \in Nat /\ send_clock \in Nat /\ send_clock <= now /\ 0 \in 0..now
      /\ 0..now \subseteq Nat /\ now \in 0..now
  BY BookAssumption DEF IInv, TypeOK
<1>1. CASE Schedule
  <2>0. UNCHANGED <<rpc, wire_sent, received, late, status_sent, status_received, wire, frames,
                    sched_stop, stopped, closed, send_clock, rr, reply, rtts, now>>
    BY <1>1 DEF Schedule, SchedDue, SchedCheck, SchedPause, SchedRoom, SchedOffer, SchedAdd,
       SchedPut,
                schedRest, vars, flags, sender, reader, counts
  <2>1. CASE SchedDue \/ SchedCheck \/ SchedPause \/ SchedRoom
    <3>1. pc' \in [Threads -> Labels]
      BY <2>1, ScheduleSteps DEF SchedDue, SchedCheck, SchedPause, SchedRoom
    <3> QED BY <2>0, <2>1, <3>1 DEF SchedDue, SchedCheck, SchedPause, SchedRoom
  <2>2. CASE SchedOffer
    BY <2>0, <2>2, ScheduleSteps DEF SchedOffer
  <2>3. CASE SchedAdd
    BY <2>0, <2>3, ScheduleSteps DEF SchedAdd, counts
  <2>4. CASE SchedPut
    <3>1. offer_seq \in Seqs /\ pc' \in [Threads -> Labels]
      BY <2>4, ScheduleSteps DEF SchedPut, Holding, Offering
    <3> QED BY <2>0, <2>4, <3>1, AppendProperties DEF SchedPut
  <2> QED BY <1>1, <2>1, <2>2, <2>3, <2>4 DEF Schedule
<1>2. CASE Send
  <2>0. UNCHANGED <<rpc, seq, offered, received, late, status_sent, status_received, frames,
                    sched_stop, closed, reply, rtts, now>>
    BY <1>2 DEF Send, SendGet, SendExit, SendWrite, SendFail, SendDrop, SendClock, SendMark,
       SendCount,
                sendRest, vars, reader
  <2>1. CASE SendGet
    BY <2>0, <2>1, SendSteps, HeadTailProperties DEF SendGet
  <2>2. CASE SendExit \/ SendFail
    BY <2>0, <2>2, SendSteps DEF SendExit, SendFail, sender
  <2>3. CASE SendWrite
    <3>1. item \in Seqs /\ rr \in Conns /\ rr' \in Data /\ pc' \in [Threads -> Labels]
      BY <2>3, SendSteps, ConnFacts DEF SendWrite, Holding, Writing
    <3>2. wire' \in [Conns -> Seq(Seqs)]
      BY <2>3, <3>1, AppendProperties DEF SendWrite
    <3> QED BY <2>0, <2>3, <3>1, <3>2 DEF SendWrite
  <2>4. CASE SendDrop
    BY <2>0, <2>4, SendSteps DEF SendDrop
  <2>5. CASE SendClock
    BY <1>0, <2>0, <2>5, SendSteps DEF SendClock
  <2>6. CASE SendMark
    BY <1>0, <2>0, <2>6, SendSteps DEF SendMark
  <2>7. CASE SendCount
    BY <2>0, <2>7, SendSteps DEF SendCount, sender
  <2> QED BY <1>2, <2>1, <2>2, <2>3, <2>4, <2>5, <2>6, <2>7 DEF Send
<1>3. CASE Probe
  <2>0. UNCHANGED <<rpc, offered, wire_sent, received, late, status_received, frames, txq,
                    sched_stop, stopped, closed, send_clock, rr, reply, rtts, now>>
    BY <1>3 DEF Probe, ProbeDue, ProbeAdd, ProbeWrite, ProbeFail, ProbeMark,
                probeRest, vars, reader, flags, sender
  <2>1. CASE ProbeDue
    BY <2>0, <2>1, ProbeSteps DEF ProbeDue
  <2>2. CASE ProbeAdd \/ ProbeFail
    BY <2>0, <2>2, ProbeSteps DEF ProbeAdd, ProbeFail
  <2>3. CASE ProbeWrite
    <3>1. probe_seq \in Seqs /\ Ctrl \in Conns /\ pc' \in [Threads -> Labels]
      BY <2>3, ProbeSteps, ConnFacts DEF ProbeWrite, Holding, Probing
    <3>2. wire' \in [Conns -> Seq(Seqs)]
      BY <2>3, <3>1, AppendProperties DEF ProbeWrite
    <3> QED BY <2>0, <2>3, <3>1, <3>2 DEF ProbeWrite
  <2>4. CASE ProbeMark
    BY <2>0, <2>4, ProbeSteps DEF ProbeMark
  <2> QED BY <1>3, <2>1, <2>2, <2>3, <2>4 DEF Probe
<1>4. CASE ReapStep
  BY <1>4, ReapSteps DEF ReapStep, restOfAll, counts, sender, reader, flags
<1>5. CASE StopCall \/ StopStep
  <2>0. UNCHANGED <<rpc, counts, sender, reader, seq, txq, wire, now>>
    BY <1>5 DEF StopCall, StopStep, StopEmpty, StopWaiting, StopExpire, StopSet, StopClose,
       StopJoin,
                StopReap, restOfAll, vars
  <2>1. pc' \in [Threads -> Labels]
    BY <1>5, StopSteps DEF StopCall, StopStep, StopEmpty, StopWaiting, StopExpire, StopSet,
       StopClose,
                           StopJoin, StopReap
  <2>2. sched_stop' \in BOOLEAN /\ stopped' \in BOOLEAN /\ closed' \in BOOLEAN
    BY <1>5 DEF StopCall, StopStep, StopEmpty, StopWaiting, StopExpire, StopSet, StopClose,
       StopJoin,
                StopReap, flags
  <2> QED BY <2>0, <2>1, <2>2 DEF counts, sender, reader
<1>6. CASE Clock \/ Finished \/ UNCHANGED clientVars
  <2>1. now' = now \/ now' = now + 1
    BY <1>6 DEF Clock, Finished, clientVars, vars
  <2>2. send_clock \in 0..now'
    BY <1>0, <2>1
  <2>3. UNCHANGED <<progress, counts, flags, sender, reader, seq, txq, wire>>
    BY <1>6 DEF Clock, Finished, clientVars
  <2> QED BY <2>2, <2>3 DEF progress, counts, flags, sender, reader
<1>7. ASSUME NEW c \in Conns, Read(c) PROVE Typed'
  <2>0. UNCHANGED <<pc, seq, offered, wire_sent, status_sent, txq,
                    sched_stop, stopped, closed, send_clock, rr, now>>
    BY <1>7 DEF Read, ReadTcp, ReadUdp, ReadExit, ReadFrame, ReadTake, ReadCount,
                readRest, vars, flags, sender
  <2>1. CASE ReadTcp(c)
    <3>1. PICK n \in 1..Len(wire[c]) :
            /\ frames' = [frames EXCEPT ![c] = SubSeq(wire[c], 1, n)]
            /\ wire' = [wire EXCEPT ![c] = SubSeq(wire[c], n + 1, Len(wire[c]))]
      BY <2>1 DEF ReadTcp
    <3>2. SubSeq(wire[c], 1, n) \in Seq(Seqs) /\ SubSeq(wire[c], n + 1, Len(wire[c])) \in Seq(Seqs)
      BY ReadPrefix
    <3> QED BY <2>0, <2>1, <3>1, <3>2, ReaderSteps DEF ReadTcp
  <2>2. CASE ReadUdp(c)
    <3> DEFINE w == wire[c]
    <3>1. PICK n \in 1..Len(w) :
            /\ frames' = [frames EXCEPT ![c] = <<w[n]>>]
            /\ wire' \in {[wire EXCEPT ![c] = SubSeq(w, 1, n - 1) \o SubSeq(w, n + 1, Len(w))], wire}
      BY <2>2 DEF ReadUdp
    <3>2. w \in Seq(Seqs) /\ w[n] \in Seqs
      BY ElementOfSeq
    <3>3. SubSeq(w, 1, n - 1) \o SubSeq(w, n + 1, Len(w)) \in Seq(Seqs)
      BY <3>2, WithoutElement
    <3> HIDE DEF w
    <3>4. wire' \in [Conns -> Seq(Seqs)]
      BY <3>1, <3>3
    <3>5. frames' \in [Conns -> Seq(Seqs)]
      <4>1. <<w[n]>> \in Seq(Seqs)
        BY <3>2
      <4> QED BY <3>1, <4>1
    <3> QED BY <2>0, <2>2, <3>4, <3>5, ReaderSteps DEF ReadUdp
  <2>3. CASE ReadExit(c)
    BY <2>0, <2>3, ReaderSteps DEF ReadExit, reader
  <2>4. CASE ReadFrame(c)
    <3>1. CASE frames[c] = <<>>
      BY <2>0, <2>4, <3>1, ReaderSteps DEF ReadFrame
    <3>2. CASE frames[c] # <<>>
      <4>1. Tail(frames[c]) \in Seq(Seqs) /\ Head(frames[c]) \in Nat
        BY <3>2, HeadTailProperties, SeqsRange
      <4>2. /\ frames' = [frames EXCEPT ![c] = Tail(frames[c])]
            /\ reply' = [reply EXCEPT ![c] = [NoReply EXCEPT !.seq = Head(frames[c]), !.clock = now]]
            /\ RStep(c, "frames", "take") /\ UNCHANGED <<rtts, wire, received, late, status_received>>
        BY <2>4, <3>2 DEF ReadFrame
      <4> QED BY <1>0, <2>0, <4>1, <4>2, ReaderSteps DEF NoReply
    <3> QED BY <3>1, <3>2
  <2>5. CASE ReadTake(c)
    <3>1. rpc' \in [Conns -> ReaderLabels] /\ reply[c].seq \in Seqs
      BY <2>5, ReaderSteps DEF ReadTake, Holding
    <3>2. send_mono[reply[c].seq] \in Nat \cup {NotSent}
      BY <3>1 DEF IInv, TypeOK
    <3> QED BY ZenonT(60), <2>0, <2>5, <3>1, <3>2 DEF ReadTake, NoReply, Used
  <2>6. CASE ReadCount(c)
    <3>1. rpc' \in [Conns -> ReaderLabels]
      BY <2>6, ReaderSteps DEF ReadCount
    <3>2. reply[c].clock \in Nat /\ reply[c].sent \in Nat \cup {NotSent}
      OBVIOUS
    <3>a. ASSUME reply[c].sent = NotSent \/ ~Tracked(reply[c].seq) PROVE rtts' \subseteq Int
      BY <2>6, <3>a DEF ReadCount
    <3>b. ASSUME reply[c].sent # NotSent, Tracked(reply[c].seq) PROVE rtts' \subseteq Int
      <4>1. rtts' = rtts \cup {reply[c].clock - reply[c].sent}
        BY <2>6, <3>b DEF ReadCount
      <4>2. reply[c].clock - reply[c].sent \in Int
        BY <3>2, <3>b
      <4> QED BY <4>1, <4>2
    <3>3. rtts' \subseteq Int
      BY <3>a, <3>b
    <3>4. reply' = [reply EXCEPT ![c] = NoReply] /\ UNCHANGED <<frames, wire>>
      BY <2>6 DEF ReadCount
    <3>5. received' \in Nat /\ late' \in Nat /\ status_received' \in Nat
      BY <2>6 DEF ReadCount
    <3> QED BY <2>0, <3>1, <3>3, <3>4, <3>5 DEF NoReply
  <2> QED BY <1>7, <2>1, <2>2, <2>3, <2>4, <2>5, <2>6 DEF Read
<1> QED BY <1>1, <1>2, <1>3, <1>4, <1>5, <1>6, <1>7 DEF ClientNext

\* The requests offered and the probes have numbers left to draw.
LEMMA NumbersLeft ==
  ASSUME IInv, Typed, Numbered
  PROVE  /\ Probes = {s \in Seqs : mtype[s] = STATUS} /\ Cardinality(Probes) \in Nat
         /\ Cardinality(Echoes) \in Nat
         /\ pc["schedule"] = "offer" => seq + 1 \in Seqs
         /\ pc["probe"] = "loop" /\ Cardinality(Probes) < MaxProbes => seq + 1 \in Seqs
<1>1. Probes = {s \in Seqs : mtype[s] = STATUS}
  BY BookAssumption DEF Probes, Tracked, IInv, TypeOK
<1>2. Probes \in SUBSET Seqs /\ Echoes \in SUBSET Seqs
  BY DEF Probes, Echoes
<1>3. Cardinality(Probes) \in Nat /\ Cardinality(Echoes) \in Nat
  BY <1>2, SubsetsAreFinite
<1> DEFINE p == Cardinality(Probes)
<1>4. /\ p \in Nat /\ seq = offered + p + One(pc["probe"] = "add")
      /\ p + One(pc["probe"] = "add") <= MaxProbes
      /\ offered + One(pc["schedule"] \in {"check", "pause", "room", "offer"}) <= MaxEchoes
  BY <1>3 DEF Numbered
<1>5. offered \in Nat /\ MaxEchoes \in Nat /\ MaxProbes \in Nat
  BY SeqsRange DEF Typed
<1> HIDE DEF p
<1>6. ASSUME pc["schedule"] = "offer" PROVE seq + 1 \in Seqs
  <2>1. One(pc["schedule"] \in {"check", "pause", "room", "offer"}) = 1
    BY <1>6 DEF One
  <2>2. One(pc["probe"] = "add") \in Nat
    BY DEF One
  <2>3. seq \in Nat /\ seq + 1 <= MaxEchoes + MaxProbes
    BY <1>4, <1>5, <2>1, <2>2
  <2> QED BY <2>3, SeqsRange
<1>7. ASSUME pc["probe"] = "loop", p < MaxProbes PROVE seq + 1 \in Seqs
  <2>1. One(pc["probe"] = "add") = 0
    BY <1>7 DEF One
  <2>2. One(pc["schedule"] \in {"check", "pause", "room", "offer"}) \in Nat
    BY DEF One
  <2>3. seq \in Nat /\ seq + 1 <= MaxEchoes + MaxProbes
    BY <1>4, <1>5, <1>7, <2>1, <2>2
  <2> QED BY <2>3, SeqsRange
<1> QED BY <1>1, <1>3, <1>6, <1>7 DEF p

LEMMA NextHolding ==
  ASSUME IInv, Typed, Holding, Numbered, [ClientNext]_clientVars
  PROVE  Holding'
<1> USE DEF Typed, Holding, Offering, Writing, Wrote, Probing
<1>1. CASE Schedule
  <2>0. UNCHANGED <<rpc, frames, reply, item, probe_seq>>
    BY <1>1 DEF Schedule, SchedDue, SchedCheck, SchedPause, SchedRoom, SchedOffer, SchedAdd,
       SchedPut,
                schedRest, vars, sender, reader
  <2>1. CASE SchedDue \/ SchedCheck \/ SchedPause \/ SchedRoom
    BY <2>0, <2>1, ScheduleSteps DEF SchedDue, SchedCheck, SchedPause, SchedRoom
  <2>2. CASE SchedOffer
    BY <2>0, <2>2, ScheduleSteps, NumbersLeft DEF SchedOffer
  <2>3. CASE SchedAdd \/ SchedPut
    BY <2>0, <2>3, ScheduleSteps DEF SchedAdd, SchedPut
  <2> QED BY <1>1, <2>1, <2>2, <2>3 DEF Schedule
<1>2. CASE Send
  <2>0. UNCHANGED <<rpc, frames, reply, offer_seq, probe_seq>>
    BY <1>2 DEF Send, SendGet, SendExit, SendWrite, SendFail, SendDrop, SendClock, SendMark,
       SendCount,
                sendRest, vars, reader
  <2>1. CASE SendGet
    <3>1. item' \in Seqs
      BY <2>1, HeadTailProperties DEF SendGet
    <3> QED BY <2>0, <2>1, <3>1, SendSteps DEF SendGet
  <2>2. CASE SendExit
    BY <2>0, <2>2, SendSteps DEF SendExit, sender
  <2>6. CASE SendFail
    BY <2>0, <2>6, SendSteps DEF SendFail, sender
  <2>5. CASE SendCount
    BY <2>0, <2>5, SendSteps DEF SendCount, sender
  <2>3. CASE SendWrite \/ SendClock
    BY <2>0, <2>3, SendSteps DEF SendWrite, SendClock
  <2>4. CASE SendDrop \/ SendMark
    BY <2>0, <2>4, SendSteps DEF SendDrop, SendMark
  <2> QED BY <1>2, <2>1, <2>2, <2>3, <2>4, <2>5, <2>6 DEF Send
<1>3. CASE Probe
  <2>0. UNCHANGED <<rpc, frames, reply, offer_seq, item>>
    BY <1>3 DEF Probe, ProbeDue, ProbeAdd, ProbeWrite, ProbeFail, ProbeMark,
                probeRest, vars, reader, sender
  <2>1. CASE ProbeDue
    <3>1. CASE stopped
      BY <2>0, <2>1, <3>1, ProbeSteps DEF ProbeDue
    <3>2. CASE ~stopped
      <4>1. probe_seq' \in Seqs
        BY <2>1, <3>2, ProbeSteps, NumbersLeft DEF ProbeDue
      <4>2. Step("probe", "loop", "add")
        BY <2>1, <3>2 DEF ProbeDue
      <4> QED BY <2>0, <4>1, <4>2, ProbeSteps
    <3> QED BY <3>1, <3>2
  <2>2. CASE ProbeAdd \/ ProbeWrite
    BY <2>0, <2>2, ProbeSteps DEF ProbeAdd, ProbeWrite
  <2>3. CASE ProbeFail \/ ProbeMark
    BY <2>0, <2>3, ProbeSteps DEF ProbeFail, ProbeMark
  <2> QED BY <1>3, <2>1, <2>2, <2>3 DEF Probe
<1>4. CASE ReapStep
  BY <1>4, ReapSteps DEF ReapStep, restOfAll, sender, reader
<1>5. CASE StopCall \/ StopStep
  <2>1. UNCHANGED <<rpc, offer_seq, probe_seq, sender, reader>>
    BY <1>5 DEF StopCall, StopStep, StopEmpty, StopWaiting, StopExpire, StopSet, StopClose,
       StopJoin,
                StopReap, restOfAll
  <2>2. UNCHANGED <<pc["schedule"], pc["send"], pc["probe"]>>
    BY <1>5, StopSteps DEF StopCall, StopStep, StopEmpty, StopWaiting, StopExpire, StopSet,
       StopClose,
                           StopJoin, StopReap
  <2> QED BY <2>1, <2>2 DEF sender, reader
<1>6. CASE Clock \/ Finished \/ UNCHANGED clientVars
  BY <1>6 DEF Clock, Finished, clientVars, progress, sender, reader
<1>7. ASSUME NEW c \in Conns, Read(c) PROVE Holding'
  <2>0. UNCHANGED <<pc, offer_seq, item, probe_seq>>
    BY <1>7 DEF Read, ReadTcp, ReadUdp, ReadExit, ReadFrame, ReadTake, ReadCount, readRest, sender
  <2>1. CASE ReadTcp(c) \/ ReadUdp(c)
    <3>1. UNCHANGED reply /\ \A d \in Conns \ {c} : frames'[d] = frames[d]
      BY <2>1 DEF ReadTcp, ReadUdp
    <3>2. /\ rpc'[c] = "frames"
          /\ \A d \in Conns \ {c} : rpc'[d] = rpc[d]
      BY <2>1, ReaderSteps DEF ReadTcp, ReadUdp
    <3> QED BY <2>0, <3>1, <3>2
  <2>2. CASE ReadExit(c)
    BY SMTT(30), <2>0, <2>2, ReaderSteps DEF ReadExit, reader
  <2>3. CASE ReadFrame(c)
    <3>1. CASE frames[c] = <<>>
      <4>1. RStep(c, "frames", "recv") /\ UNCHANGED <<frames, reply>>
        BY <2>3, <3>1 DEF ReadFrame
      <4>2. rpc'[c] = "recv" /\ \A d \in Conns \ {c} : rpc'[d] = rpc[d]
        BY <4>1, ReaderSteps
      <4> QED BY <2>0, <3>1, <4>1, <4>2
    <3>2. CASE frames[c] # <<>>
      <4>1. Head(frames[c]) \in Seqs
        BY <3>2, HeadTailProperties
      <4>a. /\ frames' = [frames EXCEPT ![c] = Tail(frames[c])]
            /\ reply' = [reply EXCEPT ![c] = [NoReply EXCEPT !.seq = Head(frames[c]), !.clock = now]]
            /\ RStep(c, "frames", "take")
        BY <2>3, <3>2 DEF ReadFrame
      <4>2. /\ frames' = [frames EXCEPT ![c] = Tail(frames[c])]
            /\ reply'[c].seq = Head(frames[c])
            /\ \A d \in Conns \ {c} : reply'[d] = reply[d]
            /\ RStep(c, "frames", "take")
        BY <4>a DEF NoReply
      <4>3. /\ rpc'[c] = "take"
            /\ \A d \in Conns \ {c} : rpc'[d] = rpc[d]
        BY <4>2, ReaderSteps
      <4> QED BY <2>0, <4>1, <4>2, <4>3
    <3> QED BY <3>1, <3>2
  <2>4. CASE ReadTake(c) \/ ReadCount(c)
    <3>1. /\ UNCHANGED frames
          /\ \A d \in Conns \ {c} : reply'[d] = reply[d]
      BY <2>4 DEF ReadTake, ReadCount
    <3>2. /\ rpc[c] \in {"take", "count"}
          /\ \A d \in Conns \ {c} : rpc'[d] = rpc[d]
      BY <2>4, ReaderSteps DEF ReadTake, ReadCount
    <3>3. rpc'[c] = "frames" \/ (rpc'[c] = "count" /\ reply'[c].seq = reply[c].seq)
      <4>1. CASE ReadTake(c)
        <5>1. CASE Used(TakeKind(reply[c].seq))
          <6>1. RStep(c, "take", "count") /\ reply'[c].seq = reply[c].seq
            BY <4>1, <5>1 DEF ReadTake
          <6> QED BY <6>1, ReaderSteps
        <5>2. CASE ~Used(TakeKind(reply[c].seq))
          BY <4>1, <5>2, ReaderSteps DEF ReadTake
        <5> QED BY <5>1, <5>2
      <4>2. CASE ReadCount(c)
        BY <4>2, ReaderSteps DEF ReadCount
      <4> QED BY <2>4, <4>1, <4>2
    <3> QED BY <2>0, <3>1, <3>2, <3>3
  <2> QED BY <1>7, <2>1, <2>2, <2>3, <2>4 DEF Read
<1> QED BY <1>1, <1>2, <1>3, <1>4, <1>5, <1>6, <1>7 DEF ClientNext

-----------------------------------------------------------------------------
(* What each thread leaves alone; a thread that has ended takes no step *)

LEMMA ScheduleLeaves ==
  ASSUME Typed, Schedule
  PROVE  /\ UNCHANGED <<rpc, wire, frames, reply, item, probe_seq, wire_sent, received, status_sent,
                        status_received, now, forced, sched_stop, acked_at, lost_at, duplicates>>
         /\ UNCHANGED <<pc["send"], pc["probe"], pc["reap"], pc["stop"]>>
         /\ pc["schedule"] # "done"
         /\ ~SchedAdd => UNCHANGED bookVars
<1>1. pc \in [Threads -> Labels]
  BY DEF Typed
<1>2. /\ UNCHANGED <<pc["send"], pc["probe"], pc["reap"], pc["stop"]>>
      /\ pc["schedule"] # "done"
  BY <1>1, ScheduleSteps DEF Schedule, SchedDue, SchedCheck, SchedPause, SchedRoom, SchedOffer,
     SchedAdd,
                             SchedPut
<1> QED BY <1>2 DEF Schedule, SchedDue, SchedCheck, SchedPause, SchedRoom, SchedOffer, SchedAdd,
           SchedPut,
                    schedRest, vars, bookVars, flags, sender, reader, counts, stamps, counters, Add

LEMMA SendLeaves ==
  ASSUME Typed, Send
  PROVE  /\ UNCHANGED <<rpc, frames, reply, probe_seq, offer_seq, seq, offered, received, status_sent,
                        status_received, now, forced, sched_stop, stamps, mtype, duplicates>>
         /\ UNCHANGED <<pc["schedule"], pc["probe"], pc["reap"], pc["stop"]>>
         /\ pc["send"] # "done"
         /\ ~SendDrop /\ ~SendMark => UNCHANGED bookVars
<1>1. pc \in [Threads -> Labels]
  BY DEF Typed
<1>2. /\ UNCHANGED <<pc["schedule"], pc["probe"], pc["reap"], pc["stop"]>>
      /\ pc["send"] # "done"
  <2>1. CASE SendGet
    BY <1>1, <2>1, SendSteps DEF SendGet
  <2>2. CASE SendExit
    BY <1>1, <2>2, SendSteps DEF SendExit
  <2>3. CASE SendWrite
    BY <1>1, <2>3, SendSteps DEF SendWrite
  <2>4. CASE SendFail
    <3>1. Step("send", "write", "drop")
      BY <2>4 DEF SendFail
    <3> QED BY <1>1, <3>1, SendSteps
  <2>5. CASE SendDrop
    BY <1>1, <2>5, SendSteps DEF SendDrop
  <2>6. CASE SendClock
    BY <1>1, <2>6, SendSteps DEF SendClock
  <2>7. CASE SendMark
    BY <1>1, <2>7, SendSteps DEF SendMark
  <2>8. CASE SendCount
    BY <1>1, <2>8, SendSteps DEF SendCount
  <2> QED BY <2>1, <2>2, <2>3, <2>4, <2>5, <2>6, <2>7, <2>8 DEF Send
<1> QED BY <1>2 DEF Send, SendGet, SendExit, SendWrite, SendFail, SendDrop, SendClock, SendMark,
           SendCount,
                    sendRest, vars, bookVars, reader, counters, DropUnsent, MarkSent

LEMMA ProbeLeaves ==
  ASSUME Typed, Probe
  PROVE  /\ UNCHANGED <<rpc, frames, reply, offer_seq, item, offered, wire_sent, received, txq,
                        status_received, now, forced, sched_stop, acked_at, lost_at, duplicates>>
         /\ UNCHANGED <<pc["schedule"], pc["send"], pc["reap"], pc["stop"]>>
         /\ pc["probe"] # "done"
         /\ ~ProbeAdd /\ ~ProbeFail /\ ~ProbeMark => UNCHANGED bookVars
<1>1. pc \in [Threads -> Labels]
  BY DEF Typed
<1>2. /\ UNCHANGED <<pc["schedule"], pc["send"], pc["reap"], pc["stop"]>>
      /\ pc["probe"] # "done"
  BY <1>1, ProbeSteps DEF Probe, ProbeDue, ProbeAdd, ProbeWrite, ProbeFail, ProbeMark
<1> QED BY <1>2 DEF Probe, ProbeDue, ProbeAdd, ProbeWrite, ProbeFail, ProbeMark, probeRest, vars,
           bookVars,
                    flags, sender, reader, stamps, counters, Add, DropUnsent, MarkSent

LEMMA ReapLeaves ==
  ASSUME Typed, ReapStep
  PROVE  /\ UNCHANGED <<rpc, counts, sender, probe_seq, reader, seq, offer_seq, txq, wire,
                        flags, now, forced, added_at, acked_at, mtype, send_mono, duplicates>>
         /\ UNCHANGED <<pc["schedule"], pc["send"], pc["probe"], pc["stop"]>>
         /\ pc["reap"] # "done"
<1>1. pc \in [Threads -> Labels]
  BY DEF Typed
<1>2. UNCHANGED <<pc["schedule"], pc["send"], pc["probe"], pc["stop"]>> /\ pc["reap"] # "done"
  <2>1. CASE stopped
    BY <1>1, <2>1, ReapSteps DEF ReapStep
  <2>2. CASE ~stopped
    BY <2>2 DEF ReapStep
  <2> QED BY <2>1, <2>2
<1> QED BY <1>2 DEF ReapStep, restOfAll, bookVars, stamps, counters, Reap

LEMMA StopLeaves ==
  ASSUME Typed, StopCall \/ StopStep
  PROVE  /\ UNCHANGED <<rpc, counts, sender, probe_seq, reader, seq, offer_seq, txq, wire,
                        now, added_at, acked_at, mtype, send_mono, duplicates>>
         /\ UNCHANGED <<pc["schedule"], pc["send"], pc["probe"], pc["reap"]>>
         /\ sched_stop => sched_stop'
         /\ pc["stop"] # "done"
         /\ ~StopReap => UNCHANGED <<bookVars, forced>>
<1>1. pc \in [Threads -> Labels]
  BY DEF Typed
<1>2. UNCHANGED <<pc["schedule"], pc["send"], pc["probe"], pc["reap"]>> /\ pc["stop"] # "done"
  <2>1. CASE StopCall
    BY <1>1, <2>1, StopSteps DEF StopCall
  <2>2. CASE StopEmpty
    BY <1>1, <2>2, StopSteps DEF StopEmpty
  <2>3. CASE StopWaiting
    BY <1>1, <2>3, StopSteps DEF StopWaiting
  <2>4. CASE StopExpire
    BY <1>1, <2>4, StopSteps DEF StopExpire
  <2>5. CASE StopSet
    BY <1>1, <2>5, StopSteps DEF StopSet
  <2>6. CASE StopClose
    BY <1>1, <2>6, StopSteps DEF StopClose
  <2>7. CASE StopJoin
    BY <1>1, <2>7, StopSteps DEF StopJoin
  <2>8. CASE StopReap
    BY <1>1, <2>8, StopSteps DEF StopReap
  <2> QED BY <2>1, <2>2, <2>3, <2>4, <2>5, <2>6, <2>7, <2>8 DEF StopStep
<1>3. UNCHANGED <<rpc, counts, sender, probe_seq, reader, seq, offer_seq, txq, wire, now>>
  BY DEF StopCall, StopStep, StopEmpty, StopWaiting, StopExpire, StopSet, StopClose, StopJoin,
     StopReap,
         restOfAll, vars
<1>a. sched_stop => sched_stop'
  BY DEF StopCall, StopStep, StopEmpty, StopWaiting, StopExpire, StopSet, StopClose, StopJoin,
     StopReap,
         flags
<1>4. CASE StopReap
  BY <1>2, <1>3, <1>a, <1>4 DEF StopReap, Reap
<1>5. CASE ~StopReap
  <2>1. UNCHANGED vars
    BY <1>5 DEF StopCall, StopStep, StopEmpty, StopWaiting, StopExpire, StopSet, StopClose, StopJoin
  <2> QED BY <1>2, <1>3, <1>a, <1>5, <2>1 DEF vars, bookVars, stamps, counters
<1> QED BY <1>4, <1>5

LEMMA ReadLeaves ==
  ASSUME Typed, NEW c \in Conns, Read(c)
  PROVE  /\ UNCHANGED <<pc, item, probe_seq, seq, offer_seq, txq, offered, wire_sent, status_sent,
                        now, forced, sched_stop, added_at, lost_at, mtype, send_mono>>
         /\ rpc[c] # "done"
         /\ \A d \in Conns \ {c} : /\ rpc'[d] = rpc[d] /\ frames'[d] = frames[d]
                                    /\ wire'[d] = wire[d] /\ reply'[d] = reply[d]
         /\ ~ReadTake(c) => UNCHANGED bookVars
<1>1. rpc \in [Conns -> ReaderLabels]
  BY DEF Typed
<1>2. rpc[c] # "done" /\ \A d \in Conns \ {c} : rpc'[d] = rpc[d]
  BY <1>1, ReaderSteps DEF Read, ReadTcp, ReadUdp, ReadExit, ReadFrame, ReadTake, ReadCount
<1>3. \A d \in Conns \ {c} : frames'[d] = frames[d] /\ wire'[d] = wire[d] /\ reply'[d] = reply[d]
  BY DEF Typed, Read, ReadTcp, ReadUdp, ReadExit, ReadFrame, ReadTake, ReadCount, reader
<1>4. UNCHANGED <<added_at, lost_at, mtype, send_mono>>
  BY DEF Read, ReadTcp, ReadUdp, ReadExit, ReadFrame, ReadTake, ReadCount, vars, bookVars, stamps,
     counters,
         Take, TakeOk, TakeLate, TakeDuplicate
<1> QED BY <1>2, <1>3, <1>4 DEF Read, ReadTcp, ReadUdp, ReadExit, ReadFrame, ReadTake, ReadCount,
                           readRest, flags, sender, vars

LEMMA ClockLeaves ==
  ASSUME Clock \/ Finished \/ UNCHANGED clientVars
  PROVE  UNCHANGED <<bookVars, forced, progress, counts, flags, sender, probe_seq, reader,
                     seq, offer_seq, txq, wire>>
BY DEF Clock, Finished, clientVars, vars

-----------------------------------------------------------------------------
(* The end of the run *)

LEMMA NextWoundUp ==
  ASSUME IInv, Typed, WoundUp, [ClientNext]_clientVars
  PROVE  WoundUp'
<1> USE DEF WoundUp, Threads
<1>0. now \in Nat /\ open \subseteq Seqs
  BY DEF IInv, TypeOK
<1>1. CASE Schedule
  BY <1>1, ScheduleLeaves
<1>2. CASE Send
  BY <1>2, SendLeaves
<1>3. CASE Probe
  BY <1>3, ProbeLeaves
<1>4. CASE ReapStep
  BY <1>4, ReapLeaves
<1>5. CASE StopCall \/ StopStep
  <2>0. UNCHANGED <<rpc, pc["schedule"], pc["send"], pc["probe"], pc["reap"]>> /\ pc["stop"] # "done"
    BY <1>5, StopLeaves
  <2>1. CASE StopReap
    <3>1. pc["stop"] = "reap" /\ pc'["stop"] = "done" /\ Reap(now, TRUE)
      BY <2>1, StopSteps DEF StopReap, Typed
    <3>2. open' = {}
      BY <1>0, <3>1, ReapSeen
    <3> QED BY <2>0, <3>1, <3>2
  <2>2. CASE StopJoin
    <3>1. pc'["stop"] = "reap"
      BY <2>2, StopSteps DEF StopJoin, Typed
    <3> QED BY <2>0, <2>2, <3>1 DEF StopJoin
  <2>3. CASE ~StopReap /\ ~StopJoin
    <3>1. pc'["stop"] \notin {"reap", "done"}
      BY <1>5, <2>3, StopSteps DEF Typed, StopCall, StopStep, StopEmpty, StopWaiting, StopExpire,
         StopSet,
                                   StopClose
    <3> QED BY <3>1
  <2> QED BY <2>1, <2>2, <2>3
<1>6. CASE Clock \/ Finished \/ UNCHANGED clientVars
  BY <1>6, ClockLeaves DEF progress, bookVars, tables
<1>7. ASSUME NEW c \in Conns, Read(c) PROVE WoundUp'
  BY <1>7, ReadLeaves
<1> QED BY <1>1, <1>2, <1>3, <1>4, <1>5, <1>6, <1>7 DEF ClientNext

-----------------------------------------------------------------------------
(* The threads' use of the book *)

\* The steps that enter the book.
LEMMA BookMoves ==
  ASSUME [ClientNext]_clientVars
  PROVE  \/ UNCHANGED vars \/ Clock
         \/ SchedAdd \/ ProbeAdd \/ SendMark \/ ProbeMark \/ SendDrop \/ ProbeFail
         \/ ReapStep \/ StopReap
         \/ \E c \in Conns : ReadTake(c)
<1>1. CASE Schedule
  BY <1>1 DEF Schedule, SchedDue, SchedCheck, SchedPause, SchedRoom, SchedOffer, SchedPut, schedRest
<1>2. CASE Send
  BY <1>2 DEF Send, SendGet, SendExit, SendWrite, SendFail, SendClock, SendCount
<1>3. CASE Probe
  BY <1>3 DEF Probe, ProbeDue, ProbeWrite
<1>4. CASE StopCall \/ StopStep
  BY <1>4 DEF StopCall, StopStep, StopEmpty, StopWaiting, StopExpire, StopSet, StopClose, StopJoin
<1>5. CASE Finished \/ UNCHANGED clientVars
  BY <1>5 DEF Finished, clientVars
<1>6. ASSUME NEW c \in Conns, Read(c) PROVE UNCHANGED vars \/ ReadTake(c)
  BY <1>6 DEF Read, ReadTcp, ReadUdp, ReadExit, ReadFrame, ReadCount
<1> QED BY <1>1, <1>2, <1>3, <1>4, <1>5, <1>6 DEF ClientNext

\* What the thread knows of the number it enters the book with.
LEMMA NumbersInHand ==
  ASSUME Typed, Holding, Numbered, Queued
  PROVE  /\ SchedAdd => /\ pc["schedule"] = "add" /\ offer_seq \in Seqs /\ added_at[offer_seq] = 0
                        /\ Add(offer_seq, ECHO)
         /\ ProbeAdd => /\ pc["probe"] = "add" /\ probe_seq \in Seqs /\ added_at[probe_seq] = 0
                        /\ Add(probe_seq, STATUS)
         /\ SendMark => /\ pc["send"] = "mark" /\ item \in Seqs /\ ~Sent(item)
                        /\ MarkSent(item, send_clock)
         /\ ProbeMark => /\ pc["probe"] = "mark" /\ probe_seq \in Seqs /\ ~Sent(probe_seq)
                         /\ MarkSent(probe_seq, now)
         /\ SendDrop => /\ pc["send"] = "drop" /\ item \in Seqs /\ item \in open /\ ~Sent(item)
                        /\ DropUnsent(item)
         /\ ProbeFail => /\ pc["probe"] = "write" /\ probe_seq \in Seqs /\ probe_seq \in open
                         /\ ~Sent(probe_seq) /\ DropUnsent(probe_seq)
         /\ \A c \in Conns : ReadTake(c) => /\ rpc[c] = "take" /\ reply[c].seq \in Seqs
                                            /\ Take(reply[c].seq)
<1> USE DEF Typed, Holding, Offering, Writing, Wrote, Probing
<1>1. ASSUME SchedAdd
      PROVE  pc["schedule"] = "add" /\ offer_seq \in Seqs /\ added_at[offer_seq] = 0 /\ Add(offer_seq, ECHO)
  BY <1>1, ScheduleSteps DEF SchedAdd, Numbered
<1>2. ASSUME ProbeAdd
      PROVE  pc["probe"] = "add" /\ probe_seq \in Seqs /\ added_at[probe_seq] = 0 /\ Add(probe_seq, STATUS)
  BY <1>2, ProbeSteps DEF ProbeAdd, Numbered
<1>3. ASSUME SendMark
      PROVE  pc["send"] = "mark" /\ item \in Seqs /\ ~Sent(item) /\ MarkSent(item, send_clock)
  BY <1>3, SendSteps DEF SendMark, Queued
<1>4. ASSUME ProbeMark
      PROVE  pc["probe"] = "mark" /\ probe_seq \in Seqs /\ ~Sent(probe_seq) /\ MarkSent(probe_seq, now)
  BY <1>4, ProbeSteps DEF ProbeMark, Queued
<1>5. ASSUME SendDrop
      PROVE  pc["send"] = "drop" /\ item \in Seqs /\ item \in open /\ ~Sent(item) /\ DropUnsent(item)
  BY <1>5, SendSteps DEF SendDrop, Queued
<1>6. ASSUME ProbeFail
      PROVE  /\ pc["probe"] = "write" /\ probe_seq \in Seqs /\ probe_seq \in open /\ ~Sent(probe_seq)
             /\ DropUnsent(probe_seq)
  BY <1>6, ProbeSteps DEF ProbeFail, Queued
<1>7. ASSUME NEW c \in Conns, ReadTake(c)
      PROVE  rpc[c] = "take" /\ reply[c].seq \in Seqs /\ Take(reply[c].seq)
  <2>1. rpc[c] = "take" /\ Take(reply[c].seq)
    BY <1>7 DEF ReadTake, RStep
  <2> QED BY <2>1
<1> QED BY <1>1, <1>2, <1>3, <1>4, <1>5, <1>6, <1>7

LEMMA NextMarked ==
  ASSUME IInv, Typed, Holding, Numbered, Queued, Marked, [ClientNext]_clientVars
  PROVE  Marked'
<1>0. /\ now \in Nat /\ send_clock \in Nat /\ Stamped(lost_at) \subseteq Seqs /\ open \subseteq Seqs
      /\ 0..now \subseteq Nat
  BY BookAssumption DEF IInv, TypeOK, Stamped, Typed
<1>1. CASE UNCHANGED vars \/ Clock
  BY <1>1 DEF Clock, vars, bookVars, tables, stamps, Marked, Sent, Stamped, Answered
<1>2. ASSUME NEW s \in Seqs, added_at[s] = 0, NEW kind \in {ECHO, STATUS}, Add(s, kind) PROVE Marked'
  <2>1. /\ open' = open \cup {s} /\ Answered' = Answered /\ Stamped(lost_at)' = Stamped(lost_at)
        /\ UNCHANGED send_mono
        /\ \A r \in Seqs : added_at'[r] # 0 <=> added_at[r] # 0 \/ r = s
    BY <1>2, AddSeen DEF Answered, Stamped
  <2> QED BY <1>0, <2>1 DEF Marked, Sent
<1>3. ASSUME NEW s \in Seqs, ~Sent(s), NEW t \in Nat, MarkSent(s, t) PROVE Marked'
  <2>1. /\ open' = open /\ Answered' = Answered /\ Stamped(lost_at)' = Stamped(lost_at)
        /\ \A r \in Seqs : Sent(r)' <=> Sent(r) \/ (r = s /\ s \in open)
        /\ UNCHANGED added_at /\ (s \in open => added_at[s] # 0)
    BY <1>3, MarkSeen DEF Answered, Stamped, IInv, Placement
  <2> QED BY <1>0, <2>1 DEF Marked
<1>4. ASSUME NEW s, DropUnsent(s) PROVE Marked'
  <2>1. /\ open' = IF Sent(s) THEN open ELSE open \ {s}
        /\ UNCHANGED <<added_at, send_mono>> /\ Answered' = Answered
        /\ Stamped(lost_at)' = Stamped(lost_at)
    BY <1>4, DropSeen DEF Answered, Stamped
  <2> QED BY <2>1 DEF Marked, Sent
<1>5. ASSUME NEW s \in Seqs, Take(s) PROVE Marked'
  <2>1. /\ UNCHANGED <<added_at, send_mono>> /\ Stamped(lost_at)' = Stamped(lost_at)
        /\ open \cup Answered \subseteq open' \cup Answered'
    BY <1>5, TakeSeen DEF Stamped
  <2> QED BY <2>1 DEF Marked, Sent
<1>6. ASSUME NEW force \in BOOLEAN, Reap(now, force) PROVE Marked'
  <2>1. /\ UNCHANGED <<added_at, send_mono>> /\ Answered' = Answered
        /\ open' = open \ (Expired(now, force) \cup (IF force THEN NeverSent ELSE {}))
        /\ Stamped(lost_at)' = Stamped(lost_at) \cup Expired(now, force)
    BY <1>0, <1>6, ReapSeen DEF Answered, Stamped
  <2>2. /\ \A s \in Expired(now, force) : Sent(s)
        /\ \A s \in NeverSent : ~Sent(s)
    BY DEF Expired, NeverSent
  <2> QED BY <2>1, <2>2 DEF Marked, Sent
<1>7. CASE ReapStep \/ StopReap
  BY <1>1, <1>6, <1>7 DEF ReapStep, StopReap, vars, bookVars, tables, stamps, Marked, Sent,
     Stamped, Answered
<1> QED BY <1>0, <1>1, <1>2, <1>3, <1>4, <1>5, <1>7, BookMoves, NumbersInHand

-----------------------------------------------------------------------------
(* The numbers handed out *)

\* A number drawn now exceeds every number in use.
LEMMA NextNumbered ==
  ASSUME IInv, IInv', Typed, Holding, Numbered, Queued, Marked, [ClientNext]_clientVars
  PROVE  Numbered'
<1> DEFINE waits == {"check", "pause", "room", "offer"}
           p  == Cardinality(Probes)
           e  == Cardinality(Echoes)
           pa == One(pc["probe"] = "add")
           sa == One(pc["schedule"] = "add")
           sw == One(pc["schedule"] \in waits)
<1>0. /\ p \in Nat /\ e \in Nat /\ seq \in Nat /\ offered \in Nat
      /\ MaxEchoes \in Nat /\ MaxProbes \in Nat /\ Seqs \subseteq Nat
      /\ ECHO # STATUS /\ mtype \in [Seqs -> {ECHO, STATUS}] /\ added_at \in [Seqs -> Nat]
  BY NumbersLeft, SeqsRange, BookAssumption DEF Typed, IInv, TypeOK
<1>1. ASSUME UNCHANGED <<added_at, mtype, seq, offered>>,
             UNCHANGED <<pc["schedule"], offer_seq>> \/
               (pc["schedule"] # "add" /\ pc'["schedule"] # "add"
                /\ (pc'["schedule"] \in waits => pc["schedule"] \in waits \/ offered < MaxEchoes)),
             UNCHANGED <<pc["probe"], probe_seq>> \/
               (pc["probe"] # "add" /\ pc'["probe"] # "add")
      PROVE  Numbered'
  <2>1. Probes' = Probes /\ Echoes' = Echoes
    BY <1>1 DEF Probes, Echoes, Tracked
  <2>2. pa' = pa /\ sa' = sa /\ (sw' <= sw \/ (sw' = 1 /\ offered < MaxEchoes)) /\ sw' \in Nat /\ sw \in Nat
    BY <1>1 DEF One
  <2>3. p' = p /\ e' = e
    BY <2>1
  <2>4. offered' + sw' <= MaxEchoes
    <3>1. offered + sw <= MaxEchoes
      BY DEF Numbered
    <3>2. offered' = offered
      BY <1>1
    <3>3. /\ offered \in Nat /\ MaxEchoes \in Nat /\ sw \in Nat /\ sw' \in Nat
          /\ sw' <= sw \/ (sw' = 1 /\ offered < MaxEchoes)
      BY <1>0, <2>2
    <3>4. ASSUME NEW n \in Nat, NEW m \in Nat, NEW x \in Nat, NEW y \in Nat,
                 n + x <= m, y <= x \/ (y = 1 /\ n < m)
          PROVE  n + y <= m
      BY <3>4
    <3>5. offered + sw' <= MaxEchoes
      <4> HIDE DEF sw
      <4> QED BY <3>1, <3>3, <3>4
    <3> QED BY <3>2, <3>5
  <2>5. /\ \A s \in Seqs : added_at'[s] # 0 => s <= seq'
        /\ \A s \in Probes' : added_at'[s] # 0
        /\ seq' = offered' + p' + pa' /\ p' + pa' <= MaxProbes /\ offered' = e' + sa'
    <3> HIDE DEF p, e, pa, sa
    <3>1. /\ \A s \in Seqs : added_at[s] # 0 => s <= seq
          /\ \A s \in Probes : added_at[s] # 0
          /\ seq = offered + p + pa /\ p + pa <= MaxProbes /\ offered = e + sa
      BY DEF Numbered, p, e, pa, sa
    <3> QED BY <1>1, <2>1, <2>2, <2>3, <3>1
  <2>6. /\ pc'["schedule"] = "add" => added_at'[offer_seq'] = 0 /\ offer_seq' <= seq'
        /\ pc'["probe"] = "add" => added_at'[probe_seq'] = 0 /\ probe_seq' <= seq'
        /\ pc'["schedule"] = "add" /\ pc'["probe"] = "add" => offer_seq' # probe_seq'
    BY <1>1 DEF Numbered
  <2> QED BY <2>4, <2>5, <2>6 DEF Numbered
<1>2. CASE SchedDue \/ SchedCheck \/ SchedPause \/ SchedRoom \/ SchedPut
  <2>1. UNCHANGED <<added_at, mtype, seq, offered, probe_seq>> /\ UNCHANGED pc["probe"]
    BY <1>2, ScheduleLeaves DEF Schedule, SchedDue, SchedCheck, SchedPause, SchedRoom, SchedPut,
       schedRest,
                                vars, bookVars, stamps
  <2>2. /\ pc["schedule"] # "add" /\ pc'["schedule"] # "add"
        /\ pc'["schedule"] \in waits => pc["schedule"] \in waits \/ offered < MaxEchoes
    BY <1>2, ScheduleSteps DEF Typed, SchedDue, SchedCheck, SchedPause, SchedRoom, SchedPut
  <2> QED BY <1>1, <2>1, <2>2
<1>3. CASE SchedOffer
  <2>1. /\ UNCHANGED <<added_at, mtype, probe_seq>> /\ UNCHANGED pc["probe"]
        /\ pc["schedule"] = "offer" /\ pc'["schedule"] = "add"
        /\ offered' = offered + 1 /\ seq' = seq + 1 /\ offer_seq' = seq + 1
    BY <1>3, ScheduleSteps, ScheduleLeaves DEF Schedule, SchedOffer, schedRest, vars, bookVars,
       stamps, Typed
  <2>2. Probes' = Probes /\ Echoes' = Echoes
    BY <2>1 DEF Probes, Echoes, Tracked
  <2>3. p' = p /\ e' = e
    BY <2>2
  <2>4. pa' = pa /\ sa' = 1 /\ sa = 0 /\ sw' = 0 /\ sw = 1 /\ pa \in Nat
    BY <2>1 DEF One
  <2>5. /\ seq' = offered' + p' + pa' /\ p' + pa' <= MaxProbes /\ offered' = e' + sa'
        /\ offered' + sw' <= MaxEchoes
    <3>1. /\ seq = offered + p + pa /\ p + pa <= MaxProbes /\ offered = e + sa
          /\ offered + sw <= MaxEchoes
      BY DEF Numbered
    <3> HIDE DEF p, e, pa, sa, sw
    <3> QED BY <1>0, <2>1, <2>3, <2>4, <3>1
  <2>6. seq + 1 \in Seqs /\ (pc["probe"] = "add" => probe_seq \in Seqs)
    BY <2>1, NumbersLeft DEF Holding, Probing
  <2>7. added_at[seq + 1] = 0
    BY <1>0, <2>6 DEF Numbered
  <2>8. /\ \A s \in Seqs : added_at'[s] # 0 => s <= seq'
        /\ \A s \in Probes' : added_at'[s] # 0
        /\ pc'["schedule"] = "add" => added_at'[offer_seq'] = 0 /\ offer_seq' <= seq'
        /\ pc'["probe"] = "add" => added_at'[probe_seq'] = 0 /\ probe_seq' <= seq'
        /\ pc'["schedule"] = "add" /\ pc'["probe"] = "add" => offer_seq' # probe_seq'
    <3>2. \A s \in Seqs : added_at[s] # 0 => s <= seq
      BY DEF Numbered
    <3>3. \A s \in Seqs : added_at'[s] # 0 => s <= seq'
      BY <1>0, <2>1, <3>2
    <3>4. pc["probe"] = "add" => added_at[probe_seq] = 0 /\ probe_seq <= seq /\ probe_seq \in Nat
      BY <1>0, <2>6 DEF Numbered
    <3>5. pc["probe"] = "add" => probe_seq <= seq + 1 /\ probe_seq # seq + 1
      BY <1>0, <3>4
    <3> QED BY <2>1, <2>2, <2>7, <3>3, <3>4, <3>5 DEF Numbered
  <2> QED BY <2>5, <2>8 DEF Numbered
<1>4. CASE ProbeDue
  <2>1. CASE stopped
    <3>1. UNCHANGED <<added_at, mtype, seq, offered, offer_seq>> /\ UNCHANGED pc["schedule"]
      BY <1>4, <2>1, ProbeLeaves DEF Probe, ProbeDue, probeRest, vars, bookVars, stamps
    <3>2. pc["probe"] # "add" /\ pc'["probe"] # "add"
      BY <1>4, <2>1, ProbeSteps DEF ProbeDue, Typed
    <3> QED BY <1>1, <3>1, <3>2
  <2>2. CASE ~stopped
    <3>0. Step("probe", "loop", "add") /\ seq' = seq + 1 /\ probe_seq' = seq + 1
      BY <1>4, <2>2 DEF ProbeDue
    <3>1. /\ UNCHANGED <<added_at, mtype, offered, offer_seq>> /\ UNCHANGED pc["schedule"]
          /\ pc["probe"] = "loop" /\ pc'["probe"] = "add"
      BY <1>4, <3>0, ProbeSteps, ProbeLeaves DEF Probe, ProbeDue, probeRest, vars, bookVars,
         stamps, Typed
    <3>2. Probes' = Probes /\ Echoes' = Echoes
      BY <3>1 DEF Probes, Echoes, Tracked
    <3>3. p' = p /\ e' = e
      BY <3>2
    <3>a. p < MaxProbes
      BY <1>4, <2>2, NumbersLeft DEF ProbeDue
    <3>4. pa' = 1 /\ pa = 0 /\ sa' = sa /\ sw' = sw
      BY <3>1 DEF One
    <3>5. /\ seq' = offered' + p' + pa' /\ p' + pa' <= MaxProbes /\ offered' = e' + sa'
          /\ offered' + sw' <= MaxEchoes
      <4>1. /\ seq = offered + p + pa /\ offered = e + sa
            /\ offered + sw <= MaxEchoes
        BY DEF Numbered
      <4> HIDE DEF p, e, pa, sa, sw
      <4> QED BY <1>0, <3>0, <3>1, <3>3, <3>a, <3>4, <4>1
    <3>6. seq + 1 \in Seqs /\ (pc["schedule"] = "add" => offer_seq \in Seqs)
      BY <3>1, <3>a, NumbersLeft DEF Holding, Offering
    <3>7. added_at[seq + 1] = 0
      BY <1>0, <3>6 DEF Numbered
    <3>8. /\ \A s \in Seqs : added_at'[s] # 0 => s <= seq'
          /\ \A s \in Probes' : added_at'[s] # 0
          /\ pc'["schedule"] = "add" => added_at'[offer_seq'] = 0 /\ offer_seq' <= seq'
          /\ pc'["probe"] = "add" => added_at'[probe_seq'] = 0 /\ probe_seq' <= seq'
          /\ pc'["schedule"] = "add" /\ pc'["probe"] = "add" => offer_seq' # probe_seq'
      <4>2. \A s \in Seqs : added_at[s] # 0 => s <= seq
        BY DEF Numbered
      <4>3. \A s \in Seqs : added_at'[s] # 0 => s <= seq'
        BY <1>0, <3>0, <3>1, <4>2
      <4>4. pc["schedule"] = "add" =>
              added_at[offer_seq] = 0 /\ offer_seq <= seq /\ offer_seq \in Nat
        BY <1>0, <3>6 DEF Numbered
      <4>5. pc["schedule"] = "add" => offer_seq <= seq + 1 /\ offer_seq # seq + 1
        BY <1>0, <4>4
      <4> QED BY <3>0, <3>1, <3>2, <3>7, <4>3, <4>4, <4>5 DEF Numbered
    <3> QED BY <3>5, <3>8 DEF Numbered
  <2> QED BY <2>1, <2>2
<1>5. CASE SchedAdd
  <2>1. /\ UNCHANGED <<seq, offered, probe_seq, offer_seq>> /\ UNCHANGED pc["probe"]
        /\ pc["schedule"] = "add" /\ pc'["schedule"] = "put"
    BY <1>5, ScheduleSteps, ScheduleLeaves DEF Schedule, SchedAdd, counts, Typed
  <2>2. /\ offer_seq \in Seqs /\ added_at[offer_seq] = 0
        /\ \A r \in Seqs : added_at'[r] # 0 <=> added_at[r] # 0 \/ r = offer_seq
        /\ mtype' = [mtype EXCEPT ![offer_seq] = ECHO]
    BY <1>5, NumbersInHand, AddSeen
  <2>3. offer_seq \notin Probes /\ Probes' = Probes
    <3>1. offer_seq \notin Probes
      BY <2>2 DEF Numbered
    <3> QED BY <1>0, <2>2, <3>1 DEF Probes, Tracked
  <2>4. offer_seq \notin Echoes /\ Echoes' = Echoes \cup {offer_seq}
    BY <1>0, <2>2, <2>3 DEF Probes, Echoes, Tracked
  <2>5. p' = p /\ e' = e + 1
    <3>1. IsFiniteSet(Echoes)
      BY SubsetsAreFinite DEF Echoes
    <3> QED BY <2>3, <2>4, <3>1, FS_AddElement
  <2>6. pa' = pa /\ sa = 1 /\ sa' = 0 /\ sw = 0 /\ sw' = 0
    BY <2>1 DEF One
  <2>7. /\ seq' = offered' + p' + pa' /\ p' + pa' <= MaxProbes /\ offered' = e' + sa'
        /\ offered' + sw' <= MaxEchoes
    <3>1. /\ seq = offered + p + pa /\ p + pa <= MaxProbes /\ offered = e + sa
          /\ offered + sw <= MaxEchoes
      BY DEF Numbered
    <3> HIDE DEF p, e, pa, sa, sw
    <3> QED BY <1>0, <2>1, <2>5, <2>6, <3>1
  <2>8. /\ \A s \in Seqs : added_at'[s] # 0 => s <= seq'
        /\ \A s \in Probes' : added_at'[s] # 0
        /\ pc'["schedule"] # "add"
    BY <2>1, <2>2, <2>3 DEF Numbered, Probes
  <2>9. pc'["probe"] = "add" => added_at'[probe_seq'] = 0 /\ probe_seq' <= seq'
    <3>1. pc["probe"] = "add" => probe_seq \in Seqs
      BY DEF Holding, Probing
    <3> QED BY <2>1, <2>2, <3>1 DEF Numbered
  <2> QED BY <2>7, <2>8, <2>9 DEF Numbered
<1>6. CASE ProbeAdd
  <2>1. /\ UNCHANGED <<seq, offered, probe_seq, offer_seq>> /\ UNCHANGED pc["schedule"]
        /\ pc["probe"] = "add" /\ pc'["probe"] = "write"
    BY <1>6, ProbeSteps, ProbeLeaves DEF Probe, ProbeAdd, Typed
  <2>2. /\ probe_seq \in Seqs /\ added_at[probe_seq] = 0
        /\ \A r \in Seqs : added_at'[r] # 0 <=> added_at[r] # 0 \/ r = probe_seq
        /\ mtype' = [mtype EXCEPT ![probe_seq] = STATUS]
    BY <1>6, NumbersInHand, AddSeen
  <2>3. probe_seq \notin Probes /\ Probes' = Probes \cup {probe_seq}
    <3>1. probe_seq \notin Probes
      BY <2>2 DEF Numbered
    <3> QED BY <1>0, <2>2, <3>1 DEF Probes, Tracked
  <2>4. Echoes' = Echoes
    BY <1>0, <2>2, <2>3 DEF Probes, Echoes, Tracked
  <2>5. p' = p + 1 /\ e' = e
    <3>1. IsFiniteSet(Probes)
      BY SubsetsAreFinite DEF Probes
    <3> QED BY <2>3, <2>4, <3>1, FS_AddElement
  <2>6. pa = 1 /\ pa' = 0 /\ sa = sa' /\ sw = sw'
    BY <2>1 DEF One
  <2>7. /\ seq' = offered' + p' + pa' /\ p' + pa' <= MaxProbes /\ offered' = e' + sa'
        /\ offered' + sw' <= MaxEchoes
    <3>1. /\ seq = offered + p + pa /\ p + pa <= MaxProbes /\ offered = e + sa
          /\ offered + sw <= MaxEchoes
      BY DEF Numbered
    <3> HIDE DEF p, e, pa, sa, sw
    <3> QED BY <1>0, <2>1, <2>5, <2>6, <3>1
  <2>8. /\ \A s \in Seqs : added_at'[s] # 0 => s <= seq'
        /\ \A s \in Probes' : added_at'[s] # 0
        /\ pc'["probe"] # "add"
    BY <2>1, <2>2, <2>3 DEF Numbered, Probes
  <2>9. pc'["schedule"] = "add" => added_at'[offer_seq'] = 0 /\ offer_seq' <= seq'
    <3>1. pc["schedule"] = "add" => offer_seq \in Seqs
      BY DEF Holding, Offering
    <3> QED BY <2>1, <2>2, <3>1 DEF Numbered
  <2> QED BY <2>7, <2>8, <2>9 DEF Numbered
<1>7. CASE ProbeWrite \/ ProbeFail \/ ProbeMark
  <2>1. UNCHANGED <<added_at, mtype, seq, offered, offer_seq>> /\ UNCHANGED pc["schedule"]
    BY <1>7, ProbeLeaves DEF Probe, ProbeWrite, ProbeFail, ProbeMark, vars, bookVars, stamps,
       DropUnsent,
                             MarkSent
  <2>2. pc["probe"] # "add" /\ pc'["probe"] # "add"
    BY <1>7, ProbeSteps DEF ProbeWrite, ProbeFail, ProbeMark, Typed
  <2> QED BY <1>1, <2>1, <2>2
<1>8. CASE Send
  BY <1>1, <1>8, SendLeaves DEF stamps
<1>9. CASE ReapStep
  BY <1>1, <1>9, ReapLeaves DEF counts
<1>10. CASE StopCall \/ StopStep
  BY <1>1, <1>10, StopLeaves DEF counts
<1>11. CASE Clock \/ Finished \/ UNCHANGED clientVars
  BY <1>1, <1>11, ClockLeaves DEF counts, progress, bookVars, stamps
<1>12. ASSUME NEW c \in Conns, Read(c) PROVE Numbered'
  BY <1>1, <1>12, ReadLeaves
<1> QED BY <1>2, <1>3, <1>4, <1>5, <1>6, <1>7, <1>8, <1>9, <1>10, <1>11, <1>12
        DEF ClientNext, Schedule, Probe

-----------------------------------------------------------------------------
(* The requests on their way to the writer *)

\* The types the two invariants below are about.
LEMMA QueueTypes ==
  ASSUME IInv, Typed, Holding
  PROVE  /\ txq \in Seq(Int) /\ Elems(txq) \subseteq Seqs /\ Seqs \subseteq Nat /\ 0 \notin Seqs
         /\ open \subseteq Seqs /\ Answered \subseteq Seqs /\ seq \in Nat
         /\ Offering => offer_seq \in Seqs
         /\ Writing \/ Wrote => item \in Seqs
         /\ ~(Writing \/ Wrote) => item = 0
         /\ item \in Nat
         /\ Probing => probe_seq \in Seqs
         /\ \A s \in open : added_at[s] # 0 /\ s \notin Answered
         /\ \A s \in Answered : added_at[s] # 0
<1>1. Seqs \subseteq Nat /\ 0 \notin Seqs /\ Seqs \subseteq Int
  BY BookAssumption
<1>2. txq \in Seq(Int)
  <2>1. Seq(Seqs) \subseteq Seq(Int)
    BY <1>1, SeqMonotonic
  <2> QED BY <2>1 DEF Typed
<1>3. Elems(txq) \subseteq Seqs
  BY ElemsType DEF Typed
<1>4. /\ \A s \in open : added_at[s] # 0 /\ s \notin Answered
      /\ \A s \in Answered : added_at[s] # 0
  BY DEF IInv, TypeOK, Placement, Answered, Stamped
<1>5. open \subseteq Seqs /\ Answered \subseteq Seqs /\ seq \in Nat
  BY DEF IInv, TypeOK, Typed, Answered, Stamped
<1>6. /\ Offering => offer_seq \in Seqs
      /\ Writing \/ Wrote => item \in Seqs
      /\ ~(Writing \/ Wrote) => item = 0
      /\ Probing => probe_seq \in Seqs
  BY DEF Holding
<1>7. item \in Nat
  <2>1. CASE Writing \/ Wrote
    BY <1>1, <1>6, <2>1
  <2>2. CASE ~(Writing \/ Wrote)
    BY <1>6, <2>2
  <2> QED BY <2>1, <2>2
<1> QED BY <1>1, <1>2, <1>3, <1>4, <1>5, <1>6, <1>7

\* A step that takes from open only what was marked or is in flight, and marks
\* nothing, leaves the requests on their way where they are.
LEMMA QueuedKept ==
  ASSUME IInv, Typed, Holding, Queued,
         UNCHANGED <<txq, offer_seq, item, probe_seq>>,
         UNCHANGED <<pc["schedule"], pc["send"], pc["probe"]>>,
         \A s \in Seqs : added_at[s] # 0 => added_at'[s] # 0,
         UNCHANGED <<mtype, send_mono>>,
         \A s \in open : ~Sent(s) /\ ~InFlight(s) => s \in open',
         \A s \in open \cup Answered : ~Sent(s) => s \in open' \cup Answered'
  PROVE  Queued'
<1>0. /\ Elems(txq) \subseteq Seqs /\ open \subseteq Seqs /\ Answered \subseteq Seqs
      /\ Offering => offer_seq \in Seqs
      /\ Writing \/ Wrote => item \in Seqs
      /\ Probing => probe_seq \in Seqs
      /\ Seqs \subseteq Nat /\ item \in Nat
  BY QueueTypes
<1>1. Offering' = Offering /\ Writing' = Writing /\ Wrote' = Wrote
  BY DEF Offering, Writing, Wrote
<1>2. Elems(txq)' = Elems(txq) /\ Increasing(txq)'
  BY DEF Queued
<1>3. \A s \in Elems(txq) : Tracked(s) /\ ~Sent(s) /\ added_at[s] # 0 /\ ~InFlight(s)
  <2> SUFFICES ASSUME NEW s \in Elems(txq) PROVE Tracked(s) /\ ~Sent(s) /\ added_at[s] # 0 /\ ~InFlight(s)
    OBVIOUS
  <2>1. Tracked(s) /\ ~Sent(s) /\ added_at[s] # 0
    BY DEF Queued
  <2>2. Wrote => item < s
    BY DEF Queued, Before
  <2>3. Wrote => item # s
    BY <1>0, <2>2
  <2>4. pc["probe"] = "mark" => ~Tracked(probe_seq)
    BY DEF Queued
  <2> QED BY <2>1, <2>3, <2>4 DEF InFlight
<1>4. /\ pc'["send"] # "done" => Elems(txq)' \subseteq open'
      /\ \A s \in Elems(txq)' : added_at'[s] # 0 /\ Tracked(s)' /\ ~Sent(s)'
  BY <1>0, <1>2, <1>3 DEF Queued, Tracked, Sent
<1>5. pc["schedule"] = "put" => ~InFlight(offer_seq)
  <2> SUFFICES ASSUME pc["schedule"] = "put" PROVE ~InFlight(offer_seq)
    OBVIOUS
  <2>1. item < offer_seq /\ Tracked(offer_seq) /\ offer_seq \in Nat
    BY <1>0 DEF Queued, Offering
  <2> QED BY <1>0, <2>1 DEF Queued, InFlight
<1>6. /\ pc'["schedule"] = "put" => offer_seq' \in open' /\ Tracked(offer_seq)' /\ ~Sent(offer_seq)'
      /\ Offering' => Before(Elems(txq)', {offer_seq'}) /\ item' < offer_seq'
  BY <1>1, <1>2, <1>5 DEF Queued, Tracked, Sent
<1>7. Writing => ~InFlight(item)
  <2> SUFFICES ASSUME Writing PROVE ~InFlight(item)
    OBVIOUS
  <2>1. Tracked(item) /\ ~Wrote
    BY DEF Queued, Writing, Wrote
  <2> QED BY <2>1 DEF Queued, InFlight
<1>8. /\ Writing' => item' \in open' /\ Tracked(item)' /\ ~Sent(item)' /\ Before({item'}, Elems(txq)')
      /\ Wrote' => item' \in open' \cup Answered' /\ Tracked(item)' /\ ~Sent(item)'
                   /\ Before({item'}, Elems(txq)')
  BY <1>1, <1>2, <1>7 DEF Queued, Tracked, Sent
<1>9. pc["probe"] = "write" => ~InFlight(probe_seq)
  <2> SUFFICES ASSUME pc["probe"] = "write" PROVE ~InFlight(probe_seq)
    OBVIOUS
  <2> QED BY DEF Queued, InFlight
<1>10. /\ pc'["probe"] = "write" => probe_seq' \in open' /\ ~Tracked(probe_seq)' /\ ~Sent(probe_seq)'
       /\ pc'["probe"] = "mark" =>
            probe_seq' \in open' \cup Answered' /\ ~Tracked(probe_seq)' /\ ~Sent(probe_seq)'
  <2>1. pc["probe"] = "mark" => probe_seq \in Seqs
    BY <1>0 DEF Probing
  <2> QED BY <1>9, <2>1 DEF Queued, Tracked, Sent
<1> QED BY <1>2, <1>4, <1>6, <1>8, <1>10 DEF Queued

LEMMA NextQueued ==
  ASSUME IInv, IInv', Typed, Holding, Numbered, Queued, Carried, Marked, WoundUp, [ClientNext]_clientVars
  PROVE  Queued'
<1> DEFINE Q == Elems(txq)
<1>0. /\ txq \in Seq(Int) /\ Q \subseteq Seqs /\ Seqs \subseteq Nat /\ 0 \notin Seqs
      /\ open \subseteq Seqs /\ Answered \subseteq Seqs /\ seq \in Nat
      /\ \A s \in open : added_at[s] # 0 /\ s \notin Answered
      /\ \A s \in Answered : added_at[s] # 0
      /\ item \in Nat /\ now \in Nat /\ pc \in [Threads -> Labels]
  <2>1. now \in Nat /\ pc \in [Threads -> Labels]
    BY BookAssumption DEF IInv, TypeOK, Typed
  <2> QED BY <2>1, QueueTypes
<1>a. /\ Offering => offer_seq \in Seqs
      /\ Writing \/ Wrote => item \in Seqs
      /\ ~(Writing \/ Wrote) => item = 0
      /\ Probing => probe_seq \in Seqs
  BY QueueTypes
<1>b. /\ Increasing(txq)
      /\ pc["send"] # "done" => Q \subseteq open
      /\ \A s \in Q : added_at[s] # 0 /\ Tracked(s) /\ ~Sent(s)
  BY DEF Queued
<1>c. /\ pc["schedule"] = "put" => offer_seq \in open /\ Tracked(offer_seq) /\ ~Sent(offer_seq)
      /\ Offering => Before(Q, {offer_seq}) /\ item < offer_seq
  BY DEF Queued
<1>d. /\ Writing => item \in open /\ Tracked(item) /\ ~Sent(item) /\ Before({item}, Q)
      /\ Wrote => item \in open \cup Answered /\ Tracked(item) /\ ~Sent(item) /\ Before({item}, Q)
  BY DEF Queued
<1>e. /\ pc["probe"] = "write" => probe_seq \in open /\ ~Tracked(probe_seq) /\ ~Sent(probe_seq)
      /\ pc["probe"] = "mark" =>
           probe_seq \in open \cup Answered /\ ~Tracked(probe_seq) /\ ~Sent(probe_seq)
  BY DEF Queued
<1> HIDE DEF Q
<1>1. CASE SchedDue \/ SchedCheck \/ SchedPause \/ SchedRoom
  <2>1. /\ UNCHANGED <<bookVars, txq, item, probe_seq>>
        /\ UNCHANGED <<pc["send"], pc["probe"]>>
    BY <1>1, ScheduleLeaves DEF Schedule, SchedDue, SchedCheck, SchedPause, SchedRoom, SchedAdd,
       Step
  <2>2. ~Offering'
    BY <1>0, <1>1, ScheduleSteps DEF SchedDue, SchedCheck, SchedPause, SchedRoom, Offering
  <2> QED BY <1>b, <1>d, <1>e, <2>1, <2>2
          DEF Queued, Q, Offering, Writing, Wrote, Tracked, Sent, bookVars, tables, stamps, Answered, Stamped
<1>2. CASE SchedOffer
  <2>1. /\ UNCHANGED <<bookVars, txq, item, probe_seq>>
        /\ UNCHANGED <<pc["send"], pc["probe"]>>
        /\ pc'["schedule"] = "add" /\ offer_seq' = seq + 1
    BY <1>0, <1>2, ScheduleSteps, ScheduleLeaves DEF Schedule, SchedOffer, SchedAdd, Step
  <2>2. \A s \in Seqs : added_at[s] # 0 => s < seq + 1
    BY <1>0 DEF Numbered
  <2>3. Before(Q, {seq + 1}) /\ item < seq + 1
    <3>1. Before(Q, {seq + 1})
      BY <1>0, <1>b, <2>2 DEF Before
    <3>2. item < seq + 1
      <4>1. CASE Writing \/ Wrote
        BY <1>0, <1>a, <1>d, <2>2, <4>1
      <4>2. CASE ~(Writing \/ Wrote)
        BY <1>0, <1>a, <4>2
      <4> QED BY <4>1, <4>2
    <3> QED BY <3>1, <3>2
  <2> QED BY <1>b, <1>d, <1>e, <2>1, <2>3
          DEF Queued, Q, Offering, Writing, Wrote, Tracked, Sent, bookVars, tables, stamps, Answered, Stamped
<1>3. ASSUME NEW s \in Seqs, added_at[s] = 0, NEW kind \in {ECHO, STATUS}, Add(s, kind)
      PROVE  /\ open' = open \cup {s} /\ UNCHANGED send_mono /\ ~Sent(s) /\ Answered' = Answered
             /\ \A r \in Seqs : added_at[r] # 0 => added_at'[r] # 0 /\ mtype'[r] = mtype[r]
             /\ mtype'[s] = kind
  <2>1. /\ open' = open \cup {s} /\ UNCHANGED <<send_mono, acked_at>> /\ ~Sent(s)
        /\ mtype' = [mtype EXCEPT ![s] = kind]
        /\ \A r \in Seqs : added_at'[r] # 0 <=> added_at[r] # 0 \/ r = s
    BY <1>3, AddSeen
  <2>2. mtype \in [Seqs -> {ECHO, STATUS}]
    BY DEF IInv, TypeOK
  <2> QED BY <1>3, <2>1, <2>2 DEF Answered, Stamped
<1>4. CASE SchedAdd
  <2>1. /\ UNCHANGED <<txq, item, probe_seq, offer_seq>>
        /\ UNCHANGED <<pc["send"], pc["probe"]>>
        /\ pc["schedule"] = "add" /\ pc'["schedule"] = "put"
    BY <1>0, <1>4, ScheduleSteps, ScheduleLeaves DEF Schedule, SchedAdd
  <2>2. offer_seq \in Seqs /\ added_at[offer_seq] = 0 /\ Add(offer_seq, ECHO)
    BY <1>4, NumbersInHand
  <2>3. /\ open' = open \cup {offer_seq} /\ UNCHANGED send_mono /\ ~Sent(offer_seq) /\ Answered' = Answered
        /\ \A r \in Seqs : added_at[r] # 0 => added_at'[r] # 0 /\ mtype'[r] = mtype[r]
        /\ mtype'[offer_seq] = ECHO
    BY <1>3, <2>2
  <2>4. /\ Increasing(txq)' /\ (pc'["send"] # "done" => Elems(txq)' \subseteq open')
        /\ \A s \in Elems(txq)' : added_at'[s] # 0 /\ Tracked(s)' /\ ~Sent(s)'
    BY <1>0, <1>b, <2>1, <2>3 DEF Q, Tracked, Sent
  <2>5. /\ offer_seq' \in open' /\ Tracked(offer_seq)' /\ ~Sent(offer_seq)'
        /\ Before(Elems(txq)', {offer_seq'}) /\ item' < offer_seq'
    BY <1>c, <2>1, <2>3 DEF Q, Tracked, Sent, Offering
  <2>6. /\ Writing' => item' \in open' /\ Tracked(item)' /\ ~Sent(item)' /\ Before({item'}, Elems(txq)')
        /\ Wrote' => item' \in open' \cup Answered' /\ Tracked(item)' /\ ~Sent(item)'
                     /\ Before({item'}, Elems(txq)')
    BY <1>0, <1>d, <2>1, <2>3 DEF Q, Tracked, Sent, Writing, Wrote
  <2>7. /\ pc'["probe"] = "write" => probe_seq' \in open' /\ ~Tracked(probe_seq)' /\ ~Sent(probe_seq)'
        /\ pc'["probe"] = "mark" =>
             probe_seq' \in open' \cup Answered' /\ ~Tracked(probe_seq)' /\ ~Sent(probe_seq)'
    BY <1>0, <1>a, <1>e, <2>1, <2>3 DEF Tracked, Sent, Probing
  <2> QED BY <2>4, <2>5, <2>6, <2>7 DEF Queued
<1>5. CASE SchedPut
  <2>1. /\ UNCHANGED <<bookVars, item, probe_seq>>
        /\ UNCHANGED <<pc["send"], pc["probe"]>>
        /\ pc["schedule"] = "put" /\ pc'["schedule"] = "loop"
        /\ txq' = Append(txq, offer_seq)
    BY <1>0, <1>5, ScheduleSteps, ScheduleLeaves DEF Schedule, SchedPut, SchedAdd, Step
  <2>2. Offering /\ ~Offering' /\ offer_seq \in Seqs
    BY <1>a, <2>1 DEF Offering
  <2>3. Elems(txq)' = Q \cup {offer_seq} /\ Increasing(txq)'
    <3>1. txq \in Seq(Seqs) /\ offer_seq \in Int
      BY <1>0, <2>2 DEF Typed
    <3>2. Elems(Append(txq, offer_seq)) = Elems(txq) \cup {offer_seq}
      BY <2>2, <3>1, ElemsAppend
    <3>3. Increasing(Append(txq, offer_seq))
      BY <1>0, <1>b, <1>c, <2>2, <3>1, IncreasingAppend DEF Q
    <3> QED BY <2>1, <3>2, <3>3 DEF Q
  <2>4. UNCHANGED <<open, added_at, mtype, send_mono>> /\ Answered' = Answered
    BY <2>1 DEF bookVars, tables, stamps, Answered, Stamped
  <2>5. Writing' = Writing /\ Wrote' = Wrote
    BY <2>1 DEF Writing, Wrote
  <2>6. Writing \/ Wrote => Before({item}, Elems(txq)')
    BY <1>c, <1>d, <2>2, <2>3 DEF Before
  <2> QED BY <1>b, <1>c, <1>d, <1>e, <1>0, <2>1, <2>2, <2>3, <2>4, <2>5, <2>6 DEF Queued, Tracked,
             Sent
<1>6. CASE SendGet
  <2>1. /\ UNCHANGED <<bookVars, offer_seq, probe_seq>>
        /\ UNCHANGED <<pc["schedule"], pc["probe"]>>
        /\ pc["send"] = "loop" /\ pc'["send"] = "write"
        /\ txq # <<>> /\ txq' = Tail(txq) /\ item' = Head(txq)
    BY <1>0, <1>6, SendSteps, SendLeaves DEF Send, SendGet, SendDrop, SendMark, Step
  <2>2. /\ Q = {item'} \cup Elems(txq)' /\ Increasing(txq)'
        /\ Before({item'}, Elems(txq)')
    BY <1>0, <1>b, <2>1, ElemsTail, IncreasingTail DEF Q
  <2>3. UNCHANGED <<open, added_at, mtype, send_mono>> /\ Answered' = Answered
    BY <2>1 DEF bookVars, tables, stamps, Answered, Stamped
  <2>4. Offering' = Offering /\ Writing' /\ ~Wrote'
    BY <2>1 DEF Offering, Writing, Wrote
  <2>5. Offering => Before(Elems(txq)', {offer_seq}) /\ item' < offer_seq
    BY <1>c, <2>2 DEF Before
  <2> QED BY <1>b, <1>c, <1>e, <2>1, <2>2, <2>3, <2>4, <2>5 DEF Queued, Tracked, Sent
<1>7. CASE SendExit \/ SendFail \/ SendWrite \/ SendClock \/ SendCount
  <2>1. /\ UNCHANGED <<bookVars, offer_seq, probe_seq, txq, item>>
        /\ UNCHANGED <<pc["schedule"], pc["probe"]>>
    <3>1. UNCHANGED <<txq, item>> /\ ~SendDrop /\ ~SendMark
      BY <1>0, <1>7, SendSteps DEF SendExit, SendFail, SendWrite, SendClock, SendCount, SendDrop,
         SendMark,
                                   sender, Step
    <3> QED BY <1>7, <3>1, SendLeaves DEF Send
  <2>2. UNCHANGED <<open, added_at, mtype, send_mono>> /\ Answered' = Answered /\ Elems(txq)' = Q
        /\ Increasing(txq)'
    BY <1>b, <2>1 DEF bookVars, tables, stamps, Answered, Stamped, Q
  <2>3. /\ Offering' = Offering
        /\ (Writing' => Writing) /\ (Wrote' => Writing \/ Wrote)
        /\ (pc'["send"] # "done" => pc["send"] # "done")
    <3>1. pc["send"] # "done"
      BY <1>7, SendLeaves DEF Send
    <3>2. Writing' => Writing
      BY <1>0, <1>7, SendSteps DEF SendExit, SendFail, SendWrite, SendClock, SendCount, Writing,
         Step
    <3>3. Wrote' => Writing \/ Wrote
      BY <1>0, <1>7, SendSteps DEF SendExit, SendFail, SendWrite, SendClock, SendCount, Writing,
         Wrote, Step
    <3> QED BY <2>1, <3>1, <3>2, <3>3 DEF Offering
  <2> QED BY <1>b, <1>c, <1>d, <1>e, <2>1, <2>2, <2>3 DEF Queued, Tracked, Sent
<1>8. CASE SendDrop
  <2>1. /\ UNCHANGED <<offer_seq, probe_seq, txq, added_at, mtype>>
        /\ UNCHANGED <<pc["schedule"], pc["probe"]>>
        /\ pc'["send"] = "done" /\ item' = 0
    BY <1>0, <1>8, SendSteps, SendLeaves DEF Send, SendDrop, stamps
  <2>2. Writing /\ item \in open /\ Tracked(item)
    BY <1>8, <1>d, NumbersInHand DEF Writing
  <2>3. open \ {item} \subseteq open' /\ UNCHANGED send_mono /\ Answered' = Answered
    BY <1>8, NumbersInHand, DropSeen DEF Answered, Stamped
  <2>4. ~Writing' /\ ~Wrote' /\ Offering' = Offering
    BY <2>1 DEF Writing, Wrote, Offering
  <2>5. /\ Offering => offer_seq # item /\ offer_seq \in Nat /\ 0 < offer_seq
        /\ pc["probe"] \in {"write", "mark"} => probe_seq # item
    <3>1. ASSUME Offering PROVE offer_seq # item /\ offer_seq \in Nat /\ 0 < offer_seq
      <4>1. item \in Nat /\ offer_seq \in Nat /\ item < offer_seq
        BY <1>0, <1>a, <1>c, <3>1
      <4> QED BY <4>1
    <3> QED BY <1>e, <2>2, <3>1
  <2>6. pc["schedule"] = "put" => Offering
    BY DEF Offering
  <2> QED BY <1>b, <1>c, <1>e, <2>1, <2>3, <2>4, <2>5, <2>6 DEF Queued, Tracked, Sent, Q
<1>9. ASSUME NEW s \in Seqs, NEW t \in Nat, MarkSent(s, t)
      PROVE  /\ \A r \in Seqs \ {s} : Sent(r)' <=> Sent(r)
             /\ UNCHANGED <<open, added_at, mtype>> /\ Answered' = Answered
  BY <1>9, MarkSeen DEF Answered, Stamped
<1>10. CASE SendMark
  <2>1. /\ UNCHANGED <<offer_seq, probe_seq, txq>>
        /\ UNCHANGED <<pc["schedule"], pc["probe"]>>
        /\ pc["send"] = "mark" /\ pc'["send"] = "count" /\ item' = 0
    BY <1>0, <1>10, SendSteps, SendLeaves DEF Send, SendMark
  <2>2. Wrote /\ ~Writing' /\ ~Wrote' /\ Offering' = Offering /\ item \in Seqs
    BY <1>a, <2>1 DEF Writing, Wrote, Offering
  <2>3. /\ \A r \in Seqs \ {item} : Sent(r)' <=> Sent(r)
        /\ UNCHANGED <<open, added_at, mtype>> /\ Answered' = Answered
    <3>1. send_clock \in Nat
      BY <1>0 DEF Typed
    <3> QED BY <1>9, <1>10, <2>2, <3>1 DEF SendMark
  <2>4. /\ item \notin Q /\ (Offering => offer_seq # item /\ 0 < offer_seq)
        /\ (pc["probe"] \in {"write", "mark"} => probe_seq # item /\ probe_seq \in Seqs)
    <3>1. item \notin Q
      BY <1>0, <1>d, <2>2 DEF Before
    <3>2. ASSUME Offering PROVE offer_seq # item /\ 0 < offer_seq
      <4>1. item \in Nat /\ offer_seq \in Nat /\ item < offer_seq
        BY <1>0, <1>a, <1>c, <3>2
      <4> QED BY <4>1
    <3>3. pc["probe"] \in {"write", "mark"} => probe_seq # item /\ probe_seq \in Seqs
      BY <1>a, <1>d, <1>e, <2>2 DEF Probing
    <3> QED BY <3>1, <3>2, <3>3
  <2>5. /\ Increasing(txq)' /\ (pc'["send"] # "done" => Elems(txq)' \subseteq open')
        /\ \A s \in Elems(txq)' : added_at'[s] # 0 /\ Tracked(s)' /\ ~Sent(s)'
    BY <1>0, <1>b, <2>1, <2>3, <2>4 DEF Q, Tracked
  <2>6. /\ pc'["schedule"] = "put" => offer_seq' \in open' /\ Tracked(offer_seq)' /\ ~Sent(offer_seq)'
        /\ Offering' => Before(Elems(txq)', {offer_seq'}) /\ item' < offer_seq'
    BY <1>0, <1>a, <1>c, <2>1, <2>2, <2>3, <2>4 DEF Q, Tracked, Offering
  <2>7. /\ pc'["probe"] = "write" => probe_seq' \in open' /\ ~Tracked(probe_seq)' /\ ~Sent(probe_seq)'
        /\ pc'["probe"] = "mark" =>
             probe_seq' \in open' \cup Answered' /\ ~Tracked(probe_seq)' /\ ~Sent(probe_seq)'
    BY <1>e, <2>1, <2>3, <2>4 DEF Tracked
  <2> QED BY <2>2, <2>5, <2>6, <2>7 DEF Queued
<1>11. ASSUME Probe,
              pc'["probe"] # "write" /\ pc'["probe"] # "mark",
              UNCHANGED mtype,
              \A s \in Seqs : added_at[s] # 0 => added_at'[s] # 0,
              \A s \in Seqs : Tracked(s) => (Sent(s)' <=> Sent(s)) /\ (s \in open => s \in open')
       PROVE  Queued'
  <2>1. /\ UNCHANGED <<offer_seq, item, txq, acked_at>>
        /\ UNCHANGED <<pc["schedule"], pc["send"]>>
    BY <1>11, ProbeLeaves
  <2>2. Writing' = Writing /\ Wrote' = Wrote /\ Offering' = Offering /\ Answered' = Answered
    BY <2>1 DEF Writing, Wrote, Offering, Answered, Stamped
  <2>3. /\ Increasing(txq)' /\ (pc'["send"] # "done" => Elems(txq)' \subseteq open')
        /\ \A s \in Elems(txq)' : added_at'[s] # 0 /\ Tracked(s)' /\ ~Sent(s)'
    BY <1>0, <1>b, <1>11, <2>1 DEF Q, Tracked
  <2>4. /\ pc'["schedule"] = "put" => offer_seq' \in open' /\ Tracked(offer_seq)' /\ ~Sent(offer_seq)'
        /\ Offering' => Before(Elems(txq)', {offer_seq'}) /\ item' < offer_seq'
    BY <1>0, <1>c, <1>11, <2>1, <2>2 DEF Q, Tracked
  <2>5. /\ Writing' => item' \in open' /\ Tracked(item)' /\ ~Sent(item)' /\ Before({item'}, Elems(txq)')
        /\ Wrote' => item' \in open' \cup Answered' /\ Tracked(item)' /\ ~Sent(item)'
                     /\ Before({item'}, Elems(txq)')
    BY <1>0, <1>a, <1>d, <1>11, <2>1, <2>2 DEF Q, Tracked
  <2> QED BY <1>11, <2>3, <2>4, <2>5 DEF Queued
<1>12. CASE ProbeDue
  <2>1. UNCHANGED bookVars
    BY <1>12 DEF ProbeDue, vars
  <2>2. pc'["probe"] # "write" /\ pc'["probe"] # "mark"
    <3>1. CASE stopped
      BY <1>0, <1>12, <3>1, ProbeSteps DEF ProbeDue
    <3>2. CASE ~stopped
      <4>1. Step("probe", "loop", "add")
        BY <1>12, <3>2 DEF ProbeDue
      <4> QED BY <1>0, <4>1, ProbeSteps
    <3> QED BY <3>1, <3>2
  <2> QED BY <1>11, <1>12, <2>1, <2>2 DEF Probe, bookVars, tables, stamps, Sent
<1>13. CASE ProbeAdd
  <2>1. /\ UNCHANGED <<txq, item, probe_seq, offer_seq>>
        /\ UNCHANGED <<pc["send"], pc["schedule"]>>
        /\ pc["probe"] = "add" /\ pc'["probe"] = "write"
    BY <1>0, <1>13, ProbeSteps, ProbeLeaves DEF Probe, ProbeAdd
  <2>2. probe_seq \in Seqs /\ added_at[probe_seq] = 0 /\ Add(probe_seq, STATUS)
    BY <1>13, NumbersInHand
  <2>3. /\ open' = open \cup {probe_seq} /\ UNCHANGED send_mono /\ ~Sent(probe_seq) /\ Answered' = Answered
        /\ \A r \in Seqs : added_at[r] # 0 => added_at'[r] # 0 /\ mtype'[r] = mtype[r]
        /\ mtype'[probe_seq] = STATUS
    BY <1>3, <2>2
  <2>4. /\ Increasing(txq)' /\ (pc'["send"] # "done" => Elems(txq)' \subseteq open')
        /\ \A s \in Elems(txq)' : added_at'[s] # 0 /\ Tracked(s)' /\ ~Sent(s)'
    BY <1>0, <1>b, <2>1, <2>3 DEF Q, Tracked, Sent
  <2>5. /\ pc'["schedule"] = "put" => offer_seq' \in open' /\ Tracked(offer_seq)' /\ ~Sent(offer_seq)'
        /\ Offering' => Before(Elems(txq)', {offer_seq'}) /\ item' < offer_seq'
    BY <1>0, <1>c, <2>1, <2>3 DEF Q, Tracked, Sent, Offering
  <2>6. /\ Writing' => item' \in open' /\ Tracked(item)' /\ ~Sent(item)' /\ Before({item'}, Elems(txq)')
        /\ Wrote' => item' \in open' \cup Answered' /\ Tracked(item)' /\ ~Sent(item)'
                     /\ Before({item'}, Elems(txq)')
    BY <1>0, <1>d, <2>1, <2>3 DEF Q, Tracked, Sent, Writing, Wrote
  <2>7. probe_seq' \in open' /\ ~Tracked(probe_seq)' /\ ~Sent(probe_seq)'
    BY <2>1, <2>3, BookAssumption DEF Tracked, Sent
  <2> QED BY <2>1, <2>4, <2>5, <2>6, <2>7 DEF Queued
<1>14. CASE ProbeWrite
  <2>1. /\ UNCHANGED <<bookVars, txq, item, probe_seq, offer_seq>>
        /\ UNCHANGED <<pc["send"], pc["schedule"]>>
        /\ pc["probe"] = "write" /\ pc'["probe"] = "mark"
    BY <1>0, <1>14, ProbeSteps, ProbeLeaves DEF Probe, ProbeWrite, vars
  <2> QED BY <1>0, <1>b, <1>c, <1>d, <1>e, <2>1
          DEF Queued, Q, Offering, Writing, Wrote, Tracked, Sent, bookVars, tables, stamps, Answered, Stamped
<1>15. CASE ProbeFail
  <2>1. pc'["probe"] = "loop" /\ ~Tracked(probe_seq)
    BY <1>0, <1>e, <1>15, ProbeSteps DEF ProbeFail
  <2>2. open \ {probe_seq} \subseteq open' /\ UNCHANGED <<mtype, send_mono, added_at>>
    BY <1>15, NumbersInHand, DropSeen
  <2> QED BY <1>11, <1>15, <2>1, <2>2 DEF Probe, Sent
<1>16. CASE ProbeMark
  <2>1. pc["probe"] = "mark" /\ pc'["probe"] = "loop"
    BY <1>0, <1>16, ProbeSteps DEF ProbeMark
  <2>2. ~Tracked(probe_seq) /\ probe_seq \in Seqs
    BY <1>a, <1>e, <2>1 DEF Probing
  <2>3. /\ \A r \in Seqs \ {probe_seq} : Sent(r)' <=> Sent(r)
        /\ UNCHANGED <<open, added_at, mtype>>
    BY <1>0, <1>9, <1>16, <2>2 DEF ProbeMark
  <2>4. \A s \in Seqs : Tracked(s) => s # probe_seq
    BY <2>2
  <2> QED BY <1>11, <1>16, <2>1, <2>3, <2>4 DEF Probe
<1>17. ASSUME UNCHANGED <<bookVars, txq, offer_seq, item, probe_seq>>,
              UNCHANGED <<pc["schedule"], pc["send"], pc["probe"]>>
       PROVE  Queued'
  BY <1>17, QueuedKept DEF bookVars, tables, stamps, Answered, Stamped
<1>18. CASE ReapStep
  <2>1. /\ UNCHANGED <<txq, offer_seq, item, probe_seq>>
        /\ UNCHANGED <<pc["schedule"], pc["send"], pc["probe"]>>
    BY <1>18, ReapLeaves DEF sender
  <2>2. CASE stopped
    BY <1>17, <1>18, <2>1, <2>2 DEF ReapStep
  <2>3. CASE ~stopped
    <3>1. Reap(now, FALSE)
      BY <1>18, <2>3 DEF ReapStep
    <3>2. /\ UNCHANGED <<added_at, acked_at, mtype, send_mono>>
          /\ open' = open \ (Expired(now, FALSE) \cup {})
      BY <1>0, <3>1, ReapSeen
    <3>3. \A s \in Expired(now, FALSE) : Sent(s)
      BY DEF Expired
    <3>4. /\ \A s \in open : ~Sent(s) => s \in open'
          /\ Answered' = Answered
      BY <3>2, <3>3 DEF Answered, Stamped
    <3> QED BY <2>1, <3>2, <3>4, QueuedKept
  <2> QED BY <2>2, <2>3
<1>19. CASE StopCall \/ StopStep
  <2>1. /\ UNCHANGED <<txq, offer_seq, item, probe_seq, added_at, mtype, send_mono>>
        /\ UNCHANGED <<pc["schedule"], pc["send"], pc["probe"]>>
    BY <1>19, StopLeaves DEF sender
  <2>2. CASE ~StopReap
    BY <1>17, <1>19, <2>1, <2>2, StopLeaves
  <2>3. CASE StopReap
    <3>1. pc["schedule"] = "done" /\ pc["send"] = "done" /\ pc["probe"] = "done"
      BY <1>0, <2>3, StopSteps DEF StopReap, WoundUp, Threads
    <3> QED BY <1>b, <2>1, <3>1 DEF Queued, Q, Offering, Writing, Wrote, Tracked, Sent
  <2> QED BY <2>2, <2>3
<1>20. CASE Clock \/ Finished \/ UNCHANGED clientVars
  BY <1>17, <1>20, ClockLeaves DEF sender, progress
<1>21. ASSUME NEW c \in Conns, Read(c) PROVE Queued'
  <2>1. /\ UNCHANGED <<pc, txq, offer_seq, item, probe_seq, added_at, mtype, send_mono>>
    BY <1>21, ReadLeaves
  <2>2. CASE ~ReadTake(c)
    BY <1>17, <1>21, <2>1, <2>2, ReadLeaves
  <2>3. CASE ReadTake(c)
    <3> DEFINE s == reply[c].seq
    <3>1. rpc[c] = "take" /\ s \in Seqs /\ Take(s)
      BY <2>3, NumbersInHand
    <3>2. s \in Out(c)
      BY <3>1 DEF Out, Hand
    <3>3. Sent(s) \/ s \in Answered \/ InFlight(s)
      BY <3>2 DEF Carried, Written
    <3> HIDE DEF s
    <3>4. /\ \A r \in open : ~Sent(r) /\ ~InFlight(r) => r \in open'
          /\ open \cup Answered \subseteq open' \cup Answered'
      BY <1>0, <3>1, <3>3, TakeSeen
    <3> QED BY <2>1, <3>4, QueuedKept
  <2> QED BY <2>2, <2>3
<1> QED BY <1>1, <1>2, <1>4, <1>5, <1>6, <1>7, <1>8, <1>10, <1>12, <1>13, <1>14, <1>15, <1>16,
           <1>18, <1>19, <1>20, <1>21
        DEF ClientNext, Schedule, Send, Probe

-----------------------------------------------------------------------------
(* What is out on the connections *)

\* A number that waits in open, unmarked and not in flight, is on no connection.
LEMMA NotOut ==
  ASSUME IInv, Carried, NEW s \in open, ~Sent(s), ~InFlight(s)
  PROVE  \A c \in Conns : s \notin Out(c)
<1>1. s \notin Answered
  BY DEF IInv, TypeOK, Placement, Answered, Stamped
<1> QED BY <1>1 DEF Carried, Written

\* A step that moves nothing on the connections, and after which every number
\* written still counts as written.
LEMMA CarriedKept ==
  ASSUME Carried, UNCHANGED <<wire, frames, reply>>,
         \A c \in Conns : rpc'[c] = "take" <=> rpc[c] = "take",
         Answered' = Answered,
         \A c \in Conns : \A s \in Out(c) : Written(s)'
  PROVE  Carried'
<1>1. \A c \in Conns : Hand(c)' = Hand(c) /\ Out(c)' = Out(c)
  BY DEF Hand, Out
<1> QED BY <1>1 DEF Carried

\* A write: the number joins the connection it is written to.
LEMMA WriteCarried ==
  ASSUME IInv, Typed, Holding, Carried, NEW w \in Conns, NEW s \in Seqs,
         \A c \in Conns : s \notin Out(c), s \notin Answered,
         UNCHANGED <<frames, reply, rpc>>, Answered' = Answered,
         wire' = [wire EXCEPT ![w] = Append(@, s)],
         Written(s)',
         \A r \in Seqs : Written(r) => Written(r)'
  PROVE  Carried'
<1>1. /\ Elems(wire[w])' = Elems(wire[w]) \cup {s}
      /\ Distinct(wire[w])'
      /\ \A c \in Conns \ {w} : wire'[c] = wire[c]
  <2>1. wire[w] \in Seq(Seqs) /\ wire'[w] = Append(wire[w], s) /\ \A c \in Conns \ {w} : wire'[c] = wire[c]
    BY DEF Typed
  <2>2. Distinct(wire[w]) /\ s \notin Elems(wire[w])
    BY DEF Carried, Out
  <2>3. Elems(Append(wire[w], s)) = Elems(wire[w]) \cup {s} /\ Distinct(Append(wire[w], s))
    BY <2>1, <2>2, ElemsAppend, DistinctAppend
  <2> QED BY <2>1, <2>3
<1>2. /\ \A c \in Conns : Hand(c)' = Hand(c)
      /\ Out(w)' = Out(w) \cup {s}
      /\ \A c \in Conns \ {w} : Out(c)' = Out(c)
  BY <1>1 DEF Hand, Out
<1>3. \A c \in Conns : Distinct(wire[c])' /\ Distinct(frames[c])'
  BY <1>1 DEF Carried
<1>4. \A c \in Conns : rpc'[c] = "take" => reply'[c].seq \notin Elems(frames[c])'
  BY DEF Carried
<1>5. \A c, d \in Conns : c # d => Out(c)' \cap Out(d)' = {}
  <2> SUFFICES ASSUME NEW c \in Conns, NEW d \in Conns, c # d PROVE Out(c)' \cap Out(d)' = {}
    OBVIOUS
  <2>1. Out(c) \cap Out(d) = {}
    BY DEF Carried
  <2> QED BY <1>2, <2>1
<1>6. \A c \in Conns : Hand(c)' \cap Answered' \cap Elems(wire[c])' = {}
  <2> SUFFICES ASSUME NEW c \in Conns PROVE Hand(c)' \cap Answered' \cap Elems(wire[c])' = {}
    OBVIOUS
  <2>1. Hand(c) \cap Answered \cap Elems(wire[c]) = {}
    BY DEF Carried
  <2> QED BY <1>1, <1>2, <2>1
<1>7. \A c \in Conns : \A r \in Out(c)' : Written(r)'
  <2>1. \A c \in Conns : \A r \in Out(c) : r \in Seqs /\ Written(r)
    <3> SUFFICES ASSUME NEW c \in Conns, NEW r \in Out(c) PROVE r \in Seqs /\ Written(r)
      OBVIOUS
    <3>1. Elems(frames[c]) \subseteq Seqs /\ Elems(wire[c]) \subseteq Seqs
      BY ElemsType DEF Typed
    <3>2. rpc[c] = "take" => reply[c].seq \in Seqs
      BY DEF Holding
    <3> QED BY <3>1, <3>2 DEF Carried, Out, Hand
  <2> QED BY <1>2, <2>1
<1> QED BY <1>3, <1>4, <1>5, <1>6, <1>7 DEF Carried

\* A step of the reader of connection r, which touches no other connection.
LEMMA ReaderCarried ==
  ASSUME Carried, NEW r \in Conns,
         \A d \in Conns \ {r} : /\ rpc'[d] = rpc[d] /\ frames'[d] = frames[d]
                                 /\ wire'[d] = wire[d] /\ reply'[d] = reply[d],
         UNCHANGED <<pc, item, probe_seq, added_at, send_mono>>,
         Distinct(wire[r])', Distinct(frames[r])',
         rpc'[r] = "take" => reply'[r].seq \notin Elems(frames[r])',
         Out(r)' \subseteq Out(r),
         Hand(r)' \cap Answered' \cap Elems(wire[r])' = {},
         Answered \subseteq Answered',
         \A d \in Conns \ {r} : Out(d) \cap Answered' = Out(d) \cap Answered
  PROVE  Carried'
<1>1. \A d \in Conns \ {r} : Hand(d)' = Hand(d) /\ Out(d)' = Out(d)
  BY DEF Hand, Out
<1>2. \A c \in Conns : Distinct(wire[c])' /\ Distinct(frames[c])'
  BY DEF Carried
<1>3. \A c \in Conns : rpc'[c] = "take" => reply'[c].seq \notin Elems(frames[c])'
  BY DEF Carried
<1>4. \A c, d \in Conns : c # d => Out(c)' \cap Out(d)' = {}
  <2> SUFFICES ASSUME NEW c \in Conns, NEW d \in Conns, c # d PROVE Out(c)' \cap Out(d)' = {}
    OBVIOUS
  <2>1. Out(c) \cap Out(d) = {}
    BY DEF Carried
  <2>2. Out(c)' \subseteq Out(c) /\ Out(d)' \subseteq Out(d)
    BY <1>1
  <2> QED BY <2>1, <2>2
<1>5. \A c \in Conns : Hand(c)' \cap Answered' \cap Elems(wire[c])' = {}
  <2> SUFFICES ASSUME NEW c \in Conns \ {r} PROVE Hand(c)' \cap Answered' \cap Elems(wire[c])' = {}
    OBVIOUS
  <2>1. Hand(c) \cap Answered \cap Elems(wire[c]) = {} /\ Out(c) \cap Answered' = Out(c) \cap Answered
    BY DEF Carried
  <2>2. Hand(c)' = Hand(c) /\ Elems(wire[c])' = Elems(wire[c]) /\ Hand(c) \subseteq Out(c)
    BY <1>1 DEF Out
  <2> QED BY <2>1, <2>2
<1>6. \A c \in Conns : \A s \in Out(c)' : Written(s)'
  <2> SUFFICES ASSUME NEW c \in Conns, NEW s \in Out(c)' PROVE Written(s)'
    OBVIOUS
  <2>1. Written(s)
    BY <1>1 DEF Carried
  <2>2. InFlight(s)' <=> InFlight(s)
    BY DEF InFlight, Wrote
  <2> QED BY <2>1, <2>2 DEF Written, Sent
<1> QED BY <1>2, <1>3, <1>4, <1>5, <1>6 DEF Carried

\* Everything on a connection or in hand is a number that was written.
LEMMA OutNumbers ==
  ASSUME Typed, Holding, NEW c \in Conns
  PROVE  Out(c) \subseteq Seqs /\ Elems(frames[c]) \subseteq Seqs /\ Elems(wire[c]) \subseteq Seqs
<1>1. Elems(frames[c]) \subseteq Seqs /\ Elems(wire[c]) \subseteq Seqs
  BY ElemsType DEF Typed
<1>2. rpc[c] = "take" => reply[c].seq \in Seqs
  BY DEF Holding
<1> QED BY <1>1, <1>2 DEF Out, Hand

\* A step of the scheduler, writer or prober that writes nothing.
LEMMA CarriedQuiet ==
  ASSUME Typed, Holding, Carried, UNCHANGED <<wire, frames, reply, rpc, acked_at>>,
         \A s \in Seqs : Written(s) => Written(s)'
  PROVE  Carried'
<1>1. \A c \in Conns : \A s \in Out(c) : Written(s)'
  BY OutNumbers DEF Carried
<1> QED BY <1>1, CarriedKept DEF Answered, Stamped

\* What a reader's step moves: from the connection to its hand, and on.
LEMMA ReaderMoves ==
  ASSUME IInv, Typed, Holding, Numbered, Queued, Carried, NEW c \in Conns, Read(c)
  PROVE  /\ Distinct(wire[c])' /\ Distinct(frames[c])'
         /\ rpc'[c] = "take" => reply'[c].seq \notin Elems(frames[c])'
         /\ Out(c)' \subseteq Out(c)
         /\ Hand(c)' \cap Answered' \cap Elems(wire[c])' = {}
         /\ Answered \subseteq Answered'
         /\ \A d \in Conns \ {c} : Out(d) \cap Answered' = Out(d) \cap Answered
<1>t. /\ rpc \in [Conns -> ReaderLabels]
      /\ reply \in [Conns -> [seq : Nat, clock : Nat, kind : {"none", "ok", "late"},
                              sent : Nat \cup {NotSent}]]
      /\ frames \in [Conns -> Seq(Seqs)] /\ wire \in [Conns -> Seq(Seqs)]
  BY DEF Typed
<1> DEFINE w == wire[c]
           f == frames[c]
<1>0. /\ UNCHANGED <<pc, item, probe_seq, added_at, send_mono>>
      /\ \A d \in Conns \ {c} : /\ rpc'[d] = rpc[d] /\ frames'[d] = frames[d]
                                 /\ wire'[d] = wire[d] /\ reply'[d] = reply[d]
      /\ ~ReadTake(c) => Answered' = Answered
  BY ReadLeaves DEF bookVars, stamps, Answered, Stamped
<1>a. /\ Distinct(w) /\ Distinct(f)
      /\ rpc[c] = "take" => reply[c].seq \notin Elems(f)
      /\ Hand(c) \cap Answered \cap Elems(w) = {}
  BY DEF Carried
<1>b. w \in Seq(Seqs) /\ f \in Seq(Seqs)
  BY <1>t
<1>c. rpc[c] \in {"recv", "done"} => f = <<>>
  BY DEF Holding
<1>1. CASE ReadTcp(c)
  <2>1. PICK n \in 1..Len(w) :
          /\ frames' = [frames EXCEPT ![c] = SubSeq(w, 1, n)]
          /\ wire' = [wire EXCEPT ![c] = SubSeq(w, n + 1, Len(w))]
    BY <1>1 DEF ReadTcp
  <2>2. rpc[c] = "recv" /\ rpc'[c] = "frames" /\ ~ReadTake(c)
    BY <1>t, <1>1, ReaderSteps DEF ReadTcp, ReadTake, RStep
  <2> DEFINE a == SubSeq(w, 1, n)
             b == SubSeq(w, n + 1, Len(w))
  <2>3. /\ Distinct(a) /\ Distinct(b) /\ Elems(a) \cap Elems(b) = {}
        /\ Elems(a) \cup Elems(b) = Elems(w)
    BY <1>a, <1>b, DistinctParts
  <2>4. frames'[c] = a /\ wire'[c] = b
    BY <1>t, <2>1
  <2> HIDE DEF a, b
  <2>5. Hand(c)' = Elems(a) /\ Out(c)' = Elems(w)
    BY <2>2, <2>3, <2>4 DEF Hand, Out
  <2>6. Out(c)' \subseteq Out(c)
    BY <2>5 DEF Out
  <2>7. Hand(c)' \cap Answered' \cap Elems(wire[c])' = {}
    BY <2>3, <2>4, <2>5
  <2> QED BY <1>0, <2>2, <2>3, <2>4, <2>6, <2>7
<1>2. CASE ReadUdp(c)
  <2>1. PICK n \in 1..Len(w) :
          /\ frames' = [frames EXCEPT ![c] = <<w[n]>>]
          /\ \/ wire' = [wire EXCEPT ![c] = SubSeq(w, 1, n - 1) \o SubSeq(w, n + 1, Len(w))]
             \/ w[n] \notin Answered /\ UNCHANGED wire
    BY <1>2 DEF ReadUdp
  <2>2. rpc[c] = "recv" /\ rpc'[c] = "frames" /\ ~ReadTake(c)
    BY <1>t, <1>2, ReaderSteps DEF ReadUdp, ReadTake, RStep
  <2> DEFINE b == SubSeq(w, 1, n - 1) \o SubSeq(w, n + 1, Len(w))
  <2>3. Elems(b) \subseteq Elems(w) /\ Distinct(b) /\ w[n] \notin Elems(b)
    BY <1>a, <1>b, WithoutElement
  <2>4. w[n] \in Elems(w)
    BY <1>b DEF Elems
  <2>5. frames'[c] = <<w[n]>> /\ Elems(<<w[n]>>) = {w[n]} /\ Distinct(<<w[n]>>)
    BY <1>t, <2>1, OneElement
  <2>6. \/ wire'[c] = b
        \/ wire'[c] = w /\ w[n] \notin Answered
    BY <1>t, <2>1
  <2> HIDE DEF b
  <2>7. /\ Distinct(wire[c])' /\ Elems(wire[c])' \subseteq Elems(w)
        /\ w[n] \in Answered => w[n] \notin Elems(wire[c])'
    BY <1>a, <2>3, <2>6
  <2>8. Hand(c)' = {w[n]}
    BY <2>2, <2>5 DEF Hand
  <2>9. Out(c)' \subseteq Out(c)
    BY <2>4, <2>7, <2>8 DEF Out
  <2>10. Hand(c)' \cap Answered' \cap Elems(wire[c])' = {}
    BY <1>0, <2>2, <2>7, <2>8
  <2> QED BY <1>0, <2>2, <2>5, <2>7, <2>9, <2>10
<1>3. CASE ReadExit(c)
  <2>1. UNCHANGED <<frames, reply, wire>> /\ rpc[c] = "recv" /\ rpc'[c] = "done" /\ ~ReadTake(c)
    BY <1>t, <1>3, ReaderSteps DEF ReadExit, reader, ReadTake, RStep
  <2>2. Hand(c)' = Hand(c) /\ Out(c)' = Out(c)
    BY <2>1 DEF Hand, Out
  <2> QED BY <1>0, <1>a, <2>1, <2>2
<1>4. CASE ReadFrame(c)
  <2>0. UNCHANGED wire /\ rpc[c] = "frames" /\ ~ReadTake(c)
    BY <1>t, <1>4, ReaderSteps DEF ReadFrame, ReadTake, RStep
  <2>1. CASE f = <<>>
    <3>1. UNCHANGED <<frames, reply>> /\ rpc'[c] = "recv"
      BY <1>t, <1>4, <2>1, ReaderSteps DEF ReadFrame
    <3>2. Hand(c)' = Hand(c) /\ Out(c)' = Out(c)
      BY <2>0, <3>1 DEF Hand, Out
    <3> QED BY <1>0, <1>a, <2>0, <3>1, <3>2
  <2>2. CASE f # <<>>
    <3>a. /\ RStep(c, "frames", "take")
          /\ frames' = [frames EXCEPT ![c] = Tail(f)]
          /\ reply' = [reply EXCEPT ![c] = [NoReply EXCEPT !.seq = Head(f), !.clock = now]]
      BY <1>4, <2>2 DEF ReadFrame
    <3>b. rpc'[c] = "take"
      BY <1>t, <3>a, ReaderSteps
    <3>1. rpc'[c] = "take" /\ frames'[c] = Tail(f) /\ reply'[c].seq = Head(f)
      BY <1>t, <3>a, <3>b DEF NoReply
    <3>2. Elems(f) = {Head(f)} \cup Elems(Tail(f)) /\ Distinct(Tail(f)) /\ Head(f) \notin Elems(Tail(f))
      BY <1>a, <1>b, <2>2, ElemsTail, DistinctTail
    <3>3. Hand(c)' = Hand(c) /\ Out(c)' = Out(c)
      BY <2>0, <3>1, <3>2 DEF Hand, Out
    <3> QED BY <1>0, <1>a, <2>0, <3>1, <3>2, <3>3
  <2> QED BY <2>1, <2>2
<1>5. CASE ReadTake(c)
  <2> DEFINE s == reply[c].seq
  <2>1. rpc[c] = "take" /\ s \in Seqs /\ Take(s)
    BY <1>5, NumbersInHand
  <2>2. rpc'[c] \in {"count", "frames"} /\ UNCHANGED <<frames, wire>>
    BY <1>t, <1>5, ReaderSteps DEF ReadTake
  <2>3. s \in Hand(c) /\ s \in Out(c)
    BY <2>1 DEF Hand, Out
  <2>4. Answered' = Answered \cup {s} \/ Answered' = Answered
    BY <2>1, TakeSeen
  <2>5. Hand(c)' = Elems(f) /\ Hand(c)' \subseteq Hand(c) /\ Out(c)' \subseteq Out(c) /\ s \notin Elems(f)
    BY <1>a, <2>1, <2>2 DEF Hand, Out
  <2>6. Hand(c)' \cap Answered' \cap Elems(wire[c])' = {}
    BY <1>a, <2>2, <2>4, <2>5
  <2>7. \A d \in Conns \ {c} : Out(d) \cap Answered' = Out(d) \cap Answered
    <3> SUFFICES ASSUME NEW d \in Conns \ {c}
                 PROVE  Out(d) \cap Answered' = Out(d) \cap Answered
      OBVIOUS
    <3>1. Out(c) \cap Out(d) = {}
      BY DEF Carried
    <3> QED BY <2>3, <2>4, <3>1
  <2> QED BY <1>0, <1>a, <2>2, <2>4, <2>5, <2>6, <2>7
<1>6. CASE ReadCount(c)
  <2>1. UNCHANGED <<frames, wire>> /\ rpc[c] = "count" /\ rpc'[c] = "frames" /\ ~ReadTake(c)
    BY <1>t, <1>6, ReaderSteps DEF ReadCount, ReadTake, RStep
  <2>2. Hand(c)' = Hand(c) /\ Out(c)' = Out(c)
    BY <2>1 DEF Hand, Out
  <2> QED BY <1>0, <1>a, <2>1, <2>2
<1> QED BY <1>1, <1>2, <1>3, <1>4, <1>5, <1>6 DEF Read

LEMMA NextCarried ==
  ASSUME IInv, IInv', Typed, Holding, Numbered, Queued, Carried, Marked, [ClientNext]_clientVars
  PROVE  Carried'
<1>0. /\ pc \in [Threads -> Labels] /\ rpc \in [Conns -> ReaderLabels]
      /\ frames \in [Conns -> Seq(Seqs)] /\ wire \in [Conns -> Seq(Seqs)]
      /\ reply \in [Conns -> [seq : Nat, clock : Nat, kind : {"none", "ok", "late"},
                              sent : Nat \cup {NotSent}]]
      /\ send_clock \in Nat /\ now \in Nat /\ rr \in Conns /\ Ctrl \in Conns
  <2>1. now \in Nat
    BY BookAssumption DEF IInv, TypeOK
  <2>2. send_clock \in Nat
    BY <2>1 DEF Typed
  <2> QED BY <2>1, <2>2, ConnFacts DEF Typed
<1>1. CASE Schedule
  <2>1. /\ UNCHANGED <<wire, frames, reply, rpc, acked_at, item, probe_seq>>
        /\ UNCHANGED <<pc["send"], pc["probe"]>>
    BY <1>1, ScheduleLeaves
  <2>2. \A s \in Seqs : Written(s) => Written(s)'
    <3>1. CASE SchedAdd
      <4>1. UNCHANGED send_mono /\ \A r \in Seqs : added_at[r] # 0 => added_at'[r] # 0
        BY <3>1, NumbersInHand, AddSeen
      <4> QED BY <2>1, <4>1 DEF Written, Sent, InFlight, Wrote, Answered, Stamped
    <3>2. CASE ~SchedAdd
      <4>1. UNCHANGED <<send_mono, added_at>>
        BY <1>1, <3>2, ScheduleLeaves DEF bookVars, stamps
      <4> QED BY <2>1, <4>1 DEF Written, Sent, InFlight, Wrote, Answered, Stamped
    <3> QED BY <3>1, <3>2
  <2> QED BY <2>1, <2>2, CarriedQuiet
<1>2. CASE Send
  <2>1. /\ UNCHANGED <<frames, reply, rpc, acked_at, added_at, probe_seq>>
        /\ UNCHANGED <<pc["probe"]>>
    BY <1>2, SendLeaves DEF stamps
  <2>2. CASE SendWrite
    <3>1. /\ pc["send"] = "write" /\ pc'["send"] = "clock" /\ item' = item
          /\ wire' = [wire EXCEPT ![rr] = Append(@, item)] /\ UNCHANGED send_mono
      BY <1>0, <2>2, SendSteps DEF SendWrite, vars, bookVars
    <3>2. item \in Seqs /\ item \in open /\ Tracked(item) /\ ~Sent(item)
      BY <3>1 DEF Holding, Writing, Queued
    <3>3. ~InFlight(item)
      BY <3>1, <3>2 DEF InFlight, Wrote, Queued
    <3>4. item \notin Answered /\ added_at[item] # 0
      BY <3>2 DEF IInv, TypeOK, Placement, Answered, Stamped
    <3>5. \A c \in Conns : item \notin Out(c)
      BY <3>2, <3>3, NotOut
    <3>6. Written(item)'
      BY <2>1, <3>1, <3>4 DEF Written, InFlight, Wrote
    <3>7. \A r \in Seqs : Written(r) => Written(r)'
      BY <2>1, <3>1 DEF Written, Sent, InFlight, Wrote, Answered, Stamped
    <3>8. Answered' = Answered
      BY <2>1 DEF Answered, Stamped
    <3> QED BY <1>0, <2>1, <3>1, <3>2, <3>4, <3>5, <3>6, <3>7, <3>8, WriteCarried
  <2>3. CASE SendMark
    <3>1. /\ pc["send"] = "mark" /\ UNCHANGED wire /\ item \in Seqs
          /\ \A r \in Seqs : Sent(r)' <=> Sent(r) \/ (r = item /\ item \in open)
      BY <1>0, <2>3, NumbersInHand, MarkSeen DEF SendMark
    <3>2. item \in open \cup Answered
      BY <3>1 DEF Queued, Wrote
    <3>3. \A r \in Seqs : Written(r) => Written(r)'
      BY <2>1, <3>1, <3>2 DEF Written, InFlight, Wrote, Answered, Stamped
    <3> QED BY <2>1, <3>1, <3>3, CarriedQuiet
  <2>4. CASE ~SendWrite /\ ~SendMark
    <3>1. UNCHANGED wire /\ UNCHANGED send_mono
      <4>1. CASE SendDrop
        BY <4>1 DEF SendDrop, DropUnsent
      <4>2. CASE ~SendDrop
        BY <1>2, <2>4, <4>2, SendLeaves
           DEF bookVars, Send, SendGet, SendExit, SendFail, SendClock, SendCount
      <4> QED BY <4>1, <4>2
    <3>2. \A r : r = item /\ Wrote => r = item' /\ Wrote'
      <4>1. CASE SendClock
        BY <1>0, <4>1, SendSteps DEF SendClock, Wrote
      <4>2. CASE ~SendClock
        <5>1. SendGet \/ SendExit \/ SendFail \/ SendDrop \/ SendCount
          BY <1>2, <2>4, <4>2 DEF Send
        <5>2. pc["send"] \in {"loop", "write", "drop", "count"}
          BY <5>1 DEF SendGet, SendExit, SendFail, SendDrop, SendCount, Step
        <5> QED BY <5>2 DEF Wrote
      <4> QED BY <4>1, <4>2
    <3>3. \A r \in Seqs : Written(r) => Written(r)'
      BY <2>1, <3>1, <3>2 DEF Written, Sent, InFlight, Answered, Stamped
    <3> QED BY <2>1, <3>1, <3>3, CarriedQuiet
  <2> QED BY <2>2, <2>3, <2>4
<1>3. CASE Probe
  <2>1. /\ UNCHANGED <<frames, reply, rpc, acked_at, item>>
        /\ UNCHANGED <<pc["send"]>>
    BY <1>3, ProbeLeaves
  <2>2. CASE ProbeWrite
    <3>1. /\ pc["probe"] = "write" /\ pc'["probe"] = "mark" /\ probe_seq' = probe_seq
          /\ wire' = [wire EXCEPT ![Ctrl] = Append(@, probe_seq)] /\ UNCHANGED <<send_mono, added_at>>
      BY <1>0, <2>2, ProbeSteps DEF ProbeWrite, vars, bookVars, stamps
    <3>2. probe_seq \in Seqs /\ probe_seq \in open /\ ~Tracked(probe_seq) /\ ~Sent(probe_seq)
      BY <3>1 DEF Holding, Probing, Queued
    <3>3. ~InFlight(probe_seq)
      BY <3>1, <3>2 DEF InFlight, Queued
    <3>4. probe_seq \notin Answered /\ added_at[probe_seq] # 0
      BY <3>2 DEF IInv, TypeOK, Placement, Answered, Stamped
    <3>5. \A c \in Conns : probe_seq \notin Out(c)
      BY <3>2, <3>3, NotOut
    <3>6. Written(probe_seq)'
      BY <3>1, <3>4 DEF Written, InFlight
    <3>7. \A r \in Seqs : Written(r) => Written(r)'
      BY <2>1, <3>1 DEF Written, Sent, InFlight, Wrote, Answered, Stamped
    <3>8. Answered' = Answered
      BY <2>1 DEF Answered, Stamped
    <3> QED BY <1>0, <2>1, <3>1, <3>2, <3>4, <3>5, <3>6, <3>7, <3>8, WriteCarried
  <2>3. CASE ProbeMark
    <3>1. /\ pc["probe"] = "mark" /\ UNCHANGED wire /\ probe_seq \in Seqs /\ UNCHANGED added_at
          /\ \A r \in Seqs : Sent(r)' <=> Sent(r) \/ (r = probe_seq /\ probe_seq \in open)
      BY <1>0, <2>3, NumbersInHand, MarkSeen DEF ProbeMark
    <3>2. probe_seq \in open \cup Answered
      BY <3>1 DEF Queued
    <3>3. \A r \in Seqs : Written(r) => Written(r)'
      BY <2>1, <3>1, <3>2 DEF Written, InFlight, Wrote, Answered, Stamped
    <3> QED BY <2>1, <3>1, <3>3, CarriedQuiet
  <2>4. CASE ProbeDue \/ ProbeAdd \/ ProbeFail
    <3>1. UNCHANGED <<wire, send_mono>> /\ \A r \in Seqs : added_at[r] # 0 => added_at'[r] # 0
      <4>1. CASE ProbeDue
        BY <4>1 DEF ProbeDue, vars, bookVars, stamps
      <4>2. CASE ProbeAdd
        BY <4>2, NumbersInHand, AddSeen DEF ProbeAdd
      <4>3. CASE ProbeFail
        BY <4>3, NumbersInHand, DropSeen DEF ProbeFail
      <4> QED BY <2>4, <4>1, <4>2, <4>3
    <3>2. pc["probe"] # "mark"
      BY <1>0, <2>4, ProbeSteps DEF ProbeDue, ProbeAdd, ProbeFail
    <3>3. \A r \in Seqs : Written(r) => Written(r)'
      BY <2>1, <3>1, <3>2 DEF Written, Sent, InFlight, Wrote, Answered, Stamped
    <3> QED BY <2>1, <3>1, <3>3, CarriedQuiet
  <2> QED BY <1>3, <2>2, <2>3, <2>4 DEF Probe
<1>4. CASE ReapStep \/ StopCall \/ StopStep \/ Clock \/ Finished \/ UNCHANGED clientVars
  <2>1. /\ UNCHANGED <<wire, frames, reply, rpc, acked_at, added_at, send_mono, item, probe_seq>>
        /\ UNCHANGED <<pc["send"], pc["probe"]>>
    <3>1. CASE ReapStep
      BY <3>1, ReapLeaves DEF reader, sender
    <3>2. CASE StopCall \/ StopStep
      BY <3>2, StopLeaves DEF reader, sender
    <3>3. CASE Clock \/ Finished \/ UNCHANGED clientVars
      BY <3>3, ClockLeaves DEF reader, sender, bookVars, stamps, progress
    <3> QED BY <1>4, <3>1, <3>2, <3>3
  <2>2. \A r \in Seqs : Written(r) => Written(r)'
    BY <2>1 DEF Written, Sent, InFlight, Wrote, Answered, Stamped
  <2> QED BY <2>1, <2>2, CarriedQuiet
<1>5. ASSUME NEW c \in Conns, Read(c) PROVE Carried'
  <2>1. /\ UNCHANGED <<pc, item, probe_seq, added_at, send_mono>>
        /\ \A d \in Conns \ {c} : /\ rpc'[d] = rpc[d] /\ frames'[d] = frames[d]
                                   /\ wire'[d] = wire[d] /\ reply'[d] = reply[d]
    BY <1>5, ReadLeaves
  <2> QED BY <1>5, <2>1, ReaderMoves, ReaderCarried
<1> QED BY <1>1, <1>2, <1>3, <1>4, <1>5 DEF ClientNext

-----------------------------------------------------------------------------
(* The counters *)

\* No step but a reader's touches what the readers have and have counted.
LEMMA ThreadsLeave ==
  ASSUME Typed, [ClientNext]_clientVars, \A c \in Conns : ~Read(c)
  PROVE  /\ UNCHANGED <<rpc, frames, reply, acked_at, received, status_received, duplicates>>
         /\ ~SendWrite /\ ~ProbeWrite => UNCHANGED wire
<1>1. CASE Schedule
  BY <1>1, ScheduleLeaves
<1>2. CASE Send
  BY <1>2, SendLeaves
     DEF stamps, Send, SendGet, SendExit, SendFail, SendDrop, SendClock, SendMark, SendCount
<1>3. CASE Probe
  BY <1>3, ProbeLeaves DEF Probe, ProbeDue, ProbeAdd, ProbeFail, ProbeMark
<1>4. CASE ReapStep
  BY <1>4, ReapLeaves DEF counts, reader
<1>5. CASE StopCall \/ StopStep
  BY <1>5, StopLeaves DEF counts, reader
<1>6. CASE Clock \/ Finished \/ UNCHANGED clientVars
  BY <1>6, ClockLeaves DEF counts, reader, progress, bookVars, stamps, counters
<1> QED BY <1>1, <1>2, <1>3, <1>4, <1>5, <1>6 DEF ClientNext

\* A number offered stays offered, and keeps its message type.
LEMMA BookKeeps ==
  ASSUME IInv, Typed, Holding, Numbered, Queued, Marked, [ClientNext]_clientVars
  PROVE  \A s \in Seqs : added_at[s] # 0 => added_at'[s] # 0 /\ mtype'[s] = mtype[s]
<1>0. mtype \in [Seqs -> {ECHO, STATUS}] /\ now \in Nat
  BY BookAssumption DEF IInv, TypeOK
<1>1. CASE Schedule
  <2>1. CASE SchedAdd
    BY <1>0, <2>1, NumbersInHand, AddSeen
  <2>2. CASE ~SchedAdd
    BY <1>1, <2>2, ScheduleLeaves DEF bookVars, stamps
  <2> QED BY <2>1, <2>2
<1>2. CASE Send
  BY <1>2, SendLeaves DEF stamps
<1>3. CASE Probe
  <2>1. CASE ProbeAdd
    BY <1>0, <2>1, NumbersInHand, AddSeen
  <2>2. CASE ProbeFail
    BY <2>2, NumbersInHand, DropSeen
  <2>3. CASE ProbeMark
    BY <1>0, <2>3, NumbersInHand, MarkSeen
  <2>4. CASE ~ProbeAdd /\ ~ProbeFail /\ ~ProbeMark
    BY <1>3, <2>4, ProbeLeaves DEF bookVars, stamps
  <2> QED BY <2>1, <2>2, <2>3, <2>4
<1>4. CASE ReapStep
  BY <1>4, ReapLeaves
<1>5. CASE StopCall \/ StopStep
  BY <1>5, StopLeaves
<1>6. CASE Clock \/ Finished \/ UNCHANGED clientVars
  BY <1>6, ClockLeaves DEF bookVars, stamps
<1>7. ASSUME NEW c \in Conns, Read(c)
      PROVE  \A s \in Seqs : added_at[s] # 0 => added_at'[s] # 0 /\ mtype'[s] = mtype[s]
  BY <1>7, ReadLeaves
<1> QED BY <1>1, <1>2, <1>3, <1>4, <1>5, <1>6, <1>7 DEF ClientNext

\* No answered number is written again.
LEMMA OutMoves ==
  ASSUME IInv, Typed, Holding, Numbered, Queued, Carried, [ClientNext]_clientVars, NEW c \in Conns
  PROVE  Out(c)' \cap Answered \subseteq Out(c)
<1>0. pc \in [Threads -> Labels] /\ wire \in [Conns -> Seq(Seqs)]
  BY DEF Typed
<1>1. ASSUME NEW d \in Conns, Read(d) PROVE Out(c)' \subseteq Out(c)
  <2>1. CASE d = c
    BY <1>1, <2>1, ReaderMoves
  <2>2. CASE d # c
    BY <1>1, <2>2, ReadLeaves DEF Out, Hand
  <2> QED BY <2>1, <2>2
<1>2. ASSUME NEW w \in Conns, NEW s \in open, s \in Seqs,
             wire' = [wire EXCEPT ![w] = Append(@, s)], UNCHANGED <<rpc, frames, reply>>
      PROVE  Out(c)' \cap Answered \subseteq Out(c)
  <2>1. s \notin Answered
    BY DEF IInv, Placement, Answered, Stamped
  <2>2. Elems(Append(wire[w], s)) = Elems(wire[w]) \cup {s}
    BY <1>0, <1>2, ElemsAppend
  <2>3. Elems(wire[c])' \subseteq Elems(wire[c]) \cup {s}
    <3>1. CASE c = w
      <4>1. wire'[c] = Append(wire[w], s)
        BY <1>0, <1>2, <3>1
      <4> QED BY <2>2, <3>1, <4>1
    <3>2. CASE c # w
      <4>1. wire'[c] = wire[c]
        BY <1>0, <1>2, <3>2
      <4> QED BY <4>1
    <3> QED BY <3>1, <3>2
  <2>4. Hand(c)' = Hand(c)
    BY <1>2 DEF Hand
  <2> QED BY <2>1, <2>3, <2>4 DEF Out
<1>3. CASE \A d \in Conns : ~Read(d)
  <2>0. UNCHANGED <<rpc, frames, reply>> /\ (~SendWrite /\ ~ProbeWrite => UNCHANGED wire)
    BY <1>3, ThreadsLeave
  <2>1. CASE SendWrite
    <3>1. pc["send"] = "write" /\ wire' = [wire EXCEPT ![rr] = Append(@, item)]
      BY <1>0, <2>1, SendSteps DEF SendWrite
    <3>2. item \in Seqs /\ item \in open /\ rr \in Conns
      BY <3>1, ConnFacts DEF Holding, Queued, Writing, Typed
    <3> QED BY <1>2, <2>0, <3>1, <3>2
  <2>2. CASE ProbeWrite
    <3>1. pc["probe"] = "write" /\ wire' = [wire EXCEPT ![Ctrl] = Append(@, probe_seq)]
      BY <1>0, <2>2, ProbeSteps DEF ProbeWrite
    <3>2. probe_seq \in Seqs /\ probe_seq \in open /\ Ctrl \in Conns
      BY <3>1, ConnFacts DEF Holding, Queued, Probing
    <3> QED BY <1>2, <2>0, <3>1, <3>2
  <2>3. CASE ~SendWrite /\ ~ProbeWrite
    BY <2>0, <2>3 DEF Out, Hand
  <2> QED BY <2>1, <2>2, <2>3
<1> QED BY <1>1, <1>3

\* Only a response whose number is answered and on its last copy is counted as
\* a duplicate: it settles the number.
LEMMA NextSettled ==
  ASSUME IInv, IInv', Typed, Holding, Numbered, Queued, Carried, Counted, [ClientNext]_clientVars
  PROVE  duplicates' <= Cardinality(Settled)'
<1>0. /\ \A S \in SUBSET Seqs : IsFiniteSet(S) /\ Cardinality(S) \in Nat
      /\ Settled \in SUBSET Seqs /\ Settled' \in SUBSET Seqs
      /\ duplicates \in Nat /\ duplicates <= Cardinality(Settled)
  <2>1. Settled \in SUBSET Seqs /\ Settled' \in SUBSET Seqs
    BY DEF Settled, Answered, Stamped
  <2> QED BY <2>1, SubsetsAreFinite DEF IInv, TypeOK, Counted
<1>1. Answered \subseteq Answered' /\ (~(\E c \in Conns : ReadTake(c)) => UNCHANGED duplicates)
  <2>1. ASSUME NEW c \in Conns, Read(c)
        PROVE  Answered \subseteq Answered' /\ (~ReadTake(c) => UNCHANGED duplicates)
    BY <2>1, ReaderMoves, ReadLeaves DEF bookVars, counters
  <2>2. CASE \A c \in Conns : ~Read(c)
    BY <2>2, ThreadsLeave DEF Answered, Stamped
  <2> QED BY <2>1, <2>2
<1>2. Settled \subseteq Settled'
  BY <1>1, OutMoves DEF Settled
<1>3. Cardinality(Settled) <= Cardinality(Settled')
  <2> HIDE DEF Settled
  <2> QED BY <1>0, <1>2, FS_Subset
<1>4. CASE UNCHANGED duplicates
  BY <1>0, <1>3, <1>4
<1>5. ASSUME NEW c \in Conns, ReadTake(c), duplicates' # duplicates
      PROVE  duplicates' <= Cardinality(Settled')
  <2> DEFINE s == reply[c].seq
  <2>1. rpc[c] = "take" /\ s \in Seqs /\ Take(s)
    BY <1>5, NumbersInHand
  <2>2. duplicates' = duplicates + 1 /\ s \in Answered /\ TakeKind(s) = "duplicate"
    BY <1>5, <2>1, TakeSeen
  <2>3. rpc'[c] = "frames" /\ UNCHANGED <<frames, wire>>
    BY <1>5, <2>2, ReaderSteps DEF ReadTake, Used, Typed
  <2>4. s \in Out(c) /\ s \in Hand(c)
    BY <2>1 DEF Out, Hand
  <2>5. s \notin Elems(frames[c]) /\ s \notin Elems(wire[c])
    BY <2>1, <2>2, <2>4 DEF Carried
  <2>6. s \notin Out(c)'
    BY <2>3, <2>5 DEF Out, Hand
  <2>7. \A d \in Conns \ {c} : s \notin Out(d)'
    <3>1. \A d \in Conns \ {c} : s \notin Out(d)
      BY <2>4 DEF Carried
    <3> QED BY <2>2, <3>1, OutMoves
  <2>8. s \in Settled' /\ s \notin Settled
    BY <1>1, <2>2, <2>4, <2>6, <2>7 DEF Settled
  <2>9. Cardinality(Settled \cup {s}) = Cardinality(Settled) + 1
    BY <1>0, <2>8, FS_AddElement
  <2>10. Cardinality(Settled \cup {s}) <= Cardinality(Settled')
    <3>1. Settled \cup {s} \subseteq Settled' /\ IsFiniteSet(Settled')
      BY <1>0, <1>2, <2>8
    <3> HIDE DEF Settled
    <3> QED BY <3>1, FS_Subset
  <2>11. Cardinality(Settled) \in Nat /\ Cardinality(Settled') \in Nat
    BY <1>0
  <2> HIDE DEF Settled
  <2> QED BY <1>0, <2>2, <2>9, <2>10, <2>11
<1> QED BY <1>1, <1>4, <1>5

AnsweredEchoes == {s \in Answered : Tracked(s)}
AnsweredProbes == {s \in Answered : ~Tracked(s)}

\* received and status_received count the answers accepted, but for those a
\* reader is about to count.
LEMMA NextReceived ==
  ASSUME IInv, IInv', Typed, Holding, Numbered, Queued, Carried, Marked, Counted, [ClientNext]_clientVars
  PROVE  /\ \A c \in Conns : rpc'[c] = "count" => reply'[c].seq \in Answered'
         /\ received' + Cardinality(Counting') = Cardinality(AnsweredEchoes')
         /\ status_received' + Cardinality(ProbesCounting') = Cardinality(AnsweredProbes')
<1>0. /\ rpc \in [Conns -> ReaderLabels] /\ received \in Nat /\ status_received \in Nat
      /\ reply \in [Conns -> [seq : Nat, clock : Nat, kind : {"none", "ok", "late"},
                              sent : Nat \cup {NotSent}]]
  BY DEF Typed
<1>a. /\ \A c \in Conns : rpc[c] = "count" => reply[c].seq \in Answered
      /\ received + Cardinality(Counting) = Cardinality(AnsweredEchoes)
      /\ status_received + Cardinality(ProbesCounting) = Cardinality(AnsweredProbes)
  BY DEF Counted, AnsweredEchoes, AnsweredProbes
<1>b. \A s \in Answered : s \in Seqs /\ (Tracked(s)' <=> Tracked(s))
  <2>1. \A s \in Answered : s \in Seqs /\ added_at[s] # 0
    BY DEF IInv, Placement, Answered, Stamped
  <2> QED BY <2>1, BookKeeps DEF Tracked
<1>c. /\ IsFiniteSet(Counting) /\ IsFiniteSet(ProbesCounting)
      /\ Cardinality(Counting) \in Nat /\ Cardinality(ProbesCounting) \in Nat
  <2>1. IsFiniteSet(Conns) /\ Counting \subseteq Conns /\ ProbesCounting \subseteq Conns
    BY ConnFacts DEF Counting, ProbesCounting
  <2> QED BY <2>1, FS_Subset, FS_CardinalityType
<1>d. /\ IsFiniteSet(AnsweredEchoes) /\ IsFiniteSet(AnsweredProbes)
      /\ Cardinality(AnsweredEchoes) \in Nat /\ Cardinality(AnsweredProbes) \in Nat
  <2>1. AnsweredEchoes \in SUBSET Seqs /\ AnsweredProbes \in SUBSET Seqs
    BY <1>b DEF AnsweredEchoes, AnsweredProbes
  <2> QED BY <2>1, SubsetsAreFinite
<1>1. CASE \A c \in Conns : ~Read(c)
  <2>1. UNCHANGED <<rpc, reply, received, status_received>> /\ Answered' = Answered
    BY <1>1, ThreadsLeave DEF Answered, Stamped
  <2>2. /\ Counting' = Counting /\ ProbesCounting' = ProbesCounting
        /\ AnsweredEchoes' = AnsweredEchoes /\ AnsweredProbes' = AnsweredProbes
    BY <1>a, <1>b, <2>1 DEF Counting, ProbesCounting, AnsweredEchoes, AnsweredProbes
  <2> QED BY <1>a, <2>1, <2>2
<1>2. ASSUME NEW c \in Conns, Read(c)
      PROVE  /\ \A d \in Conns : rpc'[d] = "count" => reply'[d].seq \in Answered'
             /\ received' + Cardinality(Counting') = Cardinality(AnsweredEchoes')
             /\ status_received' + Cardinality(ProbesCounting') = Cardinality(AnsweredProbes')
  <2> DEFINE s == reply[c].seq
  <2>0. /\ UNCHANGED mtype
        /\ \A d \in Conns \ {c} : rpc'[d] = rpc[d] /\ reply'[d] = reply[d]
        /\ ~ReadTake(c) => Answered' = Answered
    BY <1>2, ReadLeaves DEF bookVars, stamps, Answered, Stamped
  <2>1. CASE ~ReadTake(c) /\ ~ReadCount(c)
    <3>1. rpc[c] # "count" /\ rpc'[c] # "count" /\ UNCHANGED <<received, status_received>>
      <4>1. CASE ReadFrame(c)
        BY <1>0, <4>1, ReaderSteps DEF ReadFrame
      <4>2. CASE ReadTcp(c)
        BY <1>0, <4>2, ReaderSteps DEF ReadTcp
      <4>3. CASE ReadUdp(c)
        BY <1>0, <4>3, ReaderSteps DEF ReadUdp
      <4>4. CASE ReadExit(c)
        BY <1>0, <4>4, ReaderSteps DEF ReadExit
      <4> QED BY <1>2, <2>1, <4>1, <4>2, <4>3, <4>4 DEF Read
    <3>2. /\ Counting' = Counting /\ ProbesCounting' = ProbesCounting
          /\ AnsweredEchoes' = AnsweredEchoes /\ AnsweredProbes' = AnsweredProbes
      BY <2>0, <2>1, <3>1 DEF Counting, ProbesCounting, AnsweredEchoes, AnsweredProbes, Tracked
    <3>3. \A d \in Conns : rpc'[d] = "count" => reply'[d].seq \in Answered'
      BY <1>a, <2>0, <2>1, <3>1
    <3> QED BY <1>a, <3>1, <3>2, <3>3
  <2>2. CASE ReadTake(c)
    <3>0. rpc[c] = "take" /\ s \in Seqs /\ Take(s) /\ UNCHANGED <<received, status_received>>
      BY <2>2, NumbersInHand DEF ReadTake
    <3>1. CASE Used(TakeKind(s))
      <4>1. rpc'[c] = "count" /\ reply'[c].seq = s
        BY <1>0, <2>2, <3>1, ReaderSteps DEF ReadTake
      <4>2. s \notin Answered /\ Answered' = Answered \cup {s}
        BY <3>0, <3>1, TakeSeen
      <4>3. \A d \in Conns : rpc'[d] = "count" => reply'[d].seq \in Answered'
        BY <1>a, <2>0, <4>1, <4>2
      <4>4. CASE Tracked(s)
        <5>1. /\ Counting' = Counting \cup {c} /\ c \notin Counting /\ ProbesCounting' = ProbesCounting
              /\ AnsweredEchoes' = AnsweredEchoes \cup {s} /\ s \notin AnsweredEchoes
              /\ AnsweredProbes' = AnsweredProbes
          BY <2>0, <3>0, <4>1, <4>2, <4>4
             DEF Counting, ProbesCounting, AnsweredEchoes, AnsweredProbes, Tracked
        <5>2. /\ Cardinality(Counting') = Cardinality(Counting) + 1
              /\ Cardinality(AnsweredEchoes') = Cardinality(AnsweredEchoes) + 1
          BY <1>c, <1>d, <5>1, FS_AddElement
        <5> QED BY <1>0, <1>a, <1>c, <1>d, <3>0, <4>3, <5>1, <5>2
      <4>5. CASE ~Tracked(s)
        <5>1. /\ ProbesCounting' = ProbesCounting \cup {c} /\ c \notin ProbesCounting
              /\ Counting' = Counting
              /\ AnsweredProbes' = AnsweredProbes \cup {s} /\ s \notin AnsweredProbes
              /\ AnsweredEchoes' = AnsweredEchoes
          BY <2>0, <3>0, <4>1, <4>2, <4>5
             DEF Counting, ProbesCounting, AnsweredEchoes, AnsweredProbes, Tracked
        <5>2. /\ Cardinality(ProbesCounting') = Cardinality(ProbesCounting) + 1
              /\ Cardinality(AnsweredProbes') = Cardinality(AnsweredProbes) + 1
          BY <1>c, <1>d, <5>1, FS_AddElement
        <5> QED BY <1>0, <1>a, <1>c, <1>d, <3>0, <4>3, <5>1, <5>2
      <4> QED BY <4>4, <4>5
    <3>2. CASE ~Used(TakeKind(s))
      <4>1. rpc'[c] = "frames"
        BY <1>0, <2>2, <3>2, ReaderSteps DEF ReadTake
      <4>2. Answered' = Answered
        BY <3>0, <3>2, TakeSeen
      <4>3. /\ Counting' = Counting /\ ProbesCounting' = ProbesCounting
            /\ AnsweredEchoes' = AnsweredEchoes /\ AnsweredProbes' = AnsweredProbes
        BY <2>0, <3>0, <4>1, <4>2 DEF Counting, ProbesCounting, AnsweredEchoes, AnsweredProbes,
           Tracked
      <4>4. \A d \in Conns : rpc'[d] = "count" => reply'[d].seq \in Answered'
        BY <1>a, <2>0, <4>1, <4>2
      <4> QED BY <1>a, <3>0, <4>3, <4>4
    <3> QED BY <3>1, <3>2
  <2>3. CASE ReadCount(c)
    <3>0. rpc[c] = "count" /\ rpc'[c] = "frames" /\ Answered' = Answered
      BY <1>0, <2>0, <2>3, ReaderSteps DEF ReadCount, ReadTake, RStep
    <3>1. AnsweredEchoes' = AnsweredEchoes /\ AnsweredProbes' = AnsweredProbes
      BY <2>0, <3>0 DEF AnsweredEchoes, AnsweredProbes, Tracked
    <3>2. \A d \in Conns : rpc'[d] = "count" => reply'[d].seq \in Answered'
      BY <1>a, <2>0, <3>0
    <3>3. CASE Tracked(s)
      <4>1. received' = received + 1 /\ UNCHANGED status_received
        BY <2>3, <3>3 DEF ReadCount
      <4>2. Counting' = Counting \ {c} /\ c \in Counting /\ ProbesCounting' = ProbesCounting
        BY <2>0, <3>0, <3>3 DEF Counting, ProbesCounting, Tracked
      <4>3. Cardinality(Counting') = Cardinality(Counting) - 1
        BY <1>c, <4>2, FS_RemoveElement
      <4> QED BY <1>0, <1>a, <1>c, <1>d, <3>1, <3>2, <4>1, <4>2, <4>3
    <3>4. CASE ~Tracked(s)
      <4>1. status_received' = status_received + 1 /\ UNCHANGED received
        BY <2>3, <3>4 DEF ReadCount
      <4>2. /\ ProbesCounting' = ProbesCounting \ {c} /\ c \in ProbesCounting
            /\ Counting' = Counting
        BY <2>0, <3>0, <3>4 DEF Counting, ProbesCounting, Tracked
      <4>3. Cardinality(ProbesCounting') = Cardinality(ProbesCounting) - 1
        BY <1>c, <4>2, FS_RemoveElement
      <4> QED BY <1>0, <1>a, <1>c, <1>d, <3>1, <3>2, <4>1, <4>2, <4>3
    <3> QED BY <3>3, <3>4
  <2> QED BY <2>1, <2>2, <2>3
<1> QED BY <1>1, <1>2

\* wire_sent counts the ECHOs marked sent, or answered before they were, but
\* for the one the writer is about to count.
LEMMA NextWireSent ==
  ASSUME IInv, IInv', Typed, Holding, Numbered, Queued, Carried, Marked, Counted, [ClientNext]_clientVars
  PROVE  wire_sent' + One(pc'["send"] = "count") = Cardinality(Gone' \ {item'})
<1> DEFINE G == Gone \ {item}
<1>0. /\ pc \in [Threads -> Labels] /\ wire_sent \in Nat /\ send_clock \in Nat /\ now \in Nat
      /\ 0 \notin Seqs /\ Gone \subseteq Seqs /\ Gone' \subseteq Seqs
      /\ mtype \in [Seqs -> {ECHO, STATUS}]
  <2>1. now \in Nat
    BY BookAssumption DEF IInv, TypeOK
  <2>2. send_clock \in Nat
    BY <2>1 DEF Typed
  <2> QED BY <2>1, <2>2, BookAssumption DEF Typed, Gone, IInv, TypeOK
<1>a. wire_sent + One(pc["send"] = "count") = Cardinality(G)
  BY DEF Counted
<1>b. IsFiniteSet(G) /\ Cardinality(G) \in Nat
  BY <1>0, SubsetsAreFinite
<1>c. \A s \in Gone : added_at[s] # 0
  BY DEF Gone, Marked, IInv, Placement, Answered, Stamped
<1>d. /\ Writing => item \in open /\ item \notin Gone
      /\ Wrote => item \in open \cup Answered /\ Tracked(item) /\ ~Sent(item)
      /\ ~(Writing \/ Wrote) => item = 0
  <2>1. \A s \in open : s \notin Answered
    BY DEF IInv, Placement, Answered, Stamped
  <2> QED BY <2>1 DEF Holding, Queued, Gone
<1>1. ASSUME UNCHANGED <<wire_sent, item>>, pc'["send"] = "count" <=> pc["send"] = "count",
             \A s \in Seqs : s \in Gone' <=> s \in Gone
      PROVE  wire_sent' + One(pc'["send"] = "count") = Cardinality(Gone' \ {item'})
  <2>1. Gone' \ {item'} = G
    BY <1>0, <1>1
  <2> QED BY <1>1, <1>a, <2>1 DEF One
<1>2. CASE Schedule
  <2>1. UNCHANGED <<wire_sent, item, acked_at>> /\ UNCHANGED pc["send"]
    BY <1>2, ScheduleLeaves
  <2>2. \A s \in Seqs : s \in Gone' <=> s \in Gone
    <3>1. CASE SchedAdd
      <4>1. /\ offer_seq \in Seqs /\ offer_seq \notin Answered /\ ~Sent(offer_seq) /\ UNCHANGED send_mono
            /\ mtype' = [mtype EXCEPT ![offer_seq] = ECHO]
        BY <3>1, NumbersInHand, AddSeen
      <4> QED BY <1>0, <2>1, <4>1 DEF Gone, Sent, Tracked, Answered, Stamped
    <3>2. CASE ~SchedAdd
      BY <1>2, <3>2, ScheduleLeaves DEF bookVars, Gone, Sent, Tracked, Answered, Stamped, stamps
    <3> QED BY <3>1, <3>2
  <2> QED BY <1>1, <2>1, <2>2
<1>3. CASE Send
  <2>0. UNCHANGED <<acked_at, mtype>>
    BY <1>3, SendLeaves DEF stamps
  <2>1. CASE SendGet
    <3>1. /\ pc["send"] = "loop" /\ pc'["send"] = "write" /\ item' = Head(txq) /\ txq # <<>>
          /\ UNCHANGED <<wire_sent, send_mono>>
      BY <1>0, <2>1, SendSteps DEF SendGet, vars, bookVars
    <3>2. Head(txq) \in Elems(txq) /\ Elems(txq) \subseteq open
      BY <3>1, ElemsTail DEF Queued, Typed
    <3>3. Head(txq) \notin Gone
      BY <3>2 DEF Queued, Gone, IInv, Placement, Answered, Stamped
    <3>4. Gone' = Gone
      BY <2>0, <3>1 DEF Gone, Sent, Tracked, Answered, Stamped
    <3>5. item = 0
      BY <1>d, <3>1 DEF Writing, Wrote
    <3>6. Gone' \ {item'} = G
      BY <1>0, <3>1, <3>3, <3>4, <3>5
    <3> QED BY <1>a, <3>1, <3>6 DEF One
  <2>2. CASE SendDrop
    <3>1. /\ pc["send"] = "drop" /\ pc'["send"] = "done" /\ item' = 0
          /\ UNCHANGED <<wire_sent, send_mono>>
      BY <1>0, <2>2, SendSteps DEF SendDrop, DropUnsent
    <3>2. item \notin Gone
      BY <1>d, <3>1 DEF Writing
    <3>3. Gone' = Gone
      BY <2>0, <3>1 DEF Gone, Sent, Tracked, Answered, Stamped
    <3>4. Gone' \ {item'} = G
      BY <1>0, <3>1, <3>2, <3>3
    <3> QED BY <1>a, <3>1, <3>4 DEF One
  <2>3. CASE SendMark
    <3>1. /\ pc["send"] = "mark" /\ pc'["send"] = "count" /\ item' = 0 /\ item \in Seqs
          /\ UNCHANGED wire_sent
          /\ \A r \in Seqs : Sent(r)' <=> Sent(r) \/ (r = item /\ item \in open)
      BY <1>0, <2>3, SendSteps, NumbersInHand, MarkSeen DEF SendMark
    <3>2. item \in open \cup Answered /\ Tracked(item)
      BY <1>d, <3>1 DEF Wrote
    <3>3. Gone' = Gone \cup {item}
      BY <2>0, <3>1, <3>2 DEF Gone, Tracked, Answered, Stamped
    <3>4. Gone' \ {item'} = G \cup {item} /\ item \notin G
      BY <1>0, <3>1, <3>3
    <3>5. Cardinality(G \cup {item}) = Cardinality(G) + 1
      BY <1>b, <3>4, FS_AddElement
    <3>6. One(pc["send"] = "count") = 0 /\ One(pc'["send"] = "count") = 1
      BY <3>1 DEF One
    <3>7. Cardinality(Gone' \ {item'}) = Cardinality(G) + 1 /\ wire_sent' = wire_sent
      BY <3>1, <3>4, <3>5
    <3> HIDE DEF G
    <3> QED BY <1>0, <1>a, <1>b, <3>6, <3>7
  <2>4. CASE SendCount
    <3>1. /\ pc["send"] = "count" /\ wire_sent' = wire_sent + 1 /\ UNCHANGED <<item, send_mono>>
      BY <1>0, <2>4, SendSteps DEF SendCount, sender, vars, bookVars
    <3>2. pc'["send"] # "count"
      <4>1. CASE stopped /\ txq = <<>>
        BY <1>0, <2>4, <4>1, SendSteps DEF SendCount
      <4>2. CASE ~(stopped /\ txq = <<>>)
        BY <1>0, <2>4, <4>2, SendSteps DEF SendCount
      <4> QED BY <4>1, <4>2
    <3>3. Gone' \ {item'} = G
      BY <2>0, <3>1 DEF Gone, Sent, Tracked, Answered, Stamped
    <3>4. One(pc["send"] = "count") = 1 /\ One(pc'["send"] = "count") = 0
      BY <3>1, <3>2 DEF One
    <3>5. Cardinality(Gone' \ {item'}) = Cardinality(G) /\ wire_sent' = wire_sent + 1
      BY <3>1, <3>3
    <3> HIDE DEF G
    <3> QED BY <1>0, <1>a, <1>b, <3>4, <3>5
  <2>5. CASE SendExit \/ SendWrite \/ SendFail \/ SendClock
    <3>1. UNCHANGED <<wire_sent, item, send_mono>>
      BY <2>5 DEF SendExit, SendWrite, SendFail, SendClock, sender, vars, bookVars
    <3>2. pc["send"] # "count" /\ pc'["send"] # "count"
      <4>1. CASE SendExit
        BY <1>0, <4>1, SendSteps DEF SendExit
      <4>2. CASE SendWrite
        BY <1>0, <4>2, SendSteps DEF SendWrite
      <4>3. CASE SendFail
        <5>1. Step("send", "write", "drop")
          BY <4>3 DEF SendFail
        <5> QED BY <1>0, <5>1, SendSteps
      <4>4. CASE SendClock
        BY <1>0, <4>4, SendSteps DEF SendClock
      <4> QED BY <2>5, <4>1, <4>2, <4>3, <4>4
    <3>3. \A s \in Seqs : s \in Gone' <=> s \in Gone
      BY <2>0, <3>1 DEF Gone, Sent, Tracked, Answered, Stamped
    <3> QED BY <1>1, <3>1, <3>2, <3>3
  <2> QED BY <1>3, <2>1, <2>2, <2>3, <2>4, <2>5 DEF Send
<1>4. CASE Probe
  <2>1. UNCHANGED <<wire_sent, item, acked_at>> /\ UNCHANGED pc["send"]
    BY <1>4, ProbeLeaves
  <2>2. \A s \in Seqs : s \in Gone' <=> s \in Gone
    <3>1. CASE ProbeAdd
      <4>1. /\ probe_seq \in Seqs /\ probe_seq \notin Answered /\ ~Sent(probe_seq) /\ UNCHANGED send_mono
            /\ mtype' = [mtype EXCEPT ![probe_seq] = STATUS]
        BY <3>1, NumbersInHand, AddSeen
      <4> QED BY <1>0, <2>1, <4>1 DEF Gone, Sent, Tracked, Answered, Stamped
    <3>2. CASE ProbeMark
      <4>1. /\ probe_seq \in Seqs /\ ~Tracked(probe_seq) /\ UNCHANGED mtype
            /\ \A r \in Seqs : Sent(r)' <=> Sent(r) \/ (r = probe_seq /\ probe_seq \in open)
        BY <1>0, <3>2, NumbersInHand, MarkSeen DEF Queued
      <4> QED BY <2>1, <4>1 DEF Gone, Tracked, Answered, Stamped
    <3>3. CASE ProbeFail
      <4>1. UNCHANGED <<mtype, send_mono>>
        BY <3>3, NumbersInHand, DropSeen
      <4> QED BY <2>1, <4>1 DEF Gone, Sent, Tracked, Answered, Stamped
    <3>4. CASE ~ProbeAdd /\ ~ProbeMark /\ ~ProbeFail
      BY <1>4, <3>4, ProbeLeaves DEF bookVars, Gone, Sent, Tracked, Answered, Stamped, stamps
    <3> QED BY <3>1, <3>2, <3>3, <3>4
  <2> QED BY <1>1, <2>1, <2>2
<1>5. CASE ReapStep \/ StopCall \/ StopStep \/ Clock \/ Finished \/ UNCHANGED clientVars
  <2>1. /\ UNCHANGED <<wire_sent, item, acked_at, mtype, send_mono>> /\ UNCHANGED pc["send"]
    <3>1. CASE ReapStep
      BY <3>1, ReapLeaves DEF counts, sender
    <3>2. CASE StopCall \/ StopStep
      BY <3>2, StopLeaves DEF counts, sender
    <3>3. CASE Clock \/ Finished \/ UNCHANGED clientVars
      BY <3>3, ClockLeaves DEF counts, sender, bookVars, stamps, progress
    <3> QED BY <1>5, <3>1, <3>2, <3>3
  <2>2. \A s \in Seqs : s \in Gone' <=> s \in Gone
    BY <2>1 DEF Gone, Sent, Tracked, Answered, Stamped
  <2> QED BY <1>1, <2>1, <2>2
<1>6. ASSUME NEW c \in Conns, Read(c)
      PROVE  wire_sent' + One(pc'["send"] = "count") = Cardinality(Gone' \ {item'})
  <2>0. UNCHANGED <<pc, item, wire_sent, mtype, send_mono, probe_seq>>
    BY <1>6, ReadLeaves
  <2>1. CASE ~ReadTake(c)
    <3>1. UNCHANGED acked_at
      BY <1>6, <2>1, ReadLeaves DEF bookVars, stamps
    <3>2. \A s \in Seqs : s \in Gone' <=> s \in Gone
      BY <2>0, <3>1 DEF Gone, Sent, Tracked, Answered, Stamped
    <3> QED BY <1>1, <2>0, <3>2
  <2>2. CASE ReadTake(c)
    <3> DEFINE s == reply[c].seq
    <3>1. rpc[c] = "take" /\ s \in Seqs /\ Take(s)
      BY <2>2, NumbersInHand
    <3>2. Answered' = Answered \cup {s} \/ Answered' = Answered
      BY <3>1, TakeSeen
    <3>3. Written(s)
      BY <3>1 DEF Carried, Out, Hand
    <3>4. ~Tracked(s) \/ s \in Gone \/ s = item
      <4>1. pc["probe"] = "mark" => ~Tracked(probe_seq)
        BY DEF Queued
      <4> QED BY <3>1, <3>3, <4>1 DEF Written, InFlight, Gone
    <3>5. Gone' \ {item'} = G
      BY <2>0, <3>1, <3>2, <3>4 DEF Gone, Sent, Tracked
    <3> QED BY <1>a, <2>0, <3>5
  <2> QED BY <2>1, <2>2
<1> QED BY <1>2, <1>3, <1>4, <1>5, <1>6 DEF ClientNext

\* status_sent counts the probes marked sent, or answered before they were, but
\* for the one in the prober's hands.
LEMMA NextStatusSent ==
  ASSUME IInv, IInv', Typed, Holding, Numbered, Queued, Carried, Marked, Counted, [ClientNext]_clientVars
  PROVE  status_sent' = Cardinality(GoneProbes' \ {probe_seq'})
<1> DEFINE G == GoneProbes \ {probe_seq}
<1>0. /\ pc \in [Threads -> Labels] /\ status_sent \in Nat /\ now \in Nat /\ send_clock \in Nat
      /\ 0 \notin Seqs /\ GoneProbes \subseteq Seqs /\ GoneProbes' \subseteq Seqs
      /\ mtype \in [Seqs -> {ECHO, STATUS}] /\ ECHO # STATUS
  <2>1. now \in Nat
    BY BookAssumption DEF IInv, TypeOK
  <2>2. send_clock \in Nat
    BY <2>1 DEF Typed
  <2> QED BY <2>1, <2>2, BookAssumption DEF Typed, GoneProbes, IInv, TypeOK
<1>a. status_sent = Cardinality(G)
  BY DEF Counted
<1>b. IsFiniteSet(G) /\ Cardinality(G) \in Nat
  BY <1>0, SubsetsAreFinite
<1>c. \A s \in GoneProbes : added_at[s] # 0
  BY DEF GoneProbes, Marked, IInv, Placement, Answered, Stamped
<1>d. \A s \in open : s \notin Answered
  BY DEF IInv, Placement, Answered, Stamped
<1>1. ASSUME UNCHANGED <<status_sent, probe_seq>>,
             \A s \in Seqs : s \in GoneProbes' <=> s \in GoneProbes
      PROVE  status_sent' = Cardinality(GoneProbes' \ {probe_seq'})
  <2>1. GoneProbes' \ {probe_seq'} = G
    BY <1>0, <1>1
  <2> QED BY <1>1, <1>a, <2>1
<1>2. CASE Schedule
  <2>1. UNCHANGED <<status_sent, probe_seq, acked_at>>
    BY <1>2, ScheduleLeaves
  <2>2. \A s \in Seqs : s \in GoneProbes' <=> s \in GoneProbes
    <3>1. CASE SchedAdd
      <4>1. /\ offer_seq \in Seqs /\ offer_seq \notin Answered /\ ~Sent(offer_seq) /\ UNCHANGED send_mono
            /\ mtype' = [mtype EXCEPT ![offer_seq] = ECHO]
        BY <3>1, NumbersInHand, AddSeen
      <4> QED BY <1>0, <2>1, <4>1 DEF GoneProbes, Sent, Tracked, Answered, Stamped
    <3>2. CASE ~SchedAdd
      BY <1>2, <3>2, ScheduleLeaves DEF bookVars, GoneProbes, Sent, Tracked, Answered, Stamped, stamps
    <3> QED BY <3>1, <3>2
  <2> QED BY <1>1, <2>1, <2>2
<1>3. CASE Send
  <2>0. UNCHANGED <<status_sent, probe_seq, acked_at, mtype>>
    BY <1>3, SendLeaves DEF stamps
  <2>1. \A s \in Seqs : s \in GoneProbes' <=> s \in GoneProbes
    <3>1. CASE SendMark
      <4>1. /\ item \in Seqs /\ Tracked(item)
            /\ \A r \in Seqs : Sent(r)' <=> Sent(r) \/ (r = item /\ item \in open)
        <5>1. pc["send"] = "mark" /\ MarkSent(item, send_clock)
          BY <1>0, <3>1, SendSteps DEF SendMark
        <5>2. item \in Seqs /\ Tracked(item)
          BY <5>1 DEF Queued, Holding, Wrote
        <5> QED BY <1>0, <5>1, <5>2, MarkSeen
      <4> QED BY <2>0, <4>1 DEF GoneProbes, Tracked, Answered, Stamped
    <3>2. CASE ~SendMark
      <4>1. UNCHANGED send_mono
        BY <1>3, <3>2 DEF Send, SendGet, SendExit, SendWrite, SendFail, SendDrop, SendClock,
           SendCount, DropUnsent, vars, bookVars
      <4> QED BY <2>0, <4>1 DEF GoneProbes, Sent, Tracked, Answered, Stamped
    <3> QED BY <3>1, <3>2
  <2> QED BY <1>1, <2>0, <2>1
<1>4. CASE Probe
  <2>0. UNCHANGED acked_at
    BY <1>4, ProbeLeaves
  <2>1. CASE ProbeDue
    <3>1. /\ pc["probe"] = "loop" /\ UNCHANGED <<status_sent, mtype, send_mono>>
          /\ probe_seq' = probe_seq \/ probe_seq' = seq + 1
      BY <1>0, <2>1, ProbeSteps DEF ProbeDue, vars, bookVars
    <3>2. GoneProbes' = GoneProbes /\ probe_seq = 0
      BY <2>0, <3>1 DEF GoneProbes, Sent, Tracked, Answered, Stamped, Holding, Probing
    <3>3. probe_seq' \notin GoneProbes
      <4>1. seq + 1 \notin GoneProbes
        BY <1>0, <1>c, SeqsRange DEF Numbered, Typed
      <4> QED BY <1>0, <3>1, <3>2, <4>1
    <3>4. GoneProbes' \ {probe_seq'} = G
      BY <1>0, <3>2, <3>3
    <3> QED BY <1>a, <3>1, <3>4
  <2>2. CASE ProbeAdd
    <3>1. /\ probe_seq \in Seqs /\ probe_seq \notin Answered /\ ~Sent(probe_seq)
          /\ UNCHANGED <<send_mono, status_sent, probe_seq>>
          /\ mtype' = [mtype EXCEPT ![probe_seq] = STATUS]
      BY <2>2, NumbersInHand, AddSeen DEF ProbeAdd
    <3>2. \A s \in Seqs : s \in GoneProbes' <=> s \in GoneProbes
      BY <1>0, <2>0, <3>1 DEF GoneProbes, Sent, Tracked, Answered, Stamped
    <3> QED BY <1>1, <3>1, <3>2
  <2>3. CASE ProbeWrite
    <3>1. UNCHANGED <<status_sent, probe_seq, mtype, send_mono>>
      BY <2>3 DEF ProbeWrite, vars, bookVars
    <3>2. \A s \in Seqs : s \in GoneProbes' <=> s \in GoneProbes
      BY <2>0, <3>1 DEF GoneProbes, Sent, Tracked, Answered, Stamped
    <3> QED BY <1>1, <3>1, <3>2
  <2>4. CASE ProbeFail
    <3>1. /\ pc["probe"] = "write" /\ UNCHANGED <<status_sent, mtype, send_mono>>
          /\ probe_seq' = 0
      BY <1>0, <2>4, ProbeSteps, NumbersInHand, DropSeen DEF ProbeFail
    <3>2. probe_seq \notin GoneProbes /\ GoneProbes' = GoneProbes
      BY <1>d, <2>0, <3>1 DEF Queued, GoneProbes, Sent, Tracked, Answered, Stamped
    <3>3. GoneProbes' \ {probe_seq'} = G
      BY <1>0, <3>1, <3>2
    <3> QED BY <1>a, <3>1, <3>3
  <2>5. CASE ProbeMark
    <3>1. /\ pc["probe"] = "mark" /\ probe_seq \in Seqs /\ UNCHANGED mtype
          /\ probe_seq' = 0 /\ status_sent' = status_sent + 1
          /\ \A r \in Seqs : Sent(r)' <=> Sent(r) \/ (r = probe_seq /\ probe_seq \in open)
      BY <1>0, <2>5, ProbeSteps, NumbersInHand, MarkSeen DEF ProbeMark
    <3>2. probe_seq \in open \cup Answered /\ ~Tracked(probe_seq)
      BY <3>1 DEF Queued
    <3>3. GoneProbes' = GoneProbes \cup {probe_seq}
      BY <2>0, <3>1, <3>2 DEF GoneProbes, Tracked, Answered, Stamped
    <3>4. GoneProbes' \ {probe_seq'} = G \cup {probe_seq} /\ probe_seq \notin G
      BY <1>0, <3>1, <3>3
    <3>5. Cardinality(G \cup {probe_seq}) = Cardinality(G) + 1
      BY <1>b, <3>4, FS_AddElement
    <3> QED BY <1>a, <3>1, <3>4, <3>5
  <2> QED BY <1>4, <2>1, <2>2, <2>3, <2>4, <2>5 DEF Probe
<1>5. CASE ReapStep \/ StopCall \/ StopStep \/ Clock \/ Finished \/ UNCHANGED clientVars
  <2>1. UNCHANGED <<status_sent, probe_seq, acked_at, mtype, send_mono>>
    <3>1. CASE ReapStep
      BY <3>1, ReapLeaves DEF counts
    <3>2. CASE StopCall \/ StopStep
      BY <3>2, StopLeaves DEF counts
    <3>3. CASE Clock \/ Finished \/ UNCHANGED clientVars
      BY <3>3, ClockLeaves DEF counts, bookVars, stamps, progress
    <3> QED BY <1>5, <3>1, <3>2, <3>3
  <2>2. \A s \in Seqs : s \in GoneProbes' <=> s \in GoneProbes
    BY <2>1 DEF GoneProbes, Sent, Tracked, Answered, Stamped
  <2> QED BY <1>1, <2>1, <2>2
<1>6. ASSUME NEW c \in Conns, Read(c)
      PROVE  status_sent' = Cardinality(GoneProbes' \ {probe_seq'})
  <2>0. UNCHANGED <<status_sent, mtype, send_mono, probe_seq>>
    BY <1>6, ReadLeaves
  <2>1. CASE ~ReadTake(c)
    <3>1. UNCHANGED acked_at
      BY <1>6, <2>1, ReadLeaves DEF bookVars, stamps
    <3>2. \A s \in Seqs : s \in GoneProbes' <=> s \in GoneProbes
      BY <2>0, <3>1 DEF GoneProbes, Sent, Tracked, Answered, Stamped
    <3> QED BY <1>1, <2>0, <3>2
  <2>2. CASE ReadTake(c)
    <3> DEFINE s == reply[c].seq
    <3>1. rpc[c] = "take" /\ s \in Seqs /\ Take(s)
      BY <2>2, NumbersInHand
    <3>2. Answered' = Answered \cup {s} \/ Answered' = Answered
      BY <3>1, TakeSeen
    <3>3. Written(s)
      BY <3>1 DEF Carried, Out, Hand
    <3>4. Tracked(s) \/ s \in GoneProbes \/ s = probe_seq
      <4>1. Wrote => Tracked(item)
        BY DEF Queued
      <4> QED BY <3>1, <3>3, <4>1 DEF Written, InFlight, GoneProbes
    <3>5. GoneProbes' \ {probe_seq'} = G
      BY <2>0, <3>1, <3>2, <3>4 DEF GoneProbes, Sent, Tracked
    <3> QED BY <1>a, <2>0, <3>5
  <2> QED BY <2>1, <2>2
<1> QED BY <1>2, <1>3, <1>4, <1>5, <1>6 DEF ClientNext

LEMMA NextCounted ==
  ASSUME IInv, IInv', Typed, Holding, Numbered, Queued, Carried, Marked, Counted, [ClientNext]_clientVars
  PROVE  Counted'
BY NextSettled, NextReceived, NextWireSent, NextStatusSent DEF Counted, AnsweredEchoes,
   AnsweredProbes

-----------------------------------------------------------------------------
(* The client keeps its invariant, and uses the book as the book allows *)

LEMMA ClientInitInv == ClientInit => IInv /\ CInv
<1> SUFFICES ASSUME ClientInit PROVE IInv /\ CInv
  OBVIOUS
<1> USE DEF ClientInit
<1>0. IInv /\ now = 0
  BY InitInv DEF Init
<1>1. /\ \A s \in Seqs : mtype[s] = ECHO /\ send_mono[s] = NotSent
      /\ \A s \in Seqs : added_at[s] = 0 /\ lost_at[s] = 0 /\ acked_at[s] = 0
      /\ open = {} /\ duplicates = 0
  BY DEF Init, BookInit
<1>2. /\ Answered = {} /\ Stamped(lost_at) = {} /\ Echoes = {} /\ Probes = {} /\ Gone = {}
      /\ GoneProbes = {}
      /\ Settled = {} /\ Counting = {} /\ ProbesCounting = {} /\ {s \in Answered : Tracked(s)} = {}
      /\ {s \in Answered : ~Tracked(s)} = {}
  BY <1>1 DEF Answered, Stamped, Echoes, Probes, Gone, GoneProbes, Settled, Counting, ProbesCounting,
     Tracked, Sent
<1>3. Cardinality({}) = 0
  BY FS_EmptySet
<1>4. /\ \A th \in Threads : pc[th] = "loop"
      /\ pc["schedule"] = "loop" /\ pc["send"] = "loop" /\ pc["probe"] = "loop" /\ pc["stop"] = "loop"
      /\ \A c \in Conns : rpc[c] = "recv" /\ frames[c] = <<>> /\ wire[c] = <<>>
  BY DEF Threads
<1>5. Elems(<<>>) = {} /\ Increasing(<<>>) /\ Distinct(<<>>)
  BY EmptyQueue DEF Distinct
<1>6. ~Offering /\ ~Writing /\ ~Wrote /\ ~Probing
  BY <1>4 DEF Offering, Writing, Wrote, Probing
<1>7. Typed
  <2>1. 0 \in 0..now /\ 0 \in Data /\ 0 \in Nat
    BY <1>0, ConnFacts
  <2>2. <<>> \in Seq(Seqs)
    OBVIOUS
  <2>3. NoReply \in [seq : Nat, clock : Nat, kind : {"none", "ok", "late"}, sent : Nat \cup {NotSent}]
    BY DEF NoReply
  <2> QED BY <2>1, <2>2, <2>3 DEF Typed, Labels, ReaderLabels
<1>8. Holding
  BY <1>4, <1>6 DEF Holding
<1>9. Numbered
  BY <1>1, <1>2, <1>3, <1>4, SeqsRange DEF Numbered, One
<1>10. Queued
  BY <1>4, <1>5, <1>6 DEF Queued
<1>11. Carried
  <2>1. \A c \in Conns : Hand(c) = {} /\ Out(c) = {}
    BY <1>4, <1>5 DEF Hand, Out
  <2> QED BY <1>4, <1>5, <2>1 DEF Carried
<1>12. Marked
  BY <1>1, <1>2 DEF Marked, Sent
<1>13. Counted
  <2>1. GoneProbes \ {probe_seq} = {} /\ Gone \ {item} = {}
    BY <1>2
  <2> QED BY <1>1, <1>2, <1>3, <1>4, <2>1 DEF Counted, One
<1>14. WoundUp
  BY <1>4 DEF WoundUp
<1> QED BY <1>0, <1>7, <1>8, <1>9, <1>10, <1>11, <1>12, <1>13, <1>14 DEF CInv

\* A duplicate's number is not settled yet, so fewer duplicates than numbers
\* have been counted.
LEMMA RoomForDuplicate ==
  ASSUME IInv, CInv, NEW c \in Conns, rpc[c] = "take", reply[c].seq \in Seqs
  PROVE  duplicates < MaxDup
<1>1. reply[c].seq \notin Settled /\ Settled \subseteq Seqs
  BY DEF Settled, Out, Hand, Answered, Stamped
<1>2. Settled \cup {reply[c].seq} \subseteq Seqs
  BY <1>1
<1>3. IsFiniteSet(Seqs) /\ IsFiniteSet(Settled) /\ Cardinality(Settled) \in Nat /\ Cardinality(Seqs) \in Nat
  BY <1>1, BookAssumption, FS_Subset, FS_CardinalityType
<1>4. Cardinality(Settled \cup {reply[c].seq}) = Cardinality(Settled) + 1
  BY <1>1, <1>3, FS_AddElement
<1>5. Cardinality(Settled \cup {reply[c].seq}) <= Cardinality(Seqs)
  BY <1>2, <1>3, FS_Subset
<1>6. duplicates <= Cardinality(Settled) /\ duplicates \in Nat
  BY DEF CInv, Counted, IInv, TypeOK
<1>7. Cardinality(Seqs) <= MaxDup /\ MaxDup \in Nat
  BY ClientAssumption, BookAssumption
<1> QED BY <1>3, <1>4, <1>5, <1>6, <1>7

\* Every step of a thread, of a reader or of stop() is a step of the book.
LEMMA BookStep ==
  ASSUME IInv, CInv, [ClientNext]_clientVars
  PROVE  [Next]_vars
<1>0. /\ Typed /\ Holding /\ Numbered /\ Queued /\ now \in Nat /\ send_clock \in 0..now /\ now \in 0..now
      /\ pc \in [Threads -> Labels]
  <2>1. now \in Nat
    BY BookAssumption DEF IInv, TypeOK
  <2> QED BY <2>1 DEF CInv, Typed
<1>1. CASE UNCHANGED vars
  BY <1>1
<1>2. CASE Clock
  BY <1>2 DEF Clock, Next, Tick
<1>3. CASE SchedAdd
  <2>1. offer_seq \in Seqs /\ added_at[offer_seq] = 0 /\ Add(offer_seq, ECHO) /\ UNCHANGED <<now, forced>>
    BY <1>0, <1>3, NumbersInHand DEF SchedAdd
  <2>2. AddFresh
    BY <2>1 DEF AddFresh
  <2> QED BY <2>2 DEF Next
<1>4. CASE ProbeAdd
  <2>1. /\ probe_seq \in Seqs /\ added_at[probe_seq] = 0 /\ Add(probe_seq, STATUS)
        /\ UNCHANGED <<now, forced>>
    BY <1>0, <1>4, NumbersInHand DEF ProbeAdd
  <2>2. AddFresh
    BY <2>1 DEF AddFresh
  <2> QED BY <2>2 DEF Next
<1>5. CASE SendMark
  <2>1. /\ item \in Seqs /\ ~Sent(item) /\ MarkSent(item, send_clock) /\ UNCHANGED <<now, forced>>
        /\ pc["send"] = "mark"
    BY <1>0, <1>5, NumbersInHand DEF SendMark
  <2>2. added_at[item] # 0
    BY <1>0, <2>1 DEF Queued, Wrote, IInv, Placement, Answered, Stamped
  <2>3. MarkWritten
    BY <1>0, <2>1, <2>2 DEF MarkWritten
  <2> QED BY <2>3 DEF Next
<1>6. CASE ProbeMark
  <2>1. /\ probe_seq \in Seqs /\ ~Sent(probe_seq) /\ MarkSent(probe_seq, now) /\ UNCHANGED <<now, forced>>
        /\ pc["probe"] = "mark"
    BY <1>0, <1>6, NumbersInHand DEF ProbeMark
  <2>2. added_at[probe_seq] # 0
    BY <1>0, <2>1 DEF Queued, IInv, Placement, Answered, Stamped
  <2>3. MarkWritten
    BY <1>0, <2>1, <2>2 DEF MarkWritten
  <2> QED BY <2>3 DEF Next
<1>7. CASE SendDrop
  <2>1. item \in Seqs /\ item \in open /\ DropUnsent(item) /\ UNCHANGED <<now, forced>>
    BY <1>0, <1>7, NumbersInHand DEF SendDrop
  <2>2. added_at[item] # 0
    BY <2>1 DEF IInv, Placement
  <2>3. DropFailed
    BY <2>1, <2>2 DEF DropFailed
  <2> QED BY <2>3 DEF Next
<1>8. CASE ProbeFail
  <2>1. probe_seq \in Seqs /\ probe_seq \in open /\ DropUnsent(probe_seq) /\ UNCHANGED <<now, forced>>
    BY <1>0, <1>8, NumbersInHand DEF ProbeFail
  <2>2. added_at[probe_seq] # 0
    BY <2>1 DEF IInv, Placement
  <2>3. DropFailed
    BY <2>1, <2>2 DEF DropFailed
  <2> QED BY <2>3 DEF Next
<1>9. CASE ReapStep
  <2>1. UNCHANGED vars \/ ReapAt(now)
    BY <1>9 DEF ReapStep, ReapAt, vars
  <2> QED BY <1>0, <2>1 DEF Next
<1>10. CASE StopReap
  <2>1. ReapForced
    BY <1>10 DEF StopReap, ReapForced
  <2> QED BY <2>1 DEF Next
<1>11. ASSUME NEW c \in Conns, ReadTake(c) PROVE [Next]_vars
  <2>1. /\ rpc[c] = "take" /\ reply[c].seq \in Seqs /\ Take(reply[c].seq) /\ UNCHANGED <<now, forced>>
    BY <1>0, <1>11, NumbersInHand DEF ReadTake
  <2>2. duplicates < MaxDup
    BY <2>1, RoomForDuplicate
  <2>3. Respond(reply[c].seq)
    BY <2>1, <2>2 DEF Respond
  <2> QED BY <2>1, <2>3 DEF Next
<1> QED BY <1>1, <1>2, <1>3, <1>4, <1>5, <1>6, <1>7, <1>8, <1>9, <1>10, <1>11, BookMoves

LEMMA ClientStepInv ==
  ASSUME IInv, CInv, [ClientNext]_clientVars
  PROVE  IInv' /\ CInv'
<1>1. IInv'
  BY BookStep, NextInv
<1>2. Typed /\ Holding /\ Numbered /\ Queued /\ Carried /\ Marked /\ Counted /\ WoundUp
  BY DEF CInv
<1>3. Typed' /\ Holding' /\ Numbered' /\ Queued' /\ Carried' /\ Marked' /\ Counted' /\ WoundUp'
  BY <1>1, <1>2, NextTyped, NextHolding, NextNumbered, NextQueued, NextCarried, NextMarked,
     NextCounted,
     NextWoundUp
<1> QED BY <1>1, <1>3 DEF CInv

\* Whatever the threads, the readers and the network do in whatever order, the
\* client's state stays consistent with the book's.
THEOREM ClientInvariance == ClientSpec => [](IInv /\ CInv)
BY ClientInitInv, ClientStepInv, PTL DEF ClientSpec

\* The client uses the book as InflightBook assumes: what is proved of the
\* book holds of the client.
THEOREM BookUsedAsSpecified == ClientSpec => UsesBook
<1>1. ClientInit => Init
  BY DEF ClientInit
<1> QED BY <1>1, BookStep, ClientInvariance, PTL DEF ClientSpec, UsesBook, Spec

\* So the client's loss and drop counters are exact, its tables disjoint, an
\* answer is accepted once and no request is given up early.
THEOREM ClientKeepsTheBook ==
  ClientSpec => [](CountersExact /\ OneTable /\ ForgetOldest) /\ AcceptOnce /\ NoEarlyLoss
BY BookUsedAsSpecified, ReportIsExact, TablesDisjoint, OldestForgottenFirst, AcceptedOnce,
   NoLossBeforeTimeout, PTL DEF UsesBook

-----------------------------------------------------------------------------
(* The report *)

AbandonedEchoes == {s \in Abandoned : Tracked(s)}

\* The sets the counters count.
LEMMA CountedSets ==
  ASSUME IInv, CInv
  PROVE  /\ \A S \in {Echoes, Probes, Gone, GoneProbes, AnsweredEchoes, AnsweredProbes,
                    LostEchoes, AbandonedEchoes, Abandoned} :
              S \in SUBSET Seqs /\ IsFiniteSet(S) /\ Cardinality(S) \in Nat
         /\ Gone \subseteq Echoes /\ AnsweredEchoes \subseteq Echoes
         /\ GoneProbes \subseteq Probes /\ AnsweredProbes \subseteq Probes
<1>1. \A S \in {Echoes, Probes, Gone, GoneProbes, AnsweredEchoes, AnsweredProbes,
               LostEchoes, AbandonedEchoes, Abandoned} :
        S \in SUBSET Seqs
  BY DEF Echoes, Probes, Gone, GoneProbes, AnsweredEchoes, AnsweredProbes, LostEchoes,
         AbandonedEchoes, Answered, Unanswered, Abandoned, Stamped
<1>2. \A s \in Seqs : Sent(s) \/ s \in Answered => added_at[s] # 0
  BY DEF CInv, Marked, IInv, Placement, Answered, Stamped
<1>3. Gone \subseteq Echoes /\ AnsweredEchoes \subseteq Echoes /\ AnsweredProbes \subseteq Probes
  <2>1. Answered \subseteq Seqs
    BY DEF Answered, Stamped
  <2> QED BY <1>2, <2>1 DEF Gone, Echoes, AnsweredEchoes, AnsweredProbes, Probes
<1>4. GoneProbes \subseteq Probes
  BY DEF GoneProbes, Probes
<1> QED BY <1>1, <1>3, <1>4, SubsetsAreFinite

\* Every program counter, queue and counter of the client has its type.
THEOREM ClientTypeCorrect == ClientSpec => []ClientTypeOK
<1> SUFFICES ASSUME IInv, CInv PROVE ClientTypeOK
  BY ClientInvariance, PTL
<1>1. /\ Typed /\ TypeOK /\ MaxEchoes \in Nat /\ MaxProbes \in Nat
      /\ seq \in Nat /\ offered \in Nat /\ wire_sent \in Nat /\ received \in Nat
      /\ status_sent \in Nat /\ status_received \in Nat
  BY SeqsRange DEF CInv, IInv, Typed
<1>2. /\ IsFiniteSet(Echoes) /\ Cardinality(Echoes) \in Nat
      /\ IsFiniteSet(Probes) /\ Cardinality(Probes) \in Nat
      /\ IsFiniteSet(Gone) /\ Cardinality(Gone) \in Nat
      /\ Cardinality(AnsweredEchoes) \in Nat /\ Cardinality(AnsweredProbes) \in Nat
      /\ Gone \subseteq Echoes /\ AnsweredEchoes \subseteq Echoes /\ AnsweredProbes \subseteq Probes
  BY CountedSets
<1>3. /\ Cardinality(Gone \ {item}) \in Nat /\ Cardinality(Gone \ {item}) <= Cardinality(Echoes)
      /\ Cardinality(AnsweredEchoes) <= Cardinality(Echoes)
      /\ Cardinality(AnsweredProbes) <= Cardinality(Probes)
  <2>1. Gone \ {item} \subseteq Echoes
    BY <1>2
  <2> HIDE DEF Gone, Echoes, Probes, AnsweredEchoes, AnsweredProbes
  <2> QED BY <1>2, <2>1, FS_Subset, FS_CardinalityType
<1>4. /\ Cardinality(Counting) \in Nat /\ Cardinality(ProbesCounting) \in Nat
  <2>1. IsFiniteSet(Conns) /\ Counting \subseteq Conns /\ ProbesCounting \subseteq Conns
    BY ConnFacts DEF Counting, ProbesCounting
  <2> QED BY <2>1, FS_Subset, FS_CardinalityType
<1>5. \A p \in BOOLEAN : One(p) \in {0, 1}
  BY DEF One
<1>6. offered = Cardinality(Echoes) + One(pc["schedule"] = "add") /\ offered <= MaxEchoes
  <2>1. /\ offered = Cardinality(Echoes) + One(pc["schedule"] = "add")
        /\ offered + One(pc["schedule"] \in {"check", "pause", "room", "offer"}) <= MaxEchoes
    BY DEF CInv, Numbered
  <2>2. One(pc["schedule"] \in {"check", "pause", "room", "offer"}) \in {0, 1}
    BY DEF One
  <2> QED BY <1>1, <2>1, <2>2
<1>7. /\ seq = offered + Cardinality(Probes) + One(pc["probe"] = "add")
      /\ Cardinality(Probes) + One(pc["probe"] = "add") <= MaxProbes
  BY DEF CInv, Numbered
<1>8. One(pc["probe"] = "add") \in {0, 1} /\ One(pc["schedule"] = "add") \in {0, 1}
  BY <1>5
<1>9. seq <= MaxEchoes + MaxProbes /\ Cardinality(Probes) <= MaxProbes /\ Cardinality(Echoes) <= MaxEchoes
  BY <1>1, <1>2, <1>6, <1>7, <1>8
<1>10. wire_sent <= MaxEchoes
  <2>1. wire_sent + One(pc["send"] = "count") = Cardinality(Gone \ {item})
    BY DEF CInv, Counted
  <2>2. One(pc["send"] = "count") \in {0, 1}
    BY <1>5
  <2> QED BY <1>1, <1>2, <1>3, <1>9, <2>1, <2>2
<1>11. received <= MaxEchoes /\ status_received <= MaxProbes
  <2>1. /\ received + Cardinality(Counting) = Cardinality(AnsweredEchoes)
        /\ status_received + Cardinality(ProbesCounting) = Cardinality(AnsweredProbes)
    BY DEF CInv, Counted, AnsweredEchoes, AnsweredProbes
  <2> QED BY <1>1, <1>2, <1>3, <1>4, <1>9, <2>1
<1>12. status_sent <= MaxProbes
  <2>1. status_sent = Cardinality(GoneProbes \ {probe_seq})
    BY DEF CInv, Counted
  <2>2. GoneProbes \ {probe_seq} \subseteq Probes
    BY CountedSets
  <2>3. Cardinality(GoneProbes \ {probe_seq}) <= Cardinality(Probes)
    <3> HIDE DEF GoneProbes, Probes
    <3> QED BY <1>2, <2>2, FS_Subset
  <2> QED BY <1>1, <1>2, <1>9, <2>1, <2>3
<1> QED BY <1>1, <1>6, <1>9, <1>10, <1>11, <1>12 DEF ClientTypeOK, Typed

\* What the counters are when stop() has returned.
LEMMA AtTheEnd ==
  ASSUME IInv, CInv, Stopped
  PROVE  /\ open = {}
         /\ offered = Cardinality(Echoes) /\ received = Cardinality(AnsweredEchoes)
         /\ wire_sent = Cardinality(Gone) /\ lost = Cardinality(LostEchoes)
         /\ seq = offered + Cardinality(Probes) /\ status_sent = Cardinality(GoneProbes)
         /\ unsent = Cardinality(Abandoned)
<1>1. /\ open = {} /\ pc["schedule"] = "done" /\ pc["send"] = "done" /\ pc["probe"] = "done"
      /\ \A c \in Conns : rpc[c] = "done"
  BY DEF CInv, WoundUp, Stopped, Threads
<1>2. item = 0 /\ probe_seq = 0 /\ 0 \notin Seqs
  BY <1>1, BookAssumption DEF CInv, Holding, Writing, Wrote, Probing
<1>3. Gone \ {item} = Gone /\ GoneProbes \ {probe_seq} = GoneProbes /\ Counting = {}
  BY <1>1, <1>2 DEF Gone, GoneProbes, Counting
<1>4. /\ One(pc["schedule"] = "add") = 0 /\ One(pc["send"] = "count") = 0
      /\ One(pc["probe"] = "add") = 0 /\ Cardinality(Counting) = 0
  BY <1>1, <1>3, FS_EmptySet DEF One
<1>5. /\ offered = Cardinality(Echoes) + One(pc["schedule"] = "add")
      /\ received + Cardinality(Counting) = Cardinality(AnsweredEchoes)
      /\ wire_sent + One(pc["send"] = "count") = Cardinality(Gone \ {item})
      /\ seq = offered + Cardinality(Probes) + One(pc["probe"] = "add")
      /\ status_sent = Cardinality(GoneProbes \ {probe_seq})
  BY DEF CInv, Numbered, Counted, AnsweredEchoes
<1>6. /\ Cardinality(Echoes) \in Nat /\ Cardinality(Probes) \in Nat /\ received \in Nat
      /\ wire_sent \in Nat /\ offered \in Nat
  BY CountedSets DEF CInv, Typed
<1>7. lost = Cardinality(LostEchoes)
  BY DEF IInv, LostIsUnanswered, LostEchoes
<1>8. unsent = Cardinality(Abandoned)
  BY DEF IInv, UnsentIsAbandoned
<1>9. /\ offered = Cardinality(Echoes) /\ seq = offered + Cardinality(Probes)
      /\ received = Cardinality(AnsweredEchoes)
  BY <1>4, <1>5, <1>6
<1>10. wire_sent = Cardinality(Gone) /\ status_sent = Cardinality(GoneProbes)
  BY <1>3, <1>4, <1>5, <1>6
<1> QED BY <1>1, <1>7, <1>8, <1>9, <1>10

\* Every ECHO offered is received, lost or never sent, and the report's unsent is
\* made up of the ECHOs never sent and of the probes that never went out.
THEOREM EveryRequestAccounted == ClientSpec => []FinalAccounting
<1> DEFINE AbandonedProbes == {s \in Abandoned : ~Tracked(s)}
<1> SUFFICES ASSUME IInv, CInv, Stopped
             PROVE  /\ open = {} /\ offered = received + lost + Cardinality(AbandonedEchoes)
                    /\ received + lost + unsent + status_sent = seq
  BY ClientInvariance, PTL DEF FinalAccounting, AbandonedEchoes
<1>1. /\ \A S \in {Echoes, Probes, GoneProbes, AnsweredEchoes, LostEchoes, AbandonedEchoes, Abandoned} :
           S \in SUBSET Seqs /\ Cardinality(S) \in Nat
      /\ AbandonedProbes \in SUBSET Seqs
  BY CountedSets
<1>2. open = {}
  BY AtTheEnd
<1>3. \A s \in Seqs : s \in Abandoned <=>
        added_at[s] # 0 /\ s \notin Stamped(lost_at) /\ s \notin Answered
  BY <1>2 DEF Abandoned, Stamped
<1>4. /\ Echoes = (AnsweredEchoes \cup LostEchoes) \cup AbandonedEchoes
      /\ AnsweredEchoes \cap LostEchoes = {}
      /\ (AnsweredEchoes \cup LostEchoes) \cap AbandonedEchoes = {}
  <2>1. \A s \in Seqs : s \in Answered \/ s \in Stamped(lost_at) => added_at[s] # 0
    BY DEF IInv, Placement, Answered, Stamped
  <2>2. Answered \subseteq Seqs /\ Unanswered \subseteq Seqs /\ Abandoned \subseteq Seqs
        /\ Unanswered = Stamped(lost_at) \ Answered
    BY DEF Answered, Unanswered, Abandoned, Stamped
  <2> QED BY <1>3, <2>1, <2>2 DEF Echoes, AnsweredEchoes, LostEchoes, AbandonedEchoes
<1>5. Probes = GoneProbes \cup AbandonedProbes /\ GoneProbes \cap AbandonedProbes = {}
  <2>1. \A s \in Probes : added_at[s] # 0
    BY DEF CInv, Numbered
  <2>2. \A s \in Seqs : (Sent(s) => s \in Stamped(lost_at) \cup Answered)
                       /\ (s \in Stamped(lost_at) => Sent(s))
    BY <1>2 DEF CInv, Marked
  <2>3. ASSUME NEW s \in Seqs
        PROVE  /\ s \in Probes <=> s \in GoneProbes \/ s \in AbandonedProbes
               /\ ~(s \in GoneProbes /\ s \in AbandonedProbes)
    BY <1>3, <2>1, <2>2, <2>3 DEF Probes, GoneProbes
  <2>4. Probes \subseteq Seqs /\ GoneProbes \subseteq Seqs /\ AbandonedProbes \subseteq Seqs
    BY <1>1 DEF Probes, GoneProbes
  <2> HIDE DEF AbandonedProbes
  <2> QED BY <2>3, <2>4
<1>6. Abandoned = AbandonedEchoes \cup AbandonedProbes /\ AbandonedEchoes \cap AbandonedProbes = {}
  BY DEF AbandonedEchoes
<1>7. /\ Cardinality(Probes) = Cardinality(GoneProbes) + Cardinality(AbandonedProbes)
      /\ Cardinality(Abandoned) = Cardinality(AbandonedEchoes) + Cardinality(AbandonedProbes)
      /\ Cardinality(AbandonedProbes) \in Nat
  <2> HIDE DEF AbandonedProbes
  <2> QED BY <1>1, <1>5, <1>6, DisjointUnion, SubsetsAreFinite
<1>8. Cardinality(AnsweredEchoes \cup LostEchoes) = Cardinality(AnsweredEchoes) + Cardinality(LostEchoes)
  BY <1>1, <1>4, DisjointUnion
<1>9. Cardinality(Echoes) = Cardinality(AnsweredEchoes \cup LostEchoes) + Cardinality(AbandonedEchoes)
  <2>1. AnsweredEchoes \cup LostEchoes \in SUBSET Seqs
    BY <1>1
  <2> QED BY <1>1, <1>4, <2>1, DisjointUnion
<1>10. offered = received + lost + Cardinality(AbandonedEchoes)
  BY <1>8, <1>9, AtTheEnd
<1>11. /\ seq = offered + Cardinality(Probes) /\ status_sent = Cardinality(GoneProbes)
       /\ unsent = Cardinality(Abandoned)
       /\ received = Cardinality(AnsweredEchoes) /\ lost = Cardinality(LostEchoes)
  BY AtTheEnd
<1>12. received + lost + unsent + status_sent = seq
  <2> HIDE DEF AbandonedProbes
  <2> QED BY <1>1, <1>7, <1>10, <1>11
<1> QED BY <1>2, <1>10, <1>12

\* Every ECHO reported as sent is reported as received or as lost.
THEOREM WireAccounted == ClientSpec => []WireAccounting
<1> SUFFICES ASSUME IInv, CInv, Stopped
             PROVE  wire_sent = received + lost
  BY ClientInvariance, PTL DEF WireAccounting
<1>1. AnsweredEchoes \in SUBSET Seqs /\ LostEchoes \in SUBSET Seqs /\ open = {}
  BY CountedSets, AtTheEnd
<1>2. Gone = AnsweredEchoes \cup LostEchoes /\ AnsweredEchoes \cap LostEchoes = {}
  <2>1. /\ \A s \in Seqs : Sent(s) => s \in Stamped(lost_at) \cup Answered
        /\ \A s \in Stamped(lost_at) : s \in Seqs /\ Sent(s)
    BY <1>1 DEF CInv, Marked, Stamped
  <2>2. Answered \subseteq Seqs /\ Unanswered = Stamped(lost_at) \ Answered
    BY DEF Answered, Unanswered, Stamped
  <2> QED BY <2>1, <2>2 DEF Gone, AnsweredEchoes, LostEchoes
<1>3. Cardinality(AnsweredEchoes \cup LostEchoes) = Cardinality(AnsweredEchoes) + Cardinality(LostEchoes)
  BY <1>1, <1>2, DisjointUnion
<1> QED BY <1>2, <1>3, AtTheEnd

-----------------------------------------------------------------------------
(* The queue *)

LEMMA OverrunKept ==
  ASSUME Typed, Typed', OverrunByOne, Overrun, [ClientNext]_clientVars, MaxPending # Unlimited
  PROVE  OverrunByOne' /\ Overrun'
<1>0. /\ pc \in [Threads -> Labels] /\ MaxPending \in Nat /\ txq \in Seq(Seqs) /\ sched_stop \in BOOLEAN
      /\ Len(txq) \in Nat
  <2>1. MaxPending \in Nat
    BY ClientAssumption
  <2>2. pc \in [Threads -> Labels] /\ txq \in Seq(Seqs) /\ sched_stop \in BOOLEAN
    BY DEF Typed
  <2> QED BY <2>1, <2>2, LenProperties
<1>a. /\ Len(txq) <= MaxPending + 1
      /\ Len(txq) <= MaxPending \/ (sched_stop /\ pc["schedule"] \in {"loop", "done"})
      /\ pc["schedule"] \in {"offer", "add", "put"} /\ ~sched_stop => Len(txq) < MaxPending
  BY DEF OverrunByOne, Overrun
<1>1. ASSUME Len(txq') \in Nat, Len(txq') <= Len(txq), sched_stop => sched_stop', sched_stop' \in BOOLEAN,
             UNCHANGED pc["schedule"]
      PROVE  OverrunByOne' /\ Overrun'
  BY <1>0, <1>a, <1>1 DEF OverrunByOne, Overrun
<1>2. CASE Schedule
  <2>0. UNCHANGED sched_stop
    BY <1>2, ScheduleLeaves
  <2>1. CASE SchedDue
    <3>1. UNCHANGED txq /\ pc["schedule"] = "loop"
      BY <1>0, <2>1, ScheduleSteps DEF SchedDue
    <3>2. pc'["schedule"] = "done" \/ (pc'["schedule"] = "check" /\ ~sched_stop)
      <4>1. CASE sched_stop \/ stopped
        BY <1>0, <2>1, <4>1, ScheduleSteps DEF SchedDue
      <4>2. CASE ~(sched_stop \/ stopped)
        BY <1>0, <2>1, <4>2, ScheduleSteps DEF SchedDue
      <4> QED BY <4>1, <4>2
    <3> QED BY <1>0, <1>a, <2>0, <3>1, <3>2 DEF OverrunByOne, Overrun
  <2>2. CASE SchedCheck \/ SchedPause \/ SchedRoom
    <3>1. UNCHANGED txq /\ pc["schedule"] \in {"check", "pause", "room"}
      BY <2>2 DEF SchedCheck, SchedPause, SchedRoom, Step
    <3>2. pc'["schedule"] \in {"pause", "done", "room"} \/ (pc'["schedule"] = "offer" /\ (~Full \/ sched_stop))
      <4>1. CASE SchedCheck
        <5>1. CASE Full
          BY <1>0, <4>1, <5>1, ScheduleSteps DEF SchedCheck
        <5>2. CASE ~Full
          BY <1>0, <4>1, <5>2, ScheduleSteps DEF SchedCheck
        <5> QED BY <5>1, <5>2
      <4>2. CASE SchedPause
        <5>1. CASE sched_stop
          BY <1>0, <4>2, <5>1, ScheduleSteps DEF SchedPause
        <5>2. CASE ~sched_stop
          BY <1>0, <4>2, <5>2, ScheduleSteps DEF SchedPause
        <5> QED BY <5>1, <5>2
      <4>3. CASE SchedRoom
        <5>1. CASE Full /\ ~sched_stop
          BY <1>0, <4>3, <5>1, ScheduleSteps DEF SchedRoom
        <5>2. CASE ~(Full /\ ~sched_stop)
          BY <1>0, <4>3, <5>2, ScheduleSteps DEF SchedRoom
        <5> QED BY <5>1, <5>2
      <4> QED BY <2>2, <4>1, <4>2, <4>3
    <3>3. ~Full => Len(txq) < MaxPending
      BY <1>0 DEF Full
    <3> QED BY <1>0, <1>a, <2>0, <3>1, <3>2, <3>3 DEF OverrunByOne, Overrun
  <2>3. CASE SchedOffer \/ SchedAdd
    <3>1. UNCHANGED txq /\ pc["schedule"] \in {"offer", "add"} /\ pc'["schedule"] \in {"add", "put"}
      BY <1>0, <2>3, ScheduleSteps DEF SchedOffer, SchedAdd
    <3> QED BY <1>0, <1>a, <2>0, <3>1 DEF OverrunByOne, Overrun
  <2>4. CASE SchedPut
    <3>1. txq' = Append(txq, offer_seq) /\ pc["schedule"] = "put" /\ pc'["schedule"] = "loop"
      BY <1>0, <2>4, ScheduleSteps DEF SchedPut
    <3>2. Len(txq') = Len(txq) + 1
      BY <1>0, <3>1
    <3> QED BY <1>0, <1>a, <2>0, <3>1, <3>2 DEF OverrunByOne, Overrun
  <2> QED BY <1>2, <2>1, <2>2, <2>3, <2>4 DEF Schedule
<1>3. CASE Send
  <2>1. UNCHANGED sched_stop /\ UNCHANGED pc["schedule"]
    BY <1>3, SendLeaves
  <2>2. Len(txq') \in Nat /\ Len(txq') <= Len(txq)
    <3>1. CASE SendGet
      <4>1. txq # <<>> /\ txq' = Tail(txq)
        BY <3>1 DEF SendGet
      <4> QED BY <1>0, <4>1, HeadTailProperties
    <3>2. CASE ~SendGet
      <4>1. UNCHANGED txq
        BY <1>3, <3>2 DEF Send, SendExit, SendWrite, SendFail, SendDrop, SendClock, SendMark,
           SendCount
      <4> QED BY <1>0, <4>1
    <3> QED BY <3>1, <3>2
  <2> QED BY <1>0, <1>1, <2>1, <2>2
<1>4. CASE Probe
  BY <1>0, <1>1, <1>4, ProbeLeaves
<1>5. CASE ReapStep
  BY <1>0, <1>1, <1>5, ReapLeaves DEF flags
<1>6. CASE StopCall \/ StopStep
  <2>1. sched_stop' \in BOOLEAN
    BY DEF Typed
  <2> QED BY <1>0, <1>1, <1>6, <2>1, StopLeaves
<1>7. CASE Clock \/ Finished \/ UNCHANGED clientVars
  BY <1>0, <1>1, <1>7, ClockLeaves DEF flags, progress
<1>8. ASSUME NEW c \in Conns, Read(c) PROVE OverrunByOne' /\ Overrun'
  BY <1>0, <1>1, <1>8, ReadLeaves
<1> QED BY <1>2, <1>3, <1>4, <1>5, <1>6, <1>7, <1>8 DEF ClientNext

\* The scheduler overruns --max-pending by at most one request.
THEOREM OverrunBounded == ClientSpec => []OverrunByOne
<1>1. ClientInit => OverrunByOne /\ Overrun
  <2> SUFFICES ASSUME ClientInit PROVE OverrunByOne /\ Overrun
    OBVIOUS
  <2>1. txq = <<>> /\ pc["schedule"] = "loop" /\ (MaxPending # Unlimited => MaxPending \in Nat)
    BY ClientAssumption DEF ClientInit, Threads
  <2>2. Len(txq) = 0
    BY <2>1
  <2> QED BY <2>1, <2>2 DEF OverrunByOne, Overrun
<1>2. CInv /\ CInv' /\ OverrunByOne /\ Overrun /\ [ClientNext]_clientVars => OverrunByOne' /\ Overrun'
  BY OverrunKept DEF CInv, OverrunByOne, Overrun
<1>3. ClientSpec => []CInv
  BY ClientInvariance, PTL
<1> QED BY <1>1, <1>2, <1>3, PTL DEF ClientSpec
=============================================================================
