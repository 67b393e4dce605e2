# netpoisson: a TLA+ model

netpoisson offers requests to a server at Poisson instants and reports round
trip times, losses and queue depths.  The report is only worth something if its
numbers count what they claim to count, while up to a dozen threads, two
sockets and a clock race each other.  These modules model the parts of the
program those numbers come from, state what they must satisfy, check it with
TLC on small instances, and prove the most important part for every instance.

Paths below are relative to the repository's `src/` directory.

## The system

| component | files | state | operations | what makes it correct |
|---|---|---|---|---|
| request ledger | `traffic/book.py` | three insertion-ordered dicts `open`, `lost_seqs`, `seen_acks`; counters `lost`, `unsent`, `duplicates`, `reorder` | `add`, `mark_sent`, `drop_unsent`, `take`, `reap`, `waiting` | each request has one outcome; the counters are counts of outcomes, also after eviction |
| client threads | `peer_client/client.py`, `schedule.py`, `binary_io.py` | the ledger, queue `txq`, events `sched_stop` and `stopped`, sockets, report counters | `_schedule`, `_send`, `_probe`, `_read_sock`, `_reap`, `_sample`, `start`, `stop` | the final report accounts for every request; `stop` returns; the queue is limited |
| client over SSH | `peer_client/stdio_io.py` | the same, with a pipe and a hello exchange | `_wait_hello`, `_read_stdio`, `_probe_stdio` | no line is lost between hello and reader; a line that is no protocol is noise |
| TCP server | `peer_server.py`, `netio_sock.py` | `conns`, per connection two queues and an event, shared counters | `_accept`, `_read_conn`, `_work_conn`, `_write_conn`, `stop` | responses in request order, none lost; counters do not drift; it keeps accepting; `stop` closes everything |
| UDP server | `peer_server.py` | two queues, shared counters | `_udp_read`, `_udp_work`, `_udp_write` | at most one response per datagram; `stop` returns |
| stdio server | `peer_server.py` | counters, a line buffer | `run`, `_on_line` | one response per request line, in order; the two pipes never lock each other up |
| server statistics | `peer_server.py`, `traffic/timing.py` | totals, interval counters, `CounterSeries` | `make_snapshot`, `_interval_counts`, `add`, `replace_window` | a snapshot does not contradict itself; no interval is lost; visible slices are exact; series stay bounded |
| wire protocol | `protocol.py` | the unparsed bytes of a stream | `pop_pdus`, `decode_pdu`, `dispatch_binary`, the NDJSON codec | independence from how the stream is cut; decode inverts encode |
| statistics | `traffic/analysis.py` | bounded sample windows | `update_jitter`, `SampleWindow`, percentiles, notes | windows stay bounded |
| reporting, display | `peer_client/reporting.py`, `traffic/display.py` | none | `snapshot`, `report` | formatting of what the others keep |
| command line | `npcli/` | the arguments, the event of the signal handlers, the peers it starts | `parse_args`, `main` | options mean the same in any order; what is started is stopped; the exit status is that of the report |
| encryption | `wiresec.py` | keys, nonces | TLS contexts, `UdpSeal` | not modelled; its users see a failure or none |
| dashboard | `webui.py`, `web_*` | none of its own | HTTP view with three setters | not modelled |

Interaction.  The client's scheduler adds a request to the book and puts it in
`txq`; the writer takes it, writes it to a socket, and only then marks it as
sent; the prober writes STATUS requests with numbers from the same counter; a
reader per socket parses responses and takes them from the book; the reaper
gives requests up; `stop` ends all of them and settles what is left.  On the
server a reader, a worker and a writer per connection are joined by two
queues; all connections share counters.  Over SSH one thread of the remote
server reads requests and writes responses in turn, through the pipes of the
`ssh` process.  `main` starts ssh, a peer and a dashboard, waits for a signal or
the end of the duration, writing to its stdout in the meantime if asked to, and
stops them.  Threads share state under short
locks, so the interesting behaviours are the orders of those critical sections
with each other, with the reads of the clock and with the socket calls.

Hard behaviours: a response overtaking the writer that has not yet marked its
request; an answer around its timeout; UDP duplicates, losses and reordering;
eviction from the ledger's memory; a write that fails or times out and ends one
thread of several; `stop` at any point of all of this, a TLS handshake that
never ends included; a pipe that is full on both sides; a stdout that nobody
reads; ssh dying, or the whole
client leaving without a `stop`.  `PROJECT.json` lists them line by line under `hazards`.

## The modules

**RequestLedger** is the abstract specification of the client's bookkeeping:
each sequence number has one outcome (`idle`, `open`, `answered`, `lost`,
`unsent`); an answer settles it for good, a loss may still be corrected; the
two counters are recounted from the outcomes at every step.

**InflightBook** models `class InflightBook` one operator per method, each one
critical section of the class's lock.  A Python dict remembers insertion order
and the eviction uses it; the model keeps the dicts as sets with an insertion
stamp per number.  Stamps outlive entries, so properties can speak of what the
table has forgotten.  `Next` calls the methods in any order that a client's
threads could: numbers are fresh, a number is marked at most once, clock values
are old or current, responses carry any number.  `ImplementsLedger` is the
refinement of RequestLedger.

**Client** extends InflightBook with the threads of `peer_client/`: one label
per place where a thread may be overtaken.  `Sched*` is `_schedule` with
`_offer_echo`, `Send*` is `_send`, `Probe*` is `_probe` with `_send_status`,
`Read*` is `_read_sock` with `_on_binary` (one instance per connection),
`ReapStep` is `_reap`, `Stop*` is `stop()`.  The network is the variable `wire`:
requests written to a connection whose response was not read; TCP returns a
prefix, UDP any member, perhaps twice.  `UsesBook` checks that the client's
steps on the book are steps of `InflightBook!Spec`; whatever is proved of the
book therefore holds in the client.

**TcpServer** models `class Server` in TCP mode: `Accept*`, `Read*`, `Work*`,
`Write*` and `Stop*` are the four kinds of threads and `stop()`.  Clients are
external: they connect, write, hang up, and need not complete a handshake.
`Long` are the ECHOs whose response, with its telemetry, is longer than the
`MAX_BODY` that decoding allows: encoding does not look at the limit, so the
response is sent, and `_note_sent`, which decodes it again to see what it is,
returns before it counts (`Noticed`).

**ServerStats** is what `class Server` counts while it is being read: the
totals, `processing`, the interval counters and the sizes of the two series,
with one action per critical section.  The workers themselves call
`make_snapshot` for the telemetry of their responses, so a link takes the
snapshot (`Look*`) between counting its request and queueing its response; the
terminal and the dashboard call the same function and add no other order.  A
link is a connection's worker and writer, or the pair of a UDP server, whose
reader (`UdpRead*`) and `stop` are here too.  Over TCP a client may hang up
(`Close`) or the server stop at any time, and the worker then leaves its loop
(`WorkLeave`) and drains its queue (`WorkDrain*`): it handles each request and
takes its snapshot as before, but without `processing + 1`; `draining` says that
it does.  `collected` adds up what the
resets of the interval counters returned; whether the 0.1 s between two resets have
passed is left open (`ResetInterval`).

**StdioSession** is a run over SSH: `Start` is `_wait_hello`, `Stop*` is
`stop()`, `SchedOffer`, `Send`, `Probe`, `Read` and `ReapSweep` are the client's
threads, `Server*` is `StdioServer.run`.  The two pipes hold a bounded number of
cells; a line is two cells, so a read may cut it and a write may block in the
middle with `stdio_lock` held.  A line not made of the two halves of one message
has no prefix of its own and is noise.  The client's requests are kept in a
RequestLedger; that InflightBook implements it is the run *book* and a theorem.
`size` says how the run's ECHO lines relate to the limits: they fit; the request
fits but its response exceeds the reader's million bytes (`grows`); the request
does (`long`); or it exceeds the encoder's MiB (`huge`).  The reader takes whatever
the pipe holds (a `read1` of 65,536 bytes, as much as a pipe keeps), and a line of
another program on the remote host (`StrayLine`) is assumed to fall between two
lines of the server, not into one.  `requests` and
`replies` are the lines written and not yet answered or not yet split off.

**Args** is `npcli/args.py` as operators on records: `ParseArgs` folds
`ParseOption` over the options and finishes with the profile and the refused
combinations; `ParseServer` and `ParseWebAddr` read addresses.  A result is a
value, a usage error, or an exception nobody handles (`Uncaught`).  `Options` are
the names an option may have; `With` is the assignment to fields of the record.

**Netpoisson** is `main()`, around StdioSession: `CommandLine` parses and
chooses the mode, `Main` starts ssh, the security context, the peer and the
dashboard, stops them and reports; `Signal` is the handler, which only sets an
event, `Pump` the wait; `OutputBegins` and `OutputEnds` bracket a write of
`main` to its stdout (a tick, or the answers of `--stdio-server`), during which the
event is not looked at;
`Gone` the end of the process, which closes its ends of the pipes.  `Within`
lets the session's `start()` and `stop()` run only when `main` has called
them.  In the other modes the peer is a label: its threads are the subject of
the other modules.  **MCNetpoisson** defines the command lines of the run.

**PduStream** is the binary protocol over one TCP connection: the functions of
`protocol.py` as operators on sequences of digits (`Encode`, `Decodes`,
`PopPdus`, `Dispatch`), and three actions, a client that writes, the server's
reader that takes any number of bytes and answers what it parses, the client's
reader that does the same with the answers.  A byte is a digit of a small radix;
the order of the checks, the big-endian length, its limit and the one-byte
resynchronisation are the code's.  `Power`, `BigEndian` and `PopPdus` are
recursive functions: `pop_pdus` goes on with the rest of its buffer, and so does
`PopPdus`.  `StreamAssumption` keeps the proportions of the real constants: a
length that the parser takes, and the body length of a response with its trailer,
are below the radix, as 0x10001c is below 2^24 (of the real length the first
byte is then zero); `LenSize` is at least 2, and the server's limit is no smaller
than what `pop_pdus` may leave over with one `recv` on top, as 2,000,000 is
against 1,048,607 and 65,536.

**CounterSeries** is the dict of `traffic/timing.py` with both its users: the
server that counts events and the client that keeps a copy of STATUS reports,
each with a window that `set_window_slices` changes at any time.  `log` is what
a series that forgets nothing would hold, `last` the report applied last.

**Queues** has the words of the order properties: what is in a queue, that it
ascends, that it holds nothing twice.  **InflightBookProofs**, **ClientProofs**,
**TcpServerProofs**, **ServerStatsProofs**, **CounterSeriesProofs**,
**NetpoissonProofs**, **PduStreamProofs** and **SequenceFacts** are described
under *The proofs*.

Definitions whose comment says *defective variant* are not part of any
specification: each is a plausible bug in the definition that follows it, kept
to show that the properties notice it (`mutants` in `PROJECT.json`).

## The runs

| run | instance | shows |
|---|---|---|
| `book` | three numbers, `Remember` 1, timeout 1, clock 0..1 | see `InflightBook` below |
| `client_tcp` | three ECHOs, `MaxPending` 1, writes and connections fail | bounded queue, `stop` returns, a dead writer winds the rest down |
| `client_udp` | one ECHO, one STATUS on one socket, clock 0..1, writes fail | final accounting, the report's `unsent` included, and both sides of the loss ratio, with reordered, duplicated, late and lost answers; the use of the book |
| `server_tcp` | one TLS connection, two ECHOs, one of them `Long`, a STATUS, a malformed frame | order, no loss, balanced totals, drain, answers, `stop` |
| `server_stats` | a UDP server with two ECHOs, a STATUS, a malformed request, a datagram that does not unseal; or two TCP connections that may hang up and two ECHOs, one of them `Long`; writes may fail | coherent snapshots, exact shared counters, intervals, one answer per datagram and in order, `stop` |
| `ssh` | 4356 command lines; one ECHO and one STATUS over pipes of one and two cells, one line of another program, ssh may die, every `size` | whole lines, answers in order, no mutual blocking, accounting, options, exit status, signals, nothing left behind |
| `wire` | three requests, junk bytes or bad frames, reads of 1 to 4 bytes, bodies of 0 to 3 bytes | cuts of the stream, resynchronisation, answers, the limit on unparsed bytes |
| `series` | windows 1..2, five slices, five events, one of them late by a slice, one report in flight | exact visible slices, bounded dicts, a faithful copy |
| `book_reorder` | *violation* | STATUS probes make in-order ECHOs count as reordered |
| `client_rtt` | *violation* | negative RTT samples |
| `server_writer` | *violation* | one timed-out write and the connection is served no more |
| `server_accept` | *violation* | one failed handshake and the server accepts no more |

Bounds.  *book*: eviction needs two entries for a limit of one, three numbers add an
order among the evicted and the kept; a request is due after one tick, so every race
of an answer with its timeout happens at clock 1, and reaping with an old clock value
is a separate choice in each step.  *client_tcp*: with a queue limited to one, three
requests fill the queue, the writer's hand and the scheduler's hand at once, the
longest chain there is; the clock stands still because timeouts are the subject of
*book* and of *client_udp*. *client_udp*: one request of each type, each of which may
fail to be written, with every interleaving of their two writers, one reader, the
reaper and `stop`; 1.9 million states.  `FinalAccounting` holds in *client_tcp* too,
where it is not repeated.  *server_tcp*: one request in each of the places a
connection has (wire, frames, queue, worker, queue, writer) requires more requests
than are affordable, but four, one of each kind, are enough for one to be on each
side of any thread.  *server_stats*: the initial states choose between UDP and TCP.
Over UDP there is one of each kind of datagram and a second ECHO.  Over TCP the first
two requests, distributed over the connections in every way, make two workers and two
writers race for the counters, and a worker's snapshot can be interrupted by a whole
request of the other one, in its drain too; a client that hangs up (`Close`) is what
starts a drain there, for `StopModes` leaves the calls of `stop()` over TCP, which
start it as well, to the proofs (and to *server_tcp*).  *ssh*: a pipe of one cell
blocks every write in the middle of its line, and one of two cells lets the server
run one response ahead; two requests from two threads are the least that can tear
each other's lines; the command lines are all sequences of up to three options of two
families and of up to two of a third (modes, values, odd values), and every form of
address.  `--ssh` and `--web` stand together only in forms whose address cannot be
read, or not at all, to keep the product of both halves small.  `Strays` is `noise`
in the run; with `garbled` too every property holds as well, in twice the time.
*wire*: a length, a header and every body length up to the limit, and one above it
once the trailer is added; three items put a frame or a junk byte before, between and
after others; a read of up to four bytes ends anywhere in a frame or takes the end of
one with the start of the next. *series*: a window of one keeps two slices, so five
events in five slices are evicted twice and a window of two shows what a shrunk one
has kept; `Lag` one is enough for an event older than the last eviction.  `MaxDup`
bounds the duplicates counted in *book* (to 0: the branch has no other effect; the
client runs exercise it).

Deadlock is checked in every run; a finished client or server stutters by
`Finished`.

Fairness.  Weak fairness for each thread of the client and of the server, in
*ssh* of all steps of threads, remote server and `main` together, which is less
(the scheduler, the reaper, failures and the end of `_pump` are not among them:
they need never come): the
operating system schedules the threads, and what the threads of client and servers
wait for has a timeout (queue gets 0.05 to 0.1 s, sockets 0.3 s, event waits are
periods of a loop) or is a pipe of ssh.  A write to a full pipe of ssh waits
without one, but it is a step of the model that is not enabled until there is room,
and the other end is part of the model.  This does not hold of `main`'s own
stdout (ticks of the NDJSON mode, the report, the answers of `--stdio-server`):
such a write may wait for ever, so `OutputEnds` is not fair and no step of `main`
is while `writing`.  A write to stderr is assumed to return.  Strong
fairness of `StopExpire`: the grace deadline, once passed, stays passed, and
the loop tests it again and again.  In *book*, weak fairness of the clock and of
the reaper.  Nothing is assumed of peers: no response need come, no request be
written, no handshake end; the acceptor is fair except inside a handshake, and
`StopJoin` gives it up there as `thread.join(timeout=1.0)` does.

### What the properties say

*InflightBook*: `CountersExact` (`lost` and `unsent` are exact whatever was
evicted), `NoEarlyLoss`, `TablesBounded` (with the late path of `take`, that does
not trim, in the bound), `ForgetOldest`, `SentSettles`, `ImplementsLedger`.
`TypeOK`, `OneTable` (what `take` silently relies on) and `AcceptOnce` are stated
there and proved, and have no run of their own.

*Client*: `FinalAccounting` (once `stop` has returned, whatever died before, every
ECHO offered is received, lost or never sent; the report's `unsent` counts the STATUS
probes that did not go out as well, and received + lost + `unsent` is what was
numbered less the probes that did go out), `WireAccounting` (wire_sent = received +
lost, the two sides of the loss ratio), `OverrunByOne`, `StopReturns`, `WindDown`,
`UsesBook`.

*TcpServer*: `InOrder`, `TotalsBalance` (the totals differ by the ECHOs handled and
not yet noted, and for ever by the `Long` ones), `DrainAfterClose`,
`EveryRequestAnswered`, `StopClosesAll` (which includes that `stop` returns).

*ServerStats*: `SnapshotCoherent` (it holds because the timelines are read before the
totals, and events are counted in the other order; and because a worker counts its
own request before it looks; that `processing` counts the request the telemetry goes
with is said of workers that do not drain), `CountersExact` (`processing` is the
number of workers in a request, those that drain apart; the intervals add up to the
totals; the totals differ by the ECHOs on their way, by those whose response could
not be sent and by the `Long` ones passed over), `AnsweredOnceInOrder`,
`DatagramsAnswered`, `StopReturns`.

*StdioSession*: `LinesIntact` (also across the hand-over of the buffer from
`_wait_hello` to `_read_stdio`), `AnsweredInOrder`, `FinalAccounting` (of the
ECHOs; it has one exception, see below), `BurstDrains`.

*Netpoisson*: `OptionsKeepMeaning` (options in any order mean the same, and
`--lambda` stands whatever the profile, which is not so of other options, see below),
`TargetAsWritten`, `OrderlyExit` (the exit status, and nothing left behind),
`SignalEnds` (a signal ends the process from every phase, unless a write to its own
stdout never returns; and no remote server outlives the client).

*PduStream*: `CutsInvisible`, `EchoesReturn` (its two conditions are the cases
in which the code does lose an answer: a zero byte between frames reads as the
start of a short length, and a response with its trailer may exceed the limit
that the client's parser knows), `ServerKeepsReading`.

*CounterSeries*: `VisibleExact`, `SeriesBounded`, `CopyIsLastReport`.

### Divergences found

* `traffic/book.py:63`: STATUS probes take numbers the reorder counter expects
  ECHOs to have; `reorder` grows by one after each probe (`book_reorder`).
* `peer_client/binary_io.py:48` and `:108`: the writer reads its clock after
  `sendall`, the reader may have read its own before: the RTT sample is
  negative, or absent if `take` also came first (`client_rtt`).
* `peer_server.py:405`: a failed or timed-out write ends the writer and leaves
  the connection open (`server_writer`); `EveryRequestAnswered` holds while
  writes succeed (`server_tcp`).
* `peer_server.py:335`: a failed TLS handshake ends the acceptor
  (`server_accept`).
* `peer_server.py:488`, seen in `TotalsBalance`: over TCP an ECHO whose payload fits
  `MAX_BODY` (`protocol.py:302`) but leaves no room for the telemetry trailer of 68
  bytes, as with `--payload 1m`, is answered, and the response is counted neither in
  `echo_tx` nor in the timeline of responses: `_note_sent` cannot decode it.  "requests"
  and "responses" then differ for ever.
* `peer_server.py:386`, seen in `SnapshotCoherent`: a worker that drains its queue does
  not count what it handles in `processing`, so the telemetry of these responses
  may say that nothing is being processed.
* `peer_client/reporting.py:157`, seen in `FinalAccounting`: the report's `unsent` also
  counts STATUS probes, those whose write failed (`binary_io.py:76`) and those the
  last reap finds unmarked (`traffic/book.py:91`), so received + lost + unsent may
  exceed the ECHOs offered.
* `peer_server.py:537` and `npcli/main.py:59`, seen in `SignalEnds`: SIGINT and SIGTERM
  only set an event.  In a write to a stdout that nobody reads the process does not
  see it, and does not end until the reader reads or leaves.
* `peer_client/binary_io.py:43`, modelled by `SendFail`: the 0.3 s socket timeout
  turns a blocked write into the end of the run, where `schedule.py:31` says
  that the scheduler goes on even if the writer is blocked.
* `peer_client/schedule.py:34`, seen in `WindDown` and `OverrunByOne`: the wait
  for room ends on `sched_stop` only, and then offers one more request.
* `protocol.py:366`, seen in `FinalAccounting` of StdioSession: a request too
  long to encode ends the scheduler after it was counted as offered and before
  it is in the book; the report has it nowhere.  Slightly shorter ones pass the
  encoder's limit (1 MiB) and fail the reader's (1,000,000 bytes): the remote
  server ends with status 2 (`ServerLine`), or the client takes its own response
  for an error (`ReadLine`).
* `peer_client/stdio_io.py:56`, `WriteClosed`: `stop()` closes stdin under the
  writers; the `ValueError` is not an `OSError`, so the thread ends with a
  traceback, and the last reap settles its request.
* `peer_client/stdio_io.py:156`: the payload of a response is not compared with
  that of the request, where `README.md` lists payload identity among the
  client's checks.
* `npcli/args.py:355`: `-s 12m` and `-s 1h` are passed to `parse_duration_ms`,
  which knows neither unit: `ValueError`, a traceback (`Duration`).  So for
  numbers that are none in `--connections`, `--seed`, `--payload` (`Whole`).
* `npcli/args.py:244`: a profile replaces an explicit `--payload`, `--timeout`,
  `--status-interval` and `--connections`, but not `--lambda` (`ApplyProfile`).
* `npcli/args.py:408`: `--daemon --ssh` listens and forgets the target, and a
  SERVER beside `--ssh` is ignored (`Conflict`, `Mode`).
* `npcli/main.py:298`: an exception of `_security()` comes after ssh was started
  and passes every `stop()`, as does a closed stdout in `_pump()`; `SignalEnds`
  holds only because the end of the process closes the pipes.

## The proofs

`InflightBookProofs` proves, for every finite set of sequence numbers, every
timeout, every `remember` and every clock bound, under `BookAssumption`:

* `Invariance`: the inductive invariant `IInv`, which is `TypeOK`, `Placement`,
  and the two halves of `CountersExact`.  `Placement` is the strengthening:
  it ties each table to the stamps (a number in `open` was added and neither
  lost nor answered; one in `lost_seqs` was lost and not answered; one in
  `seen_acks` was answered; what was lost or answered was added).  Without it a
  late answer could be for a number that the counter never counted.
* from it `TypeCorrect`, `TablesDisjoint`, `ReportIsExact` (`CountersExact`);
* `MemoryBounded` (`TablesBounded`), with an invariant of its own on top of
  `IInv` and the lemma that eviction leaves at most `Remember` entries;
* `AcceptedOnce` and `NoLossBeforeTimeout`, two properties of steps;
* `BookImplementsLedger`: every step of the book offers, answers or gives up
  requests of the ledger, or stutters.
* `OldestForgottenFirst` (`ForgetOldest`): eviction takes from the old end of the
  insertion order, for a table of any size.

`ClientProofs` proves of the client, for any number of connections, ECHOs and
probes, any `max_pending`, TCP or UDP, with or without failures, under
`ClientAssumption`:

* `BookUsedAsSpecified` (`UsesBook`): every step of every thread is a step of
  `InflightBook!Spec`, so the theorems above are facts about the client's
  report; `ClientKeepsTheBook` restates them for it.
* `EveryRequestAccounted` (`FinalAccounting`, the probes in `unsent` included),
  `WireAccounted` (`WireAccounting`), `ClientTypeCorrect`, and `OverrunBounded`,
  whose strengthening `Overrun` says when the queue may be over its limit: after an
  offer made while `sched_stop` was set, and then the scheduler makes no other.

All but the last follow from `ClientInvariance`, the invariant `IInv /\ CInv`.  That
the final sums agree is a statement about one moment; what makes them agree is spread
over all threads, and `CInv` says it label by label:

| part | says | needed because |
|---|---|---|
| `Typed`, `Holding` | types; which locals hold a number at which label | every other part speaks of "the number in hand" |
| `Numbered` | `seq` is `offered` plus the probes; a number in hand before `add` is new, and those of scheduler and prober differ | the book's `Add` requires a fresh number |
| `Queued` | the queue ascends, in front of it what the writer holds, behind it what the scheduler holds; all of it is open, added and not yet marked | `MarkSent` requires an unmarked number; what `drop_unsent` and the last reap abandon must be in the table |
| `Carried` | the responses on the connections are those of requests that were written, none on two connections; only an unanswered request has a second copy | `take` is not given a number nobody sent, and a number is accepted once |
| `Marked` | what was marked is open, lost or answered; only what was marked is lost | the last reap divides `open` into lost and unsent |
| `Counted` | `received`, `status_received`, `wire_sent`, `status_sent` and `duplicates` are cardinalities of sets of numbers, less those between the book's step and the counter's | the sums of the properties |
| `WoundUp` | when `stop` reaps, every thread has ended; after it `open` is empty | "final" |

The numbers `Seqs` are `1..(MaxEchoes + MaxProbes)`, as `_next_seq` hands them
out.  `ClientAssumption` lets the book's `MaxDup`, which bounds the clock of its
duplicates counter, be no smaller than what this network can produce (a second
copy of each response); a smaller one would disable `take` instead of counting.

`TcpServerProofs` proves, for any finite set of connections, requests, choice of
STATUS requests, junk and responses too long to be noted, with or without TLS and
failures: `ResponsesInOrder` (`InOrder`), `TotalsBalanced` (`TotalsBalance`),
`TypeCorrect`.  The invariant `IInv` adds to `InOrder` that what is unread on a
connection are exactly the requests written last (`Unread`), so that what a read
takes continues the pipeline; that a thread holds a request exactly at the labels
between its `get` and its `put` (`Labelled`); that a response between `sendall` and
its counter was sent (`Noting`), so that the totals follow from sets of requests.

`ServerStatsProofs` proves, for any set of links, number of requests and choice
of STATUS requests, junk, datagrams that do not unseal and responses too long to
be noted: `SentOnceInOrder`
(`AnsweredOnceInOrder`), `CountersAreExact` (`CountersExact`),
`SnapshotsCohere` (`SnapshotCoherent`), `TypeCorrect`.  `LinkOrder` places each
request of a link on its way from the network to `sent`; `Apart` gives each
request one place on one link.  Then each counter is the cardinality of the set
of requests that have come that far, and a snapshot is coherent because these
sets are nested and only grow: what was read of a smaller set earlier is at
most what is read of a larger one later.

`CounterSeriesProofs` proves all four invariants of CounterSeries for every
range of windows, count limit, lag and clock bound, under `SeriesAssumption`:
`TypeCorrect`, `VisibleCountsExact`, `SeriesStayBounded`, `CopyShowsLastReport`.
Together they are inductive: `VisibleExact` needs that no key lies in the
future (in `TypeOK`), so that the slice a tick opens is empty, and that `low` and
`high` enclose both windows.  The argument is in the lemmas about the dict:
`EvictFacts` (an eviction spares the `keep` slices before the event, and what it
leaves lies in an interval of `keep + lag + 1` slices), `AddOneFacts`,
`ReplaceWindowFacts`.

`NetpoissonProofs` proves of a run over SSH, from `MainSpec`, for any number of
ECHOs, probes and stray lines, pipes of any capacity, every set of command lines,
with or without failures, under `SessionAssumption` and `CommandLinesAssumption`
(the first two bullets hold whatever mode and settings the command line gives):

* `NoLineLost` (`LinesIntact`), `RequestsInOrder` (`AnsweredInOrder`),
  `EveryEchoAccounted` (`FinalAccounting`), `ExitsInOrder` (`OrderlyExit`),
  `MainTypeCorrect` (`MainTypeOK`);
* `SessionKeepsTheLedger`: the session implements RequestLedger;
* `OptionsMeanTheSame` (`OptionsKeepMeaning`) and `AddressAsWritten`
  (`TargetAsWritten`), of command lines of any length and texts of any length.

The first two bullets follow from `Invariance`, the invariant `SInv /\ MInv`:

| part | says | needed because |
|---|---|---|
| `Typed`, `Bounded` | types; the pipes keep their capacity | |
| `Phases` | which threads exist, and what is closed, at each label of `start()` and `stop()` | "when `stop()` has returned" every thread is over and ssh is gone |
| `Locked` | who holds `stdio_lock` is inside a line, and nobody else | two writers do not tear each other's lines |
| `RepliesWhole` | buffer and pipe to the client carry `replies`, and a line is open at its end exactly while the server writes one | `LinesIntact` counts line ends; that they are those of whole lines in order is what a step preserves |
| `RequestsWhole` | the same towards the server, for the requests it has not yet read | the next line the server cuts off is the next request |
| `Numbered`, `Owned` | `seq` counts offers and probes; whatever is queued, in hand, written or on its way back belongs to a request that was offered, of that type | an answer finds its request in the ledger, and its counter |
| `Settled` | `received`, `status_received` and `lost` are cardinalities of outcomes; offers exceed the ledger by the one that was too long | the sum of the report |
| `Sent`, `Handled` | what is written was queued, what is received the server handled, what is noise somebody wrote | bounds between counters of both ends |
| `Run`, `Ending` | what `main()` holds at each of its labels; that the session has begun, is over or was cut short when `main()` thinks so | the exit status looks at counters that no longer change |

The first part of the module has what these need of lines: `Carries(cells, msgs)`
says that no line is torn and that the lines that end in `cells` are those of
`msgs`, in order; the lemmas say what beginning a line, ending one, cutting off
the first and counting do.  `Carries` has a witness, the position of the end of
each line, so that no induction over the cells is needed.

The last part is about the command line.  `Understood` is the invariant: until
main() has chosen a mode, `parsed` and `target` are what `ParseArgs` and `Target`
make of one of the command lines; the rest is about these operators.
`ReadOptions` unfolds the fold: there is a result after each number of options
(`Readings`), and each comes from the one before by `ParseOption`.  An option
that can be read changes the fields `FieldsOf` it and depends on no other
(`ChangesFacts`), so two options of different `Field`s commute (`OptionsCommute`)
and exchanging neighbours gives the same results from there on
(`NeighboursExchanged`).  A field keeps its value while no option sets it
(`FieldKept`), and no profile sets a rate given explicitly (`ProfileApplied`), so
the last `--lambda` stands (`LambdaWins`).  That an exchange keeps the meaning is
stated of command lines that can be read: exchanged, one that cannot be may fail
differently.  `AddressRead` goes through the forms of an address, and
`AddressGiven` says that the text is that of a SERVER and that the port is the
default unless `--port` was given.

`PduStreamProofs` proves all three invariants of PduStream, for every radix, sizes,
limits, junk bytes and number of requests that `StreamAssumption` admits, and
reads of any size up to `Chunk`: `CutsNeverShow` (`CutsInvisible`), `EchoesCome`
(`EchoesReturn`), `KeepsReading` (`ServerKeepsReading`).  They follow from
`Invariance`, the invariant `Inv`:

| part | says | needed because |
|---|---|---|
| `TypeOK` | buffers, pipes and frames are sequences of bytes | |
| `ServerParsed` | what was written is a part the server has read, whose parse it holds, followed by `up` | this is `CutsInvisible`, in a form that a read preserves |
| `ClientParsed` | the same of the responses to the frames cut, and the client's answers | the answers are those of one parse of everything sent back |
| `ServerKeepsReading` | the limit was not reached | a closed connection parses nothing |

What makes a read preserve it is `ParseInParts`: parsing a stream gives the
frames of its first part, followed by those of what was left over with the second
part.  `RestWaits` and `WaitsIsShort` say that what is left over is shorter than
a frame can be, so a read on top of it stays below the limit.  For `EchoesReturn`,
`LengthFacts` and `EncodeFacts` show that decoding inverts encoding for the
big-endian length of any radix; `FrameFirst` and `JunkFirst` that a frame in front
of a stream is the parser's first, and a non-zero byte costs none (it makes an
oversized length, `NonzeroIsOversized`); `RequestAnswered` that a request's
response is a frame the client accepts, with the payload of the request; and
`RoundTrip` puts these together for all that was written.

`SequenceFacts` has the lemmas that several of these proofs share: about queues of
numbered requests (what `Append`, `Tail`, a prefix, a concatenation do to the
elements and to their order); about induction and recursive definitions; about
`FlattenSeq` and functions applied to the elements of a sequence.  The library's
induction theorems take an operator as a parameter and cannot be used here; but
that a non-empty set of numbers has a least element is a statement about sets
(`WFMin` of the library).  From it `NumberInduction`, `RankInduction` and
`SequenceInduction` are stated of sets, and `Recursion` says that a recursive
definition, given by functions for its base, its predecessor and its step,
defines a function; `PowerDef`, `BigEndianDef`, `PopPdusDef` and `FlattenFunction` are
its uses.

Only model-checked: liveness under fairness (`SentSettles`, `StopReturns`, `WindDown`,
`DrainAfterClose`, `EveryRequestAnswered`, `StopClosesAll`, `DatagramsAnswered`,
`BurstDrains`, `SignalEnds`), which is out of the prover's reach.  Every invariant
that a passing run checks is also proved.

## Not modelled

In the client, payloads (and with them the count of payload mismatches), byte
counters, changes of the bucket size and of the rate at run time, `_sample`, the
retries of `start()`, the numbers inside telemetry and STATUS, everything that
formats.  In the server, byte counters and the queue maxima, which are set
without a lock (`peer_server.py:174`) and only printed.  Over SSH, ssh's stderr,
and a banner without a newline, which would swallow the beginning of
`hello_ack`.  In `main`, the texts, the options of ssh, file errors of
`--install`, opening a browser.

`traffic/analysis.py` computes statistics in floating point and
`peer_client/reporting.py` and `traffic/display.py` put numbers together and
format them: nothing in them has an order of events, and real numbers are out of
TLC's reach; so are random intervals.  `webui.py` serves what `snapshot` returns
and calls three setters.  Cryptography, the dashboard's page, translations,
packaging.

## Plan

1. done: RequestLedger, InflightBook and its proofs, Client, TcpServer.
2. done: PduStream, CounterSeries and its proofs.
3. done: ServerStats, StdioSession, Args, Netpoisson.
4. A change of the bucket size at run time; the bound of the sample window.
5. done: proofs of `ForgetOldest`, of TcpServer, ServerStats, Client,
   StdioSession and Netpoisson.
6. done: proofs about PduStream and Args.
