----------------------------- MODULE InflightBook -----------------------------
(***************************************************************************)
(* The client's in-flight table, class InflightBook of traffic/book.py:    *)
(* one operator per method, each one critical section of the class's lock. *)
(*                                                                         *)
(* The three Python dicts are sets of sequence numbers.  A dict also       *)
(* remembers insertion order, and reap() and take() evict by it; the order *)
(* is kept as a stamp per sequence number (added_at, lost_at, acked_at: 0  *)
(* until the number enters the table, then 1, 2, ...).  Stamps outlive the *)
(* entry, so they also tell the properties what the table has forgotten.   *)
(* A Pending's create_mono and raw are data no branch reads; its           *)
(* track_loss is TRUE exactly when mtype is ECHO (schedule.py:58-60,       *)
(* binary_io.py:71, stdio_io.py).                                          *)
(***************************************************************************)
EXTENDS Integers, FiniteSets

CONSTANTS Seqs,         \* sequence numbers _next_seq may hand out: 1..n
          ECHO, STATUS, \* message types
          NotSent,      \* Pending.send_mono before mark_sent (None)
          Timeout,      \* InflightBook.timeout_ns, in clock ticks
          Remember,     \* InflightBook.remember
          MaxTime,      \* bound on the monotonic clock
          MaxDup        \* bound on the duplicates counted

ASSUME BookAssumption ==
  /\ Seqs \subseteq Nat \ {0}
  /\ IsFiniteSet(Seqs)
  /\ ECHO # STATUS
  /\ NotSent \notin Nat
  /\ Timeout \in Nat
  /\ Remember \in Nat
  /\ MaxTime \in Nat
  /\ MaxDup \in Nat

VARIABLES open,         \* keys of the dict open
          lost_seqs,    \* keys of the dict lost_seqs
          seen_acks,    \* keys of the dict seen_acks
          mtype,        \* Pending.mtype of each number
          send_mono,    \* Pending.send_mono of each number
          added_at, lost_at, acked_at,  \* insertion stamps of the three dicts
          lost, unsent, duplicates, reorder,  \* the counters
          expect_next,  \* _expect_next
          now,          \* the monotonic clock
          forced        \* stop() has made its last reap(force=True)

tables   == <<open, lost_seqs, seen_acks>>
stamps   == <<added_at, lost_at, acked_at>>
counters == <<lost, unsent, duplicates, reorder, expect_next>>
bookVars == <<tables, stamps, counters, mtype, send_mono>>
vars     == <<bookVars, now, forced>>

-----------------------------------------------------------------------------
(* Insertion-ordered dicts *)

Stamped(at) == {s \in Seqs : at[s] # 0}

\* The stamp of the next key inserted into a dict.
NextStamp(at) == Cardinality(Stamped(at)) + 1

\* Insert the keys of S, in the order of the stamps `order`.
StampAll(at, S, order) ==
  [s \in Seqs |->
     IF s \in S
       THEN Cardinality(Stamped(at)) + Cardinality({t \in S : order[t] <= order[s]})
       ELSE at[s]]

\* Defective variants for the sensitivity checks (here and below): one entry
\* too many is kept; the newest entries are evicted.
NewestOffByOne(S, at) == {s \in S : Cardinality({t \in S : at[t] >= at[s]}) <= Remember + 1}
NewestEvictsNewest(S, at) == {s \in S : Cardinality({t \in S : at[t] <= at[s]}) <= Remember}

\* What is left of S when its oldest keys beyond Remember are deleted.
Newest(S, at) == {s \in S : Cardinality({t \in S : at[t] >= at[s]}) <= Remember}

-----------------------------------------------------------------------------
(* The methods *)

\* Defective variant: STATUS requests are tracked too.
TrackedAll(s) == mtype[s] \in {ECHO, STATUS}

Tracked(s) == mtype[s] = ECHO
Sent(s)    == send_mono[s] # NotSent

BookInit ==
  /\ open = {} /\ lost_seqs = {} /\ seen_acks = {}
  /\ mtype = [s \in Seqs |-> ECHO]
  /\ send_mono = [s \in Seqs |-> NotSent]
  /\ added_at = [s \in Seqs |-> 0]
  /\ lost_at = [s \in Seqs |-> 0]
  /\ acked_at = [s \in Seqs |-> 0]
  /\ lost = 0 /\ unsent = 0 /\ duplicates = 0 /\ reorder = 0
  /\ expect_next = 1

Add(s, kind) ==
  /\ open' = open \cup {s}
  /\ mtype' = [mtype EXCEPT ![s] = kind]
  /\ send_mono' = [send_mono EXCEPT ![s] = NotSent]
  /\ added_at' = [added_at EXCEPT ![s] = NextStamp(added_at)]
  /\ UNCHANGED <<lost_seqs, seen_acks, lost_at, acked_at, counters>>

MarkSent(s, t) ==
  /\ send_mono' = IF s \in open THEN [send_mono EXCEPT ![s] = t] ELSE send_mono
  /\ UNCHANGED <<tables, stamps, counters, mtype>>

\* Defective variant: counts a drop whether or not the entry is there.
DropUnsentAlways(s) ==
  /\ open' = open \ {s}
  /\ unsent' = unsent + 1
  /\ unsent < Cardinality(Seqs)
  /\ UNCHANGED <<lost_seqs, seen_acks, stamps, mtype, send_mono,
                 lost, duplicates, reorder, expect_next>>

DropUnsent(s) ==
  /\ IF s \in open /\ ~Sent(s)
       THEN open' = open \ {s} /\ unsent' = unsent + 1
       ELSE UNCHANGED <<open, unsent>>
  /\ UNCHANGED <<lost_seqs, seen_acks, stamps, mtype, send_mono,
                 lost, duplicates, reorder, expect_next>>

\* take() looks in seen_acks, then in open, then in lost_seqs.
TakeKind(s) ==
  CASE s \in seen_acks -> "duplicate"
    [] s \notin seen_acks /\ s \in open -> "ok"
    [] s \notin seen_acks \cup open /\ s \in lost_seqs -> "late"
    [] OTHER -> "unknown"

TakeDuplicate ==
  /\ duplicates' = duplicates + 1
  /\ UNCHANGED <<tables, stamps, mtype, send_mono, lost, unsent, reorder, expect_next>>

OutOfOrder(s) == Tracked(s) /\ s > expect_next

TakeOk(s) ==
  LET at == [acked_at EXCEPT ![s] = NextStamp(acked_at)] IN
  /\ open' = open \ {s}
  /\ acked_at' = at
  /\ seen_acks' = Newest(seen_acks \cup {s}, at)
  /\ reorder' = IF OutOfOrder(s) THEN reorder + 1 ELSE reorder
  /\ expect_next' = IF Tracked(s) /\ s + 1 > expect_next THEN s + 1 ELSE expect_next
  /\ UNCHANGED <<lost_seqs, added_at, lost_at, mtype, send_mono, lost, unsent, duplicates>>

\* Defective variant: a late answer does not correct the loss.
TakeLateUncorrected(s) ==
  /\ lost_seqs' = lost_seqs \ {s}
  /\ seen_acks' = seen_acks \cup {s}
  /\ acked_at' = [acked_at EXCEPT ![s] = NextStamp(acked_at)]
  /\ UNCHANGED <<open, added_at, lost_at, mtype, send_mono,
                 lost, unsent, duplicates, reorder, expect_next>>

\* The late path does not trim seen_acks.
TakeLate(s) ==
  /\ lost_seqs' = lost_seqs \ {s}
  /\ seen_acks' = seen_acks \cup {s}
  /\ acked_at' = [acked_at EXCEPT ![s] = NextStamp(acked_at)]
  /\ lost' = IF Tracked(s) /\ lost > 0 THEN lost - 1 ELSE lost
  /\ UNCHANGED <<open, added_at, lost_at, mtype, send_mono,
                 unsent, duplicates, reorder, expect_next>>

Take(s) ==
  \/ TakeKind(s) = "duplicate" /\ TakeDuplicate
  \/ TakeKind(s) = "ok"        /\ TakeOk(s)
  \/ TakeKind(s) = "late"      /\ TakeLate(s)
  \/ TakeKind(s) = "unknown"   /\ UNCHANGED bookVars

\* Defective variants: a tick early; only after the timeout.
ExpiredEarly(t, force) == {s \in open : Sent(s) /\ (force \/ t - send_mono[s] >= Timeout - 1)}
ExpiredStrict(t, force) == {s \in open : Sent(s) /\ (force \/ t - send_mono[s] > Timeout)}

\* The entries a reap at time t moves to lost_seqs.
Expired(t, force) == {s \in open : Sent(s) /\ (force \/ t - send_mono[s] >= Timeout)}
NeverSent == {s \in open : ~Sent(s)}

Reap(t, force) ==
  LET due     == Expired(t, force)
      dropped == IF force THEN NeverSent ELSE {}
      at      == StampAll(lost_at, due, added_at)
  IN /\ open' = open \ (due \cup dropped)
     /\ lost_at' = at
     /\ lost_seqs' = Newest(lost_seqs \cup due, at)
     /\ lost' = lost + Cardinality({s \in due : Tracked(s)})
     /\ unsent' = unsent + Cardinality(dropped)
     /\ UNCHANGED <<seen_acks, added_at, acked_at, mtype, send_mono,
                    duplicates, reorder, expect_next>>

Waiting == {s \in open : Sent(s)}

-----------------------------------------------------------------------------
(* The callers: any thread, any order, with clock values read beforehand.  *)

Init == BookInit /\ now = 0 /\ forced = FALSE

\* _next_seq never hands out a number twice.
AddFresh ==
  /\ \E s \in Seqs : added_at[s] = 0 /\ \E kind \in {ECHO, STATUS} : Add(s, kind)
  /\ UNCHANGED <<now, forced>>

\* A writer marks what it wrote once, with a clock value read before the lock.
MarkWritten ==
  /\ \E s \in Seqs, t \in 0..now :
       /\ added_at[s] # 0 /\ ~Sent(s)
       /\ MarkSent(s, t)
  /\ UNCHANGED <<now, forced>>

DropFailed ==
  /\ \E s \in Seqs : added_at[s] # 0 /\ DropUnsent(s)
  /\ UNCHANGED <<now, forced>>

\* A response may carry any number, answered, lost or never offered.
Respond(s) ==
  /\ TakeKind(s) = "duplicate" => duplicates < MaxDup
  /\ Take(s)
  /\ UNCHANGED <<now, forced>>

ReapAt(t) == Reap(t, FALSE) /\ UNCHANGED <<now, forced>>

ReapForced == Reap(now, TRUE) /\ forced' = TRUE /\ UNCHANGED now

Tick == now < MaxTime /\ now' = now + 1 /\ UNCHANGED <<bookVars, forced>>

Next ==
  \/ AddFresh
  \/ MarkWritten
  \/ DropFailed
  \/ \E s \in Seqs : Respond(s)
  \/ \E t \in 0..now : ReapAt(t)
  \/ ReapForced
  \/ Tick

\* The clock advances, and the client's _reap thread keeps reading it.
Fairness == WF_vars(Tick) /\ WF_vars(ReapAt(now))

Spec == Init /\ [][Next]_vars
FairSpec == Spec /\ Fairness

-----------------------------------------------------------------------------
(* Properties *)

\* Every variable has its type.
TypeOK ==
  /\ open \subseteq Seqs /\ lost_seqs \subseteq Seqs /\ seen_acks \subseteq Seqs
  /\ mtype \in [Seqs -> {ECHO, STATUS}]
  /\ send_mono \in [Seqs -> Nat \cup {NotSent}]
  /\ added_at \in [Seqs -> Nat] /\ lost_at \in [Seqs -> Nat] /\ acked_at \in [Seqs -> Nat]
  /\ lost \in Nat /\ unsent \in Nat /\ duplicates \in Nat /\ reorder \in Nat
  /\ expect_next \in Nat
  /\ now \in 0..MaxTime
  /\ forced \in BOOLEAN

Answered  == Stamped(acked_at)
Unanswered == Stamped(lost_at) \ Answered
Abandoned == Stamped(added_at) \ (open \cup Stamped(lost_at) \cup Answered)

\* A sequence number is in at most one of the three dicts.  take() relies on
\* it: it looks a number up in one dict and never checks the others.
OneTable ==
  /\ open \cap lost_seqs = {}
  /\ open \cap seen_acks = {}
  /\ lost_seqs \cap seen_acks = {}

\* The lost counter, adjusted by reap() and by late answers, is always the
\* number of ECHO requests that timed out and are still unanswered, those
\* whose entry lost_seqs has already forgotten included.
LostIsUnanswered == lost = Cardinality({s \in Unanswered : Tracked(s)})

\* Every request that left open neither answered nor timed out was counted
\* as unsent, once, whether drop_unsent or the final reap removed it.
UnsentIsAbandoned == unsent = Cardinality(Abandoned)

\* Both counters of the report are exact, in whatever order answers, reaps,
\* failed writes and evictions met.
CountersExact == LostIsUnanswered /\ UnsentIsAbandoned

\* An answer is accepted at most once: after eviction from seen_acks a
\* further copy is unknown, never a second "ok" or "late".
AcceptOnce == [][\A s \in Answered : acked_at'[s] = acked_at[s]]_vars

\* The dicts that evict stay near their limit: lost_seqs within remember,
\* seen_acks within remember plus the late answers it holds (the late path
\* of take() does not trim).
TablesBounded ==
  /\ Cardinality(lost_seqs) <= Remember
  /\ Cardinality(seen_acks) <= Remember + Cardinality(seen_acks \cap Stamped(lost_at))

\* Eviction forgets the oldest entry first: nothing kept is older than
\* something forgotten.
ForgetOldest ==
  /\ \A s \in lost_seqs, t \in Unanswered \ lost_seqs : lost_at[t] < lost_at[s]
  /\ \A s \in seen_acks, t \in Answered \ seen_acks : acked_at[t] < acked_at[s]

\* While the run lasts no request is given up before its timeout has passed,
\* however old the clock value is that reap() was called with, and one that
\* was never written is never given up as lost.
NoEarlyLoss ==
  [][\A s \in Stamped(lost_at)' \ Stamped(lost_at) :
       Sent(s) /\ (forced' \/ now - send_mono[s] >= Timeout)]_vars

\* README.md, client validation: the client checks reordering.  Responses
\* that arrive in the order of their sequence numbers, none missing, are not
\* reordered, whatever their message types.
ReorderMeansOvertaken ==
  (\A s \in Answered : \A t \in Seqs :
     t < s => t \in Answered \ Stamped(lost_at) /\ acked_at[t] < acked_at[s])
  => reorder = 0

\* A request that was written leaves open: it is answered or given up.  (The
\* clock is bounded: the claim is about requests it leaves room to time out.)
SentSettles ==
  \A s \in Seqs :
    (s \in open /\ Sent(s) /\ send_mono[s] + Timeout <= MaxTime) ~> (s \notin open)

\* The tables implement the ledger of outcomes.
Outcome(s) ==
  CASE added_at[s] = 0 -> "idle"
    [] s \in open -> "open"
    [] s \in Answered -> "answered"
    [] s \in Unanswered -> "lost"
    [] OTHER -> "unsent"

Ledger == INSTANCE RequestLedger WITH outcome <- [s \in Seqs |-> Outcome(s)]
ImplementsLedger == Ledger!Spec
=============================================================================
