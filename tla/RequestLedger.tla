---------------------------- MODULE RequestLedger ----------------------------
(***************************************************************************)
(* What the client's request bookkeeping promises, without the tables that *)
(* keep the promise: every request has one outcome, an answer settles it   *)
(* once and for good, a loss may still be corrected by a late answer, and  *)
(* the two counters the report prints are counts of outcomes.              *)
(* traffic/book.py (module InflightBook) implements it.                    *)
(***************************************************************************)
EXTENDS Integers, FiniteSets

CONSTANTS Seqs,         \* the sequence numbers of one client run
          ECHO, STATUS  \* message types; only an ECHO counts as lost

VARIABLES outcome,   \* [Seqs -> Outcomes]
          mtype,     \* [Seqs -> message type], meaningful once offered
          lost,      \* the reported number of losses
          unsent     \* the reported number of requests never written

vars == <<outcome, mtype, lost, unsent>>

Outcomes == {"idle", "open", "answered", "lost", "unsent"}

WithOutcome(o) == {s \in Seqs : outcome[s] = o}

\* The counters are recounted from the outcomes in every step.
Recount ==
  /\ lost' = Cardinality({s \in Seqs : outcome'[s] = "lost" /\ mtype'[s] = ECHO})
  /\ unsent' = Cardinality({s \in Seqs : outcome'[s] = "unsent"})

Init ==
  /\ outcome = [s \in Seqs |-> "idle"]
  /\ mtype = [s \in Seqs |-> ECHO]
  /\ lost = 0
  /\ unsent = 0

Offer(s, kind) ==
  /\ outcome[s] = "idle"
  /\ outcome' = [outcome EXCEPT ![s] = "open"]
  /\ mtype' = [mtype EXCEPT ![s] = kind]
  /\ Recount

Answer(s) ==
  /\ outcome[s] \in {"open", "lost"}
  /\ outcome' = [outcome EXCEPT ![s] = "answered"]
  /\ UNCHANGED mtype
  /\ Recount

\* Give up on the requests in L (written, no answer in time) and in U (never
\* written); one sweep settles all of them together.
GiveUp(L, U) ==
  /\ L \cap U = {}
  /\ L \cup U \subseteq WithOutcome("open")
  /\ outcome' = [s \in Seqs |-> CASE s \in L -> "lost"
                                  [] s \in U -> "unsent"
                                  [] OTHER -> outcome[s]]
  /\ UNCHANGED mtype
  /\ Recount

Next ==
  \/ \E s \in Seqs : Answer(s) \/ \E kind \in {ECHO, STATUS} : Offer(s, kind)
  \/ \E L, U \in SUBSET WithOutcome("open") : GiveUp(L, U)

Spec == Init /\ [][Next]_vars
=============================================================================
