---------------------------- MODULE CounterSeries ----------------------------
(***************************************************************************)
(* The timelines: class CounterSeries of traffic/timing.py, a dict from    *)
(* slice numbers to counts that forgets old slices, as the server counts   *)
(* with it (own: add, newest_first) and as the client keeps a copy of what *)
(* STATUS responses report (copy: replace_window), with the windows of     *)
(* both, which set_window_slices changes at run time.                      *)
(*                                                                         *)
(* Slices are numbered by the monotonic clock; the two hosts' clocks are   *)
(* taken to be in the same slice, their offset is a constant.  A request   *)
(* is counted in the slice it was read in, when a worker has got to it.    *)
(* Left out: the bucket size, which is fixed here.                         *)
(***************************************************************************)
EXTENDS Integers, FiniteSets, Sequences

CONSTANTS MinWindow, MaxWindow,  \* window_slices is clamped to this range
          CountMax,   \* the largest count a STATUS body can carry, 0xFFFF
          Lag,        \* how many slices behind an add may be
          MaxSlice,   \* bound on the clock
          MaxAdds,    \* bound on the events counted
          MaxStatus   \* bound on the STATUS responses in flight

ASSUME SeriesAssumption ==
  /\ MinWindow \in Nat \ {0} /\ MaxWindow \in Nat /\ MinWindow <= MaxWindow
  /\ CountMax \in Nat /\ Lag \in Nat
  /\ MaxSlice \in Nat /\ MaxAdds \in Nat /\ MaxStatus \in Nat

Slices  == 0..MaxSlice
Windows == MinWindow..MaxWindow

VARIABLES cur,          \* the slice of the present
          own, copy,    \* CounterSeries.counts of the two series
          own_window, copy_window,  \* window_slices of their owners
          low, high,    \* the extremes of both windows so far
          status,       \* the slice lists of STATUS responses in flight
          adds,         \* how many events have been counted
          log,          \* what a series that forgets nothing would hold
          last          \* the list applied last, and in which slice

vars == <<cur, own, copy, own_window, copy_window, low, high, status, adds, log, last>>

-----------------------------------------------------------------------------
(* The dict *)

Smaller(a, b) == IF a < b THEN a ELSE b
Larger(a, b)  == IF a < b THEN b ELSE a

\* CounterSeries.keep, as __init__ and set_window_slices choose it.
Keep(window) == 2 * window

Get(counts, s) == IF s \in DOMAIN counts THEN counts[s] ELSE 0

\* Defective variants: only half as many slices are kept; none is forgotten.
RetainedHalf(s, keep) == {key \in Slices : key >= s - keep \div 4}
RetainedAll(s, keep) == Slices

\* The keys an eviction at slice s spares.
Retained(s, keep) == {key \in Slices : key >= s - keep}

Evict(counts, s, keep) ==
  IF Cardinality(DOMAIN counts) > keep
    THEN [key \in DOMAIN counts \cap Retained(s, keep) |-> counts[key]]
    ELSE counts

AddOne(counts, s, keep) ==
  Evict([key \in DOMAIN counts \cup {s} |->
           IF key = s THEN Get(counts, s) + 1 ELSE counts[key]], s, keep)

\* The slices a newest-first list of n counts stands for.
Covered(newest, n) == {key \in Slices : newest - key \in 0..(n - 1)}

\* Defective variant: the list is written oldest first.
ValueAtReversed(values, newest, key) == values[Len(values) - (newest - key)]

\* The entry of a newest-first list for a slice.
ValueAt(values, newest, key) == values[newest - key + 1]

ReplaceWindow(counts, newest, values, keep) ==
  LET written == Covered(newest, Len(values))
  IN  Evict([key \in DOMAIN counts \cup written |->
               IF key \in written THEN ValueAt(values, newest, key) ELSE counts[key]],
            newest, keep)

NewestFirst(counts, s, n) == [i \in 1..n |-> Get(counts, s - i + 1)]

\* STATUS_COUNT holds 16 bits, larger counts are cut.
StatusCounts(list) == [i \in DOMAIN list |-> Smaller(list[i], CountMax)]

-----------------------------------------------------------------------------

Empty == [s \in {} |-> 0]

Init ==
  /\ cur = 0
  /\ own = Empty /\ copy = Empty
  /\ own_window \in Windows /\ copy_window \in Windows
  /\ low = Smaller(own_window, copy_window) /\ high = Larger(own_window, copy_window)
  /\ status = {}
  /\ adds = 0 /\ log = [s \in Slices |-> 0]
  /\ last = [at |-> 0, values |-> <<>>]

Tick ==
  /\ cur < MaxSlice
  /\ cur' = cur + 1
  /\ UNCHANGED <<own, copy, own_window, copy_window, low, high, status, adds, log, last>>

\* Server._handle, Server._note_sent.
Count(s) ==
  /\ adds < MaxAdds
  /\ s \in (cur - Lag)..cur
  /\ own' = AddOne(own, s, Keep(own_window))
  /\ adds' = adds + 1
  /\ log' = [log EXCEPT ![s] = @ + 1]
  /\ UNCHANGED <<cur, copy, own_window, copy_window, low, high, status, last>>

\* set_window_slices on the server and on the client: nothing is evicted yet.
ResizeOwn(n) ==
  /\ own_window' = n
  /\ low' = Smaller(low, n) /\ high' = Larger(high, n)
  /\ UNCHANGED <<cur, own, copy, copy_window, status, adds, log, last>>

ResizeCopy(n) ==
  /\ copy_window' = n
  /\ low' = Smaller(low, n) /\ high' = Larger(high, n)
  /\ UNCHANGED <<cur, own, copy, own_window, status, adds, log, last>>

\* make_snapshot and encode_status_body for a STATUS response ...
Report ==
  /\ Cardinality(status) < MaxStatus
  /\ status' = status \cup {StatusCounts(NewestFirst(own, cur, own_window))}
  /\ UNCHANGED <<cur, own, copy, own_window, copy_window, low, high, adds, log, last>>

\* ... and _apply_status, perhaps slices later and, over UDP, in another order.
Apply(values) ==
  /\ copy' = ReplaceWindow(copy, cur, values, Keep(copy_window))
  /\ status' = status \ {values}
  /\ last' = [at |-> cur, values |-> values]
  /\ UNCHANGED <<cur, own, own_window, copy_window, low, high, adds, log>>

Next ==
  \/ Tick
  \/ \E s \in Slices : Count(s)
  \/ \E n \in Windows : ResizeOwn(n) \/ ResizeCopy(n)
  \/ Report
  \/ \E values \in status : Apply(values)

Spec == Init /\ [][Next]_vars

-----------------------------------------------------------------------------
(* Properties *)

\* No key of a dict lies in the future.
IsCounts(counts) == DOMAIN counts \subseteq 0..cur /\ counts \in [DOMAIN counts -> Nat]

TypeOK ==
  /\ cur \in Slices
  /\ own_window \in Windows /\ copy_window \in Windows
  /\ low \in Windows /\ high \in Windows
  /\ low <= own_window /\ own_window <= high
  /\ low <= copy_window /\ copy_window <= high
  /\ IsCounts(own) /\ IsCounts(copy)
  /\ status \subseteq Seq(Nat)
  /\ adds \in 0..MaxAdds
  /\ log \in [Slices -> Nat]
  /\ last \in [at : 0..cur, values : Seq(Nat)]

\* CounterSeries.add evicts by the slice of the late event, the reader shows
\* the present: every slice that any window since the start can show, whatever
\* the resizes, still has its exact count.
VisibleExact ==
  \A s \in Slices : s >= cur - Keep(low) => Get(own, s) = log[s]

\* Eviction happens only in add and replace_window, when the dict is longer
\* than keep, and spares slices; it still bounds both dicts, by the largest
\* window there has been and the latest an add has come.
SeriesBounded ==
  /\ Cardinality(DOMAIN own) <= Keep(high) + Lag + 1
  /\ Cardinality(DOMAIN copy) <= Keep(high) + 1

\* Client._apply_status: the client's copy shows the counts of one report, the
\* last to arrive, slice by slice from the slice it arrived in, and nothing
\* after it; never a mixture with an earlier one in the slices that it covers.
CopyIsLastReport ==
  \A s \in Slices :
    /\ s > last.at => Get(copy, s) = 0
    /\ s \in Covered(last.at, Len(last.values)) /\ s >= last.at - Keep(low) =>
         Get(copy, s) = last.values[last.at - s + 1]
=============================================================================
