---------------------------- MODULE CleanupTask ----------------------------
(***************************************************************************)
(* One task of the cleanup service, tick after tick: the slice of the      *)
(* pages of its table that a tick visits (nextSlice), and the batches in   *)
(* which it works on the rows of the slice (timedBatcher.Batch).           *)
(*                                                                         *)
(* All rows that are or become ready for cleanup are on one page; the      *)
(* other pages are visited in vain.  An operation counts the rows that it  *)
(* has processed.  Most are ready no more.  But some, the sticky ones, may *)
(* be: CompactLogs counts an invocation as compacted, and finds it again,  *)
(* when its log has no text and so gets no chunk, or when the insert of    *)
(* its chunks failed and no chunk is there.                                *)
(***************************************************************************)
EXTENDS Naturals

CONSTANTS
  MaxPages,      \* bound: pages of the table
  MaxRuns,       \* bound: ticks per hour
  minBatchSize, maxBatchSize,
  Rows,          \* bound: rows that become ready for cleanup
  Sticky,        \* rows that are ready again when they are processed
  MaxFaults,     \* bound: how often a statement fails
  MaxResizes     \* bound: how often the statistics of the table change

ASSUME TaskAssumption ==
  /\ {MaxPages, MaxRuns, minBatchSize} \subseteq Nat \ {0}
  /\ {maxBatchSize, Rows, Sticky, MaxFaults, MaxResizes} \subseteq Nat
  /\ minBatchSize <= maxBatchSize

VARIABLES
  totalPages,   \* relpages of the table, at least 1
  runsPerHour,  \* from the cleanup interval, at least 1
  counter,      \* dc.counter, of which only the remainder by totalPages matters
  page,         \* where the rows are
  since,        \* ticks since the page was visited
  pc,           \* where the task is
  visits,       \* the slice of the tick has the page
  batchLimit,   \* the limit of the next operation
  ready,        \* rows that are ready for cleanup, without the sticky ones
  coming,       \* rows that are not ready yet
  ctxDone,      \* the context is cancelled: the portal shuts down
  faults, resizes  \* used up of MaxFaults and MaxResizes

tableVars == <<totalPages, runsPerHour, page, resizes>>
tickVars == <<counter, since, visits>>
vars == <<tableVars, tickVars, pc, batchLimit, ready, coming, ctxDone, faults>>

Init ==
  /\ totalPages \in 1..MaxPages /\ runsPerHour \in 1..MaxRuns
  /\ counter \in 0..(totalPages - 1) /\ page \in 0..(totalPages - 1)
  /\ since = 0 /\ visits = FALSE
  /\ pc = "sleep" /\ batchLimit = minBatchSize
  /\ ready = 0 /\ coming = Rows
  /\ ctxDone = FALSE
  /\ faults = 0 /\ resizes = 0

Largest(a, b) == IF a > b THEN a ELSE b
Smallest(a, b) == IF a < b THEN a ELSE b

-----------------------------------------------------------------------------
(* A tick, and the slice that it visits.                                   *)

\* The next tick begins.
Tick ==
  /\ pc = "sleep" /\ ~ctxDone
  /\ pc' = "slice"
  /\ counter' = (counter + 1) % totalPages
  /\ UNCHANGED <<tableVars, since, visits, batchLimit, ready, coming, ctxDone, faults>>

\* How many pages are in a slice that does not start over.
Count == Largest(totalPages \div runsPerHour, 1)

\* The first page of a slice that does not start over, and the tick before.
From(c) == (c * Count) % totalPages
Before(c) == (c + totalPages - 1) % totalPages

\* Mutant: a slice that starts over does not begin at the first page.
CalculateNextSliceUnstretched == From(counter)..(From(counter) + Count - 1)

\* The pages of the tick.  A slice that starts over begins at the first page.
CalculateNextSlice ==
  LET from == From(counter) IN
  IF from < From(Before(counter)) THEN 0..(Count + from - 1) ELSE from..(from + Count - 1)

Slice ==
  /\ pc = "slice"
  /\ pc' = "loop"
  /\ batchLimit' = minBatchSize
  /\ visits' = (page \in CalculateNextSlice)
  /\ since' = IF visits' THEN 0 ELSE since + 1
  /\ UNCHANGED <<tableVars, counter, ready, coming, ctxDone, faults>>

-----------------------------------------------------------------------------
(* The batches.                                                            *)

\* The top of the loop: the error of the context is returned, or the next
\* operation begins.
Loop ==
  /\ pc = "loop"
  /\ pc' = IF ctxDone THEN "sleep" ELSE "op"
  /\ UNCHANGED <<tableVars, tickVars, batchLimit, ready, coming, ctxDone, faults>>

\* Fewer rows were processed than the limit.
IsLast(processed) == processed < batchLimit

\* Mutant: the limit becomes smaller, until there is none left.
NextLimitHalved == batchLimit \div 2

\* The limit after a fast operation.
NextLimit == Smallest(2 * batchLimit, maxBatchSize)

\* An operation takes as many rows of the slice as there are and as the limit
\* allows.  The statement has no order: any of the rows may be the sticky ones.
Operation ==
  /\ pc = "op"
  /\ LET processed == IF visits THEN Smallest(batchLimit, ready + Sticky) ELSE 0 IN
       /\ \E cleaned \in 0..Smallest(processed, ready) :
            /\ processed - cleaned <= Sticky
            /\ ready' = ready - cleaned
       /\ pc' = IF IsLast(processed) THEN "sleep" ELSE "loop"
       /\ batchLimit' \in IF IsLast(processed) THEN {batchLimit} ELSE {batchLimit, NextLimit}
  /\ UNCHANGED <<tableVars, tickVars, coming, ctxDone, faults>>

\* A statement fails, because of the database or of a context that is done: the
\* task ends, and the page counts as visited since a slice that is not known may
\* have had it.
Fail ==
  /\ pc \in {"slice", "op"}
  /\ \/ ctxDone /\ UNCHANGED faults
     \/ faults < MaxFaults /\ faults' = faults + 1
  /\ pc' = "sleep"
  /\ since' = 0
  /\ UNCHANGED <<tableVars, counter, visits, batchLimit, ready, coming, ctxDone>>

-----------------------------------------------------------------------------
(* What goes on around the task.                                           *)

RowsBecomeReady ==
  /\ \E n \in 1..coming : coming' = coming - n /\ ready' = ready + n
  /\ UNCHANGED <<tableVars, tickVars, pc, batchLimit, ctxDone, faults>>

\* The statistics of the table are updated.  The counter is what it was, but its
\* remainder may be any.
Resize ==
  /\ resizes < MaxResizes
  /\ resizes' = resizes + 1
  /\ totalPages' \in (page + 1)..MaxPages
  /\ counter' \in 0..(totalPages' - 1)
  /\ since' = 0
  /\ UNCHANGED <<runsPerHour, page, visits, pc, batchLimit, ready, coming, ctxDone, faults>>

Shutdown ==
  /\ ~ctxDone
  /\ ctxDone' = TRUE
  /\ UNCHANGED <<tableVars, tickVars, pc, batchLimit, ready, coming, faults>>

Step == Tick \/ Slice \/ Loop \/ Operation
Next == Step \/ Fail \/ RowsBecomeReady \/ Resize \/ Shutdown

Spec == Init /\ [][Next]_vars

\* The loop of the cleanup service goes on.
FairSpec == Spec /\ WF_vars(Step)

-----------------------------------------------------------------------------
(* Properties.                                                             *)

\* Ticks that it takes to visit the whole table, whichever page comes first: no more
\* than if no slice had to start over.
TicksForAll == (totalPages + Count - 1) \div Count

\* No page waits longer for a visit: consecutive slices leave no gap between
\* them, not even where they start over, as long as the table keeps its size.
EveryPageInTime == since < TicksForAll

\* Rows that are ready for cleanup are cleaned up in the end, however many they
\* are, wherever they are, and although sticky rows take their places.
RowsAreCleaned == ready > 0 ~> ready = 0 \/ ctxDone
=============================================================================
