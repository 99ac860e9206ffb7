------------------------ MODULE LogCompaction_proofs ------------------------
(***************************************************************************)
(* Proofs about LogCompaction, for any number of cleaners, snippets, pages *)
(* and faults: chunks hold the whole log, no text is lost, and the end of  *)
(* an invocation is right.                                                 *)
(***************************************************************************)
EXTENDS LogCompaction, FiniteSetTheorems, TLAPS

-----------------------------------------------------------------------------
(* The chunks of a set of snippets.                                        *)

LEMMA LogIsFinite ==
  ASSUME NEW log \in SUBSET (1..N)
  PROVE  IsFiniteSet(log) /\ Cardinality(log) \in Nat
<1>1. IsFiniteSet(1..N)
  BY CompactionAssumption, FS_Interval
<1> QED
  BY <1>1, FS_Subset, FS_CardinalityType

LEMMA RankBounds ==
  ASSUME NEW log \in SUBSET (1..N), NEW s \in log
  PROVE  Rank(log, s) \in 1..Cardinality(log)
<1> DEFINE below == {t \in log : t <= s}
<1>1. IsFiniteSet(below) /\ Cardinality(below) <= Cardinality(log)
  BY LogIsFinite, FS_Subset
<1>2. below # {}
  BY CompactionAssumption
<1>3. Cardinality(below) \in Nat /\ Cardinality(below) # 0
  BY <1>1, <1>2, FS_EmptySet, FS_CardinalityType
<1> QED
  BY <1>1, <1>3, LogIsFinite DEF Rank

LEMMA RankIsMonotone ==
  ASSUME NEW log \in SUBSET (1..N), NEW s \in log, NEW t \in log, s <= t
  PROVE  Rank(log, s) <= Rank(log, t)
<1>3. \A u \in log : u \in Nat
  BY CompactionAssumption
<1>1. {u \in log : u <= s} \subseteq {u \in log : u <= t}
  <2>1. \A u \in log : u <= s => u <= t
    BY <1>3
  <2> QED
    BY <2>1
<1>2. IsFiniteSet({u \in log : u <= t})
  BY LogIsFinite, FS_Subset
<1> QED
  BY <1>1, <1>2, FS_Subset DEF Rank

LEMMA DivisionIsMonotone ==
  ASSUME NEW n \in Nat \ {0}, NEW a \in Nat, NEW b \in Nat, a <= b
  PROVE  a \div n \in Nat /\ a \div n <= b \div n
  OBVIOUS

LEMMA DivisionOfSum ==
  ASSUME NEW n \in Nat \ {0}, NEW a \in Nat
  PROVE  (a + n) \div n = a \div n + 1
  OBVIOUS

LEMMA ChunkOfBounds ==
  ASSUME NEW log \in SUBSET (1..N), NEW s \in log
  PROVE  ChunkOf(log, s) \in 1..((Cardinality(log) + ChunkSize - 1) \div ChunkSize)
<1> DEFINE rank == Rank(log, s)
           size == Cardinality(log)
<1>1. rank \in Nat /\ 1 <= rank /\ rank <= size /\ size \in Nat
  <2>1. size \in Nat
    BY LogIsFinite
  <2>2. rank \in 1..size
    BY RankBounds
  <2> HIDE DEF rank, size
  <2> QED
    BY <2>1, <2>2
<1>2. ChunkSize \in Nat \ {0}
  BY CompactionAssumption
<1> HIDE DEF rank, size
<1>3. (size + ChunkSize - 1) \div ChunkSize = (size - 1) \div ChunkSize + 1
  <2>1. size - 1 \in Nat /\ (size - 1) + ChunkSize = size + ChunkSize - 1
    BY <1>1, <1>2
  <2> QED
    BY <2>1, <1>2, DivisionOfSum
<1>4. rank - 1 \in Nat /\ size - 1 \in Nat /\ rank - 1 <= size - 1
  BY <1>1
<1>5. (rank - 1) \div ChunkSize \in Nat /\ (size - 1) \div ChunkSize \in Nat
      /\ (rank - 1) \div ChunkSize <= (size - 1) \div ChunkSize
  BY <1>2, <1>4, DivisionIsMonotone
<1>6. ChunkOf(log, s) = (rank - 1) \div ChunkSize + 1
  BY DEF ChunkOf, rank
<1>7. Cardinality(log) = size
  BY DEF size
<1> QED
  BY <1>3, <1>5, <1>6, <1>7

LEMMA ChunkOfIsMonotone ==
  ASSUME NEW log \in SUBSET (1..N), NEW s \in log, NEW t \in log, s <= t
  PROVE  ChunkOf(log, s) <= ChunkOf(log, t)
<1>1. /\ Rank(log, s) - 1 \in Nat /\ Rank(log, t) - 1 \in Nat
      /\ Rank(log, s) - 1 <= Rank(log, t) - 1
  BY RankBounds, LogIsFinite, RankIsMonotone
<1> QED
  BY <1>1, CompactionAssumption, DivisionIsMonotone DEF ChunkOf

\* Chunks are sets of snippets, have all of the log, and are in its order.
LEMMA ChunksOfLog ==
  ASSUME NEW log \in SUBSET (1..N)
  PROVE  LET new == ChunksOf(log) IN
         /\ new \in Seq(SUBSET (1..N))
         /\ UNION {new[i] : i \in DOMAIN new} = log
         /\ \A i, j \in DOMAIN new : i < j => \A s \in new[i], t \in new[j] : s < t
<1> DEFINE count == (Cardinality(log) + ChunkSize - 1) \div ChunkSize
           new == ChunksOf(log)
<1>1. new = [i \in 1..count |-> {s \in log : ChunkOf(log, s) = i}]
  BY DEF ChunksOf
<1>2. count \in Nat
  <2>1. Cardinality(log) + ChunkSize - 1 \in Nat
    BY LogIsFinite, CompactionAssumption
  <2> QED
    BY <2>1, CompactionAssumption, DivisionIsMonotone
<1>3. \A s \in log : ChunkOf(log, s) \in 1..count
  BY ChunkOfBounds
<1>4. \A s, t \in log : ChunkOf(log, s) < ChunkOf(log, t) => s < t
  <2> SUFFICES ASSUME NEW s \in log, NEW t \in log, ~(s < t)
               PROVE  ~(ChunkOf(log, s) < ChunkOf(log, t))
    OBVIOUS
  <2>1. t <= s
    BY CompactionAssumption
  <2> QED
    BY <2>1, <1>2, <1>3, ChunkOfIsMonotone
<1> HIDE DEF count
<1>5. new \in Seq(SUBSET (1..N))
  <2>1. \A i \in 1..count : {s \in log : ChunkOf(log, s) = i} \in SUBSET (1..N)
    OBVIOUS
  <2>2. new \in [1..count -> SUBSET (1..N)]
    BY <1>1, <2>1
  <2> HIDE DEF new
  <2> QED
    BY <1>2, <2>2
<1>6. UNION {new[i] : i \in DOMAIN new} = log
  BY <1>1, <1>3
<1>7. \A i, j \in DOMAIN new : i < j => \A s \in new[i], t \in new[j] : s < t
  <2> SUFFICES ASSUME NEW i \in 1..count, NEW j \in 1..count, i < j,
                      NEW s \in new[i], NEW t \in new[j]
               PROVE  s < t
    BY <1>1
  <2>1. s \in log /\ t \in log /\ ChunkOf(log, s) = i /\ ChunkOf(log, t) = j
    BY <1>1
  <2> QED
    BY <2>1, <1>4
<1> QED
  BY <1>5, <1>6, <1>7

-----------------------------------------------------------------------------
(***************************************************************************)
(* The inductive invariant.  The recorder cannot write to an invocation    *)
(* that is locked (TxIsOpen), so a cleaner that has found it locked reads  *)
(* the whole log, or else chunks are there already or the invocation is    *)
(* gone, and then it cannot insert what it has read (ReadIsDue).           *)
(***************************************************************************)

TxIsOpen == tx # "none" => exists /\ ~completed
TxIsDue == (tx = "log" => received < N) /\ (tx = "finish" => ~finished)
GoneIsLocked == ~exists => completed
MergedIsLocked == chunks # <<>> => completed
SnippetsAreReceived == snippets \subseteq 1..received
FinishedHasEnd == finished => endedAt # Null
EndIsFinal == endedAt # Null => completed \/ finished
ReadIsLocked ==
  \A c \in Cleaners : cpc[c] \in {"read", "insert", "check"} => completed
ReadIsDue ==
  \A c \in Cleaners :
    cpc[c] = "insert" /\ exists /\ chunks = <<>> => logs[c] = Text

RowInv ==
  /\ TxIsOpen
  /\ TxIsDue
  /\ GoneIsLocked
  /\ MergedIsLocked
  /\ ReadIsLocked

EndInv ==
  /\ FinishedHasEnd
  /\ EndIsFinal
  /\ EndedAtIsRight

LogInv ==
  /\ SnippetsAreReceived
  /\ ReadIsDue
  /\ ChunksAreTheWholeLog
  /\ LogIsKept

IInv == TypeOK /\ RowInv /\ EndInv /\ LogInv

-----------------------------------------------------------------------------
(* Type correctness.                                                       *)

\* What a cleaner does to its own variables keeps their types.
LEMMA CleanerTypes ==
  ASSUME TypeOK, NEW c \in Cleaners, Cleaner(c) \/ StatementFails(c) \/ Crash(c)
  PROVE  /\ cpc' \in [Cleaners -> Tasks]
         /\ page' \in [Cleaners -> 0..(Pages - 1)]
         /\ logs' \in [Cleaners -> SUBSET (1..N)]
         /\ failed' \in [Cleaners -> BOOLEAN]
<1> USE DEF TypeOK, Goto, Tasks
<1>1. CASE Tick(c)
  <2>1. (page[c] + 1) % Pages \in 0..(Pages - 1)
    BY CompactionAssumption
  <2> QED
    BY <1>1, <2>1 DEF Tick
<1>2. CASE FindStale(c) \/ LockStale(c) \/ UpdateEndedAt(c) \/ Compact(c)
  BY <1>2 DEF FindStale, LockStale, UpdateEndedAt, Compact
<1>3. CASE ReadLogs(c) \/ InsertChunks(c) \/ CheckNormalized(c)
  BY <1>3 DEF ReadLogs, InsertChunks, CheckNormalized
<1>4. CASE RemoveIncompleteLogs(c) \/ RemoveOldInvocation(c)
  BY <1>4 DEF RemoveIncompleteLogs, RemoveOldInvocation
<1>5. CASE StatementFails(c)
  <2>1. NextTask[cpc[c]] \in Tasks
    BY <1>5 DEF StatementFails, NextTask
  <2> QED
    BY <1>5, <2>1 DEF StatementFails
<1>6. CASE Crash(c)
  BY <1>6 DEF Crash
<1> QED
  BY <1>1, <1>2, <1>3, <1>4, <1>5, <1>6 DEF Cleaner

LEMMA InitTypeOK == Init => TypeOK
<1> SUFFICES ASSUME Init PROVE TypeOK
  OBVIOUS
<1>1. {exists, completed, finished, recent, old} \subseteq BOOLEAN
  BY DEF Init
<1>2. /\ endedAt \in 0..Null /\ received \in 0..N /\ snippets \subseteq 1..N
      /\ tx \in {"none", "log", "finish"} /\ faults \in 0..MaxFaults
  BY CompactionAssumption DEF Init, Null
<1>3. chunks \in Seq(SUBSET (1..N))
  BY DEF Init
<1>4. /\ cpc \in [Cleaners -> Tasks]
      /\ page \in [Cleaners -> 0..(Pages - 1)]
      /\ logs \in [Cleaners -> SUBSET (1..N)]
      /\ failed \in [Cleaners -> BOOLEAN]
  BY DEF Init, Tasks
<1> QED
  BY <1>1, <1>2, <1>3, <1>4 DEF TypeOK

LEMMA NextTypeOK == TypeOK /\ TxIsDue /\ [Next]_vars => TypeOK'
<1> SUFFICES ASSUME TypeOK, TxIsDue, [Next]_vars
             PROVE  TypeOK'
  OBVIOUS
<1> USE CompactionAssumption DEF rowVars, eventVars, logVars, cleanerVars
<1>1. LastEvent \in 0..Null /\ FinishTime \in 0..Null
  BY DEF TypeOK, LastEvent, FinishTime, Null
<1>2. CASE Begin("log") \/ Begin("finish") \/ Rollback \/ Wait
  BY <1>2 DEF TypeOK, Begin, Rollback, Wait
<1>3. CASE Commit
  <2>1. received' \in 0..N /\ snippets' \subseteq 1..N /\ endedAt' \in 0..Null
    <3>1. CASE tx = "log"
      <4>1. received + 1 \in 1..N
        BY <3>1 DEF TypeOK, TxIsDue
      <4>2. /\ received' = received + 1 /\ snippets' = snippets \cup {received + 1}
            /\ endedAt' = endedAt
        BY <1>3, <3>1 DEF Commit
      <4> QED
        BY <4>1, <4>2 DEF TypeOK
    <3>2. CASE tx # "log"
      <4>1. received' = received /\ snippets' = snippets /\ endedAt' = FinishTime
        BY <1>3, <3>2 DEF Commit
      <4> QED
        BY <1>1, <4>1 DEF TypeOK
    <3> QED
      BY <3>1, <3>2
  <2>2. {exists, completed, finished, recent, old}' \subseteq BOOLEAN
    BY <1>3 DEF TypeOK, Commit
  <2>3. tx' = "none" /\ UNCHANGED <<chunks, cleanerVars, faults>>
    BY <1>3 DEF Commit
  <2> QED
    BY <2>1, <2>2, <2>3 DEF TypeOK
<1>4. ASSUME NEW c \in Cleaners, Cleaner(c) \/ StatementFails(c) \/ Crash(c)
      PROVE  TypeOK'
  <2>1. {exists, completed, finished, recent, old}' \subseteq BOOLEAN
    <3>1. UNCHANGED <<finished, recent, old>>
      BY <1>4 DEF Cleaner, Tick, FindStale, LockStale, UpdateEndedAt, Compact,
                  ReadLogs, InsertChunks, CheckNormalized, RemoveIncompleteLogs,
                  RemoveOldInvocation, StatementFails, Crash
    <3>2. completed' \in BOOLEAN
      <4>1. CASE LockStale(c)
        BY <4>1 DEF TypeOK, LockStale
      <4>2. CASE ~LockStale(c)
        BY <1>4, <4>2
        DEF TypeOK, Cleaner, Tick, FindStale, UpdateEndedAt, Compact,
            ReadLogs, InsertChunks, CheckNormalized, RemoveIncompleteLogs,
            RemoveOldInvocation, StatementFails, Crash
      <4> QED
        BY <4>1, <4>2
    <3>3. exists' = FALSE \/ exists' = exists
      BY <1>4 DEF Cleaner, Tick, FindStale, LockStale, UpdateEndedAt, Compact,
                  ReadLogs, InsertChunks, CheckNormalized, RemoveIncompleteLogs,
                  RemoveOldInvocation, StatementFails, Crash
    <3> QED
      BY <3>1, <3>2, <3>3 DEF TypeOK
  <2>5. received' \in 0..N /\ tx' \in {"none", "log", "finish"} /\ faults' \in 0..MaxFaults
    BY <1>4 DEF TypeOK, Cleaner, Tick, FindStale, LockStale, UpdateEndedAt, Compact,
                ReadLogs, InsertChunks, CheckNormalized, RemoveIncompleteLogs,
                RemoveOldInvocation, StatementFails, Crash, Fault
  <2>2. endedAt' \in 0..Null
    BY <1>1, <1>4
    DEF TypeOK, Cleaner, Tick, FindStale, LockStale, UpdateEndedAt, Compact,
        ReadLogs, InsertChunks, CheckNormalized, RemoveIncompleteLogs,
        RemoveOldInvocation, StatementFails, Crash
  <2>3. snippets' \subseteq 1..N
    BY <1>4
    DEF TypeOK, Cleaner, Tick, FindStale, LockStale, UpdateEndedAt, Compact,
        ReadLogs, InsertChunks, CheckNormalized, RemoveIncompleteLogs,
        RemoveOldInvocation, StatementFails, Crash
  <2>4. chunks' \in Seq(SUBSET (1..N))
    <3>1. CASE InsertChunks(c)
      <4>1. ChunksOf(logs[c]) \in Seq(SUBSET (1..N))
        BY ChunksOfLog DEF TypeOK
      <4> QED
        BY <3>1, <4>1 DEF TypeOK, InsertChunks
    <3>2. CASE RemoveOldInvocation(c)
      <4>1. chunks' = <<>> \/ chunks' = chunks
        BY <3>2 DEF RemoveOldInvocation
      <4>2. <<>> \in Seq(SUBSET (1..N)) /\ chunks \in Seq(SUBSET (1..N))
        BY DEF TypeOK
      <4> QED
        BY <4>1, <4>2
    <3>3. CASE ~InsertChunks(c) /\ ~RemoveOldInvocation(c)
      <4>1. chunks' = chunks
        BY <1>4, <3>3
        DEF Cleaner, Tick, FindStale, LockStale, UpdateEndedAt, Compact, ReadLogs,
            CheckNormalized, RemoveIncompleteLogs, StatementFails, Crash
      <4> QED
        BY <4>1 DEF TypeOK
    <3> QED
      BY <3>1, <3>2, <3>3
  <2> QED
    BY <1>4, <2>1, <2>2, <2>3, <2>4, <2>5, CleanerTypes DEF TypeOK
<1>5. CASE UNCHANGED vars
  BY <1>5 DEF TypeOK, vars
<1> QED
  BY <1>2, <1>3, <1>4, <1>5 DEF Next

-----------------------------------------------------------------------------
(* What each step may do.                                                  *)

LEMMA CleanersLeaveTheRecorder ==
  ASSUME NEW c \in Cleaners, Cleaner(c) \/ StatementFails(c) \/ Crash(c)
  PROVE  UNCHANGED <<eventVars, tx>>
  BY DEF eventVars, Cleaner, Tick, FindStale, LockStale, UpdateEndedAt, Compact, ReadLogs,
      InsertChunks, CheckNormalized, RemoveIncompleteLogs, RemoveOldInvocation,
      StatementFails, Crash

LEMMA OneCleanerMoves ==
  ASSUME TypeOK, NEW c \in Cleaners, Cleaner(c) \/ StatementFails(c) \/ Crash(c),
         NEW d \in Cleaners, d # c
  PROVE  cpc'[d] = cpc[d] /\ logs'[d] = logs[d]
  BY DEF TypeOK, Goto, Cleaner, Tick, FindStale, LockStale, UpdateEndedAt, Compact, ReadLogs,
      InsertChunks, CheckNormalized, RemoveIncompleteLogs, RemoveOldInvocation,
      StatementFails, Crash

\* How a cleaner comes to merge a log.
LEMMA TaskReached ==
  ASSUME TypeOK, NEW c \in Cleaners, Cleaner(c) \/ StatementFails(c) \/ Crash(c)
  PROVE  /\ cpc'[c] = "read" => Compact(c) /\ NeedsCompaction
         /\ cpc'[c] = "insert" => ReadLogs(c)
         /\ cpc'[c] = "check" => cpc[c] = "insert"
<1> USE DEF TypeOK, Goto
<1>1. CASE Tick(c) \/ FindStale(c) \/ LockStale(c) \/ UpdateEndedAt(c)
  BY <1>1 DEF Tick, FindStale, LockStale, UpdateEndedAt
<1>2. CASE Compact(c)
  <2>1. cpc'[c] \in {"read", "remove"} /\ (cpc'[c] = "read" => NeedsCompaction)
    BY <1>2 DEF Compact
  <2> QED
    BY <1>2, <2>1
<1>3. CASE ReadLogs(c)
  <2>1. cpc'[c] = "insert"
    BY <1>3 DEF ReadLogs
  <2> QED
    BY <1>3, <2>1
<1>4. CASE InsertChunks(c)
  <2>1. cpc[c] = "insert" /\ cpc'[c] \in {"remove", "check"}
    BY <1>4 DEF InsertChunks
  <2> QED
    BY <2>1
<1>5. CASE CheckNormalized(c) \/ RemoveIncompleteLogs(c) \/ RemoveOldInvocation(c)
  BY <1>5 DEF CheckNormalized, RemoveIncompleteLogs, RemoveOldInvocation
<1>6. CASE StatementFails(c)
  <2>1. cpc'[c] = NextTask[cpc[c]] /\ cpc[c] \in Tasks /\ cpc[c] # "idle"
    BY <1>6 DEF StatementFails
  <2> QED
    BY <2>1 DEF NextTask, Tasks
<1>7. CASE Crash(c)
  <2>1. cpc'[c] = "idle"
    BY <1>7 DEF Crash
  <2> QED
    BY <2>1
<1> QED
  BY <1>1, <1>2, <1>3, <1>4, <1>5, <1>6, <1>7 DEF Cleaner

\* Only LockStale locks the invocation, and nobody unlocks it.
LEMMA CompletedChanges ==
  ASSUME NEW c \in Cleaners, Cleaner(c) \/ StatementFails(c) \/ Crash(c)
  PROVE  \/ UNCHANGED completed
         \/ LockStale(c) /\ UNCHANGED <<exists, endedAt, logVars>>
  BY DEF rowVars, logVars, Cleaner, Tick, FindStale, LockStale, UpdateEndedAt, Compact, ReadLogs,
      InsertChunks, CheckNormalized, RemoveIncompleteLogs, RemoveOldInvocation,
      StatementFails, Crash

LEMMA EndedAtChanges ==
  ASSUME NEW c \in Cleaners, Cleaner(c) \/ StatementFails(c) \/ Crash(c)
  PROVE  \/ UNCHANGED endedAt
         \/ UpdateEndedAt(c)
  BY DEF rowVars, Cleaner, Tick, FindStale, LockStale, UpdateEndedAt, Compact, ReadLogs,
      InsertChunks, CheckNormalized, RemoveIncompleteLogs, RemoveOldInvocation,
      StatementFails, Crash

LEMMA LogChanges ==
  ASSUME NEW c \in Cleaners, Cleaner(c) \/ StatementFails(c) \/ Crash(c)
  PROVE  \/ UNCHANGED <<exists, logVars>>
         \/ InsertChunks(c)
         \/ RemoveIncompleteLogs(c)
         \/ RemoveOldInvocation(c)
  BY DEF rowVars, logVars, Cleaner, Tick, FindStale, LockStale, UpdateEndedAt, Compact, ReadLogs,
      InsertChunks, CheckNormalized, RemoveIncompleteLogs, RemoveOldInvocation,
      StatementFails, Crash

LEMMA NextTxIsDue ==
  ASSUME TxIsDue, [Next]_vars
  PROVE  TxIsDue'
<1>1. CASE Begin("log") \/ Begin("finish") \/ Commit \/ Rollback \/ Wait
  BY <1>1 DEF TxIsDue, Begin, Commit, Rollback, Wait, eventVars
<1>2. ASSUME NEW c \in Cleaners, Cleaner(c) \/ StatementFails(c) \/ Crash(c)
      PROVE  TxIsDue'
  BY <1>2, CleanersLeaveTheRecorder DEF TxIsDue, eventVars
<1>3. CASE UNCHANGED vars
  BY <1>3 DEF TxIsDue, vars, eventVars
<1> QED
  BY <1>1, <1>2, <1>3 DEF Next

\* The types of the variables, whatever the cleaners and the faults.
THEOREM CompactionTypeOK == Spec => []TypeOK
<1>1. Init => TypeOK /\ TxIsDue
  BY InitTypeOK DEF Init, TxIsDue
<1>2. TypeOK /\ TxIsDue /\ [Next]_vars => TypeOK' /\ TxIsDue'
  BY NextTypeOK, NextTxIsDue
<1> QED
  BY <1>1, <1>2, PTL DEF Spec

-----------------------------------------------------------------------------
(* The lock of the invocation.                                             *)

LEMMA NextRowInv ==
  ASSUME TypeOK, RowInv, [Next]_vars
  PROVE  RowInv'
<1> USE DEF RowInv, TxIsOpen, GoneIsLocked, MergedIsLocked, ReadIsLocked
<1>1. TxIsDue'
  BY NextTxIsDue
<1>2. CASE Begin("log") \/ Begin("finish") \/ Commit \/ Rollback \/ Wait
  BY <1>1, <1>2 DEF Begin, Commit, Rollback, Wait, rowVars, logVars, cleanerVars
<1>3. ASSUME NEW c \in Cleaners, Cleaner(c) \/ StatementFails(c) \/ Crash(c)
      PROVE  RowInv'
  <2>1. tx' = tx /\ (completed => completed')
    BY <1>3, CleanersLeaveTheRecorder, CompletedChanges DEF LockStale
  <2>2. TxIsOpen'
    BY <1>3, <2>1, CompletedChanges, LogChanges
    DEF LockStale, InsertChunks, RemoveIncompleteLogs, RemoveOldInvocation, rowVars
  <2>3. GoneIsLocked'
    BY <1>3, <2>1, LogChanges
    DEF InsertChunks, RemoveIncompleteLogs, RemoveOldInvocation, rowVars
  <2>4. MergedIsLocked'
    BY <1>3, <2>1, LogChanges
    DEF InsertChunks, RemoveIncompleteLogs, RemoveOldInvocation, rowVars, logVars
  <2>5. ASSUME NEW d \in Cleaners, cpc'[d] \in {"read", "insert", "check"}
        PROVE  completed'
    <3>1. CASE d # c
      BY <1>3, <2>1, <2>5, <3>1, OneCleanerMoves
    <3>2. CASE d = c
      <4>1. cpc[c] \in {"read", "insert"} \/ completed
        BY <1>3, <2>5, <3>2, TaskReached DEF ReadLogs, NeedsCompaction
      <4> QED
        BY <2>1, <4>1
    <3> QED
      BY <3>1, <3>2
  <2> QED
    BY <1>1, <2>2, <2>3, <2>4, <2>5
<1>4. CASE UNCHANGED vars
  BY <1>1, <1>4 DEF vars, rowVars, logVars, cleanerVars
<1> QED
  BY <1>2, <1>3, <1>4 DEF Next

-----------------------------------------------------------------------------
(* The end of the invocation.                                              *)

LEMMA NextEndInv ==
  ASSUME TypeOK, RowInv, EndInv, [Next]_vars
  PROVE  EndInv'
<1> USE DEF EndInv, FinishedHasEnd, EndIsFinal, EndedAtIsRight
<1>1. FinishTime # Null
  BY CompactionAssumption DEF FinishTime, Null
<1>2. CASE Begin("log") \/ Begin("finish") \/ Rollback \/ Wait
  BY <1>2 DEF Begin, Rollback, Wait, rowVars, eventVars, LastEvent
<1>3. CASE Commit
  <2>1. ~completed /\ completed' = completed
    BY <1>3 DEF Commit, RowInv, TxIsOpen
  <2>2. CASE tx = "log"
    <3>1. finished' = finished /\ endedAt' = endedAt
      BY <1>3, <2>2 DEF Commit
    <3> QED
      BY <2>1, <3>1
  <2>3. CASE tx # "log"
    <3>1. finished' /\ endedAt' = FinishTime
      BY <1>3, <2>3 DEF Commit
    <3> QED
      BY <1>1, <3>1 DEF FinishTime, Null
  <2> QED
    BY <2>2, <2>3
<1>4. ASSUME NEW c \in Cleaners, Cleaner(c) \/ StatementFails(c) \/ Crash(c)
      PROVE  EndInv'
  <2>1. UNCHANGED <<received, finished>> /\ (completed => completed')
    BY <1>4, CleanersLeaveTheRecorder, CompletedChanges DEF LockStale, eventVars
  <2>2. CASE UNCHANGED endedAt
    BY <2>1, <2>2 DEF LastEvent
  <2>3. CASE UpdateEndedAt(c)
    BY <2>1, <2>3 DEF UpdateEndedAt, LastEvent
  <2> QED
    BY <1>4, <2>2, <2>3, EndedAtChanges
<1>5. CASE UNCHANGED vars
  BY <1>5 DEF vars, rowVars, eventVars, LastEvent
<1> QED
  BY <1>2, <1>3, <1>4, <1>5 DEF Next

-----------------------------------------------------------------------------
(* The log.                                                                *)

\* What the recorder does keeps the log: while it writes, the invocation is not
\* locked, so there are no chunks and no cleaner is merging.
LEMMA RecorderKeepsTheLog ==
  ASSUME TypeOK, RowInv, LogInv,
         Begin("log") \/ Begin("finish") \/ Commit \/ Rollback \/ Wait
  PROVE  LogInv'
<1> USE DEF LogInv, SnippetsAreReceived, ReadIsDue, ChunksAreTheWholeLog, LogIsKept
<1>1. UNCHANGED <<exists, completed, chunks, cpc, logs>>
  BY DEF Begin, Commit, Rollback, Wait, rowVars, logVars, cleanerVars
<1>2. CASE UNCHANGED <<received, snippets>>
  BY <1>1, <1>2 DEF Text
<1>3. CASE Commit /\ tx = "log"
  <2>1. received' = received + 1 /\ snippets' = snippets \cup {received + 1}
    BY <1>3 DEF Commit
  <2>2. exists /\ chunks = <<>> /\ \A c \in Cleaners : cpc[c] # "insert"
    BY <1>3 DEF RowInv, TxIsOpen, MergedIsLocked, ReadIsLocked
  <2>3. 1..received' = 1..received \cup {received + 1}
    BY <2>1 DEF TypeOK
  <2>4. Text' \subseteq Text \cup {received + 1}
    BY <2>3 DEF Text
  <2>5. SnippetsAreReceived' /\ LogIsKept'
    BY <1>1, <2>1, <2>2, <2>3, <2>4
  <2> QED
    BY <1>1, <2>2, <2>5
<1> QED
  BY <1>2, <1>3 DEF Begin, Commit, Rollback, Wait, eventVars, logVars

\* A cleaner inserts all of the log.
LEMMA InsertedIsTheLog ==
  ASSUME TypeOK, LogInv, NEW c \in Cleaners, InsertChunks(c), chunks' # chunks
  PROVE  exists /\ chunks = <<>> /\ chunks' = ChunksOf(Text)
  BY DEF LogInv, ReadIsDue, InsertChunks, InsertableChunks

LEMMA CleanersKeepTheLog ==
  ASSUME TypeOK, RowInv, LogInv, NEW c \in Cleaners,
         Cleaner(c) \/ StatementFails(c) \/ Crash(c)
  PROVE  LogInv'
<1>1. UNCHANGED received /\ Text' = Text
  BY CleanersLeaveTheRecorder DEF eventVars, Text
<1>2. /\ exists' => exists
      /\ chunks' = <<>> => chunks = <<>> \/ ~exists'
      /\ snippets' \subseteq snippets
      /\ exists' /\ chunks' = <<>> => snippets' = snippets
  <2>1. CASE UNCHANGED <<exists, logVars>>
    BY <2>1 DEF logVars
  <2>2. CASE InsertChunks(c)
    <3>1. UNCHANGED <<exists, snippets>> /\ (chunks' = <<>> => chunks = <<>>)
      BY <2>2 DEF InsertChunks, rowVars
    <3> QED
      BY <3>1
  <2>3. CASE RemoveIncompleteLogs(c)
    BY <2>3 DEF RemoveIncompleteLogs, rowVars
  <2>4. CASE RemoveOldInvocation(c)
    BY <2>4 DEF RemoveOldInvocation
  <2> QED
    BY <2>1, <2>2, <2>3, <2>4, LogChanges
<1>3. SnippetsAreReceived'
  BY <1>1, <1>2 DEF LogInv, SnippetsAreReceived
<1>4. LogIsKept'
  BY <1>1, <1>2 DEF LogInv, LogIsKept
<1>5. ChunksAreTheWholeLog'
  <2>1. CASE chunks' = chunks
    BY <1>1, <2>1 DEF LogInv, ChunksAreTheWholeLog
  <2>2. CASE chunks' = <<>>
    BY <2>2 DEF ChunksAreTheWholeLog
  <2>3. CASE InsertChunks(c) /\ chunks' # chunks
    <3>1. chunks' = ChunksOf(Text)
      BY <2>3, InsertedIsTheLog
    <3>2. Text \in SUBSET (1..N)
      BY CompactionAssumption DEF TypeOK, Text
    <3> QED
      BY <1>1, <3>1, <3>2, ChunksOfLog DEF ChunksAreTheWholeLog
  <2> QED
    BY <2>1, <2>2, <2>3, LogChanges DEF logVars, RemoveIncompleteLogs, RemoveOldInvocation
<1>6. ASSUME NEW d \in Cleaners, cpc'[d] = "insert", exists', chunks' = <<>>
      PROVE  logs'[d] = Text
  <2>1. exists /\ chunks = <<>>
    BY <1>2, <1>6
  <2>2. CASE d # c
    BY <1>6, <2>1, <2>2, OneCleanerMoves DEF LogInv, ReadIsDue
  <2>3. CASE d = c
    <3>1. ReadLogs(c)
      BY <1>6, <2>3, TaskReached
    <3>2. logs'[c] = snippets \ Blank
      BY <3>1 DEF TypeOK, ReadLogs
    <3>3. snippets \ Blank = Text
      BY <2>1 DEF LogInv, SnippetsAreReceived, LogIsKept, Text
    <3> QED
      BY <2>3, <3>2, <3>3
  <2> QED
    BY <2>2, <2>3
<1>7. ReadIsDue'
  BY <1>1, <1>6 DEF ReadIsDue
<1> QED
  BY <1>3, <1>4, <1>5, <1>7 DEF LogInv

LEMMA NextLogInv ==
  ASSUME TypeOK, RowInv, LogInv, [Next]_vars
  PROVE  LogInv'
<1>1. CASE UNCHANGED vars
  BY <1>1 DEF LogInv, SnippetsAreReceived, ReadIsDue, ChunksAreTheWholeLog, LogIsKept,
              Text, vars, rowVars, eventVars, logVars, cleanerVars
<1> QED
  BY <1>1, RecorderKeepsTheLog, CleanersKeepTheLog DEF Next

-----------------------------------------------------------------------------

LEMMA InitIInv == Init => IInv
<1> SUFFICES ASSUME Init PROVE IInv
  OBVIOUS
<1>1. TypeOK
  BY InitTypeOK
<1>2. RowInv
  BY DEF Init, RowInv, TxIsOpen, TxIsDue, GoneIsLocked, MergedIsLocked, ReadIsLocked
<1>3. EndInv
  BY DEF Init, EndInv, FinishedHasEnd, EndIsFinal, EndedAtIsRight
<1>4. LogInv
  BY DEF Init, LogInv, SnippetsAreReceived, ReadIsDue, ChunksAreTheWholeLog, LogIsKept,
         Text
<1> QED
  BY <1>1, <1>2, <1>3, <1>4 DEF IInv

LEMMA IInvHolds == Spec => []IInv
<1>1. IInv /\ [Next]_vars => IInv'
  BY NextTypeOK, NextRowInv, NextEndInv, NextLogInv DEF IInv, RowInv
<1> QED
  BY InitIInv, <1>1, PTL DEF Spec

\* Chunks hold the whole log in its order, however many cleaners merge, delete and
\* fail at the same time (normalizeInvocation, RemoveIncompleteLogs).
THEOREM CompactionIsComplete == Spec => []ChunksAreTheWholeLog
<1>1. IInv => ChunksAreTheWholeLog
  BY DEF IInv, LogInv
<1> QED
  BY <1>1, IInvHolds, PTL

\* No text is deleted from the snippets before all of it is in the chunks.
THEOREM CompactionLosesNothing == Spec => []LogIsKept
<1>1. IInv => LogIsKept
  BY DEF IInv, LogInv
<1> QED
  BY <1>1, IInvHolds, PTL

\* The time at which an invocation ended is that of its BuildFinished event or, if
\* there is none and never will be, of its last event.
THEOREM EndedAtIsRightAlways == Spec => []EndedAtIsRight
<1>1. IInv => EndedAtIsRight
  BY DEF IInv, EndInv
<1> QED
  BY <1>1, IInvHolds, PTL
=============================================================================
