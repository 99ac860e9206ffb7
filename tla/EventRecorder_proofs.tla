------------------------ MODULE EventRecorder_proofs ------------------------
(***************************************************************************)
(* Proofs about EventRecorder, for every number of recorders and events:   *)
(* an inductive invariant, the safety properties that follow from it, and  *)
(* that EventRecorder implements EventLog.                                 *)
(***************************************************************************)
EXTENDS EventRecorder, TLAPS

(***************************************************************************)
(* The inductive invariant.  A recorder may only write back its bitmap     *)
(* because a bitmap whose version is current is the one in the database    *)
(* (MemIsCurrent, MemIsNext), and only acknowledges a batch because each   *)
(* of its events is either still to come in a later sub-batch or handled   *)
(* (RangeIsCovered, PassedIsSaved).                                        *)
(***************************************************************************)

\* The invocation is not locked while a transaction has its shared lock.
TxIsOpen(r) == pc[r] \in InTx => ~bepCompleted

\* Between transactions the bitmap in memory is an old or the current one.
MemIsCurrent(r) ==
  pc[r] \in {"begin", "write"} =>
    /\ bitmap[r] \subseteq handled
    /\ seen[r] <= version
    /\ seen[r] = version => bitmap[r] = handled

\* Before a commit it is the current one with the sub-batch added.
MemIsNext(r) ==
  pc[r] = "commit" =>
    /\ seen[r] = version + 1
    /\ bitmap[r] = handled \cup Todo(r, group[r])
    /\ Todo(r, group[r]) \cap handled = {}

\* At most one transaction has updated the row of event_metadata.
OneCommits == \A r, q \in Recorders : pc[r] = "commit" /\ pc[q] = "commit" => r = q

\* The bitmap in memory has none of the events of later sub-batches.
LaterIsNew(r) ==
  /\ pc[r] \in {"begin", "write"} =>
       \A s \in batch[r] : s \in bitmap[r] => SubBatchOf(s) < group[r]
  /\ pc[r] = "commit" =>
       \A s \in batch[r] : s \in bitmap[r] => SubBatchOf(s) <= group[r]

\* What the client sent for the batch is in it, handled, or never recorded.
RangeIsCovered(r) ==
  pc[r] \in Working =>
    /\ batch[r] \subseteq next[r]..upto[r]
    /\ next[r]..upto[r] \subseteq batch[r] \cup handled \cup Droppable

\* The sub-batches before the current one are handled.
PassedIsSaved(r) ==
  pc[r] \in {"begin", "write", "commit"} =>
    \A s \in batch[r] :
      SubBatchOf(s) < group[r] => s \in handled \cup Droppable

\* What is about to be acknowledged is recorded.
AckIsDue(r) == pc[r] = "ack" => next[r]..upto[r] \subseteq handled \cup Droppable

\* What comes before the stream of a recorder is recorded.
StartIsRecorded(r) ==
  pc[r] # "off" => 1..(next[r]-1) \subseteq handled \cup Droppable

RecorderInv(r) ==
  /\ TxIsOpen(r)
  /\ MemIsCurrent(r)
  /\ MemIsNext(r)
  /\ LaterIsNew(r)
  /\ RangeIsCovered(r)
  /\ PassedIsSaved(r)
  /\ AckIsDue(r)
  /\ StartIsRecorded(r)

IInv ==
  /\ TypeOK
  /\ ExactlyOnce
  /\ AckedIsRecorded
  /\ JoinsAreComplete
  /\ OneCommits
  /\ \A r \in Recorders : RecorderInv(r)

-----------------------------------------------------------------------------
(* Facts about the constants.                                              *)

LEMMA ConstantTypes == N \in Nat /\ MaxConnects \in Nat /\ MaxFaults \in Nat
  BY RecorderAssumption

LEMMA SubBatchType ==
  /\ \A s \in Seqs : SubBatchOf(s) \in 0..Remaining
  /\ Remaining = 7
  BY RecorderAssumption DEF SubBatchOf, SubBatchOfKind, Kinds, Remaining

\* A row is joined only from rows of an earlier event and an earlier sub-batch.
LEMMA JoinsAreEarlier ==
  ASSUME NEW s \in Seqs, NEW j \in JoinsOn[s], SubBatchOf(s) # 0
  PROVE  j \in Seqs /\ j < s /\ SubBatchOf(j) < SubBatchOf(s) /\ j \notin Droppable
  BY RecorderAssumption
     DEF SubBatchOf, SubBatchOfKind, Kinds, Remaining, Droppable, Seqs

-----------------------------------------------------------------------------
(* Type correctness.                                                       *)

LEMMA InitTypeOK == Init => TypeOK
  <1>1. Init => FlagsOK
    BY DEF Init, FlagsOK
  <1>2. Init => DataOK
    BY ConstantTypes DEF Init, DataOK, Seqs, PCs, Working, Remaining
  <1>3. QED
    BY <1>1, <1>2 DEF TypeOK

LEMMA NextFlagsOK == FlagsOK /\ [Next]_vars => FlagsOK'
  <1> USE DEF FlagsOK, dbVars, metaVars, envVars, memVars
  <1>1. ASSUME NEW r \in Recorders, FlagsOK,
               \/ Connect(r) \/ SaveBatch(r) \/ Load(r) \/ LockCompletion(r)
               \/ Write(r) \/ WriteFails(r) \/ DeadlockAbort(r) \/ Commit(r)
        PROVE  FlagsOK'
    BY <1>1 DEF Connect, SaveBatch, Load, LoadRow, LockCompletion, Write, WriteFails,
                DeadlockAbort, Commit, Publish
  <1>2. ASSUME NEW r \in Recorders, FlagsOK,
               \/ CheckProgress(r) \/ Elapse(r) \/ Retry(r) \/ GiveUp(r) \/ Ack(r)
               \/ TransientFault(r) \/ CommitAnswerLost(r) \/ Disconnect(r)
        PROVE  FlagsOK'
    BY <1>2 DEF CheckProgress, LoadRow, Elapse, Retry, GiveUp, Ack, TransientFault,
                CommitAnswerLost, Publish, Disconnect
  <1>3. FlagsOK /\ LockInvocation => FlagsOK'
    BY DEF LockInvocation, recVars
  <1>4. FlagsOK /\ UNCHANGED vars => FlagsOK'
    BY DEF vars, recVars
  <1>5. QED
    BY <1>1, <1>2, <1>3, <1>4 DEF Next, Step

LEMMA NextDataOK == DataOK /\ [Next]_vars => DataOK'
  <1> SUFFICES ASSUME DataOK, [Next]_vars PROVE DataOK'
    OBVIOUS
  <1> USE ConstantTypes DEF DataOK, Seqs, PCs, Working, Goto,
          dbVars, metaVars, envVars, memVars
  <1>1. ASSUME NEW r \in Recorders, Connect(r) PROVE DataOK'
    <2>1. PICK s \in {1, acked + 1} \cap Seqs : next' = [next EXCEPT ![r] = s]
      BY <1>1 DEF Connect
    <2>2. s \in 1..(N+1)
      BY <2>1
    <2>3. QED
      BY <1>1, <2>1, <2>2 DEF Connect
  <1>2. ASSUME NEW r \in Recorders, SaveBatch(r) PROVE DataOK'
    <2>1. PICK m \in next[r]..N :
            /\ upto' = [upto EXCEPT ![r] = m]
            /\ batch' = [batch EXCEPT ![r] = {s \in next[r]..m : Kind[s] # "none"}]
      BY <1>2 DEF SaveBatch
    <2>2. next[r] \in 1..(N+1) /\ m \in 0..N /\ next[r]..m \subseteq 1..N
      BY <2>1
    <2>3. upto' \in [Recorders -> 0..N] /\ batch' \in [Recorders -> SUBSET (1..N)]
      BY <2>1, <2>2
    <2>4. QED
      BY <1>2, <2>3 DEF SaveBatch
  <1>3. ASSUME NEW r \in Recorders, Load(r) PROVE DataOK'
    <2>1. /\ bitmap' \in [Recorders -> SUBSET (1..N)]
          /\ seen' \in [Recorders -> Nat]
          /\ batch' \in [Recorders -> SUBSET (1..N)]
      BY <1>3 DEF Load, LoadRow
    <2>2. group' \in [Recorders -> 1..Remaining]
      BY <1>3 DEF Load, Remaining
    <2>3. pc' \in [Recorders -> PCs]
      BY <1>3 DEF Load
    <2>4. UNCHANGED <<handled, version, rows, next, upto, acked, conns, faults>>
      BY <1>3 DEF Load, LoadRow
    <2>5. QED
      BY <2>1, <2>2, <2>3, <2>4
  <1>4. ASSUME NEW r \in Recorders, LockCompletion(r) PROVE DataOK'
    BY <1>4 DEF LockCompletion
  <1>5. ASSUME NEW r \in Recorders, Write(r) PROVE DataOK'
    <2>1. bitmap' \in [Recorders -> SUBSET (1..N)] /\ seen' \in [Recorders -> Nat]
      BY <1>5 DEF Write, Todo
    <2>2. QED
      BY <1>5, <2>1 DEF Write
  <1>6. ASSUME NEW r \in Recorders, WriteFails(r) PROVE DataOK'
    BY <1>6 DEF WriteFails, Todo
  <1>7. ASSUME NEW r \in Recorders, DeadlockAbort(r) PROVE DataOK'
    BY <1>7 DEF DeadlockAbort
  <1>8. ASSUME NEW r \in Recorders, Commit(r) PROVE DataOK'
    <2>1. /\ handled' \in SUBSET (1..N)
          /\ version' \in Nat
          /\ rows' \in [1..N -> Nat]
      BY <1>8 DEF Commit, Publish
    <2>2. group' \in [Recorders -> 1..Remaining]
      <3>1. group[r] \in 1..Remaining /\ Remaining = 7
        BY DEF Remaining
      <3>2. CASE group[r] = Remaining
        BY <1>8, <3>2 DEF Commit
      <3>3. CASE group[r] # Remaining
        <4>1. group[r] + 1 \in 1..Remaining
          BY <3>1, <3>3
        <4>2. QED
          BY <1>8, <3>3, <4>1 DEF Commit
      <3>4. QED
        BY <3>2, <3>3
    <2>3. pc' \in [Recorders -> PCs]
      BY <1>8 DEF Commit
    <2>4. UNCHANGED <<batch, next, upto, bitmap, seen, acked, conns, faults>>
      BY <1>8 DEF Commit
    <2>5. QED
      BY <2>1, <2>2, <2>3, <2>4
  <1>9. ASSUME NEW r \in Recorders, CheckProgress(r) PROVE DataOK'
    <2>1. bitmap' \in [Recorders -> SUBSET (1..N)] /\ seen' \in [Recorders -> Nat]
      <3>1. /\ bitmap' = [bitmap EXCEPT ![r] = handled]
            /\ seen' = [seen EXCEPT ![r] = version]
        BY <1>9 DEF CheckProgress, LoadRow
      <3>2. QED
        BY <3>1
    <2>2. batch' \in [Recorders -> SUBSET (1..N)]
      <3>1. CASE batch[r] \cap handled # {}
        <4>1. batch' = [batch EXCEPT ![r] = batch[r] \ handled]
          BY <1>9, <3>1 DEF CheckProgress
        <4>2. batch[r] \ handled \in SUBSET (1..N)
          OBVIOUS
        <4>3. QED
          BY <4>1, <4>2
      <3>2. CASE batch[r] \cap handled = {}
        <4>1. batch' = batch
          BY <1>9, <3>2 DEF CheckProgress
        <4>2. QED
          BY <4>1
      <3>3. QED
        BY <3>1, <3>2
    <2>3. pc' \in [Recorders -> PCs]
      BY <1>9 DEF CheckProgress
    <2>4. UNCHANGED <<handled, version, rows, next, upto, group, acked, conns, faults>>
      BY <1>9 DEF CheckProgress, LoadRow
    <2>5. QED
      BY <2>1, <2>2, <2>3, <2>4
  <1>10. ASSUME NEW r \in Recorders, Elapse(r) PROVE DataOK'
    BY <1>10 DEF Elapse
  <1>11. ASSUME NEW r \in Recorders, Retry(r) PROVE DataOK'
    BY <1>11 DEF Retry
  <1>12. ASSUME NEW r \in Recorders, GiveUp(r) PROVE DataOK'
    BY <1>12 DEF GiveUp
  <1>13. ASSUME NEW r \in Recorders, Ack(r) PROVE DataOK'
    <2>1. next' \in [Recorders -> 1..(N+1)] /\ acked' \in 0..N
      BY <1>13 DEF Ack
    <2>2. /\ batch' \in [Recorders -> SUBSET (1..N)]
          /\ group' \in [Recorders -> 1..Remaining]
          /\ pc' \in [Recorders -> PCs]
      BY <1>13 DEF Ack, Remaining
    <2>3. UNCHANGED <<handled, version, rows, upto, bitmap, seen, conns, faults>>
      BY <1>13 DEF Ack
    <2>4. QED
      BY <2>1, <2>2, <2>3
  <1>14. ASSUME NEW r \in Recorders, TransientFault(r) PROVE DataOK'
    <2>1. bitmap' \in [Recorders -> SUBSET (1..N)] /\ pc' \in [Recorders -> PCs]
      BY <1>14 DEF TransientFault
    <2>2. faults' \in 0..MaxFaults
      BY <1>14 DEF TransientFault, Fault
    <2>3. QED
      BY <1>14, <2>1, <2>2 DEF TransientFault
  <1>15. ASSUME NEW r \in Recorders, CommitAnswerLost(r) PROVE DataOK'
    <2>1. /\ handled' \in SUBSET (1..N)
          /\ version' \in Nat
          /\ rows' \in [1..N -> Nat]
      BY <1>15 DEF CommitAnswerLost, Publish
    <2>2. faults' \in 0..MaxFaults
      BY <1>15 DEF CommitAnswerLost, Fault
    <2>3. QED
      BY <1>15, <2>1, <2>2 DEF CommitAnswerLost
  <1>16. ASSUME NEW r \in Recorders, Disconnect(r) PROVE DataOK'
    BY <1>16 DEF Disconnect, Remaining
  <1>17. CASE LockInvocation
    BY <1>17 DEF LockInvocation, recVars
  <1>18. CASE UNCHANGED vars
    BY <1>18 DEF vars, recVars
  <1>19. QED
    BY <1>1, <1>2, <1>3, <1>4, <1>5, <1>6, <1>7, <1>8, <1>9, <1>10, <1>11, <1>12,
       <1>13, <1>14, <1>15, <1>16, <1>17, <1>18 DEF Next, Step

\* Every variable keeps its type.
THEOREM TypeCorrect == Spec => []TypeOK
  <1>1. TypeOK /\ [Next]_vars => TypeOK'
    BY NextFlagsOK, NextDataOK DEF TypeOK
  <1>2. QED
    BY InitTypeOK, <1>1, PTL DEF Spec

-----------------------------------------------------------------------------
(* What a step of one recorder does to the others' part of the invariant.  *)

\* The variables of recorder q do not change.
Still(q) ==
  /\ pc'[q] = pc[q] /\ batch'[q] = batch[q] /\ group'[q] = group[q]
  /\ next'[q] = next[q] /\ upto'[q] = upto[q]
  /\ bitmap'[q] = bitmap[q] /\ seen'[q] = seen[q]

\* Nor does what is recorded.
NothingRecorded == UNCHANGED <<bepCompleted, handled, version, rows>>

LEMMA OthersStayStill ==
  ASSUME DataOK, NEW r \in Recorders, NEW q \in Recorders, q # r,
         \/ Connect(r) \/ SaveBatch(r) \/ Load(r) \/ LockCompletion(r) \/ Write(r)
         \/ WriteFails(r) \/ DeadlockAbort(r) \/ Commit(r) \/ CheckProgress(r)
         \/ Elapse(r) \/ Retry(r) \/ GiveUp(r) \/ Ack(r) \/ TransientFault(r)
         \/ CommitAnswerLost(r) \/ Disconnect(r)
  PROVE  Still(q)
  <1> USE DEF DataOK, Still, Goto, memVars
  <1>1. CASE Connect(r)
    BY <1>1 DEF Connect
  <1>2. CASE SaveBatch(r)
    BY <1>2 DEF SaveBatch
  <1>3. CASE Load(r)
    BY <1>3 DEF Load, LoadRow
  <1>4. CASE LockCompletion(r)
    BY <1>4 DEF LockCompletion
  <1>5. CASE Write(r)
    BY <1>5 DEF Write
  <1>6. CASE WriteFails(r)
    BY <1>6 DEF WriteFails
  <1>7. CASE DeadlockAbort(r)
    BY <1>7 DEF DeadlockAbort
  <1>8. CASE Commit(r)
    BY <1>8 DEF Commit
  <1>9. CASE CheckProgress(r)
    BY <1>9 DEF CheckProgress, LoadRow
  <1>10. CASE Elapse(r)
    BY <1>10 DEF Elapse
  <1>11. CASE Retry(r)
    BY <1>11 DEF Retry
  <1>12. CASE GiveUp(r)
    BY <1>12 DEF GiveUp
  <1>13. CASE Ack(r)
    BY <1>13 DEF Ack
  <1>14. CASE TransientFault(r)
    BY <1>14 DEF TransientFault
  <1>15. CASE CommitAnswerLost(r)
    BY <1>15 DEF CommitAnswerLost
  <1>16. CASE Disconnect(r)
    BY <1>16 DEF Disconnect
  <1>17. QED
    BY <1>1, <1>2, <1>3, <1>4, <1>5, <1>6, <1>7, <1>8, <1>9, <1>10, <1>11, <1>12,
       <1>13, <1>14, <1>15, <1>16

LEMMA StillKeepsInv ==
  ASSUME NEW q \in Recorders, Still(q), NothingRecorded, RecorderInv(q)
  PROVE  RecorderInv(q)'
  BY DEF Still, NothingRecorded, RecorderInv, TxIsOpen, MemIsCurrent, MemIsNext,
         LaterIsNew, RangeIsCovered, PassedIsSaved, AckIsDue, StartIsRecorded, Todo

\* Another transaction commits: the bitmap of q, when it has one, is old now.
LEMMA GrowthKeepsInv ==
  ASSUME NEW q \in Recorders, Still(q), RecorderInv(q), DataOK, pc[q] # "commit",
         handled \subseteq handled', version' = version + 1,
         bepCompleted' = bepCompleted
  PROVE  RecorderInv(q)'
  <1> USE DEF Still, RecorderInv
  <1>1. TxIsOpen(q)' /\ MemIsNext(q)'
    BY DEF TxIsOpen, MemIsNext
  <1>2. MemIsCurrent(q)'
    <2>1. version \in Nat /\ seen[q] \in Nat
      BY DEF DataOK
    <2>2. QED
      BY <2>1 DEF MemIsCurrent
  <1>3. LaterIsNew(q)'
    BY DEF LaterIsNew
  <1>4. RangeIsCovered(q)' /\ PassedIsSaved(q)'
    BY DEF RangeIsCovered, PassedIsSaved
  <1>5. AckIsDue(q)' /\ StartIsRecorded(q)'
    BY DEF AckIsDue, StartIsRecorded
  <1>6. QED
    BY <1>1, <1>2, <1>3, <1>4, <1>5

-----------------------------------------------------------------------------
(* What a step of recorder r does to its own part of the invariant.        *)

\* Outside of a transaction and before the ACK, what a step has to keep is
\* where the stream started.
LEMMA RestingInv ==
  ASSUME NEW r \in Recorders, DataOK, pc'[r] \in {"off", "idle", "failed"},
         pc'[r] # "off" => 1..(next'[r]-1) \subseteq handled' \cup Droppable
  PROVE  RecorderInv(r)'
  BY DEF RecorderInv, TxIsOpen, MemIsCurrent, MemIsNext, LaterIsNew, RangeIsCovered,
         PassedIsSaved, AckIsDue, StartIsRecorded, Working, InTx

LEMMA ConnectInv ==
  ASSUME DataOK, AckedIsRecorded, NEW r \in Recorders, Connect(r)
  PROVE  RecorderInv(r)'
  <1>1. PICK s \in {1, acked + 1} \cap Seqs : next' = [next EXCEPT ![r] = s]
    BY DEF Connect
  <1>2. next'[r] = s /\ pc'[r] = "idle" /\ handled' = handled
    BY <1>1 DEF Connect, Goto, DataOK, dbVars, metaVars
  <1>3. acked \in Nat
    BY ConstantTypes DEF DataOK
  <1>4. 1..(s-1) \subseteq 1..acked
    BY <1>1, <1>3
  <1>5. QED
    BY <1>2, <1>4, RestingInv DEF AckedIsRecorded

LEMMA RestInv ==
  ASSUME DataOK, NEW r \in Recorders, RecorderInv(r), GiveUp(r) \/ Disconnect(r)
  PROVE  RecorderInv(r)'
  <1>1. CASE GiveUp(r)
    <2>1. /\ pc'[r] = "failed" /\ pc[r] = "wait"
          /\ next'[r] = next[r] /\ handled' = handled
      BY <1>1 DEF GiveUp, Goto, DataOK, dbVars, metaVars
    <2>2. QED
      BY <2>1, RestingInv DEF RecorderInv, StartIsRecorded
  <1>2. CASE Disconnect(r)
    <2>1. pc'[r] = "off"
      BY <1>2 DEF Disconnect, Goto, DataOK
    <2>2. QED
      BY <2>1, RestingInv
  <1>3. QED
    BY <1>1, <1>2

\* The steps of SaveBatch that are neither in a transaction nor about to start
\* one have to keep the batch covered.
LEMMA LoopInv ==
  ASSUME NEW r \in Recorders, pc'[r] \in {"load", "check", "wait"},
         RangeIsCovered(r)', StartIsRecorded(r)'
  PROVE  RecorderInv(r)'
  BY DEF RecorderInv, TxIsOpen, MemIsCurrent, MemIsNext, LaterIsNew,
         PassedIsSaved, AckIsDue, InTx

LEMMA SaveBatchInv ==
  ASSUME DataOK, NEW r \in Recorders, RecorderInv(r), SaveBatch(r)
  PROVE  RecorderInv(r)'
  <1>1. PICK m \in next[r]..N :
          /\ upto' = [upto EXCEPT ![r] = m]
          /\ batch' = [batch EXCEPT ![r] = {s \in next[r]..m : Kind[s] # "none"}]
    BY DEF SaveBatch
  <1>2. /\ upto'[r] = m
        /\ batch'[r] = {s \in next[r]..m : Kind[s] # "none"}
        /\ next'[r] = next[r]
        /\ handled' = handled
        /\ pc[r] = "idle"
        /\ pc'[r] = "load"
    BY <1>1 DEF SaveBatch, Goto, DataOK, dbVars, metaVars
  <1>3. next[r]..m \subseteq Seqs
    BY <1>1, ConstantTypes DEF DataOK, Seqs
  <1>4. \A s \in next[r]..m : Kind[s] = "none" => s \in Droppable
    BY <1>3 DEF Droppable, SubBatchOf, SubBatchOfKind
  <1>5. RangeIsCovered(r)'
    BY <1>2, <1>4 DEF RangeIsCovered
  <1>6. StartIsRecorded(r)'
    BY <1>2 DEF RecorderInv, StartIsRecorded
  <1>7. QED
    BY <1>2, <1>5, <1>6, LoopInv

\* The steps that leave SaveBatch in its loop, with the batch as it is or
\* without what is handled.
LEMMA BackInv ==
  ASSUME DataOK, NEW r \in Recorders, RecorderInv(r), pc[r] \in Working,
         pc'[r] \in {"load", "check", "wait"},
         next'[r] = next[r], upto'[r] = upto[r], handled \subseteq handled',
         batch'[r] = batch[r] \/ batch'[r] = batch[r] \ handled
  PROVE  RecorderInv(r)'
  <1>1. RangeIsCovered(r)'
    BY DEF RecorderInv, RangeIsCovered, Working
  <1>2. StartIsRecorded(r)'
    BY DEF RecorderInv, StartIsRecorded, Working
  <1>3. QED
    BY <1>1, <1>2, LoopInv

LEMMA StayInLoopInv ==
  ASSUME DataOK, NEW r \in Recorders, RecorderInv(r),
         \/ WriteFails(r) \/ DeadlockAbort(r) \/ CheckProgress(r) \/ Elapse(r)
         \/ Retry(r) \/ TransientFault(r)
  PROVE  RecorderInv(r)'
  <1> USE DEF DataOK, Goto, dbVars, metaVars, memVars, Working
  <1>1. CASE WriteFails(r)
    <2>1. /\ pc[r] = "write" /\ pc'[r] = "check"
          /\ next'[r] = next[r] /\ upto'[r] = upto[r] /\ batch'[r] = batch[r]
          /\ handled' = handled
      BY <1>1 DEF WriteFails
    <2>2. QED
      BY <2>1, BackInv
  <1>2. CASE DeadlockAbort(r)
    <2>1. /\ pc[r] = "write" /\ pc'[r] = "check"
          /\ next'[r] = next[r] /\ upto'[r] = upto[r] /\ batch'[r] = batch[r]
          /\ handled' = handled
      BY <1>2 DEF DeadlockAbort, WaitsForInvocation
    <2>2. QED
      BY <2>1, BackInv
  <1>3. CASE CheckProgress(r)
    <2>1. /\ pc[r] = "check" /\ pc'[r] \in {"load", "wait"}
          /\ next'[r] = next[r] /\ upto'[r] = upto[r] /\ handled' = handled
      BY <1>3 DEF CheckProgress, LoadRow
    <2>2. batch'[r] = batch[r] \/ batch'[r] = batch[r] \ handled
      BY <1>3 DEF CheckProgress
    <2>3. QED
      BY <2>1, <2>2, BackInv
  <1>4. CASE Elapse(r)
    <2>1. /\ pc[r] = "wait" /\ pc'[r] = "wait"
          /\ next'[r] = next[r] /\ upto'[r] = upto[r] /\ batch'[r] = batch[r]
          /\ handled' = handled
      BY <1>4 DEF Elapse
    <2>2. QED
      BY <2>1, BackInv
  <1>5. CASE Retry(r)
    <2>1. /\ pc[r] = "wait" /\ pc'[r] = "load"
          /\ next'[r] = next[r] /\ upto'[r] = upto[r] /\ batch'[r] = batch[r]
          /\ handled' = handled
      BY <1>5 DEF Retry
    <2>2. QED
      BY <2>1, BackInv
  <1>6. CASE TransientFault(r)
    <2>1. pc[r] \in Working /\ pc'[r] \in {"check", "wait"}
      BY <1>6 DEF TransientFault
    <2>2. /\ next'[r] = next[r] /\ upto'[r] = upto[r] /\ batch'[r] = batch[r]
          /\ handled' = handled
      BY <1>6 DEF TransientFault
    <2>3. QED
      BY <2>1, <2>2, BackInv
  <1>7. QED
    BY <1>1, <1>2, <1>3, <1>4, <1>5, <1>6

\* The bitmap that is loaded is the current one, and the batch is without it.
LEMMA LoadInv ==
  ASSUME DataOK, NEW r \in Recorders, RecorderInv(r), Load(r)
  PROVE  RecorderInv(r)'
  <1>1. /\ pc[r] = "load" /\ pc'[r] = "begin"
        /\ next'[r] = next[r] /\ upto'[r] = upto[r]
        /\ batch'[r] = batch[r] \ handled /\ group'[r] = 1
        /\ bitmap'[r] = handled /\ seen'[r] = version
        /\ handled' = handled /\ version' = version
    BY DEF Load, LoadRow, Goto, DataOK
  <1>2. version \in Nat
    BY DEF DataOK
  <1>3. batch[r] \subseteq Seqs
    BY DEF DataOK
  <1>4. TxIsOpen(r)' /\ MemIsCurrent(r)' /\ MemIsNext(r)'
    BY <1>1, <1>2 DEF TxIsOpen, MemIsCurrent, MemIsNext, InTx
  <1>5. LaterIsNew(r)'
    BY <1>1 DEF LaterIsNew
  <1>6. RangeIsCovered(r)'
    BY <1>1 DEF RecorderInv, RangeIsCovered, Working
  <1>7. PassedIsSaved(r)'
    <2>1. SUFFICES ASSUME NEW s \in batch'[r], SubBatchOf(s) < 1
                   PROVE  s \in Droppable
      BY <1>1 DEF PassedIsSaved
    <2>2. QED
      BY <2>1, <1>1, <1>3, SubBatchType DEF Droppable
  <1>8. AckIsDue(r)' /\ StartIsRecorded(r)'
    BY <1>1 DEF RecorderInv, AckIsDue, StartIsRecorded
  <1>9. QED
    BY <1>4, <1>5, <1>6, <1>7, <1>8 DEF RecorderInv

\* The sub-batches that are passed over are empty.
LEMMA LockCompletionInv ==
  ASSUME DataOK, NEW r \in Recorders, RecorderInv(r), LockCompletion(r)
  PROVE  RecorderInv(r)'
  <1>1. PICK g \in 1..Remaining : AtSubBatch(r, g) /\ group' = [group EXCEPT ![r] = g]
    BY DEF LockCompletion
  <1>2. /\ pc[r] = "begin"
        /\ next'[r] = next[r] /\ upto'[r] = upto[r] /\ batch'[r] = batch[r]
        /\ group'[r] = g /\ bitmap'[r] = bitmap[r] /\ seen'[r] = seen[r]
        /\ handled' = handled /\ version' = version
    BY <1>1 DEF LockCompletion, DataOK, dbVars, metaVars, memVars
  <1>3. /\ pc'[r] = "check" \/ pc'[r] = "write"
        /\ pc'[r] = "write" => ~bepCompleted'
    BY DEF LockCompletion, Goto, DataOK, dbVars
  <1>4. /\ group[r] \in Nat /\ g \in Nat /\ group[r] <= g
        /\ batch[r] \subseteq Seqs
    BY <1>1 DEF AtSubBatch, DataOK, Remaining
  <1>5. \A s \in Seqs : SubBatchOf(s) \in Nat
    BY SubBatchType
  <1>6. TxIsOpen(r)' /\ MemIsCurrent(r)' /\ MemIsNext(r)'
    BY <1>2, <1>3 DEF RecorderInv, TxIsOpen, MemIsCurrent, MemIsNext, InTx
  <1>7. LaterIsNew(r)'
    BY <1>2, <1>3, <1>4, <1>5 DEF RecorderInv, LaterIsNew
  <1>8. RangeIsCovered(r)'
    BY <1>2, <1>3 DEF RecorderInv, RangeIsCovered, Working
  <1>9. PassedIsSaved(r)'
    <2>1. SUFFICES ASSUME NEW s \in batch[r], SubBatchOf(s) < g
                   PROVE  s \in handled \cup Droppable
      BY <1>2, <1>3 DEF PassedIsSaved
    <2>2. CASE SubBatchOf(s) < group[r]
      BY <2>2, <1>2 DEF RecorderInv, PassedIsSaved
    <2>3. CASE SubBatchOf(s) \in group[r]..(g-1)
      BY <2>3, <1>1 DEF AtSubBatch, Todo
    <2>4. QED
      BY <2>1, <2>2, <2>3, <1>4, <1>5
  <1>10. AckIsDue(r)' /\ StartIsRecorded(r)'
    BY <1>2, <1>3 DEF RecorderInv, AckIsDue, StartIsRecorded
  <1>11. QED
    BY <1>6, <1>7, <1>8, <1>9, <1>10 DEF RecorderInv

\* The version has not changed since the bitmap was loaded, so the bitmap is
\* the current one: nobody has recorded anything in between.
LEMMA WriteInv ==
  ASSUME DataOK, NEW r \in Recorders, RecorderInv(r), Write(r)
  PROVE  RecorderInv(r)'
  <1>1. /\ pc[r] = "write" /\ pc'[r] = "commit"
        /\ next'[r] = next[r] /\ upto'[r] = upto[r] /\ batch'[r] = batch[r]
        /\ group'[r] = group[r]
        /\ bitmap'[r] = bitmap[r] \cup Todo(r, group[r])
        /\ seen'[r] = seen[r] + 1 /\ seen[r] = version
        /\ handled' = handled /\ version' = version
    BY DEF Write, VersionMatches, Goto, DataOK, dbVars, metaVars
  <1>2. bepCompleted' = bepCompleted
    BY DEF Write, dbVars
  <1>3. /\ group[r] \in Nat /\ batch[r] \subseteq Seqs
    BY DEF DataOK, Remaining
  <1>4. \A s \in Seqs : SubBatchOf(s) \in Nat
    BY SubBatchType
  <1>5. bitmap[r] = handled
    BY <1>1 DEF RecorderInv, MemIsCurrent
  <1>6. TxIsOpen(r)' /\ MemIsCurrent(r)'
    BY <1>1, <1>2 DEF RecorderInv, TxIsOpen, MemIsCurrent, InTx
  <1>7. MemIsNext(r)'
    <2>1. Todo(r, group[r])' = Todo(r, group[r])
      BY <1>1 DEF Todo
    <2>2. Todo(r, group[r]) \cap handled = {}
      BY <1>1, <1>3, <1>4, <1>5 DEF RecorderInv, LaterIsNew, Todo
    <2>3. QED
      BY <1>1, <1>5, <2>1, <2>2 DEF MemIsNext
  <1>8. LaterIsNew(r)'
    BY <1>1, <1>3, <1>4 DEF RecorderInv, LaterIsNew, Todo
  <1>9. RangeIsCovered(r)' /\ PassedIsSaved(r)'
    BY <1>1 DEF RecorderInv, RangeIsCovered, PassedIsSaved, Working
  <1>10. AckIsDue(r)' /\ StartIsRecorded(r)'
    BY <1>1 DEF RecorderInv, AckIsDue, StartIsRecorded
  <1>11. QED
    BY <1>6, <1>7, <1>8, <1>9, <1>10 DEF RecorderInv

-----------------------------------------------------------------------------
(* What a commit publishes.                                                *)

\* The rows that the sub-batch's rows are joined from are in the database.
LEMMA JoinsExist ==
  ASSUME DataOK, ExactlyOnce, NEW r \in Recorders, RecorderInv(r), pc[r] = "commit",
         NEW s \in Todo(r, group[r]), NEW j \in JoinsOn[s]
  PROVE  rows[j] = 1
  <1>1. /\ s \in batch[r] /\ SubBatchOf(s) = group[r]
        /\ batch[r] \subseteq next[r]..upto[r]
        /\ next[r]..upto[r] \subseteq batch[r] \cup handled \cup Droppable
        /\ 1..(next[r]-1) \subseteq handled \cup Droppable
    BY DEF Todo, RecorderInv, RangeIsCovered, StartIsRecorded, Working
  <1>2. /\ s \in Seqs /\ s \in Nat /\ next[r] \in Nat /\ upto[r] \in Nat
        /\ group[r] # 0
    <2>1. s \in Seqs /\ group[r] # 0
      BY <1>1 DEF DataOK, Remaining
    <2>2. next[r] \in Nat /\ upto[r] \in Nat
      BY ConstantTypes DEF DataOK
    <2>3. QED
      BY <2>1, <2>2, ConstantTypes DEF Seqs
  <1>3. j \in Seqs /\ j < s /\ SubBatchOf(j) < SubBatchOf(s) /\ j \notin Droppable
    BY <1>1, <1>2, JoinsAreEarlier
  <1>4. j \in Nat /\ j >= 1
    BY <1>3, ConstantTypes DEF Seqs
  <1>5. j \in handled
    <2>1. CASE j < next[r]
      BY <2>1, <1>1, <1>2, <1>3, <1>4
    <2>2. CASE j >= next[r]
      <3>1. s <= upto[r]
        BY <1>1, <1>2
      <3>2. j \in next[r]..upto[r]
        BY <2>2, <3>1, <1>2, <1>3, <1>4
      <3>3. j \in batch[r] => j \in handled \cup Droppable
        BY <1>1, <1>3 DEF RecorderInv, PassedIsSaved
      <3>4. QED
        BY <3>2, <3>3, <1>1, <1>3
    <2>3. QED
      BY <2>1, <2>2, <1>2, <1>4
  <1>6. QED
    BY <1>3, <1>5 DEF ExactlyOnce

\* A commit records the events of the sub-batch, all of which are new, and
\* applies each of them.
LEMMA PublishRecords ==
  ASSUME DataOK, ExactlyOnce, NEW r \in Recorders, RecorderInv(r), pc[r] = "commit",
         Publish(r)
  PROVE  /\ Todo(r, group[r]) \subseteq Seqs
         /\ Todo(r, group[r]) \cap handled = {}
         /\ handled' = handled \cup Todo(r, group[r])
         /\ version' = version + 1
         /\ rows' = [s \in Seqs |-> IF s \in Todo(r, group[r]) THEN rows[s] + 1 ELSE rows[s]]
  <1>1. Todo(r, group[r]) \subseteq Seqs
    BY DEF Todo, DataOK
  <1>2. /\ Todo(r, group[r]) \cap handled = {}
        /\ handled' = handled \cup Todo(r, group[r])
        /\ version' = version + 1
    BY DEF RecorderInv, MemIsNext, Publish
  <1>3. \A s \in Todo(r, group[r]) : \A j \in JoinsOn[s] : rows[j] > 0
    BY JoinsExist
  <1>4. QED
    BY <1>1, <1>2, <1>3 DEF Publish

LEMMA PublishKeeps ==
  ASSUME DataOK, ExactlyOnce, JoinsAreComplete,
         NEW r \in Recorders, RecorderInv(r), pc[r] = "commit", Publish(r)
  PROVE  ExactlyOnce' /\ JoinsAreComplete'
  <1> DEFINE T == Todo(r, group[r])
  <1>1. /\ T \subseteq Seqs /\ T \cap handled = {} /\ handled' = handled \cup T
        /\ rows' = [s \in Seqs |-> IF s \in T THEN rows[s] + 1 ELSE rows[s]]
    BY PublishRecords
  <1>2. \A s \in T : \A j \in JoinsOn[s] : rows[j] = 1
    BY JoinsExist
  <1> HIDE DEF T
  <1>3. ExactlyOnce'
    BY <1>1 DEF ExactlyOnce
  <1>4. JoinsAreComplete'
    <2>1. SUFFICES ASSUME NEW s \in handled', NEW j \in JoinsOn[s]
                   PROVE  rows'[j] > 0
      BY DEF JoinsAreComplete
    <2>2. s \in Seqs /\ j \in Seqs
      BY <1>1, RecorderAssumption DEF DataOK
    <2>3. rows[j] > 0 /\ rows[j] \in Nat
      BY <1>1, <1>2, <2>2 DEF JoinsAreComplete, DataOK
    <2>4. QED
      BY <1>1, <2>2, <2>3
  <1>5. QED
    BY <1>3, <1>4

\* The recorder goes on with the next sub-batch, or is done with the batch.
LEMMA CommitInv ==
  ASSUME DataOK, ExactlyOnce, NEW r \in Recorders, RecorderInv(r), Commit(r)
  PROVE  RecorderInv(r)'
  <1> DEFINE T == Todo(r, group[r])
  <1>1. pc[r] = "commit" /\ Publish(r)
    BY DEF Commit
  <1>2. handled' = handled \cup T /\ version' = version + 1
    BY <1>1, PublishRecords
  <1>3. /\ next'[r] = next[r] /\ upto'[r] = upto[r] /\ batch'[r] = batch[r]
        /\ bitmap'[r] = bitmap[r] /\ seen'[r] = seen[r]
    BY DEF Commit, memVars
  <1>4. bitmap[r] = handled' /\ seen[r] = version' /\ version' \in Nat
    BY <1>1, <1>2 DEF RecorderInv, MemIsNext, DataOK
  <1>5. /\ group[r] \in 1..Remaining /\ Remaining = 7 /\ batch[r] \subseteq Seqs
    BY DEF DataOK, Remaining
  <1>6. \A s \in Seqs : SubBatchOf(s) \in 0..Remaining
    BY SubBatchType
  <1>7. \A s \in batch[r] : SubBatchOf(s) = group[r] => s \in handled'
    BY <1>2 DEF Todo
  <1>8. CASE group[r] = Remaining
    <2>1. pc'[r] = "ack"
      BY <1>8 DEF Commit, Goto, DataOK
    <2>2. AckIsDue(r)'
      <3>1. \A s \in batch[r] : s \in handled' \cup Droppable
        BY <1>1, <1>2, <1>5, <1>6, <1>7, <1>8 DEF RecorderInv, PassedIsSaved
      <3>2. QED
        BY <1>1, <1>2, <1>3, <3>1 DEF RecorderInv, RangeIsCovered, AckIsDue, Working
    <2>3. StartIsRecorded(r)'
      BY <1>1, <1>2, <1>3 DEF RecorderInv, StartIsRecorded
    <2>4. QED
      BY <2>1, <2>2, <2>3 DEF RecorderInv, TxIsOpen, MemIsCurrent, MemIsNext, LaterIsNew,
                              RangeIsCovered, PassedIsSaved, Working, InTx
  <1>9. CASE group[r] # Remaining
    <2>1. pc'[r] = "begin" /\ group'[r] = group[r] + 1
      BY <1>9 DEF Commit, Goto, DataOK
    <2>2. TxIsOpen(r)' /\ MemIsCurrent(r)' /\ MemIsNext(r)'
      BY <1>3, <1>4, <2>1 DEF TxIsOpen, MemIsCurrent, MemIsNext, InTx
    <2>3. LaterIsNew(r)'
      BY <1>1, <1>3, <1>5, <1>6, <2>1 DEF RecorderInv, LaterIsNew
    <2>4. RangeIsCovered(r)'
      BY <1>1, <1>2, <1>3, <2>1 DEF RecorderInv, RangeIsCovered, Working
    <2>5. PassedIsSaved(r)'
      BY <1>1, <1>2, <1>3, <1>5, <1>6, <1>7, <2>1 DEF RecorderInv, PassedIsSaved
    <2>6. AckIsDue(r)' /\ StartIsRecorded(r)'
      BY <1>1, <1>2, <1>3, <2>1 DEF RecorderInv, AckIsDue, StartIsRecorded
    <2>7. QED
      BY <2>2, <2>3, <2>4, <2>5, <2>6 DEF RecorderInv
  <1>10. QED
    BY <1>8, <1>9

LEMMA CommitAnswerLostInv ==
  ASSUME DataOK, ExactlyOnce, NEW r \in Recorders, RecorderInv(r), CommitAnswerLost(r)
  PROVE  RecorderInv(r)'
  <1>1. pc[r] = "commit" /\ Publish(r)
    BY DEF CommitAnswerLost
  <1>2. handled \subseteq handled'
    BY <1>1, PublishRecords
  <1>3. /\ pc'[r] = "check"
        /\ next'[r] = next[r] /\ upto'[r] = upto[r] /\ batch'[r] = batch[r]
    BY DEF CommitAnswerLost, Goto, DataOK
  <1>4. QED
    BY <1>1, <1>2, <1>3, BackInv DEF Working

\* What is acknowledged is what came before the batch and the batch.
LEMMA AckInv ==
  ASSUME DataOK, AckedIsRecorded, NEW r \in Recorders, RecorderInv(r), Ack(r)
  PROVE  RecorderInv(r)' /\ AckedIsRecorded'
  <1>1. /\ pc[r] = "ack" /\ pc'[r] = "idle" /\ next'[r] = upto[r] + 1
        /\ handled' = handled
        /\ acked' = IF upto[r] > acked THEN upto[r] ELSE acked
    BY DEF Ack, Goto, DataOK, dbVars, metaVars
  <1>2. upto[r] \in Nat /\ next[r] \in Nat /\ next[r] >= 1
    BY ConstantTypes DEF DataOK
  <1>3. /\ next[r]..upto[r] \subseteq handled \cup Droppable
        /\ 1..(next[r]-1) \subseteq handled \cup Droppable
    BY <1>1 DEF RecorderInv, AckIsDue, StartIsRecorded
  <1>4. 1..upto[r] \subseteq handled \cup Droppable
    BY <1>2, <1>3
  <1>5. RecorderInv(r)'
    BY <1>1, <1>2, <1>4, RestingInv
  <1>6. AckedIsRecorded'
    BY <1>1, <1>4 DEF AckedIsRecorded
  <1>7. QED
    BY <1>5, <1>6

-----------------------------------------------------------------------------
(* The invariant is inductive.                                             *)

LEMMA InitIInv == Init => IInv
  <1> SUFFICES ASSUME Init PROVE IInv
    OBVIOUS
  <1>1. ExactlyOnce /\ AckedIsRecorded /\ JoinsAreComplete
    BY DEF Init, ExactlyOnce, AckedIsRecorded, JoinsAreComplete
  <1>2. OneCommits
    BY DEF Init, OneCommits
  <1>3. \A r \in Recorders : RecorderInv(r)
    BY DEF Init, RecorderInv, TxIsOpen, MemIsCurrent, MemIsNext, LaterIsNew,
           RangeIsCovered, PassedIsSaved, AckIsDue, StartIsRecorded, Working, InTx
  <1>4. QED
    BY <1>1, <1>2, <1>3, InitTypeOK DEF IInv

\* A step of recorder r that records nothing.
LEMMA QuietStep ==
  ASSUME IInv, TypeOK', NEW r \in Recorders, RecorderInv(r)',
         \A q \in Recorders \ {r} : Still(q), NothingRecorded, acked' = acked,
         pc'[r] = "commit" => \A q \in Recorders \ {r} : pc[q] # "commit"
  PROVE  IInv'
  <1>1. ExactlyOnce' /\ AckedIsRecorded' /\ JoinsAreComplete'
    BY DEF IInv, NothingRecorded, ExactlyOnce, AckedIsRecorded, JoinsAreComplete
  <1>2. OneCommits'
    BY DEF IInv, OneCommits, Still
  <1>3. \A q \in Recorders \ {r} : RecorderInv(q)'
    BY StillKeepsInv DEF IInv
  <1>4. QED
    BY <1>1, <1>2, <1>3 DEF IInv

\* A step of recorder r that commits a transaction.
LEMMA PublishStep ==
  ASSUME IInv, TypeOK', NEW r \in Recorders, RecorderInv(r)', pc[r] = "commit",
         pc'[r] # "commit", Publish(r),
         \A q \in Recorders \ {r} : Still(q), acked' = acked
  PROVE  IInv'
  <1>1. ExactlyOnce' /\ JoinsAreComplete'
    BY PublishKeeps DEF IInv, TypeOK
  <1>2. handled \subseteq handled' /\ version' = version + 1 /\ bepCompleted' = bepCompleted
    <2>1. handled \subseteq handled' /\ version' = version + 1
      BY PublishRecords DEF IInv, TypeOK
    <2>2. QED
      BY <2>1 DEF Publish
  <1>3. AckedIsRecorded'
    BY <1>2 DEF IInv, AckedIsRecorded
  <1>4. \A q \in Recorders \ {r} : pc[q] # "commit"
    BY DEF IInv, OneCommits
  <1>5. OneCommits'
    BY <1>4 DEF OneCommits, Still
  <1>6. ASSUME NEW q \in Recorders \ {r} PROVE RecorderInv(q)'
    BY <1>2, <1>4, GrowthKeepsInv DEF IInv, TypeOK
  <1>7. QED
    BY <1>1, <1>3, <1>5, <1>6 DEF IInv

LEMMA AckStep ==
  ASSUME IInv, TypeOK', NEW r \in Recorders, Ack(r), \A q \in Recorders \ {r} : Still(q)
  PROVE  IInv'
  <1>1. NothingRecorded
    BY DEF Ack, NothingRecorded, dbVars, metaVars
  <1>2. RecorderInv(r)' /\ AckedIsRecorded'
    BY AckInv DEF IInv, TypeOK
  <1>3. ExactlyOnce' /\ JoinsAreComplete'
    BY <1>1 DEF IInv, NothingRecorded, ExactlyOnce, JoinsAreComplete
  <1>4. pc'[r] = "idle"
    BY DEF Ack, Goto, IInv, TypeOK, DataOK
  <1>5. OneCommits'
    BY <1>4 DEF IInv, OneCommits, Still
  <1>6. \A q \in Recorders \ {r} : RecorderInv(q)'
    BY <1>1, StillKeepsInv DEF IInv
  <1>7. QED
    BY <1>2, <1>3, <1>5, <1>6 DEF IInv

\* The invocation is locked for writing: no transaction is open.
LEMMA LockStep ==
  ASSUME IInv, TypeOK', LockInvocation
  PROVE  IInv'
  <1>1. UNCHANGED <<handled, version, rows, pc, batch, next, upto, group, bitmap, seen, acked>>
    BY DEF LockInvocation, metaVars, recVars, memVars, envVars
  <1>2. ExactlyOnce' /\ AckedIsRecorded' /\ JoinsAreComplete' /\ OneCommits'
    BY <1>1 DEF IInv, ExactlyOnce, AckedIsRecorded, JoinsAreComplete, OneCommits
  <1>3. ASSUME NEW q \in Recorders PROVE RecorderInv(q)'
    <2>1. TxIsOpen(q)'
      BY <1>1 DEF LockInvocation, TxIsOpen
    <2>2. QED
      BY <1>1, <2>1 DEF IInv, RecorderInv, MemIsCurrent, MemIsNext, LaterIsNew,
         RangeIsCovered, PassedIsSaved, AckIsDue, StartIsRecorded, Todo
  <1>4. QED
    BY <1>2, <1>3 DEF IInv

LEMMA StutterStep ==
  ASSUME IInv, UNCHANGED vars
  PROVE  IInv'
  <1>1. UNCHANGED <<bepCompleted, handled, version, rows, pc, batch, next, upto, group,
                    bitmap, seen, acked>>
    BY DEF vars, dbVars, metaVars, recVars, memVars, envVars
  <1>2. TypeOK'
    BY NextFlagsOK, NextDataOK DEF IInv, TypeOK
  <1>3. ExactlyOnce' /\ AckedIsRecorded' /\ JoinsAreComplete' /\ OneCommits'
    BY <1>1 DEF IInv, ExactlyOnce, AckedIsRecorded, JoinsAreComplete, OneCommits
  <1>4. ASSUME NEW q \in Recorders PROVE RecorderInv(q)'
    BY <1>1, StillKeepsInv DEF IInv, Still, NothingRecorded
  <1>5. QED
    BY <1>2, <1>3, <1>4 DEF IInv

LEMMA NextIInv == IInv /\ [Next]_vars => IInv'
  <1> SUFFICES ASSUME IInv, [Next]_vars PROVE IInv'
    OBVIOUS
  <1>1. TypeOK' /\ DataOK
    BY NextFlagsOK, NextDataOK DEF IInv, TypeOK
  <1>2. ASSUME NEW r \in Recorders PROVE RecorderInv(r)
    BY DEF IInv
  <1>3. ExactlyOnce /\ AckedIsRecorded
    BY DEF IInv
  <1> USE DEF Goto, DataOK, dbVars, envVars, metaVars, memVars, NothingRecorded
  <1>4. ASSUME NEW r \in Recorders, Connect(r) PROVE IInv'
    <2>1. NothingRecorded /\ acked' = acked /\ pc'[r] # "commit"
      BY <1>1, <1>4 DEF Connect
    <2>2. QED
      BY <1>1, <1>3, <1>4, <2>1, ConnectInv, OthersStayStill, QuietStep
  <1>5. ASSUME NEW r \in Recorders, SaveBatch(r) PROVE IInv'
    <2>1. NothingRecorded /\ acked' = acked /\ pc'[r] # "commit"
      BY <1>1, <1>5 DEF SaveBatch
    <2>2. QED
      BY <1>1, <1>2, <1>5, <2>1, SaveBatchInv, OthersStayStill, QuietStep
  <1>6. ASSUME NEW r \in Recorders, Load(r) PROVE IInv'
    <2>1. NothingRecorded /\ acked' = acked /\ pc'[r] # "commit"
      BY <1>1, <1>6 DEF Load, LoadRow
    <2>2. QED
      BY <1>1, <1>2, <1>6, <2>1, LoadInv, OthersStayStill, QuietStep
  <1>7. ASSUME NEW r \in Recorders, LockCompletion(r) PROVE IInv'
    <2>1. NothingRecorded /\ acked' = acked /\ pc'[r] # "commit"
      BY <1>1, <1>7 DEF LockCompletion
    <2>2. QED
      BY <1>1, <1>2, <1>7, <2>1, LockCompletionInv, OthersStayStill, QuietStep
  <1>8. ASSUME NEW r \in Recorders, Write(r) PROVE IInv'
    <2>1. NothingRecorded /\ acked' = acked
      BY <1>8 DEF Write
    <2>2. \A q \in Recorders \ {r} : pc[q] # "commit"
      BY <1>8 DEF Write, WaitsForMetadata
    <2>3. QED
      BY <1>1, <1>2, <1>8, <2>1, <2>2, WriteInv, OthersStayStill, QuietStep
  <1>9. ASSUME NEW r \in Recorders,
               \/ WriteFails(r) \/ DeadlockAbort(r) \/ CheckProgress(r) \/ Elapse(r)
               \/ Retry(r) \/ TransientFault(r)
        PROVE  IInv'
    <2>1. NothingRecorded /\ acked' = acked
      BY <1>9 DEF WriteFails, DeadlockAbort, CheckProgress, LoadRow, Elapse, Retry,
                  TransientFault
    <2>2. pc'[r] # "commit"
      BY <1>1, <1>9 DEF WriteFails, DeadlockAbort, CheckProgress, Elapse, Retry,
                        TransientFault
    <2>3. QED
      BY <1>1, <1>2, <1>9, <2>1, <2>2, StayInLoopInv, OthersStayStill, QuietStep
  <1>10. ASSUME NEW r \in Recorders, GiveUp(r) \/ Disconnect(r) PROVE IInv'
    <2>1. NothingRecorded /\ acked' = acked
      BY <1>10 DEF GiveUp, Disconnect
    <2>2. pc'[r] # "commit"
      BY <1>1, <1>10 DEF GiveUp, Disconnect
    <2>3. QED
      BY <1>1, <1>2, <1>10, <2>1, <2>2, RestInv, OthersStayStill, QuietStep
  <1>11. ASSUME NEW r \in Recorders, Commit(r) PROVE IInv'
    <2>1. pc[r] = "commit" /\ Publish(r) /\ acked' = acked /\ pc'[r] # "commit"
      BY <1>1, <1>11 DEF Commit
    <2>2. QED
      BY <1>1, <1>2, <1>3, <1>11, <2>1, CommitInv, OthersStayStill, PublishStep
  <1>12. ASSUME NEW r \in Recorders, CommitAnswerLost(r) PROVE IInv'
    <2>1. pc[r] = "commit" /\ Publish(r) /\ acked' = acked /\ pc'[r] # "commit"
      BY <1>1, <1>12 DEF CommitAnswerLost
    <2>2. QED
      BY <1>1, <1>2, <1>3, <1>12, <2>1, CommitAnswerLostInv, OthersStayStill, PublishStep
  <1>13. ASSUME NEW r \in Recorders, Ack(r) PROVE IInv'
    BY <1>1, <1>13, OthersStayStill, AckStep
  <1>14. CASE LockInvocation
    BY <1>1, <1>14, LockStep
  <1>15. CASE UNCHANGED vars
    BY <1>15, StutterStep
  <1>16. QED
    BY <1>4, <1>5, <1>6, <1>7, <1>8, <1>9, <1>10, <1>11, <1>12, <1>13, <1>14, <1>15
       DEF Next, Step

-----------------------------------------------------------------------------
(* The theorems.                                                           *)

LEMMA InvariantHolds == Spec => []IInv
  BY InitIInv, NextIInv, PTL DEF Spec

\* An event is applied once if it is recorded as handled and else not at all,
\* however the recorders' transactions, failures and retries interleave.
THEOREM EventsAreAppliedOnce == Spec => []ExactlyOnce
  <1>1. IInv => ExactlyOnce
    BY DEF IInv
  <1>2. QED
    BY <1>1, InvariantHolds, PTL

\* A build tool that forgets the events it has ACKs for loses nothing.
THEOREM AcknowledgedIsRecorded == Spec => []AckedIsRecorded
  <1>1. IInv => AckedIsRecorded
    BY DEF IInv
  <1>2. QED
    BY <1>1, InvariantHolds, PTL

\* The rows that a target completed or a test is joined from are there first.
THEOREM JoinedRowsExist == Spec => []JoinsAreComplete
  <1>1. IInv => JoinsAreComplete
    BY DEF IInv
  <1>2. QED
    BY <1>1, InvariantHolds, PTL

\* What a step can do to the database and to the ACKs.
LEMMA StepKinds ==
  ASSUME IInv, [Next]_vars
  PROVE  \/ UNCHANGED <<handled, version, rows, bepCompleted, acked>>
         \/ /\ UNCHANGED <<bepCompleted, acked>>
            /\ \E r \in Recorders : pc[r] = "commit" /\ Publish(r)
         \/ /\ UNCHANGED <<handled, version, rows, bepCompleted>>
            /\ \E r \in Recorders : Ack(r)
         \/ UNCHANGED <<handled, version, rows, acked>> /\ LockInvocation
  <1> USE DEF dbVars, envVars, metaVars
  <1>1. ASSUME NEW r \in Recorders,
               \/ Connect(r) \/ SaveBatch(r) \/ Load(r) \/ LockCompletion(r) \/ Write(r)
               \/ WriteFails(r) \/ DeadlockAbort(r) \/ CheckProgress(r)
        PROVE  UNCHANGED <<handled, version, rows, bepCompleted, acked>>
    BY <1>1 DEF Connect, SaveBatch, Load, LoadRow, LockCompletion, Write, WriteFails,
                DeadlockAbort, CheckProgress
  <1>2. ASSUME NEW r \in Recorders,
               \/ Elapse(r) \/ Retry(r) \/ GiveUp(r) \/ TransientFault(r) \/ Disconnect(r)
        PROVE  UNCHANGED <<handled, version, rows, bepCompleted, acked>>
    BY <1>2 DEF Elapse, Retry, GiveUp, TransientFault, Disconnect
  <1>3. ASSUME NEW r \in Recorders, Commit(r) \/ CommitAnswerLost(r)
        PROVE  /\ UNCHANGED <<bepCompleted, acked>>
               /\ pc[r] = "commit" /\ Publish(r)
    BY <1>3 DEF Commit, CommitAnswerLost, Publish
  <1>4. ASSUME NEW r \in Recorders, Ack(r)
        PROVE  UNCHANGED <<handled, version, rows, bepCompleted>>
    BY <1>4 DEF Ack
  <1>5. LockInvocation => UNCHANGED <<handled, version, rows, acked>>
    BY DEF LockInvocation
  <1>6. UNCHANGED vars => UNCHANGED <<handled, version, rows, bepCompleted, acked>>
    BY DEF vars
  <1>7. QED
    BY <1>1, <1>2, <1>3, <1>4, <1>5, <1>6 DEF Next, Step

\* A transaction that commits has found the invocation open, and records events
\* that are new.
LEMMA PublishIsRecord ==
  ASSUME IInv, NEW r \in Recorders, pc[r] = "commit", Publish(r)
  PROVE  /\ ~bepCompleted
         /\ handled \subseteq handled'
         /\ version \in Nat /\ version' = version + 1
         /\ \E S \in SUBSET Seqs :
               /\ S \cap handled = {}
               /\ handled' = handled \cup S
               /\ rows' = [s \in Seqs |-> IF s \in S THEN rows[s] + 1 ELSE rows[s]]
  <1>1. RecorderInv(r) /\ DataOK /\ ExactlyOnce
    BY DEF IInv, TypeOK
  <1>2. ~bepCompleted
    BY <1>1 DEF RecorderInv, TxIsOpen, InTx
  <1>3. /\ Todo(r, group[r]) \subseteq Seqs
        /\ Todo(r, group[r]) \cap handled = {}
        /\ handled' = handled \cup Todo(r, group[r])
        /\ version' = version + 1
        /\ rows' = [s \in Seqs |-> IF s \in Todo(r, group[r]) THEN rows[s] + 1 ELSE rows[s]]
    BY <1>1, PublishRecords
  <1>4. version \in Nat
    BY <1>1 DEF DataOK
  <1>5. QED
    BY <1>2, <1>3, <1>4

\* No step takes an event out of the set of handled events, and each that adds
\* one makes a new version of it.
THEOREM HandledGrows == Spec => HandledIsNeverForgotten
  <1>1. ASSUME IInv, [Next]_vars
        PROVE  [/\ handled \subseteq handled'
                /\ handled # handled' => version' > version]_metaVars
    <2>1. ASSUME NEW r \in Recorders, pc[r] = "commit", Publish(r)
          PROVE  handled \subseteq handled' /\ version' > version
      BY <1>1, <2>1, PublishIsRecord
    <2>2. QED
      BY <1>1, <2>1, StepKinds
  <1>2. QED
    BY <1>1, InvariantHolds, PTL DEF Spec, HandledIsNeverForgotten

\* A transaction that was open when the cleanup service looked is respected,
\* and none begins afterwards.
THEOREM LockedStaysAsItIs == Spec => NothingAfterCompletion
  <1>1. ASSUME IInv, [Next]_vars
        PROVE  [bepCompleted => bepCompleted' /\ rows' = rows /\ handled' = handled]_dbVars
    <2>1. ASSUME NEW r \in Recorders, pc[r] = "commit", Publish(r)
          PROVE  ~bepCompleted
      BY <1>1, <2>1, PublishIsRecord
    <2>2. LockInvocation => ~bepCompleted
      BY DEF LockInvocation
    <2>3. QED
      BY <1>1, <2>1, <2>2, StepKinds
  <1>2. QED
    BY <1>1, InvariantHolds, PTL DEF Spec, NothingAfterCompletion

\* The recorders together are an event log.
THEOREM Refinement == Spec => ImplementsLog
  <1>1. Init => Log!Init
    BY DEF Init, Log!Init, Seqs
  <1>2. ASSUME IInv, IInv', [Next]_vars
        PROVE  [Log!Next]_(Log!logVars)
    <2>1. CASE UNCHANGED <<handled, version, rows, bepCompleted, acked>>
      BY <2>1 DEF Log!logVars
    <2>2. ASSUME UNCHANGED <<bepCompleted, acked>>, NEW r \in Recorders,
                 pc[r] = "commit", Publish(r)
          PROVE  Log!Next
      <3>1. PICK S \in SUBSET Seqs :
              /\ S \cap handled = {}
              /\ handled' = handled \cup S
              /\ rows' = [s \in Seqs |-> IF s \in S THEN rows[s] + 1 ELSE rows[s]]
        BY <1>2, <2>2, PublishIsRecord
      <3>2. ~bepCompleted
        BY <1>2, <2>2, PublishIsRecord
      <3>3. Log!Record(S)
        BY <2>2, <3>1, <3>2 DEF Log!Record, Seqs
      <3>4. QED
        BY <3>3 DEF Log!Next, Seqs
    <2>3. ASSUME UNCHANGED <<handled, version, rows, bepCompleted>>,
                 NEW r \in Recorders, Ack(r)
          PROVE  Log!Next \/ UNCHANGED Log!logVars
      <3>1. CASE acked' = acked
        BY <2>3, <3>1 DEF Log!logVars
      <3>2. CASE acked' # acked
        <4>1. acked' = upto[r] /\ upto[r] > acked
          BY <2>3, <3>2 DEF Ack
        <4>2. acked \in 0..N /\ upto[r] \in 0..N
          BY <1>2 DEF IInv, TypeOK, DataOK
        <4>3. 1..acked' \subseteq handled \cup Droppable
          BY <1>2, <2>3 DEF IInv, AckedIsRecorded
        <4>4. upto[r] \in 1..N
          BY <4>1, <4>2, ConstantTypes
        <4>5. Log!Ack(upto[r])
          BY <2>3, <4>1, <4>3 DEF Log!Ack
        <4>6. QED
          BY <4>4, <4>5 DEF Log!Next
      <3>3. QED
        BY <3>1, <3>2
    <2>4. ASSUME UNCHANGED <<handled, version, rows, acked>>, LockInvocation
          PROVE  Log!Next
      BY <2>4 DEF LockInvocation, Log!Close, Log!Next
    <2>5. QED
      BY <1>2, <2>1, <2>2, <2>3, <2>4, StepKinds
  <1>3. QED
    BY <1>1, <1>2, InvariantHolds, PTL DEF Spec, ImplementsLog, Log!Spec
=============================================================================
