------------------------------ MODULE Targets ------------------------------
(***************************************************************************)
(* Targets that several invocations share.                                 *)
(*                                                                         *)
(* The recorder of an invocation saves TargetConfigured events: it finds   *)
(* the rows of the targets, creates those that are missing, and maps the   *)
(* invocation to them.  To save TargetCompleted events it looks the rows   *)
(* up through this mapping, refers to them from invocation_targets, and    *)
(* marks those that are tests.  The cleanup service removes mappings of    *)
(* closed invocations, targets that nothing refers to, and markers of      *)
(* targets that no invocation refers to as tests.  Its statements select   *)
(* rows by a snapshot; the rows are locked and deleted later.              *)
(*                                                                         *)
(* The database is PostgreSQL at READ COMMITTED.  An insert waits for a    *)
(* transaction that has inserted the same key and has not committed.  A    *)
(* row that refers to another one locks it against removal until its       *)
(* transaction ends.                                                       *)
(***************************************************************************)
EXTENDS Naturals

CONSTANTS
  Invocations,   \* invocations, each with one recorder
  NLabels,       \* labels of targets are 1..NLabels, in the order of labels
  Kind,          \* Kind[i][l]: the kind of target l in invocation i
  Tests,         \* labels of the targets that are tests
  Batches,       \* bound: labels whose events may come in one batch
  MaxId          \* bound: identifiers of targets

Labels == 1..NLabels

ASSUME TargetsAssumption ==
  /\ NLabels \in Nat /\ MaxId \in Nat
  /\ \A i \in Invocations : DOMAIN Kind[i] = Labels
  /\ Tests \in SUBSET Labels
  /\ Batches \subseteq SUBSET Labels

VARIABLES
  targets,      \* committed rows of the table targets
  mappings,     \* committed rows of target_kind_mappings: <<invocation, id>>
  invTargets,   \* committed rows of invocation_targets: <<invocation, id>>
  markers,      \* committed rows of test_targets: ids of targets
  state,        \* state[i]: "open", "locked" (bep_completed) or "removed"
  configured,   \* configured[i]: labels whose TargetConfigured is handled
  completed,    \* completed[i]: labels whose TargetCompleted is handled
  pc,           \* where the recorder of i is
  batch,        \* labels of the events that it is saving
  found,        \* rows of targets that it has found or created
  todo,         \* labels or ids that its current INSERT has yet to insert
  made,         \* rows of targets that it has created and not committed
  marked,       \* rows of test_targets that it has created and not committed
  unused,       \* targets that DeleteUnusedTargetsFromPages has selected
  orphans       \* markers that DeleteOrphanedTestTargetsFromPages has selected

tables == <<targets, mappings, invTargets, markers, state, configured, completed>>
txVars == <<batch, found, todo, made, marked>>
recVars == <<pc, txVars>>
cleanVars == <<unused, orphans>>
vars == <<tables, recVars, cleanVars>>

\* create, mapped: saving TargetConfigured events, before and after the mappings
\* are inserted; retry: rolled back, SaveBatch tries again; insert, mark: saving
\* TargetCompleted events, before and after invocation_targets are inserted.
InTx == {"create", "mapped", "insert", "mark"}
PCs == InTx \cup {"off", "idle", "retry"}

IdsOf(rows) == {t.id : t \in rows}
Row(id) == CHOOSE t \in targets : t.id = id

Rows == [id : 1..MaxId, label : Labels, kind : {Kind[i][l] : i \in Invocations, l \in Labels}]

\* Every variable has its type, and what is committed refers to rows that are
\* committed as well.
TypeOK ==
  /\ targets \subseteq Rows
  /\ mappings \subseteq Invocations \X IdsOf(targets)
  /\ invTargets \subseteq Invocations \X IdsOf(targets)
  /\ markers \subseteq IdsOf(targets)
  /\ state \in [Invocations -> {"open", "locked", "removed"}]
  /\ configured \in [Invocations -> SUBSET Labels]
  /\ completed \in [Invocations -> SUBSET Labels]
  /\ pc \in [Invocations -> PCs]
  /\ batch \in [Invocations -> SUBSET Labels]
  /\ found \in [Invocations -> SUBSET Rows]
  /\ todo \in [Invocations -> SUBSET Nat]
  /\ made \in [Invocations -> SUBSET Rows]
  /\ marked \in [Invocations -> SUBSET Nat]
  /\ \A i \in Invocations :
       /\ todo[i] \subseteq IF pc[i] = "create" THEN batch[i] ELSE IdsOf(found[i])
       /\ marked[i] \subseteq IdsOf(found[i])

Init ==
  /\ targets = {} /\ mappings = {} /\ invTargets = {} /\ markers = {}
  /\ state = [i \in Invocations |-> "open"]
  /\ configured = [i \in Invocations |-> {}]
  /\ completed = [i \in Invocations |-> {}]
  /\ pc = [i \in Invocations |-> "idle"]
  /\ batch = [i \in Invocations |-> {}]
  /\ found = [i \in Invocations |-> {}]
  /\ todo = [i \in Invocations |-> {}]
  /\ made = [i \in Invocations |-> {}]
  /\ marked = [i \in Invocations |-> {}]
  /\ unused = {} /\ orphans = {}

-----------------------------------------------------------------------------
(* Transactions.                                                           *)

\* The transaction of i is over; the recorder goes to label.
EndTx(i, label) ==
  /\ pc' = [pc EXCEPT ![i] = label]
  /\ batch' = [batch EXCEPT ![i] = IF label = "retry" THEN @ ELSE {}]
  /\ found' = [found EXCEPT ![i] = {}]
  /\ todo' = [todo EXCEPT ![i] = {}]
  /\ made' = [made EXCEPT ![i] = {}]
  /\ marked' = [marked EXCEPT ![i] = {}]

Rollback(i, label) == EndTx(i, label) /\ UNCHANGED <<tables, cleanVars>>

\* Identifiers are never reused: not while anyone remembers one.
UsedIds == IdsOf(targets) \cup unused \cup UNION {IdsOf(found[i]) : i \in Invocations}
FreshIds == (1..MaxId) \ UsedIds
FreshId == CHOOSE id \in FreshIds : TRUE

\* Rows of targets that are referred to by an open transaction.
LockedIds == UNION {IdsOf(found[i]) : i \in {j \in Invocations : pc[j] \in {"mapped", "mark"}}}

-----------------------------------------------------------------------------
(* saveTargetConfiguredBatch.                                              *)

\* Mutant: all targets are inserted, whether they were found or not.
AllLabels(i, labels, rows) == labels

\* findMissingRows
MissingLabels(i, labels, rows) == {l \in labels : \A t \in rows : t.label # l}

\* getOrCreateTargets, first part: FindTargets selects by label and kind.
FindTargets(i, labels) ==
  LET rows == {t \in targets : t.label \in labels /\ t.kind = Kind[i][t.label]}
  IN /\ state[i] = "open"
     /\ pc' = [pc EXCEPT ![i] = "create"]
     /\ batch' = [batch EXCEPT ![i] = labels]
     /\ found' = [found EXCEPT ![i] = rows]
     /\ todo' = [todo EXCEPT ![i] = MissingLabels(i, labels, rows)]
     /\ UNCHANGED <<tables, made, marked, cleanVars>>

SaveConfigured(i) ==
  /\ pc[i] = "idle"
  /\ \E labels \in Batches :
       labels \cap configured[i] = {} /\ FindTargets(i, labels)

\* SaveBatch tries the same events again, unless the invocation is locked.
Retry(i) ==
  /\ pc[i] = "retry"
  /\ IF state[i] = "open" THEN FindTargets(i, batch[i]) ELSE Rollback(i, "off")

\* Mutant: rows are inserted in the order of their events.
NextInAnyOrder(i) == todo[i]

\* CreateTargets inserts in the order of the labels, CreateTestTargetsBulk in the
\* order of the identifiers.
NextInOrder(i) == {x \in todo[i] : \A y \in todo[i] : x <= y}

\* An uncommitted row of j has the key x that the recorder of i is to insert.
Blocks(j, i, x) ==
  /\ i # j
  /\ \/ pc[i] = "create" /\ \E t \in made[j] : t.label = x /\ t.kind = Kind[i][x]
     \/ pc[i] = "mark" /\ x \in marked[j]

Blocked(i, x) == \E j \in Invocations : Blocks(j, i, x)

\* CreateTargets inserts a row, unless the unique index has its key by now.
CreateTarget(i) ==
  /\ pc[i] = "create"
  /\ \E l \in NextInOrder(i) :
       /\ ~Blocked(i, l)
       /\ IF \E t \in targets : t.label = l /\ t.kind = Kind[i][l]
          THEN Rollback(i, "retry")
          ELSE LET row == [id |-> FreshId, label |-> l, kind |-> Kind[i][l]]
               IN /\ FreshIds # {}
                  /\ made' = [made EXCEPT ![i] = @ \cup {row}]
                  /\ found' = [found EXCEPT ![i] = @ \cup {row}]
                  /\ todo' = [todo EXCEPT ![i] = @ \ {l}]
                  /\ UNCHANGED <<tables, pc, batch, marked, cleanVars>>

\* createTargetKindMappingsBulk: refers to the targets, if they are still there.
CreateMappings(i) ==
  /\ pc[i] = "create"
  /\ todo[i] = {}
  /\ IF found[i] \subseteq targets \cup made[i]
     THEN pc' = [pc EXCEPT ![i] = "mapped"] /\ UNCHANGED <<tables, txVars, cleanVars>>
     ELSE Rollback(i, "retry")

\* Mutant: the targets that were found are not mapped.
CommitConfiguredNewOnly(i) ==
  /\ pc[i] = "mapped"
  /\ targets' = targets \cup made[i]
  /\ mappings' = mappings \cup {<<i, t.id>> : t \in made[i]}
  /\ configured' = [configured EXCEPT ![i] = @ \cup batch[i]]
  /\ EndTx(i, "idle")
  /\ UNCHANGED <<invTargets, markers, state, completed, cleanVars>>

CommitConfigured(i) ==
  /\ pc[i] = "mapped"
  /\ targets' = targets \cup made[i]
  /\ mappings' = mappings \cup {<<i, t.id>> : t \in found[i]}
  /\ configured' = [configured EXCEPT ![i] = @ \cup batch[i]]
  /\ EndTx(i, "idle")
  /\ UNCHANGED <<invTargets, markers, state, completed, cleanVars>>

-----------------------------------------------------------------------------
(* saveTargetCompletedBatch.                                               *)

\* Mutant: the mapping of any invocation will do.
MappedByAny(i, labels) ==
  {t \in targets : t.label \in labels /\ \E j \in Invocations : <<j, t.id>> \in mappings}

\* FindMappedTargets: the targets by label, among those mapped by the invocation.
Mapped(i, labels) == {t \in targets : t.label \in labels /\ <<i, t.id>> \in mappings}

\* resolveTargetInfo.  An event whose target is not mapped can never be saved:
\* SaveBatch returns its error in the end.
SaveCompleted(i) ==
  /\ pc[i] = "idle"
  /\ state[i] = "open"
  /\ \E labels \in Batches :
       LET rows == Mapped(i, labels)
       IN /\ labels \subseteq configured[i] \ completed[i]
          /\ IF MissingLabels(i, labels, rows) = {}
             THEN /\ pc' = [pc EXCEPT ![i] = "insert"]
                  /\ batch' = [batch EXCEPT ![i] = labels]
                  /\ found' = [found EXCEPT ![i] = rows]
                  /\ UNCHANGED <<tables, todo, made, marked, cleanVars>>
             ELSE Rollback(i, "off")

\* createInvocationTargetsBulk: refers to the targets, if they are still there.
\* When they are not, their mappings are gone as well.
CreateInvocationTargets(i) ==
  /\ pc[i] = "insert"
  /\ IF found[i] \subseteq targets
     THEN /\ pc' = [pc EXCEPT ![i] = "mark"]
          /\ todo' = [todo EXCEPT ![i] = IdsOf({t \in found[i] : t.label \in Tests})]
          /\ UNCHANGED <<tables, batch, found, made, marked, cleanVars>>
     ELSE Rollback(i, "off")

\* CreateTestTargetsBulk: ON CONFLICT DO NOTHING.
CreateTestTarget(i) ==
  /\ pc[i] = "mark"
  /\ \E id \in NextInOrder(i) :
       /\ ~Blocked(i, id)
       /\ marked' = [marked EXCEPT ![i] = IF id \in markers THEN @ ELSE @ \cup {id}]
       /\ todo' = [todo EXCEPT ![i] = @ \ {id}]
  /\ UNCHANGED <<tables, pc, batch, found, made, cleanVars>>

CommitCompleted(i) ==
  /\ pc[i] = "mark"
  /\ todo[i] = {}
  /\ invTargets' = invTargets \cup {<<i, t.id>> : t \in found[i]}
  /\ markers' = markers \cup marked[i]
  /\ completed' = [completed EXCEPT ![i] = @ \cup batch[i]]
  /\ EndTx(i, "idle")
  /\ UNCHANGED <<targets, mappings, state, configured, cleanVars>>

\* The stream ends or breaks: an open transaction is rolled back.
Disconnect(i) == pc[i] # "off" /\ Rollback(i, "off")

-----------------------------------------------------------------------------
(* The cleanup service.                                                    *)

\* A row that a recorder has locked is skipped.
LockInvocation(i) ==
  /\ state[i] = "open"
  /\ pc[i] \notin InTx
  /\ state' = [state EXCEPT ![i] = "locked"]
  /\ UNCHANGED <<targets, mappings, invTargets, markers, configured, completed, recVars, cleanVars>>

NotOf(i, rows) == {x \in rows : x[1] # i}

\* DeleteOldInvocationsFromPages; the rows that refer to the invocation go too.
RemoveOldInvocation(i) ==
  /\ state[i] = "locked"
  /\ state' = [state EXCEPT ![i] = "removed"]
  /\ mappings' = NotOf(i, mappings)
  /\ invTargets' = NotOf(i, invTargets)
  /\ configured' = [configured EXCEPT ![i] = {}]
  /\ completed' = [completed EXCEPT ![i] = {}]
  /\ UNCHANGED <<targets, markers, recVars, cleanVars>>

RemovableMappings == {m \in mappings : state[m[1]] = "locked"}

\* DeleteTargetKindMappingsFromPages
RemoveTargetKindMappings ==
  /\ RemovableMappings # {}
  /\ mappings' = mappings \ RemovableMappings
  /\ UNCHANGED <<targets, invTargets, markers, state, configured, completed, recVars, cleanVars>>

IsReferredTo(id) == id \in markers \/ \E i \in Invocations : <<i, id>> \in mappings \cup invTargets

\* DeleteUnusedTargetsFromPages, the selection.
SelectUnusedTargets ==
  /\ unused = {}
  /\ unused' = {id \in IdsOf(targets) : ~IsReferredTo(id)}
  /\ unused' # {}
  /\ UNCHANGED <<tables, recVars, orphans>>

\* Mutant: rows that a transaction refers to are deleted as well.
DeletableAnyway == unused \cap IdsOf(targets)

\* FOR UPDATE SKIP LOCKED
Deletable == (unused \cap IdsOf(targets)) \ LockedIds

Without(ids, rows) == {x \in rows : x[2] \notin ids}

\* DeleteUnusedTargetsFromPages, the deletion: of what was selected, with all the
\* mappings and invocation targets that refer to it by now.  A marker that
\* refers to it makes the statement fail.
RemoveUnusedTargets ==
  /\ unused # {}
  /\ unused' = {}
  /\ IF Deletable \cap markers = {}
     THEN /\ targets' = {t \in targets : t.id \notin Deletable}
          /\ mappings' = Without(Deletable, mappings)
          /\ invTargets' = Without(Deletable, invTargets)
     ELSE UNCHANGED <<targets, mappings, invTargets>>
  /\ UNCHANGED <<markers, state, configured, completed, recVars, orphans>>

\* Mutant: only markers without a target count as orphaned.
OrphanedWithoutTarget == markers \ IdsOf(targets)

\* Every invocation target of a test has its test summary.
Orphaned == {id \in markers : \A i \in Invocations : <<i, id>> \notin invTargets}

\* DeleteOrphanedTestTargetsFromPages, the selection and the deletion.
SelectOrphanedTestTargets ==
  /\ orphans = {}
  /\ Orphaned # {}
  /\ orphans' = Orphaned
  /\ UNCHANGED <<tables, recVars, unused>>

RemoveOrphanedTestTargets ==
  /\ orphans # {}
  /\ orphans' = {}
  /\ markers' = markers \ orphans
  /\ UNCHANGED <<targets, mappings, invTargets, state, configured, completed, recVars, unused>>

-----------------------------------------------------------------------------

\* The statements of a transaction, one after the other.
Step(i) ==
  \/ Retry(i) \/ CreateTarget(i) \/ CreateMappings(i) \/ CommitConfigured(i)
  \/ CreateInvocationTargets(i) \/ CreateTestTarget(i) \/ CommitCompleted(i)

Next ==
  \/ \E i \in Invocations :
       \/ SaveConfigured(i) \/ SaveCompleted(i) \/ Step(i)
       \/ Disconnect(i)
       \/ LockInvocation(i) \/ RemoveOldInvocation(i)
  \/ RemoveTargetKindMappings
  \/ SelectUnusedTargets \/ RemoveUnusedTargets
  \/ SelectOrphanedTestTargets \/ RemoveOrphanedTestTargets

Spec == Init /\ [][Next]_vars

\* The goroutine of each recorder runs; the tasks of the cleanup service are run
\* tick after tick.
Fairness ==
  /\ \A i \in Invocations : WF_vars(Step(i))
  /\ WF_vars(RemoveTargetKindMappings)
  /\ WF_vars(SelectUnusedTargets) /\ WF_vars(RemoveUnusedTargets)
  /\ WF_vars(SelectOrphanedTestTargets) /\ WF_vars(RemoveOrphanedTestTargets)
FairSpec == Spec /\ Fairness

-----------------------------------------------------------------------------
(* Properties.                                                             *)

\* No transactions wait for each other in a circle, however their events
\* overlap: inserting in a common order rules deadlock out.
NoCircularWait ==
  LET WaitsFor(i, j) == \E x \in NextInOrder(i) : Blocks(j, i, x)
  IN \A S \in (SUBSET Invocations) \ {{}} : \E i \in S : \A j \in S : ~WaitsFor(i, j)

\* TargetCompleted does not say the kind of its target.  What is recorded is the
\* target of the kind that this invocation has configured, although other
\* invocations have targets of the same label and of other kinds.
KindIsRight ==
  \A x \in invTargets : Row(x[2]).kind = Kind[x[1]][Row(x[2]).label]

\* The targets with label l that rows of invocation i refer to; it is the one of its kind.
TargetsOf(rows, i, l) == {t \in targets : t.label = l /\ <<i, t.id>> \in rows}
HasItsTarget(rows, i, l) ==
  \E t \in targets : TargetsOf(rows, i, l) = {t} /\ t.kind = Kind[i][l]

\* An event is marked as handled with all that it is to leave in the database, although its
\* target may be found, be inserted by someone else, or be deleted, until the commit:
\* TargetConfigured maps its invocation to one target with this label, of the kind it has
\* in this invocation; TargetCompleted refers to the target that is mapped.
SavedWithItsTarget ==
  [][\A i \in Invocations :
       /\ \A l \in configured'[i] \ configured[i] : HasItsTarget(mappings, i, l)'
       /\ \A l \in completed'[i] \ completed[i] :
            /\ HasItsTarget(invTargets, i, l)'
            /\ (TargetsOf(invTargets, i, l) = TargetsOf(mappings, i, l))']_vars

\* A batch of TargetConfigured events gets through, or its stream ends: retries
\* come to an end, whatever other recorders insert and the cleanup removes.
ConfiguredGetsThrough ==
  \A i \in Invocations : pc[i] \in {"create", "mapped", "retry"} ~> pc[i] \in {"idle", "off"}

\* When no invocation is left, nothing of their targets stays either.
TargetsGoAway ==
  (\A i \in Invocations : state[i] = "removed") ~> targets = {} /\ markers = {}
=============================================================================
