--------------------------- MODULE Targets_proofs ---------------------------
(***************************************************************************)
(* Proofs about Targets, for any number of invocations, labels and batches *)
(* of events: what is committed refers to rows that exist, the kind that   *)
(* is recorded for a completed target is the one that its invocation has   *)
(* configured, an event is handled with its target in the database, and no *)
(* transactions wait for each other in a circle.                           *)
(***************************************************************************)
EXTENDS Targets, WellFoundedInduction, TLAPS

(***************************************************************************)
(* The inductive invariant.  An identifier stands for one row, also when   *)
(* the row is not committed yet or has been removed while a transaction    *)
(* remembers it (UniqueIds).  A transaction that refers to rows keeps them *)
(* (ReferredStay).  Rows are inserted in their order (InsertedIsBefore).   *)
(***************************************************************************)

\* The rows that are committed or that a transaction remembers.
Known == targets \cup UNION {found[i] : i \in Invocations}
UniqueIds == \A t, u \in Known : t.id = u.id => t = u

MadeIsFound ==
  \A i \in Invocations :
    /\ made[i] \subseteq found[i]
    /\ made[i] # {} => pc[i] \in {"create", "mapped"}
    /\ marked[i] # {} => pc[i] = "mark"
    /\ todo[i] # {} => pc[i] \in {"create", "mark"}

ReferredStay ==
  \A i \in Invocations :
    pc[i] \in {"mapped", "mark"} => found[i] \subseteq targets \cup made[i]

InsertedIsBefore ==
  \A i \in Invocations :
    /\ pc[i] = "create" => \A t \in made[i], l \in todo[i] : t.label < l
    /\ pc[i] = "mark" => \A id \in marked[i], x \in todo[i] : id < x

FoundKind == \A i \in Invocations : \A t \in found[i] : t.kind = Kind[i][t.label]
ReferredKind ==
  \A x \in mappings \cup invTargets, t \in targets :
    t.id = x[2] => t.kind = Kind[x[1]][t.label]

RowsInv == UniqueIds /\ FoundKind /\ ReferredKind
TxInv == MadeIsFound /\ ReferredStay /\ InsertedIsBefore
IInv == TypeOK /\ RowsInv /\ TxInv

-----------------------------------------------------------------------------
(* TypeOK in two parts: what is committed, and what transactions remember. *)

TablesOK ==
  /\ targets \subseteq Rows
  /\ mappings \subseteq Invocations \X IdsOf(targets)
  /\ invTargets \subseteq Invocations \X IdsOf(targets)
  /\ markers \subseteq IdsOf(targets)
  /\ state \in [Invocations -> {"open", "locked", "removed"}]
  /\ configured \in [Invocations -> SUBSET Labels]
  /\ completed \in [Invocations -> SUBSET Labels]

TxOK ==
  /\ pc \in [Invocations -> PCs]
  /\ batch \in [Invocations -> SUBSET Labels]
  /\ found \in [Invocations -> SUBSET Rows]
  /\ todo \in [Invocations -> SUBSET Nat]
  /\ made \in [Invocations -> SUBSET Rows]
  /\ marked \in [Invocations -> SUBSET Nat]
  /\ \A i \in Invocations :
       /\ todo[i] \subseteq IF pc[i] = "create" THEN batch[i] ELSE IdsOf(found[i])
       /\ marked[i] \subseteq IdsOf(found[i])

LEMMA TypeParts ==
  /\ TypeOK <=> TablesOK /\ TxOK
  /\ TypeOK' <=> TablesOK' /\ TxOK'
<1>1. TypeOK <=> TablesOK /\ TxOK
  BY DEF TypeOK, TablesOK, TxOK
<1> QED
  BY <1>1, PTL

LEMMA RowTypes ==
  ASSUME NEW t \in Rows
  PROVE  t.id \in Nat /\ t.id <= MaxId /\ t.label \in Labels /\ t.label \in Nat
  BY TargetsAssumption DEF Rows, Labels

LEMMA IdsAreNaturals ==
  ASSUME NEW S \in SUBSET Rows
  PROVE  IdsOf(S) \subseteq Nat
  BY RowTypes DEF IdsOf

-----------------------------------------------------------------------------
(* Transactions, whatever they do to the tables.                           *)

\* The end of a transaction.
LEMMA EndTxEffect ==
  ASSUME TxOK, TxInv, NEW i \in Invocations, NEW label \in {"idle", "off", "retry"},
         EndTx(i, label), targets \subseteq targets'
  PROVE  /\ TxOK' /\ TxInv'
         /\ \A j \in Invocations : found'[j] \subseteq found[j]
<1>1. /\ pc'[i] = label /\ found'[i] = {} /\ todo'[i] = {} /\ made'[i] = {} /\ marked'[i] = {}
      /\ \A j \in Invocations \ {i} :
           /\ pc'[j] = pc[j] /\ batch'[j] = batch[j] /\ found'[j] = found[j]
           /\ todo'[j] = todo[j] /\ made'[j] = made[j] /\ marked'[j] = marked[j]
  BY DEF TxOK, EndTx
<1>2. TxOK'
  BY <1>1 DEF TxOK, EndTx, PCs, InTx
<1>3. MadeIsFound'
  BY <1>1 DEF TxInv, MadeIsFound
<1>4. ReferredStay'
  BY <1>1 DEF TxInv, ReferredStay
<1>5. InsertedIsBefore'
  BY <1>1 DEF TxInv, InsertedIsBefore
<1> QED
  BY <1>1, <1>2, <1>3, <1>4, <1>5 DEF TxInv

\* The beginning: FindTargets and SaveCompleted.
LEMMA BeginTx ==
  ASSUME TxOK, TxInv, UNCHANGED <<targets, made, marked>>,
         NEW i \in Invocations, pc[i] \in {"idle", "retry"},
         NEW label \in {"create", "insert"}, NEW labels \in SUBSET Labels,
         NEW rows \in SUBSET Rows, NEW rest \in SUBSET Nat,
         label = "create" => rest \subseteq labels,
         label = "insert" => rest = {},
         pc' = [pc EXCEPT ![i] = label], batch' = [batch EXCEPT ![i] = labels],
         found' = [found EXCEPT ![i] = rows], todo' = [todo EXCEPT ![i] = rest]
  PROVE  TxOK' /\ TxInv'
<1>1. /\ pc'[i] = label /\ batch'[i] = labels /\ found'[i] = rows /\ todo'[i] = rest
      /\ made'[i] = {} /\ marked'[i] = {}
      /\ \A j \in Invocations \ {i} :
           /\ pc'[j] = pc[j] /\ batch'[j] = batch[j] /\ found'[j] = found[j]
           /\ todo'[j] = todo[j] /\ made'[j] = made[j] /\ marked'[j] = marked[j]
  BY DEF TxOK, TxInv, MadeIsFound
<1>2. TxOK'
  <2>1. /\ pc' \in [Invocations -> PCs] /\ batch' \in [Invocations -> SUBSET Labels]
        /\ found' \in [Invocations -> SUBSET Rows] /\ todo' \in [Invocations -> SUBSET Nat]
        /\ made' \in [Invocations -> SUBSET Rows] /\ marked' \in [Invocations -> SUBSET Nat]
    BY DEF TxOK, PCs, InTx
  <2>2. \A j \in Invocations :
          /\ todo'[j] \subseteq IF pc'[j] = "create" THEN batch'[j] ELSE IdsOf(found'[j])
          /\ marked'[j] \subseteq IdsOf(found'[j])
    BY <1>1 DEF TxOK
  <2> QED
    BY <2>1, <2>2 DEF TxOK, IdsOf
<1>3. MadeIsFound'
  BY <1>1 DEF TxInv, MadeIsFound
<1>4. ReferredStay'
  BY <1>1 DEF TxInv, ReferredStay
<1>5. InsertedIsBefore'
  BY <1>1 DEF TxInv, InsertedIsBefore
<1> QED
  BY <1>2, <1>3, <1>4, <1>5 DEF TxInv

-----------------------------------------------------------------------------
(* What is known of rows.                                                  *)

LEMMA FewerRows ==
  ASSUME RowsInv, targets' \subseteq targets,
         mappings' \subseteq mappings, invTargets' \subseteq invTargets,
         \A j \in Invocations : found'[j] \subseteq found[j]
  PROVE  RowsInv'
<1>1. Known' \subseteq Known
  BY DEF Known
<1> QED
  BY <1>1 DEF RowsInv, UniqueIds, FoundKind, ReferredKind

LEMMA FoundRows ==
  ASSUME TxOK, RowsInv, UNCHANGED <<targets, mappings, invTargets>>,
         NEW i \in Invocations, NEW rows \in SUBSET targets,
         \A t \in rows : t.kind = Kind[i][t.label],
         found' = [found EXCEPT ![i] = rows]
  PROVE  RowsInv'
<1>1. found'[i] = rows /\ \A j \in Invocations \ {i} : found'[j] = found[j]
  BY DEF TxOK
<1>2. Known' \subseteq Known
  BY <1>1 DEF Known
<1> QED
  BY <1>1, <1>2 DEF RowsInv, UniqueIds, FoundKind, ReferredKind

LEMMA CommittedRows ==
  ASSUME TablesOK, RowsInv, NEW i \in Invocations, NEW new \in SUBSET found[i],
         targets' = targets \cup new,
         mappings' \cup invTargets'
           \subseteq mappings \cup invTargets \cup {<<i, t.id>> : t \in found[i]},
         \A j \in Invocations : found'[j] \subseteq found[j]
  PROVE  RowsInv'
<1>1. Known' \subseteq Known
  BY DEF Known
<1>2. ASSUME NEW x \in mappings' \cup invTargets', NEW t \in targets', t.id = x[2]
      PROVE  t.kind = Kind[x[1]][t.label]
  <2>1. t \in Known
    BY DEF Known
  <2>2. CASE x \in mappings \cup invTargets
    <3>1. PICK u \in targets : u.id = x[2]
      BY <2>2 DEF TablesOK, IdsOf
    <3>2. t = u
      BY <1>2, <2>1, <3>1 DEF RowsInv, UniqueIds, Known
    <3> QED
      BY <1>2, <2>2, <3>2 DEF RowsInv, ReferredKind
  <2>3. CASE x \notin mappings \cup invTargets
    <3>1. PICK u \in found[i] : x = <<i, u.id>>
      BY <2>3
    <3>2. t = u
      BY <1>2, <2>1, <3>1 DEF RowsInv, UniqueIds, Known
    <3> QED
      BY <3>1, <3>2 DEF RowsInv, FoundKind
  <2> QED
    BY <2>2, <2>3
<1>3. ReferredKind'
  BY <1>2 DEF ReferredKind
<1> QED
  BY <1>1, <1>3 DEF RowsInv, UniqueIds, FoundKind

-----------------------------------------------------------------------------
(* The steps of a recorder.                                                *)

LEMMA RollbackStep ==
  ASSUME IInv, NEW i \in Invocations, NEW label \in {"off", "retry"}, Rollback(i, label)
  PROVE  IInv'
<1>1. EndTx(i, label) /\ UNCHANGED tables
  BY DEF Rollback
<1>2. TxOK' /\ TxInv' /\ \A j \in Invocations : found'[j] \subseteq found[j]
  BY <1>1, EndTxEffect, TypeParts DEF IInv, tables
<1>3. TablesOK'
  BY <1>1, TypeParts DEF IInv, TablesOK, tables, IdsOf
<1>4. RowsInv'
  BY <1>1, <1>2, FewerRows DEF IInv, tables
<1> QED
  BY <1>2, <1>3, <1>4, TypeParts DEF IInv

LEMMA FindTargetsStep ==
  ASSUME IInv, NEW i \in Invocations, NEW labels \in SUBSET Labels,
         pc[i] \in {"idle", "retry"}, FindTargets(i, labels)
  PROVE  IInv'
<1> DEFINE rows == {t \in targets : t.label \in labels /\ t.kind = Kind[i][t.label]}
           rest == MissingLabels(i, labels, rows)
<1>1. /\ UNCHANGED tables /\ UNCHANGED <<made, marked>>
      /\ pc' = [pc EXCEPT ![i] = "create"] /\ batch' = [batch EXCEPT ![i] = labels]
      /\ found' = [found EXCEPT ![i] = rows] /\ todo' = [todo EXCEPT ![i] = rest]
  BY DEF FindTargets
<1>2. /\ rest \subseteq labels /\ rest \in SUBSET Nat
      /\ rows \in SUBSET targets /\ \A t \in rows : t.kind = Kind[i][t.label]
  BY TargetsAssumption DEF MissingLabels, Labels
<1>3. rows \in SUBSET Rows
  BY <1>2 DEF IInv, TypeOK
<1> HIDE DEF rows, rest
<1>4. TxOK' /\ TxInv'
  BY <1>1, <1>2, <1>3, BeginTx, TypeParts DEF IInv, tables
<1>5. TablesOK'
  BY <1>1, TypeParts DEF IInv, TablesOK, tables, IdsOf
<1>6. RowsInv'
  BY <1>1, <1>2, FoundRows, TypeParts DEF IInv, tables
<1> QED
  BY <1>4, <1>5, <1>6, TypeParts DEF IInv

LEMMA SaveConfiguredStep ==
  ASSUME IInv, NEW i \in Invocations, SaveConfigured(i)
  PROVE  IInv'
  BY FindTargetsStep, TargetsAssumption DEF SaveConfigured

LEMMA RetryStep ==
  ASSUME IInv, NEW i \in Invocations, Retry(i)
  PROVE  IInv'
<1>1. batch[i] \in SUBSET Labels
  BY DEF IInv, TypeOK
<1> QED
  BY <1>1, FindTargetsStep, RollbackStep DEF Retry

LEMMA SaveCompletedStep ==
  ASSUME IInv, NEW i \in Invocations, SaveCompleted(i)
  PROVE  IInv'
<1>1. PICK labels \in Batches :
        IF MissingLabels(i, labels, Mapped(i, labels)) = {}
        THEN /\ pc' = [pc EXCEPT ![i] = "insert"]
             /\ batch' = [batch EXCEPT ![i] = labels]
             /\ found' = [found EXCEPT ![i] = Mapped(i, labels)]
             /\ UNCHANGED <<tables, todo, made, marked, cleanVars>>
        ELSE Rollback(i, "off")
  BY DEF SaveCompleted
<1>2. CASE MissingLabels(i, labels, Mapped(i, labels)) = {}
  <2>1. /\ Mapped(i, labels) \in SUBSET targets
        /\ \A t \in Mapped(i, labels) : <<i, t.id>> \in mappings
    BY DEF Mapped
  <2>2. \A t \in Mapped(i, labels) : t.kind = Kind[i][t.label]
    <3>1. \A x \in mappings, t \in targets : t.id = x[2] => t.kind = Kind[x[1]][t.label]
      BY DEF IInv, RowsInv, ReferredKind
    <3>2. \A t \in Mapped(i, labels) : t.kind = Kind[<<i, t.id>>[1]][t.label]
      BY <2>1, <3>1
    <3> QED
      BY <3>2
  <2>3. labels \in SUBSET Labels /\ Mapped(i, labels) \in SUBSET Rows
    BY <2>1, TargetsAssumption DEF IInv, TypeOK
  <2>4. pc[i] = "idle"
    BY DEF SaveCompleted
  <2>5. TxOK' /\ TxInv'
    <3>1. todo[i] = {} /\ todo' = [todo EXCEPT ![i] = {}]
      BY <1>1, <1>2, <2>4 DEF IInv, TypeOK, TxInv, MadeIsFound
    <3> QED
      BY <1>1, <1>2, <2>3, <2>4, <3>1, BeginTx, TypeParts DEF IInv, tables
  <2>6. RowsInv'
    BY <1>1, <1>2, <2>1, <2>2, FoundRows, TypeParts DEF IInv, tables
  <2>7. TablesOK'
    BY <1>1, <1>2, TypeParts DEF IInv, TablesOK, tables, IdsOf
  <2> QED
    BY <2>5, <2>6, <2>7, TypeParts DEF IInv
<1>3. CASE MissingLabels(i, labels, Mapped(i, labels)) # {}
  BY <1>1, <1>3, RollbackStep
<1> QED
  BY <1>2, <1>3

LEMMA CreateTargetStep ==
  ASSUME IInv, NEW i \in Invocations, CreateTarget(i)
  PROVE  IInv'
<1> DEFINE row(l) == [id |-> FreshId, label |-> l, kind |-> Kind[i][l]]
<1>1. PICK l \in NextInOrder(i) :
        \/ Rollback(i, "retry")
        \/ /\ FreshIds # {}
           /\ made' = [made EXCEPT ![i] = @ \cup {row(l)}]
           /\ found' = [found EXCEPT ![i] = @ \cup {row(l)}]
           /\ todo' = [todo EXCEPT ![i] = @ \ {l}]
           /\ UNCHANGED <<tables, pc, batch, marked, cleanVars>>
  BY DEF CreateTarget
<1>2. CASE Rollback(i, "retry")
  BY <1>2, RollbackStep
<1>3. CASE ~Rollback(i, "retry")
  <2> DEFINE new == row(l)
  <2>1. FreshId \in FreshIds
    BY <1>1, <1>3 DEF FreshId
  <2>2. pc[i] = "create" /\ l \in todo[i] /\ \A x \in todo[i] : l <= x
    BY DEF CreateTarget, NextInOrder
  <2>3. l \in Labels
    BY <2>2 DEF IInv, TypeOK
  <2>4. new \in Rows /\ new.id \notin UsedIds /\ new.label = l /\ new.kind = Kind[i][l]
    BY <2>1, <2>3 DEF Rows, FreshIds
  <2> HIDE DEF new
  <2>5. /\ made'[i] = made[i] \cup {new} /\ found'[i] = found[i] \cup {new}
        /\ todo'[i] = todo[i] \ {l}
        /\ UNCHANGED <<tables, pc, batch, marked>>
        /\ \A j \in Invocations \ {i} :
             found'[j] = found[j] /\ todo'[j] = todo[j] /\ made'[j] = made[j]
    BY <1>1, <1>3 DEF IInv, TypeOK, new
  <2>6. TxOK'
    <3>1. /\ made' \in [Invocations -> SUBSET Rows] /\ found' \in [Invocations -> SUBSET Rows]
          /\ todo' \in [Invocations -> SUBSET Nat]
      BY <1>1, <1>3, <2>4 DEF IInv, TypeOK, new
    <3>2. \A j \in Invocations :
            /\ todo'[j] \subseteq IF pc'[j] = "create" THEN batch'[j] ELSE IdsOf(found'[j])
            /\ marked'[j] \subseteq IdsOf(found'[j])
      BY <2>2, <2>5 DEF IInv, TypeOK, IdsOf
    <3> QED
      BY <2>5, <3>1, <3>2, TypeParts DEF IInv, TxOK, IdsOf
  <2>7. TablesOK'
    BY <2>5, TypeParts DEF IInv, TablesOK, tables, IdsOf
  <2>8. MadeIsFound' /\ ReferredStay'
    BY <2>2, <2>5 DEF IInv, TxInv, MadeIsFound, ReferredStay, tables
  <2>9. InsertedIsBefore'
    <3>1. \A t \in made'[i], x \in todo'[i] : t.label < x
      <4>1. \A x \in todo'[i] : x \in Nat /\ l \in Nat /\ l <= x /\ l # x
        BY <2>2, <2>5 DEF IInv, TypeOK
      <4> QED
        BY <2>2, <2>4, <2>5, <4>1 DEF IInv, TxInv, InsertedIsBefore
    <3> QED
      BY <2>2, <2>5, <3>1 DEF IInv, TxInv, InsertedIsBefore
  <2>10. UniqueIds'
    <3>1. Known' \subseteq Known \cup {new}
      BY <2>5 DEF Known, tables
    <3>2. \A t \in Known : t.id # new.id
      BY <2>4 DEF Known, UsedIds, IdsOf
    <3> QED
      BY <3>1, <3>2 DEF IInv, RowsInv, UniqueIds
  <2>11. FoundKind' /\ ReferredKind'
    BY <2>4, <2>5 DEF IInv, RowsInv, FoundKind, ReferredKind, tables
  <2> QED
    BY <2>6, <2>7, <2>8, <2>9, <2>10, <2>11, TypeParts DEF IInv, RowsInv, TxInv
<1> QED
  BY <1>2, <1>3

\* The statements after which a transaction refers to the rows that it has found.
LEMMA ReferTx ==
  ASSUME IInv, NEW i \in Invocations, UNCHANGED <<tables, batch, found, made, marked>>,
         NEW label \in {"mapped", "mark"}, pc' = [pc EXCEPT ![i] = label],
         NEW rest \in SUBSET Nat, todo' = [todo EXCEPT ![i] = rest],
         rest \subseteq IdsOf(found[i]), label = "mapped" => rest = {},
         label = "mark" => made[i] = {}, marked[i] = {},
         found[i] \subseteq targets \cup made[i]
  PROVE  IInv'
<1>1. /\ pc'[i] = label /\ todo'[i] = rest
      /\ \A j \in Invocations \ {i} : pc'[j] = pc[j] /\ todo'[j] = todo[j]
  BY DEF IInv, TypeOK
<1>2. TxOK'
  <2>1. pc' \in [Invocations -> PCs] /\ todo' \in [Invocations -> SUBSET Nat]
    BY DEF IInv, TypeOK, PCs, InTx
  <2>2. \A j \in Invocations :
          /\ todo'[j] \subseteq IF pc'[j] = "create" THEN batch'[j] ELSE IdsOf(found'[j])
          /\ marked'[j] \subseteq IdsOf(found'[j])
    BY <1>1 DEF IInv, TypeOK, IdsOf
  <2> QED
    BY <2>1, <2>2 DEF IInv, TypeOK, TxOK, IdsOf
<1>3. TablesOK'
  BY TypeParts DEF IInv, TablesOK, tables, IdsOf
<1>4. TxInv'
  BY <1>1 DEF IInv, TxInv, MadeIsFound, ReferredStay, InsertedIsBefore, tables
<1>5. RowsInv'
  BY FewerRows DEF IInv, tables
<1> QED
  BY <1>2, <1>3, <1>4, <1>5, TypeParts DEF IInv

LEMMA CreateMappingsStep ==
  ASSUME IInv, NEW i \in Invocations, CreateMappings(i)
  PROVE  IInv'
<1>1. CASE found[i] \subseteq targets \cup made[i]
  <2>1. /\ pc[i] = "create" /\ todo[i] = {} /\ UNCHANGED <<tables, txVars>>
        /\ pc' = [pc EXCEPT ![i] = "mapped"]
    BY <1>1 DEF CreateMappings
  <2>2. marked[i] = {} /\ todo' = [todo EXCEPT ![i] = {}]
    BY <2>1 DEF IInv, TypeOK, TxInv, MadeIsFound, txVars
  <2> QED
    BY <1>1, <2>1, <2>2, ReferTx DEF txVars
<1>2. CASE ~(found[i] \subseteq targets \cup made[i])
  BY <1>2, RollbackStep DEF CreateMappings
<1> QED
  BY <1>1, <1>2

LEMMA CreateInvocationTargetsStep ==
  ASSUME IInv, NEW i \in Invocations, CreateInvocationTargets(i)
  PROVE  IInv'
<1>1. CASE found[i] \subseteq targets
  <2> DEFINE rest == IdsOf({t \in found[i] : t.label \in Tests})
  <2>1. /\ pc[i] = "insert" /\ UNCHANGED <<tables, batch, found, made, marked>>
        /\ pc' = [pc EXCEPT ![i] = "mark"] /\ todo' = [todo EXCEPT ![i] = rest]
    BY <1>1 DEF CreateInvocationTargets
  <2>2. rest \subseteq IdsOf(found[i]) /\ rest \in SUBSET Nat
    <3>1. found[i] \in SUBSET Rows
      BY DEF IInv, TypeOK
    <3> QED
      BY <3>1, IdsAreNaturals DEF IdsOf
  <2>3. marked[i] = {} /\ made[i] = {}
    BY <2>1 DEF IInv, TxInv, MadeIsFound
  <2> HIDE DEF rest
  <2> QED
    BY <1>1, <2>1, <2>2, <2>3, ReferTx
<1>2. CASE ~(found[i] \subseteq targets)
  BY <1>2, RollbackStep DEF CreateInvocationTargets
<1> QED
  BY <1>1, <1>2

LEMMA CreateTestTargetStep ==
  ASSUME IInv, NEW i \in Invocations, CreateTestTarget(i)
  PROVE  IInv'
<1>1. PICK id \in NextInOrder(i) :
        /\ marked' = [marked EXCEPT ![i] = IF id \in markers THEN @ ELSE @ \cup {id}]
        /\ todo' = [todo EXCEPT ![i] = @ \ {id}]
  BY DEF CreateTestTarget
<1>2. pc[i] = "mark" /\ UNCHANGED <<tables, pc, batch, found, made>>
  BY DEF CreateTestTarget
<1>3. id \in todo[i] /\ id \in Nat /\ \A x \in todo[i] : x \in Nat /\ id <= x
  BY DEF NextInOrder, IInv, TypeOK
<1>4. /\ marked'[i] \subseteq marked[i] \cup {id} /\ todo'[i] = todo[i] \ {id}
      /\ \A j \in Invocations \ {i} : marked'[j] = marked[j] /\ todo'[j] = todo[j]
  BY <1>1 DEF IInv, TypeOK
<1>5. TxOK'
  <2>1. marked' \in [Invocations -> SUBSET Nat] /\ todo' \in [Invocations -> SUBSET Nat]
    BY <1>1, <1>3 DEF IInv, TypeOK
  <2>2. \A j \in Invocations :
          /\ todo'[j] \subseteq IF pc'[j] = "create" THEN batch'[j] ELSE IdsOf(found'[j])
          /\ marked'[j] \subseteq IdsOf(found'[j])
    BY <1>2, <1>3, <1>4 DEF IInv, TypeOK, IdsOf
  <2> QED
    BY <1>2, <2>1, <2>2 DEF IInv, TypeOK, TxOK, IdsOf
<1>6. TablesOK'
  BY <1>2, TypeParts DEF IInv, TablesOK, tables, IdsOf
<1>7. MadeIsFound' /\ ReferredStay'
  BY <1>2, <1>4 DEF IInv, TxInv, MadeIsFound, ReferredStay, tables
<1>8. InsertedIsBefore'
  <2>1. \A y \in marked'[i], x \in todo'[i] : y < x
    BY <1>2, <1>3, <1>4 DEF IInv, TxInv, InsertedIsBefore
  <2> QED
    BY <1>2, <1>4, <2>1 DEF IInv, TxInv, InsertedIsBefore
<1>9. RowsInv'
  BY <1>2, FewerRows DEF IInv, tables
<1> QED
  BY <1>5, <1>6, <1>7, <1>8, <1>9, TypeParts DEF IInv, TxInv

LEMMA CommitConfiguredStep ==
  ASSUME IInv, NEW i \in Invocations, CommitConfigured(i)
  PROVE  IInv'
<1>1. /\ pc[i] = "mapped"
      /\ targets' = targets \cup made[i]
      /\ mappings' = mappings \cup {<<i, t.id>> : t \in found[i]}
      /\ configured' = [configured EXCEPT ![i] = @ \cup batch[i]]
      /\ EndTx(i, "idle")
      /\ UNCHANGED <<invTargets, markers, state, completed>>
  BY DEF CommitConfigured
<1>2. TxOK' /\ TxInv' /\ \A j \in Invocations : found'[j] \subseteq found[j]
  BY <1>1, EndTxEffect, TypeParts DEF IInv
<1>3. made[i] \subseteq found[i] /\ found[i] \subseteq targets'
  BY <1>1 DEF IInv, TxInv, MadeIsFound, ReferredStay
<1>4. TablesOK'
  <2>1. targets' \subseteq Rows /\ configured' \in [Invocations -> SUBSET Labels]
    BY <1>1 DEF IInv, TypeOK
  <2>2. mappings' \subseteq Invocations \X IdsOf(targets')
    BY <1>1, <1>3 DEF IInv, TypeOK, IdsOf
  <2>3. /\ invTargets' \subseteq Invocations \X IdsOf(targets')
        /\ markers' \subseteq IdsOf(targets')
    BY <1>1 DEF IInv, TypeOK, IdsOf
  <2> QED
    BY <1>1, <2>1, <2>2, <2>3 DEF IInv, TypeOK, TablesOK, IdsOf
<1>5. RowsInv'
  BY <1>1, <1>2, <1>3, CommittedRows, TypeParts DEF IInv
<1> QED
  BY <1>2, <1>4, <1>5, TypeParts DEF IInv

LEMMA CommitCompletedStep ==
  ASSUME IInv, NEW i \in Invocations, CommitCompleted(i)
  PROVE  IInv'
<1>1. /\ pc[i] = "mark"
      /\ invTargets' = invTargets \cup {<<i, t.id>> : t \in found[i]}
      /\ markers' = markers \cup marked[i]
      /\ completed' = [completed EXCEPT ![i] = @ \cup batch[i]]
      /\ EndTx(i, "idle")
      /\ UNCHANGED <<targets, mappings, state, configured>>
  BY DEF CommitCompleted
<1>2. TxOK' /\ TxInv' /\ \A j \in Invocations : found'[j] \subseteq found[j]
  BY <1>1, EndTxEffect, TypeParts DEF IInv
<1>3. found[i] \subseteq targets
  BY <1>1 DEF IInv, TxInv, MadeIsFound, ReferredStay
<1>4. TablesOK'
  <2>1. completed' \in [Invocations -> SUBSET Labels]
    BY <1>1 DEF IInv, TypeOK
  <2>2. invTargets' \subseteq Invocations \X IdsOf(targets')
    BY <1>1, <1>3 DEF IInv, TypeOK, IdsOf
  <2>3. markers' \subseteq IdsOf(targets')
    BY <1>1, <1>3 DEF IInv, TypeOK, IdsOf
  <2> QED
    BY <1>1, <2>1, <2>2, <2>3 DEF IInv, TypeOK, TablesOK, IdsOf
<1>5. RowsInv'
  <2>1. targets' = targets \cup {}
    BY <1>1
  <2> QED
    BY <1>1, <1>2, <2>1, CommittedRows, TypeParts DEF IInv
<1> QED
  BY <1>2, <1>4, <1>5, TypeParts DEF IInv

-----------------------------------------------------------------------------
(* The steps of the cleanup service.                                       *)

\* It removes rows, but none that an open transaction refers to.
LEMMA RemovalStep ==
  ASSUME IInv, UNCHANGED recVars, targets' \subseteq targets, TablesOK',
         mappings' \subseteq mappings, invTargets' \subseteq invTargets,
         \A t \in targets \ targets' : t.id \notin LockedIds
  PROVE  IInv'
<1>1. TxOK'
  BY TypeParts DEF IInv, TypeOK, TxOK, recVars, txVars, IdsOf
<1>2. RowsInv'
  BY FewerRows DEF IInv, recVars, txVars
<1>3. MadeIsFound' /\ InsertedIsBefore'
  BY DEF IInv, TxInv, MadeIsFound, InsertedIsBefore, recVars, txVars
<1>4. ReferredStay'
  <2>1. \A i \in Invocations : \A t \in found[i] :
          pc[i] \in {"mapped", "mark"} => t.id \in LockedIds
    BY DEF LockedIds, IdsOf
  <2> QED
    BY <2>1 DEF IInv, TxInv, ReferredStay, recVars, txVars
<1> QED
  BY <1>1, <1>2, <1>3, <1>4, TypeParts DEF IInv, TxInv

LEMMA RemoveUnusedTargetsStep ==
  ASSUME IInv, RemoveUnusedTargets
  PROVE  IInv'
<1>1. UNCHANGED <<markers, state, configured, completed, recVars>>
  BY DEF RemoveUnusedTargets
<1>2. CASE Deletable \cap markers = {}
  <2>1. /\ targets' = {t \in targets : t.id \notin Deletable}
        /\ mappings' = Without(Deletable, mappings)
        /\ invTargets' = Without(Deletable, invTargets)
    BY <1>2 DEF RemoveUnusedTargets
  <2>2. IdsOf(targets') = IdsOf(targets) \ Deletable
    BY <2>1 DEF IdsOf
  <2>3. TablesOK'
    BY <1>1, <1>2, <2>1, <2>2 DEF IInv, TypeOK, TablesOK, Without
  <2>4. \A t \in targets \ targets' : t.id \notin LockedIds
    BY <2>1 DEF Deletable
  <2> QED
    BY <1>1, <2>1, <2>3, <2>4, RemovalStep DEF Without
<1>3. CASE Deletable \cap markers # {}
  <2>1. UNCHANGED <<targets, mappings, invTargets>>
    BY <1>3 DEF RemoveUnusedTargets
  <2>2. TablesOK'
    BY <1>1, <2>1 DEF IInv, TypeOK, TablesOK, IdsOf
  <2> QED
    BY <1>1, <2>1, <2>2, RemovalStep
<1> QED
  BY <1>2, <1>3

LEMMA OtherCleanupStep ==
  ASSUME IInv,
         \/ \E i \in Invocations : LockInvocation(i) \/ RemoveOldInvocation(i)
         \/ RemoveTargetKindMappings \/ SelectUnusedTargets
         \/ SelectOrphanedTestTargets \/ RemoveOrphanedTestTargets
  PROVE  IInv'
<1>1. /\ UNCHANGED <<recVars, targets>> /\ mappings' \subseteq mappings
      /\ invTargets' \subseteq invTargets /\ markers' \subseteq markers
  BY DEF LockInvocation, RemoveOldInvocation, RemoveTargetKindMappings, SelectUnusedTargets,
         SelectOrphanedTestTargets, RemoveOrphanedTestTargets, NotOf, tables
<1>2. /\ state' \in [Invocations -> {"open", "locked", "removed"}]
      /\ configured' \in [Invocations -> SUBSET Labels]
      /\ completed' \in [Invocations -> SUBSET Labels]
  BY DEF IInv, TypeOK, LockInvocation, RemoveOldInvocation, RemoveTargetKindMappings,
         SelectUnusedTargets, SelectOrphanedTestTargets, RemoveOrphanedTestTargets, tables
<1>3. TablesOK'
  BY <1>1, <1>2 DEF IInv, TypeOK, TablesOK, IdsOf
<1> QED
  BY <1>1, <1>3, RemovalStep

-----------------------------------------------------------------------------

LEMMA InitIInv == Init => IInv
<1> SUFFICES ASSUME Init PROVE IInv
  OBVIOUS
<1>1. TypeOK
  BY DEF Init, TypeOK, PCs, IdsOf
<1>2. RowsInv
  BY DEF Init, RowsInv, UniqueIds, FoundKind, ReferredKind, Known
<1>3. TxInv
  BY DEF Init, TxInv, MadeIsFound, ReferredStay, InsertedIsBefore
<1> QED
  BY <1>1, <1>2, <1>3 DEF IInv

LEMMA NextIInv == IInv /\ [Next]_vars => IInv'
<1> SUFFICES ASSUME IInv, [Next]_vars PROVE IInv'
  OBVIOUS
<1>1. ASSUME NEW i \in Invocations, SaveConfigured(i) \/ SaveCompleted(i) \/ Step(i)
      PROVE  IInv'
  BY <1>1, SaveConfiguredStep, SaveCompletedStep, RetryStep, CreateTargetStep,
     CreateMappingsStep, CommitConfiguredStep, CreateInvocationTargetsStep,
     CreateTestTargetStep, CommitCompletedStep
  DEF Step
<1>2. ASSUME NEW i \in Invocations, Disconnect(i)
      PROVE  IInv'
  BY <1>2, RollbackStep DEF Disconnect
<1>3. CASE UNCHANGED vars
  BY <1>3 DEF vars, tables, recVars, txVars, cleanVars, IInv, TypeOK, RowsInv, UniqueIds, Known,
              FoundKind, ReferredKind, TxInv, MadeIsFound, ReferredStay, InsertedIsBefore, IdsOf
<1> QED
  BY <1>1, <1>2, <1>3, RemoveUnusedTargetsStep, OtherCleanupStep DEF Next

LEMMA IInvHolds == Spec => []IInv
  BY InitIInv, NextIInv, PTL DEF Spec

\* Every variable keeps its type, and what is committed refers to committed rows,
\* whatever recorders and the cleanup service do at the same time.
THEOREM TargetsTypeOK == Spec => []TypeOK
<1>1. IInv => TypeOK
  BY DEF IInv
<1> QED
  BY <1>1, IInvHolds, PTL

\* The target recorded for a TargetCompleted event has the kind that its invocation
\* has configured (FindMappedTargets).
THEOREM KindIsRightAlways == Spec => []KindIsRight
<1>1. IInv => KindIsRight
  <2> SUFFICES ASSUME IInv, NEW x \in invTargets
               PROVE  Row(x[2]).kind = Kind[x[1]][Row(x[2]).label]
    BY DEF KindIsRight
  <2>1. \E t \in targets : t.id = x[2]
    BY DEF IInv, TypeOK, IdsOf
  <2>2. Row(x[2]) \in targets /\ Row(x[2]).id = x[2]
    BY <2>1 DEF Row
  <2> QED
    BY <2>2 DEF IInv, RowsInv, ReferredKind
<1> QED
  BY <1>1, IInvHolds, PTL

-----------------------------------------------------------------------------
(* What a batch leaves in the database.  A second invariant, on top of the *)
(* first: committed and uncommitted rows have different keys (OneKey), a   *)
(* row is known to the transaction that creates it only (MadeIsOwn), every *)
(* label of a batch has its row or has yet to get one (Covered), and the   *)
(* rows found for TargetCompleted events stay mapped until the commit      *)
(* (FoundMapped), since the invocation is not locked until then (OpenInTx).*)

Existing == targets \cup UNION {made[i] : i \in Invocations}
OneKey == \A t, u \in Existing : t.label = u.label /\ t.kind = u.kind => t = u

MadeIsOwn ==
  \A i \in Invocations : \A t \in made[i] :
    t \notin targets /\ \A j \in Invocations \ {i} : t \notin found[j]

Covered ==
  \A i \in Invocations : pc[i] \in InTx =>
    \A l \in batch[i] :
      \/ pc[i] = "create" /\ l \in todo[i]
      \/ \E t \in found[i] : t.label = l

FoundMapped ==
  \A i \in Invocations : pc[i] \in {"insert", "mark"} =>
    \A t \in found[i] \cap targets : <<i, t.id>> \in mappings

OpenInTx == \A i \in Invocations : pc[i] \in InTx => state[i] = "open"

BatchInv == OneKey /\ MadeIsOwn /\ Covered /\ FoundMapped /\ OpenInTx

\* The transaction of i begins with these labels and rows: FindTargets, SaveCompleted.
Begins(i, label, labels, rows, rest) ==
  /\ UNCHANGED <<targets, mappings, state, made>>
  /\ state[i] = "open" /\ rows \subseteq targets
  /\ pc' = [pc EXCEPT ![i] = label] /\ batch' = [batch EXCEPT ![i] = labels]
  /\ found' = [found EXCEPT ![i] = rows] /\ todo' = [todo EXCEPT ![i] = rest]
  /\ \/ /\ label = "create"
        /\ \A l \in labels : l \in rest \/ \E t \in rows : t.label = l
     \/ /\ label = "insert"
        /\ \A l \in labels : \E t \in rows : t.label = l
        /\ \A t \in rows : <<i, t.id>> \in mappings

LEMMA BeginBatch ==
  ASSUME IInv, BatchInv, NEW i \in Invocations, pc[i] \in {"idle", "retry"},
         NEW label, NEW labels, NEW rows, NEW rest, Begins(i, label, labels, rows, rest)
  PROVE  BatchInv'
<1> USE DEF Begins
<1>1. /\ pc'[i] = label /\ batch'[i] = labels /\ found'[i] = rows /\ todo'[i] = rest
      /\ \A j \in Invocations \ {i} :
           /\ pc'[j] = pc[j] /\ batch'[j] = batch[j] /\ found'[j] = found[j]
           /\ todo'[j] = todo[j]
  BY DEF IInv, TypeOK
<1>2. OneKey'
  BY DEF BatchInv, OneKey, Existing
<1>3. MadeIsOwn'
  BY <1>1 DEF BatchInv, MadeIsOwn
<1>4. Covered'
  <2>1. \A l \in batch'[i] :
          \/ pc'[i] = "create" /\ l \in todo'[i]
          \/ \E t \in found'[i] : t.label = l
    BY <1>1
  <2> QED
    BY <1>1, <2>1 DEF BatchInv, Covered
<1>5. FoundMapped'
  BY <1>1 DEF BatchInv, FoundMapped
<1>6. OpenInTx'
  BY <1>1 DEF BatchInv, OpenInTx
<1> QED
  BY <1>2, <1>3, <1>4, <1>5, <1>6 DEF BatchInv

\* The end of a transaction: rolled back, or committed with the rows that it has made.
LEMMA EndBatch ==
  ASSUME IInv, BatchInv, NEW i \in Invocations, NEW label \in {"idle", "off", "retry"},
         EndTx(i, label), UNCHANGED state, mappings \subseteq mappings',
         targets' = targets \/ targets' = targets \cup made[i]
  PROVE  BatchInv'
<1>1. /\ pc'[i] = label /\ found'[i] = {} /\ made'[i] = {}
      /\ \A j \in Invocations \ {i} :
           /\ pc'[j] = pc[j] /\ batch'[j] = batch[j] /\ found'[j] = found[j]
           /\ todo'[j] = todo[j] /\ made'[j] = made[j]
  BY DEF IInv, TypeOK, EndTx
<1>2. OneKey'
  <2>1. Existing' \subseteq Existing
    BY <1>1 DEF Existing
  <2> QED
    BY <2>1 DEF BatchInv, OneKey
<1>3. \A j \in Invocations \ {i} : made[j] \cap made[i] = {} /\ made[i] \cap found[j] = {}
  BY DEF BatchInv, MadeIsOwn, IInv, TxInv, MadeIsFound
<1>4. MadeIsOwn'
  BY <1>1, <1>3 DEF BatchInv, MadeIsOwn
<1>5. Covered'
  BY <1>1 DEF BatchInv, Covered, InTx
<1>6. FoundMapped'
  BY <1>1, <1>3 DEF BatchInv, FoundMapped
<1>7. OpenInTx'
  BY <1>1 DEF BatchInv, OpenInTx, InTx
<1> QED
  BY <1>2, <1>4, <1>5, <1>6, <1>7 DEF BatchInv

LEMMA RollbackBatch ==
  ASSUME IInv, BatchInv, NEW i \in Invocations, NEW label \in {"off", "retry"},
         Rollback(i, label)
  PROVE  BatchInv'
  BY EndBatch DEF Rollback, tables

LEMMA FindTargetsBatch ==
  ASSUME IInv, BatchInv, NEW i \in Invocations, NEW labels,
         pc[i] \in {"idle", "retry"}, FindTargets(i, labels)
  PROVE  BatchInv'
<1> DEFINE rows == {t \in targets : t.label \in labels /\ t.kind = Kind[i][t.label]}
           rest == MissingLabels(i, labels, rows)
<1>1. /\ state[i] = "open" /\ UNCHANGED <<targets, mappings, state, made>>
      /\ pc' = [pc EXCEPT ![i] = "create"] /\ batch' = [batch EXCEPT ![i] = labels]
      /\ found' = [found EXCEPT ![i] = rows] /\ todo' = [todo EXCEPT ![i] = rest]
  BY DEF FindTargets, tables
<1>2. \A l \in labels : l \in rest \/ \E t \in rows : t.label = l
  BY DEF MissingLabels
<1>3. rows \subseteq targets
  OBVIOUS
<1> HIDE DEF rows, rest
<1>4. Begins(i, "create", labels, rows, rest)
  BY <1>1, <1>2, <1>3 DEF Begins
<1> QED
  BY <1>4, BeginBatch

LEMMA SaveCompletedBatch ==
  ASSUME IInv, BatchInv, NEW i \in Invocations, SaveCompleted(i)
  PROVE  BatchInv'
<1>1. PICK labels \in Batches :
        IF MissingLabels(i, labels, Mapped(i, labels)) = {}
        THEN /\ pc' = [pc EXCEPT ![i] = "insert"]
             /\ batch' = [batch EXCEPT ![i] = labels]
             /\ found' = [found EXCEPT ![i] = Mapped(i, labels)]
             /\ UNCHANGED <<tables, todo, made, marked, cleanVars>>
        ELSE Rollback(i, "off")
  BY DEF SaveCompleted
<1>2. CASE MissingLabels(i, labels, Mapped(i, labels)) = {}
  <2>1. /\ Mapped(i, labels) \subseteq targets
        /\ \A t \in Mapped(i, labels) : <<i, t.id>> \in mappings
    BY DEF Mapped
  <2>2. \A l \in labels : \E t \in Mapped(i, labels) : t.label = l
    BY <1>2 DEF MissingLabels
  <2>3. todo' = [todo EXCEPT ![i] = todo[i]]
    BY <1>1, <1>2 DEF IInv, TypeOK
  <2>4. pc[i] = "idle" /\ state[i] = "open"
    BY DEF SaveCompleted
  <2>5. Begins(i, "insert", labels, Mapped(i, labels), todo[i])
    BY <1>1, <1>2, <2>1, <2>2, <2>3, <2>4 DEF Begins, tables
  <2> QED
    BY <2>4, <2>5, BeginBatch
<1>3. CASE MissingLabels(i, labels, Mapped(i, labels)) # {}
  BY <1>1, <1>3, RollbackBatch
<1> QED
  BY <1>2, <1>3

LEMMA CreateTargetBatch ==
  ASSUME IInv, BatchInv, NEW i \in Invocations, CreateTarget(i)
  PROVE  BatchInv'
<1> DEFINE row(l) == [id |-> FreshId, label |-> l, kind |-> Kind[i][l]]
<1>1. PICK l \in NextInOrder(i) :
        /\ ~Blocked(i, l)
        /\ \/ Rollback(i, "retry")
           \/ /\ ~ \E t \in targets : t.label = l /\ t.kind = Kind[i][l]
              /\ FreshIds # {}
              /\ made' = [made EXCEPT ![i] = @ \cup {row(l)}]
              /\ found' = [found EXCEPT ![i] = @ \cup {row(l)}]
              /\ todo' = [todo EXCEPT ![i] = @ \ {l}]
              /\ UNCHANGED <<tables, pc, batch, marked, cleanVars>>
  BY DEF CreateTarget
<1>2. CASE Rollback(i, "retry")
  BY <1>2, RollbackBatch
<1>3. CASE ~Rollback(i, "retry")
  <2> DEFINE new == row(l)
  <2>1. FreshId \in FreshIds
    BY <1>1, <1>3 DEF FreshId
  <2>2. pc[i] = "create" /\ l \in todo[i]
    BY DEF CreateTarget, NextInOrder
  <2>3. new.id \notin UsedIds /\ new.label = l /\ new.kind = Kind[i][l]
    BY <2>1 DEF FreshIds
  <2> HIDE DEF new
  <2>4. /\ made'[i] = made[i] \cup {new} /\ found'[i] = found[i] \cup {new}
        /\ todo'[i] = todo[i] \ {l}
        /\ UNCHANGED <<targets, mappings, state, pc, batch>>
        /\ \A j \in Invocations \ {i} :
             found'[j] = found[j] /\ todo'[j] = todo[j] /\ made'[j] = made[j]
    BY <1>1, <1>3 DEF IInv, TypeOK, new, tables
  <2>5. new \notin targets /\ \A j \in Invocations : new \notin found[j] /\ new \notin made[j]
    <3>1. new \notin targets /\ \A j \in Invocations : new \notin found[j]
      BY <2>3 DEF UsedIds, IdsOf
    <3> QED
      BY <3>1 DEF IInv, TxInv, MadeIsFound
  <2>6. \A t \in Existing : ~(t.label = l /\ t.kind = Kind[i][l])
    <3>1. \A t \in targets : ~(t.label = l /\ t.kind = Kind[i][l])
      BY <1>1, <1>3
    <3>2. \A t \in made[i] : t.label # l
      <4>1. \A t \in made[i] : t.label < l /\ t.label \in Nat
        BY <2>2, RowTypes DEF IInv, TypeOK, TxInv, InsertedIsBefore
      <4> QED
        BY <4>1
    <3>3. ASSUME NEW j \in Invocations, j # i
          PROVE  \A t \in made[j] : ~(t.label = l /\ t.kind = Kind[i][l])
      BY <1>1, <2>2, <3>3 DEF Blocked, Blocks
    <3> QED
      BY <3>1, <3>2, <3>3 DEF Existing
  <2>7. OneKey'
    <3>1. Existing' \subseteq Existing \cup {new}
      BY <2>4 DEF Existing
    <3> QED
      BY <2>3, <2>6, <3>1 DEF BatchInv, OneKey
  <2>8. MadeIsOwn'
    BY <2>4, <2>5 DEF BatchInv, MadeIsOwn
  <2>9. Covered'
    BY <2>2, <2>3, <2>4 DEF BatchInv, Covered, InTx
  <2>10. FoundMapped'
    BY <2>2, <2>4 DEF BatchInv, FoundMapped
  <2>11. OpenInTx'
    BY <2>4 DEF BatchInv, OpenInTx
  <2> QED
    BY <2>7, <2>8, <2>9, <2>10, <2>11 DEF BatchInv
<1> QED
  BY <1>2, <1>3

\* The statements that only go on.
LEMMA GoOnBatch ==
  ASSUME IInv, BatchInv, NEW i \in Invocations,
         CreateMappings(i) \/ CreateInvocationTargets(i) \/ CreateTestTarget(i)
  PROVE  BatchInv'
<1>1. CASE Rollback(i, "retry") \/ Rollback(i, "off")
  BY <1>1, RollbackBatch
<1>2. CASE ~Rollback(i, "retry") /\ ~Rollback(i, "off")
  <2>1. UNCHANGED <<targets, mappings, state, batch, found, made>>
    BY <1>2 DEF CreateMappings, CreateInvocationTargets, CreateTestTarget, tables, txVars
  <2>2. /\ \/ pc[i] = "create" /\ todo[i] = {} /\ pc'[i] = "mapped"
           \/ pc[i] \in {"insert", "mark"} /\ pc'[i] = "mark"
        /\ \A j \in Invocations \ {i} : pc'[j] = pc[j] /\ todo'[j] = todo[j]
    <3>1. CASE CreateMappings(i)
      BY <1>2, <3>1 DEF CreateMappings, txVars, IInv, TypeOK
    <3>2. CASE CreateInvocationTargets(i)
      BY <1>2, <3>2 DEF CreateInvocationTargets, IInv, TypeOK
    <3>3. CASE CreateTestTarget(i)
      BY <3>3 DEF CreateTestTarget, IInv, TypeOK
    <3> QED
      BY <3>1, <3>2, <3>3
  <2>3. OneKey' /\ MadeIsOwn'
    BY <2>1 DEF BatchInv, OneKey, Existing, MadeIsOwn
  <2>4. Covered'
    BY <2>1, <2>2 DEF BatchInv, Covered, InTx
  <2>5. FoundMapped' /\ OpenInTx'
    BY <2>1, <2>2 DEF BatchInv, FoundMapped, OpenInTx, InTx
  <2> QED
    BY <2>3, <2>4, <2>5 DEF BatchInv
<1> QED
  BY <1>1, <1>2

LEMMA CommitBatch ==
  ASSUME IInv, BatchInv, NEW i \in Invocations, CommitConfigured(i) \/ CommitCompleted(i)
  PROVE  BatchInv'
<1>1. CASE CommitConfigured(i)
  <2>1. EndTx(i, "idle") /\ UNCHANGED state /\ targets' = targets \cup made[i]
    BY <1>1 DEF CommitConfigured
  <2>2. mappings \subseteq mappings'
    BY <1>1 DEF CommitConfigured
  <2> QED
    BY <2>1, <2>2, EndBatch
<1>2. CASE CommitCompleted(i)
  <2>1. EndTx(i, "idle") /\ UNCHANGED <<state, targets, mappings>>
    BY <1>2 DEF CommitCompleted
  <2> QED
    BY <2>1, EndBatch
<1> QED
  BY <1>1, <1>2

\* The cleanup service locks no invocation that a transaction saves into, removes no
\* mappings of one, and removes targets with their mappings.
LEMMA CleanupBatch ==
  ASSUME IInv, BatchInv, UNCHANGED recVars, targets' \subseteq targets,
         \A i \in Invocations : pc[i] \in InTx => state'[i] = "open",
         \A i \in Invocations, t \in targets' :
           state[i] = "open" /\ <<i, t.id>> \in mappings => <<i, t.id>> \in mappings'
  PROVE  BatchInv'
<1>1. OneKey'
  <2>1. Existing' \subseteq Existing
    BY DEF Existing, recVars, txVars
  <2> QED
    BY <2>1 DEF BatchInv, OneKey
<1>2. MadeIsOwn' /\ Covered' /\ OpenInTx'
  BY DEF BatchInv, MadeIsOwn, Covered, OpenInTx, recVars, txVars
<1>3. FoundMapped'
  BY DEF BatchInv, FoundMapped, OpenInTx, InTx, recVars, txVars
<1> QED
  BY <1>1, <1>2, <1>3 DEF BatchInv

LEMMA CleanupStepBatch ==
  ASSUME IInv, BatchInv,
         \/ \E i \in Invocations : LockInvocation(i) \/ RemoveOldInvocation(i)
         \/ RemoveTargetKindMappings \/ SelectUnusedTargets \/ RemoveUnusedTargets
         \/ SelectOrphanedTestTargets \/ RemoveOrphanedTestTargets
  PROVE  BatchInv'
<1> USE DEF IInv, TypeOK, BatchInv, OpenInTx
<1>1. ASSUME NEW i \in Invocations, LockInvocation(i) PROVE BatchInv'
  <2>1. \A j \in Invocations : pc[j] \in InTx => state'[j] = "open"
    BY <1>1 DEF LockInvocation
  <2> QED
    BY <1>1, <2>1, CleanupBatch DEF LockInvocation
<1>2. ASSUME NEW i \in Invocations, RemoveOldInvocation(i) PROVE BatchInv'
  <2>1. \A j \in Invocations : pc[j] \in InTx => state'[j] = "open"
    BY <1>2 DEF RemoveOldInvocation
  <2>2. \A j \in Invocations, t \in targets :
          state[j] = "open" /\ <<j, t.id>> \in mappings => <<j, t.id>> \in mappings'
    BY <1>2 DEF RemoveOldInvocation, NotOf
  <2> QED
    BY <1>2, <2>1, <2>2, CleanupBatch DEF RemoveOldInvocation
<1>3. CASE RemoveTargetKindMappings
  <2>1. \A j \in Invocations, t \in targets :
          state[j] = "open" /\ <<j, t.id>> \in mappings => <<j, t.id>> \in mappings'
    BY <1>3 DEF RemoveTargetKindMappings, RemovableMappings
  <2> QED
    BY <1>3, <2>1, CleanupBatch DEF RemoveTargetKindMappings
<1>4. CASE RemoveUnusedTargets
  <2>1. \A j \in Invocations, t \in targets' :
          <<j, t.id>> \in mappings => <<j, t.id>> \in mappings'
    BY <1>4 DEF RemoveUnusedTargets, Without
  <2>2. targets' \subseteq targets /\ UNCHANGED <<state, recVars>>
    BY <1>4 DEF RemoveUnusedTargets
  <2> QED
    BY <2>1, <2>2, CleanupBatch
<1>5. CASE SelectUnusedTargets \/ SelectOrphanedTestTargets \/ RemoveOrphanedTestTargets
  BY <1>5, CleanupBatch
  DEF SelectUnusedTargets, SelectOrphanedTestTargets, RemoveOrphanedTestTargets, tables
<1> QED
  BY <1>1, <1>2, <1>3, <1>4, <1>5

LEMMA BatchInvHolds == Spec => []BatchInv
<1>1. Init => BatchInv
  BY DEF Init, BatchInv, OneKey, Existing, MadeIsOwn, Covered, FoundMapped, OpenInTx, InTx
<1>2. IInv /\ BatchInv /\ [Next]_vars => BatchInv'
  <2> SUFFICES ASSUME IInv, BatchInv, [Next]_vars PROVE BatchInv'
    OBVIOUS
  <2>1. ASSUME NEW i \in Invocations, SaveConfigured(i) PROVE BatchInv'
    BY <2>1, FindTargetsBatch DEF SaveConfigured
  <2>2. ASSUME NEW i \in Invocations, Retry(i) PROVE BatchInv'
    BY <2>2, FindTargetsBatch, RollbackBatch DEF Retry
  <2>3. ASSUME NEW i \in Invocations, Disconnect(i) PROVE BatchInv'
    BY <2>3, RollbackBatch DEF Disconnect
  <2>4. CASE UNCHANGED vars
    BY <2>4 DEF vars, tables, recVars, txVars, BatchInv, OneKey, Existing, MadeIsOwn, Covered,
                FoundMapped, OpenInTx
  <2> QED
    BY <2>1, <2>2, <2>3, <2>4, SaveCompletedBatch, CreateTargetBatch, GoOnBatch, CommitBatch,
       CleanupStepBatch
    DEF Next, Step
<1> QED
  BY <1>1, <1>2, IInvHolds, PTL DEF Spec

\* A target that the rows of an invocation refer to is the only one with its label.
OnlyTargets ==
  \A rows \in {mappings, invTargets} : \A i \in Invocations : \A t \in targets :
    <<i, t.id>> \in rows => TargetsOf(rows, i, t.label) = {t} /\ t.kind = Kind[i][t.label]

LEMMA TargetsAreOnly ==
  /\ RowsInv /\ OneKey => OnlyTargets
  /\ RowsInv' /\ OneKey' => OnlyTargets'
<1>1. RowsInv /\ OneKey => OnlyTargets
  <2> SUFFICES ASSUME RowsInv, OneKey, NEW rows \in {mappings, invTargets},
                      NEW i \in Invocations, NEW t \in targets, <<i, t.id>> \in rows
               PROVE  TargetsOf(rows, i, t.label) = {t} /\ t.kind = Kind[i][t.label]
    BY DEF OnlyTargets
  <2>1. ASSUME NEW u \in targets, <<i, u.id>> \in rows
        PROVE  u.kind = Kind[i][u.label]
    <3> DEFINE x == <<i, u.id>>
    <3>1. x \in mappings \cup invTargets /\ u.id = x[2] /\ x[1] = i
      BY <2>1
    <3> HIDE DEF x
    <3> QED
      BY <3>1 DEF RowsInv, ReferredKind
  <2> QED
    BY <2>1 DEF OneKey, Existing, TargetsOf
<1> QED
  BY <1>1, PTL

\* The steps that mark events as handled.
LEMMA Marking ==
  ASSUME IInv, [Next]_vars, NEW i \in Invocations
  PROVE  /\ configured'[i] \ configured[i] # {} => CommitConfigured(i)
         /\ completed'[i] \ completed[i] # {} => CommitCompleted(i)
<1> USE DEF IInv, TypeOK, tables
<1>1. ASSUME NEW j \in Invocations, CommitConfigured(j)
      PROVE  UNCHANGED completed /\ (i # j => configured'[i] = configured[i])
  BY <1>1 DEF CommitConfigured
<1>2. ASSUME NEW j \in Invocations, CommitCompleted(j)
      PROVE  UNCHANGED configured /\ (i # j => completed'[i] = completed[i])
  BY <1>2 DEF CommitCompleted
<1>3. ASSUME NEW j \in Invocations, RemoveOldInvocation(j)
      PROVE  configured'[i] \subseteq configured[i] /\ completed'[i] \subseteq completed[i]
  BY <1>3 DEF RemoveOldInvocation
<1>4. ASSUME NEW j \in Invocations, SaveConfigured(j) \/ SaveCompleted(j) \/ Retry(j)
      PROVE  UNCHANGED <<configured, completed>>
  BY <1>4 DEF SaveConfigured, SaveCompleted, Retry, FindTargets, Rollback
<1>5. ASSUME NEW j \in Invocations,
             \/ CreateTarget(j) \/ CreateMappings(j) \/ CreateInvocationTargets(j)
             \/ CreateTestTarget(j) \/ Disconnect(j) \/ LockInvocation(j)
      PROVE  UNCHANGED <<configured, completed>>
  BY <1>5 DEF CreateTarget, CreateMappings, CreateInvocationTargets, CreateTestTarget,
              Disconnect, LockInvocation, Rollback
<1>6. CASE \/ RemoveTargetKindMappings \/ SelectUnusedTargets \/ RemoveUnusedTargets
           \/ SelectOrphanedTestTargets \/ RemoveOrphanedTestTargets \/ UNCHANGED vars
  BY <1>6 DEF RemoveTargetKindMappings, SelectUnusedTargets, RemoveUnusedTargets,
              SelectOrphanedTestTargets, RemoveOrphanedTestTargets, vars
<1> QED
  BY <1>1, <1>2, <1>3, <1>4, <1>5, <1>6 DEF Next, Step

\* An event that is marked as handled has left its target in the database: a mapping to
\* one target of its label and kind (saveTargetConfiguredBatch), a row of
\* invocation_targets that refers to the same one (saveTargetCompletedBatch), for any
\* number of invocations, and whatever others insert and delete meanwhile.
THEOREM SavedWithItsTargetAlways == Spec => SavedWithItsTarget
<1> DEFINE Saved(i) ==
             /\ \A l \in configured'[i] \ configured[i] : HasItsTarget(mappings, i, l)'
             /\ \A l \in completed'[i] \ completed[i] :
                  /\ HasItsTarget(invTargets, i, l)'
                  /\ (TargetsOf(invTargets, i, l) = TargetsOf(mappings, i, l))'
<1>1. ASSUME IInv, BatchInv, IInv', BatchInv', [Next]_vars, NEW i \in Invocations
      PROVE  Saved(i)
  <2>1. ASSUME NEW l \in configured'[i] \ configured[i]
        PROVE  HasItsTarget(mappings, i, l)'
    <3>1. CommitConfigured(i)
      BY <1>1, <2>1, Marking
    <3>2. l \in batch[i]
      BY <1>1, <2>1, <3>1 DEF CommitConfigured, IInv, TypeOK
    <3>3. PICK t \in found[i] : t.label = l
      BY <1>1, <3>1, <3>2 DEF CommitConfigured, BatchInv, Covered, InTx
    <3>4. t \in targets' /\ <<i, t.id>> \in mappings'
      BY <1>1, <3>1, <3>3 DEF CommitConfigured, IInv, TxInv, ReferredStay
    <3>5. (TargetsOf(mappings, i, l) = {t} /\ t.kind = Kind[i][l])'
      BY <1>1, <3>3, <3>4, TargetsAreOnly DEF IInv, BatchInv, OnlyTargets
    <3> QED
      BY <3>4, <3>5 DEF HasItsTarget
  <2>2. ASSUME NEW l \in completed'[i] \ completed[i]
        PROVE  /\ HasItsTarget(invTargets, i, l)'
               /\ (TargetsOf(invTargets, i, l) = TargetsOf(mappings, i, l))'
    <3>1. CommitCompleted(i)
      BY <1>1, <2>2, Marking
    <3>2. l \in batch[i]
      BY <1>1, <2>2, <3>1 DEF CommitCompleted, IInv, TypeOK
    <3>3. PICK t \in found[i] : t.label = l
      BY <1>1, <3>1, <3>2 DEF CommitCompleted, BatchInv, Covered, InTx
    <3>4. t \in targets
      BY <1>1, <3>1, <3>3 DEF CommitCompleted, IInv, TxInv, ReferredStay, MadeIsFound
    <3>5. t \in targets' /\ <<i, t.id>> \in mappings' /\ <<i, t.id>> \in invTargets'
      BY <1>1, <3>1, <3>3, <3>4 DEF CommitCompleted, BatchInv, FoundMapped
    <3>6. (TargetsOf(mappings, i, l) = {t} /\ t.kind = Kind[i][l])'
      BY <1>1, <3>3, <3>5, TargetsAreOnly DEF IInv, BatchInv, OnlyTargets
    <3>7. (TargetsOf(invTargets, i, l) = {t} /\ t.kind = Kind[i][l])'
      BY <1>1, <3>3, <3>5, TargetsAreOnly DEF IInv, BatchInv, OnlyTargets
    <3> QED
      BY <3>5, <3>6, <3>7 DEF HasItsTarget
  <2> QED
    BY <2>1, <2>2
<1>2. IInv /\ BatchInv /\ IInv' /\ BatchInv' /\ [Next]_vars
        => [\A i \in Invocations : Saved(i)]_vars
  BY <1>1
<1> QED
  BY <1>2, IInvHolds, BatchInvHolds, PTL DEF Spec, SavedWithItsTarget

-----------------------------------------------------------------------------
(* Deadlock.  Who waits to insert a row waits for someone who has inserted *)
(* it and who therefore can only wait to insert a later one.  In a circle  *)
(* there would be no last row.                                             *)

LEMMA LastOf ==
  ASSUME NEW bound \in Nat, NEW T \in SUBSET (0..bound), T # {}
  PROVE  \E x \in T : \A y \in T : y <= x
<1> DEFINE D == {bound - x : x \in T}
<1>1. D \in SUBSET Nat /\ D # {}
  <2>1. \A x \in T : bound - x \in Nat
    OBVIOUS
  <2> QED
    BY <2>1
<1>2. PICK d \in D : \A e \in D : ~(<<e, d>> \in OpToRel(<, Nat))
  BY <1>1, NatLessThanWellFounded, WFMin
<1>3. \A e \in D : ~(e < d)
  BY <1>1, <1>2 DEF OpToRel
<1>4. PICK x \in T : d = bound - x
  OBVIOUS
<1>5. \A y \in T : y <= x
  <2> SUFFICES ASSUME NEW y \in T PROVE y <= x
    OBVIOUS
  <2>1. bound - y \in D
    OBVIOUS
  <2>2. ~(bound - y < bound - x)
    BY <1>3, <1>4, <2>1
  <2> HIDE DEF D
  <2> QED
    BY <2>2
<1> QED
  BY <1>5

LEMMA WaitingIsForLater ==
  ASSUME IInv, NEW i \in Invocations, NEW j \in Invocations,
         NEW x \in NextInOrder(i), Blocks(j, i, x),
         NEW y \in NextInOrder(j), NEW k \in Invocations, Blocks(k, j, y)
  PROVE  pc[i] \in {"create", "mark"} /\ pc[j] = pc[i] /\ x < y
<1>1. y \in todo[j]
  BY DEF NextInOrder
<1>2. CASE pc[i] = "create"
  <2>1. PICK t \in made[j] : t.label = x
    BY <1>2 DEF Blocks
  <2>2. pc[j] = "create"
    BY <1>1, <2>1 DEF IInv, TxInv, MadeIsFound
  <2> QED
    BY <1>1, <1>2, <2>1, <2>2 DEF IInv, TxInv, InsertedIsBefore
<1>3. CASE pc[i] = "mark"
  <2>1. x \in marked[j]
    BY <1>3 DEF Blocks
  <2>2. pc[j] = "mark"
    BY <2>1 DEF IInv, TxInv, MadeIsFound
  <2> QED
    BY <1>1, <1>3, <2>1, <2>2 DEF IInv, TxInv, InsertedIsBefore
<1> QED
  BY <1>2, <1>3 DEF Blocks

\* No transactions wait for each other in a circle, for any number of them.
THEOREM NoCircularWaitEver == Spec => []NoCircularWait
<1>1. IInv => NoCircularWait
  <2> SUFFICES ASSUME IInv, NEW S \in SUBSET Invocations, S # {},
                      ~ \E i \in S : \A j \in S : ~ \E x \in NextInOrder(i) : Blocks(j, i, x)
               PROVE  FALSE
    BY DEF NoCircularWait
  <2>0. \A i \in S : \E j \in S : \E x \in NextInOrder(i) : Blocks(j, i, x)
    OBVIOUS
  <2> DEFINE Awaited(label) ==
               UNION {{x \in NextInOrder(i) : \E j \in S : Blocks(j, i, x)}
                      : i \in {h \in S : pc[h] = label}}
  <2>1. PICK i0 \in S : TRUE
    OBVIOUS
  <2>2. pc[i0] \in {"create", "mark"} /\ Awaited(pc[i0]) # {}
    BY <2>0, <2>1 DEF Blocks
  <2>3. \E bound \in Nat : Awaited(pc[i0]) \subseteq 0..bound
    <3>1. CASE pc[i0] = "create"
      <4>1. Awaited("create") \subseteq Labels
        BY DEF NextInOrder, IInv, TypeOK
      <4>2. NLabels \in Nat /\ Labels \subseteq 0..NLabels
        BY TargetsAssumption DEF Labels
      <4> QED
        BY <3>1, <4>1, <4>2, Zenon
    <3>2. CASE pc[i0] = "mark"
      <4>1. \A i \in Invocations : pc[i] = "mark" => todo[i] \subseteq 1..MaxId
        BY DEF IInv, TypeOK, IdsOf, Rows
      <4>2. Awaited("mark") \subseteq 1..MaxId
        BY <4>1 DEF NextInOrder
      <4> QED
        <5>1. MaxId \in Nat /\ 1..MaxId \subseteq 0..MaxId
          BY TargetsAssumption
        <5> QED
          BY <3>2, <4>2, <5>1, Zenon
    <3> QED
      BY <2>2, <3>1, <3>2
  <2>4. PICK x \in Awaited(pc[i0]) : \A y \in Awaited(pc[i0]) : y <= x
    BY <2>2, <2>3, LastOf
  <2>5. PICK i \in S, j \in S : pc[i] = pc[i0] /\ x \in NextInOrder(i) /\ Blocks(j, i, x)
    BY <2>4
  <2>6. PICK k \in S, y \in NextInOrder(j) : Blocks(k, j, y)
    BY <2>0
  <2>7. pc[j] = pc[i0] /\ x < y
    BY <2>5, <2>6, WaitingIsForLater
  <2>8. y \in Awaited(pc[i0])
    BY <2>6, <2>7
  <2>9. x \in Nat /\ y \in Nat
    BY <2>3, <2>8
  <2> QED
    BY <2>4, <2>7, <2>8, <2>9
<1> QED
  BY <1>1, IInvHolds, PTL
=============================================================================
