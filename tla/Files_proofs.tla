---------------------------- MODULE Files_proofs ----------------------------
(***************************************************************************)
(* Proofs about Files, for any recorders and any files: foreign keys hold, *)
(* an action keeps its files, and a test result is saved with all its      *)
(* outputs, whatever the cleanup service has selected before.              *)
(***************************************************************************)
EXTENDS Files, SequenceTheorems, FiniteSetTheorems, TLAPS

Rows == {"path", "digest", "file"} \X Nat \X Nat

\* A committed row refers to committed rows, and so do actions and test results.
ReferencesStand ==
  /\ \A x \in rows : Parents(x) \subseteq rows
  /\ \A r \in Recorders : refs[r] \subseteq rows

(***************************************************************************)
(* The inductive invariant.  The rows that a transaction has locked stay   *)
(* (LockedStay), and are all that it is going to refer to: an action has   *)
(* locked each file that it has not got to yet (SinglesInv), test results  *)
(* have locked their outputs before they are committed (OutputsInv).  No   *)
(* DELETE has selected what a saved action refers to (KeptInv).            *)
(***************************************************************************)

TypeInv ==
  /\ rows \subseteq Rows
  /\ refs \in [Recorders -> SUBSET Rows]
  /\ pc \in [Recorders -> Running \cup {"open", "saved", "gone"}]
  /\ todo \in [Recorders -> Seq(Rows)]
  /\ made \in [Recorders -> SUBSET Rows]
  /\ updated \in [Recorders -> SUBSET Rows]
  /\ referred \in [Recorders -> SUBSET Rows]
  /\ selected \subseteq rows

LockedStay ==
  \A r \in Recorders :
    /\ updated[r] \cup referred[r] \subseteq Seen(r)
    /\ \A x \in made[r] : Parents(x) \subseteq referred[r]

SinglesInv ==
  \A r \in Recorders :
    /\ pc[r] = "single" =>
         r \notin Batched /\ Wanted(r) \subseteq Range(todo[r]) \cup updated[r]
    /\ pc[r] \in {"paths", "digests", "files", "commit"} => r \in Batched

OutputsInv == \A r \in Recorders : pc[r] = "commit" => Wanted(r) \subseteq referred[r]

KeptInv ==
  \A r \in Recorders :
    /\ refs[r] \subseteq Wanted(r)
    /\ r \notin Batched => refs[r] \cap selected = {}

IInv ==
  /\ TypeInv /\ ReferencesStand /\ LockedStay /\ SinglesInv /\ OutputsInv /\ KeptInv
  /\ ActionsKeepTheirFiles

-----------------------------------------------------------------------------
(* Rows and sequences of rows.                                             *)

LEMMA FilesAre ==
  ASSUME NEW r \in Recorders
  PROVE  /\ FilesOf[r] \in Seq(Nat \X Nat)
         /\ Range(FilesOf[r]) \subseteq Nat \X Nat
         /\ \A f \in Range(FilesOf[r]) :
              PathRow(f) \in Rows /\ DigestRow(f) \in Rows /\ FileRow(f) \in Rows
<1>1. FilesOf[r] \in Seq(Nat \X Nat)
  BY FilesAssumption
<1>2. Range(FilesOf[r]) \subseteq Nat \X Nat
  BY <1>1 DEF Range
<1> QED
  BY <1>1, <1>2 DEF PathRow, DigestRow, FileRow, Rows

LEMMA WantedAreFiles ==
  ASSUME NEW r \in Recorders
  PROVE  /\ Wanted(r) \subseteq Rows
         /\ \A x \in Wanted(r) : x[1] = "file"
  BY FilesAre DEF Wanted, FileRow

LEMMA ParentsAreRows ==
  ASSUME NEW x \in Rows
  PROVE  Parents(x) \subseteq Rows
  BY DEF Parents, Rows, PathRow, DigestRow

LEMMA FilesAreFinite ==
  ASSUME NEW r \in Recorders
  PROVE  IsFiniteSet(Range(FilesOf[r]))
<1>1. DOMAIN FilesOf[r] = 1 .. Len(FilesOf[r]) /\ Len(FilesOf[r]) \in Nat
  BY FilesAre
<1>2. IsFiniteSet(1 .. Len(FilesOf[r]))
  BY <1>1, FS_Interval
<1> DEFINE I == 1 .. Len(FilesOf[r])
           g == [i \in I |-> FilesOf[r][i]]
<1>3. g \in Surjection(I, Range(FilesOf[r]))
  BY <1>1 DEF Surjection, Range
<1> QED
  BY <1>2, <1>3, FS_Surjection

LEMMA ImagesAreFinite ==
  ASSUME NEW S, IsFiniteSet(S)
  PROVE  /\ IsFiniteSet({PathRow(f) : f \in S})
         /\ IsFiniteSet({DigestRow(f) : f \in S})
         /\ IsFiniteSet({FileRow(f) : f \in S})
<1>1. ASSUME NEW g, DOMAIN g = S
      PROVE  IsFiniteSet({g[f] : f \in S})
  <2> DEFINE h == [f \in S |-> g[f]]
  <2>1. h \in Surjection(S, {g[f] : f \in S})
    BY DEF Surjection
  <2> QED
    BY <2>1, FS_Surjection
<1>2. /\ {PathRow(f) : f \in S} = {[e \in S |-> PathRow(e)][f] : f \in S}
      /\ {DigestRow(f) : f \in S} = {[e \in S |-> DigestRow(e)][f] : f \in S}
      /\ {FileRow(f) : f \in S} = {[e \in S |-> FileRow(e)][f] : f \in S}
  OBVIOUS
<1> QED
  BY <1>1, <1>2

\* A statement inserts its rows in some order.
LEMMA StatementsAreSequences ==
  ASSUME NEW S, S \subseteq Rows, IsFiniteSet(S), NEW order \in SetToSeqs(S)
  PROVE  order \in Seq(Rows)
<1>1. Cardinality(S) \in Nat
  BY FS_CardinalityType
<1>2. order \in [1 .. Cardinality(S) -> S]
  BY DEF SetToSeqs
<1> QED
  BY <1>1, <1>2, SeqDef

LEMMA SingleRowsAre ==
  ASSUME NEW r \in Recorders
  PROVE  SingleRows(r) \in Seq(Rows) /\ Wanted(r) \subseteq Range(SingleRows(r))
<1> DEFINE n == Len(FilesOf[r])
<1>1. n \in Nat /\ DOMAIN FilesOf[r] = 1 .. n
  BY FilesAre
<1>2. ASSUME NEW k \in 1 .. 3 * n
      PROVE  (k + 2) \div 3 \in 1 .. n
  BY <1>1, <1>2
<1>3. ASSUME NEW k \in 1 .. 3 * n
      PROVE  SingleRows(r)[k] \in Rows
  <2> DEFINE f == FilesOf[r][(k + 2) \div 3]
             j == 1 + ((k + 2) % 3)
  <2>1. f \in Range(FilesOf[r])
    BY <1>1, <1>2 DEF Range
  <2>2. j \in {1, 2, 3}
    BY <1>1
  <2>3. SingleRows(r)[k] = <<PathRow(f), DigestRow(f), FileRow(f)>>[j]
    BY DEF SingleRows
  <2> HIDE DEF f, j
  <2> QED
    BY <2>1, <2>2, <2>3, FilesAre
<1>4. SingleRows(r) \in [1 .. 3 * n -> Rows]
  BY <1>3 DEF SingleRows
<1>5. ASSUME NEW x \in Wanted(r)
      PROVE  x \in Range(SingleRows(r))
  <2>1. PICK i \in 1 .. n : x = FileRow(FilesOf[r][i])
    BY <1>1 DEF Wanted, Range
  <2>2. 3 * i \in 1 .. 3 * n /\ (3 * i + 2) \div 3 = i /\ (3 * i + 2) % 3 = 2
    BY <1>1
  <2>3. SingleRows(r)[3 * i] = x
    BY <2>1, <2>2 DEF SingleRows
  <2> QED
    BY <1>4, <2>2, <2>3 DEF Range
<1>6. 3 * n \in Nat
  BY <1>1
<1> QED
  BY <1>4, <1>5, <1>6, SeqDef

LEMMA RangeOfTail ==
  ASSUME NEW s \in Seq(Rows), s # <<>>
  PROVE  /\ Head(s) \in Rows /\ Tail(s) \in Seq(Rows)
         /\ Range(s) \subseteq {Head(s)} \cup Range(Tail(s))
<1>1. Head(s) \in Rows /\ Tail(s) \in Seq(Rows)
  OBVIOUS
<1>2. ASSUME NEW i \in DOMAIN s
      PROVE  s[i] \in {Head(s)} \cup Range(Tail(s))
  <2>1. CASE i = 1
    BY <2>1
  <2>2. CASE i # 1
    <3>1. i - 1 \in DOMAIN Tail(s) /\ Tail(s)[i - 1] = s[i]
      BY <2>2
    <3> QED
      BY <3>1 DEF Range
  <2> QED
    BY <2>1, <2>2
<1> QED
  BY <1>1, <1>2 DEF Range

-----------------------------------------------------------------------------
(* Recorders.                                                              *)

LEMMA InitIInv == Init => IInv
<1> SUFFICES ASSUME Init
             PROVE  IInv
  OBVIOUS
<1>1. TypeInv
  <2>1. <<>> \in Seq(Rows)
    OBVIOUS
  <2> QED
    BY <2>1 DEF Init, TypeInv
<1>2. ReferencesStand /\ LockedStay /\ KeptInv
  BY DEF Init, ReferencesStand, LockedStay, KeptInv
<1>3. SinglesInv /\ OutputsInv /\ ActionsKeepTheirFiles
  BY DEF Init, SinglesInv, OutputsInv, ActionsKeepTheirFiles
<1> QED
  BY <1>1, <1>2, <1>3 DEF IInv

LEMMA EndTxIs ==
  ASSUME TypeInv, NEW r \in Recorders, EndTx(r)
  PROVE  /\ todo' \in [Recorders -> Seq(Rows)]
         /\ made' \in [Recorders -> SUBSET Rows]
         /\ updated' \in [Recorders -> SUBSET Rows]
         /\ referred' \in [Recorders -> SUBSET Rows]
         /\ made'[r] = {} /\ updated'[r] = {} /\ referred'[r] = {}
         /\ \A q \in Recorders \ {r} :
              /\ todo'[q] = todo[q] /\ made'[q] = made[q]
              /\ updated'[q] = updated[q] /\ referred'[q] = referred[q]
<1>1. <<>> \in Seq(Rows)
  OBVIOUS
<1> QED
  BY <1>1 DEF TypeInv, EndTx

LEMMA RollbackStep ==
  ASSUME IInv, NEW r \in Recorders, Rollback(r)
  PROVE  IInv'
<1>1. /\ rows' = rows /\ refs' = refs /\ selected' = selected
      /\ pc' = [pc EXCEPT ![r] = "open"]
      /\ pc'[r] = "open" /\ \A q \in Recorders \ {r} : pc'[q] = pc[q]
  BY DEF Rollback, IInv, TypeInv
<1>2. TypeInv'
  BY <1>1, EndTxIs DEF IInv, TypeInv, Rollback
<1>3. LockedStay'
  BY <1>1, EndTxIs DEF IInv, LockedStay, Seen, Rollback
<1>4. SinglesInv'
  BY <1>1, EndTxIs DEF IInv, SinglesInv, Rollback
<1>5. OutputsInv'
  BY <1>1, EndTxIs DEF IInv, OutputsInv, Rollback
<1>6. ReferencesStand' /\ KeptInv'
  BY <1>1 DEF IInv, ReferencesStand, KeptInv
<1>7. ActionsKeepTheirFiles'
  BY <1>1 DEF IInv, ActionsKeepTheirFiles
<1> QED
  BY <1>2, <1>3, <1>4, <1>5, <1>6, <1>7 DEF IInv

LEMMA ContinueStep ==
  ASSUME IInv, NEW r \in Recorders, NEW label \in Running, NEW statement \in Seq(Rows),
         Continue(r, label, statement),
         label # "commit",
         label = "single" => r \notin Batched /\ Wanted(r) \subseteq Range(statement),
         label # "single" => r \in Batched
  PROVE  IInv'
<1>1. /\ UNCHANGED <<rows, refs, made, updated, referred, selected>>
      /\ pc' = [pc EXCEPT ![r] = label] /\ todo' = [todo EXCEPT ![r] = statement]
      /\ pc'[r] = label /\ todo'[r] = statement
      /\ \A q \in Recorders \ {r} : pc'[q] = pc[q] /\ todo'[q] = todo[q]
  BY DEF Continue, IInv, TypeInv
<1>2. TypeInv'
  BY <1>1 DEF IInv, TypeInv
<1>3. LockedStay' /\ ReferencesStand' /\ KeptInv'
  BY <1>1 DEF IInv, LockedStay, Seen, ReferencesStand, KeptInv
<1>4. SinglesInv'
  BY <1>1 DEF IInv, SinglesInv
<1>5. OutputsInv'
  BY <1>1 DEF IInv, OutputsInv
<1>6. ActionsKeepTheirFiles'
  BY <1>1 DEF IInv, ActionsKeepTheirFiles, Running
<1> QED
  BY <1>2, <1>3, <1>4, <1>5, <1>6 DEF IInv

LEMMA BeginStep ==
  ASSUME IInv, NEW r \in Recorders, Begin(r)
  PROVE  IInv'
<1>1. CASE r \in Batched
  <2> DEFINE S == {PathRow(f) : f \in Range(FilesOf[r])}
  <2>1. PICK order \in Sorted(S) : Continue(r, "paths", order)
    BY <1>1 DEF Begin
  <2>2. S \subseteq Rows /\ IsFiniteSet(S)
    BY FilesAre, FilesAreFinite, ImagesAreFinite
  <2>3. order \in Seq(Rows)
    BY <2>2, StatementsAreSequences DEF Sorted
  <2> QED
    BY <1>1, <2>1, <2>3, ContinueStep DEF Running
<1>2. CASE r \notin Batched
  BY <1>2, SingleRowsAre, ContinueStep DEF Begin, Running
<1> QED
  BY <1>1, <1>2

LEMMA InsertDigestsStep ==
  ASSUME IInv, NEW r \in Recorders, InsertDigests(r)
  PROVE  IInv'
<1> DEFINE S == {DigestRow(f) : f \in Range(FilesOf[r])}
<1>1. PICK order \in Sorted(S) : Continue(r, "digests", order)
  BY DEF InsertDigests
<1>2. S \subseteq Rows /\ IsFiniteSet(S)
  BY FilesAre, FilesAreFinite, ImagesAreFinite
<1>3. order \in Seq(Rows)
  BY <1>2, StatementsAreSequences DEF Sorted
<1>4. r \in Batched
  BY DEF InsertDigests, IInv, SinglesInv
<1> QED
  BY <1>1, <1>3, <1>4, ContinueStep DEF Running

LEMMA InsertFilesStep ==
  ASSUME IInv, NEW r \in Recorders, InsertFiles(r)
  PROVE  IInv'
<1> DEFINE S == {x \in Wanted(r) : Parents(x) \subseteq Seen(r)}
<1>1. PICK order \in SetToSeqs(S) : Continue(r, "files", order)
  BY DEF InsertFiles
<1>2. IsFiniteSet(Wanted(r))
  BY FilesAreFinite, ImagesAreFinite DEF Wanted
<1>3. S \subseteq Rows /\ IsFiniteSet(S)
  BY <1>2, WantedAreFiles, FS_Subset
<1>4. order \in Seq(Rows)
  BY <1>3, StatementsAreSequences
<1>5. r \in Batched
  BY DEF InsertFiles, IInv, SinglesInv
<1> QED
  BY <1>1, <1>4, <1>5, ContinueStep DEF Running

LEMMA InsertRowStep ==
  ASSUME IInv, NEW r \in Recorders, InsertRow(r)
  PROVE  IInv'
<1> DEFINE x == Head(todo[r])
<1>1. todo[r] # <<>> /\ todo[r] \in Seq(Rows)
  BY DEF InsertRow, IInv, TypeInv
<1>2. x \in Rows /\ Tail(todo[r]) \in Seq(Rows)
      /\ Range(todo[r]) \subseteq {x} \cup Range(Tail(todo[r]))
  BY <1>1, RangeOfTail
<1>3. Parents(x) \subseteq Rows
  BY <1>2, ParentsAreRows
<1>4. CASE x \in Seen(r) \/ Parents(x) \subseteq Seen(r)
  <2> HIDE DEF x
  <2>1. /\ UNCHANGED <<rows, refs, pc, selected>>
        /\ todo' = [todo EXCEPT ![r] = Tail(@)]
        /\ made' = [made EXCEPT ![r] = @ \cup ({x} \ rows)]
        /\ updated' = [updated EXCEPT ![r] = IF r \in Batched THEN @ ELSE @ \cup {x}]
        /\ referred' = [referred EXCEPT ![r] = IF x \in Seen(r) THEN @ ELSE @ \cup Parents(x)]
    BY <1>4 DEF InsertRow, x
  <2>2. /\ todo'[r] = Tail(todo[r])
        /\ made'[r] = made[r] \cup ({x} \ rows)
        /\ updated'[r] = IF r \in Batched THEN updated[r] ELSE updated[r] \cup {x}
        /\ referred'[r] = IF x \in Seen(r) THEN referred[r] ELSE referred[r] \cup Parents(x)
        /\ \A q \in Recorders \ {r} :
             /\ todo'[q] = todo[q] /\ made'[q] = made[q]
             /\ updated'[q] = updated[q] /\ referred'[q] = referred[q]
    BY <2>1 DEF IInv, TypeInv
  <2>3. TypeInv'
    <3>1. made[r] \cup ({x} \ rows) \in SUBSET Rows /\ updated[r] \cup {x} \in SUBSET Rows
          /\ referred[r] \cup Parents(x) \in SUBSET Rows
      BY <1>2, <1>3 DEF IInv, TypeInv
    <3> QED
      BY <1>2, <2>1, <3>1 DEF IInv, TypeInv
  <2>4. LockedStay'
    <3>1. Seen(r)' = Seen(r) \cup {x} /\ \A q \in Recorders \ {r} : Seen(q)' = Seen(q)
      BY <2>1, <2>2 DEF Seen
    <3>2. updated'[r] \cup referred'[r] \subseteq Seen(r)'
      BY <1>4, <2>2, <3>1 DEF IInv, LockedStay
    <3>3. \A y \in made'[r] : Parents(y) \subseteq referred'[r]
      BY <2>2 DEF IInv, LockedStay, Seen
    <3> QED
      BY <2>2, <3>1, <3>2, <3>3 DEF IInv, LockedStay
  <2>5. SinglesInv'
    BY <1>2, <2>1, <2>2 DEF IInv, SinglesInv
  <2>6. OutputsInv'
    BY <2>1, <2>2 DEF IInv, OutputsInv
  <2>7. ReferencesStand' /\ KeptInv' /\ ActionsKeepTheirFiles'
    BY <2>1 DEF IInv, ReferencesStand, KeptInv, ActionsKeepTheirFiles
  <2> QED
    BY <2>3, <2>4, <2>5, <2>6, <2>7 DEF IInv
<1>5. CASE ~(x \in Seen(r) \/ Parents(x) \subseteq Seen(r))
  BY <1>5, RollbackStep DEF InsertRow
<1> QED
  BY <1>4, <1>5

LEMMA AssociateStep ==
  ASSUME IInv, NEW r \in Recorders, Associate(r)
  PROVE  IInv'
<1>1. CASE Wanted(r) \subseteq Seen(r)
  <2>1. /\ UNCHANGED <<rows, refs, todo, made, updated, selected>>
        /\ pc[r] = "files"
        /\ pc' = [pc EXCEPT ![r] = "commit"]
        /\ referred' = [referred EXCEPT ![r] = @ \cup Wanted(r)]
    BY <1>1 DEF Associate
  <2>2. /\ pc'[r] = "commit" /\ referred'[r] = referred[r] \cup Wanted(r)
        /\ \A q \in Recorders \ {r} : pc'[q] = pc[q] /\ referred'[q] = referred[q]
    BY <2>1 DEF IInv, TypeInv
  <2>3. TypeInv'
    <3>1. referred[r] \cup Wanted(r) \in SUBSET Rows
      BY WantedAreFiles DEF IInv, TypeInv
    <3> QED
      BY <2>1, <3>1 DEF IInv, TypeInv, Running
  <2>4. LockedStay'
    BY <1>1, <2>1, <2>2 DEF IInv, LockedStay, Seen
  <2>5. SinglesInv' /\ OutputsInv'
    BY <2>1, <2>2 DEF IInv, SinglesInv, OutputsInv
  <2>6. ReferencesStand' /\ KeptInv'
    BY <2>1 DEF IInv, ReferencesStand, KeptInv
  <2>7. ActionsKeepTheirFiles'
    BY <2>1, <2>2 DEF IInv, ActionsKeepTheirFiles
  <2> QED
    BY <2>3, <2>4, <2>5, <2>6, <2>7 DEF IInv
<1>2. CASE ~(Wanted(r) \subseteq Seen(r))
  BY <1>2, RollbackStep DEF Associate
<1> QED
  BY <1>1, <1>2

\* When the transaction is committed, it has locked all that it refers to.
LEMMA AllIsLocked ==
  ASSUME IInv, NEW r \in Recorders, Commit(r)
  PROVE  /\ Wanted(r) \subseteq Seen(r)
         /\ r \notin Batched => Wanted(r) \subseteq updated[r]
<1>1. updated[r] \cup referred[r] \subseteq Seen(r)
  BY DEF IInv, LockedStay
<1>2. CASE pc[r] = "commit"
  BY <1>1, <1>2 DEF IInv, OutputsInv, SinglesInv
<1>3. CASE pc[r] = "single" /\ todo[r] = <<>>
  <2>1. Range(todo[r]) = {}
    BY <1>3 DEF Range
  <2> QED
    BY <1>1, <1>3, <2>1 DEF IInv, SinglesInv
<1> QED
  BY <1>2, <1>3 DEF Commit

LEMMA CommitStep ==
  ASSUME IInv, NEW r \in Recorders, Commit(r)
  PROVE  IInv'
<1>1. /\ rows' = rows \cup made[r] /\ selected' = selected \ updated[r]
      /\ pc' = [pc EXCEPT ![r] = "saved"]
      /\ refs' = [refs EXCEPT ![r] = Wanted(r)]
      /\ EndTx(r)
  BY AllIsLocked DEF Commit
<1>2. /\ pc'[r] = "saved" /\ refs'[r] = Wanted(r)
      /\ \A q \in Recorders \ {r} : pc'[q] = pc[q] /\ refs'[q] = refs[q]
  BY <1>1 DEF IInv, TypeInv
<1>3. TypeInv'
  <2>1. rows \cup made[r] \subseteq Rows /\ Wanted(r) \in SUBSET Rows
    BY WantedAreFiles DEF IInv, TypeInv
  <2> QED
    BY <1>1, <2>1, EndTxIs DEF IInv, TypeInv
<1>4. ReferencesStand'
  <2>1. \A x \in made[r] : Parents(x) \subseteq rows'
    BY <1>1 DEF IInv, LockedStay, Seen
  <2>2. Wanted(r) \subseteq rows'
    BY <1>1, AllIsLocked DEF Seen
  <2> QED
    BY <1>1, <1>2, <2>1, <2>2 DEF IInv, ReferencesStand
<1>5. LockedStay'
  <2>1. \A q \in Recorders \ {r} : Seen(q) \subseteq Seen(q)'
    BY <1>1, EndTxIs DEF IInv, Seen
  <2> QED
    BY <1>1, <2>1, EndTxIs DEF IInv, LockedStay
<1>6. SinglesInv'
  BY <1>1, <1>2, EndTxIs DEF IInv, SinglesInv
<1>7. OutputsInv'
  BY <1>1, <1>2, EndTxIs DEF IInv, OutputsInv
<1>8. KeptInv'
  BY <1>1, <1>2, AllIsLocked DEF IInv, KeptInv
<1>9. ActionsKeepTheirFiles'
  BY <1>2 DEF IInv, ActionsKeepTheirFiles
<1> QED
  BY <1>3, <1>4, <1>5, <1>6, <1>7, <1>8, <1>9 DEF IInv

LEMMA StepStep ==
  ASSUME IInv, NEW r \in Recorders, Step(r)
  PROVE  IInv'
<1>1. DeadlockAbort(r) => Rollback(r)
  BY DEF DeadlockAbort
<1> QED
  BY <1>1, BeginStep, InsertRowStep, InsertDigestsStep, InsertFilesStep, AssociateStep,
     CommitStep, RollbackStep DEF Step

-----------------------------------------------------------------------------
(* The cleanup service.                                                    *)

LEMMA RemoveInvocationStep ==
  ASSUME IInv, NEW r \in Recorders, RemoveInvocation(r)
  PROVE  IInv'
<1>1. /\ UNCHANGED <<rows, todo, made, updated, referred, selected>>
      /\ pc' = [pc EXCEPT ![r] = "gone"] /\ refs' = [refs EXCEPT ![r] = {}]
      /\ pc'[r] = "gone" /\ refs'[r] = {}
      /\ \A q \in Recorders \ {r} : pc'[q] = pc[q] /\ refs'[q] = refs[q]
  BY DEF RemoveInvocation, txVars, IInv, TypeInv
<1>2. TypeInv'
  BY <1>1 DEF IInv, TypeInv
<1>3. LockedStay' /\ SinglesInv' /\ OutputsInv'
  BY <1>1 DEF IInv, LockedStay, Seen, SinglesInv, OutputsInv
<1>4. ReferencesStand' /\ KeptInv' /\ ActionsKeepTheirFiles'
  BY <1>1 DEF IInv, ReferencesStand, KeptInv, ActionsKeepTheirFiles
<1> QED
  BY <1>2, <1>3, <1>4 DEF IInv

LEMMA SelectUnusedStep ==
  ASSUME IInv, SelectUnused
  PROVE  IInv'
<1>1. UNCHANGED <<rows, refs, pc, todo, made, updated, referred>>
  BY DEF SelectUnused, txVars
<1>2. PICK S \in {UnusedFiles, Childless("path"), Childless("digest")} : selected' = S
  BY DEF SelectUnused
<1>3. selected' \subseteq rows
  BY <1>2 DEF UnusedFiles, Childless
<1>4. \A r \in Recorders : refs[r] \cap selected' = {}
  BY <1>2, WantedAreFiles DEF IInv, KeptInv, UnusedFiles, Childless
<1>5. TypeInv'
  BY <1>1, <1>3 DEF IInv, TypeInv
<1>6. KeptInv'
  BY <1>1, <1>4 DEF IInv, KeptInv
<1>7. LockedStay' /\ SinglesInv' /\ OutputsInv'
  BY <1>1 DEF IInv, LockedStay, Seen, SinglesInv, OutputsInv
<1>8. ReferencesStand' /\ ActionsKeepTheirFiles'
  BY <1>1 DEF IInv, ReferencesStand, ActionsKeepTheirFiles
<1> QED
  BY <1>5, <1>6, <1>7, <1>8 DEF IInv

LEMMA DeleteUnusedStep ==
  ASSUME IInv, DeleteUnused
  PROVE  IInv'
<1>1. UNCHANGED <<pc, todo, made, updated, referred>> /\ selected' = {}
  BY DEF DeleteUnused, txVars
<1>2. CASE UNCHANGED <<rows, refs>>
  <2>1. TypeInv' /\ KeptInv'
    BY <1>1, <1>2 DEF IInv, TypeInv, KeptInv
  <2>2. LockedStay' /\ SinglesInv' /\ OutputsInv'
    BY <1>1, <1>2 DEF IInv, LockedStay, Seen, SinglesInv, OutputsInv
  <2>3. ReferencesStand' /\ ActionsKeepTheirFiles'
    BY <1>1, <1>2 DEF IInv, ReferencesStand, ActionsKeepTheirFiles
  <2> QED
    BY <2>1, <2>2, <2>3 DEF IInv
<1>3. CASE /\ \A x \in rows \ Deletable : Parents(x) \cap Deletable = {}
           /\ rows' = rows \ Deletable
           /\ refs' = [r \in Recorders |-> refs[r] \ Deletable]
  <2>1. /\ rows' = rows \ Deletable
        /\ \A r \in Recorders : refs'[r] = refs[r] \ Deletable
    BY <1>3
  <2>2. TypeInv'
    BY <1>1, <1>3 DEF IInv, TypeInv
  <2>3. ReferencesStand'
    BY <1>3, <2>1 DEF IInv, ReferencesStand
  <2>4. LockedStay'
    BY <1>1, <2>1 DEF IInv, LockedStay, Seen, Deletable, Locked
  <2>5. KeptInv'
    BY <1>1, <2>1 DEF IInv, KeptInv
  <2>6. SinglesInv' /\ OutputsInv'
    BY <1>1 DEF IInv, SinglesInv, OutputsInv
  <2>7. ActionsKeepTheirFiles'
    <3> SUFFICES ASSUME NEW r \in Recorders \ Batched, pc'[r] = "saved"
                 PROVE  refs'[r] = Wanted(r)
      BY DEF ActionsKeepTheirFiles
    <3>1. refs[r] = Wanted(r)
      BY <1>1 DEF IInv, ActionsKeepTheirFiles
    <3>2. refs[r] \cap Deletable = {}
      BY DEF IInv, KeptInv, Deletable
    <3> QED
      BY <2>1, <3>1, <3>2
  <2> QED
    BY <2>2, <2>3, <2>4, <2>5, <2>6, <2>7 DEF IInv
<1> QED
  BY <1>2, <1>3 DEF DeleteUnused

-----------------------------------------------------------------------------
(* The theorems.                                                           *)

LEMMA NextIInv == IInv /\ [Next]_vars => IInv'
<1> SUFFICES ASSUME IInv, [Next]_vars
             PROVE  IInv'
  OBVIOUS
<1>1. CASE UNCHANGED vars
  <2>1. TypeInv' /\ ReferencesStand' /\ KeptInv'
    BY <1>1 DEF IInv, vars, txVars, TypeInv, ReferencesStand, KeptInv
  <2>2. LockedStay' /\ SinglesInv' /\ OutputsInv' /\ ActionsKeepTheirFiles'
    BY <1>1 DEF IInv, vars, txVars, LockedStay, Seen, SinglesInv, OutputsInv,
       ActionsKeepTheirFiles
  <2> QED
    BY <2>1, <2>2 DEF IInv
<1> QED
  BY <1>1, StepStep, RemoveInvocationStep, SelectUnusedStep, DeleteUnusedStep
  DEF Next, Cleanup

LEMMA IInvHolds == Spec => []IInv
  BY InitIInv, NextIInv, PTL DEF Spec

\* No committed row refers to a row that has been deleted: what an open transaction
\* refers to is locked, and a DELETE passes over it (FOR UPDATE SKIP LOCKED).
THEOREM ReferencesStandAlways == Spec => []ReferencesStand
<1>1. IInv => ReferencesStand
  BY DEF IInv
<1> QED
  BY <1>1, IInvHolds, PTL

\* What a saved action refers to stays until the action is removed itself, although
\* a DELETE may have been selecting unused files since before it was saved
\* (SaveSingleFile, RemoveUnusedFiles).
THEOREM ActionsKeepTheirFilesAlways == Spec => []ActionsKeepTheirFiles
<1>1. IInv => ActionsKeepTheirFiles
  BY DEF IInv
<1> QED
  BY <1>1, IInvHolds, PTL

\* Test results are committed with all their outputs, although each statement of
\* saveFilesBatch leaves out what its snapshot does not have.
THEOREM SavedWithAllOutputsAlways == Spec => SavedWithAllOutputs
<1>1. ASSUME IInv, [Next]_vars
      PROVE  [\A r \in Recorders :
                pc[r] = "commit" /\ pc'[r] = "saved" => refs'[r] = Wanted(r)]_vars
  <2> SUFFICES ASSUME Next, NEW r \in Recorders, pc[r] = "commit", pc'[r] = "saved"
               PROVE  refs'[r] = Wanted(r)
    BY <1>1
  <2>1. \A q \in Recorders : Step(q) /\ ~Commit(q) => pc'[r] # "saved"
    BY <1>1 DEF Step, Begin, InsertRow, InsertDigests, InsertFiles, Associate, DeadlockAbort,
       Rollback, Continue, IInv, TypeInv
  <2>2. ~Cleanup /\ \A q \in Recorders : ~RemoveInvocation(q)
    BY <1>1 DEF Cleanup, SelectUnused, DeleteUnused, RemoveInvocation, IInv, TypeInv
  <2>3. PICK q \in Recorders : Commit(q)
    BY <2>1, <2>2 DEF Next
  <2>4. q = r
    BY <1>1, <2>3 DEF Commit, IInv, TypeInv
  <2> QED
    BY <1>1, <2>3, <2>4, AllIsLocked DEF Commit, IInv, TypeInv
<1> QED
  BY <1>1, IInvHolds, PTL DEF Spec, SavedWithAllOutputs
=============================================================================
