------------------------------- MODULE Files -------------------------------
(***************************************************************************)
(* The files that invocations share, their paths and digests, and the      *)
(* cleanup tasks that remove what is unused.                               *)
(*                                                                         *)
(* A batch of test results inserts its paths, digests and files in one     *)
(* sorted statement each (saveFilesBatch), and then associates the results *)
(* with their files.  Each statement joins the rows that its snapshot has. *)
(* An action or a profile inserts its files one by one, in the order of    *)
(* the events (SaveSingleFile); Ignore of the generated client is          *)
(* ON CONFLICT DO UPDATE, which locks rows and makes new versions of them. *)
(* Rows are never updated otherwise, so that a row is told by its key.     *)
(***************************************************************************)
EXTENDS Naturals, FiniteSets, SequencesExt, Relation

CONSTANTS
  Recorders,
  FilesOf,      \* FilesOf[r]: what r saves, a sequence of pairs of path and digest
  Batched       \* the recorders that save test results; the others save an action

ASSUME FilesAssumption ==
  /\ DOMAIN FilesOf = Recorders
  /\ \A r \in Recorders : FilesOf[r] \in Seq(Nat \X Nat)
  /\ Batched \subseteq Recorders

VARIABLES
  rows,         \* committed rows of file_paths, digests and files
  refs,         \* refs[r]: the files that the committed rows of r refer to
  pc,           \* where the recorder is
  todo,         \* todo[r]: the rows that its statement, or its event, still inserts
  made,         \* made[r]: rows inserted by its open transaction
  updated,      \* updated[r]: rows that its transaction has locked by DO UPDATE
  referred,     \* referred[r]: rows that its transaction has referred to
  selected      \* rows that a DELETE of the cleanup service has found unused

txVars == <<todo, made, updated, referred>>
vars == <<rows, refs, pc, txVars, selected>>

\* open: there is no transaction yet, or none any more; paths, digests: saveFilesBatch
\* before its statements of this name is over; files: the insertion of the files;
\* single: SaveSingleFile; commit: all is written.
Running == {"paths", "digests", "files", "single", "commit"}

PathRow(f) == <<"path", f[1], 0>>
DigestRow(f) == <<"digest", 0, f[2]>>
FileRow(f) == <<"file", f[1], f[2]>>

\* The rows that a foreign key of row x refers to.
Parents(x) == IF x[1] = "file" THEN {PathRow(<<x[2], x[3]>>), DigestRow(<<x[2], x[3]>>)} ELSE {}

Wanted(r) == {FileRow(f) : f \in Range(FilesOf[r])}

Init ==
  /\ rows = {}
  /\ refs = [r \in Recorders |-> {}]
  /\ pc = [r \in Recorders |-> "open"]
  /\ todo = [r \in Recorders |-> <<>>]
  /\ made = [r \in Recorders |-> {}]
  /\ updated = [r \in Recorders |-> {}]
  /\ referred = [r \in Recorders |-> {}]
  /\ selected = {}

-----------------------------------------------------------------------------
(* Rows and locks.                                                         *)

\* What a statement of this transaction sees.
Seen(r) == rows \cup made[r]

\* What INSERT ... ON CONFLICT of row x waits for: the same row of an open
\* transaction; DO UPDATE for any lock on the row; the foreign keys for the rows they
\* refer to.
Blocks(q, r, x) ==
  /\ q # r
  /\ \/ x \in made[q]
     \/ r \notin Batched /\ x \in updated[q] \cup referred[q]
     \/ x \notin Seen(r) /\ Parents(x) \cap updated[q] # {}

\* What the association with row x waits for.
BlocksReference(q, r, x) == q # r /\ x \in updated[q]

WaitsFor(r, q) ==
  \/ todo[r] # <<>> /\ Blocks(q, r, Head(todo[r]))
  \/ pc[r] = "files" /\ todo[r] = <<>> /\ \E x \in Wanted(r) : BlocksReference(q, r, x)

Waits(r) == \E q \in Recorders : WaitsFor(r, q)

EndTx(r) ==
  /\ todo' = [todo EXCEPT ![r] = <<>>]
  /\ made' = [made EXCEPT ![r] = {}]
  /\ updated' = [updated EXCEPT ![r] = {}]
  /\ referred' = [referred EXCEPT ![r] = {}]

\* A statement fails, or finds too few rows.  SaveBatch tries again, or the client
\* sends the events again.
Rollback(r) ==
  /\ EndTx(r)
  /\ pc' = [pc EXCEPT ![r] = "open"]
  /\ UNCHANGED <<rows, refs, selected>>

Continue(r, label, statement) ==
  /\ pc' = [pc EXCEPT ![r] = label]
  /\ todo' = [todo EXCEPT ![r] = statement]
  /\ UNCHANGED <<rows, refs, made, updated, referred, selected>>

-----------------------------------------------------------------------------
(* Recorders.                                                              *)

\* ORDER BY the path, or the hash.
Sorted(S) ==
  {order \in SetToSeqs(S) : \A i, j \in DOMAIN order :
     i < j => order[i][2] + order[i][3] < order[j][2] + order[j][3]}

\* SaveSingleFile, for each file.
SingleRows(r) ==
  [k \in 1 .. 3 * Len(FilesOf[r]) |->
     LET f == FilesOf[r][(k + 2) \div 3]
     IN  <<PathRow(f), DigestRow(f), FileRow(f)>>[1 + ((k + 2) % 3)]]

\* A transaction begins; saveFilesBatch with InsertMissingFilePaths, saveActionExecuted
\* with SaveSingleFile.
Begin(r) ==
  /\ pc[r] = "open"
  /\ IF r \in Batched
     THEN \E order \in Sorted({PathRow(f) : f \in Range(FilesOf[r])}) :
            Continue(r, "paths", order)
     ELSE Continue(r, "single", SingleRows(r))

\* The next row of the statement is inserted, or found.
InsertRow(r) ==
  /\ todo[r] # <<>>
  /\ ~Waits(r)
  /\ LET x == Head(todo[r]) IN
       IF x \in Seen(r) \/ Parents(x) \subseteq Seen(r)
       THEN /\ todo' = [todo EXCEPT ![r] = Tail(@)]
            /\ made' = [made EXCEPT ![r] = @ \cup ({x} \ rows)]
            /\ updated' = [updated EXCEPT ![r] = IF r \in Batched THEN @ ELSE @ \cup {x}]
            /\ referred' = [referred EXCEPT ![r] = IF x \in Seen(r) THEN @ ELSE @ \cup Parents(x)]
            /\ UNCHANGED <<rows, refs, pc, selected>>
       ELSE Rollback(r)

\* Mutant: the digests are taken to be there.
InsertNoDigests(r) ==
  /\ pc[r] = "paths" /\ todo[r] = <<>>
  /\ Continue(r, "digests", <<>>)

\* InsertMissingDigests begins.
InsertDigests(r) ==
  /\ pc[r] = "paths" /\ todo[r] = <<>>
  /\ \E order \in Sorted({DigestRow(f) : f \in Range(FilesOf[r])}) :
       Continue(r, "digests", order)

\* InsertMissingFiles begins, and leaves out the files whose path or digest its
\* snapshot does not have.  They are inserted in the order of identity columns.
InsertFiles(r) ==
  /\ pc[r] = "digests" /\ todo[r] = <<>>
  /\ \E order \in SetToSeqs({x \in Wanted(r) : Parents(x) \subseteq Seen(r)}) :
       Continue(r, "files", order)

\* Mutant: the number of rows is not compared.
AssociateUncounted(r) ==
  /\ pc[r] = "files" /\ todo[r] = <<>>
  /\ ~Waits(r)
  /\ referred' = [referred EXCEPT ![r] = @ \cup (Wanted(r) \cap Seen(r))]
  /\ pc' = [pc EXCEPT ![r] = "commit"]
  /\ UNCHANGED <<rows, refs, todo, made, updated, selected>>

\* CreateTestActionOutputAssociation refers to the files that it finds;
\* createTestResultsBulk fails unless these are all.
Associate(r) ==
  /\ pc[r] = "files" /\ todo[r] = <<>>
  /\ ~Waits(r)
  /\ IF Wanted(r) \subseteq Seen(r)
     THEN /\ referred' = [referred EXCEPT ![r] = @ \cup Wanted(r)]
          /\ pc' = [pc EXCEPT ![r] = "commit"]
          /\ UNCHANGED <<rows, refs, todo, made, updated, selected>>
     ELSE Rollback(r)

\* Mutant: the rows that are found stay the same versions (DO NOTHING).
CommitSameVersions(r) ==
  /\ \/ pc[r] = "commit"
     \/ pc[r] = "single" /\ todo[r] = <<>>
  /\ rows' = rows \cup made[r]
  /\ refs' = [refs EXCEPT ![r] = Wanted(r) \cap Seen(r)]
  /\ UNCHANGED selected
  /\ pc' = [pc EXCEPT ![r] = "saved"]
  /\ EndTx(r)

\* The action gets its files, and the transaction is committed.  A row that DO UPDATE
\* has found is a new version now, which the snapshot of a DELETE does not have.
Commit(r) ==
  /\ \/ pc[r] = "commit"
     \/ pc[r] = "single" /\ todo[r] = <<>>
  /\ rows' = rows \cup made[r]
  /\ refs' = [refs EXCEPT ![r] = Wanted(r) \cap Seen(r)]
  /\ selected' = selected \ updated[r]
  /\ pc' = [pc EXCEPT ![r] = "saved"]
  /\ EndTx(r)

InCircle(r) == TransitiveClosure([p, q \in Recorders |-> WaitsFor(p, q)], Recorders)[r, r]

\* PostgreSQL breaks a circle of transactions that wait for each other.
DeadlockAbort(r) ==
  /\ Waits(r)
  /\ InCircle(r)
  /\ Rollback(r)

-----------------------------------------------------------------------------
(* The cleanup service.                                                    *)

\* RemoveOldInvocations: its test results and actions go with an invocation.
RemoveInvocation(r) ==
  /\ pc[r] = "saved"
  /\ pc' = [pc EXCEPT ![r] = "gone"]
  /\ refs' = [refs EXCEPT ![r] = {}]
  /\ UNCHANGED <<rows, txVars, selected>>

UnusedFiles == {x \in rows : x[1] = "file" /\ \A r \in Recorders : x \notin refs[r]}
Childless(kind) == {x \in rows : x[1] = kind /\ \A y \in rows : x \notin Parents(y)}

\* RemoveUnusedFiles, RemoveUnusedFilePaths, RemoveUnusedDigests: the snapshot of the
\* DELETE, and the rows that it is going to lock.
SelectUnused ==
  /\ selected = {}
  /\ \E S \in {UnusedFiles, Childless("path"), Childless("digest")} :
       S # {} /\ selected' = S
  /\ UNCHANGED <<rows, refs, pc, txVars>>

Locked == UNION {updated[r] \cup referred[r] : r \in Recorders}

\* FOR UPDATE SKIP LOCKED.
Deletable == selected \ Locked

\* The rows are deleted, and the outputs of tests that refer to them with them; the
\* statement fails if a file refers to one of them.
DeleteUnused ==
  /\ selected # {}
  /\ selected' = {}
  /\ IF \E x \in rows \ Deletable : Parents(x) \cap Deletable # {}
     THEN UNCHANGED <<rows, refs>>
     ELSE /\ rows' = rows \ Deletable
          /\ refs' = [r \in Recorders |-> refs[r] \ Deletable]
  /\ UNCHANGED <<pc, txVars>>

-----------------------------------------------------------------------------

Step(r) ==
  \/ Begin(r) \/ InsertRow(r) \/ InsertDigests(r) \/ InsertFiles(r) \/ Associate(r)
  \/ Commit(r) \/ DeadlockAbort(r)

Cleanup == SelectUnused \/ DeleteUnused

Next == Cleanup \/ \E r \in Recorders : Step(r) \/ RemoveInvocation(r)

Spec == Init /\ [][Next]_vars

\* Each recorder goes on with its transaction, and tries again.
Fairness == \A r \in Recorders : WF_vars(Step(r))
FairSpec == Spec /\ Fairness

-----------------------------------------------------------------------------
(* Properties.                                                             *)

\* What an action or an invocation refers to stays until it is removed itself, in
\* spite of deletions that were selected before it was saved.
ActionsKeepTheirFiles ==
  \A r \in Recorders \ Batched : pc[r] = "saved" => refs[r] = Wanted(r)

\* A test result is saved with all its outputs or not at all, although each of the
\* statements leaves out what it does not find.
SavedWithAllOutputs ==
  [][\A r \in Recorders : pc[r] = "commit" /\ pc'[r] = "saved" => refs'[r] = Wanted(r)]_vars

DeadlocksGoOn == []<><<\E r \in Recorders : DeadlockAbort(r)>>_vars

\* Whatever is removed in between, files are saved in the end, unless transactions
\* that lock rows in different orders deadlock again whenever they are repeated.
SaveGetsThrough ==
  DeadlocksGoOn \/ \A r \in Recorders : pc[r] \in Running ~> pc[r] = "saved"
=============================================================================
