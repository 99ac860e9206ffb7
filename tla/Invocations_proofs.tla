------------------------- MODULE Invocations_proofs -------------------------
(***************************************************************************)
(* Proofs about Invocations, for any number of streams, users, builds and  *)
(* invocations: rows refer to rows that exist, a recorder writes to no     *)
(* invocation of somebody else, what is saved is saved as a whole, and     *)
(* opening a stream never deadlocks.                                       *)
(***************************************************************************)
EXTENDS Invocations, TLAPS

(***************************************************************************)
(* The inductive invariant.  An invocation that is being created has no    *)
(* committed row and no other creator (NewIsAlone), one that a transaction *)
(* shares is not removed (SharedIsRow), and the user of an invocation is   *)
(* its creator or has been removed (UserIsCreator).                        *)
(***************************************************************************)

NewIsAlone ==
  \A s \in Streams : mine[s] = "new" =>
    /\ pc[s] = "commit"
    /\ ~Exists(Id[s])
    /\ \A t \in Others(s) : ~MadeInvocation(t, Id[s])

SharedIsRow == \A s \in Streams : pc[s] \in Saving => mine[s] = "row"

UserIsCreator == \A i \in Rows : invs[i].user \in {invs[i].creator, NoUser}

IInv == TypeOK /\ NewIsAlone /\ SharedIsRow /\ UserIsCreator /\ JoinedIsOwn

-----------------------------------------------------------------------------
(* TypeOK in two parts: the tables, and what recorders remember.           *)

TablesOK ==
  /\ names \subseteq Values(Instance)
  /\ users \subseteq Values(User) \ {NoUser}
  /\ builds \subseteq Values(Build)
  /\ invs \in [Values(Id) -> Row \cup {None}]
  /\ \A i \in Rows :
       /\ invs[i].instance \in names
       /\ invs[i].user \in users \cup {NoUser}
       /\ invs[i].build \in builds \cup {NoBuild}
  /\ idleUsers \subseteq users
  /\ idleBuilds \subseteq builds
  /\ connects \in 0 .. MaxConnects

RecordersOK ==
  /\ pc \in [Streams -> PCs]
  /\ mine \in [Streams -> Refs]
  /\ \A s \in Streams : mine[s] = "row" => Exists(Id[s])

LEMMA TypeParts ==
  /\ TypeOK <=> TablesOK /\ RecordersOK
  /\ TypeOK' <=> TablesOK' /\ RecordersOK'
<1>1. TypeOK <=> TablesOK /\ RecordersOK
  BY DEF TypeOK, TablesOK, RecordersOK
<1> QED
  BY <1>1, PTL

LEMMA ValuesOf ==
  \A s \in Streams : /\ Id[s] \in Values(Id) /\ Instance[s] \in Values(Instance)
                      /\ User[s] \in Values(User) /\ Build[s] \in Values(Build)
  BY DEF Values

LEMMA RowsAreRows ==
  ASSUME TablesOK
  PROVE  \A i \in Values(Id) : Exists(i) <=> invs[i] \in Row
  BY InvocationsAssumption DEF TablesOK, Exists

-----------------------------------------------------------------------------
(* Steps that leave the tables alone.                                      *)

LEMMA MoveStep ==
  ASSUME IInv, NEW s \in Streams, NEW label \in PCs, NEW ref \in Refs,
         UNCHANGED <<names, users, builds, invs, idleUsers, idleBuilds>>,
         connects' \in 0 .. MaxConnects,
         pc' = [pc EXCEPT ![s] = label], mine' = [mine EXCEPT ![s] = ref],
         ref = "row" => mine[s] = "row" \/ Matches(s),
         ref = "new" => /\ label = "commit" /\ ~Exists(Id[s])
                        /\ \A t \in Others(s) : ~MadeInvocation(t, Id[s]),
         label \in Saving => ref = "row"
  PROVE  IInv'
<1>1. /\ pc'[s] = label /\ mine'[s] = ref
      /\ \A t \in Others(s) : pc'[t] = pc[t] /\ mine'[t] = mine[t]
  BY DEF IInv, TypeOK, Others
<1>2. TablesOK'
  BY TypeParts DEF IInv, TablesOK, Rows, Exists
<1>3. RecordersOK'
  BY <1>1 DEF IInv, TypeOK, RecordersOK, Exists, Matches, Others
<1>4. NewIsAlone'
  BY <1>1 DEF IInv, NewIsAlone, MadeInvocation, Exists, Others
<1>5. SharedIsRow'
  BY <1>1 DEF IInv, SharedIsRow, Others
<1>6. UserIsCreator'
  BY DEF IInv, UserIsCreator, Rows, Exists
<1>7. JoinedIsOwn'
  <2>1. Matches(s) => /\ invs[Id[s]].instance = Instance[s]
                      /\ IF User[s] = NoUser THEN invs[Id[s]].user = NoUser
                                             ELSE invs[Id[s]].creator = User[s]
    BY ValuesOf DEF Matches, IInv, UserIsCreator, Rows
  <2> QED
    BY <1>1, <2>1 DEF IInv, JoinedIsOwn, Others
<1> QED
  BY <1>2, <1>3, <1>4, <1>5, <1>6, <1>7, TypeParts DEF IInv

LEMMA FailStep ==
  ASSUME IInv, NEW s \in Streams, NEW label \in {"off", "refused"}, Fail(s, label)
  PROVE  IInv'
<1>1. label \in PCs /\ "none" \in Refs /\ label \notin Saving /\ connects' \in 0 .. MaxConnects
  BY DEF PCs, Over, Refs, Saving, IInv, TypeOK, Fail, outside
<1> QED
  BY <1>1, MoveStep DEF Fail, Goto, outside

LEMMA ProceedStep ==
  ASSUME IInv, NEW s \in Streams, NEW label \in PCs, Proceed(s, label),
         pc[s] # "commit", label \in Saving => mine[s] = "row"
  PROVE  IInv'
<1>1. mine' = [mine EXCEPT ![s] = mine[s]] /\ mine[s] \in Refs
  BY DEF Proceed, IInv, TypeOK
<1>2. mine[s] # "new" /\ connects' \in 0 .. MaxConnects
  BY DEF IInv, TypeOK, NewIsAlone, Proceed, outside
<1> QED
  BY <1>1, <1>2, MoveStep DEF Proceed, Goto, outside

LEMMA ConnectStep ==
  ASSUME IInv, NEW s \in Streams, Connect(s)
  PROVE  IInv'
<1>1. "user" \in PCs /\ "none" \in Refs /\ "user" \notin Saving
  BY DEF PCs, Refs, Saving
<1>2. connects' \in 0 .. MaxConnects
  BY InvocationsAssumption DEF IInv, TypeOK, Connect
<1> QED
  BY <1>1, <1>2, MoveStep DEF Connect, Goto

LEMMA NameStep ==
  ASSUME IInv, NEW s \in Streams,
         CreateAuthenticatedUser(s) \/ LookUpName(s) \/ InsertName(s)
  PROVE  IInv'
<1>1. {"name", "invocation", "insert_name"} \subseteq PCs \ Saving
  BY DEF PCs, Creating, Saving
<1> QED
  BY <1>1, ProceedStep, FailStep DEF CreateAuthenticatedUser, LookUpName, InsertName

LEMMA LookUpInvocationStep ==
  ASSUME IInv, NEW s \in Streams, LookUpInvocation(s)
  PROVE  IInv'
<1> DEFINE ref == IF Matches(s) THEN "row" ELSE "none"
<1>1. "find" \in PCs /\ ref \in Refs /\ "find" \notin Saving /\ connects' \in 0 .. MaxConnects
  BY DEF PCs, Creating, Refs, Saving, IInv, TypeOK, LookUpInvocation, outside
<1>2. mine' = [mine EXCEPT ![s] = ref] /\ (ref = "row" => Matches(s)) /\ ref # "new"
  BY DEF LookUpInvocation
<1> HIDE DEF ref
<1> QED
  BY <1>1, <1>2, MoveStep DEF LookUpInvocation, Goto, outside

LEMMA InsertInvocationStep ==
  ASSUME IInv, NEW s \in Streams, InsertInvocation(s)
  PROVE  IInv'
<1>1. "commit" \in PCs /\ "commit" \notin Saving /\ "new" \in Refs /\ pc[s] = "find"
  BY DEF PCs, Creating, Saving, Refs, InsertInvocation
<1>2. CASE Exists(Id[s])
  BY <1>1, <1>2, ProceedStep, FailStep DEF InsertInvocation
<1>3. CASE ~Exists(Id[s])
  <2>1. /\ pc' = [pc EXCEPT ![s] = "commit"] /\ mine' = [mine EXCEPT ![s] = "new"]
        /\ UNCHANGED <<names, users, builds, invs, outside>>
        /\ \A t \in Others(s) : ~MadeInvocation(t, Id[s])
    BY <1>3 DEF InsertInvocation, Goto
  <2>2. connects' \in 0 .. MaxConnects
    BY <2>1 DEF IInv, TypeOK, outside
  <2> QED
    BY <1>1, <1>3, <2>1, <2>2, MoveStep DEF outside
<1> QED
  BY <1>2, <1>3

LEMMA SavingStep ==
  ASSUME IInv, NEW s \in Streams, LockCompletion(s) \/ UpsertBuild(s) \/ DeadlockAbort(s)
  PROVE  IInv'
<1>1. {"build", "link", "ready"} \subseteq PCs /\ "ready" \notin Saving
  BY DEF PCs, Saving
<1>2. UpsertBuild(s) => mine[s] = "row"
  BY DEF IInv, SharedIsRow, UpsertBuild, Saving
<1>3. DeadlockAbort(s) => pc[s] # "commit"
  BY DEF DeadlockAbort, Saving
<1> QED
  BY <1>1, <1>2, <1>3, ProceedStep, FailStep DEF LockCompletion, UpsertBuild, DeadlockAbort

LEMMA SelectStep ==
  ASSUME IInv, SelectInactiveUsers \/ SelectBuilds
  PROVE  IInv'
<1>1. UNCHANGED <<names, users, builds, invs, recVars>>
  BY DEF SelectInactiveUsers, SelectBuilds
<1>2. idleUsers' \subseteq users' /\ idleBuilds' \subseteq builds'
  BY DEF IInv, TypeOK, SelectInactiveUsers, SelectBuilds, UsersWithoutInvocations,
         BuildsWithoutInvocations
<1>3. TypeOK'
  BY <1>1, <1>2 DEF IInv, TypeOK, recVars, Rows, Exists
<1> QED
  BY <1>1, <1>3 DEF IInv, recVars, NewIsAlone, SharedIsRow, UserIsCreator, JoinedIsOwn,
                    MadeInvocation, Rows, Exists

-----------------------------------------------------------------------------
(* Steps that change a row, or add one.                                    *)

LEMMA ChangeStep ==
  ASSUME IInv, NEW i \in Values(Id), Exists(i), NEW row \in Row,
         invs' = [invs EXCEPT ![i] = row],
         row.instance = invs[i].instance, row.user = invs[i].user,
         row.creator = invs[i].creator, row.build \in builds' \cup {NoBuild},
         builds \subseteq builds', builds' \subseteq Values(Build),
         UNCHANGED <<names, users, mine, outside>>,
         pc' \in [Streams -> PCs],
         \A s \in Streams : pc'[s] # pc[s] => pc[s] # "commit" /\ pc'[s] \notin Saving
  PROVE  IInv'
<1>1. \A j \in Values(Id) : j # i => invs'[j] = invs[j]
  BY DEF IInv, TypeOK
<1>2. invs'[i] = row /\ row # None
  BY InvocationsAssumption DEF IInv, TypeOK
<1>3. Rows' = Rows
  BY <1>1, <1>2 DEF Rows, Exists
<1>4. TablesOK'
  <2>1. invs' \in [Values(Id) -> Row \cup {None}]
    BY DEF IInv, TypeOK
  <2>2. \A j \in Rows' :
          /\ invs'[j].instance \in names'
          /\ invs'[j].user \in users' \cup {NoUser}
          /\ invs'[j].build \in builds' \cup {NoBuild}
    BY <1>1, <1>2, <1>3 DEF IInv, TypeOK, Rows
  <2> QED
    BY <2>1, <2>2 DEF IInv, TypeOK, TablesOK, outside
<1>5. RecordersOK'
  BY <1>1, <1>2, ValuesOf DEF IInv, TypeOK, RecordersOK, Exists
<1>6. NewIsAlone'
  <2>1. \A s \in Streams : mine[s] = "new" => ~Exists(Id[s])' /\ pc'[s] = "commit"
    BY <1>1, ValuesOf DEF IInv, NewIsAlone, Exists
  <2> QED
    BY <2>1 DEF IInv, NewIsAlone, MadeInvocation
<1>7. SharedIsRow'
  BY DEF IInv, SharedIsRow
<1>8. UserIsCreator'
  BY <1>1, <1>2, <1>3 DEF IInv, UserIsCreator, Rows
<1>9. JoinedIsOwn'
  BY <1>1, <1>2, ValuesOf DEF IInv, JoinedIsOwn
<1> QED
  BY <1>4, <1>5, <1>6, <1>7, <1>8, <1>9, TypeParts DEF IInv

LEMMA LoadHandledEventsStep ==
  ASSUME IInv, NEW s \in Streams, LoadHandledEvents(s)
  PROVE  IInv'
<1>1. CASE mine[s] # "row"
  BY <1>1, FailStep DEF LoadHandledEvents
<1>2. CASE mine[s] = "row"
  <2> DEFINE i == Id[s]
             meta == IF invs[i].meta = "none" THEN "row" ELSE invs[i].meta
             row == [invs[i] EXCEPT !.meta = meta]
  <2>1. i \in Values(Id) /\ Exists(i) /\ invs[i] \in Row
    BY <1>2, ValuesOf, RowsAreRows, TypeParts DEF IInv, RecordersOK
  <2>2. /\ row \in Row /\ row.instance = invs[i].instance /\ row.user = invs[i].user
        /\ row.creator = invs[i].creator /\ row.build = invs[i].build
    BY <2>1 DEF Row
  <2>3. invs' = [invs EXCEPT ![i] = row]
    BY <1>2 DEF LoadHandledEvents
  <2>4. /\ pc[s] = "ready" /\ UNCHANGED <<names, users, builds, mine, outside>>
        /\ pc' \in [Streams -> PCs]
        /\ \A t \in Streams : pc'[t] # pc[t] => pc[t] # "commit" /\ pc'[t] \notin Saving
    BY <1>2 DEF LoadHandledEvents, Goto, IInv, TypeOK, PCs, Over, Saving
  <2>5. row.build \in builds' \cup {NoBuild} /\ builds' \subseteq Values(Build)
    BY <2>1, <2>2, <2>4 DEF IInv, TypeOK, Rows
  <2> HIDE DEF i, row
  <2> QED
    BY <2>1, <2>2, <2>3, <2>4, <2>5, ChangeStep
<1> QED
  BY <1>1, <1>2

LEMMA CommitBuildStep ==
  ASSUME IInv, NEW s \in Streams, CommitBuild(s)
  PROVE  IInv'
<1> DEFINE i == Id[s]
           row == [invs[i] EXCEPT !.build = Build[s], !.meta = "handled"]
<1>1. pc[s] = "link" /\ mine[s] = "row"
  BY DEF CommitBuild, IInv, SharedIsRow, Saving
<1>2. CASE invs[i].meta = "handled"
  <2>1. "ready" \in PCs /\ "ready" \notin Saving
    BY DEF PCs, Saving
  <2> QED
    BY <1>1, <1>2, <2>1, ProceedStep DEF CommitBuild
<1>3. CASE invs[i].meta # "handled"
  <2>1. i \in Values(Id) /\ Exists(i) /\ invs[i] \in Row
    BY <1>1, ValuesOf, RowsAreRows, TypeParts DEF IInv, RecordersOK
  <2>2. /\ row \in Row /\ row.instance = invs[i].instance /\ row.user = invs[i].user
        /\ row.creator = invs[i].creator /\ row.build = Build[s]
    BY <2>1, ValuesOf DEF Row
  <2>3. invs' = [invs EXCEPT ![i] = row]
    BY <1>3, <2>1 DEF CommitBuild, IInv, TypeOK
  <2>4. /\ builds' = builds \cup {Build[s]} /\ UNCHANGED <<names, users, mine, outside>>
        /\ pc' = [pc EXCEPT ![s] = "saved"]
    BY <1>3 DEF CommitBuild, Goto
  <2>5. /\ pc' \in [Streams -> PCs]
        /\ \A t \in Streams : pc'[t] # pc[t] => pc[t] # "commit" /\ pc'[t] \notin Saving
    BY <1>1, <2>4 DEF IInv, TypeOK, PCs, Over, Saving
  <2>6. row.build \in builds' \cup {NoBuild} /\ builds' \subseteq Values(Build)
    BY <2>2, <2>4, ValuesOf DEF IInv, TypeOK
  <2> HIDE DEF i, row
  <2> QED
    BY <2>1, <2>2, <2>3, <2>4, <2>5, <2>6, ChangeStep
<1> QED
  BY <1>2, <1>3

LEMMA LockInvocationStep ==
  ASSUME IInv, NEW i \in Values(Id), LockInvocation(i)
  PROVE  IInv'
<1> DEFINE row == [invs[i] EXCEPT !.completed = TRUE]
<1>1. Exists(i) /\ invs[i] \in Row
  BY RowsAreRows, TypeParts DEF IInv, LockInvocation, IsStale
<1>2. /\ row \in Row /\ row.instance = invs[i].instance /\ row.user = invs[i].user
      /\ row.creator = invs[i].creator /\ row.build = invs[i].build
  BY <1>1 DEF Row
<1>3. invs' = [invs EXCEPT ![i] = row]
  BY DEF LockInvocation
<1>4. UNCHANGED <<names, users, builds, mine, outside, pc>>
  BY DEF LockInvocation, recVars, outside
<1>5. /\ row.build \in builds' \cup {NoBuild} /\ builds' \subseteq Values(Build)
      /\ pc' \in [Streams -> PCs]
  BY <1>1, <1>2, <1>4 DEF IInv, TypeOK, Rows
<1> HIDE DEF row
<1> QED
  BY <1>1, <1>2, <1>3, <1>4, <1>5, ChangeStep

LEMMA CommitCreationStep ==
  ASSUME IInv, NEW s \in Streams, CommitCreation(s)
  PROVE  IInv'
<1>1. /\ pc[s] = "commit"
      /\ names' = names \cup {Instance[s]}
      /\ users' = users \cup ({User[s]} \ {NoUser})
      /\ invs' = IF mine[s] = "new" THEN [invs EXCEPT ![Id[s]] = NewRow(s)] ELSE invs
      /\ mine' = [mine EXCEPT ![s] = IF mine[s] = "new" THEN "row" ELSE mine[s]]
      /\ pc' = [pc EXCEPT ![s] = "ready"]
      /\ UNCHANGED <<builds, outside>>
  BY DEF CommitCreation, Goto
<1>2. /\ pc'[s] = "ready" /\ mine'[s] = (IF mine[s] = "new" THEN "row" ELSE mine[s])
      /\ \A t \in Others(s) : pc'[t] = pc[t] /\ mine'[t] = mine[t]
  BY <1>1 DEF IInv, TypeOK, Others
<1>3. NewRow(s) \in Row /\ NewRow(s) # None
  <2>1. NewRow(s) \in Row
    BY ValuesOf DEF NewRow, Row
  <2> QED
    BY <2>1, InvocationsAssumption
<1>4. \A j \in Values(Id) :
        \/ invs'[j] = invs[j]
        \/ j = Id[s] /\ mine[s] = "new" /\ ~Exists(j) /\ invs'[j] = NewRow(s)
  BY <1>1, ValuesOf DEF IInv, TypeOK, NewIsAlone
<1>5. TablesOK'
  <2>1. invs' \in [Values(Id) -> Row \cup {None}]
    BY <1>1, <1>3, ValuesOf DEF IInv, TypeOK
  <2>2. ASSUME NEW j \in Rows'
        PROVE  /\ invs'[j].instance \in names'
               /\ invs'[j].user \in users' \cup {NoUser}
               /\ invs'[j].build \in builds' \cup {NoBuild}
    <3>1. CASE invs'[j] = invs[j]
      BY <1>1, <2>2, <3>1 DEF IInv, TypeOK, Rows, Exists
    <3>2. CASE invs'[j] = NewRow(s)
      BY <1>1, <3>2 DEF NewRow
    <3> QED
      BY <1>4, <3>1, <3>2 DEF Rows
  <2>3. names' \subseteq Values(Instance) /\ users' \subseteq Values(User) \ {NoUser}
    BY <1>1, ValuesOf DEF IInv, TypeOK
  <2> QED
    BY <1>1, <2>1, <2>2, <2>3 DEF IInv, TypeOK, TablesOK, outside
<1>6. \A j \in Values(Id) : Exists(j) => Exists(j)' /\ invs'[j] = invs[j]
  BY <1>4 DEF Exists
<1>7. mine'[s] = "row" => Exists(Id[s])'
  BY <1>1, <1>2, <1>3, <1>6, ValuesOf DEF IInv, TypeOK, Exists
<1>8. RecordersOK'
  <2>1. pc' \in [Streams -> PCs] /\ mine' \in [Streams -> Refs]
    BY <1>1 DEF IInv, TypeOK, PCs, Refs
  <2> QED
    BY <1>2, <1>6, <1>7, <2>1, ValuesOf DEF IInv, TypeOK, RecordersOK, Others, Exists
<1>9. NewIsAlone'
  <2> SUFFICES ASSUME NEW t \in Streams, mine'[t] = "new"
               PROVE  /\ pc'[t] = "commit" /\ ~Exists(Id[t])'
                      /\ \A q \in Others(t) : ~MadeInvocation(q, Id[t])'
    BY DEF NewIsAlone, Others
  <2>1. t # s /\ mine[t] = "new" /\ pc'[t] = pc[t]
    BY <1>2 DEF Others
  <2>2. mine[s] = "new" => Id[s] # Id[t]
    BY <2>1 DEF IInv, NewIsAlone, MadeInvocation, Others
  <2>3. ~Exists(Id[t])'
    BY <1>4, <2>1, <2>2, ValuesOf DEF IInv, NewIsAlone, Exists
  <2>4. ASSUME NEW q \in Others(t) PROVE ~MadeInvocation(q, Id[t])'
    <3>1. ~MadeInvocation(q, Id[t])
      BY <2>1 DEF IInv, NewIsAlone
    <3> QED
      BY <1>2, <3>1 DEF MadeInvocation, Others
  <2> QED
    BY <2>1, <2>3, <2>4 DEF IInv, NewIsAlone
<1>10. SharedIsRow'
  BY <1>2 DEF IInv, SharedIsRow, Saving, Others
<1>11. UserIsCreator'
  BY <1>4 DEF IInv, UserIsCreator, Rows, Exists, NewRow
<1>12. JoinedIsOwn'
  <2> SUFFICES ASSUME NEW t \in Streams, mine'[t] = "row"
               PROVE  /\ invs'[Id[t]].instance = Instance[t]
                      /\ IF User[t] = NoUser THEN invs'[Id[t]].user = NoUser
                                             ELSE invs'[Id[t]].creator = User[t]
    BY DEF JoinedIsOwn
  <2>1. CASE mine[t] = "row"
    <3>1. invs'[Id[t]] = invs[Id[t]]
      BY <1>6, <2>1, ValuesOf DEF IInv, TypeOK
    <3> QED
      BY <2>1, <3>1 DEF IInv, JoinedIsOwn
  <2>2. CASE mine[t] # "row"
    <3>1. t = s /\ mine[s] = "new"
      BY <1>2, <2>2 DEF Others
    <3>2. invs'[Id[t]] = NewRow(s)
      BY <1>1, <3>1, ValuesOf DEF IInv, TypeOK
    <3> QED
      BY <3>1, <3>2 DEF NewRow
  <2> QED
    BY <2>1, <2>2
<1> QED
  BY <1>5, <1>8, <1>9, <1>10, <1>11, <1>12, TypeParts DEF IInv

-----------------------------------------------------------------------------
(* Steps that remove rows.                                                 *)

LEMMA DeleteStep ==
  ASSUME IInv, NEW ids \in SUBSET Values(Id), Delete(ids), \A i \in ids : ~IsShared(i),
         UNCHANGED <<names, users, pc, idleUsers, connects>>, idleBuilds' \subseteq builds',
         builds' \subseteq builds,
         \A i \in Rows \ ids : invs[i].build \in builds' \cup {NoBuild}
  PROVE  IInv'
<1>1. \A i \in Values(Id) : invs'[i] = IF i \in ids THEN None ELSE invs[i]
  BY DEF Delete
<1>2. \A s \in Streams :
        mine'[s] = IF Id[s] \in ids /\ mine[s] = "row" THEN "stale" ELSE mine[s]
  BY DEF Delete
<1>3. Rows' = Rows \ ids
  BY <1>1 DEF Rows, Exists
<1>4. TablesOK'
  <2>1. invs' \in [Values(Id) -> Row \cup {None}]
    BY DEF Delete, IInv, TypeOK
  <2>2. \A i \in Rows' :
          /\ invs'[i].instance \in names'
          /\ invs'[i].user \in users' \cup {NoUser}
          /\ invs'[i].build \in builds' \cup {NoBuild}
    BY <1>1, <1>3 DEF IInv, TypeOK, Rows
  <2>3. builds' \subseteq Values(Build)
    BY DEF IInv, TypeOK
  <2> QED
    BY <2>1, <2>2, <2>3 DEF IInv, TypeOK, TablesOK
<1>5. RecordersOK'
  <2>1. mine' \in [Streams -> Refs]
    BY DEF Delete, IInv, TypeOK, Refs
  <2> QED
    BY <1>1, <1>2, <2>1, ValuesOf DEF IInv, TypeOK, RecordersOK, Exists
<1>6. NewIsAlone'
  <2>1. \A s \in Streams : mine'[s] = "new" <=> mine[s] = "new"
    BY <1>2
  <2> QED
    BY <1>1, <2>1, ValuesOf DEF IInv, NewIsAlone, MadeInvocation, Others, Exists
<1>7. SharedIsRow'
  BY <1>2 DEF IInv, SharedIsRow, IsShared, Shares
<1>8. UserIsCreator'
  BY <1>1, <1>3 DEF IInv, UserIsCreator, Rows
<1>9. JoinedIsOwn'
  BY <1>1, <1>2, ValuesOf DEF IInv, JoinedIsOwn
<1> QED
  BY <1>4, <1>5, <1>6, <1>7, <1>8, <1>9, TypeParts DEF IInv

LEMMA RemoveOldInvocationStep ==
  ASSUME IInv, NEW i \in Values(Id), RemoveOldInvocation(i)
  PROVE  IInv'
<1>1. /\ Delete({i}) /\ ~IsShared(i)
      /\ UNCHANGED <<names, users, builds, pc, idleUsers, idleBuilds, connects>>
  BY DEF RemoveOldInvocation, outside
<1>2. idleBuilds' \subseteq builds' /\ \A j \in Rows : invs[j].build \in builds' \cup {NoBuild}
  BY <1>1 DEF IInv, TypeOK
<1> QED
  BY <1>1, <1>2, DeleteStep

LEMMA RemoveBuildsStep ==
  ASSUME IInv, RemoveBuilds
  PROVE  IInv'
<1>1. /\ Delete(Linked(idleBuilds)) /\ \A i \in Linked(idleBuilds) : ~IsShared(i)
      /\ builds' = builds \ idleBuilds /\ idleBuilds' = {}
      /\ UNCHANGED <<names, users, pc, idleUsers, connects>>
  BY DEF RemoveBuilds
<1>2. Linked(idleBuilds) \in SUBSET Values(Id)
  BY DEF Linked, Rows
<1>3. \A i \in Rows \ Linked(idleBuilds) : invs[i].build \in builds' \cup {NoBuild}
  BY <1>1 DEF IInv, TypeOK, Linked
<1> QED
  BY <1>1, <1>2, <1>3, DeleteStep

LEMMA RemoveInactiveUsersStep ==
  ASSUME IInv, RemoveInactiveUsers
  PROVE  IInv'
<1> DEFINE loses(i) == Exists(i) /\ invs[i].user \in idleUsers
<1>1. /\ users' = users \ idleUsers /\ idleUsers' = {}
      /\ invs' = [i \in Values(Id) |-> IF loses(i) THEN [invs[i] EXCEPT !.user = NoUser]
                                       ELSE invs[i]]
      /\ UNCHANGED <<names, builds, pc, mine, connects, idleBuilds>>
  BY DEF RemoveInactiveUsers, recVars
<1>2. ASSUME NEW i \in Values(Id), loses(i)
      PROVE  /\ invs'[i] \in Row /\ invs'[i].instance = invs[i].instance
             /\ invs'[i].user = NoUser /\ invs'[i].creator = invs[i].creator
             /\ invs'[i].build = invs[i].build
  <2>1. invs[i] \in Row
    BY <1>2, RowsAreRows, TypeParts DEF IInv
  <2>2. invs'[i] = [invs[i] EXCEPT !.user = NoUser]
    BY <1>1, <1>2
  <2> QED
    BY <2>1, <2>2 DEF Row
<1>3. \A i \in Values(Id) : ~loses(i) => invs'[i] = invs[i]
  BY <1>1
<1>4. \A i \in Values(Id) : Exists(i)' <=> Exists(i)
  BY <1>2, <1>3, InvocationsAssumption DEF Exists
<1>5. Rows' = Rows
  BY <1>4 DEF Rows
<1>6. TablesOK'
  <2>1. invs' \in [Values(Id) -> Row \cup {None}]
    <3>1. \A i \in Values(Id) : invs'[i] \in Row \cup {None}
      BY <1>2, <1>3 DEF IInv, TypeOK
    <3> QED
      BY <1>1, <3>1
  <2>2. ASSUME NEW i \in Rows'
        PROVE  /\ invs'[i].instance \in names'
               /\ invs'[i].user \in users' \cup {NoUser}
               /\ invs'[i].build \in builds' \cup {NoBuild}
    <3>1. i \in Values(Id) /\ i \in Rows
      BY <1>5, <2>2 DEF Rows
    <3>2. CASE loses(i)
      BY <1>1, <1>2, <3>1, <3>2 DEF IInv, TypeOK
    <3>3. CASE ~loses(i)
      BY <1>1, <1>3, <3>1, <3>3 DEF IInv, TypeOK, Rows
    <3> QED
      BY <3>2, <3>3
  <2> QED
    BY <1>1, <2>1, <2>2 DEF IInv, TypeOK, TablesOK
<1>7. RecordersOK'
  BY <1>1, <1>4, ValuesOf DEF IInv, TypeOK, RecordersOK
<1>8. NewIsAlone'
  BY <1>1, <1>4, ValuesOf DEF IInv, NewIsAlone, MadeInvocation, Others
<1>9. SharedIsRow'
  BY <1>1 DEF IInv, SharedIsRow
<1>10. UserIsCreator'
  BY <1>2, <1>3, <1>5 DEF IInv, UserIsCreator, Rows
<1>11. JoinedIsOwn'
  <2> SUFFICES ASSUME NEW s \in Streams, mine[s] = "row"
               PROVE  /\ invs'[Id[s]].instance = Instance[s]
                      /\ IF User[s] = NoUser THEN invs'[Id[s]].user = NoUser
                                             ELSE invs'[Id[s]].creator = User[s]
    BY <1>1 DEF JoinedIsOwn
  <2>1. /\ Id[s] \in Values(Id) /\ Id[s] \in Rows
        /\ invs[Id[s]].instance = Instance[s]
        /\ IF User[s] = NoUser THEN invs[Id[s]].user = NoUser
                               ELSE invs[Id[s]].creator = User[s]
    BY ValuesOf DEF IInv, TypeOK, JoinedIsOwn, Rows
  <2>2. CASE loses(Id[s])
    BY <1>2, <2>1, <2>2
  <2>3. CASE ~loses(Id[s])
    BY <1>3, <2>1, <2>3
  <2> QED
    BY <2>2, <2>3
<1> QED
  BY <1>6, <1>7, <1>8, <1>9, <1>10, <1>11, TypeParts DEF IInv

-----------------------------------------------------------------------------

LEMMA InitIInv == Init => IInv
<1> SUFFICES ASSUME Init PROVE IInv
  OBVIOUS
<1>1. \A i \in Values(Id) : ~Exists(i)
  BY DEF Init, Exists
<1>2. Rows = {}
  BY <1>1 DEF Rows
<1>3. TypeOK
  BY <1>2, InvocationsAssumption DEF Init, TypeOK, PCs, Over, Refs
<1> QED
  BY <1>2, <1>3 DEF Init, IInv, NewIsAlone, SharedIsRow, UserIsCreator, JoinedIsOwn, Saving

LEMMA NextIInv == IInv /\ [Next]_vars => IInv'
<1> SUFFICES ASSUME IInv, [Next]_vars PROVE IInv'
  OBVIOUS
<1>1. ASSUME NEW s \in Streams, Step(s) PROVE IInv'
  BY <1>1, NameStep, LookUpInvocationStep, InsertInvocationStep, CommitCreationStep,
     LoadHandledEventsStep, SavingStep, CommitBuildStep
  DEF Step
<1>2. ASSUME NEW s \in Streams, Connect(s) \/ Disconnect(s) PROVE IInv'
  BY <1>2, ConnectStep, FailStep DEF Disconnect
<1>3. CASE Cleanup
  BY <1>3, LockInvocationStep, RemoveOldInvocationStep, SelectStep, RemoveInactiveUsersStep,
     RemoveBuildsStep
  DEF Cleanup
<1>4. CASE UNCHANGED vars
  BY <1>4 DEF vars, IInv, TypeOK, NewIsAlone, SharedIsRow, UserIsCreator, JoinedIsOwn,
              MadeInvocation, Rows, Exists
<1> QED
  BY <1>1, <1>2, <1>3, <1>4 DEF Next

LEMMA IInvHolds == Spec => []IInv
  BY InitIInv, NextIInv, PTL DEF Spec

\* Every variable keeps its type, and rows refer to rows, whatever recorders and the
\* cleanup service do at the same time.
THEOREM InvocationsTypeOK == Spec => []TypeOK
<1>1. IInv => TypeOK
  BY DEF IInv
<1> QED
  BY <1>1, IInvHolds, PTL

\* A recorder never writes to the invocation of somebody else (CreateBazelInvocation),
\* although the removal of users clears the column that tells whose it is: the stream of a
\* user has one created for this user, one without a user has one that belongs to nobody.
THEOREM JoinedIsOwnAlways == Spec => []JoinedIsOwn
<1>1. IInv => JoinedIsOwn
  BY DEF IInv
<1> QED
  BY <1>1, IInvHolds, PTL

-----------------------------------------------------------------------------
(* What is saved.  A second invariant, on top of the first: a recorder     *)
(* that has loaded its event metadata has a row of them (LoadedHasMeta).   *)

LoadedHasMeta ==
  \A s \in Streams : pc[s] = "loaded" /\ mine[s] = "row" => invs[Id[s]].meta # "none"

SavedInv == SavedIsLinked /\ LoadedHasMeta

\* What a stream is owed at its place: it has saved, it has event metadata, or its
\* transaction is saving into an open invocation.
Owed(s) ==
  /\ pc[s] = "saved" /\ mine[s] = "row" => invs[Id[s]].meta = "handled"
  /\ pc[s] = "loaded" /\ mine[s] = "row" => invs[Id[s]].meta # "none"
  /\ pc[s] \in Saving => /\ mine[s] = "row" /\ invs[Id[s]].meta # "none"
                         /\ ~invs[Id[s]].completed
IsLinked(i) ==
  invs[i].meta = "handled" =>
    invs[i].build \in builds /\ \E s \in Streams : Id[s] = i /\ Build[s] = invs[i].build

LEMMA SavedParts ==
  /\ SavedInv <=> (\A i \in Rows : IsLinked(i)) /\ (\A s \in Streams : Owed(s))
  /\ SavedInv' <=> (\A i \in Rows : IsLinked(i))' /\ (\A s \in Streams : Owed(s))'
<1>1. SavedInv <=> (\A i \in Rows : IsLinked(i)) /\ (\A s \in Streams : Owed(s))
  BY DEF SavedInv, SavedIsLinked, LoadedHasMeta, IsLinked, Owed
<1> QED
  BY <1>1, PTL

\* A stream goes to another place, and no row changes.
LEMMA MoveSaved ==
  ASSUME IInv, SavedInv, NEW s \in Streams, UNCHANGED <<builds, invs>>,
         \A t \in Others(s) : pc'[t] = pc[t] /\ mine'[t] = mine[t],
         pc'[s] \notin Saving \cup {"saved", "loaded"} \/ Owed(s)'
  PROVE  SavedInv'
<1>1. Owed(s)'
  BY DEF Owed
<1>2. \A t \in Others(s) : Owed(t)'
  BY SavedParts DEF Owed, Others
<1>3. (\A i \in Rows : IsLinked(i))'
  BY SavedParts DEF IsLinked, Rows, Exists
<1> QED
  BY <1>1, <1>2, <1>3, SavedParts DEF Others

\* The row of i changes, and the place of s.
LEMMA ChangeSaved ==
  ASSUME IInv, SavedInv, NEW i \in Values(Id), builds \subseteq builds',
         \A j \in Values(Id) \ {i} : invs'[j] = invs[j],
         NEW s \in Streams, \A t \in Others(s) : pc'[t] = pc[t] /\ mine'[t] = mine[t],
         IsLinked(i)', Owed(s)',
         \A t \in Others(s) : Id[t] = i => Owed(t)'
  PROVE  SavedInv'
<1>1. \A t \in Others(s) : Owed(t)'
  BY ValuesOf, SavedParts DEF Owed, Others
<1>2. (\A j \in Rows : IsLinked(j))'
  BY SavedParts DEF IsLinked, Rows, Exists
<1> QED
  BY <1>1, <1>2, SavedParts DEF Others

LEMMA StreamSaved ==
  ASSUME IInv, SavedInv, NEW s \in Streams,
         \/ Connect(s) \/ Disconnect(s) \/ CreateAuthenticatedUser(s) \/ LookUpName(s)
         \/ InsertName(s) \/ LookUpInvocation(s) \/ InsertInvocation(s)
         \/ LockCompletion(s) \/ UpsertBuild(s) \/ DeadlockAbort(s)
  PROVE  SavedInv'
<1> USE DEF IInv, TypeOK, Goto, Others, Saving
<1>1. ASSUME NEW label \in {"off", "refused"}, Fail(s, label) PROVE SavedInv'
  BY <1>1, MoveSaved DEF Fail
<1>2. ASSUME NEW label \in {"name", "invocation", "insert_name", "commit", "ready"},
             Proceed(s, label)
      PROVE  SavedInv'
  BY <1>2, MoveSaved DEF Proceed
<1>3. CASE Connect(s)
  BY <1>3, MoveSaved DEF Connect
<1>4. CASE LookUpInvocation(s)
  BY <1>4, MoveSaved DEF LookUpInvocation, outside
<1>5. CASE InsertInvocation(s)
  <2>1. CASE Exists(Id[s])
    BY <1>1, <1>2, <1>5, <2>1 DEF InsertInvocation
  <2>2. CASE ~Exists(Id[s])
    BY <1>5, <2>2, MoveSaved DEF InsertInvocation, outside
  <2> QED
    BY <2>1, <2>2
<1>6. CASE LockCompletion(s)
  <2>1. CASE mine[s] = "row" /\ ~invs[Id[s]].completed
    <3>1. Proceed(s, "build") /\ invs[Id[s]].meta # "none"
      BY <1>6, <2>1 DEF LockCompletion, SavedInv, LoadedHasMeta
    <3>2. Owed(s)'
      BY <2>1, <3>1 DEF Proceed, Owed
    <3> QED
      BY <3>1, <3>2, MoveSaved DEF Proceed
  <2>2. CASE ~(mine[s] = "row" /\ ~invs[Id[s]].completed)
    BY <1>1, <1>6, <2>2 DEF LockCompletion
  <2> QED
    BY <2>1, <2>2
<1>7. CASE UpsertBuild(s)
  <2>1. Proceed(s, "link") /\ pc[s] = "build"
    BY <1>7 DEF UpsertBuild
  <2>2. Owed(s)'
    BY <2>1, SavedParts DEF Proceed, Owed
  <2> QED
    BY <2>1, <2>2, MoveSaved DEF Proceed
<1> QED
  BY <1>1, <1>2, <1>3, <1>4, <1>5, <1>6, <1>7
  DEF Disconnect, CreateAuthenticatedUser, LookUpName, InsertName, DeadlockAbort

LEMMA CommitCreationSaved ==
  ASSUME IInv, SavedInv, NEW s \in Streams, CommitCreation(s)
  PROVE  SavedInv'
<1>1. /\ pc'[s] = "ready"
      /\ \A t \in Others(s) : pc'[t] = pc[t] /\ mine'[t] = mine[t]
  BY DEF CommitCreation, Goto, IInv, TypeOK, Others
<1>2. CASE mine[s] = "new"
  <2>1. invs' = [invs EXCEPT ![Id[s]] = NewRow(s)] /\ builds' = builds
    BY <1>2 DEF CommitCreation
  <2>2. \A t \in Others(s) : Id[t] = Id[s] => mine[t] # "row"
    BY <1>2 DEF IInv, NewIsAlone, TypeOK, Others
  <2>3. invs'[Id[s]].meta = "none" /\ \A j \in Values(Id) \ {Id[s]} : invs'[j] = invs[j]
    BY <2>1, ValuesOf DEF IInv, TypeOK, NewRow
  <2>4. IsLinked(Id[s])' /\ Owed(s)'
    BY <1>1, <2>3 DEF IsLinked, Owed, Saving
  <2>5. \A t \in Others(s) : Id[t] = Id[s] => Owed(t)'
    BY <1>1, <2>2 DEF Owed, IInv, SharedIsRow, Others
  <2> QED
    BY <1>1, <2>1, <2>3, <2>4, <2>5, ValuesOf, ChangeSaved
<1>3. CASE mine[s] # "new"
  <2>1. UNCHANGED <<builds, invs>>
    BY <1>3 DEF CommitCreation
  <2> QED
    BY <1>1, <2>1, MoveSaved DEF Saving
<1> QED
  BY <1>2, <1>3

LEMMA LoadHandledEventsSaved ==
  ASSUME IInv, SavedInv, NEW s \in Streams, LoadHandledEvents(s)
  PROVE  SavedInv'
<1>0. \A t \in Others(s) : pc'[t] = pc[t] /\ mine'[t] = mine[t]
  BY DEF LoadHandledEvents, Fail, Goto, IInv, TypeOK, Others
<1>1. CASE mine[s] # "row"
  BY <1>0, <1>1, MoveSaved DEF LoadHandledEvents, Fail, Goto, Saving, IInv, TypeOK
<1>2. CASE mine[s] = "row"
  <2> DEFINE i == Id[s]
             meta == IF invs[i].meta = "none" THEN "row" ELSE invs[i].meta
             row == [invs[i] EXCEPT !.meta = meta]
  <2>1. i \in Values(Id) /\ Exists(i) /\ invs[i] \in Row
    BY <1>2, ValuesOf, RowsAreRows, TypeParts DEF IInv, RecordersOK
  <2>2. invs'[i] = row /\ builds' = builds /\ \A j \in Values(Id) \ {i} : invs'[j] = invs[j]
    BY <1>2, <2>1 DEF LoadHandledEvents, IInv, TypeOK
  <2>3. /\ row.meta # "none" /\ (row.meta = "handled" <=> invs[i].meta = "handled")
        /\ row.build = invs[i].build /\ row.completed = invs[i].completed
    BY <2>1 DEF Row
  <2>4. pc'[s] = IF invs[i].meta = "handled" THEN "saved" ELSE "loaded"
    BY <1>2 DEF LoadHandledEvents, Goto, IInv, TypeOK
  <2> HIDE DEF row
  <2>5. Owed(s)'
    BY <2>2, <2>3, <2>4 DEF Owed, Saving
  <2>6. IsLinked(i)'
    BY <2>1, <2>2, <2>3, SavedParts DEF IsLinked, Rows
  <2>7. \A t \in Others(s) : Id[t] = i => Owed(t)'
    BY <1>0, <2>2, <2>3, SavedParts DEF Owed, Others
  <2> HIDE DEF i
  <2> QED
    BY <1>0, <2>1, <2>2, <2>5, <2>6, <2>7, ChangeSaved
<1> QED
  BY <1>1, <1>2

LEMMA CommitBuildSaved ==
  ASSUME IInv, SavedInv, NEW s \in Streams, CommitBuild(s)
  PROVE  SavedInv'
<1>0. pc[s] = "link" /\ mine[s] = "row" /\ \A t \in Others(s) : pc'[t] = pc[t] /\ mine'[t] = mine[t]
  BY DEF CommitBuild, Proceed, Goto, IInv, TypeOK, SharedIsRow, Saving, Others
<1>1. CASE invs[Id[s]].meta = "handled"
  BY <1>0, <1>1, MoveSaved DEF CommitBuild, Proceed, Goto, Saving, IInv, TypeOK
<1>2. CASE invs[Id[s]].meta # "handled"
  <2> DEFINE i == Id[s]
             row == [invs[i] EXCEPT !.build = Build[s], !.meta = "handled"]
  <2>1. i \in Values(Id) /\ Exists(i) /\ invs[i] \in Row
    BY <1>0, ValuesOf, RowsAreRows, TypeParts DEF IInv, RecordersOK
  <2>2. /\ invs'[i] = row /\ builds' = builds \cup {Build[s]} /\ mine' = mine
        /\ pc'[s] = "saved" /\ \A j \in Values(Id) \ {i} : invs'[j] = invs[j]
    BY <1>2, <2>1 DEF CommitBuild, Goto, IInv, TypeOK
  <2>3. /\ row.meta = "handled" /\ row.build = Build[s] /\ row.completed = invs[i].completed
    BY <2>1 DEF Row
  <2> HIDE DEF row
  <2>4. Owed(s)' /\ IsLinked(i)'
    BY <2>2, <2>3 DEF Owed, IsLinked, Saving
  <2>5. \A t \in Others(s) : Id[t] = i => Owed(t)'
    BY <1>0, <2>2, <2>3, SavedParts DEF Owed, Others
  <2> HIDE DEF i
  <2> QED
    BY <1>0, <2>1, <2>2, <2>4, <2>5, ChangeSaved
<1> QED
  BY <1>1, <1>2

\* Rows are closed or lose their user.
LEMMA RowsChangeSaved ==
  ASSUME IInv, SavedInv, UNCHANGED <<pc, mine, builds>>,
         \A i \in Values(Id) : Exists(i)' => Exists(i),
         \A i \in Rows : /\ invs'[i].meta = invs[i].meta /\ invs'[i].build = invs[i].build
                         /\ IsShared(i) => invs'[i].completed = invs[i].completed
  PROVE  SavedInv'
<1>1. \A s \in Streams : mine[s] = "row" => Id[s] \in Rows
  BY ValuesOf DEF IInv, TypeOK, Rows
<1>2. \A s \in Streams : Owed(s)'
  BY <1>1, SavedParts DEF Owed, IsShared, Shares
<1>3. (\A i \in Rows : IsLinked(i))'
  BY SavedParts DEF IsLinked, Rows
<1> QED
  BY <1>2, <1>3, SavedParts

LEMMA LockInvocationSaved ==
  ASSUME IInv, SavedInv, NEW i \in Values(Id), LockInvocation(i)
  PROVE  SavedInv'
<1>1. Exists(i) /\ invs[i] \in Row
  BY RowsAreRows, TypeParts DEF IInv, LockInvocation, IsStale
<1>2. /\ invs'[i] = [invs[i] EXCEPT !.completed = TRUE] /\ ~IsShared(i)
      /\ \A j \in Values(Id) \ {i} : invs'[j] = invs[j]
      /\ UNCHANGED <<pc, mine, builds>>
  BY DEF LockInvocation, recVars, IInv, TypeOK
<1>3. invs'[i].meta = invs[i].meta /\ invs'[i].build = invs[i].build
  BY <1>1, <1>2 DEF Row
<1> QED
  BY <1>1, <1>2, <1>3, RowsChangeSaved DEF Rows, Exists

LEMMA RemoveInactiveUsersSaved ==
  ASSUME IInv, SavedInv, RemoveInactiveUsers
  PROVE  SavedInv'
<1>1. /\ \A i \in Values(Id) : invs'[i] = IF Exists(i) /\ invs[i].user \in idleUsers
                                          THEN [invs[i] EXCEPT !.user = NoUser] ELSE invs[i]
      /\ UNCHANGED <<pc, mine, builds>>
  BY DEF RemoveInactiveUsers, recVars
<1>2. ASSUME NEW i \in Rows
      PROVE  /\ invs'[i].meta = invs[i].meta /\ invs'[i].build = invs[i].build
             /\ invs'[i].completed = invs[i].completed
  <2>1. i \in Values(Id) /\ invs[i] \in Row
    BY RowsAreRows, TypeParts DEF IInv, Rows
  <2> QED
    BY <1>1, <2>1 DEF Row
<1>3. \A i \in Values(Id) : Exists(i)' => Exists(i)
  BY <1>1 DEF Exists
<1> QED
  BY <1>1, <1>2, <1>3, RowsChangeSaved

\* Rows are removed, with the builds that they are linked to or without.
LEMMA DeleteSaved ==
  ASSUME IInv, SavedInv, NEW ids \in SUBSET Values(Id), Delete(ids),
         \A i \in ids : ~IsShared(i), pc' = pc,
         \A i \in Rows \ ids : invs[i].build \in builds => invs[i].build \in builds'
  PROVE  SavedInv'
<1>1. \A i \in Values(Id) : invs'[i] = IF i \in ids THEN None ELSE invs[i]
  BY DEF Delete
<1>2. \A s \in Streams :
        mine'[s] = IF Id[s] \in ids /\ mine[s] = "row" THEN "stale" ELSE mine[s]
  BY DEF Delete
<1>3. Rows' = Rows \ ids
  BY <1>1 DEF Rows, Exists
<1>4. \A s \in Streams : Owed(s)'
  <2> SUFFICES ASSUME NEW s \in Streams PROVE Owed(s)'
    OBVIOUS
  <2>1. CASE Id[s] \in ids
    BY <1>2, <2>1 DEF Owed, IsShared, Shares
  <2>2. CASE Id[s] \notin ids
    BY <1>1, <1>2, <2>2, ValuesOf, SavedParts DEF Owed
  <2> QED
    BY <2>1, <2>2
<1>5. (\A i \in Rows : IsLinked(i))'
  BY <1>1, <1>3, SavedParts DEF IsLinked, Rows
<1> QED
  BY <1>4, <1>5, SavedParts

LEMMA SavedInvHolds == Spec => []SavedInv
<1>1. Init => SavedInv
  <2> SUFFICES ASSUME Init PROVE SavedInv
    OBVIOUS
  <2>1. Rows = {}
    BY DEF Init, Rows, Exists
  <2> QED
    BY <2>1 DEF Init, SavedInv, SavedIsLinked, LoadedHasMeta, Saving
<1>2. IInv /\ SavedInv /\ [Next]_vars => SavedInv'
  <2> SUFFICES ASSUME IInv, SavedInv, [Next]_vars PROVE SavedInv'
    OBVIOUS
  <2>1. ASSUME NEW s \in Streams, Connect(s) \/ Step(s) \/ Disconnect(s) PROVE SavedInv'
    BY <2>1, StreamSaved, CommitCreationSaved, LoadHandledEventsSaved, CommitBuildSaved DEF Step
  <2>2. ASSUME NEW i \in Values(Id), RemoveOldInvocation(i) PROVE SavedInv'
    BY <2>2, DeleteSaved DEF RemoveOldInvocation
  <2>3. CASE RemoveBuilds
    <3>1. \A i \in Rows \ Linked(idleBuilds) : invs[i].build \notin idleBuilds
      BY DEF Linked
    <3> QED
      BY <2>3, <3>1, DeleteSaved DEF RemoveBuilds, Linked, Rows
  <2>4. CASE SelectInactiveUsers \/ SelectBuilds \/ UNCHANGED vars
    BY <2>4 DEF SelectInactiveUsers, SelectBuilds, vars, recVars, SavedInv, SavedIsLinked,
                LoadedHasMeta, Rows, Exists
  <2> QED
    BY <2>1, <2>2, <2>3, <2>4, LockInvocationSaved, RemoveInactiveUsersSaved DEF Next, Cleanup
<1> QED
  BY <1>1, <1>2, IInvHolds, PTL DEF Spec

\* The event with the command line is saved as a whole (saveStructuredCommandLine), although
\* builds are removed by stale snapshots: a handled row has a build that one of its
\* streams has named, who has saved finds it saved or gone, and who is saving does so into
\* an open invocation.
THEOREM SavedIsLinkedAlways == Spec => []SavedIsLinked
  BY SavedInvHolds, PTL DEF SavedInv

-----------------------------------------------------------------------------
(* Deadlock.  Whoever opens a stream waits for someone who is further on;  *)
(* the last one waits for nobody.  Whoever waits for a build waits for     *)
(* someone who is linking it, and that one for another of its invocation.  *)

LEMMA WaitingIsForLater ==
  ASSUME IInv, NEW s \in Streams, NEW t \in Streams, WaitsFor(s, t)
  PROVE  /\ pc[s] = "user" => pc[t] \in Creating
         /\ pc[s] = "insert_name" => pc[t] \in {"invocation", "find", "commit"}
         /\ pc[s] = "find" => pc[t] = "commit"
         /\ pc[s] = "build" => pc[t] = "link"
         /\ pc[s] = "link" => Id[t] = Id[s] /\ pc[t] \in Saving
         /\ pc[s] \in {"user", "insert_name", "find"} \cup Saving /\ s # t
  BY DEF WaitsFor, Others, LocksUser, MadeName, MadeInvocation, LocksBuild, Shares, Saving,
         IInv, NewIsAlone

\* Streams wait for each other in a circle only when they save into one invocation
\* (DeadlockAbort), for any number of streams: opening one never deadlocks.
THEOREM OnlySharersDeadlockAlways == Spec => []OnlySharersDeadlock
<1>1. IInv => OnlySharersDeadlock
  <2> SUFFICES ASSUME IInv, NEW S \in SUBSET Streams, S # {},
                      \A s \in S : \E t \in S : WaitsFor(s, t)
               PROVE  \E s, t \in S : s # t /\ Id[s] = Id[t] /\ {pc[s], pc[t]} \subseteq Saving
    BY DEF OnlySharersDeadlock
  <2>1. \A s \in S : pc[s] \in {"user", "insert_name", "find"} \cup Saving
    BY WaitingIsForLater
  <2>2. \A s \in S : pc[s] # "find"
    BY <2>1, WaitingIsForLater DEF Saving
  <2>3. \A s \in S : pc[s] # "insert_name"
    BY <2>1, <2>2, WaitingIsForLater DEF Saving
  <2>4. \A s \in S : pc[s] # "user"
    BY <2>1, <2>2, <2>3, WaitingIsForLater DEF Saving, Creating
  <2>5. \E s \in S : pc[s] = "link"
    BY <2>1, <2>2, <2>3, <2>4, WaitingIsForLater DEF Saving
  <2>6. PICK s \in S : pc[s] = "link"
    BY <2>5
  <2>7. PICK t \in S : WaitsFor(s, t)
    OBVIOUS
  <2> QED
    BY <2>6, <2>7, WaitingIsForLater DEF Saving
<1> QED
  BY <1>1, IInvHolds, PTL
=============================================================================
