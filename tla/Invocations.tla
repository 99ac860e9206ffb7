----------------------------- MODULE Invocations -----------------------------
(***************************************************************************)
(* How the rows of an invocation, its user, its instance name and its      *)
(* build come and go.                                                      *)
(*                                                                         *)
(* NewBuildEventRecorder finds or creates the user, the instance name and  *)
(* the invocation of a stream in one transaction.  The first batch then    *)
(* creates the row in event_metadata, and the event with the canonical     *)
(* command line finds or creates the build and links the invocation to it. *)
(* The cleanup service closes invocations, removes old ones, and removes   *)
(* users and builds that no invocation refers to.                          *)
(*                                                                         *)
(* PostgreSQL is at READ COMMITTED: each statement has its own snapshot.   *)
(* An insert waits for an uncommitted row with the same key, and does not  *)
(* see one that was committed after the snapshot.  A DELETE waits for a    *)
(* locked row and deletes it when its own snapshot says so, whatever other *)
(* tables have been given meanwhile.                                       *)
(***************************************************************************)
EXTENDS Naturals, FiniteSets

CONSTANTS
  Streams,       \* streams of build events, each with its recorder
  Id,            \* Id[s]: the invocation of stream s
  Instance,      \* Instance[s]: its instance name
  User,          \* User[s]: the authenticated user, or NoUser
  Build,         \* Build[s]: the build that its command line names
  NoUser, NoBuild,
  None,          \* the absent row
  MaxConnects    \* bound: how often streams are opened

Values(f) == {f[s] : s \in Streams}

\* A row of bazel_invocations.  creator is the user that the invocation was created
\* for.  It is no column: the column user becomes NULL when the user is removed.
Row == [instance : Values(Instance), user : Values(User) \cup {NoUser},
        creator : Values(User), build : Values(Build) \cup {NoBuild},
        completed : BOOLEAN, meta : {"none", "row", "handled"}]

ASSUME InvocationsAssumption ==
  /\ DOMAIN Id = Streams /\ DOMAIN Instance = Streams
  /\ DOMAIN User = Streams /\ DOMAIN Build = Streams
  /\ NoBuild \notin Values(Build)
  /\ None \notin Row
  /\ MaxConnects \in Nat

VARIABLES
  names,         \* committed rows of instance_names
  users,         \* committed rows of authenticated_users
  builds,        \* committed rows of builds
  invs,          \* committed rows of bazel_invocations, by invocation id
  pc,            \* where the recorder of each stream is
  mine,          \* what the recorder's invocation id refers to
  idleUsers,     \* users that a DELETE has selected
  idleBuilds,    \* builds that a DELETE has selected
  connects       \* how often streams have been opened

\* recVars: what the cleanup service does not change.  outside: what a recorder that
\* runs does not change.
recVars == <<pc, mine, connects>>
outside == <<idleUsers, idleBuilds, connects>>
vars == <<names, users, builds, invs, pc, mine, idleUsers, idleBuilds, connects>>

\* user .. commit: the transaction of NewBuildEventRecorder, before each of its
\* statements; insert_name, find: within the statements for the instance name and
\* the invocation, after their snapshot.  ready: there is a recorder; loaded: it
\* has the event metadata; build, link: the transaction with the command line.
Creating == {"name", "insert_name", "invocation", "find", "commit"}
Saving == {"build", "link"}
Over == {"off", "refused", "saved"}
PCs == Creating \cup Saving \cup Over \cup {"user", "ready", "loaded"}

\* new: a row of its own uncommitted transaction; row: a committed row; stale: a
\* row that has been removed.
Refs == {"none", "new", "row", "stale"}

Exists(i) == invs[i] # None
Rows == {i \in Values(Id) : Exists(i)}

\* Every variable has its type, and rows refer to rows.
TypeOK ==
  /\ names \subseteq Values(Instance)
  /\ users \subseteq Values(User) \ {NoUser}
  /\ builds \subseteq Values(Build)
  /\ invs \in [Values(Id) -> Row \cup {None}]
  /\ \A i \in Rows :
       /\ invs[i].instance \in names
       /\ invs[i].user \in users \cup {NoUser}
       /\ invs[i].build \in builds \cup {NoBuild}
  /\ pc \in [Streams -> PCs]
  /\ mine \in [Streams -> Refs]
  /\ \A s \in Streams : mine[s] = "row" => Exists(Id[s])
  /\ idleUsers \subseteq users
  /\ idleBuilds \subseteq builds
  /\ connects \in 0 .. MaxConnects

Init ==
  /\ names = {} /\ users = {} /\ builds = {}
  /\ invs = [i \in Values(Id) |-> None]
  /\ pc = [s \in Streams |-> "off"]
  /\ mine = [s \in Streams |-> "none"]
  /\ idleUsers = {} /\ idleBuilds = {}
  /\ connects = 0

-----------------------------------------------------------------------------
(* Locks and uncommitted rows.                                             *)

Others(s) == Streams \ {s}

\* ON CONFLICT DO UPDATE locks the user until the transaction ends.
LocksUser(s, u) == User[s] = u /\ u # NoUser /\ pc[s] \in Creating

\* Mutant: it holds a lock on the name before it inserts it.
MadeNameEarly(s, n) ==
  /\ Instance[s] = n /\ n \notin names
  /\ pc[s] \in {"insert_name", "invocation", "find", "commit"}

\* Past its statement, an instance name that is not committed is its own.
MadeName(s, n) ==
  Instance[s] = n /\ n \notin names /\ pc[s] \in {"invocation", "find", "commit"}

MadeInvocation(s, i) == Id[s] = i /\ mine[s] = "new"

\* Ignore of the generated client is ON CONFLICT DO UPDATE as well.
LocksBuild(s, b) == Build[s] = b /\ pc[s] = "link"

\* SELECT ... FOR SHARE at the beginning of each transaction that saves events.
Shares(s, i) == Id[s] = i /\ pc[s] \in Saving

Goto(s, label) == pc' = [pc EXCEPT ![s] = label]

\* The transaction is rolled back and there is no recorder (any more).
Fail(s, label) ==
  /\ Goto(s, label)
  /\ mine' = [mine EXCEPT ![s] = "none"]
  /\ UNCHANGED <<names, users, builds, invs, outside>>

Proceed(s, label) ==
  Goto(s, label) /\ UNCHANGED <<names, users, builds, invs, mine, outside>>

-----------------------------------------------------------------------------
(* NewBuildEventRecorder.                                                  *)

\* A client opens a stream, or comes back.
Connect(s) ==
  /\ pc[s] \in Over
  /\ connects < MaxConnects
  /\ connects' = connects + 1
  /\ Goto(s, "user")
  /\ mine' = [mine EXCEPT ![s] = "none"]
  /\ UNCHANGED <<names, users, builds, invs, idleUsers, idleBuilds>>

\* FindOrCreateAuthenticatedUser
CreateAuthenticatedUser(s) ==
  /\ pc[s] = "user"
  /\ ~ \E t \in Others(s) : LocksUser(t, User[s])
  /\ Proceed(s, "name")

\* CreateInstanceName takes its snapshot; a name that it sees is there to stay.
LookUpName(s) ==
  /\ pc[s] = "name"
  /\ Proceed(s, IF Instance[s] \in names THEN "invocation" ELSE "insert_name")

\* CreateInstanceName inserts the name, or returns no row if someone else has
\* inserted it since the snapshot.
InsertName(s) ==
  /\ pc[s] = "insert_name"
  /\ ~ \E t \in Others(s) : MadeName(t, Instance[s])
  /\ IF Instance[s] \in names THEN Fail(s, "refused") ELSE Proceed(s, "invocation")

\* Mutant: the user is not compared.
MatchesAnyUser(s) ==
  Exists(Id[s]) /\ invs[Id[s]].instance = Instance[s] /\ ~invs[Id[s]].completed

\* The second SELECT of CreateBazelInvocation: the open invocation of this user.
Matches(s) ==
  /\ Exists(Id[s])
  /\ invs[Id[s]].instance = Instance[s]
  /\ invs[Id[s]].user = User[s]
  /\ ~invs[Id[s]].completed

\* CreateBazelInvocation takes its snapshot.
LookUpInvocation(s) ==
  /\ pc[s] = "invocation"
  /\ Goto(s, "find")
  /\ mine' = [mine EXCEPT ![s] = IF Matches(s) THEN "row" ELSE "none"]
  /\ UNCHANGED <<names, users, builds, invs, outside>>

\* CreateBazelInvocation inserts the row, or returns the one of the snapshot, or
\* none: FindOrCreateInvocation then refuses the stream.
InsertInvocation(s) ==
  /\ pc[s] = "find"
  /\ ~ \E t \in Others(s) : MadeInvocation(t, Id[s])
  /\ IF Exists(Id[s])
     THEN IF mine[s] = "none" THEN Fail(s, "refused") ELSE Proceed(s, "commit")
     ELSE /\ Goto(s, "commit")
          /\ mine' = [mine EXCEPT ![s] = "new"]
          /\ UNCHANGED <<names, users, builds, invs, outside>>

NewRow(s) ==
  [instance |-> Instance[s], user |-> User[s], creator |-> User[s],
   build |-> NoBuild, completed |-> FALSE, meta |-> "none"]

CommitCreation(s) ==
  /\ pc[s] = "commit"
  /\ names' = names \cup {Instance[s]}
  /\ users' = users \cup ({User[s]} \ {NoUser})
  /\ invs' = IF mine[s] = "new" THEN [invs EXCEPT ![Id[s]] = NewRow(s)] ELSE invs
  /\ mine' = [mine EXCEPT ![s] = IF @ = "new" THEN "row" ELSE @]
  /\ Goto(s, "ready")
  /\ UNCHANGED <<builds, outside>>

-----------------------------------------------------------------------------
(* SaveBatch, with the event that has the canonical command line.          *)

\* loadHandledEvents: GetOrCreateEventMetadata refers to the invocation.
LoadHandledEvents(s) ==
  /\ pc[s] = "ready"
  /\ IF mine[s] # "row" THEN Fail(s, "off")
     ELSE /\ invs' = [invs EXCEPT ![Id[s]].meta = IF @ = "none" THEN "row" ELSE @]
          /\ Goto(s, IF invs[Id[s]].meta = "handled" THEN "saved" ELSE "loaded")
          /\ UNCHANGED <<names, users, builds, mine, outside>>

\* saveRemainingBatch, the beginning: LockBazelInvocationCompletion.
LockCompletion(s) ==
  /\ pc[s] = "loaded"
  /\ IF mine[s] = "row" /\ ~invs[Id[s]].completed
     THEN Proceed(s, "build") ELSE Fail(s, "off")

\* recordBuild finds or creates the build.
UpsertBuild(s) ==
  /\ pc[s] = "build"
  /\ ~ \E t \in Others(s) : LocksBuild(t, Build[s])
  /\ Proceed(s, "link")

\* recordBuild links the invocation to it, for which no one else may share its
\* row, and saveRemainingBatch commits, unless the event has been handled.
CommitBuild(s) ==
  /\ pc[s] = "link"
  /\ ~ \E t \in Others(s) : Shares(t, Id[s])
  /\ IF invs[Id[s]].meta = "handled" THEN Proceed(s, "ready")
     ELSE /\ builds' = builds \cup {Build[s]}
          /\ invs' = [invs EXCEPT ![Id[s]].build = Build[s], ![Id[s]].meta = "handled"]
          /\ Goto(s, "saved")
          /\ UNCHANGED <<names, users, mine, outside>>

\* Two transactions share the row of the invocation and wait for each other: one
\* is rolled back, and SaveBatch tries again.
DeadlockAbort(s) ==
  /\ pc[s] \in Saving
  /\ \E t \in Others(s) : Shares(t, Id[s])
  /\ Proceed(s, "ready")

\* The stream breaks, or the server dies.
Disconnect(s) == pc[s] \notin Over /\ Fail(s, "off")

-----------------------------------------------------------------------------
(* The cleanup service.                                                    *)

IsShared(i) == \E s \in Streams : Shares(s, i)

\* Mutant: an invocation is closed only if its command line has been saved.
SavedAndOpen(i) == Exists(i) /\ ~invs[i].completed /\ invs[i].meta = "handled"

\* Open, and its last event came long ago.
IsStale(i) == Exists(i) /\ ~invs[i].completed /\ invs[i].meta # "none"

\* LockStaleInvocationsFromPages
LockInvocation(i) ==
  /\ IsStale(i)
  /\ ~IsShared(i)
  /\ invs' = [invs EXCEPT ![i].completed = TRUE]
  /\ UNCHANGED <<names, users, builds, recVars, idleUsers, idleBuilds>>

\* The rows of these invocations go; their identifiers refer to nothing.
Delete(ids) ==
  /\ invs' = [i \in Values(Id) |-> IF i \in ids THEN None ELSE invs[i]]
  /\ mine' = [s \in Streams |-> IF Id[s] \in ids /\ mine[s] = "row" THEN "stale" ELSE mine[s]]

\* Closed; its age is not modelled, any one that is closed may be old.
IsOld(i) == Exists(i) /\ invs[i].completed

\* DeleteOldInvocationsFromPages
RemoveOldInvocation(i) ==
  /\ IsOld(i)
  /\ ~IsShared(i)
  /\ Delete({i})
  /\ UNCHANGED <<names, users, builds, pc, outside>>

UsersWithoutInvocations == {u \in users : \A i \in Rows : invs[i].user # u}

\* RemoveInactiveUsers: the snapshot of its DELETE.
SelectInactiveUsers ==
  /\ idleUsers = {}
  /\ UsersWithoutInvocations # {}
  /\ idleUsers' = UsersWithoutInvocations
  /\ UNCHANGED <<names, users, builds, invs, recVars, idleBuilds>>

\* RemoveInactiveUsers: it has waited for the locks on these users; what refers
\* to them by now is set to NULL.
RemoveInactiveUsers ==
  /\ idleUsers # {}
  /\ ~ \E s \in Streams, u \in idleUsers : LocksUser(s, u)
  /\ ~ \E i \in Rows : invs[i].user \in idleUsers /\ IsShared(i)
  /\ users' = users \ idleUsers
  /\ invs' = [i \in Values(Id) |-> IF Exists(i) /\ invs[i].user \in idleUsers
                                   THEN [invs[i] EXCEPT !.user = NoUser] ELSE invs[i]]
  /\ idleUsers' = {}
  /\ UNCHANGED <<names, builds, recVars, idleBuilds>>

BuildsWithoutInvocations == {b \in builds : \A i \in Rows : invs[i].build # b}

\* RemoveBuildsWithoutInvocations: the snapshot of its DELETE.
SelectBuilds ==
  /\ idleBuilds = {}
  /\ BuildsWithoutInvocations # {}
  /\ idleBuilds' = BuildsWithoutInvocations
  /\ UNCHANGED <<names, users, builds, invs, recVars, idleUsers>>

\* Mutant: the invocations of a build stay.
NoneLinked(bs) == {}

\* The foreign key from an invocation to its build is ON DELETE CASCADE.
Linked(bs) == {i \in Rows : invs[i].build \in bs}

\* Mutant: the foreign key is ON DELETE SET NULL, like that of the user.
RemoveBuildsSetNull ==
  /\ idleBuilds # {}
  /\ ~ \E s \in Streams, b \in idleBuilds : LocksBuild(s, b)
  /\ ~ \E i \in Linked(idleBuilds) : IsShared(i)
  /\ builds' = builds \ idleBuilds
  /\ invs' = [i \in Values(Id) |-> IF i \in Linked(idleBuilds)
                                   THEN [invs[i] EXCEPT !.build = NoBuild] ELSE invs[i]]
  /\ idleBuilds' = {}
  /\ UNCHANGED <<names, users, recVars, idleUsers>>

\* RemoveBuildsWithoutInvocations: the DELETE takes the invocations that have been
\* linked to these builds in the meantime along (ON DELETE CASCADE).
RemoveBuilds ==
  /\ idleBuilds # {}
  /\ ~ \E s \in Streams, b \in idleBuilds : LocksBuild(s, b)
  /\ ~ \E i \in Linked(idleBuilds) : IsShared(i)
  /\ builds' = builds \ idleBuilds
  /\ Delete(Linked(idleBuilds))
  /\ idleBuilds' = {}
  /\ UNCHANGED <<names, users, pc, idleUsers, connects>>

-----------------------------------------------------------------------------

Step(s) ==
  \/ CreateAuthenticatedUser(s) \/ LookUpName(s) \/ InsertName(s)
  \/ LookUpInvocation(s) \/ InsertInvocation(s) \/ CommitCreation(s)
  \/ LoadHandledEvents(s) \/ LockCompletion(s) \/ UpsertBuild(s) \/ CommitBuild(s)
  \/ DeadlockAbort(s)

Cleanup ==
  \/ \E i \in Values(Id) : LockInvocation(i) \/ RemoveOldInvocation(i)
  \/ SelectInactiveUsers \/ RemoveInactiveUsers
  \/ SelectBuilds \/ RemoveBuilds

Next == Cleanup \/ \E s \in Streams : Connect(s) \/ Step(s) \/ Disconnect(s)

Spec == Init /\ [][Next]_vars

\* The tasks of the cleanup service are run tick after tick: an invocation that stays
\* without events is closed and gets old.
Fairness ==
  /\ \A i \in Values(Id) : WF_vars(LockInvocation(i)) /\ WF_vars(RemoveOldInvocation(i))
  /\ WF_vars(SelectInactiveUsers) /\ WF_vars(RemoveInactiveUsers)
  /\ WF_vars(SelectBuilds) /\ WF_vars(RemoveBuilds)
FairSpec == Spec /\ Fairness

-----------------------------------------------------------------------------
(* Properties.                                                             *)

\* A recorder never writes to the invocation of somebody else, although the column that
\* CreateBazelInvocation compares becomes NULL when its user is removed: the stream of a
\* user has an invocation that was created for this user, and a stream without a user has
\* one that belongs to nobody (any more).
JoinedIsOwn ==
  \A s \in Streams : mine[s] = "row" =>
    /\ invs[Id[s]].instance = Instance[s]
    /\ IF User[s] = NoUser THEN invs[Id[s]].user = NoUser
                           ELSE invs[Id[s]].creator = User[s]

\* The event with the command line is saved as a whole, although builds are removed by
\* stale snapshots: where it is handled, the invocation is linked to a build that one of
\* its streams has named; a recorder that has saved it finds it saved, or the invocation
\* gone; and no invocation is closed or removed while a transaction saves into it.
SavedIsLinked ==
  /\ \A i \in Rows : invs[i].meta = "handled" =>
       invs[i].build \in builds /\ \E s \in Streams : Id[s] = i /\ Build[s] = invs[i].build
  /\ \A s \in Streams :
       /\ pc[s] = "saved" /\ mine[s] = "row" => invs[Id[s]].meta = "handled"
       /\ pc[s] \in Saving => /\ mine[s] = "row" /\ invs[Id[s]].meta # "none"
                              /\ ~invs[Id[s]].completed

\* The statement that s is at waits for the end of a transaction of t.
WaitsFor(s, t) ==
  /\ t \in Others(s)
  /\ \/ pc[s] = "user" /\ LocksUser(t, User[s])
     \/ pc[s] = "insert_name" /\ MadeName(t, Instance[s])
     \/ pc[s] = "find" /\ MadeInvocation(t, Id[s])
     \/ pc[s] = "build" /\ LocksBuild(t, Build[s])
     \/ pc[s] = "link" /\ Shares(t, Id[s])

\* Streams that wait for each other in a circle save into one invocation: there one of
\* them is rolled back and tries again (DeadlockAbort).  Opening a stream, which nobody
\* tries again, never deadlocks: all lock the user, the name and the invocation in this
\* order.
OnlySharersDeadlock ==
  \A S \in (SUBSET Streams) \ {{}} :
    (\A s \in S : \E t \in S : WaitsFor(s, t)) =>
      \E s, t \in S : s # t /\ Id[s] = Id[t] /\ {pc[s], pc[t]} \subseteq Saving

\* When all streams are over, no invocation stays that has had an event, and no
\* user and no build stays that no invocation refers to.
OnlyTheEmptyStay ==
  <>[](\A s \in Streams : pc[s] \in Over) =>
    <>[](/\ \A i \in Rows : invs[i].meta = "none"
         /\ UsersWithoutInvocations = {} /\ BuildsWithoutInvocations = {})
=============================================================================
