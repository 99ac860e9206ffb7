------------------------ MODULE BuildQueueStateProxy ------------------------
(***************************************************************************)
(* The proxy in front of the build queue of a scheduler.  It answers a     *)
(* request for a page of the operations by fetching all of them, page by   *)
(* page, keeping those that the user may see, and cutting the page that    *)
(* is asked for out of the rest.  Operations come and go between the calls *)
(* to the scheduler, which is external: it lists operations by name.       *)
(***************************************************************************)
EXTENDS Naturals, Sequences, FiniteSets, SequencesExt, Selections

CONSTANTS
  NumOperations,          \* bound: operations that there ever are
  Readable,               \* those that readAuthorizer lets the user see
  Killable,               \* those that killOperationsAuthorizer lets the user kill
  listOperationsPageSize, \* size of the pages that are fetched
  PageSizes               \* sizes of the pages that are asked for

\* Names of operations, as numbers in their order.
Operations == 1..NumOperations

ASSUME ProxyAssumption ==
  /\ NumOperations \in Nat
  /\ Readable \subseteq Operations /\ Killable \subseteq Operations
  /\ listOperationsPageSize \in Nat \ {0} /\ PageSizes \subseteq Nat

VARIABLES
  unborn,     \* operations that the scheduler has not got yet
  queue,      \* operations it has
  listing,    \* where the call of ListOperations is
  pageSize,   \* of the request
  after,      \* of the request: the operation after which the page begins, or 0
  operations, \* what the call has fetched so far
  answer,     \* the page
  stayed,     \* history: operations that were in the queue during all of the call
  kill        \* the operation that KillOperations has let pass, or 0

proxyVars == <<unborn, queue, listing, pageSize, after, operations, answer, stayed, kill>>

InitProxy ==
  /\ unborn \in SUBSET Operations
  /\ queue = Operations \ unborn
  /\ listing = "off"
  /\ pageSize = 0 /\ after = 0
  /\ operations = <<>> /\ answer = <<>>
  /\ stayed = {}
  /\ kill = 0

-----------------------------------------------------------------------------
(* The scheduler.                                                          *)

NewOperation ==
  /\ \E o \in unborn : unborn' = unborn \ {o} /\ queue' = queue \cup {o}
  /\ UNCHANGED <<listing, pageSize, after, operations, answer, stayed, kill>>

LeaveQueue(o) == queue' = queue \ {o} /\ stayed' = stayed \ {o}

FinishOperation ==
  /\ \E o \in queue : LeaveQueue(o)
  /\ UNCHANGED <<unborn, listing, pageSize, after, operations, answer, kill>>

FirstOf(s, size) == SubSeq(s, 1, Min({size, Len(s)}))

Sorted(S) == ElementsAt([o \in Operations |-> o], S)

\* A page of what it has, by name, after the given operation.
PageAfter(start) ==
  FirstOf(Sorted({o \in queue : o > start}), listOperationsPageSize)

-----------------------------------------------------------------------------
(* ListOperations                                                          *)

Request ==
  /\ listing \in {"off", "done", "failed"}
  /\ pageSize' \in PageSizes
  /\ after' \in Operations \cup {0}
  /\ listing' = "fetch"
  /\ operations' = <<>> /\ answer' = <<>>
  /\ stayed' = queue
  /\ UNCHANGED <<unborn, queue, kill>>

\* Mutant: only the number of operations tells that there are no more.
IsLastPageByTotal(page, fetched) == Cardinality(queue) = Len(fetched)

\* The page is empty, short, or completes what the scheduler has at this moment.
IsLastPage(page, fetched) ==
  Len(page) < listOperationsPageSize \/ Cardinality(queue) = Len(fetched)

Allowed(all) == ElementsAt(all, {i \in DOMAIN all : all[i] \in Readable})

\* Where the operations after the given one begin.  The binary search needs them in order:
\* it finds some place where an earlier operation is followed by a later one.
StartIndexes(all) ==
  {i \in 0..Len(all) : (i > 0 => all[i] <= after) /\ (i < Len(all) => all[i+1] > after)}

PagesOf(all) ==
  {SubSeq(all, i + 1, Min({i + pageSize, Len(all)})) : i \in StartIndexes(all)}

\* Mutant: the page is cut out before the operations are filtered.
ResponsePageFirst(all) == {Allowed(page) : page \in PagesOf(all)}

\* filterOperations, and createPaginatedListOperationsResponse with getPaginationInfo
Response(all) == UNION {PagesOf(allowed) : allowed \in {Allowed(all)}}

\* The next page of all operations is fetched, after the last of those fetched.
FetchPage ==
  /\ listing = "fetch"
  /\ LET start == IF operations = <<>> THEN 0 ELSE Last(operations)
         page == PageAfter(start)
     IN /\ operations' = operations \o page
        /\ IF IsLastPage(page, operations')
           THEN listing' = "done" /\ answer' \in Response(operations')
           ELSE UNCHANGED <<listing, answer>>
  /\ UNCHANGED <<unborn, queue, pageSize, after, stayed, kill>>

\* A call to the scheduler fails.
FetchFails ==
  /\ listing = "fetch"
  /\ listing' = "failed"
  /\ UNCHANGED <<unborn, queue, pageSize, after, operations, answer, stayed, kill>>

-----------------------------------------------------------------------------
(* KillOperations: by name, if GetOperation finds that the user may see it *)
(* and if the user may kill it.                                            *)

IsAllowedToKillOperation(o) == o \in queue \cap Readable \cap Killable

CheckKill ==
  /\ kill = 0
  /\ kill' \in {o \in Operations : IsAllowedToKillOperation(o)}
  /\ UNCHANGED <<unborn, queue, listing, pageSize, after, operations, answer, stayed>>

KillOperation ==
  /\ kill # 0
  /\ LeaveQueue(kill)
  /\ kill' = 0
  /\ UNCHANGED <<unborn, listing, pageSize, after, operations, answer>>

-----------------------------------------------------------------------------

NextProxy ==
  \/ NewOperation \/ FinishOperation
  \/ Request \/ FetchPage \/ FetchFails
  \/ CheckKill \/ KillOperation

ProxySpec == InitProxy /\ [][NextProxy]_proxyVars

\* The scheduler answers.
FairProxySpec == ProxySpec /\ WF_proxyVars(FetchPage)

-----------------------------------------------------------------------------
(* Properties.                                                             *)

\* Something that was fetched was gone when the call ended.  The loop may then take
\* what it has for all there is.
FetchedIsGone == ~(ToSet(operations) \subseteq queue)

\* A page has only operations that the user may see, those after the given one, each
\* once and in their order; and, of those that were there all the time, it leaves out
\* none before its end, although the operations come and go while they are fetched.
PagesAreRight ==
  listing = "done" =>
    LET listed == ToSet(answer) IN
    /\ listed \subseteq {o \in Readable : o > after}
    /\ \A i, j \in DOMAIN answer : i < j => answer[i] < answer[j]
    /\ \A o \in stayed \cap Readable :
         \/ o <= after \/ o \in listed \/ FetchedIsGone
         \/ Len(answer) = pageSize /\ \A l \in listed : l < o

\* A request for a page is answered, however much the operations change.
ListReturns == listing = "fetch" ~> listing \in {"done", "failed"}
=============================================================================
