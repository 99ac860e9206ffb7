--------------------------- MODULE DbAuthService ---------------------------
(***************************************************************************)
(* The cached list of the instance names in the database, from which each  *)
(* query of a page or a log learns what its user may see.                  *)
(*                                                                         *)
(* One DbAuthService is shared by all requests, without any                *)
(* synchronization.  A request that finds the list too old empties it and  *)
(* appends the names one by one.  What is read or appended while another   *)
(* request does so is a data race on the slice: any list of such names may *)
(* come out of it.                                                         *)
(***************************************************************************)
EXTENDS Naturals, FiniteSets

CONSTANTS
  Callers,       \* requests that call GetInstanceNames
  Names          \* instance names

VARIABLES
  stored,        \* rows of instance_names
  instanceNames, \* the cached list, as a set
  isFresh,       \* less than updateThreshold has passed since lastUpdated
  call,          \* where the call of GetInstanceNames is
  found,         \* found[c]: what its query has found, and it still has to append
  result,        \* result[c]: what it has returned
  filled,        \* history: what the query of the last request to fill the list has found
  raced,         \* history: two requests have filled the list at once
  promised       \* history: promised[c]: what the result must have, unless there was a race

authVars == <<stored, instanceNames, isFresh, call, found, result, filled, raced, promised>>

InitAuth ==
  /\ stored = {}
  /\ instanceNames = {}
  /\ isFresh = FALSE
  /\ call = [c \in Callers |-> "off"]
  /\ found = [c \in Callers |-> {}]
  /\ result = [c \in Callers |-> {}]
  /\ filled = {}
  /\ raced = FALSE
  /\ promised = [c \in Callers |-> {}]

\* Someone else is between the assignments of the list.
OthersFill(c) == \E d \in Callers \ {c} : call[d] = "fill"

Goto(c, label) == call' = [call EXCEPT ![c] = label]

\* GetInstanceNames looks at lastUpdated.
GetInstanceNames(c) ==
  /\ call[c] = "off"
  /\ Goto(c, IF isFresh THEN "return" ELSE "query")
  /\ UNCHANGED <<stored, instanceNames, isFresh, found, result, filled, raced, promised>>

\* The query for the names.
QueryNames(c) ==
  /\ call[c] = "query"
  /\ found' = [found EXCEPT ![c] = stored]
  /\ Goto(c, "reset")
  /\ UNCHANGED <<stored, instanceNames, isFresh, result, filled, raced, promised>>

\* Mutant: the list has been emptied before the query.
QueryFailsEmptied(c) ==
  /\ call[c] = "query"
  /\ instanceNames' = {}
  /\ Goto(c, "return")
  /\ UNCHANGED <<stored, isFresh, found, result, filled, raced, promised>>

\* The query fails: the old list has to do.
QueryFails(c) ==
  /\ call[c] = "query"
  /\ Goto(c, "return")
  /\ UNCHANGED <<stored, instanceNames, isFresh, found, result, filled, raced, promised>>

\* The list is emptied.
Reset(c) ==
  /\ call[c] = "reset"
  /\ instanceNames' = {}
  /\ filled' = found[c]
  /\ raced' = OthersFill(c)
  /\ Goto(c, "fill")
  /\ UNCHANGED <<stored, isFresh, found, result, promised>>

\* A name is appended to the list.
AppendName(c) ==
  /\ call[c] = "fill"
  /\ \E n \in found[c] :
       /\ found' = [found EXCEPT ![c] = @ \ {n}]
       /\ IF OthersFill(c)
          THEN instanceNames' \in SUBSET (instanceNames \cup {n})
          ELSE instanceNames' = instanceNames \cup {n}
  /\ UNCHANGED <<stored, isFresh, call, result, filled, raced, promised>>

\* lastUpdated is set.
SetLastUpdated(c) ==
  /\ call[c] = "fill" /\ found[c] = {}
  /\ isFresh' = TRUE
  /\ Goto(c, "return")
  /\ UNCHANGED <<stored, instanceNames, found, result, filled, raced, promised>>

\* The list is returned.
Return(c) ==
  /\ call[c] = "return"
  /\ IF OthersFill(c)
     THEN \E S \in SUBSET instanceNames : result' = [result EXCEPT ![c] = S]
     ELSE result' = [result EXCEPT ![c] = instanceNames]
  /\ promised' = [promised EXCEPT ![c] = IF raced \/ OthersFill(c) THEN {} ELSE filled]
  /\ Goto(c, "returned")
  /\ UNCHANGED <<stored, instanceNames, isFresh, found, filled, raced>>

\* A stream of build events has a new instance name.
StoreName ==
  /\ \E n \in Names \ stored : stored' = stored \cup {n}
  /\ UNCHANGED <<instanceNames, isFresh, call, found, result, filled, raced, promised>>

\* updateThreshold passes.
Expire ==
  /\ isFresh
  /\ isFresh' = FALSE
  /\ UNCHANGED <<stored, instanceNames, call, found, result, filled, raced, promised>>

Call(c) ==
  \/ GetInstanceNames(c) \/ QueryNames(c) \/ QueryFails(c) \/ Reset(c) \/ AppendName(c)
  \/ SetLastUpdated(c) \/ Return(c)
=============================================================================
