------------------------------ MODULE ServeLog ------------------------------
(***************************************************************************)
(* Requests for a range of lines of a log, while other requests use the    *)
(* same DbAuthService and the cleanup service compacts and removes the log.*)
(*                                                                         *)
(* A request asks the DbAuthService for the instance names of its user, as *)
(* a part of the query for the invocation, lists the chunks that have the  *)
(* range, and copies to the client what a goroutine of its own fetches     *)
(* chunk by chunk and writes to a pipe.  A log without chunks is read from *)
(* its snippets.  Meanwhile the cleanup service, see LogCompaction, may    *)
(* insert the chunks, delete the snippets, and remove the invocation.      *)
(***************************************************************************)
EXTENDS LogLines, DbAuthService

CONSTANTS
  Readers,       \* the callers that read the log; the others are any other requests
  Wanted,        \* the ranges of lines that are asked for, pairs of start and end
  ServedLogs,    \* bound: the logs that are served
  ServedSizes,   \* bound: the sizes of their chunks
  Ours           \* the instance name of the invocation

ASSUME ServeAssumption ==
  /\ Readers \subseteq Callers /\ Wanted \subseteq Nat \X Nat
  /\ ServedSizes \subseteq ChunkSizes

VARIABLES
  chunks,        \* rows of build_log_chunks
  deleted,       \* parts of the log whose snippets have been deleted
  removed,       \* the invocation has been removed
  at,            \* at[r]: where the handler of the request is
  want,          \* want[r]: its range
  list,          \* list[r]: the chunks that are left to fetch
  fetcher,       \* fetcher[r]: where the goroutine that fetches them is
  pipe,          \* pipe[r]: what it is writing
  got            \* got[r]: what the client has

rowVars == <<chunks, deleted, removed>>
requestVars == <<at, want, list, fetcher, pipe, got>>
vars == <<log, authVars, rowVars, requestVars>>

Init ==
  /\ InitLog /\ InitAuth
  /\ chunks = <<>> /\ deleted = {} /\ removed = FALSE
  /\ at = [r \in Readers |-> "off"]
  /\ want \in [Readers -> Wanted]
  /\ list = [r \in Readers |-> <<>>]
  /\ fetcher = [r \in Readers |-> "none"]
  /\ pipe = [r \in Readers |-> <<>>]
  /\ got = [r \in Readers |-> <<>>]

IsServed == log \in ServedLogs

At(r, label) == at' = [at EXCEPT ![r] = label]

\* Nothing else has happened yet: the log does not change any more when it has.
IsBeingWritten == chunks = <<>> /\ stored = {} /\ \A c \in Callers : call[c] = "off"

\* The build tool writes its log, before anyone reads it.
WriteEvents ==
  /\ IsBeingWritten
  /\ WriteLog
  /\ UNCHANGED <<authVars, rowVars, requestVars>>

\* The invocation, which is created together with its instance name.
Created == IsServed /\ Ours \in stored

\* CompactLogs
Compact ==
  /\ Created /\ ~removed /\ chunks = <<>>
  /\ \E text \in {Normalize(log)}, size \in ServedSizes : chunks' = Chunks(text, size)
  /\ UNCHANGED <<log, authVars, deleted, removed, requestVars>>

\* The pages of the table of snippets: the log is on two of them.
Parts == {0, 1}
SnippetsOf(parts) == ElementsAt(log, {i \in DOMAIN log : i % 2 \in parts})

\* Mutant: snippets are deleted before there are chunks.
DeleteSnippetsEarly ==
  /\ Created /\ ~removed
  /\ \E p \in Parts \ deleted : deleted' = deleted \cup {p}
  /\ UNCHANGED <<log, authVars, chunks, removed, requestVars>>

\* RemoveIncompleteLogs, which takes one page of the table at a time.
DeleteSnippets ==
  /\ chunks # <<>>
  /\ \E p \in Parts \ deleted : deleted' = deleted \cup {p}
  /\ UNCHANGED <<log, authVars, chunks, removed, requestVars>>

\* RemoveOldInvocations
RemoveInvocation ==
  /\ Created /\ ~removed
  /\ removed' = TRUE /\ chunks' = <<>> /\ deleted' = Parts
  /\ UNCHANGED <<log, authVars, requestVars>>

\* Requests, and what they have in common.
Authorize(c) ==
  /\ IsServed
  /\ Call(c)
  /\ UNCHANGED <<log, rowVars, requestVars>>

Environment == IsServed /\ (StoreName \/ Expire) /\ UNCHANGED <<log, rowVars, requestVars>>

-----------------------------------------------------------------------------
(* getLogLineReader and ServeHTTP.                                         *)

IsEmpty(range) == range[1] >= range[2]

\* The query for the invocation.
Exists(r) ==
  /\ at[r] = "off" /\ call[r] = "returned"
  /\ At(r, IF Ours \notin result[r] \/ removed THEN "notFound"
           ELSE IF IsEmpty(want[r]) THEN "done" ELSE "list")
  /\ UNCHANGED <<log, authVars, rowVars, want, list, fetcher, pipe, got>>

\* The query for the chunks; the goroutine is started if there are any.
ListChunks(r) ==
  /\ at[r] = "list"
  /\ \E selected \in {SelectChunks(chunks, want[r][1], want[r][2])} :
       list' = [list EXCEPT ![r] = selected]
  /\ IF list'[r] = <<>>
     THEN At(r, "snippets") /\ UNCHANGED fetcher
     ELSE At(r, "copy") /\ fetcher' = [fetcher EXCEPT ![r] = "fetch"]
  /\ UNCHANGED <<log, authVars, rowVars, want, pipe, got>>

\* The log is read from the snippets that there are.
ReadSnippets(r) ==
  /\ at[r] = "snippets"
  /\ \E snippets \in {SnippetsOf(Parts \ deleted)} : \E text \in {Normalize(snippets)} :
       got' = [got EXCEPT ![r] = Subslice(text, want[r][1], want[r][2])]
  /\ At(r, "done")
  /\ UNCHANGED <<log, authVars, rowVars, want, list, fetcher, pipe>>

\* The goroutine fetches the next chunk, and begins to write its lines to the pipe.
\* The query fails when the client has left, and when the chunk is gone.
FetchChunk(r) ==
  /\ fetcher[r] = "fetch" /\ list[r] # <<>>
  /\ IF at[r] = "left" \/ removed
     THEN fetcher' = [fetcher EXCEPT ![r] = "failed"] /\ UNCHANGED <<list, pipe>>
     ELSE /\ fetcher' = [fetcher EXCEPT ![r] = "write"]
          /\ list' = [list EXCEPT ![r] = Tail(@)]
          /\ \E text \in {ReadChunk(Head(list[r]), want[r][1], want[r][2])} :
               pipe' = [pipe EXCEPT ![r] = text]
  /\ UNCHANGED <<log, authVars, rowVars, at, want, got>>

\* io.Copy reads what is written, and sends it; only then does the write return.
CopyChunk(r) ==
  /\ at[r] = "copy" /\ fetcher[r] = "write"
  /\ got' = [got EXCEPT ![r] = @ \o pipe[r]]
  /\ pipe' = [pipe EXCEPT ![r] = <<>>]
  /\ fetcher' = [fetcher EXCEPT ![r] = "fetch"]
  /\ UNCHANGED <<log, authVars, rowVars, at, want, list>>

\* Mutant: the goroutine returns without closing the pipe.
ReturnUnclosed(r) ==
  /\ fetcher[r] = "fetch" /\ list[r] = <<>>
  /\ fetcher' = [fetcher EXCEPT ![r] = "none"]
  /\ UNCHANGED <<log, authVars, rowVars, at, want, list, pipe, got>>

\* The goroutine closes the pipe.
CloseWriter(r) ==
  /\ fetcher[r] = "fetch" /\ list[r] = <<>>
  /\ fetcher' = [fetcher EXCEPT ![r] = "ended"]
  /\ UNCHANGED <<log, authVars, rowVars, at, want, list, pipe, got>>

\* io.Copy finds the end of the pipe, or the error with which it was closed.
EndCopy(r) ==
  /\ at[r] = "copy" /\ fetcher[r] \in {"ended", "failed"}
  /\ At(r, IF fetcher[r] = "ended" THEN "done" ELSE "failed")
  /\ UNCHANGED <<log, authVars, rowVars, want, list, fetcher, pipe, got>>

\* The client goes away: queries and writes fail, and the handler returns.  It leaves
\* the pipe open.
Leave(r) ==
  /\ at[r] \in {"list", "snippets", "copy"}
  /\ At(r, "left")
  /\ UNCHANGED <<log, authVars, rowVars, want, list, fetcher, pipe, got>>

-----------------------------------------------------------------------------

Serve(r) ==
  \/ Exists(r) \/ ListChunks(r) \/ ReadSnippets(r) \/ FetchChunk(r) \/ CopyChunk(r)
  \/ CloseWriter(r) \/ EndCopy(r)

Next ==
  \/ WriteEvents \/ Compact \/ DeleteSnippets \/ RemoveInvocation \/ Environment
  \/ \E c \in Callers : Authorize(c)
  \/ \E r \in Readers : Serve(r) \/ Leave(r)

Spec == Init /\ [][Next]_vars

\* The handler and the goroutine of each request run.
FairSpec == Spec /\ \A r \in Readers : WF_vars(Authorize(r)) /\ WF_vars(Serve(r))

-----------------------------------------------------------------------------
(* Properties.                                                             *)

\* The normalized log is what a terminal would show at the end of the build.
NormalizedIsTheScreen == IsBeingWritten => Normalize(log) = Shown(log)

\* A range of lines that is read from chunks is those lines, wherever the chunks
\* are cut: none is left out, cut off or read twice at the end of a chunk.  A log
\* that has no chunks yet is read alike.
RangesAreRight == IsBeingWritten => IsReadRight(Normalize(log))

\* The request found no chunk of its range and read snippets, of which some were gone:
\* the log was compacted after it had looked for chunks, its range begins beyond the end
\* of a log that was compacted before, or the invocation was removed after Exists.
CameTooLate(r) == fetcher[r] = "none" /\ deleted # {} /\ (chunks # <<>> \/ removed)

\* A log that is served without an error is served as it is, whether it is compacted
\* before, while, or after the request reads it, unless the request finds no chunk of its
\* range and reads snippets of which some are gone (CameTooLate); and it is found if the
\* name of its instance was in the database when the list was filled, unless two requests
\* have filled the list at once.
AnswersAreRight ==
  \A r \in Readers :
    /\ at[r] = "done" =>
         \/ got[r] = IF IsEmpty(want[r]) THEN <<>>
                     ELSE RangeOfLines(Normalize(log), want[r][1], want[r][2])
         \/ CameTooLate(r)
    /\ at[r] = "notFound" => Ours \notin promised[r] \/ removed

\* A request ends, and so does its goroutine, unless the client has left: then the
\* goroutine may wait for ever for someone to read from the pipe.
RequestsEnd ==
  \A r \in Readers : call[r] # "off" ~>
    \/ at[r] \in {"notFound", "left"}
    \/ at[r] \in {"done", "failed"} /\ fetcher[r] \in {"none", "ended", "failed"}
=============================================================================
