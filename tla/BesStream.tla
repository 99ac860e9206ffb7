----------------------------- MODULE BesStream -----------------------------
(***************************************************************************)
(* One call of PublishBuildToolEventStream: the goroutine that reads the   *)
(* stream, the handler that saves and acknowledges batches of events, and  *)
(* the Batcher between them.                                               *)
(*                                                                         *)
(* The Batcher is a slice under a mutex and a channel of capacity one that *)
(* says that there may be data.  Its backing arrays are recycled: the      *)
(* handler gives Swap the slice of the batch before last, emptied, and the *)
(* reader appends to it while the handler still works on the last batch.   *)
(* So the arrays are modelled, as is append, which writes in place as long *)
(* as the capacity suffices.                                               *)
(*                                                                         *)
(* SaveBatch is one step here; module EventRecorder is its inside.         *)
(***************************************************************************)
EXTENDS Naturals, Sequences

CONSTANTS N,           \* bound: messages a client sends over one stream
          Malformed,   \* messages that cannot be converted to build events
          Arrays,      \* bound: backing arrays, of which at most 4 are in use
          NoArray      \* what a nil slice has for an array

ASSUME StreamAssumption ==
  N \in Nat /\ Malformed \subseteq 1..N /\ NoArray \notin Arrays

VARIABLES
  sent,       \* the client has sent messages 1..sent
  wire,       \* the client's side of the stream
  received,   \* stream.Recv has returned messages 1..received
  reader,     \* where the reading goroutine is
  errChan,    \* the channel on which it reports its end
  mem,        \* mem[a]: contents of the backing array a, its length the capacity
  batch,      \* slice Batcher.batch
  signal,     \* what is in the channel Batcher.signal
  handler,    \* where the handler is
  prevBatch,  \* slice prevBatch of the handler
  nextBatch,  \* slice nextBatch of the handler
  last,       \* the handler works on the last batch
  acked,      \* how many events of nextBatch it has acknowledged
  acks,       \* sequence numbers of the ACKs, in the order in which they are sent
  result,     \* what the handler has returned
  logger      \* where the goroutine of StartLoggingConnectionMetadata is

clientVars == <<sent, wire>>
batcherVars == <<mem, batch, signal>>
readerVars == <<received, reader, errChan>>
handlerVars == <<handler, prevBatch, nextBatch, last, acked, acks, result>>
vars == <<clientVars, readerVars, batcherVars, handlerVars, logger>>

\* A slice: its backing array and its length.  A nil slice has no array.
Nil == [arr |-> NoArray, len |-> 0]
Slices == [arr : Arrays \cup {NoArray}, len : 0..N]
Capacity(s) == IF s.arr = NoArray THEN 0 ELSE Len(mem[s.arr])
Content(s) == IF s.len = 0 THEN <<>> ELSE SubSeq(mem[s.arr], 1, s.len)
Emptied(s) == [s EXCEPT !.len = 0]

InUse == {batch.arr, prevBatch.arr, nextBatch.arr}

TypeOK ==
  /\ sent \in 0..N /\ received \in 0..sent
  /\ wire \in {"open", "eof", "broken"}
  /\ reader \in {"off", "recv", "add", "signal", "done"}
  /\ errChan \in {"empty", "err", "closed"}
  /\ mem \in [Arrays -> Seq(0..N)]
  /\ {batch, prevBatch, nextBatch} \subseteq Slices
  /\ signal \in 0..1
  /\ handler \in {"first", "connect", "select", "swap", "save", "send", "returned"}
  /\ last \in BOOLEAN
  /\ acked \in 0..N
  /\ acks \in Seq(1..N)
  /\ result \in {"none", "ok", "error"}
  /\ logger \in {"off", "run", "sleep", "done"}

Init ==
  /\ sent = 0 /\ wire = "open" /\ received = 0
  /\ reader = "off" /\ errChan = "empty"
  /\ mem = [a \in Arrays |-> <<>>]
  /\ batch = Nil /\ prevBatch = Nil /\ nextBatch = Nil
  /\ signal = 0
  /\ handler = "first" /\ last = FALSE /\ acked = 0
  /\ acks = <<>> /\ result = "none"
  /\ logger = "off"

-----------------------------------------------------------------------------
(* The client.                                                             *)

Send ==
  /\ wire = "open" /\ sent < N
  /\ sent' = sent + 1
  /\ UNCHANGED <<wire, readerVars, batcherVars, handlerVars, logger>>

CloseSend ==
  /\ wire = "open"
  /\ wire' = "eof"
  /\ UNCHANGED <<sent, readerVars, batcherVars, handlerVars, logger>>

\* The connection is lost or the call is cancelled.
Break ==
  /\ wire # "broken"
  /\ wire' = "broken"
  /\ UNCHANGED <<sent, readerVars, batcherVars, handlerVars, logger>>

\* The results of stream.Recv.  Messages may be lost when the stream breaks, and
\* the stream is cancelled when the handler has returned.
RecvMessage == received < sent /\ handler # "returned" /\ received' = received + 1
RecvEOF == received = sent /\ wire = "eof" /\ UNCHANGED received
RecvError == (wire = "broken" \/ handler = "returned") /\ UNCHANGED received

-----------------------------------------------------------------------------
(* Batcher.                                                                *)

\* b.batch = append(b.batch, event): in place, or in a new array of twice the
\* size to which the elements are copied.
AppendToBatch(event) ==
  /\ batch.len < Capacity(batch)
     => /\ mem' = [mem EXCEPT ![batch.arr][batch.len + 1] = event]
        /\ batch' = [batch EXCEPT !.len = @ + 1]
  /\ batch.len = Capacity(batch)
     => \E a \in Arrays \ InUse :
          /\ a = CHOOSE b \in Arrays \ InUse : TRUE
          /\ mem' = [mem EXCEPT ![a] =
                       Append(Content(batch), event)
                       \o [i \in 1..(IF batch.len = 0 THEN 0 ELSE batch.len - 1) |-> 0]]
          /\ batch' = [arr |-> a, len |-> batch.len + 1]

\* Mutant: the Batcher keeps the array that it hands out.
SwapKeepsArray ==
  /\ nextBatch' = batch
  /\ batch' = Emptied(batch)
  /\ UNCHANGED mem

\* Batcher.Swap(prevBatch)
Swap ==
  /\ nextBatch' = batch
  /\ batch' = prevBatch
  /\ UNCHANGED mem

-----------------------------------------------------------------------------
(* The handler, until it starts the reader.                                *)

Return(r) == handler' = "returned" /\ result' = r

\* It waits for the first message and adds it to the batcher.
RecvFirst ==
  /\ handler = "first"
  /\ RecvMessage
  /\ IF received' \in Malformed
     THEN Return("error") /\ UNCHANGED batcherVars
     ELSE /\ AppendToBatch(received')
          /\ signal' = 1
          /\ handler' = "connect"
          /\ UNCHANGED result
  /\ UNCHANGED <<clientVars, reader, errChan, prevBatch, nextBatch, last, acked, acks, logger>>

RecvNothing ==
  /\ handler = "first"
  /\ \/ RecvEOF /\ Return("ok")
     \/ RecvError /\ Return("error")
  /\ UNCHANGED <<clientVars, reader, errChan, batcherVars, prevBatch, nextBatch, last,
                 acked, acks, logger>>

\* It creates the recorder, and starts the goroutines.
Connect ==
  /\ handler = "connect"
  /\ \/ /\ handler' = "select" /\ reader' = "recv" /\ logger' = "run"
        /\ UNCHANGED result
     \/ Return("error") /\ UNCHANGED <<reader, logger>>
  /\ UNCHANGED <<clientVars, received, errChan, batcherVars, prevBatch, nextBatch, last, acked, acks>>

-----------------------------------------------------------------------------
(* The reading goroutine.                                                  *)

ReadMessage ==
  /\ reader = "recv"
  /\ RecvMessage
  /\ IF received' \in Malformed
     THEN errChan' = "err" /\ reader' = "done"
     ELSE reader' = "add" /\ UNCHANGED errChan
  /\ UNCHANGED <<clientVars, batcherVars, handlerVars, logger>>

\* Mutant: errChan has no buffer, so that a send waits for the handler.
ReadEndUnbuffered ==
  /\ reader = "recv"
  /\ \/ RecvEOF /\ errChan' = "closed"
     \/ RecvError /\ handler = "select" /\ errChan' = "err"
  /\ reader' = "done"
  /\ UNCHANGED <<clientVars, batcherVars, handlerVars, logger>>

ReadEnd ==
  /\ reader = "recv"
  /\ \/ RecvEOF /\ errChan' = "closed"
     \/ RecvError /\ errChan' = "err"
  /\ reader' = "done"
  /\ UNCHANGED <<clientVars, batcherVars, handlerVars, logger>>

\* Batcher.Add: the message that was read last goes into the batch, under the
\* mutex, and only then the consumer is told.
Add ==
  /\ reader = "add"
  /\ AppendToBatch(received)
  /\ reader' = "signal"
  /\ UNCHANGED <<clientVars, received, errChan, signal, handlerVars, logger>>

\* Mutant: the channel has room for more than one signal.
SignalEveryTime ==
  /\ reader = "signal"
  /\ signal' = signal + 1
  /\ reader' = "recv"
  /\ UNCHANGED <<clientVars, received, errChan, mem, batch, handlerVars, logger>>

Signal ==
  /\ reader = "signal"
  /\ signal' = 1
  /\ reader' = "recv"
  /\ UNCHANGED <<clientVars, received, errChan, mem, batch, handlerVars, logger>>

-----------------------------------------------------------------------------
(* The handler's loop.                                                     *)

\* Mutant: the batch that is left at the end of the stream is forgotten.
SelectEndOnly ==
  /\ handler = "select"
  /\ errChan \in {"err", "closed"}
  /\ Return(IF errChan = "err" THEN "error" ELSE "ok")
  /\ UNCHANGED <<clientVars, readerVars, batcherVars, prevBatch, nextBatch, last, acked, acks, logger>>

\* The reader has ended.  After an error what is left of the batch is dropped,
\* at the end of the stream it is the last batch.
SelectEnd ==
  /\ handler = "select"
  /\ \/ errChan = "err" /\ Return("error") /\ UNCHANGED last
     \/ errChan = "closed" /\ handler' = "swap" /\ last' = TRUE /\ UNCHANGED result
  /\ UNCHANGED <<clientVars, readerVars, batcherVars, prevBatch, nextBatch, acked, acks, logger>>

SelectReady ==
  /\ handler = "select"
  /\ signal = 1
  /\ signal' = 0
  /\ handler' = "swap"
  /\ UNCHANGED <<clientVars, readerVars, mem, batch, prevBatch, nextBatch, last, acked, acks, result,
                 logger>>

SwapBatch ==
  /\ handler = "swap"
  /\ Swap
  /\ handler' = "save"
  /\ UNCHANGED <<clientVars, readerVars, signal, prevBatch, last, acked, acks, result, logger>>

\* The batch is done: the next, or the end.
NextBatch ==
  /\ acked' = 0
  /\ IF last
     THEN Return("ok") /\ UNCHANGED prevBatch
     ELSE /\ handler' = "select"
          /\ prevBatch' = Emptied(nextBatch)
          /\ UNCHANGED result

\* Mutant: what is signalled in the meantime counts as fetched.
SaveBatchDrains ==
  /\ handler = "save"
  /\ signal' = 0
  /\ IF nextBatch.len = 0
     THEN NextBatch
     ELSE /\ \/ handler' = "send" /\ UNCHANGED result
             \/ Return("error")
          /\ UNCHANGED <<prevBatch, acked>>
  /\ UNCHANGED <<clientVars, readerVars, mem, batch, nextBatch, last, acks, logger>>

\* processBatch calls SaveBatch, for which an empty batch is no work.
SaveBatch ==
  /\ handler = "save"
  /\ IF nextBatch.len = 0
     THEN NextBatch
     ELSE /\ \/ handler' = "send" /\ UNCHANGED result
             \/ Return("error")
          /\ UNCHANGED <<prevBatch, acked>>
  /\ UNCHANGED <<clientVars, readerVars, batcherVars, nextBatch, last, acks, logger>>

\* processBatch sends the ACK of each event of the batch.  stream.Send may fail.
SendAck ==
  /\ handler = "send"
  /\ \/ /\ acks' = Append(acks, Content(nextBatch)[acked + 1])
        /\ IF acked + 1 = nextBatch.len
           THEN NextBatch
           ELSE acked' = acked + 1 /\ UNCHANGED <<handler, result, prevBatch>>
     \/ wire = "broken" /\ Return("error") /\ UNCHANGED <<acked, acks, prevBatch>>
  /\ UNCHANGED <<clientVars, readerVars, batcherVars, nextBatch, last, logger>>

-----------------------------------------------------------------------------
(* StartLoggingConnectionMetadata: writes a timestamp once a second, until *)
(* the context of the stream is done.                                      *)

Log ==
  \/ logger = "run" /\ logger' = IF wire = "broken" \/ handler = "returned"
                                 THEN "done" ELSE "sleep"
  \/ logger = "sleep" /\ logger' = "run"

LogConnection == Log /\ UNCHANGED <<clientVars, readerVars, batcherVars, handlerVars>>

-----------------------------------------------------------------------------

Client == Send \/ CloseSend \/ Break
Reader == ReadMessage \/ ReadEnd \/ Add \/ Signal
Handler == RecvFirst \/ RecvNothing \/ Connect \/ SelectEnd \/ SelectReady \/ SwapBatch
           \/ SaveBatch \/ SendAck

Next == Client \/ Reader \/ Handler \/ LogConnection

Spec == Init /\ [][Next]_vars

\* The goroutines run.  SaveBatch returns (SaveBatchReturns of EventRecorder),
\* and the client takes its ACKs.  Nothing is assumed of what the client sends.
Fairness == WF_vars(Reader) /\ WF_vars(Handler) /\ WF_vars(LogConnection)
FairSpec == Spec /\ Fairness

-----------------------------------------------------------------------------
(* Properties.                                                             *)

\* The messages of the stream that are build events, up to the k-th: the first that
\* is none ends the stream.
Events(k) == [i \in 1..(IF k \in Malformed THEN k - 1 ELSE k) |-> i]

\* Batches that are not acknowledged yet, in the order of their events.
ToAck == IF handler \in {"save", "send"}
         THEN SubSeq(Content(nextBatch), acked + 1, nextBatch.len) ELSE <<>>
Held == IF reader = "add" THEN <<received>> ELSE <<>>

\* As long as the handler works, each event that was received is acknowledged,
\* in the batch that is being saved, in the batcher, or held by the reader: no
\* event is lost, taken twice or overwritten in an array that is used again, and
\* the ACKs are in the order of the stream.
NothingIsLost ==
  handler # "returned" =>
    acks \o ToAck \o Content(batch) \o Held = Events(received)

\* A build tool whose stream ends without an error has the ACKs of all it sent.
OkMeansAll ==
  result = "ok" => acks = [i \in 1..sent |-> i]

\* No event waits in the batcher for a signal that has been used up: each event
\* is acknowledged in the end, unless the call returns.
EventsAreNotStuck ==
  \A k \in 1..N : received >= k ~> Len(acks) >= k \/ handler = "returned"

\* When the stream has ended or the call has returned, the handler and all
\* goroutines it has started end: none waits for ever on a channel.
GoroutinesEnd ==
  wire # "open" \/ handler = "returned"
  ~> handler = "returned" /\ reader \in {"off", "done"} /\ logger \in {"off", "done"}
=============================================================================
