-------------------------- MODULE BesStream_proofs --------------------------
(***************************************************************************)
(* Proofs about BesStream, for streams of any length and any number of     *)
(* backing arrays: no event is lost, taken twice or overwritten in an      *)
(* array that is used again, and a stream that ends well is acknowledged.  *)
(***************************************************************************)
EXTENDS BesStream, Integers, SequenceTheorems, TLAPS

(***************************************************************************)
(* The inductive invariant.  The handler and the reader never share a      *)
(* backing array (MemInv).  Each of the acknowledged events, the batch     *)
(* that is being saved and the batcher is a run of consecutive events that *)
(* begins where the one before ends (RunsInv), and together they are as    *)
(* many as were received (CountInv).  EndsInv says how the reader, the     *)
(* handler and its last batch end.                                         *)
(***************************************************************************)

Working == handler \in {"save", "send"}

\* The array that the handler uses or is going to give back.
HandlersSlice == IF Working THEN nextBatch ELSE prevBatch

MemInv ==
  /\ batch.len <= Capacity(batch)
  /\ prevBatch.len = 0
  /\ Working => nextBatch.len <= Capacity(nextBatch)
  /\ handler # "returned" => (batch.arr = HandlersSlice.arr => batch.arr = NoArray)

\* The events before the first one in the batcher.
Base == Len(acks) + (IF Working THEN nextBatch.len - acked ELSE 0)

RunsInv ==
  /\ \A i \in 1..Len(acks) : acks[i] = i
  /\ Working => \A i \in 1..nextBatch.len : mem[nextBatch.arr][i] + acked = Len(acks) + i
  /\ handler # "returned" => \A i \in 1..batch.len : mem[batch.arr][i] = Base + i

HeldCount == IF reader = "add" THEN 1 ELSE 0
EventCount(k) == IF k \in Malformed THEN k - 1 ELSE k

CountInv ==
  /\ batch.len + HeldCount <= received
  /\ handler # "returned" => Base + batch.len + HeldCount = EventCount(received)

EndsInv ==
  /\ handler \in {"first", "connect"} => reader = "off"
  /\ reader = "off" => handler \in {"first", "connect", "returned"}
  /\ handler = "first" => received = 0
  /\ handler = "connect" \/ reader \in {"recv", "add", "signal"} => received \notin Malformed
  /\ errChan # "empty" => reader = "done"
  /\ errChan = "closed" => received = sent /\ wire # "open" /\ received \notin Malformed
  /\ last => /\ errChan = "closed" /\ handler \in {"swap", "save", "send", "returned"}
             /\ Working => batch.len = 0
  /\ handler = "send" => acked < nextBatch.len
  /\ handler \notin {"send", "returned"} => acked = 0
  /\ handler = "returned" <=> result # "none"
  /\ result = "ok" => wire # "open" /\ Len(acks) = sent

IInv == TypeOK /\ MemInv /\ RunsInv /\ CountInv /\ EndsInv

-----------------------------------------------------------------------------
(* The initial state, and steps that leave the slices alone.               *)

LEMMA BaseIsInt ==
  ASSUME TypeOK
  PROVE  Base \in Int /\ Len(acks) \in Nat
<1>1. Len(acks) \in Nat /\ nextBatch.len \in Nat /\ acked \in Nat
  BY StreamAssumption DEF TypeOK, Slices
<1> QED
  BY <1>1 DEF Base

LEMMA InitIInv == Init => IInv
<1> SUFFICES ASSUME Init
             PROVE  IInv
  OBVIOUS
<1>1. N \in Nat /\ Malformed \subseteq 1..N /\ NoArray \notin Arrays
  BY StreamAssumption
<1>2. Nil \in Slices /\ Nil.len = 0 /\ Nil.arr = NoArray /\ Capacity(Nil) = 0
  BY <1>1 DEF Nil, Slices, Capacity
<1>3. <<>> \in Seq(0..N) /\ <<>> \in Seq(1..N) /\ Len(<<>>) = 0
  OBVIOUS
<1>4. TypeOK
  <2>1. mem \in [Arrays -> Seq(0..N)] /\ {batch, prevBatch, nextBatch} \subseteq Slices
    BY <1>2, <1>3 DEF Init
  <2>2. sent \in 0..N /\ received \in 0..sent /\ acked \in 0..N /\ acks \in Seq(1..N)
    BY <1>1, <1>3 DEF Init
  <2>3. /\ wire = "open" /\ reader = "off" /\ errChan = "empty" /\ signal \in 0..1
        /\ handler = "first" /\ result = "none" /\ logger = "off"
    BY DEF Init
  <2>4. last \in BOOLEAN
    BY DEF Init
  <2> QED
    BY <2>1, <2>2, <2>3, <2>4 DEF TypeOK
<1>5. MemInv
  BY <1>2 DEF Init, MemInv, HandlersSlice, Working
<1>6. RunsInv /\ CountInv
  BY <1>1, <1>2, <1>3 DEF Init, RunsInv, CountInv, Base, Working, HeldCount, EventCount
<1>7. EndsInv
  BY DEF Init, EndsInv, Working
<1> QED
  BY <1>4, <1>5, <1>6, <1>7 DEF IInv

LEMMA ClientStep ==
  ASSUME IInv, Client
  PROVE  IInv'
<1>1. /\ UNCHANGED <<readerVars, batcherVars, handlerVars, logger>>
      /\ wire = "open" \/ sent' = sent
      /\ wire' \in {"open", "eof", "broken"} /\ (wire # "open" => wire' # "open")
      /\ sent' \in {sent, sent + 1} /\ sent' \in 0..N
  BY StreamAssumption DEF Client, Send, CloseSend, Break, clientVars, IInv, TypeOK
<1>2. TypeOK'
  BY <1>1, StreamAssumption DEF IInv, TypeOK, readerVars, batcherVars, handlerVars
<1>3. MemInv'
  BY <1>1 DEF IInv, MemInv, HandlersSlice, Working, Capacity, readerVars, batcherVars, handlerVars
<1>4. RunsInv' /\ CountInv'
  BY <1>1 DEF IInv, RunsInv, CountInv, Base, Working, HeldCount, readerVars, batcherVars,
     handlerVars
<1>5. EndsInv'
  BY <1>1 DEF IInv, EndsInv, Working, readerVars, batcherVars, handlerVars
<1> QED
  BY <1>2, <1>3, <1>4, <1>5 DEF IInv

\* Steps that leave alone all but the logger and the signal.
LEMMA LoggerStep ==
  ASSUME IInv, UNCHANGED <<clientVars, readerVars, mem, batch, handlerVars>>,
         signal' \in 0..1, logger' \in {"off", "run", "sleep", "done"}
  PROVE  IInv'
<1>1. TypeOK'
  BY DEF IInv, TypeOK, clientVars, readerVars, handlerVars
<1>2. MemInv'
  BY DEF IInv, MemInv, HandlersSlice, Working, Capacity, handlerVars
<1>3. RunsInv' /\ CountInv'
  BY DEF IInv, RunsInv, CountInv, Base, Working, HeldCount, readerVars, handlerVars
<1>4. EndsInv'
  BY DEF IInv, EndsInv, Working, clientVars, readerVars, handlerVars
<1> QED
  BY <1>1, <1>2, <1>3, <1>4 DEF IInv

\* Steps of the reader between its calls of Add.
LEMMA ReaderStep ==
  ASSUME IInv, UNCHANGED <<clientVars, mem, batch, handlerVars, logger>>, signal' \in 0..1,
         \/ ReadMessage \/ ReadEnd \/ Signal
  PROVE  IInv'
<1> USE StreamAssumption
<1>1. /\ received' \in 0..sent
      /\ reader' \in {"recv", "add", "done"}
      /\ errChan' \in {"empty", "err", "closed"}
      /\ reader # "off" /\ reader # "add" /\ handler \notin {"first", "connect"}
  BY DEF ReadMessage, ReadEnd, Signal, RecvMessage, RecvEOF, RecvError, IInv, TypeOK, EndsInv
<1>2. TypeOK'
  BY <1>1 DEF IInv, TypeOK, clientVars, handlerVars
<1>3. MemInv' /\ RunsInv'
  BY DEF IInv, MemInv, HandlersSlice, Working, Capacity, RunsInv, Base, handlerVars
<1>4. CountInv'
  <2>1. /\ batch' = batch /\ Base' = Base /\ handler' = handler
        /\ batch.len \in Nat /\ received \in Nat /\ Base \in Int
    BY BaseIsInt DEF handlerVars, Base, Working, IInv, TypeOK, Slices
  <2>2. CASE ReadMessage
    <3>1. received' = received + 1 /\ received \notin Malformed
          /\ reader' = IF received' \in Malformed THEN "done" ELSE "add"
      BY <2>2 DEF ReadMessage, RecvMessage, IInv, EndsInv
    <3> QED
      BY <1>1, <2>1, <3>1 DEF IInv, CountInv, HeldCount, EventCount
  <2>3. CASE ReadEnd \/ Signal
    <3>1. received' = received /\ reader' # "add"
      BY <2>3 DEF ReadEnd, Signal, RecvEOF, RecvError
    <3> QED
      BY <1>1, <2>1, <3>1 DEF IInv, CountInv, HeldCount, EventCount
  <2> QED
    BY <2>2, <2>3
<1>5. EndsInv'
  BY <1>1 DEF IInv, EndsInv, Working, clientVars, handlerVars, ReadMessage, ReadEnd, Signal,
     RecvMessage, RecvEOF, RecvError
<1> QED
  BY <1>2, <1>3, <1>4, <1>5 DEF IInv

-----------------------------------------------------------------------------
(* Append.                                                                 *)

LEMMA SlicesAre ==
  ASSUME TypeOK, NEW s \in {batch, prevBatch, nextBatch}
  PROVE  /\ s.len \in 0..N /\ s.arr \in Arrays \cup {NoArray}
         /\ s.arr \in Arrays => /\ mem[s.arr] \in Seq(0..N) /\ Capacity(s) = Len(mem[s.arr])
                                /\ Len(mem[s.arr]) \in Nat
         /\ s.arr = NoArray => Capacity(s) = 0
<1>1. s \in Slices
  BY DEF TypeOK
<1>2. s.len \in 0..N /\ s.arr \in Arrays \cup {NoArray}
  BY <1>1 DEF Slices
<1> QED
  BY <1>2, StreamAssumption DEF TypeOK, Capacity

LEMMA ContentIs ==
  ASSUME TypeOK, NEW s \in {batch, prevBatch, nextBatch}, s.len <= Capacity(s)
  PROVE  /\ Content(s) \in Seq(0..N) /\ Len(Content(s)) = s.len
         /\ \A i \in 1..s.len : Content(s)[i] = mem[s.arr][i]
         /\ s.len # 0 => s.arr \in Arrays
<1>1. CASE s.len = 0
  BY <1>1 DEF Content
<1>2. CASE s.len # 0
  <2>1. s.len \in 0..N /\ s.arr \in Arrays /\ mem[s.arr] \in Seq(0..N)
        /\ s.len <= Len(mem[s.arr]) /\ Len(mem[s.arr]) \in Nat
    BY <1>2, SlicesAre, StreamAssumption
  <2>2. s.len \in Nat /\ s.len >= 1
    BY <1>2, <2>1, StreamAssumption
  <2> DEFINE m == mem[s.arr]
             n == s.len
  <2>3. m \in Seq(0..N) /\ n \in 1..Len(m)
    BY <2>1, <2>2
  <2> HIDE DEF m, n
  <2>4. /\ SubSeq(m, 1, n) \in Seq(0..N) /\ Len(SubSeq(m, 1, n)) = n
        /\ \A i \in 1..n : SubSeq(m, 1, n)[i] = m[i]
    <3>1. 1 \in Int /\ n \in Int /\ n - 1 + 1 = n /\ 1 <= n /\ \A i \in 1..n : m[i] \in 0..N
      <4>1. Len(m) \in Nat /\ n \in Nat /\ 1 <= n /\ n <= Len(m)
        BY <2>3
      <4>2. ASSUME NEW i \in 1..n
            PROVE  m[i] \in 0..N
        <5>1. i \in 1..Len(m)
          BY <4>1
        <5> QED
          BY <2>3, <5>1, ElementOfSeq
      <4> QED
        BY <4>1, <4>2
    <3>2. /\ SubSeq(m, 1, n) \in Seq(0..N) /\ Len(SubSeq(m, 1, n)) = n
          /\ \A i \in 1..n : SubSeq(m, 1, n)[i] = m[1 + i - 1]
      BY <3>1, SubSeqProperties
    <3>3. \A i \in 1..n : 1 + i - 1 = i
      BY <2>3
    <3> QED
      BY <3>2, <3>3
  <2> QED
    BY <1>2, <2>1, <2>4 DEF Content, m, n
<1> QED
  BY <1>1, <1>2

\* In place, or in an array that nobody uses: the elements stay, and so do the arrays
\* of other slices.
LEMMA AppendIs ==
  ASSUME TypeOK, batch.len <= Capacity(batch), batch.len < N,
         NEW event \in 0..N, AppendToBatch(event)
  PROVE  /\ mem' \in [Arrays -> Seq(0..N)]
         /\ batch' \in Slices /\ batch'.len = batch.len + 1 /\ batch'.arr \in Arrays
         /\ batch'.len <= Len(mem'[batch'.arr])
         /\ \A i \in 1..batch.len : mem'[batch'.arr][i] = mem[batch.arr][i]
         /\ mem'[batch'.arr][batch'.len] = event
         /\ \A a \in InUse \cap Arrays : a # batch.arr => mem'[a] = mem[a]
         /\ batch'.arr = batch.arr \/ batch'.arr \notin InUse
<1> DEFINE n == batch.len
<1>1. n \in Nat /\ n + 1 \in 0..N /\ N \in Nat /\ NoArray \notin Arrays /\ batch \in Slices
  BY SlicesAre, StreamAssumption DEF TypeOK
<1>2. CASE n < Capacity(batch)
  <2>1. batch.arr \in Arrays /\ mem[batch.arr] \in Seq(0..N) /\ n + 1 \in 1..Len(mem[batch.arr])
    BY <1>1, <1>2, SlicesAre
  <2>2. /\ mem' = [mem EXCEPT ![batch.arr][n + 1] = event]
        /\ batch' = [batch EXCEPT !.len = n + 1]
    BY <1>2 DEF AppendToBatch
  <2>3. batch' \in Slices /\ batch'.len = n + 1 /\ batch'.arr = batch.arr
    BY <1>1, <2>2 DEF Slices
  <2>4. /\ mem'[batch.arr] = [mem[batch.arr] EXCEPT ![n + 1] = event]
        /\ \A a \in Arrays : a # batch.arr => mem'[a] = mem[a]
        /\ DOMAIN mem' = Arrays /\ mem' = [a \in Arrays |-> mem'[a]]
    BY <2>1, <2>2 DEF TypeOK
  <2>5. /\ mem'[batch.arr] \in Seq(0..N) /\ Len(mem'[batch.arr]) = Len(mem[batch.arr])
        /\ mem'[batch.arr][n + 1] = event
        /\ \A i \in 1..n : mem'[batch.arr][i] = mem[batch.arr][i]
    BY <1>1, <2>1, <2>4, ExceptSeq
  <2>6. mem' \in [Arrays -> Seq(0..N)]
    BY <2>4, <2>5 DEF TypeOK
  <2> QED
    BY <1>1, <2>1, <2>3, <2>4, <2>5, <2>6
<1>3. CASE n = Capacity(batch)
  <2> DEFINE free == [i \in 1..(IF n = 0 THEN 0 ELSE n - 1) |-> 0]
             grown == Append(Content(batch), event)
  <2>1. PICK a \in Arrays \ InUse :
          /\ mem' = [mem EXCEPT ![a] = grown \o free]
          /\ batch' = [arr |-> a, len |-> n + 1]
    BY <1>3 DEF AppendToBatch
  <2>2. batch' \in Slices /\ batch'.len = n + 1 /\ batch'.arr = a
    BY <1>1, <2>1 DEF Slices
  <2>3. Content(batch) \in Seq(0..N) /\ Len(Content(batch)) = n
        /\ \A i \in 1..n : Content(batch)[i] = mem[batch.arr][i]
    BY <1>3, ContentIs
  <2>4. grown \in Seq(0..N) /\ Len(grown) = n + 1 /\ grown[n + 1] = event
        /\ \A i \in 1..n : grown[i] = mem[batch.arr][i]
    BY <1>1, <2>3
  <2>5. free \in Seq(0..N) /\ Len(free) \in Nat
    <3> DEFINE k == IF n = 0 THEN 0 ELSE n - 1
    <3>1. k \in Nat /\ 0 \in 0..N
      BY <1>1
    <3>2. free \in [1..k -> 0..N]
      BY <3>1
    <3> HIDE DEF k, free
    <3>3. free \in Seq(0..N)
      BY <3>1, <3>2, SeqDef
    <3> QED
      BY <3>3
  <2> HIDE DEF grown, free
  <2>6. /\ grown \o free \in Seq(0..N) /\ n + 1 <= Len(grown \o free)
        /\ \A i \in 1..(n + 1) : (grown \o free)[i] = grown[i]
    BY <1>1, <2>4, <2>5
  <2>7. /\ mem'[a] = grown \o free
        /\ \A b \in Arrays : b # a => mem'[b] = mem[b]
        /\ mem' \in [Arrays -> Seq(0..N)]
    BY <2>1, <2>6 DEF TypeOK
  <2>8. \A i \in 1..n : mem'[a][i] = mem[batch.arr][i]
    BY <1>1, <2>4, <2>6, <2>7
  <2>9. mem'[a][n + 1] = event
    BY <1>1, <2>4, <2>6, <2>7
  <2> QED
    BY <1>1, <2>1, <2>2, <2>6, <2>7, <2>8, <2>9
<1>4. n < Capacity(batch) \/ n = Capacity(batch)
  <2>1. Capacity(batch) \in Nat
    BY <1>1, SlicesAre
  <2> QED
    BY <1>1, <2>1
<1> QED
  BY <1>2, <1>3, <1>4

\* What AppendToBatch does to the invariant, in the handler and in the reader.
LEMMA AppendStep ==
  ASSUME IInv, NEW event \in 1..N, batch.len < N, AppendToBatch(event),
         handler # "returned" => event = Base + batch.len + 1,
         UNCHANGED <<prevBatch, nextBatch, acked, acks>>,
         handler' = handler \/ (handler = "first" /\ handler' = "connect")
  PROVE  /\ mem' \in [Arrays -> Seq(0..N)] /\ batch' \in Slices
         /\ batch'.len = batch.len + 1
         /\ MemInv' /\ RunsInv' /\ Base' = Base
<1> DEFINE h == HandlersSlice
<1>1. TypeOK /\ batch.len <= Capacity(batch) /\ event \in 0..N
  BY DEF IInv, MemInv
<1>2. /\ mem' \in [Arrays -> Seq(0..N)]
      /\ batch' \in Slices /\ batch'.len = batch.len + 1 /\ batch'.arr \in Arrays
      /\ batch'.len <= Len(mem'[batch'.arr])
      /\ \A i \in 1..batch.len : mem'[batch'.arr][i] = mem[batch.arr][i]
      /\ mem'[batch'.arr][batch'.len] = event
      /\ \A a \in InUse \cap Arrays : a # batch.arr => mem'[a] = mem[a]
      /\ batch'.arr = batch.arr \/ batch'.arr \notin InUse
  BY <1>1, AppendIs
<1>3. Working' = Working /\ Base' = Base /\ HandlersSlice' = HandlersSlice
      /\ (handler' = "returned" <=> handler = "returned")
  BY DEF Working, Base, HandlersSlice
<1>4. h \in {prevBatch, nextBatch} /\ h.arr \in InUse
  BY DEF HandlersSlice, InUse
<1>5. batch.len \in Nat /\ Base \in Int
  BY <1>1, SlicesAre, BaseIsInt
<1>6. Working => nextBatch.len <= Capacity(nextBatch)' /\ (nextBatch.len # 0 => mem'[nextBatch.arr] = mem[nextBatch.arr])
  <2> SUFFICES ASSUME Working
               PROVE  /\ nextBatch.len <= Capacity(nextBatch)'
                      /\ nextBatch.len # 0 => mem'[nextBatch.arr] = mem[nextBatch.arr]
    OBVIOUS
  <2>1. /\ nextBatch.len <= Capacity(nextBatch)
        /\ batch.arr = nextBatch.arr => batch.arr = NoArray
    BY DEF IInv, MemInv, HandlersSlice, Working
  <2>2. CASE nextBatch.arr = NoArray
    BY <1>1, <2>1, <2>2, SlicesAre, StreamAssumption DEF Capacity
  <2>3. CASE nextBatch.arr # NoArray
    <3>1. nextBatch.arr \in InUse \cap Arrays /\ nextBatch.arr # batch.arr
      BY <1>1, <2>1, <2>3, SlicesAre DEF InUse
    <3>2. mem'[nextBatch.arr] = mem[nextBatch.arr]
      BY <1>2, <3>1
    <3> QED
      BY <2>1, <2>3, <3>2 DEF Capacity
  <2> QED
    BY <2>2, <2>3
<1>7. MemInv'
  <2>1. batch'.len <= Capacity(batch)'
    BY <1>2, StreamAssumption DEF Capacity
  <2>2. handler' # "returned" => (batch'.arr = h.arr => batch'.arr = NoArray)
    BY <1>2, <1>3, <1>4, StreamAssumption DEF IInv, MemInv
  <2> QED
    BY <1>3, <1>6, <2>1, <2>2 DEF IInv, MemInv
<1>8. RunsInv'
  <2>1. \A i \in 1..Len(acks') : acks'[i] = i
    BY DEF IInv, RunsInv
  <2>2. Working' => \A i \in 1..nextBatch'.len : mem'[nextBatch'.arr][i] + acked' = Len(acks') + i
    <3> SUFFICES ASSUME Working, NEW i \in 1..nextBatch.len
                 PROVE  mem'[nextBatch.arr][i] + acked = Len(acks) + i
      BY <1>3
    <3>1. nextBatch.len \in Nat
      BY <1>1, SlicesAre, StreamAssumption
    <3>2. mem'[nextBatch.arr] = mem[nextBatch.arr]
      BY <1>6, <3>1
    <3> QED
      BY <3>2 DEF IInv, RunsInv
  <2>3. handler' # "returned" => \A i \in 1..batch'.len : mem'[batch'.arr][i] = Base' + i
    <3> SUFFICES ASSUME handler # "returned", NEW i \in 1..batch'.len
                 PROVE  mem'[batch'.arr][i] = Base + i
      BY <1>3
    <3>1. CASE i \in 1..batch.len
      BY <1>2, <3>1 DEF IInv, RunsInv
    <3>2. CASE i = batch'.len
      BY <1>2, <1>5, <3>2
    <3> QED
      BY <1>2, <1>5, <3>1, <3>2
  <2> QED
    BY <2>1, <2>2, <2>3 DEF RunsInv
<1> QED
  BY <1>2, <1>3, <1>7, <1>8

LEMMA AddStep ==
  ASSUME IInv, Add
  PROVE  IInv'
<1> USE StreamAssumption
<1>1. /\ reader = "add" /\ AppendToBatch(received) /\ reader' = "signal"
      /\ UNCHANGED <<clientVars, received, errChan, signal, handlerVars, logger>>
  BY DEF Add
<1>2. batch.len + 1 <= received /\ received \in 0..N /\ batch.len \in Nat /\ Base \in Int
      /\ received \notin Malformed
  BY <1>1, SlicesAre, BaseIsInt DEF IInv, TypeOK, CountInv, EndsInv, HeldCount
<1>3. received \in 1..N /\ batch.len < N
  BY <1>2
<1>4. handler # "returned" => received = Base + batch.len + 1
  BY <1>1, <1>2 DEF IInv, CountInv, HeldCount, EventCount
<1>5. /\ mem' \in [Arrays -> Seq(0..N)] /\ batch' \in Slices
      /\ batch'.len = batch.len + 1
      /\ MemInv' /\ RunsInv' /\ Base' = Base
  BY <1>1, <1>3, <1>4, AppendStep DEF handlerVars
<1>6. TypeOK'
  BY <1>1, <1>5 DEF IInv, TypeOK, clientVars, handlerVars
<1>7. CountInv'
  BY <1>1, <1>2, <1>4, <1>5 DEF IInv, CountInv, HeldCount, EventCount, handlerVars
<1>8. EndsInv'
  <2>1. errChan = "empty" /\ ~last
    BY <1>1 DEF IInv, EndsInv, TypeOK
  <2> QED
    BY <1>1, <2>1 DEF IInv, EndsInv, Working, clientVars, handlerVars
<1> QED
  BY <1>5, <1>6, <1>7, <1>8 DEF IInv

-----------------------------------------------------------------------------
(* The handler.                                                            *)

LEMMA ReturnStep ==
  ASSUME IInv, handler # "returned", NEW r \in {"ok", "error"}, Return(r),
         UNCHANGED <<clientVars, reader, errChan, mem, batch, nextBatch, last, logger>>,
         signal' \in 0..1, acked' \in 0..N, prevBatch' = prevBatch,
         received' = received \/ (handler = "first" /\ RecvMessage),
         acks' \in Seq(1..N), \A i \in 1..Len(acks') : acks'[i] = i,
         r = "ok" => wire # "open" /\ Len(acks') = sent
  PROVE  IInv'
<1> USE StreamAssumption
<1>1. handler' = "returned" /\ result' = r /\ ~Working'
  BY DEF Return, Working
<1>2. received' \in 0..sent /\ received <= received'
  BY DEF IInv, TypeOK, RecvMessage
<1>3. TypeOK'
  BY <1>1, <1>2 DEF IInv, TypeOK, clientVars
<1>4. MemInv' /\ RunsInv'
  BY <1>1 DEF IInv, MemInv, Capacity, RunsInv
<1>5. CountInv'
  <2>1. batch.len + HeldCount \in Nat /\ received \in Nat /\ received' \in Nat
    BY <1>2, SlicesAre DEF IInv, TypeOK, HeldCount
  <2> QED
    BY <1>1, <1>2, <2>1 DEF IInv, CountInv, HeldCount
<1>6. EndsInv'
  BY <1>1 DEF IInv, EndsInv, clientVars, TypeOK
<1> QED
  BY <1>3, <1>4, <1>5, <1>6 DEF IInv

LEMMA RecvFirstStep ==
  ASSUME IInv, RecvFirst
  PROVE  IInv'
<1> USE StreamAssumption
<1>1. /\ handler = "first" /\ received = 0 /\ received' = 1 /\ RecvMessage
      /\ reader = "off" /\ errChan = "empty" /\ ~last /\ result = "none"
      /\ UNCHANGED <<clientVars, reader, errChan, prevBatch, nextBatch, last, acked, acks, logger>>
      /\ sent \in 1..N
  BY DEF RecvFirst, RecvMessage, IInv, EndsInv, TypeOK
<1>2. CASE received' \in Malformed
  <2>1. Return("error") /\ UNCHANGED batcherVars
    BY <1>2 DEF RecvFirst
  <2> QED
    BY <1>1, <2>1, ReturnStep DEF batcherVars, IInv, TypeOK, RunsInv
<1>3. CASE received' \notin Malformed
  <2>1. AppendToBatch(1) /\ signal' = 1 /\ handler' = "connect" /\ UNCHANGED result
    BY <1>1, <1>3 DEF RecvFirst
  <2>2. batch.len = 0 /\ Base = 0
    <3>1. batch.len \in Nat /\ Base \in Int /\ batch.len + HeldCount <= 0
          /\ Base + batch.len + HeldCount = 0 /\ HeldCount = 0
      BY <1>1, SlicesAre, BaseIsInt DEF IInv, CountInv, HeldCount, EventCount
    <3> QED
      BY <3>1
  <2>3. 1 \in 1..N /\ batch.len < N /\ 1 = Base + batch.len + 1
    BY <1>1, <2>2
  <2>4. /\ mem' \in [Arrays -> Seq(0..N)] /\ batch' \in Slices
        /\ batch'.len = batch.len + 1
        /\ MemInv' /\ RunsInv' /\ Base' = Base
    BY <1>1, <2>1, <2>3, AppendStep
  <2>5. TypeOK'
    BY <1>1, <2>1, <2>4 DEF IInv, TypeOK, clientVars
  <2>6. CountInv'
    BY <1>1, <1>3, <2>2, <2>4 DEF CountInv, HeldCount, EventCount
  <2>7. EndsInv'
    BY <1>1, <1>3, <2>1 DEF IInv, EndsInv, Working, clientVars
  <2> QED
    BY <2>4, <2>5, <2>6, <2>7 DEF IInv
<1> QED
  BY <1>2, <1>3

LEMMA RecvNothingStep ==
  ASSUME IInv, RecvNothing
  PROVE  IInv'
<1> USE StreamAssumption
<1>1. /\ handler = "first" /\ received' = received
      /\ UNCHANGED <<clientVars, reader, errChan, mem, batch, signal, prevBatch, nextBatch, last,
                     acked, acks, logger>>
  BY DEF RecvNothing, RecvEOF, RecvError, batcherVars
<1>2. Len(acks) = 0
  <2>1. received = 0 /\ acked = 0 /\ batch.len \in Nat /\ Len(acks) \in Nat /\ reader = "off"
    BY <1>1, SlicesAre, BaseIsInt DEF IInv, EndsInv
  <2> QED
    BY <1>1, <2>1 DEF IInv, CountInv, Base, Working, HeldCount, EventCount
<1>3. PICK r \in {"ok", "error"} : Return(r) /\ (r = "ok" => RecvEOF)
  BY DEF RecvNothing
<1>4. r = "ok" => wire # "open" /\ Len(acks) = sent
  BY <1>1, <1>2, <1>3 DEF RecvEOF, IInv, EndsInv
<1> QED
  BY <1>1, <1>3, <1>4, ReturnStep DEF IInv, TypeOK, RunsInv

\* Steps of the handler that take no slice.
LEMMA GoOnStep ==
  ASSUME IInv, UNCHANGED <<clientVars, received, errChan, mem, batch, prevBatch, nextBatch,
                           acked, acks, result>>,
         signal' \in 0..1, logger' \in {"off", "run", "sleep", "done"},
         \/ handler = "connect" /\ handler' = "select" /\ reader' = "recv" /\ last' = last
         \/ handler = "select" /\ handler' = "swap" /\ reader' = reader /\ last' = last
         \/ handler = "select" /\ handler' = "swap" /\ reader' = reader
            /\ last' = TRUE /\ errChan = "closed"
         \/ handler = "save" /\ handler' = "send" /\ reader' = reader /\ last' = last
            /\ nextBatch.len # 0
  PROVE  IInv'
<1> USE StreamAssumption
<1>1. Working' = Working /\ Base' = Base /\ HandlersSlice' = HandlersSlice
      /\ handler # "returned" /\ handler' # "returned"
  BY DEF Working, Base, HandlersSlice
<1>2. reader' \in {"off", "recv", "add", "signal", "done"} /\ (reader' = "add" <=> reader = "add")
  BY DEF IInv, TypeOK, EndsInv
<1>3. TypeOK'
  <2>1. last' \in BOOLEAN
    BY DEF IInv, TypeOK
  <2> QED
    BY <1>2, <2>1 DEF IInv, TypeOK, clientVars
<1>4. MemInv'
  BY <1>1 DEF IInv, MemInv, Capacity
<1>5. RunsInv' /\ CountInv'
  BY <1>1, <1>2 DEF IInv, RunsInv, CountInv, HeldCount
<1>6. EndsInv'
  <2>1. nextBatch.len \in Nat
    BY SlicesAre DEF IInv
  <2> QED
    BY <2>1 DEF IInv, EndsInv, TypeOK, Working, clientVars
<1> QED
  BY <1>3, <1>4, <1>5, <1>6 DEF IInv

LEMMA ConnectStep ==
  ASSUME IInv, Connect
  PROVE  IInv'
<1>1. CASE Return("error") /\ UNCHANGED <<reader, logger>>
  BY <1>1, ReturnStep DEF Connect, batcherVars, IInv, TypeOK, RunsInv
<1>2. CASE handler' = "select" /\ reader' = "recv" /\ logger' = "run" /\ UNCHANGED result
  BY <1>2, GoOnStep DEF Connect, batcherVars, IInv, TypeOK
<1> QED
  BY <1>1, <1>2 DEF Connect

LEMMA SelectStep ==
  ASSUME IInv, SelectEnd \/ SelectReady
  PROVE  IInv'
<1>1. CASE SelectReady
  BY <1>1, GoOnStep DEF SelectReady, readerVars, IInv, TypeOK
<1>2. CASE SelectEnd /\ errChan = "err" /\ Return("error") /\ UNCHANGED last
  BY <1>2, ReturnStep DEF SelectEnd, readerVars, batcherVars, IInv, TypeOK, RunsInv
<1>3. CASE SelectEnd /\ errChan = "closed" /\ handler' = "swap" /\ last' = TRUE /\ UNCHANGED result
  BY <1>3, GoOnStep DEF SelectEnd, readerVars, batcherVars, IInv, TypeOK
<1> QED
  BY <1>1, <1>2, <1>3 DEF SelectEnd

LEMMA SwapBatchStep ==
  ASSUME IInv, SwapBatch
  PROVE  IInv'
<1> USE StreamAssumption
<1>1. /\ handler = "swap" /\ handler' = "save" /\ nextBatch' = batch /\ batch' = prevBatch
      /\ UNCHANGED <<clientVars, readerVars, mem, signal, prevBatch, last, acked, acks, result, logger>>
      /\ ~Working /\ Working' /\ acked = 0
  BY DEF SwapBatch, Swap, Working, IInv, EndsInv
<1>2. prevBatch.len = 0 /\ batch.len \in 0..N /\ Capacity(prevBatch) \in Nat /\ Len(acks) \in Nat
  BY SlicesAre, BaseIsInt DEF IInv, MemInv
<1>3. TypeOK'
  BY <1>1 DEF IInv, TypeOK, clientVars, readerVars
<1>4. MemInv'
  <2>1. Capacity(prevBatch)' = Capacity(prevBatch) /\ Capacity(nextBatch)' = Capacity(batch)
        /\ Capacity(batch)' = Capacity(prevBatch)
    BY <1>1 DEF Capacity
  <2>2. batch.arr = prevBatch.arr => batch.arr = NoArray
    BY <1>1 DEF IInv, MemInv, HandlersSlice
  <2> QED
    BY <1>1, <1>2, <2>1, <2>2 DEF IInv, MemInv, HandlersSlice
<1>5. Base = Len(acks) /\ Base' = Len(acks) + batch.len
  BY <1>1, <1>2 DEF Base
<1>6. RunsInv'
  BY <1>1, <1>2, <1>5 DEF IInv, RunsInv
<1>7. CountInv'
  <2>1. HeldCount' = HeldCount /\ received' = received /\ received \in Nat /\ HeldCount \in Nat
    BY <1>1 DEF HeldCount, readerVars, IInv, TypeOK
  <2> QED
    BY <1>1, <1>2, <1>5, <2>1 DEF IInv, CountInv, EventCount
<1>8. EndsInv'
  BY <1>1, <1>2 DEF IInv, EndsInv, Working, clientVars, readerVars
<1> QED
  BY <1>3, <1>4, <1>6, <1>7, <1>8 DEF IInv

\* After the last event of a batch, or an empty one.
LEMMA NextBatchStep ==
  ASSUME IInv, Working, NextBatch,
         UNCHANGED <<clientVars, readerVars, batcherVars, nextBatch, last, logger>>,
         acks' \in Seq(1..N), \A i \in 1..Len(acks') : acks'[i] = i, Len(acks') = Base
  PROVE  IInv'
<1> USE StreamAssumption
<1>1. /\ handler # "returned" /\ acked' = 0 /\ 0 \in 0..N
      /\ signal' \in 0..1
      /\ batch.len \in Nat /\ Base \in Int
  BY SlicesAre, BaseIsInt DEF Working, NextBatch, batcherVars, IInv, TypeOK
<1>2. CASE last
  <2>1. Return("ok") /\ prevBatch' = prevBatch
    BY <1>2 DEF NextBatch
  <2>2. /\ errChan = "closed" /\ batch.len = 0 /\ reader = "done"
        /\ wire # "open" /\ received = sent /\ received \notin Malformed
    BY <1>2 DEF IInv, EndsInv
  <2>3. Len(acks') = sent
    BY <1>1, <2>2 DEF IInv, CountInv, HeldCount, EventCount
  <2> QED
    BY <1>1, <2>1, <2>2, <2>3, ReturnStep DEF readerVars, batcherVars
<1>3. CASE ~last
  <2>1. /\ handler' = "select" /\ prevBatch' = Emptied(nextBatch) /\ UNCHANGED result
        /\ ~Working' /\ handler # "first" /\ handler # "connect"
        /\ UNCHANGED <<clientVars, readerVars, mem, batch, signal, nextBatch, last, logger>>
    BY <1>3 DEF NextBatch, Working, batcherVars
  <2>2. prevBatch' \in Slices /\ prevBatch'.len = 0 /\ prevBatch'.arr = nextBatch.arr
    BY <1>1, <2>1 DEF IInv, TypeOK, Slices, Emptied
  <2>3. TypeOK'
    BY <1>1, <2>1, <2>2 DEF IInv, TypeOK, clientVars, readerVars
  <2>4. MemInv'
    BY <1>1, <2>1, <2>2 DEF IInv, MemInv, HandlersSlice, Capacity
  <2>5. Base' = Base
    BY <1>1, <2>1 DEF Base
  <2>6. RunsInv'
    BY <1>1, <2>1, <2>5 DEF IInv, RunsInv
  <2>7. CountInv'
    BY <1>1, <2>1, <2>5 DEF IInv, CountInv, HeldCount, EventCount, readerVars
  <2>8. EndsInv'
    BY <1>1, <1>3, <2>1 DEF IInv, EndsInv, clientVars, readerVars, Working
  <2> QED
    BY <2>3, <2>4, <2>6, <2>7, <2>8 DEF IInv
<1> QED
  BY <1>2, <1>3

LEMMA SaveBatchStep ==
  ASSUME IInv, SaveBatch
  PROVE  IInv'
<1> USE StreamAssumption
<1>1. /\ handler = "save" /\ acked = 0 /\ Working
      /\ UNCHANGED <<clientVars, readerVars, batcherVars, nextBatch, last, acks, logger>>
      /\ Len(acks) \in Nat
  BY BaseIsInt DEF SaveBatch, IInv, EndsInv, Working
<1>2. CASE nextBatch.len = 0
  <2>1. NextBatch
    BY <1>2 DEF SaveBatch
  <2>2. Len(acks') = Base
    BY <1>1, <1>2 DEF Base
  <2> QED
    BY <1>1, <2>1, <2>2, NextBatchStep DEF IInv, TypeOK, RunsInv
<1>3. CASE nextBatch.len # 0 /\ handler' = "send" /\ UNCHANGED <<result, prevBatch, acked>>
  BY <1>1, <1>3, GoOnStep DEF readerVars, batcherVars, IInv, TypeOK
<1>4. CASE nextBatch.len # 0 /\ Return("error") /\ UNCHANGED <<prevBatch, acked>>
  BY <1>1, <1>4, ReturnStep DEF readerVars, batcherVars, IInv, TypeOK, RunsInv
<1> QED
  BY <1>2, <1>3, <1>4 DEF SaveBatch

LEMMA SendAckStep ==
  ASSUME IInv, SendAck
  PROVE  IInv'
<1> USE StreamAssumption
<1>1. /\ handler = "send" /\ Working /\ handler # "returned"
      /\ UNCHANGED <<clientVars, readerVars, batcherVars, nextBatch, last, logger>>
      /\ acked \in Nat /\ acked < nextBatch.len /\ nextBatch.len \in 0..N
      /\ batch.len \in Nat /\ Len(acks) \in Nat /\ acks \in Seq(1..N)
  BY SlicesAre, BaseIsInt DEF SendAck, IInv, EndsInv, Working, TypeOK
<1>2. CASE wire = "broken" /\ Return("error") /\ UNCHANGED <<acked, acks, prevBatch>>
  BY <1>1, <1>2, ReturnStep DEF readerVars, batcherVars, IInv, TypeOK, RunsInv
<1>3. CASE /\ acks' = Append(acks, Content(nextBatch)[acked + 1])
           /\ IF acked + 1 = nextBatch.len
              THEN NextBatch
              ELSE acked' = acked + 1 /\ UNCHANGED <<handler, result, prevBatch>>
  <2>1. acked + 1 \in 1..nextBatch.len
    BY <1>1
  <2>2. Content(nextBatch)[acked + 1] = mem[nextBatch.arr][acked + 1]
    BY <1>1, <2>1, ContentIs DEF IInv, MemInv
  <2>3. mem[nextBatch.arr][acked + 1] = Len(acks) + 1
    <3>1. mem[nextBatch.arr][acked + 1] + acked = Len(acks) + (acked + 1)
      BY <1>1, <2>1 DEF IInv, RunsInv
    <3>2. mem[nextBatch.arr][acked + 1] \in 0..N
      BY <1>1, <2>1, ContentIs, <2>2, ElementOfSeq DEF IInv, MemInv
    <3> QED
      BY <1>1, <3>1, <3>2
  <2>4. Len(acks) + 1 \in 1..N
    <3>1. Base + batch.len + HeldCount <= received /\ received \in 0..N
      BY <1>1 DEF IInv, CountInv, EventCount, TypeOK
    <3>2. Base = Len(acks) + (nextBatch.len - acked) /\ HeldCount \in Nat
      BY <1>1 DEF Base, HeldCount
    <3>3. /\ Len(acks) \in Nat /\ acked \in Nat /\ nextBatch.len \in Nat /\ batch.len \in Nat
          /\ acked < nextBatch.len
      BY <1>1
    <3>4. Len(acks) + 1 <= Base /\ Base \in Int
      BY <3>2, <3>3
    <3>5. Len(acks) + 1 <= received /\ received <= N /\ received \in Nat
      BY <3>1, <3>2, <3>3, <3>4
    <3> QED
      BY <3>3, <3>5
  <2>5. /\ acks' \in Seq(1..N) /\ Len(acks') = Len(acks) + 1
        /\ \A i \in 1..Len(acks') : acks'[i] = i
    <3>1. acks' = Append(acks, Len(acks) + 1)
      BY <1>3, <2>2, <2>3
    <3>2. /\ acks' \in Seq(1..N) /\ Len(acks') = Len(acks) + 1
          /\ \A i \in 1..Len(acks) : acks'[i] = acks[i]
          /\ acks'[Len(acks) + 1] = Len(acks) + 1
      BY <1>1, <2>4, <3>1
    <3> QED
      BY <1>1, <3>2 DEF IInv, RunsInv
  <2>6. CASE acked + 1 = nextBatch.len
    <3>1. Len(acks') = Base
      BY <1>1, <2>5, <2>6 DEF Base
    <3> QED
      BY <1>1, <1>3, <2>5, <2>6, <3>1, NextBatchStep
  <2>7. CASE acked + 1 # nextBatch.len
    <3>1. /\ acked' = acked + 1 /\ UNCHANGED <<handler, result, prevBatch>>
          /\ acked' \in 0..N /\ acked' < nextBatch.len
          /\ Working' /\ HandlersSlice' = HandlersSlice
      BY <1>1, <1>3, <2>7 DEF Working, HandlersSlice
    <3>2. Base' = Base
      <4>1. Base = Len(acks) + (nextBatch.len - acked)
            /\ Base' = Len(acks') + (nextBatch.len - acked')
        BY <1>1, <3>1 DEF Base
      <4>2. Len(acks) \in Nat /\ acked \in Nat /\ nextBatch.len \in Nat
            /\ Len(acks') = Len(acks) + 1 /\ acked' = acked + 1
        BY <1>1, <2>5, <3>1
      <4> QED
        BY <4>1, <4>2
    <3>3. TypeOK'
      BY <1>1, <2>5, <3>1 DEF IInv, TypeOK, clientVars, readerVars, batcherVars
    <3>4. MemInv'
      BY <1>1, <3>1 DEF IInv, MemInv, Capacity, batcherVars
    <3>5. RunsInv'
      <4>1. \A i \in 1..nextBatch'.len : mem'[nextBatch'.arr][i] + acked' = Len(acks') + i
        <5> SUFFICES ASSUME NEW i \in 1..nextBatch.len
                     PROVE  mem[nextBatch.arr][i] + acked' = Len(acks') + i
          BY <1>1 DEF batcherVars
        <5>1. mem[nextBatch.arr][i] + acked = Len(acks) + i
          BY <1>1 DEF IInv, RunsInv
        <5>2. mem[nextBatch.arr][i] \in 0..N
          BY <1>1, ContentIs, ElementOfSeq DEF IInv, MemInv
        <5>3. Len(acks) \in Nat /\ acked \in Nat /\ i \in Nat
              /\ Len(acks') = Len(acks) + 1 /\ acked' = acked + 1
          BY <1>1, <2>5, <3>1
        <5> QED
          BY <5>1, <5>2, <5>3
      <4> QED
        BY <1>1, <2>5, <3>1, <3>2, <4>1 DEF IInv, RunsInv, batcherVars
    <3>6. CountInv'
      BY <1>1, <3>1, <3>2 DEF IInv, CountInv, HeldCount, readerVars, batcherVars
    <3>7. EndsInv'
      BY <1>1, <3>1 DEF IInv, EndsInv, clientVars, readerVars, batcherVars, Working
    <3> QED
      BY <3>3, <3>4, <3>5, <3>6, <3>7 DEF IInv
  <2> QED
    BY <2>6, <2>7
<1> QED
  BY <1>2, <1>3 DEF SendAck

-----------------------------------------------------------------------------
(* The theorems.                                                           *)

LEMMA NextIInv == IInv /\ [Next]_vars => IInv'
<1> SUFFICES ASSUME IInv, [Next]_vars
             PROVE  IInv'
  OBVIOUS
<1>1. CASE LogConnection
  <2>1. logger' \in {"off", "run", "sleep", "done"} /\ signal' \in 0..1
    BY <1>1 DEF LogConnection, Log, IInv, TypeOK, batcherVars
  <2> QED
    BY <1>1, <2>1, LoggerStep DEF LogConnection, batcherVars
<1>2. CASE UNCHANGED vars
  BY <1>2, LoggerStep DEF vars, batcherVars, IInv, TypeOK
<1>3. CASE Reader
  <2>1. CASE ReadMessage \/ ReadEnd \/ Signal
    <3>1. UNCHANGED <<clientVars, mem, batch, handlerVars, logger>> /\ signal' \in 0..1
      BY <2>1 DEF ReadMessage, ReadEnd, Signal, batcherVars, IInv, TypeOK
    <3> QED
      BY <2>1, <3>1, ReaderStep
  <2> QED
    BY <1>3, <2>1, AddStep DEF Reader
<1>4. CASE Handler
  BY <1>4, RecvFirstStep, RecvNothingStep, ConnectStep, SelectStep, SwapBatchStep,
     SaveBatchStep, SendAckStep DEF Handler
<1> QED
  BY <1>1, <1>2, <1>3, <1>4, ClientStep DEF Next

LEMMA IInvHolds == Spec => []IInv
  BY InitIInv, NextIInv, PTL DEF Spec

\* Every variable keeps its type, for streams of any length.
THEOREM StreamTypeOK == Spec => []TypeOK
<1>1. IInv => TypeOK
  BY DEF IInv
<1> QED
  BY <1>1, IInvHolds, PTL

\* A build tool whose stream ends without an error has the ACKs of all it sent
\* (processBuildToolEventStream).
THEOREM OkMeansAllAlways == Spec => []OkMeansAll
<1>1. ASSUME IInv, result = "ok"
      PROVE  acks = [i \in 1..sent |-> i]
  <2>1. Len(acks) = sent /\ acks \in Seq(1..N) /\ \A i \in 1..Len(acks) : acks[i] = i
    BY <1>1 DEF IInv, EndsInv, TypeOK, RunsInv
  <2> QED
    BY <2>1
<1>2. IInv => OkMeansAll
  BY <1>1 DEF OkMeansAll
<1> QED
  BY <1>2, IInvHolds, PTL

Run(s, first) == \A i \in 1..Len(s) : s[i] = first + i

LEMMA RunsJoin ==
  ASSUME NEW s \in Seq(Int), NEW t \in Seq(Int), NEW first \in Int,
         Run(s, first), Run(t, first + Len(s))
  PROVE  s \o t \in Seq(Int) /\ Len(s \o t) = Len(s) + Len(t) /\ Run(s \o t, first)
<1>1. s \o t \in Seq(Int) /\ Len(s \o t) = Len(s) + Len(t) /\ Len(s) \in Nat /\ Len(t) \in Nat
  OBVIOUS
<1>2. ASSUME NEW i \in 1..Len(s \o t)
      PROVE  (s \o t)[i] = first + i
  <2>1. CASE i <= Len(s)
    <3>1. (s \o t)[i] = s[i] /\ i \in 1..Len(s)
      BY <1>1, <2>1
    <3> QED
      BY <3>1 DEF Run
  <2>2. CASE i > Len(s)
    <3>1. (s \o t)[i] = t[i - Len(s)] /\ i - Len(s) \in 1..Len(t)
      BY <1>1, <2>2
    <3>2. t[i - Len(s)] = first + Len(s) + (i - Len(s))
      BY <3>1 DEF Run
    <3> QED
      BY <1>1, <3>1, <3>2
  <2> QED
    BY <1>1, <2>1, <2>2
<1> QED
  BY <1>1, <1>2 DEF Run

\* Each event that was received is acknowledged, saved, in the batcher or held by the
\* reader, once and in the order of the stream, although the Batcher and the handler
\* give each other their backing arrays again and again (Batcher.Add, Batcher.Swap).
THEOREM NothingIsLostEver == Spec => []NothingIsLost
<1>1. ASSUME IInv, handler # "returned"
      PROVE  acks \o ToAck \o Content(batch) \o Held = Events(received)
  <2> USE StreamAssumption
  <2>1. /\ acks \in Seq(Int) /\ Len(acks) \in Nat /\ Run(acks, 0)
        /\ Base \in Int /\ batch.len \in Nat /\ received \in Nat
    <3>1. acks \in Seq(1..N) /\ Len(acks) \in Nat
      BY <1>1, BaseIsInt DEF IInv, TypeOK
    <3>2. acks \in Seq(Int)
      BY <3>1, SeqMonotonic
    <3> QED
      BY <1>1, <3>1, <3>2, BaseIsInt, SlicesAre DEF IInv, TypeOK, RunsInv, Run
  <2>2. ToAck \in Seq(Int) /\ Run(ToAck, Len(acks)) /\ Len(acks) + Len(ToAck) = Base
    <3>1. CASE ~Working
      BY <2>1, <3>1 DEF ToAck, Working, Base, Run
    <3>2. CASE Working
      <4> DEFINE c == Content(nextBatch)
                 n == nextBatch.len
      <4>1. /\ c \in Seq(0..N) /\ Len(c) = n /\ n \in Nat /\ acked \in 0..n
            /\ \A i \in 1..n : c[i] = mem[nextBatch.arr][i]
        <5>1. n \in Nat /\ n <= Capacity(nextBatch) /\ acked \in Nat
          BY <1>1, <3>2, SlicesAre DEF IInv, MemInv, TypeOK
        <5>2. acked <= n
          BY <1>1, <3>2, <5>1 DEF IInv, EndsInv, Working
        <5> QED
          BY <1>1, <5>1, <5>2, ContentIs DEF IInv
      <4>2. \A i \in 1..n : c[i] \in Int /\ c[i] = Len(acks) - acked + i
        <5> TAKE i \in 1..n
        <5>1. c[i] \in 0..N
          BY <4>1, ElementOfSeq
        <5>2. c[i] + acked = Len(acks) + i
          BY <1>1, <3>2, <4>1 DEF IInv, RunsInv
        <5>3. acked \in Int /\ Len(acks) \in Int /\ i \in Int /\ c[i] \in Int
          BY <2>1, <4>1, <5>1
        <5> HIDE DEF c
        <5> QED
          BY <5>2, <5>3
      <4>3. ToAck = SubSeq(c, acked + 1, n)
        BY <3>2 DEF ToAck, Working
      <4> HIDE DEF c, n
      <4>4. acked + 1 \in Int /\ n \in Int /\ \A i \in (acked + 1)..n : c[i] \in Int
        BY <4>1, <4>2
      <4>5. /\ ToAck \in Seq(Int)
            /\ Len(ToAck) = IF acked + 1 <= n THEN n - (acked + 1) + 1 ELSE 0
            /\ \A i \in 1..(n - (acked + 1) + 1) : ToAck[i] = c[acked + 1 + i - 1]
        BY <4>3, <4>4, SubSeqProperties
      <4>6. Len(ToAck) = n - acked
        BY <4>1, <4>5
      <4>7. Run(ToAck, Len(acks))
        <5> SUFFICES ASSUME NEW i \in 1..Len(ToAck)
                     PROVE  ToAck[i] = Len(acks) + i
          BY DEF Run
        <5>1. i \in 1..(n - (acked + 1) + 1) /\ acked + 1 + i - 1 \in 1..n /\ i \in Int
          BY <4>1, <4>6
        <5>2. ToAck[i] = c[acked + 1 + i - 1]
          BY <4>5, <5>1
        <5>3. c[acked + 1 + i - 1] = Len(acks) - acked + (acked + 1 + i - 1)
          BY <4>2, <5>1
        <5> QED
          BY <2>1, <4>1, <5>1, <5>2, <5>3
      <4>8. Base = Len(acks) + (n - acked)
        BY <3>2 DEF Base, n
      <4> QED
        BY <2>1, <4>1, <4>5, <4>6, <4>7, <4>8
    <3> QED
      BY <3>1, <3>2
  <2>3. /\ Content(batch) \in Seq(Int) /\ Len(Content(batch)) = batch.len
        /\ Run(Content(batch), Base)
    <3>1. /\ Content(batch) \in Seq(0..N) /\ Len(Content(batch)) = batch.len
          /\ \A i \in 1..batch.len : Content(batch)[i] = mem[batch.arr][i]
      BY <1>1, ContentIs DEF IInv, MemInv
    <3>2. Content(batch) \in Seq(Int)
      BY <3>1, SeqMonotonic
    <3> QED
      BY <1>1, <3>1, <3>2 DEF IInv, RunsInv, Run
  <2>4. /\ Held \in Seq(Int) /\ Len(Held) = HeldCount /\ Run(Held, Base + batch.len)
    <3>1. CASE reader = "add"
      <4>1. received = Base + batch.len + 1
        BY <1>1, <2>1, <3>1 DEF IInv, CountInv, HeldCount, EventCount, EndsInv
      <4> QED
        BY <2>1, <3>1, <4>1 DEF Held, HeldCount, Run
    <3>2. CASE reader # "add"
      BY <3>2 DEF Held, HeldCount, Run
    <3> QED
      BY <3>1, <3>2
  <2> DEFINE all == acks \o ToAck \o Content(batch) \o Held
  <2>5. /\ acks \o ToAck \in Seq(Int) /\ Len(acks \o ToAck) = Base
        /\ Run(acks \o ToAck, 0)
    BY <2>1, <2>2, RunsJoin
  <2>6. /\ acks \o ToAck \o Content(batch) \in Seq(Int)
        /\ Len(acks \o ToAck \o Content(batch)) = Base + batch.len
        /\ Run(acks \o ToAck \o Content(batch), 0)
    <3> DEFINE s == acks \o ToAck
               t == Content(batch)
    <3>1. s \in Seq(Int) /\ t \in Seq(Int) /\ Run(s, 0) /\ Run(t, 0 + Len(s)) /\ 0 \in Int
      BY <2>1, <2>3, <2>5
    <3>2. Len(s) = Base /\ Len(t) = batch.len
      BY <2>3, <2>5
    <3> HIDE DEF s, t
    <3>3. s \o t \in Seq(Int) /\ Len(s \o t) = Len(s) + Len(t) /\ Run(s \o t, 0)
      BY <3>1, RunsJoin
    <3> QED
      BY <3>2, <3>3 DEF s, t
  <2>7. all \in Seq(Int) /\ Len(all) = Base + batch.len + HeldCount /\ Run(all, 0)
    <3> DEFINE s == acks \o ToAck \o Content(batch)
    <3>1. s \in Seq(Int) /\ Held \in Seq(Int) /\ Run(s, 0) /\ Run(Held, 0 + Len(s)) /\ 0 \in Int
      BY <2>1, <2>4, <2>6
    <3>2. Len(s) = Base + batch.len /\ Len(Held) = HeldCount
      BY <2>4, <2>6
    <3> HIDE DEF s
    <3>3. s \o Held \in Seq(Int) /\ Len(s \o Held) = Len(s) + Len(Held) /\ Run(s \o Held, 0)
      BY <3>1, RunsJoin
    <3> QED
      BY <3>2, <3>3 DEF s
  <2> HIDE DEF all
  <2>8. Len(all) = EventCount(received)
    BY <1>1, <2>7 DEF IInv, CountInv
  <2>9. all = [i \in 1..EventCount(received) |-> i]
    <3>1. all = [i \in 1..Len(all) |-> all[i]]
      BY <2>7
    <3>2. \A i \in 1..Len(all) : all[i] = i
      BY <2>7 DEF Run
    <3> QED
      BY <2>8, <3>1, <3>2
  <2> QED
    BY <2>9 DEF all, Events, EventCount
<1>2. IInv => NothingIsLost
  BY <1>1 DEF NothingIsLost
<1> QED
  BY <1>2, IInvHolds, PTL
=============================================================================
