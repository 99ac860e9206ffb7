------------------------------ MODULE LogLines ------------------------------
(***************************************************************************)
(* The text of a log: how it is normalized, cut into chunks with the       *)
(* indices of their lines, and how a range of lines is read, from chunks   *)
(* or from a buffer.                                                       *)
(*                                                                         *)
(* A log is a sequence of bytes of which only the newline matters, and the *)
(* escape sequence with which Bazel goes up one line and erases it.        *)
(***************************************************************************)
EXTENDS Naturals, Sequences, FiniteSets, SequencesExt, Selections

CONSTANTS MaxLen,      \* bound: length of the log
          ChunkSizes   \* sizes of a chunk that are tried, for the 8 MiB of the code

ASSUME LinesAssumption == MaxLen \in Nat /\ ChunkSizes \subseteq Nat \ {0}

VARIABLE log           \* the snippets of the log, concatenated

\* A byte, a newline, and the escape sequence, which counts as one.
Text == "x"
NL == "\n"
Up == "\\r\\x1b[1A\\x1b[K"

Positions(b, s) == {i \in DOMAIN s : s[i] = b}
Count(b, s) == Cardinality(Positions(b, s))
EndsWith(b, s) == s # <<>> /\ Last(s) = b

\* A text as a sequence of lines, each with its newline but perhaps the last.
Lines(s) ==
  LET ends == InOrder(s, Positions(NL, s) \cup ({Len(s)} \ {0}))
  IN [k \in DOMAIN ends |-> SubSeq(s, IF k = 1 THEN 1 ELSE ends[k-1] + 1, ends[k])]

-----------------------------------------------------------------------------
(* GetNormalizedIncompleteBuildLogs                                        *)

\* Mutant: a line removes at most one line before it.
KeepLineOnce(spans, line) ==
  LET ups == Positions(Up, line)
      kept == IF ups = {} \/ spans = <<>> THEN spans ELSE Front(spans)
      start == IF ups = {} THEN 1 ELSE Max(ups) + 1
  IN Append(kept, SubSeq(line, start, Len(line)))

\* Each escape sequence in a line removes one of the lines kept so far; what is
\* left of the line itself is what follows the last of them.
KeepLine(spans, line) ==
  LET ups == Positions(Up, line)
      kept == SubSeq(spans, 1, Len(spans) - Cardinality(ups))
      start == IF ups = {} THEN 1 ELSE Max(ups) + 1
  IN Append(kept, SubSeq(line, start, Len(line)))

Normalize(s) == FlattenSeq(FoldLeft(KeepLine, <<>>, Lines(s)))

-----------------------------------------------------------------------------
(* normalizeInvocation: the chunks of a text.                              *)

\* Mutant: the rest of a line counts as a line of its own.
NextLineIndexAlways(c) == c.last + 1

\* The index of the line with which the chunk after c begins.
NextLineIndex(c) == IF EndsWith(NL, c.data) THEN c.last + 1 ELSE c.last

Chunks(text, size) ==
  LET count == (Len(text) + size - 1) \div size
      Data(i) == SubSeq(text, (i - 1) * size + 1, Min({i * size, Len(text)}))
      chunk[i \in 1..count] ==
        LET first == IF i = 1 THEN 0 ELSE NextLineIndex(chunk[i-1])
            lines == Count(NL, Data(i))
        IN [data |-> Data(i), first |-> first,
            last |-> IF EndsWith(NL, Data(i)) THEN first + lines - 1 ELSE first + lines]
  IN chunk

-----------------------------------------------------------------------------
(* getLogLineReader: the lines from start up to end, end not included.     *)

SelectChunks(chunks, start, end) ==
  ElementsAt(chunks, {i \in DOMAIN chunks : chunks[i].first < end /\ chunks[i].last >= start})

\* What is written of a chunk.  The scan looks for the byte after a newline.
ReadChunk(c, start, end) ==
  LET begins == {i \in 2..Len(c.data) : c.data[i-1] = NL}
      LineOf(i) == c.first + Count(NL, SubSeq(c.data, 1, i - 1))
      from == {i \in begins : LineOf(i) = start}
      to == {i \in begins : LineOf(i) = end}
  IN SubSeq(c.data, IF from = {} THEN 1 ELSE Max(from),
                    IF to = {} THEN Len(c.data) ELSE Max(to) - 1)

ReadChunks(chunks, start, end) ==
  LET selected == SelectChunks(chunks, start, end)
  IN FlattenSeq([i \in DOMAIN selected |-> ReadChunk(selected[i], start, end)])

\* subsliceLogBufferByLines, of a log that has no chunks yet.
Subslice(buffer, start, end) ==
  LET newlines == InOrder(buffer, Positions(NL, buffer))
      from == IF start = 0 THEN 1
              ELSE IF start \in DOMAIN newlines THEN newlines[start] + 1
              ELSE Len(buffer) + 1
  IN SubSeq(buffer, from, IF end \in DOMAIN newlines THEN newlines[end] ELSE Len(buffer))

-----------------------------------------------------------------------------

InitLog == log = <<>>

\* Bazel writes.  It goes up from the beginning of a line only.
Write(b) ==
  /\ Len(log) < MaxLen
  /\ b = Up => ~EndsWith(Text, log)
  /\ log' = Append(log, b)

WriteLog == Write(Text) \/ Write(NL) \/ Write(Up)

-----------------------------------------------------------------------------
(* References: a terminal, and a range of lines.                           *)

Display(screen, b) ==
  CASE b = Text -> [screen EXCEPT !.rows[screen.row] = Append(@, b)]
    [] b = NL -> [row |-> screen.row + 1,
                  rows |-> [i \in 1..Max({screen.row + 1, Len(screen.rows)}) |->
                              IF i \in DOMAIN screen.rows THEN screen.rows[i] ELSE <<>>]]
    [] b = Up -> LET up == Max({1, screen.row - 1})
                 IN [row |-> up, rows |-> [screen.rows EXCEPT ![up] = <<>>]]

\* What a terminal shows above its cursor, and in its line.
Shown(s) ==
  LET screen == FoldLeft(Display, [row |-> 1, rows |-> << <<>> >>], s)
  IN FlattenSeq([i \in 1..screen.row |-> IF i < screen.row THEN Append(screen.rows[i], NL)
                                         ELSE screen.rows[i]])

RangeOfLines(text, start, end) ==
  FlattenSeq(SubSeq(Lines(text), start + 1, Min({end, Len(Lines(text))})))

Ranges(text) == {r \in (0 .. Len(text)) \X (1 .. Len(text) + 1) : r[1] < r[2]}

IsReadRight(text) ==
  /\ \A r \in Ranges(text) : Subslice(text, r[1], r[2]) = RangeOfLines(text, r[1], r[2])
  /\ \A chunks \in {Chunks(text, size) : size \in ChunkSizes}, r \in Ranges(text) :
       ReadChunks(chunks, r[1], r[2]) = RangeOfLines(text, r[1], r[2])
=============================================================================
