----------------------------- MODULE Selections -----------------------------
(***************************************************************************)
(* Loops that go through a sequence and take some of its elements: the     *)
(* chunks of a range of lines, the snippets of a page, the newlines of a   *)
(* buffer, the operations that a user may see.                             *)
(***************************************************************************)
EXTENDS Naturals, Sequences

\* The elements of s at these positions, and positions themselves, in their order.
ElementsAt(s, positions) ==
  LET upTo[i \in 0..Len(s)] ==
        IF i = 0 THEN <<>>
        ELSE IF i \in positions THEN Append(upTo[i-1], s[i])
        ELSE upTo[i-1]
  IN upTo[Len(s)]

InOrder(s, positions) == ElementsAt([i \in DOMAIN s |-> i], positions)
=============================================================================
