------------------------------- MODULE Selection -------------------------------
(***************************************************************************)
(* The loops that collect, from a list, what passes a test.                *)
(***************************************************************************)
EXTENDS Naturals, Sequences

\* The elements of s that are in S, in their order: SelectSeq with a set for a
\* test, as a recursive function, which can be reasoned about.
Kept(s, S) ==
  LET kept[i \in 0 .. Len(s)] ==
        IF i = 0 THEN <<>>
        ELSE IF s[i] \in S THEN Append(kept[i - 1], s[i]) ELSE kept[i - 1]
  IN kept[Len(s)]
================================================================================
