----------------------------- MODULE Selections -----------------------------
(***************************************************************************)
(* What a Python list comprehension with a condition keeps of a list.      *)
(* SelectSeq says the same; written as a recursive function of the length, *)
(* it can be reasoned about (SelectionsProofs).                            *)
(***************************************************************************)
EXTENDS Naturals, Sequences

\* [x for x in s if x in S]
Select(s, S) ==
    LET upTo[n \in 0 .. Len(s)] ==
            IF n = 0 THEN <<>>
            ELSE IF s[n] \in S THEN Append(upTo[n - 1], s[n]) ELSE upTo[n - 1]
    IN  upTo[Len(s)]
=============================================================================
