------------------------------ MODULE Filtering -------------------------------
(* What the lists of the windows are filtered with.                              *)
EXTENDS Integers, Sequences

\* What is in S of a sequence, in the order it is in
Among(s, S) ==
    LET upTo[k \in 0 .. Len(s)] ==
            IF k = 0 THEN <<>>
            ELSE IF s[k] \in S THEN Append(upTo[k - 1], s[k]) ELSE upTo[k - 1]
    IN  upTo[Len(s)]

===============================================================================
