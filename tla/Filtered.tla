------------------------------ MODULE Filtered ------------------------------
(***************************************************************************)
(* Array.prototype.filter: the elements of a sequence that are in a set, in *)
(* their order.                                                            *)
(***************************************************************************)
EXTENDS Naturals, Sequences

Kept(s, S) ==
  LET upTo[n \in 0 .. Len(s)] ==
        IF n = 0 THEN <<>>
        ELSE IF s[n] \in S THEN Append(upTo[n - 1], s[n]) ELSE upTo[n - 1]
  IN  upTo[Len(s)]
=============================================================================
