------------------------------ MODULE Selection ------------------------------
(***************************************************************************)
(* The elements of a sequence that are in a set, in their order.  SelectSeq*)
(* takes a test instead of a set, and the provers cannot look into it.     *)
(***************************************************************************)
EXTENDS Integers, Sequences

Keep(s, S) ==
    LET kept[n \in 0..Len(s)] ==
          IF n = 0 THEN <<>>
          ELSE IF s[n] \in S THEN Append(kept[n - 1], s[n])
          ELSE kept[n - 1]
    IN  kept[Len(s)]

=============================================================================
