-------------------------------- MODULE Lists --------------------------------
(* A filter over a sequence, as the code's loops over a list have it.      *)
EXTENDS Integers, Sequences

(* The elements at these places, in their order.                           *)
Keep(seq, at) ==
  LET kept[i \in 0 .. Len(seq)] ==
        IF i = 0 THEN <<>> ELSE IF i \in at THEN Append(kept[i - 1], seq[i]) ELSE kept[i - 1]
  IN  kept[Len(seq)]
=============================================================================
