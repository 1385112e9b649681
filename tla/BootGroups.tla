----------------------------- MODULE BootGroups -----------------------------
(***************************************************************************)
(* The grouping of a boot's rows (relaunch-anchor/src/boot.rs, groups), as *)
(* the loops that compute it: every pair of rows i > j in turn, the group  *)
(* of i renamed to the group of j when they share a key.  AnchorBoot takes *)
(* groups to be the connected rows; BootList shows that they are, for      *)
(* every list it reaches.                                                  *)
(***************************************************************************)
EXTENDS Integers, Sequences

(* keys[e] is the set of keys of the e-th row in launch order.             *)
Share(keys, a, b) == keys[a] \cap keys[b] # {}

(* Mutant: the row alone is moved, and those already with it left behind.  *)
RenameFirst(groupOf, from, to) == [groupOf EXCEPT ![from] = to]

Rename(groupOf, from, to) ==
  [e \in DOMAIN groupOf |-> IF groupOf[e] = from THEN to ELSE groupOf[e]]

(* Row i beside each earlier row in turn.                                  *)
Beside(keys, groupOf, i) ==
  LET after[j \in 0 .. i - 1] ==
        IF j = 0 THEN groupOf
        ELSE IF Share(keys, i, j) THEN Rename(after[j - 1], after[j - 1][i], after[j - 1][j])
        ELSE after[j - 1]
  IN  after

(* The row each row's group is named after, once the first rows are done.  *)
Grouped(keys) ==
  LET after[i \in 0 .. Len(keys)] ==
        IF i = 0 THEN [e \in 1 .. Len(keys) |-> e] ELSE Beside(keys, after[i - 1], i)[i - 1]
  IN  after
GroupOf(keys) == Grouped(keys)[Len(keys)]

(* The rows a chain of shared keys joins to e.                             *)
Closed(keys, S) == \A a \in S, b \in DOMAIN keys \ S : ~Share(keys, a, b)
Connected(keys, e) ==
  {f \in DOMAIN keys : \A S \in SUBSET DOMAIN keys : e \in S /\ Closed(keys, S) => f \in S}
=============================================================================
