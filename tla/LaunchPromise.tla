--------------------------- MODULE LaunchPromise ---------------------------
(***************************************************************************)
(* What the authority service promises the account it signs for, with no   *)
(* lock, file or thread in sight: a set of signed documents that only      *)
(* grows upwards.  A new document is above every earlier one (a newer key, *)
(* or the same key and a higher generation), and it either spends an       *)
(* approval of the human, whose review showed every launch the document    *)
(* adds to the one it replaces, or it takes launches away from that one.   *)
(* A withdrawn transaction is never spent.                                 *)
(***************************************************************************)
EXTENDS Integers

CONSTANT LaunchesOf(_)   \* the launches of a document's content

VARIABLES
  docs,       \* documents issued so far
  approved,   \* transactions the human has approved
  withdrawn   \* transactions that may no longer be spent

promiseVars == <<docs, approved, withdrawn>>

PromiseInit == docs = {} /\ approved = {} /\ withdrawn = {}

Above(d, e) == d.key > e.key \/ (d.key = e.key /\ d.draft.gen > e.draft.gen)

(* The document d replaces: the generation just before it, if it was ever  *)
(* issued.                                                                 *)
Replaced(d) == {p \in docs : p.key = d.key /\ p.draft.gen = d.draft.gen - 1}

OldLaunches(d) == UNION {LaunchesOf(p.draft.content) : p \in Replaced(d)}

Approve(n) == approved' = approved \cup {n} /\ UNCHANGED <<docs, withdrawn>>

Withdraw(n) == withdrawn' = withdrawn \cup {n} /\ UNCHANGED <<docs, approved>>

Issue(d) ==
  /\ \A e \in docs : Above(d, e)
  /\ docs' = docs \cup {d}
  /\ UNCHANGED <<approved, withdrawn>>

SpendApproval(d) ==
  /\ d.tx \in approved \ withdrawn
  /\ \A e \in docs : e.tx # d.tx
  /\ LaunchesOf(d.draft.content) \subseteq OldLaunches(d) \cup d.draft.shown
  /\ Issue(d)

TakeAway(d) ==
  /\ d.tx = 0
  /\ Replaced(d) # {}
  /\ LaunchesOf(d.draft.content) \subseteq OldLaunches(d)
  /\ Issue(d)

(* The new element of a history is named by what the step leaves behind.   *)
PromiseNext ==
  \/ \E n \in approved' : Approve(n)
  \/ \E n \in withdrawn' : Withdraw(n)
  \/ \E d \in docs' : SpendApproval(d) \/ TakeAway(d)

PromiseSpec == PromiseInit /\ [][PromiseNext]_promiseVars
=============================================================================
