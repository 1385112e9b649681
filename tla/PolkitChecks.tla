---------------------------- MODULE PolkitChecks ----------------------------
(***************************************************************************)
(* How relaunchd runs and cancels polkit checks (relaunchd/src/polkit.rs): *)
(* the registry `Coord' shared between the threads that wait for a check   *)
(* and the hook the engine fires when it takes a claimed transaction away. *)
(* Authority sees a check as one step that may end once it is cancelled;   *)
(* here is what makes that true.  The ids are those of Authorize's checks: *)
(* nothing cancels a Purge's own check.                                    *)
(***************************************************************************)
EXTENDS Integers, Sequences

CONSTANTS
  Ids,              \* cancellation ids, each minted by one Authorize
  MaxCancelledIds   \* MAX_CANCELLED_IDS: how many early cancellations are kept

ASSUME CapAssumption == MaxCancelledIds \in Nat \ {0}

VARIABLES
  check,      \* id -> where its check is
  slot,       \* id -> whether the transaction holding it is still pending
  inflight,   \* registered checks
  permit,     \* checks whose Notify holds a permit
  pre,        \* cancellations that arrived before their check registered
  order,      \* the ids put into `pre', oldest first
  owed,       \* transactions taken away whose hook has not run yet
  hooked,     \* history: ids the hook was called with
  early       \* history: every id put into `pre', in order

coord == <<inflight, pre, order>>
vars == <<check, slot, coord, permit, owed, hooked, early>>

Stages == {"unclaimed", "claimed", "running", "ended", "returned"}

TypeOK ==
  /\ check \in [Ids -> Stages]
  /\ slot \in [Ids -> {"held", "taken", "settled"}]
  /\ inflight = {i \in Ids : check[i] \in {"running", "ended"}}
  /\ permit \subseteq Ids /\ pre \subseteq Ids
  /\ order \in Seq(Ids) /\ early \in Seq(Ids)
  /\ owed \subseteq Ids /\ hooked \subseteq Ids

Init ==
  /\ check = [i \in Ids |-> "unclaimed"]
  /\ slot = [i \in Ids |-> "held"]
  /\ inflight = {} /\ permit = {} /\ pre = {} /\ order = <<>>
  /\ owed = {} /\ hooked = {} /\ early = <<>>

Moves(i, from, to) == check[i] = from /\ check' = [check EXCEPT ![i] = to]

-----------------------------------------------------------------------------
(* The waiting thread.                                                     *)

(* Phase 1 of Authorize records the id in the transaction.                 *)
Claim(i) ==
  /\ slot[i] = "held"
  /\ Moves(i, "unclaimed", "claimed")
  /\ UNCHANGED <<slot, coord, permit, owed, hooked, early>>

(* Mutant: a check does not look for an early cancellation.                *)
RegisterUnaware(i) ==
  /\ Moves(i, "claimed", "running")
  /\ inflight' = inflight \cup {i}
  /\ UNCHANGED <<slot, pre, order, permit, owed, hooked, early>>

(* register: a remembered cancellation ends the check before it starts.    *)
(* Only `pre' forgets the id, its place in `order' stays taken.            *)
Register(i) ==
  /\ \/ /\ i \in pre
        /\ Moves(i, "claimed", "returned")
        /\ pre' = pre \ {i}
        /\ UNCHANGED inflight
     \/ /\ i \notin pre
        /\ Moves(i, "claimed", "running")
        /\ inflight' = inflight \cup {i}
        /\ UNCHANGED pre
  /\ UNCHANGED <<slot, order, permit, owed, hooked, early>>

(* The select sees the permit.                                             *)
Aborted(i) ==
  /\ i \in permit
  /\ Moves(i, "running", "ended")
  /\ permit' = permit \ {i}
  /\ UNCHANGED <<slot, coord, owed, hooked, early>>

(* polkit answers or the deadline passes; an answer may still win against  *)
(* a permit that arrives while the select is being polled.                 *)
Answered(i) ==
  /\ Moves(i, "running", "ended")
  /\ UNCHANGED <<slot, coord, permit, owed, hooked, early>>

(* InflightGuard is dropped.                                               *)
Retire(i) ==
  /\ Moves(i, "ended", "returned")
  /\ inflight' = inflight \ {i}
  /\ UNCHANGED <<slot, pre, order, permit, owed, hooked, early>>

(* Back in the engine: the transaction is committed or invalidated by the  *)
(* thread that claimed it, which cancels nothing.                          *)
Settle(i) ==
  /\ check[i] = "returned"
  /\ slot[i] = "held"
  /\ slot' = [slot EXCEPT ![i] = "settled"]
  /\ UNCHANGED <<check, coord, permit, owed, hooked, early>>

-----------------------------------------------------------------------------
(* A Reduce, a Purge or a sweep takes a claimed transaction under the lock *)
(* and calls the hook after it.                                            *)
Take(i) ==
  /\ check[i] # "unclaimed"
  /\ slot[i] = "held"
  /\ slot' = [slot EXCEPT ![i] = "taken"]
  /\ owed' = owed \cup {i}
  /\ UNCHANGED <<check, coord, permit, hooked, early>>

(* Mutant: nothing is evicted.                                             *)
RememberAll(i) ==
  /\ pre' = pre \cup {i}
  /\ order' = Append(order, i)
  /\ early' = Append(early, i)

(* Mutant: when full, everything is forgotten at once.                     *)
RememberAfresh(i) ==
  LET full == Len(order) >= MaxCancelledIds IN
  /\ pre' = (IF full THEN {} ELSE pre) \cup {i}
  /\ order' = Append(IF full THEN <<>> ELSE order, i)
  /\ early' = Append(early, i)

(* Remember i, at the cost of the oldest id when `order' is full.          *)
Remember(i) ==
  LET full == Len(order) >= MaxCancelledIds IN
  /\ pre' = (pre \ {j \in Ids : full /\ j = Head(order)}) \cup {i}
  /\ order' = Append(IF full THEN Tail(order) ELSE order, i)
  /\ early' = Append(early, i)

(* cancel_id.                                                              *)
CancelId(i) ==
  /\ i \in owed
  /\ owed' = owed \ {i}
  /\ hooked' = hooked \cup {i}
  /\ \/ /\ i \in inflight
        /\ permit' = permit \cup {i}
        /\ UNCHANGED <<pre, order, early>>
     \/ /\ i \notin inflight
        /\ IF i \in pre THEN UNCHANGED <<pre, order, early>> ELSE Remember(i)
        /\ UNCHANGED permit
  /\ UNCHANGED <<check, slot, inflight>>

-----------------------------------------------------------------------------
Next ==
  \E i \in Ids : Claim(i) \/ Register(i) \/ Aborted(i) \/ Answered(i) \/ Retire(i)
                   \/ Settle(i) \/ Take(i) \/ CancelId(i)

(* The pool runs its threads and the hook; polkit may never answer.        *)
Fairness ==
  \A i \in Ids : /\ WF_vars(Register(i)) /\ WF_vars(Aborted(i)) /\ WF_vars(Retire(i))
                 /\ WF_vars(CancelId(i))

Spec == Init /\ [][Next]_vars
FairSpec == Spec /\ Fairness

-----------------------------------------------------------------------------
Waiting(i) == check[i] \in {"claimed", "running"}

(* What is remembered is bounded, whatever the engine cancels: the queue   *)
(* never outgrows its bound, and no id is remembered outside of it.        *)
MemoryIsBounded ==
  /\ Len(order) <= MaxCancelledIds
  /\ pre \subseteq {order[k] : k \in 1 .. Len(order)}

(* MAX_CANCELLED_IDS later cancellations have come before their checks.    *)
Outlived(i) ==
  \E n \in 1 .. Len(early) : early[n] = i /\ Len(early) - n >= MaxCancelledIds

(* A cancellation that came before its check registered is forgotten only  *)
(* for MAX_CANCELLED_IDS later ones, never in bulk.                        *)
OnlyOldestForgotten ==
  \A i \in {early[n] : n \in 1 .. Len(early)} :
    (check[i] = "claimed" /\ i \notin pre) => Outlived(i)

(* A check whose transaction is taken away ends although polkit never      *)
(* answers and its deadline never passes, wherever the cancellation meets  *)
(* it: before it registers, while it runs, or as it returns; unless the    *)
(* memory has been filled with later cancellations.                        *)
CancelEndsCheck == \A i \in Ids : i \in owed ~> (~Waiting(i) \/ Outlived(i))
=============================================================================
