------------------------------- MODULE Review -------------------------------
(***************************************************************************)
(* What relaunchd tells the user of a change before asking for an approval *)
(* (relaunchd diff.rs): the diff, one line for each pin that differs from  *)
(* the verified base, and the summary of what will open at login.  A row   *)
(* or a line is what it says; its wording and escaping are left out.  The  *)
(* two caps on bytes are left out, the one on changed pins is here.        *)
(***************************************************************************)
EXTENDS Integers, FiniteSets

CONSTANT MaxChanged   \* MAX_CHANGED

ASSUME MaxChangedAssumption == MaxChanged \in Nat

(* A line quotes every field of a pin and escapes what could end a field,  *)
(* so that no two pins read alike.                                         *)
FmtEntry(p) ==
  [class |-> p.id, window |-> p.wclass, label |-> p.label, ws |-> p.ws, geom |-> p.float,
   src |-> p.source, prov |-> p.provenance, enabled |-> p.enabled, exec |-> p.argv,
   cwd |-> p.cwd]

NameOf(p) == IF p.label = "none" THEN p.wclass ELSE p.label

In(pins, id) == {p \in pins : p.id = id}
Enabled(pins) == {p \in pins : p.enabled}

(* Mutant: an app that reads the same is the same.                         *)
MarkByName(old, p) ==
  LET was == In(old, p.id) IN
  IF \E b \in was : NameOf(b) = NameOf(p) /\ b.ws = p.ws /\ b.enabled THEN "same"
  ELSE IF Enabled(was) # {} THEN "changed" ELSE "new"

(* How an app that will open compares with the base.                       *)
Mark(old, p) ==
  LET was == In(old, p.id) IN
  IF p \in was THEN "same" ELSE IF Enabled(was) # {} THEN "changed" ELSE "new"

(* The rows of the summary: what will open, and what no longer will.       *)
Row(p, mark) == [name |-> NameOf(p), ws |-> p.ws, id |-> p.id, mark |-> mark]
Opens(old, new) == {Row(p, Mark(old, p)) : p \in Enabled(new)}
Stops(old, new) == {Row(p, "same") : p \in {q \in Enabled(old) : Enabled(In(new, q.id)) = {}}}

(* The lines of the diff.                                                  *)
Lines(old, new) ==
  {[was |-> {FmtEntry(p) : p \in In(old, id)}, now |-> {FmtEntry(p) : p \in In(new, id)}] :
     id \in {p.id : p \in (old \ new) \cup (new \ old)}}

Compute(old, oldDelays, new, newDelays) ==
  LET lines == Lines(old, new) IN
  [ok        |-> Cardinality(lines) <= MaxChanged,
   hasChange |-> lines # {} \/ oldDelays # newDelays,
   lines     |-> lines,
   opens     |-> Opens(old, new),
   stops     |-> Stops(old, new),
   delays    |-> IF oldDelays = newDelays THEN <<>> ELSE <<oldDelays, newDelays>>]
=============================================================================
