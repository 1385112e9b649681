------------------------------- MODULE Session -------------------------------
(***************************************************************************)
(* The session diagnostics (relaunch-engine session.rs): a snapshot of the *)
(* windows, and what `last-session --diff' says of it after a login.  A    *)
(* window is [class, ws, float, ...] as in Capture; a snapshot is what is  *)
(* read back of the file: one record for each window, of any workspace.    *)
(***************************************************************************)
EXTENDS Integers, SequencesExt, Lists

(* A stored label, by the entry's own class field (the last one wins), or  *)
(* the class.                                                              *)
LabelFor(entries, class) ==
  LET i == SelectLastInSeq(entries, LAMBDA e : e.class = class /\ e.label # "none")
  IN  IF i = 0 THEN class ELSE entries[i].label

SnapWindow(w, entries) ==
  [class |-> w.class, label |-> LabelFor(entries, w.class), ws |-> w.ws,
   floating |-> w.float = "floating"]

Snapshot(windows, entries) == [i \in DOMAIN windows |-> SnapWindow(windows[i], entries)]

-----------------------------------------------------------------------------
(* The windows of a class that are there now; one without a class is never *)
(* counted.                                                                *)
Back(now, class) ==
  LET live == [i \in DOMAIN now |->
                 [class |-> now[i].class, ws |-> now[i].ws, floating |-> now[i].float = "floating"]]
  IN  Keep(live, {i \in DOMAIN live : live[i].class # "" /\ live[i].class = class})

(* Mutant: a window that came back elsewhere is counted as come back there. *)
PlacementAnywhere(w, back) ==
  [ws |-> w.ws, floating |-> w.floating,
   matched |-> \E b \in ToSet(back) : b.ws = w.ws \/ b.floating = w.floating,
   wsMatched |-> \E b \in ToSet(back) : b.ws = w.ws]

(* Where a window was, and whether some window of its class is there.      *)
Placement(w, back) ==
  [ws |-> w.ws, floating |-> w.floating,
   matched |-> \E b \in ToSet(back) : b.ws = w.ws /\ b.floating = w.floating,
   wsMatched |-> \E b \in ToSet(back) : b.ws = w.ws]

ClassReport(group, back) ==
  LET placements == [i \in DOMAIN group |-> Placement(group[i], back)]
  IN  [class |-> group[1].class, label |-> group[1].label,
       want |-> Len(group), live |-> Len(back), missing |-> Len(group) - Len(back),
       placements |-> placements,
       mismatched |-> Cardinality({i \in DOMAIN placements : ~placements[i].matched})]

DiffReport(before, now) ==
  {ClassReport(Keep(before, {i \in DOMAIN before : before[i].class = class}), Back(now, class)) :
     class \in {before[i].class : i \in DOMAIN before}}

(* The line the diff prints of a class, and what a moved one was expected  *)
(* as: its workspace, or floating or not when only that is wrong.          *)
Verdict(c) ==
  IF c.missing > 0 THEN "missing" ELSE IF c.mismatched > 0 THEN "moved" ELSE "ok"

Expected(c) ==
  {IF p.wsMatched THEN [by |-> "float", ws |-> 0, floating |-> p.floating]
   ELSE [by |-> "ws", ws |-> p.ws, floating |-> FALSE] :
     p \in {q \in ToSet(c.placements) : ~q.matched}}
=============================================================================
