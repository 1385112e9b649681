----------------------------- MODULE PanelRows -----------------------------
(***************************************************************************)
(* The panel's two lists, as the engine makes them (relaunch-engine        *)
(* list.rs): the pins, each with the line its command is edited as and the *)
(* verdict on it, and the windows that no pin's class covers.              *)
(***************************************************************************)
EXTENDS CommandText

CONSTANTS
  AsciiLowerOf,    \* a class -> its ASCII letters in lower case, when it differs
  ForeignLowerOf   \* such a class -> its other letters too, when it differs

(* Two ways to ignore case.                                                *)
AsciiLower(class) ==
  IF class \in DOMAIN AsciiLowerOf THEN AsciiLowerOf[class] ELSE class
FullLower(class) ==
  LET c == AsciiLower(class) IN IF c \in DOMAIN ForeignLowerOf THEN ForeignLowerOf[c] ELSE c

(* Mutant: a row for each workspace a class is on.                         *)
ByPlace(live) == {[class |-> w.class, ws |-> w.ws] : w \in live}

(* One row for a class, on the lowest workspace it is on.                  *)
ByClass(live) ==
  {[class |-> w.class, ws |-> Min({v.ws : v \in {x \in live : x.class = w.class}})] : w \in live}

(* Windows not in Relaunch; special workspaces are left out.  The pins'    *)
(* classes are lowered in full, the windows' in their ASCII letters only.  *)
RunningRows(pins, windows) ==
  LET live == {w \in ToSet(windows) : w.class # "" /\ w.ws >= 1}
      inRelaunch == {FullLower(p.wclass) : p \in pins}
  IN  {r \in ByClass(live) : AsciiLower(r.class) \notin inRelaunch}

Unverified(source) == source \in {"guess", "cmdline"}

(* A signed pin's row; words are its argv's characters.  It is run as an   *)
(* argv, so its program is judged without a shell.                         *)
PinRow(p, words) ==
  LET exec == Canonical(words) IN
  [id |-> p.id, class |-> p.wclass, ws |-> p.ws, enabled |-> p.enabled,
   label |-> IF p.label = "none" THEN p.wclass ELSE p.label,
   exec |-> exec, execText |-> ExecText(exec),
   execOk |-> ExecIsOk(exec, TRUE), unverified |-> Unverified(p.source)]

(* The panel's "command not found".                                        *)
Warnings(rows) == {r \in rows : ~r.execOk}
=============================================================================
