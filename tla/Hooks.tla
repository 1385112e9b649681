-------------------------------- MODULE Hooks --------------------------------
(***************************************************************************)
(* The user's boot wiring (relaunch-engine hooks.rs): the marked line in   *)
(* hyprland.lua that runs the boot tools at login, how ensure-hooks puts   *)
(* it there and how uninstall takes it back.  A file is its lines and      *)
(* whether the last one ends in a newline; a line is an atom.              *)
(*                                                                         *)
(* An installation is [lua, conf: the user's two files; dir: the files of  *)
(* the config directory; bin: what the engine's place on PATH holds;       *)
(* plugin: whether the plugin directory is there].                         *)
(***************************************************************************)
EXTENDS Lists

CONSTANTS
  Marker, Hook,   \* our comment and the line under it
  Legacy,         \* the lines earlier versions wrote
  ConfLines,      \* lines of hyprland.conf that are or hold our old ones
  Holds           \* a user's line -> those of our lines whose text it holds

(* Our own comment holds no hook's text (hooks.rs:24, 41).                 *)
ASSUME HooksAssumption ==
  Hook # Marker /\ {Hook, Marker} \cap Legacy = {} /\ Marker \notin DOMAIN Holds

NoLines == [lines |-> <<>>, nl |-> TRUE]

(* The lines written out one after the other, without the last newline     *)
(* unless nl: an empty last line is then the newline of the one before it. *)
AsFile(lines, nl) ==
  IF lines = <<>> THEN NoLines
  ELSE IF ~nl /\ lines[Len(lines)] = ""
       THEN [lines |-> SubSeq(lines, 1, Len(lines) - 1), nl |-> TRUE]
  ELSE [lines |-> lines, nl |-> nl]

HoldsText(f, text) ==
  \E i \in DOMAIN f.lines :
    LET line == f.lines[i] IN line = text \/ (line \in DOMAIN Holds /\ text \in Holds[line])

AllHooks == {Hook} \cup Legacy

(* Mutant: a marker goes whatever is under it.                             *)
RemoveWithMarkers(f, hooks) ==
  AsFile(Keep(f.lines, {i \in DOMAIN f.lines : f.lines[i] \notin hooks \cup {Marker}}), f.nl)

(* A pass over the lines, in order: what it has put out, and whether it    *)
(* holds back a marker until it sees the next line.                        *)
Put(s) == IF s.held THEN Append(s.out, Marker) ELSE s.out
PassLine(s, line, hooks) ==
  IF line \in hooks THEN [out |-> s.out, held |-> FALSE]
  ELSE IF line = Marker THEN [out |-> Put(s), held |-> TRUE]
  ELSE [out |-> Append(Put(s), line), held |-> FALSE]
Pass(lines, hooks) ==
  LET after[i \in 0 .. Len(lines)] ==
        IF i = 0 THEN [out |-> <<>>, held |-> FALSE] ELSE PassLine(after[i - 1], lines[i], hooks)
  IN  after

(* Every hook goes, and the marker right above one; a lone marker stays.   *)
RemoveBootstrap(f, hooks) == AsFile(Put(Pass(f.lines, hooks)[Len(f.lines)]), f.nl)

(* The marker and the hook at the end, with the file's own last newline.   *)
InstallBootstrap(f, hook, ours) ==
  LET kept == RemoveBootstrap(f, ours)
  IN  [lines |-> kept.lines \o <<Marker, hook>>, nl |-> kept.nl]

Ensured(f) ==
  IF ~HoldsText(f, Hook) \/ (\E old \in Legacy : HoldsText(f, old))
  THEN InstallBootstrap(f, Hook, AllHooks) ELSE f

(* hyprland.conf, from before there was a hyprland.lua: a line that holds  *)
(* ours goes whole, and what is left ends in a newline.                    *)
WithoutConf(f) ==
  LET theirs == {i \in DOMAIN f.lines : f.lines[i] \notin ConfLines}
  IN  IF theirs = DOMAIN f.lines THEN f ELSE [lines |-> Keep(f.lines, theirs), nl |-> TRUE]

-----------------------------------------------------------------------------
(* ensure-hooks and uninstall, a write at a time: either may be cut off    *)
(* between two of them.                                                    *)

EnsureStep(d, k) ==
  CASE k = 1 -> [d EXCEPT !.dir = @ \cup {"overrides.json"}]
    [] k = 2 -> [d EXCEPT !.dir = @ \ {"relaunch.conf"}]
    [] k = 3 -> [d EXCEPT !.conf = WithoutConf(@)]
    [] k = 4 -> [d EXCEPT !.dir = @ \ {"relaunch.lua"}]
    [] k = 5 -> [d EXCEPT !.dir = @ \cup {"rules.lua"}]
    [] k = 6 -> [d EXCEPT !.lua = Ensured(@)]

(* The signing state has been purged (or nothing is removed).              *)
UninstallStep(d, k) ==
  CASE k = 1 -> [d EXCEPT !.lua = RemoveBootstrap(@, AllHooks)]
    [] k = 2 -> [d EXCEPT !.dir = @ \ {"relaunch.conf"}]
    [] k = 3 -> [d EXCEPT !.conf = WithoutConf(@)]
    [] k = 4 -> [d EXCEPT !.dir = {}]
    [] k = 5 -> [d EXCEPT !.bin = IF @ = "bash engine" THEN "none" ELSE @]
    [] k = 6 -> [d EXCEPT !.plugin = FALSE]

Steps == 6
EnsuredUpTo(d, k) ==
  LET after[i \in 0 .. k] == IF i = 0 THEN d ELSE EnsureStep(after[i - 1], i) IN after[k]
UninstalledUpTo(d, k) ==
  LET after[i \in 0 .. k] == IF i = 0 THEN d ELSE UninstallStep(after[i - 1], i) IN after[k]

-----------------------------------------------------------------------------
(* Login runs the boot tools.                                              *)
Hooked(f) == \E i \in DOMAIN f.lines : f.lines[i] = Hook

(* The user's lines of a file: those that are no hook of ours, nor the     *)
(* marker right above one.                                                 *)
OwnLines(f) ==
  LET above(i) == f.lines[i] = Marker /\ i < Len(f.lines) /\ f.lines[i + 1] \in AllHooks
  IN  Keep(f.lines, {i \in DOMAIN f.lines : f.lines[i] \notin AllHooks /\ ~above(i)})
HookedOnce(f) ==
  \E i \in DOMAIN f.lines : \A j \in DOMAIN f.lines : f.lines[j] = Hook <=> j = i

(* A line of the user's own, a comment perhaps, holds the hook's text: it  *)
(* is taken for the hook.                                                  *)
LooksHooked(f) ==
  \E i \in DOMAIN f.lines : f.lines[i] \in DOMAIN Holds /\ Hook \in Holds[f.lines[i]]

(* ensure-hooks leaves one hook and no old one, with nothing of the user's *)
(* changed; it does nothing the second time; and what it does uninstall    *)
(* takes back, to the last byte.                                           *)
ComesAndGoes(f) ==
  LET on == Ensured(f) IN
  /\ AsFile(OwnLines(on), on.nl) = AsFile(OwnLines(f), f.nl)
  /\ Ensured(on) = on
  /\ \/ HookedOnce(on) \/ LooksHooked(f)
     \/ on = f /\ Hooked(f)
  /\ \A i \in DOMAIN on.lines : on.lines[i] \notin Legacy
  /\ RemoveBootstrap(on, AllHooks) = RemoveBootstrap(f, AllHooks)
  /\ RemoveBootstrap(f, AllHooks) = AsFile(OwnLines(f), f.nl)

(* Cut off after any of its writes and run again, either of them ends as   *)
(* if it had not been; and uninstall takes back a half-done ensure-hooks.  *)
CutOff(d) ==
  /\ \A k \in 0 .. Steps : EnsuredUpTo(EnsuredUpTo(d, k), Steps) = EnsuredUpTo(d, Steps)
  /\ \A k, n \in 0 .. Steps :
       UninstalledUpTo(UninstalledUpTo(EnsuredUpTo(d, n), k), Steps) = UninstalledUpTo(d, Steps)
=============================================================================
