------------------------------ MODULE BootList ------------------------------
(***************************************************************************)
(* The boot list as the user shapes it: windows open and close, the engine *)
(* proposes a list from them or from an edit (relaunch-engine: propose.rs, *)
(* edit.rs, config.rs), and a proposal the user approves becomes the       *)
(* signed list.  Capture says what the engine reads off a window;          *)
(* LauncherText what a pin's command goes through before it is run, and    *)
(* CommandText what the user sees and types of it; PanelRows is the panel  *)
(* over the list, and Review what the user is told of a proposal.          *)
(***************************************************************************)
EXTENDS Capture, PanelRows, Review, BootGroups, Session, Lists

CONSTANTS
  Machines,     \* machines: [procs, dirs (of launchers), windows (that may open)]
  Working,      \* the machines (indices) every operation is tried on; on the
                \* others windows open, in one order, and are captured
  Typed,        \* command lines the user may type
  Samples,      \* argvs the texts are tried on besides the list's
  Named,        \* classes an import may name
  Targets,      \* workspaces an import may name
  Delays,       \* delays the user may set; 0 is the first Save's
  Spelled,      \* a word -> its characters, for the words with special ones
  FirstWord,    \* a window class -> its first word
  MaxEntries,   \* MAX_ENTRIES
  MaxPath,      \* the URL paths tried: their longest
  MaxChanges    \* bound on the changes proposed or dropped

(* A machine has finitely many processes, pids are positive, a parent is   *)
(* one of them (or the first, or unknown), and a command line is a list of *)
(* words.                                                                  *)
ASSUME MachinesAssumption ==
  \A k \in DOMAIN Machines :
    LET procs == Machines[k].procs IN
    /\ IsFiniteSet(DOMAIN procs)
    /\ \A p \in DOMAIN procs :
         LET argv == procs[p].argv IN
         /\ p \in Nat \ {0} /\ procs[p].ppid \in {0, 1} \cup DOMAIN procs
         /\ argv \in Seq({argv[i] : i \in DOMAIN argv})

(* Windows are a list, and each is a record of these fields.               *)
ASSUME WindowsAssumption ==
  \A k \in DOMAIN Machines :
    LET windows == Machines[k].windows IN
    /\ windows \in Seq({windows[i] : i \in DOMAIN windows})
    /\ \A i \in DOMAIN windows :
         LET w == windows[i] IN
         w = [class |-> w.class, ws |-> w.ws, float |-> w.float, xwayland |-> w.xwayland, pid |-> w.pid]

(* A launcher is a file in one of a list of directories; its Exec is words.*)
ASSUME LaunchersAssumption ==
  \A k \in DOMAIN Machines :
    LET dirs == Machines[k].dirs
        files == UNION {{dirs[d][i] : i \in DOMAIN dirs[d]} : d \in DOMAIN dirs}
    IN  /\ dirs \in Seq(Seq(files))
        /\ \A f \in files : "Exec" \in DOMAIN f.keys =>
             LET exec == f.keys["Exec"] IN exec \in Seq({exec[i] : i \in DOMAIN exec})

ASSUME ListAssumption == Working \subseteq DOMAIN Machines /\ 0 \in Delays /\ MaxEntries \in Nat

Spell(argv) ==
  [i \in DOMAIN argv |-> IF argv[i] \in DOMAIN Spelled THEN Spelled[argv[i]] ELSE <<argv[i]>>]

(* The word with these characters.                                         *)
Unspelled(word) ==
  IF \E w \in DOMAIN Spelled : Spelled[w] = word
  THEN CHOOSE w \in DOMAIN Spelled : Spelled[w] = word ELSE word[1]

ASSUME TypedAssumption ==
  \A text \in Typed : \A i \in DOMAIN TypedArgv(text) :
    LET word == TypedArgv(text)[i] IN Spell(<<Unspelled(word)>>) = <<word>>

(* What is spelled, typed or tried is a list of characters, or of words of *)
(* them; a command has a word.                                             *)
ASSUME TextsAssumption ==
  LET Chars(text) == {text[i] : i \in DOMAIN text}
  IN  /\ \A text \in Typed : text \in Seq(Chars(text))
      /\ \A w \in DOMAIN Spelled : Spelled[w] \in Seq(Chars(Spelled[w]))
      /\ \A argv \in Samples :
           argv # <<>> /\ argv \in Seq(Seq(UNION {Chars(argv[i]) : i \in DOMAIN argv}))

VARIABLES
  machine,    \* one of Machines (k says which), as it is read: [k, procs,
              \* apps, windows, captures]; it does not change
  open,       \* the open windows, in compositor order
  file,       \* what config.json holds
  list,       \* the signed pins
  delays,     \* the signed delays
  pending,    \* the proposal under review, or none
  changes     \* changes so far

vars == <<machine, open, file, list, delays, pending, changes>>

M == machine
Windows == [i \in DOMAIN open |-> M.windows[open[i]]]
NoProposal == [kind |-> None, id |-> 0, entries |-> {}, delays |-> 0]

(* A window's capture is a function of the machine and of whether another  *)
(* class's window shares its process.                                      *)
Captures(m) ==
  [i \in DOMAIN m.windows |-> [shares \in BOOLEAN |->
     CaptureResolve(m, m.windows[i].class, m.windows[i].pid, m.windows[i].xwayland, shares)]]

Indexed(k, m) == [k |-> k, procs |-> m.procs, apps |-> Index(m.dirs), windows |-> m.windows]
WithCaptures(m) ==
  [k |-> m.k, procs |-> m.procs, apps |-> m.apps, windows |-> m.windows, captures |-> Captures(m)]
Readings == [k \in DOMAIN Machines |-> WithCaptures(Indexed(k, Machines[k]))]

CaptureOf(i) == M.captures[i][SharesProcess(Windows, M.windows[i])]

(* Each open window that can be resolved (it has a process), with its      *)
(* capture, in compositor order.                                           *)
Seen ==
  LET resolvable == Keep(open, {k \in DOMAIN open : M.windows[open[k]].pid # 0})
  IN  [k \in DOMAIN resolvable |-> [w |-> M.windows[resolvable[k]], c |-> CaptureOf(resolvable[k])]]

-----------------------------------------------------------------------------
(* propose.rs                                                              *)

Ids(pins) == {p.id : p \in pins}
Place(o) == <<o.w.class, o.w.ws>>
PinPlace(p) == <<p.wclass, p.ws>>

Proposable(o) == o.c.source # None /\ o.w.ws >= 1

(* Mutant: one window for each place, whatever else runs there.            *)
ChosenByPlace(seen) ==
  {i \in DOMAIN seen :
     /\ Proposable(seen[i])
     /\ \A j \in 1 .. i - 1 : ~(Proposable(seen[j]) /\ Place(seen[j]) = Place(seen[i]))}

(* The first window with each place and command; the rest are duplicates.  *)
Chosen(seen) ==
  {i \in DOMAIN seen :
     /\ Proposable(seen[i])
     /\ \A j \in 1 .. i - 1 :
          ~(/\ Proposable(seen[j])
            /\ Place(seen[j]) = Place(seen[i])
            /\ seen[j].c.argv = seen[i].c.argv)}

NoPin == [id |-> 0]

(* Mutant: the captures of a place continue its pins in order.             *)
CorrelateInOrder(pins, wanted, o) ==
  LET at == SetToSortSeq({p \in pins : PinPlace(p) = Place(o)}, LAMBDA p, q : p.id < q.id)
      here == SelectSeq(wanted, LAMBDA v : Place(v) = Place(o))
      k == SelectInSeq(here, LAMBDA v : v = o)
  IN  IF k \in DOMAIN at THEN at[k] ELSE NoPin

(* The pin a capture continues (id 0: none).  Alone with the one pin of    *)
(* its place it continues it whatever its command is now; otherwise only   *)
(* the first pin there with exactly its command.  No two chosen captures   *)
(* have one place and command, so no pin is continued twice.               *)
Correlate(pins, wanted, o) ==
  LET at == {p \in pins : PinPlace(p) = Place(o)}
      sharing == {i \in DOMAIN wanted : Place(wanted[i]) = Place(o)}
      same == {p \in at : p.argv = o.c.argv}
  IN  IF Cardinality(at) = 1 /\ Cardinality(sharing) = 1 THEN CHOOSE p \in at : TRUE
      ELSE IF same = {} THEN NoPin
      ELSE CHOOSE p \in same : \A q \in same : q.id >= p.id

(* The k-th id no pin of the base has.                                     *)
FreshId(pins, k) ==
  CHOOSE n \in 1 .. Cardinality(pins) + k :
    n \notin Ids(pins) /\ Cardinality((1 .. n) \ Ids(pins)) = k

(* Mutant: recapture replaces a typed command.                             *)
PinAsSeen(m, stored, id, o) ==
  [id |-> IF stored.id # 0 THEN stored.id ELSE id,
   wclass |-> o.w.class, ws |-> o.w.ws, float |-> o.w.float,
   label |-> CaptureLabel(m, o.w.class, o.c), argv |-> o.c.argv, source |-> o.c.source,
   provenance |-> o.c.provenance, cwd |-> o.c.cwd, enabled |-> o.c.trusted]

(* The pin a capture becomes: a typed command and its label stay, anything *)
(* else is what the capture saw.                                           *)
Pin(m, stored, id, o) ==
  LET typed == stored.id # 0 /\ stored.source = "overrides-table"
      float == IF o.w.float # None \/ stored.id = 0 THEN o.w.float ELSE stored.float
      seen == [argv |-> o.c.argv, source |-> o.c.source, provenance |-> o.c.provenance,
               cwd |-> o.c.cwd, label |-> CaptureLabel(m, o.w.class, o.c)]
      from == IF typed THEN stored ELSE seen
  IN  [id |-> IF stored.id # 0 THEN stored.id ELSE id,
       wclass |-> o.w.class, ws |-> o.w.ws, float |-> float,
       label |-> from.label, argv |-> from.argv, source |-> from.source,
       provenance |-> from.provenance, cwd |-> from.cwd, enabled |-> o.c.trusted]

Wanted(seen) == Keep(seen, Chosen(seen))

PinsOf(m, pins, wanted, stored) ==
  LET nth(k) == Cardinality({j \in 1 .. k : stored[j].id = 0})
  IN  {Pin(m, stored[k],
           IF stored[k].id = 0 THEN FreshId(pins, nth(k)) ELSE 0, wanted[k]) :
         k \in {j \in 1 .. MaxEntries : j \in DOMAIN wanted}}

(* One pin per chosen window, as many as the list may hold.                *)
BuildFrom(m, pins, wanted) ==
  PinsOf(m, pins, wanted, [k \in DOMAIN wanted |-> Correlate(pins, wanted, wanted[k])])
Build(m, pins, seen) == BuildFrom(m, pins, Wanted(seen))

(* The captured pins laid over the base, each in its id's place.           *)
Over(pins, new) == {p \in pins : p.id \notin Ids(new)} \cup new

(* A Save replaces the list, or is merged into it.                         *)
Save(m, pins, seen, mode) ==
  Over(IF mode = "merge" THEN pins ELSE {}, Build(m, pins, seen))

(* model.rs, validate: the signed document's rules about commands.         *)
ValidEntry(p) ==
  /\ p.ws >= 1
  /\ p.argv # <<>>
  /\ (p.source = "cmdline") = (p.provenance = "host")

Valid(pins) ==
  /\ Cardinality(pins) <= MaxEntries
  /\ \A p \in pins : ValidEntry(p)
  /\ \A p, q \in pins : p.id = q.id => p = q

-----------------------------------------------------------------------------
(* The operations.                                                         *)

(* config.rs, classify: no file, one from before signing and one of an     *)
(* older schema are all no base ("none"); a malformed one is no base to    *)
(* build on either, and stops every proposal.                              *)
Readable == file # "invalid"

Init ==
  /\ \E k \in DOMAIN Machines : machine = Readings[k]
  /\ file \in {"none", "invalid"}
  /\ open = <<>>
  /\ list = {} /\ delays = 0
  /\ pending = NoProposal
  /\ changes = 0

(* A proposal is a copy: windows that come or go while it is under review  *)
(* are seen by the next capture, as if they came or went after it.         *)
OpenWindow(i) ==
  /\ pending = NoProposal
  /\ \A k \in DOMAIN open : open[k] < i \/ (machine.k \in Working /\ open[k] # i)
  /\ Len(open) < MaxEntries + 1
  /\ open' = Append(open, i)
  /\ UNCHANGED <<machine, file, list, delays, pending, changes>>

CloseWindow(i) ==
  /\ pending = NoProposal
  /\ \E k \in DOMAIN open : open[k] = i /\ open' = RemoveAt(open, k)
  /\ UNCHANGED <<machine, file, list, delays, pending, changes>>

Offer(kind, id, entries, d) ==
  /\ Readable
  /\ pending = NoProposal
  /\ changes < MaxChanges
  /\ pending' = [kind |-> kind, id |-> id, entries |-> entries, delays |-> d]
  /\ Valid(pending'.entries)
  /\ changes' = changes + 1
  /\ UNCHANGED <<machine, open, file, list, delays>>

Propose(mode) == Offer(mode, 0, Save(M, list, Seen, mode), delays)

(* The class's first window on any workspace, ignoring case, or the class  *)
(* alone, which is captured as an untrusted window is.                     *)
Observed(seen, class) ==
  LET i == SelectInSeq(seen, LAMBDA o : AsciiLower(o.w.class) = AsciiLower(class))
  IN  IF i # 0 THEN seen[i]
      ELSE [w |-> [class |-> class, ws |-> 0, float |-> None, xwayland |-> TRUE, pid |-> 0],
            c |-> CaptureResolve(M, class, 0, TRUE, FALSE)]

ImportedAt(seen, class, ws) == [Observed(seen, class) EXCEPT !.w.ws = ws]
Imported(o) ==
  [Pin(M, Correlate(list, <<o>>, o), FreshId(list, 1), o) EXCEPT !.enabled = TRUE]

OfferPin(o, entry) ==
  /\ o.c.source # None
  /\ Offer("import", entry.id, Over(list, {entry}), delays)

OfferImported(o) == OfferPin(o, Imported(o))
Import(class, ws) == OfferImported(ImportedAt(Seen, class, ws))

Retyped(p, argv) ==
  [p EXCEPT !.argv = argv, !.source = "overrides-table", !.provenance = None, !.cwd = None,
            !.label = IF @ # None THEN @ ELSE DisplayLabel(M, p.wclass, argv)]

OfferTyped(p, words) ==
  /\ words # <<>>
  /\ Offer("set-exec", p.id,
           Over(list, {Retyped(p, [i \in DOMAIN words |-> Unspelled(words[i])])}), delays)

SetExec(p, text) == OfferTyped(p, TypedArgv(text))

SetDelays(d) == d # delays /\ Offer("set-delays", 0, list, d)

(* A reducing change: no proposal, the daemon takes the pin out.           *)
Drop(p) ==
  /\ Readable /\ pending = NoProposal /\ changes < MaxChanges
  /\ list' = list \ {p}
  /\ changes' = changes + 1
  /\ UNCHANGED <<machine, open, file, delays, pending>>

(* What relaunchd tells the user of the proposal.                          *)
Reviewed == Compute(list, delays, pending.entries, pending.delays)

(* relaunchd signs what was reviewed and the engine installs it.  It       *)
(* refuses a change too large to review and has nothing to sign of none.   *)
Authorize ==
  /\ pending # NoProposal
  /\ Reviewed.ok /\ Reviewed.hasChange
  /\ list' = pending.entries
  /\ delays' = pending.delays
  /\ file' = "signed"
  /\ pending' = NoProposal
  /\ UNCHANGED <<machine, open, changes>>

Cancel ==
  /\ pending # NoProposal
  /\ pending' = NoProposal
  /\ UNCHANGED <<machine, open, file, list, delays, changes>>

Edit ==
  \/ \E i \in DOMAIN M.windows : CloseWindow(i)
  \/ \E class \in Named, ws \in Targets : Import(class, ws)
  \/ \E p \in list, text \in Typed : SetExec(p, text)
  \/ \E d \in Delays : SetDelays(d)
  \/ \E p \in list : Drop(p)

Next ==
  \/ \E i \in DOMAIN M.windows : OpenWindow(i)
  \/ \E mode \in {"replace", "merge"} : Propose(mode)
  \/ machine.k \in Working /\ Edit
  \/ Authorize
  \/ Cancel

Spec == Init /\ [][Next]_vars

-----------------------------------------------------------------------------
(* Correctness.                                                            *)

(* The machine as it starts: where what depends on no state is evaluated.  *)
Fresh == machine.k \in Working /\ open = <<>> /\ list = {} /\ ~Readable

IsTyped(p) == p.source = "overrides-table"

Settles(seen, once, modes) ==
  \A mode \in modes, order \in {seen, Reverse(seen)} : Save(M, once, order, mode) = once

Distinct(seen, chosen) ==
  chosen = {i \in DOMAIN seen : Proposable(seen[i])} /\ Cardinality(chosen) <= MaxEntries

(* Capturing an unchanged desktop again changes nothing, neither mode, and *)
(* neither does the compositor listing the windows in another order        *)
(* (propose.rs:5): with no identical windows and room for all of them, a   *)
(* proposal is what its own windows propose again.                         *)
RecaptureSettles ==
  LET seen == Seen IN
  pending = NoProposal /\ Distinct(seen, Chosen(seen)) =>
    /\ Settles(seen, Save(M, list, seen, "replace"), {"replace", "merge"})
    /\ Settles(seen, Save(M, list, seen, "merge"), {"merge"})

Brings(new, p, o) ==
  /\ Proposable(o) /\ PinPlace(p) = Place(o)
  /\ \/ p.argv = o.c.argv
     \/ IsTyped(p) /\ \A q \in new : PinPlace(q) = PinPlace(p) => q = p

IsDesktop(seen, new) ==
  /\ \A i \in DOMAIN seen :
       Proposable(seen[i]) => Cardinality({p \in new : Brings(new, p, seen[i])}) = 1
  /\ \A p \in new : \E i \in DOMAIN seen : Brings(new, p, seen[i])

(* A Save is the desktop: each open window that may be signed is brought   *)
(* back by exactly one pin of its place, its own command or the one the    *)
(* user typed for the only pin there, and no pin is of anything else, the  *)
(* base's own pins and ids mixed in or not.                                *)
SaveIsTheDesktop ==
  LET seen == Seen IN
  pending = NoProposal /\ Cardinality(Chosen(seen)) <= MaxEntries =>
    IsDesktop(seen, Save(M, list, seen, "replace"))

(* A command the user typed stays with its pin, label and all, until the   *)
(* user types another, drops the pin, or replaces the list by windows that *)
(* are not the pin's.                                                      *)
TypedCommandStays ==
  [][\A p \in list : IsTyped(p) =>
       \/ \E q \in list' : q.id = p.id /\ q.argv = p.argv /\ q.label = p.label
       \/ pending.kind = "set-exec" /\ pending.id = p.id
       \/ pending.kind \in {"replace", None} /\ p.id \notin Ids(list')]_vars

(* The host processes a chain of host processes leads to from p.           *)
HostAncestors(m, p) ==
  LET hosts == {q \in DOMAIN m.procs : IsHost(m, q)}
  IN  {q \in hosts : \A S \in SUBSET hosts :
         (p \in hosts => p \in S) /\ (\A r \in S : Parent(m, r) \in hosts => Parent(m, r) \in S)
           => p \in hosts /\ q \in S}

OwnCommands ==
  [k \in DOMAIN Machines |-> [i \in DOMAIN Machines[k].windows |->
     LET m == Machines[k] IN
     {Argv(m, p) : p \in {q \in HostAncestors(m, m.windows[i].pid) :
        /\ Argv(m, q) # <<>> /\ ~IsSmashed(Argv(m, q))
        /\ ~HasWord(Argv(m, q), Helper \cup Service)}}]]

MayBeSigned(w, c, own) ==
  /\ c.source = "cmdline" =>
       /\ ~w.xwayland /\ ~SharesProcess(Windows, w)
       /\ \E argv \in own : IsPrefix(argv, c.argv)
  /\ ~c.trusted => \A p \in Save(M, {}, <<[w |-> w, c |-> c]>>, "replace") : ~p.enabled
  /\ c.source # None =>
       /\ c.trusted \/ M.apps[c.desktop].root
       /\ ValidEntry([ws |-> 1, argv |-> c.argv, source |-> c.source, provenance |-> c.provenance])

(* The trust gate: a command line is signed only for a native window, and  *)
(* only that of a process the host vouches for all the way up from the     *)
(* window, never a helper's, a service's, a rewritten one or one that two  *)
(* classes share; an untrusted window gets a root-owned launcher's command *)
(* or none, and a pin that stays off; and every capture that may be signed *)
(* obeys the signed document's rules.                                      *)
TrustGate ==
  \A i \in ToSet(open) : MayBeSigned(M.windows[i], CaptureOf(i), OwnCommands[machine.k][i])

(* What the machine is once a captured command has been launched, at the   *)
(* pid `at`: a terminal starts the command it is given, or a shell, in the *)
(* directory it is launched in.                                            *)
Launched(m, c, at) ==
  LET option == TerminalOption(m, c.argv)
      given == IF option = NoOption THEN AfterProgram(c.argv)
               ELSE SubSeq(c.argv, 1 + SelectInSeq(c.argv, LAMBDA w : w = option), Len(c.argv))
      inside == IF NamesCommand(c.argv, option) THEN given ELSE <<"zsh">>
      refused == \E p \in DOMAIN m.procs : m.procs[p].ns = "refused" /\ m.procs[p].argv = inside
      main == [ns |-> "host", argv |-> c.argv, ppid |-> 1, tpgid |-> 0, cwd |-> c.cwd]
      child == [ns |-> IF refused THEN "refused" ELSE "host", argv |-> inside,
                ppid |-> at, tpgid |-> at + 1, cwd |-> c.cwd]
      started == IF option = None THEN {at} ELSE {at, at + 1}
  IN  [m EXCEPT !.procs = [p \in DOMAIN m.procs \cup started |->
        IF p = at THEN main ELSE IF p = at + 1 THEN child ELSE m.procs[p]]]

SameAgain(m, class, c, at) ==
  c.source = "cmdline" /\ c.cwd # None =>
    CaptureResolve(Launched(m, c, at), class, at, FALSE, FALSE) = c

Resettled ==
  [k \in DOMAIN Machines |-> [i \in DOMAIN Machines[k].windows |->
     SameAgain(Readings[k], Machines[k].windows[i].class, Readings[k].captures[i][FALSE],
               1 + Max(DOMAIN Machines[k].procs))]]

(* A command line captured at one login and launched at the next is        *)
(* captured again as it is: words, directory and what the terminal runs.   *)
(* A list saved after every login neither grows nor drifts.                *)
RelaunchSettles ==
  \A i \in ToSet(open) : ~SharesProcess(Windows, M.windows[i]) => Resettled[machine.k][i]

(* The launcher a signed pin is written to and run from.                   *)
Signed(label, argv, cwd) ==
  [exec |-> Canonical(argv), cwd |-> cwd,
   launcher |-> LauncherBytes(label, SplitCanonical(Canonical(argv)), cwd)]
RunsAs(entry, label, argv, cwd) ==
  IF entry.launcher = NoLauncher THEN \E text \in {label, cwd} \cup ToSet(argv) : ~Printable(text)
  ELSE Decide(entry, entry.launcher) = Spawn(argv, cwd) /\ ReadString(entry.launcher.name) = label

LabelText(p) == Spell(<<p.label>>)[1]
CwdText(p) == IF p.cwd = None THEN <<>> ELSE Spell(<<p.cwd>>)[1]

(* What a pin's launcher says, read back as the anchor reads it at boot,   *)
(* is word for word the argv that was signed, in the directory that was    *)
(* signed, under its own label, whatever quotes, escapes, blanks or        *)
(* percent signs the user typed; only a control character has no launcher. *)
LaunchRunsThePin ==
  /\ \A p \in list \cup pending.entries :
       RunsAs(Signed(LabelText(p), Spell(p.argv), CwdText(p)), LabelText(p), Spell(p.argv), CwdText(p))
  /\ Fresh => \A argv \in Samples :
       RunsAs(Signed(<<>>, argv, <<>>), <<>>, argv, <<>>)

(* Two commands are one when they are the same words, or one is a shell's  *)
(* line that reads as the words of the other.                              *)
LineWords(argv) == IF IsShellCommand(argv) THEN ReadWords(argv[3]).words ELSE <<>>
SameCommand(a, b) == a = b \/ LineWords(a) = b \/ LineWords(b) = a

(* set-exec trims its line: a blank at the very end of a command is lost,  *)
(* and a shell's line keeps none at either end (nor can it be empty).      *)
LosesBlank(argv) ==
  LET last == argv[Len(argv)] IN
  \/ last # <<>> /\ Last(last) = Blank
  \/ IsShellCommand(argv) /\ (last = <<>> \/ Trimmed(last) # last)

(* The line the panel shows for a command, saved as it stands, runs the    *)
(* same words: the quoting and the reading of it agree on every character, *)
(* and a line only a shell can read goes back to the shell.                *)
ShownIsRun ==
  LET shown == {Spell(p.argv) : p \in list \cup pending.entries} \cup (IF Fresh THEN Samples ELSE {})
  IN  \A argv \in shown :
        LosesBlank(argv) \/ SameCommand(TypedArgv(ExecText(Canonical(argv))), argv)

(* A command survives every text it is carried in: the signed exec, its    *)
(* launcher and the line the user sees and may type again.                 *)
CommandSurvives == LaunchRunsThePin /\ ShownIsRun

(* The panel warns of a pin's command exactly when boot would not find it: *)
(* "the same verdict as the panel's execOk" (launch.rs:90).                *)
OneVerdict ==
  LET row(p) == PinRow(p, Spell(p.argv)) IN
  Warnings({row(p) : p \in list}) = {row(p) : p \in {q \in list : ~Launchable(Spell(q.argv))}}

(* No capital outside ASCII; and in no pin's class that is the same        *)
(* otherwise.                                                              *)
OneCase(class) == AsciiLower(class) = FullLower(class)
OneSpelling(class) ==
  OneCase(class) /\ \A p \in list : FullLower(p.wclass) = FullLower(class) => OneCase(p.wclass)

AddsItself(rows, r, o, entry) ==
  o.c.source # None =>
    /\ entry.ws = r.ws /\ AsciiLower(entry.wclass) = AsciiLower(r.class)
    /\ OneCase(r.class) =>
         RunningRows(Over(list, {entry}), Windows) =
           {q \in rows : AsciiLower(q.class) # AsciiLower(r.class)}

(* Every app with a window on a real workspace is on the panel once, under *)
(* the pins or in one row of its own; and what that row's + adds is a pin  *)
(* of its class there, after which the row is gone, whichever window of    *)
(* the class the command came from.  Apps are told apart as import does,   *)
(* ignoring the case of ASCII letters.  With a capital outside ASCII in    *)
(* its class an app may be there twice, or not at all, and its row stays   *)
(* (list.rs:124, 145).  (A window without a class has no row.)             *)
EachAppOnce ==
  LET rows == RunningRows(list, Windows)
      pinned(class) == \E p \in list : AsciiLower(p.wclass) = AsciiLower(class)
      imported(r) == ImportedAt(Seen, r.class, r.ws)
  IN  pending = NoProposal =>
        /\ \A class \in {Windows[i].class : i \in {k \in DOMAIN open : Windows[k].ws >= 1}} :
             class # "" /\ OneSpelling(class) =>
               Cardinality({r \in rows : r.class = class}) = IF pinned(class) THEN 0 ELSE 1
        /\ \A r \in rows : AddsItself(rows, r, imported(r), Imported(imported(r)))

(* The review tells all: the diff's lines, laid over the list that was     *)
(* approved before, are the proposal to the last field; an app the summary *)
(* leaves unmarked is launched as it was when last approved; everything    *)
(* that will open, and nothing else, is in the summary; and "nothing to    *)
(* authorize" is said exactly of a proposal that changes nothing.          *)
ReviewTellsAll ==
  LET r == Reviewed
      was == {FmtEntry(p) : p \in list}
      will == {FmtEntry(p) : p \in pending.entries}
      gone == UNION {l.was : l \in r.lines}
      come == UNION {l.now : l \in r.lines}
      opening(entries) == {[id |-> e.class, ws |-> e.ws] : e \in {f \in entries : f.enabled}}
  IN  pending # NoProposal =>
        /\ \A p, q \in list \cup pending.entries : FmtEntry(p) = FmtEntry(q) => p = q
        /\ (was \ gone) \cup come = will
        /\ {[id |-> a.id, ws |-> a.ws] : a \in r.opens} = opening(will)
        /\ {a.id : a \in r.stops} = {a.id : a \in opening(was)} \ {a.id : a \in opening(will)}
        /\ \A a \in r.opens : a.mark = "same" =>
             {e \in was : e.class = a.id} = {e \in will : e.class = a.id}
        /\ r.hasChange <=> pending.entries # list \/ pending.delays # delays

(* A path's segments, each from its slash up to the next, and the dot      *)
(* segments resolved on those kept so far: the last of them leaves a slash.*)
PathOf(segments) == FlattenSeq([k \in DOMAIN segments |-> <<"/">> \o segments[k]])

Resolve(kept, segment, isLast) ==
  LET end == IF isLast THEN <<<<>>>> ELSE <<>> IN
  CASE segment = <<".">> -> kept \o end
    [] segment = <<".", ".">> -> (IF kept = <<>> THEN kept ELSE Front(kept)) \o end
    [] OTHER -> Append(kept, segment)

Resolved(path) ==
  LET segment(i) == Upto(From(path, i + 1), "/")
      kept[i \in 0 .. Len(path)] ==
        IF i = 0 THEN <<>>
        ELSE IF path[i] # "/" THEN kept[i - 1]
        ELSE Resolve(kept[i - 1], segment(i), i + Len(segment(i)) = Len(path))
  IN  PathOf(kept[Len(path)])

TriedPaths == {<<"/">> \o p : p \in UNION {[1 .. n -> {"/", ".", "a"}] : n \in 0 .. MaxPath - 1}}

(* A URL is put together from its parts, in turn.                          *)
TriedUsers == {<<>>, <<"u", "@">>, <<"u", ":", "p", "@">>}
TriedHosts == {<<>>, <<"H", "a">>, <<"[", ":", "H", "]">>, <<"a", "%">>, <<"e-acute">>}
TriedEnds == {<<>>, <<"/">>, <<"/", "a", "_", "/", ".", ".">>, <<"/", "/", "@", ":", "H">>}
TriedQueries == {<<>>, <<"?">>, <<"?", "u", "@", "a", "/", ".", ".", "?">>}
TriedFragments == {<<>>, <<"#", "/", "?", "@", ":", "/", "/">>}

SiteOf(host, path) ==
  LET names(text) == [i \in DOMAIN text |-> IF text[i] = "/" THEN "_" ELSE text[i]]
  IN  IF host = <<>> THEN NoIdentity
      ELSE IF \E c \in ToSet(Lower(host)) : c = "%" \/ c \in Foreign THEN Uncanonical
      ELSE Known(Lower(host) \o <<"_">> \o names(Resolved(IF path = <<>> THEN <<"/">> ELSE path)))

(* A web app is known by its site: the identity of a URL is that of its    *)
(* host and path, with every dot segment resolved as a browser does it,    *)
(* whatever user, port, query and fragment are around them and whatever    *)
(* characters those hold; and no two paths a browser tells apart become    *)
(* one (webapp.rs:117: empty segments and a final slash are kept).         *)
IdentityIsTheSite ==
  Fresh =>
    /\ \A path \in TriedPaths : RemoveDotSegments(path) = Resolved(path)
    /\ \A user \in TriedUsers, host \in TriedHosts, port \in {<<>>, <<":", "8">>},
          end \in TriedEnds, query \in TriedQueries, fragment \in TriedFragments :
         Identity(<<"h", ":", "/", "/">> \o user \o host \o port \o end \o query \o fragment)
           = SiteOf(host, end)

(* Desktops a login may come to: each of the machine's windows gone, back, *)
(* on another workspace, or floating.                                      *)
Changed(w, how) ==
  CASE how = "moved" -> [w EXCEPT !.ws = @ + 1]
    [] how = "floated" -> [w EXCEPT !.float = "floating"]
    [] OTHER -> w
Desktops ==
  {LET back == Keep([i \in DOMAIN M.windows |-> i], {i \in DOMAIN M.windows : how[i] # "gone"})
   IN  [k \in DOMAIN back |-> Changed(M.windows[back[k]], how[back[k]])] :
     how \in [DOMAIN M.windows -> {"gone", "back", "moved", "floated"}]}

CountOf(windows, class) == Cardinality({i \in DOMAIN windows : windows[i].class = class})
Floats(w) == w.float = "floating"
IsThere(now, w) ==
  \E v \in ToSet(now) : v.class = w.class /\ v.ws = w.ws /\ Floats(v) = Floats(w)

(* The diff says what is gone: one line for each recorded class; it is     *)
(* missing exactly when fewer of its windows are back, whatever moved; it  *)
(* is moved exactly when enough are, and some place it was seen at has     *)
(* none of them; every other one is ok, whatever else is open now.  (A     *)
(* window without a class is never counted as back.)                       *)
DiffTells(before, now, report) ==
  /\ {c.class : c \in report} = {w.class : w \in ToSet(before)}
  /\ \A c \in {d \in report : d.class # ""} :
       LET class == c.class
           wasAt == {w \in ToSet(before) : w.class = class}
           lost == {w \in wasAt : ~IsThere(now, w)}
       IN  /\ Cardinality({d \in report : d.class = class}) = 1
           /\ Verdict(c) = IF CountOf(now, class) < CountOf(before, class) THEN "missing"
                           ELSE IF lost # {} THEN "moved" ELSE "ok"
           /\ Expected(c) = {} <=> lost = {}
           /\ \A e \in Expected(c) :
                e.by = "ws" => \A v \in ToSet(now) : v.class = class => v.ws # e.ws

DiffTellsWhatIsGone ==
  machine.k \in Working /\ file = "none" /\ list = {} /\ pending = NoProposal =>
    \A now \in Desktops : DiffTells(Windows, now, DiffReport(Snapshot(Windows, <<>>), now))

(* boot.rs, group_keys: two pins are instances of one app when their first *)
(* words' basenames or the first words of their window classes are equal.  *)
GroupKeys(p) == {<<"p", Base(p.argv[1])>>, <<"c", FirstWord[p.wclass]>>}

(* boot.rs:183: launch order, by workspace and then as the list has them.  *)
LaunchOrder(pins) ==
  LET before(p, q) == p.ws < q.ws \/ (p.ws = q.ws /\ p.id < q.id)
  IN  [k \in 1 .. Cardinality(pins) |->
         CHOOSE p \in pins : Cardinality({q \in pins : before(q, p)}) = k - 1]

(* The loops that group a list leave two rows in one group exactly when a  *)
(* chain of shared programs and class words joins them, whatever order     *)
(* merged them: a rename in the middle of the pass loses nobody.           *)
GroupsAreComponents ==
  LET rows == LaunchOrder({p \in list : p.enabled})
      keys == [i \in DOMAIN rows |-> GroupKeys(rows[i])]
      group == GroupOf(keys)
  IN  pending = NoProposal =>
        \A e \in DOMAIN rows : {f \in DOMAIN rows : group[f] = group[e]} = Connected(keys, e)
=============================================================================
