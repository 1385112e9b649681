------------------------------- MODULE Capture -------------------------------
(***************************************************************************)
(* What the engine reads off a running window (relaunch-engine: host.rs,   *)
(* index.rs, webapp.rs, resolve.rs, compositor.rs; relaunch-shell argv.rs):*)
(* the one walk over process state, the index of desktop launchers, and    *)
(* the trust gate that decides what command may be signed for the window.  *)
(* These are functions of one reading of the machine, m:                   *)
(*   m.procs  pid -> [ns: "host" | "other" | "refused", argv (<<>> when    *)
(*            unreadable), ppid, tpgid (0 for no terminal), cwd]           *)
(*   m.apps   what Index makes of the launchers, in index order            *)
(* A word is an atom; the constants say what the code tests words for.     *)
(***************************************************************************)
EXTENDS WebApps, Lists

CONSTANTS
  FileCodes,  \* the field codes a launch with no file drops
  Helper,     \* --type=... words
  Service,    \* --gapplication-service
  Smashed,    \* words holding a space that are no executable file
  Wrappers,   \* the words of Wrapping that run the command after them
  Shells,     \* bash, sh, zsh, dash
  ScriptLeaf, \* a shell's script -> the basename of its first word
  BaseOf,     \* a path word -> its last component
  KeyOf,      \* a class, id or name -> its index key, when it differs
  IdentOf     \* a class <word>-<identity>-Default -> that identity

ASSUME WordsAssumption == Helper \cup Service \subseteq Flags /\ FileCodes \subseteq FieldCodes
                          /\ Wrappers \subseteq Wrapping

None == "none"
NoOption == ""
MaxHops == 8

Base(w) == IF w \in DOMAIN BaseOf THEN BaseOf[w] ELSE w
Key(n) == IF n \in DOMAIN KeyOf THEN KeyOf[n] ELSE n

(* The program of an argv, past wrappers and assignments, by basename.     *)
Program(argv) ==
  LET i == SelectInSeq(argv, LAMBDA w : w \notin Wrapping)
  IN  IF i = 0 THEN None ELSE Base(argv[i])

(* The same, seen through a shell's -c; what an app is labelled by.        *)
Leaf(argv) ==
  LET i == SelectInSeq(argv, LAMBDA w : w \notin Wrapping)
  IN  IF i # 0 /\ i + 2 <= Len(argv) /\ Base(argv[i]) \in Shells /\ argv[i + 1] = "-c"
           /\ argv[i + 2] \in DOMAIN ScriptLeaf
      THEN ScriptLeaf[argv[i + 2]] ELSE Program(argv)

HasWord(argv, W) == \E i \in DOMAIN argv : argv[i] \in W

-----------------------------------------------------------------------------
(* host.rs: process state.                                                 *)

IsHost(m, p) == p \in DOMAIN m.procs /\ m.procs[p].ns = "host"
Argv(m, p) == IF p \in DOMAIN m.procs THEN m.procs[p].argv ELSE <<>>
Parent(m, p) == IF p \in DOMAIN m.procs THEN m.procs[p].ppid ELSE 0
Cwd(m, p) == IF IsHost(m, p) THEN m.procs[p].cwd ELSE None

(* The pids a walk from p comes to: it never goes past one that is not on  *)
(* the host.                                                               *)
Hops(m, p) ==
  LET hop[k \in 1 .. MaxHops] ==
        IF k = 1 THEN p
        ELSE LET q == hop[k - 1]
             IN  IF IsHost(m, q) /\ Parent(m, q) # q THEN Parent(m, q) ELSE 0
  IN  hop

(* Mutant: an argv is read before its process is known to be a host's.     *)
OwnProcessReadFirst(m, p) ==
  LET hop == Hops(m, p)
      own == {k \in 1 .. MaxHops :
                Argv(m, hop[k]) # <<>> /\ ~HasWord(Argv(m, hop[k]), Helper)}
  IN  IF own = {} THEN 0 ELSE hop[Min(own)]

(* The nearest host process from p up whose argv is readable and is not a  *)
(* helper's (0: none).  Only host processes' argvs are read.               *)
OwnProcess(m, p) ==
  LET hop == Hops(m, p)
      own == {k \in 1 .. MaxHops :
                IsHost(m, hop[k]) /\ Argv(m, hop[k]) # <<>> /\ ~HasWord(Argv(m, hop[k]), Helper)}
  IN  IF own = {} THEN 0 ELSE hop[Min(own)]

(* A foreground leader whose namespaces the kernel refuses to show, and    *)
(* that the host started from the terminal's shell: the hop at which its   *)
(* ancestors reach the shell (0: it is not one).                           *)
HiddenLeader(m, leader, shell) ==
  LET hop == Hops(m, Parent(m, leader))
      at == {k \in 1 .. MaxHops : hop[k] = shell}
  IN  IF leader \in DOMAIN m.procs /\ m.procs[leader].ns = "refused" /\ at # {}
      THEN Min(at) ELSE 0

(* Its directory is hidden too: the nearest ancestor's.                    *)
LeaderCwd(m, leader, shell) ==
  LET hop == Hops(m, Parent(m, leader))
      seen == {k \in 1 .. HiddenLeader(m, leader, shell) : Cwd(m, hop[k]) # None}
  IN  IF IsHost(m, leader) THEN Cwd(m, leader)
      ELSE IF seen = {} THEN None ELSE Cwd(m, hop[Min(seen)])

NothingShown == [kind |-> "unknown", argv |-> <<>>, cwd |-> None]

LeaderShows(m, shell, leader) ==
  IF leader = shell THEN [kind |-> "shell", argv |-> <<>>, cwd |-> Cwd(m, shell)]
  ELSE IF \/ Argv(m, leader) = <<>>
          \/ ~IsHost(m, leader) /\ HiddenLeader(m, leader, shell) = 0
  THEN NothingShown
  ELSE [kind |-> "command", argv |-> Argv(m, leader), cwd |-> LeaderCwd(m, leader, shell)]

(* What runs in the foreground of the terminal at p: "unknown", its own    *)
(* "shell", or a "command" started in it.                                  *)
Foreground(m, p) ==
  LET kids == {c \in DOMAIN m.procs :
                 Parent(m, c) = p /\ IsHost(m, c) /\ m.procs[c].tpgid > 0}
  IN  IF ~IsHost(m, p) \/ kids = {} THEN NothingShown
      ELSE LeaderShows(m, Min(kids), m.procs[Min(kids)].tpgid)

-----------------------------------------------------------------------------
(* index.rs: the desktop index.  A launcher is a file [stem, id, depth,    *)
(* system, owners, keys]: its id is the path under its applications        *)
(* directory, owners who may write it or a directory on the way; keys maps *)
(* the keys that could be read to values, Exec to its words.               *)

Value(f, key, default) == IF key \in DOMAIN f.keys THEN f.keys[key] ELSE default

(* The argv a pin may copy from the file; <<>> when the file is refused.   *)
ExecArgv(f) ==
  LET exec == Value(f, "Exec", <<>>)
  IN  IF /\ Value(f, "Type", "Application") = "Application"
         /\ Value(f, "DBusActivatable", "false") \in {"true", "false"}
         /\ Value(f, "Terminal", "false") = "false"
         /\ ToSet(exec) \cap FieldCodes \subseteq FileCodes
      THEN Keep(exec, {i \in DOMAIN exec : exec[i] \notin FileCodes}) ELSE <<>>

RootOwned(f) == f.system /\ f.owners = {"root"}

(* One file's entry.  What cannot be read still claims its id.             *)
Entry(f) ==
  [stem |-> f.stem, id |-> f.id,
   wmclass |-> Value(f, "StartupWMClass", None), name |-> Value(f, "Name", None),
   exec |-> Value(f, "Exec", <<>>), argv |-> ExecArgv(f),
   hidden |-> Value(f, "Hidden", "false") = "true",
   emulator |-> "TerminalEmulator" \in Value(f, "Categories", {}),
   option |-> Value(f, "X-TerminalArgExec", "-e"),
   opens |-> IdentityForExec(Value(f, "Exec", <<>>)), root |-> RootOwned(f)]

(* Every launcher of the application directories, in order, no deeper than *)
(* one directory down.                                                     *)
Index(dirs) ==
  LET all == FlattenSeq(dirs)
      files == Keep(all, {i \in DOMAIN all : all[i].depth <= 2})
  IN  [i \in DOMAIN files |-> Entry(files[i])]

(* The launcher that claims a window class.                                *)

Listed(m) == {i \in DOMAIN m.apps : ~m.apps[i].hidden /\ m.apps[i].exec # <<>>}
FirstOf(S) == IF S = {} THEN 0 ELSE Min(S)

(* The files that keep their desktop id: the first with it, hidden or not. *)
Claims(m) ==
  {i \in DOMAIN m.apps : \A j \in DOMAIN m.apps : m.apps[j].id = m.apps[i].id => j >= i}

(* A web app's launcher, by the identity in its window class: none when    *)
(* two launchers share it, or when some launcher's identity is unknown.    *)
WebApp(m, class) ==
  LET live == {i \in Claims(m) : ~m.apps[i].hidden}
      same == {i \in live : m.apps[i].opens = Known(IdentOf[class])}
  IN  IF class \notin DOMAIN IdentOf
         \/ (\E i \in live : m.apps[i].opens = Uncanonical)
         \/ (\E i, j \in same : i # j)
      THEN 0 ELSE FirstOf(same)

(* Class first, then desktop id, then web-app identity, then name (a last  *)
(* resort, for a launcher that names no other class).                      *)
LauncherFor(m, class) ==
  LET k == Key(class)
      byClass == {i \in Listed(m) : m.apps[i].wmclass # None /\ Key(m.apps[i].wmclass) = k}
      byId == {i \in Listed(m) : Key(m.apps[i].stem) = k}
      byName == {i \in Listed(m) :
                   /\ m.apps[i].name # None /\ Key(m.apps[i].name) = k
                   /\ m.apps[i].wmclass = None \/ Key(m.apps[i].wmclass) = k}
  IN  IF byClass # {} THEN Min(byClass)
      ELSE IF byId # {} THEN Min(byId)
      ELSE IF WebApp(m, class) # 0 THEN WebApp(m, class)
      ELSE FirstOf(byName)

(* The option a terminal emulator takes before a command (NoOption: none   *)
(* at all), or None when argv runs no terminal emulator.                   *)
TerminalOption(m, argv) ==
  LET same == {i \in Listed(m) :
                 m.apps[i].emulator /\ Program(m.apps[i].exec) = Program(argv)}
  IN  IF same = {} THEN None ELSE m.apps[Min(same)].option

-----------------------------------------------------------------------------
(* resolve.rs: one window's capture.                                       *)

AfterProgram(argv) ==
  SubSeq(argv, 1 + SelectInSeq(argv, LAMBDA w : w \notin Wrapping), Len(argv))

NamesCommand(argv, option) ==
  IF option = NoOption THEN \E i \in DOMAIN AfterProgram(argv) : AfterProgram(argv)[i] \notin Flags
  ELSE HasWord(argv, {option})

(* The program a terminal's own argv names to run in it.                   *)
NamedCommand(m, argv) ==
  LET option == TerminalOption(m, argv)
      after == AfterProgram(argv)
      rest == IF option = NoOption
              THEN SubSeq(after, SelectInSeq(after, LAMBDA w : w \notin Flags), Len(after))
              ELSE SubSeq(argv, 1 + SelectInSeq(argv, LAMBDA w : w = option), Len(argv))
  IN  IF option = None \/ ~NamesCommand(argv, option) THEN None ELSE Program(rest)

IsSmashed(argv) == Len(argv) = 1 /\ argv[1] \in Smashed

(* A terminal's foreground: a command only when its own argv names none.   *)
Shows(option, argv, fg) ==
  [fg EXCEPT !.kind =
     IF option = None THEN "unknown"
     ELSE IF @ = "command" /\ (NamesCommand(argv, option) \/ IsSmashed(fg.argv)) THEN "shell"
     ELSE @]

TerminalShows(m, p, argv) == Shows(TerminalOption(m, argv), argv, Foreground(m, p))

(* Mutant: the option before the command is forgotten.                     *)
HostedWithoutOption(m, terminal, hosted) == terminal \o hosted

HostedCommand(m, terminal, hosted) ==
  LET option == TerminalOption(m, terminal)
  IN  terminal \o (IF option = NoOption THEN <<>> ELSE <<option>>) \o hosted

(* Only a native surface of a host process is trusted.                     *)
WindowTrusted(m, xwayland, p) == ~xwayland /\ IsHost(m, p)

(* The desktop launcher whose Exec may be the command (0: none).  A root   *)
(* owned system launcher is the only one an untrusted window gets.         *)
Desktop(m, class, rootOnly) ==
  LET i == LauncherFor(m, class)
  IN  IF i = 0 THEN 0
      ELSE IF (rootOnly => m.apps[i].root) /\ m.apps[i].argv # <<>>
      THEN i ELSE 0

Captured(argv, source, cwd, hosted, desktop, trusted) ==
  [argv |-> argv, source |-> source,
   provenance |-> IF source = "cmdline" THEN "host" ELSE None,
   cwd |-> cwd, hosted |-> hosted, desktop |-> desktop, trusted |-> trusted]

(* A window of this class, d its launcher and `at' its own process.        *)
(* A guess (no source) is never put in a list, whatever its words.         *)
CaptureFrom(m, class, trusted, d, at, argv, shown) ==
  LET own == /\ trusted /\ at # 0 /\ ~IsSmashed(argv) /\ ~HasWord(argv, Service)
             /\ d = 0 \/ Program(m.apps[d].argv) = Program(argv)
  IN  IF own /\ shown.kind = "command"
      THEN Captured(HostedCommand(m, argv, shown.argv), "cmdline", shown.cwd,
                    Program(shown.argv), 0, trusted)
      ELSE IF own
      THEN Captured(argv, "cmdline",
                    IF shown.kind = "shell" THEN shown.cwd ELSE Cwd(m, at),
                    NamedCommand(m, argv), 0, trusted)
      ELSE IF d # 0
      THEN Captured(m.apps[d].argv, "desktop-file", None, None, d, trusted)
      ELSE Captured(<<class>>, None, None, None, 0, trusted)

CaptureAt(m, class, trusted, at) ==
  CaptureFrom(m, class, trusted, Desktop(m, class, ~trusted), at, Argv(m, at),
              TerminalShows(m, at, Argv(m, at)))

CaptureResolve(m, class, p, xwayland, shares) ==
  CaptureAt(m, class, WindowTrusted(m, xwayland, p), IF shares THEN 0 ELSE OwnProcess(m, p))

-----------------------------------------------------------------------------
(* compositor.rs: the windows, [class, ws, float, xwayland, pid].          *)

SharesProcess(windows, w) ==
  \E i \in DOMAIN windows : windows[i].pid = w.pid /\ windows[i].class # w.class

(* The name of a launcher that runs `leaf' through a wrapper or a shell    *)
(* (gio or gtk-launch is installed); None for none.                        *)
NameForLeaf(m, leaf) ==
  LET wraps(app) == app.exec[1] \in Wrappers \/ Base(app.exec[1]) \in Shells
      named == {i \in Listed(m) :
                  /\ m.apps[i].name # None /\ wraps(m.apps[i])
                  /\ Leaf(m.apps[i].exec) \notin {None, m.apps[i].exec[1]}
                  /\ Key(Leaf(m.apps[i].exec)) = Key(leaf)}
  IN  IF named = {} THEN None ELSE m.apps[Min(named)].name

DisplayLabel(m, class, argv) ==
  IF Leaf(argv) = None THEN class
  ELSE IF NameForLeaf(m, Leaf(argv)) # None THEN NameForLeaf(m, Leaf(argv))
  ELSE Leaf(argv)

(* A new pin's label: what a terminal hosts, else its launcher's name,     *)
(* else that of what it runs.                                              *)
CaptureLabel(m, class, c) ==
  LET i == IF c.desktop # 0 THEN c.desktop ELSE LauncherFor(m, class)
  IN  IF c.hosted # None THEN c.hosted
      ELSE IF i # 0 /\ m.apps[i].name # None THEN m.apps[i].name
      ELSE DisplayLabel(m, class, c.argv)
=============================================================================
