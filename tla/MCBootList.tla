----------------------------- MODULE MCBootList -----------------------------
(* BootList on a few machines, for TLC.                                    *)
EXTENDS BootList

Proc(ns, argv, ppid, tpgid, cwd) ==
  [ns |-> ns, argv |-> argv, ppid |-> ppid, tpgid |-> tpgid, cwd |-> cwd]
Host(argv, ppid, tpgid, cwd) == Proc("host", argv, ppid, tpgid, cwd)
Win(class, ws, pid, xwayland) ==
  [class |-> class, ws |-> ws, float |-> "tiled", xwayland |-> xwayland, pid |-> pid]

File(name, keys) ==
  [stem |-> name, id |-> name, depth |-> 1, system |-> TRUE, owners |-> {"root"}, keys |-> keys]
App(name, exec) == File(name, "Name" :> name @@ "Exec" :> exec)
AppOf(name, wmclass, exec) == File(name, "Name" :> name @@ "Exec" :> exec @@ "StartupWMClass" :> wmclass)
Emulator(name, exec) ==
  File(name, "Name" :> name @@ "Exec" :> exec @@ "StartupWMClass" :> name
               @@ "Categories" :> {"System", "TerminalEmulator"})
With(f, key, value) == [f EXCEPT !.keys = (key :> value) @@ @]
Own(f) == [f EXCEPT !.system = FALSE, !.owners = {"root", "user"}]

(* Terminals: a shell, a command started in a shell, one the kernel hides, *)
(* one on the terminal's own command line (with an editor over it).        *)
Terminals ==
  [procs |-> (10 :> Host(<<"foot">>, 1, 0, "/")) @@ (11 :> Host(<<"zsh">>, 10, 12, "/notes"))
          @@ (12 :> Host(<<"/usr/bin/nvim", "todo">>, 11, 12, "/notes"))
          @@ (20 :> Host(<<"foot">>, 1, 0, "/")) @@ (21 :> Host(<<"zsh">>, 20, 22, "/etc"))
          @@ (22 :> Proc("refused", <<"sudo", "htop">>, 21, 22, None))
          @@ (30 :> Host(<<"alacritty">>, 1, 0, "/")) @@ (31 :> Host(<<"zsh">>, 30, 32, "/src"))
          @@ (32 :> Host(<<"env", "X=1", "btop">>, 31, 32, "/src"))
          @@ (40 :> Host(<<"alacritty", "-e", "fish">>, 1, 0, "/"))
          @@ (41 :> Host(<<"fish">>, 40, 42, "/tmp")) @@ (42 :> Host(<<"nvim">>, 41, 42, "/tmp")),
   dirs |-> <<<<With(Emulator("foot", <<"uwsm-app", "--", "foot">>), "X-TerminalArgExec", ""),
                      With(Emulator("Alacritty", <<"alacritty">>), "Terminal", "no"),
                      App("dua", <<"bash", "-c", "dua i /">>)>>>>,
   windows |-> <<Win("foot", 1, 10, FALSE), Win("foot", 1, 20, FALSE),
                 Win("Alacritty", 1, 30, FALSE), Win("Alacritty", 2, 40, FALSE)>>]

(* One browser process behind a browser window and web apps, two launchers *)
(* of one identity, and a launcher the user's own file hides.              *)
Browser ==
  [procs |-> (10 :> Host(<<"brave">>, 1, 0, "/")) @@ (11 :> Host(<<"brave", "--type=gpu">>, 10, 0, "/"))
          @@ (20 :> Host(<<"chromium", "--app=mail">>, 1, 0, "/")),
   dirs |-> <<<<Own(With(App("chat", <<"brave", "--app=chat">>), "Hidden", "true")),
                      [App("mail", <<"sh">>) EXCEPT !.depth = 3]>>,
                    <<App("brave-browser", <<"env", "X=1", "brave", "%U">>),
                      App("mail", <<"brave", "--app=mail">>), App("chat", <<"brave", "%U", "http-chat">>),
                      App("news1", <<"brave", "--app=news">>), App("news2", <<"launch", "http-news">>),
                      App("crx", <<"brave", "--app-id=crx">>)>>>>,
   windows |-> <<Win("brave-browser", 1, 11, FALSE), Win("brave-mail-Default", 1, 10, FALSE),
                 Win("chromium-mail-Default", 2, 20, FALSE), Win("brave-chat-Default", 1, 10, FALSE),
                 Win("brave-news-Default", 2, 10, FALSE), Win("brave-crx-Default", 2, 10, FALSE)>>]

(* Windows that are not trusted: XWayland, sandboxed, and a sandboxed      *)
(* program's helper, whose parent may not be read.                         *)
Guests ==
  [procs |-> (10 :> Host(<<"steam">>, 1, 0, "/")) @@ (20 :> Proc("other", <<"zoom">>, 1, 0, "/"))
          @@ (21 :> Host(<<"zoom", "--type=gpu">>, 20, 0, "/")) @@ (30 :> Host(<<"game">>, 1, 0, "/")),
   dirs |-> <<<<App("steam", <<"steam">>), AppOf("zoom", "zoom", <<"flatpak", "zoom">>),
                      Own(App("game", <<"game">>)), Own(App("odd", <<"brave", "http-odd">>)),
                      App("mail", <<"brave", "--app=mail">>)>>>>,
   windows |-> <<Win("steam", 1, 10, TRUE), Win("zoom", 1, 20, FALSE), Win("zoom2", 1, 21, FALSE),
                 Win("game", 2, 30, TRUE), Win("steam", 2, 10, TRUE), Win("brave-mail-Default", 2, 20, FALSE)>>]

(* Command lines that are not the window's: a bus service, a rewritten     *)
(* title, a launcher that is not a command (and two windows nothing tells  *)
(* apart but their directory); a special workspace; and two classes that   *)
(* differ in a capital outside ASCII.                                      *)
Oddities ==
  [procs |-> (10 :> Host(<<"nautilus", "--gapplication-service">>, 1, 0, "/"))
          @@ (20 :> Host(<<"code --smashed">>, 1, 0, "/")) @@ (30 :> Host(<<"htop", "app">>, 1, 0, "/a"))
          @@ (31 :> Host(<<"htop", "app">>, 1, 0, "/b")),
   dirs |-> <<<<App("nautilus", <<"nautilus", "--new-window", "%u">>),
                      With(AppOf("code", "Code", <<"code", "%i">>), "DBusActivatable", "true"),
                      With(AppOf("app", "E-acute", <<"htop">>), "Terminal", "true")>>>>,
   windows |-> <<Win("nautilus", 1, 10, FALSE), Win("Code", 1, 20, FALSE), Win("E-acute", 2, 30, FALSE),
                 Win("Code", 0, 20, FALSE), Win("E-acute", 2, 31, FALSE), Win("e-acute", 1, 31, FALSE)>>]

(* Two terminals of one place, and a browser with a launcher of its own.   *)
Instances ==
  [procs |-> (10 :> Host(<<"foot">>, 1, 0, "/a")) @@ (20 :> Host(<<"foot", "btop">>, 1, 0, "/b"))
          @@ (30 :> Host(<<"brave">>, 1, 0, "/")),
   dirs |-> <<<<App("brave-browser", <<"brave">>)>>>>,
   windows |-> <<Win("foot", 1, 10, FALSE), Win("foot", 1, 20, FALSE),
                 Win("brave-browser", 1, 30, FALSE)>>]

Five == <<Terminals, Browser, Guests, Oddities, Instances>>

WrappingWords == {"env", "X=1", "uwsm-app", "--"}
WrapperWords == {"env", "uwsm-app"}
ShellNames == {"sh", "bash", "zsh"}
ScriptWord == "dua i /" :> "dua"
FlagWords == {"--", "-e", "-c", "--type=gpu", "--gapplication-service", "--app=mail", "--app=chat",
              "--app=news", "--app-id=crx", "--new-window"}
Codes == {"%U", "%u", "%i"}
NoFileCodes == {"%U", "%u"}
Asking(by, text) == [by |-> by, text |-> text]
Site(host) == <<"h", ":", "/", "/", host>>
WordsAsk == "--app=mail" :> Asking("app", Site("m") \o <<"/", "x", "/", ".", ".">>)
         @@ "--app=chat" :> Asking("app", Site("c")) @@ "http-chat" :> Asking("url", Site("C") \o <<":", "8">>)
         @@ "--app=news" :> Asking("app", Site("n")) @@ "http-news" :> Asking("url", Site("n") \o <<"/", "#", "a">>)
         @@ "--app-id=crx" :> Asking("id", <<"a">>) @@ "http-odd" :> Asking("url", Site("%"))
LowerCase == "C" :> "c" @@ "H" :> "h"
IdLetters == {"a", "c"}
ForeignChars == {"e-acute"}
HelperWord == {"--type=gpu"}
ServiceWord == {"--gapplication-service"}
SmashedWord == {"code --smashed"}
BaseOfWord == "/usr/bin/nvim" :> "nvim" @@ "/usr/bin/bash" :> "bash"
KeyOfName == "Alacritty" :> "alacritty" @@ "Code" :> "code"
IdentOfClass == "brave-mail-Default" :> <<"m", "_", "_">> @@ "chromium-mail-Default" :> <<"m", "_", "_">>
             @@ "brave-chat-Default" :> <<"c", "_", "_">> @@ "brave-news-Default" :> <<"n", "_", "_">>
             @@ "brave-crx-Default" :> <<"a">>
(* A line only a shell can read, and one of quoted words.                  *)
TwoTyped == {<<"e", " ", "\"", "%", "\\", "$", ";">>,
             <<"brave", " ", "'", "'", " ", "%", "f", " ", "a", "\\", "\\">>}
(* A variable set to a path, for the command after it.                     *)
OneTyped == {<<"X", "=", "/lib", " ", "brave">>}
SpelledWord == "script" :> <<"e", " ", "\"", "%", "\\", "$", ";">> @@ "" :> <<>>
            @@ "%f" :> <<"%", "f">> @@ "a\\" :> <<"a", "\\">> @@ "X=1" :> <<"X", "=", "1">>
            @@ "X=/lib" :> <<"X", "=", "/lib">>
            @@ "/b" :> <<" ", "b", "\\", "s">> @@ "brave-browser" :> <<" ", " ", "\\", "s">>
(* Every program the machines name is installed.                           *)
Runnable ==
  {<<w>> : w \in UNION {{Five[k].procs[p].argv[1] : p \in DOMAIN Five[k].procs}
                          \cup {f.keys["Exec"][1] : f \in UNION {ToSet(Five[k].dirs[d]) : d \in DOMAIN Five[k].dirs}} :
                        k \in DOMAIN Five} \cup {"btop", "brave", "zoom", "/usr/bin/bash"}}
NameRuns == {"a", "X"}
Paths == {"/usr/bin/bash", "/usr/bin/nvim", "/lib"}
(* Every word of up to three characters, and every pair of short ones.     *)
Chars == {"a", "'", "\"", "\\", " ", "$", "#", "~", "=", "[", ";", "\t", "e-acute"}
ShortArgvs ==
  LET short == {<<>>} \cup {<<c>> : c \in Chars}
      words == {<<c, d>> : c, d \in Chars} \cup {<<c, d, e>> : c, d, e \in Chars \ {";", "["}}
  IN  {<<w>> : w \in words \cup short} \cup {<<v, w>> : v, w \in short}
ClassWord == [c \in UNION {{Five[k].windows[i].class : i \in DOMAIN Five[k].windows} : k \in DOMAIN Five} |->
               IF c \in {"brave-browser", "brave-mail-Default", "brave-chat-Default", "brave-news-Default",
                       "brave-crx-Default"}
               THEN "brave" ELSE c]
AsciiLowers == "FOOT" :> "foot"
ForeignLowers == "E-acute" :> "e-acute"
TwoNames == {"FOOT", "brave-browser"}
Fifth == {5}
Zero == {0, 1}
OneTarget == {2}
=============================================================================
