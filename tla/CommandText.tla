---------------------------- MODULE CommandText ----------------------------
(***************************************************************************)
(* A pin's command as the panel shows it and the user types it             *)
(* (relaunch-shell: shell.rs quotes an argv for the shell, execcheck.rs    *)
(* reads a command line without one; relaunch-engine edit.rs joins them),  *)
(* and the two judgements of whether it would run: the panel's, on the     *)
(* signed exec, and the anchor's, on the argv of the launcher.  A text is  *)
(* a sequence of characters, a run of ordinary ones standing as one.       *)
(***************************************************************************)
EXTENDS LauncherText

CONSTANTS
  Dashed,       \* runs of characters that start with a dash
  Slashed,      \* runs with a slash in them
  Names,        \* runs that a shell variable's name may be
  Executable    \* words an executable file answers to, by path or on PATH

(* Of the characters the code names, those the models spell.               *)
NonAscii == {"e-acute"}
Special == Blanks \cup {"'", Quote, Slash, "$", "backtick", "|", "&", ";", "<", ">", "(", ")", "*",
            "?", "[", "#", "~", "="}

Shell == <<"/usr/bin/bash">>

Builtin == {<<"[">>, <<"cd">>, <<"exec">>, <<"command">>, <<"test">>}
Wrapper == {<<"env">>, <<"nice">>, <<"setsid">>, <<"uwsm-app">>, <<"command">>}
PathName == <<"PATH">>

Has(word, C) == \E i \in DOMAIN word : word[i] \in C

IsAssignment(word) ==
  \E k \in DOMAIN word :
    /\ word[k] = "=" /\ k > 1
    /\ \A i \in 1 .. k - 1 : word[i] \in Names

NamesShellSyntax(word) == ~Has(word, Slashed) /\ (word \in Builtin \/ IsAssignment(word))

-----------------------------------------------------------------------------
(* shell.rs: `printf %q' of a word.                                        *)

AnsiQuoted(word) ==
  LET coded(c) == IF c \in Controls THEN <<Slash, Letter[c]>>
                  ELSE IF c \in {Slash, "'"} THEN <<Slash, c>> ELSE <<c>>
  IN  <<"$", "'">> \o Each(coded, word) \o <<"'">>

SingleQuoted(word) ==
  LET coded(c) == IF c = "'" THEN <<"'", Slash, "'", "'">> ELSE <<c>>
  IN  <<"'">> \o Each(coded, word) \o <<"'">>

Escaped(word, i) ==
  \/ word[i] \in Special \ {"#", "~", "="}
  \/ word[i] = "#" /\ i = 1
  \/ word[i] = "~" /\ (i = 1 \/ word[i - 1] = "=")

QuoteWord(word) ==
  IF word = <<>> THEN <<"'", "'">>
  ELSE IF Has(word, NonAscii) THEN SingleQuoted(word)
  ELSE IF Has(word, Controls) THEN AnsiQuoted(word)
  ELSE FlattenSeq([i \in DOMAIN word |->
         IF Escaped(word, i) THEN <<Slash, word[i]>> ELSE <<word[i]>>])

QuoteArgv(argv) == Joined([i \in DOMAIN argv |-> QuoteWord(argv[i])])

-----------------------------------------------------------------------------
(* The words, or "shell", or "cut" for a quote that never ends.            *)
ReadWords(text) ==
  LET start == [words |-> <<>>, cur |-> <<>>, have |-> FALSE, at |-> "plain"]
      end == Pass("line", start, text)
      all == EndsWord(IF end.at = "bracket" THEN Puts(end, <<"[">>) ELSE end)
  IN  CASE end.at \in {"plain", "bracket", "comment"}  -> [kind |-> "words", words |-> all.words]
        [] end.at \in {"shell", "dollar", "escape"}    -> [kind |-> "shell", words |-> <<>>]
        [] OTHER                                       -> [kind |-> "cut", words |-> <<>>]

(* The argv of plain words; empty when they need the shell.                *)
PlainArgv(text) ==
  LET r == ReadWords(text)
  IN  IF r.words # <<>> /\ ~NamesShellSyntax(r.words[1]) THEN r.words ELSE <<>>

-----------------------------------------------------------------------------
(* edit.rs: what set-exec makes of a line, and the line an exec is shown as*)

(* A line keeps no blanks at its ends, not even one a word escapes.        *)
Trimmed(text) ==
  LET kept == {i \in DOMAIN text : text[i] \notin Blanks}
  IN  IF kept = {} THEN <<>> ELSE SubSeq(text, Min(kept), Max(kept))

(* Empty for a blank line, which is refused.                               *)
WordsOrBash(line, plain) ==
  IF line = <<>> THEN <<>> ELSE IF plain # <<>> THEN plain ELSE <<Shell, <<"-c">>, line>>

LineArgv(line) == WordsOrBash(line, PlainArgv(line))
TypedArgv(text) == LineArgv(Trimmed(text))

IsShellCommand(argv) == Len(argv) = 3 /\ argv[1] = Shell /\ argv[2] = <<"-c">>

ExecText(exec) ==
  LET argv == SplitCanonical(exec)
  IN  IF IsShellCommand(argv) THEN argv[3] ELSE QuoteArgv(argv)

-----------------------------------------------------------------------------
(* execcheck.rs: the program word of a command line, past assignments and  *)
(* wrappers, and whether it would run.                                     *)

ProgramStep(s, word) ==
  LET shell == s.reading = "shell" IN
  IF s.found # <<>> \/ s.unjudged THEN s
  ELSE IF s.reading = "exec" /\ word = <<"--">> THEN [s EXCEPT !.reading = "wrapper"]
  ELSE IF ~shell /\ word # <<>> /\ word[1] \in Dashed THEN [s EXCEPT !.unjudged = TRUE]
  ELSE IF s.reading # "wrapper" /\ IsAssignment(word) THEN
    [s EXCEPT !.unjudged = SubSeq(word, 1, 2) = PathName \o <<"=">>]
  ELSE IF shell /\ word = <<"exec">> THEN [s EXCEPT !.reading = "exec", !.direct = TRUE]
  ELSE IF word \in Wrapper THEN
    [s EXCEPT !.reading = IF word = <<"env">> THEN "env" ELSE "wrapper",
              !.direct = @ \/ word # <<"command">>]
  ELSE [s EXCEPT !.found = <<word>>]

WordIsOk(word, direct) == (word \in Builtin /\ ~direct) \/ word \in Executable

ExecIsOk(exec, direct) ==
  LET r == ReadWords(exec)
      start == [reading |-> "shell", direct |-> direct, found |-> <<>>, unjudged |-> FALSE]
      end == FoldLeft(ProgramStep, start, r.words)
  IN  CASE r.kind = "shell"                        -> TRUE
        [] r.kind = "cut" \/ r.words = <<>>        -> FALSE
        [] end.found = <<>>                        -> TRUE
        [] OTHER -> WordIsOk(end.found[1], end.direct)

(* launch.rs: the anchor's verdict, on the argv it would start.            *)
Launchable(argv) == argv # <<>> /\ WordIsOk(argv[1], TRUE)
=============================================================================
