------------------------------- MODULE Readers -------------------------------
(***************************************************************************)
(* How the texts a command is carried in are read.  A text is a sequence   *)
(* of characters, and each is read in one pass over them; a reader is what *)
(* it does with a character, in the state it has come to:                  *)
(*   "canonical"  the signed exec (relaunch-desktop, split_canonical_exec) *)
(*   "value"      a value of a desktop file (the desktop-entry library)    *)
(*   "exec"       an Exec line, into words (relaunch-desktop, tokenize)    *)
(*   "codes"      the field codes of such a word (expand_field_codes)      *)
(*   "line"       a typed command line (relaunch-shell execcheck.rs, words)*)
(***************************************************************************)
EXTENDS Integers, SequencesExt

Blank == " "
Blanks == {Blank, "\t"}
Quote == "\""
Slash == "\\"
InQuoteEscapes == {Quote, Slash, "$", "backtick"}

(* Field codes a launch with no file expands to nothing; others refuse it. *)
EmptyCodes == {"f", "u"}

(* Control characters, and the letter $'...' has for each.                 *)
Controls == {"\t", "bell"}
Letter == [c \in Controls |-> IF c = "\t" THEN "t" ELSE "a"]

(* The last word grows by a character.                                     *)
Grow(words, c) == [words EXCEPT ![Len(words)] = Append(@, c)]

-----------------------------------------------------------------------------
(* Every character after a backslash is itself; a blank ends a word.       *)
CanonicalStep(s, c) ==
  IF s.esc THEN [words |-> Grow(s.words, c), esc |-> FALSE]
  ELSE IF c = Slash THEN [words |-> s.words, esc |-> TRUE]
  ELSE IF c = Blank THEN [words |-> Append(s.words, <<>>), esc |-> FALSE]
  ELSE [words |-> Grow(s.words, c), esc |-> FALSE]

(* The file format's own escapes, of which \s is a blank.                  *)
ValueStep(s, c) ==
  IF s.esc THEN [out |-> Append(s.out, IF c = "s" THEN Blank ELSE c), esc |-> FALSE]
  ELSE IF c = Slash THEN [out |-> s.out, esc |-> TRUE]
  ELSE [out |-> Append(s.out, c), esc |-> FALSE]

(* Quotes and in-quote escapes: whether the pass is in a word, in quotes   *)
(* and behind a backslash, and whether it was refused.                     *)
Open(s) == IF s.have THEN s ELSE [s EXCEPT !.words = Append(@, <<>>), !.have = TRUE]
Put(s, c) == [Open(s) EXCEPT !.words = Grow(@, c), !.esc = FALSE]

ExecStep(s, c) ==
  IF s.esc THEN [Put(s, c) EXCEPT !.ok = s.ok /\ c \in InQuoteEscapes]
  ELSE IF c = Quote THEN [Open(s) EXCEPT !.quote = ~s.quote]
  ELSE IF c = Slash THEN [s EXCEPT !.esc = TRUE, !.ok = s.ok /\ s.quote]
  ELSE IF c = Blank /\ ~s.quote THEN [s EXCEPT !.have = FALSE]
  ELSE Put(s, c)

(* Field codes: those for files vanish, a doubled percent sign is one, any *)
(* other refuses the launcher.                                             *)
CodeStep(s, c) ==
  IF ~s.code /\ c = "%" THEN [s EXCEPT !.code = TRUE]
  ELSE IF ~s.code \/ c = "%" THEN [s EXCEPT !.out = Append(@, c), !.code = FALSE]
  ELSE [s EXCEPT !.code = FALSE, !.had = TRUE, !.ok = s.ok /\ c \in EmptyCodes]

-----------------------------------------------------------------------------
(* execcheck.rs, words.  `at' is where the pass stands; "shell" is syntax  *)
(* only a shell can read, and "comment" the end of what counts: both stay. *)
(* A command line has no line breaks; the octal escapes of $'...' are left *)
(* out.                                                                    *)
Goes(s, at) == [s EXCEPT !.at = at]
Begins(s, at) == [s EXCEPT !.at = at, !.have = TRUE]
Puts(s, text) == [s EXCEPT !.cur = @ \o text, !.have = TRUE]
EndsWord(s) ==
  IF s.have THEN [s EXCEPT !.words = Append(@, s.cur), !.cur = <<>>, !.have = FALSE] ELSE s

ShellSyntax == {"[", "backtick", "|", "&", ";", "<", ">", "(", ")", "*", "?"}

Plain(s, c) ==
  CASE c \in Blanks           -> EndsWord(s)
    [] c = "'"                -> Begins(s, "single")
    [] c = Quote              -> Begins(s, "double")
    [] c = Slash              -> Begins(s, "escape")
    [] c = "$"                -> Goes(s, "dollar")
    [] c = "[" /\ ~s.have     -> Goes(s, "bracket")
    [] c = "#" /\ ~s.have     -> Goes(s, "comment")
    [] c \in ShellSyntax      -> Goes(s, "shell")
    [] OTHER                  -> Puts(s, <<c>>)

InDouble(s, c) ==
  CASE c = Quote        -> Goes(s, "plain")
    [] c = Slash        -> Goes(s, "doubleEscape")
    [] c \in {"$", "backtick"} -> Goes(s, "shell")
    [] OTHER            -> Puts(s, <<c>>)

Decoded(c) ==
  IF \E k \in Controls : Letter[k] = c THEN CHOOSE k \in Controls : Letter[k] = c ELSE c

ReadChar(s, c) ==
  CASE s.at = "plain"        -> Plain(s, c)
    [] s.at = "single"       -> IF c = "'" THEN Goes(s, "plain") ELSE Puts(s, <<c>>)
    [] s.at = "double"       -> InDouble(s, c)
    [] s.at = "doubleEscape" -> Goes(Puts(s, IF c \in {"$", "backtick", Quote, Slash} THEN <<c>>
                                             ELSE <<Slash, c>>), "double")
    [] s.at = "escape"       -> Goes(Puts(s, <<c>>), "plain")
    [] s.at = "dollar"       -> IF c = "'" THEN Begins(s, "ansi") ELSE Goes(s, "shell")
    [] s.at = "ansi"         -> IF c = "'" THEN Goes(s, "plain")
                                ELSE IF c = Slash THEN Goes(s, "ansiEscape") ELSE Puts(s, <<c>>)
    [] s.at = "ansiEscape"   -> Goes(Puts(s, <<Decoded(c)>>), "ansi")
    [] s.at = "bracket"      -> IF c \in Blanks THEN Goes(EndsWord(Puts(s, <<"[">>)), "plain")
                                ELSE Goes(s, "shell")
    [] OTHER                 -> s

-----------------------------------------------------------------------------
Read(reader, s, c) ==
  CASE reader = "canonical" -> CanonicalStep(s, c)
    [] reader = "value"     -> ValueStep(s, c)
    [] reader = "exec"      -> ExecStep(s, c)
    [] reader = "codes"     -> CodeStep(s, c)
    [] reader = "line"      -> ReadChar(s, c)

(* The state a reader ends in (a recursive function, which can be proved   *)
(* about, where a fold of the library cannot).                             *)
Pass(reader, start, text) ==
  LET after[i \in 0 .. Len(text)] ==
        IF i = 0 THEN start ELSE Read(reader, after[i - 1], text[i])
  IN  after[Len(text)]
=============================================================================
