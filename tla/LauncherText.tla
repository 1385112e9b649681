---------------------------- MODULE LauncherText ----------------------------
(***************************************************************************)
(* The texts a pin's argv is carried in: the signed exec                   *)
(* (relaunch-desktop, canonical_exec_string and its inverse) and the Exec  *)
(* line of its private launcher (relaunch-engine launcher.rs writes it,    *)
(* relaunch-desktop reads it back at boot).  A text is a sequence of       *)
(* characters; an argv here is a sequence of texts.                        *)
(***************************************************************************)
EXTENDS Readers

(* What makes an Exec argument need quotes.                                *)
Reserved == InQuoteEscapes \cup Blanks \cup {"'", "<", ">", "~", "|", "&", ";", "*", "?", "#", "(", ")"}

Each(Encoded(_), text) == FlattenSeq([i \in DOMAIN text |-> Encoded(text[i])])
Joined(texts) ==
  FlattenSeq([i \in DOMAIN texts |-> IF i = 1 THEN texts[i] ELSE <<Blank>> \o texts[i]])

-----------------------------------------------------------------------------
(* The canonical exec: backslashes and spaces escaped, words joined.       *)
Canonical(argv) ==
  LET escaped(c) == IF c \in {Slash, Blank} THEN <<Slash, c>> ELSE <<c>>
  IN  Joined([i \in DOMAIN argv |-> Each(escaped, argv[i])])

SplitCanonical(text) == Pass("canonical", [words |-> <<<<>>>>, esc |-> FALSE], text).words

-----------------------------------------------------------------------------
(* launcher.rs: an argv as the value of Exec, in two layers of escapes.    *)
ExecArgument(arg) ==
  LET spelled(c) == IF c \in InQuoteEscapes THEN <<Slash, c>>
                    ELSE IF c = "%" THEN <<c, c>> ELSE <<c>>
      quoted == arg = <<>> \/ \E i \in DOMAIN arg : arg[i] \in Reserved
  IN  IF quoted THEN <<Quote>> \o Each(spelled, arg) \o <<Quote>> ELSE Each(spelled, arg)

FileEscape(text) ==
  LET doubled(c) == IF c = Slash THEN <<c, c>> ELSE <<c>> IN Each(doubled, text)

(* Mutant: one layer of escapes only.                                      *)
SerializeUnescaped(argv) == Joined([i \in DOMAIN argv |-> ExecArgument(argv[i])])

SerializeExec(argv) == FileEscape(Joined([i \in DOMAIN argv |-> ExecArgument(argv[i])]))

(* A string value: the format would drop a leading blank.                  *)
StringValue(text) ==
  LET escaped == FileEscape(text)
  IN  IF escaped # <<>> /\ escaped[1] = Blank THEN <<Slash, "s">> \o Tail(escaped) ELSE escaped

(* No control character may reach a line of the file.                      *)
Printable(text) == \A i \in DOMAIN text : text[i] \notin Controls

(* A launcher as its lines' values; no Path line is an empty one.          *)
NoLauncher == [name |-> <<>>, exec |-> <<>>, path |-> <<>>]
LauncherBytes(label, argv, cwd) ==
  IF ~Printable(label) \/ ~Printable(cwd) \/ \E i \in DOMAIN argv : ~Printable(argv[i]) THEN NoLauncher
  ELSE [name |-> StringValue(label), exec |-> SerializeExec(argv), path |-> StringValue(cwd)]

(* The file format's own escapes, undone by the desktop-entry library,     *)
(* which drops the blanks a value starts with.                             *)
FileUnescape(text) == Pass("value", [out |-> <<>>, esc |-> FALSE], text).out

ReadString(text) ==
  LET first == SelectInSeq(text, LAMBDA c : c # Blank)
  IN  IF first = 0 THEN <<>> ELSE FileUnescape(SubSeq(text, first, Len(text)))

(* Quotes and in-quote escapes, into words.                                *)
Tokenize(text) ==
  LET start == [words |-> <<>>, have |-> FALSE, quote |-> FALSE, esc |-> FALSE, ok |-> TRUE]
      end == Pass("exec", start, text)
  IN  [ok |-> end.ok /\ ~end.quote /\ ~end.esc, words |-> end.words]

(* A word that was only field codes vanishes with them.                    *)
ExpandWord(word) ==
  LET end == Pass("codes", [out |-> <<>>, code |-> FALSE, had |-> FALSE, ok |-> TRUE], word)
  IN  [ok |-> end.ok /\ ~end.code, words |-> IF end.out = <<>> /\ end.had THEN <<>> ELSE <<end.out>>]

ParseExec(text) ==
  LET read == Tokenize(ReadString(text))
      expanded == [i \in DOMAIN read.words |-> ExpandWord(read.words[i])]
  IN  [ok |-> read.ok /\ \A i \in DOMAIN expanded : expanded[i].ok,
       argv |-> FlattenSeq([i \in DOMAIN expanded |-> expanded[i].words])]

-----------------------------------------------------------------------------
(* launch.rs: a pin is started only from the bytes that were signed, and   *)
(* only as the command and directory that were signed with them.           *)
Spawn(argv, cwd) == [argv |-> argv, cwd |-> cwd]
NotLaunched == Spawn(<<>>, <<>>)
Approved(entry, parsed, cwd) ==
  IF parsed.ok /\ parsed.argv # <<>> /\ Canonical(parsed.argv) = entry.exec /\ cwd = entry.cwd
  THEN Spawn(parsed.argv, cwd) ELSE NotLaunched
Decide(entry, bytes) ==
  IF bytes # entry.launcher THEN NotLaunched
  ELSE Approved(entry, ParseExec(bytes.exec), ReadString(bytes.path))
=============================================================================
