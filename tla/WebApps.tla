------------------------------- MODULE WebApps -------------------------------
(***************************************************************************)
(* Web apps (relaunch-engine webapp.rs): the identity of what a launcher's *)
(* Exec opens, which is also the identity a Chromium-based browser puts in *)
(* the class of the window.  An Exec is its words; a URL is a sequence of  *)
(* characters, and so is an identity.                                      *)
(***************************************************************************)
EXTENDS Integers, SequencesExt

CONSTANTS
  Wrapping,     \* words before a program: wrappers, --, assignments
  Flags,        \* words that start with a dash
  FieldCodes,   \* words that are a percent sign and one character
  WordOpens,    \* a word -> what it asks for: [by, text]; by is "app"
                \* (--app=), "id" (--app-id=) or "url" (an http(s) word)
  LowerOf,      \* a character -> its lower case, when it differs
  IdChars,      \* lower-case letters and digits
  Foreign       \* characters that are not ASCII

(* Lower-casing a host puts no _ into it (nor is one a capital).           *)
ASSUME LowerAssumption == \A c \in DOMAIN LowerOf : LowerOf[c] # "_"

Asks(word, by) == word \in DOMAIN WordOpens /\ WordOpens[word].by = by
Lower(text) == [i \in DOMAIN text |-> IF text[i] \in DOMAIN LowerOf THEN LowerOf[text[i]] ELSE text[i]]

(* The first place in text that starts with `what' (0: none), and the text *)
(* before a character.                                                     *)
At(text, what) ==
  LET at == {i \in 1 .. Len(text) - Len(what) + 1 : SubSeq(text, i, i + Len(what) - 1) = what}
  IN  IF at = {} THEN 0 ELSE Min(at)
Upto(text, c) == LET i == At(text, <<c>>) IN IF i = 0 THEN text ELSE SubSeq(text, 1, i - 1)
From(text, i) == SubSeq(text, i, Len(text))

-----------------------------------------------------------------------------
(* RFC 3986 5.2.4: a table of rules on the head of the input, tried in     *)
(* order; the last one moves a segment to the output.                      *)

Popped(out) == LET i == SelectLastInSeq(out, LAMBDA c : c = "/") IN
  IF i = 0 THEN out ELSE SubSeq(out, 1, i - 1)

Segment(input) ==
  LET start == IF input[1] = "/" THEN 2 ELSE 1
  IN  SubSeq(input, 1, start - 1) \o Upto(From(input, start), "/")

(* Mutant: a final .. leaves no slash behind it.                           *)
DotStepTrimmed(s) ==
  LET in == s.input
      heads(what) == IsPrefix(what, in)
      rest(n) == From(in, n + 1)
  IN  CASE in = <<>> -> s
        [] heads(<<"/", ".", ".", "/">>) -> [input |-> <<"/">> \o rest(4), out |-> Popped(s.out)]
        [] in = <<"/", ".", ".">> -> [input |-> <<>>, out |-> Popped(s.out)]
        [] heads(<<"/", ".", "/">>) -> [input |-> <<"/">> \o rest(3), out |-> s.out]
        [] in = <<"/", ".">> -> [input |-> <<"/">>, out |-> s.out]
        [] OTHER -> [input |-> rest(Len(Segment(in))), out |-> s.out \o Segment(in)]

DotStep(s) ==
  LET in == s.input
      heads(what) == IsPrefix(what, in)
      rest(n) == From(in, n + 1)
  IN  IF in = <<>> THEN s
      ELSE IF heads(<<".", ".", "/">>) THEN [s EXCEPT !.input = rest(3)]
      ELSE IF heads(<<".", "/">>) THEN [s EXCEPT !.input = rest(2)]
      ELSE IF heads(<<"/", ".", "/">>) THEN [s EXCEPT !.input = <<"/">> \o rest(3)]
      ELSE IF in = <<"/", ".">> THEN [s EXCEPT !.input = <<"/">>]
      ELSE IF heads(<<"/", ".", ".", "/">>) THEN [input |-> <<"/">> \o rest(4), out |-> Popped(s.out)]
      ELSE IF in = <<"/", ".", ".">> THEN [input |-> <<"/">>, out |-> Popped(s.out)]
      ELSE IF in \in {<<".">>, <<".", ".">>} THEN [s EXCEPT !.input = <<>>]
      ELSE [input |-> rest(Len(Segment(in))), out |-> s.out \o Segment(in)]

(* Every rule shortens the input: as many steps as characters are enough. *)
RemoveDotSegments(path) ==
  LET after[n \in 0 .. Len(path)] ==
        IF n = 0 THEN [input |-> path, out |-> <<>>] ELSE DotStep(after[n - 1])
  IN  after[Len(path)].out

-----------------------------------------------------------------------------
(* The identity of a URL: its host, lower case, without userinfo or port,  *)
(* and its path, each / as _.  No query, no fragment.                      *)

NoIdentity == [kind |-> "none", id |-> <<>>]
Uncanonical == [kind |-> "uncanonical", id |-> <<>>]
Known(id) == [kind |-> "known", id |-> id]

HostOf(authority) ==
  LET host == From(authority, 1 + SelectLastInSeq(authority, LAMBDA c : c = "@"))
  IN  IF host # <<>> /\ host[1] = "[" /\ At(host, <<"]">>) # 0
      THEN Upto(host, "]") \o <<"]">> ELSE Upto(host, ":")

UrlIdentity(host, path) ==
  IF host = <<>> THEN <<>>
  ELSE Lower(host) \o <<"_">>
         \o [i \in DOMAIN path |-> IF path[i] = "/" THEN "_" ELSE path[i]]

(* <<>> without a scheme or a host.                                        *)
IdentityFromUrl(url) ==
  LET scheme == At(url, <<":", "/", "/">>)
      rest == Upto(Upto(From(url, scheme + 3), "#"), "?")
      slash == At(rest, <<"/">>)
      path == IF slash = 0 THEN <<"/">> ELSE From(rest, slash)
  IN  IF scheme = 0 THEN <<>> ELSE UrlIdentity(HostOf(Upto(rest, "/")), RemoveDotSegments(path))

(* A host the browser rewrites in ways not reproduced has no identity that *)
(* can be compared; the host is read off the identity again, up to its     *)
(* first _.                                                                *)
Identity(url) ==
  LET id == IdentityFromUrl(url) IN
  IF id = <<>> THEN NoIdentity
  ELSE IF \E c \in ToSet(Upto(id, "_")) : c = "%" \/ c \in Foreign THEN Uncanonical
  ELSE Known(id)

-----------------------------------------------------------------------------
(* What an Exec opens.                                                     *)

(* Its --app, else its first argument that is no flag, if it is a URL;     *)
(* <<>> for none.                                                          *)
UrlFromExec(exec) ==
  LET program == SelectInSeq(exec, LAMBDA w : w \notin Wrapping)
      args == IF program = 0 THEN <<>> ELSE From(exec, program + 1)
      app == SelectInSeq(args, LAMBDA w : Asks(w, "app"))
      first == SelectInSeq(args, LAMBDA w : w \notin Flags \cup FieldCodes)
  IN  IF app # 0 THEN WordOpens[args[app]].text
      ELSE IF first # 0 /\ Asks(args[first], "url") THEN WordOpens[args[first]].text
      ELSE <<>>

AppIdFromExec(exec) ==
  LET i == SelectInSeq(exec, LAMBDA w : Asks(w, "id"))
  IN  IF i = 0 THEN <<>>
      ELSE IF ToSet(WordOpens[exec[i]].text) \subseteq IdChars THEN WordOpens[exec[i]].text ELSE <<>>

IdentityForExec(exec) ==
  IF AppIdFromExec(exec) # <<>> THEN Known(AppIdFromExec(exec))
  ELSE Identity(UrlFromExec(exec))
=============================================================================
