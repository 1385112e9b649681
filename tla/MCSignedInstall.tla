--------------------------- MODULE MCSignedInstall ---------------------------
(* SignedInstall on small instances, for TLC: one pin, the same pin with    *)
(* another command beside a second one, and one the engine must refuse;     *)
(* and the files it is installed in, in every tree of a few directories,    *)
(* files and links.                                                         *)
EXTENDS InstalledFiles, TLC

CONSTANTS a, b, c1, c2, odd

FewLists ==
  {a :> c1 @@ b :> Absent, a :> c2 @@ b :> c1, a :> c1 @@ b :> odd}

Link(abs, to) == [kind |-> "link", abs |-> abs, to |-> to, trusted |-> TRUE]
Links == {Link(TRUE, to) : to \in {<<"l">>, <<"d">>, <<"d", "e">>, <<"l", "..", "f">>, <<"l", "f">>,
                                   <<"n", "f">>, <<"n", "..", "f">>}}
           \cup {Link(FALSE, to) : to \in {<<"f">>, <<"..", "l">>}}
Old == File("old", "0644")
Untrusted == [Old EXCEPT !.trusted = FALSE]

(* The configuration directory c and its file, another link l, and files   *)
(* called f around them.                                                   *)
Layouts ==
  [c : {Nothing, Dir("0755")} \cup Links, cf : {Nothing, Old} \cup Links, l : {Nothing, Old} \cup Links,
   f : {Nothing, Old}, df : {Nothing, Old, Untrusted, Link(FALSE, <<"..", "f">>)}, e : {Nothing, Dir("0755")}]
Tree(x) ==
  LET nodes == <<"c">> :> x.c @@ <<"c", "f">> :> x.cf @@ <<"l">> :> x.l @@ <<"f">> :> x.f
                 @@ <<"d">> :> Dir("0755") @@ <<"d", "f">> :> x.df @@ <<"d", "e">> :> x.e
  IN  [p \in {q \in DOMAIN nodes : nodes[q] # Nothing} |-> nodes[p]]
SmallTrees == {Tree(x) : x \in {y \in Layouts : y.c.kind # "dir" => y.cf = Nothing}}
FewPaths == {<<"c", "f">>, <<"c", "new", "f">>, <<"l">>, <<"l", "f">>, <<"d", "f">>}
ConfigDir == <<"c">>
=============================================================================
