---------------------------- MODULE PrivateFiles ----------------------------
(***************************************************************************)
(* How Relaunch writes files (relaunch-sys fs.rs): through whatever links  *)
(* the user's dotfiles hold, to where a read of the same path would land.  *)
(*                                                                         *)
(* A tree maps places (sequences of names; <<>> is the root, always a      *)
(* directory) to nodes: [kind: "dir", mode], [kind: "file", mode, data] or *)
(* [kind: "link", abs, to], each with `trusted': owned by whom it should   *)
(* be, and writable by nobody else.  A path is absolute, a sequence of     *)
(* names and of "..".                                                      *)
(***************************************************************************)
EXTENDS Integers, FiniteSets, SequencesExt

CONSTANTS
  Names,          \* what a file or a directory may be called
  Trees, Paths,   \* the trees and the paths that are tried
  Private,        \* Relaunch's own configuration directory: a path
  Artifact,       \* the name of a file of its own in there
  MaxLinks        \* links one path may go through

Up == ".."

ASSUME LinksAssumption == MaxLinks \in Nat \ {0}
ASSUME NamesAssumption ==
  /\ Up \notin Names
  /\ Paths \subseteq Seq(Names \cup {Up})
  /\ Private \in Seq(Names) /\ Artifact \in Names

Dir(mode) == [kind |-> "dir", mode |-> mode, trusted |-> TRUE]
File(data, mode) == [kind |-> "file", mode |-> mode, data |-> data, trusted |-> TRUE]
Nothing == [kind |-> "none"]

NodeAt(fs, at) ==
  IF at = <<>> THEN Dir("umask") ELSE IF at \in DOMAIN fs THEN fs[at] ELSE Nothing
Put(fs, at, node) == [p \in DOMAIN fs \cup {at} |-> IF p = at THEN node ELSE fs[p]]
Above(at) == IF at = <<>> THEN at ELSE Front(at)

(* What is in a tree stands in a directory.                                *)
LinksOf(fs) == {p \in DOMAIN fs : fs[p].kind = "link"}
WellFormed(fs) ==
  /\ IsFiniteSet(DOMAIN fs) /\ fs = [p \in DOMAIN fs |-> fs[p]]
  /\ \A p \in DOMAIN fs :
       /\ p \in Seq(Names) /\ p # <<>> /\ NodeAt(fs, Front(p)).kind = "dir"
       /\ fs[p].kind \in {"dir", "file", "link"}
  /\ \A p \in LinksOf(fs) : fs[p].to \in Seq(Names \cup {Up})

ASSUME TreesAssumption == \A fs \in Trees : WellFormed(fs)

-----------------------------------------------------------------------------
(* The file system: where a path leads when every link is followed.  w is  *)
(* at a place, with the rest of the path before it and some links behind.  *)

Ahead(fs, w) == NodeAt(fs, Append(w.at, Head(w.rest)))

(* Why it goes no further; "absent" when only the last name is missing.    *)
Halt(fs, limit, w) ==
  IF w.rest = <<>> THEN "there"
  ELSE IF NodeAt(fs, w.at).kind # "dir" THEN "error"
  ELSE IF Head(w.rest) = Up THEN "going"
  ELSE IF Ahead(fs, w).kind = "none" THEN IF Len(w.rest) = 1 THEN "absent" ELSE "missing"
  ELSE IF Ahead(fs, w).kind = "link" /\ w.links = limit THEN "loop"
  ELSE "going"

Onward(fs, w) ==
  LET name == Head(w.rest)
      node == Ahead(fs, w)
      then == Tail(w.rest)
  IN  IF name = Up THEN [w EXCEPT !.at = Above(@), !.rest = then]
      ELSE IF node.kind # "link" THEN [w EXCEPT !.at = Append(@, name), !.rest = then]
      ELSE [at |-> IF node.abs THEN <<>> ELSE w.at, rest |-> node.to \o then, links |-> w.links + 1]

Step(fs, limit, w) == IF Halt(fs, limit, w) = "going" THEN Onward(fs, w) ELSE w

(* Each step takes a name away, and each link brings no more than the      *)
(* longest one holds: as many steps as that makes are enough.              *)
LongestLink(fs) == Max({0} \cup {Len(fs[p].to) : p \in LinksOf(fs)})
Start(path) == [at |-> <<>>, rest |-> path, links |-> 0]
WalkEnd(fs, limit, path) ==
  LET steps == Len(path) + limit * LongestLink(fs)
      after[n \in 0 .. steps] ==
        IF n = 0 THEN Start(path) ELSE Step(fs, limit, after[n - 1])
  IN  after[steps]

Reached(fs, limit, w) ==
  LET kind == Halt(fs, limit, w)
  IN  [kind |-> kind, links |-> w.links,
       at |-> IF kind \in {"absent", "missing"} THEN Append(w.at, Head(w.rest)) ELSE w.at]
Walk(fs, limit, path) == Reached(fs, limit, WalkEnd(fs, limit, path))

Canonical(fs, path) == Walk(fs, MaxLinks, path)
Missing(w) == w.kind \in {"absent", "missing"}

(* The file system counts the links of a path, the code those of each part *)
(* it has resolved, no more than Farthest in all: a path with MaxLinks or  *)
(* more may lead them to different ends.  The paths tried have fewer, or   *)
(* go round in circles.                                                    *)
Farthest == MaxLinks * (MaxLinks + 1)
ASSUME FewLinksAssumption ==
  \A fs \in Trees, path \in Paths :
    LET w == Walk(fs, Farthest, path) IN w.kind = "loop" \/ w.links < MaxLinks

(* The node a path names, its last name not followed.                      *)
Entry(fs, dir, name) ==
  IF dir.kind # "there" \/ NodeAt(fs, dir.at).kind # "dir" THEN Nothing
  ELSE NodeAt(fs, IF name = Up THEN Above(dir.at) ELSE Append(dir.at, name))
LStat(fs, path) ==
  IF path = <<>> THEN NodeAt(fs, path) ELSE Entry(fs, Canonical(fs, Front(path)), Last(path))

Found(fs, w) == IF w.kind = "there" THEN NodeAt(fs, w.at) ELSE Nothing
Reads(fs, path) == Found(fs, Canonical(fs, path))

-----------------------------------------------------------------------------
(* Where a write lands.                                                    *)

NoPlace == <<Up>>

(* Mutant: .. takes back the name before it.                               *)
ResolveLexically(fs, dir) ==
  LET at[n \in 0 .. Len(dir)] ==
        IF n = 0 THEN <<>> ELSE (IF dir[n] = Up THEN Above(at[n - 1]) ELSE Append(at[n - 1], dir[n]))
  IN  at[Len(dir)]

(* The directory as the file system resolves it; of one that is not there, *)
(* the longest part that is (n names, leading to `real'), and plain names  *)
(* that nothing stands under.                                              *)
Extended(fs, dir, n, real) ==
  IF /\ real.kind = "there"
     /\ \A k \in n + 1 .. Len(dir) : dir[k] # Up /\ LStat(fs, SubSeq(dir, 1, k)) = Nothing
  THEN real.at \o SubSeq(dir, n + 1, Len(dir)) ELSE NoPlace
LongestPart(fs, dir) == Max({k \in 0 .. Len(dir) : ~Missing(Canonical(fs, SubSeq(dir, 1, k)))})
ResolveFrom(fs, dir, n) == Extended(fs, dir, n, Canonical(fs, SubSeq(dir, 1, n)))
ResolveDir(fs, dir) == ResolveFrom(fs, dir, LongestPart(fs, dir))

Within(dir, name) == IF dir = NoPlace THEN NoPlace ELSE Append(dir, name)
InResolvedDir(fs, leaf) ==
  IF leaf = <<>> \/ Last(leaf) = Up THEN NoPlace ELSE Within(ResolveDir(fs, Front(leaf)), Last(leaf))

(* The links the last name leads through, each joined to the directory it  *)
(* is in, unsimplified.                                                    *)
Joined(path, node) ==
  IF node.kind # "link" THEN path ELSE IF node.abs THEN node.to ELSE Front(path) \o node.to
Followed(fs, path) == Joined(path, LStat(fs, path))
LeafOf(fs, path) ==
  LET cur[k \in 0 .. MaxLinks - 1] ==
        IF k = 0 THEN path ELSE Followed(fs, cur[k - 1])
  IN  cur[MaxLinks - 1]
LeafTarget(fs, leaf) == IF LStat(fs, leaf).kind = "link" THEN NoPlace ELSE InResolvedDir(fs, leaf)
ResolveWriteTarget(fs, path) == LeafTarget(fs, LeafOf(fs, path))

-----------------------------------------------------------------------------
(* The writers: [ok, fs].                                                  *)

Failed(fs) == [ok |-> FALSE, fs |-> fs]
Done(fs) == [ok |-> TRUE, fs |-> fs]

(* The missing directories, private when they are for our own files.       *)
EnsureParent(fs, dir) ==
  LET mode == IF dir \in {Private, ResolveDir(fs, Private)} THEN "0700" ELSE "umask"
      new == {d \in Prefixes(dir) : NodeAt(fs, d) = Nothing}
  IN  [d \in DOMAIN fs \cup new |-> IF d \in DOMAIN fs THEN fs[d] ELSE Dir(mode)]

(* Temporary file and rename: over a file or a link, never a directory.    *)
ReplaceAtomically(fs, target, node) ==
  IF NodeAt(fs, Front(target)).kind = "dir" /\ NodeAt(fs, target).kind # "dir"
  THEN Done(Put(fs, target, node)) ELSE Failed(fs)

PutPrivate(fs, target, data) ==
  IF target = NoPlace THEN Failed(fs)
  ELSE ReplaceAtomically(EnsureParent(fs, Front(target)), target, File(data, "0600"))
WritePrivate(fs, path, data) == PutPrivate(fs, ResolveWriteTarget(fs, path), data)

(* Into the private directory, and never out of it: the name is not        *)
(* followed.                                                               *)
WritePrivateArtifact(fs, name, data) ==
  PutPrivate(fs, Within(ResolveDir(fs, Private), name), data)

PutIfAbsent(fs, target, node) ==
  IF NodeAt(fs, target) # Nothing THEN Done(fs) ELSE ReplaceAtomically(fs, target, node)
CreateAt(fs, target, data) ==
  IF target = NoPlace THEN Failed(fs)
  ELSE PutIfAbsent(EnsureParent(fs, Front(target)), target, File(data, "0600"))
CreatePrivateIfAbsent(fs, path, data) == CreateAt(fs, ResolveWriteTarget(fs, path), data)

(* The user's own files: edited where they are, with their own mode, and   *)
(* never created.                                                          *)
RewriteAt(fs, target, data) ==
  IF target = NoPlace THEN Failed(fs)
  ELSE IF NodeAt(fs, target).kind # "file" \/ fs[target].data = data THEN Done(fs)
  ELSE ReplaceAtomically(fs, target, File(data, fs[target].mode))
RewriteUserFile(fs, path, data) == RewriteAt(fs, ResolveWriteTarget(fs, path), data)

(* From the path up to the boundary: real files and directories, each ours *)
(* alone to write.                                                         *)
TrustedChain(fs, path, boundary) ==
  /\ IsPrefix(boundary, path)
  /\ \A p \in Prefixes(path) :
       Len(p) >= Len(boundary) =>
         LET node == LStat(fs, p) IN node.kind \in {"dir", "file"} /\ node.trusted

-----------------------------------------------------------------------------
(* Correctness.                                                            *)

(* w wrote `node' at `at', and nothing else but new directories.           *)
WroteOnly(fs, w, at, node) ==
  /\ NodeAt(w.fs, at) = node
  /\ \A p \in DOMAIN fs \ {at} : w.fs[p] = fs[p]
  /\ \A p \in DOMAIN w.fs \ (DOMAIN fs \cup {at}) : w.fs[p].kind = "dir"

(* Of the path that leads to `was': written by w, created by c, rewritten  *)
(* by r.                                                                   *)
LandsWell(fs, path, was, w, c, r) ==
  /\ (was.kind = "absent" \/ Found(fs, was).kind = "file") =>
       /\ w.ok /\ c.ok /\ r.ok
       /\ WroteOnly(fs, w, was.at, File("new", "0600"))
       /\ IF was.kind = "absent" THEN c = w /\ r.fs = fs
          ELSE /\ c.fs = fs
               /\ IF fs[was.at].data = "new" THEN r.fs = fs
                  ELSE WroteOnly(fs, r, was.at, File("new", fs[was.at].mode))
  /\ w.ok => /\ WroteOnly(fs, w, Canonical(w.fs, path).at, File("new", "0600"))
             /\ Reads(w.fs, path) = File("new", "0600")
  /\ ~w.ok => \A p \in DOMAIN fs : w.fs[p] = fs[p]

(* w wrote our own file where our directory is, or is once it is made.     *)
StaysInside(fs, w) ==
  LET was == Canonical(fs, Private)
      dir == IF Missing(was) THEN Canonical(w.fs, Private) ELSE was
  IN  w.ok => /\ dir.kind = "there"
              /\ WroteOnly(fs, w, Append(dir.at, Artifact), File("new", "0600"))
              /\ Missing(was) => NodeAt(w.fs, dir.at) = Dir("0700")

(* No name on the way from the boundary is followed or taken back.         *)
ReadWhereItSays(fs, path, boundary) ==
  /\ Canonical(fs, path).at =
       Canonical(fs, boundary).at \o SubSeq(path, Len(boundary) + 1, Len(path))
  /\ Reads(fs, path).trusted

(* A write lands exactly where a read of the same path does (fs.rs:105),   *)
(* or would once the file is there: it changes that file and no other, no  *)
(* link is lost on the way, and a path that cannot be followed is refused  *)
(* with nothing changed.  What is ours alone never leaves our directory,   *)
(* and a path whose chain is trusted is read where it says.                *)
EveryWriteLands ==
  \A fs \in Trees :
    /\ \A path \in Paths :
         LandsWell(fs, path, Canonical(fs, path), WritePrivate(fs, path, "new"),
                   CreatePrivateIfAbsent(fs, path, "new"), RewriteUserFile(fs, path, "new"))
    /\ StaysInside(fs, WritePrivateArtifact(fs, Artifact, "new"))
    /\ \A path \in Paths : \A boundary \in Prefixes(path) :
         /\ TrustedChain(fs, path, boundary)
         /\ \A k \in Len(boundary) + 1 .. Len(path) : path[k] # Up
         => ReadWhereItSays(fs, path, boundary)
=============================================================================
