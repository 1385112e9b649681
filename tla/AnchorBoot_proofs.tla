-------------------------- MODULE AnchorBoot_proofs --------------------------
(* Proofs about AnchorBoot: for any rows, classes, groups and workspaces,  *)
(* any number of windows, reads that fail and acts of the user, whether    *)
(* windows come in time or not.                                            *)
EXTENDS AnchorBoot, FiniteSetTheorems, NaturalsInduction, WellFoundedInduction, TLAPS

-----------------------------------------------------------------------------
(* The inductive invariant.                                                *)

Shapes ==
  /\ DOMAIN windows = Addr /\ DOMAIN view = Addr /\ DOMAIN outcome = Rows
  /\ address \in [Rows -> {0} \cup Addr]
  /\ known \subseteq Addr /\ before \subseteq Addr
  /\ nextAddr \in Nat /\ \A a \in before : a < nextAddr
  /\ blind \in Nat

(* Nothing is recognised before the first read.                            *)
NothingYet ==
  at \in {"start", "baseline"} => view = Empty /\ \A e \in Rows : address[e] = 0

ClaimedAreKnown == \A e \in Rows : address[e] # 0 => address[e] \in known

(* After a first read that succeeded an old window is set aside, or it has *)
(* gone and is in no list: addresses are not handed out twice.             *)
OldAreKnown ==
  ("first" \notin missed /\ at \notin {"start", "baseline", "done"}) =>
    \A a \in before : a \in known \/ (windows[a] = NoWindow /\ view[a] = NoWindow)

PlacedHasAWindow == \A e \in Rows : address[e] = 0 => outcome[e] # "placed"

LandedAtTheEnd == result = "landed" => at = "done"

Recognised == NothingYet /\ ClaimedAreKnown /\ OldAreKnown
Told == PlacedHasAWindow /\ LandedAtTheEnd
Safety == OneLaunchPerWindow /\ OldWindowsAreLeftAlone /\ LandedIsTrue
BootInv == Shapes /\ Recognised /\ Told /\ Safety

-----------------------------------------------------------------------------
LEMMA BootInit == Init => BootInv
<1> SUFFICES ASSUME Init PROVE BootInv
  OBVIOUS
<1>1. Shapes
  BY KnobsAssumption DEF Init, Shapes, Addr, Empty
<1>2. Recognised
  BY DEF Init, Recognised, NothingYet, ClaimedAreKnown, OldAreKnown
<1>3. Told
  BY DEF Init, Told, PlacedHasAWindow, LandedAtTheEnd
<1>4. Safety
  BY <1>1 DEF Init, Safety, OneLaunchPerWindow, OldWindowsAreLeftAlone, LandedIsTrue, Shapes, Addr
<1>5. QED
  BY <1>1, <1>2, <1>3, <1>4 DEF BootInv

(* What the desktop does alone leaves the anchor's knowledge right: the    *)
(* windows it has set aside, and the addresses nobody has yet.             *)
LEMMA DesktopKeeps ==
  ASSUME BootInv, Running, DOMAIN windows' = Addr,
         nextAddr' \in Nat, nextAddr' >= nextAddr,
         \A a \in before : windows[a] = NoWindow => windows'[a] = NoWindow,
         UNCHANGED <<before, missed, at, claims, view, blind, result>>
  PROVE  BootInv'
<1> USE DEF BootInv, claims
<1>1. Shapes'
  BY DEF Shapes, Addr
<1>2. Recognised'
  BY DEF Recognised, NothingYet, ClaimedAreKnown, OldAreKnown, Empty, Addr, NoWindow
<1>3. Told'
  BY DEF Told, PlacedHasAWindow, LandedAtTheEnd
<1>4. Safety'
  <2>1. result # "landed"
    BY DEF Running, Told, LandedAtTheEnd
  <2>2. QED
    BY <2>1 DEF Safety, OneLaunchPerWindow, OldWindowsAreLeftAlone, LandedIsTrue
<1>5. QED
  BY <1>1, <1>2, <1>3, <1>4

LEMMA OpensKeeps ==
  ASSUME Shapes, NEW names, NEW ws, NEW pid, NEW from, Opens(names, ws, pid, from)
  PROVE  /\ DOMAIN windows' = Addr /\ nextAddr' \in Nat /\ nextAddr' >= nextAddr
         /\ \A a \in before : windows'[a] = windows[a]
BY DEF Shapes, Opens

LEMMA DesktopStep == BootInv /\ Desktop => BootInv'
<1> SUFFICES ASSUME BootInv, Desktop PROVE BootInv'
  OBVIOUS
<1>0. Shapes
  BY DEF BootInv
<1>1. ASSUME NEW e \in Rows, RowOpens(e) PROVE BootInv'
  <2>1. PICK ws, pid, names : Opens(names, ws, pid, e)
    BY <1>1 DEF RowOpens
  <2>2. QED
    BY <1>0, <1>1, <2>1, OpensKeeps, DesktopKeeps DEF RowOpens, watching
<1>2. CASE UserOpens
  <2>1. PICK ws, n : Opens({n}, ws, 0, 0)
    BY <1>2 DEF UserOpens
  <2>2. QED
    BY <1>0, <1>2, <2>1, OpensKeeps, DesktopKeeps DEF UserOpens, Meddles, watching
<1>3. ASSUME NEW a \in Addr, UserCloses(a) PROVE BootInv'
  BY <1>0, <1>3, DesktopKeeps DEF UserCloses, Meddles, watching, Shapes
<1>4. ASSUME NEW a \in Addr, UserMoves(a) PROVE BootInv'
  BY <1>0, <1>4, DesktopKeeps DEF UserMoves, Meddles, watching, Shapes, Shown
<1>5. QED
  BY <1>1, <1>2, <1>3, <1>4 DEF Desktop

-----------------------------------------------------------------------------
(* A step of the anchor that recognises nothing and ends nothing: it moves *)
(* on, maybe with a fresh list, or none.                                   *)
LEMMA AnchorMovesOn ==
  ASSUME BootInv, at \notin {"start", "baseline", "done"}, at' \notin {"start", "baseline", "done"},
         UNCHANGED <<windows, nextAddr, before, missed, address, known, result>>,
         view' \in {view, windows, Empty}, blind' \in Nat,
         DOMAIN outcome' = Rows,
         \A e \in Rows : outcome'[e] = outcome[e] \/ outcome'[e] = "no-show"
  PROVE  BootInv'
<1> USE DEF BootInv
<1>1. Shapes'
  BY DEF Shapes, Addr, Empty
<1>2. Recognised'
  BY DEF Recognised, NothingYet, ClaimedAreKnown, OldAreKnown, Empty, Addr, NoWindow, Shapes
<1>3. Told'
  BY DEF Told, PlacedHasAWindow, LandedAtTheEnd
<1>4. Safety'
  <2>1. result # "landed"
    BY DEF Told, LandedAtTheEnd
  <2>2. QED
    BY <2>1 DEF Safety, OneLaunchPerWindow, OldWindowsAreLeftAlone, LandedIsTrue
<1>5. QED
  BY <1>1, <1>2, <1>3, <1>4

LEMMA BeginKeeps == BootInv /\ Begin => BootInv'
<1> SUFFICES ASSUME BootInv, Begin PROVE BootInv'
  OBVIOUS
<1> USE DEF BootInv, Begin, desktop, launched, claims, watching
<1>1. Shapes'
  BY DEF Shapes, Addr
<1>2. Recognised'
  BY DEF Recognised, NothingYet, ClaimedAreKnown, OldAreKnown, Empty, Addr, NoWindow
<1>3. Told'
  BY DEF Told, PlacedHasAWindow, LandedAtTheEnd
<1>4. Safety'
  BY DEF Safety, OneLaunchPerWindow, OldWindowsAreLeftAlone, LandedIsTrue, Told, LandedAtTheEnd
<1>5. QED
  BY <1>1, <1>2, <1>3, <1>4

LEMMA BaselineKeeps == BootInv /\ Baseline => BootInv'
<1> SUFFICES ASSUME BootInv, Baseline PROVE BootInv'
  OBVIOUS
<1> USE DEF BootInv, Baseline, desktop, launched, watching
<1>1. Shapes'
  <2>1. known' \subseteq Addr /\ blind' \in Nat
    BY DEF Shapes, ReadFails
  <2>2. UNCHANGED <<windows, view, outcome, address, before, nextAddr>>
    OBVIOUS
  <2>3. QED
    BY <2>1, <2>2 DEF Shapes
<1>2. Recognised'
  BY DEF Recognised, NothingYet, ClaimedAreKnown, OldAreKnown, Empty, Shapes, Shown
<1>3. Told'
  BY DEF Told, PlacedHasAWindow, LandedAtTheEnd
<1>4. Safety'
  BY DEF Safety, OneLaunchPerWindow, OldWindowsAreLeftAlone, LandedIsTrue, Told, LandedAtTheEnd
<1>5. QED
  BY <1>1, <1>2, <1>3, <1>4

LEMMA LaunchRoundKeeps == BootInv /\ LaunchRound => BootInv'
<1> SUFFICES ASSUME BootInv, LaunchRound PROVE BootInv'
  OBVIOUS
<1>1. CASE \E up : NoShowYet(up) /\ Watch(up, FALSE)
  <2>1. PICK up : NoShowYet(up) /\ Watch(up, FALSE)
    BY <1>1
  <2>2. outcome' = [e \in Rows |-> IF e \in up THEN "no-show" ELSE outcome[e]]
    BY <2>1, Zenon DEF NoShowYet
  <2>3. /\ at = "launch" /\ at' = "watch" /\ view' = view /\ blind' \in Nat
        /\ UNCHANGED <<windows, nextAddr, before, missed, address, known, result>>
    BY <2>1 DEF LaunchRound, Watch, desktop, BootInv, Shapes
  <2>4. /\ DOMAIN outcome' = Rows
        /\ \A e \in Rows : outcome'[e] = outcome[e] \/ outcome'[e] = "no-show"
    BY <2>2
  <2>5. QED
    BY <2>3, <2>4, AnchorMovesOn
<1>2. CASE Watch({e \in Rows : Unclaimed(e)}, TRUE) /\ UNCHANGED outcome
  BY <1>2, AnchorMovesOn DEF LaunchRound, Watch, desktop, BootInv, Shapes
<1>3. QED
  BY <1>1, <1>2 DEF LaunchRound

LEMMA ReadingKeeps == BootInv /\ (ReadWindows \/ Wait \/ ReadForPids) => BootInv'
<1> SUFFICES ASSUME BootInv, ReadWindows \/ Wait \/ ReadForPids PROVE BootInv'
  OBVIOUS
<1> USE DEF desktop, claims
<1>1. CASE ReadWindows
  BY <1>1, AnchorMovesOn DEF ReadWindows, WatchEnds, ReadFails, BootInv, Shapes
<1>2. CASE Wait
  BY <1>2, AnchorMovesOn DEF Wait, WatchEnds, BootInv, Shapes
<1>3. CASE ReadForPids
  BY <1>3, AnchorMovesOn DEF ReadForPids, ReadFails, BootInv, Shapes
<1>4. QED
  BY <1>1, <1>2, <1>3

(* A claim of a window nobody recognised before.                           *)
LEMMA ClaimKeeps ==
  ASSUME BootInv, NEW e, NEW a \in Addr \ known, view[a] # NoWindow, Claim(e, a),
         at \in {"match", "matchPid"},
         UNCHANGED <<at, view, nextAddr, before, missed, blind, result>>
  PROVE  BootInv'
<1> USE DEF BootInv, Claim
<1>0. /\ a # 0 /\ a \in Addr
      /\ address' = [address EXCEPT ![e] = a]
      /\ \A f \in Rows : address'[f] = IF f = e THEN a ELSE address[f]
  BY DEF Shapes, Addr
<1>1. Shapes'
  BY <1>0 DEF Shapes, Addr, Place
<1>2. \A b \in Addr : windows[b] = NoWindow => windows'[b] = NoWindow
  BY DEF Shapes, Place, Shown
<1>3. Recognised'
  BY <1>0, <1>2 DEF Recognised, NothingYet, ClaimedAreKnown, OldAreKnown, Shapes
<1>4. Told'
  <2>1. \A f \in Rows : f # e => outcome'[f] = outcome[f]
    BY DEF Place, Shapes
  <2>2. QED
    BY <1>0, <2>1 DEF Told, PlacedHasAWindow, LandedAtTheEnd
<1>5. Safety'
  <2>1. OneLaunchPerWindow'
    BY <1>0 DEF Safety, OneLaunchPerWindow, Recognised, ClaimedAreKnown
  <2>2. OldWindowsAreLeftAlone'
    BY <1>0 DEF Safety, OldWindowsAreLeftAlone, Recognised, OldAreKnown
  <2>3. result # "landed"
    BY DEF Told, LandedAtTheEnd
  <2>4. QED
    BY <2>1, <2>2, <2>3 DEF Safety, LandedIsTrue
<1>6. QED
  BY <1>1, <1>3, <1>4, <1>5

LEMMA MatchKeeps == BootInv /\ (Match \/ MatchPid) => BootInv'
<1> SUFFICES ASSUME BootInv, Match \/ MatchPid PROVE BootInv'
  OBVIOUS
<1>1. CASE Match
  <2>1. CASE MatchOne(OfClass)
    <3>1. CASE UNCHANGED <<claims, windows>>
      BY <1>1, <2>1, <3>1, AnchorMovesOn DEF Match, MatchOne, claims, BootInv, Shapes
    <3>2. CASE \E a \in OfClass(Lowest(todo)) : Claim(Lowest(todo), a)
      BY <1>1, <2>1, <3>2, ClaimKeeps DEF Match, MatchOne, OfClass
    <3>3. QED
      BY <2>1, <3>1, <3>2 DEF MatchOne
  <2>2. CASE view' = Empty /\ at' = "wait" /\ UNCHANGED <<claims, windows>>
    BY <1>1, <2>2, AnchorMovesOn DEF Match, claims, BootInv, Shapes
  <2>3. QED
    BY <1>1, <2>1, <2>2 DEF Match
<1>2. CASE MatchPid
  <2>1. CASE MatchOne(OfPid)
    <3>1. CASE UNCHANGED <<claims, windows>>
      BY <1>2, <2>1, <3>1, AnchorMovesOn DEF MatchPid, MatchOne, claims, BootInv, Shapes
    <3>2. CASE \E a \in OfPid(Lowest(todo)) : Claim(Lowest(todo), a)
      BY <1>2, <2>1, <3>2, ClaimKeeps DEF MatchPid, MatchOne, OfPid
    <3>3. QED
      BY <2>1, <3>1, <3>2 DEF MatchOne
  <2>2. CASE view' = Empty /\ at' = "settle" /\ UNCHANGED <<claims, windows>>
    BY <1>2, <2>2, AnchorMovesOn DEF MatchPid, claims, BootInv, Shapes
  <2>3. QED
    BY <1>2, <2>1, <2>2 DEF MatchPid
<1>3. QED
  BY <1>1, <1>2

(* The report: what it calls placed has a window, and is where it belongs. *)
LEMMA SettleKeeps == BootInv /\ Settle => BootInv'
<1> SUFFICES ASSUME BootInv, Settle PROVE BootInv'
  OBVIOUS
<1> USE DEF BootInv, Settle, desktop, watching
<1>1. Shapes'
  BY DEF Shapes, Addr, ReadFails
<1>2. Recognised'
  BY DEF Recognised, NothingYet, ClaimedAreKnown, OldAreKnown
<1>3. Told'
  BY DEF Told, PlacedHasAWindow, LandedAtTheEnd, Whereabouts
<1>4. OneLaunchPerWindow' /\ OldWindowsAreLeftAlone'
  BY DEF Safety, OneLaunchPerWindow, OldWindowsAreLeftAlone
<1>5. LandedIsTrue'
  <2>1. SUFFICES ASSUME result' = "landed", "last" \notin missed'
                 PROVE  \A e \in Rows : /\ address[e] # 0 /\ Shown(address[e])
                                        /\ windows[address[e]].workspace = Workspace[e]
    BY DEF LandedIsTrue, Shown
  <2>2. outcome' = [e \in Rows |-> Whereabouts(e)]
    BY <2>1
  <2>3. \A e \in Rows : Whereabouts(e) = "placed"
    BY <2>1, <2>2 DEF Landed
  <2>4. QED
    BY <2>3 DEF Whereabouts, Told, PlacedHasAWindow
<1>6. QED
  BY <1>1, <1>2, <1>3, <1>4, <1>5 DEF Safety

LEMMA BootStep == BootInv /\ [Next]_vars => BootInv'
<1> SUFFICES ASSUME BootInv, [Next]_vars PROVE BootInv'
  OBVIOUS
<1>1. CASE Anchor
  BY <1>1, BeginKeeps, BaselineKeeps, LaunchRoundKeeps, ReadingKeeps, MatchKeeps, SettleKeeps
     DEF Anchor
<1>2. CASE Desktop
  BY <1>2, DesktopStep
<1>3. CASE UNCHANGED vars
  BY <1>3 DEF vars, desktop, claims, watching, BootInv, Shapes, Recognised, NothingYet,
     ClaimedAreKnown, OldAreKnown, Told, PlacedHasAWindow, LandedAtTheEnd, Safety,
     OneLaunchPerWindow, OldWindowsAreLeftAlone, LandedIsTrue, Shown
<1>4. QED
  BY <1>1, <1>2, <1>3 DEF Next, Finished

-----------------------------------------------------------------------------
LEMMA BootAlways == Spec => []BootInv
BY BootInit, BootStep, PTL DEF Spec

(* No window is ever given to two launches, in any round, in the sweep or  *)
(* by pid (boot.rs: watch, match_by_pid).                                  *)
THEOREM NoWindowTwice == Spec => []OneLaunchPerWindow
<1>1. BootInv => OneLaunchPerWindow
  BY DEF BootInv, Safety
<1>2. QED
  BY <1>1, BootAlways, PTL

(* Once the first read succeeds, no window from before boot is ever        *)
(* claimed, also when it is closed or moved meanwhile (boot.rs: known).    *)
THEOREM OldWindowsStay == Spec => []OldWindowsAreLeftAlone
<1>1. BootInv => OldWindowsAreLeftAlone
  BY DEF BootInv, Safety
<1>2. QED
  BY <1>1, BootAlways, PTL

(* A report that says landed, and was made from a list of the windows,     *)
(* tells of windows that are there, each on its row's workspace, whatever  *)
(* reads failed before (boot.rs: settle).                                  *)
THEOREM LandedTheorem == Spec => []LandedIsTrue
<1>1. BootInv => LandedIsTrue
  BY DEF BootInv, Safety
<1>2. QED
  BY <1>1, BootAlways, PTL

-----------------------------------------------------------------------------
(* Rounds: related rows are in one group and have different turns in it.   *)

Turn(e) == Cardinality({f \in Group(e) : f <= e})

LEMMA RowsAreNumbers == Rows \subseteq Nat /\ IsFiniteSet(Rows)
<1>1. Cardinality(Rows) \in Nat
  BY RowsAssumption, FS_CardinalityType
<1>2. Rows = 1 .. Cardinality(Rows)
  BY RowsAssumption
<1> DEFINE n == Cardinality(Rows)
<1>3. 1 .. n \subseteq Nat
  BY <1>1
<1> QED  BY <1>2, <1>3, RowsAssumption

LEMMA RelatedShareGroup ==
  ASSUME NEW e \in Rows, NEW f \in Rows, Related(e, f)
  PROVE  Group(e) = Group(f)
<1> DEFINE Closed(S) == \A a \in S, b \in Rows : Related(a, b) => b \in S
<1>1. Related(f, e)
  BY DEF Related
<1>2. \A S \in SUBSET Rows : Closed(S) => (e \in S <=> f \in S)
  BY <1>1
<1>3. Group(e) = {g \in Rows : \A S \in SUBSET Rows : (e \in S /\ Closed(S)) => g \in S}
  BY Zenon DEF Group
<1>4. Group(f) = {g \in Rows : \A S \in SUBSET Rows : (f \in S /\ Closed(S)) => g \in S}
  BY Zenon DEF Group
<1> HIDE DEF Closed
<1> QED  BY <1>2, <1>3, <1>4

LEMMA TurnsAreNumbers ==
  ASSUME NEW e \in Rows
  PROVE  Turn(e) \in Nat
<1>1. {f \in Group(e) : f <= e} \subseteq Rows
  BY DEF Group
<1>2. IsFiniteSet({f \in Group(e) : f <= e})
  BY <1>1, RowsAreNumbers, FS_Subset
<1> QED  BY <1>2, FS_CardinalityType DEF Turn

LEMMA RelatedTakeTurns ==
  ASSUME NEW e \in Rows, NEW f \in Rows, Related(e, f), Turn(e) = Turn(f)
  PROVE  e = f
<1>1. ASSUME NEW a \in Rows, NEW b \in Rows, Group(a) = Group(b), Turn(a) = Turn(b), a < b
      PROVE  FALSE
  <2> DEFINE A == {g \in Group(a) : g <= a}
             B == {g \in Group(b) : g <= b}
  <2>1. A \subseteq B
    <3>1. \A g \in Group(a) : g \in Nat
      BY RowsAreNumbers DEF Group
    <3>2. a \in Nat /\ b \in Nat
      BY RowsAreNumbers
    <3> QED  BY <1>1, <3>1, <3>2
  <2>2. b \in B /\ b \notin A
    <3>1. b \in Nat /\ a \in Nat
      BY RowsAreNumbers
    <3>2. b \in Group(b)
      BY DEF Group
    <3> QED  BY <1>1, <3>1, <3>2
  <2>3. IsFiniteSet(B)
    <3>1. B \subseteq Rows
      BY DEF Group
    <3> QED  BY <3>1, RowsAreNumbers, FS_Subset
  <2>4. A # B /\ Cardinality(A) = Cardinality(B)
    BY <1>1, <2>2 DEF Turn
  <2> HIDE DEF A, B
  <2> QED  BY <2>1, <2>3, <2>4, FS_Subset
<1>2. Group(e) = Group(f)
  BY RelatedShareGroup
<1>3. e \in Nat /\ f \in Nat
  BY RowsAreNumbers
<1>4. e < f \/ f < e \/ e = f
  BY <1>3
<1> QED  BY <1>1, <1>2, <1>4
-----------------------------------------------------------------------------
(* When windows come in time and under their classes, each launch gets its *)
(* own.  What a window then is: the one of a row that has shown it.        *)
OwnWindow(f) ==
  [names : {{WindowClass[f]}}, workspace : Workspaces \cup {Workspace[e] : e \in Rows},
   pid : {0} \cup Rows, from : {f}]

(* Only rows' windows are there, one of each, and addresses are not skipped.*)
OwnWindows ==
  /\ nextAddr \in Nat \ {0}
  /\ \A a \in Addr : a < nextAddr => \E f \in opened : windows[a] \in OwnWindow(f)
  /\ \A a \in Addr : a >= nextAddr => windows[a] = NoWindow
  /\ \A a, b \in Addr :
       (a < nextAddr /\ b < nextAddr /\ windows[a].from = windows[b].from) => a = b

(* The last list tells the classes windows have.                           *)
InView ==
  \A a \in Addr : view[a] # NoWindow => (a < nextAddr /\ view[a].names = windows[a].names)

(* A row is launched in the round of its turn.                             *)
Started ==
  /\ round \in Nat /\ DOMAIN status = Rows
  /\ opened \subseteq {e \in Rows : status[e] = "started"}
  /\ \A e \in Rows : status[e] # "none" => Turn(e) < round

OwnClaims ==
  \A e \in Rows : address[e] # 0 => (address[e] < nextAddr /\ windows[address[e]].from = e)

(* Every launch without a window is looked for, and no two that race are.  *)
LookedFor ==
  /\ waiting \subseteq Rows
  /\ \A e, f \in waiting : Related(e, f) => e = f
  /\ at \in {"watch", "match", "wait"} => \A e \in Rows : Unclaimed(e) => e \in waiting
  /\ at \notin {"watch", "match", "wait"} => \A e \in Rows : ~Unclaimed(e)
  /\ at # "matchPid"
  /\ at = "match" => todo \subseteq waiting

OwnInv == punctual => (OwnWindows /\ InView /\ Started /\ OwnClaims /\ LookedFor)

(* A step with no part in it leaves the whole of it.                       *)
LEMMA OthersOwn == OwnInv /\ UNCHANGED vars => OwnInv'
BY DEF OwnInv, vars, desktop, launched, claims, watching, OwnWindows, InView, Started, OwnClaims,
       LookedFor, Unclaimed

LEMMA OwnInit == Init => OwnInv
<1> SUFFICES ASSUME Init, punctual PROVE OwnWindows /\ InView /\ Started /\ OwnClaims /\ LookedFor
  BY DEF OwnInv
<1>1. nextAddr = 1 /\ \A a \in Addr : windows[a] = NoWindow
  <2>1. PICK n \in {0} \cup (IF punctual THEN {} ELSE {1}), names \in OldNames, ws \in Workspaces :
          /\ windows = [a \in Addr |->
               IF a <= n THEN [names |-> {names}, workspace |-> ws, pid |-> 0, from |-> 0]
               ELSE NoWindow]
          /\ nextAddr = n + 1
    BY DEF Init
  <2>2. n = 0
    OBVIOUS
  <2>3. \A a \in Addr : ~(a <= 0)
    BY DEF Addr
  <2> QED  BY <2>1, <2>2, <2>3
<1>2. OwnWindows
  BY <1>1 DEF OwnWindows, Addr
<1>3. InView
  BY DEF Init, InView, Empty
<1>4. Started /\ OwnClaims /\ LookedFor
  BY DEF Init, Started, OwnClaims, LookedFor, Unclaimed
<1> QED  BY <1>2, <1>3, <1>4

(* The next window is a row's, and the first that row shows.               *)
LEMMA RowOpensOwn ==
  ASSUME BootInv, OwnInv, NEW e \in Rows, RowOpens(e), punctual
  PROVE  OwnInv'
<1>1. OwnWindows /\ InView /\ Started /\ OwnClaims /\ LookedFor
  BY DEF OwnInv
<1>2. PICK ws \in Workspaces, pid \in {0, e} : Opens({WindowClass[e]}, ws, pid, e)
  BY DEF RowOpens
<1> DEFINE w == [names |-> {WindowClass[e]}, workspace |-> ws, pid |-> pid, from |-> e]
<1>3. w \in OwnWindow(e) /\ w.from = e
  BY DEF OwnWindow
<1>4. /\ windows' = [windows EXCEPT ![nextAddr] = w] /\ nextAddr' = nextAddr + 1
      /\ nextAddr \in Addr /\ DOMAIN windows = Addr
  <2>1. nextAddr \in Nat /\ nextAddr # 0
    BY <1>1 DEF OwnWindows
  <2> QED  BY <1>2, <2>1, KnobsAssumption DEF Opens, Addr, BootInv, Shapes
<1> HIDE DEF w
<1>5. /\ windows'[nextAddr] = w
      /\ \A a \in Addr : a # nextAddr => windows'[a] = windows[a]
  BY <1>4
<1>6. /\ \A a \in Addr : a < nextAddr' <=> (a < nextAddr \/ a = nextAddr)
      /\ \A a \in Addr : a >= nextAddr' => (a >= nextAddr /\ a # nextAddr)
      /\ ~(nextAddr < nextAddr) /\ nextAddr >= nextAddr
  BY <1>4 DEF Addr
<1>7. opened' = opened \cup {e} /\ e \notin opened /\ status[e] = "started"
  BY DEF RowOpens
<1>8. UNCHANGED <<punctual, view, status, round, address, waiting, at, todo>>
  BY DEF RowOpens, launched, claims, watching
<1>9. OwnWindows'
  <2>0. nextAddr' \in Nat \ {0}
    BY <1>1, <1>4 DEF OwnWindows
  <2>1. \A a \in Addr : a < nextAddr' => \E f \in opened' : windows'[a] \in OwnWindow(f)
    BY <1>1, <1>3, <1>5, <1>6, <1>7 DEF OwnWindows
  <2>2. \A a \in Addr : a >= nextAddr' => windows'[a] = NoWindow
    BY <1>1, <1>5, <1>6 DEF OwnWindows
  <2>3. \A a \in Addr : a < nextAddr => windows[a].from # e
    BY <1>1, <1>7 DEF OwnWindows, OwnWindow
  <2>4. \A a, b \in Addr :
          (a < nextAddr' /\ b < nextAddr' /\ windows'[a].from = windows'[b].from) => a = b
    BY <1>1, <1>3, <1>5, <1>6, <2>3 DEF OwnWindows
  <2> QED  BY <2>0, <2>1, <2>2, <2>4 DEF OwnWindows
<1>10. InView'
  BY <1>1, <1>5, <1>6, <1>8 DEF InView
<1>11. Started'
  BY <1>1, <1>7, <1>8 DEF Started
<1>12. OwnClaims'
  <2>1. \A f \in Rows : address[f] # 0 => address[f] \in Addr
    BY DEF BootInv, Shapes
  <2> QED  BY <1>1, <1>5, <1>6, <1>8, <2>1 DEF OwnClaims
<1>13. LookedFor'
  BY <1>1, <1>8 DEF LookedFor, Unclaimed
<1> QED  BY <1>9, <1>10, <1>11, <1>12, <1>13 DEF OwnInv

LEMMA DesktopOwn == BootInv /\ OwnInv /\ Desktop => OwnInv'
<1> SUFFICES ASSUME BootInv, OwnInv, Desktop PROVE OwnInv'
  OBVIOUS
<1>1. CASE ~punctual
  BY <1>1 DEF OwnInv, Desktop, RowOpens, UserOpens, UserCloses, UserMoves, Meddles
<1>2. CASE punctual
  BY <1>2, RowOpensOwn DEF Desktop, UserOpens, UserCloses, UserMoves, Meddles
<1> QED  BY <1>1, <1>2

-----------------------------------------------------------------------------
(* A step of the anchor that launches nothing and recognises nothing.      *)
LEMMA LookingOwn ==
  ASSUME OwnInv, punctual,
         UNCHANGED <<desktop, launched, address, waiting>>,
         view' \in {view, windows, Empty}, LookedFor => LookedFor'
  PROVE  OwnInv'
<1> USE DEF desktop, launched
<1>1. OwnWindows /\ InView /\ Started /\ OwnClaims /\ LookedFor
  BY DEF OwnInv
<1>2. OwnWindows' /\ Started' /\ OwnClaims'
  BY <1>1 DEF OwnWindows, Started, OwnClaims
<1>3. InView'
  <2>1. \A a \in Addr : a < nextAddr \/ a >= nextAddr
    BY <1>1 DEF Addr, OwnWindows
  <2> QED  BY <1>1, <2>1 DEF InView, OwnWindows, Empty
<1> QED  BY <1>1, <1>2, <1>3 DEF OwnInv

LEMMA BeginOwn == OwnInv /\ (Begin \/ Baseline \/ Settle) => OwnInv'
<1> SUFFICES ASSUME OwnInv, Begin \/ Baseline \/ Settle, punctual PROVE OwnInv'
  BY DEF OwnInv, Begin, Baseline, Settle, desktop
<1>1. LookedFor => LookedFor'
  BY DEF Begin, Baseline, Settle, LookedFor, Unclaimed, claims, watching, launched
<1>2. /\ UNCHANGED <<desktop, launched, address, waiting>>
      /\ view' \in {view, windows, Empty}
  BY DEF Begin, Baseline, Settle, claims, watching
<1> QED  BY <1>1, <1>2, LookingOwn

(* A round launches one row of each group, and looks for what it launched. *)
LEMMA LaunchRoundOwn == BootInv /\ OwnInv /\ LaunchRound => OwnInv'
<1> SUFFICES ASSUME BootInv, OwnInv, LaunchRound, punctual PROVE OwnInv'
  BY DEF OwnInv, LaunchRound, desktop
<1>1. OwnWindows /\ InView /\ Started /\ OwnClaims /\ LookedFor
  BY DEF OwnInv
<1>2. /\ UNCHANGED <<punctual, windows, nextAddr, opened, view, address>>
      /\ at = "launch" /\ at' = "watch"
  BY DEF LaunchRound, Watch, desktop
<1>3. OwnWindows' /\ InView' /\ OwnClaims'
  BY <1>1, <1>2 DEF OwnWindows, InView, OwnClaims
<1>4. \A e \in Rows : ~Unclaimed(e)
  BY <1>1, <1>2 DEF LookedFor
<1>5. CASE Watch({e \in Rows : Unclaimed(e)}, TRUE) /\ UNCHANGED launched
  <2>1. UNCHANGED <<status, round>> /\ waiting' = {}
    BY <1>4, <1>5 DEF Watch, launched
  <2>2. Started' /\ LookedFor'
    BY <1>1, <1>2, <1>4, <2>1 DEF Started, LookedFor, Unclaimed
  <2> QED  BY <1>2, <1>3, <2>2 DEF OwnInv
<1>6. ASSUME NEW up \in SUBSET InRound(round),
             status' = [e \in Rows |-> IF e \notin InRound(round) THEN status[e]
                                       ELSE IF e \in up THEN "started" ELSE "failed"],
             Watch(up, FALSE), round' = round + 1
      PROVE  OwnInv'
  <2>1. \A e \in Rows : e \in InRound(round) <=> Turn(e) = round
    BY DEF InRound, Turn
  <2>2. InRound(round) \subseteq Rows
    BY DEF InRound
  <2>3. \A e \in InRound(round) : status[e] = "none"
    <3>1. round \in Nat /\ \A e \in Rows : status[e] # "none" => Turn(e) < round
      BY <1>1 DEF Started
    <3>2. ~(round < round)
      BY <3>1
    <3> QED  BY <2>1, <2>2, <3>1, <3>2
  <2>4. Started'
    <3>1. round' \in Nat /\ DOMAIN status' = Rows
      BY <1>1, <1>6 DEF Started
    <3>2. opened' \subseteq {e \in Rows : status'[e] = "started"}
      BY <1>1, <1>2, <1>6, <2>3 DEF Started
    <3>3. ASSUME NEW e \in Rows, status'[e] # "none"
          PROVE  Turn(e) < round'
      <4>1. Turn(e) = round \/ Turn(e) < round
        BY <1>1, <1>6, <2>1, <3>3 DEF Started
      <4> QED  BY <1>1, <1>6, <4>1, TurnsAreNumbers DEF Started
    <3> QED  BY <3>1, <3>2, <3>3 DEF Started
  <2>5. waiting' = up
    BY <1>6 DEF Watch
  <2>6. \A e, f \in up : Related(e, f) => e = f
    BY <2>1, <2>2, RelatedTakeTurns
  <2>7. \A e \in Rows : (status'[e] = "started" /\ address[e] = 0) => e \in up
    BY <1>4, <1>6 DEF Unclaimed
  <2>8. LookedFor'
    BY <1>2, <2>2, <2>5, <2>6, <2>7 DEF LookedFor, Unclaimed
  <2> QED  BY <1>2, <1>3, <2>4, <2>8 DEF OwnInv
<1> QED  BY <1>5, <1>6 DEF LaunchRound

LEMMA ReadWindowsOwn == OwnInv /\ ReadWindows => OwnInv'
<1> SUFFICES ASSUME OwnInv, ReadWindows, punctual PROVE OwnInv'
  BY DEF OwnInv, ReadWindows, desktop
<1>1. /\ UNCHANGED <<desktop, launched, address, waiting>>
      /\ view' \in {view, windows, Empty}
  BY DEF ReadWindows, claims
<1>2. LookedFor => LookedFor'
  <2>1. CASE {e \in waiting : Unclaimed(e)} = {} /\ WatchEnds
    BY <1>1, <2>1 DEF ReadWindows, LookedFor, Unclaimed, launched, WatchEnds
  <2>2. CASE at' = "match" /\ todo' = {e \in waiting : Unclaimed(e)}
    BY <1>1, <2>2 DEF ReadWindows, LookedFor, Unclaimed, launched
  <2> QED  BY <2>1, <2>2 DEF ReadWindows, ReadFails
<1> QED  BY <1>1, <1>2, LookingOwn

LEMMA WaitOwn == OwnInv /\ Wait => OwnInv'
<1> SUFFICES ASSUME OwnInv, Wait, punctual PROVE OwnInv'
  BY DEF OwnInv, Wait, desktop
<1>1. UNCHANGED <<desktop, launched, address, waiting, view>>
  BY DEF Wait, claims
<1>2. LookedFor => LookedFor'
  BY <1>1 DEF Wait, LookedFor, Unclaimed, launched, WatchEnds
<1> QED  BY <1>1, <1>2, LookingOwn

LEMMA ReadForPidsOwn == OwnInv /\ (ReadForPids \/ MatchPid) => OwnInv'
<1> SUFFICES ASSUME OwnInv, ReadForPids \/ MatchPid, punctual PROVE OwnInv'
  BY DEF OwnInv, ReadForPids, MatchPid, desktop
<1>1. LookedFor
  BY DEF OwnInv
<1>2. ~MatchPid
  BY <1>1 DEF LookedFor, MatchPid
<1>3. at' = "settle" /\ UNCHANGED <<desktop, launched, address, waiting, view>>
  BY <1>1, <1>2 DEF ReadForPids, LookedFor, Unclaimed, claims
<1>4. LookedFor'
  BY <1>1, <1>2, <1>3 DEF ReadForPids, LookedFor, Unclaimed, launched
<1> QED  BY <1>3, <1>4, LookingOwn

-----------------------------------------------------------------------------
(* The row at the front is one of them.                                    *)
LEMMA LowestIsThere ==
  ASSUME NEW S \in SUBSET Rows, S # {}
  PROVE  Lowest(S) \in S
<1>1. S \in SUBSET Nat
  BY RowsAreNumbers
<1>2. PICK e \in S : \A f \in S : ~(<<f, e>> \in OpToRel(<, Nat))
  BY <1>1, NatLessThanWellFounded, WFMin
<1>3. \A f \in S : f \in Nat /\ e \in Nat /\ ~(f < e)
  <2>1. ASSUME NEW f \in S, f < e PROVE FALSE
    <3>1. f \in Nat /\ e \in Nat
      BY <1>1
    <3>2. <<f, e>> \in OpToRel(<, Nat)
      BY <2>1, <3>1, Zenon DEF OpToRel
    <3> QED  BY <1>2, <3>2
  <2> QED  BY <1>1, <2>1
<1>4. \A f \in S : e <= f
  BY <1>3
<1> QED  BY <1>4 DEF Lowest

(* A window of e's class that is new is e's: its row races with e, and is  *)
(* looked for as well unless its window is set aside already.              *)
LEMMA OfClassIsOwn ==
  ASSUME BootInv, OwnInv, punctual, at = "match", NEW e \in waiting, NEW a \in OfClass(e)
  PROVE  a \in Addr /\ a < nextAddr /\ windows[a] \in OwnWindow(e)
<1>1. OwnWindows /\ InView /\ Started /\ OwnClaims /\ LookedFor
  BY DEF OwnInv
<1>2. a \in Addr /\ a \notin known /\ a < nextAddr /\ WindowClass[e] \in windows[a].names
  BY <1>1 DEF OfClass, InView
<1>3. PICK f \in opened : windows[a] \in OwnWindow(f)
  BY <1>1, <1>2 DEF OwnWindows
<1>4. e \in Rows /\ f \in Rows /\ status[f] = "started"
  BY <1>1 DEF Started, LookedFor
<1>5. Related(e, f)
  <2>1. WindowClass[e] = WindowClass[f]
    BY <1>2, <1>3 DEF OwnWindow
  <2> QED  BY <1>4, <2>1, ClassKeyAssumption DEF Related
<1>6. address[f] = 0
  <2>1. SUFFICES ASSUME address[f] # 0 PROVE FALSE
    OBVIOUS
  <2>2. address[f] \in known /\ address[f] \in Addr
    BY <1>4, <2>1 DEF BootInv, Shapes, Recognised, ClaimedAreKnown
  <2>3. address[f] < nextAddr /\ windows[address[f]].from = f
    BY <1>1, <1>4, <2>1 DEF OwnClaims
  <2>4. windows[a].from = f
    BY <1>3 DEF OwnWindow
  <2>5. address[f] = a
    BY <1>1, <1>2, <2>2, <2>3, <2>4 DEF OwnWindows
  <2> QED  BY <1>2, <2>2, <2>5
<1>7. f \in waiting
  BY <1>1, <1>4, <1>6 DEF LookedFor, Unclaimed
<1>8. f = e
  BY <1>1, <1>5, <1>7 DEF LookedFor
<1> QED  BY <1>2, <1>3, <1>8

(* Moving a window leaves whose it is.                                     *)
LEMMA PlaceOwn ==
  ASSUME NEW e \in Rows, NEW a \in Addr, windows[a] \in OwnWindow(e), DOMAIN windows = Addr,
         Place(e, a)
  PROVE  /\ windows'[a] \in OwnWindow(e) /\ windows'[a].names = windows[a].names
         /\ \A b \in Addr : b # a => windows'[b] = windows[b]
<1>1. CASE UNCHANGED windows
  BY <1>1
<1>2. CASE windows' = [windows EXCEPT ![a].workspace = Workspace[e]]
  <2> DEFINE w == [windows[a] EXCEPT !.workspace = Workspace[e]]
  <2>1. w \in OwnWindow(e) /\ w.names = windows[a].names
    BY DEF OwnWindow
  <2>2. windows' = [windows EXCEPT ![a] = w]
    BY <1>2
  <2> HIDE DEF w
  <2> QED  BY <2>1, <2>2
<1> QED  BY <1>1, <1>2 DEF Place

LEMMA ClaimOwn ==
  ASSUME BootInv, OwnInv, punctual, at = "match", NEW e \in todo, NEW a \in OfClass(e),
         Claim(e, a), todo' \subseteq todo,
         UNCHANGED <<at, view, punctual, nextAddr, opened, status, round, waiting>>
  PROVE  OwnInv'
<1>1. OwnWindows /\ InView /\ Started /\ OwnClaims /\ LookedFor
  BY DEF OwnInv
<1>2. e \in waiting /\ e \in Rows
  BY <1>1 DEF LookedFor
<1>3. a \in Addr /\ a < nextAddr /\ windows[a] \in OwnWindow(e)
  BY <1>2, OfClassIsOwn
<1>4. /\ windows'[a] \in OwnWindow(e) /\ windows'[a].names = windows[a].names
      /\ \A b \in Addr : b # a => windows'[b] = windows[b]
  BY <1>2, <1>3, PlaceOwn DEF Claim, BootInv, Shapes
<1>5. windows'[a].from = e /\ windows[a].from = e
  BY <1>3, <1>4 DEF OwnWindow
<1>6. OwnWindows'
  <2>1. \A b \in Addr : b < nextAddr => \E f \in opened : windows'[b] \in OwnWindow(f)
    <3>1. PICK f \in opened : windows[a] \in OwnWindow(f)
      BY <1>1, <1>3 DEF OwnWindows
    <3>2. f = e
      BY <1>3, <3>1 DEF OwnWindow
    <3> QED  BY <1>1, <1>4, <3>1, <3>2 DEF OwnWindows
  <2>2. \A b \in Addr : b >= nextAddr => windows'[b] = NoWindow
    <3>1. ~(a >= nextAddr)
      BY <1>1, <1>3 DEF OwnWindows, Addr
    <3> QED  BY <1>1, <1>4, <3>1 DEF OwnWindows
  <2>3. \A b, c \in Addr :
          (b < nextAddr /\ c < nextAddr /\ windows'[b].from = windows'[c].from) => b = c
    BY <1>1, <1>3, <1>4, <1>5 DEF OwnWindows
  <2> QED  BY <1>1, <2>1, <2>2, <2>3 DEF OwnWindows
<1>7. InView'
  BY <1>1, <1>4 DEF InView
<1>8. Started'
  BY <1>1 DEF Started
<1>9. address' = [address EXCEPT ![e] = a] /\ address \in [Rows -> {0} \cup Addr]
  BY DEF Claim, BootInv, Shapes
<1>10. OwnClaims'
  <2>1. ASSUME NEW f \in Rows, address'[f] # 0
        PROVE  address'[f] < nextAddr /\ windows'[address'[f]].from = f
    <3>1. CASE f = e
      BY <1>2, <1>3, <1>5, <1>9, <3>1
    <3>2. CASE f # e
      <4>1. address'[f] = address[f] /\ address[f] \in Addr
        BY <1>9, <2>1, <3>2
      <4>2. address[f] < nextAddr /\ windows[address[f]].from = f
        BY <1>1, <2>1, <4>1 DEF OwnClaims
      <4> QED  BY <1>4, <1>5, <3>2, <4>1, <4>2
    <3> QED  BY <3>1, <3>2
  <2> QED  BY <2>1 DEF OwnClaims
<1>11. LookedFor'
  <2>1. a # 0
    BY <1>3 DEF Addr
  <2>2. \A f \in Rows : address'[f] = 0 => address[f] = 0
    BY <1>9, <2>1
  <2> QED  BY <1>1, <2>2 DEF LookedFor, Unclaimed
<1> QED  BY <1>6, <1>7, <1>8, <1>10, <1>11 DEF OwnInv

LEMMA MatchOwn == BootInv /\ OwnInv /\ Match => OwnInv'
<1> SUFFICES ASSUME BootInv, OwnInv, Match, punctual PROVE OwnInv'
  BY DEF OwnInv, Match
<1>1. LookedFor
  BY DEF OwnInv
<1>2. CASE UNCHANGED <<claims, windows>>
  <2>1. /\ UNCHANGED <<desktop, launched, address, waiting>>
        /\ view' \in {view, windows, Empty}
    BY <1>2 DEF Match, MatchOne, claims, desktop
  <2>2. at' \in {"match", "wait"} /\ at = "match" /\ todo' \subseteq todo
    BY DEF Match, MatchOne
  <2>3. LookedFor'
    BY <1>1, <2>1, <2>2 DEF LookedFor, Unclaimed, launched
  <2> QED  BY <2>1, <2>3, LookingOwn
<1>3. CASE todo # {} /\ \E a \in OfClass(Lowest(todo)) : Claim(Lowest(todo), a)
  <2>1. todo \in SUBSET Rows
    BY <1>1 DEF LookedFor, Match
  <2>2. Lowest(todo) \in todo
    BY <1>3, <2>1, LowestIsThere
  <2>3. todo' \subseteq todo /\ UNCHANGED <<at, view>> /\ at = "match"
    <3>1. CASE MatchOne(OfClass)
      BY <3>1 DEF Match, MatchOne
    <3>2. CASE todo = {}
      BY <1>3, <3>2
    <3> QED  BY <3>1, <3>2 DEF Match
  <2> QED  BY <1>3, <2>2, <2>3, ClaimOwn DEF Match, launched
<1>4. QED
  BY <1>2, <1>3 DEF Match, MatchOne

LEMMA OwnStep == BootInv /\ OwnInv /\ [Next]_vars => OwnInv'
BY OthersOwn, DesktopOwn, BeginOwn, LaunchRoundOwn, ReadWindowsOwn, WaitOwn, ReadForPidsOwn,
   MatchOwn DEF Next, Anchor, Finished

(* When the rows' windows come in time, each under the class it was pinned *)
(* with, no launch ever takes another's, however many rows there are of    *)
(* one program or one class, in whatever groups (boot.rs: groups, watch).  *)
THEOREM EachItsOwn == Spec => []EachGetsItsOwn
<1>1. OwnInv => EachGetsItsOwn
  BY DEF OwnInv, OwnClaims, EachGetsItsOwn
<1>2. Spec => []OwnInv
  BY BootAlways, OwnInit, OwnStep, PTL DEF Spec
<1> QED  BY <1>1, <1>2, PTL

=============================================================================
