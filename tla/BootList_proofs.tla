-------------------------- MODULE BootList_proofs --------------------------
(***************************************************************************)
(* What is proved of BootList, for any machine, any windows, any list,     *)
(* however long, and any command, however it is spelled.                   *)
(***************************************************************************)
EXTENDS BootList, Texts_proofs

-----------------------------------------------------------------------------
(* The pins of a list: records of these fields, one for each id.           *)
IsPin(p) ==
  p = [id |-> p.id, wclass |-> p.wclass, ws |-> p.ws, float |-> p.float, label |-> p.label,
       argv |-> p.argv, source |-> p.source, provenance |-> p.provenance, cwd |-> p.cwd,
       enabled |-> p.enabled]
OnePerId(pins) == \A p, q \in pins : p.id = q.id => p = q
IsList(pins) == (\A p \in pins : IsPin(p)) /\ OnePerId(pins)

ListInv == IsList(list) /\ IsList(pending.entries)

-----------------------------------------------------------------------------
LEMMA PinIsPin ==
  ASSUME NEW m, NEW stored, NEW id, NEW o
  PROVE  IsPin(Pin(m, stored, id, o))
BY DEF IsPin, Pin

LEMMA BuildIsPins ==
  ASSUME NEW m, NEW pins, NEW seen
  PROVE  \A p \in Build(m, pins, seen) : IsPin(p)
BY PinIsPin DEF Build, BuildFrom, PinsOf

LEMMA ImportedIsPin ==
  ASSUME NEW o
  PROVE  IsPin(Imported(o))
<1> DEFINE p == Pin(M, Correlate(list, <<o>>, o), FreshId(list, 1), o)
<1>1. IsPin(p)
  BY PinIsPin
<1>2. Imported(o) = [p EXCEPT !.enabled = TRUE]
  BY DEF Imported
<1> HIDE DEF p
<1> QED  BY <1>1, <1>2 DEF IsPin

LEMMA RetypedIsPin ==
  ASSUME NEW p, IsPin(p), NEW argv
  PROVE  IsPin(Retyped(p, argv))
<1> DEFINE label == IF p.label # None THEN p.label ELSE DisplayLabel(M, p.wclass, argv)
<1>1. Retyped(p, argv) =
        [p EXCEPT !.argv = argv, !.source = "overrides-table", !.provenance = None,
                  !.cwd = None, !.label = label]
  BY DEF Retyped
<1> HIDE DEF label
<1> QED  BY <1>1 DEF IsPin

(* A change is offered only when it is valid: one pin for each id.         *)
LEMMA OfferKeeps ==
  ASSUME ListInv, NEW kind, NEW id, NEW entries, NEW d, \A p \in entries : IsPin(p),
         Offer(kind, id, entries, d)
  PROVE  ListInv'
<1>1. pending' = [kind |-> kind, id |-> id, entries |-> entries, delays |-> d]
      /\ Valid(pending'.entries) /\ list' = list
  BY DEF Offer
<1>2. pending'.entries = entries
  BY <1>1
<1>3. OnePerId(pending'.entries)
  BY <1>1 DEF Valid, OnePerId
<1> QED  BY <1>1, <1>2, <1>3 DEF ListInv, IsList

LEMMA ListInit == Init => ListInv
BY DEF Init, ListInv, IsList, OnePerId, NoProposal

LEMMA ListStep == ListInv /\ [Next]_vars => ListInv'
<1> SUFFICES ASSUME ListInv, [Next]_vars PROVE ListInv'
  OBVIOUS
<1>1. CASE UNCHANGED <<list, pending>>
  BY <1>1 DEF ListInv
<1>2. ASSUME NEW mode \in {"replace", "merge"}, Propose(mode) PROVE ListInv'
  <2>1. \A p \in Save(M, list, Seen, mode) : IsPin(p)
    BY BuildIsPins DEF Save, Over, ListInv, IsList
  <2> QED  BY <1>2, <2>1, OfferKeeps DEF Propose
<1>3. ASSUME NEW class, NEW ws, Import(class, ws) PROVE ListInv'
  <2> DEFINE o == ImportedAt(Seen, class, ws)
  <2>1. Offer("import", Imported(o).id, Over(list, {Imported(o)}), delays)
    BY <1>3 DEF Import, OfferImported, OfferPin
  <2>2. \A p \in Over(list, {Imported(o)}) : IsPin(p)
    BY ImportedIsPin DEF Over, ListInv, IsList
  <2> QED  BY <2>1, <2>2, OfferKeeps
<1>4. ASSUME NEW p \in list, NEW text, SetExec(p, text) PROVE ListInv'
  <2> DEFINE words == [i \in DOMAIN TypedArgv(text) |-> Unspelled(TypedArgv(text)[i])]
  <2>1. Offer("set-exec", p.id, Over(list, {Retyped(p, words)}), delays)
    BY <1>4 DEF SetExec, OfferTyped
  <2>2. \A q \in Over(list, {Retyped(p, words)}) : IsPin(q)
    BY RetypedIsPin DEF Over, ListInv, IsList
  <2> QED  BY <2>1, <2>2, OfferKeeps
<1>5. ASSUME NEW d, SetDelays(d) PROVE ListInv'
  BY <1>5, OfferKeeps DEF SetDelays, ListInv, IsList
<1>6. ASSUME NEW p \in list, Drop(p) PROVE ListInv'
  BY <1>6 DEF Drop, ListInv, IsList, OnePerId
<1>7. CASE Authorize
  BY <1>7 DEF Authorize, ListInv, IsList, OnePerId, NoProposal
<1>8. CASE Cancel
  BY <1>8 DEF Cancel, ListInv, IsList, OnePerId, NoProposal
<1>9. CASE UNCHANGED vars \/ (\E i : OpenWindow(i) \/ CloseWindow(i))
  BY <1>1, <1>9 DEF vars, OpenWindow, CloseWindow
<1> QED  BY <1>2, <1>3, <1>4, <1>5, <1>6, <1>7, <1>8, <1>9 DEF Next, Edit

-----------------------------------------------------------------------------
(* The review of one list against another.                                 *)

LEMMA LineTellsPin ==
  ASSUME NEW p, NEW q, IsPin(p), IsPin(q), FmtEntry(p) = FmtEntry(q)
  PROVE  p = q
<1>1. /\ FmtEntry(p).class = p.id /\ FmtEntry(p).window = p.wclass
      /\ FmtEntry(p).label = p.label /\ FmtEntry(p).ws = p.ws /\ FmtEntry(p).geom = p.float
      /\ FmtEntry(p).src = p.source /\ FmtEntry(p).prov = p.provenance
      /\ FmtEntry(p).enabled = p.enabled /\ FmtEntry(p).exec = p.argv /\ FmtEntry(p).cwd = p.cwd
  BY DEF FmtEntry
<1>2. /\ FmtEntry(q).class = q.id /\ FmtEntry(q).window = q.wclass
      /\ FmtEntry(q).label = q.label /\ FmtEntry(q).ws = q.ws /\ FmtEntry(q).geom = q.float
      /\ FmtEntry(q).src = q.source /\ FmtEntry(q).prov = q.provenance
      /\ FmtEntry(q).enabled = q.enabled /\ FmtEntry(q).exec = q.argv /\ FmtEntry(q).cwd = q.cwd
  BY DEF FmtEntry
<1>3. /\ p.id = q.id /\ p.wclass = q.wclass /\ p.label = q.label /\ p.ws = q.ws
      /\ p.float = q.float /\ p.source = q.source /\ p.provenance = q.provenance
      /\ p.enabled = q.enabled /\ p.argv = q.argv /\ p.cwd = q.cwd
  BY <1>1, <1>2, Zenon
<1> QED  BY <1>3, Zenon DEF IsPin

Differ(old, new) == (old \ new) \cup (new \ old)
Was(old) == {FmtEntry(p) : p \in old}
LineOf(old, new, id) == [was |-> Was(In(old, id)), now |-> Was(In(new, id))]

LEMMA LineIs ==
  ASSUME NEW old, NEW new, NEW l
  PROVE  l \in Lines(old, new) <=>
           \E p \in Differ(old, new) : l = LineOf(old, new, p.id)
BY DEF Lines, Differ, LineOf, Was

LEMMA LineHas ==
  ASSUME NEW old, NEW new, NEW id, NEW e
  PROVE  /\ e \in LineOf(old, new, id).was <=> \E p \in old : p.id = id /\ e = FmtEntry(p)
         /\ e \in LineOf(old, new, id).now <=> \E p \in new : p.id = id /\ e = FmtEntry(p)
<1>1. /\ LineOf(old, new, id).was = Was(In(old, id))
      /\ LineOf(old, new, id).now = Was(In(new, id))
  BY DEF LineOf
<1>2. \A S : e \in Was(In(S, id)) <=> \E p \in S : p.id = id /\ e = FmtEntry(p)
  BY DEF Was, In
<1> QED  BY <1>1, <1>2

(* The lines, laid over the old list, are the new one.                     *)
LEMMA LinesTellAll ==
  ASSUME NEW old, NEW new, IsList(old), IsList(new)
  PROVE  (Was(old) \ UNION {l.was : l \in Lines(old, new)})
           \cup UNION {l.now : l \in Lines(old, new)} = Was(new)
<1> DEFINE gone == UNION {l.was : l \in Lines(old, new)}
           come == UNION {l.now : l \in Lines(old, new)}
<1>1. \A e : e \in gone <=>
        \E d \in Differ(old, new), p \in old : p.id = d.id /\ e = FmtEntry(p)
  <2>1. \A e : e \in gone <=> \E l \in Lines(old, new) : e \in l.was
    OBVIOUS
  <2>2. \A e : (\E l \in Lines(old, new) : e \in l.was)
               <=> \E d \in Differ(old, new) : e \in LineOf(old, new, d.id).was
    BY LineIs
  <2> HIDE DEF gone
  <2> QED  BY <2>1, <2>2, LineHas
<1>2. \A e : e \in come <=>
        \E d \in Differ(old, new), p \in new : p.id = d.id /\ e = FmtEntry(p)
  <2>1. \A e : e \in come <=> \E l \in Lines(old, new) : e \in l.now
    OBVIOUS
  <2>2. \A e : (\E l \in Lines(old, new) : e \in l.now)
               <=> \E d \in Differ(old, new) : e \in LineOf(old, new, d.id).now
    BY LineIs
  <2> HIDE DEF come
  <2> QED  BY <2>1, <2>2, LineHas
<1> HIDE DEF gone, come
<1>3. ASSUME NEW p \in old PROVE FmtEntry(p) \in gone <=> p \notin new
  <2>1. CASE p \notin new
    BY <1>1, <2>1 DEF Differ
  <2>2. CASE p \in new /\ FmtEntry(p) \in gone
    <3>1. PICK d \in Differ(old, new), q \in old : q.id = d.id /\ FmtEntry(p) = FmtEntry(q)
      BY <1>1, <2>2
    <3>2. p = q
      BY <3>1, LineTellsPin DEF IsList
    <3>3. d = p
      BY <2>2, <3>1, <3>2 DEF Differ, IsList, OnePerId
    <3> QED  BY <2>2, <3>1, <3>3 DEF Differ
  <2> QED  BY <2>1, <2>2
<1>4. ASSUME NEW p \in new PROVE p \in old \/ FmtEntry(p) \in come
  BY <1>2 DEF Differ
<1>5. \A e : e \in come => e \in Was(new)
  BY <1>2 DEF Was
<1>6. \A e : e \in Was(old) \ gone => e \in Was(new)
  BY <1>3 DEF Was
<1>7. \A e \in Was(new) : e \in come \/ e \in Was(old) \ gone
  BY <1>3, <1>4 DEF Was
<1>8. (Was(old) \ gone) \cup come = Was(new)
  BY <1>5, <1>6, <1>7
<1> QED  BY <1>8 DEF gone, come

-----------------------------------------------------------------------------
(* The summary.                                                            *)

Opening(entries) == {[id |-> e.class, ws |-> e.ws] : e \in {f \in entries : f.enabled}}

LEMMA OpeningIs ==
  ASSUME NEW pins
  PROVE  Opening(Was(pins)) = {[id |-> p.id, ws |-> p.ws] : p \in Enabled(pins)}
<1>1. \A p \in pins : /\ FmtEntry(p).class = p.id /\ FmtEntry(p).ws = p.ws
                      /\ FmtEntry(p).enabled <=> p.enabled
  BY DEF FmtEntry
<1> QED  BY <1>1 DEF Opening, Was, Enabled

LEMMA RowFields ==
  ASSUME NEW p, NEW mark
  PROVE  Row(p, mark).id = p.id /\ Row(p, mark).ws = p.ws /\ Row(p, mark).mark = mark
BY DEF Row

LEMMA SummaryOpens ==
  ASSUME NEW old, NEW new
  PROVE  {[id |-> a.id, ws |-> a.ws] : a \in Opens(old, new)} = Opening(Was(new))
<1>1. {[id |-> a.id, ws |-> a.ws] : a \in Opens(old, new)}
        = {[id |-> p.id, ws |-> p.ws] : p \in Enabled(new)}
  BY RowFields DEF Opens
<1> QED  BY <1>1, OpeningIs

LEMMA OpeningIds ==
  ASSUME NEW pins
  PROVE  {a.id : a \in Opening(Was(pins))} = {p.id : p \in Enabled(pins)}
<1>1. {a.id : a \in {[id |-> p.id, ws |-> p.ws] : p \in Enabled(pins)}}
        = {p.id : p \in Enabled(pins)}
  <2> DEFINE row(p) == [id |-> p.id, ws |-> p.ws]
  <2>1. \A p : row(p).id = p.id
    OBVIOUS
  <2> HIDE DEF row
  <2>2. {a.id : a \in {row(p) : p \in Enabled(pins)}} = {p.id : p \in Enabled(pins)}
    BY <2>1
  <2> QED  BY <2>2 DEF row
<1> QED  BY <1>1, OpeningIs

LEMMA SummaryStops ==
  ASSUME NEW old, NEW new
  PROVE  {a.id : a \in Stops(old, new)}
           = {a.id : a \in Opening(Was(old))} \ {a.id : a \in Opening(Was(new))}
<1>1. {a.id : a \in Stops(old, new)}
        = {p.id : p \in {q \in Enabled(old) : Enabled(In(new, q.id)) = {}}}
  BY RowFields DEF Stops
<1>2. \A id : Enabled(In(new, id)) = {} <=> id \notin {p.id : p \in Enabled(new)}
  BY DEF Enabled, In
<1> DEFINE opens == {p.id : p \in Enabled(new)}
           was == Enabled(old)
<1> HIDE DEF opens, was
<1>3. {q \in was : Enabled(In(new, q.id)) = {}} = {q \in was : q.id \notin opens}
  BY <1>2 DEF opens
<1>4. {p.id : p \in {q \in was : q.id \notin opens}} = {p.id : p \in was} \ opens
  OBVIOUS
<1>5. {a.id : a \in Stops(old, new)} = {p.id : p \in was} \ opens
  BY <1>1, <1>3, <1>4 DEF was
<1>6. {a.id : a \in Opening(Was(old))} = {p.id : p \in was} /\ {a.id : a \in Opening(Was(new))} = opens
  BY OpeningIds DEF was, opens
<1> QED  BY <1>5, <1>6

(* An app that reads "same" is, to the last field, what it was.            *)
LEMMA SameIsSame ==
  ASSUME NEW old, NEW new, IsList(old), IsList(new), NEW a \in Opens(old, new), a.mark = "same"
  PROVE  {e \in Was(old) : e.class = a.id} = {e \in Was(new) : e.class = a.id}
<1>1. PICK p \in Enabled(new) : a = Row(p, Mark(old, p))
  BY DEF Opens
<1>2. a.id = p.id /\ Mark(old, p) = "same" /\ p \in new
  BY <1>1, RowFields DEF Enabled
<1>3. p \in old
  BY <1>2 DEF Mark, In
<1>4. \A q : FmtEntry(q).class = q.id
  BY DEF FmtEntry
<1>5. \A pins : IsList(pins) /\ p \in pins => {e \in Was(pins) : e.class = p.id} = {FmtEntry(p)}
  BY <1>4 DEF Was, IsList, OnePerId
<1> QED  BY <1>2, <1>3, <1>5

LEMMA NothingIsNothing ==
  ASSUME NEW old, NEW new
  PROVE  Lines(old, new) # {} <=> new # old
<1>1. Lines(old, new) # {} <=> Differ(old, new) # {}
  BY LineIs
<1> QED  BY <1>1 DEF Differ

(* The review of any change to any list tells all of it: the lines are the *)
(* change, the summary is what will open and what no longer will, "same"   *)
(* is said only of what is, and "nothing" only of nothing (diff.rs).       *)
THEOREM ReviewTells == Spec => []ReviewTellsAll
<1>1. ListInv => ReviewTellsAll
  <2> SUFFICES ASSUME ListInv, pending # NoProposal PROVE ReviewTellsAll
    BY DEF ReviewTellsAll
  <2> DEFINE new == pending.entries
             r == Reviewed
  <2>1. IsList(list) /\ IsList(new)
    BY DEF ListInv
  <2>2. /\ r.lines = Lines(list, new) /\ r.opens = Opens(list, new) /\ r.stops = Stops(list, new)
        /\ r.hasChange <=> (Lines(list, new) # {} \/ delays # pending.delays)
    BY DEF Reviewed, Compute
  <2> HIDE DEF new, r
  <2>3. \A p, q \in list \cup new : FmtEntry(p) = FmtEntry(q) => p = q
    BY <2>1, LineTellsPin DEF IsList
  <2>4. (Was(list) \ UNION {l.was : l \in r.lines}) \cup UNION {l.now : l \in r.lines} = Was(new)
    BY <2>1, <2>2, LinesTellAll
  <2>5. {[id |-> a.id, ws |-> a.ws] : a \in r.opens} = Opening(Was(new))
    BY <2>2, SummaryOpens
  <2>6. {a.id : a \in r.stops} = {a.id : a \in Opening(Was(list))} \ {a.id : a \in Opening(Was(new))}
    BY <2>2, SummaryStops
  <2>7. \A a \in r.opens : a.mark = "same" =>
          {e \in Was(list) : e.class = a.id} = {e \in Was(new) : e.class = a.id}
    BY <2>1, <2>2, SameIsSame
  <2>8. r.hasChange <=> new # list \/ pending.delays # delays
    BY <2>2, NothingIsNothing
  <2> QED  BY <2>3, <2>4, <2>5, <2>6, <2>7, <2>8, Zenon DEF ReviewTellsAll, Was, Opening, new, r
<1> QED  BY <1>1, ListInit, ListStep, PTL DEF Spec

-----------------------------------------------------------------------------
(* A list is finite: a capture's pins are as many as a list may hold.      *)

FiniteInv == IsFiniteSet(list) /\ IsFiniteSet(pending.entries)

LEMMA BuildIsFinite ==
  ASSUME NEW m, NEW pins, NEW seen
  PROVE  IsFiniteSet(Build(m, pins, seen))
<1> SUFFICES ASSUME NEW wanted, NEW stored PROVE IsFiniteSet(PinsOf(m, pins, wanted, stored))
  BY DEF Build, BuildFrom
<1> DEFINE K == {j \in 1 .. MaxEntries : j \in DOMAIN wanted}
           nth(k) == Cardinality({j \in 1 .. k : stored[j].id = 0})
           pin(k) == Pin(m, stored[k], IF stored[k].id = 0 THEN FreshId(pins, nth(k)) ELSE 0, wanted[k])
           made == [k \in K |-> pin(k)]
<1>1. IsFiniteSet(1 .. MaxEntries)
  BY ListAssumption, FS_Interval
<1>2. IsFiniteSet(K)
  BY <1>1, FS_Subset
<1>3. PinsOf(m, pins, wanted, stored) = {pin(k) : k \in K}
  BY DEF PinsOf
<1> HIDE DEF pin, K
<1>4. made \in Surjection(K, {pin(k) : k \in K})
  BY DEF Surjection
<1>5. IsFiniteSet({pin(k) : k \in K})
  BY <1>2, <1>4, FS_Surjection
<1> QED  BY <1>3, <1>5

LEMMA OverIsFinite ==
  ASSUME NEW pins, IsFiniteSet(pins), NEW new, IsFiniteSet(new)
  PROVE  IsFiniteSet(Over(pins, new))
BY FS_Subset, FS_Union DEF Over

LEMMA FiniteStep == FiniteInv /\ [Next]_vars => FiniteInv'
<1> SUFFICES ASSUME FiniteInv, [Next]_vars PROVE FiniteInv'
  OBVIOUS
<1>1. CASE UNCHANGED <<list, pending>>
  BY <1>1 DEF FiniteInv
<1>2. ASSUME NEW kind, NEW id, NEW entries, NEW d, IsFiniteSet(entries), Offer(kind, id, entries, d)
      PROVE  FiniteInv'
  BY <1>2 DEF Offer, FiniteInv
<1>3. \A x : IsFiniteSet(Over(list, {x}))
  BY OverIsFinite, FS_Singleton DEF FiniteInv
<1>4. ASSUME NEW mode \in {"replace", "merge"}, Propose(mode) PROVE FiniteInv'
  <2>1. IsFiniteSet(Save(M, list, Seen, mode))
    BY BuildIsFinite, OverIsFinite, FS_EmptySet DEF Save, FiniteInv
  <2> QED  BY <1>2, <1>4, <2>1 DEF Propose
<1>5. ASSUME NEW class, NEW ws, Import(class, ws) PROVE FiniteInv'
  BY <1>2, <1>3, <1>5 DEF Import, OfferImported, OfferPin
<1>6. ASSUME NEW p \in list, NEW text, SetExec(p, text) PROVE FiniteInv'
  BY <1>2, <1>3, <1>6 DEF SetExec, OfferTyped
<1>7. ASSUME NEW d, SetDelays(d) PROVE FiniteInv'
  BY <1>2, <1>7 DEF SetDelays, FiniteInv
<1>8. ASSUME NEW p \in list, Drop(p) PROVE FiniteInv'
  BY <1>8, FS_Subset DEF Drop, FiniteInv
<1>9. CASE Authorize \/ Cancel
  BY <1>9, FS_EmptySet DEF Authorize, Cancel, FiniteInv, NoProposal
<1>10. CASE UNCHANGED vars \/ (\E i : OpenWindow(i) \/ CloseWindow(i))
  BY <1>1, <1>10 DEF vars, OpenWindow, CloseWindow
<1> QED  BY <1>4, <1>5, <1>6, <1>7, <1>8, <1>9, <1>10 DEF Next, Edit

-----------------------------------------------------------------------------
(* The groups of a boot's rows.  Two rows are joined when no closed set of *)
(* rows tells them apart.                                                  *)

Together(keys, e, f) == \A S \in SUBSET DOMAIN keys : Closed(keys, S) => (e \in S <=> f \in S)

Groups(keys, n, g) ==
  g \in [1 .. n -> 1 .. n] /\ \A e, f \in 1 .. n : g[e] = g[f] => Together(keys, e, f)
Coarser(n, g, h) == \A e, f \in 1 .. n : g[e] = g[f] => h[e] = h[f]

LEMMA SharingAreTogether ==
  ASSUME NEW keys, NEW a \in DOMAIN keys, NEW b \in DOMAIN keys, Share(keys, a, b)
  PROVE  Together(keys, a, b)
<1>1. Share(keys, b, a)
  BY DEF Share
<1> QED  BY <1>1 DEF Together, Closed

LEMMA RenameGroups ==
  ASSUME NEW keys, NEW n \in Nat, DOMAIN keys = 1 .. n, NEW g, Groups(keys, n, g),
         NEW a \in 1 .. n, NEW b \in 1 .. n, Share(keys, a, b)
  PROVE  /\ Groups(keys, n, Rename(g, g[a], g[b]))
         /\ Coarser(n, g, Rename(g, g[a], g[b]))
         /\ Rename(g, g[a], g[b])[a] = Rename(g, g[a], g[b])[b]
<1> DEFINE h == Rename(g, g[a], g[b])
<1>1. g \in [1 .. n -> 1 .. n] /\ DOMAIN g = 1 .. n
  BY DEF Groups
<1>2. h = [e \in 1 .. n |-> IF g[e] = g[a] THEN g[b] ELSE g[e]]
  BY <1>1 DEF Rename
<1> HIDE DEF h
<1>3. h \in [1 .. n -> 1 .. n] /\ Coarser(n, g, h) /\ h[a] = h[b]
  BY <1>1, <1>2 DEF Coarser
<1>4. Together(keys, a, b)
  BY SharingAreTogether
<1>5. ASSUME NEW e \in 1 .. n, NEW f \in 1 .. n, h[e] = h[f] PROVE Together(keys, e, f)
  <2>1. \/ g[e] = g[f]
        \/ g[e] = g[a] /\ g[b] = g[f]
        \/ g[f] = g[a] /\ g[b] = g[e]
    BY <1>2, <1>5
  <2>2. \A c, d \in 1 .. n : g[c] = g[d] => Together(keys, c, d)
    BY DEF Groups
  <2> QED  BY <1>4, <2>1, <2>2 DEF Together
<1> QED  BY <1>3, <1>5 DEF Groups, h

LEMMA BesideIs ==
  ASSUME NEW keys, NEW g, NEW i \in Nat, i # 0
  PROVE  Beside(keys, g, i) = [j \in 0 .. i - 1 |->
           IF j = 0 THEN g
           ELSE IF Share(keys, i, j)
           THEN Rename(Beside(keys, g, i)[j - 1], Beside(keys, g, i)[j - 1][i], Beside(keys, g, i)[j - 1][j])
           ELSE Beside(keys, g, i)[j - 1]]
<1> DEFINE Step(h, j) == IF Share(keys, i, j) THEN Rename(h, h[i], h[j]) ELSE h
           Is(p, k) == p = [j \in 0 .. k |-> IF j = 0 THEN g ELSE Step(p[j - 1], j)]
           S == {k \in Nat : \E p : Is(p, k)}
<1> HIDE DEF Step
<1>1. 0 \in S
  <2>1. Is([j \in 0 .. 0 |-> g], 0)
    OBVIOUS
  <2> QED  BY <2>1
<1>2. ASSUME NEW k \in Nat, k \in S PROVE k + 1 \in S
  <2>1. PICK p : Is(p, k)
    BY <1>2
  <2> DEFINE last == Step(p[k], k + 1)
             q == [j \in 0 .. k + 1 |-> IF j = k + 1 THEN last ELSE p[j]]
  <2>2. ASSUME NEW j \in 0 .. k + 1
        PROVE  q[j] = IF j = 0 THEN g ELSE Step(q[j - 1], j)
    <3>1. CASE j = k + 1
      <4>1. q[j] = last /\ j # 0 /\ j - 1 = k /\ q[k] = p[k]
        BY <3>1
      <4> QED  BY <3>1, <4>1
    <3>2. CASE j # k + 1
      <4>1. j \in 0 .. k /\ q[j] = p[j] /\ (j # 0 => j - 1 \in 0 .. k /\ q[j - 1] = p[j - 1])
        BY <3>2
      <4> QED  BY <2>1, <4>1
    <3> QED  BY <3>1, <3>2
  <2> HIDE DEF last
  <2>3. Is(q, k + 1)
    BY <2>2
  <2> HIDE DEF Is, q
  <2> QED  BY <2>3
<1> HIDE DEF Is
<1>3. i - 1 \in S
  <2> HIDE DEF S
  <2>1. i - 1 \in Nat
    OBVIOUS
  <2> QED  BY <1>1, <1>2, <2>1, NatInSet
<1>4. PICK p : Is(p, i - 1)
  BY <1>3
<1>5. Beside(keys, g, i) = CHOOSE h : Is(h, i - 1)
  BY DEF Beside, Is, Step
<1>6. Is(Beside(keys, g, i), i - 1)
  BY <1>4, <1>5
<1> QED  BY <1>6 DEF Is, Step

LEMMA BesideSteps ==
  ASSUME NEW keys, NEW g, NEW i \in Nat, i # 0
  PROVE  /\ Beside(keys, g, i)[0] = g
         /\ \A j \in 1 .. i - 1 : Beside(keys, g, i)[j] =
              IF Share(keys, i, j)
              THEN Rename(Beside(keys, g, i)[j - 1], Beside(keys, g, i)[j - 1][i],
                          Beside(keys, g, i)[j - 1][j])
              ELSE Beside(keys, g, i)[j - 1]
<1> DEFINE after == Beside(keys, g, i)
           Step(h, j) == IF Share(keys, i, j) THEN Rename(h, h[i], h[j]) ELSE h
<1>1. after = [j \in 0 .. i - 1 |-> IF j = 0 THEN g ELSE Step(after[j - 1], j)]
  BY BesideIs
<1> HIDE DEF after, Step
<1>2. 0 \in 0 .. i - 1 /\ \A j \in 1 .. i - 1 : j \in 0 .. i - 1 /\ j # 0
  OBVIOUS
<1>3. after[0] = g /\ \A j \in 1 .. i - 1 : after[j] = Step(after[j - 1], j)
  BY <1>1, <1>2
<1> QED  BY <1>3 DEF after, Step

(* A row beside the rows before it: it ends in the group of each it shares *)
(* a key with, and no two rows that were together come apart.              *)
LEMMA BesideGroups ==
  ASSUME NEW keys, NEW n \in Nat, DOMAIN keys = 1 .. n, NEW g, Groups(keys, n, g),
         NEW i \in 1 .. n
  PROVE  /\ Groups(keys, n, Beside(keys, g, i)[i - 1])
         /\ Coarser(n, g, Beside(keys, g, i)[i - 1])
         /\ \A j \in 1 .. i - 1 : Share(keys, i, j) =>
              Beside(keys, g, i)[i - 1][i] = Beside(keys, g, i)[i - 1][j]
<1> DEFINE after == Beside(keys, g, i)
           Done(h, k) == /\ Groups(keys, n, h) /\ Coarser(n, g, h)
                         /\ \A j \in 1 .. k : Share(keys, i, j) => h[i] = h[j]
           S == {k \in Nat : k <= i - 1 => Done(after[k], k)}
<1>1. /\ after[0] = g
      /\ \A j \in 1 .. i - 1 : after[j] =
           IF Share(keys, i, j) THEN Rename(after[j - 1], after[j - 1][i], after[j - 1][j])
           ELSE after[j - 1]
  <2>1. i \in Nat /\ i # 0
    OBVIOUS
  <2> QED  BY <2>1, BesideSteps
<1> HIDE DEF after
<1>2. 0 \in S
  <2>1. Done(g, 0)
    BY DEF Coarser
  <2> QED  BY <1>1, <2>1
<1>3. ASSUME NEW k \in Nat, k \in S PROVE k + 1 \in S
  <2> SUFFICES ASSUME k + 1 <= i - 1 PROVE Done(after[k + 1], k + 1)
    OBVIOUS
  <2> DEFINE h == after[k]
  <2>1. Done(h, k)
    BY <1>3
  <2>2. k + 1 \in 1 .. i - 1 /\ k + 1 - 1 = k /\ k + 1 \in 1 .. n
    OBVIOUS
  <2>3. after[k + 1] = IF Share(keys, i, k + 1) THEN Rename(h, h[i], h[k + 1]) ELSE h
    BY <1>1, <2>2
  <2> DEFINE r == after[k + 1]
  <2> HIDE DEF h, r
  <2>4. Groups(keys, n, r) /\ Coarser(n, h, r)
        /\ (Share(keys, i, k + 1) => r[i] = r[k + 1])
    <3>1. CASE Share(keys, i, k + 1)
      <4>1. r = Rename(h, h[i], h[k + 1])
        BY <2>3, <3>1 DEF r
      <4> QED  BY <2>1, <2>2, <3>1, <4>1, RenameGroups
    <3>2. CASE ~Share(keys, i, k + 1)
      <4>1. r = h
        BY <2>3, <3>2 DEF r
      <4> QED  BY <2>1, <3>2, <4>1 DEF Coarser
    <3> QED  BY <3>1, <3>2
  <2>5. Coarser(n, g, r)
    BY <2>1, <2>4 DEF Coarser
  <2>6. ASSUME NEW j \in 1 .. k + 1, Share(keys, i, j) PROVE r[i] = r[j]
    <3>1. j = k + 1 \/ (j \in 1 .. k /\ j \in 1 .. n)
      BY <2>2
    <3> QED  BY <2>1, <2>4, <2>6, <3>1 DEF Coarser
  <2> QED  BY <2>4, <2>5, <2>6 DEF r
<1>4. i - 1 \in S
  <2> HIDE DEF S
  <2>1. i - 1 \in Nat
    OBVIOUS
  <2> QED  BY <1>2, <1>3, <2>1, NatInSet
<1> QED  BY <1>4 DEF after

LEMMA GroupedIs ==
  ASSUME NEW keys, Len(keys) \in Nat
  PROVE  /\ Grouped(keys)[0] = [e \in 1 .. Len(keys) |-> e]
         /\ \A i \in 1 .. Len(keys) :
              Grouped(keys)[i] = Beside(keys, Grouped(keys)[i - 1], i)[i - 1]
<1> DEFINE n == Len(keys)
           start == [e \in 1 .. n |-> e]
           Step(g, i) == Beside(keys, g, i)[i - 1]
           Is(p, k) == p = [i \in 0 .. k |-> IF i = 0 THEN start ELSE Step(p[i - 1], i)]
           S == {k \in Nat : \E p : Is(p, k)}
<1>0. n \in Nat
  OBVIOUS
<1>5. Grouped(keys) = CHOOSE h : Is(h, n)
  BY DEF Grouped
<1> HIDE DEF Step, start, n
<1>1. 0 \in S
  <2>1. Is([i \in 0 .. 0 |-> start], 0)
    OBVIOUS
  <2> QED  BY <2>1
<1>2. ASSUME NEW k \in Nat, k \in S PROVE k + 1 \in S
  <2>1. PICK p : Is(p, k)
    BY <1>2
  <2> DEFINE last == Step(p[k], k + 1)
             q == [i \in 0 .. k + 1 |-> IF i = k + 1 THEN last ELSE p[i]]
  <2>2. ASSUME NEW i \in 0 .. k + 1
        PROVE  q[i] = IF i = 0 THEN start ELSE Step(q[i - 1], i)
    <3>1. CASE i = k + 1
      <4>1. q[i] = last /\ i # 0 /\ i - 1 = k /\ q[k] = p[k]
        BY <3>1
      <4> QED  BY <3>1, <4>1
    <3>2. CASE i # k + 1
      <4>1. i \in 0 .. k /\ q[i] = p[i] /\ (i # 0 => i - 1 \in 0 .. k /\ q[i - 1] = p[i - 1])
        BY <3>2
      <4> QED  BY <2>1, <4>1
    <3> QED  BY <3>1, <3>2
  <2> HIDE DEF last
  <2>3. Is(q, k + 1)
    BY <2>2
  <2> HIDE DEF Is, q
  <2> QED  BY <2>3
<1>3. \E p : Is(p, n)
  <2> HIDE DEF S, Is
  <2>1. \A k \in Nat : k \in S
    BY <1>1, <1>2, NatInSet
  <2> QED  BY <1>0, <2>1 DEF S
<1>4. Is(Grouped(keys), n)
  <2> HIDE DEF Is
  <2> QED  BY <1>3, <1>5
<1>6. \A i \in 1 .. n : i \in 0 .. n /\ i # 0
  BY <1>0
<1>7. 0 \in 0 .. n
  BY <1>0
<1>8. Grouped(keys)[0] = start
      /\ \A i \in 1 .. n : Grouped(keys)[i] = Step(Grouped(keys)[i - 1], i)
  BY <1>4, <1>6, <1>7
<1> QED  BY <1>8 DEF Step, start, n

LEMMA GroupsAreConnected ==
  ASSUME NEW keys, NEW n \in Nat, DOMAIN keys = 1 .. n, Len(keys) = n
  PROVE  \A e \in 1 .. n :
           {f \in 1 .. n : GroupOf(keys)[f] = GroupOf(keys)[e]} = Connected(keys, e)
<1> DEFINE after == Grouped(keys)
           Done(h, k) == /\ Groups(keys, n, h)
                         /\ \A a \in 1 .. k, b \in 1 .. n :
                              b < a /\ Share(keys, a, b) => h[a] = h[b]
           S == {k \in Nat : k <= n => Done(after[k], k)}
           group == GroupOf(keys)
<1>1. /\ after[0] = [e \in 1 .. n |-> e]
      /\ \A i \in 1 .. n : after[i] = Beside(keys, after[i - 1], i)[i - 1]
  BY GroupedIs
<1>2. group = after[n]
  BY DEF GroupOf
<1> HIDE DEF after, group
<1>3. 0 \in S
  <2>1. Groups(keys, n, after[0])
    BY <1>1 DEF Groups, Together
  <2> QED  BY <2>1
<1>4. ASSUME NEW k \in Nat, k \in S PROVE k + 1 \in S
  <2> SUFFICES ASSUME k + 1 <= n PROVE Done(after[k + 1], k + 1)
    OBVIOUS
  <2> DEFINE g == after[k]
             h == after[k + 1]
  <2>1. Done(g, k)
    BY <1>4
  <2>2. k + 1 \in 1 .. n /\ k + 1 - 1 = k
    OBVIOUS
  <2>3. h = Beside(keys, g, k + 1)[k]
    BY <1>1, <2>2
  <2> HIDE DEF g, h
  <2>4. /\ Groups(keys, n, h) /\ Coarser(n, g, h)
        /\ \A j \in 1 .. k : Share(keys, k + 1, j) => h[k + 1] = h[j]
    BY <2>1, <2>2, <2>3, BesideGroups
  <2>5. ASSUME NEW a \in 1 .. k + 1, NEW b \in 1 .. n, b < a, Share(keys, a, b)
        PROVE  h[a] = h[b]
    <3>1. (a = k + 1 /\ b \in 1 .. k) \/ (a \in 1 .. k /\ a \in 1 .. n)
      BY <2>2, <2>5
    <3>2. CASE a = k + 1 /\ b \in 1 .. k
      BY <2>4, <2>5, <3>2
    <3>3. CASE a \in 1 .. k /\ a \in 1 .. n
      <4>1. g[a] = g[b]
        BY <2>1, <2>5, <3>3
      <4> QED  BY <2>4, <3>3, <4>1 DEF Coarser
    <3> QED  BY <3>1, <3>2, <3>3
  <2> QED  BY <2>4, <2>5 DEF h
<1>5. Done(group, n)
  <2> HIDE DEF S, Done
  <2>1. \A k \in Nat : k \in S
    BY <1>3, <1>4, NatInSet
  <2> QED  BY <1>2, <2>1 DEF S
<1>6. \A a, b \in 1 .. n : Share(keys, a, b) => group[a] = group[b]
  <2> SUFFICES ASSUME NEW a \in 1 .. n, NEW b \in 1 .. n, Share(keys, a, b)
               PROVE  group[a] = group[b]
    OBVIOUS
  <2>1. Share(keys, b, a)
    BY DEF Share
  <2>2. a < b \/ b < a \/ a = b
    OBVIOUS
  <2> QED  BY <1>5, <2>1, <2>2
<1>7. ASSUME NEW e \in 1 .. n
      PROVE  {f \in 1 .. n : group[f] = group[e]} = Connected(keys, e)
  <2> DEFINE mine == {f \in 1 .. n : group[f] = group[e]}
  <2>1. mine \subseteq Connected(keys, e)
    BY <1>5 DEF Groups, Together, Connected
  <2>2. e \in mine /\ mine \in SUBSET DOMAIN keys /\ Closed(keys, mine)
    BY <1>6 DEF Closed
  <2> HIDE DEF mine
  <2>3. Connected(keys, e) \subseteq mine
    BY <2>2 DEF Connected
  <2> QED  BY <2>1, <2>3 DEF mine
<1> QED  BY <1>7 DEF group

(* The grouping loops of boot.rs leave two rows of any list in one group   *)
(* exactly when a chain of shared keys joins them: the group of a row is   *)
(* what every closed set that holds the row holds.                         *)
THEOREM RowsAreGrouped == Spec => []GroupsAreComponents
<1>1. Init => FiniteInv
  BY FS_EmptySet DEF Init, FiniteInv, NoProposal
<1>2. FiniteInv => GroupsAreComponents
  <2> SUFFICES ASSUME FiniteInv PROVE GroupsAreComponents
    OBVIOUS
  <2> DEFINE enabled == {p \in list : p.enabled}
             n == Cardinality(enabled)
             rows == LaunchOrder(enabled)
             keys == [i \in DOMAIN rows |-> GroupKeys(rows[i])]
  <2>1. IsFiniteSet(enabled)
    BY FS_Subset DEF FiniteInv
  <2>2. n \in Nat
    BY <2>1, FS_CardinalityType
  <2> HIDE DEF n
  <2>3. DOMAIN rows = 1 .. n
    BY DEF LaunchOrder, n
  <2> HIDE DEF rows
  <2>4. DOMAIN keys = 1 .. n /\ Len(keys) = n
    BY <2>2, <2>3
  <2> HIDE DEF keys
  <2>5. \A e \in 1 .. n : {f \in 1 .. n : GroupOf(keys)[f] = GroupOf(keys)[e]} = Connected(keys, e)
    BY <2>2, <2>4, GroupsAreConnected
  <2> QED  BY <2>3, <2>5 DEF GroupsAreComponents, keys, rows
<1> QED  BY <1>1, <1>2, FiniteStep, PTL DEF Spec

-----------------------------------------------------------------------------
(* The ids of a list, and the ids it does not have.                        *)

LEMMA IdsAreFinite ==
  ASSUME NEW pins, IsFiniteSet(pins)
  PROVE  IsFiniteSet(Ids(pins)) /\ Cardinality(Ids(pins)) <= Cardinality(pins)
<1> DEFINE idOf == [p \in pins |-> p.id]
<1>1. idOf \in Surjection(pins, Ids(pins))
  BY DEF Ids, Surjection
<1> QED  BY <1>1, FS_Surjection

(* The k-th id that no pin has: there is one, and no pin has it.           *)
LEMMA FreshIdIsFresh ==
  ASSUME NEW pins, IsFiniteSet(pins), NEW k \in Nat, k # 0
  PROVE  /\ FreshId(pins, k) \in Nat \ {0} /\ FreshId(pins, k) \notin Ids(pins)
         /\ Cardinality((1 .. FreshId(pins, k)) \ Ids(pins)) = k
<1> DEFINE N == Cardinality(pins) + k
           free(n) == (1 .. n) \ Ids(pins)
           Enough == {n \in Nat : Cardinality(free(n)) >= k}
<1>1. Cardinality(pins) \in Nat /\ N \in Nat
  BY FS_CardinalityType
<1>2. ASSUME NEW n \in Nat
      PROVE  /\ IsFiniteSet(free(n)) /\ Cardinality(free(n)) \in Nat
             /\ Cardinality(free(n + 1)) =
                  IF n + 1 \in Ids(pins) THEN Cardinality(free(n)) ELSE Cardinality(free(n)) + 1
  <2>1. IsFiniteSet(1 .. n)
    BY FS_Interval
  <2>2. IsFiniteSet(free(n)) /\ Cardinality(free(n)) \in Nat
    BY <2>1, FS_Subset, FS_CardinalityType
  <2>3. CASE n + 1 \in Ids(pins)
    <3>1. free(n + 1) = free(n)
      BY <2>3
    <3> QED  BY <2>2, <2>3, <3>1
  <2>4. CASE n + 1 \notin Ids(pins)
    <3>1. free(n + 1) = free(n) \cup {n + 1} /\ n + 1 \notin free(n)
      BY <2>4
    <3> HIDE DEF free
    <3> QED  BY <2>2, <2>4, <3>1, FS_AddElement
  <2> QED  BY <2>2, <2>3, <2>4
<1>3. Cardinality(free(N)) >= k
  <2>1. IsFiniteSet(1 .. N) /\ Cardinality(1 .. N) = N
    <3>1. 1 \in Int /\ N \in Int /\ ~(1 > N) /\ N - 1 + 1 = N
      BY <1>1
    <3> HIDE DEF N
    <3> QED  BY <3>1, FS_Interval
  <2>2. Cardinality(free(N)) = N - Cardinality((1 .. N) \cap Ids(pins))
    BY <2>1, IdsAreFinite, FS_Difference
  <2>3. Cardinality((1 .. N) \cap Ids(pins)) <= Cardinality(Ids(pins))
    BY IdsAreFinite, FS_Subset
  <2>4. /\ Cardinality((1 .. N) \cap Ids(pins)) \in Nat
        /\ Cardinality(Ids(pins)) \in Nat /\ Cardinality(Ids(pins)) <= Cardinality(pins)
    <3>1. IsFiniteSet((1 .. N) \cap Ids(pins))
      BY <2>1, FS_Subset
    <3> QED  BY <3>1, IdsAreFinite, FS_CardinalityType
  <2> HIDE DEF free
  <2> QED  BY <1>1, <2>2, <2>3, <2>4
<1>4. Cardinality(free(0)) = 0
  <2>1. free(0) = {}
    OBVIOUS
  <2> QED  BY <2>1, FS_EmptySet
<1> HIDE DEF free
<1>5. PICK n \in Enough : \A i \in Enough : n <= i
  <2>1. N \in Enough
    BY <1>1, <1>3
  <2>2. Enough \subseteq Nat
    OBVIOUS
  <2> HIDE DEF Enough
  <2> QED  BY <2>1, <2>2, LeastNat
<1>6. n \in Nat /\ Cardinality(free(n)) >= k /\ n <= N /\ n # 0
  BY <1>1, <1>3, <1>4, <1>5
<1>7. n - 1 \in Nat /\ n - 1 + 1 = n /\ ~(Cardinality(free(n - 1)) >= k)
  BY <1>5, <1>6
<1>8. n \notin Ids(pins) /\ Cardinality(free(n)) = k
  <2> DEFINE less == Cardinality(free(n - 1))
             here == Cardinality(free(n))
  <2>1. less \in Nat /\ here = IF n \in Ids(pins) THEN less ELSE less + 1
    BY <1>2, <1>7
  <2>2. here >= k /\ ~(less >= k)
    BY <1>6, <1>7
  <2> HIDE DEF less, here
  <2> QED  BY <2>1, <2>2 DEF here
<1>9. n \in 1 .. Cardinality(pins) + k
  BY <1>1, <1>6
<1> DEFINE f == FreshId(pins, k)
<1>10. f \in 1 .. Cardinality(pins) + k /\ f \notin Ids(pins) /\ Cardinality((1 .. f) \ Ids(pins)) = k
  BY <1>8, <1>9 DEF FreshId, free
<1> HIDE DEF f
<1>11. f \in Nat \ {0}
  BY <1>1, <1>10
<1> QED  BY <1>10, <1>11 DEF f

-----------------------------------------------------------------------------
(* A pin goes on: what a capture continues keeps its id, and, typed, its   *)
(* command and its label.                                                  *)

Numbered(pins) == \A p \in pins : p.id \in Nat \ {0}
Continues(q, p) == q.id = p.id /\ q.argv = p.argv /\ q.label = p.label
Respects(pins, q) ==
  q.id \in Nat \ {0} /\ \A p \in pins : IsTyped(p) /\ p.id = q.id => Continues(q, p)

LEMMA CorrelateIsAPin ==
  ASSUME NEW pins, IsFiniteSet(pins), Numbered(pins), NEW wanted, NEW o
  PROVE  Correlate(pins, wanted, o) = NoPin \/ Correlate(pins, wanted, o) \in pins
<1> DEFINE at == {p \in pins : PinPlace(p) = Place(o)}
           alone == Cardinality({i \in DOMAIN wanted : Place(wanted[i]) = Place(o)}) = 1
           same == {p \in at : p.argv = o.c.argv}
<1>1. Correlate(pins, wanted, o) =
        IF Cardinality(at) = 1 /\ alone THEN CHOOSE p \in at : TRUE
        ELSE IF same = {} THEN NoPin
        ELSE CHOOSE p \in same : \A q \in same : q.id >= p.id
  BY DEF Correlate
<1>2. at \subseteq pins /\ same \subseteq pins /\ IsFiniteSet(at)
  BY FS_Subset
<1>3. CASE Cardinality(at) = 1 /\ alone
  <2>1. at # {}
    BY <1>2, <1>3, FS_EmptySet
  <2> HIDE DEF at, alone, same
  <2> QED  BY <1>1, <1>2, <1>3, <2>1
<1>4. CASE same # {}
  <2> DEFINE ids == {p.id : p \in same}
  <2>1. ids \subseteq Nat /\ ids # {}
    BY <1>2, <1>4 DEF Numbered
  <2>2. PICK m \in ids : \A n \in ids : m <= n
    <3> HIDE DEF ids
    <3> QED  BY <2>1, LeastNat
  <2>3. \E p \in same : \A q \in same : q.id >= p.id
    <3>1. PICK p \in same : p.id = m
      BY <2>2
    <3>2. ASSUME NEW q \in same PROVE q.id >= p.id
      <4>1. q.id \in ids /\ q.id \in Nat /\ p.id \in Nat
        BY <2>1
      <4> QED  BY <2>2, <3>1, <4>1
    <3> QED  BY <3>2
  <2> HIDE DEF at, alone, same
  <2> QED  BY <1>1, <1>2, <1>3, <2>3
<1> HIDE DEF at, alone, same
<1> QED  BY <1>1, <1>3, <1>4

LEMMA PinRespects ==
  ASSUME NEW m, NEW pins, OnePerId(pins), Numbered(pins), NEW stored, NEW id, NEW o,
         stored = NoPin \/ stored \in pins,
         stored.id = 0 => id \in Nat \ {0} /\ id \notin Ids(pins)
  PROVE  Respects(pins, Pin(m, stored, id, o))
<1> DEFINE q == Pin(m, stored, id, o)
<1>1. CASE stored.id = 0
  <2>1. q.id = id
    BY <1>1 DEF Pin
  <2>2. \A p \in pins : p.id # q.id
    BY <1>1, <2>1 DEF Ids
  <2> QED  BY <1>1, <2>1, <2>2 DEF Respects
<1>2. CASE stored.id # 0
  <2>1. stored \in pins
    BY <1>2 DEF NoPin
  <2>2. q.id = stored.id
    BY <1>2 DEF Pin
  <2>3. ASSUME NEW p \in pins, IsTyped(p), p.id = q.id PROVE Continues(q, p)
    <3>1. p = stored
      BY <2>1, <2>2, <2>3 DEF OnePerId
    <3>2. stored.id # 0 /\ stored.source = "overrides-table"
      BY <1>2, <2>3, <3>1 DEF IsTyped
    <3>3. q.argv = stored.argv /\ q.label = stored.label
      BY <3>2 DEF Pin
    <3> QED  BY <2>2, <3>1, <3>3 DEF Continues
  <2>4. q.id \in Nat \ {0}
    BY <2>1, <2>2 DEF Numbered
  <2> QED  BY <2>3, <2>4 DEF Respects
<1> QED  BY <1>1, <1>2

LEMMA BuildRespects ==
  ASSUME NEW m, NEW pins, IsFiniteSet(pins), OnePerId(pins), Numbered(pins), NEW seen
  PROVE  \A q \in Build(m, pins, seen) : Respects(pins, q)
<1> DEFINE wanted == Wanted(seen)
           stored == [k \in DOMAIN wanted |-> Correlate(pins, wanted, wanted[k])]
           nth(k) == Cardinality({j \in 1 .. k : stored[j].id = 0})
           id(k) == IF stored[k].id = 0 THEN FreshId(pins, nth(k)) ELSE 0
           K == {j \in 1 .. MaxEntries : j \in DOMAIN wanted}
<1>1. Build(m, pins, seen) = {Pin(m, stored[k], id(k), wanted[k]) : k \in K}
  BY DEF Build, BuildFrom, PinsOf
<1>2. ASSUME NEW k \in K PROVE Respects(pins, Pin(m, stored[k], id(k), wanted[k]))
  <2>1. k \in Nat /\ k \in 1 .. k /\ k \in DOMAIN wanted
    BY ListAssumption
  <2> HIDE DEF wanted
  <2>2. stored[k] = NoPin \/ stored[k] \in pins
    BY <2>1, CorrelateIsAPin
  <2>3. ASSUME stored[k].id = 0 PROVE id(k) \in Nat \ {0} /\ id(k) \notin Ids(pins)
    <3> DEFINE none == {j \in 1 .. k : stored[j].id = 0}
    <3>1. IsFiniteSet(none) /\ k \in none
      <4>1. IsFiniteSet(1 .. k)
        BY <2>1, FS_Interval
      <4> QED  BY <2>1, <2>3, <4>1, FS_Subset
    <3>2. id(k) = FreshId(pins, Cardinality(none))
      BY <2>3
    <3> HIDE DEF none, id
    <3>3. Cardinality(none) \in Nat /\ Cardinality(none) # 0
      BY <3>1, FS_EmptySet, FS_CardinalityType
    <3> QED  BY <3>2, <3>3, FreshIdIsFresh
  <2> HIDE DEF stored, id
  <2> QED  BY <2>2, <2>3, PinRespects
<1> HIDE DEF id, stored, wanted, K
<1> QED  BY <1>1, <1>2

LEMMA ImportedRespects ==
  ASSUME IsFiniteSet(list), OnePerId(list), Numbered(list), NEW o
  PROVE  Respects(list, Imported(o))
<1> DEFINE stored == Correlate(list, <<o>>, o)
           id == FreshId(list, 1)
           p == Pin(M, stored, id, o)
<1>1. stored = NoPin \/ stored \in list
  BY CorrelateIsAPin
<1>2. id \in Nat \ {0} /\ id \notin Ids(list)
  <2>1. 1 \in Nat /\ 1 # 0
    OBVIOUS
  <2> QED  BY <2>1, FreshIdIsFresh, Zenon
<1>3. Imported(o) = [p EXCEPT !.enabled = TRUE] /\ IsPin(p)
  BY PinIsPin DEF Imported
<1> HIDE DEF stored, id
<1>4. Respects(list, p)
  BY <1>1, <1>2, PinRespects
<1> HIDE DEF p
<1>5. Imported(o).id = p.id /\ Imported(o).argv = p.argv /\ Imported(o).label = p.label
  BY <1>3 DEF IsPin
<1> QED  BY <1>4, <1>5 DEF Respects, Continues

(* What a proposal says of the typed pins of the list, before it is        *)
(* approved: each goes on in it, unless the proposal is of that command or *)
(* of a list without the pin.                                              *)
Spared(p) ==
  \/ \E q \in pending.entries : Continues(q, p)
  \/ pending.kind = "set-exec" /\ pending.id = p.id
  \/ pending.kind = "replace" /\ p.id \notin Ids(pending.entries)
TypedInv ==
  /\ Numbered(list) /\ Numbered(pending.entries)
  /\ pending # NoProposal => \A p \in list : IsTyped(p) => Spared(p)

LEMMA OfferSpares ==
  ASSUME TypedInv, NEW kind, NEW id, NEW entries, NEW d, Offer(kind, id, entries, d),
         Numbered(entries),
         \A p \in list : IsTyped(p) =>
           \/ \E q \in entries : Continues(q, p)
           \/ kind = "set-exec" /\ id = p.id
           \/ kind = "replace" /\ p.id \notin Ids(entries)
  PROVE  TypedInv'
<1>1. pending' = [kind |-> kind, id |-> id, entries |-> entries, delays |-> d] /\ list' = list
  BY DEF Offer
<1>2. pending'.kind = kind /\ pending'.id = id /\ pending'.entries = entries
  BY <1>1
<1>3. \A p : Continues(p, p)
  BY DEF Continues
<1>4. \A p \in list : IsTyped(p) => Spared(p)'
  BY <1>2 DEF Spared
<1> QED  BY <1>1, <1>2, <1>4 DEF TypedInv, Numbered, IsTyped

(* New pins laid over the list that respect it.                            *)
LEMMA OverSpares ==
  ASSUME NEW pins, Numbered(pins), NEW new, \A q \in new : Respects(pins, q)
  PROVE  /\ Numbered(Over(pins, new))
         /\ \A p \in pins : IsTyped(p) => \E q \in Over(pins, new) : Continues(q, p)
<1>1. ASSUME NEW p \in pins, IsTyped(p) PROVE \E q \in Over(pins, new) : Continues(q, p)
  <2>1. CASE p.id \in Ids(new)
    <3>1. PICK q \in new : q.id = p.id
      BY <2>1 DEF Ids
    <3>2. Continues(q, p)
      BY <1>1, <3>1 DEF Respects
    <3> QED  BY <3>2 DEF Over
  <2>2. CASE p.id \notin Ids(new)
    BY <2>2 DEF Over, Continues
  <2> QED  BY <2>1, <2>2
<1>2. \A q \in new : q.id \in Nat \ {0}
  BY DEF Respects
<1> QED  BY <1>1, <1>2 DEF Over, Numbered

LEMMA TypedStep == ListInv /\ FiniteInv /\ TypedInv /\ [Next]_vars => TypedInv'
<1> SUFFICES ASSUME ListInv, FiniteInv, TypedInv, [Next]_vars PROVE TypedInv'
  OBVIOUS
<1>1. CASE UNCHANGED <<list, pending>>
  BY <1>1 DEF TypedInv, Spared
<1>2. IsFiniteSet(list) /\ OnePerId(list) /\ Numbered(list)
  BY DEF ListInv, IsList, FiniteInv, TypedInv
<1>3. \A p : Continues(p, p)
  BY DEF Continues
<1>4. ASSUME NEW mode \in {"replace", "merge"}, Propose(mode) PROVE TypedInv'
  <2> DEFINE new == Build(M, list, Seen)
  <2>1. \A q \in new : Respects(list, q)
    BY <1>2, BuildRespects
  <2>2. Offer(mode, 0, Over(IF mode = "merge" THEN list ELSE {}, new), delays)
    BY <1>4 DEF Propose, Save
  <2> HIDE DEF new
  <2>3. CASE mode = "merge"
    BY <1>2, <2>1, <2>2, <2>3, OverSpares, OfferSpares
  <2>4. CASE mode = "replace"
    <3>1. Over({}, new) = new /\ Offer("replace", 0, new, delays)
      BY <2>2, <2>4 DEF Over
    <3>2. Numbered(new)
      BY <2>1 DEF Numbered, Respects
    <3>3. \A p \in list : IsTyped(p) =>
            (\E q \in new : Continues(q, p)) \/ p.id \notin Ids(new)
      BY <2>1 DEF Ids, Respects
    <3> QED  BY <3>1, <3>2, <3>3, OfferSpares
  <2> QED  BY <1>4, <2>3, <2>4
<1>5. ASSUME NEW class, NEW ws, Import(class, ws) PROVE TypedInv'
  <2> DEFINE o == ImportedAt(Seen, class, ws)
             pin == Imported(o)
  <2>1. Offer("import", pin.id, Over(list, {pin}), delays)
    BY <1>5 DEF Import, OfferImported, OfferPin
  <2>2. Respects(list, pin)
    BY <1>2, ImportedRespects
  <2> HIDE DEF pin
  <2> QED  BY <1>2, <2>1, <2>2, OverSpares, OfferSpares
<1>6. ASSUME NEW p \in list, NEW text, SetExec(p, text) PROVE TypedInv'
  <2> DEFINE words == [i \in DOMAIN TypedArgv(text) |-> Unspelled(TypedArgv(text)[i])]
             pin == Retyped(p, words)
  <2>1. Offer("set-exec", p.id, Over(list, {pin}), delays)
    BY <1>6 DEF SetExec, OfferTyped
  <2>2. pin.id = p.id
    BY DEF Retyped, ListInv, IsList, IsPin
  <2> HIDE DEF pin
  <2>3. Numbered(Over(list, {pin}))
    BY <1>2, <2>2 DEF Over, Numbered
  <2>4. \A q \in list : q.id # p.id => q \in Over(list, {pin})
    BY <2>2 DEF Over, Ids
  <2> QED  BY <1>3, <2>1, <2>3, <2>4, OfferSpares
<1>7. ASSUME NEW d, SetDelays(d) PROVE TypedInv'
  BY <1>2, <1>3, <1>7, OfferSpares DEF SetDelays
<1>8. ASSUME NEW p \in list, Drop(p) PROVE TypedInv'
  BY <1>8 DEF Drop, TypedInv, Numbered
<1>9. CASE Authorize \/ Cancel
  BY <1>9 DEF Authorize, Cancel, TypedInv, Numbered, NoProposal
<1>10. CASE UNCHANGED vars \/ (\E i : OpenWindow(i) \/ CloseWindow(i))
  BY <1>1, <1>10 DEF vars, OpenWindow, CloseWindow
<1> QED  BY <1>4, <1>5, <1>6, <1>7, <1>8, <1>9, <1>10 DEF Next, Edit

(* A command the user typed stays with its pin until the user types        *)
(* another, drops the pin, or replaces the list by windows that are not    *)
(* the pin's (propose.rs, pin and correlate; edit.rs).                     *)
THEOREM TypedStays == Spec => TypedCommandStays
<1> DEFINE Stays == \A p \in list : IsTyped(p) =>
             \/ \E q \in list' : q.id = p.id /\ q.argv = p.argv /\ q.label = p.label
             \/ pending.kind = "set-exec" /\ pending.id = p.id
             \/ pending.kind \in {"replace", None} /\ p.id \notin Ids(list')
<1>1. Init => ListInv /\ FiniteInv /\ TypedInv
  BY ListInit, FS_EmptySet DEF Init, FiniteInv, TypedInv, Numbered, NoProposal
<1>2. ListInv /\ TypedInv /\ [Next]_vars => [Stays]_vars
  <2> SUFFICES ASSUME ListInv, TypedInv, Next PROVE Stays
    OBVIOUS
  <2>1. CASE UNCHANGED list
    BY <2>1
  <2>2. CASE Authorize
    BY <2>2 DEF Authorize, TypedInv, Spared, Continues
  <2>3. ASSUME NEW p \in list, Drop(p) PROVE Stays
    <3>1. list' = list \ {p} /\ pending.kind = None
      BY <2>3 DEF Drop, NoProposal
    <3>2. p.id \notin Ids(list')
      BY <3>1 DEF Ids, ListInv, IsList, OnePerId
    <3> QED  BY <3>1, <3>2
  <2>4. Authorize \/ (\E p \in list : Drop(p)) \/ UNCHANGED list
    BY DEF Next, Edit, OpenWindow, CloseWindow, Propose, Offer, Import, OfferImported, OfferPin,
           SetExec, OfferTyped, SetDelays, Cancel
  <2> QED  BY <2>1, <2>2, <2>3, <2>4
<1> QED  BY <1>1, <1>2, ListStep, FiniteStep, TypedStep, PTL DEF Spec, TypedCommandStays

-----------------------------------------------------------------------------
(* Command lines are lists of words.                                       *)

IsWords(argv) == \E W : argv \in Seq(W)

LEMMA WordsPrefix ==
  ASSUME NEW a, IsWords(a), NEW b, IsWords(b)
  PROVE  IsWords(a \o b) /\ IsPrefix(a, a \o b) /\ (a # <<>> => a \o b # <<>>)
<1>1. PICK A : a \in Seq(A)
  BY DEF IsWords
<1>2. PICK B : b \in Seq(B)
  BY DEF IsWords
<1> DEFINE W == A \cup B
<1>3. a \in Seq(W) /\ b \in Seq(W)
  BY <1>1, <1>2
<1> HIDE DEF W
<1>4. a \o b \in Seq(W) /\ Len(a \o b) = Len(a) + Len(b) /\ Len(a) \in Nat /\ Len(b) \in Nat
  BY <1>3
<1>5. SubSeq(a \o b, 1, Len(a)) = SubSeq(a, 1, Len(a))
  <2> DEFINE n == Len(a)
  <2>1. \A i \in 1 .. n : (a \o b)[i] = a[i]
    BY <1>3
  <2>2. n \in Nat /\ n <= Len(a \o b)
    BY <1>4
  <2>3. SubSeq(a \o b, 1, n) = [i \in 1 .. n |-> (a \o b)[i]] /\ SubSeq(a, 1, n) = [i \in 1 .. n |-> a[i]]
    BY <1>3, <1>4
  <2> QED  BY <2>1, <2>3
<1>6. a # <<>> => a \o b # <<>>
  BY <1>3
<1> QED  BY <1>4, <1>5, <1>6 DEF IsWords, IsPrefix

LEMMA WordsSelf ==
  ASSUME NEW a, IsWords(a)
  PROVE  IsPrefix(a, a)
BY DEF IsWords, IsPrefix

LEMMA WordsOne == IsWords(<<>>) /\ \A w : IsWords(<<w>>)
<1>1. <<>> \in Seq({})
  OBVIOUS
<1>2. \A w : <<w>> \in Seq({w})
  OBVIOUS
<1> QED  BY <1>1, <1>2 DEF IsWords

-----------------------------------------------------------------------------
(* The walk up from a process.                                             *)

LEMMA HopsIs ==
  ASSUME NEW m, NEW p
  PROVE  /\ Hops(m, p)[1] = p
         /\ \A k \in 2 .. MaxHops :
              Hops(m, p)[k] =
                LET q == Hops(m, p)[k - 1]
                IN  IF IsHost(m, q) /\ Parent(m, q) # q THEN Parent(m, q) ELSE 0
<1> DEFINE Step(q) == IF IsHost(m, q) /\ Parent(m, q) # q THEN Parent(m, q) ELSE 0
           Is(h, n) == h = [k \in 1 .. n |-> IF k = 1 THEN p ELSE Step(h[k - 1])]
           S == {n \in Nat : \E h : Is(h, n)}
<1>1. Hops(m, p) = CHOOSE h : Is(h, MaxHops)
  BY DEF Hops
<1> HIDE DEF Step
<1>2. 0 \in S
  <2>1. Is([k \in 1 .. 0 |-> p], 0)
    OBVIOUS
  <2> QED  BY <2>1
<1>3. ASSUME NEW n \in Nat, n \in S PROVE n + 1 \in S
  <2>1. PICK f : Is(f, n)
    BY <1>3
  <2> DEFINE last == IF n = 0 THEN p ELSE Step(f[n])
             g == [k \in 1 .. n + 1 |-> IF k = n + 1 THEN last ELSE f[k]]
  <2>2. ASSUME NEW k \in 1 .. n + 1
        PROVE  g[k] = IF k = 1 THEN p ELSE Step(g[k - 1])
    <3>1. CASE k = n + 1
      <4>1. g[k] = last /\ k - 1 = n /\ (k = 1 <=> n = 0) /\ (n # 0 => g[n] = f[n])
        BY <3>1
      <4> QED  BY <3>1, <4>1
    <3>2. CASE k # n + 1
      <4>1. k \in 1 .. n /\ g[k] = f[k] /\ (k # 1 => k - 1 \in 1 .. n /\ g[k - 1] = f[k - 1])
        BY <3>2
      <4> QED  BY <2>1, <4>1
    <3> QED  BY <3>1, <3>2
  <2> HIDE DEF last
  <2>3. Is(g, n + 1)
    BY <2>2
  <2> HIDE DEF Is, g
  <2> QED  BY <2>3
<1>4. \E h : Is(h, MaxHops)
  <2> HIDE DEF S, Is
  <2>1. \A n \in Nat : n \in S
    BY <1>2, <1>3, NatInSet
  <2> QED  BY <2>1 DEF S, MaxHops
<1>5. Is(Hops(m, p), MaxHops)
  <2> HIDE DEF Is
  <2> QED  BY <1>1, <1>4
<1>6. 1 \in 1 .. MaxHops /\ \A k \in 2 .. MaxHops : k \in 1 .. MaxHops /\ k # 1
  BY DEF MaxHops
<1>7. Hops(m, p)[1] = p /\ \A k \in 2 .. MaxHops : Hops(m, p)[k] = Step(Hops(m, p)[k - 1])
  BY <1>5, <1>6
<1> QED  BY <1>7 DEF Step

(* It stays on the host: every host process it comes to is an ancestor.    *)
LEMMA HopsAreAncestors ==
  ASSUME NEW m, ~IsHost(m, 0), NEW p, NEW k \in 1 .. MaxHops, IsHost(m, Hops(m, p)[k])
  PROVE  Hops(m, p)[k] \in HostAncestors(m, p)
<1> DEFINE hop == Hops(m, p)
           hosts == {q \in DOMAIN m.procs : IsHost(m, q)}
<1>1. /\ hop[1] = p
      /\ \A j \in 2 .. MaxHops :
           hop[j] = IF IsHost(m, hop[j - 1]) /\ Parent(m, hop[j - 1]) # hop[j - 1]
                    THEN Parent(m, hop[j - 1]) ELSE 0
  BY HopsIs
<1>0. IsHost(m, hop[k])
  OBVIOUS
<1> HIDE DEF hop
<1>2. \A q : IsHost(m, q) => q \in hosts
  BY DEF IsHost
<1>3. ASSUME NEW S \in SUBSET hosts, p \in hosts => p \in S,
             \A r \in S : Parent(m, r) \in hosts => Parent(m, r) \in S
      PROVE  p \in hosts /\ hop[k] \in S
  <2> DEFINE T == {j \in Nat : j \in 1 .. MaxHops /\ IsHost(m, hop[j]) =>
                     p \in hosts /\ hop[j] \in S}
  <2> HIDE DEF hosts
  <2>1. 0 \in T
    OBVIOUS
  <2>2. ASSUME NEW j \in Nat, j \in T PROVE j + 1 \in T
    <3> SUFFICES ASSUME j + 1 \in 1 .. MaxHops, IsHost(m, hop[j + 1])
                 PROVE  p \in hosts /\ hop[j + 1] \in S
      OBVIOUS
    <3>1. CASE j = 0
      BY <1>1, <1>2, <1>3, <3>1
    <3>2. CASE j # 0
      <4>1. j \in 1 .. MaxHops /\ j + 1 \in 2 .. MaxHops /\ j + 1 - 1 = j
        BY <3>2 DEF MaxHops
      <4>2. IsHost(m, hop[j]) /\ hop[j + 1] = Parent(m, hop[j])
        BY <1>1, <4>1
      <4>3. p \in hosts /\ hop[j] \in S
        BY <2>2, <4>1, <4>2
      <4> QED  BY <1>2, <1>3, <4>2, <4>3
    <3> QED  BY <3>1, <3>2
  <2>3. k \in T
    <3> HIDE DEF T
    <3>1. k \in Nat
      BY DEF MaxHops
    <3> QED  BY <2>1, <2>2, <3>1, NatInSet
  <2> QED  BY <1>0, <2>3
<1>4. hop[k] \in hosts
  BY <1>0, <1>2
<1> QED  BY <1>3, <1>4 DEF HostAncestors, hop

LEMMA OwnProcessIsHost ==
  ASSUME NEW m, ~IsHost(m, 0), NEW p, OwnProcess(m, p) # 0
  PROVE  /\ OwnProcess(m, p) \in HostAncestors(m, p)
         /\ Argv(m, OwnProcess(m, p)) # <<>>
         /\ ~HasWord(Argv(m, OwnProcess(m, p)), Helper)
<1> DEFINE hop == Hops(m, p)
           own == {k \in 1 .. MaxHops :
                     IsHost(m, hop[k]) /\ Argv(m, hop[k]) # <<>> /\ ~HasWord(Argv(m, hop[k]), Helper)}
<1>1. OwnProcess(m, p) = IF own = {} THEN 0 ELSE hop[Min(own)]
  BY DEF OwnProcess
<1>2. own # {} /\ own \subseteq Nat /\ OwnProcess(m, p) = hop[Min(own)]
  BY <1>1
<1>3. Min(own) \in own
  <2> HIDE DEF own
  <2>1. \E k \in own : \A j \in own : k <= j
    BY <1>2, LeastNat
  <2> QED  BY <2>1 DEF Min
<1> QED  BY <1>2, <1>3, HopsAreAncestors

-----------------------------------------------------------------------------
(* What a capture may be.                                                  *)

(* A command line the host vouches for, for a window of the process p.     *)
Vouched(m, p, argv) ==
  \E q \in HostAncestors(m, p) :
    /\ argv = Argv(m, q)
    /\ argv # <<>> /\ ~IsSmashed(argv) /\ ~HasWord(argv, Helper \cup Service)
Gated(m, p, xwayland, shares, c) ==
  /\ c.source = "cmdline" =>
       /\ ~xwayland /\ ~shares
       /\ \E argv : Vouched(m, p, argv) /\ IsPrefix(argv, c.argv)
  /\ c.source # None =>
       /\ c.trusted \/ m.apps[c.desktop].root
       /\ c.argv # <<>>
       /\ (c.source = "cmdline") = (c.provenance = "host")

LEMMA CapturedIs ==
  ASSUME NEW argv, NEW source, NEW cwd, NEW hosted, NEW d, NEW trusted
  PROVE  LET c == Captured(argv, source, cwd, hosted, d, trusted) IN
         /\ c.argv = argv /\ c.source = source /\ c.desktop = d /\ c.trusted = trusted
         /\ c.provenance = IF source = "cmdline" THEN "host" ELSE None
BY DEF Captured

LEMMA ShownIsWords ==
  ASSUME NEW m, \A q : IsWords(Argv(m, q)), NEW p, NEW argv
  PROVE  IsWords(TerminalShows(m, p, argv).argv)
<1> DEFINE fg == Foreground(m, p)
<1>1. /\ IsWords(fg.argv)
      /\ fg = [kind |-> fg.kind, argv |-> fg.argv, cwd |-> fg.cwd]
  <2>1. IsWords(NothingShown.argv)
        /\ NothingShown = [kind |-> NothingShown.kind, argv |-> NothingShown.argv, cwd |-> NothingShown.cwd]
    BY WordsOne DEF NothingShown
  <2>2. ASSUME NEW shell, NEW leader
        PROVE  LET f == LeaderShows(m, shell, leader)
               IN  IsWords(f.argv) /\ f = [kind |-> f.kind, argv |-> f.argv, cwd |-> f.cwd]
    BY <2>1, WordsOne DEF LeaderShows
  <2> QED  BY <2>1, <2>2 DEF Foreground
<1> HIDE DEF fg
<1>2. ASSUME NEW option PROVE Shows(option, argv, fg).argv = fg.argv
  BY <1>1 DEF Shows
<1> QED  BY <1>1, <1>2 DEF TerminalShows, fg

LEMMA HostedIsWords ==
  ASSUME NEW m, NEW argv, IsWords(argv), NEW hosted, IsWords(hosted), argv # <<>>
  PROVE  IsPrefix(argv, HostedCommand(m, argv, hosted)) /\ HostedCommand(m, argv, hosted) # <<>>
<1> DEFINE option == TerminalOption(m, argv)
           front == IF option = NoOption THEN <<>> ELSE <<option>>
<1>1. HostedCommand(m, argv, hosted) = argv \o front \o hosted
  BY DEF HostedCommand
<1>2. IsWords(front)
  BY WordsOne
<1> HIDE DEF front
<1>3. IsWords(front \o hosted)
  BY <1>2, WordsPrefix
<1>4. argv \o front \o hosted = argv \o (front \o hosted)
  BY <1>2 DEF IsWords
<1> DEFINE rest == front \o hosted
<1> HIDE DEF rest
<1>5. IsPrefix(argv, argv \o rest) /\ argv \o rest # <<>>
  BY <1>3, WordsPrefix DEF rest
<1> QED  BY <1>1, <1>4, <1>5 DEF rest

LEMMA CaptureIsGated ==
  ASSUME NEW m, ~IsHost(m, 0), \A q : IsWords(Argv(m, q)),
         NEW class, NEW p, NEW xwayland, NEW shares
  PROVE  Gated(m, p, xwayland, shares, CaptureResolve(m, class, p, xwayland, shares))
<1> DEFINE trusted == WindowTrusted(m, xwayland, p)
           at == IF shares THEN 0 ELSE OwnProcess(m, p)
           argv == Argv(m, at)
           shown == TerminalShows(m, at, argv)
           d == Desktop(m, class, ~trusted)
           own == /\ trusted /\ at # 0 /\ ~IsSmashed(argv) /\ ~HasWord(argv, Service)
                  /\ d = 0 \/ Program(m.apps[d].argv) = Program(argv)
           c == CaptureResolve(m, class, p, xwayland, shares)
<1>1. c = CaptureFrom(m, class, trusted, d, at, argv, shown)
  BY DEF CaptureResolve, CaptureAt
<1>2. d # 0 => m.apps[d].argv # <<>> /\ (trusted \/ m.apps[d].root)
  BY DEF Desktop
<1>3. IsWords(argv) /\ IsWords(shown.argv)
  BY ShownIsWords
<1>4. own => /\ trusted /\ ~xwayland /\ ~shares /\ Vouched(m, p, argv)
             /\ argv # <<>>
  <2> SUFFICES ASSUME own PROVE ~xwayland /\ ~shares /\ Vouched(m, p, argv) /\ argv # <<>>
    OBVIOUS
  <2>1. ~shares /\ at = OwnProcess(m, p) /\ OwnProcess(m, p) # 0
    OBVIOUS
  <2>2. ~xwayland
    BY DEF WindowTrusted
  <2>3. at \in HostAncestors(m, p) /\ argv # <<>> /\ ~HasWord(argv, Helper)
    BY <2>1, OwnProcessIsHost
  <2>4. ~HasWord(argv, Helper \cup Service)
    BY <2>3 DEF HasWord
  <2> QED  BY <2>1, <2>2, <2>3, <2>4 DEF Vouched
<1>5. \/ own /\ \E a, cwd, hosted : c = Captured(a, "cmdline", cwd, hosted, 0, trusted)
                                     /\ IsPrefix(argv, a) /\ a # <<>>
      \/ d # 0 /\ c = Captured(m.apps[d].argv, "desktop-file", None, None, d, trusted)
      \/ c = Captured(<<class>>, None, None, None, 0, trusted)
  <2>1. CASE own /\ shown.kind = "command"
    <3>1. c = Captured(HostedCommand(m, argv, shown.argv), "cmdline", shown.cwd, Program(shown.argv), 0, trusted)
      BY <1>1, <2>1 DEF CaptureFrom
    <3>2. argv # <<>>
      BY <1>4, <2>1
    <3> HIDE DEF argv, shown, c, own
    <3>3. IsPrefix(argv, HostedCommand(m, argv, shown.argv)) /\ HostedCommand(m, argv, shown.argv) # <<>>
      BY <1>3, <3>2, HostedIsWords
    <3> QED  BY <2>1, <3>1, <3>3
  <2>2. CASE own /\ shown.kind # "command"
    <3>1. c = Captured(argv, "cmdline", IF shown.kind = "shell" THEN shown.cwd ELSE Cwd(m, at),
                       NamedCommand(m, argv), 0, trusted)
      BY <1>1, <2>2 DEF CaptureFrom
    <3>2. argv # <<>> /\ IsPrefix(argv, argv)
      BY <1>3, <1>4, <2>2, WordsSelf
    <3> HIDE DEF argv, shown, c, own, at
    <3> QED  BY <2>2, <3>1, <3>2
  <2>3. CASE ~own
    BY <1>1, <2>3 DEF CaptureFrom
  <2> QED  BY <2>1, <2>2, <2>3
<1> HIDE DEF c, own, d, argv, at, shown, trusted
<1>6. CASE own /\ \E a, cwd, hosted : c = Captured(a, "cmdline", cwd, hosted, 0, trusted)
                                        /\ IsPrefix(argv, a) /\ a # <<>>
  <2>1. PICK a, cwd, hosted : c = Captured(a, "cmdline", cwd, hosted, 0, trusted)
                              /\ IsPrefix(argv, a) /\ a # <<>>
    BY <1>6
  <2>2. c.argv = a /\ c.source = "cmdline" /\ c.trusted = trusted /\ c.provenance = "host"
    BY <2>1, CapturedIs
  <2> QED  BY <1>4, <1>6, <2>1, <2>2 DEF Gated, c
<1>7. CASE d # 0 /\ c = Captured(m.apps[d].argv, "desktop-file", None, None, d, trusted)
  <2>1. /\ c.argv = m.apps[d].argv /\ c.source = "desktop-file" /\ c.trusted = trusted
        /\ c.provenance = None /\ c.desktop = d
    BY <1>7, CapturedIs
  <2>2. "desktop-file" # "cmdline" /\ None # "host"
    BY DEF None
  <2>3. c.trusted \/ m.apps[c.desktop].root
    BY <1>2, <1>7, <2>1
  <2> QED  BY <1>2, <1>7, <2>1, <2>2, <2>3 DEF Gated, c
<1>8. CASE c = Captured(<<class>>, None, None, None, 0, trusted)
  <2>1. c.source = None
    BY <1>8, CapturedIs
  <2>2. None # "cmdline"
    BY DEF None
  <2> QED  BY <2>1, <2>2 DEF Gated, c
<1> QED  BY <1>5, <1>6, <1>7, <1>8

(* A window that is not trusted gets pins that stay off.                   *)
LEMMA UntrustedStaysOff ==
  ASSUME NEW m, NEW w, NEW c, ~c.trusted
  PROVE  \A p \in Save(m, {}, <<[w |-> w, c |-> c]>>, "replace") : ~p.enabled
<1> DEFINE seen == <<[w |-> w, c |-> c]>>
           wanted == Wanted(seen)
<1>1. wanted \in Seq({[w |-> w, c |-> c]})
  <2>1. Len(seen) \in Nat /\ \A i \in 1 .. Len(seen) : seen[i] \in {[w |-> w, c |-> c]}
    OBVIOUS
  <2> HIDE DEF seen
  <2> QED  BY <2>1, KeptTyped DEF Wanted
<1> SUFFICES ASSUME NEW p \in Build(m, {}, seen) PROVE ~p.enabled
  BY DEF Save, Over
<1> HIDE DEF wanted
<1>2. PICK k \in DOMAIN wanted : \E stored, id : p = Pin(m, stored, id, wanted[k])
  BY DEF Build, BuildFrom, PinsOf, wanted
<1>3. wanted[k] = [w |-> w, c |-> c]
  BY <1>1, <1>2
<1>4. \A stored, id, o : Pin(m, stored, id, o).enabled = o.c.trusted
  BY DEF Pin
<1> QED  BY <1>2, <1>3, <1>4

-----------------------------------------------------------------------------
(* The machine as it is read.                                              *)

MachineInv ==
  /\ \E k \in DOMAIN Machines : machine = Readings[k]
  /\ open \in Seq(DOMAIN machine.windows)

LEMMA ReadingIs ==
  ASSUME NEW k \in DOMAIN Machines
  PROVE  LET m == Indexed(k, Machines[k]) IN
         /\ Readings[k].k = k /\ Readings[k].procs = m.procs /\ Readings[k].apps = m.apps
         /\ Readings[k].windows = m.windows /\ Readings[k].captures = Captures(m)
         /\ m.procs = Machines[k].procs /\ m.windows = Machines[k].windows
<1> DEFINE m == Indexed(k, Machines[k])
           captures == Captures(m)
<1>1. Readings[k] = [k |-> m.k, procs |-> m.procs, apps |-> m.apps, windows |-> m.windows,
                      captures |-> captures]
  BY DEF Readings, WithCaptures
<1>2. m = [k |-> k, procs |-> Machines[k].procs, apps |-> Index(Machines[k].dirs),
           windows |-> Machines[k].windows]
  BY DEF Indexed
<1> HIDE DEF captures
<1>3. /\ m.k = k /\ m.procs = Machines[k].procs /\ m.windows = Machines[k].windows
  BY <1>2
<1> HIDE DEF m
<1>4. /\ Readings[k].k = m.k /\ Readings[k].procs = m.procs /\ Readings[k].apps = m.apps
      /\ Readings[k].windows = m.windows /\ Readings[k].captures = captures
  BY <1>1
<1> QED  BY <1>3, <1>4 DEF m, captures

LEMMA MachineStep == MachineInv /\ [Next]_vars => MachineInv'
<1> SUFFICES ASSUME MachineInv, [Next]_vars PROVE MachineInv'
  OBVIOUS
<1> DEFINE D == DOMAIN machine.windows
<1>1. open \in Seq(D)
  BY DEF MachineInv
<1>2. machine' = machine
  BY DEF Next, Edit, OpenWindow, CloseWindow, Propose, Offer, Import, OfferImported, OfferPin,
         SetExec, OfferTyped, SetDelays, Drop, Authorize, Cancel, vars
<1>3. \/ \E i \in DOMAIN M.windows : OpenWindow(i)
      \/ \E i \in DOMAIN M.windows : CloseWindow(i)
      \/ UNCHANGED open
  BY DEF Next, Edit, Propose, Offer, Import, OfferImported, OfferPin,
         SetExec, OfferTyped, SetDelays, Drop, Authorize, Cancel, vars
<1> HIDE DEF D
<1>4. ASSUME NEW i \in D, OpenWindow(i) PROVE open' \in Seq(D)
  BY <1>1, <1>4 DEF OpenWindow
<1>5. ASSUME NEW i \in D, CloseWindow(i) PROVE open' \in Seq(D)
  <2>1. PICK k \in DOMAIN open : open' = SubSeq(open, 1, k - 1) \o SubSeq(open, k + 1, Len(open))
    BY <1>5 DEF CloseWindow, RemoveAt
  <2>2. k \in 1 .. Len(open) /\ Len(open) \in Nat
    BY <1>1
  <2>3. SubSeq(open, 1, k - 1) \in Seq(D)
    BY <1>1, <2>2, SubSeqProperties
  <2>4. SubSeq(open, k + 1, Len(open)) \in Seq(D)
    BY <1>1, <2>2, SubSeqProperties
  <2> QED  BY <2>1, <2>3, <2>4
<1>6. open' \in Seq(D)
  BY <1>1, <1>3, <1>4, <1>5 DEF D, M
<1> QED  BY <1>2, <1>6 DEF MachineInv, D

(* The gate on every command line that may be signed: only a native        *)
(* window's, of a process the host vouches for all the way up from it, no  *)
(* helper's, service's or rewritten one and none two classes share; for a  *)
(* window that is not trusted a root-owned launcher's or none, and a pin   *)
(* that stays off; and nothing the signed document's rules refuse          *)
(* (resolve.rs, capture_resolve; host.rs, own_process).                    *)
THEOREM GateHolds == Spec => []TrustGate
<1>1. Init => MachineInv
  BY DEF Init, MachineInv
<1>2. MachineInv => TrustGate
  <2> SUFFICES ASSUME MachineInv, NEW i \in ToSet(open)
               PROVE  MayBeSigned(M.windows[i], CaptureOf(i), OwnCommands[machine.k][i])
    BY DEF TrustGate
  <2>1. PICK k \in DOMAIN Machines : machine = Readings[k]
    BY DEF MachineInv
  <2> DEFINE m == Indexed(k, Machines[k])
             w == M.windows[i]
             shares == SharesProcess(Windows, w)
             c == CaptureOf(i)
  <2>2. /\ machine.k = k /\ M.apps = m.apps /\ M.windows = m.windows /\ M.captures = Captures(m)
        /\ m.procs = Machines[k].procs /\ m.windows = Machines[k].windows
    BY <2>1, ReadingIs DEF M
  <2>3. i \in DOMAIN m.windows /\ i \in DOMAIN Machines[k].windows
    <3>1. open \in Seq(DOMAIN m.windows)
      BY <2>2 DEF MachineInv, M
    <3> QED  BY <2>2, <3>1 DEF ToSet
  <2> HIDE DEF m
  <2>4. shares \in BOOLEAN
    BY DEF SharesProcess
  <2>5. c = CaptureResolve(m, w.class, w.pid, w.xwayland, shares)
    <3>1. c = Captures(m)[i][shares] /\ w = m.windows[i]
      BY <2>2 DEF CaptureOf
    <3> HIDE DEF c, shares, w
    <3> QED  BY <2>3, <2>4, <3>1 DEF Captures
  <2>6. ~IsHost(m, 0) /\ \A q : IsWords(Argv(m, q))
    BY <2>2, MachinesAssumption, WordsOne DEF IsHost, Argv, IsWords
  <2> HIDE DEF c, w, shares
  <2>7. Gated(m, w.pid, w.xwayland, shares, c)
    BY <2>5, <2>6, CaptureIsGated
  <2>8. ASSUME NEW argv, Vouched(m, w.pid, argv) PROVE argv \in OwnCommands[k][i]
    <3> DEFINE n == Machines[k]
               p == n.windows[i].pid
    <3>1. p = w.pid
      BY <2>2 DEF w
    <3>2. \A q : Argv(m, q) = Argv(n, q) /\ IsHost(m, q) = IsHost(n, q) /\ Parent(m, q) = Parent(n, q)
      BY <2>2 DEF Argv, IsHost, Parent
    <3>3. HostAncestors(m, p) = HostAncestors(n, p)
      BY <2>2, <3>2 DEF HostAncestors
    <3>4. OwnCommands[k][i] = {Argv(n, q) : q \in {r \in HostAncestors(n, p) :
             /\ Argv(n, r) # <<>> /\ ~IsSmashed(Argv(n, r))
             /\ ~HasWord(Argv(n, r), Helper \cup Service)}}
      BY <2>3 DEF OwnCommands
    <3> HIDE DEF n, p
    <3> QED  BY <2>8, <3>1, <3>2, <3>3, <3>4 DEF Vouched
  <2>9. c.source = "cmdline" =>
          /\ ~w.xwayland /\ ~SharesProcess(Windows, w)
          /\ \E argv \in OwnCommands[k][i] : IsPrefix(argv, c.argv)
    BY <2>7, <2>8 DEF Gated, shares
  <2>10. ~c.trusted => \A p \in Save(M, {}, <<[w |-> w, c |-> c]>>, "replace") : ~p.enabled
    BY UntrustedStaysOff
  <2>11. c.source # None =>
           /\ c.trusted \/ M.apps[c.desktop].root
           /\ ValidEntry([ws |-> 1, argv |-> c.argv, source |-> c.source, provenance |-> c.provenance])
    BY <2>2, <2>7 DEF Gated, ValidEntry
  <2>12. MayBeSigned(w, c, OwnCommands[k][i])
    BY <2>9, <2>10, <2>11 DEF MayBeSigned
  <2> QED  BY <2>2, <2>12 DEF w, c
<1> QED  BY <1>1, <1>2, MachineStep, PTL DEF Spec

-----------------------------------------------------------------------------
(* What a filter keeps: each of the places once, in their order.           *)

Picks(seq, at, n, kept, ix) ==
  /\ ix \in [1 .. Len(kept) -> {j \in 1 .. n : j \in at}]
  /\ \A k \in 1 .. Len(kept) : kept[k] = seq[ix[k]]
  /\ \A k, l \in 1 .. Len(kept) : k < l => ix[k] < ix[l]
  /\ \A j \in 1 .. n : j \in at => \E k \in 1 .. Len(kept) : ix[k] = j

LEMMA AppendPicks ==
  ASSUME NEW seq, NEW at, NEW n \in Nat, NEW T, NEW kept \in Seq(T), NEW ix,
         Picks(seq, at, n, kept, ix), n + 1 \in at, seq[n + 1] \in T
  PROVE  \E iy : Picks(seq, at, n + 1, Append(kept, seq[n + 1]), iy)
<1> DEFINE m == Len(kept)
           more == Append(kept, seq[n + 1])
           iy == [k \in 1 .. m + 1 |-> IF k = m + 1 THEN n + 1 ELSE ix[k]]
<1>1. /\ m \in Nat /\ Len(more) = m + 1 /\ more[m + 1] = seq[n + 1]
      /\ \A k \in 1 .. m : more[k] = kept[k]
  OBVIOUS
<1>2. /\ ix \in [1 .. m -> {j \in 1 .. n : j \in at}]
      /\ \A k \in 1 .. m : kept[k] = seq[ix[k]]
      /\ \A k, l \in 1 .. m : k < l => ix[k] < ix[l]
      /\ \A j \in 1 .. n : j \in at => \E k \in 1 .. m : ix[k] = j
  BY DEF Picks
<1> HIDE DEF m, more
<1>3. /\ iy[m + 1] = n + 1 /\ \A k \in 1 .. m : iy[k] = ix[k] /\ ix[k] \in 1 .. n /\ ix[k] \in at
      /\ \A k \in 1 .. m + 1 : k = m + 1 \/ k \in 1 .. m
      /\ \A j \in 1 .. n + 1 : j = n + 1 \/ j \in 1 .. n
      /\ m + 1 \in 1 .. m + 1 /\ n + 1 \in 1 .. n + 1
  BY <1>1, <1>2
<1>4. iy \in [1 .. m + 1 -> {j \in 1 .. n + 1 : j \in at}]
  <2>1. ASSUME NEW k \in 1 .. m + 1 PROVE iy[k] \in 1 .. n + 1 /\ iy[k] \in at
    <3>1. CASE k = m + 1
      BY <1>3, <3>1
    <3>2. CASE k \in 1 .. m
      <4>1. iy[k] = ix[k] /\ ix[k] \in 1 .. n /\ ix[k] \in at
        BY <1>3, <3>2
      <4> QED  BY <4>1
    <3> QED  BY <1>3, <3>1, <3>2
  <2>2. DOMAIN iy = 1 .. m + 1 /\ iy = [k \in 1 .. m + 1 |-> iy[k]]
    OBVIOUS
  <2> HIDE DEF iy
  <2> QED  BY <2>1, <2>2
<1>5. \A k \in 1 .. m + 1 : more[k] = seq[iy[k]]
  BY <1>1, <1>2, <1>3
<1>6. \A k, l \in 1 .. m + 1 : k < l => iy[k] < iy[l]
  BY <1>1, <1>2, <1>3
<1>7. \A j \in 1 .. n + 1 : j \in at => \E k \in 1 .. m + 1 : iy[k] = j
  <2> SUFFICES ASSUME NEW j \in 1 .. n + 1, j \in at PROVE \E k \in 1 .. m + 1 : iy[k] = j
    OBVIOUS
  <2>1. CASE j = n + 1
    BY <1>1, <1>3, <2>1
  <2>2. CASE j \in 1 .. n
    <3>1. PICK k \in 1 .. m : ix[k] = j
      BY <1>2, <2>2
    <3> QED  BY <1>1, <1>3, <3>1
  <2> QED  BY <1>3, <2>1, <2>2
<1> HIDE DEF iy
<1>8. Picks(seq, at, n + 1, more, iy)
  BY <1>1, <1>4, <1>5, <1>6, <1>7 DEF Picks
<1> QED  BY <1>8 DEF more

LEMMA KeepPicks ==
  ASSUME NEW seq, NEW at, Len(seq) \in Nat
  PROVE  /\ \E ix : Picks(seq, at, Len(seq), Keep(seq, at), ix)
         /\ Len(Keep(seq, at)) \in Nat /\ DOMAIN Keep(seq, at) = 1 .. Len(Keep(seq, at))
<1> DEFINE n == Len(seq)
           T == {seq[i] : i \in 1 .. n}
           kept == KeptUpTo(seq, at, n)
           S == {i \in Nat : i <= n => \E ix : Picks(seq, at, i, kept[i], ix)}
<1>1. kept[0] = <<>> /\ \A i \in 1 .. n : kept[i] =
        IF i \in at THEN Append(kept[i - 1], seq[i]) ELSE kept[i - 1]
  BY KeptSteps
<1>2. /\ \A i \in 0 .. n : kept[i] \in Seq(T)
      /\ Keep(seq, at) \in Seq(T) /\ Keep(seq, at) = kept[n]
  BY KeptTyped, KeepIs
<1>3. \A i \in 1 .. n : seq[i] \in T
  OBVIOUS
<1>0. n \in Nat
  OBVIOUS
<1> HIDE DEF n, T, kept
<1>4. 0 \in S
  <2> DEFINE none == [k \in 1 .. 0 |-> 0]
  <2>1. Picks(seq, at, 0, <<>>, none)
    BY DEF Picks
  <2> QED  BY <1>1, <2>1
<1>5. ASSUME NEW i \in Nat, i \in S PROVE i + 1 \in S
  <2> SUFFICES ASSUME i + 1 <= n PROVE \E ix : Picks(seq, at, i + 1, kept[i + 1], ix)
    OBVIOUS
  <2>1. i + 1 \in 1 .. n /\ i + 1 - 1 = i /\ i \in 0 .. n /\ i <= n
    BY <1>0
  <2>2. PICK ix : Picks(seq, at, i, kept[i], ix)
    BY <1>5, <2>1
  <2>3. CASE i + 1 \in at
    <3>1. kept[i + 1] = Append(kept[i], seq[i + 1])
      <4> DEFINE j == i + 1
      <4>1. j \in 1 .. n /\ j \in at /\ j - 1 = i
        BY <2>1, <2>3
      <4> HIDE DEF j
      <4>2. kept[j] = Append(kept[j - 1], seq[j])
        BY <1>1, <4>1
      <4> QED  BY <4>1, <4>2 DEF j
    <3>2. kept[i] \in Seq(T) /\ seq[i + 1] \in T
      BY <1>2, <1>3, <2>1
    <3> QED  BY <2>2, <2>3, <3>1, <3>2, AppendPicks
  <2>4. CASE i + 1 \notin at
    <3>1. kept[i + 1] = kept[i]
      BY <1>1, <2>1, <2>4
    <3>2. {j \in 1 .. i : j \in at} = {j \in 1 .. i + 1 : j \in at}
      BY <2>4
    <3>3. \A j \in 1 .. i + 1 : j \in at => j \in 1 .. i
      BY <2>4
    <3>4. Picks(seq, at, i + 1, kept[i], ix)
      BY <2>2, <3>2, <3>3 DEF Picks
    <3> QED  BY <3>1, <3>4
  <2> QED  BY <2>3, <2>4
<1>6. \E ix : Picks(seq, at, n, kept[n], ix)
  <2> HIDE DEF S
  <2>1. \A i \in Nat : i \in S
    BY <1>4, <1>5, NatInSet
  <2> QED  BY <1>0, <2>1 DEF S
<1> QED  BY <1>2, <1>6 DEF n

-----------------------------------------------------------------------------
(* What is proposed stands for the windows: one for each place and command *)
(* that may be signed.                                                     *)

IsList1(seen) == Len(seen) \in Nat /\ DOMAIN seen = 1 .. Len(seen)
Same(o, v) == Place(o) = Place(v) /\ o.c.argv = v.c.argv
StandsFor(wanted, seen) ==
  /\ IsList1(wanted)
  /\ \A k \in DOMAIN wanted : Proposable(wanted[k]) /\ \E i \in DOMAIN seen : wanted[k] = seen[i]
  /\ \A k, l \in DOMAIN wanted : Same(wanted[k], wanted[l]) => k = l
  /\ \A i \in DOMAIN seen : Proposable(seen[i]) => \E k \in DOMAIN wanted : Same(wanted[k], seen[i])

LEMMA ChosenIs ==
  ASSUME NEW seen, IsList1(seen)
  PROVE  /\ \A i \in Chosen(seen) : i \in DOMAIN seen /\ Proposable(seen[i])
         /\ \A i, j \in Chosen(seen) : Same(seen[i], seen[j]) => i = j
         /\ \A i \in DOMAIN seen : Proposable(seen[i]) =>
              \E j \in Chosen(seen) : Same(seen[j], seen[i])
<1>1. \A i \in Chosen(seen) : i \in DOMAIN seen /\ Proposable(seen[i])
  BY DEF Chosen
<1>2. ASSUME NEW i \in Chosen(seen), NEW j \in Chosen(seen), Same(seen[i], seen[j]) PROVE i = j
  <2>1. i \in Nat /\ j \in Nat /\ i >= 1 /\ j >= 1
    BY <1>1 DEF IsList1
  <2>2. CASE i < j
    <3>1. i \in 1 .. j - 1
      BY <2>1, <2>2
    <3> QED  BY <1>1, <1>2, <3>1 DEF Chosen, Same
  <2>3. CASE j < i
    <3>1. j \in 1 .. i - 1
      BY <2>1, <2>3
    <3> QED  BY <1>1, <1>2, <3>1 DEF Chosen, Same
  <2> QED  BY <2>1, <2>2, <2>3
<1>3. ASSUME NEW i \in DOMAIN seen, Proposable(seen[i])
      PROVE  \E j \in Chosen(seen) : Same(seen[j], seen[i])
  <2> DEFINE alike == {j \in DOMAIN seen : Proposable(seen[j]) /\ Same(seen[j], seen[i])}
  <2>1. alike \subseteq Nat /\ i \in alike
    BY <1>3 DEF IsList1, Same
  <2> HIDE DEF alike
  <2>2. PICK j \in alike : \A l \in alike : j <= l
    BY <2>1, LeastNat
  <2>3. ASSUME NEW l \in 1 .. j - 1, Proposable(seen[l]), Same(seen[l], seen[j]) PROVE FALSE
    <3>1. j \in 1 .. Len(seen) /\ l \in DOMAIN seen /\ ~(j <= l)
      BY <2>2 DEF IsList1, alike
    <3>2. l \in alike
      BY <2>2, <2>3, <3>1 DEF alike, Same
    <3> QED  BY <2>2, <3>1, <3>2
  <2>4. j \in Chosen(seen)
    BY <2>2, <2>3 DEF Chosen, Same, alike
  <2> QED  BY <2>2, <2>4 DEF alike
<1> QED  BY <1>1, <1>2, <1>3

LEMMA WantedStands ==
  ASSUME NEW seen, IsList1(seen)
  PROVE  StandsFor(Wanted(seen), seen) /\ Len(Wanted(seen)) = Cardinality(Chosen(seen))
<1> DEFINE wanted == Wanted(seen)
           n == Len(wanted)
           chosen == Chosen(seen)
<1>1. PICK ix : Picks(seen, chosen, Len(seen), wanted, ix)
  BY KeepPicks DEF Wanted, IsList1
<1>2. n \in Nat /\ DOMAIN wanted = 1 .. n
  BY KeepPicks DEF Wanted, IsList1
<1>3. {j \in 1 .. Len(seen) : j \in chosen} = chosen
  BY ChosenIs DEF IsList1
<1> HIDE DEF wanted, chosen
<1>4. /\ ix \in [1 .. n -> chosen] /\ \A k \in 1 .. n : wanted[k] = seen[ix[k]]
      /\ \A j \in chosen : \E k \in 1 .. n : ix[k] = j
      /\ \A k, l \in 1 .. n : k < l => ix[k] < ix[l]
  BY <1>1, <1>3 DEF Picks
<1>5. \A k, l \in 1 .. n : ix[k] = ix[l] => k = l
  <2> SUFFICES ASSUME NEW k \in 1 .. n, NEW l \in 1 .. n, ix[k] = ix[l], k < l PROVE FALSE
    BY <1>2
  <2>1. ix[k] < ix[l] /\ ix[k] \in chosen
    BY <1>4
  <2>2. ix[k] \in Nat
    BY <2>1, ChosenIs DEF chosen, IsList1
  <2> QED  BY <2>1, <2>2
<1>6. n = Cardinality(chosen)
  <2>1. ix \in Bijection(1 .. n, chosen)
    BY <1>4, <1>5 DEF Bijection, Injection, Surjection, IsInjective
  <2> HIDE DEF n
  <2>2. IsFiniteSet(1 .. n) /\ Cardinality(1 .. n) = n
    <3>1. 1 \in Int /\ n \in Int /\ (1 > n => n = 0) /\ n - 1 + 1 = n
      BY <1>2
    <3> QED  BY <3>1, FS_Interval
  <2> QED  BY <2>1, <2>2, FS_Bijection DEF ExistsBijection
<1>7. /\ \A i \in chosen : i \in DOMAIN seen /\ Proposable(seen[i])
      /\ \A i, j \in chosen : Same(seen[i], seen[j]) => i = j
      /\ \A i \in DOMAIN seen : Proposable(seen[i]) => \E j \in chosen : Same(seen[j], seen[i])
  BY ChosenIs DEF chosen
<1>8. StandsFor(wanted, seen)
  <2>1. \A k \in 1 .. n : Proposable(wanted[k]) /\ \E i \in DOMAIN seen : wanted[k] = seen[i]
    BY <1>4, <1>7
  <2>2. \A k, l \in 1 .. n : Same(wanted[k], wanted[l]) => k = l
    BY <1>4, <1>5, <1>7
  <2>3. \A i \in DOMAIN seen : Proposable(seen[i]) => \E k \in 1 .. n : Same(wanted[k], seen[i])
    BY <1>4, <1>7
  <2> QED  BY <1>2, <2>1, <2>2, <2>3 DEF StandsFor, IsList1, n
<1> QED  BY <1>6, <1>8 DEF wanted, chosen

(* A pin is at its window's place, with the command captured there or, the *)
(* only one at the place, with the one the user typed for it.              *)
LEMMA PinIsAtPlace ==
  ASSUME NEW m, NEW stored, NEW id, NEW o
  PROVE  /\ PinPlace(Pin(m, stored, id, o)) = Place(o)
         /\ \/ Pin(m, stored, id, o).argv = o.c.argv
            \/ /\ stored.id # 0 /\ IsTyped(stored) /\ IsTyped(Pin(m, stored, id, o))
               /\ Pin(m, stored, id, o).argv = stored.argv
BY DEF Pin, PinPlace, Place, IsTyped

(* The pin a capture takes: the one pin of its place, when it is alone     *)
(* there; the first of its place and command; or none.                     *)
Elements(s) == {s[k] : k \in DOMAIN s}
OneEach(wanted) ==
  IsList1(wanted) /\ \A k, l \in DOMAIN wanted : Same(wanted[k], wanted[l]) => k = l
Alone(W, o) == \A v \in W : Place(v) = Place(o) => v = o
AtPlace(pins, o) == {p \in pins : PinPlace(p) = Place(o)}
Alike(pins, o) == {p \in AtPlace(pins, o) : p.argv = o.c.argv}
AlonePin(pins, W, o) == Alone(W, o) /\ \E p : AtPlace(pins, o) = {p}
Takes(pins, W, o, r) ==
  \/ AlonePin(pins, W, o) /\ AtPlace(pins, o) = {r}
  \/ ~AlonePin(pins, W, o) /\ Alike(pins, o) = {} /\ r = NoPin
  \/ ~AlonePin(pins, W, o) /\ r \in Alike(pins, o) /\ \A q \in Alike(pins, o) : q.id >= r.id

LEMMA LeastPin ==
  ASSUME NEW same, Numbered(same), same # {}
  PROVE  \E p \in same : \A q \in same : q.id >= p.id
<1> DEFINE ids == {p.id : p \in same}
<1>1. ids \subseteq Nat /\ ids # {}
  BY DEF Numbered
<1>2. PICK i \in ids : \A j \in ids : i <= j
  <2> HIDE DEF ids
  <2> QED  BY <1>1, LeastNat
<1>3. PICK p \in same : p.id = i
  BY <1>2
<1>4. ASSUME NEW q \in same PROVE q.id >= p.id
  <2>1. q.id \in ids /\ q.id \in Nat /\ p.id \in Nat
    BY <1>1
  <2> QED  BY <1>2, <1>3, <2>1
<1> QED  BY <1>4

LEMMA CorrelateTakes ==
  ASSUME NEW pins, IsFiniteSet(pins), Numbered(pins), NEW wanted, OneEach(wanted), NEW k \in DOMAIN wanted
  PROVE  Takes(pins, Elements(wanted), wanted[k], Correlate(pins, wanted, wanted[k]))
<1> DEFINE o == wanted[k]
           at == AtPlace(pins, o)
           sharing == {i \in DOMAIN wanted : Place(wanted[i]) = Place(o)}
           same == Alike(pins, o)
           W == Elements(wanted)
<1>1. Correlate(pins, wanted, o) =
        IF Cardinality(at) = 1 /\ Cardinality(sharing) = 1 THEN CHOOSE p \in at : TRUE
        ELSE IF same = {} THEN NoPin ELSE CHOOSE p \in same : \A q \in same : q.id >= p.id
  BY DEF Correlate, AtPlace, Alike
<1>2. Cardinality(at) = 1 <=> \E p : at = {p}
  <2>1. IsFiniteSet(at)
    BY FS_Subset DEF AtPlace
  <2> QED  BY <2>1, FS_Singleton
<1>3. Cardinality(sharing) = 1 <=> Alone(W, o)
  <2>1. IsFiniteSet(DOMAIN wanted)
    BY FS_Interval DEF OneEach, IsList1
  <2>2. IsFiniteSet(sharing) /\ k \in sharing
    BY <2>1, FS_Subset
  <2>3. Cardinality(sharing) = 1 <=> sharing = {k}
    <3> HIDE DEF sharing
    <3> QED  BY <2>2, FS_Singleton
  <2>4. sharing = {k} <=> Alone(W, o)
    BY <2>2 DEF Alone, Elements, OneEach, Same
  <2> QED  BY <2>3, <2>4
<1>4. same # {} => \E p \in same : \A q \in same : q.id >= p.id
  BY LeastPin DEF Alike, AtPlace, Numbered
<1>5. (Cardinality(at) = 1 /\ Cardinality(sharing) = 1) <=> AlonePin(pins, W, o)
  BY <1>2, <1>3 DEF AlonePin
<1> DEFINE r == Correlate(pins, wanted, o)
<1>6. CASE AlonePin(pins, W, o)
  <2>1. PICK p : at = {p}
    BY <1>6 DEF AlonePin
  <2>2. r = CHOOSE q \in at : TRUE
    BY <1>1, <1>5, <1>6
  <2> HIDE DEF at, r
  <2>3. r = p
    BY <2>1, <2>2
  <2> QED  BY <1>6, <2>1, <2>3 DEF Takes, at, r
<1>7. CASE ~AlonePin(pins, W, o) /\ same = {}
  <2>1. r = NoPin
    BY <1>1, <1>5, <1>7
  <2> QED  BY <1>7, <2>1 DEF Takes
<1>8. CASE ~AlonePin(pins, W, o) /\ same # {}
  <2>1. r = CHOOSE p \in same : \A q \in same : q.id >= p.id
    BY <1>1, <1>5, <1>8
  <2> HIDE DEF same, r
  <2>2. r \in same /\ \A q \in same : q.id >= r.id
    BY <1>4, <1>8, <2>1
  <2> QED  BY <1>8, <2>2 DEF Takes, same, r
<1> QED  BY <1>6, <1>7, <1>8

LEMMA CorrelateIsOwn ==
  ASSUME NEW pins, IsFiniteSet(pins), Numbered(pins), NEW wanted, OneEach(wanted), NEW k \in DOMAIN wanted
  PROVE  LET stored == Correlate(pins, wanted, wanted[k]) IN
         \/ stored = NoPin \/ (stored \in pins /\ stored.argv = wanted[k].c.argv)
         \/ \A l \in DOMAIN wanted : Place(wanted[l]) = Place(wanted[k]) => l = k
<1> DEFINE stored == Correlate(pins, wanted, wanted[k])
<1>1. Takes(pins, Elements(wanted), wanted[k], stored)
  BY CorrelateTakes
<1> HIDE DEF stored
<1>2. Alone(Elements(wanted), wanted[k]) =>
        \A l \in DOMAIN wanted : Place(wanted[l]) = Place(wanted[k]) => l = k
  BY DEF Alone, Elements, OneEach, Same
<1> QED  BY <1>1, <1>2 DEF Takes, AlonePin, Alike, AtPlace, stored

LEMMA BuildIsTheDesktop ==
  ASSUME NEW m, NEW pins, IsFiniteSet(pins), Numbered(pins), NEW seen, IsList1(seen),
         Cardinality(Chosen(seen)) <= MaxEntries
  PROVE  IsDesktop(seen, Build(m, pins, seen))
<1> DEFINE wanted == Wanted(seen)
           stored == [k \in DOMAIN wanted |-> Correlate(pins, wanted, wanted[k])]
           nth(k) == Cardinality({j \in 1 .. k : stored[j].id = 0})
           id(k) == IF stored[k].id = 0 THEN FreshId(pins, nth(k)) ELSE 0
           pin(k) == Pin(m, stored[k], id(k), wanted[k])
           new == Build(m, pins, seen)
           K == DOMAIN wanted
<1>1. StandsFor(wanted, seen) /\ Len(wanted) <= MaxEntries
  BY WantedStands
<1>2. new = {pin(k) : k \in K}
  <2>1. new = {pin(k) : k \in {j \in 1 .. MaxEntries : j \in DOMAIN wanted}}
    BY DEF Build, BuildFrom, PinsOf
  <2> HIDE DEF wanted, pin
  <2>2. {j \in 1 .. MaxEntries : j \in DOMAIN wanted} = K
    BY <1>1, ListAssumption DEF StandsFor, IsList1
  <2> QED  BY <2>1, <2>2
<1> HIDE DEF wanted
<1>3. ASSUME NEW k \in K
      PROVE  /\ PinPlace(pin(k)) = Place(wanted[k])
             /\ \/ pin(k).argv = wanted[k].c.argv
                \/ IsTyped(pin(k)) /\ \A l \in K : Place(wanted[l]) = Place(wanted[k]) => l = k
  <2>1. stored[k] = Correlate(pins, wanted, wanted[k])
    OBVIOUS
  <2>2. \/ stored[k] = NoPin \/ (stored[k] \in pins /\ stored[k].argv = wanted[k].c.argv)
        \/ \A l \in K : Place(wanted[l]) = Place(wanted[k]) => l = k
    BY <1>1, <2>1, CorrelateIsOwn DEF StandsFor, OneEach
  <2>3. NoPin.id = 0
    BY DEF NoPin
  <2> HIDE DEF stored, id
  <2> QED  BY <2>2, <2>3, PinIsAtPlace
<1>4. /\ \A k \in K : Proposable(wanted[k]) /\ \E i \in DOMAIN seen : wanted[k] = seen[i]
      /\ \A k, l \in K : Same(wanted[k], wanted[l]) => k = l
      /\ \A i \in DOMAIN seen : Proposable(seen[i]) => \E k \in K : Same(wanted[k], seen[i])
  BY <1>1 DEF StandsFor
<1> HIDE DEF pin, new, K
<1>5. ASSUME NEW k \in K, NEW o, Proposable(o), Same(wanted[k], o) PROVE Brings(new, pin(k), o)
  BY <1>2, <1>3, <1>5 DEF Brings, Same
<1>6. ASSUME NEW i \in DOMAIN seen, Proposable(seen[i])
      PROVE  Cardinality({p \in new : Brings(new, p, seen[i])}) = 1
  <2> DEFINE o == seen[i]
  <2>1. PICK k \in K : Same(wanted[k], o)
    BY <1>4, <1>6
  <2>2. Brings(new, pin(k), o) /\ pin(k) \in new /\ PinPlace(pin(k)) = Place(o)
    BY <1>2, <1>3, <1>5, <1>6, <2>1 DEF Same
  <2>3. ASSUME NEW p \in new, Brings(new, p, o) PROVE p = pin(k)
    <3>1. PICK l \in K : p = pin(l)
      BY <1>2
    <3>2. Place(wanted[l]) = Place(o)
      BY <1>3, <2>3, <3>1 DEF Brings
    <3>3. CASE p.argv # o.c.argv
      BY <2>2, <2>3, <3>3 DEF Brings
    <3>4. CASE p.argv = o.c.argv
      BY <1>3, <1>4, <2>1, <3>1, <3>2, <3>4 DEF Same
    <3> QED  BY <3>3, <3>4
  <2>4. {p \in new : Brings(new, p, o)} = {pin(k)}
    BY <2>2, <2>3
  <2> QED  BY <2>4, FS_Singleton
<1>7. ASSUME NEW p \in new PROVE \E i \in DOMAIN seen : Brings(new, p, seen[i])
  <2>1. PICK k \in K : p = pin(k)
    BY <1>2
  <2>2. PICK i \in DOMAIN seen : wanted[k] = seen[i] /\ Proposable(seen[i])
    BY <1>4
  <2> QED  BY <1>5, <2>1, <2>2 DEF Same
<1> QED  BY <1>6, <1>7 DEF IsDesktop, new

LEMMA SeenIsList ==
  ASSUME MachineInv
  PROVE  IsList1(Seen)
<1>1. open \in Seq(DOMAIN machine.windows)
  BY DEF MachineInv
<1>2. \A at : Len(Keep(open, at)) \in Nat /\ DOMAIN Keep(open, at) = 1 .. Len(Keep(open, at))
  BY <1>1, KeepPicks
<1> DEFINE kept == Keep(open, {k \in DOMAIN open : M.windows[open[k]].pid # 0})
<1>3. Len(kept) \in Nat /\ DOMAIN kept = 1 .. Len(kept)
  BY <1>2
<1>4. Seen = [k \in DOMAIN kept |-> [w |-> M.windows[kept[k]], c |-> CaptureOf(kept[k])]]
  BY DEF Seen
<1> HIDE DEF kept
<1> QED  BY <1>3, <1>4 DEF IsList1

(* A Save is the desktop: each open window that may be signed is brought   *)
(* back by exactly one pin of its place, its own command or the one the    *)
(* user typed for the only pin there, and no pin is of anything else       *)
(* (propose.rs, build, correlate and pin).                                 *)
THEOREM SaveBrings == Spec => []SaveIsTheDesktop
<1> DEFINE I == ListInv /\ FiniteInv /\ TypedInv /\ MachineInv
<1>1. Init => I
  BY ListInit, FS_EmptySet DEF Init, FiniteInv, TypedInv, Numbered, NoProposal, MachineInv
<1>2. I /\ [Next]_vars => I'
  BY ListStep, FiniteStep, TypedStep, MachineStep
<1>3. I => SaveIsTheDesktop
  <2> SUFFICES ASSUME I, Cardinality(Chosen(Seen)) <= MaxEntries
               PROVE  IsDesktop(Seen, Save(M, list, Seen, "replace"))
    BY DEF SaveIsTheDesktop
  <2>1. IsFiniteSet(list) /\ Numbered(list) /\ IsList1(Seen)
    BY SeenIsList DEF FiniteInv, TypedInv
  <2>2. IsDesktop(Seen, Build(M, list, Seen))
    BY <2>1, BuildIsTheDesktop
  <2>3. Save(M, list, Seen, "replace") = Build(M, list, Seen)
    BY DEF Save, Over
  <2> QED  BY <2>2, <2>3
<1> HIDE DEF I
<1> QED  BY <1>1, <1>2, <1>3, PTL DEF Spec

-----------------------------------------------------------------------------
(* What a capture makes: for each window proposed a pin of its own.        *)

Made(m, pins, W, o, b) ==
  \E stored, id :
    /\ Takes(pins, W, o, stored) /\ b = Pin(m, stored, id, o)
    /\ stored.id = 0 => id \in Nat \ {0} /\ id \notin Ids(pins)
Makes(m, pins, W, new, pinOf) ==
  /\ new = {pinOf[o] : o \in W}
  /\ \A o \in W : Made(m, pins, W, o, pinOf[o])
  /\ \A o, v \in W : pinOf[o].id = pinOf[v].id => o = v

LEMMA BuildMakes ==
  ASSUME NEW m, NEW pins, IsFiniteSet(pins), OnePerId(pins), Numbered(pins),
         NEW wanted, OneEach(wanted), Len(wanted) <= MaxEntries
  PROVE  \E pinOf : Makes(m, pins, Elements(wanted), BuildFrom(m, pins, wanted), pinOf)
<1> DEFINE stored == [k \in DOMAIN wanted |-> Correlate(pins, wanted, wanted[k])]
           none(k) == {j \in 1 .. k : stored[j].id = 0}
           nth(k) == Cardinality(none(k))
           id(k) == IF stored[k].id = 0 THEN FreshId(pins, nth(k)) ELSE 0
           pin(k) == Pin(m, stored[k], id(k), wanted[k])
           new == BuildFrom(m, pins, wanted)
           K == DOMAIN wanted
           W == Elements(wanted)
<1>1. new = {pin(k) : k \in K}
  <2>1. new = {pin(k) : k \in {j \in 1 .. MaxEntries : j \in DOMAIN wanted}}
    BY DEF BuildFrom, PinsOf
  <2> HIDE DEF pin
  <2>2. {j \in 1 .. MaxEntries : j \in DOMAIN wanted} = K
    BY ListAssumption DEF OneEach, IsList1
  <2> QED  BY <2>1, <2>2
<1>2. ASSUME NEW k \in K
      PROVE  /\ Takes(pins, W, wanted[k], stored[k])
             /\ k \in Nat /\ k # 0 /\ IsFiniteSet(none(k))
             /\ stored[k].id # 0 => stored[k] \in pins /\ PinPlace(stored[k]) = Place(wanted[k])
             /\ stored[k].id # 0 => \/ Alone(W, wanted[k])
                                    \/ stored[k].argv = wanted[k].c.argv
  <2>1. stored[k] = Correlate(pins, wanted, wanted[k])
    OBVIOUS
  <2>2. Takes(pins, W, wanted[k], stored[k])
    BY <2>1, CorrelateTakes
  <2>3. k \in Nat /\ k # 0
    BY DEF OneEach, IsList1
  <2>4. IsFiniteSet(1 .. k)
    BY <2>3, FS_Interval
  <2>5. IsFiniteSet(none(k))
    BY <2>4, FS_Subset
  <2> HIDE DEF stored
  <2>6. stored[k].id # 0 => /\ stored[k] \in pins /\ PinPlace(stored[k]) = Place(wanted[k])
                            /\ Alone(W, wanted[k]) \/ stored[k].argv = wanted[k].c.argv
    BY <2>2 DEF Takes, AlonePin, AtPlace, Alike, NoPin
  <2> QED  BY <2>2, <2>3, <2>5, <2>6
<1> HIDE DEF stored
<1>3. ASSUME NEW k \in K, stored[k].id = 0
      PROVE  /\ id(k) \in Nat \ {0} /\ id(k) \notin Ids(pins)
             /\ Cardinality((1 .. id(k)) \ Ids(pins)) = nth(k)
  <2>a. k \in 1 .. k
    BY <1>2
  <2>1. k \in none(k) /\ IsFiniteSet(none(k))
    BY <1>2, <1>3, <2>a
  <2>2. id(k) = FreshId(pins, nth(k))
    BY <1>3
  <2> HIDE DEF none, id
  <2>3. nth(k) \in Nat /\ nth(k) # 0
    BY <2>1, FS_EmptySet, FS_CardinalityType
  <2> QED  BY <2>2, <2>3, FreshIdIsFresh
<1>4. \A k \in K : pin(k).id = IF stored[k].id # 0 THEN stored[k].id ELSE id(k)
  BY DEF Pin
<1>5. ASSUME NEW k \in K, NEW l \in K, stored[k].id = 0, stored[l].id = 0, id(k) = id(l) PROVE ~(k < l)
  <2> SUFFICES ASSUME k < l PROVE FALSE
    OBVIOUS
  <2>1. nth(k) = nth(l)
    BY <1>3, <1>5
  <2>a. k \in Nat /\ l \in Nat /\ l # 0
    BY <1>2
  <2>b. 1 .. k \subseteq 1 .. l /\ l \in 1 .. l /\ l \notin 1 .. k
    BY <2>a
  <2>2. none(k) \subseteq none(l) /\ l \in none(l) /\ l \notin none(k) /\ IsFiniteSet(none(l))
    BY <1>2, <1>5, <2>b
  <2> HIDE DEF none
  <2> QED  BY <2>1, <2>2, FS_Subset
<1>6. ASSUME NEW k \in K, NEW l \in K, pin(k).id = pin(l).id PROVE k = l
  <2>1. CASE stored[k].id # 0 /\ stored[l].id # 0
    <3>a. stored[k].id = stored[l].id
      BY <1>4, <1>6, <2>1
    <3>1. stored[k] = stored[l]
      BY <1>2, <2>1, <3>a DEF OnePerId
    <3>2. Place(wanted[k]) = Place(wanted[l])
      BY <1>2, <2>1, <3>1
    <3>3. wanted[k] \in W /\ wanted[l] \in W
      BY DEF Elements
    <3>4. Same(wanted[k], wanted[l])
      BY <1>2, <2>1, <3>1, <3>2, <3>3 DEF Alone, Same
    <3> QED  BY <3>4 DEF OneEach
  <2>2. CASE stored[k].id = 0 /\ stored[l].id = 0
    <3>1. ~(k < l) /\ ~(l < k)
      BY <1>4, <1>5, <1>6, <2>2
    <3> QED  BY <1>2, <3>1
  <2>3. \A i \in K : stored[i].id # 0 => pin(i).id \in Ids(pins)
    BY <1>2, <1>4 DEF Ids
  <2>4. \A i \in K : stored[i].id = 0 => pin(i).id \notin Ids(pins)
    BY <1>3, <1>4
  <2> QED  BY <1>6, <2>1, <2>2, <2>3, <2>4
<1>7. \A k \in K : Made(m, pins, W, wanted[k], pin(k))
  <2> SUFFICES ASSUME NEW k \in K PROVE Made(m, pins, W, wanted[k], pin(k))
    OBVIOUS
  <2>1. Takes(pins, W, wanted[k], stored[k])
        /\ (stored[k].id = 0 => id(k) \in Nat \ {0} /\ id(k) \notin Ids(pins))
    BY <1>2, <1>3
  <2> HIDE DEF id
  <2> QED  BY <2>1 DEF Made
<1>8. \A k, l \in K : wanted[k] = wanted[l] => k = l
  BY DEF OneEach, Same
<1> HIDE DEF pin, new, K
<1> DEFINE at(o) == CHOOSE k \in K : wanted[k] = o
           pinOf == [o \in W |-> pin(at(o))]
<1>9. \A k \in K : wanted[k] \in W /\ at(wanted[k]) = k
  BY <1>8 DEF Elements, K
<1>10. \A o \in W : at(o) \in K /\ wanted[at(o)] = o
  BY DEF Elements, K
<1> HIDE DEF at, W
<1>11. \A o \in W : pinOf[o] = pin(at(o))
  OBVIOUS
<1>12. new = {pinOf[o] : o \in W}
  <2>1. \A k \in K : wanted[k] \in W /\ pinOf[wanted[k]] = pin(k)
    BY <1>9, <1>11
  <2> HIDE DEF pinOf
  <2> QED  BY <1>1, <1>10, <1>11, <2>1
<1>13. \A o \in W : Made(m, pins, W, o, pinOf[o])
  BY <1>7, <1>10, <1>11
<1>14. \A o, v \in W : pinOf[o].id = pinOf[v].id => o = v
  <2> HIDE DEF pinOf
  <2> QED  BY <1>6, <1>10, <1>11
<1> HIDE DEF pinOf
<1>15. Makes(m, pins, W, new, pinOf)
  BY <1>12, <1>13, <1>14 DEF Makes
<1> QED  BY <1>15 DEF new, W

-----------------------------------------------------------------------------
(* Capturing again: the same windows, in any order, are wanted again, each *)
(* takes the pin it was given, and makes of it what it is.                 *)

Proposed(seen) == {seen[i] : i \in {j \in DOMAIN seen : Proposable(seen[j])}}
AllApart(seen) == \A o, v \in Proposed(seen) : Same(o, v) => o = v

LEMMA WantedAll ==
  ASSUME NEW seen, IsList1(seen), AllApart(seen)
  PROVE  /\ OneEach(Wanted(seen)) /\ Elements(Wanted(seen)) = Proposed(seen)
<1> DEFINE wanted == Wanted(seen)
<1>1. StandsFor(wanted, seen)
  BY WantedStands
<1> HIDE DEF wanted
<1>2. OneEach(wanted)
  BY <1>1 DEF StandsFor, OneEach
<1>3. Elements(wanted) \subseteq Proposed(seen)
  BY <1>1 DEF StandsFor, Elements, Proposed
<1>4. Proposed(seen) \subseteq Elements(wanted)
  <2> SUFFICES ASSUME NEW i \in DOMAIN seen, Proposable(seen[i]) PROVE seen[i] \in Elements(wanted)
    BY DEF Proposed
  <2>1. PICK k \in DOMAIN wanted : Same(wanted[k], seen[i])
    BY <1>1 DEF StandsFor
  <2>2. wanted[k] \in Proposed(seen) /\ seen[i] \in Proposed(seen)
    BY <1>1 DEF StandsFor, Proposed
  <2>3. wanted[k] = seen[i]
    BY <2>1, <2>2 DEF AllApart
  <2> QED  BY <2>3 DEF Elements
<1> QED  BY <1>2, <1>3, <1>4 DEF wanted

LEMMA OneEachLength ==
  ASSUME NEW wanted, OneEach(wanted)
  PROVE  Len(wanted) = Cardinality(Elements(wanted))
<1> DEFINE n == Len(wanted)
           W == Elements(wanted)
           at == [k \in 1 .. n |-> wanted[k]]
<1>1. n \in Nat /\ DOMAIN wanted = 1 .. n
  BY DEF OneEach, IsList1
<1>2. \A k, l \in 1 .. n : wanted[k] = wanted[l] => k = l
  BY <1>1 DEF OneEach, Same
<1>3. at \in Bijection(1 .. n, W)
  BY <1>1, <1>2 DEF Elements, Bijection, Injection, Surjection, IsInjective
<1> HIDE DEF n, W
<1>4. IsFiniteSet(1 .. n) /\ Cardinality(1 .. n) = n
  <2>1. 1 \in Int /\ n \in Int /\ (1 > n => n = 0) /\ n - 1 + 1 = n
    BY <1>1
  <2> QED  BY <2>1, FS_Interval
<1>5. n = Cardinality(W)
  BY <1>3, <1>4, FS_Bijection DEF ExistsBijection
<1> QED  BY <1>5 DEF n, W

LEMMA PinAgain ==
  ASSUME NEW m, NEW stored, NEW id, NEW o, NEW id2, Pin(m, stored, id, o).id # 0
  PROVE  Pin(m, Pin(m, stored, id, o), id2, o) = Pin(m, stored, id, o)
BY DEF Pin

(* What is left of a list beside what a capture made of it.                *)
Beyond(left, pins, new) == left \subseteq pins /\ \A p \in left : p.id \notin Ids(new)

LEMMA TakesItsOwn ==
  ASSUME NEW m, NEW pins, OnePerId(pins), Numbered(pins), NEW W, \A o, v \in W : Same(o, v) => o = v,
         NEW new, NEW pinOf, Makes(m, pins, W, new, pinOf), NEW left, Beyond(left, pins, new),
         NEW o \in W, NEW r, Takes(left \cup new, W, o, r)
  PROVE  r = pinOf[o]
<1> DEFINE b(v) == pinOf[v]
           once == left \cup new
<1>1. ASSUME NEW v \in W
      PROVE  \E stored, id :
               /\ Takes(pins, W, v, stored) /\ b(v) = Pin(m, stored, id, v)
               /\ stored.id = 0 => id \in Nat \ {0} /\ id \notin Ids(pins)
  BY DEF Makes, Made
<1>2. /\ new = {b(v) : v \in W} /\ \A u, v \in W : b(u).id = b(v).id => u = v
  BY DEF Makes
<1> HIDE DEF b
(* A pin with another command than its window's is alone at its place.     *)
<1>3. ASSUME NEW v \in W, b(v).argv # v.c.argv
      PROVE  AlonePin(pins, W, v) /\ \A p \in AtPlace(pins, v) : p.id = b(v).id
  <2>1. PICK stored, id : Takes(pins, W, v, stored) /\ b(v) = Pin(m, stored, id, v)
    BY <1>1
  <2>2. stored.id # 0 /\ stored.argv # v.c.argv
    BY <1>3, <2>1, PinIsAtPlace
  <2>3. b(v).id = stored.id
    BY <2>1, <2>2 DEF Pin
  <2>4. NoPin.id = 0
    BY DEF NoPin
  <2>5. AlonePin(pins, W, v) /\ AtPlace(pins, v) = {stored}
    BY <2>1, <2>2, <2>4 DEF Takes, Alike
  <2> QED  BY <2>3, <2>5
<1>4. \A v \in W : PinPlace(b(v)) = Place(v)
  BY <1>1, PinIsAtPlace
<1>5. b(o) \in AtPlace(once, o) /\ b(o) \in new
  BY <1>2, <1>4 DEF AtPlace
<1>6. CASE AlonePin(once, W, o)
  BY <1>5, <1>6 DEF Takes, AlonePin, b
<1>7. CASE ~AlonePin(once, W, o)
  <2>1. b(o).argv = o.c.argv
    <3> SUFFICES ASSUME b(o).argv # o.c.argv PROVE FALSE
      OBVIOUS
    <3>1. AlonePin(pins, W, o) /\ \A p \in AtPlace(pins, o) : p.id = b(o).id
      BY <1>3
    <3>2. \A p \in AtPlace(once, o) : p = b(o)
      <4> SUFFICES ASSUME NEW p \in AtPlace(once, o) PROVE p = b(o)
        OBVIOUS
      <4>1. CASE p \in left
        <5>1. p \in AtPlace(pins, o) /\ p.id \notin Ids(new)
          BY <4>1 DEF Beyond, AtPlace
        <5> QED  BY <1>5, <3>1, <5>1 DEF Ids
      <4>2. CASE p \in new
        <5>1. PICK v \in W : p = b(v)
          BY <1>2, <4>2
        <5>2. Place(v) = Place(o)
          BY <1>4, <5>1 DEF AtPlace
        <5> QED  BY <3>1, <5>1, <5>2 DEF AlonePin, Alone
      <4> QED  BY <4>1, <4>2 DEF AtPlace
    <3>3. AtPlace(once, o) = {b(o)}
      BY <1>5, <3>2
    <3> QED  BY <1>7, <3>1, <3>3 DEF AlonePin
  <2>2. b(o) \in Alike(once, o)
    BY <1>5, <2>1 DEF Alike
  <2>3. r \in Alike(once, o) /\ \A q \in Alike(once, o) : q.id >= r.id
    BY <1>7, <2>2 DEF Takes
  <2>4. CASE r \in new
    <3>1. PICK v \in W : r = b(v)
      BY <1>2, <2>4
    <3>2. Place(v) = Place(o) /\ r.argv = o.c.argv
      BY <1>4, <2>3, <3>1 DEF Alike, AtPlace
    <3>3. v = o
      <4>1. CASE r.argv = v.c.argv
        BY <3>2, <4>1 DEF Same
      <4>2. CASE r.argv # v.c.argv
        BY <1>3, <3>1, <3>2, <4>2 DEF AlonePin, Alone
      <4> QED  BY <4>1, <4>2
    <3> QED  BY <3>1, <3>3 DEF b
  <2>5. CASE r \in left
    <3>1. r \in Alike(pins, o) /\ r \in pins /\ r.id \notin Ids(new)
      BY <2>3, <2>5 DEF Beyond, Alike, AtPlace
    <3>2. r.id # b(o).id
      BY <1>5, <3>1 DEF Ids
    <3>3. PICK stored, id :
            /\ Takes(pins, W, o, stored) /\ b(o) = Pin(m, stored, id, o)
            /\ stored.id = 0 => id \in Nat \ {0} /\ id \notin Ids(pins)
      BY <1>1
    <3>4. stored \in pins /\ (stored = r \/ r.id >= stored.id)
      BY <3>1, <3>3 DEF Takes, Alike, AtPlace
    <3>5. stored.id # 0
      BY <3>4 DEF Numbered
    <3>6. b(o).id = stored.id
      BY <3>3, <3>5 DEF Pin
    <3>7. b(o).id >= r.id
      BY <2>2, <2>3
    <3>8. r.id \in Nat /\ stored.id \in Nat
      BY <3>1, <3>4 DEF Numbered
    <3> QED  BY <3>2, <3>4, <3>6, <3>7, <3>8
  <2> QED  BY <2>3, <2>4, <2>5 DEF Alike, AtPlace
<1> QED  BY <1>6, <1>7

LEMMA MakesNumbered ==
  ASSUME NEW m, NEW pins, OnePerId(pins), Numbered(pins), NEW W, NEW new, NEW pinOf,
         Makes(m, pins, W, new, pinOf), NEW left, Beyond(left, pins, new)
  PROVE  Numbered(left \cup new) /\ OnePerId(left \cup new)
<1>1. /\ new = {pinOf[o] : o \in W} /\ \A o \in W : Made(m, pins, W, o, pinOf[o])
      /\ \A o, v \in W : pinOf[o].id = pinOf[v].id => o = v
  BY DEF Makes
<1>2. ASSUME NEW o \in W PROVE pinOf[o].id \in Nat \ {0}
  <2>1. PICK stored, id :
          /\ Takes(pins, W, o, stored) /\ pinOf[o] = Pin(m, stored, id, o)
          /\ stored.id = 0 => id \in Nat \ {0}
    BY <1>1 DEF Made
  <2>2. pinOf[o].id = IF stored.id # 0 THEN stored.id ELSE id
    BY <2>1 DEF Pin
  <2>3. stored.id # 0 => stored \in pins
    BY <2>1 DEF Takes, Alike, AtPlace, NoPin
  <2> QED  BY <2>1, <2>2, <2>3 DEF Numbered
<1>3. Numbered(new) /\ OnePerId(new)
  BY <1>1, <1>2 DEF Numbered, OnePerId
<1>4. Numbered(left) /\ OnePerId(left)
  BY DEF Numbered, OnePerId, Beyond
<1>5. \A p \in left, q \in new : p.id # q.id
  BY DEF Beyond, Ids
<1> QED  BY <1>3, <1>4, <1>5 DEF Numbered, OnePerId

LEMMA BuildAgain ==
  ASSUME NEW m, NEW pins, IsFiniteSet(pins), OnePerId(pins), Numbered(pins),
         NEW wanted, OneEach(wanted), Len(wanted) <= MaxEntries,
         NEW again, OneEach(again), Elements(again) = Elements(wanted),
         NEW left, Beyond(left, pins, BuildFrom(m, pins, wanted)),
         IsFiniteSet(left \cup BuildFrom(m, pins, wanted))
  PROVE  BuildFrom(m, left \cup BuildFrom(m, pins, wanted), again) = BuildFrom(m, pins, wanted)
<1> DEFINE W == Elements(wanted)
           new == BuildFrom(m, pins, wanted)
           once == left \cup new
           new2 == BuildFrom(m, once, again)
<1>1. PICK pinOf : Makes(m, pins, W, new, pinOf)
  BY BuildMakes
<1>2. Len(again) <= MaxEntries
  <2>1. Len(again) = Cardinality(Elements(again)) /\ Len(wanted) = Cardinality(Elements(wanted))
    BY OneEachLength
  <2> QED  BY <2>1
<1>3. \A o, v \in W : Same(o, v) => o = v
  BY DEF Elements, OneEach
<1>4. IsFiniteSet(once) /\ Elements(again) = W /\ Beyond(left, pins, new)
  OBVIOUS
<1> HIDE DEF W, new
<1>5. Numbered(once) /\ OnePerId(once)
  BY <1>1, <1>4, MakesNumbered
<1> HIDE DEF once
<1>6. PICK pinOf2 : Makes(m, once, W, new2, pinOf2)
  BY <1>2, <1>4, <1>5, BuildMakes
<1> HIDE DEF new2
<1>7. ASSUME NEW o \in W PROVE pinOf2[o] = pinOf[o]
  <2>1. PICK stored, id : Takes(pins, W, o, stored) /\ pinOf[o] = Pin(m, stored, id, o)
    BY <1>1 DEF Makes, Made
  <2>2. PICK r, id2 : Takes(once, W, o, r) /\ pinOf2[o] = Pin(m, r, id2, o)
    BY <1>6 DEF Makes, Made
  <2>3. r = pinOf[o]
    BY <1>1, <1>3, <1>4, <2>2, TakesItsOwn DEF once
  <2>4. pinOf[o] \in once
    BY <1>1 DEF Makes, once
  <2>5. pinOf[o].id # 0
    BY <1>5, <2>4 DEF Numbered
  <2> QED  BY <2>1, <2>2, <2>3, <2>5, PinAgain
<1>8. new2 = new
  BY <1>1, <1>6, <1>7 DEF Makes
<1> QED  BY <1>8 DEF new2, new, once

LEMMA ReversedProposes ==
  ASSUME NEW seen, IsList1(seen)
  PROVE  IsList1(Reverse(seen)) /\ Proposed(Reverse(seen)) = Proposed(seen)
<1> DEFINE n == Len(seen)
           back == Reverse(seen)
<1>1. n \in Nat /\ DOMAIN seen = 1 .. n
  BY DEF IsList1
<1>2. back = [i \in 1 .. n |-> seen[(n - i) + 1]]
  BY DEF Reverse
<1> HIDE DEF n, back
<1>3. \A i \in 1 .. n : (n - i) + 1 \in 1 .. n /\ (n - ((n - i) + 1)) + 1 = i
  BY <1>1
<1>4. Len(back) = n /\ DOMAIN back = 1 .. n
  BY <1>1, <1>2
<1>5. \A i \in 1 .. n : back[i] = seen[(n - i) + 1] /\ back[(n - i) + 1] = seen[i]
  <2> SUFFICES ASSUME NEW i \in 1 .. n PROVE back[i] = seen[(n - i) + 1] /\ back[(n - i) + 1] = seen[i]
    OBVIOUS
  <2> DEFINE j == (n - i) + 1
  <2>1. j \in 1 .. n /\ (n - j) + 1 = i
    BY <1>3
  <2>2. back[i] = seen[j]
    BY <1>2
  <2> HIDE DEF j
  <2>3. back[j] = seen[(n - j) + 1]
    BY <1>2, <2>1
  <2> QED  BY <2>1, <2>2, <2>3 DEF j
<1>6. \A i \in 1 .. n : \E j \in 1 .. n : back[i] = seen[j]
  BY <1>3, <1>5
<1>7. \A i \in 1 .. n : \E j \in 1 .. n : seen[i] = back[j]
  BY <1>3, <1>5
<1>8. Proposed(back) \subseteq Proposed(seen)
  BY <1>1, <1>4, <1>6 DEF Proposed
<1>9. Proposed(seen) \subseteq Proposed(back)
  BY <1>1, <1>4, <1>7 DEF Proposed
<1> QED  BY <1>1, <1>4, <1>8, <1>9 DEF IsList1, n, back

LEMMA DistinctIsApart ==
  ASSUME NEW seen, IsList1(seen), Distinct(seen, Chosen(seen))
  PROVE  AllApart(seen)
BY ChosenIs DEF Distinct, AllApart, Proposed

(* Capturing an unchanged desktop again, in any order of the windows and   *)
(* in either mode, changes nothing (propose.rs, build, correlate, pin).    *)
THEOREM RecaptureStays == Spec => []RecaptureSettles
<1> DEFINE I == ListInv /\ FiniteInv /\ TypedInv /\ MachineInv
<1>1. Init => I
  BY ListInit, FS_EmptySet DEF Init, FiniteInv, TypedInv, Numbered, NoProposal, MachineInv
<1>2. I /\ [Next]_vars => I'
  BY ListStep, FiniteStep, TypedStep, MachineStep
<1>3. I => RecaptureSettles
  <2> SUFFICES ASSUME I, Distinct(Seen, Chosen(Seen))
               PROVE  /\ Settles(Seen, Save(M, list, Seen, "replace"), {"replace", "merge"})
                      /\ Settles(Seen, Save(M, list, Seen, "merge"), {"merge"})
    BY DEF RecaptureSettles
  <2> DEFINE seen == Seen
             m == M
             new == Build(m, list, seen)
             left == {p \in list : p.id \notin Ids(new)}
  <2>1. IsFiniteSet(list) /\ Numbered(list) /\ OnePerId(list) /\ IsList1(seen)
    BY SeenIsList DEF FiniteInv, TypedInv, ListInv, IsList
  <2>2. Distinct(seen, Chosen(seen))
    OBVIOUS
  <2> HIDE DEF seen, m
  <2>3. OneEach(Wanted(seen)) /\ Elements(Wanted(seen)) = Proposed(seen) /\ AllApart(seen)
    BY <2>1, <2>2, WantedAll, DistinctIsApart
  <2>4. Len(Wanted(seen)) <= MaxEntries
    BY <2>1, <2>2, WantedStands DEF Distinct
  <2>5. ASSUME NEW order \in {seen, Reverse(seen)}
        PROVE  OneEach(Wanted(order)) /\ Elements(Wanted(order)) = Proposed(seen)
    <3>1. IsList1(order) /\ Proposed(order) = Proposed(seen)
      BY <2>1, ReversedProposes
    <3>2. AllApart(order)
      BY <2>3, <3>1 DEF AllApart
    <3> QED  BY <3>1, <3>2, WantedAll
  <2>6. new = BuildFrom(m, list, Wanted(seen)) /\ IsFiniteSet(new)
    BY BuildIsFinite DEF Build
  <2>7. IsFiniteSet(left) /\ Beyond(left, list, new) /\ Beyond({}, list, new)
    BY <2>1, FS_Subset DEF Beyond
  <2> HIDE DEF new, left
  <2>8. ASSUME NEW rest \in {{}, left}, NEW order \in {seen, Reverse(seen)}
        PROVE  Build(m, rest \cup new, order) = new
    <3>1. Beyond(rest, list, new) /\ IsFiniteSet(rest \cup new)
      BY <2>6, <2>7, FS_EmptySet, FS_Union
    <3> QED  BY <2>1, <2>3, <2>4, <2>5, <2>6, <3>1, BuildAgain DEF Build
  <2>9. ASSUME NEW rest \in {{}, left}, NEW order \in {seen, Reverse(seen)}
        PROVE  Save(m, rest \cup new, order, "merge") = rest \cup new
    <3>1. Save(m, rest \cup new, order, "merge") = Over(rest \cup new, new)
      BY <2>8 DEF Save
    <3>2. \A p \in rest : p.id \notin Ids(new)
      BY <2>7 DEF Beyond
    <3>3. \A p \in new : p.id \in Ids(new)
      BY DEF Ids
    <3>4. Over(rest \cup new, new) = rest \cup new
      BY <3>2, <3>3 DEF Over
    <3> QED  BY <3>1, <3>4
  <2>10. ASSUME NEW order \in {seen, Reverse(seen)}
         PROVE  Save(m, new, order, "replace") = new /\ Save(m, new, order, "merge") = new
    <3>1. {} \cup new = new
      OBVIOUS
    <3>2. Build(m, new, order) = new /\ Save(m, new, order, "merge") = new
      BY <2>8, <2>9, <3>1
    <3> QED  BY <3>2 DEF Save, Over
  <2>11. Save(m, list, seen, "replace") = new /\ Save(m, list, seen, "merge") = left \cup new
    BY DEF Save, Over, new, left
  <2>12. Settles(seen, new, {"replace", "merge"})
    <3>1. \A order \in {seen, Reverse(seen)} :
            Save(m, new, order, "replace") = new /\ Save(m, new, order, "merge") = new
      BY <2>10
    <3> QED  BY <3>1 DEF Settles, m
  <2>13. Settles(seen, left \cup new, {"merge"})
    <3>1. \A order \in {seen, Reverse(seen)} :
            Save(m, left \cup new, order, "merge") = left \cup new
      BY <2>9
    <3> QED  BY <3>1 DEF Settles, m
  <2> QED  BY <2>11, <2>12, <2>13 DEF seen, m
<1> HIDE DEF I
<1> QED  BY <1>1, <1>2, <1>3, PTL DEF Spec

-----------------------------------------------------------------------------
(* The panel's rows of running apps.                                       *)

Live(windows) == {w \in ToSet(windows) : w.class # "" /\ w.ws >= 1}
Covered(pins) == {FullLower(p.wclass) : p \in pins}

LEMMA RowsAre ==
  ASSUME NEW pins, NEW windows
  PROVE  RunningRows(pins, windows) = {r \in ByClass(Live(windows)) : AsciiLower(r.class) \notin Covered(pins)}
BY DEF RunningRows, Live, Covered

(* What is one when ASCII's case is ignored is one when all case is.       *)
LEMMA SameAsciiSameFull ==
  ASSUME NEW a, NEW b, AsciiLower(a) = AsciiLower(b)
  PROVE  FullLower(a) = FullLower(b)
BY DEF FullLower

(* Of a class of one spelling, that a pin has it and that a pin covers it  *)
(* are the same.                                                           *)
LEMMA PinnedIsCovered ==
  ASSUME NEW class, OneSpelling(class)
  PROVE  (\E p \in list : AsciiLower(p.wclass) = AsciiLower(class)) <=> AsciiLower(class) \in Covered(list)
<1>1. AsciiLower(class) = FullLower(class)
  BY DEF OneSpelling, OneCase
<1>2. ASSUME NEW p \in list, AsciiLower(p.wclass) = AsciiLower(class)
      PROVE  AsciiLower(class) \in Covered(list)
  <2>1. FullLower(p.wclass) = FullLower(class)
    BY <1>2, SameAsciiSameFull
  <2> QED  BY <1>1, <2>1 DEF Covered
<1>3. ASSUME AsciiLower(class) \in Covered(list)
      PROVE  \E p \in list : AsciiLower(p.wclass) = AsciiLower(class)
  <2>1. PICK p \in list : FullLower(p.wclass) = FullLower(class)
    BY <1>1, <1>3 DEF Covered
  <2>2. AsciiLower(p.wclass) = FullLower(p.wclass)
    BY <2>1 DEF OneSpelling, OneCase
  <2> QED  BY <1>1, <2>1, <2>2
<1> QED  BY <1>2, <1>3

LEMMA OneRowOrPin ==
  ASSUME NEW windows, NEW i \in DOMAIN windows,
         windows[i].ws >= 1, windows[i].class # "", OneSpelling(windows[i].class)
  PROVE  Cardinality({r \in RunningRows(list, windows) : r.class = windows[i].class})
           = IF \E p \in list : AsciiLower(p.wclass) = AsciiLower(windows[i].class) THEN 0 ELSE 1
<1> DEFINE class == windows[i].class
           live == Live(windows)
           row == [class |-> class, ws |-> Min({v.ws : v \in {x \in live : x.class = class}})]
           mine == {r \in RunningRows(list, windows) : r.class = class}
           pinned == \E p \in list : AsciiLower(p.wclass) = AsciiLower(class)
<1>1. windows[i] \in live
  BY DEF Live, ToSet
<1>2. row \in ByClass(live) /\ row.class = class
  BY <1>1 DEF ByClass
<1>3. ASSUME NEW r \in ByClass(live), r.class = class PROVE r = row
  <2>1. PICK w \in live :
          r = [class |-> w.class, ws |-> Min({v.ws : v \in {x \in live : x.class = w.class}})]
    BY DEF ByClass
  <2>2. w.class = class
    BY <1>3, <2>1
  <2> HIDE DEF class, live
  <2> QED  BY <2>1, <2>2
<1>4. pinned <=> AsciiLower(class) \in Covered(list)
  <2>1. OneSpelling(class)
    OBVIOUS
  <2> HIDE DEF class
  <2> QED  BY <2>1, PinnedIsCovered
<1> HIDE DEF row, live
<1>5. CASE pinned
  <2>1. mine = {}
    BY <1>4, <1>5, RowsAre
  <2>2. Cardinality(mine) = 0
    <3> HIDE DEF mine
    <3> QED  BY <2>1, FS_EmptySet
  <2> QED  BY <1>5, <2>2
<1>6. CASE ~pinned
  <2>1. mine = {row}
    BY <1>2, <1>3, <1>4, <1>6, RowsAre DEF live
  <2>2. Cardinality(mine) = 1
    <3> HIDE DEF mine
    <3> QED  BY <2>1, FS_Singleton
  <2> QED  BY <1>6, <2>2
<1> QED  BY <1>5, <1>6

IsWindow(w) ==
  w = [class |-> w.class, ws |-> w.ws, float |-> w.float, xwayland |-> w.xwayland, pid |-> w.pid]
SeesWindows(seen) == \A i \in DOMAIN seen : seen[i] = [w |-> seen[i].w, c |-> seen[i].c] /\ IsWindow(seen[i].w)

LEMMA SeenAreWindows == ASSUME MachineInv PROVE SeesWindows(Seen)
<1>1. PICK k \in DOMAIN Machines : machine = Readings[k]
  BY DEF MachineInv
<1>2. M.windows = Machines[k].windows
  BY <1>1, ReadingIs DEF M
<1>3. open \in Seq(DOMAIN M.windows)
  BY DEF MachineInv, M
<1> DEFINE at == {j \in DOMAIN open : M.windows[open[j]].pid # 0}
           kept == Keep(open, at)
<1>4. PICK ix : Picks(open, at, Len(open), kept, ix)
  <2>1. Len(open) \in Nat
    BY <1>3
  <2> HIDE DEF at
  <2> QED  BY <2>1, KeepPicks
<1>5. \A j \in DOMAIN kept : kept[j] \in DOMAIN M.windows
  <2>1. DOMAIN kept = 1 .. Len(kept) /\ DOMAIN open = 1 .. Len(open)
    BY <1>3, KeepPicks
  <2> HIDE DEF kept, at
  <2>2. \A j \in DOMAIN kept : kept[j] = open[ix[j]] /\ ix[j] \in DOMAIN open
    BY <1>4, <2>1 DEF Picks
  <2> QED  BY <1>3, <2>2
<1>6. Seen = [j \in DOMAIN kept |-> [w |-> M.windows[kept[j]], c |-> CaptureOf(kept[j])]]
  BY DEF Seen
<1>7. \A i \in DOMAIN M.windows : IsWindow(M.windows[i])
  BY <1>2, WindowsAssumption DEF IsWindow
<1> HIDE DEF kept
<1>8. ASSUME NEW j \in DOMAIN Seen
      PROVE  Seen[j] = [w |-> Seen[j].w, c |-> Seen[j].c] /\ IsWindow(Seen[j].w)
  <2>1. j \in DOMAIN kept /\ Seen[j] = [w |-> M.windows[kept[j]], c |-> CaptureOf(kept[j])]
    BY <1>6
  <2>2. IsWindow(M.windows[kept[j]])
    BY <1>5, <1>7, <2>1
  <2> QED  BY <2>1, <2>2
<1> QED  BY <1>8 DEF SeesWindows

LEMMA ObservedIsOfClass ==
  ASSUME NEW seen, IsList1(seen), SeesWindows(seen), NEW class, NEW ws
  PROVE  LET o == ImportedAt(seen, class, ws) IN
         AsciiLower(o.w.class) = AsciiLower(class) /\ o.w.ws = ws
<1> DEFINE I == {i \in 1 .. Len(seen) : AsciiLower(seen[i].w.class) = AsciiLower(class)}
           at == IF I # {} THEN Min(I) ELSE 0
           none == [w |-> [class |-> class, ws |-> 0, float |-> None, xwayland |-> TRUE, pid |-> 0],
                    c |-> CaptureResolve(M, class, 0, TRUE, FALSE)]
           v == Observed(seen, class)
<1>1. v = IF at # 0 THEN seen[at] ELSE none
  BY DEF Observed, SelectInSeq
<1>2. I \subseteq Nat
  BY DEF IsList1
<1>3. at # 0 => at \in I
  <2> SUFFICES ASSUME I # {} PROVE Min(I) \in I
    OBVIOUS
  <2> HIDE DEF I
  <2>1. \E x \in I : \A y \in I : x <= y
    BY <1>2, LeastNat
  <2> QED  BY <2>1 DEF Min
<1>4. none = [w |-> none.w, c |-> none.c] /\ IsWindow(none.w) /\ none.w.class = class
  BY DEF IsWindow
<1> HIDE DEF at, none
<1>5. v = [w |-> v.w, c |-> v.c] /\ IsWindow(v.w) /\ AsciiLower(v.w.class) = AsciiLower(class)
  <2>1. CASE at # 0
    <3>1. at \in DOMAIN seen /\ AsciiLower(seen[at].w.class) = AsciiLower(class) /\ v = seen[at]
      BY <1>1, <1>3, <2>1 DEF IsList1
    <3> HIDE DEF v
    <3> QED  BY <3>1 DEF SeesWindows
  <2>2. CASE at = 0
    <3>1. v = none
      BY <1>1, <2>2
    <3> HIDE DEF v
    <3> QED  BY <1>4, <3>1
  <2> QED  BY <2>1, <2>2
<1> HIDE DEF v
<1>6. /\ [v EXCEPT !.w.ws = ws].w.class = v.w.class
      /\ [v EXCEPT !.w.ws = ws].w.ws = ws
  BY <1>5 DEF IsWindow
<1>7. ImportedAt(seen, class, ws) = [v EXCEPT !.w.ws = ws]
  BY DEF ImportedAt, v
<1> QED  BY <1>5, <1>6, <1>7

(* Adding a row's app pins its class on its workspace; and, without a      *)
(* capital outside ASCII, it is a new pin and the row is gone.             *)
LEMMA RowIsAdded ==
  ASSUME IsFiniteSet(list), Numbered(list), NEW r \in RunningRows(list, Windows),
         NEW o, AsciiLower(o.w.class) = AsciiLower(r.class), o.w.ws = r.ws
  PROVE  AddsItself(RunningRows(list, Windows), r, o, Imported(o))
<1> DEFINE stored == Correlate(list, <<o>>, o)
           id == FreshId(list, 1)
           entry == Imported(o)
<1>1. Takes(list, Elements(<<o>>), o, stored)
  <2> DEFINE one == <<o>>
  <2>1. OneEach(one) /\ 1 \in DOMAIN one /\ one[1] = o
    BY DEF OneEach, IsList1
  <2> HIDE DEF one
  <2>2. Takes(list, Elements(one), one[1], Correlate(list, one, one[1]))
    BY <2>1, CorrelateTakes
  <2> QED  BY <2>1, <2>2 DEF one
<1>2. id \notin Ids(list)
  <2>1. 1 \in Nat /\ 1 # 0
    OBVIOUS
  <2> QED  BY <2>1, FreshIdIsFresh
<1>3. /\ entry.ws = r.ws /\ entry.wclass = o.w.class
      /\ stored.id = 0 => entry.id = id
  <2> DEFINE pin == Pin(M, stored, id, o)
  <2>1. /\ pin.ws = r.ws /\ pin.wclass = o.w.class
        /\ stored.id = 0 => pin.id = id
    BY DEF Pin
  <2>2. entry = [pin EXCEPT !.enabled = TRUE]
    BY DEF Imported
  <2>3. pin = [id |-> pin.id, wclass |-> pin.wclass, ws |-> pin.ws, float |-> pin.float,
               label |-> pin.label, argv |-> pin.argv, source |-> pin.source,
               provenance |-> pin.provenance, cwd |-> pin.cwd, enabled |-> pin.enabled]
    BY DEF Pin
  <2> HIDE DEF pin, entry, stored, id
  <2> QED  BY <2>1, <2>2, <2>3
<1>4. ASSUME OneCase(r.class)
      PROVE  RunningRows(Over(list, {entry}), Windows)
               = {q \in RunningRows(list, Windows) : AsciiLower(q.class) # AsciiLower(r.class)}
  <2>1. FullLower(o.w.class) = AsciiLower(r.class)
    BY <1>4, SameAsciiSameFull DEF OneCase
  <2>2. AsciiLower(r.class) \notin Covered(list)
    BY RowsAre
  <2>3. AtPlace(list, o) = {}
    BY <2>1, <2>2 DEF AtPlace, PinPlace, Place, Covered
  <2>4. stored.id = 0
    BY <1>1, <2>3 DEF Takes, AlonePin, Alike, NoPin
  <2> HIDE DEF entry, id, stored
  <2>5. Over(list, {entry}) = list \cup {entry}
    BY <1>2, <1>3, <2>4 DEF Over, Ids
  <2>6. Covered(list \cup {entry}) = Covered(list) \cup {AsciiLower(r.class)}
    BY <1>3, <2>1 DEF Covered
  <2> QED  BY <2>5, <2>6, RowsAre
<1> HIDE DEF entry, id, stored
<1>5. AsciiLower(entry.wclass) = AsciiLower(r.class)
  BY <1>3
<1> QED  BY <1>3, <1>4, <1>5 DEF AddsItself, entry

(* Every app with a window on a real workspace is on the panel once, under *)
(* the pins or in a row of its own, and what a row's + adds is a pin of    *)
(* its class there, after which the row, and no other, is gone (list.rs,   *)
(* edit.rs): for every machine, windows and list, of the classes without a *)
(* capital outside ASCII, which the two sides of the list fold apart.      *)
THEOREM EachAppShown == Spec => []EachAppOnce
<1> DEFINE I == ListInv /\ FiniteInv /\ TypedInv /\ MachineInv
<1>1. Init => I
  BY ListInit, FS_EmptySet DEF Init, FiniteInv, TypedInv, Numbered, NoProposal, MachineInv
<1>2. I /\ [Next]_vars => I'
  BY ListStep, FiniteStep, TypedStep, MachineStep
<1>3. I => EachAppOnce
  <2> SUFFICES ASSUME I PROVE EachAppOnce
    OBVIOUS
  <2> DEFINE rows == RunningRows(list, Windows)
             imported(r) == ImportedAt(Seen, r.class, r.ws)
             pinned(class) == \E p \in list : AsciiLower(p.wclass) = AsciiLower(class)
  <2>1. IsFiniteSet(list) /\ Numbered(list) /\ IsList1(Seen) /\ SeesWindows(Seen)
    BY SeenIsList, SeenAreWindows DEF FiniteInv, TypedInv
  <2>2. DOMAIN Windows = DOMAIN open
    BY DEF Windows
  <2>3. ASSUME NEW class \in {Windows[i].class : i \in {k \in DOMAIN open : Windows[k].ws >= 1}},
               class # "", OneSpelling(class)
        PROVE  Cardinality({r \in rows : r.class = class}) = IF pinned(class) THEN 0 ELSE 1
    <3>1. PICK i \in DOMAIN Windows : Windows[i].ws >= 1 /\ class = Windows[i].class
      BY <2>2
    <3> QED  BY <2>3, <3>1, OneRowOrPin
  <2>4. ASSUME NEW r \in rows PROVE AddsItself(rows, r, imported(r), Imported(imported(r)))
    <3> DEFINE o == imported(r)
    <3>1. AsciiLower(o.w.class) = AsciiLower(r.class) /\ o.w.ws = r.ws
      BY <2>1, ObservedIsOfClass
    <3> HIDE DEF o
    <3>2. AddsItself(rows, r, o, Imported(o))
      BY <2>1, <3>1, RowIsAdded
    <3> QED  BY <3>2 DEF o
  <2> QED  BY <2>3, <2>4 DEF EachAppOnce
<1> HIDE DEF I
<1> QED  BY <1>1, <1>2, <1>3, PTL DEF Spec

-----------------------------------------------------------------------------
(* The session diff.                                                       *)

(* What a filter keeps: as many as the places, and what is at them.        *)
IsKept(seq, at, kept) ==
  /\ IsList1(kept) /\ Len(kept) = Cardinality({j \in DOMAIN seq : j \in at})
  /\ \A k \in DOMAIN kept : \E j \in DOMAIN seq : j \in at /\ kept[k] = seq[j]
  /\ \A j \in DOMAIN seq : j \in at => \E k \in DOMAIN kept : kept[k] = seq[j]

LEMMA KeepCounts ==
  ASSUME NEW seq, IsList1(seq), NEW at
  PROVE  IsKept(seq, at, Keep(seq, at))
<1> DEFINE kept == Keep(seq, at)
           n == Len(kept)
           taken == {j \in DOMAIN seq : j \in at}
<1>1. PICK ix : Picks(seq, at, Len(seq), kept, ix)
  BY KeepPicks DEF IsList1
<1>2. n \in Nat /\ DOMAIN kept = 1 .. n
  BY KeepPicks DEF IsList1
<1>3. {j \in 1 .. Len(seq) : j \in at} = taken
  BY DEF IsList1
<1> HIDE DEF kept
<1>4. /\ ix \in [1 .. n -> taken] /\ \A k \in 1 .. n : kept[k] = seq[ix[k]]
      /\ \A j \in taken : \E k \in 1 .. n : ix[k] = j
      /\ \A k, l \in 1 .. n : k < l => ix[k] < ix[l]
  BY <1>1, <1>3 DEF Picks
<1>5. \A k, l \in 1 .. n : ix[k] = ix[l] => k = l
  <2> SUFFICES ASSUME NEW k \in 1 .. n, NEW l \in 1 .. n, ix[k] = ix[l], k < l PROVE FALSE
    BY <1>2
  <2>1. ix[k] < ix[l] /\ ix[k] \in Nat
    BY <1>4 DEF IsList1
  <2> QED  BY <2>1
<1>6. n = Cardinality(taken)
  <2>1. ix \in Bijection(1 .. n, taken)
    BY <1>4, <1>5 DEF Bijection, Injection, Surjection, IsInjective
  <2> HIDE DEF n, taken
  <2>2. IsFiniteSet(1 .. n) /\ Cardinality(1 .. n) = n
    <3>1. 1 \in Int /\ n \in Int /\ (1 > n => n = 0) /\ n - 1 + 1 = n
      BY <1>2
    <3> QED  BY <3>1, FS_Interval
  <2> QED  BY <2>1, <2>2, FS_Bijection DEF ExistsBijection
<1>7. \A k \in 1 .. n : ix[k] \in taken
  BY <1>4
<1>8. IsList1(kept) /\ Len(kept) = Cardinality(taken)
  BY <1>2, <1>6 DEF IsList1
<1>9. \A k \in DOMAIN kept : \E j \in DOMAIN seq : j \in at /\ kept[k] = seq[j]
  BY <1>2, <1>4, <1>7
<1>10. \A j \in DOMAIN seq : j \in at => \E k \in DOMAIN kept : kept[k] = seq[j]
  BY <1>2, <1>4
<1> QED  BY <1>8, <1>9, <1>10 DEF kept, IsKept

LEMMA PlacementIs ==
  ASSUME NEW w, NEW back
  PROVE  /\ Placement(w, back).ws = w.ws
         /\ Placement(w, back).matched <=> \E b \in ToSet(back) : b.ws = w.ws /\ b.floating = w.floating
         /\ Placement(w, back).wsMatched <=> \E b \in ToSet(back) : b.ws = w.ws
<1> DEFINE here == \E b \in ToSet(back) : b.ws = w.ws /\ b.floating = w.floating
           near == \E b \in ToSet(back) : b.ws = w.ws
           p == Placement(w, back)
<1>1. p = [ws |-> w.ws, floating |-> w.floating, matched |-> here, wsMatched |-> near]
  BY DEF Placement
<1> HIDE DEF here, near, p
<1>2. p.ws = w.ws /\ p.matched = here /\ p.wsMatched = near
  BY <1>1
<1> QED  BY <1>2 DEF here, near, p

(* The windows of a class that are back are there as they are now.         *)
HasClass(class) == class # ""

LEMMA BackIs ==
  ASSUME NEW now, IsList1(now), NEW class, HasClass(class)
  PROVE  /\ Len(Back(now, class)) = CountOf(now, class) /\ Len(Back(now, class)) \in Nat
         /\ \A b \in ToSet(Back(now, class)) :
              \E v \in ToSet(now) : v.class = class /\ b.ws = v.ws /\ b.floating = Floats(v)
         /\ \A v \in ToSet(now) : v.class = class =>
              \E b \in ToSet(Back(now, class)) : b.ws = v.ws /\ b.floating = Floats(v)
<1> DEFINE live == [i \in DOMAIN now |->
                     [class |-> now[i].class, ws |-> now[i].ws, floating |-> Floats(now[i])]]
           at == {i \in DOMAIN live : HasClass(live[i].class) /\ live[i].class = class}
           back == Keep(live, at)
<1>1. Back(now, class) = back
  BY DEF Back, Floats, HasClass
<1>c. live = [i \in DOMAIN now |->
               [class |-> now[i].class, ws |-> now[i].ws, floating |-> Floats(now[i])]]
  OBVIOUS
<1> HIDE DEF live
<1>2. IsList1(live) /\ DOMAIN live = DOMAIN now
  BY <1>c DEF IsList1
<1>3. \A i \in DOMAIN now : live[i].class = now[i].class /\ live[i].ws = now[i].ws
                            /\ live[i].floating = Floats(now[i])
  BY <1>c
<1>a. at = {i \in DOMAIN now : now[i].class = class}
  <2>1. \A i \in DOMAIN now : (HasClass(live[i].class) /\ live[i].class = class) <=> now[i].class = class
    BY <1>3
  <2> QED  BY <1>2, <2>1, Zenon
<1>b. back = Keep(live, at)
  OBVIOUS
<1> HIDE DEF at, back
<1>4. {j \in DOMAIN live : j \in at} = {i \in DOMAIN now : now[i].class = class}
  BY <1>2, <1>a
<1>5. \A j \in DOMAIN now : j \in at <=> now[j].class = class
  BY <1>a
<1>6. /\ IsList1(back) /\ Len(back) = Cardinality({j \in DOMAIN live : j \in at})
      /\ \A k \in DOMAIN back : \E j \in DOMAIN live : j \in at /\ back[k] = live[j]
      /\ \A j \in DOMAIN live : j \in at => \E k \in DOMAIN back : back[k] = live[j]
  <2>1. IsKept(live, at, back)
    BY <1>2, <1>b, KeepCounts
  <2> QED  BY <2>1 DEF IsKept
<1>7. Len(back) = CountOf(now, class) /\ Len(back) \in Nat
  BY <1>4, <1>6 DEF CountOf, IsList1
<1>8. ASSUME NEW b \in ToSet(back)
      PROVE  \E v \in ToSet(now) : v.class = class /\ b.ws = v.ws /\ b.floating = Floats(v)
  <2>1. PICK k \in DOMAIN back : b = back[k]
    BY DEF ToSet
  <2>2. PICK j \in DOMAIN now : j \in at /\ b = live[j]
    BY <1>2, <1>6, <2>1
  <2>3. now[j] \in ToSet(now)
    BY DEF ToSet
  <2> QED  BY <1>3, <1>5, <2>2, <2>3
<1>9. ASSUME NEW v \in ToSet(now), v.class = class
      PROVE  \E b \in ToSet(back) : b.ws = v.ws /\ b.floating = Floats(v)
  <2>1. PICK j \in DOMAIN now : v = now[j]
    BY DEF ToSet
  <2>2. PICK k \in DOMAIN back : back[k] = live[j]
    BY <1>2, <1>5, <1>6, <1>9, <2>1
  <2>3. back[k] \in ToSet(back)
    BY DEF ToSet
  <2> QED  BY <1>3, <2>1, <2>2, <2>3
<1> QED  BY <1>1, <1>7, <1>8, <1>9

(* A class's records are its windows as they were.                         *)
GroupOfClass(before, class) ==
  Keep(Snapshot(before, <<>>), {i \in DOMAIN Snapshot(before, <<>>) : Snapshot(before, <<>>)[i].class = class})

LEMMA GroupIs ==
  ASSUME NEW before, IsList1(before), NEW class
  PROVE  LET group == GroupOfClass(before, class) IN
         /\ IsList1(group) /\ Len(group) = CountOf(before, class)
         /\ \A k \in DOMAIN group : \E w \in ToSet(before) :
              w.class = class /\ group[k].class = class /\ group[k].ws = w.ws
              /\ group[k].floating = Floats(w)
         /\ \A w \in ToSet(before) : w.class = class =>
              \E k \in DOMAIN group : group[k].ws = w.ws /\ group[k].floating = Floats(w)
<1> DEFINE snap == Snapshot(before, <<>>)
           at == {i \in DOMAIN snap : snap[i].class = class}
           group == Keep(snap, at)
<1>1. snap = [i \in DOMAIN before |->
               [class |-> before[i].class, label |-> LabelFor(<<>>, before[i].class),
                ws |-> before[i].ws, floating |-> Floats(before[i])]]
  BY DEF Snapshot, SnapWindow, Floats
<1> HIDE DEF snap
<1>2. IsList1(snap) /\ DOMAIN snap = DOMAIN before
  BY <1>1 DEF IsList1
<1>3. \A i \in DOMAIN before : snap[i].class = before[i].class /\ snap[i].ws = before[i].ws
                               /\ snap[i].floating = Floats(before[i])
  BY <1>1
<1>4. /\ {j \in DOMAIN snap : j \in at} = {i \in DOMAIN before : before[i].class = class}
      /\ \A j \in DOMAIN before : j \in at <=> before[j].class = class
  BY <1>2, <1>3
<1> HIDE DEF at, group
<1>0. group = Keep(snap, at)
  BY DEF group
<1>5. /\ IsList1(group) /\ Len(group) = Cardinality({j \in DOMAIN snap : j \in at})
      /\ \A k \in DOMAIN group : \E j \in DOMAIN snap : j \in at /\ group[k] = snap[j]
      /\ \A j \in DOMAIN snap : j \in at => \E k \in DOMAIN group : group[k] = snap[j]
  <2>1. IsKept(snap, at, group)
    BY <1>2, <1>0, KeepCounts
  <2> QED  BY <2>1 DEF IsKept
<1>6. Len(group) = CountOf(before, class)
  BY <1>4, <1>5 DEF CountOf
<1>7. ASSUME NEW k \in DOMAIN group
      PROVE  \E w \in ToSet(before) :
               w.class = class /\ group[k].class = class /\ group[k].ws = w.ws
               /\ group[k].floating = Floats(w)
  <2>1. PICK j \in DOMAIN before : j \in at /\ group[k] = snap[j]
    BY <1>2, <1>5
  <2>2. before[j] \in ToSet(before)
    BY DEF ToSet
  <2> QED  BY <1>3, <1>4, <2>1, <2>2
<1>8. ASSUME NEW w \in ToSet(before), w.class = class
      PROVE  \E k \in DOMAIN group : group[k].ws = w.ws /\ group[k].floating = Floats(w)
  <2>1. PICK j \in DOMAIN before : w = before[j]
    BY DEF ToSet
  <2>2. PICK k \in DOMAIN group : group[k] = snap[j]
    BY <1>2, <1>4, <1>5, <1>8, <2>1
  <2> QED  BY <1>3, <2>1, <2>2
<1>9. GroupOfClass(before, class) = group
  BY DEF GroupOfClass, group, at, snap
<1> QED  BY <1>5, <1>6, <1>7, <1>8, <1>9

ReportOf(before, now, class) == ClassReport(GroupOfClass(before, class), Back(now, class))
Lost(before, now, class) ==
  {w \in {v \in ToSet(before) : v.class = class} : ~IsThere(now, w)}

LEMMA ReportIs ==
  ASSUME NEW before, NEW now, NEW class
  PROVE  LET group == GroupOfClass(before, class)
             back == Back(now, class)
             c == ReportOf(before, now, class)
         IN  /\ c.class = group[1].class /\ c.missing = Len(group) - Len(back)
             /\ c.placements = [i \in DOMAIN group |-> Placement(group[i], back)]
             /\ c.mismatched = Cardinality({i \in DOMAIN c.placements : ~c.placements[i].matched})
<1> DEFINE group == GroupOfClass(before, class)
           back == Back(now, class)
           placements == [i \in DOMAIN group |-> Placement(group[i], back)]
           apart == Cardinality({i \in DOMAIN placements : ~placements[i].matched})
<1>1. ReportOf(before, now, class) =
        [class |-> group[1].class, label |-> group[1].label,
         want |-> Len(group), live |-> Len(back), missing |-> Len(group) - Len(back),
         placements |-> placements, mismatched |-> apart]
  BY DEF ReportOf, ClassReport
<1>2. apart = Cardinality({i \in DOMAIN placements : ~placements[i].matched})
  OBVIOUS
<1>3. placements = [i \in DOMAIN group |-> Placement(group[i], back)]
  OBVIOUS
<1> HIDE DEF group, back, placements, apart
<1>4. LET c == ReportOf(before, now, class) IN
      /\ c.class = group[1].class /\ c.missing = Len(group) - Len(back)
      /\ c.placements = placements /\ c.mismatched = apart
  BY <1>1
<1> QED  BY <1>2, <1>3, <1>4 DEF group, back

LEMMA ReportIsOfClass ==
  ASSUME NEW before, NEW now, NEW class
  PROVE  ReportOf(before, now, class).class = GroupOfClass(before, class)[1].class
<1> DEFINE group == GroupOfClass(before, class)
           back == Back(now, class)
<1>1. ReportOf(before, now, class) = ClassReport(group, back)
  BY DEF ReportOf
<1> HIDE DEF group, back
<1>2. ClassReport(group, back).class = group[1].class
  BY DEF ClassReport
<1> QED  BY <1>1, <1>2 DEF group

(* A record of a class is not matched exactly when a window recorded is    *)
(* gone from where it was; when not even its workspace is, no window of    *)
(* the class is on it.                                                     *)
LEMMA UnmatchedIsLost ==
  ASSUME NEW before, IsList1(before), NEW now, IsList1(now), NEW class, HasClass(class)
  PROVE  LET group == GroupOfClass(before, class)
             p(i) == Placement(group[i], Back(now, class))
         IN  /\ (\E i \in DOMAIN group : ~p(i).matched) <=> Lost(before, now, class) # {}
             /\ \A i \in DOMAIN group : ~p(i).wsMatched =>
                  \A v \in ToSet(now) : v.class = class => v.ws # p(i).ws
<1> DEFINE group == GroupOfClass(before, class)
           back == Back(now, class)
           p(i) == Placement(group[i], back)
<1>1. /\ IsList1(group)
      /\ \A k \in DOMAIN group : \E w \in ToSet(before) :
           w.class = class /\ group[k].class = class /\ group[k].ws = w.ws
           /\ group[k].floating = Floats(w)
      /\ \A w \in ToSet(before) : w.class = class =>
           \E k \in DOMAIN group : group[k].ws = w.ws /\ group[k].floating = Floats(w)
  BY GroupIs
<1>2. /\ \A b \in ToSet(back) :
           \E v \in ToSet(now) : v.class = class /\ b.ws = v.ws /\ b.floating = Floats(v)
      /\ \A v \in ToSet(now) : v.class = class =>
           \E b \in ToSet(back) : b.ws = v.ws /\ b.floating = Floats(v)
  BY BackIs
<1>3. \A i : /\ p(i).ws = group[i].ws
             /\ p(i).matched <=> \E b \in ToSet(back) : b.ws = group[i].ws /\ b.floating = group[i].floating
             /\ p(i).wsMatched <=> \E b \in ToSet(back) : b.ws = group[i].ws
  BY PlacementIs
<1> HIDE DEF group, back, p
<1>4. ASSUME NEW k \in DOMAIN group, NEW w, w.class = class, group[k].ws = w.ws,
             group[k].floating = Floats(w)
      PROVE  p(k).matched <=> IsThere(now, w)
  <2>1. ASSUME p(k).matched PROVE IsThere(now, w)
    <3>1. PICK b \in ToSet(back) : b.ws = w.ws /\ b.floating = Floats(w)
      BY <1>3, <1>4, <2>1
    <3>2. PICK v \in ToSet(now) : v.class = class /\ b.ws = v.ws /\ b.floating = Floats(v)
      BY <1>2
    <3> QED  BY <1>4, <3>1, <3>2 DEF IsThere
  <2>2. ASSUME IsThere(now, w) PROVE p(k).matched
    <3>1. PICK v \in ToSet(now) : v.class = class /\ v.ws = w.ws /\ Floats(v) = Floats(w)
      BY <1>4, <2>2 DEF IsThere
    <3>2. PICK b \in ToSet(back) : b.ws = v.ws /\ b.floating = Floats(v)
      BY <1>2, <3>1
    <3> QED  BY <1>3, <1>4, <3>1, <3>2
  <2> QED  BY <2>1, <2>2
<1>5. ASSUME NEW k \in DOMAIN group, ~p(k).matched PROVE Lost(before, now, class) # {}
  <2>1. PICK w \in ToSet(before) : w.class = class /\ group[k].ws = w.ws /\ group[k].floating = Floats(w)
    BY <1>1
  <2>2. ~IsThere(now, w)
    BY <1>4, <1>5, <2>1
  <2> QED  BY <2>1, <2>2 DEF Lost
<1>6. ASSUME NEW w \in Lost(before, now, class) PROVE \E k \in DOMAIN group : ~p(k).matched
  <2>1. w \in ToSet(before) /\ w.class = class /\ ~IsThere(now, w)
    BY DEF Lost
  <2>2. PICK k \in DOMAIN group : group[k].ws = w.ws /\ group[k].floating = Floats(w)
    BY <1>1, <2>1
  <2> QED  BY <1>4, <2>1, <2>2
<1>7. ASSUME NEW k \in DOMAIN group, ~p(k).wsMatched, NEW v \in ToSet(now), v.class = class
      PROVE  v.ws # p(k).ws
  <2>1. PICK b \in ToSet(back) : b.ws = v.ws
    BY <1>2, <1>7
  <2> QED  BY <1>3, <1>7, <2>1
<1> QED  BY <1>5, <1>6, <1>7 DEF group, back, p

(* One class's line of the diff.                                           *)
LEMMA ClassIsTold ==
  ASSUME NEW before, IsList1(before), NEW now, IsList1(now), NEW class, HasClass(class)
  PROVE  LET c == ReportOf(before, now, class)
             lost == Lost(before, now, class)
         IN  /\ Verdict(c) = IF CountOf(now, class) < CountOf(before, class) THEN "missing"
                             ELSE IF lost # {} THEN "moved" ELSE "ok"
             /\ Expected(c) = {} <=> lost = {}
             /\ \A e \in Expected(c) :
                  e.by = "ws" => \A v \in ToSet(now) : v.class = class => v.ws # e.ws
<1> DEFINE group == GroupOfClass(before, class)
           back == Back(now, class)
           c == ReportOf(before, now, class)
           lost == Lost(before, now, class)
           p(i) == Placement(group[i], back)
           apart == {i \in DOMAIN group : ~p(i).matched}
<1>1. IsList1(group) /\ Len(group) = CountOf(before, class)
  BY GroupIs
<1>2. Len(back) = CountOf(now, class) /\ Len(back) \in Nat
  BY BackIs
<1>3. /\ (\E i \in DOMAIN group : ~p(i).matched) <=> lost # {}
      /\ \A i \in DOMAIN group : ~p(i).wsMatched =>
           \A v \in ToSet(now) : v.class = class => v.ws # p(i).ws
  BY UnmatchedIsLost
<1>4. /\ c.missing = Len(group) - Len(back) /\ c.placements = [i \in DOMAIN group |-> p(i)]
      /\ c.mismatched = Cardinality({i \in DOMAIN c.placements : ~c.placements[i].matched})
  BY ReportIs
<1> HIDE DEF group, back, c, lost, p
<1>5. DOMAIN c.placements = DOMAIN group /\ \A i \in DOMAIN group : c.placements[i] = p(i)
  BY <1>4
<1>6. {i \in DOMAIN c.placements : ~c.placements[i].matched} = apart
  BY <1>5
<1>7. IsFiniteSet(apart)
  <2>1. IsFiniteSet(DOMAIN group)
    BY <1>1, FS_Interval DEF IsList1
  <2> QED  BY <2>1, FS_Subset
<1>8. c.mismatched > 0 <=> lost # {}
  <2>1. apart = {} <=> lost = {}
    BY <1>3
  <2>2. c.mismatched = Cardinality(apart)
    BY <1>4, <1>6
  <2> HIDE DEF apart
  <2>3. Cardinality(apart) \in Nat /\ (Cardinality(apart) = 0 <=> apart = {})
    BY <1>7, FS_CardinalityType, FS_EmptySet
  <2> QED  BY <2>1, <2>2, <2>3
<1>9. c.missing > 0 <=> CountOf(now, class) < CountOf(before, class)
  BY <1>1, <1>2, <1>4 DEF IsList1
<1>10. Verdict(c) = IF CountOf(now, class) < CountOf(before, class) THEN "missing"
                    ELSE IF lost # {} THEN "moved" ELSE "ok"
  BY <1>8, <1>9 DEF Verdict
<1> DEFINE of(q) == IF q.wsMatched THEN [by |-> "float", ws |-> 0, floating |-> q.floating]
                    ELSE [by |-> "ws", ws |-> q.ws, floating |-> FALSE]
<1>11. Expected(c) = {of(q) : q \in {r \in ToSet(c.placements) : ~r.matched}}
  BY DEF Expected
<1>12. \A q : q \in ToSet(c.placements) <=> \E i \in DOMAIN group : q = p(i)
  BY <1>5 DEF ToSet
<1>13. \A q : (of(q).by = "ws" => ~q.wsMatched) /\ (~q.wsMatched => of(q).ws = q.ws)
  OBVIOUS
<1> HIDE DEF of
<1>14. Expected(c) = {} <=> lost = {}
  BY <1>3, <1>11, <1>12
<1>15. ASSUME NEW e \in Expected(c), e.by = "ws", NEW v \in ToSet(now), v.class = class
       PROVE  v.ws # e.ws
  <2>1. PICK q \in ToSet(c.placements) : e = of(q)
    BY <1>11
  <2>2. PICK i \in DOMAIN group : q = p(i)
    BY <1>12
  <2>3. ~q.wsMatched /\ e.ws = q.ws
    BY <1>13, <1>15, <2>1
  <2> QED  BY <1>3, <1>15, <2>2, <2>3
<1> QED  BY <1>10, <1>14, <1>15 DEF c, lost

LEMMA ReportTells ==
  ASSUME NEW before, IsList1(before), NEW now, IsList1(now)
  PROVE  DiffTells(before, now, DiffReport(Snapshot(before, <<>>), now))
<1> DEFINE snap == Snapshot(before, <<>>)
           report == DiffReport(snap, now)
           Classes == {w.class : w \in ToSet(before)}
           line(class) == ReportOf(before, now, class)
<1>1. report = {line(class) : class \in Classes}
  <2>1. report = {line(class) : class \in {snap[i].class : i \in DOMAIN snap}}
    BY DEF DiffReport, ReportOf, GroupOfClass
  <2> HIDE DEF line
  <2>2. snap = [i \in DOMAIN before |->
                 [class |-> before[i].class, label |-> LabelFor(<<>>, before[i].class),
                  ws |-> before[i].ws, floating |-> before[i].float = "floating"]]
    BY DEF Snapshot, SnapWindow
  <2> HIDE DEF snap
  <2>3. DOMAIN snap = DOMAIN before /\ \A i \in DOMAIN before : snap[i].class = before[i].class
    BY <2>2
  <2>4. {snap[i].class : i \in DOMAIN snap} = Classes
    BY <2>3 DEF ToSet
  <2> QED  BY <2>1, <2>4
<1>2. \A class \in Classes : line(class).class = class
  <2> SUFFICES ASSUME NEW w \in ToSet(before) PROVE line(w.class).class = w.class
    OBVIOUS
  <2> DEFINE class == w.class
             group == GroupOfClass(before, class)
  <2>1. line(class).class = group[1].class
    BY ReportIsOfClass
  <2>2. /\ IsList1(group) /\ \A k \in DOMAIN group : group[k].class = class
        /\ \E k \in DOMAIN group : TRUE
    BY GroupIs
  <2> HIDE DEF group
  <2>3. 1 \in DOMAIN group
    BY <2>2 DEF IsList1
  <2> QED  BY <2>1, <2>2, <2>3
<1> HIDE DEF line, report, Classes
<1>3. {c.class : c \in report} = Classes
  BY <1>1, <1>2
<1>4. ASSUME NEW c \in report, HasClass(c.class)
      PROVE  LET class == c.class
                 wasAt == {w \in ToSet(before) : w.class = class}
                 lost == {w \in wasAt : ~IsThere(now, w)}
             IN  /\ Cardinality({d \in report : d.class = class}) = 1
                 /\ Verdict(c) = IF CountOf(now, class) < CountOf(before, class) THEN "missing"
                                 ELSE IF lost # {} THEN "moved" ELSE "ok"
                 /\ Expected(c) = {} <=> lost = {}
                 /\ \A e \in Expected(c) :
                      e.by = "ws" => \A v \in ToSet(now) : v.class = class => v.ws # e.ws
  <2> DEFINE class == c.class
  <2>1. c = line(class) /\ class \in Classes
    BY <1>1, <1>2
  <2>2. {d \in report : d.class = class} = {c}
    BY <1>1, <1>2, <2>1
  <2>3. Cardinality({d \in report : d.class = class}) = 1
    BY <2>2, FS_Singleton
  <2> HIDE DEF class
  <2>4. HasClass(class)
    BY <1>4 DEF class
  <2> DEFINE lost == Lost(before, now, class)
  <2>5. /\ Verdict(c) = IF CountOf(now, class) < CountOf(before, class) THEN "missing"
                        ELSE IF lost # {} THEN "moved" ELSE "ok"
        /\ Expected(c) = {} <=> lost = {}
        /\ \A e \in Expected(c) :
             e.by = "ws" => \A v \in ToSet(now) : v.class = class => v.ws # e.ws
    BY <2>1, <2>4, ClassIsTold DEF line
  <2>6. lost = {w \in {v \in ToSet(before) : v.class = class} : ~IsThere(now, w)}
    BY DEF Lost
  <2> HIDE DEF lost
  <2> QED  BY <2>3, <2>5, <2>6 DEF class
<1> DEFINE told(c) ==
             LET class == c.class
                 wasAt == {w \in ToSet(before) : w.class = class}
                 lost == {w \in wasAt : ~IsThere(now, w)}
             IN  /\ Cardinality({d \in report : d.class = class}) = 1
                 /\ Verdict(c) = IF CountOf(now, class) < CountOf(before, class) THEN "missing"
                                 ELSE IF lost # {} THEN "moved" ELSE "ok"
                 /\ Expected(c) = {} <=> lost = {}
                 /\ \A e \in Expected(c) :
                      e.by = "ws" => \A v \in ToSet(now) : v.class = class => v.ws # e.ws
<1>5. DiffTells(before, now, report)
        <=> {c.class : c \in report} = Classes /\ \A c \in {d \in report : HasClass(d.class)} : told(c)
  BY DEF DiffTells, HasClass, Classes
<1>6. \A c \in report : HasClass(c.class) => told(c)
  BY <1>4
<1> HIDE DEF told
<1>7. DiffTells(before, now, report)
  BY <1>3, <1>5, <1>6
<1> QED  BY <1>7 DEF report, snap

(* The diff says what is gone, whatever windows were recorded and whatever *)
(* of them a login brought back, and where (session.rs, diff_report).      *)
THEOREM GoneIsTold == Spec => []DiffTellsWhatIsGone
<1>1. Init => MachineInv
  BY DEF Init, MachineInv
<1>2. MachineInv => DiffTellsWhatIsGone
  <2> SUFFICES ASSUME MachineInv, NEW now \in Desktops
               PROVE  DiffTells(Windows, now, DiffReport(Snapshot(Windows, <<>>), now))
    BY DEF DiffTellsWhatIsGone
  <2>1. IsList1(Windows)
    <3>1. open \in Seq(DOMAIN machine.windows)
      BY DEF MachineInv
    <3>2. Len(open) \in Nat /\ DOMAIN open = 1 .. Len(open)
      BY <3>1
    <3> QED  BY <3>2 DEF Windows, IsList1
  <2>2. IsList1(M.windows)
    <3>1. PICK k \in DOMAIN Machines : machine = Readings[k]
      BY DEF MachineInv
    <3>2. M.windows = Machines[k].windows
      BY <3>1, ReadingIs DEF M
    <3> DEFINE windows == Machines[k].windows
    <3>3. windows \in Seq({windows[i] : i \in DOMAIN windows})
      BY WindowsAssumption
    <3> HIDE DEF windows
    <3> QED  BY <3>2, <3>3 DEF IsList1, windows
  <2>3. IsList1(now)
    <3> DEFINE all == [i \in DOMAIN M.windows |-> i]
    <3>1. PICK how \in [DOMAIN M.windows -> {"gone", "back", "moved", "floated"}] :
            LET back == Keep(all, {i \in DOMAIN M.windows : how[i] # "gone"})
            IN  now = [k \in DOMAIN back |-> Changed(M.windows[back[k]], how[back[k]])]
      BY DEF Desktops
    <3> DEFINE at == {i \in DOMAIN M.windows : how[i] # "gone"}
               back == Keep(all, at)
    <3>2. now = [k \in DOMAIN back |-> Changed(M.windows[back[k]], how[back[k]])]
      BY <3>1
    <3>3. Len(all) \in Nat
      BY <2>2 DEF IsList1
    <3> HIDE DEF all, at
    <3>4. Len(back) \in Nat /\ DOMAIN back = 1 .. Len(back)
      BY <3>3, KeepPicks
    <3> HIDE DEF back
    <3> QED  BY <3>2, <3>4 DEF IsList1
  <2> QED  BY <2>1, <2>3, ReportTells
<1> QED  BY <1>1, <1>2, MachineStep, PTL DEF Spec

-----------------------------------------------------------------------------
(* The first word of a command line that is not one of these, and the      *)
(* first that is this one.                                                 *)
FirstNot(s, T) == SelectInSeq(s, LAMBDA w : w \notin T)
FirstAt(s, x) == SelectInSeq(s, LAMBDA w : w = x)

IsFirstNot(s, T, i) ==
  /\ i \in 0 .. Len(s)
  /\ i = 0 => \A j \in 1 .. Len(s) : s[j] \in T
  /\ i # 0 => s[i] \notin T /\ \A j \in 1 .. i - 1 : s[j] \in T
IsFirstAt(s, x, i) ==
  /\ i \in 0 .. Len(s)
  /\ i = 0 => \A j \in 1 .. Len(s) : s[j] # x
  /\ i # 0 => s[i] = x /\ \A j \in 1 .. i - 1 : s[j] # x

LEMMA WordsLen ==
  ASSUME NEW s, IsWords(s)
  PROVE  Len(s) \in Nat /\ DOMAIN s = 1 .. Len(s)
BY DEF IsWords

LEMMA FirstNotIs ==
  ASSUME NEW s, IsWords(s), NEW T
  PROVE  IsFirstNot(s, T, FirstNot(s, T))
<1> DEFINE I == {i \in 1 .. Len(s) : s[i] \notin T}
<1>1. FirstNot(s, T) = IF I # {} THEN Min(I) ELSE 0
  BY DEF FirstNot, SelectInSeq
<1>2. Len(s) \in Nat
  BY WordsLen
<1>3. CASE I = {}
  BY <1>1, <1>2, <1>3 DEF IsFirstNot
<1>4. CASE I # {}
  <2>1. I \subseteq Nat
    BY <1>2
  <2>2. PICK i \in I : \A j \in I : i <= j
    <3> HIDE DEF I
    <3> QED  BY <1>4, <2>1, LeastNat
  <2>3. Min(I) \in I /\ \A j \in I : Min(I) <= j
    <3> HIDE DEF I
    <3> QED  BY <2>2 DEF Min
  <2>4. PICK m \in 1 .. Len(s) : m = Min(I) /\ m \in I
    BY <2>3
  <2>5. \A j \in 1 .. m - 1 : j \in 1 .. Len(s) /\ ~(m <= j)
    BY <1>2
  <2>6. \A j \in 1 .. m - 1 : s[j] \in T
    BY <2>3, <2>4, <2>5
  <2>7. m \in 0 .. Len(s) /\ m # 0
    BY <1>2
  <2> QED  BY <1>1, <1>4, <2>4, <2>6, <2>7 DEF IsFirstNot
<1> QED  BY <1>3, <1>4

LEMMA FirstAtIs ==
  ASSUME NEW s, IsWords(s), NEW x
  PROVE  IsFirstAt(s, x, FirstAt(s, x))
<1> DEFINE I == {i \in 1 .. Len(s) : s[i] = x}
<1>1. FirstAt(s, x) = IF I # {} THEN Min(I) ELSE 0
  BY DEF FirstAt, SelectInSeq
<1>2. Len(s) \in Nat
  BY WordsLen
<1>3. CASE I = {}
  BY <1>1, <1>2, <1>3 DEF IsFirstAt
<1>4. CASE I # {}
  <2>1. I \subseteq Nat
    BY <1>2
  <2>2. PICK i \in I : \A j \in I : i <= j
    <3> HIDE DEF I
    <3> QED  BY <1>4, <2>1, LeastNat
  <2>3. Min(I) \in I /\ \A j \in I : Min(I) <= j
    <3> HIDE DEF I
    <3> QED  BY <2>2 DEF Min
  <2>4. PICK m \in 1 .. Len(s) : m = Min(I) /\ m \in I
    BY <2>3
  <2>5. \A j \in 1 .. m - 1 : j \in 1 .. Len(s) /\ ~(m <= j)
    BY <1>2
  <2>6. \A j \in 1 .. m - 1 : s[j] # x
    BY <2>3, <2>4, <2>5
  <2>7. m \in 0 .. Len(s) /\ m # 0
    BY <1>2
  <2> QED  BY <1>1, <1>4, <2>4, <2>6, <2>7 DEF IsFirstAt
<1> QED  BY <1>3, <1>4

LEMMA WordsJoin ==
  ASSUME NEW a, IsWords(a), NEW b, IsWords(b)
  PROVE  /\ IsWords(a \o b) /\ Len(a \o b) = Len(a) + Len(b)
         /\ \A i \in 1 .. Len(a) : (a \o b)[i] = a[i]
         /\ \A i \in Len(a) + 1 .. Len(a) + Len(b) : (a \o b)[i] = b[i - Len(a)]
<1>1. PICK A : a \in Seq(A)
  BY DEF IsWords
<1>2. PICK B : b \in Seq(B)
  BY DEF IsWords
<1> DEFINE W == A \cup B
<1>3. a \in Seq(W) /\ b \in Seq(W)
  BY <1>1, <1>2
<1> HIDE DEF W
<1>4. a \o b \in Seq(W)
  BY <1>3
<1>5. Len(a \o b) = Len(a) + Len(b)
  BY <1>3
<1>6. \A i \in 1 .. Len(a) : (a \o b)[i] = a[i]
  BY <1>3
<1>7. \A i \in Len(a) + 1 .. Len(a) + Len(b) : (a \o b)[i] = b[i - Len(a)]
  BY <1>3
<1> QED  BY <1>4, <1>5, <1>6, <1>7 DEF IsWords

(* What is left of a command line after its first words.                   *)
LEMMA WordsAfter ==
  ASSUME NEW a, IsWords(a), NEW b, IsWords(b), NEW n \in 0 .. Len(a)
  PROVE  /\ IsWords(SubSeq(a, n + 1, Len(a)))
         /\ SubSeq(a \o b, n + 1, Len(a \o b)) = SubSeq(a, n + 1, Len(a)) \o b
<1>1. PICK A : a \in Seq(A)
  BY DEF IsWords
<1>2. PICK B : b \in Seq(B)
  BY DEF IsWords
<1> DEFINE W == A \cup B
<1>3. a \in Seq(W) /\ b \in Seq(W)
  BY <1>1, <1>2
<1> HIDE DEF W
<1>4. n \in Nat /\ n <= Len(a) /\ Len(a) \in Nat /\ Len(b) \in Nat
  BY <1>3
<1> DEFINE rest == SubSeq(a, n + 1, Len(a))
           whole == SubSeq(a \o b, n + 1, Len(a \o b))
<1>5. rest \in Seq(W) /\ Len(rest) = Len(a) - n /\ \A i \in 1 .. Len(a) - n : rest[i] = a[n + i]
  BY <1>3, <1>4, SubSeqProperties
<1>6. a \o b \in Seq(W) /\ Len(a \o b) = Len(a) + Len(b)
  BY <1>3
<1>7. /\ whole \in Seq(W) /\ Len(whole) = Len(a) + Len(b) - n
      /\ \A i \in 1 .. Len(a) + Len(b) - n : whole[i] = (a \o b)[n + i]
  BY <1>4, <1>6, SubSeqProperties
<1> HIDE DEF rest, whole
<1>8. rest \o b \in Seq(W) /\ Len(rest \o b) = Len(a) + Len(b) - n
  <2>1. rest \o b \in Seq(W) /\ Len(rest \o b) = Len(rest) + Len(b)
    BY <1>3, <1>5, ConcatProperties
  <2>2. Len(rest) + Len(b) = Len(a) + Len(b) - n
    BY <1>4, <1>5
  <2> QED  BY <2>1, <2>2
<1>9. ASSUME NEW i \in 1 .. Len(a) + Len(b) - n PROVE whole[i] = (rest \o b)[i]
  <2>1. whole[i] = (a \o b)[n + i]
    BY <1>7
  <2>2. CASE i <= Len(a) - n
    <3>1. i \in 1 .. Len(a) - n /\ n + i \in 1 .. Len(a) /\ i \in 1 .. Len(rest)
      BY <1>4, <1>5, <2>2
    <3>2. (rest \o b)[i] = rest[i]
      BY <1>3, <1>5, <3>1
    <3>3. (a \o b)[n + i] = a[n + i]
      BY <1>3, <3>1
    <3> QED  BY <1>5, <2>1, <3>1, <3>2, <3>3
  <2>3. CASE ~(i <= Len(a) - n)
    <3>1. n + i \in Len(a) + 1 .. Len(a) + Len(b) /\ i \in Len(rest) + 1 .. Len(rest) + Len(b)
          /\ i - Len(rest) = n + i - Len(a)
      BY <1>4, <1>5, <2>3
    <3>2. (rest \o b)[i] = b[i - Len(rest)]
      BY <1>3, <1>5, <3>1
    <3>3. (a \o b)[n + i] = b[n + i - Len(a)]
      BY <1>3, <3>1
    <3> QED  BY <2>1, <3>1, <3>2, <3>3
  <2> QED  BY <2>2, <2>3
<1>10. whole = rest \o b
  BY <1>7, <1>8, <1>9, SeqEqual
<1> QED  BY <1>5, <1>10 DEF IsWords, rest, whole

-----------------------------------------------------------------------------
(* More words after a program leave it the program.                        *)
LEMMA ProgramGrows ==
  ASSUME NEW a, IsWords(a), NEW b, IsWords(b), FirstNot(a, Wrapping) # 0
  PROVE  /\ Program(a \o b) = Program(a)
         /\ AfterProgram(a \o b) = AfterProgram(a) \o b
         /\ IsWords(AfterProgram(a))
<1> DEFINE i == FirstNot(a, Wrapping)
           k == FirstNot(a \o b, Wrapping)
<1>1. IsFirstNot(a, Wrapping, i) /\ i # 0
  BY FirstNotIs
<1>2. IsWords(a \o b)
  BY WordsJoin
<1>3. IsFirstNot(a \o b, Wrapping, k)
  BY <1>2, FirstNotIs
<1>4. /\ Program(a) = IF i = 0 THEN None ELSE Base(a[i])
      /\ Program(a \o b) = IF k = 0 THEN None ELSE Base((a \o b)[k])
      /\ AfterProgram(a) = SubSeq(a, 1 + i, Len(a))
      /\ AfterProgram(a \o b) = SubSeq(a \o b, 1 + k, Len(a \o b))
  BY DEF Program, AfterProgram, FirstNot
<1> HIDE DEF i, k
<1>5. Len(a) \in Nat /\ Len(b) \in Nat /\ Len(a \o b) = Len(a) + Len(b)
  BY WordsLen, WordsJoin
<1>6. i \in 1 .. Len(a) /\ a[i] \notin Wrapping /\ \A j \in 1 .. i - 1 : a[j] \in Wrapping
  BY <1>1, <1>5 DEF IsFirstNot
<1>7. \A j \in 1 .. Len(a) : (a \o b)[j] = a[j]
  BY WordsJoin
<1>8. k \in 1 .. Len(a \o b) /\ (a \o b)[k] \notin Wrapping
      /\ \A j \in 1 .. k - 1 : (a \o b)[j] \in Wrapping
  <2>1. k # 0
    <3> SUFFICES ASSUME k = 0 PROVE FALSE
      OBVIOUS
    <3>1. (a \o b)[i] \in Wrapping
      <4>1. i \in 1 .. Len(a \o b)
        BY <1>5, <1>6
      <4> QED  BY <1>3, <4>1 DEF IsFirstNot
    <3> QED  BY <1>6, <1>7, <3>1
  <2>2. k \in 1 .. Len(a \o b)
    BY <1>3, <1>5, <2>1 DEF IsFirstNot
  <2> QED  BY <1>3, <2>1, <2>2 DEF IsFirstNot
<1>9. k = i
  <2>1. ~(i < k)
    <3> SUFFICES ASSUME i < k PROVE FALSE
      OBVIOUS
    <3>1. i \in 1 .. k - 1
      BY <1>5, <1>6, <1>8
    <3> QED  BY <1>6, <1>7, <1>8, <3>1
  <2>2. ~(k < i)
    <3> SUFFICES ASSUME k < i PROVE FALSE
      OBVIOUS
    <3>1. k \in 1 .. i - 1 /\ k \in 1 .. Len(a)
      BY <1>5, <1>6, <1>8
    <3> QED  BY <1>6, <1>7, <1>8, <3>1
  <2>3. i \in Int /\ k \in Int
    BY <1>5, <1>6, <1>8
  <2> QED  BY <2>1, <2>2, <2>3
<1>10. i \in 0 .. Len(a) /\ 1 + i = i + 1
  BY <1>5, <1>6
<1>11. AfterProgram(a \o b) = AfterProgram(a) \o b /\ IsWords(AfterProgram(a))
  BY <1>4, <1>9, <1>10, WordsAfter
<1>12. i # 0 /\ (a \o b)[i] = a[i]
  BY <1>5, <1>6, <1>7
<1>13. Program(a \o b) = Program(a)
  BY <1>4, <1>9, <1>12
<1> QED  BY <1>11, <1>13

(* The rest of a line after the one word that is not in its first part.    *)
LEMMA AfterTheOption ==
  ASSUME NEW a, IsWords(a), NEW b, IsWords(b), NEW x, ~HasWord(a, {x})
  PROVE  LET line == a \o (<<x>> \o b) IN
         /\ IsWords(line) /\ HasWord(line, {x})
         /\ SubSeq(line, 1 + FirstAt(line, x), Len(line)) = b
<1> DEFINE tail == <<x>> \o b
           line == a \o tail
           k == FirstAt(line, x)
           n == Len(a) + 1
<1>1. IsWords(<<x>>) /\ Len(<<x>>) = 1
  BY WordsOne
<1>2. /\ IsWords(tail) /\ Len(tail) = 1 + Len(b)
      /\ tail[1] = x
      /\ \A i \in 2 .. 1 + Len(b) : tail[i] = b[i - 1]
  <2>1. /\ IsWords(tail) /\ Len(tail) = Len(<<x>>) + Len(b)
        /\ \A i \in 1 .. Len(<<x>>) : tail[i] = <<x>>[i]
        /\ \A i \in Len(<<x>>) + 1 .. Len(<<x>>) + Len(b) : tail[i] = b[i - Len(<<x>>)]
    BY <1>1, WordsJoin
  <2>2. <<x>>[1] = x
    OBVIOUS
  <2> HIDE DEF tail
  <2> QED  BY <1>1, <2>1, <2>2
<1>0. Len(a) \in Nat /\ Len(b) \in Nat /\ DOMAIN a = 1 .. Len(a) /\ Len(tail) \in Nat
  BY <1>2, WordsLen
<1> HIDE DEF tail
<1>3. /\ IsWords(line) /\ Len(line) = Len(a) + Len(tail)
      /\ \A i \in 1 .. Len(a) : line[i] = a[i]
      /\ \A i \in Len(a) + 1 .. Len(a) + Len(tail) : line[i] = tail[i - Len(a)]
  BY <1>2, WordsJoin
<1> HIDE DEF line
<1>4. n \in 1 .. Len(line) /\ n - Len(a) = 1 /\ n \in Len(a) + 1 .. Len(a) + Len(tail)
  BY <1>0, <1>2, <1>3
<1>5. line[n] = x
  BY <1>2, <1>3, <1>4
<1>6. DOMAIN line = 1 .. Len(line)
  BY <1>3, WordsLen
<1>7. HasWord(line, {x})
  BY <1>4, <1>5, <1>6 DEF HasWord
<1>8. IsFirstAt(line, x, k)
  BY <1>3, FirstAtIs
<1> HIDE DEF k
<1>9. k = n
  <2>1. k # 0
    BY <1>4, <1>5, <1>8 DEF IsFirstAt
  <2>2. k \in 1 .. Len(line) /\ line[k] = x /\ \A j \in 1 .. k - 1 : line[j] # x
    BY <1>0, <1>3, <1>8, <2>1 DEF IsFirstAt
  <2>3. \A j \in 1 .. Len(a) : line[j] # x
    BY <1>0, <1>3 DEF HasWord
  <2>4. ~(k <= Len(a))
    <3> SUFFICES ASSUME k <= Len(a) PROVE FALSE
      OBVIOUS
    <3>1. k \in 1 .. Len(a)
      BY <1>0, <2>2
    <3> QED  BY <2>2, <2>3, <3>1
  <2>5. ~(n < k)
    <3> SUFFICES ASSUME n < k PROVE FALSE
      OBVIOUS
    <3>1. n \in 1 .. k - 1
      BY <1>0, <1>4, <2>2
    <3> QED  BY <1>5, <2>2, <3>1
  <2>6. k \in Int /\ n \in Int
    BY <1>0, <2>2, <1>3
  <2> QED  BY <1>0, <2>4, <2>5, <2>6
<1>10. SubSeq(line, 1 + k, Len(line)) = b
  <2>1. PICK L : line \in Seq(L)
    BY <1>3 DEF IsWords
  <2>2. PICK B : b \in Seq(B)
    BY DEF IsWords
  <2> DEFINE W == L \cup B
             rest == SubSeq(line, 1 + k, Len(line))
  <2>3. line \in Seq(W) /\ b \in Seq(W)
    BY <2>1, <2>2
  <2> HIDE DEF W
  <2>4. 1 + k = Len(a) + 2 /\ Len(line) = Len(a) + 1 + Len(b) /\ Len(line) \in Nat
    BY <1>0, <1>2, <1>3, <1>9
  <2>5. /\ rest \in Seq(W) /\ Len(rest) = Len(b)
        /\ \A i \in 1 .. Len(b) : rest[i] = line[Len(a) + 1 + i]
    <3>1. 1 + k \in 1 .. Len(line) + 1 /\ Len(line) \in Len(line) .. Len(line)
      BY <1>0, <2>4
    <3>2. Len(line) - (1 + k) + 1 = Len(b)
      BY <1>0, <2>4
    <3>3. \A i \in 1 .. Len(b) : 1 + k + i - 1 = Len(a) + 1 + i
      BY <1>0, <2>4
    <3> QED  BY <1>0, <2>3, <2>4, <3>1, <3>2, <3>3, SubSeqProperties
  <2> HIDE DEF rest
  <2>6. ASSUME NEW i \in 1 .. Len(b) PROVE rest[i] = b[i]
    <3>1. Len(a) + 1 + i \in Len(a) + 1 .. Len(a) + Len(tail) /\ Len(a) + 1 + i - Len(a) = i + 1
          /\ i + 1 \in 2 .. 1 + Len(b) /\ i + 1 - 1 = i
      BY <1>0, <1>2
    <3> QED  BY <1>2, <1>3, <2>5, <3>1
  <2> QED  BY <2>3, <2>5, <2>6, SeqEqual DEF rest
<1> QED  BY <1>3, <1>7, <1>10 DEF line, k, tail

-----------------------------------------------------------------------------
(* The machine a captured command has been launched on.  A pid that is new *)
(* to it is above every other, and no process is its child.                *)
NewPid(m, at) ==
  /\ at \in Nat /\ at > 1
  /\ \A p \in DOMAIN m.procs : p \in Nat /\ p < at /\ m.procs[p].ppid # at

IsMachine(m) == "procs" \in DOMAIN m /\ "apps" \in DOMAIN m

(* What a later capture sees of it: the command in its directory, and in a *)
(* terminal at most a program that is its own foreground.                  *)
IsLaunched(L, m, c, at) ==
  /\ L.apps = m.apps
  /\ IsHost(L, at) /\ Argv(L, at) = c.argv /\ Cwd(L, at) = c.cwd
  /\ \/ Foreground(L, at) = NothingShown
     \/ Foreground(L, at) = [kind |-> "shell", argv |-> <<>>, cwd |-> c.cwd]

LEMMA LaunchedIs ==
  ASSUME NEW m, IsMachine(m), NEW c, NEW at, NewPid(m, at)
  PROVE  IsLaunched(Launched(m, c, at), m, c, at)
<1> DEFINE L == Launched(m, c, at)
           main == [ns |-> "host", argv |-> c.argv, ppid |-> 1, tpgid |-> 0, cwd |-> c.cwd]
           option == TerminalOption(m, c.argv)
           given == IF option = NoOption THEN AfterProgram(c.argv)
                    ELSE SubSeq(c.argv, 1 + SelectInSeq(c.argv, LAMBDA w : w = option), Len(c.argv))
           inside == IF NamesCommand(c.argv, option) THEN given ELSE <<"zsh">>
           refused == \E p \in DOMAIN m.procs : m.procs[p].ns = "refused" /\ m.procs[p].argv = inside
           started == IF option = None THEN {at} ELSE {at, at + 1}
           ns == IF refused THEN "refused" ELSE "host"
<1> DEFINE child == [ns |-> ns, argv |-> inside, ppid |-> at, tpgid |-> at + 1, cwd |-> c.cwd]
           procs == [p \in DOMAIN m.procs \cup started |->
                      IF p = at THEN main ELSE IF p = at + 1 THEN child ELSE m.procs[p]]
<1>1. L = [m EXCEPT !.procs = procs]
  BY DEF Launched
<1> HIDE DEF L, procs
<1>2. L.apps = m.apps /\ L.procs = procs
  BY <1>1 DEF IsMachine
<1> USE DEF procs
<1> HIDE DEF option, inside, ns
<1>3. at + 1 # at /\ at # 1 /\ at + 1 > 0 /\ at \notin DOMAIN m.procs /\ at + 1 \notin DOMAIN m.procs
  BY DEF NewPid
<1>4. at \in DOMAIN procs /\ procs[at] = main
  BY <1>1
<1>5. at + 1 \in DOMAIN procs => procs[at + 1] = child
  BY <1>3
<1>6. \A p \in DOMAIN procs : p = at \/ p = at + 1 \/ (p \in DOMAIN m.procs /\ procs[p] = m.procs[p])
  BY <1>1, <1>3
<1> HIDE DEF L, procs
<1>7. /\ main.ns = "host" /\ main.argv = c.argv /\ main.ppid = 1 /\ main.cwd = c.cwd
      /\ child.ns = ns /\ child.ppid = at /\ child.tpgid = at + 1 /\ child.cwd = c.cwd
  OBVIOUS
<1> HIDE DEF main, child
<1>8. IsHost(L, at) /\ Argv(L, at) = c.argv /\ Cwd(L, at) = c.cwd
  BY <1>2, <1>4, <1>7 DEF IsHost, Argv, Cwd
<1> DEFINE kids == {k \in DOMAIN L.procs : Parent(L, k) = at /\ IsHost(L, k) /\ L.procs[k].tpgid > 0}
<1>9. \A k \in DOMAIN L.procs : Parent(L, k) = at => k = at + 1
  <2> SUFFICES ASSUME NEW k \in DOMAIN L.procs, Parent(L, k) = at PROVE k = at + 1
    OBVIOUS
  <2>1. procs[k].ppid = at
    BY <1>2 DEF Parent
  <2>2. k # at
    BY <1>3, <1>4, <1>7, <2>1
  <2>3. ~(k \in DOMAIN m.procs /\ procs[k] = m.procs[k])
    BY <2>1 DEF NewPid
  <2> QED  BY <1>2, <1>6, <2>2, <2>3
<1>10. kids = {} \/ kids = {at + 1}
  BY <1>9
<1>11. Foreground(L, at) = IF kids = {} THEN NothingShown
                           ELSE LeaderShows(L, Min(kids), L.procs[Min(kids)].tpgid)
  BY <1>8 DEF Foreground
<1>12. CASE kids = {at + 1}
  <2>1. Min(kids) = at + 1
    BY <1>3, <1>12 DEF Min, NewPid
  <2>2. at + 1 \in DOMAIN L.procs /\ IsHost(L, at + 1)
    BY <1>12
  <2>3. L.procs[at + 1] = child
    BY <1>2, <1>5, <2>2
  <2>4. Foreground(L, at) = LeaderShows(L, at + 1, at + 1)
    BY <1>7, <1>11, <1>12, <2>1, <2>3
  <2>5. Cwd(L, at + 1) = c.cwd
    BY <1>7, <2>2, <2>3 DEF Cwd
  <2>6. Foreground(L, at) = [kind |-> "shell", argv |-> <<>>, cwd |-> c.cwd]
    BY <2>4, <2>5 DEF LeaderShows
  <2> QED  BY <1>2, <1>8, <2>6 DEF L, IsLaunched
<1> QED  BY <1>2, <1>8, <1>10, <1>11, <1>12 DEF L, IsLaunched

(* It is its own process: nothing above it is looked at.                   *)
LEMMA OwnAt ==
  ASSUME NEW m, NEW p, IsHost(m, p), Argv(m, p) # <<>>, ~HasWord(Argv(m, p), Helper)
  PROVE  OwnProcess(m, p) = p
<1> DEFINE hop == Hops(m, p)
           own == {k \in 1 .. MaxHops :
                     IsHost(m, hop[k]) /\ Argv(m, hop[k]) # <<>> /\ ~HasWord(Argv(m, hop[k]), Helper)}
<1>1. hop[1] = p
  BY HopsIs
<1>2. 1 \in own /\ \A k \in own : 1 <= k
  BY <1>1 DEF MaxHops
<1>3. OwnProcess(m, p) = hop[Min(own)]
  BY <1>2 DEF OwnProcess
<1>4. Min(own) = 1
  <2>1. own \subseteq Nat
    BY DEF MaxHops
  <2> HIDE DEF own
  <2>2. \E x \in own : \A k \in own : x <= k
    BY <1>2
  <2>3. Min(own) \in own /\ \A k \in own : Min(own) <= k
    BY <2>2 DEF Min
  <2>4. Min(own) \in Nat /\ Min(own) <= 1 /\ 1 <= Min(own)
    BY <1>2, <2>1, <2>3
  <2> QED  BY <2>4
<1> QED  BY <1>1, <1>3, <1>4

(* Launchers are read the same on it.                                      *)
LEMMA SameLaunchers ==
  ASSUME NEW m, NEW L, L.apps = m.apps
  PROVE  /\ \A argv : TerminalOption(L, argv) = TerminalOption(m, argv)
         /\ \A argv : NamedCommand(L, argv) = NamedCommand(m, argv)
         /\ \A class : Desktop(L, class, FALSE) = Desktop(m, class, FALSE)
<1>1. Listed(L) = Listed(m) /\ Claims(L) = Claims(m)
  BY DEF Listed, Claims
<1>2. \A argv : TerminalOption(L, argv) = TerminalOption(m, argv)
  BY <1>1 DEF TerminalOption
<1>3. \A argv : NamedCommand(L, argv) = NamedCommand(m, argv)
  BY <1>2 DEF NamedCommand, SelectInSeq
<1>4. \A class : WebApp(L, class) = WebApp(m, class)
  BY <1>1 DEF WebApp
<1>5. \A class : LauncherFor(L, class) = LauncherFor(m, class)
  BY <1>1, <1>4 DEF LauncherFor
<1>6. \A class : Desktop(L, class, FALSE) = Desktop(m, class, FALSE)
  BY <1>5 DEF Desktop
<1> QED  BY <1>2, <1>3, <1>6

-----------------------------------------------------------------------------
(* A command line that was captured as a process's own is captured again,  *)
(* as it is and in the directory it was launched in.                       *)
Fits(m, class, line) ==
  \/ Desktop(m, class, FALSE) = 0
  \/ Program(m.apps[Desktop(m, class, FALSE)].argv) = Program(line)
TakenAgain(m, class, c, at) == CaptureResolve(Launched(m, c, at), class, at, FALSE, FALSE) = c

LEMMA CapturedAgain ==
  ASSUME NEW m, IsMachine(m), NEW at, NewPid(m, at), NEW class,
         NEW line, line # <<>>, ~HasWord(line, Helper), ~HasWord(line, Service), ~IsSmashed(line),
         Fits(m, class, line), NEW cwd, NEW c, c = Captured(line, "cmdline", cwd, NamedCommand(m, line), 0, TRUE)
  PROVE  TakenAgain(m, class, c, at)
<1> DEFINE L == Launched(m, c, at)
           option == TerminalOption(L, line)
           shown == TerminalShows(L, at, line)
           d == Desktop(m, class, FALSE)
           own == /\ TRUE /\ at # 0 /\ ~IsSmashed(line) /\ ~HasWord(line, Service)
                  /\ d = 0 \/ Program(L.apps[d].argv) = Program(line)
<1>1. c.argv = line /\ c.cwd = cwd
  BY DEF Captured
<1>2. /\ L.apps = m.apps
      /\ IsHost(L, at) /\ Argv(L, at) = line /\ Cwd(L, at) = cwd
      /\ \/ Foreground(L, at) = NothingShown
         \/ Foreground(L, at) = [kind |-> "shell", argv |-> <<>>, cwd |-> cwd]
  <2>1. /\ L.apps = m.apps
        /\ IsHost(L, at) /\ Argv(L, at) = c.argv /\ Cwd(L, at) = c.cwd
        /\ \/ Foreground(L, at) = NothingShown
           \/ Foreground(L, at) = [kind |-> "shell", argv |-> <<>>, cwd |-> c.cwd]
    <3>1. IsLaunched(Launched(m, c, at), m, c, at)
      BY LaunchedIs
    <3> QED  BY <3>1 DEF IsLaunched
  <2> HIDE DEF L
  <2> QED  BY <1>1, <2>1
<1>3. at # 0
  BY DEF NewPid
<1> HIDE DEF L
<1>4. /\ NamedCommand(L, line) = NamedCommand(m, line) /\ Desktop(L, class, FALSE) = d
  BY <1>2, SameLaunchers
<1>5. OwnProcess(L, at) = at
  BY <1>2, OwnAt
<1>6. WindowTrusted(L, FALSE, at) = TRUE
  BY <1>2 DEF WindowTrusted, IsHost
<1>7. /\ shown.kind # "command"
      /\ shown.kind = "shell" => shown.cwd = cwd
  <2> DEFINE fg == Foreground(L, at)
  <2>1. shown = [fg EXCEPT !.kind =
                   IF option = None THEN "unknown"
                   ELSE IF @ = "command" /\ (NamesCommand(line, option) \/ IsSmashed(fg.argv)) THEN "shell"
                   ELSE @]
    BY DEF TerminalShows, Shows
  <2> HIDE DEF option, fg, shown
  <2>2. CASE fg = NothingShown
    <3>1. fg = [kind |-> "unknown", argv |-> <<>>, cwd |-> None]
      BY <2>2 DEF NothingShown
    <3>2. shown.kind = "unknown"
      BY <2>1, <3>1
    <3> QED  BY <3>2
  <2>3. CASE fg = [kind |-> "shell", argv |-> <<>>, cwd |-> cwd]
    <3>1. shown.kind \in {"unknown", "shell"} /\ shown.cwd = cwd
      BY <2>1, <2>3
    <3> QED  BY <3>1
  <2> QED  BY <1>2, <2>2, <2>3 DEF fg
<1>8. CaptureResolve(L, class, at, FALSE, FALSE)
        = CaptureFrom(L, class, TRUE, d, at, line, shown)
  BY <1>2, <1>4, <1>5, <1>6 DEF CaptureResolve, CaptureAt
<1>9. own
  BY <1>2, <1>3 DEF Fits
<1>10. CaptureFrom(L, class, TRUE, d, at, line, shown)
         = Captured(line, "cmdline", IF shown.kind = "shell" THEN shown.cwd ELSE Cwd(L, at),
                    NamedCommand(L, line), 0, TRUE)
  <2> HIDE DEF shown, d
  <2> QED  BY <1>7, <1>9 DEF CaptureFrom
<1>11. (IF shown.kind = "shell" THEN shown.cwd ELSE Cwd(L, at)) = cwd
  BY <1>2, <1>7
<1> QED  BY <1>4, <1>8, <1>10, <1>11 DEF L, TakenAgain

(* What a terminal runs is a program's own command: it does not start with *)
(* a flag, and neither it nor the option before it holds a word of a       *)
(* helper or a service; and the terminal's own command names a program.    *)
RunsPrograms(m) ==
  \A p \in DOMAIN m.procs :
    LET option == TerminalOption(m, Argv(m, p))
        shown == Foreground(m, p)
    IN  option # None /\ shown.kind = "command" =>
          /\ Program(Argv(m, p)) # None /\ shown.argv[1] \notin Flags
          /\ ~HasWord(shown.argv, Helper \cup Service) /\ option \notin Helper \cup Service

(* The first word of hosted follows the flags of the terminal.             *)
LEMMA AfterTheFlags ==
  ASSUME NEW a, IsWords(a), \A i \in DOMAIN a : a[i] \in Flags,
         NEW b, IsWords(b), b # <<>>, b[1] \notin Flags
  PROVE  LET line == a \o b IN
         /\ \E i \in DOMAIN line : line[i] \notin Flags
         /\ SubSeq(line, FirstNot(line, Flags), Len(line)) = b
<1> DEFINE line == a \o b
           k == FirstNot(line, Flags)
           n == Len(a) + 1
<1>1. Len(a) \in Nat /\ Len(b) \in Nat /\ DOMAIN a = 1 .. Len(a)
  BY WordsLen
<1>2. Len(b) > 0
  <2>1. Len(b) # 0
    BY DEF IsWords
  <2> QED  BY <1>1, <2>1
<1>3. /\ IsWords(line) /\ Len(line) = Len(a) + Len(b)
      /\ \A i \in 1 .. Len(a) : line[i] = a[i]
      /\ \A i \in Len(a) + 1 .. Len(a) + Len(b) : line[i] = b[i - Len(a)]
  BY WordsJoin
<1> HIDE DEF line
<1>4. n \in Len(a) + 1 .. Len(a) + Len(b) /\ n - Len(a) = 1 /\ n \in 1 .. Len(line)
  BY <1>1, <1>2, <1>3
<1>5. line[n] \notin Flags /\ DOMAIN line = 1 .. Len(line)
  BY <1>3, <1>4, WordsLen
<1>6. IsFirstNot(line, Flags, k)
  BY <1>3, FirstNotIs
<1> HIDE DEF k
<1>7. k = n
  <2>1. k # 0
    BY <1>4, <1>5, <1>6 DEF IsFirstNot
  <2>2. k \in 1 .. Len(line) /\ line[k] \notin Flags /\ \A j \in 1 .. k - 1 : line[j] \in Flags
    BY <1>1, <1>3, <1>6, <2>1 DEF IsFirstNot
  <2>3. ~(k <= Len(a))
    <3> SUFFICES ASSUME k <= Len(a) PROVE FALSE
      OBVIOUS
    <3>1. k \in 1 .. Len(a)
      BY <1>1, <2>2
    <3> QED  BY <1>1, <1>3, <2>2, <3>1
  <2>4. ~(n < k)
    <3> SUFFICES ASSUME n < k PROVE FALSE
      OBVIOUS
    <3>1. n \in 1 .. k - 1
      BY <1>1, <1>3, <1>4, <2>2
    <3> QED  BY <1>5, <2>2, <3>1
  <2>5. k \in Int /\ n \in Int
    BY <1>1, <1>3, <2>2
  <2> QED  BY <1>1, <2>3, <2>4, <2>5
<1>8. SubSeq(line, n, Len(line)) = SubSeq(a, n, Len(a)) \o b
  <2>1. Len(a) \in 0 .. Len(a)
    BY <1>1
  <2> QED  BY <2>1, WordsAfter DEF line
<1>9. SubSeq(a, n, Len(a)) = <<>>
  BY <1>1 DEF IsWords
<1>10. <<>> \o b = b
  BY DEF IsWords
<1> QED  BY <1>4, <1>5, <1>7, <1>8, <1>9, <1>10 DEF line, k

(* The command line a terminal is captured with, hosting a program, is one *)
(* that names that program.                                                *)
LEMMA HostedNames ==
  ASSUME NEW m, NEW argv, IsWords(argv), Program(argv) # None, argv # <<>>,
         NEW hosted, IsWords(hosted), hosted # <<>>, hosted[1] \notin Flags,
         TerminalOption(m, argv) # None, ~NamesCommand(argv, TerminalOption(m, argv))
  PROVE  LET line == HostedCommand(m, argv, hosted) IN
         /\ IsWords(line) /\ Program(line) = Program(argv)
         /\ NamedCommand(m, line) = Program(hosted)
         /\ line # <<>> /\ ~IsSmashed(line)
         /\ \A W : ~HasWord(argv, W) /\ ~HasWord(hosted, W) /\ TerminalOption(m, argv) \notin W
                   => ~HasWord(line, W)
<1> DEFINE option == TerminalOption(m, argv)
           front == IF option = NoOption THEN <<>> ELSE <<option>>
           tail == front \o hosted
           line == argv \o tail
<1>1. IsWords(front)
  BY WordsOne
<1>2. HostedCommand(m, argv, hosted) = line
  <2>1. HostedCommand(m, argv, hosted) = argv \o front \o hosted
    BY DEF HostedCommand
  <2> HIDE DEF front
  <2>2. argv \o front \o hosted = argv \o (front \o hosted)
    BY <1>1 DEF IsWords
  <2> QED  BY <2>1, <2>2
<1>3. IsWords(tail)
  <2> HIDE DEF front
  <2> QED  BY <1>1, WordsJoin
<1>4. FirstNot(argv, Wrapping) # 0
  BY DEF Program, FirstNot
<1>5. /\ Program(line) = Program(argv) /\ AfterProgram(line) = AfterProgram(argv) \o tail
      /\ IsWords(AfterProgram(argv)) /\ IsWords(line)
  <2> HIDE DEF tail
  <2> QED  BY <1>3, <1>4, ProgramGrows, WordsJoin
<1>6. TerminalOption(m, line) = option
  <2> HIDE DEF line
  <2> QED  BY <1>5 DEF TerminalOption, option
<1>7. ASSUME option = NoOption PROVE NamedCommand(m, line) = Program(hosted)
  <2>1. tail = hosted
    <3>1. <<>> \o hosted = hosted
      BY DEF IsWords
    <3> QED  BY <1>7, <3>1
  <2> DEFINE after == AfterProgram(argv)
  <2>2. AfterProgram(line) = after \o hosted
    BY <1>5, <2>1
  <2>3. \A i \in DOMAIN after : after[i] \in Flags
    BY <1>7 DEF NamesCommand
  <2> HIDE DEF line, tail, after, option
  <2>4. IsWords(after)
    BY <1>5 DEF after
  <2>5. /\ \E i \in DOMAIN (after \o hosted) : (after \o hosted)[i] \notin Flags
        /\ SubSeq(after \o hosted, FirstNot(after \o hosted, Flags), Len(after \o hosted)) = hosted
    BY <2>3, <2>4, AfterTheFlags
  <2>6. NamesCommand(line, NoOption)
    BY <2>2, <2>5 DEF NamesCommand
  <2>7. NamedCommand(m, line)
          = Program(SubSeq(after \o hosted, FirstNot(after \o hosted, Flags), Len(after \o hosted)))
    <3>1. option # None
      BY DEF option
    <3> QED  BY <1>6, <1>7, <2>2, <2>6, <3>1 DEF NamedCommand, FirstNot
  <2> QED  BY <2>5, <2>7
<1>8. ASSUME option # NoOption PROVE NamedCommand(m, line) = Program(hosted)
  <2>1. tail = <<option>> \o hosted
    BY <1>8
  <2>2. ~HasWord(argv, {option})
    BY <1>8 DEF NamesCommand
  <2> HIDE DEF option
  <2>3. /\ HasWord(argv \o (<<option>> \o hosted), {option})
        /\ LET it == argv \o (<<option>> \o hosted) IN
           SubSeq(it, 1 + FirstAt(it, option), Len(it)) = hosted
    BY <2>2, AfterTheOption
  <2>4. HasWord(line, {option}) /\ SubSeq(line, 1 + FirstAt(line, option), Len(line)) = hosted
    BY <2>1, <2>3
  <2> HIDE DEF line
  <2>5. NamesCommand(line, option)
    BY <1>8, <2>4 DEF NamesCommand
  <2>6. NamedCommand(m, line) = Program(SubSeq(line, 1 + FirstAt(line, option), Len(line)))
    <3>1. option # None
      BY DEF option
    <3> QED  BY <1>6, <1>8, <2>5, <3>1 DEF NamedCommand, FirstAt
  <2> QED  BY <2>4, <2>6
<1>9. Len(argv) \in Nat /\ Len(hosted) \in Nat /\ Len(front) \in {0, 1} /\ Len(argv) > 0 /\ Len(hosted) > 0
  <2>1. Len(argv) # 0 /\ Len(hosted) # 0
    BY DEF IsWords
  <2> QED  BY <2>1, WordsLen
<1> HIDE DEF front
<1>10. /\ Len(tail) = Len(front) + Len(hosted)
       /\ \A i \in 1 .. Len(front) : tail[i] = front[i]
       /\ \A i \in Len(front) + 1 .. Len(front) + Len(hosted) : tail[i] = hosted[i - Len(front)]
  BY <1>1, WordsJoin
<1> HIDE DEF tail
<1>11. /\ Len(line) = Len(argv) + Len(tail)
       /\ \A i \in 1 .. Len(argv) : line[i] = argv[i]
       /\ \A i \in Len(argv) + 1 .. Len(argv) + Len(tail) : line[i] = tail[i - Len(argv)]
  BY <1>3, WordsJoin
<1> HIDE DEF line, option
<1>12. Len(line) > 1
  BY <1>9, <1>10, <1>11
<1>13. line # <<>> /\ ~IsSmashed(line)
  <2> DEFINE n == Len(line)
  <2>1. n \in Nat /\ n > 1
    BY <1>5, <1>12, WordsLen
  <2> HIDE DEF n
  <2>2. n # 1 /\ n # 0
    BY <2>1
  <2> QED  BY <2>2 DEF IsSmashed, n
<1>14. ASSUME NEW W, ~HasWord(argv, W), ~HasWord(hosted, W), option \notin W PROVE ~HasWord(line, W)
  <2> SUFFICES ASSUME NEW i \in DOMAIN line PROVE line[i] \notin W
    BY DEF HasWord
  <2>1. i \in 1 .. Len(line)
    BY <1>5, WordsLen
  <2>2. CASE i \in 1 .. Len(argv)
    BY <1>11, <1>14, <2>2, WordsLen DEF HasWord
  <2>3. CASE i \in Len(argv) + 1 .. Len(argv) + Len(front)
    <3>1. i - Len(argv) = 1 /\ Len(front) = 1 /\ i \in Len(argv) + 1 .. Len(argv) + Len(tail)
      BY <1>9, <1>10, <2>3
    <3>2. line[i] = tail[1] /\ tail[1] = front[1]
      BY <1>10, <1>11, <3>1
    <3>3. front[1] = option
      BY <3>1 DEF front
    <3> QED  BY <1>14, <3>2, <3>3
  <2>4. CASE i \in Len(argv) + Len(front) + 1 .. Len(line)
    <3> DEFINE j == i - Len(argv)
               k == j - Len(front)
    <3>1. j \in Len(front) + 1 .. Len(front) + Len(hosted) /\ k \in 1 .. Len(hosted)
          /\ i \in Len(argv) + 1 .. Len(argv) + Len(tail)
      BY <1>9, <1>10, <1>11, <2>4
    <3>2. line[i] = tail[j] /\ tail[j] = hosted[k]
      BY <1>10, <1>11, <3>1
    <3> HIDE DEF k, j
    <3> QED  BY <1>14, <3>1, <3>2, WordsLen DEF HasWord
  <2> QED  BY <1>9, <1>10, <1>11, <2>1, <2>2, <2>3, <2>4
<1>15. /\ IsWords(line) /\ Program(line) = Program(argv)
       /\ NamedCommand(m, line) = Program(hosted)
  BY <1>2, <1>5, <1>7, <1>8
<1> QED  BY <1>2, <1>13, <1>14, <1>15 DEF option

LEMMA ForegroundIs ==
  ASSUME NEW m, \A q : IsWords(Argv(m, q)), NEW p
  PROVE  LET fg == Foreground(m, p) IN
         /\ fg = [kind |-> fg.kind, argv |-> fg.argv, cwd |-> fg.cwd]
         /\ IsWords(fg.argv) /\ (fg.kind = "command" => fg.argv # <<>>)
<1> DEFINE Fine(f) == /\ f = [kind |-> f.kind, argv |-> f.argv, cwd |-> f.cwd]
                      /\ IsWords(f.argv) /\ (f.kind = "command" => f.argv # <<>>)
<1>1. Fine(NothingShown)
  BY WordsOne DEF NothingShown
<1>2. ASSUME NEW shell, NEW leader PROVE Fine(LeaderShows(m, shell, leader))
  BY <1>1, WordsOne DEF LeaderShows
<1>3. \/ Foreground(m, p) = NothingShown
      \/ \E shell, leader : Foreground(m, p) = LeaderShows(m, shell, leader)
  BY DEF Foreground
<1> HIDE DEF Fine
<1>4. Fine(Foreground(m, p))
  BY <1>1, <1>2, <1>3
<1> QED  BY <1>4 DEF Fine

LEMMA SettlesAt ==
  ASSUME NEW m, ~IsHost(m, 0), \A q : IsWords(Argv(m, q)), RunsPrograms(m),
         NEW r, IsMachine(r), r.apps = m.apps, NEW at, NewPid(r, at), NEW class, NEW p, NEW xwayland,
         CaptureResolve(m, class, p, xwayland, FALSE).source = "cmdline"
  PROVE  TakenAgain(r, class, CaptureResolve(m, class, p, xwayland, FALSE), at)
<1> DEFINE trusted == WindowTrusted(m, xwayland, p)
           q == OwnProcess(m, p)
           argv == Argv(m, q)
           fg == Foreground(m, q)
           option == TerminalOption(m, argv)
           shown == TerminalShows(m, q, argv)
           d == Desktop(m, class, FALSE)
           c == CaptureResolve(m, class, p, xwayland, FALSE)
           fits(line) == d = 0 \/ Program(m.apps[d].argv) = Program(line)
           own == /\ trusted /\ q # 0 /\ ~IsSmashed(argv) /\ ~HasWord(argv, Service) /\ fits(argv)
<1>1. c = CaptureFrom(m, class, trusted, Desktop(m, class, ~trusted), q, argv, shown)
  BY DEF CaptureResolve, CaptureAt
<1>2. trusted \in BOOLEAN
  BY DEF WindowTrusted, IsHost
<1>3. own
  <2> DEFINE e == Desktop(m, class, ~trusted)
             mine == /\ trusted /\ q # 0 /\ ~IsSmashed(argv) /\ ~HasWord(argv, Service)
                     /\ e = 0 \/ Program(m.apps[e].argv) = Program(argv)
  <2>1. c.source = "cmdline"
    OBVIOUS
  <2> HIDE DEF c, trusted, argv, shown, q, e
  <2>2. ~mine => c.source # "cmdline"
    <3> SUFFICES ASSUME ~mine PROVE c.source # "cmdline"
      OBVIOUS
    <3>1. \/ c = Captured(m.apps[e].argv, "desktop-file", None, None, e, trusted)
          \/ c = Captured(<<class>>, None, None, None, 0, trusted)
      BY <1>1 DEF CaptureFrom, e
    <3>2. c.source = "desktop-file" \/ c.source = None
      BY <3>1, CapturedIs
    <3> QED  BY <3>2 DEF None
  <2>3. mine
    BY <2>1, <2>2
  <2>4. trusted = TRUE
    BY <1>2, <2>3
  <2>5. e = d
    BY <2>4 DEF e
  <2> QED  BY <2>3, <2>5
<1>4. trusted = TRUE /\ Desktop(m, class, ~trusted) = d
  <2>1. trusted = TRUE
    BY <1>2, <1>3
  <2> HIDE DEF trusted
  <2> QED  BY <2>1
<1>5. argv # <<>> /\ ~HasWord(argv, Helper) /\ ~HasWord(argv, Service) /\ ~IsSmashed(argv)
  BY <1>3, OwnProcessIsHost
<1>6. q \in DOMAIN m.procs /\ IsWords(argv)
  BY <1>5 DEF Argv
<1>7. /\ fg = [kind |-> fg.kind, argv |-> fg.argv, cwd |-> fg.cwd]
      /\ IsWords(fg.argv) /\ (fg.kind = "command" => fg.argv # <<>>)
  BY ForegroundIs
<1>8. shown = [fg EXCEPT !.kind =
                 IF option = None THEN "unknown"
                 ELSE IF @ = "command" /\ (NamesCommand(argv, option) \/ IsSmashed(fg.argv)) THEN "shell"
                 ELSE @]
  BY DEF TerminalShows, Shows
<1>9. /\ shown.argv = fg.argv
      /\ shown.kind = IF option = None THEN "unknown"
                      ELSE IF fg.kind = "command" /\ (NamesCommand(argv, option) \/ IsSmashed(fg.argv))
                      THEN "shell" ELSE fg.kind
  <2> HIDE DEF fg, option, shown, argv
  <2> QED  BY <1>7, <1>8
<1> DEFINE line == HostedCommand(m, argv, fg.argv)
<1>12. /\ \A words : NamedCommand(r, words) = NamedCommand(m, words)
       /\ Desktop(r, class, FALSE) = d /\ r.apps = m.apps
  BY SameLaunchers
<1>10. CASE shown.kind = "command"
  <2>1. option # None /\ fg.kind = "command" /\ ~NamesCommand(argv, option)
    <3> HIDE DEF fg, option, shown, argv
    <3> QED  BY <1>9, <1>10
  <2>2. /\ Program(argv) # None /\ fg.argv[1] \notin Flags
        /\ ~HasWord(fg.argv, Helper \cup Service) /\ option \notin Helper \cup Service
    BY <1>6, <2>1 DEF RunsPrograms
  <2>3. c = Captured(line, "cmdline", shown.cwd, Program(fg.argv), 0, TRUE)
    <3> HIDE DEF fg, option, shown, argv, q, d, trusted
    <3> QED  BY <1>1, <1>3, <1>4, <1>9, <1>10 DEF CaptureFrom
  <2>4. ~HasWord(argv, Helper \cup Service)
    BY <1>5 DEF HasWord
  <2> HIDE DEF fg, argv
  <2>5. /\ Program(line) = Program(argv) /\ NamedCommand(m, line) = Program(fg.argv)
        /\ line # <<>> /\ ~IsSmashed(line)
        /\ ~HasWord(line, Helper \cup Service)
    <3>1. fg.argv # <<>>
      BY <1>7, <2>1
    <3> DEFINE hosted == fg.argv
    <3>2. IsWords(hosted) /\ hosted # <<>> /\ hosted[1] \notin Flags /\ ~HasWord(hosted, Helper \cup Service)
      BY <1>7, <2>2, <3>1
    <3> HIDE DEF hosted
    <3> QED  BY <1>5, <1>6, <2>1, <2>2, <2>4, <3>2, HostedNames DEF hosted
  <2>6. ~HasWord(line, Helper) /\ ~HasWord(line, Service)
    BY <2>5 DEF HasWord
  <2>7. fits(line)
    BY <1>3, <2>5
  <2>8. c = Captured(line, "cmdline", shown.cwd, NamedCommand(r, line), 0, TRUE)
    BY <1>12, <2>3, <2>5
  <2> HIDE DEF c, line, shown
  <2>9. Fits(r, class, line)
    BY <1>12, <2>7 DEF Fits
  <2>10. TakenAgain(r, class, c, at)
    BY <2>5, <2>6, <2>8, <2>9, CapturedAgain
  <2> QED  BY <2>10 DEF c
<1>11. CASE shown.kind # "command"
  <2> DEFINE cwd == IF shown.kind = "shell" THEN shown.cwd ELSE Cwd(m, q)
  <2>1. c = Captured(argv, "cmdline", cwd, NamedCommand(m, argv), 0, TRUE)
    <3> HIDE DEF fg, option, shown, argv, q, d, trusted
    <3> QED  BY <1>1, <1>3, <1>4, <1>11 DEF CaptureFrom
  <2>2. Fits(r, class, argv)
    BY <1>3, <1>12 DEF Fits
  <2> HIDE DEF argv
  <2>3. c = Captured(argv, "cmdline", cwd, NamedCommand(r, argv), 0, TRUE)
    BY <1>12, <2>1
  <2> HIDE DEF c, cwd
  <2>4. TakenAgain(r, class, c, at)
    BY <1>5, <2>2, <2>3, CapturedAgain
  <2> QED  BY <2>4 DEF c
<1> QED  BY <1>10, <1>11

-----------------------------------------------------------------------------
(* A command line captured at one login and launched at the next is        *)
(* captured again as it is: words, directory and what the terminal runs    *)
(* (resolve.rs, capture_resolve; host.rs, own_process, foreground).  The   *)
(* condition is about what terminals run: a hosted command with a word of  *)
(* a helper makes the terminal look like one when it is launched.          *)
THEOREM RelaunchStays ==
  ASSUME \A k \in DOMAIN Machines : RunsPrograms(Indexed(k, Machines[k]))
  PROVE  Spec => []RelaunchSettles
<1>1. Init => MachineInv
  BY DEF Init, MachineInv
<1>2. ASSUME NEW k \in DOMAIN Machines, NEW i \in DOMAIN Machines[k].windows PROVE Resettled[k][i]
  <2> DEFINE m == Readings[k]
             n == Indexed(k, Machines[k])
             w == Machines[k].windows[i]
             pids == DOMAIN Machines[k].procs
             at == 1 + Max(pids)
             c == m.captures[i][FALSE]
  <2>1. /\ m.procs = Machines[k].procs /\ m.apps = n.apps /\ m.captures = Captures(n)
        /\ n.procs = Machines[k].procs /\ n.windows = Machines[k].windows
    BY ReadingIs
  <2>2. IsMachine(m)
    <3> DEFINE captures == Captures(n)
    <3>1. m = [k |-> n.k, procs |-> n.procs, apps |-> n.apps, windows |-> n.windows, captures |-> captures]
      BY DEF Readings, WithCaptures
    <3> HIDE DEF captures, n, m
    <3> QED  BY <3>1 DEF IsMachine
  <2>3. Resettled[k][i] = SameAgain(m, w.class, c, at)
    <3> DEFINE settled(l) == [j \in DOMAIN Machines[l].windows |->
                 SameAgain(Readings[l], Machines[l].windows[j].class, Readings[l].captures[j][FALSE],
                           1 + Max(DOMAIN Machines[l].procs))]
    <3>1. Resettled[k] = settled(k)
      BY DEF Resettled
    <3> QED  BY <3>1
  <2>4. c = CaptureResolve(n, w.class, w.pid, w.xwayland, FALSE)
    <3> DEFINE resolved(j) == [shares \in BOOLEAN |->
                 CaptureResolve(n, n.windows[j].class, n.windows[j].pid, n.windows[j].xwayland, shares)]
    <3>1. m.captures = [j \in DOMAIN n.windows |-> resolved(j)]
      BY <2>1 DEF Captures
    <3>2. FALSE \in BOOLEAN /\ i \in DOMAIN n.windows
      BY <2>1
    <3> HIDE DEF n, m
    <3>3. m.captures[i] = resolved(i)
      BY <3>1, <3>2
    <3>4. m.captures[i][FALSE]
            = CaptureResolve(n, n.windows[i].class, n.windows[i].pid, n.windows[i].xwayland, FALSE)
      BY <3>2, <3>3
    <3> QED  BY <2>1, <3>4
  <2>5. ~IsHost(n, 0) /\ \A q : IsWords(Argv(n, q))
    BY <2>1, MachinesAssumption, WordsOne DEF IsHost, Argv, IsWords
  <2>6. SUFFICES ASSUME c.source = "cmdline" PROVE TakenAgain(m, w.class, c, at)
    BY <2>3 DEF SameAgain, TakenAgain
  <2>7. NewPid(m, at)
    <3>1. IsFiniteSet(pids) /\ pids \subseteq Nat
      BY MachinesAssumption
    <3>2. \A p \in pids : p \in Nat \ {0} /\ m.procs[p].ppid \in {0, 1} \cup pids
      <4>1. \A p \in pids : p \in Nat \ {0} /\ Machines[k].procs[p].ppid \in {0, 1} \cup pids
        BY MachinesAssumption
      <4> QED  BY <2>1, <4>1
    <3>3. pids # {}
      <4>1. Gated(n, w.pid, w.xwayland, FALSE, c)
        BY <2>4, <2>5, CaptureIsGated
      <4>2. \E q : Argv(n, q) # <<>>
        BY <2>6, <4>1 DEF Gated, Vouched
      <4> QED  BY <2>1, <4>2 DEF Argv
    <3> HIDE DEF pids, m
    <3> DEFINE top == Max(pids)
    <3>4. Max(pids) \in pids /\ \A p \in pids : Max(pids) >= p
      BY <3>1, <3>3, GreatestNat
    <3>5. at \in Nat /\ at > 1 /\ \A p \in pids : p < at /\ p # at
      <4>1. top \in Nat \ {0} /\ at = top + 1 /\ \A p \in pids : p \in Nat /\ top >= p
        BY <3>2, <3>4
      <4> HIDE DEF top, at
      <4>2. at \in Nat /\ at > 1
        BY <4>1
      <4> QED  BY <4>1, <4>2
    <3>6. \A p \in pids : m.procs[p].ppid # at
      BY <3>2, <3>5
    <3> QED  BY <2>1, <3>1, <3>5, <3>6 DEF NewPid, pids
  <2> HIDE DEF m, n, w, at, c
  <2>8. RunsPrograms(n)
    BY DEF n
  <2>9. CaptureResolve(n, w.class, w.pid, w.xwayland, FALSE).source = "cmdline"
    BY <2>4, <2>6
  <2>10. TakenAgain(m, w.class, CaptureResolve(n, w.class, w.pid, w.xwayland, FALSE), at)
    BY <2>1, <2>2, <2>5, <2>7, <2>8, <2>9, SettlesAt
  <2> QED  BY <2>4, <2>10
<1>3. MachineInv => RelaunchSettles
  <2> SUFFICES ASSUME MachineInv, NEW i \in ToSet(open) PROVE Resettled[machine.k][i]
    BY DEF RelaunchSettles
  <2>1. PICK k \in DOMAIN Machines : machine = Readings[k]
    BY DEF MachineInv
  <2>2. machine.k = k /\ machine.windows = Machines[k].windows
    BY <2>1, ReadingIs
  <2>3. i \in DOMAIN Machines[k].windows
    <3>1. open \in Seq(DOMAIN Machines[k].windows)
      BY <2>2 DEF MachineInv
    <3> QED  BY <3>1 DEF ToSet
  <2> QED  BY <1>2, <2>2, <2>3
<1> QED  BY <1>1, <1>3, MachineStep, PTL DEF Spec

-----------------------------------------------------------------------------
(* What is shown is run.                                                    *)

Dash == <<"-c">>
Three(a, b, c) == <<a, b, c>>

LEMMA ThreeIs ==
  ASSUME NEW a, NEW b, NEW c
  PROVE  Len(Three(a, b, c)) = 3 /\ Three(a, b, c)[1] = a /\ Three(a, b, c)[2] = b /\ Three(a, b, c)[3] = c
BY DEF Three

LEMMA ThreeWhole ==
  ASSUME NEW A, NEW s \in Seq(A), Len(s) = 3
  PROVE  s = Three(s[1], s[2], s[3])
BY DEF Three

(* The shell, with a line.                                                 *)
LEMMA ShellLine ==
  ASSUME NEW line
  PROVE  LineWords(Three(Shell, Dash, line)) = ReadWords(line).words
<1> DEFINE t == Three(Shell, Dash, line)
<1>1. Len(t) = 3 /\ t[1] = Shell /\ t[2] = Dash /\ t[3] = line
  BY ThreeIs
<1> HIDE DEF t
<1>2. IsShellCommand(t)
  BY <1>1 DEF IsShellCommand, Dash
<1>3. LineWords(t) = ReadWords(line).words
  BY <1>1, <1>2 DEF LineWords
<1> QED  BY <1>3 DEF t

(* A trimmed line is typed as its words or as a line of the shell.         *)
LEMMA TypedIs ==
  ASSUME NEW line, line # <<>>, Trimmed(line) = line
  PROVE  \/ TypedArgv(line) = ReadWords(line).words
         \/ TypedArgv(line) = Three(Shell, Dash, line)
<1>1. TypedArgv(line) = WordsOrBash(line, PlainArgv(line))
  BY DEF TypedArgv, LineArgv
<1>2. PlainArgv(line) = ReadWords(line).words \/ PlainArgv(line) = <<>>
  BY DEF PlainArgv
<1> DEFINE plain == PlainArgv(line)
<1> HIDE DEF plain
<1>3. \/ WordsOrBash(line, plain) = plain /\ plain # <<>>
      \/ WordsOrBash(line, plain) = Three(Shell, Dash, line)
  BY DEF WordsOrBash, Three, Dash
<1> QED  BY <1>1, <1>2, <1>3 DEF plain

LEMMA ShownBack ==
  ASSUME NEW D, Marks \subseteq D, NEW argv \in Seq(Seq(D)), argv # <<>>, ~LosesBlank(argv)
  PROVE  SameCommand(TypedArgv(ExecText(Canonical(argv))), argv)
<1> DEFINE last == argv[Len(argv)]
           q == QuoteArgv(argv)
           line == ExecText(Canonical(argv))
           typed == TypedArgv(line)
<1>1. SplitCanonical(Canonical(argv)) = argv
  BY CanonicalBack DEF Marks
<1>2. line = IF IsShellCommand(argv) THEN argv[3] ELSE q
  BY <1>1 DEF ExecText
<1>3. CASE IsShellCommand(argv)
  <2>1. Len(argv) = 3 /\ argv[1] = Shell /\ argv[2] = Dash
    BY <1>3 DEF IsShellCommand, Dash
  <2>2. line = last /\ last = argv[3]
    BY <1>2, <1>3, <2>1
  <2>3. last # <<>> /\ Trimmed(last) = last
    BY <1>3 DEF LosesBlank
  <2>4. argv = Three(Shell, Dash, last)
    <3>1. argv = Three(argv[1], argv[2], argv[3])
      BY <2>1, ThreeWhole
    <3> QED  BY <2>1, <2>2, <3>1
  <2>5. LineWords(argv) = ReadWords(last).words
    <3> HIDE DEF last
    <3> QED  BY <2>4, ShellLine
  <2> HIDE DEF line, last
  <2>6. typed = ReadWords(last).words \/ typed = Three(Shell, Dash, last)
    BY <2>2, <2>3, TypedIs
  <2> QED  BY <2>4, <2>5, <2>6 DEF SameCommand, line
<1>4. CASE ~IsShellCommand(argv)
  <2>1. ~EndsInBlank(last)
    BY DEF LosesBlank, EndsInBlank, Last
  <2>2. Trimmed(q) = q /\ q # <<>>
    BY <2>1, LineIsTrimmed
  <2>3. ReadWords(q).words = argv
    <3>1. ReadWords(q) = [kind |-> "words", words |-> argv]
      BY ReadWordsBack
    <3> HIDE DEF q
    <3> QED  BY <3>1
  <2>4. line = q
    BY <1>2, <1>4
  <2> HIDE DEF line, q
  <2>5. typed = ReadWords(q).words \/ typed = Three(Shell, Dash, q)
    BY <2>2, <2>4, TypedIs
  <2>6. LineWords(Three(Shell, Dash, q)) = argv
    BY <2>3, ShellLine
  <2> QED  BY <2>3, <2>5, <2>6 DEF SameCommand, line
<1> QED  BY <1>3, <1>4

-----------------------------------------------------------------------------
(* A pin's own command.                                                     *)

(* What a word is spelled as, and the characters of it.                    *)
Spelling(w) == IF w \in DOMAIN Spelled THEN Spelled[w] ELSE <<w>>
CharsOf(t) == {t[i] : i \in DOMAIN t}

LEMMA TextsSubset ==
  ASSUME NEW A, NEW B, A \subseteq B, NEW t \in Seq(A)
  PROVE  t \in Seq(B)
OBVIOUS

LEMMA SpellingIs ==
  ASSUME NEW w
  PROVE  Spelling(w) \in Seq(CharsOf(Spelling(w)))
<1>1. CASE w \in DOMAIN Spelled
  BY <1>1, TextsAssumption DEF Spelling, CharsOf
<1>2. CASE w \notin DOMAIN Spelled
  <2> DEFINE t == <<w>>
  <2>1. t \in Seq(CharsOf(t))
    BY DEF CharsOf
  <2>2. Spelling(w) = t
    BY <1>2 DEF Spelling
  <2> HIDE DEF t
  <2> QED  BY <2>1, <2>2
<1> QED  BY <1>1, <1>2

LEMMA SpellIs ==
  ASSUME NEW W, NEW argv \in Seq(W), NEW D, \A w \in W : Spelling(w) \in Seq(D)
  PROVE  Spell(argv) \in Seq(Seq(D)) /\ (argv # <<>> => Spell(argv) # <<>>)
<1> DEFINE n == Len(argv)
           f == [i \in 1 .. n |-> Spelling(argv[i])]
<1>1. Spell(argv) = f
  BY DEF Spell, Spelling
<1>2. n \in Nat /\ \A i \in 1 .. n : argv[i] \in W
  OBVIOUS
<1>3. f \in [1 .. n -> Seq(D)]
  BY <1>2
<1>4. argv # <<>> => n # 0
  OBVIOUS
<1>5. n # 0 => f # <<>>
  <2>1. DOMAIN f = 1 .. n
    OBVIOUS
  <2> HIDE DEF f
  <2> QED  BY <1>2, <2>1
<1> HIDE DEF f, n
<1>6. f \in Seq(Seq(D))
  BY <1>2, <1>3
<1> QED  BY <1>1, <1>4, <1>5, <1>6

LEMMA SpellOne ==
  ASSUME NEW w
  PROVE  Spell(<<w>>)[1] = Spelling(w)
BY DEF Spell, Spelling

(* What is signed runs.                                                    *)
LEMMA TextRuns ==
  ASSUME NEW D, Marks \subseteq D, NEW argv \in Seq(Seq(D)), argv # <<>>,
         NEW label \in Seq(D), NEW cwd \in Seq(D)
  PROVE  RunsAs(Signed(label, argv, cwd), label, argv, cwd)
<1> DEFINE launcher == LauncherBytes(label, SplitCanonical(Canonical(argv)), cwd)
           entry == [exec |-> Canonical(argv), cwd |-> cwd, launcher |-> launcher]
<1>1. {Slash, Quote, Blank, "s"} \subseteq D
  BY DEF Marks
<1>2. IF launcher = NoLauncher THEN \E text \in {label, cwd} \cup ToSet(argv) : ~Printable(text)
      ELSE Decide(entry, launcher) = Spawn(argv, cwd) /\ ReadString(launcher.name) = label
  BY <1>1, LauncherBack
<1>3. Signed(label, argv, cwd) = entry
  BY DEF Signed
<1>4. entry.launcher = launcher
  OBVIOUS
<1> HIDE DEF launcher, entry
<1> QED  BY <1>2, <1>3, <1>4 DEF RunsAs

(* Any command of words, with its label and its directory.                 *)
LEMMA PinIsCarried ==
  ASSUME NEW p, IsWords(p.argv), p.argv # <<>>
  PROVE  /\ RunsAs(Signed(LabelText(p), Spell(p.argv), CwdText(p)), LabelText(p), Spell(p.argv), CwdText(p))
         /\ LosesBlank(Spell(p.argv))
              \/ SameCommand(TypedArgv(ExecText(Canonical(Spell(p.argv)))), Spell(p.argv))
<1> DEFINE label == LabelText(p)
           argv == Spell(p.argv)
           cwd == CwdText(p)
<1>1. PICK W : p.argv \in Seq(W)
  BY DEF IsWords
<1> DEFINE D == (Marks \cup CharsOf(label) \cup CharsOf(cwd)) \cup UNION {CharsOf(Spelling(w)) : w \in W}
<1>2. label \in Seq(CharsOf(label))
  BY SpellingIs, SpellOne DEF LabelText
<1>3. cwd \in Seq(CharsOf(cwd))
  <2>1. CASE p.cwd = None
    <3>1. cwd = <<>>
      BY <2>1 DEF CwdText
    <3> HIDE DEF cwd
    <3> QED  BY <3>1
  <2>2. CASE p.cwd # None
    <3>1. cwd = Spelling(p.cwd)
      BY <2>2, SpellOne DEF CwdText
    <3> HIDE DEF cwd
    <3> QED  BY <3>1, SpellingIs
  <2> QED  BY <2>1, <2>2
<1>4. CharsOf(label) \subseteq D /\ CharsOf(cwd) \subseteq D /\ Marks \subseteq D
      /\ \A w \in W : CharsOf(Spelling(w)) \subseteq D
  OBVIOUS
<1> HIDE DEF label, cwd, D
<1>5. label \in Seq(D) /\ cwd \in Seq(D)
  BY <1>2, <1>3, <1>4, TextsSubset
<1>6. \A w \in W : Spelling(w) \in Seq(D)
  BY <1>4, SpellingIs, TextsSubset
<1>7. argv \in Seq(Seq(D)) /\ argv # <<>>
  BY <1>1, <1>6, SpellIs
<1> HIDE DEF argv
<1>8. RunsAs(Signed(label, argv, cwd), label, argv, cwd)
  BY <1>4, <1>5, <1>7, TextRuns
<1>9. LosesBlank(argv) \/ SameCommand(TypedArgv(ExecText(Canonical(argv))), argv)
  BY <1>4, <1>7, ShownBack
<1> QED  BY <1>8, <1>9 DEF label, argv, cwd

-----------------------------------------------------------------------------
(* What is typed is words.                                                  *)

(* A reading of a line is always of words.                                 *)
LineState(s) ==
  s = [words |-> s.words, cur |-> s.cur, have |-> s.have, at |-> s.at] /\ IsWords(s.words)

LEMMA WordsGrow ==
  ASSUME NEW ws, IsWords(ws), NEW w
  PROVE  IsWords(Append(ws, w))
<1>1. PICK W : ws \in Seq(W)
  BY DEF IsWords
<1> DEFINE V == W \cup {w}
<1>2. W \subseteq V /\ w \in V
  OBVIOUS
<1> HIDE DEF V
<1>3. ws \in Seq(V)
  BY <1>1, <1>2, TextsSubset
<1>4. Append(ws, w) \in Seq(V)
  BY <1>2, <1>3
<1> QED  BY <1>4 DEF IsWords

LEMMA LineStateStays ==
  ASSUME NEW s, LineState(s)
  PROVE  /\ \A at : LineState(Goes(s, at)) /\ LineState(Begins(s, at))
         /\ \A text : LineState(Puts(s, text))
         /\ LineState(EndsWord(s))
<1>1. \A at : LineState(Goes(s, at))
  BY DEF LineState, Goes
<1>2. \A at : LineState(Begins(s, at))
  <2> TAKE at
  <2> DEFINE t == [s EXCEPT !.at = at]
             yes == TRUE
  <2>1. LineState(t)
    BY DEF LineState
  <2>2. Begins(s, at) = [t EXCEPT !.have = yes]
    BY DEF Begins
  <2> HIDE DEF t, yes
  <2>3. LineState([t EXCEPT !.have = yes])
    BY <2>1 DEF LineState
  <2> QED  BY <2>2, <2>3
<1>3. \A text : LineState(Puts(s, text))
  <2> TAKE text
  <2> DEFINE cur == s.cur \o text
             t == [s EXCEPT !.cur = cur]
             yes == TRUE
  <2>1. Puts(s, text) = [t EXCEPT !.have = yes]
    BY DEF Puts
  <2> HIDE DEF cur
  <2>2. LineState(t)
    BY DEF LineState
  <2> HIDE DEF t, yes
  <2>3. LineState([t EXCEPT !.have = yes])
    BY <2>2 DEF LineState
  <2> QED  BY <2>1, <2>3
<1>4. LineState(EndsWord(s))
  <2>1. IsWords(Append(s.words, s.cur))
    BY WordsGrow DEF LineState
  <2> DEFINE grown == Append(s.words, s.cur)
             none == <<>>
             no == FALSE
             t == [s EXCEPT !.words = grown]
             u == [t EXCEPT !.cur = none]
  <2>2. EndsWord(s) = IF s.have THEN [u EXCEPT !.have = no] ELSE s
    BY DEF EndsWord
  <2>3. IsWords(grown)
    BY <2>1
  <2> HIDE DEF grown, none, no
  <2>4. LineState(t)
    BY <2>3 DEF LineState
  <2> HIDE DEF t
  <2>5. LineState(u)
    BY <2>4 DEF LineState
  <2> HIDE DEF u
  <2>6. LineState([u EXCEPT !.have = no])
    BY <2>5 DEF LineState
  <2> QED  BY <2>2, <2>6
<1> QED  BY <1>1, <1>2, <1>3, <1>4

LEMMA LineStateReads ==
  ASSUME NEW s, LineState(s), NEW c
  PROVE  LineState(Read("line", s, c))
<1>1. Read("line", s, c) = ReadChar(s, c)
  BY Zenon DEF Read
<1>2. LineState(Plain(s, c))
  BY LineStateStays DEF Plain
<1>3. LineState(InDouble(s, c))
  BY LineStateStays DEF InDouble
<1>4. \A text, at : LineState(Goes(Puts(s, text), at))
  <2> TAKE text, at
  <2> DEFINE t == Puts(s, text)
  <2>1. LineState(t)
    BY LineStateStays
  <2> HIDE DEF t
  <2> QED  BY <2>1, LineStateStays DEF t
<1>5. \A text, at : LineState(Goes(EndsWord(Puts(s, text)), at))
  <2> TAKE text, at
  <2> DEFINE t == Puts(s, text)
             u == EndsWord(t)
  <2>1. LineState(t)
    BY LineStateStays
  <2> HIDE DEF t
  <2>2. LineState(u)
    BY <2>1, LineStateStays
  <2> HIDE DEF u
  <2> QED  BY <2>2, LineStateStays DEF t, u
<1>6. LineState(ReadChar(s, c))
  BY <1>2, <1>3, <1>4, <1>5, LineStateStays DEF ReadChar
<1> QED  BY <1>1, <1>6

LEMMA ReadIsWords ==
  ASSUME NEW text, Len(text) \in Nat
  PROVE  IsWords(ReadWords(text).words)
<1> DEFINE start == [words |-> <<>>, cur |-> <<>>, have |-> FALSE, at |-> "plain"]
           n == Len(text)
           end == Pass("line", start, text)
           last == IF end.at = "bracket" THEN Puts(end, <<"[">>) ELSE end
           all == EndsWord(last)
<1>1. LineState(start)
  BY WordsOne DEF LineState
<1> HIDE DEF start
<1>2. PICK after : /\ after[0] = start
                   /\ \A i \in 1 .. n : after[i] = Read("line", after[i - 1], text[i])
                   /\ end = after[n]
  BY PassIs
<1> DEFINE S == {i \in Nat : i <= n => LineState(after[i])}
<1>3. 0 \in S
  BY <1>1, <1>2
<1>4. ASSUME NEW i \in Nat, i \in S PROVE i + 1 \in S
  <2> SUFFICES ASSUME i + 1 <= n PROVE LineState(after[i + 1])
    OBVIOUS
  <2>1. i + 1 \in 1 .. n /\ i + 1 - 1 = i /\ LineState(after[i])
    BY <1>4
  <2> QED  BY <1>2, <2>1, LineStateReads
<1>5. n \in S
  <2>1. n \in Nat
    OBVIOUS
  <2> HIDE DEF S, n
  <2> QED  BY <1>3, <1>4, <2>1, NatInSet
<1>6. LineState(end)
  BY <1>2, <1>5
<1> HIDE DEF end
<1>7. LineState(last)
  BY <1>6, LineStateStays
<1> HIDE DEF last
<1>8. LineState(all)
  BY <1>7, LineStateStays
<1>9. ReadWords(text) =
        CASE end.at \in {"plain", "bracket", "comment"} -> [kind |-> "words", words |-> all.words]
          [] end.at \in {"shell", "dollar", "escape"} -> [kind |-> "shell", words |-> <<>>]
          [] OTHER -> [kind |-> "cut", words |-> <<>>]
  BY Zenon DEF ReadWords, end, start, last
<1> HIDE DEF all
<1>10. \/ ReadWords(text) = [kind |-> "words", words |-> all.words]
       \/ ReadWords(text) = [kind |-> "shell", words |-> <<>>]
       \/ ReadWords(text) = [kind |-> "cut", words |-> <<>>]
  BY <1>9
<1> DEFINE r == ReadWords(text)
<1> HIDE DEF r
<1>11. r.words = all.words \/ r.words = <<>>
  BY <1>10 DEF r
<1> QED  BY <1>8, <1>11, WordsOne DEF LineState, r

LEMMA TrimmedIsText ==
  ASSUME NEW D, NEW t \in Seq(D)
  PROVE  Trimmed(t) \in Seq(D)
<1> DEFINE kept == {i \in DOMAIN t : t[i] \notin Blanks}
<1>1. kept \subseteq 1 .. Len(t) /\ IsFiniteSet(kept)
  BY FS_Interval, FS_Subset
<1>2. Trimmed(t) = IF kept = {} THEN <<>> ELSE SubSeq(t, Min(kept), Max(kept))
  BY DEF Trimmed
<1> HIDE DEF kept
<1>3. kept \subseteq Nat
  BY <1>1
<1>4. kept # {} => Min(kept) \in kept /\ Max(kept) \in kept
  <2> SUFFICES ASSUME kept # {} PROVE Min(kept) \in kept /\ Max(kept) \in kept
    OBVIOUS
  <2>1. \E x \in kept : \A y \in kept : x <= y
    BY <1>3, LeastNat
  <2>2. Max(kept) \in kept
    BY <1>1, <1>3, GreatestNat
  <2> QED  BY <2>1, <2>2 DEF Min
<1>5. kept # {} => SubSeq(t, Min(kept), Max(kept)) \in Seq(D)
  <2> DEFINE a == Min(kept)
             b == Max(kept)
  <2> SUFFICES ASSUME kept # {} PROVE SubSeq(t, a, b) \in Seq(D)
    OBVIOUS
  <2>0. a \in kept /\ b \in kept
    BY <1>4
  <2> HIDE DEF a, b
  <2>1. a \in 1 .. Len(t) /\ b \in 1 .. Len(t) /\ Len(t) \in Nat
    BY <1>1, <2>0
  <2>2. \A i \in a .. b : t[i] \in D
    BY <2>1
  <2> QED  BY <2>1, <2>2
<1> QED  BY <1>2, <1>5

LEMMA TypedIsWords ==
  ASSUME NEW text \in Typed
  PROVE  IsWords(TypedArgv(text))
<1> DEFINE line == Trimmed(text)
           words == ReadWords(line).words
<1>1. text \in Seq(CharsOf(text))
  BY TextsAssumption DEF CharsOf
<1>2. line \in Seq(CharsOf(text))
  BY <1>1, TrimmedIsText
<1> HIDE DEF line
<1>3. IsWords(words)
  <2>1. Len(line) \in Nat
    BY <1>2
  <2> QED  BY <2>1, ReadIsWords
<1>4. PlainArgv(line) = words \/ PlainArgv(line) = <<>>
  BY DEF PlainArgv
<1>5. IsWords(PlainArgv(line))
  BY <1>3, <1>4, WordsOne
<1>6. IsWords(<<Shell, <<"-c">>, line>>)
  <2>1. <<Shell, <<"-c">>, line>> \in Seq({Shell, <<"-c">>, line})
    OBVIOUS
  <2> QED  BY <2>1 DEF IsWords
<1>7. TypedArgv(text) = WordsOrBash(line, PlainArgv(line))
  BY DEF TypedArgv, LineArgv, line
<1> DEFINE plain == PlainArgv(line)
<1> HIDE DEF plain
<1>8. WordsOrBash(line, plain) \in {<<>>, plain, <<Shell, <<"-c">>, line>>}
  BY DEF WordsOrBash
<1> QED  BY <1>5, <1>6, <1>7, <1>8, WordsOne DEF plain

-----------------------------------------------------------------------------
(* What is captured is words.                                               *)

(* Every command a machine holds is a list of words.                       *)
HoldsWords(m) ==
  /\ \A q : IsWords(Argv(m, q))
  /\ DOMAIN m.apps \subseteq Nat
  /\ \A i \in DOMAIN m.apps : IsWords(m.apps[i].argv)

LEMMA LeastIn ==
  ASSUME NEW S, S \subseteq Nat, S # {}
  PROVE  Min(S) \in S
<1>1. \E x \in S : \A y \in S : x <= y
  BY LeastNat
<1> QED  BY <1>1 DEF Min

LEMMA LauncherIsListed ==
  ASSUME NEW m, DOMAIN m.apps \subseteq Nat, NEW class
  PROVE  LauncherFor(m, class) # 0 => LauncherFor(m, class) \in DOMAIN m.apps
<1> DEFINE A == DOMAIN m.apps
<1>1. ASSUME NEW S, S \subseteq A, S # {} PROVE Min(S) \in A
  BY <1>1, LeastIn
<1>2. ASSUME NEW S, S \subseteq A PROVE FirstOf(S) # 0 => FirstOf(S) \in A
  BY <1>1, <1>2 DEF FirstOf
<1>3. WebApp(m, class) # 0 => WebApp(m, class) \in A
  <2> DEFINE live == {i \in Claims(m) : ~m.apps[i].hidden}
             same == {i \in live : m.apps[i].opens = Known(IdentOf[class])}
  <2>1. same \subseteq A
    BY DEF Claims
  <2>2. WebApp(m, class) \in {0, FirstOf(same)}
    BY DEF WebApp
  <2> HIDE DEF same
  <2> QED  BY <1>2, <2>1, <2>2
<1> DEFINE k == Key(class)
           byClass == {i \in Listed(m) : m.apps[i].wmclass # None /\ Key(m.apps[i].wmclass) = k}
           byId == {i \in Listed(m) : Key(m.apps[i].stem) = k}
           byName == {i \in Listed(m) :
                        /\ m.apps[i].name # None /\ Key(m.apps[i].name) = k
                        /\ m.apps[i].wmclass = None \/ Key(m.apps[i].wmclass) = k}
<1>4. byClass \subseteq A /\ byId \subseteq A /\ byName \subseteq A
  BY DEF Listed
<1>5. LauncherFor(m, class) = IF byClass # {} THEN Min(byClass)
                              ELSE IF byId # {} THEN Min(byId)
                              ELSE IF WebApp(m, class) # 0 THEN WebApp(m, class)
                              ELSE FirstOf(byName)
  BY DEF LauncherFor
<1> HIDE DEF A, byClass, byId, byName
<1>6. byClass # {} => Min(byClass) \in A
  BY <1>1, <1>4
<1>7. byId # {} => Min(byId) \in A
  BY <1>1, <1>4
<1>8. FirstOf(byName) # 0 => FirstOf(byName) \in A
  BY <1>2, <1>4
<1> QED  BY <1>3, <1>5, <1>6, <1>7, <1>8 DEF A

LEMMA HostedWords ==
  ASSUME NEW m, NEW argv, IsWords(argv), NEW hosted, IsWords(hosted)
  PROVE  IsWords(HostedCommand(m, argv, hosted))
<1> DEFINE option == TerminalOption(m, argv)
           front == IF option = NoOption THEN <<>> ELSE <<option>>
<1>1. HostedCommand(m, argv, hosted) = argv \o front \o hosted
  BY DEF HostedCommand
<1>2. IsWords(front)
  BY WordsOne
<1> HIDE DEF front
<1>3. IsWords(argv \o front)
  BY <1>2, WordsPrefix
<1> DEFINE first == argv \o front
<1> HIDE DEF first
<1>4. IsWords(first \o hosted)
  BY <1>3, WordsPrefix DEF first
<1> QED  BY <1>1, <1>4 DEF first

LEMMA CaptureIsWords ==
  ASSUME NEW m, HoldsWords(m), NEW class, NEW p, NEW xwayland, NEW shares
  PROVE  IsWords(CaptureResolve(m, class, p, xwayland, shares).argv)
<1> DEFINE trusted == WindowTrusted(m, xwayland, p)
           at == IF shares THEN 0 ELSE OwnProcess(m, p)
           argv == Argv(m, at)
           shown == TerminalShows(m, at, argv)
           d == Desktop(m, class, ~trusted)
           c == CaptureResolve(m, class, p, xwayland, shares)
           hosted == HostedCommand(m, argv, shown.argv)
<1>1. c = CaptureFrom(m, class, trusted, d, at, argv, shown)
  BY DEF CaptureResolve, CaptureAt
<1>2. d # 0 => IsWords(m.apps[d].argv)
  <2>1. d # 0 => d = LauncherFor(m, class)
    BY DEF Desktop
  <2> HIDE DEF d
  <2>2. d # 0 => d \in DOMAIN m.apps
    BY <2>1, LauncherIsListed DEF HoldsWords
  <2> QED  BY <2>2 DEF HoldsWords
<1>3. IsWords(argv) /\ IsWords(shown.argv)
  BY ShownIsWords DEF HoldsWords
<1> HIDE DEF d, argv, at, shown, trusted
<1>4. IsWords(hosted)
  BY <1>3, HostedWords
<1>5. IsWords(<<class>>)
  BY WordsOne
<1> DEFINE alone == <<class>>
<1>6. \/ \E source, cwd, h, i, t : c = Captured(hosted, source, cwd, h, i, t)
      \/ \E source, cwd, h, i, t : c = Captured(argv, source, cwd, h, i, t)
      \/ d # 0 /\ \E source, cwd, h, i, t : c = Captured(m.apps[d].argv, source, cwd, h, i, t)
      \/ \E source, cwd, h, i, t : c = Captured(alone, source, cwd, h, i, t)
  <2> HIDE DEF c, hosted, alone
  <2>1. \/ c = Captured(hosted, "cmdline", shown.cwd, Program(shown.argv), 0, trusted)
        \/ c = Captured(argv, "cmdline", IF shown.kind = "shell" THEN shown.cwd ELSE Cwd(m, at),
                        NamedCommand(m, argv), 0, trusted)
        \/ d # 0 /\ c = Captured(m.apps[d].argv, "desktop-file", None, None, d, trusted)
        \/ c = Captured(alone, None, None, None, 0, trusted)
    BY <1>1 DEF CaptureFrom, hosted, alone
  <2> QED  BY <2>1
<1> HIDE DEF c, hosted, alone
<1>7. c.argv = hosted \/ c.argv = argv \/ (d # 0 /\ c.argv = m.apps[d].argv) \/ c.argv = alone
  BY <1>6, CapturedIs
<1> QED  BY <1>2, <1>3, <1>4, <1>5, <1>7 DEF c, alone

-----------------------------------------------------------------------------
(* The launchers' own.                                                     *)

LEMMA ExecIsWords ==
  ASSUME NEW f, "Exec" \in DOMAIN f.keys => IsWords(f.keys["Exec"])
  PROVE  IsWords(ExecArgv(f))
<1> DEFINE exec == Value(f, "Exec", <<>>)
           at == {i \in DOMAIN exec : exec[i] \notin FileCodes}
<1>1. IsWords(exec)
  BY WordsOne DEF Value
<1>2. PICK W : exec \in Seq(W)
  BY <1>1 DEF IsWords
<1>3. ExecArgv(f) = Keep(exec, at) \/ ExecArgv(f) = <<>>
  BY DEF ExecArgv
<1> HIDE DEF exec, at
<1>4. Len(exec) \in Nat /\ \A i \in 1 .. Len(exec) : exec[i] \in W
  BY <1>2
<1>5. Keep(exec, at) \in Seq(W)
  BY <1>4, KeptTyped
<1> QED  BY <1>3, <1>5, WordsOne DEF IsWords

LEMMA IndexIsWords ==
  ASSUME NEW k \in DOMAIN Machines
  PROVE  LET apps == Index(Machines[k].dirs) IN
         DOMAIN apps \subseteq Nat /\ \A i \in DOMAIN apps : IsWords(apps[i].argv)
<1> DEFINE dirs == Machines[k].dirs
           F == UNION {{dirs[d][i] : i \in DOMAIN dirs[d]} : d \in DOMAIN dirs}
           all == FlattenSeq(dirs)
           at == {i \in DOMAIN all : all[i].depth <= 2}
           kept == Keep(all, at)
<1>1. dirs \in Seq(Seq(F))
  BY LaunchersAssumption
<1>2. \A f \in F : "Exec" \in DOMAIN f.keys => IsWords(f.keys["Exec"])
  BY LaunchersAssumption DEF IsWords
<1>3. Index(dirs) = [i \in DOMAIN kept |-> Entry(kept[i])]
  BY DEF Index
<1> HIDE DEF dirs, F
<1>4. all \in Seq(F)
  BY <1>1, FlattenTyped
<1>5. kept \in Seq(F)
  <2> HIDE DEF all, at
  <2>1. Len(all) \in Nat /\ \A i \in 1 .. Len(all) : all[i] \in F
    BY <1>4
  <2> QED  BY <2>1, KeptTyped
<1> HIDE DEF kept
<1>6. DOMAIN kept \subseteq Nat /\ \A i \in DOMAIN kept : kept[i] \in F
  BY <1>5
<1>7. ASSUME NEW f \in F PROVE IsWords(Entry(f).argv)
  <2>1. IsWords(ExecArgv(f))
    BY <1>2, ExecIsWords
  <2>2. Entry(f).argv = ExecArgv(f)
    BY DEF Entry
  <2> QED  BY <2>1, <2>2
<1>8. DOMAIN Index(dirs) = DOMAIN kept /\ \A i \in DOMAIN kept : Index(dirs)[i] = Entry(kept[i])
  BY <1>3
<1>9. \A i \in DOMAIN Index(dirs) : IsWords(Index(dirs)[i].argv)
  BY <1>6, <1>7, <1>8
<1> QED  BY <1>6, <1>8, <1>9 DEF dirs

LEMMA MachineHoldsWords ==
  ASSUME NEW k \in DOMAIN Machines
  PROVE  HoldsWords(Indexed(k, Machines[k])) /\ HoldsWords(Readings[k])
<1> DEFINE n == Indexed(k, Machines[k])
           m == Readings[k]
<1>1. n.apps = Index(Machines[k].dirs)
  BY DEF Indexed
<1>2. n.procs = Machines[k].procs /\ m.procs = n.procs /\ m.apps = n.apps
  BY ReadingIs
<1> HIDE DEF n, m
<1>3. \A q : IsWords(Argv(n, q)) /\ IsWords(Argv(m, q))
  BY <1>2, MachinesAssumption, WordsOne DEF Argv, IsWords
<1>4. DOMAIN n.apps \subseteq Nat /\ \A i \in DOMAIN n.apps : IsWords(n.apps[i].argv)
  BY <1>1, IndexIsWords
<1> QED  BY <1>2, <1>3, <1>4 DEF HoldsWords, n, m

-----------------------------------------------------------------------------
(* What is on the list is words.                                            *)

(* Every command of the list, or of a proposal, is a list of words, and    *)
(* has one.                                                                *)
WordsInv == \A p \in list \cup pending.entries : IsWords(p.argv) /\ p.argv # <<>>

LEMMA CaptureOfIsWords ==
  ASSUME MachineInv, NEW i \in DOMAIN M.windows
  PROVE  IsWords(CaptureOf(i).argv)
<1>1. PICK k \in DOMAIN Machines : machine = Readings[k]
  BY DEF MachineInv
<1> DEFINE m == Indexed(k, Machines[k])
           shares == SharesProcess(Windows, M.windows[i])
           captures == Captures(m)
<1>2. M.windows = m.windows /\ M.captures = captures
  BY <1>1, ReadingIs DEF M
<1>3. HoldsWords(m)
  BY MachineHoldsWords
<1> HIDE DEF m
<1>4. shares \in BOOLEAN
  BY DEF SharesProcess
<1>5. CaptureOf(i) = captures[i][shares]
  BY <1>2 DEF CaptureOf
<1> DEFINE w == m.windows[i]
           resolved(j) == [s \in BOOLEAN |->
             CaptureResolve(m, m.windows[j].class, m.windows[j].pid, m.windows[j].xwayland, s)]
<1>6. captures = [j \in DOMAIN m.windows |-> resolved(j)]
  BY DEF Captures
<1> HIDE DEF captures, shares
<1>7. captures[i] = resolved(i)
  BY <1>2, <1>6
<1>8. captures[i][shares] = CaptureResolve(m, w.class, w.pid, w.xwayland, shares)
  BY <1>4, <1>7
<1> HIDE DEF w
<1> QED  BY <1>3, <1>5, <1>8, CaptureIsWords

LEMMA SeenIsWords ==
  ASSUME MachineInv
  PROVE  \A i \in DOMAIN Seen : IsWords(Seen[i].c.argv)
<1> DEFINE at == {j \in DOMAIN open : M.windows[open[j]].pid # 0}
           kept == Keep(open, at)
           W == DOMAIN M.windows
<1>1. open \in Seq(W)
  BY DEF MachineInv, M
<1>2. Seen = [j \in DOMAIN kept |-> [w |-> M.windows[kept[j]], c |-> CaptureOf(kept[j])]]
  BY DEF Seen
<1> HIDE DEF at, W
<1>3. kept \in Seq(W)
  <2>1. Len(open) \in Nat /\ \A j \in 1 .. Len(open) : open[j] \in W
    BY <1>1
  <2> QED  BY <2>1, KeptTyped
<1> HIDE DEF kept
<1>4. \A j \in DOMAIN kept : kept[j] \in W
  BY <1>3
<1>5. \A j \in DOMAIN kept : IsWords(CaptureOf(kept[j]).argv)
  BY <1>4, CaptureOfIsWords DEF W
<1> QED  BY <1>2, <1>5

LEMMA PinIsWords ==
  ASSUME NEW m, NEW stored, stored = NoPin \/ IsWords(stored.argv), NEW id, NEW o, IsWords(o.c.argv)
  PROVE  IsWords(Pin(m, stored, id, o).argv)
<1> DEFINE typed == stored.id # 0 /\ stored.source = "overrides-table"
<1>1. Pin(m, stored, id, o).argv = IF typed THEN stored.argv ELSE o.c.argv
  BY DEF Pin
<1>2. typed => stored # NoPin
  BY DEF NoPin
<1> HIDE DEF typed
<1> QED  BY <1>1, <1>2

LEMMA BuildIsWords ==
  ASSUME NEW m, NEW pins, IsFiniteSet(pins), Numbered(pins), \A p \in pins : IsWords(p.argv),
         NEW seen, IsList1(seen), \A i \in DOMAIN seen : IsWords(seen[i].c.argv)
  PROVE  \A q \in Build(m, pins, seen) : IsWords(q.argv)
<1> DEFINE wanted == Wanted(seen)
           stored == [k \in DOMAIN wanted |-> Correlate(pins, wanted, wanted[k])]
           T == {seen[i] : i \in DOMAIN seen}
<1>1. wanted \in Seq(T)
  <2>1. Len(seen) \in Nat /\ \A i \in 1 .. Len(seen) : seen[i] \in T
    BY DEF IsList1
  <2> HIDE DEF T
  <2> QED  BY <2>1, KeptTyped DEF Wanted
<1>2. \A o \in T : IsWords(o.c.argv)
  OBVIOUS
<1> HIDE DEF wanted, T
<1> SUFFICES ASSUME NEW q \in Build(m, pins, seen) PROVE IsWords(q.argv)
  OBVIOUS
<1>3. PICK k \in DOMAIN wanted : \E id : q = Pin(m, stored[k], id, wanted[k])
  BY DEF Build, BuildFrom, PinsOf, wanted
<1>4. IsWords(wanted[k].c.argv)
  BY <1>1, <1>2, <1>3
<1>5. stored[k] = NoPin \/ stored[k] \in pins
  BY <1>3, CorrelateIsAPin
<1> HIDE DEF stored
<1> QED  BY <1>3, <1>4, <1>5, PinIsWords

LEMMA ObservedIsWords ==
  ASSUME MachineInv, NEW class, NEW ws
  PROVE  IsWords(ImportedAt(Seen, class, ws).c.argv)
<1> DEFINE seen == Seen
           I == {i \in 1 .. Len(seen) : AsciiLower(seen[i].w.class) = AsciiLower(class)}
           at == IF I # {} THEN Min(I) ELSE 0
           c == CaptureResolve(M, class, 0, TRUE, FALSE)
           none == [w |-> [class |-> class, ws |-> 0, float |-> None, xwayland |-> TRUE, pid |-> 0], c |-> c]
           v == Observed(seen, class)
<1>1. v = IF at # 0 THEN seen[at] ELSE none
  BY DEF Observed, SelectInSeq
<1>2. IsWords(c.argv)
  <2>1. HoldsWords(M)
    BY MachineHoldsWords DEF MachineInv, M
  <2> DEFINE yes == TRUE
             no == FALSE
  <2>2. c = CaptureResolve(M, class, 0, yes, no)
    OBVIOUS
  <2> HIDE DEF c, yes, no
  <2>3. IsWords(CaptureResolve(M, class, 0, yes, no).argv)
    BY <2>1, CaptureIsWords
  <2> QED  BY <2>2, <2>3
<1>3. none = [w |-> none.w, c |-> none.c] /\ none.c = c /\ IsWindow(none.w)
  BY DEF IsWindow
<1>4. IsList1(seen) /\ SeesWindows(seen) /\ \A i \in DOMAIN seen : IsWords(seen[i].c.argv)
  BY SeenIsList, SeenAreWindows, SeenIsWords
<1> HIDE DEF seen, c, none
<1>5. at # 0 => at \in DOMAIN seen
  <2> SUFFICES ASSUME I # {} PROVE Min(I) \in DOMAIN seen
    OBVIOUS
  <2>1. I \subseteq Nat /\ I \subseteq DOMAIN seen
    BY <1>4 DEF IsList1
  <2> HIDE DEF I
  <2> QED  BY <2>1, LeastIn
<1> HIDE DEF at, v
<1>6. v = [w |-> v.w, c |-> v.c] /\ IsWindow(v.w) /\ IsWords(v.c.argv)
  <2>1. CASE at # 0
    <3>1. v = seen[at] /\ at \in DOMAIN seen
      BY <1>1, <1>5, <2>1
    <3> QED  BY <1>4, <3>1 DEF SeesWindows
  <2>2. CASE at = 0
    BY <1>1, <1>2, <1>3, <2>2
  <2> QED  BY <2>1, <2>2
<1>7. [v EXCEPT !.w.ws = ws].c = v.c
  BY <1>6
<1>8. ImportedAt(seen, class, ws) = [v EXCEPT !.w.ws = ws]
  BY DEF ImportedAt, v
<1> QED  BY <1>6, <1>7, <1>8 DEF seen

LEMMA ImportIsWords ==
  ASSUME IsFiniteSet(list), Numbered(list), \A p \in list : IsWords(p.argv),
         NEW o, IsWords(o.c.argv)
  PROVE  IsWords(Imported(o).argv)
<1> DEFINE stored == Correlate(list, <<o>>, o)
           id == FreshId(list, 1)
           p == Pin(M, stored, id, o)
<1>1. stored = NoPin \/ stored \in list
  BY CorrelateIsAPin
<1>2. Imported(o) = [p EXCEPT !.enabled = TRUE] /\ IsPin(p)
  BY PinIsPin DEF Imported
<1> HIDE DEF stored, id
<1>3. IsWords(p.argv)
  BY <1>1, PinIsWords
<1> HIDE DEF p
<1>4. Imported(o).argv = p.argv
  BY <1>2 DEF IsPin
<1> QED  BY <1>3, <1>4

(* A command the user types.                                               *)
LEMMA RetypedIsWords ==
  ASSUME NEW p, IsPin(p), NEW text \in Typed
  PROVE  IsWords(Retyped(p, [i \in DOMAIN TypedArgv(text) |-> Unspelled(TypedArgv(text)[i])]).argv)
<1> DEFINE typed == TypedArgv(text)
           argv == [i \in DOMAIN typed |-> Unspelled(typed[i])]
           label == IF p.label # None THEN p.label ELSE DisplayLabel(M, p.wclass, argv)
<1>1. PICK W : typed \in Seq(W)
  BY TypedIsWords DEF IsWords
<1> HIDE DEF typed
<1>2. argv \in Seq({Unspelled(w) : w \in W})
  <2> DEFINE n == Len(typed)
             V == {Unspelled(w) : w \in W}
  <2>1. n \in Nat /\ DOMAIN typed = 1 .. n /\ \A i \in 1 .. n : typed[i] \in W
    BY <1>1
  <2> HIDE DEF n
  <2>2. argv = [i \in 1 .. n |-> Unspelled(typed[i])]
    BY <2>1
  <2>3. \A i \in 1 .. n : Unspelled(typed[i]) \in V
    BY <2>1
  <2> HIDE DEF V, argv
  <2>4. argv \in [1 .. n -> V]
    BY <2>2, <2>3
  <2> QED  BY <2>1, <2>4 DEF V
<1>3. Retyped(p, argv) =
        [p EXCEPT !.argv = argv, !.source = "overrides-table", !.provenance = None,
                  !.cwd = None, !.label = label]
  BY DEF Retyped
<1>4. IsWords(argv)
  BY <1>2 DEF IsWords
<1> HIDE DEF label, argv
<1>5. Retyped(p, argv).argv = argv
  BY <1>3 DEF IsPin
<1> QED  BY <1>4, <1>5 DEF argv, typed

(* A change is offered only when it is valid: no command is empty.         *)
LEMMA OfferKeepsWords ==
  ASSUME WordsInv, NEW kind, NEW id, NEW entries, NEW d, Offer(kind, id, entries, d),
         \A p \in entries : IsWords(p.argv)
  PROVE  WordsInv'
<1>1. pending' = [kind |-> kind, id |-> id, entries |-> entries, delays |-> d]
      /\ Valid(pending'.entries) /\ list' = list
  BY DEF Offer
<1>2. pending'.entries = entries
  BY <1>1
<1>3. \A p \in entries : p.argv # <<>>
  BY <1>1, <1>2 DEF Valid, ValidEntry
<1> QED  BY <1>1, <1>2, <1>3 DEF WordsInv

LEMMA WordsStep == MachineInv /\ ListInv /\ FiniteInv /\ TypedInv /\ WordsInv /\ [Next]_vars => WordsInv'
<1> SUFFICES ASSUME MachineInv, ListInv, FiniteInv, TypedInv, WordsInv, [Next]_vars PROVE WordsInv'
  OBVIOUS
<1>1. CASE UNCHANGED <<list, pending>>
  BY <1>1 DEF WordsInv
<1>2. IsFiniteSet(list) /\ Numbered(list) /\ \A p \in list : IsWords(p.argv) /\ IsPin(p)
  BY DEF ListInv, IsList, FiniteInv, TypedInv, WordsInv
<1>3. ASSUME NEW mode \in {"replace", "merge"}, Propose(mode) PROVE WordsInv'
  <2>1. \A q \in Build(M, list, Seen) : IsWords(q.argv)
    BY <1>2, SeenIsList, SeenIsWords, BuildIsWords
  <2>2. \A q \in Save(M, list, Seen, mode) : IsWords(q.argv)
    BY <1>2, <2>1 DEF Save, Over
  <2> QED  BY <1>3, <2>2, OfferKeepsWords DEF Propose
<1>4. ASSUME NEW class, NEW ws, Import(class, ws) PROVE WordsInv'
  <2> DEFINE o == ImportedAt(Seen, class, ws)
             pin == Imported(o)
  <2>1. Offer("import", pin.id, Over(list, {pin}), delays)
    BY <1>4 DEF Import, OfferImported, OfferPin
  <2>2. IsWords(o.c.argv)
    BY ObservedIsWords
  <2> HIDE DEF o
  <2>3. IsWords(pin.argv)
    BY <1>2, <2>2, ImportIsWords
  <2> HIDE DEF pin
  <2>4. \A q \in Over(list, {pin}) : IsWords(q.argv)
    BY <1>2, <2>3 DEF Over
  <2> QED  BY <2>1, <2>4, OfferKeepsWords
<1>5. ASSUME NEW p \in list, NEW text \in Typed, SetExec(p, text) PROVE WordsInv'
  <2> DEFINE words == [i \in DOMAIN TypedArgv(text) |-> Unspelled(TypedArgv(text)[i])]
             pin == Retyped(p, words)
  <2>1. Offer("set-exec", p.id, Over(list, {pin}), delays)
    BY <1>5 DEF SetExec, OfferTyped
  <2>2. IsWords(pin.argv)
    BY <1>2, RetypedIsWords
  <2> HIDE DEF pin
  <2>3. \A q \in Over(list, {pin}) : IsWords(q.argv)
    BY <1>2, <2>2 DEF Over
  <2> QED  BY <2>1, <2>3, OfferKeepsWords
<1>6. ASSUME NEW d, SetDelays(d) PROVE WordsInv'
  BY <1>2, <1>6, OfferKeepsWords DEF SetDelays
<1>7. ASSUME NEW p \in list, Drop(p) PROVE WordsInv'
  BY <1>7 DEF Drop, WordsInv
<1>8. CASE Authorize \/ Cancel
  BY <1>8 DEF Authorize, Cancel, WordsInv, NoProposal
<1>9. CASE UNCHANGED vars \/ (\E i : OpenWindow(i) \/ CloseWindow(i))
  BY <1>1, <1>9 DEF vars, OpenWindow, CloseWindow
<1> QED  BY <1>3, <1>4, <1>5, <1>6, <1>7, <1>8, <1>9 DEF Next, Edit

(* A command survives every text it is carried in: the signed exec, its    *)
(* launcher's two layers of escapes, which the anchor reads back at boot,  *)
(* and the line the panel shows, which the user may save as it stands      *)
(* (relaunch-desktop, canonical_exec_string; launcher.rs, serialize_exec;  *)
(* shell.rs, quote; execcheck.rs, words; edit.rs, set_exec).               *)
THEOREM CommandIsCarried == Spec => []CommandSurvives
<1>1. Init => MachineInv /\ ListInv /\ FiniteInv /\ TypedInv /\ WordsInv
  BY ListInit, FS_EmptySet DEF Init, MachineInv, FiniteInv, TypedInv, Numbered, NoProposal, WordsInv
<1>2. \A argv \in Samples :
        /\ RunsAs(Signed(<<>>, argv, <<>>), <<>>, argv, <<>>)
        /\ LosesBlank(argv) \/ SameCommand(TypedArgv(ExecText(Canonical(argv))), argv)
  <2> SUFFICES ASSUME NEW argv \in Samples
               PROVE  /\ RunsAs(Signed(<<>>, argv, <<>>), <<>>, argv, <<>>)
                      /\ LosesBlank(argv) \/ SameCommand(TypedArgv(ExecText(Canonical(argv))), argv)
    OBVIOUS
  <2> DEFINE C == UNION {CharsOf(argv[i]) : i \in DOMAIN argv}
             D == Marks \cup C
             none == <<>>
  <2>1. argv # <<>> /\ argv \in Seq(Seq(C))
    BY TextsAssumption DEF CharsOf
  <2>2. Marks \subseteq D /\ C \subseteq D
    OBVIOUS
  <2>3. none \in Seq(D)
    OBVIOUS
  <2> HIDE DEF C, D, none
  <2>4. Seq(C) \subseteq Seq(D)
    BY <2>2, TextsSubset
  <2>5. argv \in Seq(Seq(D))
    BY <2>1, <2>4, TextsSubset
  <2>6. RunsAs(Signed(none, argv, none), none, argv, none)
    BY <2>1, <2>2, <2>3, <2>5, TextRuns
  <2>7. LosesBlank(argv) \/ SameCommand(TypedArgv(ExecText(Canonical(argv))), argv)
    BY <2>1, <2>2, <2>5, ShownBack
  <2> QED  BY <2>6, <2>7 DEF none
<1>3. WordsInv => CommandSurvives
  <2> SUFFICES ASSUME WordsInv PROVE CommandSurvives
    OBVIOUS
  <2>1. \A p \in list \cup pending.entries :
          /\ RunsAs(Signed(LabelText(p), Spell(p.argv), CwdText(p)), LabelText(p), Spell(p.argv), CwdText(p))
          /\ LosesBlank(Spell(p.argv))
               \/ SameCommand(TypedArgv(ExecText(Canonical(Spell(p.argv)))), Spell(p.argv))
    BY PinIsCarried DEF WordsInv
  <2>2. LaunchRunsThePin
    BY <1>2, <2>1 DEF LaunchRunsThePin
  <2>3. ShownIsRun
    BY <1>2, <2>1 DEF ShownIsRun
  <2> QED  BY <2>2, <2>3 DEF CommandSurvives
<1> QED  BY <1>1, <1>3, MachineStep, ListStep, FiniteStep, TypedStep, WordsStep, PTL DEF Spec

-----------------------------------------------------------------------------
(* The identity of a web app (webapp.rs): the table of dot segments leaves *)
(* what resolving a path's segments does, and a URL's identity is that of  *)
(* its host and path, whatever is around them.                             *)

(* A text from a place on, and up to the first of a character.             *)
LEMMA FromIs ==
  ASSUME NEW D, NEW s \in Seq(D), NEW i \in 1 .. Len(s) + 1
  PROVE  /\ From(s, i) \in Seq(D) /\ Len(From(s, i)) = Len(s) - i + 1
         /\ \A j \in 1 .. Len(s) - i + 1 : From(s, i)[j] = s[i + j - 1]
BY DEF From

Free(s, c) == \A i \in 1 .. Len(s) : s[i] # c

LEMMA TextsEqual ==
  ASSUME NEW D, NEW a \in Seq(D), NEW b \in Seq(D), Len(a) = Len(b), \A i \in 1 .. Len(a) : a[i] = b[i]
  PROVE  a = b
OBVIOUS

(* Where a character first is in a text.                                   *)
LEMMA AtIs ==
  ASSUME NEW D, NEW s \in Seq(D), NEW c
  PROVE  \/ At(s, <<c>>) = 0 /\ Free(s, c)
         \/ /\ At(s, <<c>>) \in 1 .. Len(s) /\ s[At(s, <<c>>)] = c
            /\ \A i \in 1 .. At(s, <<c>>) - 1 : s[i] # c
<1> DEFINE I == {i \in 1 .. Len(s) - 1 + 1 : SubSeq(s, i, i + 1 - 1) = <<c>>}
           J == {i \in 1 .. Len(s) : s[i] = c}
           n == Len(s)
<1>0. n \in Nat /\ n - 1 + 1 = n
  OBVIOUS
<1>1. I = J
  <2>1. ASSUME NEW i \in 1 .. n PROVE SubSeq(s, i, i + 1 - 1) = <<c>> <=> s[i] = c
    <3> DEFINE t == SubSeq(s, i, i)
    <3>1. i + 1 - 1 = i /\ t \in Seq(D) /\ Len(t) = 1 /\ t[1] = s[i]
      OBVIOUS
    <3> HIDE DEF t
    <3>2. t = <<t[1]>>
      BY <3>1
    <3>3. t = <<c>> <=> t[1] = c
      BY <3>2
    <3> QED  BY <3>1, <3>3 DEF t
  <2> QED  BY <1>0, <2>1
<1>2. At(s, <<c>>) = IF J = {} THEN 0 ELSE Min(J)
  <2>1. Len(<<c>>) = 1
    OBVIOUS
  <2>2. At(s, <<c>>) = IF I = {} THEN 0 ELSE Min(I)
    BY <2>1 DEF At
  <2> HIDE DEF I, J
  <2> QED  BY <1>1, <2>2
<1>3. CASE J = {}
  <2>1. Free(s, c)
    BY <1>3 DEF Free
  <2> HIDE DEF J
  <2> QED  BY <1>2, <1>3, <2>1
<1>4. CASE J # {}
  <2>1. J \subseteq Nat
    OBVIOUS
  <2> DEFINE m == Min(J)
  <2>2. m \in J /\ \A i \in J : m <= i
    <3> HIDE DEF J
    <3>1. \E x \in J : \A y \in J : x <= y
      BY <1>4, <2>1, LeastNat
    <3> QED  BY <3>1 DEF Min
  <2>3. At(s, <<c>>) = m
    <3> HIDE DEF J
    <3> QED  BY <1>2, <1>4
  <2> HIDE DEF m
  <2>4. m \in 1 .. n /\ s[m] = c /\ \A i \in 1 .. n : s[i] = c => m <= i
    BY <2>2
  <2> QED  BY <1>0, <2>3, <2>4
<1> QED  BY <1>3, <1>4

LEMMA UptoIs ==
  ASSUME NEW D, NEW s \in Seq(D), NEW c
  PROVE  /\ Upto(s, c) \in Seq(D) /\ Len(Upto(s, c)) \in 0 .. Len(s)
         /\ \A i \in 1 .. Len(Upto(s, c)) : Upto(s, c)[i] = s[i] /\ s[i] # c
         /\ Len(Upto(s, c)) < Len(s) => s[Len(Upto(s, c)) + 1] = c
<1> DEFINE i == At(s, <<c>>)
<1>0. Upto(s, c) = IF i = 0 THEN s ELSE SubSeq(s, 1, i - 1)
  BY DEF Upto
<1>1. \/ i = 0 /\ Free(s, c)
      \/ i \in 1 .. Len(s) /\ s[i] = c /\ \A j \in 1 .. i - 1 : s[j] # c
  BY AtIs
<1> HIDE DEF i
<1>2. CASE i = 0
  <2>1. Upto(s, c) = s /\ Free(s, c)
    BY <1>0, <1>1, <1>2
  <2> QED  BY <2>1 DEF Free
<1>3. CASE i \in 1 .. Len(s) /\ s[i] = c /\ \A j \in 1 .. i - 1 : s[j] # c
  <2>1. Upto(s, c) = SubSeq(s, 1, i - 1) /\ i - 1 \in Nat /\ i - 1 < Len(s) /\ Len(s) \in Nat
    BY <1>0, <1>3
  <2>2. Upto(s, c) \in Seq(D) /\ Len(Upto(s, c)) = i - 1 /\ \A j \in 1 .. i - 1 : Upto(s, c)[j] = s[j]
    BY <2>1
  <2> QED  BY <1>3, <2>1, <2>2
<1> QED  BY <1>1, <1>2, <1>3

(* A text up to the character that the next one starts with.               *)
Follows(b, c) == b = <<>> \/ (b # <<>> /\ b[1] = c)

LEMMA UptoJoin ==
  ASSUME NEW D, NEW a \in Seq(D), NEW b \in Seq(D), NEW c, Free(a, c), Follows(b, c)
  PROVE  Upto(a \o b, c) = a
<1> DEFINE s == a \o b
           u == Upto(s, c)
<1>1. /\ s \in Seq(D) /\ Len(s) = Len(a) + Len(b) /\ Len(a) \in Nat /\ Len(b) \in Nat
      /\ \A i \in 1 .. Len(a) : s[i] = a[i]
      /\ Len(b) # 0 => s[Len(a) + 1] = b[1]
  <2>1. Joins(a, b, D)
    BY JoinIs
  <2>2. Len(b) # 0 => s[1 + Len(a)] = b[1]
    BY <2>1 DEF Joins
  <2> QED  BY <2>1, <2>2 DEF Joins
<1> HIDE DEF s
<1>2. /\ u \in Seq(D) /\ Len(u) \in 0 .. Len(s)
      /\ \A i \in 1 .. Len(u) : u[i] = s[i] /\ s[i] # c
      /\ Len(u) < Len(s) => s[Len(u) + 1] = c
  BY <1>1, UptoIs
<1> HIDE DEF u
<1>3. Len(b) # 0 => b[1] = c
  BY DEF Follows
<1>4. Len(u) = Len(a)
  <2>1. \A i \in 1 .. Len(a) : s[i] # c
    BY <1>1 DEF Free
  <2>2. ~(Len(u) < Len(a))
    <3>1. Len(u) < Len(a) => Len(u) + 1 \in 1 .. Len(a) /\ Len(u) < Len(s)
      BY <1>1, <1>2
    <3> QED  BY <1>2, <2>1, <3>1
  <2>3. ~(Len(u) > Len(a))
    <3>1. Len(u) > Len(a) => Len(a) + 1 \in 1 .. Len(u) /\ Len(b) # 0
      BY <1>1, <1>2
    <3> QED  BY <1>1, <1>2, <1>3, <3>1
  <2> QED  BY <1>1, <1>2, <2>2, <2>3
<1>5. u = a
  BY <1>1, <1>2, <1>4, TextsEqual
<1> QED  BY <1>5 DEF u, s

(* Segments: texts without a slash.  A path is each with one before it.    *)
Stroke == "/"
Segments(D) == {t \in Seq(D) : Free(t, Stroke)}

LEMMA LeadIs ==
  ASSUME NEW D, Stroke \in D, NEW t \in Seq(D)
  PROVE  /\ <<Stroke>> \o t \in Seq(D) /\ Len(<<Stroke>> \o t) = Len(t) + 1
         /\ (<<Stroke>> \o t)[1] = Stroke /\ \A i \in 1 .. Len(t) : (<<Stroke>> \o t)[i + 1] = t[i]
<1> DEFINE o == <<Stroke>>
<1>1. o \in Seq(D) /\ Len(o) = 1 /\ o[1] = Stroke
  OBVIOUS
<1> HIDE DEF o
<1>2. Joins(o, t, D)
  BY <1>1, JoinIs
<1>3. (o \o t)[1] = o[1] /\ \A i \in 1 .. Len(t) : (o \o t)[i + 1] = t[i]
  BY <1>1, <1>2 DEF Joins
<1>4. o \o t \in Seq(D) /\ Len(o \o t) = Len(t) + 1
  BY <1>1, <1>2 DEF Joins
<1> QED  BY <1>1, <1>3, <1>4 DEF o

LEMMA ListIs ==
  ASSUME NEW S, NEW n \in Nat, NEW s \in [1 .. n -> S]
  PROVE  s \in Seq(S) /\ Len(s) = n
OBVIOUS

LEMMA PathGrows ==
  ASSUME NEW D, Stroke \in D, NEW kept \in Seq(Segments(D)), NEW t \in Segments(D)
  PROVE  /\ PathOf(<<>>) = <<>> /\ PathOf(kept) \in Seq(D)
         /\ PathOf(Append(kept, t)) = PathOf(kept) \o (<<Stroke>> \o t)
<1> DEFINE A == Segments(D)
           ss == [k \in DOMAIN kept |-> <<Stroke>> \o kept[k]]
           u == Append(kept, t)
           us == [k \in DOMAIN u |-> <<Stroke>> \o u[k]]
           new == <<Stroke>> \o t
<1>1. \A v \in A : <<Stroke>> \o v \in Seq(D)
  BY LeadIs DEF Segments
<1>2. ss \in Seq(Seq(D)) /\ Len(ss) = Len(kept) /\ new \in Seq(D)
  <2>1. Len(kept) \in Nat /\ DOMAIN kept = 1 .. Len(kept) /\ \A k \in 1 .. Len(kept) : kept[k] \in A
    OBVIOUS
  <2>2. new \in Seq(D) /\ \A k \in 1 .. Len(kept) : <<Stroke>> \o kept[k] \in Seq(D)
    BY <1>1, <2>1
  <2>3. ss = [k \in 1 .. Len(kept) |-> <<Stroke>> \o kept[k]]
    BY <2>1
  <2> HIDE DEF A, new
  <2>4. ss \in [1 .. Len(kept) -> Seq(D)]
    BY <2>2, <2>3
  <2> HIDE DEF ss
  <2>5. ss \in Seq(Seq(D)) /\ Len(ss) = Len(kept)
    BY <2>1, <2>4, ListIs
  <2> QED  BY <2>2, <2>5
<1>3. us = Append(ss, new)
  <2> DEFINE n == Len(kept)
  <2>1. n \in Nat /\ DOMAIN kept = 1 .. n /\ DOMAIN u = 1 .. n + 1 /\ u[n + 1] = t
        /\ \A k \in 1 .. n : u[k] = kept[k]
    OBVIOUS
  <2> HIDE DEF u, new
  <2>2. us = [k \in 1 .. n + 1 |-> IF k = n + 1 THEN <<Stroke>> \o t ELSE ss[k]]
    <3>1. \A k \in 1 .. n + 1 : k # n + 1 => k \in 1 .. n
      BY <2>1
    <3>2. \A k \in 1 .. n + 1 : <<Stroke>> \o u[k] = IF k = n + 1 THEN <<Stroke>> \o t ELSE ss[k]
      BY <2>1, <3>1
    <3> QED  BY <2>1, <3>2
  <2> HIDE DEF ss
  <2>3. Append(ss, new) = [k \in 1 .. n + 1 |-> IF k = n + 1 THEN new ELSE ss[k]]
    BY <1>2, AppendIs
  <2> QED  BY <2>2, <2>3 DEF new
<1>4. FlattenSeq(us) = IF ss = <<>> THEN new ELSE FlattenSeq(ss) \o new
  <2> HIDE DEF ss, us, new
  <2> QED  BY <1>2, <1>3, FlattenGrows
<1>5. FlattenSeq(ss) \in Seq(D)
  <2> HIDE DEF ss
  <2> QED  BY <1>2, FlattenTyped
<1>6. FlattenSeq(us) = FlattenSeq(ss) \o new
  <2>1. CASE ss = <<>>
    <3>1. FlattenSeq(ss) = <<>>
      <4> HIDE DEF ss
      <4> QED  BY <2>1, FlattenNone
    <3>2. FlattenSeq(us) = new
      <4> HIDE DEF us, new, ss
      <4> QED  BY <1>4, <2>1
    <3>3. <<>> \o new = new
      <4> HIDE DEF new
      <4> QED  BY <1>2
    <3> HIDE DEF us, new, ss
    <3> QED  BY <3>1, <3>2, <3>3
  <2>2. CASE ss # <<>>
    <3> HIDE DEF us, new, ss
    <3> QED  BY <1>4, <2>2
  <2> QED  BY <2>1, <2>2
<1>7. PathOf(<<>>) = <<>>
  <2>1. [k \in DOMAIN <<>> |-> <<Stroke>> \o <<>>[k]] = <<>>
    OBVIOUS
  <2> QED  BY <2>1, FlattenNone DEF PathOf, Stroke
<1>8. PathOf(kept) = FlattenSeq(ss) /\ PathOf(u) = FlattenSeq(us)
  BY DEF PathOf, Stroke
<1> HIDE DEF ss, us
<1> QED  BY <1>5, <1>6, <1>7, <1>8

(* A step back drops the last segment.                                     *)
LEMMA PoppedIs ==
  ASSUME NEW D, Stroke \in D, NEW x \in Seq(D), NEW t \in Segments(D)
  PROVE  Popped(x \o (<<Stroke>> \o t)) = x /\ Popped(<<>>) = <<>>
<1> DEFINE new == <<Stroke>> \o t
           out == x \o new
           n == Len(x)
           I == {i \in 1 .. Len(out) : out[i] = Stroke}
<1>1. /\ t \in Seq(D) /\ Len(t) \in Nat /\ \A i \in 1 .. Len(t) : t[i] # Stroke
  BY DEF Segments, Free
<1>2. /\ new \in Seq(D) /\ Len(new) = Len(t) + 1 /\ new[1] = Stroke
      /\ \A i \in 1 .. Len(t) : new[i + 1] = t[i]
  BY <1>1, LeadIs
<1> HIDE DEF new
<1>3. Joins(x, new, D)
  BY <1>2, JoinIs
<1>4. /\ n \in Nat /\ out \in Seq(D) /\ Len(out) = n + Len(t) + 1 /\ \A i \in 1 .. n : out[i] = x[i]
      /\ \A i \in 1 .. Len(t) + 1 : out[i + n] = new[i]
  BY <1>1, <1>2, <1>3 DEF Joins
<1> HIDE DEF out
<1>5. n + 1 \in I /\ \A i \in I : i <= n + 1
  <2>1. out[n + 1] = Stroke
    BY <1>1, <1>2, <1>4
  <2>2. ASSUME NEW i \in 1 .. Len(out), i > n + 1 PROVE out[i] # Stroke
    <3> DEFINE k == i - n - 1
    <3>1. k \in 1 .. Len(t) /\ k + 1 \in 1 .. Len(t) + 1 /\ (k + 1) + n = i
      BY <1>1, <1>4, <2>2
    <3> HIDE DEF k
    <3>2. out[i] = new[k + 1] /\ new[k + 1] = t[k]
      BY <1>2, <1>4, <3>1
    <3> QED  BY <1>1, <3>1, <3>2
  <2> QED  BY <1>1, <1>4, <2>1, <2>2
<1>6. SelectLastInSeq(out, LAMBDA c : c = "/") = Max(I)
  BY <1>5 DEF SelectLastInSeq, Stroke
<1>7. Max(I) = n + 1
  <2> HIDE DEF I
  <2>1. I \subseteq Nat
    BY DEF I
  <2>2. \A m \in I : (\A y \in I : m >= y) => m = n + 1
    BY <1>4, <1>5, <2>1
  <2>3. n + 1 \in I /\ \A y \in I : n + 1 >= y
    BY <1>4, <1>5, <2>1
  <2> QED  BY <2>2, <2>3 DEF Max
<1>8. Popped(out) = SubSeq(out, 1, n)
  <2>1. n + 1 # 0 /\ n + 1 - 1 = n
    BY <1>4
  <2> QED  BY <1>6, <1>7, <2>1 DEF Popped
<1>9. SubSeq(out, 1, n) = x
  <2>1. SubSeq(out, 1, n) \in Seq(D) /\ Len(SubSeq(out, 1, n)) = n /\ \A i \in 1 .. n : SubSeq(out, 1, n)[i] = out[i]
    BY <1>1, <1>4
  <2> HIDE DEF n
  <2> QED  BY <1>4, <2>1, TextsEqual DEF n
<1>10. Popped(<<>>) = <<>>
  <2>1. SelectLastInSeq(<<>>, LAMBDA c : c = "/") = 0
    <3>1. {i \in 1 .. Len(<<>>) : <<>>[i] = "/"} = {}
      OBVIOUS
    <3> QED  BY <3>1 DEF SelectLastInSeq
  <2> QED  BY <2>1 DEF Popped
<1> QED  BY <1>8, <1>9, <1>10 DEF out, new

(* The two readings of a path, unfolded: what is kept after each of its    *)
(* characters, and what is left after each step of the table.              *)
SegmentAt(path, i) == Upto(From(path, i + 1), Stroke)
KeptStep(path, k, i) ==
  IF path[i] # Stroke THEN k
  ELSE Resolve(k, SegmentAt(path, i), i + Len(SegmentAt(path, i)) = Len(path))

LEMMA ResolvedIs ==
  ASSUME NEW path, Len(path) \in Nat
  PROVE  \E kept :
           /\ kept[0] = <<>>
           /\ \A i \in 1 .. Len(path) : kept[i] = KeptStep(path, kept[i - 1], i)
           /\ Resolved(path) = PathOf(kept[Len(path)])
<1> DEFINE Is(h, n) == h = [i \in 0 .. n |-> IF i = 0 THEN <<>> ELSE KeptStep(path, h[i - 1], i)]
           S == {n \in Nat : \E h : Is(h, n)}
           last == Len(path)
<1>1. Resolved(path) = PathOf((CHOOSE h : Is(h, last))[last])
  <2> DEFINE Long(h) == h = [i \in 0 .. last |->
                          IF i = 0 THEN <<>>
                          ELSE IF path[i] # Stroke THEN h[i - 1]
                          ELSE Resolve(h[i - 1], SegmentAt(path, i), i + Len(SegmentAt(path, i)) = Len(path))]
  <2>1. Resolved(path) = PathOf((CHOOSE h : Long(h))[last])
    BY DEF Resolved, Stroke, SegmentAt
  <2>2. ASSUME NEW h PROVE Long(h) <=> Is(h, last)
    BY DEF KeptStep
  <2> HIDE DEF Long, Is
  <2>3. (CHOOSE h : Long(h)) = (CHOOSE h : Is(h, last))
    BY <2>2
  <2> QED  BY <2>1, <2>3
<1>0. last \in Nat
  OBVIOUS
<1> HIDE DEF last
<1>2. 0 \in S
  <2>1. Is([i \in 0 .. 0 |-> <<>>], 0)
    OBVIOUS
  <2> QED  BY <2>1
<1>3. ASSUME NEW n \in Nat, n \in S PROVE n + 1 \in S
  <2>1. PICK h : Is(h, n)
    BY <1>3
  <2> DEFINE next == KeptStep(path, h[n], n + 1)
             g == [i \in 0 .. n + 1 |-> IF i = n + 1 THEN next ELSE h[i]]
  <2>2. ASSUME NEW i \in 0 .. n + 1
        PROVE  g[i] = IF i = 0 THEN <<>> ELSE KeptStep(path, g[i - 1], i)
    <3>1. CASE i = n + 1
      <4>1. g[i] = next /\ i # 0 /\ i - 1 = n /\ g[n] = h[n]
        BY <3>1
      <4> QED  BY <3>1, <4>1
    <3>2. CASE i # n + 1
      <4>1. i \in 0 .. n /\ g[i] = h[i] /\ (i # 0 => i - 1 \in 0 .. n /\ g[i - 1] = h[i - 1])
        BY <3>2
      <4> HIDE DEF g
      <4> QED  BY <2>1, <4>1
    <3> QED  BY <3>1, <3>2
  <2>3. g = [i \in 0 .. n + 1 |-> g[i]]
    OBVIOUS
  <2> HIDE DEF g
  <2>4. Is(g, n + 1)
    BY <2>2, <2>3
  <2> QED  BY <2>4
<1>4. \E h : Is(h, last)
  <2> HIDE DEF S, Is
  <2>1. last \in S
    BY <1>0, <1>2, <1>3, NatInSet
  <2> QED  BY <2>1 DEF S
<1>5. PICK h : Is(h, last) /\ Resolved(path) = PathOf(h[last])
  <2> HIDE DEF Is
  <2> QED  BY <1>1, <1>4
<1>6. h[0] = <<>> /\ \A i \in 1 .. last : h[i] = KeptStep(path, h[i - 1], i)
  <2>1. 0 \in 0 .. last /\ \A i \in 1 .. last : i \in 0 .. last /\ i # 0
    BY <1>0
  <2> QED  BY <1>5, <2>1
<1> QED  BY <1>5, <1>6 DEF last

LEMMA RemovedIs ==
  ASSUME NEW path, Len(path) \in Nat
  PROVE  \E after :
           /\ after[0] = [input |-> path, out |-> <<>>]
           /\ \A i \in 1 .. Len(path) : after[i] = DotStep(after[i - 1])
           /\ RemoveDotSegments(path) = after[Len(path)].out
<1> DEFINE start == [input |-> path, out |-> <<>>]
           Is(h, n) == h = [i \in 0 .. n |-> IF i = 0 THEN start ELSE DotStep(h[i - 1])]
           S == {n \in Nat : \E h : Is(h, n)}
           last == Len(path)
<1>1. RemoveDotSegments(path) = (CHOOSE h : Is(h, last))[last].out
  BY DEF RemoveDotSegments
<1>0. last \in Nat
  OBVIOUS
<1> HIDE DEF last, start
<1>2. 0 \in S
  <2>1. Is([i \in 0 .. 0 |-> start], 0)
    OBVIOUS
  <2> QED  BY <2>1
<1>3. ASSUME NEW n \in Nat, n \in S PROVE n + 1 \in S
  <2>1. PICK h : Is(h, n)
    BY <1>3
  <2> DEFINE next == DotStep(h[n])
             g == [i \in 0 .. n + 1 |-> IF i = n + 1 THEN next ELSE h[i]]
  <2>2. ASSUME NEW i \in 0 .. n + 1
        PROVE  g[i] = IF i = 0 THEN start ELSE DotStep(g[i - 1])
    <3>1. CASE i = n + 1
      <4>1. g[i] = next /\ i # 0 /\ i - 1 = n /\ g[n] = h[n]
        BY <3>1
      <4> QED  BY <3>1, <4>1
    <3>2. CASE i # n + 1
      <4>1. i \in 0 .. n /\ g[i] = h[i] /\ (i # 0 => i - 1 \in 0 .. n /\ g[i - 1] = h[i - 1])
        BY <3>2
      <4> HIDE DEF g
      <4> QED  BY <2>1, <4>1
    <3> QED  BY <3>1, <3>2
  <2>3. g = [i \in 0 .. n + 1 |-> g[i]]
    OBVIOUS
  <2> HIDE DEF g
  <2>4. Is(g, n + 1)
    BY <2>2, <2>3
  <2> QED  BY <2>4
<1>4. \E h : Is(h, last)
  <2> HIDE DEF S, Is
  <2>1. last \in S
    BY <1>0, <1>2, <1>3, NatInSet
  <2> QED  BY <2>1 DEF S
<1>5. PICK h : Is(h, last) /\ RemoveDotSegments(path) = h[last].out
  <2> HIDE DEF Is
  <2> QED  BY <1>1, <1>4
<1>6. h[0] = start /\ \A i \in 1 .. last : h[i] = DotStep(h[i - 1])
  <2>1. 0 \in 0 .. last /\ \A i \in 1 .. last : i \in 0 .. last /\ i # 0
    BY <1>0
  <2> QED  BY <1>5, <2>1
<1> QED  BY <1>5, <1>6 DEF last, start

LEMMA SegmentIs ==
  ASSUME NEW D, Stroke \in D, NEW path \in Seq(D), NEW i \in 1 .. Len(path)
  PROVE  LET t == SegmentAt(path, i) IN
         /\ t \in Segments(D) /\ Len(t) \in Nat /\ i + Len(t) <= Len(path)
         /\ \A j \in 1 .. Len(t) : t[j] = path[i + j] /\ t[j] # Stroke
         /\ i + Len(t) < Len(path) => path[i + Len(t) + 1] = Stroke
<1> DEFINE rest == From(path, i + 1)
           t == SegmentAt(path, i)
           n == Len(path)
<1>1. /\ n \in Nat /\ i + 1 \in 1 .. n + 1 /\ rest \in Seq(D) /\ Len(rest) = n - i
      /\ \A j \in 1 .. n - i : rest[j] = path[i + j]
  <2>1. n \in Nat /\ i + 1 \in 1 .. n + 1
    OBVIOUS
  <2>2. /\ From(path, i + 1) \in Seq(D) /\ Len(From(path, i + 1)) = n - (i + 1) + 1
        /\ \A j \in 1 .. n - (i + 1) + 1 : From(path, i + 1)[j] = path[(i + 1) + j - 1]
    BY <2>1, FromIs
  <2>3. n - (i + 1) + 1 = n - i /\ \A j \in 1 .. n - i : (i + 1) + j - 1 = i + j
    BY <2>1
  <2> QED  BY <2>1, <2>2, <2>3
<1> HIDE DEF rest
<1>2. /\ t \in Seq(D) /\ Len(t) \in 0 .. Len(rest)
      /\ \A j \in 1 .. Len(t) : t[j] = rest[j] /\ rest[j] # Stroke
      /\ Len(t) < Len(rest) => rest[Len(t) + 1] = Stroke
  <2>1. t = Upto(rest, Stroke)
    BY DEF SegmentAt, rest
  <2> QED  BY <1>1, <2>1, UptoIs
<1> HIDE DEF t
<1>3. \A j \in 1 .. Len(t) : j \in 1 .. n - i /\ t[j] = path[i + j] /\ t[j] # Stroke
  BY <1>1, <1>2
<1>4. i + Len(t) < n => path[i + Len(t) + 1] = Stroke
  <2>1. i + Len(t) < n => Len(t) < Len(rest) /\ Len(t) + 1 \in 1 .. n - i
    BY <1>1, <1>2
  <2>2. i + (Len(t) + 1) = i + Len(t) + 1
    BY <1>1, <1>2
  <2> QED  BY <1>1, <1>2, <2>1, <2>2
<1>5. t \in Segments(D)
  BY <1>2, <1>3 DEF Segments, Free
<1> QED  BY <1>1, <1>2, <1>3, <1>4, <1>5 DEF t

(* What is kept is a list of segments, and stays as it is up to the next.  *)
Keeps(path, kept) ==
  kept[0] = <<>> /\ \A i \in 1 .. Len(path) : kept[i] = KeptStep(path, kept[i - 1], i)

LEMMA ResolveTyped ==
  ASSUME NEW D, Stroke \in D, NEW kept \in Seq(Segments(D)), NEW t \in Segments(D), NEW isLast \in BOOLEAN
  PROVE  Resolve(kept, t, isLast) \in Seq(Segments(D))
<1> DEFINE A == Segments(D)
           end == IF isLast THEN <<<<>>>> ELSE <<>>
<1>1. <<>> \in A
  BY DEF Segments, Free
<1>2. end \in Seq(A)
  BY <1>1
<1>3. kept # <<>> => Front(kept) \in Seq(A)
  BY DEF Front
<1> HIDE DEF A, end
<1>4. /\ kept \o end \in Seq(A) /\ <<>> \o end \in Seq(A) /\ Append(kept, t) \in Seq(A)
      /\ kept # <<>> => Front(kept) \o end \in Seq(A)
  BY <1>2, <1>3 DEF A
<1>5. (IF kept = <<>> THEN kept ELSE Front(kept)) \o end \in Seq(A)
  BY <1>4
<1> QED  BY <1>4, <1>5 DEF Resolve, A, end

LEMMA SegmentsKept ==
  ASSUME NEW D, Stroke \in D, NEW path \in Seq(D), NEW kept, Keeps(path, kept)
  PROVE  \A i \in 0 .. Len(path) : kept[i] \in Seq(Segments(D))
<1> DEFINE n == Len(path)
           A == Segments(D)
           S == {i \in Nat : i <= n => kept[i] \in Seq(A)}
<1>0. n \in Nat
  OBVIOUS
<1>1. 0 \in S
  <2>1. kept[0] = <<>>
    BY DEF Keeps
  <2>2. <<>> \in Seq(A)
    <3> HIDE DEF A
    <3> QED  OBVIOUS
  <2> QED  BY <2>1, <2>2
<1>2. ASSUME NEW i \in Nat, i \in S PROVE i + 1 \in S
  <2>1. CASE i + 1 <= n
    <3> DEFINE t == SegmentAt(path, i + 1)
               isLast == (i + 1) + Len(t) = n
    <3>1. i + 1 \in 1 .. n /\ (i + 1) - 1 = i /\ kept[i] \in Seq(A)
      BY <1>0, <1>2, <2>1
    <3>2. kept[i + 1] = KeptStep(path, kept[i], i + 1)
      BY <3>1 DEF Keeps
    <3>3. t \in A
      BY <3>1, SegmentIs
    <3>4. isLast \in BOOLEAN
      OBVIOUS
    <3>5. Resolve(kept[i], t, isLast) \in Seq(A)
      <4> HIDE DEF t, isLast
      <4> QED  BY <3>1, <3>3, <3>4, ResolveTyped
    <3>6. kept[i + 1] \in Seq(A)
      <4> HIDE DEF A
      <4> QED  BY <3>1, <3>2, <3>5 DEF KeptStep
    <3> QED  BY <3>6
  <2>2. CASE ~(i + 1 <= n)
    BY <2>2
  <2> QED  BY <2>1, <2>2
<1>3. \A i \in Nat : i \in S
  <2> HIDE DEF S
  <2> QED  BY <1>1, <1>2, NatInSet
<1>4. \A i \in 0 .. n : kept[i] \in Seq(A)
  <2> HIDE DEF A
  <2> QED  BY <1>0, <1>3
<1> QED  BY <1>4

LEMMA KeptStays ==
  ASSUME NEW D, Stroke \in D, NEW path \in Seq(D), NEW kept, Keeps(path, kept), NEW i \in 1 .. Len(path),
         path[i] = Stroke
  PROVE  LET t == SegmentAt(path, i) IN
         kept[i + Len(t)] = Resolve(kept[i - 1], t, i + Len(t) = Len(path))
<1> DEFINE n == Len(path)
           t == SegmentAt(path, i)
           S == {m \in Nat : m <= Len(t) => kept[i + m] = kept[i]}
<1>1. /\ Len(t) \in Nat /\ n \in Nat /\ i + Len(t) <= n
      /\ \A j \in 1 .. Len(t) : t[j] = path[i + j] /\ t[j] # Stroke
  <2>1. n \in Nat
    OBVIOUS
  <2> QED  BY <2>1, SegmentIs
<1>2. kept[i] = Resolve(kept[i - 1], t, i + Len(t) = n)
  BY DEF Keeps, KeptStep
<1> HIDE DEF t
<1>3. 0 \in S
  <2>1. i + 0 = i
    OBVIOUS
  <2> QED  BY <2>1
<1>4. ASSUME NEW m \in Nat, m \in S PROVE m + 1 \in S
  <2>1. CASE m + 1 <= Len(t)
    <3>1. m + 1 \in 1 .. Len(t) /\ i + (m + 1) \in 1 .. n /\ i + (m + 1) - 1 = i + m
      BY <1>1, <2>1
    <3>2. path[i + (m + 1)] # Stroke
      BY <1>1, <3>1
    <3>3. kept[i + (m + 1)] = kept[i + (m + 1) - 1]
      BY <3>1, <3>2 DEF Keeps, KeptStep
    <3>4. kept[i + m] = kept[i]
      BY <1>1, <1>4, <3>1
    <3> QED  BY <3>1, <3>3, <3>4
  <2>2. CASE ~(m + 1 <= Len(t))
    BY <2>2
  <2> QED  BY <2>1, <2>2
<1>5. Len(t) \in S
  <2> HIDE DEF S
  <2> QED  BY <1>1, <1>3, <1>4, NatInSet
<1>6. kept[i + Len(t)] = kept[i]
  BY <1>1, <1>5
<1> QED  BY <1>2, <1>6 DEF t

(* A step of the table reads one segment, which t is of the input.         *)
Dot == "."
Here == <<Dot>>
Up == <<Dot, Dot>>

LEMMA HeadsAre ==
  ASSUME NEW D, Stroke \in D, NEW in \in Seq(D), in # <<>>, in[1] = Stroke
  PROVE  LET t == SegmentAt(in, 1)
             more == 1 + Len(t) < Len(in)
         IN  /\ ~IsPrefix(<<".", ".", "/">>, in) /\ ~IsPrefix(<<".", "/">>, in)
             /\ in \notin {<<".">>, <<".", ".">>}
             /\ IsPrefix(<<"/", ".", "/">>, in) <=> t = Here /\ more
             /\ in = <<"/", ".">> <=> t = Here /\ ~more
             /\ IsPrefix(<<"/", ".", ".", "/">>, in) <=> t = Up /\ more
             /\ in = <<"/", ".", ".">> <=> t = Up /\ ~more
<1> DEFINE t == SegmentAt(in, 1)
           n == Len(in)
           m == Len(t)
<1>1. 1 \in 1 .. Len(in) /\ n \in Nat
  OBVIOUS
<1>2. /\ t \in Seq(D) /\ m \in Nat /\ 1 + m <= n
      /\ \A j \in 1 .. m : t[j] = in[1 + j] /\ t[j] # Stroke
      /\ 1 + m < n => in[1 + m + 1] = Stroke
  BY <1>1, SegmentIs DEF Segments
<1> HIDE DEF t
<1>3. /\ t = Here <=> m = 1 /\ t[1] = Dot
      /\ t = Up <=> m = 2 /\ t[1] = Dot /\ t[2] = Dot
  BY <1>2 DEF Here, Up
<1>4. Dot # Stroke /\ Stroke = "/" /\ Dot = "."
  BY DEF Dot, Stroke
<1>5. /\ ~IsPrefix(<<".", ".", "/">>, in) /\ ~IsPrefix(<<".", "/">>, in)
      /\ in \notin {<<".">>, <<".", ".">>}
  <2>1. ~IsPrefix(<<".", ".", "/">>, in)
    BY <1>1, <1>4 DEF IsPrefix
  <2>2. ~IsPrefix(<<".", "/">>, in)
    BY <1>1, <1>4 DEF IsPrefix
  <2>3. in # <<".">> /\ in # <<".", ".">>
    BY <1>1, <1>4
  <2> QED  BY <2>1, <2>2, <2>3
<1>6. /\ m >= 1 => t[1] = in[2] /\ in[2] # Stroke
      /\ m >= 2 => t[2] = in[3] /\ in[3] # Stroke
      /\ m >= 3 => in[4] # Stroke
  BY <1>1, <1>2
<1>7. /\ m = 0 /\ 1 < n => in[2] = Stroke
      /\ m = 1 /\ 2 < n => in[3] = Stroke
      /\ m = 2 /\ 3 < n => in[4] = Stroke
      /\ m + 1 <= n
  <2>1. 1 + 0 + 1 = 2 /\ 1 + 1 + 1 = 3 /\ 1 + 2 + 1 = 4
    OBVIOUS
  <2>2. m \in Nat /\ n \in Nat /\ 1 + m <= n /\ (1 + m < n => in[1 + m + 1] = Stroke)
    BY <1>1, <1>2
  <2> HIDE DEF m, n
  <2>3. m = 0 /\ 1 < n => in[2] = Stroke
    BY <2>1, <2>2
  <2>4. m = 1 /\ 2 < n => in[3] = Stroke
    BY <2>1, <2>2
  <2>5. m = 2 /\ 3 < n => in[4] = Stroke
    BY <2>1, <2>2
  <2> QED  BY <2>2, <2>3, <2>4, <2>5
<1>8. m \in Nat /\ n \in Nat
  BY <1>1, <1>2
<1> HIDE DEF m, n
<1>9. in[2] = Dot => in[2] # Stroke
  BY <1>4
<1>10. in[3] = Dot => in[3] # Stroke
  BY <1>4
<1>11. /\ (m = 1 /\ t[1] = Dot /\ 1 + m < n) <=> (3 <= n /\ in[2] = Dot /\ in[3] = Stroke)
       /\ (m = 1 /\ t[1] = Dot /\ ~(1 + m < n)) <=> (2 = n /\ in[2] = Dot)
  BY <1>6, <1>7, <1>8, <1>9
<1>12. /\ (m = 2 /\ t[1] = Dot /\ t[2] = Dot /\ 1 + m < n)
            <=> (4 <= n /\ in[2] = Dot /\ in[3] = Dot /\ in[4] = Stroke)
       /\ (m = 2 /\ t[1] = Dot /\ t[2] = Dot /\ ~(1 + m < n)) <=> (3 = n /\ in[2] = Dot /\ in[3] = Dot)
  BY <1>6, <1>7, <1>8, <1>9, <1>10
<1> USE DEF m, n
<1>13. IsPrefix(<<"/", ".", "/">>, in) <=> 3 <= n /\ in[2] = Dot /\ in[3] = Stroke
  BY <1>1, <1>4 DEF IsPrefix
<1>14. IsPrefix(<<"/", ".", ".", "/">>, in) <=> 4 <= n /\ in[2] = Dot /\ in[3] = Dot /\ in[4] = Stroke
  BY <1>1, <1>4 DEF IsPrefix
<1>15. in = <<"/", ".">> <=> n = 2 /\ in[2] = Dot
  BY <1>1, <1>4
<1>16. in = <<"/", ".", ".">> <=> n = 3 /\ in[2] = Dot /\ in[3] = Dot
  BY <1>1, <1>4
<1> HIDE DEF m, n
<1>17. IsPrefix(<<"/", ".", "/">>, in) <=> t = Here /\ 1 + m < n
  BY <1>3, <1>11, <1>13
<1>18. in = <<"/", ".">> <=> t = Here /\ ~(1 + m < n)
  BY <1>3, <1>11, <1>15
<1>19. IsPrefix(<<"/", ".", ".", "/">>, in) <=> t = Up /\ 1 + m < n
  BY <1>3, <1>12, <1>14
<1>20. in = <<"/", ".", ".">> <=> t = Up /\ ~(1 + m < n)
  BY <1>3, <1>12, <1>16
<1> QED  BY <1>5, <1>17, <1>18, <1>19, <1>20 DEF t, m, n

LEMMA SegmentHead ==
  ASSUME NEW D, Stroke \in D, NEW in \in Seq(D), in # <<>>, in[1] = Stroke
  PROVE  LET t == SegmentAt(in, 1) IN
         /\ Segment(in) = <<Stroke>> \o t /\ Len(Segment(in)) = 1 + Len(t)
<1> DEFINE t == SegmentAt(in, 1)
<1>1. SubSeq(in, 1, 2 - 1) = <<Stroke>>
  <2> DEFINE o == SubSeq(in, 1, 1)
  <2>1. o \in Seq(D) /\ Len(o) = 1 /\ o[1] = Stroke
    OBVIOUS
  <2>2. 2 - 1 = 1
    OBVIOUS
  <2> HIDE DEF o
  <2>3. o = <<Stroke>>
    BY <2>1
  <2> QED  BY <2>2, <2>3 DEF o
<1>2. Upto(From(in, 2), "/") = t
  <2>1. 1 + 1 = 2
    OBVIOUS
  <2> QED  BY <2>1 DEF SegmentAt, Stroke
<1>3. Segment(in) = SubSeq(in, 1, 2 - 1) \o Upto(From(in, 2), "/")
  BY DEF Segment, Stroke
<1>4. t \in Segments(D)
  <2>1. 1 \in 1 .. Len(in)
    OBVIOUS
  <2> QED  BY <2>1, SegmentIs
<1>5. Len(<<Stroke>> \o t) = Len(t) + 1 /\ Len(t) \in Nat
  <2> HIDE DEF t
  <2>1. t \in Seq(D)
    BY <1>4 DEF Segments
  <2>2. Len(t) \in Nat
    BY <2>1
  <2> QED  BY <2>1, <2>2, LeadIs
<1> HIDE DEF t
<1>6. Segment(in) = <<Stroke>> \o t
  BY <1>1, <1>2, <1>3
<1> QED  BY <1>5, <1>6 DEF t

(* A dropped segment leaves its slash in the input: the next one's.        *)
LEMMA SlashAgain ==
  ASSUME NEW D, Stroke \in D, NEW in \in Seq(D), NEW k \in 1 .. Len(in), in[k] = Stroke
  PROVE  <<Stroke>> \o From(in, k + 1) = From(in, k)
<1> DEFINE n == Len(in)
           a == From(in, k + 1)
           b == From(in, k)
           u == <<Stroke>> \o a
<1>1. n \in Nat /\ k + 1 \in 1 .. n + 1 /\ k \in 1 .. n + 1
  OBVIOUS
<1>2. /\ a \in Seq(D) /\ Len(a) = n - (k + 1) + 1
      /\ \A j \in 1 .. n - (k + 1) + 1 : a[j] = in[(k + 1) + j - 1]
  BY <1>1, FromIs
<1>3. /\ b \in Seq(D) /\ Len(b) = n - k + 1 /\ \A j \in 1 .. n - k + 1 : b[j] = in[k + j - 1]
  BY <1>1, FromIs
<1> HIDE DEF a, b
<1>4. u \in Seq(D) /\ Len(u) = Len(a) + 1 /\ u[1] = Stroke /\ \A j \in 1 .. Len(a) : u[j + 1] = a[j]
  BY <1>2, LeadIs
<1> HIDE DEF u
<1>5. Len(u) = Len(b) /\ Len(b) \in Nat
  BY <1>1, <1>2, <1>3, <1>4
<1>6. ASSUME NEW j \in 1 .. Len(b) PROVE u[j] = b[j]
  <2>1. CASE j = 1
    <3>1. 1 \in 1 .. n - k + 1 /\ k + 1 - 1 = k
      BY <1>1
    <3> QED  BY <1>3, <1>4, <2>1, <3>1
  <2>2. CASE j # 1
    <3> DEFINE i == j - 1
    <3>1. i \in 1 .. Len(a) /\ i \in 1 .. n - (k + 1) + 1 /\ i + 1 = j /\ (k + 1) + i - 1 = k + j - 1
          /\ j \in 1 .. n - k + 1
      BY <1>1, <1>2, <1>3, <1>5, <2>2
    <3> HIDE DEF i
    <3>2. u[j] = a[i] /\ a[i] = in[(k + 1) + i - 1] /\ b[j] = in[k + j - 1]
      BY <1>2, <1>3, <1>4, <3>1
    <3> QED  BY <3>1, <3>2
  <2> QED  BY <2>1, <2>2
<1>7. u = b
  BY <1>3, <1>4, <1>5, <1>6, TextsEqual
<1> QED  BY <1>7 DEF u, a, b

(* What a step does with the segment the input starts with.                *)
LEMMA DotStepIs ==
  ASSUME NEW D, Stroke \in D, NEW in \in Seq(D), in # <<>>, in[1] = Stroke, NEW out
  PROVE  LET t == SegmentAt(in, 1)
             more == 1 + Len(t) < Len(in)
             rest == IF more THEN From(in, 1 + Len(t) + 1) ELSE <<>>
             left == IF more THEN rest ELSE <<Stroke>>
         IN  DotStep([input |-> in, out |-> out]) =
               CASE t = Here -> [input |-> left, out |-> out]
                 [] t = Up -> [input |-> left, out |-> Popped(out)]
                 [] OTHER -> [input |-> rest, out |-> out \o (<<Stroke>> \o t)]
<1> DEFINE t == SegmentAt(in, 1)
           more == 1 + Len(t) < Len(in)
           rest == IF more THEN From(in, 1 + Len(t) + 1) ELSE <<>>
           left == IF more THEN rest ELSE <<Stroke>>
           s == [input |-> in, out |-> out]
           heads(what) == IsPrefix(what, in)
           n == Len(in)
<1>1. 1 \in 1 .. n /\ n \in Nat
  OBVIOUS
<1>2. /\ t \in Seq(D) /\ Len(t) \in Nat /\ 1 + Len(t) <= n
      /\ more => in[1 + Len(t) + 1] = Stroke
  BY <1>1, SegmentIs DEF Segments
<1>3. /\ ~heads(<<".", ".", "/">>) /\ ~heads(<<".", "/">>)
      /\ in \notin {<<".">>, <<".", ".">>}
      /\ heads(<<"/", ".", "/">>) <=> t = Here /\ more
      /\ in = <<"/", ".">> <=> t = Here /\ ~more
      /\ heads(<<"/", ".", ".", "/">>) <=> t = Up /\ more
      /\ in = <<"/", ".", ".">> <=> t = Up /\ ~more
  BY HeadsAre
<1>4. Segment(in) = <<Stroke>> \o t /\ Len(Segment(in)) = 1 + Len(t)
  BY SegmentHead
<1>5. Here # Up /\ Len(Here) = 1 /\ Len(Up) = 2 /\ Stroke = "/"
  BY DEF Here, Up, Stroke
<1>6. s.input = in /\ s.out = out /\ \A x : [s EXCEPT !.input = x] = [input |-> x, out |-> out]
  OBVIOUS
<1>7. DotStep(s) =
        IF heads(<<"/", ".", "/">>) THEN [input |-> <<Stroke>> \o From(in, 3 + 1), out |-> out]
        ELSE IF in = <<"/", ".">> THEN [input |-> <<Stroke>>, out |-> out]
        ELSE IF heads(<<"/", ".", ".", "/">>)
          THEN [input |-> <<Stroke>> \o From(in, 4 + 1), out |-> Popped(out)]
        ELSE IF in = <<"/", ".", ".">> THEN [input |-> <<Stroke>>, out |-> Popped(out)]
        ELSE [input |-> From(in, Len(Segment(in)) + 1), out |-> out \o Segment(in)]
  <2> HIDE DEF s
  <2> QED  BY <1>3, <1>6, Zenon DEF DotStep, Stroke
<1>8. ASSUME t = Here PROVE DotStep(s) = [input |-> left, out |-> out]
  <2>1. CASE more
    <3>0. Len(t) = 1
      BY <1>5, <1>8
    <3>1. 1 + Len(t) + 1 = 3 /\ 3 \in 1 .. n /\ in[3] = Stroke
      <4> HIDE DEF t
      <4> QED  BY <1>1, <1>2, <2>1, <3>0
    <3>2. <<Stroke>> \o From(in, 3 + 1) = From(in, 3)
      BY <3>1, SlashAgain
    <3>3. left = From(in, 3)
      BY <2>1, <3>1
    <3>4. DotStep(s) = [input |-> <<Stroke>> \o From(in, 3 + 1), out |-> out]
      <4> HIDE DEF s
      <4> QED  BY <1>3, <1>7, <1>8, <2>1
    <3> HIDE DEF left, s
    <3> QED  BY <3>2, <3>3, <3>4
  <2>2. CASE ~more
    <3>1. DotStep(s) = [input |-> <<Stroke>>, out |-> out]
      <4> HIDE DEF s, more
      <4> QED  BY <1>3, <1>5, <1>7, <1>8, <2>2
    <3>2. left = <<Stroke>>
      BY <2>2
    <3> HIDE DEF left, s
    <3> QED  BY <3>1, <3>2
  <2> QED  BY <2>1, <2>2
<1>9. ASSUME t = Up PROVE DotStep(s) = [input |-> left, out |-> Popped(out)]
  <2>0. t # Here
    BY <1>5, <1>9
  <2>1. CASE more
    <3>0. Len(t) = 2
      BY <1>5, <1>9
    <3>1. 1 + Len(t) + 1 = 4 /\ 4 \in 1 .. n /\ in[4] = Stroke
      <4> HIDE DEF t
      <4> QED  BY <1>1, <1>2, <2>1, <3>0
    <3>2. <<Stroke>> \o From(in, 4 + 1) = From(in, 4)
      BY <3>1, SlashAgain
    <3>3. left = From(in, 4)
      BY <2>1, <3>1
    <3>4. DotStep(s) = [input |-> <<Stroke>> \o From(in, 4 + 1), out |-> Popped(out)]
      <4> HIDE DEF s, more
      <4> QED  BY <1>3, <1>7, <1>9, <2>0, <2>1
    <3> HIDE DEF left, s
    <3> QED  BY <3>2, <3>3, <3>4
  <2>2. CASE ~more
    <3>1. DotStep(s) = [input |-> <<Stroke>>, out |-> Popped(out)]
      <4> HIDE DEF s, more
      <4> QED  BY <1>3, <1>7, <1>9, <2>0, <2>2
    <3>2. left = <<Stroke>>
      BY <2>2
    <3> HIDE DEF left, s
    <3> QED  BY <3>1, <3>2
  <2> QED  BY <2>1, <2>2
<1>10. ASSUME t # Here, t # Up PROVE DotStep(s) = [input |-> rest, out |-> out \o (<<Stroke>> \o t)]
  <2>1. DotStep(s) = [input |-> From(in, Len(Segment(in)) + 1), out |-> out \o Segment(in)]
    <3> HIDE DEF s, more
    <3> QED  BY <1>3, <1>7, <1>10
  <2>2. From(in, 1 + Len(t) + 1) = rest
    <3>1. CASE more
      BY <3>1
    <3>2. CASE ~more
      <4>1. 1 + Len(t) + 1 = n + 1
        BY <1>1, <1>2, <3>2
      <4>2. From(in, n + 1) = <<>>
        <5>1. n + 1 \in 1 .. n + 1 /\ n - (n + 1) + 1 = 0
          BY <1>1
        <5>2. From(in, n + 1) \in Seq(D) /\ Len(From(in, n + 1)) = 0
          BY <5>1, FromIs
        <5> QED  BY <5>2
      <4> QED  BY <3>2, <4>1, <4>2
    <3> QED  BY <3>1, <3>2
  <2> HIDE DEF rest, s
  <2> QED  BY <1>4, <2>1, <2>2
<1> DEFINE then == DotStep(s)
<1> HIDE DEF t, left, rest, then
<1>11. then = CASE t = Here -> [input |-> left, out |-> out]
                [] t = Up -> [input |-> left, out |-> Popped(out)]
                [] OTHER -> [input |-> rest, out |-> out \o (<<Stroke>> \o t)]
  BY <1>5, <1>8, <1>9, <1>10 DEF then
<1> QED  BY <1>11 DEF then, t, left, rest

LEMMA FromFrom ==
  ASSUME NEW D, NEW s \in Seq(D), NEW i \in 1 .. Len(s) + 1, NEW k \in 1 .. Len(s) - i + 2
  PROVE  From(From(s, i), k) = From(s, i + k - 1)
<1> DEFINE n == Len(s)
           a == From(s, i)
           b == From(a, k)
           c == From(s, i + k - 1)
<1>1. n \in Nat /\ i \in Nat /\ k \in Nat /\ i + k - 1 \in 1 .. n + 1
  OBVIOUS
<1>2. /\ a \in Seq(D) /\ Len(a) = n - i + 1 /\ \A j \in 1 .. n - i + 1 : a[j] = s[i + j - 1]
  BY FromIs
<1>3. /\ c \in Seq(D) /\ Len(c) = n - (i + k - 1) + 1
      /\ \A j \in 1 .. n - (i + k - 1) + 1 : c[j] = s[(i + k - 1) + j - 1]
  BY <1>1, FromIs
<1> HIDE DEF a, c
<1>4. k \in 1 .. Len(a) + 1
  BY <1>1, <1>2
<1>5. /\ b \in Seq(D) /\ Len(b) = Len(a) - k + 1 /\ \A j \in 1 .. Len(a) - k + 1 : b[j] = a[k + j - 1]
  BY <1>2, <1>4, FromIs
<1> HIDE DEF b
<1>6. Len(b) = Len(c)
  BY <1>1, <1>2, <1>3, <1>5
<1>7. ASSUME NEW j \in 1 .. Len(b) PROVE b[j] = c[j]
  <2> DEFINE h == k + j - 1
  <2>1. /\ j \in 1 .. Len(a) - k + 1 /\ j \in 1 .. n - (i + k - 1) + 1
        /\ h \in 1 .. n - i + 1 /\ i + h - 1 = (i + k - 1) + j - 1
    BY <1>1, <1>2, <1>3, <1>5, <1>6
  <2>2. b[j] = a[h]
    BY <1>5, <2>1
  <2> HIDE DEF h
  <2>3. a[h] = s[i + h - 1] /\ c[j] = s[(i + k - 1) + j - 1]
    BY <1>2, <1>3, <2>1
  <2> QED  BY <2>1, <2>2, <2>3
<1>8. b = c
  BY <1>3, <1>5, <1>6, <1>7, TextsEqual
<1> QED  BY <1>8 DEF b, a, c

(* The first segment of what is left from a slash on is that slash's.      *)
LEMMA SegmentFrom ==
  ASSUME NEW D, NEW path \in Seq(D), NEW i \in 1 .. Len(path)
  PROVE  SegmentAt(From(path, i), 1) = SegmentAt(path, i)
<1>1. From(From(path, i), 1 + 1) = From(path, i + 1)
  <2>1. i \in 1 .. Len(path) + 1 /\ 2 \in 1 .. Len(path) - i + 2 /\ i + 2 - 1 = i + 1 /\ 1 + 1 = 2
    OBVIOUS
  <2>2. From(From(path, i), 2) = From(path, i + 2 - 1)
    BY <2>1, FromFrom
  <2> QED  BY <2>1, <2>2
<1> QED  BY <1>1 DEF SegmentAt

(* A step back over a path is one over its segments.                       *)
OneUp(kept) == IF kept = <<>> THEN kept ELSE Front(kept)

LEMMA PoppedPath ==
  ASSUME NEW D, Stroke \in D, NEW kept \in Seq(Segments(D))
  PROVE  OneUp(kept) \in Seq(Segments(D)) /\ Popped(PathOf(kept)) = PathOf(OneUp(kept))
<1> DEFINE A == Segments(D)
<1>1. CASE kept = <<>>
  <2>1. <<>> \in A
    BY DEF Segments, Free
  <2>2. PathOf(<<>>) = <<>>
    <3>1. kept \in Seq(A)
      OBVIOUS
    <3> HIDE DEF A
    <3> QED  BY <2>1, <3>1, PathGrows DEF A
  <2>3. Popped(<<>>) = <<>>
    <3>1. <<>> \in Seq(D)
      OBVIOUS
    <3> QED  BY <2>1, <3>1, PoppedIs
  <2> QED  BY <1>1, <2>2, <2>3 DEF OneUp
<1>2. CASE kept # <<>>
  <2> DEFINE f == Front(kept)
             t == kept[Len(kept)]
  <2>1. f \in Seq(A) /\ t \in A /\ kept = Append(f, t)
    <3> HIDE DEF A
    <3>1. Len(kept) \in Nat /\ Len(kept) >= 1 /\ kept \in Seq(A)
      BY <1>2 DEF A
    <3>2. f \in Seq(A) /\ Len(f) = Len(kept) - 1 /\ \A i \in 1 .. Len(kept) - 1 : f[i] = kept[i]
      <4> DEFINE m == Len(kept) - 1
      <4>1. f = SubSeq(kept, 1, m)
        BY DEF Front
      <4>2. m \in Nat /\ m <= Len(kept)
        BY <3>1
      <4> HIDE DEF m, f
      <4>3. f \in Seq(A) /\ Len(f) = m /\ \A i \in 1 .. m : f[i] = kept[i]
        BY <3>1, <4>1, <4>2
      <4> QED  BY <4>3 DEF m
    <3>3. t \in A
      BY <3>1
    <3> HIDE DEF f, t
    <3>4. Append(f, t) \in Seq(A) /\ Len(Append(f, t)) = Len(kept)
          /\ \A i \in 1 .. Len(kept) - 1 : Append(f, t)[i] = f[i]
          /\ Append(f, t)[Len(kept)] = t
      BY <3>1, <3>2, <3>3
    <3>5. \A i \in 1 .. Len(kept) : Append(f, t)[i] = kept[i]
      BY <3>1, <3>2, <3>4 DEF t
    <3>6. Append(f, t) = kept
      BY <3>1, <3>4, <3>5, TextsEqual
    <3> QED  BY <3>2, <3>3, <3>6
  <2>2. OneUp(kept) = f
    BY <1>2 DEF OneUp
  <2> HIDE DEF f, t
  <2>3. PathOf(kept) = PathOf(f) \o (<<Stroke>> \o t) /\ PathOf(f) \in Seq(D)
    BY <2>1, PathGrows
  <2>4. Popped(PathOf(f) \o (<<Stroke>> \o t)) = PathOf(f)
    BY <2>1, <2>3, PoppedIs
  <2> QED  BY <2>1, <2>2, <2>3, <2>4
<1> QED  BY <1>1, <1>2

(* What is kept by the end of a segment.                                   *)
LEMMA ResolveIs ==
  ASSUME NEW D, Stroke \in D, NEW kept \in Seq(Segments(D)), NEW t \in Segments(D), NEW isLast \in BOOLEAN
  PROVE  Resolve(kept, t, isLast) =
           CASE t = Here -> IF isLast THEN Append(kept, <<>>) ELSE kept
             [] t = Up -> IF isLast THEN Append(OneUp(kept), <<>>) ELSE OneUp(kept)
             [] OTHER -> Append(kept, t)
<1> DEFINE A == Segments(D)
           end == IF isLast THEN <<<<>>>> ELSE <<>>
<1>1. <<>> \in A
  BY DEF Segments, Free
<1>2. kept \in Seq(A) /\ OneUp(kept) \in Seq(A)
  BY PoppedPath
<1>3. ASSUME NEW k \in Seq(A) PROVE k \o end = IF isLast THEN Append(k, <<>>) ELSE k
  <2> HIDE DEF A
  <2>1. k \o <<<<>>>> = Append(k, <<>>) /\ k \o <<>> = k
    BY <1>1
  <2> QED  BY <2>1
<1>4. Resolve(kept, t, isLast) =
        CASE t = Here -> kept \o end
          [] t = Up -> OneUp(kept) \o end
          [] OTHER -> Append(kept, t)
  BY DEF Resolve, Here, Up, Dot, OneUp
<1>5. Here # Up
  BY DEF Here, Up
<1> HIDE DEF A, end
<1> QED  BY <1>2, <1>3, <1>4, <1>5

(* Where the table is after j steps: at a slash, with the segments kept so *)
(* far put out; at the slash a last dot segment leaves; or done.           *)
AtSlash(path, kept, j, s) ==
  \E i \in j + 1 .. Len(path) :
    path[i] = Stroke /\ s = [input |-> From(path, i), out |-> PathOf(kept[i - 1])]
Closing(D, path, kept, j, s) ==
  /\ j < Len(path)
  /\ \E x \in Seq(D) : /\ s = [input |-> <<Stroke>>, out |-> x]
                       /\ x \o <<Stroke>> = PathOf(kept[Len(path)])
PutOut(path, kept, s) == s = [input |-> <<>>, out |-> PathOf(kept[Len(path)])]
Reading(D, path, kept, j, s) ==
  AtSlash(path, kept, j, s) \/ Closing(D, path, kept, j, s) \/ PutOut(path, kept, s)

LEMMA SlashReadsOn ==
  ASSUME NEW D, Stroke \in D, NEW path \in Seq(D), NEW kept, Keeps(path, kept), NEW j \in Nat, NEW s,
         AtSlash(path, kept, j, s)
  PROVE  Reading(D, path, kept, j + 1, DotStep(s))
<1> DEFINE n == Len(path)
           A == Segments(D)
<1>0. n \in Nat
  OBVIOUS
<1>1. PICK i \in j + 1 .. n : path[i] = Stroke /\ s = [input |-> From(path, i), out |-> PathOf(kept[i - 1])]
  BY DEF AtSlash
<1> DEFINE in == From(path, i)
           t == SegmentAt(path, i)
           k == kept[i - 1]
           out == PathOf(k)
           more == i + Len(t) < n
           e == i + Len(t)
<1>2. i \in 1 .. n /\ i - 1 \in 0 .. n
  BY <1>0
<1>3. /\ t \in A /\ Len(t) \in Nat /\ e <= n
      /\ more => path[e + 1] = Stroke
  BY <1>2, SegmentIs
<1>4. k \in Seq(A) /\ kept[n] \in Seq(A)
  <2> HIDE DEF A
  <2> QED  BY <1>0, <1>2, SegmentsKept DEF A
<1>5. kept[e] = Resolve(k, t, e = n)
  BY <1>1, <1>2, KeptStays
<1>6. /\ in \in Seq(D) /\ Len(in) = n - i + 1 /\ in # <<>> /\ in[1] = Stroke
  <2>1. i \in 1 .. n + 1 /\ 1 \in 1 .. n - i + 1 /\ i + 1 - 1 = i
    BY <1>0, <1>2
  <2>2. in \in Seq(D) /\ Len(in) = n - i + 1 /\ in[1] = path[i]
    BY <2>1, FromIs
  <2> HIDE DEF in
  <2> QED  BY <1>1, <2>1, <2>2
<1>7. SegmentAt(in, 1) = t
  BY <1>2, SegmentFrom
<1> DEFINE rest == IF more THEN From(path, e + 1) ELSE <<>>
           left == IF more THEN rest ELSE <<Stroke>>
<1>8. DotStep(s) = CASE t = Here -> [input |-> left, out |-> out]
                     [] t = Up -> [input |-> left, out |-> Popped(out)]
                     [] OTHER -> [input |-> rest, out |-> out \o (<<Stroke>> \o t)]
  <2>1. (1 + Len(t) < Len(in)) <=> more
    <3> HIDE DEF t, in
    <3> QED  BY <1>0, <1>2, <1>3, <1>6
  <2>2. ASSUME more PROVE From(in, 1 + Len(t) + 1) = From(path, e + 1)
    <3> DEFINE g == 1 + Len(t) + 1
    <3>1. i \in 1 .. n + 1 /\ g \in 1 .. n - i + 2 /\ i + g - 1 = e + 1
      <4> HIDE DEF t
      <4> QED  BY <1>0, <1>2, <1>3, <2>2
    <3> HIDE DEF g
    <3>2. From(From(path, i), g) = From(path, i + g - 1)
      BY <3>1, FromFrom
    <3> QED  BY <3>1, <3>2 DEF g
  <2>3. (IF 1 + Len(t) < Len(in) THEN From(in, 1 + Len(t) + 1) ELSE <<>>) = rest
    <3> HIDE DEF t, in
    <3> QED  BY <2>1, <2>2
  <2>4. s = [input |-> in, out |-> out]
    BY <1>1
  <2> DEFINE r(u) == IF 1 + Len(u) < Len(in) THEN From(in, 1 + Len(u) + 1) ELSE <<>>
             l(u) == IF 1 + Len(u) < Len(in) THEN r(u) ELSE <<Stroke>>
  <2>5. DotStep([input |-> in, out |-> out]) =
          CASE SegmentAt(in, 1) = Here -> [input |-> l(SegmentAt(in, 1)), out |-> out]
            [] SegmentAt(in, 1) = Up -> [input |-> l(SegmentAt(in, 1)), out |-> Popped(out)]
            [] OTHER -> [input |-> r(SegmentAt(in, 1)), out |-> out \o (<<Stroke>> \o SegmentAt(in, 1))]
    <3> HIDE DEF in, out
    <3> QED  BY <1>6, DotStepIs
  <2>6. r(t) = rest /\ l(t) = left
    <3>1. r(t) = rest
      BY <2>3
    <3> HIDE DEF r, rest, t, in
    <3>2. l(t) = IF 1 + Len(t) < Len(in) THEN r(t) ELSE <<Stroke>>
      OBVIOUS
    <3>3. left = IF more THEN rest ELSE <<Stroke>>
      OBVIOUS
    <3> HIDE DEF l, left, more
    <3> QED  BY <2>1, <3>1, <3>2, <3>3
  <2> HIDE DEF t, in, out, r, l, rest, left
  <2> QED  BY <1>7, <2>4, <2>5, <2>6
<1>9. (e = n) <=> ~more
  <2>1. Len(t) \in Nat /\ i + Len(t) <= n /\ i \in Nat
    BY <1>0, <1>2, <1>3
  <2> HIDE DEF t, n
  <2> QED  BY <1>0, <2>1 DEF n
<1>10. OneUp(k) \in Seq(A) /\ Popped(out) = PathOf(OneUp(k))
  <2> HIDE DEF k
  <2> QED  BY <1>4, PoppedPath
<1>11. kept[e] = CASE t = Here -> IF e = n THEN Append(k, <<>>) ELSE k
                   [] t = Up -> IF e = n THEN Append(OneUp(k), <<>>) ELSE OneUp(k)
                   [] OTHER -> Append(k, t)
  <2> DEFINE isLast == e = n
  <2>1. isLast \in BOOLEAN
    OBVIOUS
  <2> HIDE DEF isLast, k, t
  <2>2. Resolve(k, t, isLast) = CASE t = Here -> IF isLast THEN Append(k, <<>>) ELSE k
                   [] t = Up -> IF isLast THEN Append(OneUp(k), <<>>) ELSE OneUp(k)
                   [] OTHER -> Append(k, t)
    <3>1. t \in Segments(D) /\ k \in Seq(Segments(D))
      BY <1>3, <1>4
    <3> HIDE DEF A, e, n
    <3> QED  BY <2>1, <3>1, ResolveIs
  <2>3. kept[e] = Resolve(k, t, isLast)
    BY <1>5 DEF isLast
  <2> HIDE DEF e
  <2> QED  BY <2>2, <2>3 DEF isLast
<1>12. /\ <<>> \in A /\ \A p \in Seq(A) : PathOf(p) \in Seq(D) /\ PathOf(Append(p, <<>>)) = PathOf(p) \o <<Stroke>>
       /\ PathOf(Append(k, t)) = out \o (<<Stroke>> \o t)
  <2>1. <<>> \in A
    BY DEF Segments, Free
  <2>2. <<Stroke>> \o <<>> = <<Stroke>>
    OBVIOUS
  <2> HIDE DEF A, k, t
  <2>3. \A p \in Seq(A) : PathOf(p) \in Seq(D) /\ PathOf(Append(p, <<>>)) = PathOf(p) \o (<<Stroke>> \o <<>>)
    BY <2>1, PathGrows DEF A
  <2>4. PathOf(Append(k, t)) = out \o (<<Stroke>> \o t)
    <3>1. t \in Segments(D) /\ k \in Seq(Segments(D))
      BY <1>3, <1>4 DEF A
    <3> QED  BY <3>1, PathGrows
  <2> QED  BY <2>1, <2>2, <2>3, <2>4
<1>13. Here # Up
  BY DEF Here, Up
<1>14. i + 1 \in Nat /\ j + 1 < i + 1 /\ (t = Here \/ t = Up => Len(t) >= 1)
  <2>1. Len(Here) = 1 /\ Len(Up) = 2
    BY DEF Here, Up
  <2>2. i \in Nat /\ j + 1 <= i
    BY <1>0
  <2>3. i + 1 \in Nat /\ j + 1 < i + 1
    BY <2>2
  <2> DEFINE m == Len(t)
  <2>4. t = Here \/ t = Up => m >= 1
    <3>1. t = Here => m = 1
      BY <2>1
    <3>2. t = Up => m = 2
      BY <2>1
    <3> HIDE DEF m, t
    <3> QED  BY <3>1, <3>2
  <2> HIDE DEF t
  <2> QED  BY <2>3, <2>4
<1>15. ASSUME more, DotStep(s) = [input |-> left, out |-> PathOf(kept[e])]
       PROVE  Reading(D, path, kept, j + 1, DotStep(s))
  <2>1. left = From(path, e + 1) /\ path[e + 1] = Stroke
    <3>1. path[e + 1] = Stroke
      BY <1>3, <1>15
    <3> HIDE DEF e, t
    <3> QED  BY <1>15, <3>1
  <2> HIDE DEF t
  <2>2. e + 1 \in (j + 1) + 1 .. n /\ (e + 1) - 1 = e
    BY <1>0, <1>2, <1>3, <1>15
  <2> HIDE DEF e, left
  <2>3. AtSlash(path, kept, j + 1, DotStep(s))
    BY <1>15, <2>1, <2>2 DEF AtSlash
  <2> QED  BY <2>3 DEF Reading
<1>16. ASSUME ~more, NEW p \in Seq(A), t = Here \/ t = Up, kept[e] = Append(p, <<>>),
              DotStep(s) = [input |-> left, out |-> PathOf(p)]
       PROVE  Reading(D, path, kept, j + 1, DotStep(s))
  <2>1. left = <<Stroke>>
    BY <1>16
  <2>2. e = n
    BY <1>9, <1>16
  <2> HIDE DEF t
  <2>3. j + 1 < n
    BY <1>0, <1>2, <1>3, <1>14, <1>16, <2>2
  <2> HIDE DEF e, left
  <2>4. PathOf(p) \in Seq(D) /\ PathOf(p) \o <<Stroke>> = PathOf(kept[n])
    BY <1>12, <1>16, <2>2
  <2>5. Closing(D, path, kept, j + 1, DotStep(s))
    BY <1>16, <2>1, <2>3, <2>4 DEF Closing
  <2> QED  BY <2>5 DEF Reading
<1>17. ASSUME t = Here PROVE Reading(D, path, kept, j + 1, DotStep(s))
  <2>1. DotStep(s) = [input |-> left, out |-> out]
    <3> HIDE DEF left, out, t
    <3> QED  BY <1>8, <1>13, <1>17
  <2>2. kept[e] = IF e = n THEN Append(k, <<>>) ELSE k
    <3> HIDE DEF e, t, k
    <3> QED  BY <1>11, <1>13, <1>17
  <2> HIDE DEF left, e, t, k, more
  <2> QED  BY <1>4, <1>9, <1>15, <1>16, <1>17, <2>1, <2>2
<1>18. ASSUME t = Up PROVE Reading(D, path, kept, j + 1, DotStep(s))
  <2>1. DotStep(s) = [input |-> left, out |-> Popped(out)]
    <3> HIDE DEF left, out, t
    <3> QED  BY <1>8, <1>13, <1>18
  <2>2. kept[e] = IF e = n THEN Append(OneUp(k), <<>>) ELSE OneUp(k)
    <3> HIDE DEF e, t, k
    <3> QED  BY <1>11, <1>13, <1>18
  <2> HIDE DEF left, e, t, k, more
  <2> QED  BY <1>9, <1>10, <1>15, <1>16, <1>18, <2>1, <2>2
<1>19. ASSUME t # Here, t # Up PROVE Reading(D, path, kept, j + 1, DotStep(s))
  <2>1. DotStep(s) = [input |-> rest, out |-> PathOf(kept[e])]
    <3>1. DotStep(s) = [input |-> rest, out |-> out \o (<<Stroke>> \o t)]
      <4> HIDE DEF rest, out, t
      <4> QED  BY <1>8, <1>19
    <3>2. kept[e] = Append(k, t)
      <4> HIDE DEF e, t, k
      <4> QED  BY <1>11, <1>19
    <3> HIDE DEF rest, out, e, t, k
    <3> QED  BY <1>12, <3>1, <3>2
  <2>2. CASE more
    <3>1. left = rest
      BY <2>2
    <3> HIDE DEF left, rest, e, t, k, more
    <3> QED  BY <1>15, <2>1, <2>2, <3>1
  <2>3. CASE ~more
    <3>1. rest = <<>> /\ e = n
      BY <1>9, <2>3
    <3> HIDE DEF rest, e
    <3>2. PutOut(path, kept, DotStep(s))
      BY <2>1, <3>1 DEF PutOut
    <3> QED  BY <3>2 DEF Reading
  <2> QED  BY <2>2, <2>3
<1> QED  BY <1>17, <1>18, <1>19

LEMMA ReadsOn ==
  ASSUME NEW D, Stroke \in D, NEW path \in Seq(D), NEW kept, Keeps(path, kept), NEW j \in Nat, NEW s,
         Reading(D, path, kept, j, s)
  PROVE  Reading(D, path, kept, j + 1, DotStep(s))
<1>1. CASE AtSlash(path, kept, j, s)
  BY <1>1, SlashReadsOn
<1>2. CASE Closing(D, path, kept, j, s)
  <2>1. PICK x \in Seq(D) : /\ s = [input |-> <<Stroke>>, out |-> x]
                            /\ x \o <<Stroke>> = PathOf(kept[Len(path)])
    BY <1>2 DEF Closing
  <2> DEFINE in == <<Stroke>>
             t == SegmentAt(in, 1)
  <2>2. in \in Seq(D) /\ Len(in) = 1 /\ in # <<>> /\ in[1] = Stroke /\ 1 \in 1 .. Len(in)
    OBVIOUS
  <2> HIDE DEF in
  <2>3. t \in Seq(D) /\ 1 + Len(t) <= Len(in) /\ Len(t) \in Nat
    BY <2>2, SegmentIs DEF Segments
  <2> HIDE DEF t
  <2>4. Len(t) = 0 /\ t = <<>>
    BY <2>2, <2>3
  <2>5. t # Here /\ t # Up
    BY <2>4 DEF Here, Up
  <2>6. ~(1 + Len(t) < Len(in))
    BY <2>2, <2>4
  <2> DEFINE r(u) == IF 1 + Len(u) < Len(in) THEN From(in, 1 + Len(u) + 1) ELSE <<>>
             l(u) == IF 1 + Len(u) < Len(in) THEN r(u) ELSE <<Stroke>>
  <2>7. DotStep([input |-> in, out |-> x]) =
          CASE t = Here -> [input |-> l(t), out |-> x]
            [] t = Up -> [input |-> l(t), out |-> Popped(x)]
            [] OTHER -> [input |-> r(t), out |-> x \o (<<Stroke>> \o t)]
    BY <2>2, DotStepIs DEF t
  <2>8. r(t) = <<>>
    BY <2>6
  <2>9. x \o (<<Stroke>> \o t) = x \o <<Stroke>>
    <3>1. <<Stroke>> \o <<>> = <<Stroke>>
      OBVIOUS
    <3> QED  BY <2>4, <3>1
  <2>10. DotStep([input |-> in, out |-> x]) = [input |-> <<>>, out |-> x \o <<Stroke>>]
    <3> HIDE DEF r, l
    <3> QED  BY <2>5, <2>7, <2>8, <2>9
  <2>11. PutOut(path, kept, DotStep(s))
    BY <2>1, <2>10 DEF PutOut, in
  <2> QED  BY <2>11 DEF Reading
<1>3. CASE PutOut(path, kept, s)
  <2>1. DotStep(s) = s
    <3>1. s.input = <<>>
      BY <1>3 DEF PutOut
    <3> QED  BY <3>1, Zenon DEF DotStep
  <2> QED  BY <1>3, <2>1 DEF Reading
<1> QED  BY <1>1, <1>2, <1>3 DEF Reading

(* The table of dot segments (RFC 3986 5.2.4, webapp.rs) takes any path    *)
(* that starts with a slash, of whatever characters and length, to its     *)
(* segments with the dot ones resolved as a browser does it.               *)
THEOREM DotSegmentsAreResolved ==
  ASSUME NEW D, Stroke \in D, NEW path \in Seq(D), path # <<>>, path[1] = Stroke
  PROVE  RemoveDotSegments(path) = Resolved(path)
<1> DEFINE n == Len(path)
<1>0. n \in Nat /\ n >= 1 /\ Len(path) \in Nat
  OBVIOUS
<1>1. PICK kept : Keeps(path, kept) /\ Resolved(path) = PathOf(kept[n])
  BY <1>0, ResolvedIs DEF Keeps
<1>2. PICK after : /\ after[0] = [input |-> path, out |-> <<>>]
                   /\ \A i \in 1 .. n : after[i] = DotStep(after[i - 1])
                   /\ RemoveDotSegments(path) = after[n].out
  BY <1>0, RemovedIs
<1> DEFINE S == {j \in Nat : j <= n => Reading(D, path, kept, j, after[j])}
<1>3. 0 \in S
  <2>1. From(path, 1) = path
    <3>1. SubSeq(path, 1, n) = path
      OBVIOUS
    <3> QED  BY <3>1 DEF From
  <2>2. PathOf(kept[0]) = <<>>
    <3>1. <<>> \in Seq(Segments(D)) /\ <<>> \in Segments(D)
      <4>1. <<>> \in Segments(D)
        BY DEF Segments, Free
      <4> QED  BY <4>1
    <3>2. kept[0] = <<>>
      BY <1>1 DEF Keeps
    <3> QED  BY <3>1, <3>2, PathGrows
  <2>3. after[0] = [input |-> From(path, 1), out |-> PathOf(kept[1 - 1])]
    <3>1. 1 - 1 = 0
      OBVIOUS
    <3> QED  BY <1>2, <2>1, <2>2, <3>1
  <2>4. 1 \in 0 + 1 .. n
    BY <1>0
  <2>5. AtSlash(path, kept, 0, after[0])
    BY <2>3, <2>4 DEF AtSlash
  <2>6. Reading(D, path, kept, 0, after[0])
    BY <2>5 DEF Reading
  <2> QED  BY <2>6
<1>4. ASSUME NEW j \in Nat, j \in S PROVE j + 1 \in S
  <2>1. CASE j + 1 <= n
    <3>1. j <= n /\ j + 1 \in 1 .. n /\ (j + 1) - 1 = j
      BY <1>0, <2>1
    <3>2. Reading(D, path, kept, j, after[j])
      BY <1>4, <3>1
    <3>3. Reading(D, path, kept, j + 1, DotStep(after[j]))
      BY <1>1, <3>2, ReadsOn
    <3>4. after[j + 1] = DotStep(after[j])
      BY <1>2, <3>1
    <3>5. Reading(D, path, kept, j + 1, after[j + 1])
      BY <3>3, <3>4
    <3> QED  BY <3>5
  <2>2. CASE ~(j + 1 <= n)
    BY <2>2
  <2> QED  BY <2>1, <2>2
<1>5. Reading(D, path, kept, n, after[n])
  <2>1. n \in S
    <3> HIDE DEF S
    <3> QED  BY <1>0, <1>3, <1>4, NatInSet
  <2> QED  BY <1>0, <2>1
<1>6. PutOut(path, kept, after[n])
  <2>1. n + 1 .. n = {}
    BY <1>0
  <2>2. ~AtSlash(path, kept, n, after[n])
    BY <2>1 DEF AtSlash
  <2>3. ~Closing(D, path, kept, n, after[n])
    BY <1>0 DEF Closing
  <2> QED  BY <1>5, <2>2, <2>3 DEF Reading
<1>7. after[n].out = PathOf(kept[n])
  BY <1>6 DEF PutOut
<1> QED  BY <1>1, <1>2, <1>7

LEMMA ResolvedTyped ==
  ASSUME NEW D, Stroke \in D, NEW path \in Seq(D)
  PROVE  Resolved(path) \in Seq(D)
<1> DEFINE n == Len(path)
           A == Segments(D)
<1>0. n \in Nat
  OBVIOUS
<1>1. PICK kept : Keeps(path, kept) /\ Resolved(path) = PathOf(kept[n])
  BY <1>0, ResolvedIs DEF Keeps
<1>2. kept[n] \in Seq(Segments(D))
  BY <1>0, <1>1, SegmentsKept
<1>3. <<>> \in Segments(D)
  BY DEF Segments, Free
<1>4. PathOf(kept[n]) \in Seq(D)
  BY <1>2, <1>3, PathGrows
<1> QED  BY <1>1, <1>4

LEMMA FreeJoin ==
  ASSUME NEW D, NEW a \in Seq(D), NEW b \in Seq(D), NEW c, Free(a, c), Free(b, c)
  PROVE  Free(a \o b, c)
<1> DEFINE s == a \o b
<1>1. Joins(a, b, D)
  BY JoinIs
<1>2. ASSUME NEW i \in 1 .. Len(s) PROVE s[i] # c
  <2>1. CASE i <= Len(a)
    <3>1. i \in 1 .. Len(a)
      BY <1>1, <2>1 DEF Joins
    <3> QED  BY <1>1, <3>1 DEF Joins, Free
  <2>2. CASE ~(i <= Len(a))
    <3> DEFINE j == i - Len(a)
    <3>1. j \in 1 .. Len(b) /\ j + Len(a) = i
      BY <1>1, <2>2 DEF Joins
    <3> HIDE DEF j
    <3>2. s[j + Len(a)] = b[j]
      BY <1>1, <3>1 DEF Joins
    <3> QED  BY <3>1, <3>2 DEF Free
  <2> QED  BY <2>1, <2>2
<1> QED  BY <1>2 DEF Free

LEMMA FromJoin ==
  ASSUME NEW D, NEW a \in Seq(D), NEW b \in Seq(D)
  PROVE  From(a \o b, Len(a) + 1) = b
<1> DEFINE s == a \o b
           k == Len(a) + 1
           f == From(s, k)
<1>1. Joins(a, b, D)
  BY JoinIs
<1>2. /\ s \in Seq(D) /\ Len(s) = Len(a) + Len(b) /\ Len(a) \in Nat /\ Len(b) \in Nat
      /\ \A i \in 1 .. Len(b) : s[i + Len(a)] = b[i]
  BY <1>1 DEF Joins
<1> HIDE DEF s
<1>3. k \in 1 .. Len(s) + 1
  BY <1>2
<1>4. f \in Seq(D) /\ Len(f) = Len(s) - k + 1 /\ \A j \in 1 .. Len(s) - k + 1 : f[j] = s[k + j - 1]
  BY <1>2, <1>3, FromIs
<1> HIDE DEF f
<1>5. Len(f) = Len(b) /\ \A j \in 1 .. Len(b) : j \in 1 .. Len(s) - k + 1 /\ k + j - 1 = j + Len(a)
  BY <1>2, <1>4
<1>6. \A j \in 1 .. Len(b) : f[j] = b[j]
  BY <1>2, <1>4, <1>5
<1>7. f = b
  BY <1>4, <1>5, <1>6, TextsEqual
<1> QED  BY <1>7 DEF f, s

(* What follows a text without c, where what follows starts with it.       *)
LEMMA AtJoin ==
  ASSUME NEW D, NEW a \in Seq(D), NEW b \in Seq(D), NEW c, Free(a, c), Follows(b, c)
  PROVE  /\ b = <<>> => At(a \o b, <<c>>) = 0
         /\ b # <<>> => At(a \o b, <<c>>) = Len(a) + 1
<1> DEFINE s == a \o b
           i == At(s, <<c>>)
<1>1. Joins(a, b, D)
  BY JoinIs
<1>2. /\ s \in Seq(D) /\ Len(s) = Len(a) + Len(b) /\ Len(a) \in Nat /\ Len(b) \in Nat
      /\ \A j \in 1 .. Len(a) : s[j] = a[j]
      /\ \A j \in 1 .. Len(b) : s[j + Len(a)] = b[j]
  BY <1>1 DEF Joins
<1> HIDE DEF s
<1>3. \/ i = 0 /\ Free(s, c)
      \/ i \in 1 .. Len(s) /\ s[i] = c /\ \A j \in 1 .. i - 1 : s[j] # c
  BY <1>2, AtIs
<1> HIDE DEF i
<1>4. \A j \in 1 .. Len(a) : s[j] # c
  BY <1>2 DEF Free
<1>5. b = <<>> => i = 0
  <2>1. b = <<>> => Len(b) = 0
    OBVIOUS
  <2> QED  BY <1>2, <1>3, <1>4, <2>1
<1>6. b # <<>> => i = Len(a) + 1
  <2> SUFFICES ASSUME b # <<>> PROVE i = Len(a) + 1
    OBVIOUS
  <2>1. Len(b) >= 1 /\ b[1] = c
    BY DEF Follows
  <2>2. Len(a) + 1 \in 1 .. Len(s) /\ s[Len(a) + 1] = c
    <3>1. 1 \in 1 .. Len(b) /\ 1 + Len(a) = Len(a) + 1
      BY <1>2, <2>1
    <3> QED  BY <1>2, <2>1, <3>1
  <2>3. i # 0
    BY <1>3, <2>2 DEF Free
  <2>4. ~(Len(a) + 1 < i)
    BY <1>2, <1>3, <2>2
  <2>5. ~(i <= Len(a))
    BY <1>2, <1>3, <1>4, <2>3
  <2> QED  BY <1>2, <1>3, <2>3, <2>4, <2>5
<1> QED  BY <1>5, <1>6 DEF i, s

(* The last of a character, where nothing after it has one.                *)
LastOf(s, c) == SelectLastInSeq(s, LAMBDA x : x = c)

LEMMA LastJoin ==
  ASSUME NEW D, NEW a \in Seq(D), NEW b \in Seq(D), NEW c, Free(b, c), a = <<>> \/ a[Len(a)] = c
  PROVE  LastOf(a \o b, c) = Len(a)
<1> DEFINE s == a \o b
           I == {i \in 1 .. Len(s) : s[i] = c}
           n == Len(a)
<1>1. Joins(a, b, D)
  BY JoinIs
<1>2. /\ s \in Seq(D) /\ Len(s) = n + Len(b) /\ n \in Nat /\ Len(b) \in Nat
      /\ \A j \in 1 .. n : s[j] = a[j]
      /\ \A j \in 1 .. Len(b) : s[j + n] = b[j]
  BY <1>1 DEF Joins
<1> HIDE DEF s
<1>3. \A i \in I : i <= n
  <2>1. ASSUME NEW i \in 1 .. Len(s), i > n PROVE s[i] # c
    <3> DEFINE j == i - n
    <3>1. j \in 1 .. Len(b) /\ j + n = i
      BY <1>2, <2>1
    <3> HIDE DEF j
    <3> QED  BY <1>2, <3>1 DEF Free
  <2> QED  BY <1>2, <2>1
<1>4. LastOf(s, c) = IF I = {} THEN 0 ELSE Max(I)
  BY DEF LastOf, SelectLastInSeq
<1>5. I \subseteq Nat
  OBVIOUS
<1>6. CASE a = <<>>
  <2>1. n = 0
    BY <1>6
  <2>2. I = {}
    BY <1>3, <2>1
  <2> HIDE DEF I, n
  <2> QED  BY <1>4, <2>1, <2>2 DEF n, s
<1>7. CASE a # <<>>
  <2>1. n >= 1 /\ s[n] = c
    BY <1>2, <1>7
  <2>2. n \in I
    BY <1>2, <2>1
  <2> HIDE DEF I, n
  <2>3. \A m \in I : (\A y \in I : m >= y) => m = n
    BY <1>2, <1>3, <1>5, <2>2
  <2>4. \A y \in I : n >= y
    BY <1>2, <1>3, <1>5
  <2>5. Max(I) = n
    BY <2>2, <2>3, <2>4 DEF Max
  <2> QED  BY <1>4, <2>2, <2>5 DEF n, s
<1> QED  BY <1>6, <1>7

(* The parts of a URL, each free of the characters that end it.            *)
PlainHost(host) == Free(host, ":") /\ (host = <<>> \/ host[1] # "[")
BracketedHost(host) ==
  host # <<>> /\ host[1] = "[" /\ host[Len(host)] = "]" /\ \A i \in 1 .. Len(host) - 1 : host[i] # "]"
UserPart(user) == user = <<>> \/ user[Len(user)] = "@"
HostPart(host) == Free(host, "@") /\ (PlainHost(host) \/ BracketedHost(host))
PortPart(port) == Free(port, "@") /\ Follows(port, ":")

(* A text in two parts followed by another, as the first part followed by   *)
(* the rest.                                                               *)
InThree(whole, x, y, z, D) ==
  /\ x \in Seq(D) /\ y \in Seq(D) /\ z \in Seq(D)
  /\ whole = (x \o y) \o z

StartsWith(whole, x, rest) == whole = x \o rest

LEMMA Regrouped ==
  ASSUME NEW D, NEW whole, NEW x, NEW y, NEW z, InThree(whole, x, y, z, D)
  PROVE  StartsWith(whole, x, y \o z)
  BY ConcatAssociative DEF InThree, StartsWith

LEMMA HostIs ==
  ASSUME NEW D, NEW user \in Seq(D), NEW host \in Seq(D), NEW port \in Seq(D),
         UserPart(user), HostPart(host), PortPart(port)
  PROVE  HostOf((user \o host) \o port) = host
<1> DEFINE a == (user \o host) \o port
           h == host \o port
<1>1. a = user \o h /\ h \in Seq(D)
  BY ConcatAssociative, ConcatProperties
<1>2. From(a, 1 + SelectLastInSeq(a, LAMBDA c : c = "@")) = h
  <2>1. Free(h, "@")
    BY FreeJoin DEF HostPart, PortPart
  <2> HIDE DEF h
  <2>2. user = <<>> \/ user[Len(user)] = "@"
    BY DEF UserPart
  <2>3. LastOf(user \o h, "@") = Len(user)
    BY <1>1, <2>1, <2>2, LastJoin
  <2>4. From(user \o h, Len(user) + 1) = h
    BY <1>1, FromJoin
  <2>5. 1 + Len(user) = Len(user) + 1
    OBVIOUS
  <2> HIDE DEF a
  <2>6. SelectLastInSeq(a, LAMBDA c : c = "@") = LastOf(a, "@")
    BY DEF SelectLastInSeq, LastOf
  <2> QED  BY <1>1, <2>3, <2>4, <2>5, <2>6
<1>3. HostOf(a) = IF h # <<>> /\ h[1] = "[" /\ At(h, <<"]">>) # 0
                  THEN Upto(h, "]") \o <<"]">> ELSE Upto(h, ":")
  <2> HIDE DEF a, h
  <2> QED  BY <1>2 DEF HostOf
<1>4. Joins(host, port, D)
  BY JoinIs
<1>5. CASE PlainHost(host)
  <2>1. ~(h # <<>> /\ h[1] = "[")
    <3>1. CASE host # <<>>
      <4>1. 1 \in 1 .. Len(host)
        BY <3>1
      <4>2. h[1] = host[1]
        BY <1>4, <4>1 DEF Joins
      <4> QED  BY <1>5, <3>1, <4>2 DEF PlainHost
    <3>2. CASE host = <<>>
      <4>1. h = port
        BY <3>2
      <4>2. port # <<>> => port[1] # "["
        BY DEF PortPart, Follows
      <4> QED  BY <4>1, <4>2
    <3> QED  BY <3>1, <3>2
  <2>2. Upto(h, ":") = host
    BY <1>5, UptoJoin DEF PlainHost, PortPart
  <2> HIDE DEF a, h
  <2> QED  BY <1>3, <2>1, <2>2 DEF a
<1>6. CASE BracketedHost(host)
  <2> DEFINE m == Len(host) - 1
             f == SubSeq(host, 1, m)
             o == <<"]">>
             g == o \o port
  <2>1. m \in Nat /\ m + 1 = Len(host) /\ host # <<>>
    BY <1>6 DEF BracketedHost
  <2>2. f \in Seq(D) /\ Len(f) = m /\ \A i \in 1 .. m : f[i] = host[i]
    BY <2>1
  <2>3. Free(f, "]")
    BY <1>6, <2>1, <2>2 DEF Free, BracketedHost
  <2>4. o \in Seq(D)
    <3>1. host[Len(host)] \in D /\ host[Len(host)] = "]"
      BY <1>6, <2>1 DEF BracketedHost
    <3> QED  BY <3>1
  <2>5. host = f \o o
    <3>1. f \o o \in Seq(D) /\ Len(f \o o) = m + 1 /\ (f \o o)[m + 1] = "]"
          /\ \A i \in 1 .. m : (f \o o)[i] = f[i]
      <4> HIDE DEF f, m
      <4> QED  BY <2>1, <2>2, <2>4
    <3>2. host[m + 1] = "]"
      BY <1>6, <2>1 DEF BracketedHost
    <3> HIDE DEF f, o, m
    <3>3. \A i \in 1 .. Len(host) : (f \o o)[i] = host[i]
      <4>1. \A i \in 1 .. Len(host) : i \in 1 .. m \/ i = m + 1
        BY <2>1
      <4> QED  BY <2>2, <3>1, <3>2, <4>1
    <3> QED  BY <2>1, <3>1, <3>3, TextsEqual
  <2>6. g \in Seq(D) /\ g # <<>> /\ g[1] = "]"
    <3>1. Len(o) = 1 /\ o[1] = "]"
      OBVIOUS
    <3> HIDE DEF o
    <3>2. Joins(o, port, D)
      BY <2>4, JoinIs
    <3>3. g \in Seq(D) /\ g[1] = o[1] /\ Len(g) = 1 + Len(port) /\ Len(port) \in Nat
      BY <3>1, <3>2 DEF Joins
    <3> HIDE DEF g
    <3> QED  BY <3>1, <3>3
  <2>7. h = f \o g
    <3> HIDE DEF f, o
    <3>1. InThree(h, f, o, port, D)
      BY <2>2, <2>4, <2>5 DEF InThree
    <3> HIDE DEF h
    <3>2. StartsWith(h, f, o \o port)
      BY ONLY <3>1, Regrouped, Zenon
    <3> QED  BY ONLY <3>2 DEF g, StartsWith
  <2>8. Follows(g, "]")
    BY <2>6 DEF Follows
  <2> HIDE DEF f, g
  <2>9. Upto(h, "]") = f /\ At(h, <<"]">>) = Len(f) + 1
    BY <2>2, <2>3, <2>6, <2>7, <2>8, UptoJoin, AtJoin
  <2>10. At(h, <<"]">>) # 0
    BY <2>1, <2>2, <2>9
  <2>11. h # <<>> /\ h[1] = "["
    <3>1. 1 \in 1 .. Len(host) /\ host[1] = "["
      BY <1>6, <2>1 DEF BracketedHost
    <3>2. h[1] = "[" /\ Len(h) >= 1
      BY <1>4, <3>1 DEF Joins
    <3> HIDE DEF h
    <3> QED  BY <3>2
  <2> HIDE DEF a, h
  <2> QED  BY <1>3, <2>5, <2>9, <2>10, <2>11 DEF a
<1> QED  BY <1>5, <1>6 DEF HostPart

(* Where a URL has its scheme's end.                                       *)
Scheme == <<"h", ":", "/", "/">>

LEMMA SchemeIs ==
  ASSUME NEW D, Scheme \in Seq(D), NEW rest \in Seq(D)
  PROVE  /\ At(Scheme \o rest, <<":", "/", "/">>) = 2
         /\ From(Scheme \o rest, 2 + 3) = rest
<1> DEFINE s == Scheme \o rest
           what == <<":", "/", "/">>
           n == Len(s)
           I == {i \in 1 .. n - Len(what) + 1 : SubSeq(s, i, i + Len(what) - 1) = what}
<1>1. Len(Scheme) = 4 /\ Scheme[1] = "h" /\ Scheme[2] = ":" /\ Scheme[3] = "/" /\ Scheme[4] = "/"
  BY DEF Scheme
<1>2. From(s, 2 + 3) = rest
  <2>1. From(s, Len(Scheme) + 1) = rest
    BY FromJoin
  <2>2. Len(Scheme) + 1 = 2 + 3
    BY <1>1
  <2> HIDE DEF s
  <2> QED  BY <2>1, <2>2
<1>3. /\ s \in Seq(D) /\ n \in Nat /\ n >= 4 /\ s[1] = "h" /\ s[2] = ":" /\ s[3] = "/" /\ s[4] = "/"
  <2>1. Joins(Scheme, rest, D)
    BY JoinIs
  <2> HIDE DEF Scheme
  <2> QED  BY <1>1, <2>1 DEF Joins
<1> HIDE DEF s
<1>4. Len(what) = 3
  OBVIOUS
<1>5. 2 \in I
  <2> DEFINE u == SubSeq(s, 2, 4)
  <2>1. u \in Seq(D) /\ Len(u) = 3 /\ u[1] = ":" /\ u[2] = "/" /\ u[3] = "/"
    BY <1>3
  <2> HIDE DEF u
  <2>2. u = what
    BY <2>1
  <2>3. 2 \in 1 .. n - 3 + 1 /\ 2 + 3 - 1 = 4
    BY <1>3
  <2> QED  BY <1>4, <2>2, <2>3 DEF u
<1>6. 1 \notin I
  <2> DEFINE u == SubSeq(s, 1, 3)
  <2>1. u[1] = "h"
    BY <1>3
  <2> HIDE DEF u
  <2>2. u # what
    BY <2>1
  <2>3. 1 + 3 - 1 = 3
    OBVIOUS
  <2> QED  BY <1>4, <2>2, <2>3 DEF u
<1>7. I \subseteq Nat /\ \A i \in I : i >= 1
  OBVIOUS
<1>8. At(s, what) = IF I = {} THEN 0 ELSE Min(I)
  BY DEF At
<1> HIDE DEF I
<1>9. Min(I) = 2
  <2>1. \A y \in I : 2 <= y
    BY <1>6, <1>7
  <2>2. \A m \in I : (\A y \in I : m <= y) => m = 2
    BY <1>5, <1>7, <2>1
  <2> QED  BY <1>5, <2>1, <2>2 DEF Min
<1> HIDE DEF what
<1> QED  BY <1>2, <1>5, <1>8, <1>9 DEF s, what

LEMMA ConcatThree ==
  ASSUME NEW D, NEW a \in Seq(D), NEW b \in Seq(D), NEW c \in Seq(D)
  PROVE  (a \o b) \o c = a \o (b \o c) /\ a \o b \in Seq(D) /\ a \o <<>> = a
OBVIOUS

Under == "_"

(* The parts of a URL of that scheme.                                      *)
IsUrl(D, user, host, port, end, query, fragment) ==
  /\ user \in Seq(D) /\ host \in Seq(D) /\ port \in Seq(D)
  /\ end \in Seq(D) /\ query \in Seq(D) /\ fragment \in Seq(D)
  /\ UserPart(user) /\ HostPart(host) /\ PortPart(port) /\ Free(host, Under)
  /\ \A c \in {"/", "#", "?"} : Free(user, c) /\ Free(host, c) /\ Free(port, c)
  /\ Follows(end, "/") /\ Free(end, "#") /\ Free(end, "?")
  /\ Follows(query, "?") /\ Free(query, "#")
  /\ Follows(fragment, "#")

UrlOf(user, host, port, end, query, fragment) ==
  <<"h", ":", "/", "/">> \o user \o host \o port \o end \o query \o fragment

PathPart(end) == IF end = <<>> THEN <<"/">> ELSE end

LEMMA UrlIs ==
  ASSUME NEW D, Scheme \in Seq(D), NEW user, NEW host, NEW port, NEW end, NEW query, NEW fragment,
         IsUrl(D, user, host, port, end, query, fragment)
  PROVE  IdentityFromUrl(UrlOf(user, host, port, end, query, fragment))
           = UrlIdentity(host, RemoveDotSegments(PathPart(end)))
<1> DEFINE uh == user \o host
           auth == uh \o port
           site == auth \o end
           more == site \o query
           rest == more \o fragment
           url == UrlOf(user, host, port, end, query, fragment)
<1>1. user \in Seq(D) /\ host \in Seq(D)
  BY DEF IsUrl
<1>2. port \in Seq(D)
  BY DEF IsUrl
<1>3. end \in Seq(D)
  BY DEF IsUrl
<1>4. query \in Seq(D)
  BY DEF IsUrl
<1>5. fragment \in Seq(D)
  BY DEF IsUrl
<1>6. uh \in Seq(D) /\ auth \in Seq(D) /\ site \in Seq(D) /\ more \in Seq(D) /\ rest \in Seq(D)
  <2>1. uh \in Seq(D)
    BY <1>1
  <2> HIDE DEF uh
  <2>2. auth \in Seq(D)
    BY <1>2, <2>1
  <2> HIDE DEF auth
  <2>3. site \in Seq(D)
    BY <1>3, <2>2
  <2> HIDE DEF site
  <2>4. more \in Seq(D)
    BY <1>4, <2>3
  <2> HIDE DEF more
  <2>5. rest \in Seq(D)
    BY <1>5, <2>4
  <2> QED  BY <2>1, <2>2, <2>3, <2>4, <2>5
<1>7. auth \in Seq(D)
  BY <1>6
<1>8. site \in Seq(D)
  BY <1>6
<1>9. more \in Seq(D)
  BY <1>6
<1>10. uh \in Seq(D)
  BY <1>6
<1>11. url = Scheme \o rest
  <2>1. (Scheme \o user) \o host = Scheme \o uh
    BY <1>1, ConcatThree
  <2>2. (Scheme \o uh) \o port = Scheme \o auth
    <3> HIDE DEF uh
    <3> QED  BY <1>2, <1>10, ConcatThree DEF auth
  <2>3. (Scheme \o auth) \o end = Scheme \o site
    <3> HIDE DEF auth
    <3> QED  BY <1>3, <1>7, ConcatThree
  <2>4. (Scheme \o site) \o query = Scheme \o more
    <3> HIDE DEF site
    <3> QED  BY <1>4, <1>8, ConcatThree
  <2>5. (Scheme \o more) \o fragment = Scheme \o rest
    <3> HIDE DEF more
    <3> QED  BY <1>5, <1>9, ConcatThree
  <2>6. url = (((((Scheme \o user) \o host) \o port) \o end) \o query) \o fragment
    BY DEF UrlOf, Scheme
  <2> HIDE DEF url, uh, auth, site, more, rest
  <2> QED  BY <2>1, <2>2, <2>3, <2>4, <2>5, <2>6
<1>12. \A c \in {"/", "#", "?"} : Free(auth, c)
  <2> TAKE c \in {"/", "#", "?"}
  <2>1. Free(uh, c)
    BY FreeJoin DEF IsUrl
  <2>2. Free(port, c)
    BY DEF IsUrl
  <2> HIDE DEF uh
  <2> QED  BY <1>6, <2>1, <2>2, FreeJoin
<1> HIDE DEF auth
<1>13. Free(site, "#") /\ Free(site, "?")
  BY <1>6, <1>12, FreeJoin DEF IsUrl
<1> HIDE DEF site
<1>14. Free(more, "#")
  BY <1>6, <1>13, FreeJoin DEF IsUrl
<1>15. Upto(more, "?") = site
  BY <1>6, <1>13, UptoJoin DEF IsUrl
<1> HIDE DEF more
<1>16. Upto(rest, "#") = more
  BY <1>6, <1>14, UptoJoin DEF IsUrl
<1> HIDE DEF rest
<1>17. At(url, <<":", "/", "/">>) = 2 /\ From(url, 2 + 3) = rest
  BY <1>6, <1>11, SchemeIs
<1>18. /\ end = <<>> => At(site, <<"/">>) = 0
       /\ end # <<>> => At(site, <<"/">>) = Len(auth) + 1
       /\ Upto(site, "/") = auth
  <2>1. Free(auth, "/") /\ Follows(end, "/")
    BY <1>12 DEF IsUrl
  <2> QED  BY <1>6, <2>1, AtJoin, UptoJoin DEF site
<1>19. (IF At(site, <<"/">>) = 0 THEN <<"/">> ELSE From(site, At(site, <<"/">>))) = PathPart(end)
  <2>1. CASE end = <<>>
    BY <1>18, <2>1 DEF PathPart
  <2>2. CASE end # <<>>
    <3>1. From(site, Len(auth) + 1) = end /\ Len(auth) \in Nat
      BY <1>6, FromJoin DEF site
    <3>2. Len(auth) + 1 # 0
      BY <3>1
    <3> QED  BY <1>18, <2>2, <3>1, <3>2 DEF PathPart
  <2> QED  BY <2>1, <2>2
<1>20. HostOf(auth) = host
  BY HostIs DEF IsUrl, auth
<1> HIDE DEF url
<1>21. Upto(Upto(From(url, At(url, <<":", "/", "/">>) + 3), "#"), "?") = site
  BY <1>15, <1>16, <1>17
<1>22. At(url, <<":", "/", "/">>) # 0
  BY <1>17
<1>23. IdentityFromUrl(url) = UrlIdentity(HostOf(Upto(site, "/")),
         RemoveDotSegments(IF At(site, <<"/">>) = 0 THEN <<"/">> ELSE From(site, At(site, <<"/">>))))
  BY <1>21, <1>22, Zenon DEF IdentityFromUrl
<1>24. IdentityFromUrl(url) = UrlIdentity(host, RemoveDotSegments(PathPart(end)))
  BY <1>18, <1>19, <1>20, <1>23
<1> QED  BY <1>24 DEF url

(* The host is read off an identity again: what is before the first _.     *)
LEMMA HostFirst ==
  ASSUME NEW E, Under \in E, NEW low \in Seq(E), NEW named \in Seq(E), Free(low, Under)
  PROVE  LET id == low \o <<Under>> \o named IN Upto(id, Under) = low /\ id # <<>>
<1> DEFINE mark == <<Under>>
           b == mark \o named
           id == low \o mark \o named
<1>1. mark \in Seq(E) /\ Len(mark) = 1 /\ mark[1] = Under
  OBVIOUS
<1> HIDE DEF mark
<1>2. id = low \o b /\ b \in Seq(E)
  BY <1>1, ConcatThree
<1>3. Follows(b, Under) /\ b # <<>>
  <2>1. Joins(mark, named, E)
    BY <1>1, JoinIs
  <2>2. b[1] = Under /\ Len(b) = 1 + Len(named) /\ Len(named) \in Nat
    BY <1>1, <2>1 DEF Joins
  <2> HIDE DEF b
  <2>3. b # <<>>
    BY <1>2, <2>2
  <2> QED  BY <2>2, <2>3 DEF Follows
<1> HIDE DEF b, id
<1>4. Upto(id, Under) = low
  BY <1>2, <1>3, UptoJoin
<1>5. id # <<>>
  BY <1>2, <1>3, ConcatEqualIffEmpty
<1> QED  BY <1>4, <1>5 DEF id, mark

(* Whatever user, port, query and fragment are around them, the identity   *)
(* of a URL is that of its host and path, every dot segment resolved.      *)
THEOREM IdentityIsOfHostAndPath ==
  ASSUME NEW D, Scheme \in Seq(D), NEW user, NEW host, NEW port, NEW end, NEW query, NEW fragment,
         IsUrl(D, user, host, port, end, query, fragment)
  PROVE  Identity(UrlOf(user, host, port, end, query, fragment)) = SiteOf(host, end)
<1> DEFINE url == UrlOf(user, host, port, end, query, fragment)
           path == PathPart(end)
           E == D \cup {LowerOf[c] : c \in DOMAIN LowerOf} \cup {Under}
           name(text) == [i \in DOMAIN text |-> IF text[i] = "/" THEN Under ELSE text[i]]
           low == Lower(host)
           named == name(Resolved(path))
           id == IdentityFromUrl(url)
<1>7. host \in Seq(D)
  BY DEF IsUrl
<1>8. end \in Seq(D)
  BY DEF IsUrl
<1>1. Stroke \in D
  <2>1. Scheme[3] \in D /\ Scheme[3] = Stroke
    BY DEF Scheme, Stroke
  <2> QED  BY <2>1
<1>2. path \in Seq(D) /\ path # <<>> /\ path[1] = Stroke
  <2>1. end # <<>> => end[1] = "/"
    BY DEF IsUrl, Follows
  <2> QED  BY <1>1, <1>8, <2>1 DEF PathPart, Stroke
<1>3. RemoveDotSegments(path) = Resolved(path) /\ Resolved(path) \in Seq(D)
  <2> HIDE DEF path
  <2> QED  BY <1>1, <1>2, DotSegmentsAreResolved, ResolvedTyped
<1>4. id = UrlIdentity(host, Resolved(path))
  <2>1. id = UrlIdentity(host, RemoveDotSegments(path))
    BY UrlIs
  <2> HIDE DEF id, path
  <2> QED  BY <1>3, <2>1
<1> HIDE DEF id
<1>5. CASE host = <<>>
  <2>1. id = <<>>
    BY <1>4, <1>5 DEF UrlIdentity
  <2>2. Identity(url) = NoIdentity
    <3> HIDE DEF url
    <3> QED  BY <2>1 DEF Identity, id
  <2>3. SiteOf(host, end) = NoIdentity
    BY <1>5 DEF SiteOf
  <2> QED  BY <2>2, <2>3
<1>6. CASE host # <<>>
  <2>1. low \in Seq(E) /\ Free(low, Under)
    <3>1. DOMAIN host = 1 .. Len(host) /\ Len(host) \in Nat /\ \A i \in 1 .. Len(host) : host[i] \in D /\ host[i] # Under
      <4>1. Free(host, Under)
        BY DEF IsUrl
      <4>2. DOMAIN host = 1 .. Len(host) /\ Len(host) \in Nat /\ \A i \in 1 .. Len(host) : host[i] \in D
        BY <1>7
      <4> QED  BY <4>1, <4>2 DEF Free
    <3>2. \A i \in 1 .. Len(host) : low[i] = IF host[i] \in DOMAIN LowerOf THEN LowerOf[host[i]] ELSE host[i]
      BY <3>1 DEF Lower
    <3>3. low = [i \in 1 .. Len(host) |-> low[i]]
      BY <3>1 DEF Lower
    <3> HIDE DEF low
    <3>4. \A i \in 1 .. Len(host) : low[i] \in E /\ low[i] # Under
      <4>1. \A c \in DOMAIN LowerOf : LowerOf[c] # Under
        BY LowerAssumption, Zenon DEF Under
      <4> HIDE DEF E
      <4>2. \A i \in 1 .. Len(host) : low[i] # Under
        BY <3>1, <3>2, <4>1
      <4>3. \A i \in 1 .. Len(host) : low[i] \in E
        BY <3>1, <3>2 DEF E
      <4> QED  BY <4>2, <4>3
    <3> HIDE DEF E
    <3>5. low \in [1 .. Len(host) -> E]
      BY <3>3, <3>4
    <3>6. low \in Seq(E) /\ Len(low) = Len(host)
      BY <3>1, <3>5, ListIs
    <3> QED  BY <3>4, <3>6 DEF Free
  <2>2. named \in Seq(E)
    <3> DEFINE r == Resolved(path)
    <3>1. DOMAIN r = 1 .. Len(r) /\ Len(r) \in Nat /\ \A i \in 1 .. Len(r) : r[i] \in D
      <4> HIDE DEF r
      <4> QED  BY <1>3 DEF r
    <3> HIDE DEF r
    <3>2. \A i \in 1 .. Len(r) : (IF r[i] = "/" THEN Under ELSE r[i]) \in E
      BY <3>1
    <3> HIDE DEF E
    <3>3. name(r) \in [1 .. Len(r) -> E]
      BY <3>1, <3>2
    <3> HIDE DEF name
    <3>4. name(r) \in Seq(E)
      BY <3>1, <3>3, ListIs
    <3> QED  BY <3>4 DEF r
  <2>3. id = low \o <<Under>> \o named
    BY <1>4, <1>6, Zenon DEF UrlIdentity, Under
  <2>4. Upto(id, Under) = low /\ id # <<>>
    <3>1. Under \in E
      OBVIOUS
    <3> HIDE DEF low, named, E
    <3> QED  BY <2>1, <2>2, <2>3, <3>1, HostFirst
  <2>5. Identity(url) = IF \E c \in ToSet(low) : c = "%" \/ c \in Foreign THEN Uncanonical ELSE Known(id)
    <3> HIDE DEF url
    <3> QED  BY <2>4, Zenon DEF Identity, id, Under
  <2>6. SiteOf(host, end) = IF \E c \in ToSet(low) : c = "%" \/ c \in Foreign THEN Uncanonical
                             ELSE Known(low \o <<Under>> \o named)
    BY <1>6, Zenon DEF SiteOf, low, named, PathPart, Under
  <2> HIDE DEF url
  <2> QED  BY <2>3, <2>5, <2>6 DEF url
<1> QED  BY <1>5, <1>6

(* The characters that are tried.                                          *)
Signs == {"/", "@", ":", "?", "#", "[", "]"}
PlainChars == {"h", "u", "p", "H", "a", "%", "e-acute", ".", "8"}
TriedChars == Signs \cup PlainChars \cup {Under}

LEMMA UnderIsNone ==
  \A c \in Signs \cup PlainChars : c # Under
<1>1. /\ "/" # Under /\ "@" # Under /\ ":" # Under /\ "?" # Under /\ "#" # Under /\ "[" # Under
      /\ "]" # Under
  BY Zenon DEF Under
<1>2. /\ "h" # Under /\ "u" # Under /\ "p" # Under /\ "H" # Under /\ "a" # Under /\ "%" # Under
      /\ "e-acute" # Under /\ "." # Under /\ "8" # Under
  BY Zenon DEF Under
<1> QED  BY <1>1, <1>2 DEF Signs, PlainChars

LEMMA TriedUsersAre ==
  ASSUME NEW user \in TriedUsers
  PROVE  /\ user \in Seq(TriedChars) /\ UserPart(user)
         /\ \A c \in {"/", "#", "?"} : Free(user, c)
<1>1. {"u", "@", ":", "p"} \subseteq TriedChars
  BY DEF TriedChars, Signs, PlainChars
<1>2. CASE user = <<>>
  BY <1>2 DEF UserPart, Free
<1>3. CASE user = <<"u", "@">>
  BY <1>1, <1>3 DEF UserPart, Free
<1>4. CASE user = <<"u", ":", "p", "@">>
  BY <1>1, <1>4 DEF UserPart, Free
<1> QED  BY <1>2, <1>3, <1>4 DEF TriedUsers

LEMMA TriedHostsAre ==
  ASSUME NEW host \in TriedHosts
  PROVE  /\ host \in Seq(TriedChars) /\ HostPart(host) /\ Free(host, Under)
         /\ \A c \in {"/", "#", "?"} : Free(host, c)
<1>1. {"H", "a", "[", ":", "]", "%", "e-acute"} \subseteq TriedChars
  BY DEF TriedChars, Signs, PlainChars
<1>2. \A c \in {"H", "a", "[", ":", "]", "%", "e-acute"} : c # Under
  BY UnderIsNone DEF Signs, PlainChars
<1>3. CASE host = <<>>
  BY <1>3 DEF HostPart, PlainHost, Free
<1>4. CASE host = <<"H", "a">>
  BY <1>1, <1>2, <1>4 DEF HostPart, PlainHost, Free
<1>5. CASE host = <<"[", ":", "H", "]">>
  BY <1>1, <1>2, <1>5 DEF HostPart, BracketedHost, Free
<1>6. CASE host = <<"a", "%">>
  BY <1>1, <1>2, <1>6 DEF HostPart, PlainHost, Free
<1>7. CASE host = <<"e-acute">>
  BY <1>1, <1>2, <1>7 DEF HostPart, PlainHost, Free
<1> QED  BY <1>3, <1>4, <1>5, <1>6, <1>7 DEF TriedHosts

LEMMA TriedPortsAre ==
  ASSUME NEW port \in {<<>>, <<":", "8">>}
  PROVE  /\ port \in Seq(TriedChars) /\ PortPart(port)
         /\ \A c \in {"/", "#", "?"} : Free(port, c)
<1>1. {":", "8"} \subseteq TriedChars
  BY DEF TriedChars, Signs, PlainChars
<1>2. CASE port = <<>>
  BY <1>2 DEF PortPart, Free, Follows
<1>3. CASE port = <<":", "8">>
  BY <1>1, <1>3 DEF PortPart, Free, Follows
<1> QED  BY <1>2, <1>3

LEMMA TriedEndsAre ==
  ASSUME NEW end \in TriedEnds
  PROVE  end \in Seq(TriedChars) /\ Follows(end, "/") /\ Free(end, "#") /\ Free(end, "?")
<1>1. {"/", "a", ".", "@", ":", "H", Under} \subseteq TriedChars
  BY DEF TriedChars, Signs, PlainChars
<1>2. Under # "#" /\ Under # "?"
  BY UnderIsNone DEF Signs
<1>3. CASE end = <<>>
  BY <1>3 DEF Free, Follows
<1>4. CASE end = <<"/">>
  BY <1>1, <1>4 DEF Free, Follows
<1>5. CASE end = <<"/", "a", Under, "/", ".", ".">>
  BY <1>1, <1>2, <1>5 DEF Free, Follows
<1>6. CASE end = <<"/", "/", "@", ":", "H">>
  BY <1>1, <1>6 DEF Free, Follows
<1>7. \/ end = <<>> \/ end = <<"/">> \/ end = <<"/", "a", Under, "/", ".", ".">>
      \/ end = <<"/", "/", "@", ":", "H">>
  BY Zenon DEF TriedEnds, Under
<1> QED  BY <1>3, <1>4, <1>5, <1>6, <1>7

LEMMA TriedTailsAre ==
  /\ \A query \in TriedQueries : query \in Seq(TriedChars) /\ Follows(query, "?") /\ Free(query, "#")
  /\ \A fragment \in TriedFragments : fragment \in Seq(TriedChars) /\ Follows(fragment, "#")
<1>1. {"?", "u", "@", "a", "/", ".", "#", ":"} \subseteq TriedChars
  BY DEF TriedChars, Signs, PlainChars
<1>2. ASSUME NEW query \in TriedQueries
      PROVE  query \in Seq(TriedChars) /\ Follows(query, "?") /\ Free(query, "#")
  <2>1. CASE query = <<>>
    BY <2>1 DEF Free, Follows
  <2>2. CASE query = <<"?">>
    BY <1>1, <2>2 DEF Free, Follows
  <2>3. CASE query = <<"?", "u", "@", "a", "/", ".", ".", "?">>
    BY <1>1, <2>3 DEF Free, Follows
  <2> QED  BY <2>1, <2>2, <2>3 DEF TriedQueries
<1>3. ASSUME NEW fragment \in TriedFragments PROVE fragment \in Seq(TriedChars) /\ Follows(fragment, "#")
  <2>1. CASE fragment = <<>>
    BY <2>1 DEF Follows
  <2>2. CASE fragment = <<"#", "/", "?", "@", ":", "/", "/">>
    BY <1>1, <2>2 DEF Follows
  <2> QED  BY <2>1, <2>2 DEF TriedFragments
<1> QED  BY <1>2, <1>3

LEMMA TriedPathsAre ==
  ASSUME NEW path \in TriedPaths
  PROVE  path \in Seq(TriedChars) /\ path # <<>> /\ path[1] = Stroke
<1>1. PICK n \in 0 .. MaxPath - 1 : \E p \in [1 .. n -> {"/", ".", "a"}] : path = <<Stroke>> \o p
  BY DEF TriedPaths, Stroke
<1>2. PICK p \in [1 .. n -> {"/", ".", "a"}] : path = <<Stroke>> \o p
  BY <1>1
<1>3. {"/", ".", "a"} \subseteq TriedChars /\ Stroke \in TriedChars
  BY DEF TriedChars, Signs, PlainChars, Stroke
<1>4. n \in Nat
  OBVIOUS
<1>5. p \in [1 .. n -> TriedChars]
  BY <1>3, <1>2
<1>6. p \in Seq(TriedChars) /\ Len(p) \in Nat
  BY <1>4, <1>5, ListIs
<1> DEFINE u == <<Stroke>> \o p
<1>7. u \in Seq(TriedChars) /\ Len(u) = Len(p) + 1 /\ u[1] = Stroke
  BY <1>3, <1>6, LeadIs
<1> HIDE DEF u
<1>8. u # <<>>
  BY <1>6, <1>7
<1> QED  BY <1>2, <1>7, <1>8 DEF u

(* The identity of a web app is its site, for every URL that is tried; the *)
(* two theorems above say it of every other.                               *)
THEOREM SpecIdentity == Spec => []IdentityIsTheSite
<1>1. Scheme \in Seq(TriedChars) /\ Stroke \in TriedChars
  <2>1. {"h", ":", "/"} \subseteq TriedChars
    BY DEF TriedChars, Signs, PlainChars
  <2> QED  BY <2>1 DEF Scheme, Stroke
<1>2. \A path \in TriedPaths : RemoveDotSegments(path) = Resolved(path)
  BY <1>1, TriedPathsAre, DotSegmentsAreResolved
<1>3. ASSUME NEW user \in TriedUsers, NEW host \in TriedHosts, NEW port \in {<<>>, <<":", "8">>},
             NEW end \in TriedEnds, NEW query \in TriedQueries, NEW fragment \in TriedFragments
      PROVE  Identity(<<"h", ":", "/", "/">> \o user \o host \o port \o end \o query \o fragment)
               = SiteOf(host, end)
  <2>1. /\ user \in Seq(TriedChars) /\ UserPart(user)
        /\ \A c \in {"/", "#", "?"} : Free(user, c)
    BY TriedUsersAre
  <2>2. /\ host \in Seq(TriedChars) /\ HostPart(host) /\ Free(host, Under)
        /\ \A c \in {"/", "#", "?"} : Free(host, c)
    BY TriedHostsAre
  <2>3. /\ port \in Seq(TriedChars) /\ PortPart(port)
        /\ \A c \in {"/", "#", "?"} : Free(port, c)
    BY TriedPortsAre
  <2>4. end \in Seq(TriedChars) /\ Follows(end, "/") /\ Free(end, "#") /\ Free(end, "?")
    BY TriedEndsAre
  <2>5. /\ query \in Seq(TriedChars) /\ Follows(query, "?") /\ Free(query, "#")
        /\ fragment \in Seq(TriedChars) /\ Follows(fragment, "#")
    BY TriedTailsAre
  <2>6. IsUrl(TriedChars, user, host, port, end, query, fragment)
    BY <2>1, <2>2, <2>3, <2>4, <2>5 DEF IsUrl
  <2>7. Identity(UrlOf(user, host, port, end, query, fragment)) = SiteOf(host, end)
    BY <1>1, <2>6, IdentityIsOfHostAndPath
  <2> QED  BY <2>7 DEF UrlOf
<1>4. IdentityIsTheSite
  BY <1>2, <1>3 DEF IdentityIsTheSite
<1> QED  BY <1>4, PTL
=============================================================================
