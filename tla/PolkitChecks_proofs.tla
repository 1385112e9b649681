------------------------- MODULE PolkitChecks_proofs -------------------------
(* Proofs about PolkitChecks, for every set of ids and every bound.        *)
EXTENDS PolkitChecks, TLAPS

-----------------------------------------------------------------------------
(* The inductive invariant.                                                *)

(* `order' is the end of `early': everything, or the last MaxCancelledIds. *)
OrderIsRecent ==
  /\ Len(order) <= Len(early)
  /\ Len(order) <= MaxCancelledIds
  /\ Len(order) < MaxCancelledIds => Len(order) = Len(early)
  /\ \A k \in 1 .. Len(order) : order[k] = early[Len(early) - Len(order) + k]

(* An id is cancelled only after its Authorize has claimed it.             *)
CancelledWereClaimed ==
  /\ \A i \in owed : check[i] # "unclaimed"
  /\ \A n \in 1 .. Len(early) : check[early[n]] # "unclaimed"

MemoryInv ==
  TypeOK /\ OrderIsRecent /\ CancelledWereClaimed /\ MemoryIsBounded /\ OnlyOldestForgotten

-----------------------------------------------------------------------------
LEMMA TypeInit == Init => TypeOK
BY DEF Init, TypeOK, Stages

LEMMA RememberType ==
  ASSUME TypeOK, NEW i \in Ids, Remember(i)
  PROVE  pre' \subseteq Ids /\ order' \in Seq(Ids) /\ early' \in Seq(Ids)
<1>1. order # <<>> => Tail(order) \in Seq(Ids)
  BY DEF TypeOK
<1>2. Len(order) >= MaxCancelledIds => order # <<>>
  BY CapAssumption DEF TypeOK
<1>3. QED
  BY <1>1, <1>2 DEF TypeOK, Remember

LEMMA TypeStep == TypeOK /\ [Next]_vars => TypeOK'
<1> SUFFICES ASSUME TypeOK, [Next]_vars PROVE TypeOK'
  OBVIOUS
<1>1. ASSUME NEW i \in Ids, Claim(i) PROVE TypeOK'
  BY <1>1 DEF Claim, Moves, coord, TypeOK, Stages
<1>2. ASSUME NEW i \in Ids, Register(i) PROVE TypeOK'
  BY <1>2 DEF Register, Moves, TypeOK, Stages
<1>3. ASSUME NEW i \in Ids, Aborted(i) PROVE TypeOK'
  BY <1>3 DEF Aborted, Moves, coord, TypeOK, Stages
<1>4. ASSUME NEW i \in Ids, Answered(i) PROVE TypeOK'
  BY <1>4 DEF Answered, Moves, coord, TypeOK, Stages
<1>5. ASSUME NEW i \in Ids, Retire(i) PROVE TypeOK'
  BY <1>5 DEF Retire, Moves, TypeOK, Stages
<1>6. ASSUME NEW i \in Ids, Settle(i) PROVE TypeOK'
  BY <1>6 DEF Settle, coord, TypeOK
<1>7. ASSUME NEW i \in Ids, Take(i) PROVE TypeOK'
  BY <1>7 DEF Take, coord, TypeOK
<1>8. ASSUME NEW i \in Ids, CancelId(i) PROVE TypeOK'
  BY <1>8, RememberType DEF CancelId, TypeOK
<1>9. CASE UNCHANGED vars
  BY <1>9 DEF vars, coord, TypeOK
<1>10. QED
  BY <1>1, <1>2, <1>3, <1>4, <1>5, <1>6, <1>7, <1>8, <1>9 DEF Next

-----------------------------------------------------------------------------
LEMMA InitRemembersNothing == Init => MemoryInv
BY TypeInit, CapAssumption
   DEF Init, MemoryInv, OrderIsRecent, CancelledWereClaimed, MemoryIsBounded, OnlyOldestForgotten

(* A full memory loses its oldest id only, and that one has been outlived. *)
LEMMA RememberKeeps ==
  ASSUME MemoryInv, NEW i \in Ids, Remember(i), check[i] # "unclaimed",
         UNCHANGED <<check, slot, inflight>>, owed' \subseteq owed
  PROVE  (OrderIsRecent /\ CancelledWereClaimed /\ MemoryIsBounded /\ OnlyOldestForgotten)'
<1> DEFINE full == Len(order) >= MaxCancelledIds
<1> USE DEF MemoryInv
<1>s. /\ order \in Seq(Ids) /\ early \in Seq(Ids) /\ early' = Append(early, i)
  BY DEF TypeOK, Remember
<1>1. /\ Len(order) \in Nat /\ Len(early) \in Nat /\ Len(early') = Len(early) + 1
      /\ \A n \in 1 .. Len(early) : early'[n] = early[n]
      /\ early'[Len(early) + 1] = i
  BY <1>s
<1>0. \A n \in 1 .. Len(early) :
        check[early[n]] = "claimed" /\ early[n] \notin pre => Outlived(early[n])
  BY DEF OnlyOldestForgotten
<1>2. CASE ~full
  <2>s. order' = Append(order, i) /\ pre' = pre \cup {i}
    BY <1>2 DEF Remember
  <2>1. /\ Len(order') = Len(order) + 1 /\ order'[Len(order) + 1] = i
        /\ \A k \in 1 .. Len(order) : order'[k] = order[k]
        /\ pre' = pre \cup {i}
    BY <1>s, <2>s
  <2>2. OrderIsRecent'
    <3>1. Len(order) = Len(early)
      BY <1>1, <1>2, CapAssumption DEF OrderIsRecent
    <3>2. ASSUME NEW k \in 1 .. Len(order') PROVE order'[k] = early'[k]
      <4>1. CASE k = Len(order) + 1
        BY <1>1, <2>1, <3>1, <4>1
      <4>2. CASE k \in 1 .. Len(order)
        BY <1>1, <2>1, <3>1, <4>2 DEF OrderIsRecent
      <4>3. QED
        BY <1>1, <2>1, <4>1, <4>2
    <3>3. Len(early') - Len(order') = 0
      BY <1>1, <2>1, <3>1
    <3>4. \A k \in 1 .. Len(order') : order'[k] = early'[Len(early') - Len(order') + k]
      BY <1>1, <2>1, <3>2, <3>3
    <3>5. QED
      BY <1>1, <1>2, <2>1, <3>1, <3>4, CapAssumption DEF OrderIsRecent
  <2>3. CancelledWereClaimed'
    BY <1>1 DEF CancelledWereClaimed
  <2>4. MemoryIsBounded'
    <3>1. Len(order') <= MaxCancelledIds
      BY <1>1, <1>2, <2>1, CapAssumption
    <3>2. ASSUME NEW j \in pre' PROVE \E k \in 1 .. Len(order') : order'[k] = j
      BY <1>1, <2>1, <3>2 DEF MemoryIsBounded
    <3>3. QED
      BY <3>1, <3>2 DEF MemoryIsBounded
  <2>5. OnlyOldestForgotten'
    <3>1. ASSUME NEW n \in 1 .. Len(early'), NEW j, j = early'[n], check[j] = "claimed", j \notin pre'
          PROVE  Outlived(j)'
      <4>1. n \in 1 .. Len(early) /\ j = early[n] /\ j \notin pre
        BY <1>1, <2>1, <3>1
      <4>2. Outlived(j)
        BY <1>0, <3>1, <4>1
      <4>3. QED
        BY <1>1, <4>2, CapAssumption DEF Outlived
    <3>2. QED
      BY <3>1 DEF OnlyOldestForgotten
  <2>6. QED
    BY <2>2, <2>3, <2>4, <2>5
<1>3. CASE full
  <2>s. /\ order # <<>> /\ Len(order) = MaxCancelledIds
        /\ Tail(order) \in Seq(Ids) /\ Len(Tail(order)) = Len(order) - 1
        /\ \A k \in 1 .. Len(order) - 1 : Tail(order)[k] = order[k + 1]
        /\ Head(order) = order[1]
    BY <1>s, <1>1, <1>3, CapAssumption DEF OrderIsRecent
  <2>1. Len(order) = MaxCancelledIds
    BY <2>s
  <2>2. /\ pre' = (pre \ {order[1]}) \cup {i}
        /\ Len(order') = Len(order) /\ order'[Len(order)] = i
        /\ \A k \in 1 .. Len(order) - 1 : order'[k] = order[k + 1]
    <3>1. order' = Append(Tail(order), i)
      BY <1>3 DEF Remember
    <3>2. pre' = (pre \ {order[1]}) \cup {i}
      BY <1>s, <1>1, <1>3, <2>s DEF Remember, TypeOK
    <3>3. QED
      BY <1>1, <2>s, <3>1, <3>2, CapAssumption
  <2>3. OrderIsRecent'
    <3>1. ASSUME NEW k \in 1 .. Len(order')
          PROVE  order'[k] = early'[Len(early') - Len(order') + k]
      <4>1. CASE k = Len(order)
        <5>1. Len(early') - Len(order') + k = Len(early) + 1
          BY <1>1, <2>1, <2>2, <4>1, CapAssumption
        <5>2. QED
          BY <1>1, <2>2, <4>1, <5>1
      <4>2. CASE k \in 1 .. Len(order) - 1
        <5>1. order'[k] = order[k + 1] /\ k + 1 \in 1 .. Len(order)
          BY <1>1, <2>2, <4>2
        <5>2. order[k + 1] = early[Len(early) - Len(order) + (k + 1)]
          BY <5>1 DEF OrderIsRecent
        <5>3. /\ Len(early) - Len(order) + (k + 1) = Len(early') - Len(order') + k
              /\ Len(early) - Len(order) + (k + 1) \in 1 .. Len(early)
          <6>1. Len(order) <= Len(early) /\ Len(order') = Len(order) /\ k \in Nat /\ k >= 1 /\ k + 1 <= Len(order)
            BY <1>1, <2>2, <5>1, <4>2 DEF OrderIsRecent
          <6>2. QED
            BY <1>1, <6>1
        <5>4. QED
          BY <1>1, <5>1, <5>2, <5>3
      <4>3. QED
        BY <1>1, <2>1, <2>2, <4>1, <4>2, CapAssumption
    <3>2. QED
      BY <1>1, <2>1, <2>2, <3>1, CapAssumption DEF OrderIsRecent
  <2>4. CancelledWereClaimed'
    BY <1>1 DEF CancelledWereClaimed
  <2>5. MemoryIsBounded'
    <3>1. Len(order') <= MaxCancelledIds
      BY <2>1, <2>2, CapAssumption
    <3>2. ASSUME NEW j \in pre' PROVE \E k \in 1 .. Len(order') : order'[k] = j
      <4>1. CASE j = i
        <5>1. Len(order) \in 1 .. Len(order')
          BY <1>1, <2>1, <2>2, CapAssumption
        <5>2. QED
          BY <2>2, <4>1, <5>1
      <4>2. CASE j # i
        <5>1. PICK k \in 1 .. Len(order) : order[k] = j
          BY <2>2, <4>2 DEF MemoryIsBounded
        <5>2. k # 1 /\ j # order[1]
          BY <2>2, <3>2, <4>2, <5>1
        <5>3. k - 1 \in 1 .. Len(order) - 1
          BY <1>1, <5>1, <5>2
        <5>4. order'[k - 1] = j
          BY <1>1, <2>2, <5>1, <5>3
        <5>5. QED
          BY <1>1, <2>2, <5>3, <5>4
      <4>3. QED
        BY <4>1, <4>2
    <3>3. QED
      BY <3>1, <3>2 DEF MemoryIsBounded
  <2>6. OnlyOldestForgotten'
    <3>1. ASSUME NEW n \in 1 .. Len(early'), NEW j, j = early'[n], check[j] = "claimed", j \notin pre'
          PROVE  Outlived(j)'
      <4>0. i \in pre'
        BY <2>2
      <4>1. n \in 1 .. Len(early) /\ j = early[n]
        BY <1>1, <3>1, <4>0
      <4>2. CASE j \notin pre
        <5>1. Outlived(j)
          BY <1>0, <3>1, <4>1, <4>2
        <5>2. QED
          BY <1>1, <5>1, CapAssumption DEF Outlived
      <4>3. CASE j \in pre
        <5>1. j = order[1]
          BY <2>2, <3>1, <4>3
        <5>2. order[1] = early[Len(early) - Len(order) + 1]
          BY <1>1, <2>1, CapAssumption DEF OrderIsRecent
        <5>3. Len(early) - Len(order) + 1 \in 1 .. Len(early)
          BY <1>1, <2>1, CapAssumption DEF OrderIsRecent
        <5>4. early'[Len(early) - Len(order) + 1] = j
          BY <1>1, <5>1, <5>2, <5>3
        <5>5. Len(early') - (Len(early) - Len(order) + 1) >= MaxCancelledIds
          BY <1>1, <2>1, CapAssumption
        <5>6. QED
          BY <1>1, <5>3, <5>4, <5>5 DEF Outlived
      <4>4. QED
        BY <4>2, <4>3
    <3>2. QED
      BY <3>1 DEF OnlyOldestForgotten
  <2>7. QED
    BY <2>3, <2>4, <2>5, <2>6
<1>4. QED
  BY <1>2, <1>3

(* A step that leaves the memory alone, forgets at most the id it collects *)
(* and claims only ids nobody cancelled.                                   *)
LEMMA QuietStepKeeps ==
  ASSUME MemoryInv, UNCHANGED <<order, early>>, pre' \subseteq pre,
         \A i \in Ids : check[i] # "unclaimed" => check'[i] # "unclaimed",
         \A i \in Ids : check'[i] = "claimed" =>
            \/ check[i] = "claimed" /\ (i \in pre => i \in pre')
            \/ check[i] = "unclaimed",
         \A i \in owed' : i \in owed \/ (i \in Ids /\ check[i] # "unclaimed")
  PROVE  (OrderIsRecent /\ CancelledWereClaimed /\ MemoryIsBounded /\ OnlyOldestForgotten)'
<1> USE DEF MemoryInv
<1>1. /\ early \in Seq(Ids) /\ Len(early) \in Nat /\ owed \subseteq Ids
      /\ \A n \in 1 .. Len(early) : early[n] \in Ids
  BY DEF TypeOK
<1>2. OrderIsRecent'
  BY DEF OrderIsRecent
<1>3. CancelledWereClaimed'
  BY <1>1 DEF CancelledWereClaimed
<1>4. MemoryIsBounded'
  BY DEF MemoryIsBounded
<1>5. OnlyOldestForgotten'
  <2>1. ASSUME NEW n \in 1 .. Len(early), check'[early[n]] = "claimed", early[n] \notin pre'
        PROVE  Outlived(early[n])
    <3>1. check[early[n]] # "unclaimed"
      BY DEF CancelledWereClaimed
    <3>2. check[early[n]] = "claimed" /\ early[n] \notin pre
      BY <1>1, <2>1, <3>1
    <3>3. QED
      BY <3>2 DEF OnlyOldestForgotten
  <2>2. QED
    BY <2>1 DEF OnlyOldestForgotten, Outlived
<1>6. QED
  BY <1>2, <1>3, <1>4, <1>5

LEMMA MemoryStep == MemoryInv /\ [Next]_vars => MemoryInv'
<1> SUFFICES ASSUME MemoryInv, [Next]_vars PROVE MemoryInv'
  OBVIOUS
<1> USE DEF MemoryInv
<1> DEFINE Rest == OrderIsRecent /\ CancelledWereClaimed /\ MemoryIsBounded /\ OnlyOldestForgotten
<1>0. TypeOK'
  BY TypeStep
<1>1. ASSUME NEW i \in Ids, Claim(i) PROVE Rest'
  BY <1>1, QuietStepKeeps DEF Claim, Moves, coord, TypeOK
<1>2. ASSUME NEW i \in Ids, Register(i) PROVE Rest'
  BY <1>2, QuietStepKeeps DEF Register, Moves, TypeOK
<1>3. ASSUME NEW i \in Ids, Aborted(i) PROVE Rest'
  BY <1>3, QuietStepKeeps DEF Aborted, Moves, coord, TypeOK
<1>4. ASSUME NEW i \in Ids, Answered(i) PROVE Rest'
  BY <1>4, QuietStepKeeps DEF Answered, Moves, coord, TypeOK
<1>5. ASSUME NEW i \in Ids, Retire(i) PROVE Rest'
  BY <1>5, QuietStepKeeps DEF Retire, Moves, TypeOK
<1>6. ASSUME NEW i \in Ids, Settle(i) PROVE Rest'
  BY <1>6, QuietStepKeeps DEF Settle, coord, TypeOK
<1>7. ASSUME NEW i \in Ids, Take(i) PROVE Rest'
  BY <1>7, QuietStepKeeps DEF Take, coord, TypeOK
<1>8. ASSUME NEW i \in Ids, CancelId(i) PROVE Rest'
  <2>1. CASE Remember(i)
    BY <1>8, <2>1, RememberKeeps DEF CancelId, CancelledWereClaimed
  <2>2. CASE UNCHANGED <<pre, order, early>>
    BY <1>8, <2>2, QuietStepKeeps DEF CancelId, TypeOK
  <2>3. QED
    BY <1>8, <2>1, <2>2 DEF CancelId
<1>9. CASE UNCHANGED vars
  BY <1>9, QuietStepKeeps DEF vars, coord, TypeOK
<1>10. QED
  BY <1>0, <1>1, <1>2, <1>3, <1>4, <1>5, <1>6, <1>7, <1>8, <1>9 DEF Next

-----------------------------------------------------------------------------
LEMMA MemoryAlways == Spec => []MemoryInv
BY InitRemembersNothing, MemoryStep, PTL DEF Spec

(* The registry and the memory hold what their types say, whatever the     *)
(* engine, polkit and the pool do: the inflight set is exactly the checks  *)
(* between register and the drop of their guard (polkit.rs).               *)
THEOREM RegistryTyped == Spec => []TypeOK
<1>1. MemoryInv => TypeOK
  BY DEF MemoryInv
<1>2. QED
  BY <1>1, MemoryAlways, PTL

(* What is remembered is bounded, whatever the engine cancels: the queue   *)
(* never outgrows MAX_CANCELLED_IDS and nothing is remembered outside it   *)
(* (cancel_id, polkit.rs).                                                 *)
THEOREM Bounded == Spec => []MemoryIsBounded
<1>1. MemoryInv => MemoryIsBounded
  BY DEF MemoryInv
<1>2. QED
  BY <1>1, MemoryAlways, PTL

(* A cancellation that came before its check registered is forgotten only  *)
(* for MAX_CANCELLED_IDS later ones (polkit.rs: register, cancel_id).      *)
THEOREM ForgottenLast == Spec => []OnlyOldestForgotten
<1>1. MemoryInv => OnlyOldestForgotten
  BY DEF MemoryInv
<1>2. QED
  BY <1>1, MemoryAlways, PTL
=============================================================================
