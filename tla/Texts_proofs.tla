---------------------------- MODULE Texts_proofs ----------------------------
(***************************************************************************)
(* Texts and lists of any length: what a filter keeps, what a pass over a  *)
(* text comes to, and that what one layer of a command's way writes the    *)
(* next reads back.                                                        *)
(***************************************************************************)
EXTENDS CommandText, WebApps, Lists, FiniteSetTheorems, SequenceTheorems, NaturalsInduction,
        WellFoundedInduction, TLAPS

-----------------------------------------------------------------------------
(* Numbers: induction, the least and the greatest of a set.                *)

LEMMA NatInSet ==
  ASSUME NEW S, 0 \in S, \A i \in Nat : i \in S => i + 1 \in S
  PROVE  \A i \in Nat : i \in S
<1> DEFINE Out == {i \in Nat : i \notin S}
<1> SUFFICES ASSUME Out # {} PROVE FALSE
  OBVIOUS
<1>1. PICK m \in Out : \A i \in Out : ~(<<i, m>> \in OpToRel(<, Nat))
  BY NatLessThanWellFounded, WFMin
<1>2. m \in Nat /\ m \notin S
  OBVIOUS
<1> HIDE DEF Out
<1>3. m - 1 \in Nat /\ m - 1 + 1 = m /\ m - 1 < m
  BY <1>2
<1>4. m - 1 \in Out
  BY <1>2, <1>3 DEF Out
<1>5. <<m - 1, m>> \in OpToRel(<, Nat)
  BY <1>2, <1>3, Zenon DEF OpToRel
<1> QED  BY <1>1, <1>4, <1>5

LEMMA LeastNat ==
  ASSUME NEW S, S \subseteq Nat, S # {}
  PROVE  \E m \in S : \A n \in S : m <= n
<1>1. PICK m \in S : \A n \in S : ~(<<n, m>> \in OpToRel(<, Nat))
  BY NatLessThanWellFounded, WFMin
<1>2. ASSUME NEW n \in S PROVE m <= n
  <2>1. n \in Nat /\ m \in Nat
    OBVIOUS
  <2>2. ~(n < m)
    BY <1>1, <2>1, Zenon DEF OpToRel
  <2> QED  BY <2>1, <2>2
<1> QED  BY <1>2

-----------------------------------------------------------------------------
(* What is kept of a list comes from the places it is kept at.             *)

KeptUpTo(seq, at, n) ==
  CHOOSE kept : kept = [i \in 0 .. n |->
    IF i = 0 THEN <<>> ELSE IF i \in at THEN Append(kept[i - 1], seq[i]) ELSE kept[i - 1]]

LEMMA KeptIs ==
  ASSUME NEW seq, NEW at, NEW n \in Nat
  PROVE  KeptUpTo(seq, at, n) = [i \in 0 .. n |->
           IF i = 0 THEN <<>> ELSE IF i \in at THEN Append(KeptUpTo(seq, at, n)[i - 1], seq[i])
           ELSE KeptUpTo(seq, at, n)[i - 1]]
<1> DEFINE Is(p, k) == p = [i \in 0 .. k |->
             IF i = 0 THEN <<>> ELSE IF i \in at THEN Append(p[i - 1], seq[i]) ELSE p[i - 1]]
           S == {k \in Nat : \E p : Is(p, k)}
<1>1. 0 \in S
  <2>1. Is([i \in 0 .. 0 |-> <<>>], 0)
    OBVIOUS
  <2> QED  BY <2>1
<1>2. ASSUME NEW k \in Nat, k \in S PROVE k + 1 \in S
  <2>1. PICK p : Is(p, k)
    BY <1>2
  <2> DEFINE last == IF k + 1 \in at THEN Append(p[k], seq[k + 1]) ELSE p[k]
             q == [i \in 0 .. k + 1 |-> IF i = k + 1 THEN last ELSE p[i]]
  <2>2. ASSUME NEW i \in 0 .. k + 1
        PROVE  q[i] = IF i = 0 THEN <<>> ELSE IF i \in at THEN Append(q[i - 1], seq[i]) ELSE q[i - 1]
    <3>1. CASE i = k + 1
      <4>1. q[i] = last /\ i # 0 /\ i - 1 = k /\ q[k] = p[k]
        BY <3>1
      <4> QED  BY <3>1, <4>1
    <3>2. CASE i # k + 1
      <4>1. i \in 0 .. k /\ q[i] = p[i] /\ (i # 0 => i - 1 \in 0 .. k /\ q[i - 1] = p[i - 1])
        BY <3>2
      <4> HIDE DEF q
      <4> QED  BY <2>1, <4>1
    <3> QED  BY <3>1, <3>2
  <2>3. q = [i \in 0 .. k + 1 |-> q[i]]
    OBVIOUS
  <2> HIDE DEF q
  <2>4. Is(q, k + 1)
    BY <2>2, <2>3
  <2> QED  BY <2>4
<1> HIDE DEF S
<1>3. n \in S
  BY <1>1, <1>2, NatInSet
<1> QED  BY <1>3 DEF S, KeptUpTo

LEMMA KeepIs ==
  ASSUME NEW seq, NEW at, Len(seq) \in Nat
  PROVE  Keep(seq, at) = KeptUpTo(seq, at, Len(seq))[Len(seq)]
BY DEF Keep, KeptUpTo

LEMMA KeptSteps ==
  ASSUME NEW seq, NEW at, NEW n \in Nat
  PROVE  /\ KeptUpTo(seq, at, n)[0] = <<>>
         /\ \A i \in 1 .. n : KeptUpTo(seq, at, n)[i] =
              IF i \in at THEN Append(KeptUpTo(seq, at, n)[i - 1], seq[i])
              ELSE KeptUpTo(seq, at, n)[i - 1]
<1> DEFINE kept == KeptUpTo(seq, at, n)
<1>1. kept = [i \in 0 .. n |-> IF i = 0 THEN <<>>
                ELSE IF i \in at THEN Append(kept[i - 1], seq[i]) ELSE kept[i - 1]]
  BY KeptIs
<1> HIDE DEF kept
<1>2. 0 \in 0 .. n /\ \A i \in 1 .. n : i \in 0 .. n /\ i # 0
  OBVIOUS
<1>3. kept[0] = <<>> /\ \A i \in 1 .. n : kept[i] =
        IF i \in at THEN Append(kept[i - 1], seq[i]) ELSE kept[i - 1]
  BY <1>1, <1>2
<1> QED  BY <1>3 DEF kept

LEMMA KeptTyped ==
  ASSUME NEW seq, NEW at, Len(seq) \in Nat, NEW T,
         \A i \in 1 .. Len(seq) : i \in at => seq[i] \in T
  PROVE  /\ \A i \in 0 .. Len(seq) : KeptUpTo(seq, at, Len(seq))[i] \in Seq(T)
         /\ Keep(seq, at) \in Seq(T)
<1> DEFINE n == Len(seq)
           kept == KeptUpTo(seq, at, n)
           S == {i \in Nat : i <= n => kept[i] \in Seq(T)}
<1>1. n \in Nat
  OBVIOUS
<1>2. kept[0] = <<>> /\ \A i \in 1 .. n : kept[i] =
        IF i \in at THEN Append(kept[i - 1], seq[i]) ELSE kept[i - 1]
  BY <1>1, KeptSteps
<1>3. \A i \in 1 .. n : i \in at => seq[i] \in T
  OBVIOUS
<1> HIDE DEF n, kept
<1>4. 0 \in S
  <2>1. 0 \in Nat /\ <<>> \in Seq(T)
    OBVIOUS
  <2>2. kept[0] \in Seq(T)
    BY <1>2, <2>1
  <2> QED  BY <2>1, <2>2
<1>5. ASSUME NEW i \in Nat, i \in S PROVE i + 1 \in S
  <2>1. CASE i + 1 <= n
    <3>1. i + 1 \in 1 .. n /\ i + 1 - 1 = i /\ i <= n
      BY <1>1, <2>1
    <3>2. kept[i] \in Seq(T)
      BY <1>5, <3>1
    <3>3. kept[i + 1] = IF i + 1 \in at THEN Append(kept[i], seq[i + 1]) ELSE kept[i]
      BY <1>2, <3>1
    <3>4. kept[i + 1] \in Seq(T)
      BY <1>3, <3>1, <3>2, <3>3
    <3> QED  BY <3>4
  <2>2. CASE ~(i + 1 <= n)
    BY <2>2
  <2> QED  BY <2>1, <2>2
<1>6. \A i \in Nat : i \in S
  <2> HIDE DEF S
  <2> QED  BY <1>4, <1>5, NatInSet
<1>7. \A i \in 0 .. n : kept[i] \in Seq(T)
  BY <1>1, <1>6
<1>8. kept[n] \in Seq(T)
  BY <1>1, <1>7
<1>9. Keep(seq, at) = kept[n]
  BY KeepIs DEF kept, n
<1> QED  BY <1>7, <1>8, <1>9 DEF kept, n

(* A finite set of numbers has a greatest.                                 *)
LEMMA GreatestNat ==
  ASSUME NEW S, IsFiniteSet(S), S \subseteq Nat, S # {}
  PROVE  Max(S) \in S /\ \A y \in S : Max(S) >= y
<1> DEFINE HasTop(T) == \E x \in T : \A y \in T : x >= y
           Good == {n \in Nat : \A T : IsFiniteSet(T) /\ T \subseteq Nat /\ T # {} /\ Cardinality(T) = n
                                        => HasTop(T)}
<1>1. 0 \in Good
  <2>1. \A T : IsFiniteSet(T) /\ Cardinality(T) = 0 => T = {}
    BY FS_EmptySet
  <2> HIDE DEF HasTop
  <2> QED  BY <2>1
<1>2. ASSUME NEW n \in Nat, n \in Good PROVE n + 1 \in Good
  <2> SUFFICES ASSUME NEW T, IsFiniteSet(T), T \subseteq Nat, T # {}, Cardinality(T) = n + 1
               PROVE  HasTop(T)
    OBVIOUS
  <2>1. PICK t \in T : TRUE
    OBVIOUS
  <2> DEFINE R == T \ {t}
  <2>2. IsFiniteSet(R) /\ Cardinality(R) = n
    <3>1. IsFiniteSet(R) /\ Cardinality(R) = Cardinality(T) - 1
      BY FS_RemoveElement
    <3> QED  BY <3>1
  <2>3. R \subseteq Nat /\ t \in Nat /\ T = R \cup {t}
    OBVIOUS
  <2> HIDE DEF R
  <2>4. CASE R = {}
    <3>1. \A y \in T : t >= y
      BY <2>3, <2>4
    <3> QED  BY <3>1
  <2>5. CASE R # {}
    <3>1. HasTop(R)
      <4> HIDE DEF HasTop
      <4> QED  BY <1>2, <2>2, <2>3, <2>5
    <3>2. PICK x \in R : \A y \in R : x >= y
      BY <3>1
    <3>3. x \in Nat /\ R \subseteq Nat
      BY <2>3
    <3>4. CASE x >= t
      <4>1. \A y \in T : x >= y
        BY <2>3, <3>2, <3>4
      <4> QED  BY <2>3, <4>1
    <3>5. CASE ~(x >= t)
      <4>1. \A y \in R : y \in Nat /\ t >= y
        BY <2>3, <3>2, <3>3, <3>5
      <4>2. \A y \in T : t >= y
        BY <2>3, <4>1
      <4> QED  BY <4>2
    <3> QED  BY <3>4, <3>5
  <2> QED  BY <2>4, <2>5
<1>3. \A n \in Nat : n \in Good
  <2> HIDE DEF Good
  <2> QED  BY <1>1, <1>2, NatInSet
<1>4. HasTop(S)
  <2>1. Cardinality(S) \in Nat
    BY FS_CardinalityType
  <2> HIDE DEF HasTop
  <2> QED  BY <1>3, <2>1
<1> QED  BY <1>4 DEF Max

-----------------------------------------------------------------------------
(* Texts: their beginnings, and what is put together from pieces.          *)

LEMMA TextGrows ==
  ASSUME NEW S, NEW s \in Seq(S), NEW k \in Nat, k + 1 <= Len(s)
  PROVE  /\ SubSeq(s, 1, k) \in Seq(S) /\ s[k + 1] \in S
         /\ SubSeq(s, 1, k + 1) = Append(SubSeq(s, 1, k), s[k + 1])
<1>1. Len(s) \in Nat /\ k <= Len(s) /\ k + 1 \in 1 .. Len(s)
  OBVIOUS
<1>2. SubSeq(s, 1, k) \in Seq(S) /\ Len(SubSeq(s, 1, k)) = k /\ s[k + 1] \in S
  BY <1>1
<1>3. SubSeq(s, 1, k + 1) = [i \in 1 .. k + 1 |-> s[i]] /\ SubSeq(s, 1, k) = [i \in 1 .. k |-> s[i]]
  BY <1>1
<1>4. Append(SubSeq(s, 1, k), s[k + 1]) = [i \in 1 .. k + 1 |-> s[i]]
  BY <1>1, <1>2, <1>3
<1> QED  BY <1>2, <1>3, <1>4

LEMMA TextWhole ==
  ASSUME NEW S, NEW s \in Seq(S)
  PROVE  SubSeq(s, 1, 0) = <<>> /\ SubSeq(s, 1, Len(s)) = s
<1>1. Len(s) \in Nat /\ s = [i \in 1 .. Len(s) |-> s[i]]
  OBVIOUS
<1>2. SubSeq(s, 1, Len(s)) = [i \in 1 .. Len(s) |-> s[i]]
  BY <1>1
<1> QED  BY <1>1, <1>2

LEMMA LastOut ==
  ASSUME NEW S, NEW s \in Seq(S), s # <<>>
  PROVE  \E t \in Seq(S), e \in S : s = Append(t, e)
<1> DEFINE k == Len(s) - 1
<1>1. k \in Nat /\ k + 1 = Len(s) /\ k + 1 <= Len(s)
  BY EmptySeq
<1> HIDE DEF k
<1>2. /\ SubSeq(s, 1, k) \in Seq(S) /\ s[k + 1] \in S
      /\ SubSeq(s, 1, k + 1) = Append(SubSeq(s, 1, k), s[k + 1])
  BY <1>1, TextGrows
<1>3. SubSeq(s, 1, k + 1) = s
  BY <1>1, TextWhole
<1> QED  BY <1>2, <1>3

LEMMA JoinGrows ==
  ASSUME NEW S, NEW s \in Seq(S), NEW t \in Seq(S), NEW c \in S
  PROVE  s \o Append(t, c) = Append(s \o t, c) /\ s \o t \in Seq(S) /\ s \o <<>> = s
<1>1. Append(t, c) = t \o <<c>> /\ Append(s \o t, c) = (s \o t) \o <<c>>
  BY AppendIsConcat
<1>2. (s \o t) \o <<c>> = s \o (t \o <<c>>)
  BY ConcatAssociative, SMTT(30)
<1> QED  BY <1>1, <1>2

-----------------------------------------------------------------------------
(* A pass over a text.                                                     *)

LEMMA PassIs ==
  ASSUME NEW r, NEW start, NEW text, Len(text) \in Nat
  PROVE  \E after :
           /\ after[0] = start
           /\ \A i \in 1 .. Len(text) : after[i] = Read(r, after[i - 1], text[i])
           /\ Pass(r, start, text) = after[Len(text)]
<1> DEFINE Is(h, n) == h = [i \in 0 .. n |-> IF i = 0 THEN start ELSE Read(r, h[i - 1], text[i])]
           S == {n \in Nat : \E h : Is(h, n)}
           last == Len(text)
<1>1. Pass(r, start, text) = (CHOOSE h : Is(h, last))[last]
  BY DEF Pass
<1>0. last \in Nat
  OBVIOUS
<1> HIDE DEF last
<1>2. 0 \in S
  <2>1. Is([i \in 0 .. 0 |-> start], 0)
    OBVIOUS
  <2> QED  BY <2>1
<1>3. ASSUME NEW n \in Nat, n \in S PROVE n + 1 \in S
  <2>1. PICK h : Is(h, n)
    BY <1>3
  <2> DEFINE next == Read(r, h[n], text[n + 1])
             g == [i \in 0 .. n + 1 |-> IF i = n + 1 THEN next ELSE h[i]]
  <2>2. ASSUME NEW i \in 0 .. n + 1
        PROVE  g[i] = IF i = 0 THEN start ELSE Read(r, g[i - 1], text[i])
    <3>1. CASE i = n + 1
      <4>1. g[i] = next /\ i # 0 /\ i - 1 = n /\ g[n] = h[n]
        BY <3>1
      <4> QED  BY <3>1, <4>1
    <3>2. CASE i # n + 1
      <4>1. i \in 0 .. n /\ g[i] = h[i] /\ (i # 0 => i - 1 \in 0 .. n /\ g[i - 1] = h[i - 1])
        BY <3>2
      <4> HIDE DEF g
      <4> QED  BY <2>1, <4>1
    <3> QED  BY <3>1, <3>2
  <2>3. g = [i \in 0 .. n + 1 |-> g[i]]
    OBVIOUS
  <2> HIDE DEF g
  <2>4. Is(g, n + 1)
    BY <2>2, <2>3
  <2> QED  BY <2>4
<1>4. \E h : Is(h, last)
  <2> HIDE DEF S, Is
  <2>1. last \in S
    BY <1>0, <1>2, <1>3, NatInSet
  <2> QED  BY <2>1 DEF S
<1>5. PICK h : Is(h, last) /\ Pass(r, start, text) = h[last]
  <2> HIDE DEF Is
  <2> QED  BY <1>1, <1>4
<1>6. h[0] = start /\ \A i \in 1 .. last : h[i] = Read(r, h[i - 1], text[i])
  <2>1. 0 \in 0 .. last /\ \A i \in 1 .. last : i \in 0 .. last /\ i # 0
    BY <1>0
  <2> QED  BY <1>5, <2>1
<1> QED  BY <1>5, <1>6 DEF last

LEMMA PassGrows ==
  ASSUME NEW r, NEW start, NEW D, NEW t \in Seq(D), NEW c \in D
  PROVE  /\ Pass(r, start, <<>>) = start
         /\ Pass(r, start, Append(t, c)) = Read(r, Pass(r, start, t), c)
<1> DEFINE n == Len(t)
           u == Append(t, c)
<1>1. n \in Nat /\ Len(u) = n + 1 /\ u[n + 1] = c /\ \A i \in 1 .. n : u[i] = t[i]
  OBVIOUS
<1>2. PICK f : /\ f[0] = start /\ \A i \in 1 .. n : f[i] = Read(r, f[i - 1], t[i])
               /\ Pass(r, start, t) = f[n]
  <2>1. Len(t) \in Nat
    OBVIOUS
  <2>2. \E f : /\ f[0] = start /\ \A i \in 1 .. Len(t) : f[i] = Read(r, f[i - 1], t[i])
               /\ Pass(r, start, t) = f[Len(t)]
    BY <2>1, PassIs
  <2> QED  BY <2>2
<1> HIDE DEF u, n
<1>3. PICK g : /\ g[0] = start /\ \A i \in 1 .. n + 1 : g[i] = Read(r, g[i - 1], u[i])
               /\ Pass(r, start, u) = g[n + 1]
  <2>1. Len(u) \in Nat
    BY <1>1
  <2>2. \E g : /\ g[0] = start /\ \A i \in 1 .. Len(u) : g[i] = Read(r, g[i - 1], u[i])
               /\ Pass(r, start, u) = g[Len(u)]
    BY <2>1, PassIs
  <2> QED  BY <1>1, <2>2
<1> DEFINE S == {i \in Nat : i <= n => f[i] = g[i]}
<1>4. n \in S
  <2>1. 0 \in S
    BY <1>2, <1>3
  <2>2. ASSUME NEW i \in Nat, i \in S PROVE i + 1 \in S
    <3> SUFFICES ASSUME i + 1 <= n PROVE f[i + 1] = g[i + 1]
      OBVIOUS
    <3>1. i <= n /\ i + 1 \in 1 .. n /\ i + 1 \in 1 .. n + 1 /\ i + 1 - 1 = i
      BY <1>1
    <3>2. f[i] = g[i] /\ u[i + 1] = t[i + 1]
      BY <1>1, <2>2, <3>1
    <3> QED  BY <1>2, <1>3, <3>1, <3>2
  <2> HIDE DEF S
  <2> QED  BY <1>1, <2>1, <2>2, NatInSet
<1>5. f[n] = g[n]
  BY <1>1, <1>4
<1>6. n + 1 \in 1 .. n + 1 /\ n + 1 - 1 = n
  BY <1>1
<1>7. Pass(r, start, u) = Read(r, Pass(r, start, t), c)
  BY <1>1, <1>2, <1>3, <1>5, <1>6
<1>8. Pass(r, start, <<>>) = start
  <2>1. Len(<<>>) = 0
    OBVIOUS
  <2>2. \E h : h[0] = start /\ Pass(r, start, <<>>) = h[0]
    BY <2>1, PassIs
  <2> QED  BY <2>2
<1> QED  BY <1>7, <1>8 DEF u

(* What holds of the empty list, and of a list that grows if it held of    *)
(* it, holds of every list.                                                *)
LEMMA ListInSet ==
  ASSUME NEW D, NEW S, <<>> \in S,
         \A t \in Seq(D), c \in D : t \in S => Append(t, c) \in S
  PROVE  \A t \in Seq(D) : t \in S
<1> SUFFICES ASSUME NEW t \in Seq(D) PROVE t \in S
  OBVIOUS
<1> DEFINE to(k) == SubSeq(t, 1, k)
           N == {k \in Nat : k <= Len(t) => to(k) \in S}
<1>1. Len(t) \in Nat /\ to(0) = <<>> /\ to(Len(t)) = t
  BY TextWhole
<1>2. ASSUME NEW k \in Nat, k + 1 <= Len(t)
      PROVE  to(k) \in Seq(D) /\ t[k + 1] \in D /\ to(k + 1) = Append(to(k), t[k + 1])
  BY <1>2, TextGrows
<1> HIDE DEF to
<1>3. 0 \in N
  BY <1>1
<1>4. ASSUME NEW k \in Nat, k \in N PROVE k + 1 \in N
  <2> SUFFICES ASSUME k + 1 <= Len(t) PROVE to(k + 1) \in S
    OBVIOUS
  <2>1. to(k) \in S
    BY <1>1, <1>4
  <2> QED  BY <1>2, <2>1
<1>5. Len(t) \in N
  <2> HIDE DEF N
  <2> QED  BY <1>1, <1>3, <1>4, NatInSet
<1> QED  BY <1>1, <1>5

LEMMA PassJoins ==
  ASSUME NEW r, NEW start, NEW D, NEW s \in Seq(D)
  PROVE  \A t \in Seq(D) : Pass(r, start, s \o t) = Pass(r, Pass(r, start, s), t)
<1> DEFINE on(u) == s \o u
           then == Pass(r, start, s)
           S == {t \in Seq(D) : Pass(r, start, on(t)) = Pass(r, then, t)}
<1>1. on(<<>>) = s
  OBVIOUS
<1>2. ASSUME NEW u \in Seq(D), NEW c \in D
      PROVE  on(u) \in Seq(D) /\ on(Append(u, c)) = Append(on(u), c)
  BY JoinGrows
<1> HIDE DEF on, then
<1>3. Pass(r, then, <<>>) = then
  <2>1. <<>> \in Seq({1}) /\ 1 \in {1}
    OBVIOUS
  <2> QED  BY <2>1, PassGrows
<1>4. <<>> \in S
  BY <1>1, <1>3 DEF then
<1>5. ASSUME NEW t \in Seq(D), NEW c \in D, t \in S PROVE Append(t, c) \in S
  <2>0. on(t) \in Seq(D) /\ on(Append(t, c)) = Append(on(t), c)
    BY <1>2
  <2>1. Pass(r, start, on(Append(t, c))) = Read(r, Pass(r, start, on(t)), c)
    BY <2>0, PassGrows
  <2>2. Pass(r, then, Append(t, c)) = Read(r, Pass(r, then, t), c)
    BY PassGrows
  <2>3. Append(t, c) \in Seq(D)
    OBVIOUS
  <2> QED  BY <1>5, <2>1, <2>2, <2>3
<1>6. \A t \in Seq(D) : t \in S
  <2> HIDE DEF S
  <2> QED  BY <1>4, <1>5, ListInSet
<1> QED  BY <1>6 DEF on, then

(* Of no character, of one and of two.                                     *)
One(a) == <<a>>
Two(a, b) == <<a, b>>

LEMMA PassNone ==
  ASSUME NEW r, NEW s
  PROVE  Pass(r, s, <<>>) = s
<1>1. <<>> \in Seq({1}) /\ 1 \in {1}
  OBVIOUS
<1> QED  BY <1>1, PassGrows

LEMMA PassOne ==
  ASSUME NEW r, NEW s, NEW a
  PROVE  Pass(r, s, One(a)) = Read(r, s, a)
<1> DEFINE D == {a}
           none == <<>>
<1>1. none \in Seq(D) /\ a \in D /\ One(a) = Append(none, a)
  BY DEF One
<1>2. Pass(r, s, none) = s
  BY PassNone
<1> HIDE DEF D, none
<1>3. Pass(r, s, Append(none, a)) = Read(r, Pass(r, s, none), a)
  BY <1>1, PassGrows
<1> QED  BY <1>1, <1>2, <1>3

LEMMA PassTwo ==
  ASSUME NEW r, NEW s, NEW a, NEW b
  PROVE  Pass(r, s, Two(a, b)) = Read(r, Read(r, s, a), b)
<1> DEFINE D == {a, b}
<1>1. One(a) \in Seq(D) /\ b \in D /\ Two(a, b) = Append(One(a), b)
  BY DEF One, Two
<1> HIDE DEF D
<1>2. Pass(r, s, Append(One(a), b)) = Read(r, Pass(r, s, One(a)), b)
  BY <1>1, PassGrows
<1> QED  BY <1>1, <1>2, PassOne

-----------------------------------------------------------------------------
(* Lists of texts put together.                                            *)

LEMMA FlattenIs ==
  ASSUME NEW ss, Len(ss) \in Nat \ {0}
  PROVE  \E flat :
           /\ flat[1] = ss[1]
           /\ \A i \in 2 .. Len(ss) : flat[i] = flat[i - 1] \o ss[i]
           /\ FlattenSeq(ss) = flat[Len(ss)]
<1> DEFINE Is(h, n) == h = [i \in 1 .. n |-> IF i = 1 THEN ss[1] ELSE h[i - 1] \o ss[i]]
           IsToo(h, n) == h = [i \in 1 .. n |-> IF i = 1 THEN ss[i] ELSE h[i - 1] \o ss[i]]
           S == {n \in Nat : \E h : Is(h, n + 1)}
           last == Len(ss)
<1>0. last \in Nat /\ last # 0
  OBVIOUS
<1>1. FlattenSeq(ss) = (CHOOSE h : IsToo(h, last))[last]
  BY <1>0 DEF FlattenSeq
<1> HIDE DEF last
<1>2. \A h : IsToo(h, last) <=> Is(h, last)
  <2>1. \A h : [i \in 1 .. last |-> IF i = 1 THEN ss[i] ELSE h[i - 1] \o ss[i]]
             = [i \in 1 .. last |-> IF i = 1 THEN ss[1] ELSE h[i - 1] \o ss[i]]
    OBVIOUS
  <2> QED  BY <2>1
<1>3. 0 \in S
  <2>1. Is([i \in 1 .. 1 |-> ss[1]], 0 + 1)
    OBVIOUS
  <2> QED  BY <2>1
<1>4. ASSUME NEW n \in Nat, n \in S PROVE n + 1 \in S
  <2>1. PICK h : Is(h, n + 1)
    BY <1>4
  <2> DEFINE m == n + 2
             next == h[n + 1] \o ss[m]
             g == [i \in 1 .. m |-> IF i = m THEN next ELSE h[i]]
  <2>2. ASSUME NEW i \in 1 .. m
        PROVE  g[i] = IF i = 1 THEN ss[1] ELSE g[i - 1] \o ss[i]
    <3>1. CASE i = m
      <4>1. n + 1 \in 1 .. m /\ n + 1 # m /\ m \in 1 .. m /\ m - 1 = n + 1 /\ m # 1
        OBVIOUS
      <4> HIDE DEF next, m
      <4>2. g[i] = next /\ g[n + 1] = h[n + 1]
        BY <3>1, <4>1
      <4> HIDE DEF g
      <4> QED  BY <3>1, <4>1, <4>2 DEF next
    <3>2. CASE i # m
      <4>1. i \in 1 .. n + 1 /\ g[i] = h[i] /\ (i # 1 => i - 1 \in 1 .. n + 1 /\ g[i - 1] = h[i - 1])
        BY <3>2
      <4> HIDE DEF g
      <4> QED  BY <2>1, <4>1
    <3> QED  BY <3>1, <3>2
  <2>3. g = [i \in 1 .. m |-> g[i]]
    OBVIOUS
  <2> HIDE DEF g
  <2>4. Is(g, m)
    BY <2>2, <2>3
  <2>5. m = (n + 1) + 1 /\ n + 1 \in Nat
    OBVIOUS
  <2> HIDE DEF m, g, Is
  <2> QED  BY <2>4, <2>5
<1>5. \E h : Is(h, last)
  <2>1. last - 1 \in Nat /\ last - 1 + 1 = last
    BY <1>0
  <2> HIDE DEF S, Is
  <2>2. last - 1 \in S
    BY <1>3, <1>4, <2>1, NatInSet
  <2> QED  BY <2>1, <2>2 DEF S
<1>6. PICK h : Is(h, last) /\ FlattenSeq(ss) = h[last]
  <2> HIDE DEF Is, IsToo
  <2> QED  BY <1>1, <1>2, <1>5
<1>7. h[1] = ss[1] /\ \A i \in 2 .. last : h[i] = h[i - 1] \o ss[i]
  <2>1. 1 \in 1 .. last /\ \A i \in 2 .. last : i \in 1 .. last /\ i # 1
    BY <1>0
  <2> QED  BY <1>6, <2>1
<1> QED  BY <1>6, <1>7 DEF last

-----------------------------------------------------------------------------
(* Texts put together from pieces, and lines of words.                      *)

LEMMA AppendIs ==
  ASSUME NEW S, NEW p \in Seq(S), NEW e \in S
  PROVE  Append(p, e) = [i \in 1 .. Len(p) + 1 |-> IF i = Len(p) + 1 THEN e ELSE p[i]]
<1> DEFINE q == Append(p, e)
           n == Len(p) + 1
<1>1. Len(p) \in Nat /\ q \in Seq(S) /\ Len(q) = n /\ q[n] = e /\ \A i \in 1 .. Len(p) : q[i] = p[i]
  OBVIOUS
<1> HIDE DEF q
<1>2. q = [i \in 1 .. n |-> q[i]]
  BY <1>1
<1>3. \A i \in 1 .. n : q[i] = IF i = n THEN e ELSE p[i]
  <2>1. \A i \in 1 .. n : i # n => i \in 1 .. Len(p)
    BY <1>1
  <2> QED  BY <1>1, <2>1
<1> HIDE DEF n
<1>4. q = [i \in 1 .. n |-> IF i = n THEN e ELSE p[i]]
  BY <1>2, <1>3
<1> QED  BY <1>4 DEF q, n

LEMMA FlattenGrows ==
  ASSUME NEW D, NEW ss \in Seq(Seq(D)), NEW s \in Seq(D)
  PROVE  FlattenSeq(Append(ss, s)) = IF ss = <<>> THEN s ELSE FlattenSeq(ss) \o s
<1> DEFINE u == Append(ss, s)
           n == Len(ss)
<1>1. n \in Nat /\ Len(u) = n + 1 /\ u[n + 1] = s /\ \A i \in 1 .. n : u[i] = ss[i]
      /\ (ss = <<>> <=> n = 0)
  OBVIOUS
<1> HIDE DEF u
<1>2. PICK g : /\ g[1] = u[1] /\ \A i \in 2 .. n + 1 : g[i] = g[i - 1] \o u[i]
               /\ FlattenSeq(u) = g[n + 1]
  <2>1. Len(u) \in Nat \ {0}
    BY <1>1
  <2>2. \E g : /\ g[1] = u[1] /\ \A i \in 2 .. Len(u) : g[i] = g[i - 1] \o u[i]
               /\ FlattenSeq(u) = g[Len(u)]
    BY <2>1, FlattenIs
  <2> HIDE DEF n
  <2> QED  BY <1>1, <2>2
<1>3. CASE n = 0
  <2>1. FlattenSeq(u) = u[1] /\ u[1] = s /\ ss = <<>>
    <3>1. n + 1 = 1
      BY <1>3
    <3> QED  BY <1>1, <1>2, <1>3, <3>1
  <2> QED  BY <2>1 DEF u
<1>4. CASE n # 0
  <2>1. PICK f : /\ f[1] = ss[1] /\ \A i \in 2 .. n : f[i] = f[i - 1] \o ss[i]
                 /\ FlattenSeq(ss) = f[n]
    <3>1. Len(ss) \in Nat \ {0}
      BY <1>1, <1>4
    <3>2. \E f : /\ f[1] = ss[1] /\ \A i \in 2 .. Len(ss) : f[i] = f[i - 1] \o ss[i]
                 /\ FlattenSeq(ss) = f[Len(ss)]
      BY <3>1, FlattenIs
    <3> QED  BY <3>2
  <2> DEFINE S == {i \in Nat : i + 1 <= n => f[i + 1] = g[i + 1]}
  <2> HIDE DEF n
  <2>2. 0 \in S
    <3>1. 1 \in 1 .. n
      BY <1>1, <1>4
    <3>2. f[1] = g[1]
      BY <1>1, <1>2, <2>1, <3>1
    <3> QED  BY <3>2
  <2>3. ASSUME NEW i \in Nat, i \in S PROVE i + 1 \in S
    <3> SUFFICES ASSUME (i + 1) + 1 <= n PROVE f[(i + 1) + 1] = g[(i + 1) + 1]
      OBVIOUS
    <3> DEFINE k == (i + 1) + 1
    <3>1. i + 1 <= n /\ k \in 2 .. n /\ k \in 1 .. n /\ k \in 2 .. n + 1 /\ k - 1 = i + 1
      BY <1>1
    <3>2. f[k - 1] = g[k - 1] /\ u[k] = ss[k]
      BY <1>1, <2>3, <3>1
    <3> HIDE DEF k
    <3>3. f[k] = f[k - 1] \o ss[k] /\ g[k] = g[k - 1] \o u[k]
      BY <1>2, <2>1, <3>1
    <3>4. f[k] = g[k]
      BY <3>2, <3>3
    <3> QED  BY <3>4 DEF k
  <2>4. n - 1 \in S
    <3> HIDE DEF S
    <3>1. n - 1 \in Nat
      BY <1>1, <1>4
    <3> QED  BY <2>2, <2>3, <3>1, NatInSet
  <2>5. f[n] = g[n]
    <3>1. n - 1 \in Nat /\ (n - 1) + 1 = n /\ n <= n
      BY <1>1, <1>4
    <3> QED  BY <2>4, <3>1
  <2>6. n + 1 \in 2 .. n + 1 /\ (n + 1) - 1 = n
    BY <1>1, <1>4
  <2>7. g[n + 1] = g[n] \o u[n + 1]
    BY <1>2, <2>6
  <2>8. FlattenSeq(u) = FlattenSeq(ss) \o s
    BY <1>1, <1>2, <2>1, <2>5, <2>7
  <2> QED  BY <1>1, <1>4, <2>8 DEF u
<1> QED  BY <1>3, <1>4

LEMMA FlattenNone == FlattenSeq(<<>>) = <<>>
BY DEF FlattenSeq

LEMMA FlattenTyped ==
  ASSUME NEW D
  PROVE  \A ss \in Seq(Seq(D)) : FlattenSeq(ss) \in Seq(D)
<1> DEFINE S == {ss \in Seq(Seq(D)) : FlattenSeq(ss) \in Seq(D)}
<1>1. <<>> \in S
  <2>1. <<>> \in Seq(Seq(D)) /\ <<>> \in Seq(D)
    OBVIOUS
  <2> QED  BY <2>1, FlattenNone
<1>2. ASSUME NEW ss \in Seq(Seq(D)), NEW s \in Seq(D), ss \in S PROVE Append(ss, s) \in S
  <2>1. FlattenSeq(ss) \in Seq(D)
    BY <1>2
  <2>2. FlattenSeq(ss) \o s \in Seq(D)
    BY <2>1
  <2>3. FlattenSeq(Append(ss, s)) \in Seq(D)
    BY <2>2, FlattenGrows
  <2>4. Append(ss, s) \in Seq(Seq(D))
    OBVIOUS
  <2> QED  BY <2>3, <2>4
<1> HIDE DEF S
<1>3. \A ss \in Seq(Seq(D)) : ss \in S
  BY <1>1, <1>2, ListInSet
<1> QED  BY <1>3 DEF S

(* Each element replaced by what a function makes of it.                   *)
Mapped(f, list0) == [i \in DOMAIN list0 |-> f[list0[i]]]

Maps(f, D, B) ==
  /\ Mapped(f, <<>>) = <<>>
  /\ \A t \in Seq(D) : Mapped(f, t) \in Seq(B) /\ (Mapped(f, t) = <<>> <=> t = <<>>)
  /\ \A t \in Seq(D), c \in D : Mapped(f, Append(t, c)) = Append(Mapped(f, t), f[c])

LEMMA MappedGrows ==
  ASSUME NEW D, NEW B, NEW f \in [D -> B]
  PROVE  Maps(f, D, B)
<1>1. Mapped(f, <<>>) = <<>>
  BY DEF Mapped
<1>2. ASSUME NEW t \in Seq(D)
      PROVE  Mapped(f, t) \in Seq(B) /\ Len(Mapped(f, t)) = Len(t) /\ (Mapped(f, t) = <<>> <=> t = <<>>)
  <2>1. Len(t) \in Nat /\ DOMAIN t = 1 .. Len(t) /\ \A i \in DOMAIN t : f[t[i]] \in B
    OBVIOUS
  <2>2. Mapped(f, t) \in Seq(B) /\ Len(Mapped(f, t)) = Len(t)
    BY <2>1 DEF Mapped
  <2> QED  BY <2>2, EmptySeq
<1>3. ASSUME NEW t \in Seq(D), NEW c \in D
      PROVE  Mapped(f, Append(t, c)) = Append(Mapped(f, t), f[c])
  <2> DEFINE n == Len(t)
             u == Append(t, c)
             p == Mapped(f, t)
  <2>1. n \in Nat /\ DOMAIN t = 1 .. n /\ DOMAIN u = 1 .. n + 1 /\ u[n + 1] = c
        /\ \A i \in 1 .. n : u[i] = t[i]
    OBVIOUS
  <2>2. p \in Seq(B) /\ Len(p) = n /\ f[c] \in B
    BY <1>2
  <2>3. \A i \in 1 .. n : p[i] = f[t[i]]
    BY <2>1 DEF Mapped
  <2> HIDE DEF n, u, p
  <2>4. Append(p, f[c]) = [i \in 1 .. n + 1 |-> IF i = n + 1 THEN f[c] ELSE p[i]]
    BY <2>2, AppendIs
  <2>5. \A i \in 1 .. n + 1 : f[u[i]] = IF i = n + 1 THEN f[c] ELSE p[i]
    <3>1. \A i \in 1 .. n + 1 : i # n + 1 => i \in 1 .. n
      BY <2>1
    <3> QED  BY <2>1, <2>3, <3>1
  <2>6. Mapped(f, u) = [i \in 1 .. n + 1 |-> IF i = n + 1 THEN f[c] ELSE p[i]]
    BY <2>1, <2>5 DEF Mapped
  <2> QED  BY <2>4, <2>6 DEF u, p
<1> QED  BY <1>1, <1>2, <1>3 DEF Maps

(* A text spelled character by character.                                  *)
Coded(enc, text) == FlattenSeq(Mapped(enc, text))

Codes(enc, D, E) ==
  /\ Coded(enc, <<>>) = <<>>
  /\ \A t \in Seq(D) : Coded(enc, t) \in Seq(E)
  /\ \A t \in Seq(D), c \in D : Coded(enc, Append(t, c)) = Coded(enc, t) \o enc[c]

LEMMA CodedGrows ==
  ASSUME NEW D, NEW E, NEW enc \in [D -> Seq(E)]
  PROVE  Codes(enc, D, E)
<1>0. Maps(enc, D, Seq(E))
  BY MappedGrows
<1>1. Mapped(enc, <<>>) = <<>>
  BY <1>0 DEF Maps
<1>3. ASSUME NEW t \in Seq(D)
      PROVE  Mapped(enc, t) \in Seq(Seq(E)) /\ (Mapped(enc, t) = <<>> <=> t = <<>>)
  BY <1>0 DEF Maps
<1>4. ASSUME NEW t \in Seq(D), NEW c \in D
      PROVE  Mapped(enc, Append(t, c)) = Append(Mapped(enc, t), enc[c]) /\ enc[c] \in Seq(E)
  BY <1>0 DEF Maps
<1>5. \A t \in Seq(D) : Coded(enc, t) \in Seq(E)
  BY <1>3, FlattenTyped DEF Coded
<1>6. ASSUME NEW t \in Seq(D), NEW c \in D
      PROVE  Coded(enc, Append(t, c)) = Coded(enc, t) \o enc[c]
  <2>1. FlattenSeq(Append(Mapped(enc, t), enc[c]))
          = IF Mapped(enc, t) = <<>> THEN enc[c] ELSE FlattenSeq(Mapped(enc, t)) \o enc[c]
    BY <1>3, <1>4, FlattenGrows
  <2>2. CASE t = <<>>
    <3>1. Mapped(enc, t) = <<>> /\ Coded(enc, t) = <<>>
      BY <1>1, <2>2, FlattenNone DEF Coded
    <3>2. <<>> \o enc[c] = enc[c]
      BY <1>4
    <3> QED  BY <1>4, <2>1, <3>1, <3>2 DEF Coded
  <2>3. CASE t # <<>>
    <3>1. Mapped(enc, t) # <<>>
      BY <1>3, <2>3
    <3> QED  BY <1>4, <2>1, <3>1 DEF Coded
  <2> QED  BY <2>2, <2>3
<1> QED  BY <1>1, <1>5, <1>6, FlattenNone DEF Coded, Codes

LEMMA JoinedGrows ==
  ASSUME NEW D, Blank \in D
  PROVE  /\ Joined(<<>>) = <<>>
         /\ \A ts \in Seq(Seq(D)) : Joined(ts) \in Seq(D)
         /\ \A ts \in Seq(Seq(D)), t \in Seq(D) :
              Joined(Append(ts, t)) = IF ts = <<>> THEN t ELSE Joined(ts) \o (<<Blank>> \o t)
<1> DEFINE led(t) == <<Blank>> \o t
           pieces(ts) == [i \in DOMAIN ts |-> IF i = 1 THEN ts[i] ELSE led(ts[i])]
<1>1. \A ts : Joined(ts) = FlattenSeq(pieces(ts))
  BY DEF Joined
<1>2. pieces(<<>>) = <<>>
  OBVIOUS
<1>0. \A t \in Seq(D) : led(t) \in Seq(D)
  OBVIOUS
<1> HIDE DEF led
<1>3. ASSUME NEW ts \in Seq(Seq(D))
      PROVE  pieces(ts) \in Seq(Seq(D)) /\ (pieces(ts) = <<>> <=> ts = <<>>)
  <2>1. Len(ts) \in Nat /\ DOMAIN ts = 1 .. Len(ts) /\ \A i \in DOMAIN ts : ts[i] \in Seq(D)
    OBVIOUS
  <2>2. pieces(ts) \in Seq(Seq(D)) /\ Len(pieces(ts)) = Len(ts)
    BY <1>0, <2>1
  <2> QED  BY <2>2, EmptySeq
<1>4. ASSUME NEW ts \in Seq(Seq(D)), NEW t \in Seq(D)
      PROVE  pieces(Append(ts, t)) = Append(pieces(ts), IF ts = <<>> THEN t ELSE led(t))
  <2> DEFINE n == Len(ts)
             u == Append(ts, t)
             last == IF ts = <<>> THEN t ELSE led(t)
             piece(i) == IF i = 1 THEN ts[i] ELSE led(ts[i])
  <2>1. n \in Nat /\ DOMAIN ts = 1 .. n /\ DOMAIN u = 1 .. n + 1 /\ u[n + 1] = t
        /\ (\A i \in 1 .. n : u[i] = ts[i]) /\ (ts = <<>> <=> n = 0)
    OBVIOUS
  <2>2. pieces(ts) \in Seq(Seq(D)) /\ Len(pieces(ts)) = n
    <3>1. DOMAIN pieces(ts) = 1 .. n
      BY <2>1
    <3> HIDE DEF pieces, n
    <3>2. pieces(ts) \in Seq(Seq(D))
      BY <1>3
    <3> QED  BY <2>1, <3>1, <3>2
  <2>3. Append(pieces(ts), last) = [i \in 1 .. n + 1 |-> IF i = n + 1 THEN last ELSE pieces(ts)[i]]
    <3> DEFINE p == pieces(ts)
    <3>1. p \in Seq(Seq(D)) /\ Len(p) = n /\ last \in Seq(D)
      BY <1>0, <2>2
    <3> HIDE DEF p, last, n
    <3>2. Append(p, last) = [i \in 1 .. n + 1 |-> IF i = n + 1 THEN last ELSE p[i]]
      BY <3>1, AppendIs
    <3> QED  BY <3>2 DEF p
  <2>4. ASSUME NEW i \in 1 .. n + 1
        PROVE  (IF i = 1 THEN u[i] ELSE led(u[i])) = IF i = n + 1 THEN last ELSE pieces(ts)[i]
    <3>1. CASE i = n + 1
      <4>1. u[i] = t /\ (i = 1 <=> ts = <<>>)
        BY <2>1, <3>1
      <4> QED  BY <3>1, <4>1
    <3>2. CASE i # n + 1
      <4>1. i \in 1 .. n
        BY <2>1, <3>2
      <4>2. u[i] = ts[i] /\ pieces(ts)[i] = piece(i)
        BY <2>1, <4>1
      <4> QED  BY <3>2, <4>2
    <3> QED  BY <3>1, <3>2
  <2> HIDE DEF n, u, last
  <2>5. pieces(u) = [i \in 1 .. n + 1 |-> IF i = n + 1 THEN last ELSE pieces(ts)[i]]
    BY <2>1, <2>4
  <2> QED  BY <2>3, <2>5 DEF u, last
<1> HIDE DEF pieces
<1>5. \A ts \in Seq(Seq(D)) : Joined(ts) \in Seq(D)
  BY <1>1, <1>3, FlattenTyped
<1>6. ASSUME NEW ts \in Seq(Seq(D)), NEW t \in Seq(D)
      PROVE  Joined(Append(ts, t)) = IF ts = <<>> THEN t ELSE Joined(ts) \o led(t)
  <2> DEFINE last == IF ts = <<>> THEN t ELSE led(t)
  <2>0. last \in Seq(D)
    BY <1>0
  <2>3. pieces(Append(ts, t)) = Append(pieces(ts), last)
    BY <1>4
  <2> HIDE DEF last
  <2>1. FlattenSeq(Append(pieces(ts), last))
          = IF pieces(ts) = <<>> THEN last ELSE FlattenSeq(pieces(ts)) \o last
    BY <1>3, <2>0, FlattenGrows
  <2> QED  BY <1>1, <1>3, <2>1, <2>3 DEF last
<1> QED  BY <1>1, <1>2, <1>5, <1>6, FlattenNone DEF led

(* A line of words, each spelled by a function.                            *)
Lined(f, words) == Joined(Mapped(f, words))

MakesLines(f, A, E) ==
  /\ Lined(f, <<>>) = <<>>
  /\ \A ws \in Seq(A) : Lined(f, ws) \in Seq(E)
  /\ \A ws \in Seq(A), w \in A :
       Lined(f, Append(ws, w)) = IF ws = <<>> THEN f[w] ELSE Lined(f, ws) \o (<<Blank>> \o f[w])

LEMMA LinedGrows ==
  ASSUME NEW A, NEW E, Blank \in E, NEW f \in [A -> Seq(E)]
  PROVE  MakesLines(f, A, E)
<1>0. Maps(f, A, Seq(E))
  BY MappedGrows
<1>1. Lined(f, <<>>) = <<>>
  <2>1. Mapped(f, <<>>) = <<>>
    BY <1>0 DEF Maps
  <2>2. Joined(<<>>) = <<>>
    BY JoinedGrows
  <2> QED  BY <2>1, <2>2 DEF Lined
<1>2. ASSUME NEW ws \in Seq(A) PROVE Lined(f, ws) \in Seq(E)
  <2>1. Mapped(f, ws) \in Seq(Seq(E))
    BY <1>0 DEF Maps
  <2> QED  BY <2>1, JoinedGrows DEF Lined
<1>3. ASSUME NEW ws \in Seq(A), NEW w \in A
      PROVE  Lined(f, Append(ws, w)) = IF ws = <<>> THEN f[w] ELSE Lined(f, ws) \o (<<Blank>> \o f[w])
  <2> DEFINE p == Mapped(f, ws)
             e == f[w]
  <2>1. p \in Seq(Seq(E)) /\ (p = <<>> <=> ws = <<>>) /\ Mapped(f, Append(ws, w)) = Append(p, e)
    BY <1>0 DEF Maps
  <2>2. e \in Seq(E)
    OBVIOUS
  <2> HIDE DEF p, e
  <2>3. Joined(Append(p, e)) = IF p = <<>> THEN e ELSE Joined(p) \o (<<Blank>> \o e)
    BY <2>1, <2>2, JoinedGrows
  <2> QED  BY <2>1, <2>3 DEF p, e, Lined
<1> QED  BY <1>1, <1>2, <1>3 DEF MakesLines

-----------------------------------------------------------------------------
(* What a pass makes of a spelled text, and of a line of spelled words,    *)
(* when each piece takes it from one state to the next.                    *)

TakesTexts(r, D, enc, g) ==
  \A t \in Seq(D), c \in D : Pass(r, g[t], enc[c]) = g[Append(t, c)]

LEMMA PassCoded ==
  ASSUME NEW r, NEW D, NEW E, NEW enc \in [D -> Seq(E)], NEW g, TakesTexts(r, D, enc, g)
  PROVE  \A t \in Seq(D) : Pass(r, g[<<>>], Coded(enc, t)) = g[t]
<1>t. \A t \in Seq(D), c \in D : Pass(r, g[t], enc[c]) = g[Append(t, c)]
  BY DEF TakesTexts
<1>0. Codes(enc, D, E)
  BY CodedGrows
<1> DEFINE S == {t \in Seq(D) : Pass(r, g[<<>>], Coded(enc, t)) = g[t]}
<1>1. <<>> \in S
  <2>1. Coded(enc, <<>>) = <<>>
    BY <1>0 DEF Codes
  <2>2. Pass(r, g[<<>>], <<>>) = g[<<>>] /\ <<>> \in Seq(D)
    BY PassNone
  <2> QED  BY <2>1, <2>2
<1>2. ASSUME NEW t \in Seq(D), NEW c \in D, t \in S PROVE Append(t, c) \in S
  <2> DEFINE s == Coded(enc, t)
  <2>1. s \in Seq(E) /\ enc[c] \in Seq(E) /\ Coded(enc, Append(t, c)) = s \o enc[c]
    BY <1>0 DEF Codes
  <2>2. Pass(r, g[<<>>], s) = g[t]
    BY <1>2
  <2> HIDE DEF s
  <2>3. Pass(r, g[<<>>], s \o enc[c]) = Pass(r, Pass(r, g[<<>>], s), enc[c])
    BY <2>1, PassJoins
  <2>4. Append(t, c) \in Seq(D)
    OBVIOUS
  <2>5. Pass(r, g[t], enc[c]) = g[Append(t, c)]
    BY <1>t
  <2> QED  BY <2>1, <2>2, <2>3, <2>4, <2>5
<1> HIDE DEF S
<1>3. \A t \in Seq(D) : t \in S
  BY <1>1, <1>2, ListInSet
<1> QED  BY <1>3 DEF S

TakesLines(r, start, A, f, g) ==
  /\ \A w \in A : Pass(r, start, f[w]) = g[Append(<<>>, w)]
  /\ \A ws \in Seq(A), w \in A :
       ws # <<>> => Pass(r, Read(r, g[ws], Blank), f[w]) = g[Append(ws, w)]

LEMMA PassLined ==
  ASSUME NEW r, NEW start, NEW A, NEW E, Blank \in E, NEW f \in [A -> Seq(E)], NEW g,
         TakesLines(r, start, A, f, g)
  PROVE  \A ws \in Seq(A) : ws # <<>> => Pass(r, start, Lined(f, ws)) = g[ws]
<1>0. MakesLines(f, A, E)
  BY LinedGrows
<1> DEFINE S == {ws \in Seq(A) : ws # <<>> => Pass(r, start, Lined(f, ws)) = g[ws]}
<1>1. <<>> \in S
  OBVIOUS
<1>2. ASSUME NEW ws \in Seq(A), NEW w \in A, ws \in S PROVE Append(ws, w) \in S
  <2> SUFFICES Pass(r, start, Lined(f, Append(ws, w))) = g[Append(ws, w)]
    OBVIOUS
  <2> DEFINE s == Lined(f, ws)
             e == f[w]
             b == <<Blank>>
  <2>1. s \in Seq(E) /\ Lined(f, Append(ws, w)) = IF ws = <<>> THEN e ELSE s \o (b \o e)
    BY <1>0 DEF MakesLines
  <2>2. e \in Seq(E) /\ b \in Seq(E) /\ b \o e \in Seq(E)
    OBVIOUS
  <2>3. CASE ws = <<>>
    BY <2>1, <2>3 DEF TakesLines
  <2>4. CASE ws # <<>>
    <3>1. Pass(r, start, s) = g[ws]
      BY <1>2, <2>4
    <3>2. Pass(r, g[ws], b) = Read(r, g[ws], Blank)
      <4>1. Pass(r, g[ws], One(Blank)) = Read(r, g[ws], Blank)
        BY PassOne
      <4> QED  BY <4>1 DEF One
    <3>5. Pass(r, Read(r, g[ws], Blank), e) = g[Append(ws, w)]
      BY <2>4 DEF TakesLines
    <3> DEFINE be == b \o e
    <3> HIDE DEF s, e, b
    <3>3. Pass(r, start, s \o be) = Pass(r, Pass(r, start, s), be)
      <4>1. s \in Seq(E) /\ be \in Seq(E)
        BY <2>1, <2>2
      <4> HIDE DEF be
      <4> QED  BY <4>1, PassJoins
    <3>4. Pass(r, g[ws], b \o e) = Pass(r, Pass(r, g[ws], b), e)
      BY <2>2, PassJoins
    <3>6. Pass(r, start, s \o (b \o e)) = g[Append(ws, w)]
      BY <3>1, <3>2, <3>3, <3>4, <3>5
    <3> QED  BY <2>1, <2>4, <3>6
  <2> QED  BY <2>3, <2>4
<1> HIDE DEF S
<1>3. \A ws \in Seq(A) : ws \in S
  BY <1>1, <1>2, ListInSet
<1> QED  BY <1>3 DEF S

-----------------------------------------------------------------------------
(* The signed exec reads back.                                              *)

LEMMA MarksDiffer ==
  /\ Blank # Slash /\ Blank # Quote /\ Quote # Slash
  /\ Blank # "%" /\ Slash # "%" /\ Quote # "%" /\ "s" # Blank /\ "s" # Slash
BY Zenon DEF Blank, Slash, Quote

-----------------------------------------------------------------------------
(* The signed exec reads back as the argv it was written from.             *)

CanonicalCode(D) == [c \in D |-> IF c \in {Slash, Blank} THEN Two(Slash, c) ELSE One(c)]
CanonicalWord(D) == [w \in Seq(D) |-> Coded(CanonicalCode(D), w)]

LEMMA CodesAreTexts ==
  ASSUME NEW D
  PROVE  \A a \in D, b \in D : One(a) \in Seq(D) /\ Two(a, b) \in Seq(D)
BY DEF One, Two

LEMMA CanonicalIs ==
  ASSUME NEW D, NEW argv \in Seq(Seq(D))
  PROVE  Canonical(argv) = Lined(CanonicalWord(D), argv)
<1> DEFINE escaped(c) == IF c \in {Slash, Blank} THEN <<Slash, c>> ELSE <<c>>
           enc == CanonicalCode(D)
<1>1. ASSUME NEW w \in Seq(D)
      PROVE  Each(escaped, w) = CanonicalWord(D)[w]
  <2>1. \A i \in DOMAIN w : w[i] \in D
    OBVIOUS
  <2>2. [i \in DOMAIN w |-> escaped(w[i])] = [i \in DOMAIN w |-> enc[w[i]]]
    BY <2>1 DEF CanonicalCode, One, Two
  <2>3. Each(escaped, w) = FlattenSeq([i \in DOMAIN w |-> escaped(w[i])])
    BY DEF Each
  <2> QED  BY <2>2, <2>3 DEF Coded, Mapped, CanonicalWord
<1>2. \A i \in DOMAIN argv : argv[i] \in Seq(D)
  OBVIOUS
<1>3. [i \in DOMAIN argv |-> Each(escaped, argv[i])] = Mapped(CanonicalWord(D), argv)
  <2> HIDE DEF escaped
  <2> QED  BY <1>1, <1>2 DEF Mapped
<1>4. Canonical(argv) = Joined([i \in DOMAIN argv |-> Each(escaped, argv[i])])
  BY DEF Canonical
<1> QED  BY <1>3, <1>4 DEF Lined

CanonicalAt(words) == [words |-> words, esc |-> FALSE]

LEMMA GrowLast ==
  ASSUME NEW D, NEW ws \in Seq(Seq(D)), NEW w \in Seq(D), NEW c \in D
  PROVE  Grow(Append(ws, w), c) = Append(ws, Append(w, c))
<1> DEFINE u == Append(ws, w)
           n == Len(ws) + 1
           v == Append(w, c)
<1>1. Len(ws) \in Nat /\ u \in Seq(Seq(D)) /\ Len(u) = n /\ u[n] = w /\ DOMAIN u = 1 .. n
  OBVIOUS
<1>2. v \in Seq(D)
  OBVIOUS
<1>3. u = [i \in 1 .. n |-> IF i = n THEN w ELSE ws[i]]
  BY AppendIs
<1>4. Append(ws, v) = [i \in 1 .. n |-> IF i = n THEN v ELSE ws[i]]
  <2> HIDE DEF v
  <2> QED  BY <1>2, AppendIs
<1> HIDE DEF n, u
<1>5. Grow(u, c) = [u EXCEPT ![n] = v]
  BY <1>1 DEF Grow
<1> HIDE DEF v
<1>6. [u EXCEPT ![n] = v] = [i \in 1 .. n |-> IF i = n THEN v ELSE ws[i]]
  BY <1>3
<1> QED  BY <1>4, <1>5, <1>6 DEF u, v

LEMMA CanonicalSteps ==
  ASSUME NEW D, NEW ws \in Seq(Seq(D)), NEW w \in Seq(D), NEW c \in D
  PROVE  Pass("canonical", CanonicalAt(Append(ws, w)), CanonicalCode(D)[c])
           = CanonicalAt(Append(ws, Append(w, c)))
<1> DEFINE u == Append(ws, w)
           s == CanonicalAt(u)
           e == [words |-> u, esc |-> TRUE]
           next == CanonicalAt(Append(ws, Append(w, c)))
<1>0. Grow(u, c) = Append(ws, Append(w, c))
  BY GrowLast
<1> HIDE DEF u
<1>1. \A t, x : Read("canonical", t, x) = CanonicalStep(t, x)
  BY DEF Read
<1>2. CanonicalStep(s, Slash) = e
  BY DEF CanonicalStep, CanonicalAt
<1>3. CanonicalStep(e, c) = next
  BY <1>0 DEF CanonicalStep, CanonicalAt
<1>4. c \notin {Slash, Blank} => CanonicalStep(s, c) = next
  BY <1>0 DEF CanonicalStep, CanonicalAt
<1>6. Pass("canonical", s, CanonicalCode(D)[c]) = next
  <2> HIDE DEF s, e, next
  <2>1. CASE c \in {Slash, Blank}
    <3>1. CanonicalCode(D)[c] = Two(Slash, c)
      BY <2>1 DEF CanonicalCode
    <3> QED  BY <1>1, <1>2, <1>3, <3>1, PassTwo
  <2>2. CASE c \notin {Slash, Blank}
    <3>1. CanonicalCode(D)[c] = One(c)
      BY <2>2 DEF CanonicalCode
    <3> QED  BY <1>1, <1>4, <2>2, <3>1, PassOne
  <2> QED  BY <2>1, <2>2
<1> QED  BY <1>6 DEF u

LEMMA CanonicalEnds ==
  ASSUME NEW ws
  PROVE  Read("canonical", CanonicalAt(ws), Blank) = CanonicalAt(Append(ws, <<>>))
BY MarksDiffer DEF Read, CanonicalStep, CanonicalAt

LEMMA CanonicalBack ==
  ASSUME NEW D, Slash \in D, Blank \in D, NEW argv \in Seq(Seq(D)), argv # <<>>
  PROVE  /\ Canonical(argv) \in Seq(D)
         /\ SplitCanonical(Canonical(argv)) = argv
<1> DEFINE enc == CanonicalCode(D)
           f == CanonicalWord(D)
           g == [ws \in Seq(Seq(D)) |-> CanonicalAt(ws)]
           start == [words |-> <<<<>>>>, esc |-> FALSE]
<1>1. enc \in [D -> Seq(D)]
  BY CodesAreTexts DEF CanonicalCode
<1>2. f \in [Seq(D) -> Seq(D)]
  <2>1. Codes(enc, D, D)
    BY <1>1, CodedGrows
  <2> QED  BY <2>1 DEF Codes, CanonicalWord
<1>3. ASSUME NEW ws \in Seq(Seq(D)), NEW w \in Seq(D)
      PROVE  Pass("canonical", CanonicalAt(Append(ws, <<>>)), f[w]) = CanonicalAt(Append(ws, w))
  <2> DEFINE h == [t \in Seq(D) |-> CanonicalAt(Append(ws, t))]
  <2>1. ASSUME NEW t \in Seq(D), NEW c \in D
        PROVE  Pass("canonical", h[t], enc[c]) = h[Append(t, c)]
    <3>1. Append(t, c) \in Seq(D)
      OBVIOUS
    <3>2. h[t] = CanonicalAt(Append(ws, t)) /\ h[Append(t, c)] = CanonicalAt(Append(ws, Append(t, c)))
      BY <3>1
    <3> HIDE DEF h
    <3> QED  BY <3>2, CanonicalSteps
  <2>2. h[<<>>] = CanonicalAt(Append(ws, <<>>)) /\ h[w] = CanonicalAt(Append(ws, w))
    <3>1. <<>> \in Seq(D)
      OBVIOUS
    <3> QED  BY <3>1
  <2>5. TakesTexts("canonical", D, enc, h)
    BY <2>1 DEF TakesTexts
  <2> HIDE DEF h, enc
  <2>3. \A t \in Seq(D) : Pass("canonical", h[<<>>], Coded(enc, t)) = h[t]
    BY <1>1, <2>5, PassCoded
  <2>4. f[w] = Coded(enc, w)
    BY DEF CanonicalWord, enc
  <2> QED  BY <2>2, <2>3, <2>4
<1>4. \A w \in Seq(D) : Pass("canonical", start, f[w]) = g[Append(<<>>, w)]
  <2>1. <<>> \in Seq(Seq(D)) /\ Append(<<>>, <<>>) = <<<<>>>>
    OBVIOUS
  <2>2. start = CanonicalAt(Append(<<>>, <<>>))
    BY <2>1 DEF CanonicalAt
  <2>3. ASSUME NEW w \in Seq(D) PROVE Pass("canonical", start, f[w]) = g[Append(<<>>, w)]
    <3>1. Pass("canonical", CanonicalAt(Append(<<>>, <<>>)), f[w]) = CanonicalAt(Append(<<>>, w))
      BY <1>3, <2>1
    <3>2. Append(<<>>, w) \in Seq(Seq(D))
      BY <2>1
    <3> QED  BY <2>2, <3>1, <3>2
  <2> QED  BY <2>3
<1>5. ASSUME NEW ws \in Seq(Seq(D)), NEW w \in Seq(D), ws # <<>>
      PROVE  Pass("canonical", Read("canonical", g[ws], Blank), f[w]) = g[Append(ws, w)]
  <2>1. PICK vs \in Seq(Seq(D)), v \in Seq(D) : ws = Append(vs, v)
    BY <1>5, LastOut
  <2>2. Read("canonical", CanonicalAt(ws), Blank) = CanonicalAt(Append(ws, <<>>))
    BY <2>1, CanonicalEnds
  <2>3. g[ws] = CanonicalAt(ws) /\ g[Append(ws, w)] = CanonicalAt(Append(ws, w))
    <3>1. Append(ws, w) \in Seq(Seq(D))
      OBVIOUS
    <3> QED  BY <3>1
  <2> HIDE DEF g, f
  <2> QED  BY <1>3, <2>2, <2>3
<1> HIDE DEF f, g, start
<1>t. TakesLines("canonical", start, Seq(D), f, g)
  BY <1>4, <1>5 DEF TakesLines
<1>6. Pass("canonical", start, Lined(f, argv)) = g[argv]
  BY <1>2, <1>t, PassLined
<1>7. Lined(f, argv) \in Seq(D)
  <2>1. MakesLines(f, Seq(D), D)
    BY <1>2, LinedGrows
  <2> QED  BY <2>1 DEF MakesLines
<1>8. Canonical(argv) = Lined(f, argv)
  BY CanonicalIs DEF f
<1>9. g[argv].words = argv
  BY DEF g, CanonicalAt
<1> QED  BY <1>6, <1>7, <1>8, <1>9 DEF SplitCanonical, start

-----------------------------------------------------------------------------
(* The file format's own escapes.                                           *)

(* A value of a desktop file reads back as the text it was written from.   *)

FileCode(D) == [c \in D |-> IF c = Slash THEN Two(Slash, Slash) ELSE One(c)]

ValueAt(out) == [out |-> out, esc |-> FALSE]

LEMMA FileEscapeIs ==
  ASSUME NEW D, NEW w \in Seq(D)
  PROVE  FileEscape(w) = Coded(FileCode(D), w)
<1> DEFINE doubled(c) == IF c = Slash THEN <<c, c>> ELSE <<c>>
<1>1. \A i \in DOMAIN w : w[i] \in D
  OBVIOUS
<1>2. [i \in DOMAIN w |-> doubled(w[i])] = [i \in DOMAIN w |-> FileCode(D)[w[i]]]
  BY <1>1 DEF FileCode, One, Two
<1>3. FileEscape(w) = FlattenSeq([i \in DOMAIN w |-> doubled(w[i])])
  BY DEF FileEscape, Each
<1> QED  BY <1>2, <1>3 DEF Coded, Mapped

LEMMA ValueSteps ==
  ASSUME NEW D, NEW w, NEW c \in D
  PROVE  Pass("value", ValueAt(w), FileCode(D)[c]) = ValueAt(Append(w, c))
<1> DEFINE s == ValueAt(w)
           e == [out |-> w, esc |-> TRUE]
           next == ValueAt(Append(w, c))
<1>1. \A t, x : Read("value", t, x) = ValueStep(t, x)
  BY DEF Read
<1>2. ValueStep(s, Slash) = e
  BY DEF ValueStep, ValueAt
<1>3. c = Slash => ValueStep(e, Slash) = next
  BY MarksDiffer DEF ValueStep, ValueAt
<1>4. c # Slash => ValueStep(s, c) = next
  BY DEF ValueStep, ValueAt
<1> HIDE DEF s, e, next
<1>5. CASE c = Slash
  <2>1. FileCode(D)[c] = Two(Slash, Slash)
    BY <1>5 DEF FileCode
  <2> QED  BY <1>1, <1>2, <1>3, <1>5, <2>1, PassTwo DEF s, next
<1>6. CASE c # Slash
  <2>1. FileCode(D)[c] = One(c)
    BY <1>6 DEF FileCode
  <2> QED  BY <1>1, <1>4, <1>6, <2>1, PassOne DEF s, next
<1> QED  BY <1>5, <1>6

LEMMA FileCodeTyped ==
  ASSUME NEW D, Slash \in D
  PROVE  FileCode(D) \in [D -> Seq(D)]
BY CodesAreTexts DEF FileCode

LEMMA FileBack ==
  ASSUME NEW D, Slash \in D, NEW w \in Seq(D)
  PROVE  /\ FileEscape(w) \in Seq(D)
         /\ FileUnescape(FileEscape(w)) = w
<1> DEFINE enc == FileCode(D)
           g == [t \in Seq(D) |-> ValueAt(t)]
<1>1. enc \in [D -> Seq(D)]
  BY FileCodeTyped
<1>2. TakesTexts("value", D, enc, g)
  <2>1. ASSUME NEW t \in Seq(D), NEW c \in D
        PROVE  Pass("value", g[t], enc[c]) = g[Append(t, c)]
    <3>1. Append(t, c) \in Seq(D)
      OBVIOUS
    <3>2. g[t] = ValueAt(t) /\ g[Append(t, c)] = ValueAt(Append(t, c))
      BY <3>1
    <3> HIDE DEF g
    <3> QED  BY <3>2, ValueSteps
  <2> QED  BY <2>1 DEF TakesTexts
<1>3. g[<<>>] = ValueAt(<<>>) /\ g[w] = ValueAt(w)
  <2>1. <<>> \in Seq(D)
    OBVIOUS
  <2> QED  BY <2>1
<1> HIDE DEF g, enc
<1>4. \A t \in Seq(D) : Pass("value", g[<<>>], Coded(enc, t)) = g[t]
  BY <1>1, <1>2, PassCoded
<1>5. FileEscape(w) = Coded(enc, w)
  BY FileEscapeIs DEF enc
<1>6. Coded(enc, w) \in Seq(D)
  <2>1. Codes(enc, D, D)
    BY <1>1, CodedGrows
  <2> QED  BY <2>1 DEF Codes
<1> QED  BY <1>3, <1>4, <1>5, <1>6 DEF FileUnescape, ValueAt

LEMMA ReadStringIs ==
  ASSUME NEW D, NEW v \in Seq(D), v = <<>> \/ v[1] # Blank
  PROVE  ReadString(v) = FileUnescape(v)
<1> DEFINE I == {i \in 1 .. Len(v) : v[i] # Blank}
           first == IF I # {} THEN Min(I) ELSE 0
<1>1. ReadString(v) = IF first = 0 THEN <<>> ELSE FileUnescape(SubSeq(v, first, Len(v)))
  BY DEF ReadString, SelectInSeq
<1>2. CASE v = <<>>
  <2>1. I = {}
    BY <1>2
  <2>2. FileUnescape(<<>>) = <<>>
    BY PassNone DEF FileUnescape
  <2> QED  BY <1>1, <1>2, <2>1, <2>2
<1>3. CASE v # <<>>
  <2>1. Len(v) \in Nat \ {0} /\ 1 \in 1 .. Len(v)
    BY <1>3, EmptySeq
  <2>2. 1 \in I /\ I \subseteq Nat /\ \A i \in I : 1 <= i
    BY <1>3, <2>1
  <2> HIDE DEF I
  <2>3. Min(I) = 1
    <3>1. \A x \in I : (\A y \in I : x =< y) => x = 1
      BY <2>2
    <3> QED  BY <2>2, <3>1 DEF Min
  <2>4. first = 1
    BY <2>2, <2>3
  <2>5. SubSeq(v, 1, Len(v)) = v
    BY TextWhole
  <2> HIDE DEF first
  <2>6. SubSeq(v, first, Len(v)) = v /\ first # 0
    BY <2>4, <2>5
  <2>7. ReadString(v) = IF first = 0 THEN <<>> ELSE FileUnescape(SubSeq(v, first, Len(v)))
    BY <1>1
  <2> QED  BY <2>6, <2>7
<1> QED  BY <1>2, <1>3

Joins(a, b, S) ==
  /\ Len(a) \in Nat /\ Len(b) \in Nat
  /\ a \o b \in Seq(S) /\ Len(a \o b) = Len(a) + Len(b)
  /\ \A i \in 1 .. Len(a) : (a \o b)[i] = a[i]
  /\ \A i \in 1 .. Len(b) : (a \o b)[i + Len(a)] = b[i]

LEMMA JoinIs ==
  ASSUME NEW S, NEW a \in Seq(S), NEW b \in Seq(S)
  PROVE  Joins(a, b, S)
BY DEF Joins

(* The first character of a text, and the rest.                            *)
LEMMA HeadOut ==
  ASSUME NEW S, NEW s \in Seq(S), s # <<>>
  PROVE  s[1] \in S /\ Tail(s) \in Seq(S) /\ s = One(s[1]) \o Tail(s)
<1>1. Len(s) \in Nat \ {0} /\ s[1] \in S /\ Tail(s) \in Seq(S) /\ Len(Tail(s)) = Len(s) - 1
      /\ \A i \in 1 .. Len(s) - 1 : Tail(s)[i] = s[i + 1]
  BY EmptySeq
<1>2. One(s[1]) \in Seq(S) /\ Len(One(s[1])) = 1 /\ One(s[1])[1] = s[1]
  BY <1>1 DEF One
<1> DEFINE u == One(s[1]) \o Tail(s)
           n == Len(s)
<1>3. u \in Seq(S) /\ Len(u) = n /\ u[1] = s[1] /\ \A i \in 2 .. n : u[i] = Tail(s)[i - 1]
  <2> DEFINE a == One(s[1])
             b == Tail(s)
  <2>1. a \in Seq(S) /\ b \in Seq(S) /\ Len(a) = 1 /\ Len(b) = n - 1 /\ a[1] = s[1] /\ n \in Nat
    BY <1>1, <1>2
  <2> HIDE DEF a, b, n
  <2>0. Joins(a, b, S)
    BY <2>1, JoinIs
  <2>2. a \o b \in Seq(S) /\ Len(a \o b) = Len(a) + Len(b) /\ (a \o b)[1] = a[1]
    BY <2>0, <2>1 DEF Joins
  <2>3. \A i \in 1 .. Len(b) : (a \o b)[i + Len(a)] = b[i]
    BY <2>0 DEF Joins
  <2>4. ASSUME NEW i \in 2 .. n PROVE (a \o b)[i] = b[i - 1]
    <3>1. i - 1 \in 1 .. Len(b) /\ (i - 1) + Len(a) = i
      BY <2>1
    <3> HIDE DEF u
    <3> QED  BY <2>3, <3>1
  <2>5. Len(a \o b) = n
    BY <2>1, <2>2
  <2> QED  BY <2>1, <2>2, <2>4, <2>5 DEF a, b
<1>4. \A i \in 2 .. n : i - 1 \in 1 .. n - 1 /\ (i - 1) + 1 = i
  BY <1>1
<1>5. \A i \in 1 .. n : u[i] = s[i]
  <2> HIDE DEF u, n
  <2>1. \A i \in 1 .. n : i # 1 => i \in 2 .. n
    BY <1>1 DEF n
  <2> QED  BY <1>1, <1>3, <1>4, <2>1 DEF n
<1> HIDE DEF u
<1>6. u = s
  BY <1>3, <1>5
<1> QED  BY <1>1, <1>6 DEF u

LEMMA StringBack ==
  ASSUME NEW D, Slash \in D, "s" \in D, NEW w \in Seq(D)
  PROVE  ReadString(StringValue(w)) = w
<1> DEFINE e == FileEscape(w)
<1>1. e \in Seq(D) /\ FileUnescape(e) = w
  BY FileBack
<1>0. StringValue(w) = IF e # <<>> /\ e[1] = Blank THEN <<Slash, "s">> \o Tail(e) ELSE e
  BY DEF StringValue
<1> HIDE DEF e
<1>2. CASE e = <<>> \/ e[1] # Blank
  BY <1>0, <1>1, <1>2, ReadStringIs
<1>3. CASE e # <<>> /\ e[1] = Blank
  <2> DEFINE v == Two(Slash, "s") \o Tail(e)
             s0 == [out |-> <<>>, esc |-> FALSE]
             s1 == [out |-> Append(<<>>, Blank), esc |-> FALSE]
  <2>1. StringValue(w) = v
    BY <1>0, <1>3 DEF Two
  <2>2. Tail(e) \in Seq(D) /\ e = One(Blank) \o Tail(e) /\ Blank \in D
    BY <1>1, <1>3, HeadOut
  <2>3. Two(Slash, "s") \in Seq(D) /\ One(Blank) \in Seq(D)
    BY <2>2, CodesAreTexts
  <2>4. v \in Seq(D) /\ v # <<>> /\ v[1] = Slash
    <3>1. Two(Slash, "s")[1] = Slash /\ Len(Two(Slash, "s")) = 2
      BY DEF Two
    <3> DEFINE a == Two(Slash, "s")
               b == Tail(e)
    <3>2. a \in Seq(D) /\ b \in Seq(D) /\ Len(a) = 2 /\ a[1] = Slash
      BY <2>2, <2>3, <3>1
    <3> HIDE DEF a, b
    <3>3. a \o b \in Seq(D) /\ Len(a \o b) = 2 + Len(b) /\ (a \o b)[1] = a[1] /\ Len(b) \in Nat
      <4>1. Joins(a, b, D)
        BY <3>2, JoinIs
      <4> QED  BY <3>2, <4>1 DEF Joins
    <3>4. a \o b # <<>>
      BY <3>3
    <3> QED  BY <3>2, <3>3, <3>4 DEF a, b
  <2>5. ReadString(v) = FileUnescape(v)
    BY <2>4, MarksDiffer, ReadStringIs
  <2>6. Pass("value", s0, Two(Slash, "s")) = s1
    <3>1. \A t, x : Read("value", t, x) = ValueStep(t, x)
      BY DEF Read
    <3>2. ValueStep(s0, Slash) = [out |-> <<>>, esc |-> TRUE]
      BY DEF ValueStep
    <3>3. ValueStep([out |-> <<>>, esc |-> TRUE], "s") = s1
      BY DEF ValueStep
    <3> DEFINE x == "s"
    <3>4. Read("value", s0, Slash) = [out |-> <<>>, esc |-> TRUE] /\ Read("value", [out |-> <<>>, esc |-> TRUE], x) = s1
      BY <3>1, <3>2, <3>3
    <3> HIDE DEF s0, s1, x
    <3>5. Pass("value", s0, Two(Slash, x)) = Read("value", Read("value", s0, Slash), x)
      BY PassTwo
    <3> QED  BY <3>4, <3>5 DEF x
  <2>7. Pass("value", s0, One(Blank)) = s1
    <3>1. \A t, x : Read("value", t, x) = ValueStep(t, x)
      BY DEF Read
    <3>2. ValueStep(s0, Blank) = s1
      BY MarksDiffer DEF ValueStep
    <3> HIDE DEF s0, s1
    <3> QED  BY <3>1, <3>2, PassOne
  <2>8. FileUnescape(v) = Pass("value", s0, v).out /\ FileUnescape(e) = Pass("value", s0, e).out
    BY DEF FileUnescape
  <2>9. Pass("value", s0, v) = Pass("value", s1, Tail(e))
    <3> DEFINE a == Two(Slash, "s")
               b == Tail(e)
    <3>1. a \in Seq(D) /\ b \in Seq(D) /\ Pass("value", s0, a) = s1
      BY <2>2, <2>3, <2>6
    <3> HIDE DEF s0, s1, a, b
    <3>2. Pass("value", s0, a \o b) = Pass("value", Pass("value", s0, a), b)
      BY <3>1, PassJoins
    <3> QED  BY <3>1, <3>2 DEF a, b
  <2>10. Pass("value", s0, e) = Pass("value", s1, Tail(e))
    <3> DEFINE a == One(Blank)
               b == Tail(e)
    <3>1. a \in Seq(D) /\ b \in Seq(D) /\ Pass("value", s0, a) = s1 /\ e = a \o b
      BY <2>2, <2>3, <2>7
    <3> HIDE DEF s0, s1, a, b
    <3>2. Pass("value", s0, a \o b) = Pass("value", Pass("value", s0, a), b)
      BY <3>1, PassJoins
    <3> QED  BY <3>1, <3>2 DEF b
  <2> HIDE DEF v, s0
  <2> QED  BY <1>1, <2>1, <2>5, <2>8, <2>9, <2>10
<1> QED  BY <1>2, <1>3

-----------------------------------------------------------------------------
(* The Exec line: what a reader in it does with a character.                *)

(* An Exec line reads back as its words, percent signs doubled.            *)

Percent == "%"

LEMMA PercentDiffers == Percent # Blank /\ Percent # Slash /\ Percent # Quote /\ Percent \notin InQuoteEscapes
BY Zenon DEF Percent, Blank, Slash, Quote, InQuoteEscapes

SpelledCode(D) ==
  [c \in D |-> IF c \in InQuoteEscapes THEN Two(Slash, c) ELSE IF c = Percent THEN Two(c, c) ELSE One(c)]
PercentCode(D) == [c \in D |-> IF c = Percent THEN Two(c, c) ELSE One(c)]
Doubled(D, w) == Coded(PercentCode(D), w)

NeedsQuotes(w) == w = <<>> \/ \E i \in DOMAIN w : w[i] \in Reserved

LEMMA SpelledTyped ==
  ASSUME NEW D, Slash \in D
  PROVE  SpelledCode(D) \in [D -> Seq(D)] /\ PercentCode(D) \in [D -> Seq(D)]
BY CodesAreTexts DEF SpelledCode, PercentCode

LEMMA ExecArgumentIs ==
  ASSUME NEW D, NEW w \in Seq(D)
  PROVE  ExecArgument(w) = IF NeedsQuotes(w) THEN One(Quote) \o Coded(SpelledCode(D), w) \o One(Quote)
                           ELSE Coded(SpelledCode(D), w)
<1> DEFINE spelled(c) == IF c \in InQuoteEscapes THEN <<Slash, c>>
                         ELSE IF c = "%" THEN <<c, c>> ELSE <<c>>
<1>1. \A i \in DOMAIN w : w[i] \in D
  OBVIOUS
<1>2. [i \in DOMAIN w |-> spelled(w[i])] = [i \in DOMAIN w |-> SpelledCode(D)[w[i]]]
  BY <1>1 DEF SpelledCode, One, Two, Percent
<1>3. Each(spelled, w) = Coded(SpelledCode(D), w)
  <2>1. Each(spelled, w) = FlattenSeq([i \in DOMAIN w |-> spelled(w[i])])
    BY DEF Each
  <2> QED  BY <1>2, <2>1 DEF Coded, Mapped
<1>4. ExecArgument(w) = IF NeedsQuotes(w) THEN <<Quote>> \o Each(spelled, w) \o <<Quote>> ELSE Each(spelled, w)
  BY DEF ExecArgument, NeedsQuotes
<1> HIDE DEF spelled
<1> QED  BY <1>3, <1>4 DEF One

ExecAt(words, have, quote) ==
  [words |-> words, have |-> have, quote |-> quote, esc |-> FALSE, ok |-> TRUE]
ExecBehind(words, quote) ==
  [words |-> words, have |-> TRUE, quote |-> quote, esc |-> TRUE, ok |-> TRUE]

LEMMA ExecReads == \A s, c : Read("exec", s, c) = ExecStep(s, c)
BY DEF Read

(* A state with a word open.                                               *)
ExecIn(words, quote, esc) ==
  [words |-> words, have |-> TRUE, quote |-> quote, esc |-> esc, ok |-> TRUE]

LEMMA ExecPutsIn ==
  ASSUME NEW u, NEW q, NEW e, NEW c
  PROVE  Put(ExecIn(u, q, e), c) = ExecIn(Grow(u, c), q, FALSE)
<1> DEFINE s == ExecIn(u, q, e)
           v == Grow(u, c)
<1>1. s.have = TRUE /\ s.words = u
  BY DEF ExecIn
<1>2. [s EXCEPT !.words = v, !.esc = FALSE] = ExecIn(v, q, FALSE)
  <2> DEFINE yes == TRUE
             no == FALSE
  <2>1. s = [words |-> u, have |-> yes, quote |-> q, esc |-> e, ok |-> yes]
        /\ ExecIn(v, q, no) = [words |-> v, have |-> yes, quote |-> q, esc |-> no, ok |-> yes]
    BY DEF ExecIn
  <2> HIDE DEF v, yes, no
  <2> DEFINE t == [s EXCEPT !.words = v]
  <2> HIDE DEF s
  <2>3. t = [words |-> v, have |-> yes, quote |-> q, esc |-> e, ok |-> yes]
    BY <2>1
  <2>4. [s EXCEPT !.words = v, !.esc = no] = [t EXCEPT !.esc = no]
    BY <2>1
  <2> HIDE DEF t
  <2>5. [t EXCEPT !.esc = no] = [words |-> v, have |-> yes, quote |-> q, esc |-> no, ok |-> yes]
    BY <2>3
  <2>2. [s EXCEPT !.words = v, !.esc = no] = ExecIn(v, q, no)
    BY <2>1, <2>4, <2>5
  <2> QED  BY <2>2 DEF no
<1> HIDE DEF s
<1>3. Open(s) = s
  BY <1>1 DEF Open
<1>4. Put(s, c) = [s EXCEPT !.words = v, !.esc = FALSE]
  BY <1>1, <1>3 DEF Put
<1> QED  BY <1>2, <1>4 DEF s

(* In a word, in quotes or not.                                            *)
InWord(words, quote) == ExecAt(words, TRUE, quote)

LEMMA ExecGrows ==
  ASSUME NEW D, NEW ws \in Seq(Seq(D)), NEW w \in Seq(D), NEW c \in D, NEW q
  PROVE  /\ Put(InWord(Append(ws, w), q), c) = InWord(Append(ws, Append(w, c)), q)
         /\ Put(ExecBehind(Append(ws, w), q), c) = InWord(Append(ws, Append(w, c)), q)
<1> DEFINE u == Append(ws, w)
           v == Append(ws, Append(w, c))
<1>1. Grow(u, c) = v
  BY GrowLast
<1> HIDE DEF u, v
<1>2. InWord(u, q) = ExecIn(u, q, FALSE) /\ ExecBehind(u, q) = ExecIn(u, q, TRUE)
      /\ InWord(v, q) = ExecIn(v, q, FALSE)
  BY DEF InWord, ExecAt, ExecBehind, ExecIn
<1>3. Put(ExecIn(u, q, FALSE), c) = ExecIn(v, q, FALSE) /\ Put(ExecIn(u, q, TRUE), c) = ExecIn(v, q, FALSE)
  BY <1>1, ExecPutsIn
<1> QED  BY <1>2, <1>3 DEF u, v

LEMMA ExecOpens ==
  ASSUME NEW ws, NEW c
  PROVE  Put(ExecAt(ws, FALSE, FALSE), c) = Put(ExecAt(Append(ws, <<>>), TRUE, FALSE), c)
<1> DEFINE u == Append(ws, <<>>)
           s == ExecAt(ws, FALSE, FALSE)
           t == ExecAt(u, TRUE, FALSE)
<1>1. s.have = FALSE /\ s.words = ws /\ t.have = TRUE
  BY DEF ExecAt
<1>2. [s EXCEPT !.words = u, !.have = TRUE] = t
  <2> DEFINE yes == TRUE
             no == FALSE
  <2>1. s = [words |-> ws, have |-> no, quote |-> no, esc |-> no, ok |-> yes]
        /\ t = [words |-> u, have |-> yes, quote |-> no, esc |-> no, ok |-> yes]
    BY DEF ExecAt
  <2> HIDE DEF u, yes, no, s, t
  <2> DEFINE m == [s EXCEPT !.words = u]
  <2>3. m = [words |-> u, have |-> no, quote |-> no, esc |-> no, ok |-> yes]
    BY <2>1
  <2>4. [s EXCEPT !.words = u, !.have = yes] = [m EXCEPT !.have = yes]
    BY <2>1
  <2> HIDE DEF m
  <2>5. [m EXCEPT !.have = yes] = [words |-> u, have |-> yes, quote |-> no, esc |-> no, ok |-> yes]
    BY <2>3
  <2>2. [s EXCEPT !.words = u, !.have = yes] = t
    BY <2>1, <2>4, <2>5
  <2> QED  BY <2>2 DEF yes
<1> HIDE DEF s, t
<1>3. Open(s) = t /\ Open(t) = t
  BY <1>1, <1>2 DEF Open
<1>4. Put(s, c) = Put(t, c)
  BY <1>3 DEF Put
<1> QED  BY <1>4 DEF s, t

LEMMA ExecStepsAre ==
  ASSUME NEW ws, NEW have \in BOOLEAN, NEW q \in BOOLEAN, NEW c
  PROVE  /\ ExecStep(ExecAt(ws, TRUE, TRUE), Slash) = ExecBehind(ws, TRUE)
         /\ c \in InQuoteEscapes => ExecStep(ExecBehind(ws, TRUE), c) = Put(ExecBehind(ws, TRUE), c)
         /\ (c # Quote /\ c # Slash /\ (q \/ c # Blank)) =>
              ExecStep(ExecAt(ws, have, q), c) = Put(ExecAt(ws, have, q), c)
         /\ ExecStep(ExecAt(ws, TRUE, FALSE), Blank) = ExecAt(ws, FALSE, FALSE)
         /\ ExecStep(ExecAt(ws, FALSE, FALSE), Quote) = ExecAt(Append(ws, <<>>), TRUE, TRUE)
         /\ ExecStep(ExecAt(ws, TRUE, TRUE), Quote) = ExecAt(ws, TRUE, FALSE)
<1>1. ExecStep(ExecAt(ws, TRUE, TRUE), Slash) = ExecBehind(ws, TRUE)
  BY MarksDiffer DEF ExecStep, ExecAt, ExecBehind
<1>2. ASSUME c \in InQuoteEscapes
      PROVE  ExecStep(ExecBehind(ws, TRUE), c) = Put(ExecBehind(ws, TRUE), c)
  <2> DEFINE p == Put(ExecBehind(ws, TRUE), c)
             u == Grow(ws, c)
  <2>0. ExecBehind(ws, TRUE) = ExecIn(ws, TRUE, TRUE)
    BY DEF ExecBehind, ExecIn
  <2>1. p = [words |-> u, have |-> TRUE, quote |-> TRUE, esc |-> FALSE, ok |-> TRUE]
    BY <2>0, ExecPutsIn DEF ExecIn
  <2>2. ExecStep(ExecBehind(ws, TRUE), c) = [p EXCEPT !.ok = TRUE]
    BY <1>2 DEF ExecStep, ExecBehind
  <2> DEFINE yes == TRUE
             no == FALSE
  <2>3. p = [words |-> u, have |-> yes, quote |-> yes, esc |-> no, ok |-> yes]
    BY <2>1
  <2> HIDE DEF p, u, yes, no
  <2>4. [p EXCEPT !.ok = yes] = p
    BY <2>3
  <2> QED  BY <2>2, <2>4 DEF p, yes
<1>3. ASSUME c # Quote /\ c # Slash /\ (q \/ c # Blank)
      PROVE  ExecStep(ExecAt(ws, have, q), c) = Put(ExecAt(ws, have, q), c)
  BY <1>3 DEF ExecStep, ExecAt
<1>4. ExecStep(ExecAt(ws, TRUE, FALSE), Blank) = ExecAt(ws, FALSE, FALSE)
  BY MarksDiffer DEF ExecStep, ExecAt
<1>5. ExecStep(ExecAt(ws, FALSE, FALSE), Quote) = ExecAt(Append(ws, <<>>), TRUE, TRUE)
  BY DEF ExecStep, ExecAt, Open
<1>6. ExecStep(ExecAt(ws, TRUE, TRUE), Quote) = ExecAt(ws, TRUE, FALSE)
  BY DEF ExecStep, ExecAt, Open
<1> QED  BY <1>1, <1>2, <1>3, <1>4, <1>5, <1>6

LEMMA JoinCodes ==
  ASSUME NEW D, NEW x \in Seq(D), NEW c \in D
  PROVE  /\ x \o One(c) = Append(x, c) /\ x \o Two(c, c) = Append(Append(x, c), c)
         /\ Append(x, c) \in Seq(D)
<1>1. Append(x, c) \in Seq(D) /\ x \o One(c) = Append(x, c)
  BY AppendIsConcat DEF One
<1>2. One(c) \in Seq(D) /\ Two(c, c) = Append(One(c), c)
  BY DEF One, Two
<1>3. x \o Append(One(c), c) = Append(x \o One(c), c)
  BY <1>2, JoinGrows
<1> QED  BY <1>1, <1>2, <1>3

(* One character of a word: in quotes any, outside only one that needs     *)
(* none.                                                                   *)
LEMMA ExecPiece ==
  ASSUME NEW D, NEW ws \in Seq(Seq(D)), NEW x \in Seq(D), NEW c \in D, NEW q \in BOOLEAN,
         q \/ c \notin Reserved
  PROVE  Pass("exec", ExecAt(Append(ws, x), TRUE, q), SpelledCode(D)[c])
           = ExecAt(Append(ws, x \o PercentCode(D)[c]), TRUE, q)
<1> DEFINE s(y) == ExecAt(Append(ws, y), TRUE, q)
<1>1. InQuoteEscapes \subseteq Reserved /\ Blank \in Reserved /\ Quote \in InQuoteEscapes /\ Slash \in InQuoteEscapes
  BY DEF Reserved, Blanks, InQuoteEscapes
<1>2. ASSUME NEW y \in Seq(D), c # Quote, c # Slash
      PROVE  Read("exec", s(y), c) = s(Append(y, c))
  <2>1. q \/ c # Blank
    BY <1>1
  <2>2. ExecStep(s(y), c) = Put(s(y), c)
    BY <1>2, <2>1, ExecStepsAre
  <2>3. Put(s(y), c) = s(Append(y, c))
    <3>1. Put(InWord(Append(ws, y), q), c) = InWord(Append(ws, Append(y, c)), q)
      BY ExecGrows
    <3> QED  BY <3>1 DEF InWord
  <2> HIDE DEF s
  <2> QED  BY <2>2, <2>3, ExecReads
<1>3. CASE c \in InQuoteEscapes
  <2>1. q = TRUE /\ SpelledCode(D)[c] = Two(Slash, c) /\ PercentCode(D)[c] = One(c)
    BY <1>1, <1>3, PercentDiffers DEF SpelledCode, PercentCode
  <2> DEFINE b == ExecBehind(Append(ws, x), TRUE)
  <2>2. ExecStep(s(x), Slash) = b
    BY <2>1, ExecStepsAre
  <2>3. ExecStep(b, c) = Put(b, c)
    BY <1>3, ExecStepsAre
  <2>4. Put(b, c) = s(Append(x, c))
    <3>1. Put(ExecBehind(Append(ws, x), q), c) = InWord(Append(ws, Append(x, c)), q)
      BY ExecGrows
    <3> QED  BY <2>1, <3>1 DEF InWord
  <2>5. x \o One(c) = Append(x, c)
    BY JoinCodes
  <2> HIDE DEF s, b
  <2>6. Pass("exec", s(x), Two(Slash, c)) = s(Append(x, c))
    BY <2>2, <2>3, <2>4, ExecReads, PassTwo
  <2> QED  BY <2>1, <2>5, <2>6 DEF s
<1>4. CASE c = Percent
  <2>1. SpelledCode(D)[c] = Two(c, c) /\ PercentCode(D)[c] = Two(c, c) /\ c # Quote /\ c # Slash
    BY <1>4, PercentDiffers DEF SpelledCode, PercentCode
  <2>2. x \o Two(c, c) = Append(Append(x, c), c) /\ Append(x, c) \in Seq(D)
    BY JoinCodes
  <2>3. Read("exec", s(x), c) = s(Append(x, c)) /\ Read("exec", s(Append(x, c)), c) = s(Append(Append(x, c), c))
    BY <1>2, <2>1, <2>2
  <2> HIDE DEF s
  <2>4. Pass("exec", s(x), Two(c, c)) = s(Append(Append(x, c), c))
    BY <2>3, PassTwo
  <2> QED  BY <2>1, <2>2, <2>4 DEF s
<1>5. CASE c \notin InQuoteEscapes /\ c # Percent
  <2>1. SpelledCode(D)[c] = One(c) /\ PercentCode(D)[c] = One(c) /\ c # Quote /\ c # Slash
    BY <1>1, <1>5 DEF SpelledCode, PercentCode
  <2>2. x \o One(c) = Append(x, c)
    BY JoinCodes
  <2>3. Read("exec", s(x), c) = s(Append(x, c))
    BY <1>2, <2>1
  <2> HIDE DEF s
  <2>4. Pass("exec", s(x), One(c)) = s(Append(x, c))
    BY <2>3, PassOne
  <2> QED  BY <2>1, <2>2, <2>4 DEF s
<1> QED  BY <1>3, <1>4, <1>5

LEMMA DoubledGrows ==
  ASSUME NEW D
  PROVE  /\ Doubled(D, <<>>) = <<>>
         /\ \A t \in Seq(D) : Doubled(D, t) \in Seq(D)
         /\ \A t \in Seq(D), c \in D : Doubled(D, Append(t, c)) = Doubled(D, t) \o PercentCode(D)[c]
<1>1. PercentCode(D) \in [D -> Seq(D)]
  BY CodesAreTexts DEF PercentCode
<1>2. Codes(PercentCode(D), D, D)
  BY <1>1, CodedGrows
<1> QED  BY <1>2 DEF Codes, Doubled

(* The first character of a word opens it.                                 *)
LEMMA ExecFirst ==
  ASSUME NEW D, NEW ws \in Seq(Seq(D)), NEW c \in D, c \notin Reserved
  PROVE  Pass("exec", ExecAt(ws, FALSE, FALSE), SpelledCode(D)[c])
           = Pass("exec", ExecAt(Append(ws, <<>>), TRUE, FALSE), SpelledCode(D)[c])
<1> DEFINE s == ExecAt(ws, FALSE, FALSE)
           t == ExecAt(Append(ws, <<>>), TRUE, FALSE)
<1>1. c \notin InQuoteEscapes /\ c # Blank /\ c # Quote /\ c # Slash
  BY DEF Reserved, Blanks, InQuoteEscapes
<1>2. ExecStep(s, c) = Put(s, c) /\ ExecStep(t, c) = Put(t, c)
  BY <1>1, ExecStepsAre
<1>3. Put(s, c) = Put(t, c)
  BY ExecOpens
<1> HIDE DEF s, t
<1>4. Read("exec", s, c) = Read("exec", t, c)
  BY <1>2, <1>3, ExecReads
<1>5. SpelledCode(D)[c] = One(c) \/ SpelledCode(D)[c] = Two(c, c)
  BY <1>1 DEF SpelledCode
<1>6. Pass("exec", s, One(c)) = Pass("exec", t, One(c))
  BY <1>4, PassOne
<1>7. Pass("exec", s, Two(c, c)) = Pass("exec", t, Two(c, c))
  BY <1>4, PassTwo
<1> QED  BY <1>5, <1>6, <1>7 DEF s, t

LEMMA ExecQuoted ==
  ASSUME NEW D, Slash \in D, Quote \in D, NEW ws \in Seq(Seq(D)), NEW w \in Seq(D)
  PROVE  Pass("exec", ExecAt(ws, FALSE, FALSE), One(Quote) \o Coded(SpelledCode(D), w) \o One(Quote))
           = ExecAt(Append(ws, Doubled(D, w)), TRUE, FALSE)
<1> DEFINE enc == SpelledCode(D)
           g == [t \in Seq(D) |-> ExecAt(Append(ws, Doubled(D, t)), TRUE, TRUE)]
           s == ExecAt(ws, FALSE, FALSE)
           end == ExecAt(Append(ws, Doubled(D, w)), TRUE, FALSE)
<1>1. enc \in [D -> Seq(D)]
  BY SpelledTyped
<1>2. TakesTexts("exec", D, enc, g)
  <2>1. ASSUME NEW t \in Seq(D), NEW c \in D
        PROVE  Pass("exec", g[t], enc[c]) = g[Append(t, c)]
    <3> DEFINE x == Doubled(D, t)
    <3>1. Append(t, c) \in Seq(D) /\ x \in Seq(D) /\ Doubled(D, Append(t, c)) = x \o PercentCode(D)[c]
      BY DoubledGrows
    <3>2. g[t] = ExecAt(Append(ws, x), TRUE, TRUE)
          /\ g[Append(t, c)] = ExecAt(Append(ws, x \o PercentCode(D)[c]), TRUE, TRUE)
      BY <3>1
    <3> HIDE DEF g, x
    <3>3. Pass("exec", ExecAt(Append(ws, x), TRUE, TRUE), SpelledCode(D)[c])
            = ExecAt(Append(ws, x \o PercentCode(D)[c]), TRUE, TRUE)
      BY <3>1, ExecPiece
    <3> QED  BY <3>2, <3>3
  <2> HIDE DEF enc, g
  <2> QED  BY <2>1 DEF TakesTexts
<1>3. g[<<>>] = ExecAt(Append(ws, <<>>), TRUE, TRUE) /\ g[w] = ExecAt(Append(ws, Doubled(D, w)), TRUE, TRUE)
  <2>1. <<>> \in Seq(D)
    OBVIOUS
  <2> QED  BY <2>1, DoubledGrows
<1>4. ExecStep(s, Quote) = g[<<>>] /\ ExecStep(g[w], Quote) = end
  <2> HIDE DEF g
  <2> QED  BY <1>3, ExecStepsAre
<1> DEFINE a == One(Quote)
           b == Coded(enc, w)
<1>5. a \in Seq(D) /\ b \in Seq(D)
  <2>1. Codes(enc, D, D)
    BY <1>1, CodedGrows
  <2> QED  BY <2>1, CodesAreTexts DEF Codes
<1> HIDE DEF g, enc, s, end
<1>6. Pass("exec", s, a) = g[<<>>] /\ Pass("exec", g[w], a) = end
  BY <1>4, PassOne, ExecReads
<1>7. Pass("exec", g[<<>>], b) = g[w]
  BY <1>1, <1>2, PassCoded
<1> HIDE DEF a, b
<1>8. Pass("exec", s, a \o b) = Pass("exec", Pass("exec", s, a), b) /\ a \o b \in Seq(D)
  BY <1>5, PassJoins
<1>9. Pass("exec", s, (a \o b) \o a) = Pass("exec", Pass("exec", s, a \o b), a)
  <2> DEFINE ab == a \o b
  <2>1. ab \in Seq(D)
    BY <1>8
  <2> HIDE DEF ab
  <2>2. Pass("exec", s, ab \o a) = Pass("exec", Pass("exec", s, ab), a)
    BY <1>5, <2>1, PassJoins
  <2> QED  BY <2>2 DEF ab
<1>10. Pass("exec", s, (a \o b) \o a) = end
  BY <1>6, <1>7, <1>8, <1>9
<1> QED  BY <1>10 DEF a, b, s, end, enc

LEMMA ExecBare ==
  ASSUME NEW D, NEW ws \in Seq(Seq(D)), NEW w \in Seq(D), ~NeedsQuotes(w)
  PROVE  LET R == {c \in D : c \notin Reserved}
         IN  /\ w \in Seq(R) /\ SpelledCode(R) \in [R -> Seq(D)]
             /\ Pass("exec", ExecAt(ws, FALSE, FALSE), Coded(SpelledCode(R), w))
                  = ExecAt(Append(ws, Doubled(D, w)), TRUE, FALSE)
<1> DEFINE R == {c \in D : c \notin Reserved}
           enc == SpelledCode(R)
           g == [t \in Seq(R) |-> IF t = <<>> THEN ExecAt(ws, FALSE, FALSE)
                                  ELSE ExecAt(Append(ws, Doubled(D, t)), TRUE, FALSE)]
<1>1. w \in Seq(R)
  <2>1. \A i \in 1 .. Len(w) : w[i] \in R
    BY DEF NeedsQuotes
  <2> QED  BY <2>1
<1>2. \A c \in R : c \in D /\ c \notin Reserved /\ c \notin InQuoteEscapes
  BY DEF Reserved
<1>3. Seq(R) \subseteq Seq(D)
  <2>1. ASSUME NEW t \in Seq(R) PROVE t \in Seq(D)
    <3>1. Len(t) \in Nat /\ t = [i \in 1 .. Len(t) |-> t[i]] /\ \A i \in 1 .. Len(t) : t[i] \in D
      BY <1>2
    <3> QED  BY <3>1
  <2> QED  BY <2>1
<1> HIDE DEF R
<1>4. enc \in [R -> Seq(D)] /\ \A c \in R : enc[c] = SpelledCode(D)[c]
  <2>1. \A c \in R : enc[c] = SpelledCode(D)[c]
    BY <1>2 DEF SpelledCode
  <2>2. \A c \in R : enc[c] \in Seq(D)
    BY <1>2, CodesAreTexts DEF SpelledCode
  <2>3. enc = [c \in R |-> enc[c]]
    BY DEF SpelledCode
  <2> HIDE DEF enc
  <2> QED  BY <2>1, <2>2, <2>3
<1>5. TakesTexts("exec", R, enc, g)
  <2>1. ASSUME NEW t \in Seq(R), NEW c \in R
        PROVE  Pass("exec", g[t], enc[c]) = g[Append(t, c)]
    <3> DEFINE x == Doubled(D, t)
    <3>1. Append(t, c) \in Seq(R) /\ Append(t, c) # <<>> /\ t \in Seq(D) /\ c \in D
      BY <1>2, <1>3
    <3>2. x \in Seq(D) /\ Doubled(D, Append(t, c)) = x \o PercentCode(D)[c]
      BY <3>1, DoubledGrows
    <3>3. g[Append(t, c)] = ExecAt(Append(ws, x \o PercentCode(D)[c]), TRUE, FALSE)
      BY <3>1, <3>2
    <3>4. t = <<>> => x = <<>>
      BY DoubledGrows
    <3>5. g[t] = IF t = <<>> THEN ExecAt(ws, FALSE, FALSE) ELSE ExecAt(Append(ws, x), TRUE, FALSE)
      OBVIOUS
    <3>6. enc[c] = SpelledCode(D)[c]
      BY <1>4
    <3> HIDE DEF g, x, enc
    <3>7. Pass("exec", ExecAt(Append(ws, x), TRUE, FALSE), SpelledCode(D)[c])
            = ExecAt(Append(ws, x \o PercentCode(D)[c]), TRUE, FALSE)
      BY <1>2, <3>1, <3>2, ExecPiece
    <3>8. Pass("exec", ExecAt(ws, FALSE, FALSE), SpelledCode(D)[c])
            = Pass("exec", ExecAt(Append(ws, <<>>), TRUE, FALSE), SpelledCode(D)[c])
      BY <1>2, <3>1, ExecFirst
    <3> QED  BY <3>3, <3>4, <3>5, <3>6, <3>7, <3>8
  <2> HIDE DEF enc, g
  <2> QED  BY <2>1 DEF TakesTexts
<1>6. w # <<>> /\ g[<<>>] = ExecAt(ws, FALSE, FALSE) /\ g[w] = ExecAt(Append(ws, Doubled(D, w)), TRUE, FALSE)
  <2>1. <<>> \in Seq(R) /\ w # <<>>
    BY DEF NeedsQuotes
  <2> QED  BY <1>1, <2>1
<1> HIDE DEF g, enc
<1>7. Pass("exec", g[<<>>], Coded(enc, w)) = g[w]
  BY <1>1, <1>4, <1>5, PassCoded
<1> QED  BY <1>1, <1>4, <1>6, <1>7 DEF enc, R

-----------------------------------------------------------------------------
(* A whole word of an Exec line, and its field codes.                       *)

(* No code is empty, and only a blank's starts with one.                   *)
Starts(enc, D) == \A c \in D : Len(enc[c]) # 0 /\ (c # Blank => enc[c][1] # Blank)

LEMMA CodedStarts ==
  ASSUME NEW D, NEW E, NEW enc \in [D -> Seq(E)], Starts(enc, D),
         NEW w \in Seq(D), w # <<>>, w[1] # Blank
  PROVE  Coded(enc, w) \in Seq(E) /\ Len(Coded(enc, w)) # 0 /\ Coded(enc, w)[1] # Blank
<1> DEFINE Good(t) == (t # <<>> /\ t[1] # Blank) => Len(Coded(enc, t)) # 0 /\ Coded(enc, t)[1] # Blank
           S == {t \in Seq(D) : Good(t)}
<1>1. Codes(enc, D, E)
  BY CodedGrows
<1>2. <<>> \in S
  OBVIOUS
<1>3. ASSUME NEW t \in Seq(D), NEW c \in D, t \in S
      PROVE  Append(t, c) \in S
  <2> DEFINE x == Coded(enc, t)
             y == enc[c]
             tc == Append(t, c)
  <2>1. x \in Seq(E) /\ y \in Seq(E) /\ Coded(enc, tc) = x \o y
    BY <1>1 DEF Codes
  <2>2. t = <<>> => x = <<>>
    BY <1>1 DEF Codes
  <2>3. Len(y) # 0 /\ (c # Blank => y[1] # Blank) /\ Good(t)
    BY <1>3 DEF Starts
  <2>4. tc \in Seq(D) /\ (t = <<>> => tc[1] = c) /\ (t # <<>> => tc[1] = t[1])
    OBVIOUS
  <2>5. t # <<>> /\ t[1] # Blank => Len(x) # 0 /\ x[1] # Blank
    BY <2>3
  <2> HIDE DEF x, y, tc
  <2>6. Joins(x, y, E)
    BY <2>1, JoinIs
  <2>7. Len(x) \in Nat /\ Len(y) \in Nat
    BY <2>1
  <2>8. tc[1] # Blank => Len(x \o y) # 0 /\ (x \o y)[1] # Blank
    <3>1. CASE t = <<>>
      <4>1. Len(x \o y) = Len(y) /\ (x \o y)[1] = y[1]
        BY <2>2, <2>3, <2>6, <2>7, <3>1 DEF Joins
      <4> QED  BY <2>3, <2>4, <3>1, <4>1
    <3>2. CASE t # <<>>
      <4>1. tc[1] # Blank => Len(x) # 0 /\ x[1] # Blank
        BY <2>4, <2>5, <3>2
      <4>2. Len(x) # 0 => Len(x \o y) # 0 /\ (x \o y)[1] = x[1]
        BY <2>6, <2>7 DEF Joins
      <4> QED  BY <4>1, <4>2
    <3> QED  BY <3>1, <3>2
  <2>9. Good(tc)
    BY <2>1, <2>8
  <2> HIDE DEF Good
  <2> QED  BY <2>4, <2>9 DEF tc
<1> HIDE DEF S
<1>4. \A t \in Seq(D) : t \in S
  BY <1>2, <1>3, ListInSet
<1> QED  BY <1>1, <1>4 DEF S, Codes

(* A word of an Exec line, quoted or not, reads as itself.                 *)
LEMMA ExecWord ==
  ASSUME NEW D, Slash \in D, Quote \in D, NEW ws \in Seq(Seq(D)), NEW w \in Seq(D)
  PROVE  /\ ExecArgument(w) \in Seq(D)
         /\ ExecArgument(w) # <<>> /\ ExecArgument(w)[1] # Blank
         /\ Pass("exec", ExecAt(ws, FALSE, FALSE), ExecArgument(w))
              = ExecAt(Append(ws, Doubled(D, w)), TRUE, FALSE)
<1>1. CASE NeedsQuotes(w)
  <2> DEFINE a == One(Quote)
             b == Coded(SpelledCode(D), w)
  <2>1. ExecArgument(w) = (a \o b) \o a
    BY <1>1, ExecArgumentIs
  <2>2. Codes(SpelledCode(D), D, D)
    BY SpelledTyped, CodedGrows
  <2>3. a \in Seq(D) /\ b \in Seq(D) /\ Len(a) = 1 /\ a[1] = Quote
    BY <2>2 DEF Codes, One
  <2>4. Pass("exec", ExecAt(ws, FALSE, FALSE), (a \o b) \o a) = ExecAt(Append(ws, Doubled(D, w)), TRUE, FALSE)
    BY ExecQuoted
  <2> HIDE DEF a, b
  <2>5. Joins(a, b, D)
    BY <2>3, JoinIs
  <2> DEFINE ab == a \o b
  <2>6. ab \in Seq(D) /\ Len(ab) # 0 /\ ab[1] = Quote
    BY <2>3, <2>5 DEF Joins
  <2> HIDE DEF ab
  <2>7. Joins(ab, a, D)
    BY <2>3, <2>6, JoinIs
  <2>8. ab \o a \in Seq(D) /\ (ab \o a)[1] = Quote /\ ab \o a # <<>>
    <3>1. Len(ab) \in Nat \ {0}
      BY <2>6
    <3> DEFINE t == ab \o a
    <3>2. t \in Seq(D) /\ Len(t) # 0 /\ t[1] = Quote
      BY <2>3, <2>6, <2>7, <3>1 DEF Joins
    <3> HIDE DEF t
    <3>3. t # <<>>
      BY <3>2
    <3> QED  BY <3>2, <3>3 DEF t
  <2> QED  BY <2>1, <2>4, <2>8, MarksDiffer DEF ab
<1>2. CASE ~NeedsQuotes(w)
  <2> DEFINE R == {c \in D : c \notin Reserved}
             b == Coded(SpelledCode(R), w)
  <2>1. w \in Seq(R) /\ SpelledCode(R) \in [R -> Seq(D)]
        /\ Pass("exec", ExecAt(ws, FALSE, FALSE), b) = ExecAt(Append(ws, Doubled(D, w)), TRUE, FALSE)
    BY <1>2, ExecBare
  <2>2. w # <<>> /\ w[1] \in R /\ \A c \in R : c # Blank
    <3>1. w # <<>> /\ Blank \in Reserved
      BY <1>2 DEF NeedsQuotes, Reserved, Blanks
    <3>2. \A c \in R : c # Blank
      BY <3>1
    <3>3. w \in Seq(R)
      BY <2>1
    <3> HIDE DEF R
    <3> QED  BY <3>1, <3>2, <3>3
  <2>3. ExecArgument(w) = b
    <3>1. w \in Seq(R)
      BY <2>1
    <3> HIDE DEF R
    <3> QED  BY <1>2, <3>1, ExecArgumentIs
  <2> HIDE DEF R
  <2>4. b \in Seq(D) /\ b # <<>> /\ b[1] # Blank
    <3> DEFINE enc == SpelledCode(R)
    <3>1. enc \in [R -> Seq(D)]
      BY <2>1
    <3>2. \A c \in R : Len(enc[c]) # 0 /\ enc[c][1] # Blank
      BY <2>2, PercentDiffers, MarksDiffer DEF SpelledCode, One, Two
    <3> HIDE DEF enc
    <3>3. Starts(enc, R)
      BY <3>2 DEF Starts
    <3>4. b \in Seq(D) /\ Len(b) # 0 /\ b[1] # Blank
      <4>1. b = Coded(enc, w) /\ w[1] \in R
        BY <2>2 DEF enc
      <4>2. w \in Seq(R) /\ w # <<>> /\ w[1] # Blank
        BY <2>1, <2>2, <4>1
      <4> QED  BY <3>1, <3>3, <4>1, <4>2, CodedStarts
    <3> HIDE DEF b
    <3> QED  BY <3>4
  <2> QED  BY <2>1, <2>3, <2>4 DEF R
<1> QED  BY <1>1, <1>2

-----------------------------------------------------------------------------
(* The field codes of a word: a doubled percent sign is one.               *)

CodesAt(out) == [out |-> out, code |-> FALSE, had |-> FALSE, ok |-> TRUE]

LEMMA CodesSteps ==
  ASSUME NEW D, NEW out \in Seq(D), NEW c \in D
  PROVE  Pass("codes", CodesAt(out), PercentCode(D)[c]) = CodesAt(Append(out, c))
<1> DEFINE s == CodesAt(out)
           t == [out |-> out, code |-> TRUE, had |-> FALSE, ok |-> TRUE]
           u == CodesAt(Append(out, c))
<1>1. \A x, y : Read("codes", x, y) = CodeStep(x, y)
  BY DEF Read
<1>2. CASE c = Percent
  <2>1. PercentCode(D)[c] = Two(c, c)
    BY <1>2 DEF PercentCode
  <2>2. CodeStep(s, c) = t
    BY <1>2 DEF CodeStep, CodesAt, Percent
  <2>3. CodeStep(t, c) = u
    BY <1>2 DEF CodeStep, CodesAt, Percent
  <2> HIDE DEF s, t, u
  <2>4. Pass("codes", s, Two(c, c)) = u
    BY <1>1, <2>2, <2>3, PassTwo
  <2> QED  BY <2>1, <2>4 DEF s, u
<1>3. CASE c # Percent
  <2>1. PercentCode(D)[c] = One(c)
    BY <1>3 DEF PercentCode
  <2>2. CodeStep(s, c) = u
    BY <1>3 DEF CodeStep, CodesAt, Percent
  <2> HIDE DEF s, u
  <2>3. Pass("codes", s, One(c)) = u
    BY <1>1, <2>2, PassOne
  <2> QED  BY <2>1, <2>3 DEF s, u
<1> QED  BY <1>2, <1>3

LEMMA ExpandBack ==
  ASSUME NEW D, NEW w \in Seq(D)
  PROVE  ExpandWord(Doubled(D, w)) = [ok |-> TRUE, words |-> One(w)]
<1> DEFINE enc == PercentCode(D)
           g == [t \in Seq(D) |-> CodesAt(t)]
           end == Pass("codes", CodesAt(<<>>), Doubled(D, w))
<1>1. enc \in [D -> Seq(D)]
  BY CodesAreTexts DEF PercentCode
<1>2. TakesTexts("codes", D, enc, g)
  <2>1. ASSUME NEW t \in Seq(D), NEW c \in D
        PROVE  Pass("codes", g[t], enc[c]) = g[Append(t, c)]
    <3>1. Append(t, c) \in Seq(D)
      OBVIOUS
    <3> QED  BY <3>1, CodesSteps
  <2> HIDE DEF enc, g
  <2> QED  BY <2>1 DEF TakesTexts
<1>3. g[<<>>] = CodesAt(<<>>) /\ g[w] = CodesAt(w)
  <2>1. <<>> \in Seq(D)
    OBVIOUS
  <2> QED  BY <2>1
<1>4. end = CodesAt(w)
  <2> HIDE DEF enc, g
  <2>1. Pass("codes", g[<<>>], Coded(enc, w)) = g[w]
    BY <1>1, <1>2, PassCoded
  <2> QED  BY <1>3, <2>1 DEF Doubled, enc
<1>5. ExpandWord(Doubled(D, w)) =
        [ok |-> end.ok /\ ~end.code, words |-> IF end.out = <<>> /\ end.had THEN <<>> ELSE <<end.out>>]
  BY DEF ExpandWord, CodesAt
<1> HIDE DEF end
<1> QED  BY <1>4, <1>5 DEF CodesAt, One

-----------------------------------------------------------------------------
(* The whole Exec line.                                                     *)

(* An argv as an Exec line.                                                *)
ExecCode(D) == [w \in Seq(D) |-> ExecArgument(w)]
ExecLine(D, argv) == Lined(ExecCode(D), argv)
AllDoubled(D, argv) == Mapped([w \in Seq(D) |-> Doubled(D, w)], argv)

LEMMA ExecCodeTyped ==
  ASSUME NEW D, Slash \in D, Quote \in D
  PROVE  ExecCode(D) \in [Seq(D) -> Seq(D)]
<1>1. \A w \in Seq(D) : ExecArgument(w) \in Seq(D)
  <2>1. <<>> \in Seq(Seq(D))
    OBVIOUS
  <2> QED  BY <2>1, ExecWord
<1> QED  BY <1>1 DEF ExecCode

LEMMA ExecLineIs ==
  ASSUME NEW D, NEW argv \in Seq(Seq(D))
  PROVE  SerializeExec(argv) = FileEscape(ExecLine(D, argv))
<1>1. \A i \in DOMAIN argv : argv[i] \in Seq(D)
  OBVIOUS
<1>2. [i \in DOMAIN argv |-> ExecArgument(argv[i])] = Mapped(ExecCode(D), argv)
  BY <1>1 DEF Mapped, ExecCode
<1> QED  BY <1>2 DEF SerializeExec, ExecLine, Lined

(* A line starts with its first word, and no word starts with a blank.     *)
LEMMA ExecLineStarts ==
  ASSUME NEW D, Slash \in D, Quote \in D, Blank \in D, NEW argv \in Seq(Seq(D)), argv # <<>>
  PROVE  ExecLine(D, argv) \in Seq(D) /\ Len(ExecLine(D, argv)) # 0 /\ ExecLine(D, argv)[1] # Blank
<1> DEFINE f == ExecCode(D)
           A == Seq(D)
           Good(t) == t # <<>> => Len(Lined(f, t)) # 0 /\ Lined(f, t)[1] # Blank
           S == {t \in Seq(A) : Good(t)}
<1>1. f \in [A -> Seq(D)]
  BY ExecCodeTyped
<1>2. \A w \in A : f[w] \in Seq(D) /\ Len(f[w]) # 0 /\ f[w][1] # Blank
  <2>1. <<>> \in Seq(Seq(D))
    OBVIOUS
  <2>2. \A w \in Seq(D) : ExecArgument(w) \in Seq(D) /\ ExecArgument(w) # <<>> /\ ExecArgument(w)[1] # Blank
    BY <2>1, ExecWord
  <2> QED  BY <2>2 DEF ExecCode
<1> HIDE DEF f, A
<1>3. MakesLines(f, A, D)
  BY <1>1, LinedGrows
<1>4. <<>> \in S
  OBVIOUS
<1>5. ASSUME NEW t \in Seq(A), NEW w \in A, t \in S
      PROVE  Append(t, w) \in S
  <2> DEFINE x == Lined(f, t)
             y == f[w]
             tw == Append(t, w)
             b == <<Blank>> \o y
  <2>1. x \in Seq(D) /\ y \in Seq(D) /\ Len(y) # 0 /\ y[1] # Blank
    BY <1>2, <1>3 DEF MakesLines
  <2>2. Lined(f, tw) = IF t = <<>> THEN y ELSE x \o b
    BY <1>3 DEF MakesLines
  <2>3. tw \in Seq(A) /\ b \in Seq(D)
    BY <2>1
  <2>4. t # <<>> => Len(x) # 0 /\ x[1] # Blank
    BY <1>5
  <2> HIDE DEF x, y, tw, b
  <2>5. Joins(x, b, D)
    BY <2>1, <2>3, JoinIs
  <2>6. Len(x) \in Nat /\ Len(b) \in Nat
    BY <2>1, <2>3
  <2>7. Len(x) # 0 => Len(x \o b) # 0 /\ (x \o b)[1] = x[1]
    BY <2>5, <2>6 DEF Joins
  <2>8. Good(tw)
    BY <2>1, <2>2, <2>4, <2>7
  <2> HIDE DEF Good
  <2> QED  BY <2>3, <2>8 DEF tw
<1> HIDE DEF S
<1>6. \A t \in Seq(A) : t \in S
  BY <1>4, <1>5, ListInSet
<1>7. argv \in Seq(A)
  BY DEF A
<1>8. Lined(f, argv) \in Seq(D)
  BY <1>3, <1>7 DEF MakesLines
<1> QED  BY <1>6, <1>7, <1>8 DEF S, f, ExecLine

(* The pass over a line reads its words.                                   *)
LEMMA TokenizeBack ==
  ASSUME NEW D, Slash \in D, Quote \in D, Blank \in D, NEW argv \in Seq(Seq(D)), argv # <<>>
  PROVE  Tokenize(ExecLine(D, argv)) = [ok |-> TRUE, words |-> AllDoubled(D, argv)]
<1> DEFINE f == ExecCode(D)
           A == Seq(D)
           DF == [w \in A |-> Doubled(D, w)]
           g == [ws \in Seq(A) |-> ExecAt(Mapped(DF, ws), TRUE, FALSE)]
           start == ExecAt(<<>>, FALSE, FALSE)
           end == Pass("exec", start, ExecLine(D, argv))
<1>1. f \in [A -> Seq(D)]
  BY ExecCodeTyped
<1>2. DF \in [A -> A]
  BY DoubledGrows
<1>3. Maps(DF, A, A)
  <2> HIDE DEF DF, A
  <2> QED  BY <1>2, MappedGrows
<1>4. \A ws \in Seq(A), w \in A :
        Pass("exec", ExecAt(ws, FALSE, FALSE), f[w]) = ExecAt(Append(ws, DF[w]), TRUE, FALSE)
  <2> SUFFICES ASSUME NEW ws \in Seq(A), NEW w \in A
               PROVE  Pass("exec", ExecAt(ws, FALSE, FALSE), f[w]) = ExecAt(Append(ws, DF[w]), TRUE, FALSE)
    OBVIOUS
  <2>1. f[w] = ExecArgument(w) /\ DF[w] = Doubled(D, w)
    BY DEF ExecCode
  <2>2. Pass("exec", ExecAt(ws, FALSE, FALSE), ExecArgument(w)) = ExecAt(Append(ws, Doubled(D, w)), TRUE, FALSE)
    BY ExecWord
  <2> HIDE DEF f, DF
  <2> QED  BY <2>1, <2>2
<1>5. \A ws \in Seq(A), w \in A :
        Pass("exec", ExecAt(Mapped(DF, ws), FALSE, FALSE), f[w]) = g[Append(ws, w)]
  <2> SUFFICES ASSUME NEW ws \in Seq(A), NEW w \in A
               PROVE  Pass("exec", ExecAt(Mapped(DF, ws), FALSE, FALSE), f[w]) = g[Append(ws, w)]
    OBVIOUS
  <2> HIDE DEF f, DF, A
  <2>1. Mapped(DF, ws) \in Seq(A) /\ Mapped(DF, Append(ws, w)) = Append(Mapped(DF, ws), DF[w])
        /\ Append(ws, w) \in Seq(A)
    BY <1>3 DEF Maps
  <2>2. g[Append(ws, w)] = ExecAt(Append(Mapped(DF, ws), DF[w]), TRUE, FALSE)
    BY <2>1
  <2> QED  BY <1>4, <2>1, <2>2
<1>6. \A ws \in Seq(A) : Read("exec", g[ws], Blank) = ExecAt(Mapped(DF, ws), FALSE, FALSE)
  <2> SUFFICES ASSUME NEW ws \in Seq(A)
               PROVE  Read("exec", g[ws], Blank) = ExecAt(Mapped(DF, ws), FALSE, FALSE)
    OBVIOUS
  <2> DEFINE m == Mapped(DF, ws)
  <2>1. g[ws] = ExecAt(m, TRUE, FALSE)
    OBVIOUS
  <2> HIDE DEF m, g
  <2>2. ExecStep(ExecAt(m, TRUE, FALSE), Blank) = ExecAt(m, FALSE, FALSE)
    BY ExecStepsAre
  <2> QED  BY <2>1, <2>2, ExecReads DEF m
<1>7. Mapped(DF, <<>>) = <<>> /\ <<>> \in Seq(A)
  <2> HIDE DEF DF, A
  <2> QED  BY <1>3 DEF Maps
<1> HIDE DEF f, DF, g, A
<1>8. TakesLines("exec", start, A, f, g)
  BY <1>5, <1>6, <1>7 DEF TakesLines
<1>9. argv \in Seq(A)
  BY DEF A
<1>10. end = g[argv]
  <2> HIDE DEF start
  <2> QED  BY <1>1, <1>8, <1>9, PassLined DEF f, ExecLine
<1>11. end = ExecAt(AllDoubled(D, argv), TRUE, FALSE)
  BY <1>9, <1>10 DEF g, DF, A, AllDoubled
<1>12. Tokenize(ExecLine(D, argv)) = [ok |-> end.ok /\ ~end.quote /\ ~end.esc, words |-> end.words]
  BY DEF Tokenize, ExecAt
<1> HIDE DEF end
<1> QED  BY <1>11, <1>12 DEF ExecAt

-----------------------------------------------------------------------------
(* The launcher.                                                            *)

(* A text put together from its characters is itself.                      *)
LEMMA SinglesBack ==
  ASSUME NEW D, NEW w \in Seq(D)
  PROVE  Coded([c \in D |-> One(c)], w) = w
<1> DEFINE enc == [c \in D |-> One(c)]
           S == {t \in Seq(D) : Coded(enc, t) = t}
<1>1. enc \in [D -> Seq(D)]
  BY CodesAreTexts
<1>2. \A c \in D : enc[c] = One(c)
  OBVIOUS
<1> HIDE DEF enc
<1>3. Codes(enc, D, D)
  BY <1>1, CodedGrows
<1>4. <<>> \in S
  BY <1>3 DEF Codes
<1>5. ASSUME NEW t \in Seq(D), NEW c \in D, t \in S
      PROVE  Append(t, c) \in S
  <2>1. Coded(enc, Append(t, c)) = t \o One(c)
    BY <1>2, <1>3, <1>5 DEF Codes
  <2>2. t \o One(c) = Append(t, c) /\ Append(t, c) \in Seq(D)
    BY JoinCodes
  <2> QED  BY <2>1, <2>2
<1> HIDE DEF S
<1>6. \A t \in Seq(D) : t \in S
  BY <1>4, <1>5, ListInSet
<1> QED  BY <1>6 DEF S, enc

LEMMA ExecRead ==
  ASSUME NEW D, Slash \in D, Quote \in D, Blank \in D, NEW argv \in Seq(Seq(D)), argv # <<>>
  PROVE  SerializeExec(argv) # <<>> /\ ReadString(SerializeExec(argv)) = ExecLine(D, argv)
<1> DEFINE line == ExecLine(D, argv)
           enc == FileCode(D)
           value == Coded(enc, line)
<1>1. line \in Seq(D) /\ Len(line) # 0 /\ line[1] # Blank
  BY ExecLineStarts
<1>2. SerializeExec(argv) = FileEscape(line)
  BY ExecLineIs
<1>3. enc \in [D -> Seq(D)] /\ Starts(enc, D)
  BY FileCodeTyped, MarksDiffer DEF Starts, FileCode, One, Two
<1> HIDE DEF line, enc
<1>4. line # <<>>
  BY <1>1
<1>5. value \in Seq(D) /\ Len(value) # 0 /\ value[1] # Blank
  BY <1>1, <1>3, <1>4, CodedStarts
<1>6. FileEscape(line) = value /\ FileUnescape(FileEscape(line)) = line
  BY <1>1, FileEscapeIs, FileBack DEF enc
<1> HIDE DEF value
<1>7. ReadString(value) = FileUnescape(value)
  BY <1>5, ReadStringIs
<1>8. value # <<>>
  BY <1>5
<1> QED  BY <1>2, <1>6, <1>7, <1>8 DEF line

(* The launcher's Exec reads back as the argv it was written from.         *)
LEMMA ParseBack ==
  ASSUME NEW D, Slash \in D, Quote \in D, Blank \in D, NEW argv \in Seq(Seq(D)), argv # <<>>
  PROVE  ParseExec(SerializeExec(argv)) = [ok |-> TRUE, argv |-> argv]
<1> DEFINE text == SerializeExec(argv)
           words == AllDoubled(D, argv)
           expanded == [i \in DOMAIN words |-> ExpandWord(words[i])]
           each == [i \in DOMAIN expanded |-> expanded[i].words]
           enc == [w \in Seq(D) |-> One(w)]
<1>1. Tokenize(ReadString(text)) = [ok |-> TRUE, words |-> words]
  BY ExecRead, TokenizeBack
<1>2. DOMAIN words = DOMAIN argv /\ \A i \in DOMAIN argv : argv[i] \in Seq(D) /\ words[i] = Doubled(D, argv[i])
  BY DEF AllDoubled, Mapped
<1> HIDE DEF words
<1>3. \A i \in DOMAIN argv : expanded[i].ok /\ expanded[i].words = enc[argv[i]]
  <2> SUFFICES ASSUME NEW i \in DOMAIN argv
               PROVE  expanded[i].ok /\ expanded[i].words = enc[argv[i]]
    OBVIOUS
  <2> DEFINE w == argv[i]
  <2>1. w \in Seq(D) /\ expanded[i] = ExpandWord(Doubled(D, w))
    BY <1>2
  <2> HIDE DEF w, expanded
  <2>2. ExpandWord(Doubled(D, w)) = [ok |-> TRUE, words |-> One(w)]
    BY <2>1, ExpandBack
  <2> QED  BY <2>1, <2>2 DEF w
<1>4. DOMAIN expanded = DOMAIN argv
  BY <1>2
<1> HIDE DEF enc, expanded
<1>5. each = Mapped(enc, argv)
  BY <1>3, <1>4 DEF Mapped
<1> HIDE DEF each
<1>6. FlattenSeq(each) = argv
  <2>1. argv \in Seq(Seq(D)) /\ Coded([w \in Seq(D) |-> One(w)], argv) = argv
    BY SinglesBack
  <2> QED  BY <1>5, <2>1 DEF Coded, enc
<1>7. ParseExec(text) =
        [ok |-> TRUE /\ \A i \in DOMAIN expanded : expanded[i].ok, argv |-> FlattenSeq(each)]
  <2> HIDE DEF text
  <2> QED  BY <1>1 DEF ParseExec, expanded, each
<1> HIDE DEF text
<1>8. \A i \in DOMAIN expanded : expanded[i].ok
  BY <1>3, <1>4
<1> DEFINE all == \A i \in DOMAIN expanded : expanded[i].ok
<1>9. all = TRUE
  BY <1>8
<1> HIDE DEF all
<1> QED  BY <1>6, <1>7, <1>9 DEF all, text

-----------------------------------------------------------------------------
(* What is written to a pin's launcher is run as it was signed.            *)
LEMMA LauncherBack ==
  ASSUME NEW D, {Slash, Quote, Blank, "s"} \subseteq D, NEW argv \in Seq(Seq(D)), argv # <<>>,
         NEW label \in Seq(D), NEW cwd \in Seq(D)
  PROVE  LET launcher == LauncherBytes(label, SplitCanonical(Canonical(argv)), cwd)
             entry == [exec |-> Canonical(argv), cwd |-> cwd, launcher |-> launcher]
         IN  IF launcher = NoLauncher THEN \E text \in {label, cwd} \cup ToSet(argv) : ~Printable(text)
             ELSE Decide(entry, launcher) = Spawn(argv, cwd) /\ ReadString(launcher.name) = label
<1> DEFINE bytes == [name |-> StringValue(label), exec |-> SerializeExec(argv), path |-> StringValue(cwd)]
           launcher == LauncherBytes(label, argv, cwd)
           entry == [exec |-> Canonical(argv), cwd |-> cwd, launcher |-> bytes]
<1>1. SplitCanonical(Canonical(argv)) = argv
  BY CanonicalBack
<1>2. bytes # NoLauncher
  BY ExecRead DEF NoLauncher
<1>3. launcher = NoLauncher => \E text \in {label, cwd} \cup ToSet(argv) : ~Printable(text)
  <2> HIDE DEF bytes
  <2>1. launcher = IF ~Printable(label) \/ ~Printable(cwd) \/ \E i \in DOMAIN argv : ~Printable(argv[i])
                   THEN NoLauncher ELSE bytes
    BY DEF LauncherBytes, bytes
  <2> QED  BY <1>2, <2>1 DEF ToSet
<1>4. ReadString(bytes.path) = cwd /\ ReadString(bytes.name) = label
  BY StringBack
<1>5. ParseExec(bytes.exec) = [ok |-> TRUE, argv |-> argv]
  BY ParseBack
<1>6. Decide(entry, bytes) = Spawn(argv, cwd)
  <2> DEFINE parsed == ParseExec(bytes.exec)
             dir == ReadString(bytes.path)
  <2>1. Decide(entry, bytes) = Approved(entry, parsed, dir)
    BY DEF Decide
  <2>2. parsed.ok /\ parsed.argv = argv /\ dir = cwd
    BY <1>4, <1>5
  <2> HIDE DEF parsed, dir, bytes
  <2> QED  BY <2>1, <2>2 DEF Approved
<1>7. launcher # NoLauncher => launcher = bytes
  BY DEF LauncherBytes
<1> HIDE DEF bytes, launcher
<1> QED  BY <1>1, <1>3, <1>4, <1>6, <1>7 DEF launcher

-----------------------------------------------------------------------------
(* The line a command is shown as: what its reader does with a character.   *)

(* Between two words, and in a word of a command line.                     *)
Between(ws) == [words |-> ws, cur |-> <<>>, have |-> FALSE, at |-> "plain"]
InLine(ws, cur, at) == [words |-> ws, cur |-> cur, have |-> TRUE, at |-> at]
InDollar(ws) == [words |-> ws, cur |-> <<>>, have |-> FALSE, at |-> "dollar"]

LEMMA LineGoes ==
  ASSUME NEW ws, NEW cur, NEW at, NEW to
  PROVE  Goes(InLine(ws, cur, at), to) = InLine(ws, cur, to)
<1> DEFINE s == InLine(ws, cur, at)
           yes == TRUE
<1>1. s = [words |-> ws, cur |-> cur, have |-> yes, at |-> at]
      /\ InLine(ws, cur, to) = [words |-> ws, cur |-> cur, have |-> yes, at |-> to]
  BY DEF InLine
<1> HIDE DEF s, yes
<1>2. Goes(s, to) = InLine(ws, cur, to)
  BY <1>1 DEF Goes
<1> QED  BY <1>2 DEF s

LEMMA LineBegins ==
  ASSUME NEW ws, NEW cur, NEW at, NEW to
  PROVE  /\ Begins(InLine(ws, cur, at), to) = InLine(ws, cur, to)
         /\ Begins(Between(ws), to) = InLine(ws, <<>>, to)
         /\ Begins(InDollar(ws), to) = InLine(ws, <<>>, to)
         /\ Goes(Between(ws), "dollar") = InDollar(ws)
<1> DEFINE yes == TRUE
           no == FALSE
<1> HIDE DEF yes, no
<1>1. Begins(InLine(ws, cur, at), to) = InLine(ws, cur, to)
  <2> DEFINE s == InLine(ws, cur, at)
  <2>1. s = [words |-> ws, cur |-> cur, have |-> yes, at |-> at]
        /\ InLine(ws, cur, to) = [words |-> ws, cur |-> cur, have |-> yes, at |-> to]
    BY DEF InLine, yes
  <2> HIDE DEF s
  <2>2. Begins(s, to) = [s EXCEPT !.at = to, !.have = yes]
    BY DEF Begins, yes
  <2> DEFINE t == [s EXCEPT !.at = to]
  <2>3. t = InLine(ws, cur, to)
    BY <2>1
  <2>4. [s EXCEPT !.at = to, !.have = yes] = [t EXCEPT !.have = yes]
    BY <2>1
  <2> HIDE DEF t
  <2>5. [t EXCEPT !.have = yes] = t
    BY <2>1, <2>3
  <2> QED  BY <2>2, <2>3, <2>4, <2>5 DEF s
<1>2. ASSUME NEW s, NEW was, s = [words |-> ws, cur |-> <<>>, have |-> no, at |-> was]
      PROVE  Begins(s, to) = InLine(ws, <<>>, to)
  <2>1. InLine(ws, <<>>, to) = [words |-> ws, cur |-> <<>>, have |-> yes, at |-> to]
    BY DEF InLine, yes
  <2>2. Begins(s, to) = [s EXCEPT !.at = to, !.have = yes]
    BY DEF Begins, yes
  <2> DEFINE t == [s EXCEPT !.at = to]
  <2>3. t = [words |-> ws, cur |-> <<>>, have |-> no, at |-> to]
    BY <1>2
  <2>4. [s EXCEPT !.at = to, !.have = yes] = [t EXCEPT !.have = yes]
    BY <1>2
  <2> HIDE DEF t
  <2>5. [t EXCEPT !.have = yes] = [words |-> ws, cur |-> <<>>, have |-> yes, at |-> to]
    BY <2>3
  <2> QED  BY <2>1, <2>2, <2>4, <2>5
<1>3. Between(ws) = [words |-> ws, cur |-> <<>>, have |-> no, at |-> "plain"]
      /\ InDollar(ws) = [words |-> ws, cur |-> <<>>, have |-> no, at |-> "dollar"]
  BY DEF Between, InDollar, no
<1>4. Begins(Between(ws), to) = InLine(ws, <<>>, to)
  BY <1>2, <1>3
<1>5. Begins(InDollar(ws), to) = InLine(ws, <<>>, to)
  BY <1>2, <1>3
<1>6. Goes(Between(ws), "dollar") = InDollar(ws)
  BY <1>3 DEF Goes
<1> QED  BY <1>1, <1>4, <1>5, <1>6

LEMMA LinePuts ==
  ASSUME NEW ws, NEW D, NEW cur \in Seq(D), NEW at, NEW c \in D
  PROVE  Puts(InLine(ws, cur, at), One(c)) = InLine(ws, Append(cur, c), at)
<1>1. cur \o One(c) = Append(cur, c)
  BY JoinCodes
<1> DEFINE a == cur \o One(c)
<1> HIDE DEF a
<1>2. Puts(InLine(ws, cur, at), One(c)) = [InLine(ws, cur, at) EXCEPT !.cur = a, !.have = TRUE]
  BY DEF Puts, InLine, a
<1>3. Puts(InLine(ws, cur, at), One(c)) = InLine(ws, a, at)
  BY <1>2 DEF InLine
<1> QED  BY <1>1, <1>3 DEF a

LEMMA LinePutsFirst ==
  ASSUME NEW ws, NEW c
  PROVE  Puts(Between(ws), One(c)) = InLine(ws, One(c), "plain")
<1>1. <<>> \o One(c) = One(c)
  BY DEF One
<1> DEFINE b == <<>> \o One(c)
<1> HIDE DEF b
<1>2. Puts(Between(ws), One(c)) = [Between(ws) EXCEPT !.cur = b, !.have = TRUE]
  BY DEF Puts, Between, b
<1>3. Puts(Between(ws), One(c)) = InLine(ws, b, "plain")
  BY <1>2 DEF InLine, Between
<1> QED  BY <1>1, <1>3 DEF b

LEMMA LineEnds ==
  ASSUME NEW ws, NEW cur, NEW at
  PROVE  EndsWord(InLine(ws, cur, "plain")) = Between(Append(ws, cur)) /\ EndsWord(Between(ws)) = Between(ws)
<1> DEFINE v == Append(ws, cur)
<1>1. EndsWord(InLine(ws, cur, "plain")) = Between(v)
  <2> HIDE DEF v
  <2>1. EndsWord(InLine(ws, cur, "plain")) = [InLine(ws, cur, "plain") EXCEPT !.words = v, !.cur = <<>>, !.have = FALSE]
    BY DEF EndsWord, InLine, v
  <2> QED  BY <2>1 DEF InLine, Between
<1>2. EndsWord(Between(ws)) = Between(ws)
  BY DEF EndsWord, Between
<1> QED  BY <1>1, <1>2

Apostrophe == "'"
Dollar == "$"
Bracket == "["
Hash == "#"

LEMMA CharsDiffer ==
  /\ Apostrophe # Dollar /\ Apostrophe # Slash /\ Dollar # Slash /\ Apostrophe # Quote /\ Dollar # Quote
  /\ Apostrophe \notin Blanks /\ Dollar \notin Blanks /\ Slash \notin Blanks /\ Quote \notin Blanks
  /\ Apostrophe \notin ShellSyntax /\ Dollar \notin ShellSyntax /\ Slash \notin ShellSyntax
  /\ Blank \in Blanks /\ Blank \notin ShellSyntax /\ Bracket \in ShellSyntax
  /\ \A c \in {Apostrophe, Dollar, Slash, Blank} : c # Bracket /\ c # Hash
BY Zenon DEF Bracket, Hash, Apostrophe, Dollar, Slash, Quote, Blanks, Blank, ShellSyntax

(* A character that stands for itself in a bare word (a # not as the first *)
(* one).                                                                   *)
Bare(c) == c \notin Blanks \cup ShellSyntax \cup {Apostrophe, Quote, Slash, Dollar}

LEMMA PlainIs ==
  ASSUME NEW s, s.at = "plain"
  PROVE  /\ ReadChar(s, Apostrophe) = Begins(s, "single")
         /\ ReadChar(s, Slash) = Begins(s, "escape")
         /\ ReadChar(s, Dollar) = Goes(s, "dollar")
         /\ ReadChar(s, Blank) = EndsWord(s)
<1>1. \A e : ReadChar(s, e) = Plain(s, e)
  BY DEF ReadChar
<1>2. Plain(s, Apostrophe) = Begins(s, "single")
  BY CharsDiffer, MarksDiffer DEF Plain, Apostrophe, Dollar, Bracket, Hash
<1>3. Plain(s, Slash) = Begins(s, "escape")
  BY CharsDiffer, MarksDiffer DEF Plain, Apostrophe, Dollar, Bracket, Hash
<1>4. Plain(s, Dollar) = Goes(s, "dollar")
  BY CharsDiffer, MarksDiffer DEF Plain, Apostrophe, Dollar, Bracket, Hash
<1>5. Plain(s, Blank) = EndsWord(s)
  BY CharsDiffer, MarksDiffer DEF Plain, Apostrophe, Dollar, Bracket, Hash
<1> QED  BY <1>1, <1>2, <1>3, <1>4, <1>5

LEMMA PlainBare ==
  ASSUME NEW s, s.at = "plain", NEW c, Bare(c), s.have \/ c # Hash
  PROVE  ReadChar(s, c) = Puts(s, One(c))
<1>1. \A e : ReadChar(s, e) = Plain(s, e)
  BY DEF ReadChar
<1>2. Plain(s, c) = Puts(s, One(c))
  BY CharsDiffer, MarksDiffer DEF Plain, Apostrophe, Dollar, Bracket, Hash, Bare, One
<1> QED  BY <1>1, <1>2

(* What each character is read as, wherever the pass stands.               *)
LineReads(D, ws, cur, c) ==
  /\ Read("line", Between(ws), Apostrophe) = InLine(ws, <<>>, "single")
  /\ Read("line", Between(ws), Slash) = InLine(ws, <<>>, "escape")
  /\ Read("line", Between(ws), Dollar) = InDollar(ws)
  /\ (Bare(c) /\ c # Hash) => Read("line", Between(ws), c) = InLine(ws, One(c), "plain")
  /\ Read("line", InLine(ws, cur, "plain"), Blank) = Between(Append(ws, cur))
  /\ Read("line", InLine(ws, cur, "plain"), Apostrophe) = InLine(ws, cur, "single")
  /\ Read("line", InLine(ws, cur, "plain"), Slash) = InLine(ws, cur, "escape")
  /\ Bare(c) => Read("line", InLine(ws, cur, "plain"), c) = InLine(ws, Append(cur, c), "plain")
  /\ Read("line", InLine(ws, cur, "single"), Apostrophe) = InLine(ws, cur, "plain")
  /\ c # Apostrophe => Read("line", InLine(ws, cur, "single"), c) = InLine(ws, Append(cur, c), "single")
  /\ Read("line", InLine(ws, cur, "escape"), c) = InLine(ws, Append(cur, c), "plain")
  /\ Read("line", InDollar(ws), Apostrophe) = InLine(ws, <<>>, "ansi")
  /\ Read("line", InLine(ws, cur, "ansi"), Apostrophe) = InLine(ws, cur, "plain")
  /\ Read("line", InLine(ws, cur, "ansi"), Slash) = InLine(ws, cur, "ansiEscape")
  /\ (c # Apostrophe /\ c # Slash) => Read("line", InLine(ws, cur, "ansi"), c) = InLine(ws, Append(cur, c), "ansi")

LEMMA LineDecodes ==
  ASSUME NEW ws, NEW D, NEW cur \in Seq(D), NEW e, Decoded(e) \in D
  PROVE  Read("line", InLine(ws, cur, "ansiEscape"), e) = InLine(ws, Append(cur, Decoded(e)), "ansi")
<1> DEFINE s == InLine(ws, cur, "ansiEscape")
           c == Decoded(e)
           t == InLine(ws, Append(cur, c), "ansiEscape")
<1>1. s.at = "ansiEscape"
  BY DEF InLine
<1>2. Goes(t, "ansi") = InLine(ws, Append(cur, c), "ansi")
  BY LineGoes
<1>4. Puts(s, One(c)) = t
  <2> HIDE DEF c
  <2> QED  BY LinePuts DEF c
<1> HIDE DEF s, t
<1>3. ReadChar(s, e) = Goes(Puts(s, One(c)), "ansi")
  BY <1>1 DEF ReadChar, One
<1>5. Read("line", s, e) = ReadChar(s, e)
  BY DEF Read
<1> QED  BY <1>2, <1>3, <1>4, <1>5 DEF s

LEMMA LineRead ==
  ASSUME NEW ws, NEW D, NEW cur \in Seq(D), NEW c \in D
  PROVE  LineReads(D, ws, cur, c)
<1>1. \A s, e : Read("line", s, e) = ReadChar(s, e)
  BY DEF Read
<1>2. Between(ws).at = "plain" /\ Between(ws).have = FALSE /\ InDollar(ws).at = "dollar"
      /\ \A at : InLine(ws, cur, at).at = at /\ InLine(ws, cur, at).have = TRUE
  BY DEF Between, InDollar, InLine
<1> DEFINE p == InLine(ws, cur, "plain")
<1> DEFINE b == Between(ws)
<1>16. b.at = "plain" /\ b.have = FALSE /\ p.at = "plain" /\ p.have = TRUE
  BY <1>2
<1>17. /\ Begins(b, "single") = InLine(ws, <<>>, "single") /\ Begins(b, "escape") = InLine(ws, <<>>, "escape")
       /\ Goes(b, "dollar") = InDollar(ws)
       /\ Begins(p, "single") = InLine(ws, cur, "single") /\ Begins(p, "escape") = InLine(ws, cur, "escape")
       /\ Puts(b, One(c)) = InLine(ws, One(c), "plain")
       /\ Puts(p, One(c)) = InLine(ws, Append(cur, c), "plain")
       /\ EndsWord(p) = Between(Append(ws, cur))
  BY LineBegins, LinePuts, LinePutsFirst, LineEnds
<1> HIDE DEF b, p
<1>5. ReadChar(b, Apostrophe) = InLine(ws, <<>>, "single")
      /\ ReadChar(b, Slash) = InLine(ws, <<>>, "escape")
      /\ ReadChar(b, Dollar) = InDollar(ws)
  BY <1>16, <1>17, PlainIs, PlainBare
<1>6. (Bare(c) /\ c # Hash) => ReadChar(b, c) = InLine(ws, One(c), "plain")
  BY <1>16, <1>17, PlainIs, PlainBare
<1>8. ReadChar(p, Blank) = Between(Append(ws, cur))
  BY <1>16, <1>17, PlainIs, PlainBare
<1>9. ReadChar(p, Apostrophe) = InLine(ws, cur, "single") /\ ReadChar(p, Slash) = InLine(ws, cur, "escape")
  BY <1>16, <1>17, PlainIs, PlainBare
<1>10. Bare(c) => ReadChar(p, c) = InLine(ws, Append(cur, c), "plain")
  BY <1>16, <1>17, PlainIs, PlainBare
<1>11. /\ ReadChar(InLine(ws, cur, "single"), Apostrophe) = InLine(ws, cur, "plain")
       /\ c # Apostrophe => ReadChar(InLine(ws, cur, "single"), c) = InLine(ws, Append(cur, c), "single")
  <2> DEFINE s == InLine(ws, cur, "single")
  <2>1. s.at = "single"
    BY <1>2
  <2>2. Puts(s, One(c)) = InLine(ws, Append(cur, c), "single") /\ Goes(s, "plain") = InLine(ws, cur, "plain")
    BY LinePuts, LineGoes
  <2> HIDE DEF s
  <2>3. \A e : ReadChar(s, e) = IF e = Apostrophe THEN Goes(s, "plain") ELSE Puts(s, One(e))
    BY <2>1 DEF ReadChar, Apostrophe, One
  <2> QED  BY <2>2, <2>3 DEF s
<1>12. ReadChar(InLine(ws, cur, "escape"), c) = InLine(ws, Append(cur, c), "plain")
  <2> DEFINE s == InLine(ws, cur, "escape")
             t == InLine(ws, Append(cur, c), "escape")
  <2>1. s.at = "escape"
    BY <1>2
  <2>2. Puts(s, One(c)) = t /\ Goes(t, "plain") = InLine(ws, Append(cur, c), "plain")
    BY LinePuts, LineGoes
  <2> HIDE DEF s, t
  <2>3. ReadChar(s, c) = Goes(Puts(s, One(c)), "plain")
    BY <2>1 DEF ReadChar, One
  <2> QED  BY <2>2, <2>3 DEF s
<1>13. ReadChar(InDollar(ws), Apostrophe) = InLine(ws, <<>>, "ansi")
  <2>1. ReadChar(InDollar(ws), Apostrophe) = Begins(InDollar(ws), "ansi")
    BY <1>2 DEF ReadChar, Apostrophe, One
  <2> QED  BY <2>1, LineBegins
<1>14. /\ ReadChar(InLine(ws, cur, "ansi"), Apostrophe) = InLine(ws, cur, "plain")
       /\ ReadChar(InLine(ws, cur, "ansi"), Slash) = InLine(ws, cur, "ansiEscape")
       /\ (c # Apostrophe /\ c # Slash) => ReadChar(InLine(ws, cur, "ansi"), c) = InLine(ws, Append(cur, c), "ansi")
  <2> DEFINE s == InLine(ws, cur, "ansi")
  <2>1. s.at = "ansi"
    BY <1>2
  <2>2. Puts(s, One(c)) = InLine(ws, Append(cur, c), "ansi") /\ Goes(s, "plain") = InLine(ws, cur, "plain")
        /\ Goes(s, "ansiEscape") = InLine(ws, cur, "ansiEscape")
    BY LinePuts, LineGoes
  <2> HIDE DEF s
  <2>3. \A e : ReadChar(s, e) = IF e = Apostrophe THEN Goes(s, "plain")
                               ELSE IF e = Slash THEN Goes(s, "ansiEscape") ELSE Puts(s, One(e))
    BY <2>1 DEF ReadChar, Apostrophe, One
  <2> QED  BY <2>2, <2>3, CharsDiffer DEF s
<1> DEFINE reads(s, e) == Read("line", s, e)
<1>18. \A s, e : reads(s, e) = ReadChar(s, e)
  BY <1>1
<1> HIDE DEF reads
<1>19. /\ reads(b, Apostrophe) = InLine(ws, <<>>, "single")
       /\ reads(b, Slash) = InLine(ws, <<>>, "escape")
       /\ reads(b, Dollar) = InDollar(ws)
       /\ (Bare(c) /\ c # Hash) => reads(b, c) = InLine(ws, One(c), "plain")
  BY <1>18, <1>5, <1>6
<1>20. /\ reads(p, Blank) = Between(Append(ws, cur))
       /\ reads(p, Apostrophe) = InLine(ws, cur, "single")
       /\ reads(p, Slash) = InLine(ws, cur, "escape")
       /\ Bare(c) => reads(p, c) = InLine(ws, Append(cur, c), "plain")
  <2>1. reads(p, Blank) = Between(Append(ws, cur))
    BY <1>18, <1>8
  <2>2. reads(p, Apostrophe) = InLine(ws, cur, "single") /\ reads(p, Slash) = InLine(ws, cur, "escape")
    BY <1>18, <1>9
  <2>3. Bare(c) => reads(p, c) = InLine(ws, Append(cur, c), "plain")
    BY <1>18, <1>10
  <2> QED  BY <2>1, <2>2, <2>3
<1>21. /\ reads(InLine(ws, cur, "single"), Apostrophe) = InLine(ws, cur, "plain")
       /\ c # Apostrophe => reads(InLine(ws, cur, "single"), c) = InLine(ws, Append(cur, c), "single")
       /\ reads(InLine(ws, cur, "escape"), c) = InLine(ws, Append(cur, c), "plain")
       /\ reads(InDollar(ws), Apostrophe) = InLine(ws, <<>>, "ansi")
  BY <1>18, <1>11, <1>12, <1>13
<1>22. /\ reads(InLine(ws, cur, "ansi"), Apostrophe) = InLine(ws, cur, "plain")
       /\ reads(InLine(ws, cur, "ansi"), Slash) = InLine(ws, cur, "ansiEscape")
       /\ (c # Apostrophe /\ c # Slash) => reads(InLine(ws, cur, "ansi"), c) = InLine(ws, Append(cur, c), "ansi")
  BY <1>18, <1>14
<1>23. /\ Read("line", Between(ws), Apostrophe) = InLine(ws, <<>>, "single")
       /\ Read("line", Between(ws), Slash) = InLine(ws, <<>>, "escape")
       /\ Read("line", Between(ws), Dollar) = InDollar(ws)
       /\ (Bare(c) /\ c # Hash) => Read("line", Between(ws), c) = InLine(ws, One(c), "plain")
  BY <1>19 DEF reads, b
<1>24. /\ Read("line", InLine(ws, cur, "plain"), Blank) = Between(Append(ws, cur))
       /\ Read("line", InLine(ws, cur, "plain"), Apostrophe) = InLine(ws, cur, "single")
       /\ Read("line", InLine(ws, cur, "plain"), Slash) = InLine(ws, cur, "escape")
       /\ Bare(c) => Read("line", InLine(ws, cur, "plain"), c) = InLine(ws, Append(cur, c), "plain")
  BY <1>20 DEF reads, p
<1>25. /\ Read("line", InLine(ws, cur, "single"), Apostrophe) = InLine(ws, cur, "plain")
       /\ c # Apostrophe => Read("line", InLine(ws, cur, "single"), c) = InLine(ws, Append(cur, c), "single")
       /\ Read("line", InLine(ws, cur, "escape"), c) = InLine(ws, Append(cur, c), "plain")
       /\ Read("line", InDollar(ws), Apostrophe) = InLine(ws, <<>>, "ansi")
  BY <1>21 DEF reads
<1>26. /\ Read("line", InLine(ws, cur, "ansi"), Apostrophe) = InLine(ws, cur, "plain")
       /\ Read("line", InLine(ws, cur, "ansi"), Slash) = InLine(ws, cur, "ansiEscape")
       /\ (c # Apostrophe /\ c # Slash) => Read("line", InLine(ws, cur, "ansi"), c) = InLine(ws, Append(cur, c), "ansi")
  BY <1>22 DEF reads
<1> QED  BY <1>23, <1>24, <1>25, <1>26 DEF LineReads

-----------------------------------------------------------------------------
(* Words in quotes.                                                         *)

(* Text in quotes of some kind: its characters between two marks.          *)
PassesQuoted(r, s, D, pre, enc, w, a, end) ==
  /\ (pre \o Coded(enc, w)) \o One(a) \in Seq(D)
  /\ Pass(r, s, (pre \o Coded(enc, w)) \o One(a)) = end

LEMMA PassQuoted ==
  ASSUME NEW r, NEW s, NEW D, NEW enc \in [D -> Seq(D)], NEW g, TakesTexts(r, D, enc, g),
         NEW pre \in Seq(D), Pass(r, s, pre) = g[<<>>], NEW a \in D, NEW w \in Seq(D)
  PROVE  PassesQuoted(r, s, D, pre, enc, w, a, Read(r, g[w], a))
<1> DEFINE b == Coded(enc, w)
           x == pre \o b
           y == One(a)
           end == Read(r, g[w], a)
<1>1. b \in Seq(D)
  BY CodedGrows DEF Codes
<1>2. y \in Seq(D)
  BY CodesAreTexts
<1>3. Pass(r, g[<<>>], b) = g[w]
  BY PassCoded
<1>4. Pass(r, g[w], y) = end
  BY PassOne
<1> HIDE DEF b
<1>5. Pass(r, s, x) = Pass(r, Pass(r, s, pre), b) /\ x \in Seq(D)
  BY <1>1, PassJoins
<1> HIDE DEF x, y, end
<1>6. Pass(r, s, x \o y) = Pass(r, Pass(r, s, x), y)
  BY <1>2, <1>5, PassJoins
<1>7. x \o y \in Seq(D)
  BY <1>2, <1>5
<1>8. Pass(r, s, x \o y) = end
  BY <1>3, <1>4, <1>5, <1>6
<1> QED  BY <1>7, <1>8 DEF x, y, b, end, PassesQuoted

(* The word it is, as the pass leaves it.                                  *)
ReadsAs(q, w) ==
  \A ws : Pass("line", Between(ws), q) = InLine(ws, w, "plain")

LEMMA QuoteNothing == ReadsAs(Two(Apostrophe, Apostrophe), <<>>)
<1> SUFFICES ASSUME NEW ws
             PROVE  Pass("line", Between(ws), Two(Apostrophe, Apostrophe)) = InLine(ws, <<>>, "plain")
  BY DEF ReadsAs
<1> DEFINE E == {Apostrophe}
           none == <<>>
<1>1. none \in Seq(E) /\ Apostrophe \in E
  OBVIOUS
<1> HIDE DEF none, E
<1>2. LineReads(E, ws, none, Apostrophe)
  BY <1>1, LineRead
<1>3. Read("line", Between(ws), Apostrophe) = InLine(ws, none, "single")
      /\ Read("line", InLine(ws, none, "single"), Apostrophe) = InLine(ws, none, "plain")
  BY <1>2 DEF LineReads, none
<1>4. Pass("line", Between(ws), Two(Apostrophe, Apostrophe)) = InLine(ws, none, "plain")
  BY <1>3, PassTwo
<1> QED  BY <1>4 DEF none

-----------------------------------------------------------------------------
(* '...'                                                                   *)

Four(a, b, c, d) == <<a, b, c, d>>

LEMMA PassFour ==
  ASSUME NEW r, NEW s, NEW a, NEW b, NEW c, NEW d
  PROVE  Pass(r, s, Four(a, b, c, d)) = Read(r, Read(r, Read(r, Read(r, s, a), b), c), d)
<1> DEFINE E == {a, b, c, d}
           x == Two(a, b)
           y == Append(x, c)
<1>1. x \in Seq(E) /\ y \in Seq(E) /\ c \in E /\ d \in E /\ Four(a, b, c, d) = Append(y, d)
  BY DEF Two, Four
<1>2. Pass(r, s, x) = Read(r, Read(r, s, a), b)
  BY PassTwo
<1> HIDE DEF E, x
<1>3. Pass(r, s, y) = Read(r, Pass(r, s, x), c)
  BY <1>1, PassGrows
<1> HIDE DEF y
<1>4. Pass(r, s, Append(y, d)) = Read(r, Pass(r, s, y), d)
  BY <1>1, PassGrows
<1> QED  BY <1>1, <1>2, <1>3, <1>4

SingleCode(D) == [c \in D |-> IF c = Apostrophe THEN Four(c, Slash, c, c) ELSE One(c)]

LEMMA SingleQuotedIs ==
  ASSUME NEW D, NEW w \in Seq(D)
  PROVE  SingleQuoted(w) = (One(Apostrophe) \o Coded(SingleCode(D), w)) \o One(Apostrophe)
<1> DEFINE coded(c) == IF c = "'" THEN <<"'", Slash, "'", "'">> ELSE <<c>>
<1>1. \A i \in DOMAIN w : w[i] \in D
  OBVIOUS
<1>2. [i \in DOMAIN w |-> coded(w[i])] = [i \in DOMAIN w |-> SingleCode(D)[w[i]]]
  BY <1>1 DEF SingleCode, One, Four, Apostrophe
<1>3. Each(coded, w) = Coded(SingleCode(D), w)
  <2>1. Each(coded, w) = FlattenSeq([i \in DOMAIN w |-> coded(w[i])])
    BY DEF Each
  <2> QED  BY <1>2, <2>1 DEF Coded, Mapped
<1>4. SingleQuoted(w) = <<"'">> \o Each(coded, w) \o <<"'">>
  BY DEF SingleQuoted
<1> HIDE DEF coded
<1> QED  BY <1>3, <1>4 DEF One, Apostrophe

LEMMA QuoteSingle ==
  ASSUME NEW D, Slash \in D, Apostrophe \in D, NEW w \in Seq(D)
  PROVE  SingleQuoted(w) \in Seq(D) /\ ReadsAs(SingleQuoted(w), w)
<1> DEFINE enc == SingleCode(D)
           text == (One(Apostrophe) \o Coded(enc, w)) \o One(Apostrophe)
<1>1. enc \in [D -> Seq(D)]
  <2>1. \A c \in D : One(c) \in Seq(D) /\ Four(c, Slash, c, c) \in Seq(D)
    BY DEF One, Four
  <2> QED  BY <2>1 DEF SingleCode
<1>2. ASSUME NEW ws
      PROVE  Pass("line", Between(ws), text) = InLine(ws, w, "plain") /\ text \in Seq(D)
  <2> DEFINE g == [t \in Seq(D) |-> InLine(ws, t, "single")]
  <2>1. TakesTexts("line", D, enc, g)
    <3>1. ASSUME NEW t \in Seq(D), NEW c \in D
          PROVE  Pass("line", g[t], enc[c]) = g[Append(t, c)]
      <4> DEFINE u == Append(t, c)
      <4>1. u \in Seq(D) /\ g[t] = InLine(ws, t, "single") /\ g[u] = InLine(ws, u, "single")
        OBVIOUS
      <4>2. LineReads(D, ws, t, c) /\ LineReads(D, ws, u, c)
        BY <4>1, LineRead
      <4>3. /\ Read("line", InLine(ws, t, "single"), Apostrophe) = InLine(ws, t, "plain")
            /\ Read("line", InLine(ws, t, "plain"), Slash) = InLine(ws, t, "escape")
            /\ Read("line", InLine(ws, t, "escape"), c) = InLine(ws, u, "plain")
            /\ c # Apostrophe => Read("line", InLine(ws, t, "single"), c) = InLine(ws, u, "single")
        BY <4>2 DEF LineReads
      <4>4. Read("line", InLine(ws, u, "plain"), Apostrophe) = InLine(ws, u, "single")
        BY <4>2 DEF LineReads
      <4>5. enc[c] = IF c = Apostrophe THEN Four(c, Slash, c, c) ELSE One(c)
        BY DEF SingleCode
      <4> HIDE DEF enc, g, u
      <4>6. CASE c = Apostrophe
        <5>1. Pass("line", InLine(ws, t, "single"), Four(c, Slash, c, c)) = InLine(ws, u, "single")
          BY <4>3, <4>4, <4>6, PassFour
        <5> QED  BY <4>1, <4>5, <4>6, <5>1 DEF u
      <4>7. CASE c # Apostrophe
        <5>1. Pass("line", InLine(ws, t, "single"), One(c)) = InLine(ws, u, "single")
          BY <4>3, <4>7, PassOne
        <5> QED  BY <4>1, <4>5, <4>7, <5>1 DEF u
      <4> QED  BY <4>6, <4>7
    <3> HIDE DEF enc, g
    <3> QED  BY <3>1 DEF TakesTexts
  <2> DEFINE none == <<>>
             pre == One(Apostrophe)
  <2>2. none \in Seq(D) /\ pre \in Seq(D) /\ g[none] = InLine(ws, none, "single") /\ g[w] = InLine(ws, w, "single")
    BY CodesAreTexts
  <2> HIDE DEF g, enc, none
  <2>3. LineReads(D, ws, none, Apostrophe) /\ LineReads(D, ws, w, Apostrophe)
    BY <2>2, LineRead
  <2>4. Read("line", Between(ws), Apostrophe) = InLine(ws, none, "single")
    BY <2>3 DEF LineReads, none
  <2>5. Read("line", InLine(ws, w, "single"), Apostrophe) = InLine(ws, w, "plain")
    BY <2>3 DEF LineReads
  <2>6. Pass("line", Between(ws), pre) = g[<<>>]
    BY <2>2, <2>4, PassOne DEF none
  <2> HIDE DEF pre
  <2>7. PassesQuoted("line", Between(ws), D, pre, enc, w, Apostrophe, Read("line", g[w], Apostrophe))
    BY <1>1, <2>1, <2>2, <2>6, PassQuoted
  <2> QED  BY <2>2, <2>5, <2>7 DEF pre, PassesQuoted
<1>3. SingleQuoted(w) = text
  BY SingleQuotedIs
<1> HIDE DEF text
<1> QED  BY <1>2, <1>3 DEF ReadsAs

-----------------------------------------------------------------------------
(* Words in the quotes of control characters, and bare ones.                *)

(* $'...'                                                                  *)

AnsiCode(D) ==
  [c \in D |-> IF c \in Controls THEN Two(Slash, Letter[c])
               ELSE IF c \in {Slash, Apostrophe} THEN Two(Slash, c) ELSE One(c)]
Letters == {Letter[c] : c \in Controls}

LEMMA LettersDecode ==
  /\ \A c \in Controls : Decoded(Letter[c]) = c
  /\ Decoded(Slash) = Slash /\ Decoded(Apostrophe) = Apostrophe
  /\ Slash \notin Controls /\ Apostrophe \notin Controls
<1>1. Controls = {"\t", "bell"} /\ Letter["\t"] = "t" /\ Letter["bell"] = "a"
  BY Zenon DEF Controls, Letter
<1>2. \A c \in Controls : Decoded(Letter[c]) = c
  BY <1>1 DEF Decoded
<1>3. Slash # "t" /\ Slash # "a" /\ Apostrophe # "t" /\ Apostrophe # "a"
  BY Zenon DEF Slash, Apostrophe
<1>4. Decoded(Slash) = Slash /\ Decoded(Apostrophe) = Apostrophe
  BY <1>1, <1>3 DEF Decoded
<1>5. Slash \notin Controls /\ Apostrophe \notin Controls
  BY Zenon DEF Slash, Apostrophe, Controls
<1> QED  BY <1>2, <1>4, <1>5

LEMMA AnsiQuotedIs ==
  ASSUME NEW D, NEW w \in Seq(D)
  PROVE  AnsiQuoted(w) = (Two(Dollar, Apostrophe) \o Coded(AnsiCode(D), w)) \o One(Apostrophe)
<1> DEFINE coded(c) == IF c \in Controls THEN <<Slash, Letter[c]>>
                       ELSE IF c \in {Slash, "'"} THEN <<Slash, c>> ELSE <<c>>
<1>1. \A i \in DOMAIN w : w[i] \in D
  OBVIOUS
<1>2. [i \in DOMAIN w |-> coded(w[i])] = [i \in DOMAIN w |-> AnsiCode(D)[w[i]]]
  BY <1>1 DEF AnsiCode, One, Two, Apostrophe
<1>3. Each(coded, w) = Coded(AnsiCode(D), w)
  <2>1. Each(coded, w) = FlattenSeq([i \in DOMAIN w |-> coded(w[i])])
    BY DEF Each
  <2> QED  BY <1>2, <2>1 DEF Coded, Mapped
<1>4. AnsiQuoted(w) = <<"$", "'">> \o Each(coded, w) \o <<"'">>
  BY DEF AnsiQuoted
<1> HIDE DEF coded
<1> QED  BY <1>3, <1>4 DEF One, Two, Apostrophe, Dollar

LEMMA QuoteAnsi ==
  ASSUME NEW D, {Slash, Apostrophe, Dollar} \cup Letters \subseteq D, NEW w \in Seq(D)
  PROVE  AnsiQuoted(w) \in Seq(D) /\ ReadsAs(AnsiQuoted(w), w)
<1> DEFINE enc == AnsiCode(D)
           text == (Two(Dollar, Apostrophe) \o Coded(enc, w)) \o One(Apostrophe)
<1>1. enc \in [D -> Seq(D)]
  <2>1. \A c \in Controls : Letter[c] \in D
    BY DEF Letters
  <2> QED  BY <2>1, CodesAreTexts DEF AnsiCode
<1>4. Two(Dollar, Apostrophe) \in Seq(D)
  BY CodesAreTexts
<1>2. ASSUME NEW ws
      PROVE  Pass("line", Between(ws), text) = InLine(ws, w, "plain") /\ text \in Seq(D)
  <2> DEFINE g == [t \in Seq(D) |-> InLine(ws, t, "ansi")]
  <2>1. TakesTexts("line", D, enc, g)
    <3>1. ASSUME NEW t \in Seq(D), NEW c \in D
          PROVE  Pass("line", g[t], enc[c]) = g[Append(t, c)]
      <4> DEFINE u == Append(t, c)
      <4>1. u \in Seq(D) /\ g[t] = InLine(ws, t, "ansi") /\ g[u] = InLine(ws, u, "ansi")
        OBVIOUS
      <4>2. LineReads(D, ws, t, c)
        BY LineRead
      <4>3. Read("line", InLine(ws, t, "ansi"), Slash) = InLine(ws, t, "ansiEscape")
            /\ ((c # Apostrophe /\ c # Slash) => Read("line", InLine(ws, t, "ansi"), c) = InLine(ws, u, "ansi"))
        BY <4>2 DEF LineReads
      <4>4. ASSUME NEW e, Decoded(e) = c
            PROVE  Read("line", InLine(ws, t, "ansiEscape"), e) = InLine(ws, u, "ansi")
        <5>1. Read("line", InLine(ws, t, "ansiEscape"), e) = InLine(ws, Append(t, Decoded(e)), "ansi")
          BY <4>4, LineDecodes
        <5> QED  BY <4>4, <5>1
      <4>5. enc[c] = IF c \in Controls THEN Two(Slash, Letter[c])
                     ELSE IF c \in {Slash, Apostrophe} THEN Two(Slash, c) ELSE One(c)
        BY DEF AnsiCode
      <4> HIDE DEF enc, g, u
      <4>6. ASSUME NEW e, Decoded(e) = c
            PROVE  Pass("line", InLine(ws, t, "ansi"), Two(Slash, e)) = InLine(ws, u, "ansi")
        BY <4>3, <4>4, <4>6, PassTwo
      <4>7. CASE c \in Controls
        <5>1. Pass("line", InLine(ws, t, "ansi"), Two(Slash, Letter[c])) = InLine(ws, u, "ansi")
          BY <4>6, <4>7, LettersDecode
        <5> QED  BY <4>1, <4>5, <4>7, <5>1 DEF u
      <4>8. CASE c \in {Slash, Apostrophe}
        <5>1. Pass("line", InLine(ws, t, "ansi"), Two(Slash, c)) = InLine(ws, u, "ansi")
          BY <4>6, <4>8, LettersDecode
        <5>2. c \notin Controls
          BY <4>8, LettersDecode
        <5> QED  BY <4>1, <4>5, <4>8, <5>1, <5>2 DEF u
      <4>9. CASE c \notin Controls /\ c \notin {Slash, Apostrophe}
        <5>1. Pass("line", InLine(ws, t, "ansi"), One(c)) = InLine(ws, u, "ansi")
          BY <4>3, <4>9, PassOne
        <5> QED  BY <4>1, <4>5, <4>9, <5>1 DEF u
      <4> QED  BY <4>7, <4>8, <4>9
    <3> HIDE DEF enc, g
    <3> QED  BY <3>1 DEF TakesTexts
  <2> DEFINE none == <<>>
             pre == Two(Dollar, Apostrophe)
  <2>2. none \in Seq(D) /\ pre \in Seq(D) /\ g[none] = InLine(ws, none, "ansi") /\ g[w] = InLine(ws, w, "ansi")
    BY <1>4
  <2> HIDE DEF g, enc, none
  <2>3. LineReads(D, ws, none, Apostrophe) /\ LineReads(D, ws, w, Apostrophe)
    BY <2>2, LineRead
  <2>4. Read("line", Between(ws), Dollar) = InDollar(ws) /\ Read("line", InDollar(ws), Apostrophe) = InLine(ws, none, "ansi")
    BY <2>3 DEF LineReads, none
  <2>5. Read("line", InLine(ws, w, "ansi"), Apostrophe) = InLine(ws, w, "plain")
    BY <2>3 DEF LineReads
  <2>6. Pass("line", Between(ws), pre) = g[<<>>]
    BY <2>2, <2>4, PassTwo DEF none
  <2> HIDE DEF pre
  <2>7. PassesQuoted("line", Between(ws), D, pre, enc, w, Apostrophe, Read("line", g[w], Apostrophe))
    BY <1>1, <2>1, <2>2, <2>6, PassQuoted
  <2> QED  BY <2>2, <2>5, <2>7 DEF pre, PassesQuoted
<1>3. AnsiQuoted(w) = text
  BY AnsiQuotedIs
<1> HIDE DEF text
<1> QED  BY <1>2, <1>3 DEF ReadsAs

-----------------------------------------------------------------------------
(* A bare word, its special characters behind backslashes.                 *)

Piece(w, i) == IF Escaped(w, i) THEN Two(Slash, w[i]) ELSE One(w[i])
Pieces(w) == [i \in DOMAIN w |-> Piece(w, i)]

(* What is not escaped stands for itself.                                  *)
LEMMA BareOrEscaped ==
  ASSUME NEW w, ~Has(w, Controls), NEW i \in DOMAIN w, ~Escaped(w, i)
  PROVE  Bare(w[i]) /\ (w[i] = Hash => i # 1)
<1>1. Blanks \cup ShellSyntax \cup {Apostrophe, Quote, Slash, Dollar} \subseteq Special \ {"#", "~", "="}
  BY Zenon DEF Blanks, Blank, ShellSyntax, Apostrophe, Quote, Slash, Dollar, Special
<1> QED  BY <1>1 DEF Escaped, Bare, Hash

LEMMA PiecesAre ==
  ASSUME NEW D, Slash \in D, NEW w \in Seq(D)
  PROVE  Pieces(w) \in Seq(Seq(D)) /\ Len(Pieces(w)) = Len(w)
<1>1. Len(w) \in Nat /\ DOMAIN w = 1 .. Len(w) /\ \A i \in 1 .. Len(w) : w[i] \in D
  OBVIOUS
<1>2. \A i \in 1 .. Len(w) : Piece(w, i) \in Seq(D)
  BY <1>1, CodesAreTexts DEF Piece
<1>3. Pieces(w) \in [1 .. Len(w) -> Seq(D)]
  BY <1>1, <1>2 DEF Pieces
<1> DEFINE ps == Pieces(w)
           n == Len(w)
<1> HIDE DEF ps
<1>4. ps \in [1 .. n -> Seq(D)] /\ n \in Nat
  BY <1>1, <1>3 DEF ps
<1> HIDE DEF n
<1>5. ps \in Seq(Seq(D)) /\ Len(ps) = n
  BY <1>4
<1> QED  BY <1>5 DEF ps, n

LEMMA PieceFirst ==
  ASSUME NEW D, NEW w \in Seq(D), w # <<>>, ~Has(w, Controls), NEW ws
  PROVE  Pass("line", Between(ws), Piece(w, 1)) = InLine(ws, One(w[1]), "plain")
<1> DEFINE c == w[1]
           none == <<>>
<1>1. c \in D /\ none \in Seq(D) /\ 1 \in DOMAIN w
  OBVIOUS
<1>2. Append(none, c) = One(c)
  BY DEF One
<1> HIDE DEF none
<1>3. LineReads(D, ws, none, c)
  <2> HIDE DEF c
  <2> QED  BY <1>1, LineRead
<1>4. CASE Escaped(w, 1)
  <2>1. Piece(w, 1) = Two(Slash, c)
    BY <1>4 DEF Piece
  <2> HIDE DEF c
  <2>2. Read("line", Between(ws), Slash) = InLine(ws, none, "escape")
        /\ Read("line", InLine(ws, none, "escape"), c) = InLine(ws, Append(none, c), "plain")
    BY <1>3 DEF LineReads, none
  <2>3. Pass("line", Between(ws), Two(Slash, c)) = InLine(ws, One(c), "plain")
    BY <1>2, <2>2, PassTwo
  <2> QED  BY <2>1, <2>3 DEF c
<1>5. CASE ~Escaped(w, 1)
  <2>1. Piece(w, 1) = One(c) /\ Bare(c) /\ c # Hash
    BY <1>1, <1>5, BareOrEscaped DEF Piece
  <2> HIDE DEF c
  <2>2. Read("line", Between(ws), c) = InLine(ws, One(c), "plain")
    BY <1>3, <2>1 DEF LineReads
  <2>3. Pass("line", Between(ws), One(c)) = InLine(ws, One(c), "plain")
    BY <2>2, PassOne
  <2> QED  BY <2>1, <2>3 DEF c
<1> QED  BY <1>4, <1>5

LEMMA PieceNext ==
  ASSUME NEW D, NEW w \in Seq(D), ~Has(w, Controls), NEW ws, NEW t \in Seq(D), NEW i \in DOMAIN w
  PROVE  Pass("line", InLine(ws, t, "plain"), Piece(w, i)) = InLine(ws, Append(t, w[i]), "plain")
<1> DEFINE c == w[i]
<1>1. c \in D
  OBVIOUS
<1>3. LineReads(D, ws, t, c)
  <2> HIDE DEF c
  <2> QED  BY <1>1, LineRead
<1>4. CASE Escaped(w, i)
  <2>1. Piece(w, i) = Two(Slash, c)
    BY <1>4 DEF Piece
  <2> HIDE DEF c
  <2>2. Read("line", InLine(ws, t, "plain"), Slash) = InLine(ws, t, "escape")
        /\ Read("line", InLine(ws, t, "escape"), c) = InLine(ws, Append(t, c), "plain")
    BY <1>3 DEF LineReads
  <2>3. Pass("line", InLine(ws, t, "plain"), Two(Slash, c)) = InLine(ws, Append(t, c), "plain")
    BY <2>2, PassTwo
  <2> QED  BY <2>1, <2>3 DEF c
<1>5. CASE ~Escaped(w, i)
  <2>1. Piece(w, i) = One(c) /\ Bare(c)
    BY <1>5, BareOrEscaped DEF Piece
  <2> HIDE DEF c
  <2>2. Read("line", InLine(ws, t, "plain"), c) = InLine(ws, Append(t, c), "plain")
    BY <1>3, <2>1 DEF LineReads
  <2>3. Pass("line", InLine(ws, t, "plain"), One(c)) = InLine(ws, Append(t, c), "plain")
    BY <2>2, PassOne
  <2> QED  BY <2>1, <2>3 DEF c
<1> QED  BY <1>4, <1>5

(* The pass after the pieces of the first k characters.                    *)
LEMMA QuoteBare ==
  ASSUME NEW D, Slash \in D, NEW w \in Seq(D), w # <<>>, ~Has(w, Controls)
  PROVE  FlattenSeq(Pieces(w)) \in Seq(D) /\ ReadsAs(FlattenSeq(Pieces(w)), w)
<1> DEFINE ps == Pieces(w)
           front(k) == SubSeq(ps, 1, k)
           begun(k) == SubSeq(w, 1, k)
<1>1. ps \in Seq(Seq(D)) /\ Len(ps) = Len(w) /\ Len(w) \in Nat \ {0}
  <2>1. Pieces(w) \in Seq(Seq(D)) /\ Len(Pieces(w)) = Len(w)
    BY PiecesAre
  <2> QED  BY <2>1
<1>4. \A i \in DOMAIN w : ps[i] = Piece(w, i)
  BY DEF Pieces
<1> HIDE DEF ps
<1>2. FlattenSeq(ps) \in Seq(D)
  BY <1>1, FlattenTyped
<1>3. ASSUME NEW ws
      PROVE  Pass("line", Between(ws), FlattenSeq(ps)) = InLine(ws, w, "plain")
  <2> DEFINE read(k) == Pass("line", Between(ws), FlattenSeq(front(k)))
             S == {k \in Nat : k + 1 <= Len(w) => read(k + 1) = InLine(ws, begun(k + 1), "plain")}
  <2>6. SubSeq(ps, 1, 0) = <<>> /\ SubSeq(w, 1, 0) = <<>>
    BY <1>1, TextWhole
  <2>1. 0 \in S
    <3> DEFINE none == <<>>
    <3>1. front(1) = Append(none, Piece(w, 1)) /\ begun(1) = Append(none, w[1]) /\ Piece(w, 1) \in Seq(D)
      <4>1. 1 \in DOMAIN w /\ 0 + 1 <= Len(w) /\ 0 \in Nat
        BY <1>1
      <4>2. SubSeq(ps, 1, 0 + 1) = Append(SubSeq(ps, 1, 0), ps[0 + 1]) /\ ps[0 + 1] \in Seq(D)
        BY <1>1, <4>1, TextGrows
      <4>3. SubSeq(w, 1, 0 + 1) = Append(SubSeq(w, 1, 0), w[0 + 1])
        BY <1>1, <4>1, TextGrows
      <4>4. SubSeq(ps, 1, 0) = none /\ SubSeq(w, 1, 0) = none
        BY <2>6
      <4>5. 0 + 1 = 1 /\ ps[1] = Piece(w, 1)
        BY <1>4, <4>1
      <4> HIDE DEF none
      <4>6. SubSeq(ps, 1, 1) = Append(none, Piece(w, 1)) /\ Piece(w, 1) \in Seq(D)
        BY <4>2, <4>4, <4>5
      <4>7. SubSeq(w, 1, 1) = Append(none, w[1])
        BY <4>3, <4>4, <4>5
      <4> QED  BY <4>6, <4>7
    <3>2. Append(none, w[1]) = One(w[1]) /\ none \in Seq(Seq(D))
      BY DEF One
    <3> HIDE DEF front, begun, none
    <3>3. FlattenSeq(Append(none, Piece(w, 1))) = IF none = <<>> THEN Piece(w, 1) ELSE FlattenSeq(none) \o Piece(w, 1)
      BY <3>1, <3>2, FlattenGrows
    <3>4. read(1) = InLine(ws, begun(1), "plain")
      BY <3>1, <3>2, <3>3, PieceFirst DEF none
    <3> HIDE DEF read
    <3> QED  BY <3>4
  <2>2. ASSUME NEW k \in Nat, k \in S
        PROVE  k + 1 \in S
    <3> SUFFICES ASSUME (k + 1) + 1 <= Len(w)
                 PROVE  read((k + 1) + 1) = InLine(ws, begun((k + 1) + 1), "plain")
      OBVIOUS
    <3> DEFINE n == k + 1
               x == FlattenSeq(front(n))
               y == Piece(w, n + 1)
               t == begun(n)
    <3>1. n \in Nat /\ n + 1 <= Len(w) /\ n <= Len(w) /\ n # 0 /\ n + 1 \in DOMAIN w
      BY <1>1
    <3>2. read(n) = InLine(ws, t, "plain")
      BY <2>2, <3>1
    <3> HIDE DEF n
    <3>3. /\ front(n) \in Seq(Seq(D)) /\ ps[n + 1] \in Seq(D)
          /\ front(n + 1) = Append(front(n), ps[n + 1])
      BY <1>1, <3>1, TextGrows
    <3>4. t \in Seq(D) /\ begun(n + 1) = Append(t, w[n + 1])
      BY <1>1, <3>1, TextGrows
    <3>5. front(n) # <<>>
      <4>1. Len(front(n)) = n
        BY <1>1, <3>1
      <4> HIDE DEF front
      <4> QED  BY <3>1, <4>1
    <3>6. y = ps[n + 1]
      BY <1>4, <3>1
    <3> HIDE DEF front, begun, y
    <3>7. FlattenSeq(front(n + 1)) = x \o y /\ x \in Seq(D) /\ y \in Seq(D)
      <4>1. FlattenSeq(front(n + 1)) = FlattenSeq(front(n)) \o y
        BY <3>3, <3>5, <3>6, FlattenGrows
      <4>2. FlattenSeq(front(n)) \in Seq(D)
        BY <3>3, FlattenTyped
      <4> QED  BY <3>3, <3>6, <4>1, <4>2
    <3> HIDE DEF x
    <3>8. Pass("line", Between(ws), x \o y) = Pass("line", Pass("line", Between(ws), x), y)
      BY <3>7, PassJoins
    <3>9. Pass("line", InLine(ws, t, "plain"), y) = InLine(ws, Append(t, w[n + 1]), "plain")
      <4> HIDE DEF t
      <4> QED  BY <3>1, <3>4, PieceNext DEF y
    <3>10. read(n + 1) = InLine(ws, begun(n + 1), "plain")
      BY <3>2, <3>4, <3>7, <3>8, <3>9 DEF x
    <3> HIDE DEF read
    <3> QED  BY <3>10 DEF n
  <2> HIDE DEF S
  <2>3. \A k \in Nat : k \in S
    BY <2>1, <2>2, NatInSet
  <2>4. read(Len(w)) = InLine(ws, begun(Len(w)), "plain")
    <3> DEFINE k == Len(w) - 1
    <3>1. k \in Nat /\ k + 1 = Len(w) /\ k + 1 <= Len(w)
      BY <1>1
    <3> HIDE DEF k, read
    <3>2. read(k + 1) = InLine(ws, begun(k + 1), "plain")
      BY <2>3, <3>1 DEF S
    <3> QED  BY <3>1, <3>2
  <2>5. front(Len(w)) = ps /\ begun(Len(w)) = w
    BY <1>1, TextWhole
  <2> QED  BY <2>4, <2>5
<1> QED  BY <1>2, <1>3 DEF ReadsAs, ps

-----------------------------------------------------------------------------
(* The ends of a quoted word.                                               *)

(* A quoted word starts with no blank and, unless the word does, ends with *)
(* none: nothing at its ends is trimmed.                                   *)
EndsInBlank(w) == w # <<>> /\ w[Len(w)] = Blank
EndsStay(q, w) == Len(q) # 0 /\ q[1] \notin Blanks /\ (EndsInBlank(w) \/ q[Len(q)] \notin Blanks)

LEMMA QuotedStays ==
  ASSUME NEW D, NEW pre \in Seq(D), NEW mid \in Seq(D), NEW a \in D, NEW w,
         Len(pre) # 0, pre[1] \notin Blanks, a \notin Blanks
  PROVE  EndsStay((pre \o mid) \o One(a), w)
<1> DEFINE x == pre \o mid
           y == One(a)
           t == x \o y
<1>1. Joins(pre, mid, D)
  BY JoinIs
<1>2. y \in Seq(D) /\ Len(y) = 1 /\ y[1] = a
  BY DEF One
<1>3. x \in Seq(D) /\ Len(x) # 0 /\ x[1] = pre[1]
  BY <1>1 DEF Joins
<1> HIDE DEF x, y
<1>4. Joins(x, y, D)
  BY <1>2, <1>3, JoinIs
<1>5. Len(t) # 0 /\ t[1] = pre[1] /\ t[Len(t)] = a
  BY <1>2, <1>3, <1>4 DEF Joins
<1> HIDE DEF t
<1>6. EndsStay(t, w)
  BY <1>5 DEF EndsStay
<1> QED  BY <1>6 DEF t, x, y

LEMMA FlattenStarts ==
  ASSUME NEW D, NEW ss \in Seq(Seq(D)), ss # <<>>, Len(ss[1]) # 0
  PROVE  Len(FlattenSeq(ss)) # 0 /\ FlattenSeq(ss)[1] = ss[1][1]
<1> DEFINE A == Seq(D)
           Good(v) == (v # <<>> /\ Len(v[1]) # 0) => Len(FlattenSeq(v)) # 0 /\ FlattenSeq(v)[1] = v[1][1]
           S == {v \in Seq(A) : Good(v)}
<1>1. <<>> \in S
  OBVIOUS
<1>2. ASSUME NEW v \in Seq(A), NEW s \in A, v \in S
      PROVE  Append(v, s) \in S
  <2> DEFINE vs == Append(v, s)
             x == FlattenSeq(v)
  <2>1. vs \in Seq(A) /\ (v = <<>> => vs[1] = s) /\ (v # <<>> => vs[1] = v[1])
    OBVIOUS
  <2>2. FlattenSeq(vs) = IF v = <<>> THEN s ELSE x \o s
    BY FlattenGrows
  <2>3. x \in Seq(D)
    BY FlattenTyped
  <2>4. Good(v)
    BY <1>2
  <2>5. v # <<>> /\ Len(v[1]) # 0 => Len(x) # 0 /\ x[1] = v[1][1]
    BY <2>4
  <2> HIDE DEF x, vs
  <2>6. Joins(x, s, D) /\ Len(x) \in Nat
    BY <2>3, JoinIs
  <2>7. Len(x) # 0 => Len(x \o s) # 0 /\ (x \o s)[1] = x[1]
    BY <2>6 DEF Joins
  <2>8. Good(vs)
    <3>1. CASE v = <<>>
      BY <2>1, <2>2, <3>1
    <3>2. CASE v # <<>>
      BY <2>1, <2>2, <2>5, <2>7, <3>2
    <3> QED  BY <3>1, <3>2
  <2> HIDE DEF Good
  <2> QED  BY <2>1, <2>8 DEF vs
<1> HIDE DEF S
<1>3. \A v \in Seq(A) : v \in S
  BY <1>1, <1>2, ListInSet
<1> QED  BY <1>3 DEF S

LEMMA BareStays ==
  ASSUME NEW D, Slash \in D, NEW w \in Seq(D), w # <<>>, ~Has(w, Controls)
  PROVE  EndsStay(FlattenSeq(Pieces(w)), w)
<1> DEFINE ps == Pieces(w)
           q == FlattenSeq(ps)
           n == Len(w)
<1>1. ps \in Seq(Seq(D)) /\ Len(ps) = n /\ n \in Nat \ {0}
  <2>1. Pieces(w) \in Seq(Seq(D)) /\ Len(Pieces(w)) = Len(w)
    BY PiecesAre
  <2> QED  BY <2>1
<1>2. \A i \in DOMAIN w : ps[i] = Piece(w, i) /\ w[i] \in D
  BY DEF Pieces
<1>3. Len(ps[1]) # 0 /\ ps[1][1] \notin Blanks
  <2>1. 1 \in DOMAIN w
    BY <1>1
  <2>2. CASE Escaped(w, 1)
    <3>1. Piece(w, 1) = Two(Slash, w[1])
      BY <2>2 DEF Piece
    <3> QED  BY <1>2, <2>1, <3>1, CharsDiffer DEF Two
  <2>3. CASE ~Escaped(w, 1)
    <3>1. Piece(w, 1) = One(w[1]) /\ w[1] \notin Blanks
      BY <2>1, <2>3, BareOrEscaped DEF Piece, Bare
    <3> QED  BY <1>2, <2>1, <3>1 DEF One
  <2> QED  BY <2>2, <2>3
<1>4. ps # <<>>
  BY <1>1
<1>5. ps[n] \in Seq(D) /\ Len(ps[n]) # 0 /\ ps[n][Len(ps[n])] = w[n]
  <2>1. n \in DOMAIN w
    BY <1>1
  <2>2. ps[n] = Two(Slash, w[n]) \/ ps[n] = One(w[n])
    BY <1>2, <2>1 DEF Piece
  <2>3. w[n] \in D
    BY <1>2, <2>1
  <2> HIDE DEF n, ps
  <2>4. CASE ps[n] = Two(Slash, w[n])
    BY <2>3, <2>4, CodesAreTexts DEF Two
  <2>5. CASE ps[n] = One(w[n])
    BY <2>3, <2>5, CodesAreTexts DEF One
  <2> QED  BY <2>2, <2>4, <2>5
<1>6. EndsInBlank(w) \/ w[n] \notin Blanks
  <2>1. Blanks \subseteq Controls \cup {Blank}
    BY Zenon DEF Blanks, Controls
  <2>2. n \in DOMAIN w
    BY <1>1
  <2> QED  BY <2>1, <2>2 DEF EndsInBlank, Has
<1> HIDE DEF ps
<1>7. Len(q) # 0 /\ q[1] \notin Blanks
  BY <1>1, <1>3, <1>4, FlattenStarts
<1>8. q[Len(q)] = w[n]
  <2> HIDE DEF n
  <2> DEFINE k == n - 1
             front == SubSeq(ps, 1, k)
             x == FlattenSeq(front)
             y == ps[n]
  <2>1. k \in Nat /\ k + 1 = n
    BY <1>1
  <2> HIDE DEF k
  <2>2. front \in Seq(Seq(D)) /\ SubSeq(ps, 1, k + 1) = Append(front, ps[k + 1])
    BY <1>1, <2>1, TextGrows
  <2>3. SubSeq(ps, 1, n) = ps
    BY <1>1, TextWhole
  <2> HIDE DEF front
  <2>4. ps = Append(front, y)
    BY <2>1, <2>2, <2>3
  <2>5. FlattenSeq(Append(front, y)) = IF front = <<>> THEN y ELSE x \o y
    BY <1>5, <2>2, FlattenGrows
  <2>6. x \in Seq(D)
    BY <2>2, FlattenTyped
  <2>7. y \in Seq(D) /\ Len(y) # 0 /\ y[Len(y)] = w[n]
    BY <1>5
  <2> HIDE DEF x, y
  <2>8. Joins(x, y, D)
    BY <2>6, <2>7, JoinIs
  <2>9. (x \o y)[Len(x \o y)] = w[n]
    BY <2>6, <2>7, <2>8 DEF Joins
  <2> QED  BY <2>4, <2>5, <2>7, <2>9
<1> HIDE DEF q
<1>9. EndsStay(q, w)
  BY <1>6, <1>7, <1>8 DEF EndsStay
<1> QED  BY <1>9 DEF q, ps

-----------------------------------------------------------------------------
(* The whole line.                                                          *)

(* The characters the quoting of a command adds.                           *)
Marks == {Slash, Quote, Blank, Apostrophe, Dollar, "s"} \cup Letters

LEMMA QuoteBack ==
  ASSUME NEW D, Marks \subseteq D, NEW w \in Seq(D)
  PROVE  QuoteWord(w) \in Seq(D) /\ ReadsAs(QuoteWord(w), w) /\ EndsStay(QuoteWord(w), w)
<1> DEFINE a == Apostrophe
<1>1. Slash \in D /\ a \in D /\ Dollar \in D /\ {Slash, Apostrophe, Dollar} \cup Letters \subseteq D
  BY DEF Marks
<1>2. a \notin Blanks /\ Dollar \notin Blanks
  BY CharsDiffer
<1>3. CASE w = <<>>
  <2>1. QuoteWord(w) = Two(a, a)
    BY <1>3 DEF QuoteWord, Two, Apostrophe
  <2>2. Two(a, a) \in Seq(D)
    BY <1>1, CodesAreTexts
  <2>3. EndsStay(Two(a, a), w)
    BY <1>2 DEF EndsStay, Two
  <2> QED  BY <1>3, <2>1, <2>2, <2>3, QuoteNothing
<1>4. CASE w # <<>> /\ Has(w, NonAscii)
  <2>1. QuoteWord(w) = SingleQuoted(w)
    BY <1>4 DEF QuoteWord
  <2>2. SingleQuoted(w) \in Seq(D) /\ ReadsAs(SingleQuoted(w), w)
    BY <1>1, QuoteSingle
  <2> DEFINE mid == Coded(SingleCode(D), w)
             pre == One(a)
  <2>3. SingleQuoted(w) = (pre \o mid) \o One(a)
    BY SingleQuotedIs
  <2>4. mid \in Seq(D)
    <3> DEFINE enc == SingleCode(D)
    <3>1. enc \in [D -> Seq(D)]
      <4>1. \A c \in D : One(c) \in Seq(D) /\ Four(c, Slash, c, c) \in Seq(D)
        BY <1>1 DEF One, Four
      <4> QED  BY <4>1 DEF SingleCode
    <3> HIDE DEF enc
    <3>2. Codes(enc, D, D)
      BY <3>1, CodedGrows
    <3> QED  BY <3>2 DEF Codes, enc
  <2>5. pre \in Seq(D) /\ Len(pre) # 0 /\ pre[1] = a
    BY <1>1 DEF One
  <2> HIDE DEF mid, pre, a
  <2>6. EndsStay((pre \o mid) \o One(a), w)
    BY <1>1, <1>2, <2>4, <2>5, QuotedStays
  <2> QED  BY <2>1, <2>2, <2>3, <2>6
<1>5. CASE w # <<>> /\ ~Has(w, NonAscii) /\ Has(w, Controls)
  <2>1. QuoteWord(w) = AnsiQuoted(w)
    BY <1>5 DEF QuoteWord
  <2>2. AnsiQuoted(w) \in Seq(D) /\ ReadsAs(AnsiQuoted(w), w)
    BY <1>1, QuoteAnsi
  <2> DEFINE mid == Coded(AnsiCode(D), w)
             pre == Two(Dollar, a)
  <2>3. AnsiQuoted(w) = (pre \o mid) \o One(a)
    BY AnsiQuotedIs
  <2>4. mid \in Seq(D)
    <3> DEFINE enc == AnsiCode(D)
    <3>1. enc \in [D -> Seq(D)]
      <4>1. \A c \in Controls : Letter[c] \in D
        BY <1>1 DEF Letters
      <4> QED  BY <1>1, <4>1, CodesAreTexts DEF AnsiCode
    <3> HIDE DEF enc
    <3>2. Codes(enc, D, D)
      BY <3>1, CodedGrows
    <3> QED  BY <3>2 DEF Codes, enc
  <2>5. pre \in Seq(D) /\ Len(pre) # 0 /\ pre[1] = Dollar
    BY <1>1 DEF Two
  <2> HIDE DEF mid, pre, a
  <2>6. EndsStay((pre \o mid) \o One(a), w)
    BY <1>1, <1>2, <2>4, <2>5, QuotedStays
  <2> QED  BY <2>1, <2>2, <2>3, <2>6
<1>6. CASE w # <<>> /\ ~Has(w, NonAscii) /\ ~Has(w, Controls)
  <2> DEFINE q == FlattenSeq(Pieces(w))
  <2>1. QuoteWord(w) = q
    <3>1. [i \in DOMAIN w |-> IF Escaped(w, i) THEN <<Slash, w[i]>> ELSE <<w[i]>>] = Pieces(w)
      BY DEF Pieces, Piece, One, Two
    <3> QED  BY <1>6, <3>1 DEF QuoteWord
  <2>2. q \in Seq(D) /\ ReadsAs(q, w)
    BY <1>1, <1>6, QuoteBare
  <2>3. EndsStay(q, w)
    BY <1>1, <1>6, BareStays
  <2> QED  BY <2>1, <2>2, <2>3
<1> QED  BY <1>3, <1>4, <1>5, <1>6

-----------------------------------------------------------------------------
(* The line an argv is shown as reads back as the argv.                    *)

QuoteCode(D) == [w \in Seq(D) |-> QuoteWord(w)]

LEMMA QuoteCodeIs ==
  ASSUME NEW D, Marks \subseteq D
  PROVE  /\ QuoteCode(D) \in [Seq(D) -> Seq(D)]
         /\ \A w \in Seq(D) : ReadsAs(QuoteCode(D)[w], w) /\ EndsStay(QuoteCode(D)[w], w)
<1>1. \A w \in Seq(D) : QuoteWord(w) \in Seq(D) /\ ReadsAs(QuoteWord(w), w) /\ EndsStay(QuoteWord(w), w)
  BY QuoteBack
<1> QED  BY <1>1 DEF QuoteCode

LEMMA QuoteArgvIs ==
  ASSUME NEW D, NEW argv \in Seq(Seq(D))
  PROVE  QuoteArgv(argv) = Lined(QuoteCode(D), argv)
<1>1. \A i \in DOMAIN argv : argv[i] \in Seq(D)
  OBVIOUS
<1>2. [i \in DOMAIN argv |-> QuoteWord(argv[i])] = Mapped(QuoteCode(D), argv)
  BY <1>1 DEF Mapped, QuoteCode
<1> QED  BY <1>2 DEF QuoteArgv, Lined

(* All words but the last, and the last.                                   *)
LineAt(ws) == InLine(SubSeq(ws, 1, Len(ws) - 1), ws[Len(ws)], "plain")

LEMMA LineAtIs ==
  ASSUME NEW A, NEW ws \in Seq(A), NEW w \in A
  PROVE  LineAt(Append(ws, w)) = InLine(ws, w, "plain")
<1> DEFINE t == Append(ws, w)
<1>1. Len(t) - 1 = Len(ws) /\ t[Len(t)] = w /\ SubSeq(t, 1, Len(ws)) = ws
  <2>1. Len(t) = Len(ws) + 1 /\ t[Len(t)] = w /\ Len(ws) \in Nat
    OBVIOUS
  <2>2. SubSeq(t, 1, Len(ws)) = ws
    OBVIOUS
  <2> QED  BY <2>1, <2>2
<1> HIDE DEF t
<1>2. LineAt(t) = InLine(ws, w, "plain")
  BY <1>1 DEF LineAt
<1> QED  BY <1>2 DEF t

LEMMA ReadWordsBack ==
  ASSUME NEW D, Marks \subseteq D, NEW argv \in Seq(Seq(D)), argv # <<>>
  PROVE  ReadWords(QuoteArgv(argv)) = [kind |-> "words", words |-> argv]
<1> DEFINE f == QuoteCode(D)
           A == Seq(D)
           g == [ws \in Seq(A) |-> LineAt(ws)]
           start == Between(<<>>)
           end == Pass("line", start, QuoteArgv(argv))
<1>1. f \in [A -> Seq(D)] /\ \A w \in A : ReadsAs(f[w], w)
  BY QuoteCodeIs
<1>2. Blank \in D
  BY DEF Marks
<1>3. ASSUME NEW ws \in Seq(A), NEW w \in A
      PROVE  Pass("line", Between(ws), f[w]) = g[Append(ws, w)]
  <2> HIDE DEF f, A
  <2>1. Append(ws, w) \in Seq(A) /\ LineAt(Append(ws, w)) = InLine(ws, w, "plain")
    BY LineAtIs
  <2>2. g[Append(ws, w)] = InLine(ws, w, "plain")
    BY <2>1
  <2> HIDE DEF g
  <2>3. Pass("line", Between(ws), f[w]) = InLine(ws, w, "plain")
    BY <1>1 DEF ReadsAs
  <2> QED  BY <2>2, <2>3
<1>4. ASSUME NEW ws \in Seq(A), ws # <<>>
      PROVE  Read("line", g[ws], Blank) = Between(ws)
  <2>1. PICK t \in Seq(A), w \in A : ws = Append(t, w)
    <3> HIDE DEF A
    <3> QED  BY <1>4, LastOut
  <2>2. g[ws] = InLine(t, w, "plain")
    <3> HIDE DEF A
    <3>1. LineAt(Append(t, w)) = InLine(t, w, "plain")
      BY LineAtIs
    <3> QED  BY <2>1, <3>1
  <2>3. Read("line", InLine(t, w, "plain"), Blank) = Between(Append(t, w))
    <3>1. LineReads(D, t, w, Blank)
      BY <1>2, LineRead
    <3> QED  BY <3>1 DEF LineReads
  <2> QED  BY <2>1, <2>2, <2>3
<1>5. argv \in Seq(A) /\ <<>> \in Seq(A)
  BY DEF A
<1> HIDE DEF f, g, A
<1>6. TakesLines("line", start, A, f, g)
  BY <1>3, <1>4, <1>5 DEF TakesLines
<1>7. end = LineAt(argv)
  <2> HIDE DEF start
  <2>1. Pass("line", start, Lined(f, argv)) = g[argv]
    BY <1>1, <1>2, <1>5, <1>6, PassLined
  <2>2. QuoteArgv(argv) = Lined(f, argv)
    BY QuoteArgvIs DEF f
  <2>3. g[argv] = LineAt(argv)
    BY <1>5 DEF g
  <2> QED  BY <2>1, <2>2, <2>3
<1>8. PICK t \in Seq(A), w \in A : argv = Append(t, w)
  BY <1>5, LastOut
<1>9. end = InLine(t, w, "plain")
  <2>1. LineAt(Append(t, w)) = InLine(t, w, "plain")
    BY LineAtIs
  <2> HIDE DEF end
  <2> QED  BY <1>7, <1>8, <2>1
<1>10. EndsWord(end) = Between(argv)
  <2>1. EndsWord(InLine(t, w, "plain")) = Between(Append(t, w))
    BY LineEnds
  <2> HIDE DEF end
  <2> QED  BY <1>8, <1>9, <2>1
<1>11. end.at = "plain"
  <2> HIDE DEF end
  <2> QED  BY <1>9 DEF InLine
<1>12. ReadWords(QuoteArgv(argv)) =
         LET all == EndsWord(IF end.at = "bracket" THEN Puts(end, <<"[">>) ELSE end)
         IN  CASE end.at \in {"plain", "bracket", "comment"} -> [kind |-> "words", words |-> all.words]
               [] end.at \in {"shell", "dollar", "escape"} -> [kind |-> "shell", words |-> <<>>]
               [] OTHER -> [kind |-> "cut", words |-> <<>>]
  BY DEF ReadWords, Between
<1> HIDE DEF end
<1> QED  BY <1>10, <1>11, <1>12 DEF Between

-----------------------------------------------------------------------------
(* Nothing at the line's ends is trimmed.                                   *)

(* What ends in no blanks is not trimmed.                                  *)
LEMMA TrimmedIs ==
  ASSUME NEW D, NEW t \in Seq(D), Len(t) # 0, t[1] \notin Blanks, t[Len(t)] \notin Blanks
  PROVE  Trimmed(t) = t
<1> DEFINE kept == {i \in DOMAIN t : t[i] \notin Blanks}
           n == Len(t)
<1>1. n \in Nat \ {0} /\ DOMAIN t = 1 .. n
  OBVIOUS
<1>2. 1 \in kept /\ n \in kept /\ \A i \in kept : i \in Int /\ 1 <= i /\ i <= n
  BY <1>1
<1>3. SubSeq(t, 1, n) = t
  BY TextWhole
<1>4. Trimmed(t) = IF kept = {} THEN <<>> ELSE SubSeq(t, Min(kept), Max(kept))
  BY DEF Trimmed
<1>5. 1 \in Int /\ n \in Int
  BY <1>1
<1> HIDE DEF kept, n
<1>6. Min(kept) = 1
  <2>1. \E x \in kept : \A y \in kept : x <= y
    BY <1>2
  <2>2. Min(kept) \in kept /\ \A y \in kept : Min(kept) <= y
    BY <2>1 DEF Min
  <2> QED  BY <1>2, <2>2
<1>7. Max(kept) = n
  <2>1. \E x \in kept : \A y \in kept : x >= y
    BY <1>2, <1>5
  <2> DEFINE m == Max(kept)
  <2>2. m \in kept /\ \A y \in kept : m >= y
    BY <2>1 DEF Max
  <2> HIDE DEF m
  <2>3. m \in Int /\ m <= n /\ m >= n
    BY <1>2, <2>2
  <2>4. m = n
    BY <1>5, <2>3
  <2> QED  BY <2>4 DEF m
<1> QED  BY <1>2, <1>3, <1>4, <1>6, <1>7

(* A line starts and ends as its first and its last word do.               *)
LEMMA LineStays ==
  ASSUME NEW D, Marks \subseteq D, NEW argv \in Seq(Seq(D)), argv # <<>>
  PROVE  QuoteArgv(argv) \in Seq(D) /\ EndsStay(QuoteArgv(argv), argv[Len(argv)])
<1> DEFINE f == QuoteCode(D)
           A == Seq(D)
           Good(t) == t # <<>> => EndsStay(Lined(f, t), t[Len(t)])
           S == {t \in Seq(A) : Good(t)}
<1>1. f \in [A -> Seq(D)] /\ \A w \in A : f[w] \in Seq(D) /\ EndsStay(f[w], w)
  BY QuoteCodeIs
<1>2. Blank \in D
  BY DEF Marks
<1> HIDE DEF f, A
<1>3. MakesLines(f, A, D)
  BY <1>1, <1>2, LinedGrows
<1>4. <<>> \in S
  OBVIOUS
<1>5. ASSUME NEW t \in Seq(A), NEW w \in A, t \in S
      PROVE  Append(t, w) \in S
  <2> DEFINE x == Lined(f, t)
             y == f[w]
             tw == Append(t, w)
             one == One(Blank)
             b == one \o y
  <2>1. x \in Seq(D) /\ y \in Seq(D) /\ EndsStay(y, w)
    BY <1>1, <1>3 DEF MakesLines
  <2>2. Lined(f, tw) = IF t = <<>> THEN y ELSE x \o b
    BY <1>3 DEF MakesLines, One
  <2>3. tw \in Seq(A) /\ tw[Len(tw)] = w /\ tw # <<>>
    <3>1. Len(tw) = Len(t) + 1 /\ Len(t) \in Nat
      OBVIOUS
    <3>2. tw \in Seq(A) /\ tw[Len(t) + 1] = w
      OBVIOUS
    <3> HIDE DEF tw
    <3> QED  BY <3>1, <3>2
  <2>4. t # <<>> => Len(x) # 0 /\ x[1] \notin Blanks
    BY <1>5 DEF EndsStay
  <2>5. one \in Seq(D) /\ Len(one) = 1
    BY <1>2 DEF One
  <2> HIDE DEF x, y, tw, one
  <2>6. Joins(one, y, D)
    BY <2>1, <2>5, JoinIs
  <2>7. b \in Seq(D) /\ Len(b) = Len(y) + 1 /\ Len(y) \in Nat /\ (Len(y) # 0 => b[Len(b)] = y[Len(y)])
    <3>1. b \in Seq(D) /\ Len(b) = Len(y) + 1 /\ Len(y) \in Nat
      BY <2>5, <2>6 DEF Joins
    <3>2. Len(y) # 0 => b[Len(y) + 1] = y[Len(y)]
      BY <2>5, <2>6, <3>1 DEF Joins
    <3> QED  BY <3>1, <3>2
  <2>8. Len(y) # 0
    BY <2>1 DEF EndsStay
  <2> HIDE DEF b
  <2> DEFINE u == x \o b
  <2>9. Joins(x, b, D)
    BY <2>1, <2>7, JoinIs
  <2>10. Len(x) \in Nat /\ u \in Seq(D) /\ Len(u) = Len(b) + Len(x)
    BY <2>9 DEF Joins
  <2>11. u[Len(u)] = y[Len(y)] /\ Len(u) # 0 /\ (Len(x) # 0 => u[1] = x[1])
    <3>1. Len(b) \in 1 .. Len(b)
      BY <2>7
    <3>2. u[Len(b) + Len(x)] = b[Len(b)]
      BY <2>9, <3>1 DEF Joins
    <3>3. Len(x) # 0 => u[1] = x[1]
      BY <2>9, <2>10 DEF Joins
    <3> HIDE DEF u
    <3> QED  BY <2>7, <2>8, <2>10, <3>2, <3>3
  <2> HIDE DEF u
  <2>12. t = <<>> => EndsStay(Lined(f, tw), w)
    BY <2>1, <2>2
  <2>13. t # <<>> => EndsStay(Lined(f, tw), w)
    <3>1. t # <<>> => Lined(f, tw) = u
      BY <2>2 DEF u
    <3>2. t # <<>> => EndsStay(u, w)
      BY <2>1, <2>4, <2>11 DEF EndsStay
    <3> QED  BY <3>1, <3>2
  <2>14. tw \in S
    BY <2>3, <2>12, <2>13
  <2> QED  BY <2>14 DEF tw
<1> HIDE DEF S
<1>6. \A t \in Seq(A) : t \in S
  BY <1>4, <1>5, ListInSet
<1>7. argv \in Seq(A)
  BY DEF A
<1>8. Lined(f, argv) \in Seq(D)
  BY <1>3, <1>7 DEF MakesLines
<1>9. QuoteArgv(argv) = Lined(f, argv)
  BY QuoteArgvIs DEF f
<1> QED  BY <1>6, <1>7, <1>8, <1>9 DEF S

LEMMA LineIsTrimmed ==
  ASSUME NEW D, Marks \subseteq D, NEW argv \in Seq(Seq(D)), argv # <<>>, ~EndsInBlank(argv[Len(argv)])
  PROVE  Trimmed(QuoteArgv(argv)) = QuoteArgv(argv) /\ QuoteArgv(argv) # <<>>
<1> DEFINE q == QuoteArgv(argv)
<1>1. q \in Seq(D) /\ EndsStay(q, argv[Len(argv)])
  BY LineStays
<1> HIDE DEF q
<1>2. Len(q) # 0 /\ q[1] \notin Blanks /\ q[Len(q)] \notin Blanks
  BY <1>1 DEF EndsStay
<1>3. Trimmed(q) = q
  BY <1>1, <1>2, TrimmedIs
<1> QED  BY <1>2, <1>3 DEF q
=============================================================================
