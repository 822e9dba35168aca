----------------------------- MODULE TurnProofs -----------------------------
(***************************************************************************)
(* A turn from both ends.  What the model is given of the stored           *)
(* conversation stands for every item the agent may see, once, and is      *)
(* paired and ends with the newest item: whatever the agents, the          *)
(* configuration, the items and the interleaving of their turns.  And what *)
(* a client is shown of the answer, for any number of turns, tool calls,   *)
(* kinds of segments, events and reconnections.                            *)
(*                                                                         *)
(* The invariant of the first, ConvInv, says that the stored compaction,   *)
(* and the candidates a turn has taken down for one, are exactly what the  *)
(* agent saw up to some item: what other agents store while the summary is *)
(* written lies behind it.  TurnInv adds that each stored output answers a *)
(* call stored before it, and that a turn that has begun has an item after *)
(* the summary.                                                            *)
(***************************************************************************)
EXTENDS MCTurn, FiniteSetTheorems, SequenceTheorems, WellFoundedInduction, NaturalsInduction, TLAPS

-----------------------------------------------------------------------------
(* Induction up to a number, over a set.                                    *)
LEMMA UpTo ==
  ASSUME NEW n \in Nat, NEW S, 0 \in S, \A i \in 0..n : i < n /\ i \in S => i + 1 \in S
  PROVE  \A i \in 0..n : i \in S
<1> SUFFICES ASSUME \E i \in 0..n : i \notin S PROVE FALSE
  OBVIOUS
<1> DEFINE bad == {i \in 0..n : i \notin S}
           R == OpToRel(<, Nat)
<1>1. IsWellFoundedOn(R, Nat)
  BY NatLessThanWellFounded
<1>2. \A x, y \in Nat : x < y => <<x, y>> \in R
  BY DEF OpToRel
<1>3. bad \in SUBSET Nat /\ bad # {}
  OBVIOUS
<1> HIDE DEF R
<1> HIDE DEF bad
<1>4. PICK i \in bad : \A j \in bad : ~(<<j, i>> \in R)
  BY <1>1, <1>3, WFMin, Zenon
<1>5. i \in 0..n /\ i \notin S /\ i # 0
  BY <1>4 DEF bad
<1>6. i - 1 \in Nat /\ i - 1 < i /\ i - 1 \in 0..n /\ i - 1 < n /\ (i - 1) + 1 = i
  BY <1>5
<1>7. i - 1 \notin bad
  BY <1>2, <1>3, <1>4, <1>6
<1> QED BY <1>5, <1>6, <1>7 DEF bad

-----------------------------------------------------------------------------
(* Sequences. *)

Listed(s) == s \in Seq({s[i] : i \in DOMAIN s})

LEMMA ListedAppend ==
  ASSUME NEW s, Listed(s), NEW e
  PROVE  LET t == Append(s, e) IN
         /\ Listed(t) /\ Len(s) \in Nat /\ Len(t) = Len(s) + 1 /\ DOMAIN t = 1..(Len(s) + 1) /\ DOMAIN s = 1..Len(s)
         /\ t[Len(s) + 1] = e /\ \A i \in DOMAIN s : t[i] = s[i]
<1> DEFINE E == {s[i] : i \in DOMAIN s}
           F == E \cup {e}
           t == Append(s, e)
<1>1. s \in Seq(F)
  <2>1. s \in Seq(E)
    BY DEF Listed
  <2> HIDE DEF E
  <2> QED BY <2>1
<1>2. e \in F
  OBVIOUS
<1> HIDE DEF F, E
<1>3. /\ t \in Seq(F) /\ Len(s) \in Nat /\ Len(t) = Len(s) + 1 /\ DOMAIN t = 1..(Len(s) + 1) /\ DOMAIN s = 1..Len(s)
      /\ t[Len(s) + 1] = e /\ \A i \in DOMAIN s : t[i] = s[i]
  BY <1>1, <1>2
<1> HIDE DEF t
<1>4. t = [i \in 1..Len(t) |-> t[i]] /\ Len(t) \in Nat /\ DOMAIN t = 1..Len(t)
  BY <1>3
<1>5. Listed(t)
  BY <1>4 DEF Listed
<1> QED BY <1>3, <1>5 DEF t

LEMMA ListedConcat ==
  ASSUME NEW s, Listed(s), NEW e
  PROVE  LET t == <<e>> \o s IN
         /\ Listed(t) /\ Len(s) \in Nat /\ Len(t) = Len(s) + 1 /\ DOMAIN t = 1..(Len(s) + 1) /\ DOMAIN s = 1..Len(s)
         /\ t[1] = e /\ \A i \in DOMAIN s : t[i + 1] = s[i]
<1> DEFINE E == {s[i] : i \in DOMAIN s}
           F == E \cup {e}
           o == <<e>>
           t == o \o s
<1>1. s \in Seq(F)
  <2>1. s \in Seq(E)
    BY DEF Listed
  <2> HIDE DEF E
  <2> QED BY <2>1
<1>2. o \in Seq(F) /\ Len(o) = 1 /\ o[1] = e
  OBVIOUS
<1> HIDE DEF F, E, o
<1>3. /\ t \in Seq(F) /\ Len(t) = Len(o) + Len(s)
      /\ \A i \in 1..(Len(o) + Len(s)) : t[i] = IF i <= Len(o) THEN o[i] ELSE s[i - Len(o)]
  BY <1>1, <1>2, ConcatProperties
<1>31. Len(s) \in Nat /\ DOMAIN s = 1..Len(s) /\ DOMAIN t = 1..Len(t)
  BY <1>1, <1>3
<1>32. Len(t) = Len(s) + 1
  BY <1>2, <1>3, <1>31
<1>4. t[1] = e
  BY <1>2, <1>3, <1>31
<1>5. ASSUME NEW i \in DOMAIN s PROVE t[i + 1] = s[i]
  <2>1. i + 1 \in 1..(Len(o) + Len(s)) /\ ~(i + 1 <= Len(o)) /\ (i + 1) - Len(o) = i
    BY <1>2, <1>31
  <2> QED BY <1>3, <2>1
<1> HIDE DEF t
<1>6. t = [i \in 1..Len(t) |-> t[i]] /\ Len(t) \in Nat /\ DOMAIN t = 1..Len(t)
  BY <1>3, <1>31, <1>32
<1>7. Listed(t)
  BY <1>6 DEF Listed
<1> QED BY <1>31, <1>32, <1>4, <1>5, <1>7 DEF t, o

LEMMA ListedPrefix ==
  ASSUME NEW s, Listed(s), NEW m \in 0..Len(s)
  PROVE  LET t == SubSeq(s, 1, m) IN
         /\ Listed(t) /\ Len(t) = m /\ DOMAIN t = 1..m /\ Len(s) \in Nat /\ DOMAIN s = 1..Len(s)
         /\ \A i \in 1..m : t[i] = s[i] /\ i \in DOMAIN s
<1> DEFINE E == {s[i] : i \in DOMAIN s}
           t == SubSeq(s, 1, m)
<1>1. s \in Seq(E)
  BY DEF Listed
<1> HIDE DEF E
<1>2. /\ t \in Seq(E) /\ Len(t) = m /\ DOMAIN t = 1..m /\ Len(s) \in Nat /\ DOMAIN s = 1..Len(s)
      /\ \A i \in 1..m : t[i] = s[i] /\ i \in DOMAIN s
  BY <1>1
<1> HIDE DEF t
<1>3. t = [i \in 1..Len(t) |-> t[i]] /\ Len(t) \in Nat /\ DOMAIN t = 1..Len(t)
  BY <1>2
<1>4. Listed(t)
  BY <1>3 DEF Listed
<1> QED BY <1>2, <1>4 DEF t

LEMMA ListedEmpty == Listed(<<>>) /\ Len(<<>>) = 0 /\ DOMAIN <<>> = {}
  BY DEF Listed

LEMMA ListedOne ==
  ASSUME NEW e
  PROVE  Listed(<<e>>) /\ Len(<<e>>) = 1 /\ DOMAIN <<e>> = {1} /\ <<e>>[1] = e
  BY DEF Listed

-----------------------------------------------------------------------------
(* Keep. *)

(* f says where each item of k comes from: the places of t, in order.       *)
Picks(f, k, s, t, n) ==
  /\ Listed(k) /\ f \in [1..Len(k) -> Nat]
  /\ \A j \in 1..Len(k) : f[j] \in t /\ f[j] <= n /\ k[j] = s[f[j]]
  /\ \A i, j \in 1..Len(k) : i < j => f[i] < f[j]
  /\ \A p \in t : p <= n => \E j \in 1..Len(k) : f[j] = p

LEMMA KeepPicks ==
  ASSUME NEW s, Listed(s), NEW t \in SUBSET (DOMAIN s)
  PROVE  \E f : Picks(f, Keep(s, t), s, t, Len(s))
<1> DEFINE Goes(i, before) == IF i \in t THEN Append(before, s[i]) ELSE before
           Fit(n, f) == f = [i \in 0..n |-> IF i = 0 THEN <<>> ELSE Goes(i, f[i-1])]
           S == {n \in 0..Len(s) : \E f : Fit(n, f)}
<1> HIDE DEF Goes
<1>0. Len(s) \in Nat /\ DOMAIN s = 1..Len(s)
  BY DEF Listed
<1>1. 0 \in S
  <2> DEFINE f == [i \in 0..0 |-> <<>>]
  <2>1. Fit(0, f)
    OBVIOUS
  <2> HIDE DEF f, Fit
  <2> QED BY <2>1, <1>0
<1>2. ASSUME NEW n \in 0..Len(s), n < Len(s), n \in S PROVE n + 1 \in S
  <2>1. PICK f : Fit(n, f)
    BY <1>2
  <2> DEFINE g == [i \in 0..(n+1) |-> IF i = n + 1 THEN Goes(n + 1, f[n]) ELSE f[i]]
             h == [i \in 0..(n+1) |-> IF i = 0 THEN <<>> ELSE Goes(i, g[i-1])]
  <2>2. ASSUME NEW i \in 0..(n+1) PROVE g[i] = h[i]
    <3>1. CASE i = 0
      BY <2>1, <3>1, <1>0
    <3>2. CASE i = n + 1
      <4>1. i # 0 /\ i - 1 = n /\ n \in 0..(n+1) /\ n # n + 1
        BY <3>2
      <4>2. g[n] = f[n]
        BY <4>1
      <4> QED BY <3>2, <4>1, <4>2
    <3>3. CASE i # 0 /\ i # n + 1
      <4>1. i \in 0..n /\ i - 1 \in 0..(n+1) /\ i - 1 # n + 1 /\ i - 1 \in 0..n
        BY <3>3
      <4>2. f[i] = Goes(i, f[i-1])
        BY <2>1, <4>1, <3>3
      <4>3. g[i-1] = f[i-1] /\ g[i] = f[i]
        BY <4>1, <3>3
      <4> QED BY <4>2, <4>3, <3>3
    <3> QED BY <3>1, <3>2, <3>3
  <2>3. Fit(n + 1, g)
    <3>1. g = h
      BY <2>2
    <3> QED BY <3>1
  <2> HIDE DEF g, Fit
  <2>4. n + 1 \in 0..Len(s)
    BY <1>0, <1>2
  <2> QED BY <2>3, <2>4
<1>3. Len(s) \in S
  <2> HIDE DEF S
  <2>1. \A i \in 0..Len(s) : i \in S
    BY <1>0, <1>1, <1>2, UpTo
  <2> QED BY <2>1, <1>0
<1> DEFINE kept == CHOOSE kept : kept = [i \in 0..Len(s) |-> IF i = 0 THEN <<>> ELSE IF i \in t THEN Append(kept[i-1], s[i]) ELSE kept[i-1]]
<1>4. \E f : f = [i \in 0..Len(s) |-> IF i = 0 THEN <<>> ELSE IF i \in t THEN Append(f[i-1], s[i]) ELSE f[i-1]]
  BY <1>3 DEF Goes
<1>5. kept = [i \in 0..Len(s) |-> IF i = 0 THEN <<>> ELSE IF i \in t THEN Append(kept[i-1], s[i]) ELSE kept[i-1]]
  BY <1>4, Zenon
<1>6. Keep(s, t) = kept[Len(s)]
  BY Zenon DEF Keep
<1> HIDE DEF kept
<1>7. kept[0] = <<>> /\ \A i \in 1..Len(s) : kept[i] = Goes(i, kept[i-1])
  <2> DEFINE body(i) == IF i = 0 THEN <<>> ELSE IF i \in t THEN Append(kept[i-1], s[i]) ELSE kept[i-1]
  <2>1. \A i \in 0..Len(s) : kept[i] = body(i)
    BY <1>5, Zenon
  <2>2. 0 \in 0..Len(s) /\ \A i \in 1..Len(s) : i \in 0..Len(s) /\ i # 0
    BY <1>0
  <2> QED BY <2>1, <2>2 DEF Goes
<1> DEFINE T == {i \in 0..Len(s) : \E f : Picks(f, kept[i], s, t, i)}
<1>8. 0 \in T
  <2>1. Picks(<<>>, <<>>, s, t, 0)
    <3>1. 1..Len(<<>>) = {} /\ DOMAIN <<>> = {}
      OBVIOUS
    <3>2. <<>> \in [1..Len(<<>>) -> Nat]
      BY <3>1
    <3>3. \A p \in t : ~(p <= 0)
      BY <1>0
    <3> QED BY <3>1, <3>2, <3>3, ListedEmpty DEF Picks
  <2> QED BY <1>0, <1>7, <2>1
<1>9. ASSUME NEW n \in 0..Len(s), n < Len(s), n \in T PROVE n + 1 \in T
  <2>1. n + 1 \in 1..Len(s) /\ (n + 1) - 1 = n /\ n \in Nat /\ n + 1 \in 0..Len(s)
    BY <1>0, <1>9
  <2> DEFINE k == kept[n]
             q == kept[n + 1]
  <2>2. q = Goes(n + 1, k)
    BY <1>7, <2>1
  <2>3. PICK f : Picks(f, k, s, t, n)
    BY <1>9
  <2> HIDE DEF k, q
  <2>4. CASE n + 1 \notin t
    <3>1. q = k
      BY <2>2, <2>4 DEF Goes
    <3>2. \A p \in t : p <= n + 1 => p <= n
      BY <1>0, <2>1, <2>4
    <3>3. \A j \in 1..Len(k) : f[j] <= n + 1
      BY <2>1, <2>3 DEF Picks
    <3>4. Picks(f, q, s, t, n + 1)
      BY <2>3, <3>1, <3>2, <3>3 DEF Picks
    <3> QED BY <2>1, <3>4 DEF q
  <2>5. CASE n + 1 \in t
    <3>1. q = Append(k, s[n + 1])
      BY <2>2, <2>5 DEF Goes
    <3>2. Listed(k) /\ f \in [1..Len(k) -> Nat]
      BY <2>3 DEF Picks
    <3>3. /\ Listed(q) /\ Len(k) \in Nat /\ Len(q) = Len(k) + 1 /\ DOMAIN k = 1..Len(k)
          /\ q[Len(k) + 1] = s[n + 1] /\ \A i \in 1..Len(k) : q[i] = k[i]
      BY <3>1, <3>2, ListedAppend
    <3> DEFINE g == [j \in 1..Len(q) |-> IF j = Len(k) + 1 THEN n + 1 ELSE f[j]]
    <3>4. \A j \in 1..Len(q) : j \in 1..Len(k) \/ j = Len(k) + 1
      BY <3>3
    <3>5. /\ Len(k) + 1 \in 1..Len(q) /\ g[Len(k) + 1] = n + 1
          /\ \A j \in 1..Len(k) : j \in 1..Len(q) /\ g[j] = f[j] /\ j < Len(k) + 1
      BY <3>3
    <3>6. g \in [1..Len(q) -> Nat]
      BY <3>2, <3>4, <2>1
    <3> HIDE DEF g
    <3>7. \A j \in 1..Len(q) : g[j] \in t /\ g[j] <= n + 1 /\ q[j] = s[g[j]]
      <4> SUFFICES ASSUME NEW j \in 1..Len(q) PROVE g[j] \in t /\ g[j] <= n + 1 /\ q[j] = s[g[j]]
        OBVIOUS
      <4>1. CASE j = Len(k) + 1
        BY <4>1, <2>1, <2>5, <3>3, <3>5
      <4>2. CASE j \in 1..Len(k)
        <5>1. f[j] \in t /\ f[j] <= n /\ k[j] = s[f[j]] /\ f[j] \in Nat
          BY <2>3, <3>2, <4>2 DEF Picks
        <5> QED BY <2>1, <3>3, <3>5, <4>2, <5>1
      <4> QED BY <3>4, <4>1, <4>2
    <3>8. \A i, j \in 1..Len(q) : i < j => g[i] < g[j]
      <4> SUFFICES ASSUME NEW i \in 1..Len(q), NEW j \in 1..Len(q), i < j PROVE g[i] < g[j]
        OBVIOUS
      <4>1. i \in 1..Len(k)
        BY <3>3, <3>4
      <4>2. f[i] <= n /\ f[i] \in Nat
        BY <2>3, <3>2, <4>1 DEF Picks
      <4>3. CASE j = Len(k) + 1
        BY <2>1, <3>5, <4>1, <4>2, <4>3
      <4>4. CASE j \in 1..Len(k)
        <5>1. f[i] < f[j]
          BY <2>3, <4>1, <4>4 DEF Picks
        <5> QED BY <3>5, <4>1, <4>4, <5>1
      <4> QED BY <3>4, <4>3, <4>4
    <3>9. \A p \in t : p <= n + 1 => \E j \in 1..Len(q) : g[j] = p
      <4> SUFFICES ASSUME NEW p \in t, p <= n + 1 PROVE \E j \in 1..Len(q) : g[j] = p
        OBVIOUS
      <4>1. CASE p = n + 1
        BY <3>5, <4>1
      <4>2. CASE p <= n
        <5>1. PICK j \in 1..Len(k) : f[j] = p
          BY <2>3, <4>2 DEF Picks
        <5> QED BY <3>5, <5>1
      <4>3. p \in Nat
        BY <1>0
      <4> QED BY <2>1, <4>1, <4>2, <4>3
    <3>10. Picks(g, q, s, t, n + 1)
      BY <3>3, <3>6, <3>7, <3>8, <3>9 DEF Picks
    <3> QED BY <2>1, <3>10 DEF q
  <2> QED BY <2>4, <2>5
<1>10. Len(s) \in T
  <2> HIDE DEF T
  <2>1. \A i \in 0..Len(s) : i \in T
    BY <1>0, <1>8, <1>9, UpTo
  <2> QED BY <2>1, <1>0
<1> QED BY <1>6, <1>10

-----------------------------------------------------------------------------
(* What an agent is shown. *)

(* s shows the items of T, each once, and in their order.                   *)
Lists(s, T) ==
  /\ Listed(s) /\ T \subseteq Nat /\ IdsOf(s) = T
  /\ \A i \in DOMAIN s : s[i].ids # {}
  /\ \A i, j \in DOMAIN s : i < j => \A x \in s[i].ids, y \in s[j].ids : x < y

Below(S, T) == \A x \in S, y \in T : x < y

LEMMA AppendLists ==
  ASSUME NEW s, NEW T, Lists(s, T), NEW e, e.ids \subseteq Nat, e.ids # {}, Below(T, e.ids)
  PROVE  Lists(Append(s, e), T \cup e.ids)
<1> DEFINE t == Append(s, e)
<1>1. /\ Listed(t) /\ Len(s) \in Nat /\ DOMAIN t = 1..(Len(s) + 1) /\ DOMAIN s = 1..Len(s)
      /\ t[Len(s) + 1] = e /\ \A i \in DOMAIN s : t[i] = s[i]
  BY ListedAppend DEF Lists
<1> HIDE DEF t
<1>2. \A i \in DOMAIN t : i \in DOMAIN s \/ i = Len(s) + 1
  BY <1>1
<1>3. \A i \in DOMAIN s : i \in DOMAIN t /\ i < Len(s) + 1 /\ s[i].ids \subseteq T /\ s[i].ids # {}
  BY <1>1 DEF Lists, IdsOf
<1>4. IdsOf(t) = T \cup e.ids
  <2>1. Len(s) + 1 \in DOMAIN t
    BY <1>1
  <2>2. \A x \in IdsOf(t) : x \in IdsOf(s) \/ x \in e.ids
    BY <1>1, <1>2 DEF IdsOf
  <2>3. \A x \in IdsOf(s) \cup e.ids : x \in IdsOf(t)
    BY <1>1, <1>3, <2>1 DEF IdsOf
  <2> QED BY <2>2, <2>3 DEF Lists
<1>5. \A i \in DOMAIN t : t[i].ids # {}
  BY <1>1, <1>2, <1>3
<1>6. \A i, j \in DOMAIN t : i < j => \A x \in t[i].ids, y \in t[j].ids : x < y
  <2> SUFFICES ASSUME NEW i \in DOMAIN t, NEW j \in DOMAIN t, i < j, NEW x \in t[i].ids, NEW y \in t[j].ids PROVE x < y
    OBVIOUS
  <2>1. i \in DOMAIN s
    BY <1>1, <1>2
  <2>2. CASE j \in DOMAIN s
    BY <1>1, <2>1, <2>2 DEF Lists
  <2>3. CASE j = Len(s) + 1
    BY <1>1, <1>3, <2>1, <2>3 DEF Below
  <2> QED BY <1>2, <2>2, <2>3
<1> QED BY <1>1, <1>4, <1>5, <1>6 DEF Lists, t

LEMMA FrontLists ==
  ASSUME NEW s, NEW T, Lists(s, T), NEW e, e.ids \subseteq Nat, e.ids # {}, Below(e.ids, T)
  PROVE  Lists(<<e>> \o s, T \cup e.ids)
<1> DEFINE t == <<e>> \o s
<1>1. /\ Listed(t) /\ Len(s) \in Nat /\ DOMAIN t = 1..(Len(s) + 1) /\ DOMAIN s = 1..Len(s)
      /\ t[1] = e /\ \A i \in DOMAIN s : t[i + 1] = s[i]
  BY ListedConcat DEF Lists
<1> HIDE DEF t
<1>2. \A i \in DOMAIN t : i = 1 \/ (i - 1 \in DOMAIN s /\ t[i] = s[i - 1])
  <2> SUFFICES ASSUME NEW i \in DOMAIN t, i # 1 PROVE i - 1 \in DOMAIN s /\ t[i] = s[i - 1]
    OBVIOUS
  <2>1. i - 1 \in DOMAIN s /\ (i - 1) + 1 = i
    BY <1>1
  <2>2. t[(i - 1) + 1] = s[i - 1]
    BY <1>1, <2>1
  <2> QED BY <2>1, <2>2
<1>3. \A i \in DOMAIN s : i + 1 \in DOMAIN t /\ s[i].ids \subseteq T /\ s[i].ids # {}
  BY <1>1 DEF Lists, IdsOf
<1>4. IdsOf(t) = T \cup e.ids
  <2>1. 1 \in DOMAIN t
    BY <1>1
  <2>2. \A x \in IdsOf(t) : x \in IdsOf(s) \/ x \in e.ids
    BY <1>1, <1>2 DEF IdsOf
  <2>3. \A x \in IdsOf(s) \cup e.ids : x \in IdsOf(t)
    BY <1>1, <1>3, <2>1 DEF IdsOf
  <2> QED BY <2>2, <2>3 DEF Lists
<1>5. \A i \in DOMAIN t : t[i].ids # {}
  BY <1>1, <1>2, <1>3
<1>6. \A i, j \in DOMAIN t : i < j => \A x \in t[i].ids, y \in t[j].ids : x < y
  <2> SUFFICES ASSUME NEW i \in DOMAIN t, NEW j \in DOMAIN t, i < j, NEW x \in t[i].ids, NEW y \in t[j].ids PROVE x < y
    OBVIOUS
  <2>1. j # 1 /\ j - 1 \in DOMAIN s /\ t[j] = s[j - 1]
    BY <1>1, <1>2
  <2>2. CASE i = 1
    BY <1>1, <1>3, <2>1, <2>2 DEF Below
  <2>3. CASE i - 1 \in DOMAIN s /\ t[i] = s[i - 1]
    <3>1. i - 1 < j - 1
      BY <1>1
    <3> QED BY <2>1, <2>3, <3>1 DEF Lists
  <2> QED BY <1>2, <2>2, <2>3
<1> QED BY <1>1, <1>4, <1>5, <1>6 DEF Lists, t

(* What of an item tells calls, what answers them, and the summary apart.   *)
Tag(x) == <<x.call, IF x.kind \in {"call", "output", "summary"} THEN x.kind ELSE "text">>
Text   == <<NoCall, "text">>

(* Each item is tagged like the stored items it stands for.                 *)
Named(s, C) == \A i \in DOMAIN s : \A x \in s[i].ids : C[x] = Tag(s[i])

LEMMA AppendNamed ==
  ASSUME NEW s, Listed(s), NEW C, Named(s, C), NEW e, \A x \in e.ids : C[x] = Tag(e)
  PROVE  Named(Append(s, e), C)
<1> DEFINE t == Append(s, e)
<1>1. /\ Len(s) \in Nat /\ DOMAIN t = 1..(Len(s) + 1) /\ DOMAIN s = 1..Len(s)
      /\ t[Len(s) + 1] = e /\ \A i \in DOMAIN s : t[i] = s[i]
  BY ListedAppend
<1> HIDE DEF t
<1>2. \A i \in DOMAIN t : i \in DOMAIN s \/ i = Len(s) + 1
  BY <1>1
<1>3. Named(t, C)
  BY <1>1, <1>2 DEF Named
<1> QED BY <1>3 DEF t

(* A prefix shows the items up to its last.                                 *)
LEMMA PrefixLists ==
  ASSUME NEW s, NEW T, Lists(s, T), NEW m \in 0..Len(s), NEW top \in IdsOf(SubSeq(s, 1, m)),
         \A x \in IdsOf(SubSeq(s, 1, m)) : x <= top
  PROVE  IdsOf(SubSeq(s, 1, m)) = {x \in T : x <= top}
<1> DEFINE t == SubSeq(s, 1, m)
<1>1. DOMAIN t = 1..m /\ Len(s) \in Nat /\ DOMAIN s = 1..Len(s) /\ \A i \in 1..m : t[i] = s[i] /\ i \in DOMAIN s
  BY ListedPrefix DEF Lists
<1>2. top \in IdsOf(t) /\ \A x \in IdsOf(t) : x <= top
  OBVIOUS
<1> HIDE DEF t
<1>3. \A x \in IdsOf(t) : x \in T
  BY <1>1 DEF Lists, IdsOf
<1>4. ASSUME NEW x \in T, x <= top PROVE x \in IdsOf(t)
  <2>1. PICK j \in DOMAIN s : x \in s[j].ids
    BY DEF Lists, IdsOf
  <2>2. PICK i \in 1..m : top \in s[i].ids /\ i \in DOMAIN s
    BY <1>1, <1>2 DEF IdsOf
  <2>3. ~(i < j)
    <3>1. x \in Nat /\ top \in Nat
      BY <1>2, <1>3 DEF Lists
    <3> QED BY <1>4, <2>1, <2>2, <3>1 DEF Lists
  <2>4. j \in 1..m
    BY <1>1, <2>1, <2>2, <2>3
  <2> QED BY <1>1, <2>1, <2>4 DEF IdsOf
<1>5. IdsOf(t) = {x \in T : x <= top}
  BY <1>2, <1>3, <1>4
<1> QED BY <1>5 DEF t

(* What an agent sees of the stored items: what it wrote itself and of the  *)
(* others what is not private or internal; in a nested call, its own there. *)
Sees(x, viewer, scope) ==
  IF scope # NoCall THEN x.owner = viewer /\ x.scope = scope
  ELSE x.scope = NoCall /\ (x.owner = viewer \/ x.kind \notin Internal \cup Private)

Increasing(s) == Listed(s) /\ \A i \in DOMAIN s : s[i].id \in Nat /\ \A j \in DOMAIN s : i < j => s[i].id < s[j].id

(* What is seen of the first n of them.                                     *)
SeenOf(s, n, viewer, scope) == {s[i].id : i \in {j \in 1..n : j \in DOMAIN s /\ Sees(s[j], viewer, scope)}}

(* C has the tag of each stored item; a message has no call.                *)
Tagged(s, C) == \A i \in DOMAIN s : C[s[i].id] = Tag(s[i]) /\ (s[i].call # NoCall => s[i].kind \in Private)

(* On the way: what is out, and the block that is pending.                  *)
BlockIds(p) == {p[i].id : i \in DOMAIN p}

PartLists(a, T, C) ==
  /\ a = [out |-> a.out, pend |-> a.pend] /\ Listed(a.pend)
  /\ Named(a.out, C) /\ \A i \in DOMAIN a.pend : C[a.pend[i].id] = Text
  /\ BlockIds(a.pend) \subseteq Nat
  /\ \E S : Lists(a.out, S) /\ S \cup BlockIds(a.pend) = T /\ Below(S, BlockIds(a.pend))

LEMMA BlockLists ==
  ASSUME NEW a, NEW T, NEW C, PartLists(a, T, C)
  PROVE  Lists(WithBlock(a), T) /\ Named(WithBlock(a), C)
<1>0. Named(a.out, C) /\ \A i \in DOMAIN a.pend : C[a.pend[i].id] = Text
  BY DEF PartLists
<1>1. PICK S : Lists(a.out, S) /\ S \cup BlockIds(a.pend) = T /\ Below(S, BlockIds(a.pend))
  BY DEF PartLists
<1>2. CASE a.pend = <<>>
  <2>1. WithBlock(a) = a.out /\ BlockIds(a.pend) = {}
    BY <1>2, ListedEmpty DEF WithBlock, BlockIds
  <2> QED BY <1>0, <1>1, <2>1
<1>3. CASE a.pend # <<>>
  <2> DEFINE e == [kind |-> "foreign", call |-> NoCall, ids |-> {a.pend[i].id : i \in DOMAIN a.pend}, w |-> Weight(a.pend)]
  <2>1. WithBlock(a) = Append(a.out, e)
    BY <1>3 DEF WithBlock
  <2>2. e.ids = BlockIds(a.pend)
    BY DEF BlockIds
  <2>5. \A x \in e.ids : C[x] = Tag(e)
    BY <1>0 DEF Tag, Text
  <2> HIDE DEF e
  <2>3. DOMAIN a.pend # {}
    BY <1>3 DEF PartLists, Listed
  <2>4. e.ids # {} /\ e.ids \subseteq Nat
    BY <2>2, <2>3 DEF BlockIds, PartLists
  <2>6. Lists(Append(a.out, e), T)
    BY <1>1, <2>2, <2>4, AppendLists
  <2>7. Named(Append(a.out, e), C)
    BY <1>0, <1>1, <2>5, AppendNamed DEF Lists
  <2> QED BY <2>1, <2>6, <2>7
<1> QED BY <1>2, <1>3

LEMMA ItemLists ==
  ASSUME NEW a, NEW T, NEW C, PartLists(a, T, C), NEW viewer, NEW x, x.id \in Nat, Below(T, {x.id}),
         C[x.id] = Tag(x), x.call # NoCall => x.kind \in Private
  PROVE  PartLists(ProjectItem(viewer, a, x), IF Sees(x, viewer, NoCall) THEN T \cup {x.id} ELSE T, C)
<1> DEFINE b == ProjectItem(viewer, a, x)
           shown == [out |-> Append(WithBlock(a), Projected(x)), pend |-> <<>>]
           mixed == [out |-> WithBlock(a), pend |-> <<x>>]
           more == [a EXCEPT !.pend = Append(@, x)]
<1>1. Lists(WithBlock(a), T) /\ T \subseteq Nat /\ Named(WithBlock(a), C) /\ Listed(WithBlock(a))
  BY BlockLists DEF Lists
<1>2. BlockIds(<<>>) = {} /\ BlockIds(<<x>>) = {x.id}
  BY ListedEmpty, ListedOne DEF BlockIds
<1>3. PartLists(shown, T \cup {x.id}, C)
  <2>1. Projected(x).ids = {x.id} /\ Tag(Projected(x)) = Tag(x)
    BY DEF Projected, Tag
  <2>2. Lists(Append(WithBlock(a), Projected(x)), T \cup {x.id})
    BY <1>1, <2>1, AppendLists
  <2>3. shown.out = Append(WithBlock(a), Projected(x)) /\ shown.pend = <<>> /\ shown = [out |-> shown.out, pend |-> shown.pend]
    OBVIOUS
  <2>4. Below(T \cup {x.id}, {})
    BY DEF Below
  <2>5. Named(Append(WithBlock(a), Projected(x)), C)
    BY <1>1, <2>1, AppendNamed
  <2> HIDE DEF shown
  <2> QED BY <1>2, <2>2, <2>3, <2>4, <2>5, ListedEmpty DEF PartLists
<1>40. x.kind \notin Private \cup Internal => Tag(x) = Text
  BY DEF Tag, Text, Private, Internal
<1>4. Tag(x) = Text => PartLists(mixed, T \cup {x.id}, C)
  <2>1. mixed.out = WithBlock(a) /\ mixed.pend = <<x>> /\ mixed = [out |-> mixed.out, pend |-> mixed.pend]
    OBVIOUS
  <2>2. Tag(x) = Text => \A i \in DOMAIN <<x>> : C[<<x>>[i].id] = Text
    BY ListedOne
  <2>3. PICK S : S = T /\ Lists(mixed.out, S) /\ S \cup BlockIds(mixed.pend) = T \cup {x.id} /\ Below(S, BlockIds(mixed.pend))
    BY <1>1, <1>2, <2>1
  <2>4. Named(mixed.out, C) /\ Listed(mixed.pend) /\ BlockIds(mixed.pend) \subseteq Nat
    BY <1>1, <1>2, <2>1, ListedOne
  <2> HIDE DEF mixed
  <2> QED BY <2>1, <2>2, <2>3, <2>4 DEF PartLists
<1>5. Tag(x) = Text => PartLists(more, T \cup {x.id}, C)
  <2>1. PICK S : Lists(a.out, S) /\ S \cup BlockIds(a.pend) = T /\ Below(S, BlockIds(a.pend))
    BY DEF PartLists
  <2>2. more.out = a.out /\ more.pend = Append(a.pend, x) /\ more = [out |-> more.out, pend |-> more.pend]
    <3>1. a = [out |-> a.out, pend |-> a.pend]
      BY DEF PartLists
    <3> QED BY <3>1
  <2> HIDE DEF more
  <2>3. /\ Listed(more.pend) /\ Len(a.pend) \in Nat /\ DOMAIN more.pend = 1..(Len(a.pend) + 1) /\ DOMAIN a.pend = 1..Len(a.pend)
        /\ more.pend[Len(a.pend) + 1] = x /\ \A i \in DOMAIN a.pend : more.pend[i] = a.pend[i]
    BY <2>2, ListedAppend DEF PartLists
  <2>30. Tag(x) = Text => \A i \in DOMAIN more.pend : C[more.pend[i].id] = Text
    <3>1. \A i \in DOMAIN more.pend : i \in DOMAIN a.pend \/ i = Len(a.pend) + 1
      BY <2>3
    <3> QED BY <2>3, <3>1 DEF PartLists
  <2>31. Named(more.out, C)
    BY <2>2 DEF PartLists
  <2>4. BlockIds(more.pend) = BlockIds(a.pend) \cup {x.id}
    <3>1. \A i \in DOMAIN more.pend : i \in DOMAIN a.pend \/ i = Len(a.pend) + 1
      BY <2>3
    <3>2. Len(a.pend) + 1 \in DOMAIN more.pend /\ \A i \in DOMAIN a.pend : i \in DOMAIN more.pend
      BY <2>3
    <3> QED BY <2>3, <3>1, <3>2 DEF BlockIds
  <2>5. Below(S, BlockIds(more.pend)) /\ BlockIds(more.pend) \subseteq Nat
    BY <2>1, <2>4 DEF Below, PartLists
  <2>6. S \cup BlockIds(more.pend) = T \cup {x.id} /\ Lists(more.out, S)
    BY <2>1, <2>2, <2>4
  <2> QED BY <2>2, <2>3, <2>30, <2>31, <2>5, <2>6 DEF PartLists
<1> HIDE DEF shown, mixed, more
<1>6. IF Sees(x, viewer, NoCall) THEN b = shown \/ (Tag(x) = Text /\ b \in {mixed, more}) ELSE b = a
  <2>1. CASE x.scope # NoCall
    BY <2>1 DEF ProjectItem, Sees
  <2>2. CASE x.scope = NoCall /\ x.kind \in UserKinds
    <3>1. b = IF x.kind \in Internal /\ x.owner # viewer THEN a ELSE shown
      BY <2>2 DEF ProjectItem, shown
    <3>2. x.kind \notin Private
      BY <2>2 DEF Private, UserKinds, Internal
    <3> QED BY <2>2, <3>1, <3>2 DEF Sees
  <2>3. CASE x.scope = NoCall /\ x.kind \notin UserKinds /\ x.owner = viewer
    <3>1. b = shown
      BY <2>3 DEF ProjectItem, shown
    <3> QED BY <2>3, <3>1 DEF Sees
  <2>4. CASE x.scope = NoCall /\ x.kind \notin UserKinds /\ x.owner # viewer
    <3>1. b = IF x.kind \in Private THEN a ELSE IF a.pend # <<>> /\ a.pend[1].owner # x.owner THEN mixed ELSE more
      BY <2>4 DEF ProjectItem, mixed, more
    <3>2. x.kind \notin Internal
      BY <2>4 DEF UserKinds
    <3> QED BY <1>40, <2>4, <3>1, <3>2 DEF Sees
  <2> QED BY <2>1, <2>2, <2>3, <2>4
<1> QED BY <1>3, <1>4, <1>5, <1>6

LEMMA FoldLists ==
  ASSUME NEW stored, Increasing(stored), NEW C, Tagged(stored, C), NEW viewer
  PROVE  /\ Lists(project_visible(stored, viewer, NoCall), SeenOf(stored, Len(stored), viewer, NoCall))
         /\ Named(project_visible(stored, viewer, NoCall), C)
<1> DEFINE start == [out |-> <<>>, pend |-> <<>>]
           Fit(n, f) == f = [i \in 0..n |-> IF i = 0 THEN start ELSE ProjectItem(viewer, f[i-1], stored[i])]
           S == {n \in 0..Len(stored) : \E f : Fit(n, f)}
           seen(n) == SeenOf(stored, n, viewer, NoCall)
<1>0. Len(stored) \in Nat /\ DOMAIN stored = 1..Len(stored)
  BY DEF Increasing, Listed
<1>1. 0 \in S
  <2> DEFINE f == [i \in 0..0 |-> start]
  <2>1. Fit(0, f)
    OBVIOUS
  <2> HIDE DEF f, Fit
  <2> QED BY <2>1, <1>0
<1>2. ASSUME NEW n \in 0..Len(stored), n < Len(stored), n \in S PROVE n + 1 \in S
  <2>1. PICK f : Fit(n, f)
    BY <1>2
  <2> DEFINE g == [i \in 0..(n+1) |-> IF i = n + 1 THEN ProjectItem(viewer, f[n], stored[n+1]) ELSE f[i]]
             h == [i \in 0..(n+1) |-> IF i = 0 THEN start ELSE ProjectItem(viewer, g[i-1], stored[i])]
  <2>2. ASSUME NEW i \in 0..(n+1) PROVE g[i] = h[i]
    <3>1. CASE i = 0
      BY <2>1, <3>1, <1>0
    <3>2. CASE i = n + 1
      <4>1. i # 0 /\ i - 1 = n /\ n \in 0..(n+1) /\ n # n + 1
        BY <3>2
      <4>2. g[n] = f[n]
        BY <4>1
      <4> QED BY <3>2, <4>1, <4>2
    <3>3. CASE i # 0 /\ i # n + 1
      <4>1. i \in 0..n /\ i - 1 \in 0..(n+1) /\ i - 1 # n + 1 /\ i - 1 \in 0..n
        BY <3>3
      <4>2. f[i] = ProjectItem(viewer, f[i-1], stored[i])
        BY <2>1, <4>1, <3>3
      <4>3. g[i-1] = f[i-1] /\ g[i] = f[i]
        BY <4>1, <3>3
      <4> QED BY <4>2, <4>3, <3>3
    <3> QED BY <3>1, <3>2, <3>3
  <2>3. Fit(n + 1, g)
    <3>1. g = h
      BY <2>2
    <3> QED BY <3>1
  <2> HIDE DEF g, Fit
  <2>4. n + 1 \in 0..Len(stored)
    BY <1>0, <1>2
  <2> QED BY <2>3, <2>4
<1>3. Len(stored) \in S
  <2> HIDE DEF S
  <2>1. \A i \in 0..Len(stored) : i \in S
    BY <1>0, <1>1, <1>2, UpTo
  <2> QED BY <2>1, <1>0
<1> DEFINE after == CHOOSE after : after = [i \in 0..Len(stored) |->
                      IF i = 0 THEN [out |-> <<>>, pend |-> <<>>] ELSE ProjectItem(viewer, after[i-1], stored[i])]
<1>4. \E f : f = [i \in 0..Len(stored) |-> IF i = 0 THEN [out |-> <<>>, pend |-> <<>>] ELSE ProjectItem(viewer, f[i-1], stored[i])]
  BY <1>3
<1>5. after = [i \in 0..Len(stored) |-> IF i = 0 THEN [out |-> <<>>, pend |-> <<>>] ELSE ProjectItem(viewer, after[i-1], stored[i])]
  BY <1>4, Zenon
<1>6. project_visible(stored, viewer, NoCall) = WithBlock(after[Len(stored)])
  BY Zenon DEF project_visible
<1> HIDE DEF after
<1>7. after[0] = start /\ \A i \in 1..Len(stored) : after[i] = ProjectItem(viewer, after[i-1], stored[i])
  <2> DEFINE body(i) == IF i = 0 THEN start ELSE ProjectItem(viewer, after[i-1], stored[i])
  <2>1. \A i \in 0..Len(stored) : after[i] = body(i)
    BY <1>5, Zenon
  <2>2. 0 \in 0..Len(stored) /\ \A i \in 1..Len(stored) : i \in 0..Len(stored) /\ i # 0
    BY <1>0
  <2> QED BY <2>1, <2>2
<1> DEFINE T == {i \in 0..Len(stored) : PartLists(after[i], seen(i), C)}
<1>8. 0 \in T
  <2>1. seen(0) = {}
    BY DEF SeenOf
  <2>2. IdsOf(<<>>) = {} /\ BlockIds(<<>>) = {}
    BY ListedEmpty DEF IdsOf, BlockIds
  <2>3. Lists(<<>>, {})
    BY <2>2, ListedEmpty DEF Lists
  <2>4. start.out = <<>> /\ start.pend = <<>> /\ start = [out |-> start.out, pend |-> start.pend]
    OBVIOUS
  <2> HIDE DEF start
  <2>50. Named(<<>>, C)
    BY ListedEmpty DEF Named
  <2>5. PartLists(start, {}, C)
    BY <2>2, <2>3, <2>4, <2>50, ListedEmpty DEF PartLists, Below
  <2> HIDE DEF seen
  <2> QED BY <1>0, <1>7, <2>1, <2>5
<1>9. ASSUME NEW n \in 0..Len(stored), n < Len(stored), n \in T PROVE n + 1 \in T
  <2>1. n + 1 \in 1..Len(stored) /\ (n + 1) - 1 = n /\ n + 1 \in 0..Len(stored) /\ n + 1 \in DOMAIN stored
    BY <1>0, <1>9
  <2> DEFINE x == stored[n + 1]
  <2>2. after[n + 1] = ProjectItem(viewer, after[n], x)
    BY <1>7, <2>1
  <2>3. x.id \in Nat
    BY <2>1 DEF Increasing
  <2>30. C[x.id] = Tag(x) /\ (x.call # NoCall => x.kind \in Private)
    BY <2>1 DEF Tagged
  <2>4. Below(seen(n), {x.id})
    <3>1. \A i \in 1..n : i < n + 1
      BY <1>9
    <3> QED BY <2>1, <3>1 DEF Below, SeenOf, Increasing
  <2>5. seen(n + 1) = IF Sees(x, viewer, NoCall) THEN seen(n) \cup {x.id} ELSE seen(n)
    <3>1. 1..(n + 1) = (1..n) \cup {n + 1}
      BY <1>9
    <3> QED BY <2>1, <3>1 DEF SeenOf
  <2>6. PartLists(after[n], seen(n), C)
    BY <1>9
  <2> HIDE DEF x, seen
  <2>7. PartLists(after[n + 1], seen(n + 1), C)
    BY <2>2, <2>3, <2>30, <2>4, <2>5, <2>6, ItemLists
  <2> QED BY <2>1, <2>7
<1>10. Len(stored) \in T
  <2> HIDE DEF T
  <2>1. \A i \in 0..Len(stored) : i \in T
    BY <1>0, <1>8, <1>9, UpTo
  <2> QED BY <2>1, <1>0
<1>11. PartLists(after[Len(stored)], seen(Len(stored)), C)
  BY <1>10
<1> HIDE DEF seen
<1>12. Lists(WithBlock(after[Len(stored)]), seen(Len(stored))) /\ Named(WithBlock(after[Len(stored)]), C)
  BY <1>11, BlockLists
<1> QED BY <1>6, <1>12 DEF seen

LEMMA NestedLists ==
  ASSUME NEW stored, Increasing(stored), NEW C, Tagged(stored, C), NEW viewer, NEW scope, scope # NoCall
  PROVE  /\ Lists(project_visible(stored, viewer, scope), SeenOf(stored, Len(stored), viewer, scope))
         /\ Named(project_visible(stored, viewer, scope), C)
<1> DEFINE t == {i \in DOMAIN stored : stored[i].owner = viewer /\ stored[i].scope = scope}
           k == Keep(stored, t)
           out == [i \in DOMAIN k |-> Projected(k[i])]
           T == SeenOf(stored, Len(stored), viewer, scope)
<1>0. Listed(stored) /\ Len(stored) \in Nat /\ DOMAIN stored = 1..Len(stored)
  BY DEF Increasing, Listed
<1>1. project_visible(stored, viewer, scope) = out
  BY DEF project_visible
<1>2. PICK f : Picks(f, k, stored, t, Len(stored))
  BY <1>0, KeepPicks
<1>3. T = {stored[i].id : i \in t}
  <2>1. \A i \in DOMAIN stored : Sees(stored[i], viewer, scope) <=> i \in t
    BY DEF Sees
  <2> HIDE DEF t
  <2>2. t \subseteq DOMAIN stored
    BY DEF t
  <2> QED BY <1>0, <2>1, <2>2 DEF SeenOf
<1>4. Listed(k) /\ Len(k) \in Nat /\ DOMAIN k = 1..Len(k)
  BY <1>2 DEF Picks, Listed
<1>5. /\ Listed(out) /\ DOMAIN out = 1..Len(k)
      /\ \A j \in DOMAIN out : out[j].ids = {stored[f[j]].id} /\ Tag(out[j]) = Tag(stored[f[j]]) /\ f[j] \in t
  <2>1. DOMAIN out = 1..Len(k) /\ out = [i \in 1..Len(k) |-> out[i]]
    BY <1>4
  <2>2. \A j \in 1..Len(k) : out[j] = Projected(stored[f[j]]) /\ f[j] \in t
    BY <1>2, <1>4 DEF Picks
  <2>3. \A x : Projected(x).ids = {x.id} /\ Tag(Projected(x)) = Tag(x)
    BY DEF Projected, Tag
  <2> HIDE DEF out, k
  <2>4. Listed(out)
    BY <1>4, <2>1 DEF Listed
  <2> QED BY <2>1, <2>2, <2>3, <2>4
<1>6. t \subseteq DOMAIN stored
  OBVIOUS
<1> HIDE DEF t, out, k, T
<1>7. \A i \in t : stored[i].id \in Nat /\ i \in DOMAIN stored
  BY <1>6 DEF Increasing
<1>8. IdsOf(out) = T
  <2>0. DOMAIN out = 1..Len(k) /\ \A p \in t : p <= Len(stored)
    BY <1>0, <1>5, <1>6
  <2>1. \A p \in t : \E j \in DOMAIN out : f[j] = p
    BY <1>2, <2>0 DEF Picks
  <2> QED BY <1>3, <1>5, <2>1 DEF IdsOf
<1>9. \A i, j \in DOMAIN out : i < j => \A x \in out[i].ids, y \in out[j].ids : x < y
  <2>1. \A i, j \in DOMAIN out : i < j => f[i] < f[j]
    BY <1>2, <1>5 DEF Picks
  <2> QED BY <1>5, <1>7, <2>1 DEF Increasing
<1>10. Lists(out, T)
  BY <1>3, <1>5, <1>7, <1>8, <1>9 DEF Lists
<1>11. Named(out, C)
  BY <1>5, <1>7 DEF Named, Tagged
<1> QED BY <1>1, <1>10, <1>11 DEF T

(* An agent is shown what it sees.                                          *)
LEMMA VisibleLists ==
  ASSUME NEW stored, Increasing(stored), NEW C, Tagged(stored, C), NEW viewer, NEW scope
  PROVE  /\ Lists(project_visible(stored, viewer, scope), SeenOf(stored, Len(stored), viewer, scope))
         /\ Named(project_visible(stored, viewer, scope), C)
BY FoldLists, NestedLists

(* What is left after a compaction.                                         *)
LEMMA FilterKeeps ==
  ASSUME NEW stored, Increasing(stored), NEW C, Tagged(stored, C), NEW end \in Nat, NEW viewer, NEW scope
  PROVE  LET rest == filter_compacted(stored, end) IN
         /\ Increasing(rest) /\ Tagged(rest, C)
         /\ SeenOf(rest, Len(rest), viewer, scope) = {x \in SeenOf(stored, Len(stored), viewer, scope) : x > end}
<1> DEFINE t == {i \in DOMAIN stored : stored[i].id > end}
           k == filter_compacted(stored, end)
<1>0. Listed(stored) /\ Len(stored) \in Nat /\ DOMAIN stored = 1..Len(stored)
  BY DEF Increasing, Listed
<1>1. PICK f : Picks(f, k, stored, t, Len(stored))
  BY <1>0, KeepPicks DEF filter_compacted
<1> HIDE DEF k
<1>2. Listed(k) /\ Len(k) \in Nat /\ DOMAIN k = 1..Len(k)
  BY <1>1 DEF Picks, Listed
<1>3. \A j \in DOMAIN k : f[j] \in DOMAIN stored /\ k[j] = stored[f[j]] /\ stored[f[j]].id > end
  BY <1>1, <1>2 DEF Picks
<1>4. \A i, j \in DOMAIN k : i < j => f[i] < f[j]
  BY <1>1, <1>2 DEF Picks
<1>5. Increasing(k)
  BY <1>2, <1>3, <1>4 DEF Increasing
<1>6. \A i \in DOMAIN stored : stored[i].id > end => \E j \in DOMAIN k : f[j] = i
  <2>1. \A p \in t : p <= Len(stored) => \E j \in 1..Len(k) : f[j] = p
    BY <1>1 DEF Picks
  <2>2. \A i \in DOMAIN stored : i <= Len(stored)
    BY <1>0
  <2> QED BY <1>2, <2>1, <2>2
<1>7. SeenOf(k, Len(k), viewer, scope) = {x \in SeenOf(stored, Len(stored), viewer, scope) : x > end}
  <2>1. \A x \in SeenOf(k, Len(k), viewer, scope) : x \in SeenOf(stored, Len(stored), viewer, scope) /\ x > end
    BY <1>0, <1>2, <1>3 DEF SeenOf
  <2>2. ASSUME NEW x \in SeenOf(stored, Len(stored), viewer, scope), x > end PROVE x \in SeenOf(k, Len(k), viewer, scope)
    <3>1. PICK i \in DOMAIN stored : Sees(stored[i], viewer, scope) /\ x = stored[i].id
      BY DEF SeenOf
    <3>2. PICK j \in DOMAIN k : f[j] = i
      BY <1>6, <2>2, <3>1
    <3> QED BY <1>2, <1>3, <3>1, <3>2 DEF SeenOf
  <2> QED BY <2>1, <2>2
<1>8. Tagged(k, C)
  BY <1>2, <1>3 DEF Tagged
<1> QED BY <1>5, <1>7, <1>8 DEF k

(* The compaction on file stands for what the agent saw up to its end.      *)
RowFits(r, stored, viewer, scope) ==
  /\ r = [end |-> r.end, covers |-> r.covers, w |-> r.w] /\ r.end \in 0..Len(stored)
  /\ r.covers = {x \in SeenOf(stored, Len(stored), viewer, scope) : x <= r.end}
  /\ r.end # 0 => r.covers # {}

(* The whole context shows each item that is seen once, in order, itself or *)
(* in the summary.                                                          *)
LEMMA ContextLists ==
  ASSUME NEW stored, Increasing(stored), NEW C, Tagged(stored, C), \A i \in DOMAIN stored : stored[i].id > 0,
         NEW viewer, NEW scope, NEW r, RowFits(r, stored, viewer, scope)
  PROVE  LET all == project_context(stored, viewer, scope, r) IN
         /\ Lists(all, SeenOf(stored, Len(stored), viewer, scope))
         /\ \A i \in DOMAIN all : \/ Tag(all[i]) = <<NoCall, "summary">> /\ all[i].ids = r.covers
                                  \/ \A x \in all[i].ids : C[x] = Tag(all[i])
<1> DEFINE T == SeenOf(stored, Len(stored), viewer, scope)
           rest == project_visible(filter_compacted(stored, r.end), viewer, scope)
           head == [kind |-> "summary", call |-> NoCall, ids |-> r.covers, w |-> r.w]
<1>1. r.end \in Nat /\ T \subseteq Nat
  <2>1. Len(stored) \in Nat
    BY DEF Increasing, Listed
  <2> QED BY <2>1 DEF RowFits, SeenOf, Increasing
<1> DEFINE k == filter_compacted(stored, r.end)
           late == {x \in T : x > r.end}
<1>2. Lists(rest, late) /\ Named(rest, C)
  <2>1. Increasing(k) /\ Tagged(k, C) /\ SeenOf(k, Len(k), viewer, scope) = late
    BY <1>1, FilterKeeps
  <2>2. rest = project_visible(k, viewer, scope)
    OBVIOUS
  <2> HIDE DEF k, rest, late, T
  <2> QED BY <2>1, <2>2, VisibleLists
<1>3. CASE r.end = 0
  <2>1. project_context(stored, viewer, scope, r) = rest
    BY <1>3 DEF project_context
  <2>2. \A x \in T : x > 0
    BY DEF SeenOf
  <2>3. late = T
    BY <1>3, <2>2
  <2> QED BY <1>2, <2>1, <2>3 DEF Named
<1>4. CASE r.end # 0
  <2>1. project_context(stored, viewer, scope, r) = <<head>> \o rest
    BY <1>4 DEF project_context
  <2>2. head.ids = {x \in T : x <= r.end} /\ head.ids # {} /\ head.ids = r.covers /\ Tag(head) = <<NoCall, "summary">>
    BY <1>4 DEF RowFits, Tag
  <2> HIDE DEF head, rest, T
  <2>3. Below(head.ids, late) /\ head.ids \subseteq Nat /\ late \cup head.ids = T
    <3>1. ASSUME NEW x \in head.ids, NEW y \in late PROVE x < y
      <4>1. x \in Nat /\ y \in Nat /\ x <= r.end /\ y > r.end
        BY <1>1, <2>2
      <4> QED BY <1>1, <4>1
    <3>2. ASSUME NEW x \in T PROVE x <= r.end \/ x > r.end
      <4>1. x \in Nat /\ r.end \in Nat
        BY <1>1
      <4> QED BY <4>1
    <3> QED BY <1>1, <2>2, <3>1, <3>2 DEF Below
  <2> HIDE DEF late
  <2>4. Lists(<<head>> \o rest, late \cup head.ids)
    BY <1>2, <2>2, <2>3, FrontLists
  <2>5. ASSUME NEW i \in DOMAIN (<<head>> \o rest)
        PROVE  LET e == (<<head>> \o rest)[i] IN (Tag(e) = <<NoCall, "summary">> /\ e.ids = r.covers) \/ \A x \in e.ids : C[x] = Tag(e)
    <3> DEFINE all == <<head>> \o rest
    <3>1. /\ Len(rest) \in Nat /\ DOMAIN all = 1..(Len(rest) + 1) /\ DOMAIN rest = 1..Len(rest)
          /\ all[1] = head /\ \A n \in DOMAIN rest : all[n + 1] = rest[n]
      BY <1>2, ListedConcat DEF Lists
    <3>2. i \in DOMAIN all
      OBVIOUS
    <3> HIDE DEF all
    <3>3. CASE i = 1
      BY <2>2, <3>1, <3>3 DEF all
    <3>4. CASE i # 1
      <4>1. i - 1 \in DOMAIN rest /\ (i - 1) + 1 = i
        BY <3>1, <3>2, <3>4
      <4>2. all[i] = rest[i - 1]
        BY <3>1, <4>1
      <4>3. \A x \in all[i].ids : C[x] = Tag(all[i])
        BY <1>2, <4>1, <4>2 DEF Named
      <4> QED BY <4>3 DEF all
    <3> QED BY <3>3, <3>4
  <2> QED BY <2>1, <2>3, <2>4, <2>5 DEF T
<1> QED BY <1>3, <1>4

-----------------------------------------------------------------------------
(* What is compacted. *)

LEMMA LeastIsIn ==
  ASSUME NEW S \in SUBSET Nat, S # {}
  PROVE  Min(S) \in S /\ \A x \in S : Min(S) <= x
<1> DEFINE R == OpToRel(<, Nat)
<1>1. IsWellFoundedOn(R, Nat)
  BY NatLessThanWellFounded
<1>2. \A x, y \in Nat : x < y => <<x, y>> \in R
  BY DEF OpToRel
<1> HIDE DEF R
<1>3. PICK i \in S : \A j \in S : ~(<<j, i>> \in R)
  BY <1>1, WFMin, Zenon
<1>31. i \in S /\ i \in Nat /\ \A j \in S : j \in Nat /\ ~(j < i)
  BY <1>2, <1>3
<1>4. \A j \in S : i <= j
  BY <1>31
<1>5. Min(S) = CHOOSE x \in S : \A y \in S : x <= y
  BY DEF Min
<1> QED BY <1>4, <1>5

LEMMA GreatestIsIn ==
  ASSUME NEW n \in Nat, NEW S \in SUBSET (0..n), S # {}
  PROVE  Max(S) \in S /\ \A x \in S : x <= Max(S)
<1> DEFINE D == {n - x : x \in S}
<1>1. D \in SUBSET Nat /\ D # {}
  <2>1. \A x \in S : n - x \in Nat
    OBVIOUS
  <2>2. PICK x \in S : TRUE
    OBVIOUS
  <2>3. n - x \in D
    OBVIOUS
  <2> QED BY <2>1, <2>3
<1> DEFINE d == Min(D)
<1>2. d \in D /\ \A x \in D : d <= x
  BY <1>1, LeastIsIn
<1> HIDE DEF d
<1>3. PICK m \in S : d = n - m
  BY <1>2
<1>4. \A x \in S : m >= x
  <2> SUFFICES ASSUME NEW x \in S PROVE m >= x
    OBVIOUS
  <2>1. n - m <= n - x
    BY <1>2, <1>3
  <2> QED BY <2>1
<1>5. Max(S) = CHOOSE x \in S : \A y \in S : x >= y
  BY DEF Max
<1>6. Max(S) \in S /\ \A y \in S : Max(S) >= y
  BY <1>4, <1>5
<1> QED BY <1>6

(* The groups that are open after each item.                                *)
LEMMA OpenOpens ==
  ASSUME NEW items, NEW m \in Nat
  PROVE  \E open : /\ open[0] = {} /\ \A k \in 1..m : open[k] = Toggle(open[k-1], items[k])
                   /\ OpenAfter(items, m) = open[m]
<1> DEFINE Fit(n, f) == f = [k \in 0..n |-> IF k = 0 THEN {} ELSE Toggle(f[k-1], items[k])]
           S == {n \in 0..m : \E f : Fit(n, f)}
<1>1. 0 \in S
  <2> DEFINE f == [i \in 0..0 |-> {}]
  <2>1. Fit(0, f)
    OBVIOUS
  <2> HIDE DEF f, Fit
  <2> QED BY <2>1
<1>2. ASSUME NEW n \in 0..m, n < m, n \in S PROVE n + 1 \in S
  <2>1. PICK f : Fit(n, f)
    BY <1>2
  <2> DEFINE g == [k \in 0..(n+1) |-> IF k = n + 1 THEN Toggle(f[n], items[n+1]) ELSE f[k]]
             h == [k \in 0..(n+1) |-> IF k = 0 THEN {} ELSE Toggle(g[k-1], items[k])]
  <2>2. ASSUME NEW i \in 0..(n+1) PROVE g[i] = h[i]
    <3>1. CASE i = 0
      BY <2>1, <3>1
    <3>2. CASE i = n + 1
      <4>1. i # 0 /\ i - 1 = n /\ n \in 0..(n+1) /\ n # n + 1
        BY <3>2
      <4>2. g[n] = f[n]
        BY <4>1
      <4> QED BY <3>2, <4>1, <4>2
    <3>3. CASE i # 0 /\ i # n + 1
      <4>1. i \in 0..n /\ i - 1 \in 0..(n+1) /\ i - 1 # n + 1 /\ i - 1 \in 0..n
        BY <3>3
      <4>2. f[i] = Toggle(f[i-1], items[i])
        BY <2>1, <4>1, <3>3
      <4>3. g[i-1] = f[i-1] /\ g[i] = f[i]
        BY <4>1, <3>3
      <4> QED BY <4>2, <4>3, <3>3
    <3> QED BY <3>1, <3>2, <3>3
  <2>3. Fit(n + 1, g)
    <3>1. g = h
      BY <2>2
    <3> QED BY <3>1
  <2> HIDE DEF g, Fit
  <2>4. n + 1 \in 0..m
    BY <1>2
  <2> QED BY <2>3, <2>4
<1>3. m \in S
  <2> HIDE DEF S
  <2>1. \A i \in 0..m : i \in S
    BY <1>1, <1>2, UpTo
  <2> QED BY <2>1
<1> DEFINE open == CHOOSE open : open = [k \in 0..m |-> IF k = 0 THEN {} ELSE Toggle(open[k-1], items[k])]
<1>4. \E f : f = [k \in 0..m |-> IF k = 0 THEN {} ELSE Toggle(f[k-1], items[k])]
  BY <1>3
<1>5. open = [k \in 0..m |-> IF k = 0 THEN {} ELSE Toggle(open[k-1], items[k])]
  BY <1>4, Zenon
<1>6. OpenAfter(items, m) = open[m]
  BY Zenon DEF OpenAfter
<1> HIDE DEF open
<1>7. open[0] = {} /\ \A k \in 1..m : open[k] = Toggle(open[k-1], items[k])
  <2> DEFINE body(k) == IF k = 0 THEN {} ELSE Toggle(open[k-1], items[k])
  <2>1. \A k \in 0..m : open[k] = body(k)
    BY <1>5, Zenon
  <2>2. 0 \in 0..m /\ \A k \in 1..m : k \in 0..m /\ k # 0
    OBVIOUS
  <2> QED BY <2>1, <2>2
<1> QED BY <1>6, <1>7

(* A group that one item opens, and none closes, is open.                   *)
LEMMA OnceIsOpen ==
  ASSUME NEW items, NEW m \in Nat, NEW p \in 1..m, NEW c, c # NoCall,
         \A j \in 1..m : items[j].call = c <=> j = p
  PROVE  c \in OpenAfter(items, m)
<1>1. PICK open : /\ open[0] = {} /\ \A k \in 1..m : open[k] = Toggle(open[k-1], items[k])
                  /\ OpenAfter(items, m) = open[m]
  BY OpenOpens
<1> DEFINE S == {k \in 0..m : c \in open[k] <=> k >= p}
<1>2. 0 \in S
  BY <1>1
<1>3. ASSUME NEW k \in 0..m, k < m, k \in S PROVE k + 1 \in S
  <2>1. k + 1 \in 1..m /\ (k + 1) - 1 = k /\ k + 1 \in 0..m
    BY <1>3
  <2>2. open[k + 1] = Toggle(open[k], items[k + 1])
    BY <1>1, <2>1
  <2>3. c \in open[k] <=> k >= p
    BY <1>3
  <2>4. CASE k + 1 = p
    <3>1. items[k + 1].call = c /\ c \notin open[k]
      BY <2>1, <2>3, <2>4
    <3>2. c \in open[k + 1]
      BY <2>2, <3>1 DEF Toggle
    <3> QED BY <2>1, <2>4, <3>2
  <2>5. CASE k + 1 # p
    <3>1. items[k + 1].call # c
      BY <2>1, <2>5
    <3>2. c \in open[k + 1] <=> c \in open[k]
      BY <2>2, <3>1 DEF Toggle
    <3>3. k + 1 >= p <=> k >= p
      BY <2>5
    <3> QED BY <2>1, <2>3, <3>2, <3>3
  <2> QED BY <2>4, <2>5
<1>4. m \in S
  <2> HIDE DEF S
  <2>1. \A i \in 0..m : i \in S
    BY <1>2, <1>3, UpTo
  <2> QED BY <2>1
<1> QED BY <1>1, <1>4

(* What is compacted is the older part of the context, up to an item that   *)
(* closes what was open.                                                    *)
LEMMA CandidatesArePrefix ==
  ASSUME NEW items, Listed(items), NEW total, NEW cfg
  PROVE  \E m \in 0..Len(items) : /\ select_compaction_candidates(items, total, cfg) = SubSeq(items, 1, m)
                                  /\ m # 0 => OpenAfter(items, m) = {}
<1> DEFINE kept == PreservedCount(items, cfg)
           p == Len(items) - kept
           prefix == SubSeq(items, 1, p)
           whole(n) == OpenAfter(items, n) = {} /\ n >= cfg.min
           reaches(n) == whole(n) /\ total - Weight(SubSeq(items, 1, n)) + cfg.summary <= cfg.target
           hits == {n \in DOMAIN prefix : reaches(n)}
           wholes == {n \in DOMAIN prefix : whole(n)}
           cand == select_compaction_candidates(items, total, cfg)
<1>0. Len(items) \in Nat
  BY DEF Listed
<1>1. kept \in 0..Len(items)
  <2> DEFINE enough(k) == k >= cfg.recent /\ Weight(SubSeq(items, Len(items) - k + 1, Len(items))) >= cfg.preserve
             ks == {k \in 0..Len(items) : enough(k)}
  <2>1. kept = IF ks = {} THEN Len(items) ELSE Min(ks)
    BY DEF PreservedCount
  <2>2. ks \in SUBSET Nat /\ ks \subseteq 0..Len(items)
    BY <1>0
  <2> HIDE DEF ks, kept
  <2> DEFINE m == Min(ks)
  <2>3. ks # {} => m \in ks
    BY <2>2, LeastIsIn
  <2>4. kept = IF ks = {} THEN Len(items) ELSE m
    BY <2>1
  <2> HIDE DEF m
  <2>5. Len(items) \in 0..Len(items)
    BY <1>0
  <2> QED BY <2>2, <2>3, <2>4, <2>5
<1> HIDE DEF kept
<1>2. p \in 0..Len(items)
  BY <1>0, <1>1
<1> HIDE DEF p
<1>3. DOMAIN prefix = 1..p /\ Listed(prefix) /\ Len(prefix) = p /\ \A i \in 1..p : prefix[i] = items[i]
  BY <1>2, ListedPrefix
<1>4. ASSUME NEW m \in 0..p PROVE SubSeq(prefix, 1, m) = SubSeq(items, 1, m) /\ m \in 0..Len(items)
  <2> DEFINE a == SubSeq(prefix, 1, m)
             b == SubSeq(items, 1, m)
  <2>1. m \in 0..Len(items) /\ m \in 0..Len(prefix)
    BY <1>0, <1>2, <1>3
  <2> HIDE DEF prefix
  <2>2. Listed(a) /\ DOMAIN a = 1..m /\ \A i \in 1..m : a[i] = prefix[i]
    BY <1>3, <2>1, ListedPrefix
  <2>3. Listed(b) /\ DOMAIN b = 1..m /\ \A i \in 1..m : b[i] = items[i]
    BY <2>1, ListedPrefix
  <2>4. \A i \in 1..m : i \in 1..p
    BY <1>2
  <2> HIDE DEF a, b
  <2>5. a = [i \in 1..m |-> a[i]] /\ b = [i \in 1..m |-> b[i]]
    BY <2>2, <2>3 DEF Listed
  <2>6. \A i \in 1..m : a[i] = b[i]
    BY <1>3, <2>2, <2>3, <2>4
  <2>7. a = b
    BY <2>5, <2>6
  <2> QED BY <2>1, <2>7 DEF a, b
<1>5. /\ hits # {} => cand = SubSeq(prefix, 1, Min(hits))
      /\ hits = {} => \/ cand = prefix /\ OpenAfter(items, Len(prefix)) = {}
                      \/ cand = <<>>
                      \/ wholes # {} /\ cand = SubSeq(prefix, 1, Max(wholes))
  BY DEF select_compaction_candidates, prefix, p, kept
<1>6. hits \in SUBSET (1..p) /\ wholes \in SUBSET (1..p)
  BY <1>3
<1>60. /\ \A n \in hits : OpenAfter(items, n) = {}
       /\ \A n \in wholes : OpenAfter(items, n) = {}
  OBVIOUS
<1> HIDE DEF hits, wholes, cand, prefix
<1>7. CASE hits # {}
  <2>1. hits \in SUBSET Nat
    BY <1>2, <1>6
  <2> DEFINE m == Min(hits)
  <2>2. m \in hits
    BY <1>7, <2>1, LeastIsIn
  <2> HIDE DEF m
  <2>4. m \in 0..p
    BY <1>2, <1>6, <2>2
  <2>5. OpenAfter(items, m) = {}
    BY <1>60, <2>2
  <2>6. cand = SubSeq(prefix, 1, m)
    BY <1>5, <1>7 DEF m
  <2> QED BY <1>4, <2>4, <2>5, <2>6 DEF cand
<1>8. CASE hits = {} /\ cand = prefix /\ OpenAfter(items, Len(prefix)) = {}
  <2>1. p \in 0..Len(items) /\ prefix = SubSeq(items, 1, p) /\ Len(prefix) = p
    BY <1>2, <1>3 DEF prefix
  <2> QED BY <1>8, <2>1 DEF cand
<1>9. CASE hits = {} /\ cand = <<>>
  <2>1. SubSeq(items, 1, 0) = <<>> /\ 0 \in 0..Len(items)
    BY <1>0
  <2> QED BY <1>9, <2>1 DEF cand
<1>10. CASE hits = {} /\ wholes # {} /\ cand = SubSeq(prefix, 1, Max(wholes))
  <2>1. wholes \in SUBSET (0..p) /\ p \in Nat
    BY <1>2, <1>6
  <2>2. Max(wholes) \in wholes
    BY <1>10, <2>1, GreatestIsIn
  <2> DEFINE m == Max(wholes)
  <2>3. m \in 0..p /\ OpenAfter(items, m) = {} /\ cand = SubSeq(prefix, 1, m)
    BY <1>10, <1>60, <2>1, <2>2
  <2> HIDE DEF m
  <2> QED BY <1>4, <2>3 DEF cand
<1> QED BY <1>5, <1>7, <1>8, <1>9, <1>10

-----------------------------------------------------------------------------
(* The invariant. *)

Items == [id : Nat, owner : {v.code : v \in Agents}, kind : {"assistant", "call", "output", "reason"} \cup UNION {v.begins : v \in Agents},
          call : Nat, scope : {v.scope : v \in Agents}, w : Nat]

(* A call has the number of its item, and one item after it at most answers *)
(* it.                                                                      *)
CallsFit(s) ==
  \A i \in DOMAIN s : s[i].call # NoCall =>
    /\ s[i].kind \in Private /\ s[i].call \in 1..i /\ s[s[i].call].call = s[i].call
    /\ \A j \in DOMAIN s : i < j /\ s[j].call = s[i].call => i = s[i].call

Logged == log \in Seq(Items) /\ (\A i \in DOMAIN log : log[i].id = i) /\ CallsFit(log)

(* With a call goes what answers it.                                        *)
Unsplit(ids) == \A i \in DOMAIN log : log[i].call \in ids => i \in ids

SeenBy(v) == SeenOf(log, Len(log), v.code, v.scope)

(* What is summarized is what the agent saw up to some item.                *)
UpToSome(ids, v) == \E top \in 1..Len(log) : ids = {x \in SeenBy(v) : x <= top} /\ top \in ids

StageFits(t, v) ==
  /\ t = [pc |-> t.pc, cand |-> t.cand, total |-> t.total]
  /\ t.pc \in {"idle", "summarize", "begin", "model"}
  /\ t.pc = "summarize" => t.cand # <<>>
  /\ t.cand # <<>> => UpToSome(IdsOf(t.cand), v) /\ Unsplit(IdsOf(t.cand))

ConvInv ==
  /\ Logged
  /\ row = [v \in Agents |-> row[v]] /\ turn = [v \in Agents |-> turn[v]]
  /\ \A v \in Agents : RowFits(row[v], log, v.code, v.scope) /\ Unsplit(row[v].covers) /\ StageFits(turn[v], v)

TagOf == [i \in DOMAIN log |-> Tag(log[i])]

LEMMA LogIncreases ==
  ASSUME Logged
  PROVE  /\ Increasing(log) /\ \A i \in DOMAIN log : log[i].id > 0
         /\ Len(log) \in Nat /\ DOMAIN log = 1..Len(log) /\ Tagged(log, TagOf)
         /\ \A v \in Agents : SeenBy(v) = {i \in DOMAIN log : Sees(log[i], v.code, v.scope)}
<1>1. Len(log) \in Nat /\ DOMAIN log = 1..Len(log) /\ \A i \in DOMAIN log : log[i].id = i
  BY DEF Logged
<1>2. Listed(log)
  <2>1. log = [i \in 1..Len(log) |-> log[i]]
    BY DEF Logged
  <2> QED BY <1>1, <2>1 DEF Listed
<1>3. \A v \in Agents : SeenBy(v) = {i \in DOMAIN log : Sees(log[i], v.code, v.scope)}
  BY <1>1 DEF SeenBy, SeenOf
<1>4. Tagged(log, TagOf)
  BY <1>1 DEF Tagged, TagOf, Logged, CallsFit
<1> QED BY <1>1, <1>2, <1>3, <1>4 DEF Increasing

(* What was seen up to an item is what is seen up to it later.              *)
LEMMA SeenStays ==
  ASSUME Logged, Logged', Len(log) <= Len(log'), \A i \in DOMAIN log : log'[i] = log[i],
         NEW v \in Agents, NEW top \in 0..Len(log)
  PROVE  {x \in SeenBy(v)' : x <= top} = {x \in SeenBy(v) : x <= top}
<1>1. Len(log) \in Nat /\ DOMAIN log = 1..Len(log) /\ SeenBy(v) = {i \in DOMAIN log : Sees(log[i], v.code, v.scope)}
  BY LogIncreases
<1>2. Len(log') \in Nat /\ DOMAIN log' = 1..Len(log') /\ \A i \in DOMAIN log' : log'[i].id = i
  BY DEF Logged
<1>3. SeenBy(v)' = {i \in DOMAIN log' : Sees(log'[i], v.code, v.scope)}
  BY <1>2 DEF SeenBy, SeenOf
<1>4. \A x \in DOMAIN log : x \in DOMAIN log'
  BY <1>1, <1>2
<1>5. \A x \in DOMAIN log' : x <= top => x \in DOMAIN log
  BY <1>1, <1>2
<1>6. \A x \in DOMAIN log : Sees(log'[x], v.code, v.scope) <=> Sees(log[x], v.code, v.scope)
  OBVIOUS
<1> QED BY <1>1, <1>3, <1>4, <1>5, <1>6

LEMMA GrowsFit ==
  ASSUME ConvInv, UNCHANGED row, Logged', Len(log) <= Len(log'), \A i \in DOMAIN log : log'[i] = log[i],
         \A i \in DOMAIN log' : i > Len(log) => log'[i].call = NoCall \/ log'[i].call > Len(log),
         NEW v \in Agents, NEW t, StageFits(t, v), turn' = [turn EXCEPT ![v] = t]
  PROVE  ConvInv'
<1>0. Logged /\ Len(log) \in Nat /\ Len(log') \in Nat
  BY DEF ConvInv, Logged
<1>1. ASSUME NEW u \in Agents PROVE RowFits(row[u], log, u.code, u.scope)'
  <2>1. RowFits(row[u], log, u.code, u.scope) /\ row[u].end \in 0..Len(log)
    BY DEF ConvInv, RowFits
  <2>2. {x \in SeenBy(u)' : x <= row[u].end} = {x \in SeenBy(u) : x <= row[u].end}
    BY <1>0, <2>1, SeenStays
  <2>3. row[u].end \in 0..Len(log')
    BY <1>0, <2>1
  <2> QED BY <2>1, <2>2, <2>3 DEF RowFits, SeenBy
<1>10. ASSUME NEW ids, ids \subseteq 1..Len(log), Unsplit(ids) PROVE Unsplit(ids)'
  <2> SUFFICES ASSUME NEW i \in DOMAIN log', log'[i].call \in ids PROVE i \in ids
    BY DEF Unsplit
  <2>1. log'[i].call \in 1..Len(log) /\ DOMAIN log' = 1..Len(log') /\ DOMAIN log = 1..Len(log)
    BY <1>10 DEF Logged, ConvInv
  <2>2. i \in DOMAIN log
    BY <1>0, <2>1 DEF NoCall
  <2> QED BY <1>10, <2>2 DEF Unsplit
<1>11. ASSUME NEW u \in Agents PROVE Unsplit(row[u].covers)'
  <2>1. row[u].covers \subseteq SeenBy(u) /\ Unsplit(row[u].covers)
    BY DEF ConvInv, RowFits, SeenBy
  <2>2. row[u].covers \subseteq 1..Len(log)
    BY <1>0, <2>1, LogIncreases
  <2>3. Unsplit(row[u].covers) /\ row[u].covers = row'[u].covers
    BY <2>1
  <2> DEFINE ids == row[u].covers
  <2> HIDE DEF ids
  <2>4. ids \subseteq 1..Len(log) /\ Unsplit(ids)
    BY <2>2, <2>3 DEF ids
  <2>5. \A i \in DOMAIN log' : log'[i].call \in ids => i \in ids
    BY <1>10, <2>4 DEF Unsplit
  <2> QED BY <2>3, <2>5 DEF Unsplit, ids
<1>2. ASSUME NEW u \in Agents, NEW s, StageFits(s, u) PROVE StageFits(s, u)'
  <2>1. UpToSome(IdsOf(s.cand), u) => UpToSome(IdsOf(s.cand), u)'
    <3> SUFFICES ASSUME NEW top \in 1..Len(log), IdsOf(s.cand) = {x \in SeenBy(u) : x <= top}, top \in IdsOf(s.cand)
                 PROVE  UpToSome(IdsOf(s.cand), u)'
      BY DEF UpToSome
    <3>1. top \in 0..Len(log) /\ top \in 1..Len(log')
      BY <1>0
    <3>2. {x \in SeenBy(u)' : x <= top} = {x \in SeenBy(u) : x <= top}
      BY <1>0, <3>1, SeenStays
    <3> QED BY <3>1, <3>2 DEF UpToSome
  <2>2. s.cand # <<>> => Unsplit(IdsOf(s.cand))'
    <3> DEFINE ids == IdsOf(s.cand)
    <3>1. s.cand # <<>> => ids \subseteq SeenBy(u) /\ Unsplit(ids)
      BY <1>2 DEF StageFits, UpToSome
    <3> HIDE DEF ids
    <3>2. SeenBy(u) \subseteq 1..Len(log)
      BY <1>0, LogIncreases
    <3>3. s.cand # <<>> => Unsplit(ids)'
      BY <1>10, <3>1, <3>2
    <3> QED BY <3>3 DEF ids
  <2> QED BY <1>2, <2>1, <2>2 DEF StageFits
<1>3. ASSUME NEW u \in Agents PROVE StageFits(turn[u], u)'
  <2>1. turn'[u] = IF u = v THEN t ELSE turn[u]
    BY DEF ConvInv
  <2>2. StageFits(t, v)' /\ StageFits(turn'[u], u)
    BY <1>2, <2>1 DEF ConvInv
  <2> QED BY <1>2, <2>1, <2>2 DEF StageFits, UpToSome, Unsplit
<1>4. turn' = [u \in Agents |-> turn'[u]]
  BY DEF ConvInv
<1> QED BY <1>1, <1>11, <1>3, <1>4 DEF ConvInv

LEMMA TurnMoves ==
  ASSUME ConvInv, UNCHANGED <<log, row>>, NEW v \in Agents, NEW t, StageFits(t, v), turn' = [turn EXCEPT ![v] = t]
  PROVE  ConvInv'
<1>1. Logged /\ Len(log) \in Nat /\ DOMAIN log = 1..Len(log)
  BY DEF ConvInv, Logged
<1>2. /\ Logged' /\ Len(log) <= Len(log') /\ \A i \in DOMAIN log : log'[i] = log[i]
      /\ \A i \in DOMAIN log' : ~(i > Len(log))
  BY <1>1 DEF Logged
<1> QED BY <1>2, GrowsFit

(* The calls of what a turn adds.                                           *)
BatchFits(items) ==
  \A i \in DOMAIN items : items[i].call # NoCall =>
    /\ items[i].kind \in Private
    /\ \E k \in 1..i : /\ items[i].call = Len(log) + k /\ items[k].call = items[i].call
                       /\ \A j \in DOMAIN items : i < j /\ items[j].call = items[i].call => i = k

LEMMA AddFits ==
  ASSUME ConvInv, NEW items \in Seq(Items), add_items(items), \A i \in DOMAIN items : items[i].id = Len(log) + i, BatchFits(items),
         UNCHANGED row, NEW v \in Agents, NEW t, StageFits(t, v), turn' = [turn EXCEPT ![v] = t]
  PROVE  ConvInv'
<1>1. log \in Seq(Items) /\ (\A i \in DOMAIN log : log[i].id = i) /\ Len(log) \in Nat /\ DOMAIN log = 1..Len(log)
  BY DEF ConvInv, Logged
<1>2. log' = log \o items
  BY DEF add_items
<1>3. /\ log' \in Seq(Items) /\ Len(log') = Len(log) + Len(items) /\ Len(items) \in Nat /\ DOMAIN items = 1..Len(items)
      /\ DOMAIN log' = 1..(Len(log) + Len(items))
  BY <1>1, <1>2
<1>4. \A i \in DOMAIN log' : log'[i] = IF i <= Len(log) THEN log[i] ELSE items[i - Len(log)]
  BY <1>1, <1>2, <1>3, ConcatProperties
<1>5. ASSUME NEW i \in DOMAIN log' PROVE log'[i].id = i
  <2>1. CASE i <= Len(log)
    BY <1>1, <1>3, <1>4, <2>1
  <2>2. CASE ~(i <= Len(log))
    <3>1. i - Len(log) \in DOMAIN items /\ Len(log) + (i - Len(log)) = i
      BY <1>1, <1>3, <2>2
    <3> QED BY <1>4, <2>2, <3>1
  <2> QED BY <2>1, <2>2
<1>6. Len(log) <= Len(log')
  BY <1>1, <1>3
<1>7. \A i \in DOMAIN log : log'[i] = log[i]
  BY <1>1, <1>3, <1>4
<1>9. ASSUME NEW i \in DOMAIN log', i > Len(log)
      PROVE  /\ i - Len(log) \in DOMAIN items /\ log'[i] = items[i - Len(log)]
  BY <1>1, <1>3, <1>4, <1>9
<1>10. ASSUME NEW i \in DOMAIN log', i > Len(log), log'[i].call # NoCall
       PROVE  /\ log'[i].call > Len(log) /\ log'[i].kind \in Private /\ log'[i].call \in 1..i
              /\ log'[log'[i].call].call = log'[i].call
              /\ \A j \in DOMAIN log' : i < j /\ log'[j].call = log'[i].call => i = log'[i].call
  <2> DEFINE n == i - Len(log)
  <2>1. n \in DOMAIN items /\ log'[i] = items[n]
    BY <1>9, <1>10
  <2>2. PICK k \in 1..n : /\ items[n].call = Len(log) + k /\ items[k].call = items[n].call
                          /\ \A j \in DOMAIN items : n < j /\ items[j].call = items[n].call => n = k
    BY <1>10, <2>1 DEF BatchFits
  <2>3. n \in 1..Len(items) /\ k \in 1..Len(items) /\ n = i - Len(log) /\ i \in Nat
    BY <1>3, <2>1, <2>2
  <2>4. items[n].kind \in Private
    BY <1>10, <2>1 DEF BatchFits
  <2> HIDE DEF n
  <2> DEFINE c == Len(log) + k
  <2>5. c > Len(log) /\ c \in 1..i /\ c \in DOMAIN log' /\ c - Len(log) = k
    BY <1>1, <1>3, <2>2, <2>3
  <2>6. log'[i].call = c
    BY <2>1, <2>2
  <2> HIDE DEF c
  <2>7. log'[c] = items[k]
    BY <1>9, <2>5
  <2>8. ASSUME NEW j \in DOMAIN log', i < j, log'[j].call = c PROVE i = c
    <3>1. j > Len(log)
      BY <1>1, <1>3, <1>10, <2>8
    <3>2. j - Len(log) \in DOMAIN items /\ log'[j] = items[j - Len(log)]
      BY <1>9, <3>1
    <3>3. n < j - Len(log)
      BY <1>1, <1>3, <2>3, <2>8
    <3>4. n = k
      BY <2>1, <2>2, <2>6, <2>8, <3>2, <3>3
    <3> QED BY <1>1, <2>3, <2>5, <3>4
  <2> QED BY <2>1, <2>2, <2>4, <2>5, <2>6, <2>7, <2>8
<1>11. CallsFit(log')
  <2>1. CallsFit(log)
    BY DEF ConvInv, Logged
  <2> SUFFICES ASSUME NEW i \in DOMAIN log', log'[i].call # NoCall
               PROVE  /\ log'[i].kind \in Private /\ log'[i].call \in 1..i /\ log'[log'[i].call].call = log'[i].call
                      /\ \A j \in DOMAIN log' : i < j /\ log'[j].call = log'[i].call => i = log'[i].call
    BY DEF CallsFit
  <2>2. CASE i > Len(log)
    BY <1>10, <2>2
  <2>3. CASE ~(i > Len(log))
    <3>1. i \in DOMAIN log /\ log'[i] = log[i]
      BY <1>1, <1>3, <1>7, <2>3
    <3> DEFINE c == log[i].call
    <3>2. log[i].kind \in Private /\ c \in 1..i /\ log[c].call = c /\ c # NoCall
      BY <2>1, <3>1 DEF CallsFit
    <3>3. c \in DOMAIN log /\ log'[c] = log[c] /\ c <= Len(log)
      BY <1>1, <1>7, <3>1, <3>2
    <3>4. ASSUME NEW j \in DOMAIN log', i < j, log'[j].call = c PROVE i = c
      <4>1. CASE j > Len(log)
        <5>1. c > Len(log)
          BY <1>10, <3>2, <3>4, <4>1
        <5>2. c \in Nat
          BY <1>1, <3>3
        <5> QED BY <1>1, <3>3, <5>1, <5>2
      <4>2. CASE ~(j > Len(log))
        <5>1. j \in DOMAIN log /\ log'[j] = log[j]
          BY <1>1, <1>3, <1>7, <4>2
        <5> QED BY <2>1, <3>1, <3>2, <3>4, <5>1 DEF CallsFit
      <4> QED BY <4>1, <4>2
    <3> HIDE DEF c
    <3>5. log'[i].call = c
      BY <3>1 DEF c
    <3> QED BY <3>1, <3>2, <3>3, <3>4, <3>5
  <2> QED BY <2>2, <2>3
<1>8. Logged'
  BY <1>3, <1>5, <1>11 DEF Logged
<1>12. \A i \in DOMAIN log' : i > Len(log) => log'[i].call = NoCall \/ log'[i].call > Len(log)
  BY <1>10
<1> QED BY <1>6, <1>7, <1>8, <1>12, GrowsFit

LEMMA ItemTyped ==
  ASSUME ConvInv, NEW v \in Agents, NEW n \in Nat, NEW kind \in {"assistant", "call", "output", "reason"} \cup v.begins,
         NEW call \in Nat, NEW w \in Nat
  PROVE  Item(v, n, kind, call, w) \in Items /\ Item(v, n, kind, call, w).id = Len(log) + n
<1>1. Len(log) \in Nat
  BY DEF ConvInv, Logged
<1>2. kind \in {"assistant", "call", "output", "reason"} \cup UNION {u.begins : u \in Agents}
  OBVIOUS
<1>3. v.code \in {u.code : u \in Agents} /\ v.scope \in {u.scope : u \in Agents}
  OBVIOUS
<1>4. Len(log) + n \in Nat
  BY <1>1
<1> QED BY <1>2, <1>3, <1>4 DEF Item, Items

LEMMA IdleFits ==
  ASSUME NEW v
  PROVE  /\ StageFits(NoTurn, v) /\ StageFits([NoTurn EXCEPT !.pc = "begin"], v)
<1>1. NoTurn.cand = <<>> /\ NoTurn.pc = "idle"
  BY DEF NoTurn
<1> DEFINE b == [NoTurn EXCEPT !.pc = "begin"]
<1>2. b.cand = <<>> /\ b.pc = "begin" /\ b = [pc |-> b.pc, cand |-> b.cand, total |-> b.total]
  BY DEF NoTurn
<1> HIDE DEF b
<1>3. StageFits(b, v)
  BY <1>2 DEF StageFits
<1>4. NoTurn = [pc |-> NoTurn.pc, cand |-> NoTurn.cand, total |-> NoTurn.total]
  BY DEF NoTurn
<1> QED BY <1>1, <1>3, <1>4 DEF StageFits, b

-----------------------------------------------------------------------------
(* The steps of a turn. *)

LEMMA ProjectionLists ==
  ASSUME ConvInv, NEW v \in Agents
  PROVE  /\ Lists(Projection(v), SeenBy(v))
         /\ \A i \in DOMAIN Projection(v) : \/ Tag(Projection(v)[i]) = <<NoCall, "summary">> /\ Projection(v)[i].ids = row[v].covers
                                            \/ \A x \in Projection(v)[i].ids : TagOf[x] = Tag(Projection(v)[i])
<1>1. Increasing(log) /\ (\A i \in DOMAIN log : log[i].id > 0) /\ Tagged(log, TagOf)
  BY LogIncreases DEF ConvInv
<1>2. RowFits(row[v], log, v.code, v.scope)
  BY DEF ConvInv
<1> DEFINE all == project_context(log, v.code, v.scope, row[v])
<1>3. /\ Lists(all, SeenOf(log, Len(log), v.code, v.scope))
      /\ \A i \in DOMAIN all : \/ Tag(all[i]) = <<NoCall, "summary">> /\ all[i].ids = row[v].covers
                               \/ \A x \in all[i].ids : TagOf[x] = Tag(all[i])
  BY <1>1, <1>2, ContextLists
<1>4. Projection(v) = all
  BY DEF Projection
<1> HIDE DEF all
<1> QED BY <1>3, <1>4 DEF SeenBy

(* What is to be summarized is what the agent saw up to some item.          *)
LEMMA CandidatesReach ==
  ASSUME ConvInv, NEW v \in Agents, NEW total, NEW cand,
         cand = select_compaction_candidates(Projection(v), total, Cfg), cand # <<>>
  PROVE  UpToSome(IdsOf(cand), v) /\ Unsplit(IdsOf(cand))
<1> DEFINE items == Projection(v)
           ids == IdsOf(cand)
<1>0. Lists(items, SeenBy(v)) /\ Listed(items) /\ Len(items) \in Nat /\ DOMAIN items = 1..Len(items)
  <2>1. Lists(items, SeenBy(v))
    BY ProjectionLists
  <2> HIDE DEF items
  <2> QED BY <2>1 DEF Lists, Listed
<1>1. Len(log) \in Nat /\ DOMAIN log = 1..Len(log) /\ SeenBy(v) \subseteq 1..Len(log)
  BY LogIncreases DEF ConvInv
<1> HIDE DEF items
<1>2. PICK m \in 0..Len(items) : cand = SubSeq(items, 1, m) /\ (m # 0 => OpenAfter(items, m) = {})
  BY <1>0, CandidatesArePrefix DEF items
<1>3. Len(cand) = m /\ DOMAIN cand = 1..m /\ Listed(cand) /\ \A i \in 1..m : cand[i] = items[i] /\ i \in DOMAIN items
  BY <1>0, <1>2, ListedPrefix
<1>4. m # 0
  <2>1. cand \in Seq({cand[i] : i \in DOMAIN cand})
    BY <1>3 DEF Listed
  <2> QED BY <1>3, <2>1
<1>5. 1 \in DOMAIN cand
  BY <1>2, <1>3, <1>4
<1>6. ids # {} /\ ids \subseteq SeenBy(v)
  <2>1. \A i \in DOMAIN cand : cand[i].ids # {} /\ cand[i].ids \subseteq SeenBy(v)
    BY <1>0, <1>3 DEF Lists, IdsOf
  <2> QED BY <1>5, <2>1 DEF IdsOf
<1>7. ids \in SUBSET (0..Len(log))
  BY <1>1, <1>6
<1> HIDE DEF ids
<1> DEFINE top == Max(ids)
<1>8. top \in ids /\ \A x \in ids : x <= top
  BY <1>1, <1>6, <1>7, GreatestIsIn
<1> HIDE DEF top
<1>9. top \in IdsOf(SubSeq(items, 1, m)) /\ \A x \in IdsOf(SubSeq(items, 1, m)) : x <= top
  BY <1>2, <1>8 DEF ids
<1>10. IdsOf(SubSeq(items, 1, m)) = {x \in SeenBy(v) : x <= top}
  BY <1>0, <1>9, PrefixLists
<1>11. top \in 1..Len(log)
  BY <1>1, <1>6, <1>8
<1>12. ids = {x \in SeenBy(v) : x <= top}
  BY <1>2, <1>10 DEF ids
<1>13. UpToSome(ids, v)
  BY <1>8, <1>11, <1>12 DEF UpToSome
<1>14. ASSUME NEW i \in DOMAIN log, log[i].call \in ids PROVE i \in ids
  <2> SUFFICES ASSUME i \notin ids PROVE FALSE
    OBVIOUS
  <2> DEFINE c == log[i].call
  <2>1. c \in 1..Len(log) /\ c # NoCall /\ c \in ids
    BY <1>1, <1>6, <1>14 DEF NoCall
  <2>2. CallsFit(log)
    BY DEF ConvInv, Logged
  <2>3. log[c].call = c /\ c \in DOMAIN log /\ c \in 1..i
    BY <1>1, <2>1, <2>2 DEF CallsFit
  <2>4. \A x \in DOMAIN log : log[x].call = c => x = c \/ x = i
    <3> SUFFICES ASSUME NEW x \in DOMAIN log, log[x].call = c PROVE x = c \/ x = i
      OBVIOUS
    <3>1. x < i => x = c
      BY <2>1, <2>2 DEF CallsFit
    <3>2. i < x => i = c
      BY <2>1, <2>2 DEF CallsFit
    <3>3. i # c
      BY <2>1, <1>14
    <3> QED BY <1>1, <3>1, <3>2, <3>3
  <2> HIDE DEF c
  <2>5. \A j \in 1..m : items[j].ids # {} /\ items[j].ids \subseteq ids /\ j \in DOMAIN items
    <3>1. \A j \in 1..m : cand[j].ids \subseteq ids
      BY <1>3 DEF ids, IdsOf
    <3> QED BY <1>0, <1>3, <3>1 DEF Lists
  <2>6. \A j \in 1..m : \/ items[j].call = NoCall /\ items[j].ids = row[v].covers
                        \/ \A x \in items[j].ids : log[x].call = items[j].call
    <3>1. \A j \in DOMAIN items : \/ Tag(items[j]) = <<NoCall, "summary">> /\ items[j].ids = row[v].covers
                                  \/ \A x \in items[j].ids : TagOf[x] = Tag(items[j])
      BY ProjectionLists DEF items
    <3>2. \A x \in ids : TagOf[x] = Tag(log[x])
      BY <1>1, <1>6 DEF TagOf
    <3>3. \A x, y : Tag(x) = Tag(y) => x.call = y.call
      BY DEF Tag
    <3>4. \A x : Tag(x) = <<NoCall, "summary">> => x.call = NoCall
      BY DEF Tag
    <3> QED BY <2>5, <3>1, <3>2, <3>3, <3>4
  <2>7. PICK p \in 1..m : c \in items[p].ids
    <3>1. \E j \in DOMAIN cand : c \in cand[j].ids
      BY <2>1 DEF ids, IdsOf
    <3> QED BY <1>3, <3>1
  <2>8. CASE items[p].ids = row[v].covers
    <3>1. Unsplit(row[v].covers)
      BY DEF ConvInv
    <3>2. i \in items[p].ids
      BY <2>7, <2>8, <3>1 DEF Unsplit, c
    <3> QED BY <2>5, <3>2
  <2>9. CASE items[p].ids # row[v].covers
    <3>1. items[p].call = c
      BY <2>3, <2>6, <2>7, <2>9
    <3>2. ASSUME NEW j \in 1..m, items[j].call = c PROVE j = p
      <4>1. PICK x \in items[j].ids : TRUE
        BY <2>5
      <4>2. log[x].call = c /\ x \in ids
        BY <2>1, <2>5, <2>6, <3>2
      <4>3. x \in DOMAIN log
        BY <1>1, <1>6, <4>2
      <4>4. x = c
        BY <2>4, <4>2, <4>3
      <4>5. ~(j < p) /\ ~(p < j)
        BY <1>0, <2>1, <2>5, <2>7, <4>1, <4>4 DEF Lists
      <4> QED BY <4>5
    <3>4. \A j \in 1..m : items[j].call = c <=> j = p
      BY <3>1, <3>2
    <3>5. m \in Nat /\ c # NoCall
      BY <1>0, <2>1
    <3>3. c \in OpenAfter(items, m)
      BY <3>4, <3>5, OnceIsOpen
    <3> QED BY <1>2, <1>4, <3>3
  <2> QED BY <2>8, <2>9
<1> QED BY <1>13, <1>14 DEF ids, Unsplit

LEMMA MovedFits ==
  ASSUME NEW v, NEW s, StageFits(s, v), NEW l \in {"idle", "begin", "model"}
  PROVE  StageFits([s EXCEPT !.pc = l], v)
<1> DEFINE t == [s EXCEPT !.pc = l]
<1>1. s = [pc |-> s.pc, cand |-> s.cand, total |-> s.total]
  BY DEF StageFits
<1>2. t.pc = l /\ t.cand = s.cand /\ t = [pc |-> t.pc, cand |-> t.cand, total |-> t.total]
  BY <1>1
<1> HIDE DEF t
<1>3. StageFits(t, v)
  BY <1>2 DEF StageFits
<1> QED BY <1>3 DEF t

LEMMA CompactFits ==
  ASSUME ConvInv, NEW v \in Agents, compact_if_needed(v)
  PROVE  ConvInv'
<1> DEFINE items == Projection(v)
           total == Weight(items) + Incoming
           cand  == select_compaction_candidates(items, total, Cfg)
           asked == [pc |-> "summarize", cand |-> cand, total |-> total]
           t == IF total < Cfg.trigger \/ Len(cand) < Cfg.min \/ cand = <<>> THEN [NoTurn EXCEPT !.pc = "begin"] ELSE asked
<1>1. turn' = [turn EXCEPT ![v] = t] /\ UNCHANGED <<log, row>>
  BY DEF compact_if_needed
<1>2. cand # <<>> => UpToSome(IdsOf(cand), v) /\ Unsplit(IdsOf(cand))
  <2> HIDE DEF total
  <2> DEFINE c == cand
  <2>1. c = select_compaction_candidates(Projection(v), total, Cfg)
    OBVIOUS
  <2> HIDE DEF c
  <2>2. c # <<>> => UpToSome(IdsOf(c), v) /\ Unsplit(IdsOf(c))
    BY <2>1, CandidatesReach
  <2> QED BY <2>2 DEF c
<1>3. t = [NoTurn EXCEPT !.pc = "begin"] \/ (t = asked /\ cand # <<>>)
  OBVIOUS
<1> HIDE DEF cand, total, items
<1>4. asked.pc = "summarize" /\ asked.cand = cand /\ asked = [pc |-> asked.pc, cand |-> asked.cand, total |-> asked.total]
  OBVIOUS
<1> HIDE DEF asked, t
<1>5. cand # <<>> => StageFits(asked, v)
  BY <1>2, <1>4 DEF StageFits
<1>6. StageFits(t, v)
  BY <1>3, <1>5, IdleFits
<1> QED BY <1>1, <1>6, TurnMoves

(* Moving on, but for asking for a summary, keeps what was taken down.      *)
LEMMA GotoFits ==
  ASSUME ConvInv, UNCHANGED <<log, row>>, NEW v \in Agents, Goto(v, "begin")
  PROVE  ConvInv'
<1> DEFINE t == [turn[v] EXCEPT !.pc = "begin"]
<1>1. StageFits(turn[v], v) /\ turn' = [turn EXCEPT ![v] = t]
  BY DEF ConvInv, Goto
<1>2. StageFits(t, v)
  BY <1>1, MovedFits
<1> HIDE DEF t
<1> QED BY <1>1, <1>2, TurnMoves

LEMMA FailsFit ==
  ASSUME ConvInv, NEW v \in Agents, summarize_fails(v)
  PROVE  ConvInv'
<1>1. UNCHANGED <<log, row>> /\ At(v, "summarize") /\ (TurnEnds(v) \/ Goto(v, "begin"))
  BY DEF summarize_fails
<1>2. CASE TurnEnds(v)
  BY <1>1, <1>2, IdleFits, TurnMoves DEF TurnEnds
<1>3. CASE Goto(v, "begin")
  BY <1>1, <1>3, GotoFits
<1> QED BY <1>1, <1>2, <1>3


LEMMA OfTheModel ==
  ASSUME ConvInv, NEW v \in Agents, NEW n \in Nat, NEW kind \in {"assistant", "call", "output", "reason"},
         NEW call \in Nat, NEW w \in Nat
  PROVE  Item(v, n, kind, call, w) \in Items
<1>1. kind \in {"assistant", "call", "output", "reason"} \cup v.begins
  OBVIOUS
<1> QED BY <1>1, ItemTyped

LEMMA OneAdded ==
  ASSUME ConvInv, NEW x \in Items, add_items(<<x>>), x.id = Len(log) + 1,
         x.call # NoCall => x.kind \in Private /\ x.call = Len(log) + 1,
         UNCHANGED row, NEW v \in Agents, NEW t, StageFits(t, v), turn' = [turn EXCEPT ![v] = t]
  PROVE  ConvInv'
<1> DEFINE items == <<x>>
<1>1. items \in Seq(Items) /\ (\A i \in DOMAIN items : items[i].id = Len(log) + i) /\ add_items(items)
  OBVIOUS
<1>2. DOMAIN items = {1} /\ items[1] = x
  OBVIOUS
<1> HIDE DEF items
<1>3. BatchFits(items)
  BY <1>2 DEF BatchFits
<1> QED BY <1>1, <1>3, AddFits

(* The summary that is stored stands for what was summarized, whatever was  *)
(* stored since.                                                            *)
LEMMA StoreFits ==
  ASSUME ConvInv, NEW v \in Agents, store_compaction(v)
  PROVE  ConvInv'
<1> DEFINE ids == IdsOf(turn[v].cand)
<1>0. Logged /\ Len(log) \in Nat /\ StageFits(turn[v], v) /\ turn[v].pc = "summarize"
  BY DEF ConvInv, Logged, store_compaction, At
<1>1. PICK top \in 1..Len(log) : ids = {x \in SeenBy(v) : x <= top} /\ top \in ids
  BY <1>0 DEF StageFits, UpToSome
<1> HIDE DEF ids
<1> DEFINE m == Max(ids)
<1>2. SeenBy(v) \subseteq 1..Len(log)
  BY <1>0, LogIncreases
<1>3. m = top
  <2>1. ids \in SUBSET (0..Len(log)) /\ ids # {}
    BY <1>0, <1>1, <1>2
  <2>2. m \in ids /\ \A x \in ids : x <= m
    BY <1>0, <2>1, GreatestIsIn
  <2> HIDE DEF m
  <2>3. m \in Nat /\ m <= top /\ top <= m
    BY <1>1, <2>1, <2>2
  <2> QED BY <2>3
<1> HIDE DEF m
<1>4. PICK w \in 1..Cfg.summary : row' = [row EXCEPT ![v] = StoredRow(turn[v].cand, w)]
  BY DEF store_compaction
<1> DEFINE r == StoredRow(turn[v].cand, w)
<1>5. r.end = top /\ r.covers = ids /\ r = [end |-> r.end, covers |-> r.covers, w |-> r.w]
  BY <1>3 DEF StoredRow, m, ids
<1> HIDE DEF r
<1>6. RowFits(r, log, v.code, v.scope)
  <2>1. top \in 0..Len(log)
    BY <1>0
  <2> QED BY <1>1, <1>5, <2>1 DEF RowFits, SeenBy
<1>7. \A u \in Agents : RowFits(row'[u], log, u.code, u.scope)
  BY <1>4, <1>6 DEF ConvInv, r
<1>8. UNCHANGED log /\ turn' = [turn EXCEPT ![v] = [NoTurn EXCEPT !.pc = "begin"]]
  BY DEF store_compaction
<1>9. \A u \in Agents : StageFits(turn'[u], u)
  BY <1>8, IdleFits DEF ConvInv
<1>12. \A u \in Agents : Unsplit(row'[u].covers)
  <2>1. Unsplit(r.covers)
    BY <1>0, <1>5 DEF StageFits, ids
  <2> QED BY <1>4, <2>1 DEF ConvInv, r
<1>10. \A u \in Agents : RowFits(row[u], log, u.code, u.scope)' /\ Unsplit(row[u].covers)' /\ StageFits(turn[u], u)'
  BY <1>7, <1>8, <1>9, <1>12 DEF RowFits, StageFits, UpToSome, SeenBy, Unsplit
<1>11. Logged' /\ row' = [u \in Agents |-> row'[u]] /\ turn' = [u \in Agents |-> turn'[u]]
  BY <1>4, <1>8 DEF ConvInv, Logged
<1> QED BY <1>10, <1>11 DEF ConvInv

LEMMA TurnBeginsFit ==
  ASSUME ConvInv, NEW v \in Agents, NEW kind \in v.begins, turn_begins(v, kind)
  PROVE  ConvInv'
<1> DEFINE t == [turn[v] EXCEPT !.pc = "model"]
           x == Item(v, 1, kind, NoCall, Incoming)
<1>1. UNCHANGED row /\ turn' = [turn EXCEPT ![v] = t] /\ add_items(<<x>>) /\ StageFits(turn[v], v)
  BY DEF turn_begins, Goto, ConvInv
<1>2. StageFits(t, v)
  BY <1>1, MovedFits
<1>4. x.call = NoCall
  BY DEF Item
<1>3. x \in Items /\ x.id = Len(log) + 1
  <2>1. kind \in {"assistant", "call", "output", "reason"} \cup v.begins
    OBVIOUS
  <2>2. NoCall \in Nat /\ Incoming \in Nat
    BY DEF NoCall, Incoming
  <2>3. 1 \in Nat
    OBVIOUS
  <2> HIDE DEF t
  <2>4. \A n, call, w \in Nat : Item(v, n, kind, call, w) \in Items /\ Item(v, n, kind, call, w).id = Len(log) + n
    BY <2>1, ItemTyped
  <2> QED BY <2>2, <2>3, <2>4, Zenon
<1> HIDE DEF t, x
<1> QED BY <1>1, <1>2, <1>3, <1>4, OneAdded

LEMMA AnswerFits ==
  ASSUME ConvInv, NEW v \in Agents, answers(v) \/ tool_is_interrupted(v)
  PROVE  ConvInv'
<1> DEFINE x == Item(v, 1, "assistant", NoCall, 1)
           y == Item(v, 1, "call", Len(log) + 1, 1)
<1>1. UNCHANGED row /\ turn' = [turn EXCEPT ![v] = NoTurn] /\ (add_items(<<x>>) \/ add_items(<<y>>))
  BY DEF answers, tool_is_interrupted, TurnEnds
<1>2. StageFits(NoTurn, v)
  BY IdleFits
<1>3. x \in Items
  BY OfTheModel DEF NoCall
<1>4. y \in Items
  <2>1. Len(log) + 1 \in Nat /\ 1 \in Nat /\ "call" \in {"assistant", "call", "output", "reason"}
    BY DEF ConvInv, Logged
  <2> QED BY <2>1, OfTheModel
<1>5. /\ x.id = Len(log) + 1 /\ y.id = Len(log) + 1
      /\ x.call = NoCall /\ y.call = Len(log) + 1 /\ y.kind \in Private
  BY DEF Item, Private
<1> HIDE DEF x, y
<1> QED BY <1>1, <1>2, <1>3, <1>4, <1>5, OneAdded

LEMMA ToolsFit ==
  ASSUME ConvInv, NEW v \in Agents, calls_tools(v)
  PROVE  ConvInv'
<1>01. Len(log) + 1 \in Nat
  BY DEF ConvInv, Logged
<1>02. PICK a \in Nat : a = Len(log) + 1
  BY <1>01
<1>0. Len(log) \in Nat /\ a \in Nat /\ a + 1 \in Nat /\ NoCall \in Nat
  BY DEF ConvInv, Logged, NoCall
<1>1. UNCHANGED row /\ StageFits(turn[v], v) /\ turn' = [turn EXCEPT ![v] = turn[v]]
  BY DEF calls_tools, ConvInv
<1>2. ASSUME NEW w \in {1, 3}, add_items(<<Item(v, 1, "call", a, 1), Item(v, 2, "output", a, w)>>) PROVE ConvInv'
  <2> DEFINE x == Item(v, 1, "call", a, 1)
             y == Item(v, 2, "output", a, w)
             items == <<x, y>>
  <2>0. w \in Nat
    OBVIOUS
  <2>1. x \in Items
    BY <1>0, OfTheModel
  <2>10. y \in Items
    BY <1>0, <2>0, OfTheModel
  <2>11. x.id = Len(log) + 1 /\ y.id = Len(log) + 2
    BY DEF Item
  <2>12. x.call = Len(log) + 1 /\ y.call = Len(log) + 1 /\ x.kind \in Private /\ y.kind \in Private
    BY <1>02 DEF Item, Private
  <2>2. add_items(items)
    BY <1>2
  <2> HIDE DEF x, y
  <2>3. items \in Seq(Items) /\ \A i \in DOMAIN items : items[i].id = Len(log) + i
    BY <2>1, <2>10, <2>11
  <2>4. DOMAIN items = {1, 2} /\ items[1] = x /\ items[2] = y
    OBVIOUS
  <2> HIDE DEF items
  <2>5. BatchFits(items)
    BY <1>0, <2>4, <2>12 DEF BatchFits
  <2> QED BY <1>1, <2>2, <2>3, <2>5, AddFits
<1>3. ASSUME add_items(<<Item(v, 1, "call", a, 1), Item(v, 2, "call", a + 1, 1), Item(v, 3, "reason", NoCall, 1),
                         Item(v, 4, "output", a + 1, 1), Item(v, 5, "output", a, 1)>>)
      PROVE  ConvInv'
  <2> DEFINE x1 == Item(v, 1, "call", a, 1)
             x2 == Item(v, 2, "call", a + 1, 1)
             x3 == Item(v, 3, "reason", NoCall, 1)
             x4 == Item(v, 4, "output", a + 1, 1)
             x5 == Item(v, 5, "output", a, 1)
             items == <<x1, x2, x3, x4, x5>>
  <2>1. x1 \in Items
    BY <1>0, OfTheModel
  <2>2. x2 \in Items
    BY <1>0, OfTheModel
  <2>5. x3 \in Items
    BY <1>0, OfTheModel
  <2>6. x4 \in Items
    BY <1>0, OfTheModel
  <2>7. x5 \in Items
    BY <1>0, OfTheModel
  <2>8. x1.id = Len(log) + 1 /\ x2.id = Len(log) + 2 /\ x3.id = Len(log) + 3 /\ x4.id = Len(log) + 4 /\ x5.id = Len(log) + 5
    BY DEF Item
  <2>9. /\ x1.call = Len(log) + 1 /\ x2.call = Len(log) + 2 /\ x3.call = NoCall /\ x4.call = Len(log) + 2 /\ x5.call = Len(log) + 1
        /\ {x1.kind, x2.kind, x4.kind, x5.kind} \subseteq Private
    BY <1>02 DEF Item, Private
  <2>3. add_items(items)
    BY <1>3
  <2> HIDE DEF x1, x2, x3, x4, x5
  <2>4. items \in Seq(Items) /\ \A i \in DOMAIN items : items[i].id = Len(log) + i
    BY <2>1, <2>2, <2>5, <2>6, <2>7, <2>8
  <2>10. /\ DOMAIN items = 1..5
         /\ items[1] = x1 /\ items[2] = x2 /\ items[3] = x3 /\ items[4] = x4 /\ items[5] = x5
    OBVIOUS
  <2> HIDE DEF items
  <2>11. BatchFits(items)
    <3> SUFFICES ASSUME NEW i \in DOMAIN items, items[i].call # NoCall
                 PROVE  /\ items[i].kind \in Private
                        /\ \E k \in 1..i : /\ items[i].call = Len(log) + k /\ items[k].call = items[i].call
                                           /\ \A j \in DOMAIN items : i < j /\ items[j].call = items[i].call => i = k
      BY DEF BatchFits
    <3>1. i \in {1, 2, 4, 5}
      BY <2>9, <2>10
    <3>2. items[i].kind \in Private
      BY <2>9, <2>10, <3>1
    <3>3. CASE i \in {1, 5}
      <4>1. \A j \in 1..5 : items[j].call = Len(log) + 1 => j \in {1, 5}
        BY <1>0, <2>9, <2>10 DEF NoCall
      <4>2. items[i].call = Len(log) + 1 /\ items[1].call = items[i].call /\ 1 \in 1..i
        BY <2>9, <2>10, <3>3
      <4>3. \A j \in 1..5 : i < j /\ j \in {1, 5} => i = 1
        BY <3>3
      <4> QED BY <2>10, <3>2, <4>1, <4>2, <4>3
    <3>4. CASE i \in {2, 4}
      <4>1. \A j \in 1..5 : items[j].call = Len(log) + 2 => j \in {2, 4}
        BY <1>0, <2>9, <2>10 DEF NoCall
      <4>2. items[i].call = Len(log) + 2 /\ items[2].call = items[i].call /\ 2 \in 1..i
        BY <2>9, <2>10, <3>4
      <4>3. \A j \in 1..5 : i < j /\ j \in {2, 4} => i = 2
        BY <3>4
      <4> QED BY <2>10, <3>2, <4>1, <4>2, <4>3
    <3> QED BY <3>1, <3>3, <3>4
  <2> QED BY <1>1, <2>3, <2>4, <2>11, AddFits
<1> QED BY <1>02, <1>2, <1>3 DEF calls_tools

-----------------------------------------------------------------------------
LEMMA ConvInit == Init => ConvInv
<1> SUFFICES ASSUME Init PROVE ConvInv
  OBVIOUS
<1>1. log = <<>> /\ row = [v \in Agents |-> NoRow] /\ turn = [v \in Agents |-> NoTurn] /\ Len(log) = 0 /\ DOMAIN log = {}
  BY DEF Init
<1>2. Logged /\ \A v \in Agents : Unsplit(NoRow.covers)
  BY <1>1 DEF Logged, CallsFit, Unsplit
<1>3. \A v \in Agents : RowFits(NoRow, log, v.code, v.scope)
  BY <1>1 DEF RowFits, NoRow, SeenOf
<1> QED BY <1>1, <1>2, <1>3, IdleFits DEF ConvInv

LEMMA ConvNext == ConvInv /\ [Next]_vars => ConvInv'
<1> SUFFICES ASSUME ConvInv, [Next]_vars PROVE ConvInv'
  OBVIOUS
<1>1. CASE UNCHANGED vars
  BY <1>1 DEF vars, ConvInv, Logged, RowFits, StageFits, UpToSome, SeenBy, Unsplit
<1>2. ASSUME NEW v \in Agents, turn_breaks(v) \/ model_call_raises(v) PROVE ConvInv'
  BY <1>2, IdleFits, TurnMoves DEF turn_breaks, model_call_raises, TurnEnds
<1>3. CASE Next
  BY <1>2, <1>3, CompactFits, FailsFit, StoreFits, TurnBeginsFit, AnswerFits, ToolsFit DEF Next
<1> QED BY <1>1, <1>3

LEMMA ConvHolds == Spec => []ConvInv
<1> QED BY ConvInit, ConvNext, PTL DEF Spec

(* The stored items are numbered as they were stored, a compaction covers   *)
(* items up to its end, and what a turn has taken down for a summary is     *)
(* stored (store.py, compaction.py).                                        *)
THEOREM ConversationTypesHold == Spec => []TypeOK
<1>1. ASSUME ConvInv PROVE TypeOK
  <2>1. Logged /\ Len(log) \in Nat /\ DOMAIN log = 1..Len(log)
    BY <1>1 DEF ConvInv, Logged
  <2>2. ASSUME NEW v \in Agents
        PROVE  /\ row[v].end \in 0..Len(log) /\ row[v].covers \subseteq 1..row[v].end
               /\ turn[v].pc \in {"idle", "summarize", "begin", "model"} /\ IdsOf(turn[v].cand) \subseteq DOMAIN log
    <3>1. SeenBy(v) \subseteq 1..Len(log)
      BY <2>1, LogIncreases
    <3>2. RowFits(row[v], log, v.code, v.scope) /\ StageFits(turn[v], v)
      BY <1>1 DEF ConvInv
    <3>3. row[v].end \in 0..Len(log) /\ row[v].covers = {x \in SeenBy(v) : x <= row[v].end}
      BY <3>2 DEF RowFits, SeenBy
    <3>4. row[v].covers \subseteq 1..row[v].end
      BY <2>1, <3>1, <3>3
    <3>5. turn[v].cand = <<>> => IdsOf(turn[v].cand) = {}
      <4>1. DOMAIN <<>> = {}
        OBVIOUS
      <4> QED BY <4>1 DEF IdsOf
    <3>6. turn[v].cand # <<>> => IdsOf(turn[v].cand) \subseteq SeenBy(v)
      BY <3>2 DEF StageFits, UpToSome
    <3>7. IdsOf(turn[v].cand) \subseteq DOMAIN log
      BY <2>1, <3>1, <3>5, <3>6
    <3> QED BY <3>2, <3>3, <3>4, <3>7 DEF StageFits
  <2> QED BY <2>1, <2>2 DEF TypeOK, Logged
<1> QED BY <1>1, ConvHolds, PTL

(* Every item an agent may see is in its context exactly once, itself or    *)
(* within the summary that stands for it: whatever the agents, the          *)
(* configuration and the items, and whatever was stored while the summary   *)
(* was being written (project_context, _filter_compacted,                   *)
(* _select_compaction_candidates, _store_compaction).                       *)
THEOREM NothingIsLost == Spec => []NothingLost
<1>1. ASSUME ConvInv PROVE NothingLost
  <2> SUFFICES ASSUME NEW v \in Agents
               PROVE  LET seen == Projection(v)
                          all  == IdsOf(project_visible(log, v.code, v.scope)) IN
                      /\ IdsOf(seen) = all
                      /\ \A i, j \in DOMAIN seen : i # j => seen[i].ids \cap seen[j].ids = {}
    BY DEF NothingLost
  <2> DEFINE seen == Projection(v)
             full == project_visible(log, v.code, v.scope)
  <2>1. Lists(seen, SeenBy(v))
    BY <1>1, ProjectionLists
  <2>2. Lists(full, SeenBy(v))
    <3>1. Increasing(log) /\ Tagged(log, TagOf)
      BY <1>1, LogIncreases DEF ConvInv
    <3> QED BY <3>1, VisibleLists DEF SeenBy
  <2> HIDE DEF seen, full
  <2>3. IdsOf(seen) = IdsOf(full)
    BY <2>1, <2>2 DEF Lists
  <2>4. ASSUME NEW i \in DOMAIN seen, NEW j \in DOMAIN seen, i # j, NEW x, x \in seen[i].ids, x \in seen[j].ids PROVE FALSE
    <3>1. i \in Nat /\ j \in Nat
      BY <2>1 DEF Lists, Listed
    <3>2. x \in Nat
      BY <2>1, <2>4 DEF Lists, IdsOf
    <3>3. x < x
      BY <2>1, <2>4, <3>1 DEF Lists
    <3> QED BY <3>2, <3>3
  <2> QED BY <2>3, <2>4 DEF seen, full
<1> QED BY <1>1, ConvHolds, PTL

(* A compaction never parts a tool call from its output: the prefix that is *)
(* summarized ends where no call is open, and what others store while it is *)
(* summarized answers no call in it (_select_compaction_candidates).        *)
THEOREM NoCallIsSplit == Spec => []NoSplitCall
<1>1. ConvInv => NoSplitCall
  BY DEF ConvInv, Unsplit, NoSplitCall
<1> QED BY <1>1, ConvHolds, PTL

-----------------------------------------------------------------------------
(* What a provider is given. *)

LEMMA ListedJoin ==
  ASSUME NEW s, Listed(s), NEW u, Listed(u)
  PROVE  LET t == s \o u IN
         /\ Listed(t) /\ Len(s) \in Nat /\ Len(u) \in Nat /\ Len(t) = Len(s) + Len(u)
         /\ DOMAIN t = 1..(Len(s) + Len(u)) /\ DOMAIN s = 1..Len(s) /\ DOMAIN u = 1..Len(u)
         /\ \A i \in DOMAIN s : t[i] = s[i]
         /\ \A i \in DOMAIN u : t[Len(s) + i] = u[i]
         /\ \A i \in DOMAIN t : i \in DOMAIN s \/ (i - Len(s) \in DOMAIN u /\ t[i] = u[i - Len(s)])
<1> DEFINE E == {s[i] : i \in DOMAIN s} \cup {u[i] : i \in DOMAIN u}
           t == s \o u
<1>1. s \in Seq(E) /\ u \in Seq(E)
  <2> DEFINE A == {s[i] : i \in DOMAIN s}
             B == {u[i] : i \in DOMAIN u}
  <2>1. s \in Seq(A) /\ u \in Seq(B) /\ A \subseteq E /\ B \subseteq E
    BY DEF Listed
  <2> HIDE DEF A, B, E
  <2> QED BY <2>1
<1> HIDE DEF E
<1>2. Len(s) \in Nat /\ Len(u) \in Nat /\ DOMAIN s = 1..Len(s) /\ DOMAIN u = 1..Len(u)
  BY <1>1
<1>3. /\ t \in Seq(E) /\ Len(t) = Len(s) + Len(u)
      /\ \A i \in 1..(Len(s) + Len(u)) : t[i] = IF i <= Len(s) THEN s[i] ELSE u[i - Len(s)]
  BY <1>1, ConcatProperties
<1> HIDE DEF t
<1>4. DOMAIN t = 1..(Len(s) + Len(u)) /\ Len(t) \in Nat
  BY <1>2, <1>3
<1>5. \A i \in DOMAIN s : t[i] = s[i]
  BY <1>2, <1>3
<1>6. ASSUME NEW i \in DOMAIN u PROVE t[Len(s) + i] = u[i]
  <2>1. Len(s) + i \in 1..(Len(s) + Len(u)) /\ ~(Len(s) + i <= Len(s)) /\ (Len(s) + i) - Len(s) = i
    BY <1>2
  <2> QED BY <1>3, <2>1
<1>7. ASSUME NEW i \in DOMAIN t, i \notin DOMAIN s PROVE i - Len(s) \in DOMAIN u /\ t[i] = u[i - Len(s)]
  <2>1. i \in 1..(Len(s) + Len(u)) /\ ~(i <= Len(s)) /\ i - Len(s) \in DOMAIN u
    BY <1>2, <1>4, <1>7
  <2> QED BY <1>3, <2>1
<1>8. Listed(t)
  <2>1. t = [i \in 1..Len(t) |-> t[i]] /\ DOMAIN t = 1..Len(t)
    BY <1>3, <1>4
  <2> QED BY <1>4, <2>1 DEF Listed
<1> QED BY <1>2, <1>3, <1>4, <1>5, <1>6, <1>7, <1>8 DEF t

LEMMA PairedJoin ==
  ASSUME NEW s, Listed(s), Paired(s), NEW u, Listed(u), Paired(u)
  PROVE  Listed(s \o u) /\ Paired(s \o u)
<1> DEFINE t == s \o u
           n == Len(s)
<1>1. /\ Listed(t) /\ n \in Nat /\ Len(u) \in Nat /\ Len(t) = n + Len(u)
      /\ DOMAIN t = 1..(n + Len(u)) /\ DOMAIN s = 1..n /\ DOMAIN u = 1..Len(u)
      /\ \A i \in DOMAIN s : t[i] = s[i]
      /\ \A i \in DOMAIN u : t[n + i] = u[i]
      /\ \A i \in DOMAIN t : i \in DOMAIN s \/ (i - n \in DOMAIN u /\ t[i] = u[i - n])
  BY ListedJoin
<1> HIDE DEF t, n
<1>2. ASSUME NEW i \in DOMAIN t, t[i].kind = "output" PROVE \E j \in 1..(i-1) : t[j].kind = "call" /\ t[j].call = t[i].call
  <2>1. CASE i \in DOMAIN s
    <3>1. PICK j \in 1..(i-1) : s[j].kind = "call" /\ s[j].call = s[i].call
      BY <1>1, <1>2, <2>1 DEF Paired
    <3>2. j \in DOMAIN s
      BY <1>1, <2>1
    <3> QED BY <1>1, <2>1, <3>1, <3>2
  <2>2. CASE i - n \in DOMAIN u /\ t[i] = u[i - n]
    <3>1. PICK j \in 1..((i-n)-1) : u[j].kind = "call" /\ u[j].call = u[i-n].call
      BY <1>2, <2>2 DEF Paired
    <3>2. j \in DOMAIN u /\ n + j \in 1..(i-1)
      BY <1>1, <2>2
    <3> QED BY <1>1, <2>2, <3>1, <3>2
  <2> QED BY <1>1, <2>1, <2>2
<1>3. ASSUME NEW i \in DOMAIN t, t[i].kind = "call" PROVE \E j \in (i+1)..Len(t) : t[j].kind = "output" /\ t[j].call = t[i].call
  <2>1. CASE i \in DOMAIN s
    <3>1. PICK j \in (i+1)..Len(s) : s[j].kind = "output" /\ s[j].call = s[i].call
      BY <1>1, <1>3, <2>1 DEF Paired
    <3>2. j \in DOMAIN s /\ j \in (i+1)..Len(t)
      BY <1>1, <2>1 DEF n
    <3> QED BY <1>1, <2>1, <3>1, <3>2
  <2>2. CASE i - n \in DOMAIN u /\ t[i] = u[i - n]
    <3>1. PICK j \in ((i-n)+1)..Len(u) : u[j].kind = "output" /\ u[j].call = u[i-n].call
      BY <1>3, <2>2 DEF Paired
    <3>2. j \in DOMAIN u /\ n + j \in (i+1)..Len(t)
      BY <1>1, <2>2
    <3> QED BY <1>1, <2>2, <3>1, <3>2
  <2> QED BY <1>1, <2>1, <2>2
<1> QED BY <1>1, <1>2, <1>3 DEF Paired, t

Plain(s) == \A i \in DOMAIN s : s[i].kind # "call" /\ s[i].kind # "output"

LEMMA PlainPaired ==
  ASSUME NEW s, Plain(s)
  PROVE  Paired(s)
BY DEF Plain, Paired

(* The calls of a transaction, the outputs it has by call, what is put off. *)
TransactionFits(t) ==
  /\ t = [calls |-> t.calls, outs |-> t.outs, deferred |-> t.deferred]
  /\ Listed(t.calls) /\ \A i \in DOMAIN t.calls : t.calls[i].kind = "call"
  /\ \A c \in DOMAIN t.outs : t.outs[c].kind = "output" /\ t.outs[c].call = c
  /\ Listed(t.deferred) /\ Plain(t.deferred)

LEMMA ListedFun ==
  ASSUME NEW n \in Nat, NEW s, s = [i \in 1..n |-> s[i]]
  PROVE  Listed(s) /\ Len(s) = n /\ DOMAIN s = 1..n
<1>1. DOMAIN s = 1..n /\ s \in Seq({s[i] : i \in DOMAIN s})
  OBVIOUS
<1> QED BY <1>1 DEF Listed

(* Calls and, in the same order, what answers them.                         *)
LEMMA AnsweredPaired ==
  ASSUME NEW C, Listed(C), NEW O, Listed(O), Len(O) = Len(C),
         \A i \in DOMAIN C : C[i].kind = "call" /\ O[i].kind = "output" /\ O[i].call = C[i].call
  PROVE  Listed(C \o O) /\ Paired(C \o O)
<1> DEFINE s == C \o O
           n == Len(C)
<1>1. n \in Nat /\ DOMAIN C = 1..n /\ DOMAIN O = 1..n /\ \A i \in DOMAIN C : C[i].kind = "call"
  BY DEF Listed
<1>2. \A i \in DOMAIN C : O[i].kind = "output" /\ O[i].call = C[i].call
  OBVIOUS
<1>6. /\ Listed(s) /\ Len(s) = n + Len(O)
      /\ DOMAIN s = 1..(n + Len(O))
      /\ \A i \in DOMAIN C : s[i] = C[i]
      /\ \A i \in DOMAIN O : s[n + i] = O[i]
      /\ \A i \in DOMAIN s : i \in DOMAIN C \/ (i - n \in DOMAIN O /\ s[i] = O[i - n])
  <2>1. /\ Listed(s) /\ Len(C) \in Nat /\ Len(O) \in Nat /\ Len(s) = Len(C) + Len(O)
        /\ DOMAIN s = 1..(Len(C) + Len(O)) /\ DOMAIN C = 1..Len(C) /\ DOMAIN O = 1..Len(O)
        /\ \A i \in DOMAIN C : s[i] = C[i]
        /\ \A i \in DOMAIN O : s[Len(C) + i] = O[i]
        /\ \A i \in DOMAIN s : i \in DOMAIN C \/ (i - Len(C) \in DOMAIN O /\ s[i] = O[i - Len(C)])
    BY ListedJoin, Zenon
  <2> QED BY <2>1
<1> HIDE DEF s, n
<1>60. Len(O) = n
  BY DEF n
<1>7. Len(s) = n + n /\ DOMAIN s = 1..(n + n)
  BY <1>6, <1>60
<1>8. ASSUME NEW i \in DOMAIN s, s[i].kind = "output" PROVE \E j \in 1..(i-1) : s[j].kind = "call" /\ s[j].call = s[i].call
  <2>1. i \notin DOMAIN C
    BY <1>1, <1>6, <1>7, <1>8
  <2>2. i - n \in DOMAIN O /\ s[i] = O[i - n]
    BY <1>6, <1>7, <2>1
  <2>3. s[i - n] = C[i - n] /\ C[i - n].kind = "call" /\ C[i - n].call = O[i - n].call
    BY <1>1, <1>2, <1>6, <1>7, <2>2
  <2>4. i - n \in 1..(i - 1)
    BY <1>1, <1>2, <1>6, <1>7, <2>1, <2>2
  <2> QED BY <2>2, <2>3, <2>4
<1>9. ASSUME NEW i \in DOMAIN s, s[i].kind = "call" PROVE \E j \in (i+1)..Len(s) : s[j].kind = "output" /\ s[j].call = s[i].call
  <2>1. ~(i - n \in DOMAIN O /\ s[i] = O[i - n])
    BY <1>2, <1>9
  <2>2. i \in DOMAIN C
    BY <1>6, <1>7, <2>1
  <2>3. s[n + i] = O[i] /\ s[i] = C[i] /\ O[i].kind = "output" /\ O[i].call = C[i].call
    BY <1>2, <1>6, <1>7, <2>2
  <2>4. n + i \in (i+1)..Len(s)
    BY <1>1, <1>6, <1>7, <2>2
  <2> QED BY <2>3, <2>4
<1> QED BY <1>6, <1>8, <1>9 DEF Paired, s

LEMMA OrderedPaired ==
  ASSUME NEW t, TransactionFits(t), Complete(t)
  PROVE  Listed(Ordered(t)) /\ Paired(Ordered(t))
<1> DEFINE C == t.calls
           O == [i \in DOMAIN C |-> t.outs[C[i].call]]
           s == C \o O
<1>1. Listed(C) /\ Len(C) \in Nat /\ DOMAIN C = 1..Len(C) /\ \A i \in DOMAIN C : C[i].kind = "call"
  BY DEF TransactionFits, Listed
<1>2. DOMAIN O = DOMAIN C /\ \A i \in DOMAIN C : O[i].kind = "output" /\ O[i].call = C[i].call
  BY DEF TransactionFits, Complete
<1>3. Listed(t.deferred) /\ Plain(t.deferred)
  BY DEF TransactionFits
<1>4. Ordered(t) = s \o t.deferred
  BY DEF Ordered
<1>5. O = [i \in 1..Len(C) |-> O[i]]
  BY <1>1
<1> HIDE DEF C, O
<1>6. Listed(O) /\ Len(O) = Len(C)
  BY <1>1, <1>5, ListedFun
<1>7. Listed(s) /\ Paired(s)
  BY <1>1, <1>2, <1>6, AnsweredPaired
<1> HIDE DEF s
<1> QED BY <1>3, <1>4, <1>7, PlainPaired, PairedJoin

PairedSoFar(a) ==
  /\ a = [norm |-> a.norm, t |-> a.t] /\ Listed(a.norm) /\ Paired(a.norm) /\ TransactionFits(a.t)

LEMMA StartPairs ==
  ASSUME NEW s, Listed(s), Paired(s)
  PROVE  PairedSoFar([Start EXCEPT !.norm = s])
<1> DEFINE e == [calls |-> <<>>, outs |-> <<>>, deferred |-> <<>>]
           b == [Start EXCEPT !.norm = s]
<1>1. b.norm = s /\ b.t = e /\ b = [norm |-> b.norm, t |-> b.t]
  BY DEF Start
<1>2. e.calls = <<>> /\ e.outs = <<>> /\ e.deferred = <<>> /\ e = [calls |-> e.calls, outs |-> e.outs, deferred |-> e.deferred]
  OBVIOUS
<1> HIDE DEF e, b
<1>3. TransactionFits(e)
  BY <1>2, ListedEmpty DEF TransactionFits, Plain
<1>4. PairedSoFar(b)
  BY <1>1, <1>3 DEF PairedSoFar
<1> QED BY <1>4 DEF b

LEMMA FlushFits ==
  ASSUME NEW a, PairedSoFar(a)
  PROVE  PairedSoFar(Flush(a))
<1>1. CASE Complete(a.t)
  <2>1. Listed(Ordered(a.t)) /\ Paired(Ordered(a.t))
    BY <1>1, OrderedPaired DEF PairedSoFar
  <2> DEFINE s == a.norm \o Ordered(a.t)
  <2>2. Listed(s) /\ Paired(s)
    BY <2>1, PairedJoin DEF PairedSoFar
  <2>3. Flush(a) = [Start EXCEPT !.norm = s]
    BY <1>1 DEF Flush
  <2> HIDE DEF s
  <2> QED BY <2>2, <2>3, StartPairs
<1>2. CASE ~Complete(a.t)
  BY <1>2 DEF Flush
<1> QED BY <1>1, <1>2

LEMMA DiscardFits ==
  ASSUME NEW a, PairedSoFar(a)
  PROVE  PairedSoFar(Discard(a))
<1>1. CASE a.t.calls # <<>>
  <2>1. Listed(a.t.deferred) /\ Paired(a.t.deferred)
    BY PlainPaired DEF PairedSoFar, TransactionFits
  <2> DEFINE s == a.norm \o a.t.deferred
  <2>2. Listed(s) /\ Paired(s)
    BY <2>1, PairedJoin DEF PairedSoFar
  <2>3. Discard(a) = [Start EXCEPT !.norm = s]
    BY <1>1 DEF Discard
  <2> HIDE DEF s
  <2> QED BY <2>2, <2>3, StartPairs
<1>2. CASE a.t.calls = <<>>
  BY <1>2 DEF Discard
<1> QED BY <1>1, <1>2

LEMMA HandleFits ==
  ASSUME NEW a, PairedSoFar(a), NEW x
  PROVE  PairedSoFar(Handle(a, x))
<1>1. CASE x.kind = "call"
  <2> DEFINE f == Flush(a)
             b == IF Has(f.t.calls, x.call) THEN Discard(f) ELSE f
             d == [b EXCEPT !.t.calls = Append(@, x)]
  <2>1. Handle(a, x) = d
    BY <1>1 DEF Handle, HandleCall
  <2>2. PairedSoFar(b)
    BY FlushFits, DiscardFits
  <2> HIDE DEF b
  <2>4. TransactionFits(b.t) /\ b = [norm |-> b.norm, t |-> b.t]
    BY <2>2 DEF PairedSoFar
  <2>5. b.t = [calls |-> b.t.calls, outs |-> b.t.outs, deferred |-> b.t.deferred]
    BY <2>4 DEF TransactionFits
  <2>3. d.norm = b.norm /\ d.t = [b.t EXCEPT !.calls = Append(b.t.calls, x)] /\ d = [norm |-> d.norm, t |-> d.t]
    BY <2>4
  <2> HIDE DEF d
  <2>6. /\ d.t.calls = Append(b.t.calls, x) /\ d.t.outs = b.t.outs /\ d.t.deferred = b.t.deferred
        /\ d.t = [calls |-> d.t.calls, outs |-> d.t.outs, deferred |-> d.t.deferred]
    BY <2>3, <2>5
  <2>7. Listed(d.t.calls) /\ \A i \in DOMAIN d.t.calls : d.t.calls[i].kind = "call"
    <3> DEFINE s == b.t.calls
               u == Append(s, x)
    <3>1. Listed(s) /\ \A i \in DOMAIN s : s[i].kind = "call"
      BY <2>4 DEF TransactionFits
    <3> HIDE DEF s
    <3>2. /\ Listed(u) /\ Len(s) \in Nat /\ DOMAIN u = 1..(Len(s) + 1) /\ DOMAIN s = 1..Len(s)
          /\ u[Len(s) + 1] = x /\ \A i \in DOMAIN s : u[i] = s[i]
      BY <3>1, ListedAppend
    <3> HIDE DEF u
    <3>3. \A i \in DOMAIN u : i \in DOMAIN s \/ i = Len(s) + 1
      BY <3>2
    <3>4. \A i \in DOMAIN u : u[i].kind = "call"
      BY <1>1, <3>1, <3>2, <3>3
    <3> QED BY <2>6, <3>2, <3>4 DEF u, s
  <2>8. TransactionFits(d.t)
    BY <2>4, <2>6, <2>7 DEF TransactionFits
  <2> QED BY <2>1, <2>2, <2>3, <2>8 DEF PairedSoFar
<1>2. CASE x.kind = "output"
  <2> DEFINE o == [c \in DOMAIN a.t.outs \cup {x.call} |-> IF c = x.call THEN x ELSE a.t.outs[c]]
             d == [a EXCEPT !.t.outs = o]
  <2>1. Handle(a, x) = a \/ Handle(a, x) = Flush(d)
    <3>1. Handle(a, x) = HandleOutput(a, x)
      BY <1>2 DEF Handle
    <3> QED BY <3>1 DEF HandleOutput
  <2>2. a = [norm |-> a.norm, t |-> a.t] /\ a.t = [calls |-> a.t.calls, outs |-> a.t.outs, deferred |-> a.t.deferred]
    BY DEF PairedSoFar, TransactionFits
  <2>3. \A c \in DOMAIN o : o[c].kind = "output" /\ o[c].call = c
    BY <1>2 DEF PairedSoFar, TransactionFits
  <2> HIDE DEF o
  <2>4. /\ d.norm = a.norm /\ d = [norm |-> d.norm, t |-> d.t]
        /\ d.t.calls = a.t.calls /\ d.t.outs = o /\ d.t.deferred = a.t.deferred
        /\ d.t = [calls |-> d.t.calls, outs |-> d.t.outs, deferred |-> d.t.deferred]
    BY <2>2
  <2> HIDE DEF d
  <2>5. TransactionFits(d.t)
    BY <2>3, <2>4 DEF PairedSoFar, TransactionFits
  <2>6. PairedSoFar(d)
    BY <2>4, <2>5 DEF PairedSoFar
  <2> QED BY <2>1, <2>6, FlushFits
<1>3. CASE x.kind # "call" /\ x.kind # "output"
  <2>1. Handle(a, x) = HandleRegular(a, x)
    BY <1>3 DEF Handle
  <2>2. a = [norm |-> a.norm, t |-> a.t] /\ a.t = [calls |-> a.t.calls, outs |-> a.t.outs, deferred |-> a.t.deferred]
    BY DEF PairedSoFar, TransactionFits
  <2>3. ASSUME NEW s, Listed(s)
        PROVE  /\ Listed(Append(s, x))
               /\ Plain(s) => Plain(Append(s, x))
               /\ Paired(s) => Paired(Append(s, x))
    <3> DEFINE u == Append(s, x)
    <3>1. /\ Listed(u) /\ Len(s) \in Nat /\ DOMAIN u = 1..(Len(s) + 1) /\ DOMAIN s = 1..Len(s) /\ Len(u) = Len(s) + 1
          /\ u[Len(s) + 1] = x /\ \A i \in DOMAIN s : u[i] = s[i]
      BY <2>3, ListedAppend
    <3> HIDE DEF u
    <3>2. \A i \in DOMAIN u : i \in DOMAIN s \/ i = Len(s) + 1
      BY <3>1
    <3>3. Plain(s) => Plain(u)
      BY <1>3, <3>1, <3>2 DEF Plain
    <3>4. ASSUME Paired(s) PROVE Paired(u)
      <4>1. ASSUME NEW i \in DOMAIN u, u[i].kind = "output" PROVE \E j \in 1..(i-1) : u[j].kind = "call" /\ u[j].call = u[i].call
        <5>1. i \in DOMAIN s
          BY <1>3, <3>1, <3>2, <4>1
        <5>2. PICK j \in 1..(i-1) : s[j].kind = "call" /\ s[j].call = s[i].call
          BY <3>1, <3>4, <4>1, <5>1 DEF Paired
        <5>3. j \in DOMAIN s
          BY <3>1, <5>1
        <5> QED BY <3>1, <5>1, <5>2, <5>3
      <4>2. ASSUME NEW i \in DOMAIN u, u[i].kind = "call" PROVE \E j \in (i+1)..Len(u) : u[j].kind = "output" /\ u[j].call = u[i].call
        <5>1. i \in DOMAIN s
          BY <1>3, <3>1, <3>2, <4>2
        <5>2. PICK j \in (i+1)..Len(s) : s[j].kind = "output" /\ s[j].call = s[i].call
          BY <3>1, <3>4, <4>2, <5>1 DEF Paired
        <5>3. j \in DOMAIN s /\ j \in (i+1)..Len(u)
          BY <3>1, <5>1
        <5> QED BY <3>1, <5>1, <5>2, <5>3
      <4> QED BY <4>1, <4>2 DEF Paired
    <3> QED BY <3>1, <3>3, <3>4 DEF u
  <2>4. CASE a.t.calls # <<>>
    <3> DEFINE d == [a EXCEPT !.t.deferred = Append(@, x)]
    <3>1. HandleRegular(a, x) = d
      BY <2>4 DEF HandleRegular
    <3>9. a = [norm |-> a.norm, t |-> a.t]
      BY <2>2
    <3>10. d.norm = a.norm /\ d.t = [a.t EXCEPT !.deferred = Append(a.t.deferred, x)] /\ d = [norm |-> d.norm, t |-> d.t]
      BY <3>9
    <3> HIDE DEF d
    <3>2. /\ d.norm = a.norm /\ d = [norm |-> d.norm, t |-> d.t]
          /\ d.t.calls = a.t.calls /\ d.t.outs = a.t.outs /\ d.t.deferred = Append(a.t.deferred, x)
          /\ d.t = [calls |-> d.t.calls, outs |-> d.t.outs, deferred |-> d.t.deferred]
      BY <2>2, <3>10
    <3> HIDE DEF d
    <3>3. Listed(d.t.deferred) /\ Plain(d.t.deferred)
      BY <2>3, <3>2 DEF PairedSoFar, TransactionFits
    <3>4. TransactionFits(d.t)
      BY <3>2, <3>3 DEF PairedSoFar, TransactionFits
    <3>5. PairedSoFar(d)
      BY <3>2, <3>4 DEF PairedSoFar
    <3> QED BY <2>1, <3>1, <3>5
  <2>5. CASE a.t.calls = <<>>
    <3> DEFINE d == [a EXCEPT !.norm = Append(@, x)]
    <3>1. HandleRegular(a, x) = d
      BY <2>5 DEF HandleRegular
    <3>2. d.norm = Append(a.norm, x) /\ d.t = a.t /\ d = [norm |-> d.norm, t |-> d.t]
      BY <2>2
    <3> HIDE DEF d
    <3>3. Listed(d.norm) /\ Paired(d.norm)
      BY <2>3, <3>2 DEF PairedSoFar
    <3>4. PairedSoFar(d)
      BY <3>2, <3>3 DEF PairedSoFar
    <3> QED BY <2>1, <3>1, <3>4
  <2> QED BY <2>4, <2>5
<1> QED BY <1>1, <1>2, <1>3

(* The transaction after each item. *)
LEMMA HandlesAll ==
  ASSUME NEW items, Len(items) \in Nat
  PROVE  \E after : /\ after[0] = Start /\ \A k \in 1..Len(items) : after[k] = Handle(after[k-1], items[k])
                    /\ normalize(items) = Discard(Flush(after[Len(items)])).norm
<1> DEFINE m == Len(items)
           Fit(n, f) == f = [k \in 0..n |-> IF k = 0 THEN Start ELSE Handle(f[k-1], items[k])]
           S == {n \in 0..m : \E f : Fit(n, f)}
<1>0. m \in Nat
  OBVIOUS
<1> HIDE DEF m
<1>1. 0 \in S
  <2> DEFINE f == [i \in 0..0 |-> Start]
  <2>1. Fit(0, f)
    OBVIOUS
  <2> HIDE DEF f, Fit
  <2> QED BY <1>0, <2>1
<1>2. ASSUME NEW n \in 0..m, n < m, n \in S PROVE n + 1 \in S
  <2>1. PICK f : Fit(n, f)
    BY <1>2
  <2> DEFINE g == [k \in 0..(n+1) |-> IF k = n + 1 THEN Handle(f[n], items[n+1]) ELSE f[k]]
             h == [k \in 0..(n+1) |-> IF k = 0 THEN Start ELSE Handle(g[k-1], items[k])]
  <2>2. ASSUME NEW i \in 0..(n+1) PROVE g[i] = h[i]
    <3>1. CASE i = 0
      BY <1>0, <2>1, <3>1
    <3>2. CASE i = n + 1
      <4>1. i # 0 /\ i - 1 = n /\ n \in 0..(n+1) /\ n # n + 1
        BY <1>0, <3>2
      <4>2. g[n] = f[n]
        BY <4>1
      <4> QED BY <3>2, <4>1, <4>2
    <3>3. CASE i # 0 /\ i # n + 1
      <4>1. i \in 0..n /\ i - 1 \in 0..(n+1) /\ i - 1 # n + 1 /\ i - 1 \in 0..n
        BY <1>0, <3>3
      <4>2. f[i] = Handle(f[i-1], items[i])
        BY <2>1, <4>1, <3>3
      <4>3. g[i-1] = f[i-1] /\ g[i] = f[i]
        BY <4>1, <3>3
      <4> QED BY <4>2, <4>3, <3>3
    <3> QED BY <3>1, <3>2, <3>3
  <2>3. Fit(n + 1, g)
    <3>1. g = h
      BY <2>2
    <3> QED BY <3>1
  <2> HIDE DEF g, Fit
  <2>4. n + 1 \in 0..m
    BY <1>0, <1>2
  <2> QED BY <2>3, <2>4
<1>3. m \in S
  <2> HIDE DEF S
  <2>1. \A i \in 0..m : i \in S
    BY <1>0, <1>1, <1>2, UpTo
  <2> QED BY <1>0, <2>1
<1> DEFINE after == CHOOSE after : after = [i \in 0..Len(items) |-> IF i = 0 THEN Start ELSE Handle(after[i-1], items[i])]
<1>4. \E f : f = [i \in 0..Len(items) |-> IF i = 0 THEN Start ELSE Handle(f[i-1], items[i])]
  BY <1>3 DEF m
<1>5. after = [i \in 0..Len(items) |-> IF i = 0 THEN Start ELSE Handle(after[i-1], items[i])]
  BY <1>4, Zenon
<1>6. normalize(items) = Discard(Flush(after[Len(items)])).norm
  BY Zenon DEF normalize
<1> HIDE DEF after
<1>7. after[0] = Start /\ \A k \in 1..Len(items) : after[k] = Handle(after[k-1], items[k])
  <2> DEFINE body(k) == IF k = 0 THEN Start ELSE Handle(after[k-1], items[k])
  <2>1. \A k \in 0..Len(items) : after[k] = body(k)
    BY <1>5, Zenon
  <2>2. 0 \in 0..Len(items) /\ \A k \in 1..Len(items) : k \in 0..Len(items) /\ k # 0
    OBVIOUS
  <2> QED BY <2>1, <2>2
<1> QED BY <1>6, <1>7

(* Whatever it is given, ToolTransactionNormalizer passes on calls that are *)
(* answered, and outputs after their calls.                                 *)
THEOREM NormalizedIsPaired ==
  ASSUME NEW items, Len(items) \in Nat
  PROVE  Paired(normalize(items))
<1>1. PICK after : /\ after[0] = Start /\ \A k \in 1..Len(items) : after[k] = Handle(after[k-1], items[k])
                   /\ normalize(items) = Discard(Flush(after[Len(items)])).norm
  BY HandlesAll
<1> DEFINE S == {k \in 0..Len(items) : PairedSoFar(after[k])}
<1>2. 0 \in S
  <2>1. Start = [Start EXCEPT !.norm = <<>>]
    BY DEF Start
  <2>2. Listed(<<>>) /\ Paired(<<>>)
    BY ListedEmpty DEF Paired
  <2>3. PairedSoFar(Start)
    BY <2>1, <2>2, StartPairs
  <2> QED BY <1>1, <2>3
<1>3. ASSUME NEW k \in 0..Len(items), k < Len(items), k \in S PROVE k + 1 \in S
  <2>1. k + 1 \in 1..Len(items) /\ (k + 1) - 1 = k /\ k + 1 \in 0..Len(items)
    BY <1>3
  <2>2. after[k + 1] = Handle(after[k], items[k + 1])
    BY <1>1, <2>1
  <2> QED BY <1>3, <2>1, <2>2, HandleFits
<1>4. PairedSoFar(after[Len(items)])
  <2> HIDE DEF S
  <2>1. \A i \in 0..Len(items) : i \in S
    BY <1>2, <1>3, UpTo
  <2> QED BY <2>1 DEF S
<1>5. PairedSoFar(Discard(Flush(after[Len(items)])))
  BY <1>4, FlushFits, DiscardFits
<1> QED BY <1>1, <1>5 DEF PairedSoFar

-----------------------------------------------------------------------------
(* What the normalizer keeps. *)

(* A call has one output at most, which comes after it.                     *)
Threaded(s) ==
  /\ \A i, j \in DOMAIN s : s[i].kind \in {"call", "output"} /\ s[j].kind = s[i].kind /\ s[j].call = s[i].call => i = j
  /\ \A i, j \in DOMAIN s : s[i].kind = "call" /\ s[j].kind = "output" /\ s[j].call = s[i].call => i < j

(* Calls are answered, and what is answered is called.                      *)
Whole(s) == CallsOf(s, "call") = CallsOf(s, "output")

LEMMA CallsAre ==
  ASSUME NEW s, NEW kind, NEW c
  PROVE  c \in CallsOf(s, kind) <=> \E i \in DOMAIN s : s[i].kind = kind /\ s[i].call = c
BY DEF CallsOf

LEMMA IdsJoin ==
  ASSUME NEW s, Listed(s), NEW u, Listed(u)
  PROVE  Listed(s \o u) /\ IdsOf(s \o u) = IdsOf(s) \cup IdsOf(u)
<1> DEFINE t == s \o u
           n == Len(s)
<1>0. /\ Listed(t) /\ Len(s) \in Nat /\ Len(u) \in Nat /\ Len(t) = Len(s) + Len(u)
      /\ DOMAIN t = 1..(Len(s) + Len(u)) /\ DOMAIN s = 1..Len(s) /\ DOMAIN u = 1..Len(u)
      /\ \A i \in DOMAIN s : t[i] = s[i]
      /\ \A i \in DOMAIN u : t[Len(s) + i] = u[i]
      /\ \A i \in DOMAIN t : i \in DOMAIN s \/ (i - Len(s) \in DOMAIN u /\ t[i] = u[i - Len(s)])
  BY ListedJoin, Zenon
<1>1. /\ Listed(t) /\ n \in Nat /\ Len(u) \in Nat
      /\ DOMAIN t = 1..(n + Len(u)) /\ DOMAIN s = 1..n /\ DOMAIN u = 1..Len(u)
      /\ \A i \in DOMAIN s : t[i] = s[i]
      /\ \A i \in DOMAIN u : t[n + i] = u[i]
      /\ \A i \in DOMAIN t : i \in DOMAIN s \/ (i - n \in DOMAIN u /\ t[i] = u[i - n])
  BY <1>0
<1> HIDE DEF t, n
<1>2. \A i \in DOMAIN s : i \in DOMAIN t
  BY <1>1
<1>3. \A i \in DOMAIN u : n + i \in DOMAIN t
  BY <1>1
<1>4. IdsOf(t) = IdsOf(s) \cup IdsOf(u)
  <2>1. \A x \in IdsOf(t) : x \in IdsOf(s) \cup IdsOf(u)
    BY <1>1 DEF IdsOf
  <2>2. \A x \in IdsOf(s) : x \in IdsOf(t)
    BY <1>1, <1>2 DEF IdsOf
  <2>3. \A x \in IdsOf(u) : x \in IdsOf(t)
    BY <1>1, <1>3 DEF IdsOf
  <2> QED BY <2>1, <2>2, <2>3
<1> QED BY <1>1, <1>4 DEF t

LEMMA IdsAppend ==
  ASSUME NEW s, Listed(s), NEW e
  PROVE  IdsOf(Append(s, e)) = IdsOf(s) \cup e.ids
<1> DEFINE t == Append(s, e)
<1>1. /\ Len(s) \in Nat /\ DOMAIN t = 1..(Len(s) + 1) /\ DOMAIN s = 1..Len(s)
      /\ t[Len(s) + 1] = e /\ \A i \in DOMAIN s : t[i] = s[i]
  BY ListedAppend
<1> HIDE DEF t
<1>2. \A i \in DOMAIN t : i \in DOMAIN s \/ i = Len(s) + 1
  BY <1>1
<1>3. Len(s) + 1 \in DOMAIN t /\ \A i \in DOMAIN s : i \in DOMAIN t
  BY <1>1
<1>4. \A x \in IdsOf(t) : x \in IdsOf(s) \cup e.ids
  BY <1>1, <1>2 DEF IdsOf
<1>5. \A x \in IdsOf(s) \cup e.ids : x \in IdsOf(t)
  BY <1>1, <1>3 DEF IdsOf
<1>6. IdsOf(t) = IdsOf(s) \cup e.ids
  BY <1>4, <1>5
<1> QED BY <1>6 DEF t

(* All the items the normalizer has at hand.                                *)
OutIds(t) == UNION {t.outs[c].ids : c \in DOMAIN t.outs}
Inside(a) == IdsOf(a.norm) \cup IdsOf(a.t.calls) \cup OutIds(a.t) \cup IdsOf(a.t.deferred)

OutputIn(s, k, c) == \E j \in 1..k : s[j].kind = "output" /\ s[j].call = c

(* After k items of s: the open transaction is of them, has every call that *)
(* is not answered yet, and nothing is lost.                                *)
Carries(a, s, k) ==
  /\ \A p \in DOMAIN a.t.calls : \E i \in 1..k : s[i] = a.t.calls[p]
  /\ \A c \in DOMAIN a.t.outs : Has(a.t.calls, c) /\ \E i \in 1..k : s[i] = a.t.outs[c]
  /\ \A i \in 1..k : s[i].kind = "call" /\ ~OutputIn(s, k, s[i].call) => Has(a.t.calls, s[i].call)
  /\ \A p \in DOMAIN a.t.calls : a.t.calls[p].call \notin DOMAIN a.t.outs => ~OutputIn(s, k, a.t.calls[p].call)
  /\ a.t.calls = <<>> => DOMAIN a.t.outs = {} /\ a.t.deferred = <<>>
  /\ \A i \in 1..k : s[i].ids \subseteq Inside(a)

LEMMA StartInside ==
  ASSUME NEW s
  PROVE  LET b == [Start EXCEPT !.norm = s] IN
         /\ b.norm = s /\ b.t.calls = <<>> /\ DOMAIN b.t.outs = {} /\ b.t.deferred = <<>> /\ Inside(b) = IdsOf(s)
<1> DEFINE e == [calls |-> <<>>, outs |-> <<>>, deferred |-> <<>>]
           b == [Start EXCEPT !.norm = s]
<1>1. b.norm = s /\ b.t = e
  BY DEF Start
<1>2. e.calls = <<>> /\ e.outs = <<>> /\ e.deferred = <<>>
  OBVIOUS
<1> HIDE DEF e, b
<1>3. DOMAIN <<>> = {} /\ IdsOf(<<>>) = {}
  BY ListedEmpty DEF IdsOf
<1>4. OutIds(e) = {}
  BY <1>2, <1>3 DEF OutIds
<1>5. Inside(b) = IdsOf(s)
  BY <1>1, <1>2, <1>3, <1>4 DEF Inside
<1> QED BY <1>1, <1>2, <1>3, <1>5 DEF b

LEMMA OrderedIds ==
  ASSUME NEW t, TransactionFits(t), Complete(t), \A c \in DOMAIN t.outs : Has(t.calls, c)
  PROVE  IdsOf(Ordered(t)) = IdsOf(t.calls) \cup OutIds(t) \cup IdsOf(t.deferred)
<1> DEFINE C == t.calls
           O == [i \in DOMAIN C |-> t.outs[C[i].call]]
<1>1. Listed(C) /\ Len(C) \in Nat /\ DOMAIN C = 1..Len(C) /\ Listed(t.deferred)
  BY DEF TransactionFits, Listed
<1>2. IdsOf(O) = OutIds(t)
  <2>1. DOMAIN O = DOMAIN C /\ \A i \in DOMAIN C : O[i] = t.outs[C[i].call] /\ C[i].call \in DOMAIN t.outs
    BY DEF Complete
  <2>2. \A c \in DOMAIN t.outs : \E i \in DOMAIN C : C[i].call = c
    BY DEF Has
  <2> HIDE DEF O, C
  <2>3. \A x \in IdsOf(O) : x \in OutIds(t)
    BY <2>1 DEF IdsOf, OutIds
  <2>4. \A x \in OutIds(t) : x \in IdsOf(O)
    BY <2>1, <2>2 DEF IdsOf, OutIds
  <2> QED BY <2>3, <2>4
<1>4. Ordered(t) = (C \o O) \o t.deferred
  BY DEF Ordered
<1>5. O = [i \in 1..Len(C) |-> O[i]]
  BY <1>1
<1> HIDE DEF C, O
<1>6. Listed(O)
  BY <1>1, <1>5, ListedFun
<1>7. Listed(C \o O) /\ IdsOf(C \o O) = IdsOf(C) \cup IdsOf(O)
  BY <1>1, <1>6, IdsJoin
<1> DEFINE s == C \o O
<1> HIDE DEF s
<1>8. IdsOf(s \o t.deferred) = IdsOf(s) \cup IdsOf(t.deferred)
  BY <1>1, <1>7, IdsJoin DEF s
<1> QED BY <1>2, <1>4, <1>7, <1>8 DEF s, C

LEMMA FlushCarries ==
  ASSUME NEW a, PairedSoFar(a), NEW s, NEW k, Carries(a, s, k)
  PROVE  Carries(Flush(a), s, k) /\ ~Complete(Flush(a).t)
<1>1. CASE ~Complete(a.t)
  BY <1>1 DEF Flush
<1>2. CASE Complete(a.t)
  <2> DEFINE u == a.norm \o Ordered(a.t)
             b == Flush(a)
  <2>1. TransactionFits(a.t) /\ Listed(a.norm) /\ \A c \in DOMAIN a.t.outs : Has(a.t.calls, c)
    BY DEF PairedSoFar, Carries
  <2>2. Listed(Ordered(a.t))
    BY <1>2, <2>1, OrderedPaired
  <2>3. IdsOf(Ordered(a.t)) = IdsOf(a.t.calls) \cup OutIds(a.t) \cup IdsOf(a.t.deferred)
    BY <1>2, <2>1, OrderedIds
  <2>4. IdsOf(u) = IdsOf(a.norm) \cup IdsOf(Ordered(a.t))
    BY <2>1, <2>2, IdsJoin
  <2>5. b = [Start EXCEPT !.norm = u]
    BY <1>2 DEF Flush
  <2> HIDE DEF u, b
  <2>6. b.norm = u /\ b.t.calls = <<>> /\ DOMAIN b.t.outs = {} /\ b.t.deferred = <<>> /\ Inside(b) = IdsOf(u)
    BY <2>5, StartInside
  <2>7. Inside(b) = Inside(a)
    BY <2>3, <2>4, <2>6 DEF Inside
  <2>8. ASSUME NEW i \in 1..k, s[i].kind = "call", ~OutputIn(s, k, s[i].call) PROVE FALSE
    <3>1. PICK p \in DOMAIN a.t.calls : a.t.calls[p].call = s[i].call
      BY <2>8 DEF Carries, Has
    <3>2. s[i].call \in DOMAIN a.t.outs
      BY <1>2, <3>1 DEF Complete
    <3>3. PICK j \in 1..k : s[j] = a.t.outs[s[i].call]
      BY <3>2 DEF Carries
    <3>4. s[j].kind = "output" /\ s[j].call = s[i].call
      BY <2>1, <3>2, <3>3 DEF TransactionFits
    <3> QED BY <2>8, <3>4 DEF OutputIn
  <2>9. DOMAIN b.t.calls = {}
    BY <2>6, ListedEmpty
  <2>10. Carries(b, s, k)
    <3>1. \A i \in 1..k : s[i].ids \subseteq Inside(b)
      BY <2>7 DEF Carries
    <3> QED BY <2>6, <2>8, <2>9, <3>1 DEF Carries
  <2>11. ~Complete(b.t)
    BY <2>6 DEF Complete
  <2> QED BY <2>10, <2>11 DEF b
<1> QED BY <1>1, <1>2

(* What is left of a step on a call is to add it.                           *)
LEMMA CallCarries ==
  ASSUME NEW s, Len(s) \in Nat, DOMAIN s = 1..Len(s), Threaded(s), NEW k \in 0..Len(s), k < Len(s),
         NEW a, PairedSoFar(a), Carries(a, s, k), s[k+1].kind = "call"
  PROVE  Carries(Handle(a, s[k+1]), s, k + 1)
<1> DEFINE x == s[k+1]
           f == Flush(a)
           u == Append(f.t.calls, x)
           d == [f EXCEPT !.t.calls = Append(@, x)]
           n == k + 1
<1>0. n \in 1..Len(s) /\ n = k + 1 /\ k \in Nat /\ n \in DOMAIN s /\ \A i \in 1..k : i \in 1..n /\ i \in DOMAIN s /\ i # n
  OBVIOUS
<1>00. \A i \in 1..n : i \in 1..k \/ i = n
  OBVIOUS
<1>01. x = s[n] /\ x.kind = "call"
  OBVIOUS
<1>1. PairedSoFar(f) /\ Carries(f, s, k)
  BY FlushFits, FlushCarries
<1>2. ~Has(f.t.calls, x.call)
  <2> SUFFICES ASSUME NEW p \in DOMAIN f.t.calls, f.t.calls[p].call = x.call PROVE FALSE
    BY DEF Has
  <2>1. PICK i \in 1..k : s[i] = f.t.calls[p]
    BY <1>1 DEF Carries
  <2>2. s[i].kind = "call" /\ s[i].call = x.call
    BY <1>1, <2>1 DEF PairedSoFar, TransactionFits
  <2> QED BY <1>0, <1>01, <2>2 DEF Threaded
<1>3. Handle(a, x) = d
  <2>1. Handle(a, x) = HandleCall(a, x)
    BY DEF Handle
  <2> QED BY <1>2, <2>1 DEF HandleCall
<1> HIDE DEF x, n, f
<1>4. f = [norm |-> f.norm, t |-> f.t] /\ f.t = [calls |-> f.t.calls, outs |-> f.t.outs, deferred |-> f.t.deferred]
  BY <1>1 DEF PairedSoFar, TransactionFits
<1>5. d.norm = f.norm /\ d.t = [f.t EXCEPT !.calls = u]
  BY <1>4
<1> HIDE DEF d
<1>6. d.t.calls = u /\ d.t.outs = f.t.outs /\ d.t.deferred = f.t.deferred
  BY <1>4, <1>5
<1>70. Listed(f.t.calls)
  BY <1>1 DEF PairedSoFar, TransactionFits
<1>7. /\ Len(f.t.calls) \in Nat /\ DOMAIN u = 1..(Len(f.t.calls) + 1) /\ DOMAIN f.t.calls = 1..Len(f.t.calls)
      /\ u[Len(f.t.calls) + 1] = x /\ \A i \in DOMAIN f.t.calls : u[i] = f.t.calls[i]
  BY <1>70, ListedAppend
<1>8. IdsOf(u) = IdsOf(f.t.calls) \cup x.ids
  BY <1>70, IdsAppend
<1> HIDE DEF u
<1>9. /\ \A i \in DOMAIN u : i \in DOMAIN f.t.calls \/ i = Len(f.t.calls) + 1
      /\ Len(f.t.calls) + 1 \in DOMAIN u /\ \A i \in DOMAIN f.t.calls : i \in DOMAIN u
  BY <1>7
<1>10. Inside(d) = Inside(f) \cup x.ids
  BY <1>5, <1>6, <1>8 DEF Inside, OutIds
<1>11. \A c : Has(f.t.calls, c) => Has(u, c)
  BY <1>7, <1>9 DEF Has
<1>12. Has(u, x.call)
  BY <1>7, <1>9 DEF Has
<1>13. \A c : OutputIn(s, k, c) => OutputIn(s, n, c)
  BY <1>0 DEF OutputIn
<1>14. \A c : OutputIn(s, n, c) => OutputIn(s, k, c)
  <2>1. s[n].kind # "output"
    BY <1>01
  <2> QED BY <1>00, <2>1 DEF OutputIn
<1>15. \A p \in DOMAIN u : \E i \in 1..n : s[i] = u[p]
  <2>1. \A p \in DOMAIN f.t.calls : \E i \in 1..n : s[i] = u[p]
    BY <1>0, <1>1, <1>7 DEF Carries
  <2>2. n \in 1..n /\ s[n] = u[Len(f.t.calls) + 1]
    BY <1>0, <1>01, <1>7
  <2> QED BY <1>9, <2>1, <2>2
<1>16. \A c \in DOMAIN f.t.outs : Has(u, c) /\ \E i \in 1..n : s[i] = f.t.outs[c]
  BY <1>0, <1>1, <1>11 DEF Carries
<1>17. \A i \in 1..n : s[i].kind = "call" /\ ~OutputIn(s, n, s[i].call) => Has(u, s[i].call)
  <2>1. \A i \in 1..k : s[i].kind = "call" /\ ~OutputIn(s, n, s[i].call) => Has(u, s[i].call)
    BY <1>1, <1>11, <1>13 DEF Carries
  <2> QED BY <1>00, <1>01, <1>12, <2>1
<1>18. \A p \in DOMAIN u : u[p].call \notin DOMAIN f.t.outs => ~OutputIn(s, n, u[p].call)
  <2>1. \A p \in DOMAIN f.t.calls : u[p].call \notin DOMAIN f.t.outs => ~OutputIn(s, n, u[p].call)
    BY <1>1, <1>7, <1>14 DEF Carries
  <2>2. ~OutputIn(s, n, x.call)
    <3> SUFFICES ASSUME NEW j \in 1..n, s[j].kind = "output", s[j].call = x.call PROVE FALSE
      BY DEF OutputIn
    <3>1. n < j
      BY <1>0, <1>00, <1>01 DEF Threaded
    <3> QED BY <1>0, <3>1
  <2> QED BY <1>7, <1>9, <2>1, <2>2
<1>19. u # <<>>
  BY <1>9, ListedEmpty
<1>20. \A i \in 1..n : s[i].ids \subseteq Inside(d)
  BY <1>00, <1>01, <1>1, <1>10 DEF Carries
<1>21. Carries(d, s, n)
  BY <1>6, <1>15, <1>16, <1>17, <1>18, <1>19, <1>20 DEF Carries
<1> QED BY <1>3, <1>21 DEF x, n

(* An output completes what waits for it.                                   *)
LEMMA OutputCarries ==
  ASSUME NEW s, Len(s) \in Nat, DOMAIN s = 1..Len(s), Threaded(s), Whole(s), NEW k \in 0..Len(s), k < Len(s),
         NEW a, PairedSoFar(a), Carries(a, s, k), s[k+1].kind = "output"
  PROVE  Carries(Handle(a, s[k+1]), s, k + 1)
<1> DEFINE x == s[k+1]
           n == k + 1
           c == x.call
           o == [e \in DOMAIN a.t.outs \cup {x.call} |-> IF e = x.call THEN x ELSE a.t.outs[e]]
           d == [a EXCEPT !.t.outs = [e \in DOMAIN @ \cup {x.call} |-> IF e = x.call THEN x ELSE @[e]]]
<1>0. n \in 1..Len(s) /\ n = k + 1 /\ k \in Nat /\ n \in DOMAIN s /\ \A i \in 1..k : i \in 1..n /\ i \in DOMAIN s /\ i # n
  OBVIOUS
<1>00. \A i \in 1..n : i \in 1..k \/ i = n
  OBVIOUS
<1>01. x = s[n] /\ x.kind = "output" /\ c = x.call
  OBVIOUS
<1>1. ~OutputIn(s, k, c)
  <2> SUFFICES ASSUME NEW j \in 1..k, s[j].kind = "output", s[j].call = c PROVE FALSE
    BY DEF OutputIn
  <2> HIDE DEF n
  <2> QED BY <1>0, <1>01 DEF Threaded
<1>2. Has(a.t.calls, c)
  <2>1. c \in CallsOf(s, "output")
    BY CallsAre
  <2>2. PICK p \in DOMAIN s : s[p].kind = "call" /\ s[p].call = c
    BY <2>1, CallsAre DEF Whole
  <2>3. p < n
    BY <1>0, <1>01, <2>2 DEF Threaded
  <2>4. p \in 1..k
    BY <1>0, <2>3
  <2> QED BY <1>1, <2>2, <2>4 DEF Carries
<1>3. c \notin DOMAIN a.t.outs
  <2> SUFFICES ASSUME c \in DOMAIN a.t.outs PROVE FALSE
    OBVIOUS
  <2>1. PICK i \in 1..k : s[i] = a.t.outs[c]
    BY DEF Carries
  <2>2. s[i].kind = "output" /\ s[i].call = c
    BY <2>1 DEF PairedSoFar, TransactionFits
  <2> QED BY <1>1, <2>2 DEF OutputIn
<1>4. Handle(a, x) = Flush(d)
  <2>1. Handle(a, x) = HandleOutput(a, x)
    BY DEF Handle
  <2> QED BY <1>2, <1>3, <2>1 DEF HandleOutput
<1> HIDE DEF x, n
<1>5. a = [norm |-> a.norm, t |-> a.t] /\ a.t = [calls |-> a.t.calls, outs |-> a.t.outs, deferred |-> a.t.deferred]
  BY DEF PairedSoFar, TransactionFits
<1>6. DOMAIN o = DOMAIN a.t.outs \cup {c} /\ o[c] = x /\ \A e \in DOMAIN a.t.outs : o[e] = a.t.outs[e]
  BY <1>3
<1>60. d = [a EXCEPT !.t.outs = o]
  OBVIOUS
<1> HIDE DEF o, d
<1>7. d.norm = a.norm /\ d.t = [a.t EXCEPT !.outs = o] /\ d = [norm |-> d.norm, t |-> d.t]
  BY <1>5, <1>60
<1>8. /\ d.t.calls = a.t.calls /\ d.t.outs = o /\ d.t.deferred = a.t.deferred
      /\ d.t = [calls |-> d.t.calls, outs |-> d.t.outs, deferred |-> d.t.deferred]
  BY <1>5, <1>7
<1> HIDE DEF c
<1>9. PairedSoFar(d)
  <2>1. \A e \in DOMAIN o : o[e].kind = "output" /\ o[e].call = e
    BY <1>01, <1>6 DEF PairedSoFar, TransactionFits
  <2>2. TransactionFits(d.t)
    BY <1>8, <2>1 DEF PairedSoFar, TransactionFits
  <2> QED BY <1>7, <2>2 DEF PairedSoFar
<1>10. OutIds(d.t) = OutIds(a.t) \cup x.ids
  <2>1. \A e \in DOMAIN o : o[e].ids \subseteq OutIds(a.t) \cup x.ids
    BY <1>6 DEF OutIds
  <2>2. OutIds(a.t) \subseteq UNION {o[e].ids : e \in DOMAIN o}
    BY <1>6 DEF OutIds
  <2>3. x.ids \subseteq UNION {o[e].ids : e \in DOMAIN o}
    BY <1>6
  <2>4. OutIds(d.t) = UNION {o[e].ids : e \in DOMAIN o}
    BY <1>8 DEF OutIds
  <2> QED BY <2>1, <2>2, <2>3, <2>4
<1>11. Inside(d) = Inside(a) \cup x.ids
  BY <1>7, <1>8, <1>10 DEF Inside
<1>12. \A e : OutputIn(s, k, e) => OutputIn(s, n, e)
  BY <1>0 DEF OutputIn
<1>13. \A e : e # c /\ OutputIn(s, n, e) => OutputIn(s, k, e)
  BY <1>00, <1>01 DEF OutputIn
<1>14. \A p \in DOMAIN a.t.calls : \E i \in 1..n : s[i] = a.t.calls[p]
  BY <1>0 DEF Carries
<1>15. \A e \in DOMAIN o : Has(a.t.calls, e) /\ \E i \in 1..n : s[i] = o[e]
  <2>1. n \in 1..n /\ s[n] = x
    BY <1>0, <1>01
  <2>2. \A e \in DOMAIN a.t.outs : Has(a.t.calls, e) /\ \E i \in 1..n : s[i] = o[e]
    BY <1>0, <1>6 DEF Carries
  <2> QED BY <1>2, <1>6, <2>1, <2>2
<1>16. \A i \in 1..n : s[i].kind = "call" /\ ~OutputIn(s, n, s[i].call) => Has(a.t.calls, s[i].call)
  BY <1>00, <1>01, <1>12 DEF Carries
<1>17. \A p \in DOMAIN a.t.calls : a.t.calls[p].call \notin DOMAIN o => ~OutputIn(s, n, a.t.calls[p].call)
  BY <1>6, <1>13 DEF Carries
<1>18. a.t.calls # <<>>
  BY <1>2, ListedEmpty DEF Has
<1>19. \A i \in 1..n : s[i].ids \subseteq Inside(d)
  BY <1>00, <1>01, <1>11 DEF Carries
<1>20. Carries(d, s, n)
  BY <1>8, <1>14, <1>15, <1>16, <1>17, <1>18, <1>19 DEF Carries
<1>21. Carries(Flush(d), s, n)
  BY <1>9, <1>20, FlushCarries
<1> QED BY <1>4, <1>21 DEF x, n

LEMMA RegularCarries ==
  ASSUME NEW s, Len(s) \in Nat, DOMAIN s = 1..Len(s), NEW k \in 0..Len(s), k < Len(s),
         NEW a, PairedSoFar(a), Carries(a, s, k), s[k+1].kind # "call", s[k+1].kind # "output"
  PROVE  Carries(Handle(a, s[k+1]), s, k + 1)
<1> DEFINE x == s[k+1]
           n == k + 1
           more == [a EXCEPT !.t.deferred = Append(@, x)]
           next == [a EXCEPT !.norm = Append(@, x)]
           d == Handle(a, x)
<1>0. n = k + 1 /\ k \in Nat /\ \A i \in 1..k : i \in 1..n
  OBVIOUS
<1>00. \A i \in 1..n : i \in 1..k \/ i = n
  OBVIOUS
<1>01. x = s[n] /\ x.kind # "call" /\ x.kind # "output"
  OBVIOUS
<1>1. d = HandleRegular(a, x)
  BY DEF Handle
<1> HIDE DEF d
<1>2. IF a.t.calls # <<>> THEN d = more ELSE d = next
  BY <1>1 DEF HandleRegular
<1> HIDE DEF x, n
<1>3. a = [norm |-> a.norm, t |-> a.t] /\ a.t = [calls |-> a.t.calls, outs |-> a.t.outs, deferred |-> a.t.deferred]
  BY DEF PairedSoFar, TransactionFits
<1>4. Listed(a.norm) /\ Listed(a.t.deferred)
  BY DEF PairedSoFar, TransactionFits
<1>5. /\ d.t.calls = a.t.calls /\ d.t.outs = a.t.outs
      /\ a.t.calls = <<>> => d.t.deferred = a.t.deferred
      /\ Inside(d) = Inside(a) \cup x.ids
  <2>1. CASE a.t.calls # <<>>
    <3>1. d.norm = a.norm /\ d.t = [a.t EXCEPT !.deferred = Append(a.t.deferred, x)]
      BY <1>2, <1>3, <2>1
    <3>2. d.t.calls = a.t.calls /\ d.t.outs = a.t.outs /\ d.t.deferred = Append(a.t.deferred, x)
      BY <1>3, <3>1
    <3>3. IdsOf(d.t.deferred) = IdsOf(a.t.deferred) \cup x.ids
      BY <1>4, <3>2, IdsAppend
    <3> QED BY <2>1, <3>1, <3>2, <3>3 DEF Inside, OutIds
  <2>2. CASE a.t.calls = <<>>
    <3>1. d.norm = Append(a.norm, x) /\ d.t = a.t
      BY <1>2, <1>3, <2>2
    <3>2. IdsOf(d.norm) = IdsOf(a.norm) \cup x.ids
      BY <1>4, <3>1, IdsAppend
    <3> QED BY <3>1, <3>2 DEF Inside
  <2> QED BY <2>1, <2>2
<1>6. \A e : OutputIn(s, k, e) <=> OutputIn(s, n, e)
  BY <1>0, <1>00, <1>01 DEF OutputIn
<1>7. \A p \in DOMAIN a.t.calls : \E i \in 1..n : s[i] = a.t.calls[p]
  BY <1>0 DEF Carries
<1>8. \A e \in DOMAIN a.t.outs : Has(a.t.calls, e) /\ \E i \in 1..n : s[i] = a.t.outs[e]
  BY <1>0 DEF Carries
<1>9. \A i \in 1..n : s[i].kind = "call" /\ ~OutputIn(s, n, s[i].call) => Has(a.t.calls, s[i].call)
  BY <1>00, <1>01, <1>6 DEF Carries
<1>10. \A p \in DOMAIN a.t.calls : a.t.calls[p].call \notin DOMAIN a.t.outs => ~OutputIn(s, n, a.t.calls[p].call)
  BY <1>6 DEF Carries
<1>11. \A i \in 1..n : s[i].ids \subseteq Inside(d)
  BY <1>00, <1>01, <1>5 DEF Carries
<1>12. Carries(d, s, n)
  BY <1>5, <1>7, <1>8, <1>9, <1>10, <1>11 DEF Carries
<1> QED BY <1>12 DEF d, x, n

(* The normalizer loses nothing of whole transactions.                      *)
LEMMA NormalizeKeeps ==
  ASSUME NEW s, Len(s) \in Nat, DOMAIN s = 1..Len(s), Threaded(s), Whole(s)
  PROVE  IdsOf(s) \subseteq IdsOf(normalize(s))
<1>1. PICK after : /\ after[0] = Start /\ \A k \in 1..Len(s) : after[k] = Handle(after[k-1], s[k])
                   /\ normalize(s) = Discard(Flush(after[Len(s)])).norm
  BY HandlesAll
<1> DEFINE S == {k \in 0..Len(s) : PairedSoFar(after[k]) /\ Carries(after[k], s, k)}
<1>2. 0 \in S
  <2>1. Start = [Start EXCEPT !.norm = <<>>]
    BY DEF Start
  <2>2. Listed(<<>>) /\ Paired(<<>>) /\ DOMAIN <<>> = {}
    BY ListedEmpty DEF Paired
  <2>3. PairedSoFar(Start)
    BY <2>1, <2>2, StartPairs
  <2>4. Start.t.calls = <<>> /\ DOMAIN Start.t.outs = {} /\ Start.t.deferred = <<>>
    BY <2>1, StartInside
  <2>5. Carries(Start, s, 0)
    BY <2>2, <2>4 DEF Carries
  <2> QED BY <1>1, <2>3, <2>5
<1>3. ASSUME NEW k \in 0..Len(s), k < Len(s), k \in S PROVE k + 1 \in S
  <2>1. k + 1 \in 1..Len(s) /\ (k + 1) - 1 = k /\ k + 1 \in 0..Len(s)
    BY <1>3
  <2>2. after[k + 1] = Handle(after[k], s[k + 1])
    BY <1>1, <2>1
  <2>3. PairedSoFar(after[k]) /\ Carries(after[k], s, k)
    BY <1>3
  <2>4. PairedSoFar(Handle(after[k], s[k + 1]))
    BY <2>3, HandleFits
  <2>5. Carries(Handle(after[k], s[k + 1]), s, k + 1)
    BY <1>3, <2>3, CallCarries, OutputCarries, RegularCarries
  <2> QED BY <2>1, <2>2, <2>4, <2>5
<1>4. PairedSoFar(after[Len(s)]) /\ Carries(after[Len(s)], s, Len(s))
  <2> HIDE DEF S
  <2>1. \A i \in 0..Len(s) : i \in S
    BY <1>2, <1>3, UpTo
  <2> QED BY <2>1 DEF S
<1> DEFINE f == Flush(after[Len(s)])
<1>5. PairedSoFar(f) /\ Carries(f, s, Len(s)) /\ ~Complete(f.t)
  BY <1>4, FlushFits, FlushCarries
<1>6. normalize(s) = Discard(f).norm
  BY <1>1
<1> HIDE DEF f
<1>7. f.t.calls = <<>>
  <2> SUFFICES ASSUME f.t.calls # <<>> PROVE FALSE
    OBVIOUS
  <2>1. PICK p \in DOMAIN f.t.calls : f.t.calls[p].call \notin DOMAIN f.t.outs
    BY <1>5 DEF Complete
  <2> DEFINE c == f.t.calls[p].call
  <2>2. ~OutputIn(s, Len(s), c)
    BY <1>5, <2>1 DEF Carries
  <2>3. PICK i \in 1..Len(s) : s[i] = f.t.calls[p]
    BY <1>5 DEF Carries
  <2>4. s[i].kind = "call" /\ s[i].call = c
    BY <1>5, <2>3 DEF PairedSoFar, TransactionFits
  <2> HIDE DEF c
  <2>5. c \in CallsOf(s, "call")
    BY <2>4, CallsAre
  <2>6. PICK j \in DOMAIN s : s[j].kind = "output" /\ s[j].call = c
    BY <2>5, CallsAre DEF Whole
  <2> QED BY <2>2, <2>6 DEF OutputIn
<1>8. Discard(f) = f
  BY <1>7 DEF Discard
<1>9. Inside(f) = IdsOf(f.norm)
  <2>1. IdsOf(<<>>) = {}
    BY ListedEmpty DEF IdsOf
  <2>2. DOMAIN f.t.outs = {} /\ f.t.deferred = <<>>
    BY <1>5, <1>7 DEF Carries
  <2>3. OutIds(f.t) = {}
    BY <2>2 DEF OutIds
  <2> QED BY <1>7, <2>1, <2>2, <2>3 DEF Inside
<1>10. \A i \in DOMAIN s : s[i].ids \subseteq IdsOf(f.norm)
  BY <1>5, <1>9 DEF Carries
<1> QED BY <1>6, <1>8, <1>10 DEF IdsOf

-----------------------------------------------------------------------------
(* What is left when context must be left out. *)

LEMMA ListedSuffix ==
  ASSUME NEW s, Listed(s), NEW n \in 0..Len(s)
  PROVE  LET t == SubSeq(s, n + 1, Len(s)) IN
         /\ Listed(t) /\ Len(s) \in Nat /\ Len(t) = Len(s) - n /\ DOMAIN t = 1..(Len(s) - n) /\ DOMAIN s = 1..Len(s)
         /\ \A i \in 1..(Len(s) - n) : t[i] = s[n + i] /\ n + i \in DOMAIN s
<1> DEFINE E == {s[i] : i \in DOMAIN s}
           t == SubSeq(s, n + 1, Len(s))
<1>1. s \in Seq(E)
  BY DEF Listed
<1> HIDE DEF E
<1>0. Len(s) \in Nat /\ DOMAIN s = 1..Len(s) /\ n \in Nat
  BY <1>1
<1>01. n + 1 \in Int /\ Len(s) \in Int /\ \A i \in (n + 1)..Len(s) : s[i] \in E
  BY <1>0, <1>1
<1>2. t \in Seq(E) /\ Len(t) = Len(s) - n
  <2>1. /\ t \in Seq(E) /\ Len(t) = IF n + 1 <= Len(s) THEN Len(s) - (n + 1) + 1 ELSE 0
    BY <1>01, SubSeqProperties
  <2> HIDE DEF t
  <2>2. Len(t) = Len(s) - n
    <3>1. n <= Len(s) /\ Len(s) \in Nat /\ n \in Nat
      BY <1>0
    <3> QED BY <2>1, <3>1
  <2> QED BY <2>1, <2>2
<1>3. \A i \in 1..(Len(s) - n) : t[i] = s[n + i] /\ n + i \in DOMAIN s
  <2> SUFFICES ASSUME NEW i \in 1..(Len(s) - n) PROVE t[i] = s[n + i] /\ n + i \in DOMAIN s
    OBVIOUS
  <2>1. t[i] = s[(n + 1) + i - 1]
    BY <1>0, <1>1
  <2>2. (n + 1) + i - 1 = n + i /\ n + i \in DOMAIN s
    BY <1>0
  <2> QED BY <2>1, <2>2
<1> HIDE DEF t
<1>4. t = [i \in 1..Len(t) |-> t[i]] /\ Len(t) \in Nat /\ DOMAIN t = 1..Len(t)
  BY <1>0, <1>2
<1>5. Listed(t)
  BY <1>4 DEF Listed
<1> QED BY <1>0, <1>2, <1>3, <1>4, <1>5 DEF t

(* The calls that wait after each item.                                     *)
LEMMA PendingOpens ==
  ASSUME NEW items, NEW m \in Nat
  PROVE  \E open : /\ open[0] = {} /\ \A k \in 1..m : open[k] = Opened(open[k-1], items[k])
                   /\ PendingAfter(items, m) = open[m]
<1> DEFINE Fit(n, f) == f = [k \in 0..n |-> IF k = 0 THEN {} ELSE Opened(f[k-1], items[k])]
           S == {n \in 0..m : \E f : Fit(n, f)}
<1>1. 0 \in S
  <2> DEFINE f == [i \in 0..0 |-> {}]
  <2>1. Fit(0, f)
    OBVIOUS
  <2> HIDE DEF f, Fit
  <2> QED BY <2>1
<1>2. ASSUME NEW n \in 0..m, n < m, n \in S PROVE n + 1 \in S
  <2>1. PICK f : Fit(n, f)
    BY <1>2
  <2> DEFINE g == [k \in 0..(n+1) |-> IF k = n + 1 THEN Opened(f[n], items[n+1]) ELSE f[k]]
             h == [k \in 0..(n+1) |-> IF k = 0 THEN {} ELSE Opened(g[k-1], items[k])]
  <2>2. ASSUME NEW i \in 0..(n+1) PROVE g[i] = h[i]
    <3>1. CASE i = 0
      BY <2>1, <3>1
    <3>2. CASE i = n + 1
      <4>1. i # 0 /\ i - 1 = n /\ n \in 0..(n+1) /\ n # n + 1
        BY <3>2
      <4>2. g[n] = f[n]
        BY <4>1
      <4> QED BY <3>2, <4>1, <4>2
    <3>3. CASE i # 0 /\ i # n + 1
      <4>1. i \in 0..n /\ i - 1 \in 0..(n+1) /\ i - 1 # n + 1 /\ i - 1 \in 0..n
        BY <3>3
      <4>2. f[i] = Opened(f[i-1], items[i])
        BY <2>1, <4>1, <3>3
      <4>3. g[i-1] = f[i-1] /\ g[i] = f[i]
        BY <4>1, <3>3
      <4> QED BY <4>2, <4>3, <3>3
    <3> QED BY <3>1, <3>2, <3>3
  <2>3. Fit(n + 1, g)
    <3>1. g = h
      BY <2>2
    <3> QED BY <3>1
  <2> HIDE DEF g, Fit
  <2>4. n + 1 \in 0..m
    BY <1>2
  <2> QED BY <2>3, <2>4
<1>3. m \in S
  <2> HIDE DEF S
  <2>1. \A i \in 0..m : i \in S
    BY <1>1, <1>2, UpTo
  <2> QED BY <2>1
<1> DEFINE open == CHOOSE open : open = [k \in 0..m |-> IF k = 0 THEN {} ELSE Opened(open[k-1], items[k])]
<1>4. \E f : f = [k \in 0..m |-> IF k = 0 THEN {} ELSE Opened(f[k-1], items[k])]
  BY <1>3
<1>5. open = [k \in 0..m |-> IF k = 0 THEN {} ELSE Opened(open[k-1], items[k])]
  BY <1>4, Zenon
<1>6. PendingAfter(items, m) = open[m]
  BY Zenon DEF PendingAfter
<1> HIDE DEF open
<1>7. open[0] = {} /\ \A k \in 1..m : open[k] = Opened(open[k-1], items[k])
  <2> DEFINE body(k) == IF k = 0 THEN {} ELSE Opened(open[k-1], items[k])
  <2>1. \A k \in 0..m : open[k] = body(k)
    BY <1>5, Zenon
  <2>2. 0 \in 0..m /\ \A k \in 1..m : k \in 0..m /\ k # 0
    OBVIOUS
  <2> QED BY <2>1, <2>2
<1> QED BY <1>6, <1>7

(* A call that is not answered yet is waited for.                           *)
LEMMA CallWaits ==
  ASSUME NEW items, NEW m \in Nat, NEW p \in 1..m, items[p].kind = "call", ~OutputIn(items, m, items[p].call)
  PROVE  items[p].call \in PendingAfter(items, m)
<1> DEFINE c == items[p].call
<1>1. PICK open : /\ open[0] = {} /\ \A k \in 1..m : open[k] = Opened(open[k-1], items[k])
                  /\ PendingAfter(items, m) = open[m]
  BY PendingOpens
<1>10. items[p].call = c /\ ~OutputIn(items, m, c)
  OBVIOUS
<1> HIDE DEF c
<1> DEFINE S == {k \in 0..m : k >= p => c \in open[k]}
<1>2. 0 \in S
  OBVIOUS
<1>3. ASSUME NEW k \in 0..m, k < m, k \in S PROVE k + 1 \in S
  <2>1. k + 1 \in 1..m /\ (k + 1) - 1 = k /\ k + 1 \in 0..m
    BY <1>3
  <2>2. open[k + 1] = Opened(open[k], items[k + 1])
    BY <1>1, <2>1
  <2>3. CASE k + 1 < p
    BY <2>1, <2>3
  <2>4. CASE k + 1 = p
    <3>1. c \in open[k + 1]
      BY <1>10, <2>2, <2>4 DEF Opened
    <3> QED BY <2>1, <3>1
  <2>5. CASE k >= p
    <3>1. c \in open[k]
      BY <1>3, <2>5
    <3>2. ~(items[k + 1].kind = "output" /\ items[k + 1].call = c)
      BY <1>10, <2>1 DEF OutputIn
    <3>3. c \in open[k + 1]
      <4>1. CASE items[k + 1].kind = "call"
        BY <2>2, <3>1, <4>1 DEF Opened
      <4>2. CASE items[k + 1].kind = "output"
        BY <2>2, <3>1, <3>2, <4>2 DEF Opened
      <4>3. CASE items[k + 1].kind # "call" /\ items[k + 1].kind # "output"
        BY <2>2, <3>1, <4>3 DEF Opened
      <4> QED BY <4>1, <4>2, <4>3
    <3> QED BY <2>1, <3>3
  <2> QED BY <2>3, <2>4, <2>5
<1>4. m \in S
  <2> HIDE DEF S
  <2>1. \A i \in 0..m : i \in S
    BY <1>2, <1>3, UpTo
  <2> QED BY <2>1
<1> QED BY <1>1, <1>4, <1>10

(* Orphans are dropped, and nothing else.                                   *)
LEMMA OrphansDropped ==
  ASSUME NEW s, Listed(s), NEW k, k = drop_orphan_tool_items(s)
  PROVE  /\ Listed(k)
         /\ Threaded(s) => Threaded(k) /\ Whole(k)
         /\ \A i \in DOMAIN s : s[i].kind \notin {"call", "output"}
              \/ s[i].call \in CallsOf(s, "call") \cap CallsOf(s, "output") => s[i].ids \subseteq IdsOf(k)
<1> DEFINE paired == CallsOf(s, "call") \cap CallsOf(s, "output")
           t == {i \in DOMAIN s : s[i].kind \notin {"call", "output"} \/ s[i].call \in paired}
<1>0. Len(s) \in Nat /\ DOMAIN s = 1..Len(s)
  BY DEF Listed
<1>1. k = Keep(s, t)
  BY DEF drop_orphan_tool_items
<1>2. t \in SUBSET (DOMAIN s)
  OBVIOUS
<1>20. \A i \in DOMAIN s : i \in t <=> s[i].kind \notin {"call", "output"} \/ s[i].call \in paired
  OBVIOUS
<1> HIDE DEF t
<1>3. PICK f : Picks(f, k, s, t, Len(s))
  BY <1>1, <1>2, KeepPicks
<1>4. Listed(k) /\ Len(k) \in Nat /\ DOMAIN k = 1..Len(k)
  BY <1>3 DEF Picks, Listed
<1>5. \A j \in DOMAIN k : f[j] \in t /\ f[j] \in DOMAIN s /\ k[j] = s[f[j]]
  BY <1>2, <1>3, <1>4 DEF Picks
<1>6. \A i, j \in DOMAIN k : i < j => f[i] < f[j]
  BY <1>3, <1>4 DEF Picks
<1>7. \A p \in t : \E j \in DOMAIN k : f[j] = p
  <2>1. \A p \in t : p <= Len(s)
    BY <1>0, <1>2
  <2> QED BY <1>3, <1>4, <2>1 DEF Picks
<1>8. \A i, j \in DOMAIN k : f[i] = f[j] => i = j
  <2> SUFFICES ASSUME NEW i \in DOMAIN k, NEW j \in DOMAIN k, f[i] = f[j], i # j PROVE FALSE
    OBVIOUS
  <2>1. f[i] \in Nat /\ (i < j \/ j < i)
    BY <1>0, <1>4, <1>5
  <2> QED BY <1>6, <2>1
<1>9. ASSUME Threaded(s) PROVE Threaded(k)
  <2>1. ASSUME NEW i \in DOMAIN k, NEW j \in DOMAIN k, k[i].kind \in {"call", "output"}, k[j].kind = k[i].kind, k[j].call = k[i].call
        PROVE  i = j
    BY <1>5, <1>8, <1>9, <2>1 DEF Threaded
  <2>2. ASSUME NEW i \in DOMAIN k, NEW j \in DOMAIN k, k[i].kind = "call", k[j].kind = "output", k[j].call = k[i].call
        PROVE  i < j
    <3>1. f[i] < f[j]
      BY <1>5, <1>9, <2>2 DEF Threaded
    <3>2. f[i] \in Nat /\ f[j] \in Nat /\ (i < j \/ j < i \/ i = j)
      BY <1>0, <1>4, <1>5
    <3>3. ~(f[j] < f[i]) /\ f[i] # f[j]
      BY <3>1, <3>2
    <3> QED BY <1>6, <3>2, <3>3
  <2> QED BY <2>1, <2>2 DEF Threaded
<1>10. ASSUME NEW a \in {"call", "output"}, NEW b \in {"call", "output"}, NEW c \in CallsOf(k, a) PROVE c \in CallsOf(k, b)
  <2>1. PICK i \in DOMAIN k : k[i].kind = a /\ k[i].call = c
    BY <1>10, CallsAre
  <2>2. c \in paired
    BY <1>5, <1>20, <2>1
  <2>3. c \in CallsOf(s, b)
    BY <2>2
  <2>4. PICK q \in DOMAIN s : s[q].kind = b /\ s[q].call = c
    BY <2>3, CallsAre
  <2>5. q \in t
    BY <1>20, <2>2, <2>4
  <2>6. PICK j \in DOMAIN k : f[j] = q
    BY <1>7, <2>5
  <2>7. k[j].kind = b /\ k[j].call = c
    BY <1>5, <2>4, <2>6
  <2> QED BY <2>7, CallsAre
<1>11. Whole(k)
  BY <1>10 DEF Whole
<1>12. ASSUME NEW i \in t PROVE s[i].ids \subseteq IdsOf(k)
  <2>1. PICK j \in DOMAIN k : f[j] = i
    BY <1>7
  <2>2. k[j] = s[i]
    BY <1>5, <2>1
  <2> QED BY <2>2 DEF IdsOf
<1>13. \A i \in DOMAIN s : s[i].kind \notin {"call", "output"} \/ s[i].call \in paired => s[i].ids \subseteq IdsOf(k)
  BY <1>12, <1>20
<1> QED BY <1>4, <1>9, <1>11, <1>13

LEMMA PlainJoin ==
  ASSUME NEW s, Listed(s), Plain(s), NEW u, Listed(u), Plain(u)
  PROVE  Listed(s \o u) /\ Plain(s \o u)
<1> DEFINE t == s \o u
<1>1. /\ Listed(t) /\ Len(s) \in Nat /\ Len(u) \in Nat /\ Len(t) = Len(s) + Len(u)
      /\ DOMAIN t = 1..(Len(s) + Len(u)) /\ DOMAIN s = 1..Len(s) /\ DOMAIN u = 1..Len(u)
      /\ \A i \in DOMAIN s : t[i] = s[i]
      /\ \A i \in DOMAIN u : t[Len(s) + i] = u[i]
      /\ \A i \in DOMAIN t : i \in DOMAIN s \/ (i - Len(s) \in DOMAIN u /\ t[i] = u[i - Len(s)])
  BY ListedJoin, Zenon
<1> HIDE DEF t
<1>2. Plain(t)
  BY <1>1 DEF Plain
<1> QED BY <1>1, <1>2 DEF t

(* What stays is a suffix that starts where no call waits, after a summary  *)
(* and a notice at most.                                                    *)
LEMMA PrunedTo ==
  ASSUME NEW items, Listed(items), NEW budget, prune_items_to_budget(items, budget).ok
  PROVE  \E p, n : /\ Listed(p) /\ Plain(p) /\ n \in 0..Len(items)
                   /\ prune_items_to_budget(items, budget).items = drop_orphan_tool_items(p \o SubSeq(items, n + 1, Len(items)))
                   /\ n = Len(items) => Len(items) = 0 \/ items[Len(items)].kind = "summary"
                   /\ n < Len(items) => PendingAfter(items, n) = {}
<1> DEFINE head     == IF items # <<>> /\ items[1].kind = "summary" THEN 1 ELSE 0
           anchor   == IF head = 1 /\ budget - items[1].w - Notice.w > 0 THEN <<items[1]>> ELSE <<>>
           room     == Max({0, budget - Weight(anchor) - Notice.w})
           after(n) == SubSeq(items, n + 1, Len(items))
           fitting  == {n \in ChunkEnds(items) : head <= n /\ n < Len(items) /\ Weight(after(n)) <= room}
           from     == IF fitting = {} THEN Len(items) ELSE Min(fitting)
           notice   == IF from > head THEN <<Notice>> ELSE <<>>
           first    == drop_orphan_tool_items(anchor \o notice \o after(from))
           second   == drop_orphan_tool_items(notice \o after(from))
           result   == prune_items_to_budget(items, budget)
<1>1. Len(items) \in Nat
  BY DEF Listed
<1>2. /\ head \in {0, 1} /\ (head = 1 => items[1].kind = "summary")
  OBVIOUS
<1>3. \/ result = Raises
      \/ ~(from = Len(items) /\ from > head) /\ result = Returns(first)
      \/ ~(from = Len(items) /\ from > head) /\ result = Returns(second)
  <2> HIDE DEF from, head, anchor, first, second
  <2>1. result = CASE from = Len(items) /\ from > head                           -> Raises
                   [] ~(from = Len(items) /\ from > head) /\ Weight(first) <= budget -> Returns(first)
                   [] OTHER -> IF anchor # <<>> /\ Weight(second) <= budget THEN Returns(second) ELSE Raises
    BY DEF prune_items_to_budget, from, head, anchor, first, second
  <2> QED BY <2>1
<1>4. Listed(anchor) /\ Plain(anchor)
  <2>1. Listed(<<items[1]>>) /\ DOMAIN <<items[1]>> = {1} /\ <<items[1]>>[1] = items[1]
    BY ListedOne
  <2>2. head = 1 => Plain(<<items[1]>>)
    BY <1>2, <2>1 DEF Plain
  <2> HIDE DEF head
  <2> QED BY <2>1, <2>2, ListedEmpty DEF Plain
<1>5. Listed(notice) /\ Plain(notice)
  <2>1. Listed(<<Notice>>) /\ DOMAIN <<Notice>> = {1} /\ <<Notice>>[1] = Notice
    BY ListedOne
  <2>2. Plain(<<Notice>>)
    BY <2>1 DEF Plain, Notice
  <2> HIDE DEF from, head
  <2> QED BY <2>1, <2>2, ListedEmpty DEF Plain
<1>6. /\ from \in 0..Len(items)
      /\ from < Len(items) => PendingAfter(items, from) = {}
  <2>1. CASE fitting = {}
    <3> HIDE DEF fitting
    <3>1. from = Len(items)
      BY <2>1
    <3> HIDE DEF from
    <3> QED BY <1>1, <3>1
  <2>2. CASE fitting # {}
    <3>1. \A n \in fitting : n \in 0..Len(items) /\ PendingAfter(items, n) = {}
      BY DEF ChunkEnds
    <3> HIDE DEF fitting
    <3>2. fitting \in SUBSET Nat
      BY <1>1, <3>1
    <3>3. Min(fitting) \in fitting
      BY <2>2, <3>2, LeastIsIn
    <3> QED BY <2>2, <3>1, <3>3
  <2> QED BY <2>1, <2>2
<1> HIDE DEF fitting, from, anchor, notice, head
<1>7. ~(from = Len(items) /\ from > head) /\ from = Len(items) => Len(items) = 0 \/ items[Len(items)].kind = "summary"
  <2> SUFFICES ASSUME ~(Len(items) > head), Len(items) # 0 PROVE items[Len(items)].kind = "summary"
    BY <1>6
  <2> DEFINE m == Len(items)
  <2>0. m \in Nat /\ head \in {0, 1} /\ ~(m > head) /\ m # 0
    BY <1>1, <1>2
  <2> HIDE DEF m
  <2>1. head = 1 /\ m = 1
    BY <2>0
  <2> QED BY <1>2, <2>1 DEF m
<1>8. Raises.ok = FALSE /\ Returns(first).items = first /\ Returns(second).items = second
  BY DEF Raises, Returns
<1> DEFINE pre == anchor \o notice
<1>9. Listed(pre) /\ Plain(pre)
  BY <1>4, <1>5, PlainJoin
<1>10. first = drop_orphan_tool_items(pre \o after(from))
  OBVIOUS
<1>11. second = drop_orphan_tool_items(notice \o after(from))
  OBVIOUS
<1> HIDE DEF pre, first, second, result
<1>12. result.ok
  BY DEF result
<1>13. CASE ~(from = Len(items) /\ from > head) /\ result = Returns(first)
  BY <1>6, <1>7, <1>8, <1>9, <1>10, <1>13 DEF result
<1>14. CASE ~(from = Len(items) /\ from > head) /\ result = Returns(second)
  BY <1>5, <1>6, <1>7, <1>8, <1>11, <1>14 DEF result
<1> QED BY <1>3, <1>8, <1>12, <1>13, <1>14

(* The item in last place stays, with what it belongs to.                   *)
LEMMA PruneKeeps ==
  ASSUME NEW items, Listed(items), NEW budget, prune_items_to_budget(items, budget).ok
  PROVE  LET k == prune_items_to_budget(items, budget).items IN
         /\ Listed(k)
         /\ Threaded(items) /\ Whole(items) /\ Len(items) # 0 /\ items[Len(items)].kind # "summary"
            => Threaded(k) /\ Whole(k) /\ items[Len(items)].ids \subseteq IdsOf(k)
<1> DEFINE k == prune_items_to_budget(items, budget).items
           m == Len(items)
<1>1. PICK p, n : /\ Listed(p) /\ Plain(p) /\ n \in 0..m
                  /\ k = drop_orphan_tool_items(p \o SubSeq(items, n + 1, Len(items)))
                  /\ n = m => m = 0 \/ items[m].kind = "summary"
                  /\ n < m => PendingAfter(items, n) = {}
  BY PrunedTo
<1> DEFINE u == SubSeq(items, n + 1, Len(items))
           s == p \o u
           d == Len(p)
<1>2. /\ Listed(u) /\ m \in Nat /\ Len(u) = m - n /\ DOMAIN u = 1..(m - n) /\ DOMAIN items = 1..m
      /\ \A i \in 1..(m - n) : u[i] = items[n + i] /\ n + i \in DOMAIN items
  BY <1>1, ListedSuffix
<1> HIDE DEF u
<1>3. /\ Listed(s) /\ d \in Nat /\ Len(u) \in Nat /\ Len(s) = d + Len(u)
      /\ DOMAIN s = 1..(d + Len(u)) /\ DOMAIN p = 1..d /\ DOMAIN u = 1..Len(u)
      /\ \A i \in DOMAIN p : s[i] = p[i]
      /\ \A i \in DOMAIN u : s[d + i] = u[i]
      /\ \A i \in DOMAIN s : i \in DOMAIN p \/ (i - d \in DOMAIN u /\ s[i] = u[i - d])
  BY <1>1, <1>2, ListedJoin
<1>4. k = drop_orphan_tool_items(s)
  BY <1>1 DEF u
<1> HIDE DEF k, s, d
<1>5. /\ Listed(k) /\ Threaded(s) => Threaded(k) /\ Whole(k)
      /\ \A i \in DOMAIN s : s[i].kind \notin {"call", "output"}
           \/ s[i].call \in CallsOf(s, "call") \cap CallsOf(s, "output") => s[i].ids \subseteq IdsOf(k)
  BY <1>3, <1>4, OrphansDropped
<1>6. Listed(k)
  BY <1>3, <1>4, OrphansDropped
<1>60. Threaded(s) => Threaded(k) /\ Whole(k)
  BY <1>3, <1>4, OrphansDropped
<1>61. \A i \in DOMAIN s : s[i].kind \notin {"call", "output"}
           \/ s[i].call \in CallsOf(s, "call") \cap CallsOf(s, "output") => s[i].ids \subseteq IdsOf(k)
  BY <1>3, <1>4, OrphansDropped
<1>7. ASSUME Threaded(items), Whole(items), m # 0, items[m].kind # "summary"
      PROVE  Threaded(k) /\ Whole(k) /\ items[m].ids \subseteq IdsOf(k)
  <2> HIDE DEF m
  <2>1. n < m /\ PendingAfter(items, n) = {} /\ n \in Nat
    BY <1>1, <1>2, <1>7
  <2> DEFINE g(i) == n + (i - d)
  <2>2. ASSUME NEW i \in DOMAIN s, s[i].kind \in {"call", "output"}
        PROVE  g(i) \in DOMAIN items /\ s[i] = items[g(i)] /\ i \in Nat
    <3>1. i \notin DOMAIN p
      BY <1>1, <1>3, <2>2 DEF Plain
    <3>2. i - d \in DOMAIN u /\ s[i] = u[i - d]
      BY <1>3, <3>1
    <3>3. u[i - d] = items[n + (i - d)] /\ n + (i - d) \in DOMAIN items
      BY <1>2, <3>2
    <3> QED BY <1>3, <3>2, <3>3
  <2>3. \A i, j \in Nat : (g(i) = g(j) => i = j) /\ (g(i) < g(j) => i < j)
    BY <1>3, <2>1
  <2> HIDE DEF g
  <2>4. Threaded(s)
    <3>1. ASSUME NEW i \in DOMAIN s, NEW j \in DOMAIN s, s[i].kind \in {"call", "output"}, s[j].kind = s[i].kind, s[j].call = s[i].call
          PROVE  i = j
      <4>1. g(i) = g(j)
        BY <1>7, <2>2, <3>1 DEF Threaded
      <4> QED BY <2>2, <2>3, <3>1, <4>1
    <3>2. ASSUME NEW i \in DOMAIN s, NEW j \in DOMAIN s, s[i].kind = "call", s[j].kind = "output", s[j].call = s[i].call
          PROVE  i < j
      <4>1. g(i) < g(j)
        BY <1>7, <2>2, <3>2 DEF Threaded
      <4> QED BY <2>2, <2>3, <3>2, <4>1
    <3> QED BY <3>1, <3>2 DEF Threaded
  <2>5. ASSUME NEW i \in DOMAIN items, i > n PROVE d + (i - n) \in DOMAIN s /\ s[d + (i - n)] = items[i]
    <3>1. i - n \in DOMAIN u /\ n + (i - n) = i /\ i - n \in 1..(m - n)
      BY <1>2, <2>1, <2>5
    <3>2. u[i - n] = items[i]
      BY <1>2, <3>1
    <3>3. d + (i - n) \in DOMAIN s
      BY <1>3, <3>1
    <3> QED BY <1>3, <3>1, <3>2, <3>3
  <2>6. m \in DOMAIN items /\ m > n
    BY <1>2, <2>1
  <2> DEFINE e == d + (m - n)
             c == items[m].call
  <2>7. e \in DOMAIN s /\ s[e] = items[m]
    BY <2>5, <2>6
  <2> HIDE DEF e
  <2>8. items[m].kind # "call"
    <3> SUFFICES ASSUME items[m].kind = "call" PROVE FALSE
      OBVIOUS
    <3>1. c \in CallsOf(items, "output")
      BY <1>7, <2>6, CallsAre DEF Whole
    <3>2. PICK q \in DOMAIN items : items[q].kind = "output" /\ items[q].call = c
      BY <3>1, CallsAre
    <3>3. m < q
      BY <1>7, <2>6, <3>2 DEF Threaded
    <3> QED BY <1>2, <3>2, <3>3
  <2>9. ASSUME items[m].kind = "output" PROVE c \in CallsOf(s, "call") \cap CallsOf(s, "output")
    <3>1. c \in CallsOf(items, "call")
      BY <1>7, <2>6, <2>9, CallsAre DEF Whole
    <3>2. PICK q \in DOMAIN items : items[q].kind = "call" /\ items[q].call = c
      BY <3>1, CallsAre
    <3>3. q > n
      <4> SUFFICES ASSUME ~(q > n) PROVE FALSE
        OBVIOUS
      <4>1. q \in 1..n
        BY <1>2, <2>1, <3>2
      <4>2. ~OutputIn(items, n, c)
        <5> SUFFICES ASSUME NEW j \in 1..n, items[j].kind = "output", items[j].call = c PROVE FALSE
          BY DEF OutputIn
        <5>1. j \in DOMAIN items /\ j # m
          BY <1>2, <2>1
        <5> QED BY <1>7, <2>6, <2>9, <5>1 DEF Threaded
      <4>3. c \in PendingAfter(items, n)
        BY <2>1, <3>2, <4>1, <4>2, CallWaits
      <4> QED BY <2>1, <4>3
    <3>4. d + (q - n) \in DOMAIN s /\ s[d + (q - n)] = items[q]
      BY <2>5, <3>3
    <3> QED BY <2>7, <2>9, <3>2, <3>4, CallsAre
  <2>10. items[m].ids \subseteq IdsOf(k)
    BY <1>61, <2>7, <2>8, <2>9
  <2> QED BY <1>60, <2>4, <2>10
<1> QED BY <1>6, <1>7 DEF k, m

(* A model call is given paired items; and if each call of the context is   *)
(* answered in it, the newest item is among them.                           *)
LEMMA SubmittedKeeps ==
  ASSUME NEW items, Listed(items), NEW instr, NEW budget, constrain_model_input(items, instr, budget).ok
  PROVE  LET s == normalize(constrain_model_input(items, instr, budget).items) IN
         /\ Paired(s)
         /\ Threaded(items) /\ Whole(items) /\ Len(items) # 0 /\ items[Len(items)].kind # "summary"
            => items[Len(items)].ids \subseteq IdsOf(s)
<1> DEFINE k == constrain_model_input(items, instr, budget).items
           m == Len(items)
           good == Threaded(items) /\ Whole(items) /\ m # 0 /\ items[m].kind # "summary"
<1>1. Listed(k) /\ (good => Threaded(k) /\ Whole(k) /\ items[m].ids \subseteq IdsOf(k))
  <2>1. CASE Weight(items) + instr <= budget
    <3>1. k = items
      BY <2>1 DEF constrain_model_input, Returns
    <3>2. m \in Nat /\ DOMAIN items = 1..m
      BY DEF Listed
    <3>3. m # 0 => items[m].ids \subseteq IdsOf(items)
      BY <3>2 DEF IdsOf
    <3> QED BY <3>1, <3>3
  <2>2. CASE ~(Weight(items) + instr <= budget)
    <3>1. constrain_model_input(items, instr, budget) = prune_items_to_budget(items, budget - instr)
      BY <2>2 DEF constrain_model_input, Raises
    <3> DEFINE b == budget - instr
    <3> HIDE DEF b
    <3>2. prune_items_to_budget(items, b).ok /\ k = prune_items_to_budget(items, b).items
      BY <3>1 DEF b
    <3> HIDE DEF k
    <3>3. Listed(k)
      BY <3>2, PruneKeeps
    <3>4. good => Threaded(k) /\ Whole(k) /\ items[m].ids \subseteq IdsOf(k)
      BY <3>2, PruneKeeps
    <3> QED BY <3>3, <3>4
  <2> QED BY <2>1, <2>2
<1> HIDE DEF k
<1>2. Len(k) \in Nat /\ DOMAIN k = 1..Len(k)
  BY <1>1 DEF Listed
<1>3. Paired(normalize(k))
  BY <1>2, NormalizedIsPaired
<1>4. good => IdsOf(k) \subseteq IdsOf(normalize(k))
  BY <1>1, <1>2, NormalizeKeeps
<1> QED BY <1>1, <1>3, <1>4 DEF k

-----------------------------------------------------------------------------
(* What the agents store, for what they are given. *)

(* A call is named for its item; an output is for a call stored before it,  *)
(* by the same agent in the same place.                                     *)
AnswersFit(s) ==
  \A i \in DOMAIN s :
    /\ s[i].kind # "summary"
    /\ s[i].kind = "call" => s[i].call = i
    /\ s[i].kind = "output" =>
         \E c \in 1..(i-1) : /\ s[i].call = c /\ s[c].kind = "call"
                             /\ s[c].owner = s[i].owner /\ s[c].scope = s[i].scope

(* Something that is not summarized is seen.                                *)
Waits(v) == \E z \in SeenBy(v) : z > row[v].end

TurnInv ==
  /\ ConvInv /\ AnswersFit(log)
  /\ \A v \in Agents : At(v, "model") => Waits(v)

(* The same of a batch that is stored.                                      *)
AnswersBatch(items) ==
  \A n \in DOMAIN items :
    /\ items[n].kind # "summary"
    /\ items[n].kind = "call" => items[n].call = Len(log) + n
    /\ items[n].kind = "output" =>
         \E k \in 1..(n-1) : /\ items[n].call = Len(log) + k /\ items[k].kind = "call"
                             /\ items[k].owner = items[n].owner /\ items[k].scope = items[n].scope

LEMMA LogGrows ==
  ASSUME Logged, NEW items, Listed(items), add_items(items)
  PROVE  /\ Len(log) \in Nat /\ Len(items) \in Nat /\ DOMAIN log = 1..Len(log) /\ DOMAIN items = 1..Len(items)
         /\ Len(log') = Len(log) + Len(items) /\ DOMAIN log' = 1..(Len(log) + Len(items))
         /\ \A i \in DOMAIN log : log'[i] = log[i]
         /\ \A i \in DOMAIN items : log'[Len(log) + i] = items[i]
         /\ \A i \in DOMAIN log' : i \in DOMAIN log \/ (i - Len(log) \in DOMAIN items /\ log'[i] = items[i - Len(log)])
<1>1. Listed(log)
  BY LogIncreases DEF Increasing
<1> DEFINE t == log \o items
<1>2. /\ Listed(t) /\ Len(log) \in Nat /\ Len(items) \in Nat /\ Len(t) = Len(log) + Len(items)
      /\ DOMAIN t = 1..(Len(log) + Len(items)) /\ DOMAIN log = 1..Len(log) /\ DOMAIN items = 1..Len(items)
      /\ \A i \in DOMAIN log : t[i] = log[i]
      /\ \A i \in DOMAIN items : t[Len(log) + i] = items[i]
      /\ \A i \in DOMAIN t : i \in DOMAIN log \/ (i - Len(log) \in DOMAIN items /\ t[i] = items[i - Len(log)])
  BY <1>1, ListedJoin, Zenon
<1>3. log' = t
  BY DEF add_items
<1> HIDE DEF t
<1> QED BY <1>2, <1>3

LEMMA AnswersGrow ==
  ASSUME Logged, AnswersFit(log), NEW items, Listed(items), add_items(items), AnswersBatch(items)
  PROVE  AnswersFit(log')
<1> DEFINE n == Len(log)
<1>1. /\ n \in Nat /\ Len(items) \in Nat /\ DOMAIN log = 1..n /\ DOMAIN items = 1..Len(items)
      /\ DOMAIN log' = 1..(n + Len(items))
      /\ \A i \in DOMAIN log : log'[i] = log[i]
      /\ \A i \in DOMAIN items : log'[n + i] = items[i]
      /\ \A i \in DOMAIN log' : i \in DOMAIN log \/ (i - n \in DOMAIN items /\ log'[i] = items[i - n])
  BY LogGrows
<1>2. /\ \A k \in DOMAIN items : items[k].kind # "summary"
      /\ \A k \in DOMAIN items : items[k].kind = "call" => items[k].call = n + k
      /\ \A k \in DOMAIN items : items[k].kind = "output" =>
           \E l \in 1..(k-1) : /\ items[k].call = n + l /\ items[l].kind = "call"
                               /\ items[l].owner = items[k].owner /\ items[l].scope = items[k].scope
  BY DEF AnswersBatch
<1> HIDE DEF n
<1> SUFFICES ASSUME NEW i \in DOMAIN log'
             PROVE  /\ log'[i].kind # "summary"
                    /\ log'[i].kind = "call" => log'[i].call = i
                    /\ log'[i].kind = "output" =>
                         \E c \in 1..(i-1) : /\ log'[i].call = c /\ log'[c].kind = "call"
                                             /\ log'[c].owner = log'[i].owner /\ log'[c].scope = log'[i].scope
  BY DEF AnswersFit
<1>3. CASE i \in DOMAIN log
  <2>1. log'[i] = log[i]
    BY <1>1, <1>3
  <2>2. ASSUME log[i].kind = "output"
        PROVE  \E c \in 1..(i-1) : /\ log'[i].call = c /\ log'[c].kind = "call"
                                   /\ log'[c].owner = log'[i].owner /\ log'[c].scope = log'[i].scope
    <3>1. PICK c \in 1..(i-1) : /\ log[i].call = c /\ log[c].kind = "call"
                                /\ log[c].owner = log[i].owner /\ log[c].scope = log[i].scope
      BY <1>3, <2>2 DEF AnswersFit
    <3>2. c \in DOMAIN log
      BY <1>1, <1>3
    <3>3. log'[c] = log[c]
      BY <1>1, <3>2
    <3> QED BY <2>1, <3>1, <3>3
  <2> QED BY <1>3, <2>1, <2>2 DEF AnswersFit
<1>4. CASE i - n \in DOMAIN items /\ log'[i] = items[i - n]
  <2>1. n + (i - n) = i
    BY <1>1
  <2>2. ASSUME items[i - n].kind = "output"
        PROVE  \E c \in 1..(i-1) : /\ log'[i].call = c /\ log'[c].kind = "call"
                                   /\ log'[c].owner = log'[i].owner /\ log'[c].scope = log'[i].scope
    <3>1. PICK l \in 1..((i-n)-1) : /\ items[i - n].call = n + l /\ items[l].kind = "call"
                                    /\ items[l].owner = items[i - n].owner /\ items[l].scope = items[i - n].scope
      BY <1>2, <1>4, <2>2
    <3>2. l \in DOMAIN items /\ n + l \in 1..(i-1)
      BY <1>1, <1>4
    <3>3. log'[n + l] = items[l]
      BY <1>1, <3>2
    <3> QED BY <1>4, <3>1, <3>2, <3>3
  <2> QED BY <1>2, <1>4, <2>1, <2>2
<1> QED BY <1>1, <1>3, <1>4

(* What waits goes on waiting.                                              *)
LEMMA WaitsStays ==
  ASSUME Logged, Logged', Len(log) <= Len(log'), \A i \in DOMAIN log : log'[i] = log[i],
         NEW u \in Agents, row'[u] = row[u], Waits(u)
  PROVE  Waits(u)'
<1>1. PICK z \in SeenBy(u) : z > row[u].end
  BY DEF Waits
<1>2. Len(log) \in Nat /\ SeenBy(u) \subseteq 1..Len(log)
  BY LogIncreases
<1>3. {x \in SeenBy(u)' : x <= Len(log)} = {x \in SeenBy(u) : x <= Len(log)}
  BY <1>2, SeenStays
<1>4. z \in SeenBy(u)'
  BY <1>1, <1>2, <1>3
<1> QED BY <1>1, <1>4 DEF Waits

(* A step that stores nothing, and lets no turn go on to the model.         *)
LEMMA StaysQuiet ==
  ASSUME TurnInv, ConvInv', UNCHANGED log, NEW v \in Agents, turn'[v].pc # "model",
         \A u \in Agents : u # v => turn'[u] = turn[u] /\ row'[u] = row[u]
  PROVE  TurnInv'
<1>1. Logged /\ Logged' /\ Len(log) \in Nat
  BY DEF TurnInv, ConvInv, Logged
<1>2. Len(log) <= Len(log') /\ \A i \in DOMAIN log : log'[i] = log[i]
  BY <1>1
<1>3. AnswersFit(log)'
  BY DEF TurnInv, AnswersFit
<1>4. ASSUME NEW u \in Agents, At(u, "model")' PROVE Waits(u)'
  <2>1. u # v /\ At(u, "model") /\ row'[u] = row[u]
    BY <1>4 DEF At
  <2> QED BY <1>1, <1>2, <2>1, WaitsStays DEF TurnInv
<1> QED BY <1>3, <1>4 DEF TurnInv

(* A step that stores items, and lets no other turn go on to the model.     *)
LEMMA StaysWaiting ==
  ASSUME TurnInv, ConvInv', UNCHANGED row, NEW items, Listed(items), add_items(items), AnswersBatch(items),
         NEW v \in Agents, \A u \in Agents : u # v => turn'[u] = turn[u],
         turn'[v].pc = "model" => Waits(v)' \/ turn[v].pc = "model"
  PROVE  TurnInv'
<1>1. Logged /\ Logged'
  BY DEF TurnInv, ConvInv
<1>2. Len(log) <= Len(log') /\ \A i \in DOMAIN log : log'[i] = log[i]
  <2>1. Len(log) \in Nat /\ Len(items) \in Nat /\ Len(log') = Len(log) + Len(items) /\ \A i \in DOMAIN log : log'[i] = log[i]
    BY <1>1, LogGrows
  <2> QED BY <2>1
<1>3. AnswersFit(log')
  BY <1>1, AnswersGrow DEF TurnInv
<1>4. ASSUME NEW u \in Agents, At(u, "model")' PROVE Waits(u)'
  <2>1. (u = v /\ Waits(v)') \/ At(u, "model")
    BY <1>4 DEF At
  <2>2. row'[u] = row[u]
    OBVIOUS
  <2>3. At(u, "model") => Waits(u)'
    BY <1>1, <1>2, <2>2, WaitsStays DEF TurnInv
  <2> QED BY <2>1, <2>3
<1>5. AnswersFit(log)'
  BY <1>3 DEF AnswersFit
<1> QED BY <1>4, <1>5 DEF TurnInv

(* One item that is no output.                                              *)
LEMMA OneAnswers ==
  ASSUME NEW x, x.kind # "summary", x.kind # "output", x.kind = "call" => x.call = Len(log) + 1
  PROVE  Listed(<<x>>) /\ AnswersBatch(<<x>>)
<1> DEFINE s == <<x>>
<1>1. Listed(s) /\ DOMAIN s = {1} /\ s[1] = x
  BY ListedOne
<1> HIDE DEF s
<1>2. AnswersBatch(s)
  BY <1>1 DEF AnswersBatch
<1> QED BY <1>1, <1>2 DEF s

LEMMA BeginWaits ==
  ASSUME TurnInv, ConvInv', NEW v \in Agents, NEW kind \in v.begins, turn_begins(v, kind)
  PROVE  TurnInv'
<1> DEFINE x == Item(v, 1, kind, NoCall, Incoming)
<1>1. UNCHANGED row /\ turn' = [turn EXCEPT ![v].pc = "model"] /\ add_items(<<x>>)
  BY DEF turn_begins, Goto
<1>2. kind \in {"user", "resume"}
  BY AgentsBegin
<1>3. x.kind = kind /\ x.owner = v.code /\ x.scope = v.scope
  BY DEF Item
<1> HIDE DEF x
<1>4. Listed(<<x>>) /\ AnswersBatch(<<x>>)
  BY <1>2, <1>3, OneAnswers
<1>5. \A u \in Agents : u # v => turn'[u] = turn[u]
  BY <1>1 DEF TurnInv, ConvInv
<1>6. Waits(v)'
  <2> DEFINE s == <<x>>
  <2>0. Listed(s) /\ add_items(s) /\ 1 \in DOMAIN s /\ s[1] = x /\ Len(s) = 1
    BY <1>1, <1>4
  <2> HIDE DEF s
  <2>1. Len(log) \in Nat /\ DOMAIN log' = 1..(Len(log) + 1) /\ log'[Len(log) + 1] = x
    BY <2>0, LogGrows DEF TurnInv, ConvInv
  <2> DEFINE z == Len(log) + 1
  <2>2. z \in DOMAIN log' /\ log'[z] = x /\ z \in Nat
    BY <2>1
  <2>3. row[v].end \in 0..Len(log)
    BY DEF TurnInv, ConvInv, RowFits
  <2>4. z > row[v].end
    BY <2>1, <2>3
  <2> HIDE DEF z
  <2>5. Sees(x, v.code, v.scope)
    BY <1>3 DEF Sees
  <2>6. \A i \in DOMAIN log' : log'[i].id = i
    BY DEF ConvInv, Logged
  <2>7. DOMAIN log' = 1..Len(log')
    BY DEF ConvInv, Logged
  <2>8. z \in SeenBy(v)'
    BY <2>2, <2>5, <2>6, <2>7 DEF SeenBy, SeenOf
  <2> QED BY <1>1, <2>4, <2>8 DEF Waits
<1> QED BY <1>1, <1>4, <1>5, <1>6, StaysWaiting

LEMMA AnswerWaits ==
  ASSUME TurnInv, ConvInv', NEW v \in Agents, answers(v) \/ tool_is_interrupted(v)
  PROVE  TurnInv'
<1> DEFINE x == Item(v, 1, "assistant", NoCall, 1)
           y == Item(v, 1, "call", Len(log) + 1, 1)
<1>1. UNCHANGED row /\ turn' = [turn EXCEPT ![v] = NoTurn] /\ (add_items(<<x>>) \/ add_items(<<y>>))
  BY DEF answers, tool_is_interrupted, TurnEnds
<1>2. x.kind = "assistant" /\ y.kind = "call" /\ y.call = Len(log) + 1
  BY DEF Item
<1> HIDE DEF x, y
<1>3. Listed(<<x>>) /\ AnswersBatch(<<x>>)
  BY <1>2, OneAnswers
<1>4. Listed(<<y>>) /\ AnswersBatch(<<y>>)
  BY <1>2, OneAnswers
<1>5. /\ \A u \in Agents : u # v => turn'[u] = turn[u]
      /\ turn'[v].pc # "model"
  BY <1>1 DEF TurnInv, ConvInv, NoTurn
<1> QED BY <1>1, <1>3, <1>4, <1>5, StaysWaiting

LEMMA ToolsWait ==
  ASSUME TurnInv, ConvInv', NEW v \in Agents, calls_tools(v)
  PROVE  TurnInv'
<1>1. UNCHANGED <<row, turn>>
  BY DEF calls_tools
<1>2. PICK a : a = Len(log) + 1
  OBVIOUS
<1>0. Len(log) \in Nat /\ a \in Nat /\ a = Len(log) + 1
  BY <1>2 DEF TurnInv, ConvInv, Logged
<1>3. ASSUME NEW w \in {1, 3}, add_items(<<Item(v, 1, "call", a, 1), Item(v, 2, "output", a, w)>>) PROVE TurnInv'
  <2> DEFINE x == Item(v, 1, "call", a, 1)
             y == Item(v, 2, "output", a, w)
             items == <<x, y>>
  <2>1. /\ x.kind = "call" /\ y.kind = "output" /\ x.call = a /\ y.call = a
        /\ x.owner = v.code /\ y.owner = v.code /\ x.scope = v.scope /\ y.scope = v.scope
    BY DEF Item
  <2>2. add_items(items)
    BY <1>3
  <2> HIDE DEF x, y
  <2>3. DOMAIN items = {1, 2} /\ items[1] = x /\ items[2] = y
    OBVIOUS
  <2>4. items = [i \in 1..2 |-> items[i]]
    OBVIOUS
  <2> HIDE DEF items
  <2>5. Listed(items)
    BY <2>4, ListedFun
  <2>6. AnswersBatch(items)
    BY <1>0, <2>1, <2>3 DEF AnswersBatch
  <2> QED BY <1>1, <2>2, <2>5, <2>6, StaysWaiting
<1>4. ASSUME add_items(<<Item(v, 1, "call", a, 1), Item(v, 2, "call", a + 1, 1), Item(v, 3, "reason", NoCall, 1),
                         Item(v, 4, "output", a + 1, 1), Item(v, 5, "output", a, 1)>>)
      PROVE  TurnInv'
  <2> DEFINE x1 == Item(v, 1, "call", a, 1)
             x2 == Item(v, 2, "call", a + 1, 1)
             x3 == Item(v, 3, "reason", NoCall, 1)
             x4 == Item(v, 4, "output", a + 1, 1)
             x5 == Item(v, 5, "output", a, 1)
             items == <<x1, x2, x3, x4, x5>>
  <2>1. /\ x1.kind = "call" /\ x2.kind = "call" /\ x3.kind = "reason" /\ x4.kind = "output" /\ x5.kind = "output"
        /\ x1.call = a /\ x2.call = a + 1 /\ x4.call = a + 1 /\ x5.call = a
    BY DEF Item
  <2>10. /\ x1.owner = v.code /\ x2.owner = v.code /\ x4.owner = v.code /\ x5.owner = v.code
         /\ x1.scope = v.scope /\ x2.scope = v.scope /\ x4.scope = v.scope /\ x5.scope = v.scope
    BY DEF Item
  <2>2. add_items(items)
    BY <1>4
  <2> HIDE DEF x1, x2, x3, x4, x5
  <2>3. DOMAIN items = 1..5 /\ items[1] = x1 /\ items[2] = x2 /\ items[3] = x3 /\ items[4] = x4 /\ items[5] = x5
    OBVIOUS
  <2>4. items = [i \in 1..5 |-> items[i]]
    OBVIOUS
  <2> HIDE DEF items
  <2>5. Listed(items)
    BY <2>4, ListedFun
  <2>6. AnswersBatch(items)
    <3>1. \A n \in DOMAIN items : items[n].kind # "summary"
      BY <2>1, <2>3
    <3>2. \A n \in DOMAIN items : items[n].kind = "call" => items[n].call = Len(log) + n
      BY <1>0, <2>1, <2>3
    <3>3. ASSUME NEW n \in DOMAIN items, items[n].kind = "output"
          PROVE  \E k \in 1..(n-1) : /\ items[n].call = Len(log) + k /\ items[k].kind = "call"
                                     /\ items[k].owner = items[n].owner /\ items[k].scope = items[n].scope
      <4>1. n = 4 \/ n = 5
        BY <2>1, <2>3, <3>3
      <4>2. CASE n = 4
        <5>1. 2 \in 1..(n-1) /\ a + 1 = Len(log) + 2
          BY <1>0, <4>2
        <5> QED BY <2>1, <2>3, <2>10, <4>2, <5>1
      <4>3. CASE n = 5
        <5>1. 1 \in 1..(n-1) /\ a = Len(log) + 1
          BY <1>0, <4>3
        <5> QED BY <2>1, <2>3, <2>10, <4>3, <5>1
      <4> QED BY <4>1, <4>2, <4>3
    <3> QED BY <3>1, <3>2, <3>3 DEF AnswersBatch
  <2> QED BY <1>1, <2>2, <2>5, <2>6, StaysWaiting
<1> QED BY <1>2, <1>3, <1>4 DEF calls_tools

LEMMA TurnInit == Init => TurnInv
<1> SUFFICES ASSUME Init PROVE TurnInv
  OBVIOUS
<1>1. ConvInv
  BY ConvInit
<1>2. log = <<>> /\ DOMAIN log = {}
  BY ListedEmpty DEF Init
<1>3. \A v \in Agents : turn[v].pc = "idle"
  BY DEF Init, NoTurn
<1> QED BY <1>1, <1>2, <1>3 DEF TurnInv, AnswersFit, At

LEMMA TurnNext == TurnInv /\ [Next]_vars => TurnInv'
<1> SUFFICES ASSUME TurnInv, [Next]_vars PROVE TurnInv'
  OBVIOUS
<1>1. ConvInv'
  BY ConvNext DEF TurnInv
<1>2. CASE UNCHANGED vars
  BY <1>1, <1>2 DEF vars, TurnInv, AnswersFit, At, Waits, SeenBy
<1>3. ASSUME NEW v \in Agents, compact_if_needed(v) \/ summarize_fails(v) \/ store_compaction(v) \/ turn_breaks(v) \/ model_call_raises(v)
      PROVE  TurnInv'
  <2>1. UNCHANGED log
    BY <1>3 DEF compact_if_needed, summarize_fails, store_compaction, turn_breaks, model_call_raises
  <2>2. turn'[v].pc # "model"
    <3>1. turn'[v].pc \in {"begin", "summarize", "idle"}
      <4>1. CASE compact_if_needed(v)
        <5> DEFINE total == Weight(Projection(v)) + Incoming
                   cand  == select_compaction_candidates(Projection(v), total, Cfg)
                   begun == [NoTurn EXCEPT !.pc = "begin"]
                   asked == [pc |-> "summarize", cand |-> cand, total |-> total]
                   t     == IF total < Cfg.trigger \/ Len(cand) < Cfg.min \/ cand = <<>> THEN begun ELSE asked
        <5>1. turn' = [turn EXCEPT ![v] = t]
          BY <4>1 DEF compact_if_needed
        <5>2. begun.pc = "begin" /\ asked.pc = "summarize" /\ (t = begun \/ t = asked)
          BY DEF NoTurn
        <5> HIDE DEF t, begun, asked
        <5> QED BY <5>1, <5>2 DEF TurnInv, ConvInv
      <4>2. CASE summarize_fails(v)
        BY <4>2 DEF summarize_fails, TurnEnds, Goto, NoTurn, TurnInv, ConvInv, StageFits
      <4>3. CASE store_compaction(v)
        BY <4>3 DEF store_compaction, NoTurn, TurnInv, ConvInv
      <4>4. CASE turn_breaks(v) \/ model_call_raises(v)
        BY <4>4 DEF turn_breaks, model_call_raises, TurnEnds, NoTurn, TurnInv, ConvInv
      <4> QED BY <1>3, <4>1, <4>2, <4>3, <4>4
    <3> QED BY <3>1
  <2>3. \A u \in Agents : u # v => turn'[u] = turn[u] /\ row'[u] = row[u]
    BY <1>3 DEF compact_if_needed, summarize_fails, store_compaction, turn_breaks, model_call_raises, TurnEnds, Goto, TurnInv, ConvInv
  <2> QED BY <1>1, <2>1, <2>2, <2>3, StaysQuiet
<1>4. CASE Next
  BY <1>1, <1>3, <1>4, BeginWaits, AnswerWaits, ToolsWait DEF Next
<1> QED BY <1>2, <1>4

LEMMA TurnHolds == Spec => []TurnInv
<1> QED BY TurnInit, TurnNext, PTL DEF Spec

(* An item that is shown stands for stored ones of its tag, but for the     *)
(* summary.                                                                 *)
LEMMA ShownAs ==
  ASSUME TurnInv, NEW v \in Agents, NEW i \in DOMAIN Projection(v), NEW x \in Projection(v)[i].ids
  PROVE  /\ x \in DOMAIN log /\ x \in SeenBy(v)
         /\ \/ Projection(v)[i].kind = "summary" /\ Projection(v)[i].ids = row[v].covers
            \/ /\ Projection(v)[i].kind # "summary" /\ Tag(log[x]) = Tag(Projection(v)[i])
<1> DEFINE e == Projection(v)[i]
<1>1. ConvInv
  BY DEF TurnInv
<1>2. /\ Lists(Projection(v), SeenBy(v))
      /\ (Tag(e) = <<NoCall, "summary">> /\ e.ids = row[v].covers) \/ \A y \in e.ids : TagOf[y] = Tag(e)
  BY <1>1, ProjectionLists
<1>3. x \in SeenBy(v)
  BY <1>2 DEF Lists, IdsOf
<1>4. x \in DOMAIN log
  BY <1>1, <1>3, LogIncreases DEF ConvInv
<1>40. x \in e.ids
  OBVIOUS
<1> HIDE DEF e
<1>5. CASE Tag(e) = <<NoCall, "summary">> /\ e.ids = row[v].covers
  <2>1. e.kind = "summary"
    BY <1>5 DEF Tag
  <2> QED BY <1>3, <1>4, <1>5, <2>1 DEF e
<1>6. CASE \A y \in e.ids : TagOf[y] = Tag(e)
  <2>1. Tag(log[x]) = Tag(e)
    BY <1>4, <1>40, <1>6 DEF TagOf
  <2>2. log[x].kind # "summary"
    BY <1>4 DEF TurnInv, AnswersFit
  <2>3. e.kind # "summary"
    BY <2>1, <2>2 DEF Tag
  <2> QED BY <1>3, <1>4, <2>1, <2>3 DEF e
<1> QED BY <1>2, <1>5, <1>6

LEMMA TagsAre ==
  ASSUME NEW x, NEW e, Tag(x) = Tag(e)
  PROVE  /\ x.call = e.call /\ (x.kind = "call" <=> e.kind = "call") /\ (x.kind = "output" <=> e.kind = "output")
BY DEF Tag

(* A call or an output that is shown is a stored one.                       *)
LEMMA CallShown ==
  ASSUME TurnInv, NEW v \in Agents, NEW i \in DOMAIN Projection(v), Projection(v)[i].kind \in {"call", "output"}
  PROVE  \E x \in Projection(v)[i].ids :
           /\ x \in DOMAIN log /\ x \in SeenBy(v)
           /\ log[x].kind = Projection(v)[i].kind /\ log[x].call = Projection(v)[i].call
<1> DEFINE e == Projection(v)[i]
<1>1. Lists(Projection(v), SeenBy(v))
  BY ProjectionLists DEF TurnInv
<1>2. PICK x : x \in e.ids
  BY <1>1 DEF Lists
<1>3. x \in DOMAIN log /\ x \in SeenBy(v) /\ Tag(log[x]) = Tag(e)
  BY <1>2, ShownAs
<1>4. e.kind \in {"call", "output"}
  OBVIOUS
<1> HIDE DEF e
<1>5. log[x].kind = e.kind /\ log[x].call = e.call
  BY <1>3, <1>4, TagsAre
<1> QED BY <1>2, <1>3, <1>5 DEF e

(* An agent that sees an output sees its call.                              *)
LEMMA CallSeen ==
  ASSUME TurnInv, NEW v \in Agents, NEW y \in SeenBy(v), log[y].kind = "output"
  PROVE  /\ y \in DOMAIN log /\ log[y].call \in 1..(y-1) /\ log[y].call \in SeenBy(v) /\ log[y].call \in DOMAIN log
         /\ log[log[y].call].kind = "call" /\ log[log[y].call].call = log[y].call
<1>1. /\ Len(log) \in Nat /\ DOMAIN log = 1..Len(log)
      /\ SeenBy(v) = {i \in DOMAIN log : Sees(log[i], v.code, v.scope)}
  BY LogIncreases DEF TurnInv, ConvInv
<1>2. y \in DOMAIN log /\ Sees(log[y], v.code, v.scope)
  BY <1>1
<1>3. PICK c \in 1..(y-1) : /\ log[y].call = c /\ log[c].kind = "call"
                            /\ log[c].owner = log[y].owner /\ log[c].scope = log[y].scope
  BY <1>2 DEF TurnInv, AnswersFit
<1>4. c \in DOMAIN log
  BY <1>1, <1>2
<1>5. log[c].call = c
  BY <1>3, <1>4 DEF TurnInv, AnswersFit
<1>6. Sees(log[c], v.code, v.scope)
  BY <1>2, <1>3 DEF Sees, Private
<1> QED BY <1>1, <1>2, <1>3, <1>4, <1>5, <1>6

LEMMA SeenThreaded ==
  ASSUME TurnInv, NEW v \in Agents
  PROVE  Threaded(Projection(v))
<1> DEFINE s == Projection(v)
<1>1. Lists(s, SeenBy(v))
  BY ProjectionLists DEF TurnInv
<1>2. \A i \in DOMAIN s : s[i].kind \in {"call", "output"} =>
        \E x \in s[i].ids : /\ x \in DOMAIN log /\ x \in SeenBy(v) /\ log[x].kind = s[i].kind /\ log[x].call = s[i].call
  BY CallShown
<1> HIDE DEF s
<1>3. \A i \in DOMAIN s : i \in Nat
  BY <1>1 DEF Lists, Listed
<1>4. ASSUME NEW i \in DOMAIN s, NEW j \in DOMAIN s, NEW x \in s[i].ids, NEW y \in s[j].ids
      PROVE  /\ x \in Nat /\ y \in Nat
             /\ x < y => ~(j < i)
             /\ x = y => i = j
  <2>1. x \in Nat /\ y \in Nat
    BY <1>1 DEF Lists, IdsOf
  <2>2. j < i => y < x
    BY <1>1 DEF Lists
  <2>3. i < j => x < y
    BY <1>1 DEF Lists
  <2>4. i < j \/ j < i \/ i = j
    BY <1>3
  <2> QED BY <2>1, <2>2, <2>3, <2>4
<1>5. ASSUME NEW i \in DOMAIN s, NEW j \in DOMAIN s, s[i].kind \in {"call", "output"}, s[j].kind = s[i].kind, s[j].call = s[i].call
      PROVE  i = j
  <2>1. PICK x \in s[i].ids : x \in DOMAIN log /\ x \in SeenBy(v) /\ log[x].kind = s[i].kind /\ log[x].call = s[i].call
    BY <1>2, <1>5
  <2>2. PICK y \in s[j].ids : y \in DOMAIN log /\ y \in SeenBy(v) /\ log[y].kind = s[j].kind /\ log[y].call = s[j].call
    BY <1>2, <1>5
  <2>3. x = y
    <3>1. CASE s[i].kind = "call"
      BY <1>5, <2>1, <2>2, <3>1 DEF TurnInv, AnswersFit
    <3>2. CASE s[i].kind = "output"
      <4>1. log[x].call = log[y].call /\ log[x].call \in 1..(x-1) /\ log[x].call \in 1..(y-1)
        <5>1. log[x].kind = "output" /\ log[y].kind = "output" /\ log[x].call = log[y].call
          BY <1>5, <2>1, <2>2, <3>2
        <5>2. log[x].call \in 1..(x-1)
          BY <2>1, <5>1, CallSeen
        <5>3. log[y].call \in 1..(y-1)
          BY <2>2, <5>1, CallSeen
        <5> QED BY <5>1, <5>2, <5>3
      <4>2. log[x].call # NoCall /\ log[y].call # NoCall /\ log[x].call # x /\ log[y].call # y
        BY <1>4, <4>1 DEF NoCall
      <4>3. ~(x < y) /\ ~(y < x)
        <5>1. CallsFit(log)
          BY DEF TurnInv, ConvInv, Logged
        <5> QED BY <2>1, <2>2, <4>1, <4>2, <5>1 DEF CallsFit
      <4> QED BY <1>4, <4>3
    <3> QED BY <1>5, <3>1, <3>2
  <2> QED BY <1>4, <2>3
<1>6. ASSUME NEW i \in DOMAIN s, NEW j \in DOMAIN s, s[i].kind = "call", s[j].kind = "output", s[j].call = s[i].call
      PROVE  i < j
  <2>1. PICK x \in s[i].ids : x \in DOMAIN log /\ x \in SeenBy(v) /\ log[x].kind = s[i].kind /\ log[x].call = s[i].call
    BY <1>2, <1>6
  <2>2. PICK y \in s[j].ids : y \in DOMAIN log /\ y \in SeenBy(v) /\ log[y].kind = s[j].kind /\ log[y].call = s[j].call
    BY <1>2, <1>6
  <2>3. log[y].kind = "output" /\ log[x].kind = "call" /\ log[y].call = log[x].call
    BY <1>6, <2>1, <2>2
  <2>4. log[x].call = x
    BY <2>1, <2>3 DEF TurnInv, AnswersFit
  <2>5. log[y].call \in 1..(y-1)
    BY <2>2, <2>3, CallSeen
  <2>6. x < y
    BY <1>4, <2>3, <2>4, <2>5
  <2>7. ~(j < i) /\ i # j
    BY <1>4, <1>6, <2>6
  <2> QED BY <1>3, <2>7
<1> QED BY <1>5, <1>6 DEF Threaded, s

(* Each output that is shown has its call shown: a summary covers neither   *)
(* or both.                                                                 *)
LEMMA OutputsCalled ==
  ASSUME TurnInv, NEW v \in Agents
  PROVE  CallsOf(Projection(v), "output") \subseteq CallsOf(Projection(v), "call")
<1> DEFINE s == Projection(v)
<1>1. Lists(s, SeenBy(v))
  BY ProjectionLists DEF TurnInv
<1>2. \A i \in DOMAIN s : s[i].kind \in {"call", "output"} =>
        \E x \in s[i].ids : /\ x \in DOMAIN log /\ x \in SeenBy(v) /\ log[x].kind = s[i].kind /\ log[x].call = s[i].call
  BY CallShown
<1>3. \A i \in DOMAIN s : \A x \in s[i].ids :
         \/ s[i].kind = "summary" /\ s[i].ids = row[v].covers
         \/ s[i].kind # "summary" /\ Tag(log[x]) = Tag(s[i])
  BY ShownAs
<1> HIDE DEF s
<1> SUFFICES ASSUME NEW c \in CallsOf(s, "output") PROVE c \in CallsOf(s, "call")
  BY DEF s
<1>4. PICK j \in DOMAIN s : s[j].kind = "output" /\ s[j].call = c
  BY CallsAre
<1>5. PICK y \in s[j].ids : y \in DOMAIN log /\ y \in SeenBy(v) /\ log[y].kind = "output" /\ log[y].call = c
  BY <1>2, <1>4
<1>6. c \in SeenBy(v) /\ c \in DOMAIN log /\ log[c].kind = "call" /\ log[c].call = c
  BY <1>5, CallSeen
<1>7. PICK k \in DOMAIN s : c \in s[k].ids
  BY <1>1, <1>6 DEF Lists, IdsOf
<1>8. CASE s[k].kind = "summary" /\ s[k].ids = row[v].covers
  <2>1. y \in s[k].ids
    BY <1>5, <1>7, <1>8 DEF TurnInv, ConvInv, Unsplit
  <2>2. k = j
    <3>1. y \in Nat /\ k \in Nat /\ j \in Nat
      BY <1>1, <1>5 DEF Lists, IdsOf, Listed
    <3>2. (k < j => y < y) /\ (j < k => y < y)
      BY <1>1, <1>5, <2>1 DEF Lists
    <3> QED BY <3>1, <3>2
  <2> QED BY <1>4, <1>8, <2>2
<1>9. CASE s[k].kind # "summary" /\ Tag(log[c]) = Tag(s[k])
  <2>1. s[k].kind = "call" /\ s[k].call = c
    BY <1>6, <1>9, TagsAre
  <2> QED BY <2>1, CallsAre
<1> QED BY <1>3, <1>7, <1>8, <1>9

(* Before a model call, the newest item of the context is no summary.       *)
LEMMA NewestStands ==
  ASSUME TurnInv, NEW v \in Agents, At(v, "model")
  PROVE  Len(Projection(v)) # 0 /\ Projection(v)[Len(Projection(v))].kind # "summary"
<1> DEFINE s == Projection(v)
           m == Len(s)
<1>1. Lists(s, SeenBy(v))
  BY ProjectionLists DEF TurnInv
<1>2. \A i \in DOMAIN s : \A x \in s[i].ids :
         \/ s[i].kind = "summary" /\ s[i].ids = row[v].covers
         \/ s[i].kind # "summary" /\ Tag(log[x]) = Tag(s[i])
  BY ShownAs
<1> HIDE DEF s
<1>3. PICK z \in SeenBy(v) : z > row[v].end
  BY DEF TurnInv, Waits
<1>4. PICK k \in DOMAIN s : z \in s[k].ids
  BY <1>1, <1>3 DEF Lists, IdsOf
<1>5. m \in Nat /\ DOMAIN s = 1..m
  BY <1>1 DEF Lists, Listed
<1> HIDE DEF m
<1>6. m # 0 /\ m \in DOMAIN s /\ k <= m
  BY <1>4, <1>5
<1>7. PICK x : x \in s[m].ids
  BY <1>1, <1>6 DEF Lists
<1>8. s[m].kind # "summary"
  <2> SUFFICES ASSUME s[m].kind = "summary" PROVE FALSE
    OBVIOUS
  <2>1. s[m].ids = row[v].covers
    BY <1>2, <1>6, <1>7
  <2>2. \A y \in row[v].covers : y <= row[v].end
    BY DEF TurnInv, ConvInv, RowFits
  <2>3. x <= row[v].end /\ z \notin s[m].ids
    <3>1. z \in Nat /\ row[v].end \in Nat
      <4>1. Len(log) \in Nat
        BY DEF TurnInv, ConvInv, Logged
      <4> QED BY <1>1, <4>1 DEF Lists, TurnInv, ConvInv, RowFits
    <3> QED BY <1>3, <1>7, <2>1, <2>2, <3>1
  <2>4. k < m
    BY <1>4, <1>5, <1>6, <2>3
  <2>5. z < x
    BY <1>1, <1>4, <1>6, <1>7, <2>4 DEF Lists
  <2>6. x \in Nat /\ z \in Nat /\ row[v].end \in Nat
    <3>1. Len(log) \in Nat
      BY DEF TurnInv, ConvInv, Logged
    <3>2. x \in Nat
      BY <1>1, <1>6, <1>7 DEF Lists, IdsOf
    <3> QED BY <1>1, <3>1, <3>2 DEF Lists, TurnInv, ConvInv, RowFits
  <2> QED BY <1>3, <2>3, <2>5, <2>6
<1> QED BY <1>6, <1>8 DEF s, m

(* What a provider is given is paired, and when context must be left out    *)
(* the newest item stays - the message of the user or the tool result the   *)
(* model waits for: whatever was stored, summarized or broken off before    *)
(* (_prune_items_to_budget, _drop_orphan_tool_items,                        *)
(* ToolTransactionNormalizer).                                              *)
THEOREM SubmittedStaysSound == Spec => []SubmittedIsSound
<1>1. ASSUME TurnInv PROVE SubmittedIsSound
  <2> SUFFICES ASSUME NEW v \in Agents, constrain_model_input(Projection(v), Instructions, Budget).ok
               PROVE  LET seen == Projection(v)
                          s    == normalize(constrain_model_input(seen, Instructions, Budget).items)
                      IN  /\ Paired(s)
                          /\ At(v, "model") /\ CallsOf(seen, "call") \subseteq CallsOf(seen, "output")
                             => seen[Len(seen)].ids \subseteq IdsOf(s)
    BY DEF SubmittedIsSound
  <2> DEFINE seen == Projection(v)
             s    == normalize(constrain_model_input(seen, Instructions, Budget).items)
  <2>1. Listed(seen)
    BY <1>1, ProjectionLists DEF TurnInv, Lists
  <2>2. constrain_model_input(seen, Instructions, Budget).ok
    OBVIOUS
  <2>3. Threaded(seen)
    BY <1>1, SeenThreaded
  <2>4. CallsOf(seen, "output") \subseteq CallsOf(seen, "call")
    BY <1>1, OutputsCalled
  <2>5. At(v, "model") => Len(seen) # 0 /\ seen[Len(seen)].kind # "summary"
    BY <1>1, NewestStands
  <2> HIDE DEF seen
  <2>6. Paired(s)
    BY <2>1, <2>2, SubmittedKeeps
  <2>7. Threaded(seen) /\ Whole(seen) /\ Len(seen) # 0 /\ seen[Len(seen)].kind # "summary" => seen[Len(seen)].ids \subseteq IdsOf(s)
    BY <2>1, <2>2, SubmittedKeeps
  <2> HIDE DEF s
  <2>8. At(v, "model") /\ CallsOf(seen, "call") \subseteq CallsOf(seen, "output") => seen[Len(seen)].ids \subseteq IdsOf(s)
    BY <2>3, <2>4, <2>5, <2>7 DEF Whole
  <2> QED BY <2>6, <2>8 DEF s, seen
<1> QED BY <1>1, TurnHolds, PTL

-----------------------------------------------------------------------------
(* Events and their keys. *)

SegKeys    == {"seg"} \X Nat \X Nat
CallKeys   == {"call"} \X Nat \X Calls
ResultKeys == {"result"} \X Nat \X Calls
TaskKeys   == {"task"} \X Nat \X {1}
PlainKeys  == CallKeys \cup ResultKeys \cup TaskKeys

SegEvents   == [k : SegKeys, st : {"open", "complete"}, n : Nat]
PlainEvents == [k : PlainKeys, st : {"plain"}, n : Nat]
KeyedEvents == SegEvents \cup PlainEvents
Publishable == KeyedEvents \cup {Done, Error}
Events      == Publishable \cup {Run, Idle}

LEMMA KeyNames ==
  /\ \A k \in SegKeys : k[1] = "seg"
  /\ \A k \in CallKeys : k[1] = "call"
  /\ \A k \in ResultKeys : k[1] = "result"
  /\ \A k \in TaskKeys : k[1] = "task"
BY DEF SegKeys, CallKeys, ResultKeys, TaskKeys

(* What tells an event that is replaced by key from the others.             *)
LEMMA KeyFacts ==
  ASSUME NEW e \in Events
  PROVE  /\ e \in KeyedEvents <=> e.k[1] \in Keyed
         /\ IsRun(e) <=> e \in {Run, Idle}
         /\ e \in Publishable => ~IsRun(e)
         /\ e \in SegEvents <=> e.k[1] = "seg"
         /\ e \in SegEvents <=> e.k \in SegKeys
         /\ e \in PlainEvents => e.st = "plain" /\ e.k \in PlainKeys
         /\ e \in SegEvents => e.st \in {"open", "complete"} /\ e.n \in Nat
         /\ e \notin SegEvents => e.st = "plain"
<1>1. CASE e \in SegEvents
  <2>1. e.k \in SegKeys /\ e.k[1] = "seg" /\ e.st \in {"open", "complete"} /\ e.n \in Nat
    BY <1>1, KeyNames DEF SegEvents
  <2>2. e \notin {Run, Idle, Done, Error}
    BY <2>1 DEF Run, Idle, Done, Error, Ev
  <2>3. e \notin PlainEvents
    BY <2>1 DEF PlainEvents
  <2>4. e.k[1] \in Keyed /\ e.k[1] # "run"
    BY <2>1 DEF Keyed
  <2> QED BY <1>1, <2>1, <2>2, <2>3, <2>4 DEF IsRun, KeyedEvents
<1>2. CASE e \in PlainEvents
  <2>1. e.k \in PlainKeys /\ e.k[1] \in {"call", "result", "task"} /\ e.st = "plain"
    BY <1>2, KeyNames DEF PlainEvents, PlainKeys
  <2>2. e \notin {Run, Idle, Done, Error}
    BY <2>1 DEF Run, Idle, Done, Error, Ev
  <2>3. e \notin SegEvents
    BY <2>1 DEF SegEvents
  <2>4. e.k[1] \in Keyed /\ e.k[1] # "run" /\ e.k[1] # "seg"
    BY <2>1 DEF Keyed
  <2>5. e.k \notin SegKeys
    BY <2>4, KeyNames
  <2> QED BY <1>2, <2>1, <2>2, <2>3, <2>4, <2>5 DEF IsRun, KeyedEvents
<1>3. CASE e \in {Run, Idle, Done, Error}
  <2>1. e.k[1] \in {"run", "done", "error"} /\ e.st = "plain" /\ (e.k[1] = "run" <=> e \in {Run, Idle})
    BY <1>3 DEF Run, Idle, Done, Error, Ev
  <2>2. e.k[1] \notin Keyed /\ e.k[1] # "seg"
    BY <2>1 DEF Keyed
  <2>3. e.k \notin SegKeys /\ e.k \notin PlainKeys
    BY <2>1, <2>2, KeyNames DEF PlainKeys, Keyed
  <2>4. e \notin SegEvents /\ e \notin PlainEvents
    BY <2>3 DEF SegEvents, PlainEvents
  <2>5. e \in Publishable => e \notin {Run, Idle}
    BY <2>1, <2>4, <1>3 DEF Publishable, KeyedEvents, Run, Idle, Done, Error, Ev
  <2> QED BY <1>3, <2>1, <2>2, <2>3, <2>4, <2>5 DEF IsRun, KeyedEvents
<1> QED BY <1>1, <1>2, <1>3 DEF Events, Publishable, KeyedEvents

-----------------------------------------------------------------------------
(* The projection. *)

In(l, x) == \E i \in DOMAIN l.ev : l.ev[i] = x

(* Each keyed event is there once, and the index is that of what may be     *)
(* replaced.                                                                *)
Once(evs) == \A i, j \in DOMAIN evs : evs[i] \in KeyedEvents /\ evs[i].k = evs[j].k => i = j

IndexFits(l) ==
  /\ \A i \in DOMAIN l.ev : Indexed(l.ev[i]) => l.ev[i].k \in DOMAIN l.idx
  /\ \A k \in DOMAIN l.idx : l.idx[k] \in DOMAIN l.ev /\ l.ev[l.idx[k]].k = k /\ Indexed(l.ev[l.idx[k]])

LiveFits(l) ==
  /\ l = [ev |-> l.ev, idx |-> l.idx]
  /\ l.ev \in Seq(Events)
  /\ Once(l.ev)
  /\ IndexFits(l)

(* An event may be published when it is new, or replaces one that is not    *)
(* complete.                                                                *)
Fresh(l, e) == \A x \in KeyedEvents : In(l, x) /\ x.k = e.k => x.st # "complete"

(* What is shown after it.                                                  *)
Puts(l, e, new) == \A x \in KeyedEvents : In(new, x) <=> x = e \/ (In(l, x) /\ x.k # e.k)

LEMMA RebuildFits ==
  ASSUME NEW evs \in Seq(Events), Once(evs)
  PROVE  LiveFits([ev |-> evs, idx |-> rebuild_indexes(evs)])
<1> DEFINE idx == rebuild_indexes(evs)
           l == [ev |-> evs, idx |-> idx]
<1>1. DOMAIN idx = {evs[i].k : i \in {j \in DOMAIN evs : Indexed(evs[j])}}
  BY DEF rebuild_indexes
<1>2. ASSUME NEW k \in DOMAIN idx PROVE idx[k] \in DOMAIN evs /\ evs[idx[k]].k = k /\ Indexed(evs[idx[k]])
  <2> DEFINE at == {i \in DOMAIN evs : evs[i].k = k /\ Indexed(evs[i])}
  <2>1. PICK i \in DOMAIN evs : Indexed(evs[i]) /\ evs[i].k = k
    BY <1>1, <1>2
  <2>2. evs[i] \in KeyedEvents
    BY <2>1, KeyFacts DEF Indexed
  <2>3. \A j \in at : j = i
    BY <2>1, <2>2 DEF Once
  <2>4. i \in at /\ i <= i
    BY <2>1
  <2>5. idx[k] = CHOOSE m \in at : \A j \in at : j <= m
    BY <1>1, <1>2 DEF rebuild_indexes
  <2> HIDE DEF at
  <2>6. idx[k] \in at
    BY <2>3, <2>4, <2>5
  <2> QED BY <2>6 DEF at
<1> HIDE DEF idx
<1>3. IndexFits(l)
  BY <1>1, <1>2 DEF IndexFits
<1>4. l.ev = evs /\ l.idx = idx /\ l = [ev |-> l.ev, idx |-> l.idx]
  OBVIOUS
<1> HIDE DEF l
<1>5. LiveFits(l)
  BY <1>3, <1>4 DEF LiveFits
<1> QED BY <1>5 DEF l, idx

LEMMA ApplyPuts ==
  ASSUME NEW l, LiveFits(l), NEW e \in Publishable, Fresh(l, e)
  PROVE  LiveFits(apply(l, e)) /\ Puts(l, e, apply(l, e)) /\ In(apply(l, e), e)
<1> DEFINE new == apply(l, e)
           app == Append(l.ev, e)
           put == [l.ev EXCEPT ![l.idx[e.k]] = e]
<1>0. /\ e \in Events /\ l.ev \in Seq(Events) /\ ~IsRun(e) /\ (e \in KeyedEvents <=> e.k[1] \in Keyed)
      /\ e.st = "complete" => e \in KeyedEvents
      /\ \A i \in DOMAIN l.ev : l.ev[i] \in Events /\ (l.ev[i] \in KeyedEvents <=> l.ev[i].k[1] \in Keyed)
  <2>1. e \in Events /\ l.ev \in Seq(Events) /\ \A i \in DOMAIN l.ev : l.ev[i] \in Events
    BY DEF LiveFits, Events
  <2>2. \A x \in Events : (x \in KeyedEvents <=> x.k[1] \in Keyed) /\ (x.st = "complete" => x \in KeyedEvents)
    BY KeyFacts DEF KeyedEvents
  <2>3. ~IsRun(e)
    BY <2>1, KeyFacts
  <2> QED BY <2>1, <2>2, <2>3
<1>1. /\ Len(app) = Len(l.ev) + 1 /\ app \in Seq(Events) /\ DOMAIN app = DOMAIN l.ev \cup {Len(l.ev) + 1}
      /\ app[Len(l.ev) + 1] = e /\ \A i \in DOMAIN l.ev : app[i] = l.ev[i]
      /\ Len(l.ev) + 1 \notin DOMAIN l.ev
  BY <1>0
<1>2. ASSUME e.k \in DOMAIN l.idx
      PROVE  /\ l.idx[e.k] \in DOMAIN l.ev /\ l.ev[l.idx[e.k]].k = e.k /\ l.ev[l.idx[e.k]] \in KeyedEvents
             /\ put \in Seq(Events) /\ DOMAIN put = DOMAIN l.ev /\ put[l.idx[e.k]] = e
             /\ \A i \in DOMAIN l.ev : i # l.idx[e.k] => put[i] = l.ev[i] /\ l.ev[i].k # e.k
  <2>1. l.idx[e.k] \in DOMAIN l.ev /\ l.ev[l.idx[e.k]].k = e.k /\ l.ev[l.idx[e.k]] \in KeyedEvents
    BY <1>0, <1>2 DEF LiveFits, IndexFits, Indexed
  <2>2. put \in Seq(Events) /\ DOMAIN put = DOMAIN l.ev /\ put[l.idx[e.k]] = e
        /\ \A i \in DOMAIN l.ev : i # l.idx[e.k] => put[i] = l.ev[i]
    BY <1>0, <2>1
  <2>3. \A i \in DOMAIN l.ev : i # l.idx[e.k] => l.ev[i].k # e.k
    BY <2>1 DEF LiveFits, Once
  <2> QED BY <2>1, <2>2, <2>3
<1>3. ASSUME e.k \notin DOMAIN l.idx, e \in KeyedEvents PROVE \A i \in DOMAIN l.ev : l.ev[i].k # e.k
  <2> SUFFICES ASSUME NEW i \in DOMAIN l.ev, l.ev[i].k = e.k PROVE FALSE
    OBVIOUS
  <2>1. l.ev[i] \in KeyedEvents
    BY <1>0, <1>3
  <2>2. In(l, l.ev[i])
    BY DEF In
  <2>3. l.ev[i].st # "complete"
    BY <2>1, <2>2 DEF Fresh
  <2>4. Indexed(l.ev[i])
    BY <1>0, <2>1, <2>3 DEF Indexed
  <2> QED BY <1>3, <2>4 DEF LiveFits, IndexFits
<1> HIDE DEF app, put
<1>4. ASSUME e.k \in DOMAIN l.idx, new.ev = put PROVE Once(new.ev) /\ Puts(l, e, new) /\ In(new, e)
  <2>1. Once(put)
    BY <1>2, <1>4 DEF LiveFits, Once
  <2>2. Puts(l, e, new)
    BY <1>2, <1>4 DEF Puts, In
  <2>3. In(new, e)
    BY <1>2, <1>4 DEF In
  <2> QED BY <1>4, <2>1, <2>2, <2>3
<1>5. ASSUME e \in KeyedEvents => e.k \notin DOMAIN l.idx, new.ev = app PROVE Once(new.ev) /\ Puts(l, e, new) /\ In(new, e)
  <2>0. \A i \in DOMAIN l.ev : l.ev[i] \in KeyedEvents \/ e \in KeyedEvents => l.ev[i].k # e.k
    BY <1>0, <1>3, <1>5
  <2>1. Once(app)
    BY <1>1, <1>5, <2>0 DEF LiveFits, Once
  <2>2. Puts(l, e, new)
    BY <1>1, <1>5, <2>0 DEF Puts, In
  <2>3. In(new, e)
    BY <1>1, <1>5 DEF In
  <2> QED BY <1>5, <2>1, <2>2, <2>3
<1>6. CASE e \notin KeyedEvents
  <2>1. new = [l EXCEPT !.ev = app]
    BY <1>0, <1>6 DEF apply, app, Keyed
  <2>2. new.ev = app /\ new.idx = l.idx /\ new = [ev |-> app, idx |-> l.idx]
    BY <2>1 DEF LiveFits
  <2>3. ~Indexed(e)
    BY <1>0, <1>6 DEF Indexed
  <2>4. IndexFits(new)
    BY <1>1, <2>2, <2>3 DEF LiveFits, IndexFits
  <2> QED BY <1>1, <1>5, <1>6, <2>2, <2>4 DEF LiveFits
<1>7. CASE e \in KeyedEvents /\ e.st = "complete" /\ e.k[1] = "seg"
  <2>1. new = apply_segment_complete(l, e)
    BY <1>0, <1>7 DEF apply
  <2>2. CASE e.k \notin DOMAIN l.idx
    <3>1. new = [l EXCEPT !.ev = app]
      BY <2>1, <2>2 DEF apply_segment_complete, app
    <3>2. new.ev = app /\ new.idx = l.idx /\ new = [ev |-> app, idx |-> l.idx]
      BY <3>1 DEF LiveFits
    <3>3. ~Indexed(e)
      BY <1>7 DEF Indexed
    <3>4. IndexFits(new)
      BY <1>1, <3>2, <3>3 DEF LiveFits, IndexFits
    <3> QED BY <1>1, <1>5, <2>2, <3>2, <3>4 DEF LiveFits
  <2>3. CASE e.k \in DOMAIN l.idx
    <3>1. new = [ev |-> put, idx |-> rebuild_indexes(put)]
      BY <2>1, <2>3 DEF apply_segment_complete, put
    <3>2. Once(put) /\ Puts(l, e, new) /\ In(new, e)
      BY <1>4, <2>3, <3>1
    <3> QED BY <1>2, <2>3, <3>1, <3>2, RebuildFits
  <2> QED BY <2>2, <2>3
<1>8. CASE e \in KeyedEvents /\ e.st # "complete"
  <2>1. new = apply_keyed(l, e) /\ Indexed(e)
    BY <1>0, <1>8 DEF apply, Indexed
  <2>2. CASE e.k \in DOMAIN l.idx
    <3>1. new = [l EXCEPT !.ev[l.idx[e.k]] = e]
      BY <2>1, <2>2 DEF apply_keyed
    <3>2. new.ev = put /\ new.idx = l.idx /\ new = [ev |-> put, idx |-> l.idx]
      BY <3>1 DEF LiveFits, put
    <3>3. IndexFits(new)
      BY <1>2, <2>1, <2>2, <3>2 DEF LiveFits, IndexFits
    <3> QED BY <1>2, <1>4, <2>2, <3>2, <3>3 DEF LiveFits
  <2>3. CASE e.k \notin DOMAIN l.idx
    <3>1. new = [ev |-> app, idx |-> With(l.idx, e.k, Len(l.ev) + 1)]
      BY <2>1, <2>3 DEF apply_keyed, app
    <3>2. DOMAIN new.idx = DOMAIN l.idx \cup {e.k} /\ new.idx[e.k] = Len(l.ev) + 1
          /\ \A k \in DOMAIN l.idx : new.idx[k] = l.idx[k]
      BY <2>3, <3>1 DEF With
    <3>3. IndexFits(new)
      BY <1>1, <2>1, <3>1, <3>2 DEF LiveFits, IndexFits
    <3> QED BY <1>1, <1>5, <2>3, <3>1, <3>3 DEF LiveFits
  <2> QED BY <2>2, <2>3
<1>9. e \in KeyedEvents /\ e.st = "complete" => e.k[1] = "seg"
  BY <1>0, KeyFacts
<1> QED BY <1>6, <1>7, <1>8, <1>9

-----------------------------------------------------------------------------
(* The client: each event of the projection reaches it, by the queue or     *)
(* because it has been shown.                                               *)

Reaches(c, x) ==
  \/ \E i \in DOMAIN c.q : c.q[i] = x /\ \A j \in DOMAIN c.q : j > i => c.q[j].k # x.k
  \/ /\ x.k \in DOMAIN c.seen /\ c.seen[x.k] = x
     /\ \A j \in DOMAIN c.q : c.q[j].k # x.k

ClientFits(c, l) ==
  /\ c = [on |-> c.on, q |-> c.q, seen |-> c.seen] /\ c.on \in BOOLEAN
  /\ c.q \in Seq(Events)
  /\ c.on => \A x \in KeyedEvents : In(l, x) => Reaches(c, x)

(* The whole projection in the queue reaches the client.                    *)
LEMMA AllReach ==
  ASSUME NEW l, LiveFits(l), NEW c, c.q = l.ev, NEW x \in KeyedEvents, In(l, x)
  PROVE  Reaches(c, x)
<1>1. PICK i \in DOMAIN l.ev : l.ev[i] = x
  BY DEF In
<1>2. \A j \in DOMAIN l.ev : l.ev[j].k = x.k => j = i
  BY <1>1 DEF LiveFits, Once
<1>3. l.ev \in Seq(Events) /\ i \in Nat
  BY <1>1 DEF LiveFits
<1>4. \A j \in DOMAIN l.ev : j > i => l.ev[j].k # x.k
  BY <1>2, <1>3
<1> QED BY <1>1, <1>4 DEF Reaches

LEMMA EnqueueFits ==
  ASSUME NEW l, LiveFits(l), NEW e \in Publishable, Fresh(l, e), NEW c, ClientFits(c, l)
  PROVE  ClientFits(enqueue_or_rebase(c, apply(l, e), e), apply(l, e))
<1> DEFINE new == apply(l, e)
           d == enqueue_or_rebase(c, new, e)
<1>1. LiveFits(new) /\ Puts(l, e, new)
  BY ApplyPuts
<1>2. e \in Events /\ e # Idle
  <2>1. Idle \in Events /\ IsRun(Idle)
    BY DEF Events, Idle, Ev, IsRun
  <2> QED BY <2>1, KeyFacts DEF Events
<1> HIDE DEF new
<1>3. CASE ~c.on
  <2>1. d = c
    BY <1>3 DEF enqueue_or_rebase
  <2> QED BY <1>3, <2>1 DEF ClientFits, new
<1>4. CASE c.on /\ Len(c.q) < Rebase
  <2>1. d = [c EXCEPT !.q = Append(@, e)]
    BY <1>4 DEF enqueue_or_rebase
  <2>2. d = [on |-> c.on, q |-> Append(c.q, e), seen |-> c.seen]
    BY <2>1 DEF ClientFits
  <2>3. d.on = c.on /\ d.seen = c.seen /\ d.q = Append(c.q, e) /\ d = [on |-> d.on, q |-> d.q, seen |-> d.seen]
    BY <2>2
  <2> HIDE DEF d
  <2>4. /\ c.q \in Seq(Events) /\ d.q \in Seq(Events) /\ Len(c.q) \in Nat /\ d.q[Len(c.q) + 1] = e
        /\ DOMAIN c.q = 1..Len(c.q) /\ DOMAIN d.q = 1..(Len(c.q) + 1)
        /\ \A i \in DOMAIN c.q : d.q[i] = c.q[i]
    BY <2>3, <1>2 DEF ClientFits
  <2>5. ASSUME NEW x \in KeyedEvents, In(new, x) PROVE Reaches(d, x)
    <3>1. CASE x = e
      BY <2>4, <3>1 DEF Reaches
    <3>2. CASE In(l, x) /\ x.k # e.k
      <4>1. Reaches(c, x)
        BY <1>4, <3>2 DEF ClientFits
      <4>2. ASSUME NEW j \in DOMAIN d.q PROVE j \in DOMAIN c.q \/ d.q[j].k # x.k
        BY <2>4, <3>2
      <4>3. CASE \E i \in DOMAIN c.q : c.q[i] = x /\ \A j \in DOMAIN c.q : j > i => c.q[j].k # x.k
        <5>1. PICK i \in DOMAIN c.q : c.q[i] = x /\ \A j \in DOMAIN c.q : j > i => c.q[j].k # x.k
          BY <4>3
        <5>2. i \in DOMAIN d.q /\ d.q[i] = x
          BY <5>1, <2>4
        <5>3. \A j \in DOMAIN d.q : j > i => d.q[j].k # x.k
          BY <5>1, <4>2, <2>4
        <5> QED BY <5>2, <5>3 DEF Reaches
      <4>4. CASE x.k \in DOMAIN c.seen /\ c.seen[x.k] = x /\ \A j \in DOMAIN c.q : c.q[j].k # x.k
        <5>1. \A j \in DOMAIN d.q : d.q[j].k # x.k
          BY <4>2, <4>4, <2>4
        <5> QED BY <5>1, <4>4, <2>3 DEF Reaches
      <4> QED BY <4>1, <4>3, <4>4 DEF Reaches
    <3> QED BY <2>5, <1>1, <3>1, <3>2 DEF Puts
  <2>6. ClientFits(d, new)
    BY <2>3, <2>4, <2>5, <1>4 DEF ClientFits
  <2> QED BY <2>6 DEF d, new
<1>5. CASE c.on /\ ~(Len(c.q) < Rebase)
  <2>1. d = [c EXCEPT !.q = new.ev]
    BY <1>5, <1>2 DEF enqueue_or_rebase
  <2>2. d = [on |-> c.on, q |-> new.ev, seen |-> c.seen]
    BY <2>1 DEF ClientFits
  <2>3. d.on = c.on /\ d.q = new.ev /\ d = [on |-> d.on, q |-> d.q, seen |-> d.seen]
    BY <2>2
  <2> HIDE DEF d
  <2>4. \A x \in KeyedEvents : In(new, x) => Reaches(d, x)
    BY <2>3, <1>1, AllReach
  <2>5. ClientFits(d, new)
    BY <2>3, <2>4, <1>1, <1>5 DEF ClientFits, LiveFits
  <2> QED BY <2>5 DEF d, new
<1> QED BY <1>3, <1>4, <1>5 DEF ClientFits

(* The client takes the first event of its queue.                           *)
LEMMA ReadFits ==
  ASSUME ClientFits(cli, live), client_reads
  PROVE  ClientFits(cli', live')
<1> DEFINE e == cli.q[1]
           q == Tail(cli.q)
<1>1. /\ cli.on /\ cli.q # <<>> /\ live' = live
      /\ cli' = [cli EXCEPT !.q = q, !.seen = IF e.k[1] \in Keyed THEN With(cli.seen, e.k, e) ELSE cli.seen]
  BY DEF client_reads
<1>2. /\ cli.q \in Seq(Events) /\ q \in Seq(Events) /\ e \in Events /\ Len(q) = Len(cli.q) - 1
      /\ \A i \in DOMAIN q : i + 1 \in DOMAIN cli.q /\ q[i] = cli.q[i + 1]
      /\ DOMAIN q = 1..(Len(cli.q) - 1) /\ DOMAIN cli.q = 1..Len(cli.q) /\ Len(cli.q) \in Nat /\ Len(cli.q) > 0
  BY <1>1 DEF ClientFits
<1>3. /\ cli'.on = cli.on /\ cli'.q = q /\ cli' = [on |-> cli'.on, q |-> cli'.q, seen |-> cli'.seen]
      /\ cli'.seen = IF e.k[1] \in Keyed THEN With(cli.seen, e.k, e) ELSE cli.seen
  BY <1>1 DEF ClientFits
<1> HIDE DEF q
<1>4. ASSUME NEW x \in KeyedEvents, In(live, x) PROVE Reaches(cli', x)
  <2>1. Reaches(cli, x)
    BY <1>1, <1>4 DEF ClientFits
  <2>2. x.k[1] \in Keyed
    BY KeyFacts DEF Events, Publishable
  <2>3. CASE \E i \in DOMAIN cli.q : cli.q[i] = x /\ \A j \in DOMAIN cli.q : j > i => cli.q[j].k # x.k
    <3>1. PICK i \in DOMAIN cli.q : cli.q[i] = x /\ \A j \in DOMAIN cli.q : j > i => cli.q[j].k # x.k
      BY <2>3
    <3>2. CASE i = 1
      <4>1. e = x /\ cli'.seen = With(cli.seen, x.k, x)
        BY <3>1, <3>2, <2>2, <1>3
      <4>2. x.k \in DOMAIN cli'.seen /\ cli'.seen[x.k] = x
        BY <4>1 DEF With
      <4>3. \A j \in DOMAIN q : q[j].k # x.k
        <5> SUFFICES ASSUME NEW j \in DOMAIN q PROVE q[j].k # x.k
          OBVIOUS
        <5>1. j + 1 > i /\ j + 1 \in DOMAIN cli.q /\ q[j] = cli.q[j + 1]
          BY <1>2, <3>2
        <5> QED BY <5>1, <3>1
      <4> QED BY <4>2, <4>3, <1>3 DEF Reaches
    <3>3. CASE i # 1
      <4>1. i - 1 \in DOMAIN q /\ q[i - 1] = x
        BY <1>2, <3>1, <3>3
      <4>2. \A j \in DOMAIN q : j > i - 1 => q[j].k # x.k
        <5> SUFFICES ASSUME NEW j \in DOMAIN q, j > i - 1 PROVE q[j].k # x.k
          OBVIOUS
        <5>1. j + 1 > i /\ j + 1 \in DOMAIN cli.q /\ q[j] = cli.q[j + 1]
          BY <1>2, <3>1
        <5> QED BY <5>1, <3>1
      <4> QED BY <4>1, <4>2, <1>3 DEF Reaches
    <3> QED BY <3>2, <3>3
  <2>4. CASE x.k \in DOMAIN cli.seen /\ cli.seen[x.k] = x /\ \A j \in DOMAIN cli.q : cli.q[j].k # x.k
    <3>1. e.k # x.k
      BY <1>2, <2>4
    <3>2. x.k \in DOMAIN cli'.seen /\ cli'.seen[x.k] = x
      BY <1>3, <2>4, <3>1 DEF With
    <3>3. \A j \in DOMAIN q : q[j].k # x.k
      BY <1>2, <2>4
    <3> QED BY <3>2, <3>3, <1>3 DEF Reaches
  <2> QED BY <2>1, <2>3, <2>4 DEF Reaches
<1> QED BY <1>1, <1>2, <1>3, <1>4 DEF ClientFits

-----------------------------------------------------------------------------
(* Publishing a sequence of events.                                         *)

(* publish goes through the events one by one.                              *)
LEMMA PublishUnfolds ==
  ASSUME NEW evs \in Seq(Publishable), publish(evs)
  PROVE  \E f : /\ f[0] = [live |-> live, cli |-> cli]
                /\ \A i \in 1..Len(evs) : f[i] = Step(f[i-1], evs[i])
                /\ live' = f[Len(evs)].live /\ cli' = f[Len(evs)].cli
<1> DEFINE start == [live |-> live, cli |-> cli]
           Fits(n, f) == f = [i \in 0..n |-> IF i = 0 THEN start ELSE Step(f[i-1], evs[i])]
           S == {n \in 0..Len(evs) : \E f : Fits(n, f)}
<1>0. Len(evs) \in Nat
  OBVIOUS
<1>1. 0 \in S
  <2> DEFINE f == [i \in 0..0 |-> start]
  <2>1. Fits(0, f)
    OBVIOUS
  <2> HIDE DEF f, Fits
  <2> QED BY <2>1, <1>0
<1>2. ASSUME NEW n \in 0..Len(evs), n < Len(evs), n \in S PROVE n + 1 \in S
  <2>1. PICK f : Fits(n, f)
    BY <1>2
  <2> DEFINE g == [i \in 0..(n+1) |-> IF i = n + 1 THEN Step(f[n], evs[n+1]) ELSE f[i]]
             h == [i \in 0..(n+1) |-> IF i = 0 THEN start ELSE Step(g[i-1], evs[i])]
  <2>2. ASSUME NEW i \in 0..(n+1) PROVE g[i] = h[i]
    <3>1. CASE i = 0
      BY <2>1, <3>1, <1>0
    <3>2. CASE i = n + 1
      <4>1. i # 0 /\ i - 1 = n /\ n \in 0..(n+1) /\ n # n + 1
        BY <3>2
      <4>2. g[n] = f[n]
        BY <4>1
      <4> QED BY <3>2, <4>1, <4>2
    <3>3. CASE i # 0 /\ i # n + 1
      <4>1. i \in 0..n /\ i - 1 \in 0..(n+1) /\ i - 1 # n + 1 /\ i - 1 \in 0..n
        BY <3>3
      <4>2. f[i] = Step(f[i-1], evs[i])
        BY <2>1, <4>1, <3>3
      <4>3. g[i-1] = f[i-1] /\ g[i] = f[i]
        BY <4>1, <3>3
      <4> QED BY <4>2, <4>3, <3>3
    <3> QED BY <3>1, <3>2, <3>3
  <2>3. Fits(n + 1, g)
    <3>1. g = h
      BY <2>2
    <3> QED BY <3>1
  <2> HIDE DEF g, Fits
  <2>4. n + 1 \in 0..Len(evs)
    BY <1>0, <1>2
  <2> QED BY <2>3, <2>4
<1>3. Len(evs) \in S
  <2> HIDE DEF S
  <2>1. \A i \in 0..Len(evs) : i \in S
    BY <1>0, <1>1, <1>2, UpTo
  <2> QED BY <2>1, <1>0
<1> DEFINE at == CHOOSE at : at = [i \in 0..Len(evs) |-> IF i = 0 THEN [live |-> live, cli |-> cli] ELSE Step(at[i-1], evs[i])]
<1>4. \E f : f = [i \in 0..Len(evs) |-> IF i = 0 THEN [live |-> live, cli |-> cli] ELSE Step(f[i-1], evs[i])]
  BY <1>3
<1>5. at = [i \in 0..Len(evs) |-> IF i = 0 THEN [live |-> live, cli |-> cli] ELSE Step(at[i-1], evs[i])]
  BY <1>4, Zenon
<1>6. live' = at[Len(evs)].live /\ cli' = at[Len(evs)].cli
  BY Zenon DEF publish
<1> HIDE DEF at
<1>7. at[0] = [live |-> live, cli |-> cli] /\ \A i \in 1..Len(evs) : at[i] = Step(at[i-1], evs[i])
  <2> DEFINE body(i) == IF i = 0 THEN [live |-> live, cli |-> cli] ELSE Step(at[i-1], evs[i])
  <2>1. \A i \in 0..Len(evs) : at[i] = body(i)
    BY <1>5, Zenon
  <2>2. 0 \in 0..Len(evs) /\ \A i \in 1..Len(evs) : i \in 0..Len(evs) /\ i # 0
    BY <1>0
  <2> QED BY <2>1, <2>2
<1> QED BY <1>6, <1>7

(* What may be published: each event is new or replaces an open one, in the *)
(* projection and among those before it.                                    *)
Fits(evs, l) ==
  /\ evs \in Seq(Publishable)
  /\ \A i \in DOMAIN evs : evs[i] \in KeyedEvents =>
       /\ Fresh(l, evs[i])
       /\ \A j \in 1..(i-1) : evs[j].k = evs[i].k => evs[j].st # "complete"

(* What is there after the first n of them.                                 *)
There(evs, n, l, x) ==
  \/ \E j \in 1..n : evs[j] = x /\ \A m \in 1..n : m > j => evs[m].k # x.k
  \/ In(l, x) /\ \A j \in 1..n : evs[j].k # x.k

LEMMA PublishPuts ==
  ASSUME NEW evs, Fits(evs, live), publish(evs), LiveFits(live), ClientFits(cli, live)
  PROVE  /\ LiveFits(live') /\ ClientFits(cli', live')
         /\ \A x \in KeyedEvents : In(live', x) <=> There(evs, Len(evs), live, x)
<1>0. evs \in Seq(Publishable) /\ Len(evs) \in Nat /\ DOMAIN evs = 1..Len(evs)
  BY DEF Fits
<1>1. PICK f : /\ f[0] = [live |-> live, cli |-> cli]
               /\ \A i \in 1..Len(evs) : f[i] = Step(f[i-1], evs[i])
               /\ live' = f[Len(evs)].live /\ cli' = f[Len(evs)].cli
  BY <1>0, PublishUnfolds
<1> DEFINE S == {n \in 0..Len(evs) :
                   /\ LiveFits(f[n].live) /\ ClientFits(f[n].cli, f[n].live)
                   /\ \A x \in KeyedEvents : In(f[n].live, x) <=> There(evs, n, live, x)}
<1>2. 0 \in S
  <2>1. 0 \in 0..Len(evs) /\ f[0].live = live /\ f[0].cli = cli
    BY <1>0, <1>1
  <2>2. \A x \in KeyedEvents : In(live, x) <=> There(evs, 0, live, x)
    BY DEF There
  <2> QED BY <2>1, <2>2
<1>3. ASSUME NEW n \in 0..Len(evs), n < Len(evs), n \in S PROVE n + 1 \in S
  <2> DEFINE l == f[n].live
             c == f[n].cli
             e == evs[n+1]
             new == f[n+1].live
             d == f[n+1].cli
  <2>1. n + 1 \in 1..Len(evs) /\ (n + 1) - 1 = n /\ n + 1 \in 0..Len(evs) /\ n \in Nat
    BY <1>0, <1>3
  <2>2. new = apply(l, e) /\ d = enqueue_or_rebase(c, new, e)
    <3>1. f[n+1] = Step(f[n], e)
      BY <1>1, <2>1
    <3> HIDE DEF e
    <3>2. f[n+1] = [live |-> apply(l, e), cli |-> enqueue_or_rebase(c, apply(l, e), e)]
      BY <3>1 DEF Step
    <3> QED BY <3>2
  <2>3. LiveFits(l) /\ ClientFits(c, l) /\ \A x \in KeyedEvents : In(l, x) <=> There(evs, n, live, x)
    BY <1>3
  <2>4. e \in Publishable
    BY <1>0, <2>1
  <2> HIDE DEF S, l, c, new, d
  <2>5. Fresh(l, e)
    <3> SUFFICES ASSUME NEW x \in KeyedEvents, In(l, x), x.k = e.k PROVE x.st # "complete"
      BY DEF Fresh
    <3>1. e \in KeyedEvents
      <4>1. x.k[1] \in Keyed
        BY KeyFacts DEF Events, Publishable
      <4> QED BY <2>4, <4>1, KeyFacts DEF Events
    <3>2. Fresh(live, e) /\ \A j \in 1..n : evs[j].k = e.k => evs[j].st # "complete"
      BY <3>1, <2>1, <1>0 DEF Fits
    <3>3. There(evs, n, live, x)
      BY <2>3
    <3> QED BY <3>2, <3>3 DEF There, Fresh
  <2>6. LiveFits(new) /\ Puts(l, e, new)
    BY <2>2, <2>3, <2>4, <2>5, ApplyPuts
  <2>7. ClientFits(d, new)
    BY <2>2, <2>3, <2>4, <2>5, EnqueueFits
  <2>8. ASSUME NEW x \in KeyedEvents PROVE In(new, x) <=> There(evs, n + 1, live, x)
    <3>1. In(new, x) <=> x = e \/ (There(evs, n, live, x) /\ x.k # e.k)
      BY <2>3, <2>6 DEF Puts
    <3>2. 1..(n+1) = 1..n \cup {n+1} /\ \A j \in 1..n : n + 1 > j /\ ~(j > n + 1)
      BY <2>1
    <3>3. n + 1 \in 1..(n+1) /\ ~(n + 1 > n + 1)
      BY <2>1
    <3>4. x = e => There(evs, n + 1, live, x)
      BY <3>2, <3>3 DEF There
    <3>5. There(evs, n, live, x) /\ x.k # e.k => There(evs, n + 1, live, x)
      BY <3>2 DEF There
    <3>6. There(evs, n + 1, live, x) => x = e \/ (There(evs, n, live, x) /\ x.k # e.k)
      BY <3>2, <3>3 DEF There
    <3> QED BY <3>1, <3>4, <3>5, <3>6
  <2> QED BY <2>1, <2>6, <2>7, <2>8 DEF S, new, d
<1>4. Len(evs) \in S
  <2> HIDE DEF S
  <2>1. \A i \in 0..Len(evs) : i \in S
    BY <1>0, <1>2, <1>3, UpTo
  <2> QED BY <2>1, <1>0
<1> QED BY <1>1, <1>4

-----------------------------------------------------------------------------
(* The normalizer: the segments of a turn have each an id of their own.     *)

SegRecords == [id : Nat, n : Nat, complete : BOOLEAN]
Mark(complete) == IF complete THEN "complete" ELSE "open"

NormFits(nm) ==
  /\ nm = [resp |-> nm.resp, open |-> nm.open, next |-> nm.next, segs |-> nm.segs]
  /\ nm.resp \in Nat /\ nm.open \in BOOLEAN /\ nm.next \in Nat
  /\ nm.segs = [s \in DOMAIN nm.segs |-> nm.segs[s]]
  /\ \A s \in DOMAIN nm.segs :
       /\ nm.segs[s] \in SegRecords /\ nm.segs[s].n > 0 /\ nm.segs[s].id < nm.next
       /\ s \in Nat \X Kinds /\ s[1] <= nm.resp
  /\ \A s, t \in DOMAIN nm.segs : nm.segs[s].id = nm.segs[t].id => s = t

(* What is said of the segments when one of them, s, goes on or is new.     *)
GoesOn(nm, new, s) ==
  /\ s \in DOMAIN new.segs
  /\ \A t \in DOMAIN new.segs : t # s => t \in DOMAIN nm.segs /\ new.segs[t] = nm.segs[t]
  /\ \/ new.segs[s].id = nm.next
     \/ s \in DOMAIN nm.segs /\ nm.segs[s].id = new.segs[s].id /\ ~nm.segs[s].complete
  /\ new.next >= nm.next

LEMMA RespondingFits ==
  ASSUME NEW nm, NormFits(nm)
  PROVE  LET new == Responding(nm) IN
         /\ NormFits(new) /\ new.segs = nm.segs /\ new.next = nm.next
         /\ nm.open => new = nm
         /\ ~nm.open => \A kind \in Kinds : <<new.resp, kind>> \notin DOMAIN new.segs
<1> DEFINE new == Responding(nm)
<1>1. CASE nm.open
  BY <1>1 DEF Responding
<1>2. CASE ~nm.open
  <2>1. new = [nm EXCEPT !.resp = @ + 1, !.open = TRUE]
    BY <1>2 DEF Responding, BeginResponse
  <2>2. new = [resp |-> nm.resp + 1, open |-> TRUE, next |-> nm.next, segs |-> nm.segs]
    BY <2>1 DEF NormFits
  <2>3. new.resp = nm.resp + 1 /\ new.open = TRUE /\ new.next = nm.next /\ new.segs = nm.segs
    BY <2>2
  <2> HIDE DEF new
  <2>4. nm.resp \in Nat /\ new.resp \in Nat /\ \A s \in DOMAIN nm.segs : s \in Nat \X Kinds /\ s[1] <= nm.resp /\ s[1] <= new.resp
    BY <2>3 DEF NormFits
  <2>5. NormFits(new)
    BY <2>2, <2>3, <2>4 DEF NormFits
  <2>6. \A kind \in Kinds : <<new.resp, kind>> \notin DOMAIN new.segs
    BY <2>3, <2>4
  <2> QED BY <1>2, <2>3, <2>5, <2>6 DEF new
<1> QED BY <1>1, <1>2

(* One more delta, or the whole text, of a segment that is not complete.    *)
LEMMA SegmentFits ==
  ASSUME NEW nm, NormFits(nm), NEW kind \in Kinds, NEW complete \in BOOLEAN, NEW grow \in Nat \ {0},
         complete => ~(<<nm.resp, kind>> \in DOMAIN nm.segs /\ nm.segs[<<nm.resp, kind>>].complete)
  PROVE  LET k   == <<nm.resp, kind>>
             sd  == segment_id(nm, kind, complete)
             new == [sd EXCEPT !.segs[k].n = grow] IN
         /\ k = <<sd.resp, kind>> /\ sd.segs[k].n \in Nat
         /\ NormFits(new) /\ GoesOn(nm, new, k)
         /\ new.segs[k] = [id |-> sd.segs[k].id, n |-> grow, complete |-> complete]
<1> DEFINE k == <<nm.resp, kind>>
           sd == segment_id(nm, kind, complete)
           new == [sd EXCEPT !.segs[k].n = grow]
           isNew == k \notin DOMAIN nm.segs \/ (nm.segs[k].complete /\ ~complete)
           id == IF isNew THEN nm.next ELSE nm.segs[k].id
           n == IF isNew THEN 0 ELSE nm.segs[k].n
           nx == IF isNew THEN nm.next + 1 ELSE nm.next
           g(m) == [id |-> id, n |-> m, complete |-> complete]
<1>1. ~isNew => k \in DOMAIN nm.segs /\ nm.segs[k] = [id |-> id, n |-> n, complete |-> FALSE]
  <2> SUFFICES ASSUME ~isNew PROVE k \in DOMAIN nm.segs /\ nm.segs[k] = [id |-> id, n |-> n, complete |-> FALSE]
    OBVIOUS
  <2>1. k \in DOMAIN nm.segs /\ ~(nm.segs[k].complete /\ ~complete) /\ nm.segs[k] \in SegRecords
    BY DEF NormFits
  <2>2. ~nm.segs[k].complete
    BY <2>1
  <2>3. nm.segs[k].complete = FALSE
    BY <2>1, <2>2 DEF SegRecords
  <2> QED BY <2>1, <2>3 DEF SegRecords
<1>2. sd = [resp |-> nm.resp, open |-> nm.open, next |-> nx, segs |-> With(nm.segs, k, g(n))]
  <2>1. CASE isNew
    <3>1. sd = [nm EXCEPT !.segs = With(@, k, [[id |-> nm.next, n |-> 0, complete |-> FALSE] EXCEPT !.complete = @ \/ complete]),
                          !.next = @ + 1]
      BY <2>1 DEF segment_id
    <3>2. [[id |-> nm.next, n |-> 0, complete |-> FALSE] EXCEPT !.complete = @ \/ complete] = g(n)
      BY <2>1
    <3>3. sd = [nm EXCEPT !.segs = With(@, k, g(n)), !.next = @ + 1]
      BY <3>1, <3>2
    <3> HIDE DEF g
    <3> QED BY <2>1, <3>3 DEF NormFits
  <2>2. CASE ~isNew
    <3>1. sd = [nm EXCEPT !.segs = With(@, k, [nm.segs[k] EXCEPT !.complete = @ \/ complete]), !.next = @]
      BY <2>2 DEF segment_id
    <3>2. [nm.segs[k] EXCEPT !.complete = @ \/ complete] = g(n)
      BY <1>1, <2>2
    <3>3. sd = [nm EXCEPT !.segs = With(@, k, g(n)), !.next = @]
      BY <3>1, <3>2
    <3> HIDE DEF g
    <3> QED BY <2>2, <3>3 DEF NormFits
  <2> QED BY <2>1, <2>2
<1>3. new = [resp |-> nm.resp, open |-> nm.open, next |-> nx, segs |-> With(nm.segs, k, g(grow))]
  <2> DEFINE segs == With(nm.segs, k, g(n))
  <2>1. segs = [s \in DOMAIN nm.segs \cup {k} |-> IF s = k THEN g(n) ELSE nm.segs[s]]
    BY DEF With
  <2>2. [segs[k] EXCEPT !.n = grow] = g(grow)
    <3>1. segs[k] = g(n)
      BY <2>1
    <3>2. [g(n) EXCEPT !.n = grow] = g(grow)
      <4> HIDE DEF segs, id, n, new, sd, isNew, nx, k
      <4> QED OBVIOUS
    <3> HIDE DEF segs, g
    <3> QED BY <3>1, <3>2
  <2>3. [segs EXCEPT ![k] = g(grow)] = With(nm.segs, k, g(grow))
    <3> HIDE DEF g
    <3> QED BY <2>1 DEF With
  <2>4. new = [sd EXCEPT !.segs = [segs EXCEPT ![k] = [segs[k] EXCEPT !.n = grow]]]
    BY <1>2
  <2> HIDE DEF segs, g
  <2>5. new = [sd EXCEPT !.segs = With(nm.segs, k, g(grow))]
    BY <2>2, <2>3, <2>4
  <2> QED BY <2>5, <1>2
<1>4. /\ new.segs = [s \in DOMAIN nm.segs \cup {k} |-> IF s = k THEN g(grow) ELSE nm.segs[s]]
      /\ new.resp = nm.resp /\ new.open = nm.open /\ new.next = nx
      /\ new = [resp |-> new.resp, open |-> new.open, next |-> new.next, segs |-> new.segs]
  <2> HIDE DEF g, nx
  <2> QED BY <1>3 DEF With
<1>5. sd.resp = nm.resp /\ sd.segs[k] = g(n)
  <2> HIDE DEF g, nx, n
  <2> QED BY <1>2 DEF With
<1>6. /\ id \in Nat /\ n \in Nat /\ nx \in Nat /\ id < nx /\ nx >= nm.next /\ nm.next \in Nat
      /\ \A t \in DOMAIN nm.segs : t # k => nm.segs[t].id # id
  <2>1. CASE isNew
    <3>1. id = nm.next /\ n = 0 /\ nx = nm.next + 1
      BY <2>1
    <3> HIDE DEF id, n, nx
    <3> QED BY <3>1 DEF NormFits, SegRecords
  <2>2. CASE ~isNew
    <3>1. id = nm.segs[k].id /\ n = nm.segs[k].n /\ nx = nm.next /\ k \in DOMAIN nm.segs
      BY <2>2
    <3> HIDE DEF id, n, nx
    <3> QED BY <3>1 DEF NormFits, SegRecords
  <2> QED BY <2>1, <2>2
<1>7. GoesOn(nm, new, k)
  <2>1. new.segs[k].id = id
    BY <1>4
  <2>2. id = nm.next \/ (k \in DOMAIN nm.segs /\ nm.segs[k].id = id /\ ~nm.segs[k].complete)
    BY <1>1
  <2> HIDE DEF g, id, nx, new
  <2> QED BY <1>4, <1>6, <2>1, <2>2 DEF GoesOn
<1> HIDE DEF new, sd, id, n, nx
<1>8. ASSUME NEW s \in DOMAIN new.segs
      PROVE  /\ new.segs[s] \in SegRecords /\ new.segs[s].n > 0 /\ new.segs[s].id < new.next
             /\ s \in Nat \X Kinds /\ s[1] <= new.resp
  <2>1. CASE s = k
    <3>1. new.segs[s] = g(grow) /\ nm.resp \in Nat
      BY <1>4, <2>1 DEF NormFits
    <3> QED BY <3>1, <1>4, <1>6, <2>1 DEF SegRecords
  <2>2. CASE s # k
    <3>1. s \in DOMAIN nm.segs /\ new.segs[s] = nm.segs[s]
      BY <1>4, <2>2
    <3>2. nm.segs[s] \in SegRecords /\ nm.segs[s].n > 0 /\ nm.segs[s].id < nm.next /\ s \in Nat \X Kinds /\ s[1] <= nm.resp
      BY <3>1 DEF NormFits
    <3>3. nm.segs[s].id < nx
      BY <3>2, <1>6 DEF SegRecords
    <3> QED BY <3>1, <3>2, <3>3, <1>4
  <2> QED BY <2>1, <2>2
<1>9. ASSUME NEW s \in DOMAIN new.segs, NEW t \in DOMAIN new.segs, new.segs[s].id = new.segs[t].id PROVE s = t
  <2>1. new.segs[k].id = id
    BY <1>4
  <2>2. \A r \in DOMAIN new.segs : r # k => r \in DOMAIN nm.segs /\ new.segs[r] = nm.segs[r]
    BY <1>4
  <2> QED BY <1>6, <1>9, <2>1, <2>2 DEF NormFits
<1>10. NormFits(new)
  <2>1. new.segs = [s \in DOMAIN new.segs |-> new.segs[s]]
    BY <1>4
  <2>2. new.resp \in Nat /\ new.open \in BOOLEAN /\ new.next \in Nat
    BY <1>4, <1>6 DEF NormFits
  <2> QED BY <1>4, <1>8, <1>9, <2>1, <2>2 DEF NormFits
<1>11. new.segs[k] = g(grow) /\ sd.segs[k].id = id /\ sd.segs[k].n = n
  BY <1>4, <1>5
<1> QED BY <1>5, <1>6, <1>7, <1>10, <1>11 DEF new, sd

(* What the SDK sends of a segment.                                         *)
LEMMA SegmentEmits ==
  ASSUME NormFits(norm), NEW kind \in Kinds, NEW raw,
         raw = <<"delta", kind>> \/ (raw = <<"textdone", kind>> /\ ~IsDone(kind))
  PROVE  LET r == event_from_sdk_stream(norm, raw) IN
         /\ NormFits(r.norm)
         /\ \E s \in DOMAIN r.norm.segs :
              /\ GoesOn(norm, r.norm, s)
              /\ r.ev = Ev(SegKey(r.norm.segs[s].id), Mark(r.norm.segs[s].complete), r.norm.segs[s].n)
<1> DEFINE nm == Responding(norm)
           k == <<nm.resp, kind>>
<1>1. NormFits(nm) /\ nm.segs = norm.segs /\ nm.next = norm.next
  BY RespondingFits
<1>2. ~IsDone(kind) => ~(k \in DOMAIN nm.segs /\ nm.segs[k].complete)
  <2>1. CASE norm.open
    <3>1. nm = norm
      BY <2>1, RespondingFits
    <3> HIDE DEF nm
    <3> QED BY <2>1, <3>1 DEF IsDone
  <2>2. CASE ~norm.open
    BY <2>2, RespondingFits
  <2> QED BY <2>1, <2>2
<1> HIDE DEF nm
<1>3. ASSUME NEW new, GoesOn(nm, new, k) PROVE GoesOn(norm, new, k)
  BY <1>1, <1>3 DEF GoesOn
<1>4. CASE raw = <<"delta", kind>>
  <2> DEFINE r == append_delta(norm, kind)
             sd == segment_id(nm, kind, FALSE)
             n == sd.segs[k].n + 1
             new == [sd EXCEPT !.segs[k].n = n]
  <2>1. event_from_sdk_stream(norm, raw) = r
    BY <1>4 DEF event_from_sdk_stream
  <2>2. k = <<sd.resp, kind>> /\ sd.segs[k].n \in Nat
    <3>1. FALSE \in BOOLEAN /\ 1 \in Nat \ {0}
      OBVIOUS
    <3> QED BY <1>1, <3>1, SegmentFits
  <2>3. n \in Nat \ {0}
    <3>1. sd.segs[k].n \in Nat
      BY <2>2
    <3> HIDE DEF sd
    <3> QED BY <3>1
  <2>4. r = [norm |-> new, ev |-> Ev(SegKey(sd.segs[k].id), "open", n)]
    <3>1. sd = segment_id(Responding(norm), kind, FALSE)
      BY DEF nm
    <3>2. k = <<sd.resp, kind>>
      BY <2>2
    <3> HIDE DEF sd, k
    <3> QED BY <3>1, <3>2 DEF append_delta
  <2>5. NormFits(new) /\ GoesOn(nm, new, k) /\ new.segs[k] = [id |-> sd.segs[k].id, n |-> n, complete |-> FALSE]
    <3> HIDE DEF n
    <3> QED BY <1>1, <2>3, SegmentFits
  <2> HIDE DEF r, sd, n, new
  <2>6. new.segs[k].n = n /\ new.segs[k].id = sd.segs[k].id /\ Mark(new.segs[k].complete) = "open"
    BY <2>5 DEF Mark
  <2>7. GoesOn(norm, new, k) /\ k \in DOMAIN new.segs
    BY <1>3, <2>5 DEF GoesOn
  <2>8. r.norm = new /\ r.ev = Ev(SegKey(new.segs[k].id), Mark(new.segs[k].complete), new.segs[k].n)
    BY <2>4, <2>6
  <2> HIDE DEF k
  <2> QED BY <2>1, <2>5, <2>7, <2>8
<1>5. CASE raw = <<"textdone", kind>> /\ ~IsDone(kind)
  <2> DEFINE r == complete_text(norm, kind)
             sd == segment_id(nm, kind, TRUE)
             n == IF sd.segs[k].n = 0 THEN 1 ELSE sd.segs[k].n
             new == [sd EXCEPT !.segs[k].n = n]
  <2>0. ~(k \in DOMAIN nm.segs /\ nm.segs[k].complete)
    BY <1>2, <1>5
  <2>1. event_from_sdk_stream(norm, raw) = r
    BY <1>5 DEF event_from_sdk_stream
  <2>2. k = <<sd.resp, kind>> /\ sd.segs[k].n \in Nat
    <3>1. TRUE \in BOOLEAN /\ 1 \in Nat \ {0}
      OBVIOUS
    <3> QED BY <1>1, <2>0, <3>1, SegmentFits
  <2>3. n \in Nat \ {0}
    <3>1. sd.segs[k].n \in Nat
      BY <2>2
    <3> HIDE DEF sd
    <3> QED BY <3>1
  <2>4. r = [norm |-> new, ev |-> Ev(SegKey(sd.segs[k].id), "complete", n)]
    <3>1. sd = segment_id(Responding(norm), kind, TRUE)
      BY DEF nm
    <3>2. k = <<sd.resp, kind>>
      BY <2>2
    <3> HIDE DEF sd, k
    <3> QED BY <3>1, <3>2 DEF complete_text
  <2>5. NormFits(new) /\ GoesOn(nm, new, k) /\ new.segs[k] = [id |-> sd.segs[k].id, n |-> n, complete |-> TRUE]
    <3> HIDE DEF n
    <3> QED BY <1>1, <2>0, <2>3, SegmentFits
  <2> HIDE DEF r, sd, n, new
  <2>6. new.segs[k].n = n /\ new.segs[k].id = sd.segs[k].id /\ Mark(new.segs[k].complete) = "complete"
    BY <2>5 DEF Mark
  <2>7. GoesOn(norm, new, k) /\ k \in DOMAIN new.segs
    BY <1>3, <2>5 DEF GoesOn
  <2>8. r.norm = new /\ r.ev = Ev(SegKey(new.segs[k].id), Mark(new.segs[k].complete), new.segs[k].n)
    BY <2>4, <2>6
  <2> HIDE DEF k
  <2> QED BY <2>1, <2>5, <2>7, <2>8
<1> QED BY <1>4, <1>5

CallKey(c)   == <<"call", turnNo, c>>
ResultKey(c) == <<"result", turnNo, c>>
CallEvent(c)   == Ev(CallKey(c), "plain", 0)
ResultEvent(c) == Ev(ResultKey(c), "plain", 0)

(* What it sends of anything else.                                          *)
LEMMA ItemEmits ==
  ASSUME NormFits(norm), NEW raw,
         raw[1] \in {"created", "completed", "stop", "failure", "called", "output"}
  PROVE  LET r == event_from_sdk_stream(norm, raw) IN
         /\ NormFits(r.norm) /\ r.norm.segs = norm.segs /\ r.norm.next = norm.next
         /\ raw[1] \in {"created", "completed"} => r.ev = Nothing
         /\ raw[1] = "stop" => r.ev = Stop
         /\ raw[1] = "failure" => r.ev = Failure
         /\ raw[1] = "called" => r.ev = CallEvent(raw[2])
         /\ raw[1] = "output" => r.ev = ResultEvent(raw[2])
<1> DEFINE r == event_from_sdk_stream(norm, raw)
<1>1. CASE raw[1] = "created"
  <2>1. r = [norm |-> BeginResponse(norm), ev |-> Nothing]
    BY <1>1 DEF event_from_sdk_stream
  <2> DEFINE new == BeginResponse(norm)
  <2>2. new = [norm EXCEPT !.resp = @ + 1, !.open = TRUE]
    BY DEF BeginResponse
  <2>3. new = [resp |-> norm.resp + 1, open |-> TRUE, next |-> norm.next, segs |-> norm.segs]
    BY <2>2 DEF NormFits
  <2>4. new.resp = norm.resp + 1 /\ new.open = TRUE /\ new.next = norm.next /\ new.segs = norm.segs
    BY <2>3
  <2> HIDE DEF new
  <2>5. norm.resp \in Nat /\ new.resp \in Nat /\ \A s \in DOMAIN norm.segs : s[1] \in Nat /\ s[1] <= norm.resp /\ s[1] <= new.resp
    BY <2>4 DEF NormFits
  <2>6. NormFits(new)
    BY <2>3, <2>4, <2>5 DEF NormFits
  <2> QED BY <1>1, <2>1, <2>4, <2>6 DEF new
<1>2. CASE raw[1] \in {"completed", "called", "output"}
  <2> DEFINE new == [norm EXCEPT !.open = FALSE]
             ev == CASE raw[1] = "called" -> CallEvent(raw[2])
                     [] raw[1] = "output" -> ResultEvent(raw[2])
                     [] OTHER -> Nothing
  <2>1. r = [norm |-> new, ev |-> ev]
    BY <1>2 DEF event_from_sdk_stream, CallEvent, ResultEvent, CallKey, ResultKey
  <2>2. new = [resp |-> norm.resp, open |-> FALSE, next |-> norm.next, segs |-> norm.segs]
    <3>1. norm = [resp |-> norm.resp, open |-> norm.open, next |-> norm.next, segs |-> norm.segs]
      BY DEF NormFits
    <3>2. new = [norm EXCEPT !.open = FALSE]
      OBVIOUS
    <3> HIDE DEF new
    <3> QED BY <3>1, <3>2
  <2>3. new.resp = norm.resp /\ new.open = FALSE /\ new.next = norm.next /\ new.segs = norm.segs
    BY <2>2
  <2> HIDE DEF new
  <2>4. NormFits(new)
    BY <2>2, <2>3 DEF NormFits
  <2>5. r.norm = new /\ r.ev = ev
    BY <2>1
  <2> HIDE DEF r
  <2> QED BY <1>2, <2>3, <2>4, <2>5 DEF r
<1>3. CASE raw[1] \in {"stop", "failure"}
  BY <1>3 DEF event_from_sdk_stream
<1> QED BY <1>1, <1>2, <1>3

-----------------------------------------------------------------------------
(* The buffers, and the sequence that closes what is open.                  *)

BufRecords == [n : Nat, complete : BOOLEAN]

(* The segments of the turn that were published, and how far they are.      *)
BufFits(b) ==
  /\ b = [k \in DOMAIN b |-> b[k]] /\ IsFiniteSet(DOMAIN b)
  /\ \A k \in DOMAIN b : k \in SegKeys /\ k[2] = turnNo /\ k[3] < norm.next /\ b[k] \in BufRecords /\ b[k].n > 0

(* x is what the buffers say of its segment.                                *)
Told(b, x) == x.k \in DOMAIN b /\ x = Ev(x.k, Mark(b[x.k].complete), b[x.k].n)

LEMMA ClosesAll ==
  ASSUME NEW b, BufFits(b), NEW evs \in incomplete_segment_events(b)
  PROVE  /\ evs \in Seq(SegEvents)
         /\ \A i \in DOMAIN evs : /\ evs[i].k \in DOMAIN b /\ ~b[evs[i].k].complete
                                  /\ evs[i] = Ev(evs[i].k, "complete", b[evs[i].k].n)
         /\ \A i, j \in DOMAIN evs : evs[i].k = evs[j].k => i = j
         /\ \A k \in DOMAIN b : ~b[k].complete => \E i \in DOMAIN evs : evs[i].k = k
<1> DEFINE open == {k \in DOMAIN b : b[k].n > 0 /\ ~b[k].complete}
           all == 1..Cardinality(open)
<1>1. IsFiniteSet(open) /\ Cardinality(open) \in Nat
  <2>1. open \in SUBSET DOMAIN b /\ IsFiniteSet(DOMAIN b)
    BY DEF BufFits
  <2> HIDE DEF open
  <2> QED BY <2>1, FS_Subset, FS_CardinalityType
<1>2. PICK ks \in {x \in [all -> open] : \A i, j \in all : i < j => x[i][3] < x[j][3]} :
        evs = [i \in all |-> Ev(ks[i], "complete", b[ks[i]].n)]
  BY DEF incomplete_segment_events
<1>3. ks \in [all -> open] /\ \A i, j \in all : i < j => ks[i][3] < ks[j][3]
  BY <1>2
<1>4. \A k \in open : k \in DOMAIN b /\ ~b[k].complete /\ k \in SegKeys /\ k[3] \in Nat /\ b[k].n \in Nat
  BY DEF BufFits, SegKeys, BufRecords
<1>5. \A k \in DOMAIN b : ~b[k].complete => k \in open
  BY DEF BufFits
<1> HIDE DEF open
<1>6. \A i, j \in all : ks[i] = ks[j] => i = j
  <2> SUFFICES ASSUME NEW i \in all, NEW j \in all, ks[i] = ks[j], i # j PROVE FALSE
    OBVIOUS
  <2>1. i \in Nat /\ j \in Nat /\ ks[i] \in open
    BY <1>1, <1>3
  <2>2. ks[i][3] \in Nat
    BY <1>4, <2>1
  <2>3. i < j \/ j < i
    BY <2>1
  <2>4. ks[i][3] < ks[j][3] \/ ks[j][3] < ks[i][3]
    BY <1>3, <2>3
  <2> QED BY <2>2, <2>4
<1>7. \A k \in open : \E i \in all : ks[i] = k
  <2>1. ks \in Injection(all, open)
    BY <1>3, <1>6 DEF Injection, IsInjective
  <2>2. Cardinality(all) = Cardinality(open)
    BY <1>1, FS_Interval
  <2>3. ks \in Surjection(all, open)
    <3> HIDE DEF all
    <3> QED BY <1>1, <2>1, <2>2, FS_Injection
  <2> QED BY <2>3 DEF Surjection
<1>8. \A i \in all : ks[i] \in open /\ evs[i] = Ev(ks[i], "complete", b[ks[i]].n) /\ evs[i].k = ks[i] /\ evs[i] \in SegEvents
  <2> SUFFICES ASSUME NEW i \in all PROVE ks[i] \in open /\ evs[i] = Ev(ks[i], "complete", b[ks[i]].n) /\ evs[i].k = ks[i] /\ evs[i] \in SegEvents
    OBVIOUS
  <2>1. ks[i] \in open /\ evs[i] = Ev(ks[i], "complete", b[ks[i]].n)
    BY <1>2, <1>3
  <2>2. ks[i] \in SegKeys /\ b[ks[i]].n \in Nat
    BY <1>4, <2>1
  <2> QED BY <2>1, <2>2 DEF Ev, SegEvents
<1>9. DOMAIN evs = all /\ evs \in Seq(SegEvents)
  <2>1. evs \in [all -> SegEvents]
    BY <1>2, <1>8
  <2> QED BY <1>1, <2>1
<1> HIDE DEF all
<1>10. \A i \in DOMAIN evs : /\ evs[i].k \in DOMAIN b /\ ~b[evs[i].k].complete
                             /\ evs[i] = Ev(evs[i].k, "complete", b[evs[i].k].n)
  BY <1>4, <1>8, <1>9
<1>11. \A i, j \in DOMAIN evs : evs[i].k = evs[j].k => i = j
  BY <1>6, <1>8, <1>9
<1>12. \A k \in DOMAIN b : ~b[k].complete => \E i \in DOMAIN evs : evs[i].k = k
  BY <1>5, <1>7, <1>8, <1>9
<1> QED BY <1>9, <1>10, <1>11, <1>12

(* The end of a turn: after the events of first, whatever was open is       *)
(* complete, and what is said of calls is what it was.                      *)
LEMMA EndPuts ==
  ASSUME NEW first, Fits(first, live), NEW b, BufFits(b), NEW evs \in incomplete_segment_events(b),
         Len(first) \in {0, 1},
         \A x \in SegEvents : There(first, Len(first), live, x) <=> Told(b, x),
         publish(first \o evs \o <<Done>>), LiveFits(live), ClientFits(cli, live)
  PROVE  /\ LiveFits(live') /\ ClientFits(cli', live')
         /\ \A x \in SegEvents : In(live', x) => x.st = "complete" /\ x.k \in DOMAIN b /\ x.n = b[x.k].n
         /\ \A x \in PlainEvents : In(live', x) <=> There(first, Len(first), live, x)
<1> DEFINE n1 == Len(first)
           n2 == Len(evs)
           all == first \o evs \o <<Done>>
<1>1. /\ evs \in Seq(SegEvents)
      /\ \A i \in DOMAIN evs : /\ evs[i].k \in DOMAIN b /\ ~b[evs[i].k].complete
                               /\ evs[i] = Ev(evs[i].k, "complete", b[evs[i].k].n)
      /\ \A i, j \in DOMAIN evs : evs[i].k = evs[j].k => i = j
      /\ \A k \in DOMAIN b : ~b[k].complete => \E i \in DOMAIN evs : evs[i].k = k
  BY ClosesAll
<1>2. SegEvents \subseteq KeyedEvents /\ PlainEvents \subseteq KeyedEvents /\ KeyedEvents \subseteq Publishable
      /\ Publishable \subseteq Events /\ Done \in Publishable
  BY DEF KeyedEvents, Publishable, Events
<1>3. first \in Seq(Publishable) /\ evs \in Seq(Publishable) /\ <<Done>> \in Seq(Publishable) /\ n1 \in Nat /\ n2 \in Nat
      /\ DOMAIN evs = 1..n2 /\ DOMAIN first = 1..n1
  <2>1. first \in Seq(Publishable)
    BY DEF Fits
  <2>2. evs \in Seq(Publishable)
    BY <1>1, <1>2
  <2> QED BY <1>2, <2>1, <2>2
<1>31. \A j \in 1..n2 : evs[j] \in SegEvents /\ evs[j].k \in SegKeys
  <2>1. \A j \in 1..n2 : evs[j] \in SegEvents
    BY <1>1, <1>3
  <2> QED BY <2>1 DEF SegEvents
<1>4. /\ all \in Seq(Publishable) /\ Len(all) = n1 + n2 + 1
      /\ \A i \in 1..n1 : all[i] = first[i]
      /\ \A i \in 1..n2 : all[n1 + i] = evs[i]
      /\ all[n1 + n2 + 1] = Done
  <2> DEFINE fe == first \o evs
  <2>1. /\ fe \in Seq(Publishable) /\ Len(fe) = n1 + n2
        /\ \A i \in 1..n1 : fe[i] = first[i]
        /\ \A i \in 1..n2 : fe[n1 + i] = evs[i]
    BY <1>3
  <2>2. \A i \in 1..n1 : i \in 1..(n1 + n2)
    BY <1>3
  <2>3. \A i \in 1..n2 : n1 + i \in 1..(n1 + n2)
    BY <1>3
  <2> HIDE DEF fe, n1, n2
  <2>4. /\ fe \o <<Done>> \in Seq(Publishable) /\ Len(fe \o <<Done>>) = n1 + n2 + 1
        /\ \A i \in 1..(n1 + n2) : (fe \o <<Done>>)[i] = fe[i]
        /\ (fe \o <<Done>>)[n1 + n2 + 1] = Done
    BY <1>3, <2>1
  <2> QED BY <2>1, <2>2, <2>3, <2>4 DEF fe
<1> HIDE DEF all, n1, n2
<1>5. Done.k \notin {x.k : x \in KeyedEvents}
  <2>1. Done.k[1] \notin Keyed
    BY DEF Done, Ev, Keyed
  <2>2. \A x \in KeyedEvents : x.k[1] \in Keyed
    BY <1>2, KeyFacts
  <2> QED BY <2>1, <2>2
<1>6. ASSUME NEW i \in 1..(n1 + n2 + 1)
      PROVE  i \in 1..n1 \/ (\E j \in 1..n2 : i = n1 + j) \/ i = n1 + n2 + 1
  <2>1. i \in 1..n1 \/ (i - n1 \in 1..n2 /\ i = n1 + (i - n1)) \/ i = n1 + n2 + 1
    BY <1>3
  <2> QED BY <2>1
<1>7. ASSUME NEW j \in 1..n2
      PROVE  /\ Fresh(live, evs[j])
             /\ \A i \in 1..n1 : first[i].k = evs[j].k => first[i].st # "complete"
  <2> DEFINE k == evs[j].k
  <2>1. k \in DOMAIN b /\ ~b[k].complete /\ evs[j] \in SegEvents /\ k \in SegKeys
    BY <1>1, <1>3, <1>31
  <2>2. \A x \in SegEvents : x.k = k /\ Told(b, x) => x.st = "open"
    BY <2>1 DEF Told, Mark, Ev
  <2>3. \A i \in 1..n1 : first[i] \in Events /\ i = 1 /\ n1 = 1
    BY <1>2, <1>3 DEF n1
  <2>4. ASSUME NEW i \in 1..n1, first[i].k = k PROVE first[i].st # "complete" /\ first[i] \in SegEvents /\ Fresh(live, first[i])
    <3>1. first[i] \in SegEvents
      BY <2>1, <2>3, <2>4, KeyFacts
    <3>2. There(first, n1, live, first[i])
      BY <2>3 DEF There
    <3>3. first[i].st = "open"
      BY <2>2, <2>4, <3>1, <3>2 DEF n1
    <3>4. Fresh(live, first[i])
      BY <3>1, <1>2, <1>3 DEF Fits
    <3> QED BY <3>1, <3>3, <3>4
  <2>5. Fresh(live, evs[j])
    <3> SUFFICES ASSUME NEW x \in KeyedEvents, In(live, x), x.k = k PROVE x.st # "complete"
      BY DEF Fresh
    <3>1. CASE \E i \in 1..n1 : first[i].k = k
      BY <2>4, <3>1 DEF Fresh
    <3>2. CASE \A i \in 1..n1 : first[i].k # k
      <4>1. x \in SegEvents
        BY <1>2, <2>1, KeyFacts
      <4>2. There(first, n1, live, x)
        BY <3>2 DEF There
      <4> QED BY <4>1, <4>2, <2>2 DEF n1
    <3> QED BY <3>1, <3>2
  <2> QED BY <2>4, <2>5
<1>8. Fits(all, live)
  <2>1. DOMAIN all = 1..(n1 + n2 + 1)
    BY <1>3, <1>4
  <2>2. ASSUME NEW i \in 1..n1, all[i] \in KeyedEvents
        PROVE  Fresh(live, all[i]) /\ \A m \in 1..(i-1) : all[m].k = all[i].k => all[m].st # "complete"
    <3>1. Fresh(live, first[i]) /\ \A m \in 1..(i-1) : first[m].k = first[i].k => first[m].st # "complete"
      BY <1>3, <1>4, <2>2 DEF Fits
    <3>2. \A m \in 1..(i-1) : m \in 1..n1
      BY <1>3
    <3> QED BY <1>4, <3>1, <3>2
  <2>3. ASSUME NEW j \in 1..n2
        PROVE  Fresh(live, all[n1 + j]) /\ \A m \in 1..(n1 + j - 1) : all[m].k = all[n1 + j].k => all[m].st # "complete"
    <3>1. all[n1 + j] = evs[j]
      BY <1>4
    <3>2. ASSUME NEW m \in 1..(n1 + j - 1), all[m].k = all[n1 + j].k PROVE all[m].st # "complete"
      <4>1. CASE m \in 1..n1
        BY <1>4, <1>7, <3>1, <3>2, <4>1
      <4>2. CASE m \notin 1..n1
        <5>1. m - n1 \in 1..n2 /\ m = n1 + (m - n1) /\ m - n1 # j
          BY <1>3, <4>2
        <5>2. all[m] = evs[m - n1]
          BY <1>4, <5>1
        <5> QED BY <1>1, <1>3, <3>1, <3>2, <5>1, <5>2
      <4> QED BY <4>1, <4>2
    <3> QED BY <1>7, <3>1, <3>2
  <2>4. all[n1 + n2 + 1] \notin KeyedEvents
    BY <1>4, <1>5
  <2>5. ASSUME NEW i \in DOMAIN all, all[i] \in KeyedEvents
        PROVE  Fresh(live, all[i]) /\ \A m \in 1..(i-1) : all[m].k = all[i].k => all[m].st # "complete"
    <3>1. i \in 1..n1 \/ (\E j \in 1..n2 : i = n1 + j)
      BY <1>6, <2>1, <2>4, <2>5
    <3>2. CASE i \in 1..n1
      BY <2>2, <2>5, <3>2
    <3>3. CASE \E j \in 1..n2 : i = n1 + j
      <4>1. PICK j \in 1..n2 : i = n1 + j
        BY <3>3
      <4>2. Fresh(live, all[n1 + j]) /\ \A m \in 1..(n1 + j - 1) : all[m].k = all[n1 + j].k => all[m].st # "complete"
        BY <2>3
      <4>3. i - 1 = n1 + j - 1 /\ all[i] = all[n1 + j]
        BY <1>3, <4>1
      <4> QED BY <4>2, <4>3
    <3> QED BY <3>1, <3>2, <3>3
  <2> QED BY <1>4, <2>5 DEF Fits
<1>9. /\ LiveFits(live') /\ ClientFits(cli', live')
      /\ \A x \in KeyedEvents : In(live', x) <=> There(all, n1 + n2 + 1, live, x)
  <2>1. publish(all)
    BY DEF all
  <2> QED BY <1>4, <1>8, <2>1, PublishPuts
(* When no segment that is closed has its key, it is as after first.        *)
<1>10. ASSUME NEW x \in KeyedEvents, \A j \in 1..n2 : evs[j].k # x.k
       PROVE  There(all, n1 + n2 + 1, live, x) <=> There(first, n1, live, x)
  <2>1. x.k # Done.k
    BY <1>5
  <2>2. \A i \in 1..n1 : i \in 1..(n1 + n2 + 1)
    BY <1>3
  <2>3. \A i \in 1..(n1 + n2 + 1) : i \notin 1..n1 => all[i].k # x.k
    BY <1>4, <1>6, <1>10, <2>1
  <2>4. ASSUME There(all, n1 + n2 + 1, live, x) PROVE There(first, n1, live, x)
    <3>1. CASE In(live, x) /\ \A j \in 1..(n1 + n2 + 1) : all[j].k # x.k
      BY <3>1, <1>4, <2>2 DEF There
    <3>2. CASE \E j \in 1..(n1 + n2 + 1) : all[j] = x /\ \A m \in 1..(n1 + n2 + 1) : m > j => all[m].k # x.k
      <4>1. PICK j \in 1..(n1 + n2 + 1) : all[j] = x /\ \A m \in 1..(n1 + n2 + 1) : m > j => all[m].k # x.k
        BY <3>2
      <4>2. j \in 1..n1
        BY <2>3, <4>1
      <4> QED BY <4>1, <4>2, <1>4, <2>2 DEF There
    <3> QED BY <2>4, <3>1, <3>2 DEF There
  <2>5. ASSUME There(first, n1, live, x) PROVE There(all, n1 + n2 + 1, live, x)
    <3>1. CASE In(live, x) /\ \A j \in 1..n1 : first[j].k # x.k
      <4>1. \A j \in 1..(n1 + n2 + 1) : all[j].k # x.k
        BY <2>3, <3>1, <1>4
      <4> QED BY <3>1, <4>1 DEF There
    <3>2. CASE \E j \in 1..n1 : first[j] = x /\ \A m \in 1..n1 : m > j => first[m].k # x.k
      <4>1. PICK j \in 1..n1 : first[j] = x /\ \A m \in 1..n1 : m > j => first[m].k # x.k
        BY <3>2
      <4>2. all[j] = x /\ j \in 1..(n1 + n2 + 1)
        BY <4>1, <1>4, <2>2
      <4>3. \A m \in 1..(n1 + n2 + 1) : m > j => all[m].k # x.k
        BY <4>1, <2>3, <1>4
      <4> QED BY <4>2, <4>3 DEF There
    <3> QED BY <2>5, <3>1, <3>2 DEF There
  <2> QED BY <2>4, <2>5
<1>11. ASSUME NEW x \in SegEvents, In(live', x) PROVE x.st = "complete" /\ x.k \in DOMAIN b /\ x.n = b[x.k].n
  <2>1. There(all, n1 + n2 + 1, live, x)
    BY <1>2, <1>9, <1>11
  <2>2. CASE \E j \in 1..n2 : evs[j].k = x.k
    <3>1. PICK j \in 1..n2 : evs[j].k = x.k
      BY <2>2
    <3>2. all[n1 + j].k = x.k /\ n1 + j \in 1..(n1 + n2 + 1)
      BY <1>3, <1>4, <3>1
    <3>3. PICK i \in 1..(n1 + n2 + 1) : all[i] = x /\ \A m \in 1..(n1 + n2 + 1) : m > i => all[m].k # x.k
      BY <2>1, <3>2 DEF There
    <3>4. i \notin 1..n1
      BY <1>3, <3>2, <3>3
    <3>5. i # n1 + n2 + 1
      BY <1>2, <1>4, <1>5, <3>3
    <3>6. PICK m \in 1..n2 : i = n1 + m
      BY <1>6, <3>4, <3>5
    <3>7. x = evs[m]
      BY <1>4, <3>3, <3>6
    <3> QED BY <1>1, <1>3, <3>7 DEF Ev
  <2>3. CASE \A j \in 1..n2 : evs[j].k # x.k
    <3>1. Told(b, x)
      BY <1>2, <1>10, <2>1, <2>3 DEF n1
    <3>2. b[x.k].complete
      BY <1>1, <1>3, <2>3, <3>1 DEF Told
    <3> QED BY <3>1, <3>2 DEF Told, Mark, Ev
  <2> QED BY <2>2, <2>3
<1>12. ASSUME NEW x \in PlainEvents PROVE In(live', x) <=> There(first, Len(first), live, x)
  <2>1. \A j \in 1..n2 : evs[j].k # x.k
    <3>1. x.k \notin SegKeys
      <4>1. x.k[1] # "seg"
        BY KeyNames DEF PlainEvents, PlainKeys
      <4> QED BY <4>1, KeyNames
    <3>2. \A j \in 1..n2 : evs[j].k \in SegKeys
      BY <1>31
    <3> QED BY <3>1, <3>2
  <2> QED BY <1>2, <1>9, <1>10, <2>1 DEF n1
<1> QED BY <1>9, <1>11, <1>12

-----------------------------------------------------------------------------
(* The invariant. *)

Pending == KeyedEvents \cup {Nothing, Stop, Timeout, Failure}

ItRecords == [pc : {"ended", "enter", "wait", "query"}, how : {"none", "done", "interrupted", "failed", "canceled"},
              e : Pending, s : BOOLEAN, early : BOOLEAN, calls : Nat, deferred : BOOLEAN]

Shape ==
  /\ it \in ItRecords /\ turnNo \in 0..MaxTurns /\ pend \in BOOLEAN
  /\ sdk.calls \subseteq sdk.was /\ sdk.was \subseteq Calls
  /\ LiveFits(live) /\ ClientFits(cli, live)

(* The event that waits to be published is one that may be.                 *)
EventFits(e) ==
  /\ e \in SegEvents =>
       /\ e.n > 0 /\ e.k[2] = turnNo /\ e.k[3] < norm.next
       /\ e.k \in DOMAIN buf => ~buf[e.k].complete
  /\ e \in PlainEvents =>
       \E c \in Calls : \/ e = CallEvent(c) /\ c \in sdk.calls
                        \/ e = ResultEvent(c) /\ c \in sdk.was \ sdk.calls

(* Each segment of the normalizer was published as it is, but for the one   *)
(* whose event waits.                                                       *)
Streamed(b, e) ==
  \A s \in DOMAIN norm.segs :
    LET g == norm.segs[s]
        k == SegKey(g.id) IN
    IF e.k = k THEN e = Ev(k, Mark(g.complete), g.n)
    ELSE k \in DOMAIN b /\ b[k] = [n |-> g.n, complete |-> g.complete]

HasKey(l, k) == \E x \in PlainEvents : In(l, x) /\ x.k = k

(* The calls and results that were sent are shown, but for the one whose    *)
(* event waits.                                                             *)
CallsShown(e) ==
  \A c \in Calls :
    /\ HasKey(live, CallKey(c)) <=> c \in sdk.was /\ e.k # CallKey(c)
    /\ HasKey(live, ResultKey(c)) <=> c \in sdk.was \ sdk.calls /\ e.k # ResultKey(c)

(* The calls that are shown without a result.                               *)
Unanswered(e) == {c \in Calls : (c \in sdk.calls /\ e.k # CallKey(c)) \/ e.k = ResultKey(c)}

TurnFits ==
  /\ it.how = "none"
  /\ NormFits(norm) /\ BufFits(buf)
  /\ \A x \in SegEvents : In(live, x) <=> Told(buf, x)
  /\ EventFits(it.e) /\ Streamed(buf, it.e)
  /\ CallsShown(it.e) /\ it.calls = Cardinality(Unanswered(it.e))
  /\ it.deferred => it.calls > 0
  /\ it.early => it.e # Nothing
  /\ it.pc = "enter" => it.calls = 0

StreamInv ==
  /\ Shape
  /\ IF Active THEN TurnFits ELSE it = [NoIt EXCEPT !.how = it.how]
  /\ EndedIsClosed /\ ShownCallIsAnswered

(* The events that are not published have no key of a segment or a call.    *)
LEMMA PendingFacts ==
  ASSUME NEW e \in {Nothing, Stop, Timeout, Failure}
  PROVE  /\ e \notin KeyedEvents /\ e \notin SegEvents /\ e \notin PlainEvents
         /\ \A id : e.k # SegKey(id)
         /\ \A c : e.k # CallKey(c) /\ e.k # ResultKey(c)
<1>1. e.k[1] \in {"none", "stop", "timeout", "failure"}
  BY DEF Nothing, Stop, Timeout, Failure, Ev
<1>2. \A x \in KeyedEvents : x.k[1] \in Keyed
  BY KeyFacts DEF Events, Publishable
<1>3. e \notin KeyedEvents
  BY <1>1, <1>2 DEF Keyed
<1>4. \A id : SegKey(id)[1] = "seg"
  BY DEF SegKey
<1>5. \A c : CallKey(c)[1] = "call" /\ ResultKey(c)[1] = "result"
  BY DEF CallKey, ResultKey
<1> QED BY <1>1, <1>3, <1>4, <1>5 DEF KeyedEvents

LEMMA PendingDiffer ==
  Nothing # Stop /\ Nothing # Timeout /\ Nothing # Failure /\ Stop # Timeout /\ Stop # Failure /\ Timeout # Failure
BY DEF Nothing, Stop, Timeout, Failure, Ev

(* What the keys of a turn tell apart.                                      *)
LEMMA TurnKeys ==
  ASSUME turnNo \in Nat
  PROVE  /\ \A c, d : /\ CallKey(c) = CallKey(d) => c = d
                      /\ ResultKey(c) = ResultKey(d) => c = d
                      /\ CallKey(c) # ResultKey(d)
         /\ \A i, j : SegKey(i) = SegKey(j) => i = j
         /\ \A i, c : SegKey(i) # CallKey(c) /\ SegKey(i) # ResultKey(c)
         /\ \A i \in Nat : SegKey(i) \in SegKeys /\ SegKey(i)[2] = turnNo /\ SegKey(i)[3] = i
         /\ \A c \in Calls : /\ CallEvent(c) \in PlainEvents /\ CallEvent(c).k = CallKey(c)
                             /\ ResultEvent(c) \in PlainEvents /\ ResultEvent(c).k = ResultKey(c)
<1>1. \A c : CallKey(c)[1] = "call" /\ ResultKey(c)[1] = "result" /\ CallKey(c)[3] = c /\ ResultKey(c)[3] = c
  BY DEF CallKey, ResultKey
<1>2. \A i : SegKey(i)[1] = "seg" /\ SegKey(i)[2] = turnNo /\ SegKey(i)[3] = i
  BY DEF SegKey
<1>3. \A i \in Nat : SegKey(i) \in SegKeys
  BY DEF SegKey, SegKeys
<1>4. \A c \in Calls : CallKey(c) \in PlainKeys /\ ResultKey(c) \in PlainKeys
  BY DEF CallKey, ResultKey, PlainKeys, CallKeys, ResultKeys
<1>5. \A c \in Calls : CallEvent(c) \in PlainEvents /\ ResultEvent(c) \in PlainEvents
                      /\ CallEvent(c).k = CallKey(c) /\ ResultEvent(c).k = ResultKey(c)
  BY <1>4 DEF CallEvent, ResultEvent, Ev, PlainEvents
<1>6. \A c, d : /\ CallKey(c) = CallKey(d) => c = d
                /\ ResultKey(c) = ResultKey(d) => c = d
                /\ CallKey(c) # ResultKey(d)
  BY <1>1
<1>7. \A i, j : SegKey(i) = SegKey(j) => i = j
  BY <1>2
<1>8. \A i, c : SegKey(i) # CallKey(c) /\ SegKey(i) # ResultKey(c)
  BY <1>1, <1>2
<1> QED BY <1>2, <1>3, <1>5, <1>6, <1>7, <1>8

(* A key that is shown is the key of an event that is.                      *)
LEMMA ShownHas ==
  ASSUME NEW l, LiveFits(l), NEW k \in PlainKeys
  PROVE  {i \in DOMAIN l.ev : l.ev[i].k = k} # {} <=> HasKey(l, k)
<1>1. \A x \in Events : x.k = k => x \in PlainEvents
  <2>1. ASSUME NEW x \in Events, x.k = k PROVE x \in PlainEvents
    <3>1. x.k[1] \in {"call", "result", "task"}
      BY <2>1, KeyNames DEF PlainKeys
    <3>2. x \in KeyedEvents /\ x \notin SegEvents
      BY <3>1, KeyFacts DEF Keyed
    <3> QED BY <3>2 DEF KeyedEvents
  <2> QED BY <2>1
<1>2. \A i \in DOMAIN l.ev : l.ev[i] \in Events
  BY DEF LiveFits
<1> QED BY <1>1, <1>2 DEF HasKey, In

-----------------------------------------------------------------------------
(* An event is taken. *)

(* What is there after one event.                                           *)
After(e, x)    == x = e \/ (In(live, x) /\ x.k # e.k)
HasAfter(e, k) == \E x \in PlainEvents : After(e, x) /\ x.k = k

LEMMA OneEvent ==
  /\ Fits(<<>>, live) /\ Len(<<>>) = 0
  /\ \A x : There(<<>>, 0, live, x) <=> In(live, x)
  /\ \A e \in Publishable : /\ Fresh(live, e) => Fits(<<e>>, live)
                            /\ Len(<<e>>) = 1
                            /\ \A x : There(<<e>>, 1, live, x) <=> After(e, x)
<1>1. Fits(<<>>, live) /\ Len(<<>>) = 0
  BY DEF Fits
<1>2. \A x : There(<<>>, 0, live, x) <=> In(live, x)
  BY DEF There
<1>3. ASSUME NEW e \in Publishable
      PROVE  /\ Fresh(live, e) => Fits(<<e>>, live)
             /\ Len(<<e>>) = 1
             /\ \A x : There(<<e>>, 1, live, x) <=> After(e, x)
  <2>1. <<e>> \in Seq(Publishable) /\ DOMAIN <<e>> = {1} /\ <<e>>[1] = e /\ 1..1 = {1} /\ 1..(1-1) = {} /\ Len(<<e>>) = 1
    OBVIOUS
  <2>2. Fresh(live, e) => Fits(<<e>>, live)
    BY <2>1 DEF Fits
  <2>3. \A x : There(<<e>>, 1, live, x) <=> After(e, x)
    BY <2>1 DEF There, After
  <2> QED BY <2>1, <2>2, <2>3
<1> QED BY <1>1, <1>2, <1>3

SegmentsAfter(e, b) == \A x \in SegEvents : After(e, x) <=> Told(b, x)
CallsAfter(e) ==
  \A c \in Calls : /\ HasAfter(e, CallKey(c)) <=> c \in sdk.was
                   /\ HasAfter(e, ResultKey(c)) <=> c \in sdk.was \ sdk.calls

(* What holds of an event that waits: it may be published, and then the     *)
(* buffers b, the segments and the calls are up to date.                    *)
EventMay(e, b) ==
  /\ e \in Publishable /\ Fresh(live, e)
  /\ BufFits(b) /\ Streamed(b, Nothing) /\ SegmentsAfter(e, b)
  /\ CallsAfter(e) /\ CountCalls(it.calls, e) = Cardinality(sdk.calls)

LEMMA CallsAreFinite ==
  ASSUME Shape
  PROVE  /\ IsFiniteSet(sdk.calls) /\ Cardinality(sdk.calls) \in Nat /\ turnNo \in Nat
         /\ Cardinality(sdk.calls) = 0 => sdk.calls = {}
<1>1. sdk.calls \in SUBSET Calls /\ IsFiniteSet(Calls) /\ turnNo \in Nat
  BY StreamAssumption DEF Shape
<1>2. IsFiniteSet(sdk.calls)
  BY <1>1, FS_Subset
<1>3. Cardinality(sdk.calls) \in Nat
  BY <1>2, FS_CardinalityType
<1>4. Cardinality(sdk.calls) = 0 => sdk.calls = {}
  BY <1>2, FS_EmptySet
<1> QED BY <1>1, <1>2, <1>3, <1>4

LEMMA SegmentTaken ==
  ASSUME Shape, TurnFits, it.e \in SegEvents
  PROVE  EventMay(it.e, track_delta(buf, it.e))
<1> DEFINE e == it.e
           b == track_delta(buf, e)
<1>1. /\ e \in KeyedEvents /\ e \in Publishable /\ e \in Events /\ e \notin PlainEvents
      /\ e.k \in SegKeys /\ e.k[1] = "seg" /\ e.st \in {"open", "complete"} /\ e.n \in Nat
      /\ e = Ev(e.k, Mark(e.st = "complete"), e.n)
  <2>1. e \in Events /\ e \in KeyedEvents /\ e \in Publishable
    BY DEF Events, Publishable, KeyedEvents
  <2>2. e.k \in SegKeys /\ e.k[1] = "seg" /\ e.st \in {"open", "complete"} /\ e.n \in Nat
    BY <2>1, KeyFacts
  <2>3. e = Ev(e.k, e.st, e.n)
    BY DEF SegEvents, Ev
  <2>4. e.st = Mark(e.st = "complete")
    BY <2>2 DEF Mark
  <2>5. e \notin PlainEvents
    BY <2>1, <2>2, KeyFacts
  <2> QED BY <2>1, <2>2, <2>3, <2>4, <2>5
<1>2. e.n > 0 /\ e.k[2] = turnNo /\ e.k[3] < norm.next /\ (e.k \in DOMAIN buf => ~buf[e.k].complete)
  BY DEF TurnFits, EventFits
<1>3. turnNo \in Nat
  BY CallsAreFinite
<1>4. b = With(buf, e.k, [n |-> e.n, complete |-> e.st = "complete"])
  <2>1. b = With(buf, e.k, [n |-> e.n, complete |-> e.st = "complete" \/ (e.k \in DOMAIN buf /\ buf[e.k].complete)])
    BY <1>1 DEF track_delta
  <2>2. (e.st = "complete" \/ (e.k \in DOMAIN buf /\ buf[e.k].complete)) = (e.st = "complete")
    BY <1>2
  <2> HIDE DEF e
  <2> QED BY <2>1, <2>2
<1> HIDE DEF e, b
<1>5. /\ DOMAIN b = DOMAIN buf \cup {e.k} /\ b[e.k] = [n |-> e.n, complete |-> e.st = "complete"]
      /\ \A k \in DOMAIN buf : k # e.k => b[k] = buf[k]
      /\ b = [k \in DOMAIN b |-> b[k]]
  BY <1>4 DEF With
<1>6. BufFits(b)
  <2>1. IsFiniteSet(DOMAIN b)
    BY <1>5, FS_AddElement DEF TurnFits, BufFits
  <2>2. ASSUME NEW k \in DOMAIN b
        PROVE  k \in SegKeys /\ k[2] = turnNo /\ k[3] < norm.next /\ b[k] \in BufRecords /\ b[k].n > 0
    <3>1. CASE k = e.k
      <4>1. \A o \in BOOLEAN : [n |-> e.n, complete |-> o] \in BufRecords /\ [n |-> e.n, complete |-> o].n = e.n
        BY <1>1 DEF BufRecords
      <4>2. (e.st = "complete") \in BOOLEAN
        OBVIOUS
      <4>3. b[k] \in BufRecords /\ b[k].n = e.n
        BY <1>5, <3>1, <4>1, <4>2, Zenon
      <4> QED BY <1>1, <1>2, <3>1, <4>3
    <3>2. CASE k # e.k
      BY <1>5, <2>2, <3>2 DEF TurnFits, BufFits
    <3> QED BY <3>1, <3>2
  <2> QED BY <1>5, <2>1, <2>2 DEF BufFits
<1>7. Fresh(live, e)
  <2> SUFFICES ASSUME NEW x \in KeyedEvents, In(live, x), x.k = e.k PROVE x.st # "complete"
    BY DEF Fresh
  <2>1. x \in SegEvents
    BY <1>1, KeyFacts DEF Events, Publishable
  <2>2. Told(buf, x)
    BY <2>1 DEF TurnFits
  <2> QED BY <1>2, <2>2 DEF Told, Mark, Ev
<1>8. ASSUME NEW x \in SegEvents PROVE After(e, x) <=> Told(b, x)
  <2>1. CASE x.k = e.k
    <3>1. Told(b, x) <=> x = Ev(e.k, Mark(e.st = "complete"), e.n)
      BY <1>5, <2>1 DEF Told
    <3> QED BY <1>1, <2>1, <3>1 DEF After
  <2>2. CASE x.k # e.k
    <3>1. Told(b, x) <=> Told(buf, x)
      BY <1>5, <2>2 DEF Told
    <3>2. In(live, x) <=> Told(buf, x)
      BY DEF TurnFits
    <3> QED BY <2>2, <3>1, <3>2 DEF After
  <2> QED BY <2>1, <2>2
<1>9. Streamed(b, Nothing)
  <2> SUFFICES ASSUME NEW s \in DOMAIN norm.segs
               PROVE  /\ SegKey(norm.segs[s].id) \in DOMAIN b
                      /\ b[SegKey(norm.segs[s].id)] = [n |-> norm.segs[s].n, complete |-> norm.segs[s].complete]
    BY PendingFacts DEF Streamed
  <2> DEFINE g == norm.segs[s]
             k == SegKey(g.id)
  <2>1. g \in SegRecords
    BY DEF TurnFits, NormFits
  <2>2. IF e.k = k THEN e = Ev(k, Mark(g.complete), g.n) ELSE k \in DOMAIN buf /\ buf[k] = [n |-> g.n, complete |-> g.complete]
    BY DEF TurnFits, Streamed, e
  <2> HIDE DEF g, k
  <2>3. CASE e.k = k
    <3>1. e.n = g.n /\ e.st = Mark(g.complete) /\ g.complete \in BOOLEAN
      BY <2>1, <2>2, <2>3 DEF Ev, SegRecords
    <3>2. (e.st = "complete") = g.complete
      BY <3>1 DEF Mark
    <3>3. k \in DOMAIN b /\ b[k] = [n |-> g.n, complete |-> g.complete]
      BY <1>5, <2>3, <3>1, <3>2
    <3> QED BY <3>3 DEF g, k
  <2>4. CASE e.k # k
    <3>1. k \in DOMAIN b /\ b[k] = [n |-> g.n, complete |-> g.complete]
      BY <1>5, <2>2, <2>4
    <3> QED BY <3>1 DEF g, k
  <2> QED BY <2>3, <2>4
<1>10. \A c : e.k # CallKey(c) /\ e.k # ResultKey(c)
  BY <1>1 DEF CallKey, ResultKey
<1>11. ASSUME NEW c \in Calls
       PROVE  /\ HasAfter(e, CallKey(c)) <=> c \in sdk.was
              /\ HasAfter(e, ResultKey(c)) <=> c \in sdk.was \ sdk.calls
  <2>1. \A k : e.k # k => (HasAfter(e, k) <=> HasKey(live, k))
    BY <1>1 DEF HasAfter, HasKey, After
  <2>2. /\ HasKey(live, CallKey(c)) <=> c \in sdk.was /\ e.k # CallKey(c)
        /\ HasKey(live, ResultKey(c)) <=> c \in sdk.was \ sdk.calls /\ e.k # ResultKey(c)
    BY DEF TurnFits, CallsShown, e
  <2> QED BY <1>10, <2>1, <2>2
<1>12. CountCalls(it.calls, e) = Cardinality(sdk.calls)
  <2>1. CountCalls(it.calls, e) = it.calls
    BY <1>1 DEF CountCalls
  <2>2. Unanswered(e) = sdk.calls
    BY <1>10 DEF Unanswered, Shape
  <2> QED BY <2>1, <2>2 DEF TurnFits, e
<1>13. SegmentsAfter(e, b) /\ CallsAfter(e)
  BY <1>8, <1>11 DEF SegmentsAfter, CallsAfter
<1>14. EventMay(e, b)
  BY <1>1, <1>6, <1>7, <1>9, <1>12, <1>13 DEF EventMay
<1> QED BY <1>14 DEF e, b

LEMMA ItemTaken ==
  ASSUME Shape, TurnFits, it.e \in PlainEvents
  PROVE  EventMay(it.e, track_delta(buf, it.e))
<1> DEFINE e == it.e
<1>0. turnNo \in Nat /\ IsFiniteSet(sdk.calls) /\ Cardinality(sdk.calls) \in Nat
  BY CallsAreFinite
<1>1. /\ e \in KeyedEvents /\ e \in Publishable /\ e \in Events /\ e \notin SegEvents
      /\ e.k[1] # "seg" /\ e.k \notin SegKeys
  <2>1. e \in Events /\ e \in KeyedEvents /\ e \in Publishable
    BY DEF Events, Publishable, KeyedEvents
  <2>2. e.k[1] # "seg"
    BY KeyNames DEF PlainEvents, PlainKeys
  <2> QED BY <2>1, <2>2, KeyFacts
<1>2. track_delta(buf, e) = buf
  BY <1>1 DEF track_delta
<1>3. Fresh(live, e)
  <2> SUFFICES ASSUME NEW x \in KeyedEvents, x.k = e.k PROVE x.st # "complete"
    BY DEF Fresh
  <2>1. x \notin SegEvents
    BY <1>1, KeyFacts DEF Events, Publishable
  <2> QED BY <2>1, KeyFacts DEF Events, Publishable
<1>4. PICK c \in Calls : \/ e = CallEvent(c) /\ c \in sdk.calls
                         \/ e = ResultEvent(c) /\ c \in sdk.was \ sdk.calls
  BY DEF TurnFits, EventFits
<1>5. Streamed(buf, e) /\ CallsShown(e) /\ it.calls = Cardinality(Unanswered(e)) /\ BufFits(buf)
  BY DEF TurnFits
<1>6. e \in PlainEvents /\ it.calls \in Nat
  BY DEF Shape, ItRecords
<1>16. sdk.calls \subseteq sdk.was /\ sdk.was \subseteq Calls
  BY DEF Shape
<1>18. /\ \A x, y : CallKey(x) = CallKey(y) => x = y
       /\ \A x, y : ResultKey(x) = ResultKey(y) => x = y
       /\ \A x, y : CallKey(x) # ResultKey(y)
  BY DEF CallKey, ResultKey
<1>17. \A x \in SegEvents : (In(live, x) <=> Told(buf, x)) /\ x.k \in SegKeys
  BY DEF TurnFits, SegEvents
<1> HIDE DEF e
<1>7. \A x \in SegEvents : After(e, x) <=> Told(buf, x)
  BY <1>1, <1>17 DEF After
<1>8. \A s : SegKey(s) # e.k
  <2>1. \A s : SegKey(s)[1] = "seg"
    BY DEF SegKey
  <2> QED BY <1>1, <2>1
<1>9. Streamed(buf, Nothing)
  BY <1>5, <1>8, PendingFacts DEF Streamed
<1>10. \A k : HasAfter(e, k) <=> k = e.k \/ HasKey(live, k)
  BY <1>6 DEF HasAfter, HasKey, After
<1>11. CASE e = CallEvent(c) /\ c \in sdk.calls
  <2>1. e.k = CallKey(c) /\ e.k[1] = "call"
    BY <1>0, <1>11, TurnKeys DEF CallEvent, CallKey, Ev
  <2>11. \A d : (e.k = CallKey(d) <=> d = c) /\ e.k # ResultKey(d)
    BY <1>18, <2>1, Zenon
  <2>2. \A d \in Calls : /\ HasAfter(e, CallKey(d)) <=> d \in sdk.was
                         /\ HasAfter(e, ResultKey(d)) <=> d \in sdk.was \ sdk.calls
    BY <1>5, <1>10, <1>11, <1>16, <2>11 DEF CallsShown
  <2>3. Unanswered(e) = sdk.calls \ {c}
    BY <1>11, <1>16, <2>11 DEF Unanswered
  <2>4. it.calls = Cardinality(sdk.calls) - 1
    BY <1>0, <1>5, <1>11, <2>3, FS_RemoveElement
  <2>5. CountCalls(it.calls, e) = it.calls + 1
    BY <2>1 DEF CountCalls
  <2>6. CountCalls(it.calls, e) = Cardinality(sdk.calls)
    BY <1>0, <2>4, <2>5
  <2>7. EventMay(e, buf)
    <3>1. SegmentsAfter(e, buf) /\ CallsAfter(e)
      BY <1>7, <2>2 DEF SegmentsAfter, CallsAfter
    <3> QED BY <1>1, <1>3, <1>5, <1>9, <2>6, <3>1 DEF EventMay
  <2> QED BY <1>2, <2>7 DEF e
<1>12. CASE e = ResultEvent(c) /\ c \in sdk.was \ sdk.calls
  <2>1. e.k = ResultKey(c) /\ e.k[1] = "result"
    BY <1>0, <1>12, TurnKeys DEF ResultEvent, ResultKey, Ev
  <2>11. \A d : (e.k = ResultKey(d) <=> d = c) /\ e.k # CallKey(d)
    BY <1>18, <2>1, Zenon
  <2>2. \A d \in Calls : /\ HasAfter(e, CallKey(d)) <=> d \in sdk.was
                         /\ HasAfter(e, ResultKey(d)) <=> d \in sdk.was \ sdk.calls
    BY <1>5, <1>10, <1>12, <1>16, <2>11 DEF CallsShown
  <2>3. Unanswered(e) = sdk.calls \cup {c}
    BY <1>12, <1>16, <2>11 DEF Unanswered
  <2>4. it.calls = Cardinality(sdk.calls) + 1
    BY <1>0, <1>5, <1>12, <2>3, FS_AddElement
  <2>5. CountCalls(it.calls, e) = it.calls - 1
    BY <1>0, <2>1, <2>4 DEF CountCalls
  <2>6. CountCalls(it.calls, e) = Cardinality(sdk.calls)
    BY <1>0, <2>4, <2>5
  <2>7. EventMay(e, buf)
    <3>1. SegmentsAfter(e, buf) /\ CallsAfter(e)
      BY <1>7, <2>2 DEF SegmentsAfter, CallsAfter
    <3> QED BY <1>1, <1>3, <1>5, <1>9, <2>6, <3>1 DEF EventMay
  <2> QED BY <1>2, <2>7 DEF e
<1> QED BY <1>4, <1>11, <1>12

-----------------------------------------------------------------------------
(* The steps of a turn. *)

(* What is said of the last turn stays as long as it is shown.              *)
LEMMA SaidStays ==
  ASSUME StreamInv, UNCHANGED <<norm, live, sdk, turnNo>>, it'.how = it.how
  PROVE  EndedIsClosed' /\ ShownCallIsAnswered'
<1>1. \A id : SegKey(id)' = SegKey(id)
  BY DEF SegKey
<1>2. EndedIsClosed'
  BY <1>1 DEF StreamInv, EndedIsClosed
<1>3. \A k : Shown(k)' = Shown(k)
  BY DEF Shown
<1>4. ShownCallIsAnswered'
  BY <1>3 DEF StreamInv, ShownCallIsAnswered
<1> QED BY <1>2, <1>4

(* Nothing is said of a turn that runs, or failed.                          *)
LEMMA NothingSaid ==
  ASSUME it.how \in {"none", "failed"}
  PROVE  EndedIsClosed /\ ShownCallIsAnswered
BY DEF EndedIsClosed, ShownCallIsAnswered

(* A step that only moves the driver on.                                    *)
LEMMA ItMoves ==
  ASSUME StreamInv, Active, Active', UNCHANGED <<norm, buf, live, cli, sdk, turnNo>>, pend' \in BOOLEAN,
         it' \in ItRecords, it'.e = it.e, it'.how = it.how, it'.calls = it.calls,
         it'.deferred => it.calls > 0, it'.early => it.e # Nothing, it'.pc = "enter" => it.pc = "enter"
  PROVE  StreamInv'
<1>1. Shape'
  BY DEF StreamInv, Shape
<1>2. TurnFits
  BY DEF StreamInv
<1>3. \A id : SegKey(id)' = SegKey(id)
  BY DEF SegKey
<1>4. NormFits(norm)' /\ BufFits(buf)' /\ (\A x \in SegEvents : In(live, x) <=> Told(buf, x))'
  BY <1>2 DEF TurnFits, BufFits
<1>5. EventFits(it.e)' /\ Streamed(buf, it.e)'
  <2>1. EventFits(it.e)'
    BY <1>2 DEF TurnFits, EventFits, CallEvent, ResultEvent, CallKey, ResultKey
  <2>2. Streamed(buf, it.e)'
    BY <1>2, <1>3 DEF TurnFits, Streamed
  <2> QED BY <2>1, <2>2
<1>6. CallsShown(it.e)' /\ (it.calls = Cardinality(Unanswered(it.e)))'
  <2>1. CallsShown(it.e)'
    BY <1>2 DEF TurnFits, CallsShown, HasKey, CallKey, ResultKey
  <2>2. Unanswered(it.e)' = Unanswered(it.e)
    BY DEF Unanswered, CallKey, ResultKey
  <2> QED BY <1>2, <2>1, <2>2 DEF TurnFits
<1>7. TurnFits'
  <2>1. it'.how = "none" /\ (it'.deferred => it'.calls > 0) /\ (it'.early => it'.e # Nothing) /\ (it'.pc = "enter" => it'.calls = 0)
    BY <1>2 DEF TurnFits
  <2> QED BY <1>4, <1>5, <1>6, <2>1 DEF TurnFits
<1>8. EndedIsClosed' /\ ShownCallIsAnswered'
  BY SaidStays
<1> QED BY <1>1, <1>7, <1>8 DEF StreamInv

(* A step of a client, or of nobody.                                        *)
LEMMA ClientMoves ==
  ASSUME StreamInv, UNCHANGED <<it, norm, buf, live, pend, sdk, turnNo>>, ClientFits(cli', live')
  PROVE  StreamInv'
<1>1. Shape'
  BY DEF StreamInv, Shape
<1>2. \A id : SegKey(id)' = SegKey(id)
  BY DEF SegKey
<1>3. (IF Active THEN TurnFits ELSE it = [NoIt EXCEPT !.how = it.how])'
  <2>1. TurnFits => TurnFits'
    BY <1>2 DEF TurnFits, NormFits, BufFits, EventFits, CallEvent, ResultEvent, Streamed, CallsShown, Unanswered, HasKey, CallKey, ResultKey
  <2> QED BY <2>1 DEF StreamInv, Active
<1>4. EndedIsClosed' /\ ShownCallIsAnswered'
  BY SaidStays
<1> QED BY <1>1, <1>3, <1>4 DEF StreamInv

(* An event of the stream waits to be published.                            *)
LEMMA Arrives ==
  ASSUME StreamInv, Waiting, NEW e \in Pending, it' = [it EXCEPT !.e = e], UNCHANGED <<buf, live, cli, pend, turnNo>>,
         NormFits(norm)', norm'.next >= norm.next, sdk'.calls \subseteq sdk'.was, sdk'.was \subseteq Calls,
         EventFits(it.e)', Streamed(buf, it.e)', CallsShown(it.e)', Unanswered(it.e)' = Unanswered(Nothing)
  PROVE  StreamInv'
<1>1. /\ it' \in ItRecords /\ it'.e = e /\ it'.pc = it.pc /\ it'.how = it.how /\ it'.calls = it.calls
      /\ it'.deferred = it.deferred /\ it'.early = it.early /\ it \in ItRecords
  BY DEF StreamInv, Shape, ItRecords
<1>2. Shape'
  BY <1>1 DEF StreamInv, Shape
<1>3. Active /\ Active' /\ it.e = Nothing /\ it.pc # "enter"
  BY <1>1 DEF Waiting, Streams, Active
<1>4. TurnFits
  BY <1>3 DEF StreamInv
<1>5. BufFits(buf)'
  <2>1. \A k \in DOMAIN buf : k[3] < norm'.next
    <3> SUFFICES ASSUME NEW k \in DOMAIN buf PROVE k[3] < norm'.next
      OBVIOUS
    <3>1. k \in SegKeys /\ k[3] < norm.next
      BY <1>4 DEF TurnFits, BufFits
    <3>2. k[3] \in Nat
      BY <3>1 DEF SegKeys
    <3>3. norm.next \in Nat /\ norm'.next \in Nat
      BY <1>4 DEF TurnFits, NormFits
    <3> QED BY <3>1, <3>2, <3>3
  <2> QED BY <1>4, <2>1 DEF TurnFits, BufFits
<1>6. (\A x \in SegEvents : In(live, x) <=> Told(buf, x))'
  BY <1>4 DEF TurnFits
<1>7. it'.how = "none" /\ (it'.deferred => it'.calls > 0) /\ ~it'.early /\ it'.pc # "enter"
      /\ it'.calls = Cardinality(Unanswered(it.e)')
  BY <1>1, <1>3, <1>4 DEF TurnFits, ItRecords
<1>8. TurnFits'
  BY <1>5, <1>6, <1>7 DEF TurnFits
<1>9. EndedIsClosed' /\ ShownCallIsAnswered'
  BY <1>7, NothingSaid DEF EndedIsClosed, ShownCallIsAnswered
<1> QED BY <1>2, <1>3, <1>8, <1>9 DEF StreamInv

(* What holds when no event waits.                                          *)
LEMMA NoEventWaits ==
  ASSUME StreamInv, Waiting
  PROVE  /\ NormFits(norm) /\ BufFits(buf) /\ Streamed(buf, Nothing) /\ CallsShown(Nothing)
         /\ Unanswered(Nothing) = sdk.calls /\ turnNo \in Nat /\ sdk.calls \subseteq sdk.was /\ sdk.was \subseteq Calls
         /\ \A c \in Calls : /\ HasKey(live, CallKey(c)) <=> c \in sdk.was
                             /\ HasKey(live, ResultKey(c)) <=> c \in sdk.was \ sdk.calls
<1>1. TurnFits /\ it.e = Nothing
  BY DEF StreamInv, Waiting, Streams, Active
<1>2. turnNo \in Nat /\ sdk.calls \subseteq sdk.was /\ sdk.was \subseteq Calls
  BY CallsAreFinite DEF StreamInv, Shape
<1>3. Unanswered(Nothing) = sdk.calls
  BY <1>2, PendingFacts DEF Unanswered
<1>4. CallsShown(Nothing) /\ Streamed(buf, Nothing)
  BY <1>1 DEF TurnFits
<1> QED BY <1>1, <1>2, <1>3, <1>4, PendingFacts DEF TurnFits, CallsShown

(* An event that is not of a segment nor of a call says nothing new.        *)
LEMMA PlainArrives ==
  ASSUME StreamInv, Waiting, NEW e \in {Nothing, Stop, Timeout, Failure}, it' = [it EXCEPT !.e = e],
         UNCHANGED <<buf, live, cli, pend, turnNo>>, sdk'.calls = sdk.calls, sdk'.was = sdk.was,
         NormFits(norm)', norm'.segs = norm.segs, norm'.next = norm.next
  PROVE  StreamInv'
<1>1. it'.e = e /\ e \in Pending
  BY DEF StreamInv, Shape, ItRecords, Pending
<1>2. /\ NormFits(norm) /\ Streamed(buf, Nothing) /\ Unanswered(Nothing) = sdk.calls
      /\ sdk.calls \subseteq sdk.was /\ sdk.was \subseteq Calls
      /\ \A c \in Calls : /\ HasKey(live, CallKey(c)) <=> c \in sdk.was
                          /\ HasKey(live, ResultKey(c)) <=> c \in sdk.was \ sdk.calls
  BY NoEventWaits
<1>3. /\ \A id : SegKey(id)' = SegKey(id) /\ e.k # SegKey(id)
      /\ \A c : CallKey(c)' = CallKey(c) /\ ResultKey(c)' = ResultKey(c) /\ e.k # CallKey(c) /\ e.k # ResultKey(c)
  <2>1. (\A id : e.k # SegKey(id)) /\ (\A c : e.k # CallKey(c) /\ e.k # ResultKey(c))
    BY PendingFacts
  <2> QED BY <2>1 DEF SegKey, CallKey, ResultKey
<1>4. EventFits(it.e)'
  BY <1>1, PendingFacts DEF EventFits
<1>5. Streamed(buf, it.e)'
  <2>1. \A s \in DOMAIN norm.segs :
          /\ SegKey(norm.segs[s].id) \in DOMAIN buf
          /\ buf[SegKey(norm.segs[s].id)] = [n |-> norm.segs[s].n, complete |-> norm.segs[s].complete]
    BY <1>2, PendingFacts DEF Streamed
  <2> QED BY <1>1, <1>3, <2>1 DEF Streamed
<1>6. CallsShown(it.e)'
  BY <1>1, <1>2, <1>3 DEF CallsShown, HasKey
<1>7. Unanswered(it.e)' = Unanswered(Nothing)
  <2>1. Unanswered(it.e)' = sdk'.calls
    BY <1>1, <1>2, <1>3 DEF Unanswered
  <2> QED BY <1>2, <2>1
<1>8. norm'.next >= norm.next
  BY <1>2 DEF NormFits
<1>9. sdk'.calls \subseteq sdk'.was /\ sdk'.was \subseteq Calls
  BY <1>2
<1> QED BY <1>1, <1>4, <1>5, <1>6, <1>7, <1>8, <1>9, Arrives

(* A delta, or the whole text, of a segment.                                *)
LEMMA SegmentArrives ==
  ASSUME StreamInv, Waiting, UNCHANGED <<buf, live, cli, pend, turnNo>>, sdk'.calls = sdk.calls, sdk'.was = sdk.was,
         NormFits(norm'), NEW s \in DOMAIN norm'.segs, GoesOn(norm, norm', s),
         it' = [it EXCEPT !.e = Ev(SegKey(norm'.segs[s].id), Mark(norm'.segs[s].complete), norm'.segs[s].n)]
  PROVE  StreamInv'
<1> DEFINE g == norm'.segs[s]
           k == SegKey(g.id)
           e == Ev(k, Mark(g.complete), g.n)
<1>1. /\ NormFits(norm) /\ BufFits(buf) /\ Streamed(buf, Nothing) /\ Unanswered(Nothing) = sdk.calls /\ turnNo \in Nat
      /\ sdk.calls \subseteq sdk.was /\ sdk.was \subseteq Calls
      /\ \A c \in Calls : /\ HasKey(live, CallKey(c)) <=> c \in sdk.was
                          /\ HasKey(live, ResultKey(c)) <=> c \in sdk.was \ sdk.calls
  BY NoEventWaits
<1>2. g \in SegRecords /\ g.n > 0 /\ g.id < norm'.next /\ g.id \in Nat /\ g.n \in Nat
  BY DEF NormFits, SegRecords
<1>3. k \in SegKeys /\ k[2] = turnNo /\ k[3] = g.id
  BY <1>1, <1>2 DEF SegKey, SegKeys
<1>4. e.k = k /\ e.n = g.n /\ e.st \in {"open", "complete"} /\ e \in SegEvents
  BY <1>2, <1>3 DEF Ev, Mark, SegEvents
<1>5. it'.e = e /\ it' = [it EXCEPT !.e = e] /\ e \in Pending
  BY <1>4 DEF StreamInv, Shape, ItRecords, Pending, KeyedEvents
<1>6. norm'.next >= norm.next
  BY DEF GoesOn
<1>7. e \notin PlainEvents
  BY <1>4, KeyFacts DEF Events, Publishable, KeyedEvents
<1>8. /\ \A t \in DOMAIN norm.segs : /\ SegKey(norm.segs[t].id) \in DOMAIN buf
                                     /\ buf[SegKey(norm.segs[t].id)] = [n |-> norm.segs[t].n, complete |-> norm.segs[t].complete]
      /\ \A b \in DOMAIN buf : b[3] < norm.next
  BY <1>1, PendingFacts DEF Streamed, BufFits
<1>9. k \in DOMAIN buf => ~buf[k].complete
  <2>1. CASE g.id = norm.next
    <3>1. k \notin DOMAIN buf
      BY <1>2, <1>3, <1>8, <2>1
    <3> QED BY <3>1
  <2>2. CASE s \in DOMAIN norm.segs /\ norm.segs[s].id = g.id /\ ~norm.segs[s].complete
    <3>1. SegKey(norm.segs[s].id) = k
      BY <2>2
    <3> HIDE DEF k, e, g
    <3>2. buf[SegKey(norm.segs[s].id)] = [n |-> norm.segs[s].n, complete |-> norm.segs[s].complete]
      BY <1>8, <2>2
    <3>3. buf[k].complete = norm.segs[s].complete
      BY <3>1, <3>2
    <3> QED BY <2>2, <3>3
  <2> QED BY <2>1, <2>2 DEF GoesOn
<1>10. /\ \A id : SegKey(id)' = SegKey(id)
       /\ \A c : CallKey(c)' = CallKey(c) /\ ResultKey(c)' = ResultKey(c) /\ k # CallKey(c) /\ k # ResultKey(c)
       /\ \A i, j : SegKey(i) = SegKey(j) => i = j
  BY DEF SegKey, CallKey, ResultKey
<1>11. Streamed(buf, it.e)'
  <2> SUFFICES ASSUME NEW t \in DOMAIN norm'.segs
               PROVE  IF e.k = SegKey(norm'.segs[t].id)
                      THEN e = Ev(SegKey(norm'.segs[t].id), Mark(norm'.segs[t].complete), norm'.segs[t].n)
                      ELSE /\ SegKey(norm'.segs[t].id) \in DOMAIN buf
                           /\ buf[SegKey(norm'.segs[t].id)] = [n |-> norm'.segs[t].n, complete |-> norm'.segs[t].complete]
    BY <1>5, <1>10 DEF Streamed
  <2>1. CASE t = s
    BY <1>4, <2>1
  <2>2. CASE t # s
    <3>1. t \in DOMAIN norm.segs /\ norm'.segs[t] = norm.segs[t]
      BY <2>2 DEF GoesOn
    <3>2. norm'.segs[t].id # g.id
      BY <2>2 DEF NormFits
    <3>3. e.k # SegKey(norm'.segs[t].id)
      BY <1>4, <1>10, <3>2
    <3> QED BY <1>8, <3>1, <3>3
  <2> QED BY <2>1, <2>2
<1> HIDE DEF k, e, g
<1>12. EventFits(it.e)'
  BY <1>2, <1>3, <1>4, <1>5, <1>7, <1>9 DEF EventFits
<1>13. CallsShown(it.e)'
  <2>1. \A c \in Calls : /\ HasKey(live, CallKey(c)) <=> c \in sdk'.was /\ e.k # CallKey(c)
                         /\ HasKey(live, ResultKey(c)) <=> c \in sdk'.was \ sdk'.calls /\ e.k # ResultKey(c)
    BY <1>1, <1>4, <1>10
  <2>2. \A c : (HasKey(live, CallKey(c))' <=> HasKey(live, CallKey(c))) /\ (HasKey(live, ResultKey(c))' <=> HasKey(live, ResultKey(c)))
    BY <1>10 DEF HasKey
  <2>3. it'.e = e
    BY <1>5
  <2>4. ASSUME NEW c \in Calls
        PROVE  /\ HasKey(live, CallKey(c))' <=> c \in sdk'.was /\ it'.e.k # CallKey(c)'
               /\ HasKey(live, ResultKey(c))' <=> c \in sdk'.was \ sdk'.calls /\ it'.e.k # ResultKey(c)'
    <3>1. CallKey(c)' = CallKey(c) /\ ResultKey(c)' = ResultKey(c)
      BY <1>10
    <3> QED BY <3>1, <2>1, <2>2, <2>3
  <2> QED BY <2>4 DEF CallsShown
<1>14. Unanswered(it.e)' = Unanswered(Nothing)
  <2>1. Unanswered(it.e)' = sdk'.calls
    BY <1>1, <1>4, <1>5, <1>10 DEF Unanswered
  <2> QED BY <1>1, <2>1
<1>15. NormFits(norm)' /\ sdk'.calls \subseteq sdk'.was /\ sdk'.was \subseteq Calls
  BY <1>1 DEF NormFits
<1> QED BY <1>5, <1>6, <1>11, <1>12, <1>13, <1>14, <1>15, Arrives

(* A tool is called, or its output comes.                                   *)
LEMMA ItemArrives ==
  ASSUME StreamInv, Waiting, UNCHANGED <<buf, live, cli, pend, turnNo>>,
         NormFits(norm)', norm'.segs = norm.segs, norm'.next = norm.next,
         NEW c \in Calls, NEW e, it' = [it EXCEPT !.e = e],
         \/ e = CallEvent(c) /\ c \notin sdk.was /\ sdk'.calls = sdk.calls \cup {c} /\ sdk'.was = sdk.was \cup {c}
         \/ e = ResultEvent(c) /\ c \in sdk.calls /\ sdk'.calls = sdk.calls \ {c} /\ sdk'.was = sdk.was
  PROVE  StreamInv'
<1>1. /\ NormFits(norm) /\ BufFits(buf) /\ Streamed(buf, Nothing) /\ Unanswered(Nothing) = sdk.calls /\ turnNo \in Nat
      /\ sdk.calls \subseteq sdk.was /\ sdk.was \subseteq Calls
      /\ \A d \in Calls : /\ HasKey(live, CallKey(d)) <=> d \in sdk.was
                          /\ HasKey(live, ResultKey(d)) <=> d \in sdk.was \ sdk.calls
  BY NoEventWaits
<1>2. e \in PlainEvents /\ e \in Pending /\ (e.k = CallKey(c) \/ e.k = ResultKey(c))
  BY <1>1, TurnKeys DEF Pending, KeyedEvents
<1>3. it'.e = e
  BY DEF StreamInv, Shape, ItRecords
<1>4. /\ \A id : SegKey(id)' = SegKey(id) /\ SegKey(id) # CallKey(c) /\ SegKey(id) # ResultKey(c)
      /\ \A d : CallKey(d)' = CallKey(d) /\ ResultKey(d)' = ResultKey(d)
      /\ \A d : CallEvent(d)' = CallEvent(d) /\ ResultEvent(d)' = ResultEvent(d)
      /\ \A x, y : CallKey(x) = CallKey(y) => x = y
      /\ \A x, y : ResultKey(x) = ResultKey(y) => x = y
      /\ \A x, y : CallKey(x) # ResultKey(y)
  BY DEF SegKey, CallKey, ResultKey, CallEvent, ResultEvent
<1>5. e \notin SegEvents
  <2>1. e.k[1] # "seg"
    BY <1>2 DEF CallKey, ResultKey
  <2> QED BY <2>1, KeyNames DEF SegEvents
<1>6. EventFits(it.e)'
  <2>1. \/ e = CallEvent(c) /\ c \in sdk'.calls
        \/ e = ResultEvent(c) /\ c \in sdk'.was \ sdk'.calls
    BY <1>1
  <2>2. (it.e \notin SegEvents)'
     BY <1>3, <1>5
  <2>3. (\E d \in Calls : it.e = CallEvent(d) /\ d \in sdk.calls)' \/ (\E d \in Calls : it.e = ResultEvent(d) /\ d \in sdk.was \ sdk.calls)'
     BY <1>3, <2>1 DEF CallEvent, ResultEvent, CallKey, ResultKey
  <2>4. (\E d \in Calls : (it.e = CallEvent(d) /\ d \in sdk.calls) \/ (it.e = ResultEvent(d) /\ d \in sdk.was \ sdk.calls))'
     BY <2>3
  <2> QED BY <2>2, <2>4 DEF EventFits
<1>7. Streamed(buf, it.e)'
  <2>1. \A t \in DOMAIN norm.segs :
          /\ SegKey(norm.segs[t].id) \in DOMAIN buf
          /\ buf[SegKey(norm.segs[t].id)] = [n |-> norm.segs[t].n, complete |-> norm.segs[t].complete]
    BY <1>1, PendingFacts DEF Streamed
  <2>2. \A id : e.k # SegKey(id)
    BY <1>2, <1>4
  <2> QED BY <1>3, <1>4, <2>1, <2>2 DEF Streamed
<1>8. CASE e = CallEvent(c) /\ c \notin sdk.was /\ sdk'.calls = sdk.calls \cup {c} /\ sdk'.was = sdk.was \cup {c}
  <2>1. \A d : (e.k = CallKey(d) <=> d = c) /\ e.k # ResultKey(d)
    <3>1. e.k = CallKey(c)
      BY <1>8 DEF CallEvent, Ev
    <3> QED BY <1>4, <3>1
  <2>2. \A d \in Calls : /\ HasKey(live, CallKey(d)) <=> d \in sdk'.was /\ e.k # CallKey(d)
                         /\ HasKey(live, ResultKey(d)) <=> d \in sdk'.was \ sdk'.calls /\ e.k # ResultKey(d)
    BY <1>1, <1>8, <2>1
  <2>3. {d \in Calls : (d \in sdk'.calls /\ e.k # CallKey(d)) \/ e.k = ResultKey(d)} = sdk.calls
    BY <1>1, <1>8, <2>1
  <2>4. CallsShown(it.e)' /\ Unanswered(it.e)' = Unanswered(Nothing)
    BY <1>1, <1>3, <1>4, <2>2, <2>3 DEF CallsShown, HasKey, Unanswered
  <2>5. sdk'.calls \subseteq sdk'.was /\ sdk'.was \subseteq Calls
    BY <1>1, <1>8
  <2>6. norm'.next >= norm.next
    BY <1>1 DEF NormFits
  <2> QED BY <1>2, <1>6, <1>7, <2>4, <2>5, <2>6, Arrives
<1>9. CASE e = ResultEvent(c) /\ c \in sdk.calls /\ sdk'.calls = sdk.calls \ {c} /\ sdk'.was = sdk.was
  <2>1. \A d : (e.k = ResultKey(d) <=> d = c) /\ e.k # CallKey(d)
    <3>1. e.k = ResultKey(c)
      BY <1>9 DEF ResultEvent, Ev
    <3> QED BY <1>4, <3>1
  <2>2. \A d \in Calls : /\ HasKey(live, CallKey(d)) <=> d \in sdk'.was /\ e.k # CallKey(d)
                         /\ HasKey(live, ResultKey(d)) <=> d \in sdk'.was \ sdk'.calls /\ e.k # ResultKey(d)
    BY <1>1, <1>9, <2>1
  <2>3. {d \in Calls : (d \in sdk'.calls /\ e.k # CallKey(d)) \/ e.k = ResultKey(d)} = sdk.calls
    BY <1>1, <1>9, <2>1
  <2>4. CallsShown(it.e)' /\ Unanswered(it.e)' = Unanswered(Nothing)
    BY <1>1, <1>3, <1>4, <2>2, <2>3 DEF CallsShown, HasKey, Unanswered
  <2>5. sdk'.calls \subseteq sdk'.was /\ sdk'.was \subseteq Calls
    BY <1>1, <1>9
  <2>6. norm'.next >= norm.next
    BY <1>1 DEF NormFits
  <2> QED BY <1>2, <1>6, <1>7, <2>4, <2>5, <2>6, Arrives
<1> QED BY <1>8, <1>9

LEMMA SendsFit ==
  ASSUME StreamInv, NEW raw \in RawNext, stream_sends(raw)
  PROVE  StreamInv'
<1> DEFINE r == event_from_sdk_stream(norm, raw)
<1>1. /\ Waiting /\ norm' = r.norm /\ it' = [it EXCEPT !.e = r.ev] /\ UNCHANGED <<buf, live, cli, pend, turnNo>>
      /\ sdk'.calls = CASE raw[1] = "called" -> sdk.calls \cup {raw[2]}
                        [] raw[1] = "output" -> sdk.calls \ {raw[2]}
                        [] OTHER             -> sdk.calls
      /\ sdk'.was = IF raw[1] = "called" THEN sdk.was \cup {raw[2]} ELSE sdk.was
  BY DEF stream_sends
<1>2. NormFits(norm) /\ sdk.calls \subseteq sdk.was /\ sdk.was \subseteq Calls
  BY <1>1, NoEventWaits
<1>3. \/ raw[1] \in {"stop", "failure", "created", "completed"}
      \/ \E kind \in Kinds : raw = <<"delta", kind>> \/ (raw = <<"textdone", kind>> /\ ~IsDone(kind))
      \/ \E c \in Calls : raw = <<"called", c>> /\ c \notin sdk.was
      \/ \E c \in sdk.calls : raw = <<"output", c>>
  <2>1. CASE raw \in {<<"stop">>, <<"failure">>}
    BY <2>1
  <2>2. CASE raw \in {<<"output", c>> : c \in sdk.calls}
    BY <2>2
  <2>3. CASE raw \in {<<"created">>, <<"completed">>}
    BY <2>3
  <2>4. CASE raw \in {<<"delta", k>> : k \in Kinds} \cup {<<"textdone", k>> : k \in {x \in Kinds : ~IsDone(x)}}
    BY <2>4
  <2>5. CASE raw \in {<<"called", c>> : c \in Calls \ sdk.was}
    BY <2>5
  <2> QED BY <2>1, <2>2, <2>3, <2>4, <2>5 DEF RawNext
<1>4. CASE raw[1] \in {"stop", "failure", "created", "completed"}
  <2>1. NormFits(norm') /\ norm'.segs = norm.segs /\ norm'.next = norm.next /\ r.ev \in {Nothing, Stop, Failure}
    BY <1>1, <1>2, <1>4, ItemEmits
  <2>2. sdk'.calls = sdk.calls /\ sdk'.was = sdk.was
    BY <1>1, <1>4
  <2>3. NormFits(norm)'
    BY <2>1 DEF NormFits
  <2> HIDE DEF r
  <2> QED BY <1>1, <2>1, <2>2, <2>3, PlainArrives
<1>5. CASE \E kind \in Kinds : raw = <<"delta", kind>> \/ (raw = <<"textdone", kind>> /\ ~IsDone(kind))
  <2>1. NormFits(r.norm) /\ \E s \in DOMAIN r.norm.segs :
              /\ GoesOn(norm, r.norm, s)
              /\ r.ev = Ev(SegKey(r.norm.segs[s].id), Mark(r.norm.segs[s].complete), r.norm.segs[s].n)
    BY <1>2, <1>5, SegmentEmits
  <2>2. sdk'.calls = sdk.calls /\ sdk'.was = sdk.was
    BY <1>1, <1>5
  <2> HIDE DEF r
  <2>3. PICK s \in DOMAIN norm'.segs :
              /\ GoesOn(norm, norm', s)
              /\ r.ev = Ev(SegKey(norm'.segs[s].id), Mark(norm'.segs[s].complete), norm'.segs[s].n)
    BY <1>1, <2>1
  <2>4. NormFits(norm')
    BY <1>1, <2>1
  <2>5. it' = [it EXCEPT !.e = Ev(SegKey(norm'.segs[s].id), Mark(norm'.segs[s].complete), norm'.segs[s].n)]
    BY <1>1, <2>3
  <2> QED BY <1>1, <2>2, <2>3, <2>4, <2>5, SegmentArrives
<1>6. CASE \E c \in Calls : raw = <<"called", c>> /\ c \notin sdk.was
  <2>1. PICK c \in Calls : raw = <<"called", c>> /\ c \notin sdk.was
    BY <1>6
  <2>0. raw[1] = "called" /\ raw[2] = c
    BY <2>1
  <2>2. NormFits(norm') /\ norm'.segs = norm.segs /\ norm'.next = norm.next /\ r.ev = CallEvent(c)
    BY <1>1, <1>2, <2>0, ItemEmits
  <2>3. sdk'.calls = sdk.calls \cup {c} /\ sdk'.was = sdk.was \cup {c}
    BY <1>1, <2>0
  <2>4. NormFits(norm)'
    BY <2>2 DEF NormFits
  <2> HIDE DEF r
  <2> QED BY <1>1, <2>1, <2>2, <2>3, <2>4, ItemArrives
<1>7. CASE \E c \in sdk.calls : raw = <<"output", c>>
  <2>1. PICK c \in sdk.calls : raw = <<"output", c>>
    BY <1>7
  <2>0. raw[1] = "output" /\ raw[2] = c /\ c \in Calls
    BY <1>2, <2>1
  <2>2. NormFits(norm') /\ norm'.segs = norm.segs /\ norm'.next = norm.next /\ r.ev = ResultEvent(c)
    BY <1>1, <1>2, <2>0, ItemEmits
  <2>3. sdk'.calls = sdk.calls \ {c} /\ sdk'.was = sdk.was
    BY <1>1, <2>0
  <2>4. NormFits(norm)'
    BY <2>2 DEF NormFits
  <2> HIDE DEF r
  <2> QED BY <1>1, <2>0, <2>1, <2>2, <2>3, <2>4, ItemArrives
<1> QED BY <1>3, <1>4, <1>5, <1>6, <1>7

LEMMA IdlesFit ==
  ASSUME StreamInv, stream_idles
  PROVE  StreamInv'
<1>1. Waiting /\ it' = [it EXCEPT !.e = Timeout] /\ UNCHANGED <<norm, buf, live, cli, pend, sdk, turnNo>>
  BY DEF stream_idles
<1>2. NormFits(norm)' /\ Timeout \in {Nothing, Stop, Timeout, Failure}
  BY <1>1, NoEventWaits DEF NormFits
<1> QED BY <1>1, <1>2, PlainArrives

(* The driver moves on and publishes nothing.                               *)
LEMMA DriverMoves ==
  ASSUME StreamInv, NEW pc \in {"wait", "query"}, NEW s \in BOOLEAN, NEW early \in BOOLEAN, NEW deferred \in BOOLEAN,
         Active, it' = [it EXCEPT !.pc = pc, !.s = s, !.early = early, !.deferred = deferred],
         early => it.e # Nothing, deferred => it.calls > 0,
         UNCHANGED <<norm, buf, live, cli, sdk, turnNo>>, pend' \in BOOLEAN
  PROVE  StreamInv'
<1>1. it \in ItRecords
  BY DEF StreamInv, Shape
<1>2. /\ it' \in ItRecords /\ it'.pc = pc /\ it'.e = it.e /\ it'.how = it.how /\ it'.calls = it.calls
      /\ it'.deferred = deferred /\ it'.early = early
  BY <1>1 DEF ItRecords
<1>3. Active'
  BY <1>2 DEF Active
<1> QED BY <1>2, <1>3, ItMoves

-----------------------------------------------------------------------------
(* Publishing. *)

HasThen(first, k) == \E x \in PlainEvents : There(first, Len(first), live, x) /\ x.k = k

(* A turn ends.                                                             *)
LEMMA EndFits ==
  ASSUME Shape, NormFits(norm), NEW how \in {"done", "interrupted", "canceled"},
         NEW first, Fits(first, live), Len(first) \in {0, 1}, NEW b, BufFits(b), NEW evs \in incomplete_segment_events(b),
         \A x \in SegEvents : There(first, Len(first), live, x) <=> Told(b, x),
         publish(first \o evs \o <<Done>>), it' = [NoIt EXCEPT !.how = how], UNCHANGED <<norm, pend, sdk, turnNo>>,
         how = "done" => Streamed(b, Nothing),
         how = "interrupted" => \A c \in Calls : HasThen(first, CallKey(c)) => HasThen(first, ResultKey(c))
  PROVE  StreamInv'
<1>0. LiveFits(live) /\ ClientFits(cli, live)
  BY DEF Shape
<1>1. /\ LiveFits(live') /\ ClientFits(cli', live')
      /\ \A x \in SegEvents : In(live', x) => x.st = "complete" /\ x.k \in DOMAIN b /\ x.n = b[x.k].n
      /\ \A x \in PlainEvents : In(live', x) <=> There(first, Len(first), live, x)
  BY <1>0, EndPuts
<1>2. /\ it'.pc = "ended" /\ it'.how = how /\ it' \in ItRecords /\ it' = [NoIt EXCEPT !.how = it'.how]
      /\ ~Active'
  BY DEF NoIt, ItRecords, Pending, Active
<1>3. Shape'
  BY <1>1, <1>2 DEF Shape
<1>4. EndedIsClosed'
  <2>1. ASSUME NEW i \in DOMAIN live'.ev, live'.ev[i].k[1] = "seg"
        PROVE  /\ live'.ev[i].st = "complete"
               /\ \A s \in DOMAIN norm.segs : SegKey(norm.segs[s].id) = live'.ev[i].k =>
                    live'.ev[i].n = norm.segs[s].n \/ how # "done"
    <3> DEFINE x == live'.ev[i]
    <3>1. x \in Events
      BY <1>1 DEF LiveFits
    <3>2. x \in SegEvents /\ In(live', x)
      BY <3>1, <2>1, KeyFacts DEF In
    <3>3. x.st = "complete" /\ x.k \in DOMAIN b /\ x.n = b[x.k].n
      BY <1>1, <3>2
    <3> HIDE DEF x
    <3>4. ASSUME NEW s \in DOMAIN norm.segs, SegKey(norm.segs[s].id) = x.k, how = "done" PROVE x.n = norm.segs[s].n
      <4>1. b[x.k] = [n |-> norm.segs[s].n, complete |-> norm.segs[s].complete]
        BY <3>4, PendingFacts DEF Streamed
      <4> QED BY <3>3, <4>1
    <3> QED BY <3>3, <3>4 DEF x
  <2>2. \A id : SegKey(id)' = SegKey(id)
    BY DEF SegKey
  <2> QED BY <1>2, <2>1, <2>2 DEF EndedIsClosed
<1>5. ShownCallIsAnswered'
  <2> SUFFICES ASSUME how = "interrupted", NEW c \in Calls, Shown(<<"call", turnNo, c>>)' # {}
               PROVE  Shown(<<"result", turnNo, c>>)' # {}
    BY <1>2 DEF ShownCallIsAnswered
  <2>1. turnNo \in Nat /\ CallKey(c) \in PlainKeys /\ ResultKey(c) \in PlainKeys
    BY CallsAreFinite DEF CallKey, ResultKey, PlainKeys, CallKeys, ResultKeys
  <2>3. \A k : HasKey(live', k) <=> HasThen(first, k)
    BY <1>1 DEF HasKey, HasThen
  <2>5. HasThen(first, CallKey(c))
    <3>2. {i \in DOMAIN live'.ev : live'.ev[i].k = CallKey(c)} # {}
      BY DEF Shown, CallKey
    <3> QED BY <1>1, <2>1, <2>3, <3>2, ShownHas
  <2>6. {i \in DOMAIN live'.ev : live'.ev[i].k = ResultKey(c)} # {}
    BY <1>1, <2>1, <2>3, <2>5, ShownHas
  <2> QED BY <2>6 DEF Shown, ResultKey
<1> QED BY <1>2, <1>3, <1>4, <1>5 DEF StreamInv

(* The event that waits is published and the turn goes on.                  *)
LEMMA GoesOnFits ==
  ASSUME StreamInv, Active, it.e \in KeyedEvents, NEW d \in BOOLEAN, NEW s \in BOOLEAN,
         it' = [it EXCEPT !.pc = "wait", !.e = Nothing, !.calls = CountCalls(it.calls, it.e), !.early = FALSE,
                          !.deferred = d, !.s = s],
         d => CountCalls(it.calls, it.e) # 0, publish(<<it.e>>), buf' = track_delta(buf, it.e),
         UNCHANGED <<norm, pend, sdk, turnNo>>
  PROVE  StreamInv'
<1> DEFINE b == track_delta(buf, it.e)
           n == CountCalls(it.calls, it.e)
<1>0. Shape /\ TurnFits /\ LiveFits(live) /\ ClientFits(cli, live) /\ it \in ItRecords
  BY DEF StreamInv, Shape
<1>1. EventMay(it.e, b)
  BY <1>0, SegmentTaken, ItemTaken DEF KeyedEvents
<1>2. Cardinality(sdk.calls) \in Nat /\ turnNo \in Nat
  BY <1>0, CallsAreFinite
<1> HIDE DEF b, n
<1>3. /\ LiveFits(live') /\ ClientFits(cli', live')
      /\ \A x \in KeyedEvents : In(live', x) <=> After(it.e, x)
  <2>1. Fits(<<it.e>>, live) /\ Len(<<it.e>>) = 1 /\ \A x : There(<<it.e>>, 1, live, x) <=> After(it.e, x)
    BY <1>1, OneEvent DEF EventMay
  <2> QED BY <1>0, <2>1, PublishPuts
<1>4. n \in Nat /\ n = Cardinality(sdk.calls)
  BY <1>1, <1>2 DEF EventMay, n
<1>5. /\ it' \in ItRecords /\ it'.pc = "wait" /\ it'.e = Nothing /\ it'.calls = n /\ it'.early = FALSE /\ it'.deferred = d
      /\ it'.how = it.how
  BY <1>0, <1>4 DEF ItRecords, Pending, n
<1>6. Shape' /\ Active'
  BY <1>0, <1>3, <1>5 DEF Shape, Active
<1>7. \A id : SegKey(id)' = SegKey(id)
  BY DEF SegKey
<1>8. NormFits(norm)' /\ BufFits(buf)' /\ Streamed(buf, it.e)' /\ (\A x \in SegEvents : In(live, x) <=> Told(buf, x))'
  <2>1. NormFits(norm)'
    BY <1>0 DEF TurnFits, NormFits
  <2>2. BufFits(buf)'
    BY <1>1 DEF EventMay, BufFits, b
  <2>3. Streamed(buf, it.e)'
    BY <1>1, <1>5, <1>7 DEF EventMay, Streamed, b
  <2>4. \A x \in SegEvents : In(live', x) <=> Told(buf', x)
    BY <1>1, <1>3 DEF EventMay, SegmentsAfter, KeyedEvents, b
  <2> QED BY <2>1, <2>2, <2>3, <2>4
<1>9. EventFits(it.e)'
  BY <1>5, PendingFacts DEF EventFits
<1>10. CallsShown(it.e)' /\ Unanswered(it.e)' = sdk.calls
  <2>1. \A k : HasKey(live', k) <=> HasAfter(it.e, k)
    BY <1>3 DEF HasKey, HasAfter, KeyedEvents
  <2>2. \A c : Nothing.k # CallKey(c)' /\ Nothing.k # ResultKey(c)' /\ CallKey(c)' = CallKey(c) /\ ResultKey(c)' = ResultKey(c)
    BY PendingFacts DEF CallKey, ResultKey
  <2>3. CallsShown(it.e)'
    BY <1>1, <1>5, <2>1, <2>2 DEF EventMay, CallsAfter, CallsShown
  <2>4. sdk.calls \subseteq Calls
    BY <1>0 DEF Shape
  <2> QED BY <1>5, <2>2, <2>3, <2>4 DEF Unanswered
<1>11. it'.how = "none" /\ (it'.deferred => it'.calls > 0)
  BY <1>0, <1>4, <1>5 DEF TurnFits, n
<1>12. TurnFits'
  <2>1. it'.calls = Cardinality(Unanswered(it.e)')
    BY <1>4, <1>5, <1>10
  <2> QED BY <1>5, <1>8, <1>9, <1>10, <1>11, <2>1 DEF TurnFits
<1>13. EndedIsClosed' /\ ShownCallIsAnswered'
  BY <1>11 DEF EndedIsClosed, ShownCallIsAnswered
<1> QED BY <1>6, <1>12, <1>13 DEF StreamInv

(* The event that waits is published and the turn is interrupted.           *)
LEMMA CutFits ==
  ASSUME StreamInv, Active, it.e \in KeyedEvents, CountCalls(it.calls, it.e) = 0,
         StreamEnds("interrupted", <<it.e>>, incomplete_segment_events(track_delta(buf, it.e))),
         UNCHANGED <<norm, pend, sdk, turnNo>>
  PROVE  StreamInv'
<1> DEFINE b == track_delta(buf, it.e)
           first == <<it.e>>
<1>0. Shape /\ TurnFits /\ NormFits(norm)
  BY DEF StreamInv, TurnFits
<1>1. EventMay(it.e, b)
  BY <1>0, SegmentTaken, ItemTaken DEF KeyedEvents
<1>2. sdk.calls = {}
  BY <1>0, <1>1, CallsAreFinite DEF EventMay
<1> HIDE DEF b
<1>3. Fits(first, live) /\ Len(first) = 1 /\ \A x : There(first, Len(first), live, x) <=> After(it.e, x)
  BY <1>1, OneEvent DEF EventMay
<1>4. PICK evs \in incomplete_segment_events(b) : publish(first \o evs \o <<Done>>)
  BY DEF StreamEnds, b
<1>5. it' = [NoIt EXCEPT !.how = "interrupted"]
  BY DEF StreamEnds
<1> HIDE DEF first
<1>6. \A x \in SegEvents : There(first, Len(first), live, x) <=> Told(b, x)
  BY <1>1, <1>3 DEF EventMay, SegmentsAfter
<1>7. \A c \in Calls : HasThen(first, CallKey(c)) => HasThen(first, ResultKey(c))
  <2>1. \A k : HasThen(first, k) <=> HasAfter(it.e, k)
    BY <1>3 DEF HasThen, HasAfter
  <2> QED BY <1>1, <1>2, <2>1 DEF EventMay, CallsAfter
<1>8. BufFits(b) /\ Len(first) \in {0, 1}
  BY <1>1, <1>3 DEF EventMay
<1> QED BY <1>0, <1>3, <1>4, <1>5, <1>6, <1>7, <1>8, EndFits

(* The turn ends with what has been published.                              *)
LEMMA FinalizeFits ==
  ASSUME StreamInv, Active, NEW how \in {"done", "interrupted", "canceled"}, finalize_interrupted_turn(how),
         how = "done" => it.e = Stop, how = "interrupted" => it.calls = 0, UNCHANGED <<norm, pend, sdk, turnNo>>
  PROVE  StreamInv'
<1> DEFINE first == <<>>
<1>0. Shape /\ TurnFits /\ NormFits(norm) /\ BufFits(buf)
  BY DEF StreamInv, TurnFits
<1>1. Fits(first, live) /\ Len(first) = 0 /\ \A x : There(first, Len(first), live, x) <=> In(live, x)
  BY OneEvent
<1>2. PICK evs \in incomplete_segment_events(buf) : publish(first \o evs \o <<Done>>)
  BY DEF finalize_interrupted_turn, StreamEnds
<1>3. it' = [NoIt EXCEPT !.how = how]
  BY DEF finalize_interrupted_turn, StreamEnds
<1> HIDE DEF first
<1>4. \A x \in SegEvents : There(first, Len(first), live, x) <=> Told(buf, x)
  BY <1>0, <1>1 DEF TurnFits
<1>5. how = "done" => Streamed(buf, Nothing)
  BY <1>0, PendingFacts DEF TurnFits, Streamed
<1>6. ASSUME how = "interrupted", NEW c \in Calls, HasThen(first, CallKey(c)) PROVE HasThen(first, ResultKey(c))
  <2>1. \A k : HasThen(first, k) <=> HasKey(live, k)
    BY <1>1 DEF HasThen, HasKey
  <2>2. c \in sdk.was /\ it.e.k # CallKey(c)
    BY <1>0, <1>6, <2>1 DEF TurnFits, CallsShown
  <2>3. IsFiniteSet(Unanswered(it.e))
    BY StreamAssumption, FS_Subset DEF Unanswered
  <2>4. Unanswered(it.e) = {}
    BY <1>0, <1>6, <2>3, FS_EmptySet DEF TurnFits
  <2>5. c \notin sdk.calls /\ it.e.k # ResultKey(c)
    BY <2>2, <2>4 DEF Unanswered
  <2> QED BY <1>0, <2>1, <2>2, <2>5 DEF TurnFits, CallsShown
<1>7. Len(first) \in {0, 1}
  BY <1>1
<1> QED BY <1>0, <1>1, <1>2, <1>3, <1>4, <1>5, <1>6, <1>7, EndFits

(* The stream fails: what was shown stays as it is.                         *)
LEMMA FailureFits ==
  ASSUME StreamInv, StreamEnds("failed", <<Error>>, {<<>>}), UNCHANGED <<norm, pend, sdk, turnNo>>
  PROVE  StreamInv'
<1> DEFINE evs == <<Error>> \o <<>> \o <<Done>>
<1>0. Shape /\ LiveFits(live) /\ ClientFits(cli, live)
  BY DEF StreamInv, Shape
<1>1. publish(<<Error>> \o <<>> \o <<Done>>) /\ it' = [NoIt EXCEPT !.how = "failed"]
  BY DEF StreamEnds
<1>2. evs \in Seq({Error, Done})
  <2>1. <<Error>> \in Seq({Error, Done}) /\ <<>> \in Seq({Error, Done}) /\ <<Done>> \in Seq({Error, Done})
    OBVIOUS
  <2> QED BY <2>1
<1>3. evs \in Seq(Publishable)
  BY <1>2 DEF Publishable
<1>4. Error \notin KeyedEvents /\ Done \notin KeyedEvents
  <2>1. Error \in Events /\ Done \in Events /\ Error.k[1] \notin Keyed /\ Done.k[1] \notin Keyed
    BY DEF Events, Publishable, Error, Done, Ev, Keyed
  <2> QED BY <2>1, KeyFacts
<1>5. publish(evs)
  BY <1>1
<1> HIDE DEF evs
<1>6. Fits(evs, live)
  BY <1>2, <1>3, <1>4 DEF Fits
<1>7. LiveFits(live') /\ ClientFits(cli', live')
  BY <1>0, <1>5, <1>6, PublishPuts
<1>8. /\ it'.how = "failed" /\ it' \in ItRecords /\ it' = [NoIt EXCEPT !.how = it'.how] /\ ~Active'
  BY <1>1 DEF NoIt, ItRecords, Pending, Active
<1>9. Shape'
  BY <1>0, <1>7, <1>8 DEF Shape
<1>10. EndedIsClosed' /\ ShownCallIsAnswered'
  BY <1>8 DEF EndedIsClosed, ShownCallIsAnswered
<1> QED BY <1>8, <1>9, <1>10 DEF StreamInv

LEMMA TakesFit ==
  ASSUME StreamInv, it.pc \in {"wait", "query"}, it.e # Nothing, NEW asked \in BOOLEAN, NEW signaled \in BOOLEAN,
         takes_event(asked, signaled), UNCHANGED <<norm, pend, sdk, turnNo>>
  PROVE  StreamInv'
<1> DEFINE n == CountCalls(it.calls, it.e)
<1>0. Active /\ it \in ItRecords
  BY DEF Active, StreamInv, Shape
<1>1. CASE it.e = Stop
  <2>1. finalize_interrupted_turn("done")
    BY <1>1, PendingDiffer DEF takes_event, finalize_interrupted_turn
  <2> QED BY <1>0, <1>1, <2>1, FinalizeFits
<1>2. CASE it.e \in {Timeout, Failure}
  <2>1. StreamEnds("failed", <<Error>>, {<<>>})
    BY <1>2, PendingDiffer DEF takes_event
  <2> QED BY <2>1, FailureFits
<1>3. CASE it.e \in KeyedEvents
  <2>1. it.e # Stop /\ it.e \notin {Timeout, Failure}
    BY <1>3, PendingFacts
  <2>2. CASE n = 0 /\ (it.deferred \/ signaled)
    <3>1. StreamEnds("interrupted", <<it.e>>, incomplete_segment_events(track_delta(buf, it.e)))
      BY <2>1, <2>2 DEF takes_event, SafePoint, Deferred
    <3> QED BY <1>0, <1>3, <2>2, <3>1, CutFits
  <2>3. CASE ~(n = 0 /\ (it.deferred \/ signaled))
    <3> DEFINE d == it.deferred \/ signaled
               s == IF asked THEN FALSE ELSE it.s
    <3>1. /\ it' = [it EXCEPT !.pc = "wait", !.e = Nothing, !.calls = n, !.early = FALSE, !.deferred = d, !.s = s]
          /\ publish(<<it.e>>) /\ buf' = track_delta(buf, it.e)
      BY <2>1, <2>3 DEF takes_event, SafePoint, Deferred
    <3>2. d \in BOOLEAN /\ s \in BOOLEAN
      BY <1>0 DEF ItRecords
    <3>3. d => n # 0
      BY <2>3
    <3> HIDE DEF d, s
    <3> QED BY <1>0, <1>3, <3>1, <3>2, <3>3, GoesOnFits
  <2> QED BY <2>2, <2>3
<1> QED BY <1>0, <1>1, <1>2, <1>3 DEF ItRecords, Pending

-----------------------------------------------------------------------------
(* The run starts and ends.                                                 *)

LEMMA WithoutRunTyped ==
  ASSUME NEW evs \in Seq(Events)
  PROVE  WithoutRun(evs) \in Seq(Events)
<1> DEFINE Goes(i, before) == IF IsRun(evs[i]) THEN before ELSE Append(before, evs[i])
           Fit(n, f) == f = [i \in 0..n |-> IF i = 0 THEN <<>> ELSE Goes(i, f[i-1])]
           S == {n \in 0..Len(evs) : \E f : Fit(n, f)}
<1> HIDE DEF Goes
<1>0. Len(evs) \in Nat
  OBVIOUS
<1>1. 0 \in S
  <2> DEFINE f == [i \in 0..0 |-> <<>>]
  <2>1. Fit(0, f)
    OBVIOUS
  <2> HIDE DEF f, Fit
  <2> QED BY <2>1, <1>0
<1>2. ASSUME NEW n \in 0..Len(evs), n < Len(evs), n \in S PROVE n + 1 \in S
  <2>1. PICK f : Fit(n, f)
    BY <1>2
  <2> DEFINE g == [i \in 0..(n+1) |-> IF i = n + 1 THEN Goes(n + 1, f[n]) ELSE f[i]]
             h == [i \in 0..(n+1) |-> IF i = 0 THEN <<>> ELSE Goes(i, g[i-1])]
  <2>2. ASSUME NEW i \in 0..(n+1) PROVE g[i] = h[i]
    <3>1. CASE i = 0
      BY <2>1, <3>1, <1>0
    <3>2. CASE i = n + 1
      <4>1. i # 0 /\ i - 1 = n /\ n \in 0..(n+1) /\ n # n + 1
        BY <3>2
      <4>2. g[n] = f[n]
        BY <4>1
      <4> QED BY <3>2, <4>1, <4>2
    <3>3. CASE i # 0 /\ i # n + 1
      <4>1. i \in 0..n /\ i - 1 \in 0..(n+1) /\ i - 1 # n + 1 /\ i - 1 \in 0..n
        BY <3>3
      <4>2. f[i] = Goes(i, f[i-1])
        BY <2>1, <4>1, <3>3
      <4>3. g[i-1] = f[i-1] /\ g[i] = f[i]
        BY <4>1, <3>3
      <4> QED BY <4>2, <4>3, <3>3
    <3> QED BY <3>1, <3>2, <3>3
  <2>3. Fit(n + 1, g)
    <3>1. g = h
      BY <2>2
    <3> QED BY <3>1
  <2> HIDE DEF g, Fit
  <2>4. n + 1 \in 0..Len(evs)
    BY <1>0, <1>2
  <2> QED BY <2>3, <2>4
<1>3. Len(evs) \in S
  <2> HIDE DEF S
  <2>1. \A i \in 0..Len(evs) : i \in S
    BY <1>0, <1>1, <1>2, UpTo
  <2> QED BY <2>1, <1>0
<1> DEFINE kept == CHOOSE kept : kept = [i \in 0..Len(evs) |-> IF i = 0 THEN <<>> ELSE IF IsRun(evs[i]) THEN kept[i-1] ELSE Append(kept[i-1], evs[i])]
<1>4. \E f : f = [i \in 0..Len(evs) |-> IF i = 0 THEN <<>> ELSE IF IsRun(evs[i]) THEN f[i-1] ELSE Append(f[i-1], evs[i])]
  BY <1>3 DEF Goes
<1>5. kept = [i \in 0..Len(evs) |-> IF i = 0 THEN <<>> ELSE IF IsRun(evs[i]) THEN kept[i-1] ELSE Append(kept[i-1], evs[i])]
  BY <1>4, Zenon
<1>6. WithoutRun(evs) = kept[Len(evs)]
  BY Zenon DEF WithoutRun
<1> HIDE DEF kept
<1>7. kept[0] = <<>> /\ \A i \in 1..Len(evs) : kept[i] = Goes(i, kept[i-1])
  <2> DEFINE body(i) == IF i = 0 THEN <<>> ELSE IF IsRun(evs[i]) THEN kept[i-1] ELSE Append(kept[i-1], evs[i])
  <2>1. \A i \in 0..Len(evs) : kept[i] = body(i)
    BY <1>5, Zenon
  <2>2. 0 \in 0..Len(evs) /\ \A i \in 1..Len(evs) : i \in 0..Len(evs) /\ i # 0
    BY <1>0
  <2> QED BY <2>1, <2>2 DEF Goes
<1> DEFINE T == {i \in 0..Len(evs) : kept[i] \in Seq(Events)}
<1>8. 0 \in T
  <2>1. <<>> \in Seq(Events)
    OBVIOUS
  <2>2. kept[0] \in Seq(Events)
    BY <1>7, <2>1
  <2> QED BY <1>0, <2>2
<1>9. ASSUME NEW i \in 0..Len(evs), i < Len(evs), i \in T PROVE i + 1 \in T
  <2>1. i + 1 \in 1..Len(evs) /\ (i + 1) - 1 = i
    BY <1>0, <1>9
  <2>2. kept[i + 1] = Goes(i + 1, kept[i])
    BY <1>7, <2>1
  <2>3. evs[i + 1] \in Events /\ kept[i] \in Seq(Events)
    BY <2>1, <1>9
  <2>4. kept[i + 1] \in Seq(Events)
    BY <2>2, <2>3 DEF Goes
  <2> QED BY <2>1, <2>4
<1>10. Len(evs) \in T
  <2> HIDE DEF T
  <2>1. \A i \in 0..Len(evs) : i \in T
    BY <1>0, <1>8, <1>9, UpTo
  <2> QED BY <2>1, <1>0
<1> QED BY <1>6, <1>10

(* The projection starts over with one event of the run.                    *)
LEMMA ResetFits ==
  ASSUME NEW e \in {Run, Idle}
  PROVE  LiveFits(ResetTo(e)) /\ \A x \in KeyedEvents : ~In(ResetTo(e), x)
<1> DEFINE l == ResetTo(e)
<1>1. e \in Events /\ IsRun(e) /\ e.k[1] \notin Keyed
  <2>1. e \in Events
    BY DEF Events
  <2>2. e.k[1] = "run"
    BY DEF Run, Idle, Ev
  <2> QED BY <2>1, <2>2 DEF IsRun, Keyed
<1>2. e \notin KeyedEvents /\ ~Indexed(e)
  BY <1>1, KeyFacts DEF Indexed
<1>3. l.ev = <<e>> /\ l.idx = <<>> /\ l = [ev |-> l.ev, idx |-> l.idx] /\ DOMAIN l.idx = {}
  BY DEF ResetTo
<1>4. l.ev \in Seq(Events) /\ \A i \in DOMAIN l.ev : l.ev[i] = e /\ i = 1
  BY <1>1, <1>3
<1> HIDE DEF l
<1>5. Once(l.ev) /\ IndexFits(l)
  BY <1>2, <1>3, <1>4 DEF Once, IndexFits
<1>6. \A x \in KeyedEvents : ~In(l, x)
  BY <1>2, <1>4 DEF In
<1>7. LiveFits(l)
  BY <1>3, <1>4, <1>5 DEF LiveFits
<1> QED BY <1>6, <1>7 DEF l

(* A client of an empty projection: its queue holds events.                 *)
LEMMA ResetClient ==
  ASSUME NEW c, NEW l, ClientFits(c, l), NEW m, m.ev \in Seq(Events), NEW e \in {Run, Idle}
  PROVE  ClientFits(enqueue_or_rebase(c, m, e), ResetTo(e))
<1> DEFINE d == enqueue_or_rebase(c, m, e)
           q == IF e # Idle THEN m.ev ELSE Append(WithoutRun(m.ev), e)
<1>1. e \in Events /\ WithoutRun(m.ev) \in Seq(Events)
  BY WithoutRunTyped DEF Events
<1>2. c = [on |-> c.on, q |-> c.q, seen |-> c.seen] /\ c.on \in BOOLEAN /\ c.q \in Seq(Events)
  BY DEF ClientFits
<1>3. q \in Seq(Events)
  BY <1>1
<1>4. Append(c.q, e) \in Seq(Events)
  BY <1>1, <1>2
<1>5. d = c \/ d = [c EXCEPT !.q = Append(@, e)] \/ d = [c EXCEPT !.q = q]
  BY DEF enqueue_or_rebase
<1> HIDE DEF d, q
<1>6. d = [on |-> d.on, q |-> d.q, seen |-> d.seen] /\ d.on \in BOOLEAN /\ d.q \in Seq(Events)
  <2>1. CASE d = c
    BY <1>2, <2>1
  <2>2. CASE d = [c EXCEPT !.q = Append(@, e)]
    <3>1. d = [on |-> c.on, q |-> Append(c.q, e), seen |-> c.seen]
      BY <1>2, <2>2
    <3> QED BY <1>2, <1>4, <3>1
  <2>3. CASE d = [c EXCEPT !.q = q]
    <3>1. d = [on |-> c.on, q |-> q, seen |-> c.seen]
      BY <1>2, <2>3
    <3> QED BY <1>2, <1>3, <3>1
  <2> QED BY <1>5, <2>1, <2>2, <2>3
<1>7. ClientFits(d, ResetTo(e))
  BY <1>6, ResetFits DEF ClientFits
<1> QED BY <1>7 DEF d

LEMMA StartFits ==
  ASSUME StreamInv, turn_starts
  PROVE  StreamInv'
<1>1. /\ it.pc = "ended" /\ turnNo' = turnNo + 1 /\ turnNo < MaxTurns /\ it' = [NoIt EXCEPT !.pc = "enter"]
      /\ norm' = NoNorm /\ buf' = <<>> /\ pend' = FALSE /\ sdk' = [calls |-> {}, was |-> {}, raw |-> 0]
      /\ live' = ResetTo(Run) /\ cli' = enqueue_or_rebase(cli, ResetTo(Run), Run)
  BY DEF turn_starts
<1>2. turnNo \in 0..MaxTurns /\ MaxTurns \in Nat /\ ClientFits(cli, live)
  BY StreamAssumption DEF StreamInv, Shape
<1>3. LiveFits(live') /\ (\A x \in KeyedEvents : ~In(live', x)) /\ ClientFits(cli', live')
  <2>1. LiveFits(ResetTo(Run)) /\ (\A x \in KeyedEvents : ~In(ResetTo(Run), x))
    BY ResetFits
  <2>2. ResetTo(Run).ev \in Seq(Events)
    BY <2>1 DEF LiveFits
  <2>3. ClientFits(enqueue_or_rebase(cli, ResetTo(Run), Run), ResetTo(Run))
    BY <1>2, <2>2, ResetClient
  <2> QED BY <1>1, <2>1, <2>3
<1>4. /\ it' \in ItRecords /\ it'.pc = "enter" /\ it'.how = "none" /\ it'.e = Nothing /\ it'.calls = 0
      /\ it'.deferred = FALSE /\ it'.early = FALSE
  BY <1>1 DEF NoIt, ItRecords, Pending
<1>5. sdk'.calls = {} /\ sdk'.was = {} /\ turnNo' \in 0..MaxTurns
  BY <1>1, <1>2
<1>6. Shape' /\ Active'
  BY <1>1, <1>3, <1>4, <1>5 DEF Shape, Active
<1>7. NormFits(norm)' /\ DOMAIN norm'.segs = {}
  <2>1. NormFits(NoNorm) /\ DOMAIN NoNorm.segs = {}
    BY DEF NormFits, NoNorm
  <2> QED BY <1>1, <2>1 DEF NormFits
<1>8. BufFits(buf)' /\ Streamed(buf, it.e)' /\ (\A x \in SegEvents : In(live, x) <=> Told(buf, x))'
  <2>1. DOMAIN buf' = {} /\ buf' = [k \in DOMAIN buf' |-> buf'[k]]
    BY <1>1
  <2>2. BufFits(buf)'
    BY <2>1, FS_EmptySet DEF BufFits
  <2>3. Streamed(buf, it.e)'
    BY <1>7 DEF Streamed
  <2> QED BY <1>3, <2>1, <2>2, <2>3 DEF Told, KeyedEvents
<1>9. EventFits(it.e)'
  BY <1>4, PendingFacts DEF EventFits
<1>10. CallsShown(it.e)' /\ Unanswered(it.e)' = {}
  <2>1. \A c : Nothing.k # CallKey(c)' /\ Nothing.k # ResultKey(c)'
    BY DEF CallKey, ResultKey, Nothing, Ev
  <2> QED BY <1>3, <1>4, <1>5, <2>1 DEF CallsShown, HasKey, Unanswered, KeyedEvents
<1>11. it'.calls = Cardinality(Unanswered(it.e)')
  BY <1>4, <1>10, FS_EmptySet
<1>12. TurnFits'
  BY <1>4, <1>7, <1>8, <1>9, <1>10, <1>11 DEF TurnFits
<1>13. EndedIsClosed' /\ ShownCallIsAnswered'
  BY <1>4 DEF EndedIsClosed, ShownCallIsAnswered
<1> QED BY <1>6, <1>12, <1>13 DEF StreamInv

LEMMA RunIdlesFit ==
  ASSUME StreamInv, run_idles
  PROVE  StreamInv'
<1> DEFINE l == apply(live, Idle)
<1>1. /\ it.pc = "ended" /\ cli' = enqueue_or_rebase(cli, l, Idle) /\ live' = ResetTo(Idle)
      /\ it' = [it EXCEPT !.how = "none"] /\ UNCHANGED <<norm, buf, pend, sdk, turnNo>>
  BY DEF run_idles
<1>2. Shape /\ ClientFits(cli, live) /\ live.ev \in Seq(Events) /\ it \in ItRecords /\ ~Active /\ it = [NoIt EXCEPT !.how = it.how]
  BY <1>1 DEF StreamInv, Shape, LiveFits, Active
<1>3. l.ev \in Seq(Events)
  <2>1. IsRun(Idle) /\ Idle \in Events /\ Idle.k[1] \notin Keyed /\ Idle.k[1] # "seg"
    BY DEF IsRun, Idle, Ev, Events, Keyed
  <2>2. l.ev = <<Idle>> \o WithoutRun(live.ev)
    BY <2>1 DEF apply, apply_run_state
  <2>3. WithoutRun(live.ev) \in Seq(Events) /\ <<Idle>> \in Seq(Events)
    BY <1>2, <2>1, WithoutRunTyped
  <2> QED BY <2>2, <2>3
<1> HIDE DEF l
<1>4. LiveFits(live') /\ ClientFits(cli', live')
  <2>1. LiveFits(ResetTo(Idle))
    BY ResetFits
  <2>2. ClientFits(enqueue_or_rebase(cli, l, Idle), ResetTo(Idle))
    BY <1>2, <1>3, ResetClient
  <2> QED BY <1>1, <2>1, <2>2
<1>5. it' \in ItRecords /\ it'.how = "none" /\ it'.pc = "ended" /\ it' = [NoIt EXCEPT !.how = it'.how]
  BY <1>1, <1>2 DEF ItRecords, NoIt
<1>6. Shape' /\ ~Active'
  BY <1>1, <1>2, <1>4, <1>5 DEF Shape, Active
<1>7. EndedIsClosed' /\ ShownCallIsAnswered'
  BY <1>5 DEF EndedIsClosed, ShownCallIsAnswered
<1> QED BY <1>5, <1>6, <1>7 DEF StreamInv

-----------------------------------------------------------------------------
(* The other steps of the driver. *)

LEMMA BeginFits ==
  ASSUME StreamInv, iteration_begins
  PROVE  StreamInv'
<1>1. it.pc = "enter" /\ UNCHANGED <<norm, pend, sdk, turnNo>> /\ Active
  BY DEF iteration_begins, Active
<1>2. it \in ItRecords /\ TurnFits
  BY <1>1 DEF StreamInv, Shape
<1>3. CASE pend
  <2>1. finalize_interrupted_turn("interrupted") /\ it.calls = 0
    BY <1>1, <1>2, <1>3 DEF iteration_begins, TurnFits
  <2> QED BY <1>1, <2>1, FinalizeFits
<1>4. CASE ~pend
  <2>1. it' = [it EXCEPT !.pc = "wait"] /\ UNCHANGED <<live, cli, buf>>
    BY <1>4 DEF iteration_begins
  <2>2. /\ it' \in ItRecords /\ it'.pc = "wait" /\ it'.e = it.e /\ it'.how = it.how /\ it'.calls = it.calls
        /\ it'.deferred = it.deferred /\ it'.early = it.early
    BY <1>2, <2>1 DEF ItRecords
  <2>3. Active' /\ pend' \in BOOLEAN
    BY <1>1, <2>2 DEF Active, StreamInv, Shape
  <2> QED BY <1>1, <1>2, <2>1, <2>2, <2>3, ItMoves DEF TurnFits
<1> QED BY <1>3, <1>4

LEMMA SignalFits ==
  ASSUME StreamInv, signal_completes \/ wakes_by_signal
  PROVE  StreamInv'
<1>1. Active /\ it.pc \in {"wait", "query"} /\ UNCHANGED <<norm, buf, live, cli, pend, sdk, turnNo>>
  BY DEF signal_completes, wakes_by_signal, Streams, Active
<1>2. it \in ItRecords /\ TurnFits /\ pend' \in BOOLEAN
  BY <1>1 DEF StreamInv, Shape
<1>3. /\ it' \in ItRecords /\ it'.pc \in {"wait", "query"} /\ it'.e = it.e /\ it'.how = it.how /\ it'.calls = it.calls
      /\ it'.deferred = it.deferred /\ (it'.early = it.early \/ it'.early = (it.e # Nothing))
  <2>1. CASE signal_completes
    BY <1>1, <1>2, <2>1 DEF signal_completes, ItRecords
  <2>2. CASE wakes_by_signal
    <3>1. it' = [it EXCEPT !.pc = "query", !.early = (it.e # Nothing)]
      BY <2>2 DEF wakes_by_signal
    <3> QED BY <1>2, <3>1 DEF ItRecords
  <2> QED BY <2>1, <2>2
<1>4. Active' /\ (it'.deferred => it.calls > 0) /\ (it'.early => it.e # Nothing)
  BY <1>2, <1>3 DEF Active, TurnFits
<1> QED BY <1>1, <1>2, <1>3, <1>4, ItMoves

LEMMA NotificationFits ==
  ASSUME StreamInv, notification_arrives
  PROVE  StreamInv'
<1>1. Active /\ pend' = TRUE /\ UNCHANGED <<it, norm, buf, live, cli, sdk, turnNo>>
  BY DEF notification_arrives
<1>2. it \in ItRecords /\ TurnFits
  BY <1>1 DEF StreamInv, Shape
<1>3. Active' /\ it' \in ItRecords /\ (it'.deferred => it.calls > 0) /\ (it'.early => it.e # Nothing)
  BY <1>1, <1>2 DEF Active, TurnFits
<1> QED BY <1>1, <1>3, ItMoves

LEMMA QueryFits ==
  ASSUME StreamInv, query_returns
  PROVE  StreamInv'
<1>1. it.pc = "query" /\ UNCHANGED <<norm, pend, sdk, turnNo>> /\ Active
  BY DEF query_returns, Active
<1>2. it \in ItRecords /\ TurnFits /\ pend \in BOOLEAN
  BY <1>1 DEF StreamInv, Shape
<1>3. CASE it.early
  <2>1. takes_event(TRUE, pend) /\ it.e # Nothing
    BY <1>2, <1>3 DEF query_returns, TurnFits
  <2> QED BY <1>1, <1>2, <2>1, TakesFit
<1>4. CASE ~it.early /\ pend /\ it.calls = 0
  <2>1. finalize_interrupted_turn("interrupted")
    BY <1>4 DEF query_returns, SafePoint
  <2> QED BY <1>1, <1>4, <2>1, FinalizeFits
<1>5. CASE ~it.early /\ ~(pend /\ it.calls = 0)
  <2> DEFINE d == it.deferred \/ pend
  <2>1. it' = [it EXCEPT !.pc = "wait", !.s = FALSE, !.deferred = d] /\ UNCHANGED <<live, cli, buf>>
    BY <1>5 DEF query_returns, SafePoint
  <2>2. d \in BOOLEAN /\ (d => it.calls > 0)
    BY <1>2, <1>5 DEF ItRecords, TurnFits
  <2> HIDE DEF d
  <2>3. /\ it' \in ItRecords /\ it'.pc = "wait" /\ it'.e = it.e /\ it'.how = it.how /\ it'.calls = it.calls
        /\ it'.deferred = d /\ it'.early = it.early
    BY <1>2, <2>1, <2>2 DEF ItRecords
  <2>4. Active' /\ pend' \in BOOLEAN
    BY <1>1, <1>2, <2>3 DEF Active
  <2> QED BY <1>1, <1>2, <1>5, <2>1, <2>2, <2>3, <2>4, ItMoves
<1> QED BY <1>3, <1>4, <1>5

LEMMA CancelFits ==
  ASSUME StreamInv, turn_canceled
  PROVE  StreamInv'
<1>1. Active /\ finalize_interrupted_turn("canceled") /\ UNCHANGED <<norm, pend, sdk, turnNo>>
  BY DEF turn_canceled
<1> QED BY <1>1, FinalizeFits

(* Another driver's task is shown and disturbs nothing of this turn.        *)
LEMMA TaskFits ==
  ASSUME StreamInv, task_published
  PROVE  StreamInv'
<1> DEFINE e == Ev(<<"task", turnNo, 1>>, "plain", 1)
<1>1. it.pc = "query" /\ publish(<<e>>) /\ UNCHANGED <<it, norm, buf, pend, sdk, turnNo>> /\ Active
  BY DEF task_published, Active
<1>2. Shape /\ TurnFits /\ LiveFits(live) /\ ClientFits(cli, live) /\ turnNo \in Nat /\ it \in ItRecords
  BY <1>1, CallsAreFinite DEF StreamInv, Shape
<1>3. e \in PlainEvents /\ e.k = <<"task", turnNo, 1>>
  BY <1>2 DEF Ev, PlainEvents, PlainKeys, TaskKeys
<1>4. e \in Publishable /\ e \in KeyedEvents /\ e \notin SegEvents /\ e.k \notin SegKeys
  <2>1. e \in Publishable /\ e \in KeyedEvents /\ e \in Events
    BY <1>3 DEF Publishable, KeyedEvents, Events
  <2>2. e.k[1] = "task"
    BY <1>3
  <2> QED BY <2>1, <2>2, KeyFacts
<1>5. Fresh(live, e)
  <2>1. \A x \in KeyedEvents : x.k = e.k => x \notin SegEvents
    BY <1>4 DEF SegEvents
  <2> QED BY <2>1 DEF Fresh, KeyedEvents, PlainEvents
<1> HIDE DEF e
<1>6. LiveFits(live') /\ ClientFits(cli', live') /\ \A x \in KeyedEvents : In(live', x) <=> After(e, x)
  <2>1. Fits(<<e>>, live) /\ Len(<<e>>) = 1 /\ \A x : There(<<e>>, 1, live, x) <=> After(e, x)
    BY <1>4, <1>5, OneEvent
  <2> QED BY <1>1, <1>2, <2>1, PublishPuts
<1>7. \A x \in SegEvents : In(live', x) <=> In(live, x)
  <2>1. \A x \in SegEvents : x \in KeyedEvents /\ x # e /\ x.k # e.k
    BY <1>4 DEF KeyedEvents, SegEvents
  <2> QED BY <1>6, <2>1 DEF After
<1>8. \A c \in Calls : (HasKey(live', CallKey(c)) <=> HasKey(live, CallKey(c))) /\ (HasKey(live', ResultKey(c)) <=> HasKey(live, ResultKey(c)))
  <2>1. \A c \in Calls : e.k # CallKey(c) /\ e.k # ResultKey(c)
    BY <1>3 DEF CallKey, ResultKey
  <2> QED BY <1>6, <2>1 DEF After, HasKey, KeyedEvents
<1>9. \A id : SegKey(id)' = SegKey(id)
  BY DEF SegKey, task_published
<1>10. Shape' /\ Active'
  BY <1>1, <1>2, <1>6 DEF Shape, Active
<1>11. TurnFits'
  <2>1. NormFits(norm)' /\ BufFits(buf)' /\ EventFits(it.e)' /\ Streamed(buf, it.e)'
    BY <1>1, <1>2, <1>9 DEF TurnFits, NormFits, BufFits, EventFits, CallEvent, ResultEvent, CallKey, ResultKey, Streamed
  <2>2. (\A x \in SegEvents : In(live, x) <=> Told(buf, x))'
    BY <1>1, <1>2, <1>7 DEF TurnFits, Told
  <2>3. \A c : CallKey(c)' = CallKey(c) /\ ResultKey(c)' = ResultKey(c)
    BY <1>1 DEF CallKey, ResultKey
  <2>4. CallsShown(it.e)'
    BY <1>1, <1>2, <1>8, <2>3 DEF TurnFits, CallsShown
  <2>5. Unanswered(it.e)' = Unanswered(it.e)
    BY <1>1, <2>3 DEF Unanswered
  <2>6. it' = it
    BY <1>1
  <2>7. it'.calls = Cardinality(Unanswered(it.e)')
    BY <1>2, <2>5, <2>6 DEF TurnFits
  <2> QED BY <1>2, <2>1, <2>2, <2>4, <2>6, <2>7 DEF TurnFits
<1>12. it'.how = "none"
  BY <1>1, <1>2 DEF TurnFits
<1>13. EndedIsClosed' /\ ShownCallIsAnswered'
  BY <1>12 DEF EndedIsClosed, ShownCallIsAnswered
<1> QED BY <1>10, <1>11, <1>13 DEF StreamInv

LEMMA SubscribeFits ==
  ASSUME StreamInv, subscribe
  PROVE  StreamInv'
<1>1. cli' = [on |-> TRUE, q |-> live.ev, seen |-> <<>>] /\ UNCHANGED <<it, norm, buf, live, pend, sdk, turnNo>>
  BY DEF subscribe
<1>2. LiveFits(live) /\ live.ev \in Seq(Events)
  BY DEF StreamInv, Shape, LiveFits
<1>3. cli'.q = live.ev /\ cli'.on = TRUE /\ cli' = [on |-> cli'.on, q |-> cli'.q, seen |-> cli'.seen]
  BY <1>1
<1>4. \A x \in KeyedEvents : In(live, x) => Reaches(cli', x)
  BY <1>2, <1>3, AllReach
<1>5. ClientFits(cli', live')
  BY <1>1, <1>2, <1>3, <1>4 DEF ClientFits
<1> QED BY <1>1, <1>5, ClientMoves

LEMMA ClientReadsFits ==
  ASSUME StreamInv, client_reads
  PROVE  StreamInv'
<1>1. UNCHANGED <<it, norm, buf, live, pend, sdk, turnNo>> /\ ClientFits(cli, live)
  BY DEF client_reads, StreamInv, Shape
<1>2. ClientFits(cli', live')
  BY <1>1, ReadFits
<1> QED BY <1>1, <1>2, ClientMoves

-----------------------------------------------------------------------------
(* The invariant. *)

LEMMA InitFits == LiveInit => StreamInv
<1> SUFFICES ASSUME LiveInit PROVE StreamInv
  OBVIOUS
<1>1. /\ it = NoIt /\ pend = FALSE /\ turnNo = 0 /\ live = ResetTo(Idle) /\ cli = [on |-> FALSE, q |-> <<>>, seen |-> <<>>]
      /\ sdk.calls = {} /\ sdk.was = {}
  BY DEF LiveInit
<1>2. /\ it \in ItRecords /\ ~Active /\ it.how = "none" /\ it = [NoIt EXCEPT !.how = it.how]
  BY <1>1 DEF NoIt, ItRecords, Pending, Active
<1>3. LiveFits(live)
  BY <1>1, ResetFits
<1>4. ClientFits(cli, live)
  <2>1. cli.on = FALSE /\ cli.q = <<>> /\ cli = [on |-> cli.on, q |-> cli.q, seen |-> cli.seen]
    BY <1>1
  <2>2. cli.q \in Seq(Events)
    BY <2>1
  <2> QED BY <2>1, <2>2 DEF ClientFits
<1>5. Shape
  <2>1. turnNo \in 0..MaxTurns
    BY <1>1, StreamAssumption
  <2>2. pend \in BOOLEAN /\ sdk.calls \subseteq sdk.was /\ sdk.was \subseteq Calls
    BY <1>1
  <2> QED BY <1>2, <1>3, <1>4, <2>1, <2>2 DEF Shape
<1>6. EndedIsClosed /\ ShownCallIsAnswered
  BY <1>2, NothingSaid
<1> QED BY <1>2, <1>5, <1>6 DEF StreamInv

LEMMA StepFits == StreamInv /\ [LiveNext]_liveVars => StreamInv'
<1> SUFFICES ASSUME StreamInv, [LiveNext]_liveVars PROVE StreamInv'
  OBVIOUS
<1>1. CASE turn_starts \/ run_idles \/ stream_idles
  BY <1>1, StartFits, RunIdlesFit, IdlesFit
<1>2. CASE signal_completes \/ wakes_by_signal \/ notification_arrives
  BY <1>2, SignalFits, NotificationFits
<1>3. CASE \E raw \in RawNext : stream_sends(raw)
  BY <1>3, SendsFit
<1>4. CASE iteration_begins \/ query_returns \/ turn_canceled \/ task_published
  BY <1>4, BeginFits, QueryFits, CancelFits, TaskFits
<1>5. CASE wakes_by_event
  <2>1. it.pc = "wait" /\ it.e # Nothing /\ takes_event(FALSE, FALSE) /\ UNCHANGED <<norm, pend, sdk, turnNo>>
    BY <1>5 DEF wakes_by_event
  <2> QED BY <2>1, TakesFit
<1>6. CASE subscribe \/ client_reads
  BY <1>6, SubscribeFits, ClientReadsFits
<1>7. CASE UNCHANGED liveVars
  <2>1. UNCHANGED <<it, norm, buf, live, pend, sdk, turnNo>> /\ cli' = cli
    BY <1>7 DEF liveVars
  <2>2. ClientFits(cli', live')
    BY <2>1 DEF StreamInv, Shape
  <2> QED BY <2>1, <2>2, ClientMoves
<1> QED BY <1>1, <1>2, <1>3, <1>4, <1>5, <1>6, <1>7 DEF LiveNext

LEMMA StreamHolds == LiveSpec => []StreamInv
<1> QED BY InitFits, StepFits, PTL DEF LiveSpec

-----------------------------------------------------------------------------
(* What it means. *)

LEMMA OnceIsShown ==
  ASSUME StreamInv
  PROVE  ShownOnce
<1>0. LiveFits(live)
  BY DEF StreamInv, Shape
<1> SUFFICES ASSUME NEW i \in DOMAIN live.ev, live.ev[i].k[1] \in Keyed
             PROVE  Cardinality(Shown(live.ev[i].k)) = 1
  BY DEF ShownOnce
<1>1. live.ev[i] \in Events
  BY <1>0 DEF LiveFits
<1>2. live.ev[i] \in KeyedEvents
  BY <1>1, KeyFacts
<1>3. \A j \in DOMAIN live.ev : live.ev[j].k = live.ev[i].k => i = j
  BY <1>0, <1>2 DEF LiveFits, Once
<1>4. Shown(live.ev[i].k) = {i}
  BY <1>3 DEF Shown
<1> QED BY <1>4, FS_Singleton

LEMMA CaughtUp ==
  ASSUME StreamInv
  PROVE  ClientCatchesUp
<1>0. LiveFits(live) /\ ClientFits(cli, live)
  BY DEF StreamInv, Shape
<1> SUFFICES ASSUME cli.on, cli.q = <<>>, NEW i \in DOMAIN live.ev, live.ev[i].k[1] \in Keyed
             PROVE  live.ev[i].k \in DOMAIN cli.seen /\ cli.seen[live.ev[i].k] = live.ev[i]
  BY DEF ClientCatchesUp
<1>1. live.ev[i] \in Events
  BY <1>0 DEF LiveFits
<1>2. live.ev[i] \in KeyedEvents /\ In(live, live.ev[i])
  BY <1>1, KeyFacts DEF In
<1>3. Reaches(cli, live.ev[i])
  BY <1>0, <1>2 DEF ClientFits
<1>4. DOMAIN cli.q = {}
  OBVIOUS
<1> QED BY <1>3, <1>4 DEF Reaches

LEMMA DeferredAwaits ==
  ASSUME StreamInv
  PROVE  DeferredAwaitsTool
<1>1. CASE Active
  BY <1>1 DEF StreamInv, TurnFits, DeferredAwaitsTool
<1>2. CASE ~Active
  <2>1. it = [NoIt EXCEPT !.how = it.how]
    BY <1>2 DEF StreamInv
  <2>2. it.deferred = FALSE
    BY <2>1 DEF NoIt
  <2> QED BY <2>2 DEF DeferredAwaitsTool
<1> QED BY <1>1, <1>2

LEMMA TypesFit ==
  ASSUME StreamInv
  PROVE  LiveTypeOK
<1>0. LiveFits(live) /\ it \in ItRecords /\ turnNo \in 0..MaxTurns /\ sdk.calls \subseteq sdk.was
  BY DEF StreamInv, Shape
<1>1. \A k \in DOMAIN live.idx : live.idx[k] \in DOMAIN live.ev /\ live.ev[live.idx[k]].k = k
  BY <1>0 DEF LiveFits, IndexFits
<1>2. IsFiniteSet(Calls) /\ Cardinality(Calls) \in Nat
  BY StreamAssumption, FS_CardinalityType
<1>3. it.calls \in 0..Cardinality(Calls)
  <2>1. CASE Active
    <3>1. Unanswered(it.e) \subseteq Calls
      BY DEF Unanswered
    <3>2. Cardinality(Unanswered(it.e)) <= Cardinality(Calls)
      BY <1>2, <3>1, FS_Subset
    <3>3. it.calls = Cardinality(Unanswered(it.e)) /\ it.calls \in Nat
      BY <1>0, <2>1 DEF StreamInv, TurnFits, ItRecords
    <3> QED BY <1>2, <3>2, <3>3
  <2>2. CASE ~Active
    <3>1. it = [NoIt EXCEPT !.how = it.how]
      BY <2>2 DEF StreamInv
    <3>2. it.calls = 0
      BY <3>1 DEF NoIt
    <3> QED BY <1>2, <3>2
  <2> QED BY <2>1, <2>2
<1> QED BY <1>0, <1>1, <1>3 DEF LiveTypeOK, ItRecords

(* Whatever the stream sends and however the turn ends (of itself, by a     *)
(* notification at a safe point, by the user), it leaves no segment half    *)
(* open on the screen and loses no text that was streamed; no shown call is *)
(* left without its result by a notification; and a notification that was   *)
(* put off is waiting for a tool (iter_interruptible_events,                *)
(* incomplete_segment_events, _finalize_interrupted_turn).                  *)
THEOREM TurnsAreClosed == LiveSpec => []TurnIsClosed
<1>1. StreamInv => TurnIsClosed
  BY DeferredAwaits DEF StreamInv, TurnIsClosed
<1> QED BY <1>1, StreamHolds, PTL

(* A client is shown each segment, call, result and task once, and when it  *)
(* has read its queue it has the latest of each, although it reconnects,    *)
(* falls behind by any number of events and is given the projection instead *)
(* of its queue, and others publish in between (LiveEventProjection,        *)
(* subscribe, _enqueue_or_rebase).                                          *)
THEOREM ClientsSee == LiveSpec => []ClientSees
<1>1. StreamInv => ClientSees
  BY OnceIsShown, CaughtUp DEF ClientSees
<1> QED BY <1>1, StreamHolds, PTL

(* The types, and that the projection's index points at events of its keys  *)
(* (LiveEventProjection._rebuild_indexes).                                  *)
THEOREM LiveTypesHold == LiveSpec => []LiveTypeOK
<1>1. StreamInv => LiveTypeOK
  BY TypesFit
<1> QED BY <1>1, StreamHolds, PTL

-----------------------------------------------------------------------------
(* Both ends.                                                               *)

(* What a provider is given is whole, in the composition that is checked:   *)
(* each end is well typed, no call is parted from its output, the items are *)
(* paired and the newest stays (compaction.py, context_budget.py,           *)
(* model_input.py).                                                         *)
THEOREM SubmittedStaysWhole == MCSpec => []SubmittedIsWhole
<1>1. MCInit => Init /\ LiveInit
  BY DEF MCInit
<1>2. [MCNext]_<<part, vars, liveVars>> => [Next]_vars /\ [LiveNext]_liveVars
  <2>1. ASSUME MCNext PROVE [Next]_vars /\ [LiveNext]_liveVars
    BY <2>1 DEF MCNext
  <2> QED BY <2>1
<1>3. MCSpec => Spec /\ LiveSpec
  BY <1>1, <1>2, PTL DEF MCSpec, Spec, LiveSpec
<1>4. TypeOK /\ LiveTypeOK /\ NoSplitCall /\ SubmittedIsSound <=> SubmittedIsWhole
  BY DEF SubmittedIsWhole
<1> QED BY <1>3, <1>4, ConversationTypesHold, LiveTypesHold, NoCallIsSplit, SubmittedStaysSound, PTL

=============================================================================
