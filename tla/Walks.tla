---------------------------------- MODULE Walks ---------------------------------
(***************************************************************************)
(* Lemmas about what is done one step after the other, for the recursive   *)
(* functions of the other modules: induction up to a number, and how to    *)
(* take steps that stay among some values.                                 *)
(***************************************************************************)
EXTENDS Integers, Sequences, SequencesExt, SequenceTheorems, WellFoundedInduction, TLAPS

\* Every set of natural numbers but the empty one has a least element.
LEMMA SomeLeast ==
  ASSUME NEW S \in SUBSET Nat, S # {}
  PROVE  Min(S) \in S /\ \A m \in S : Min(S) <= m
<1>1. IsWellFoundedOn(OpToRel(<, Nat), Nat)
  BY NatLessThanWellFounded
<1>2. PICK n \in S : \A m \in S : ~(<<m, n>> \in OpToRel(<, Nat))
  BY <1>1, WFMin, S # {}, S \subseteq Nat
<1>3. \A m \in S : m \in Nat /\ n \in Nat /\ ~(m < n)
  BY <1>2 DEF OpToRel
<1>4. \E k \in S : \A m \in S : k <= m
  BY <1>3
<1> QED
  BY <1>4, Zenon DEF Min

\* Bounded induction.
LEMMA AllTheWay ==
  ASSUME NEW n \in Nat, NEW S, 0 \in S, \A i \in 1..n : i - 1 \in S => i \in S
  PROVE  \A i \in 0..n : i \in S
<1> DEFINE Bad == {i \in 0..n : i \notin S}
<1>1. ASSUME Bad # {} PROVE FALSE
  <2>1. Bad \in SUBSET Nat
    OBVIOUS
  <2>2. Min(Bad) \in Bad /\ \A m \in Bad : Min(Bad) <= m
    BY <1>1, <2>1, SomeLeast
  <2>3. PICK m \in Bad : \A k \in Bad : m <= k
    BY <2>2
  <2>4. m \in 1..n /\ m - 1 \in 0..n /\ m - 1 \notin Bad
    BY <2>3
  <2> QED
    BY <2>3, <2>4
<1> QED
  BY <1>1

Walk(g, n, a, step) == g[0] = a /\ \A i \in 1..n : g[i] = step[i][g[i - 1]]

\* Steps that stay among some values can be taken one after the other ...
LEMMA Iterates ==
  ASSUME NEW n \in Nat, NEW V, NEW a \in V, NEW step \in [1..n -> [V -> V]]
  PROVE  \E g \in [0..n -> V] : Walk(g, n, a, step)
<1> DEFINE S == {k \in 0..n : \E g \in [0..k -> V] : Walk(g, k, a, step)}
<1>1. 0 \in S
  <2> DEFINE g == [i \in 0..0 |-> a]
  <2>1. g \in [0..0 -> V] /\ g[0] = a /\ 1..0 = {}
    OBVIOUS
  <2>2. Walk(g, 0, a, step)
    BY <2>1 DEF Walk
  <2> HIDE DEF g
  <2> QED
    BY <2>1, <2>2
<1>2. ASSUME NEW k \in 1..n, k - 1 \in S PROVE k \in S
  <2>1. PICK g \in [0..(k - 1) -> V] : Walk(g, k - 1, a, step)
    BY <1>2
  <2> DEFINE h == [i \in 0..k |-> IF i = k THEN step[k][g[k - 1]] ELSE g[i]]
  <2>2. step[k][g[k - 1]] \in V
    OBVIOUS
  <2>3. h \in [0..k -> V]
    BY <2>2
  <2>4. h[0] = a
    BY <2>1 DEF Walk
  <2>5. \A i \in 1..k : h[i] = step[i][h[i - 1]]
    <3> SUFFICES ASSUME NEW i \in 1..k PROVE h[i] = step[i][h[i - 1]]
      OBVIOUS
    <3>1. CASE i = k
      <4>1. h[i - 1] = g[k - 1]
        BY <3>1
      <4> QED
        BY <3>1, <4>1
    <3>2. CASE i # k
      <4>1. i \in 1..(k - 1) /\ i - 1 \in 0..(k - 1) /\ i - 1 # k
        BY <3>2
      <4> QED
        <5>1. h[i] = g[i] /\ h[i - 1] = g[i - 1]
          BY <3>2, <4>1
        <5>2. g[i] = step[i][g[i - 1]]
          BY <2>1, <4>1 DEF Walk
        <5> QED
          BY <5>1, <5>2
    <3> QED
      BY <3>1, <3>2
  <2>6. Walk(h, k, a, step)
    BY <2>4, <2>5 DEF Walk
  <2> HIDE DEF h
  <2> QED
    BY <2>3, <2>6
<1>3. \A k \in 1..n : k - 1 \in S => k \in S
  BY <1>2
<1>4. n \in S
  <2> HIDE DEF S
  <2>1. \A i \in 0..n : i \in S
    BY <1>1, <1>3, AllTheWay
  <2> QED
    BY <2>1
<1> QED
  BY <1>4

\* ... and in one way only.
LEMMA OneWay ==
  ASSUME NEW n \in Nat, NEW f, NEW g, f[0] = g[0],
         \A i \in 1..n : f[i - 1] = g[i - 1] => f[i] = g[i]
  PROVE  \A i \in 0..n : f[i] = g[i]
<1> DEFINE S == {i \in 0..n : f[i] = g[i]}
<1>1. 0 \in S
  OBVIOUS
<1>2. \A i \in 1..n : i - 1 \in S => i \in S
  OBVIOUS
<1>3. \A i \in 0..n : i \in S
  <2> HIDE DEF S
  <2> QED
    BY <1>1, <1>2, AllTheWay
<1> QED
  BY <1>3

\* Sequences are joined one after the other.
LEMMA Joins ==
  ASSUME NEW V, NEW seqs \in Seq(Seq(V))
  PROVE  \E g \in [0..Len(seqs) -> Seq(V)] :
           /\ g[0] = <<>> /\ \A i \in 1..Len(seqs) : g[i] = g[i - 1] \o seqs[i]
           /\ FlattenSeq(seqs) = g[Len(seqs)]
<1> DEFINE step == [i \in 1..Len(seqs) |-> [u \in Seq(V) |-> u \o seqs[i]]]
           Is(f) == f = [i \in 1..Len(seqs) |-> IF i = 1 THEN seqs[i] ELSE f[i - 1] \o seqs[i]]
           it == CHOOSE f : Is(f)
<1>1. Len(seqs) \in Nat /\ <<>> \in Seq(V) /\ \A i \in 1..Len(seqs) : seqs[i] \in Seq(V)
  OBVIOUS
<1>2. step \in [1..Len(seqs) -> [Seq(V) -> Seq(V)]]
  <2>1. \A i \in 1..Len(seqs), u \in Seq(V) : u \o seqs[i] \in Seq(V)
    BY <1>1
  <2> QED
    BY <2>1
<1>3. PICK g \in [0..Len(seqs) -> Seq(V)] : g[0] = <<>> /\ \A i \in 1..Len(seqs) : g[i] = step[i][g[i - 1]]
  <2>1. PICK n : n = Len(seqs)
    OBVIOUS
  <2>2. n \in Nat /\ <<>> \in Seq(V) /\ step \in [1..n -> [Seq(V) -> Seq(V)]]
    BY <1>1, <1>2, <2>1
  <2> HIDE DEF step
  <2>3. \E g \in [0..n -> Seq(V)] : Walk(g, n, <<>>, step)
    BY ONLY <2>2, Iterates
  <2> QED
    BY <2>1, <2>3 DEF Walk
<1>4. ASSUME NEW i \in 1..Len(seqs) PROVE g[i] = g[i - 1] \o seqs[i]
  <2>1. i - 1 \in 0..Len(seqs)
    BY <1>1
  <2>2. g[i - 1] \in Seq(V)
    BY ONLY <2>1, g \in [0..Len(seqs) -> Seq(V)]
  <2>3. g[i] = step[i][g[i - 1]]
    BY <1>3
  <2> QED
    BY <2>2, <2>3
<1>5. CASE Len(seqs) = 0
  <2>1. seqs = <<>>
    BY <1>5
  <2>2. FlattenSeq(seqs) = g[Len(seqs)]
    BY <1>3, <1>5, <2>1 DEF FlattenSeq
  <2> QED
    BY <1>3, <1>4, <2>2
<1>6. CASE Len(seqs) # 0
  <2> DEFINE h == [i \in 1..Len(seqs) |-> g[i]]
  <2>1. g[1] = seqs[1]
    <3>1. 1 \in 1..Len(seqs) /\ 1 - 1 = 0
      BY <1>1, <1>6
    <3>2. g[1] = g[1 - 1] \o seqs[1] /\ seqs[1] \in Seq(V)
      BY <1>1, <1>4, <3>1
    <3>3. g[1] = <<>> \o seqs[1]
      BY <1>3, <3>1, <3>2
    <3> QED
      BY <3>2, <3>3
  <2>2. \A i \in 1..Len(seqs) : h[i] = IF i = 1 THEN seqs[i] ELSE h[i - 1] \o seqs[i]
    <3> SUFFICES ASSUME NEW i \in 1..Len(seqs), i # 1 PROVE h[i] = h[i - 1] \o seqs[i]
      BY <2>1
    <3>1. i - 1 \in 1..Len(seqs)
      BY <1>1
    <3> QED
      BY <1>4, <3>1
  <2>3. Is(h)
    BY <2>2
  <2>4. Is(it)
    <3> HIDE DEF Is, h
    <3> QED
      BY <2>3
  <2>5. PICK f : f = it
    OBVIOUS
  <2>6. Is(f)
    BY <2>4, <2>5
  <2> DEFINE S == {i \in 0..Len(seqs) : i = 0 \/ f[i] = g[i]}
  <2>7. 0 \in S
    BY <1>1
  <2>8. ASSUME NEW i \in 1..Len(seqs), i - 1 \in S PROVE i \in S
    <3>1. CASE i = 1
      BY <1>1, <1>6, <2>1, <2>6, <3>1
    <3>2. CASE i # 1
      <4>1. f[i - 1] = g[i - 1]
        BY <1>1, <2>8, <3>2
      <4>2. f[i] = f[i - 1] \o seqs[i]
        BY <2>6, <3>2
      <4>3. g[i] = g[i - 1] \o seqs[i]
        BY <1>4
      <4>4. f[i] = g[i]
        BY ONLY <4>1, <4>2, <4>3
      <4> QED
        BY <1>1, <4>4
    <3> QED
      BY <3>1, <3>2
  <2>9. Len(seqs) \in S
    <3>1. \A i \in 1..Len(seqs) : i - 1 \in S => i \in S
      BY <2>8
    <3> HIDE DEF S
    <3>2. \A i \in 0..Len(seqs) : i \in S
      BY <1>1, <2>7, <3>1, AllTheWay
    <3> QED
      BY <1>1, <3>2
  <2>10. f[Len(seqs)] = g[Len(seqs)]
    BY <1>6, <2>9
  <2>11. FlattenSeq(seqs) = it[Len(seqs)]
    BY <1>6 DEF FlattenSeq
  <2> QED
    BY <1>3, <1>4, <2>5, <2>10, <2>11
<1> QED
  BY <1>5, <1>6

--------------------------------------------------------------------------------
(* Sequences, and what becomes of one whose every element turns into several. *)

\* Induction over sequences.
LEMMA AllSequences ==
  ASSUME NEW V, NEW P, <<>> \in P, \A s \in Seq(V), x \in V : s \in P => Append(s, x) \in P
  PROVE  \A s \in Seq(V) : s \in P
<1> SUFFICES ASSUME NEW s \in Seq(V) PROVE s \in P
  OBVIOUS
<1> DEFINE S == {i \in 0..Len(s) : SubSeq(s, 1, i) \in P}
<1>1. Len(s) \in Nat
  OBVIOUS
<1>2. 0 \in S
  <2>1. SubSeq(s, 1, 0) = <<>>
    BY SubSeqEmpty
  <2>2. SubSeq(s, 1, 0) \in P
    BY ONLY <2>1, <<>> \in P
  <2>3. 0 \in 0..Len(s)
    BY <1>1
  <2> QED
    BY ONLY <2>2, <2>3 DEF S
<1>3. ASSUME NEW i \in 1..Len(s), i - 1 \in S PROVE i \in S
  <2>1. SubSeq(s, 1, i) = SubSeq(s, 1, i - 1) \o <<s[i]>>
    <3>1. 1 \in 1..Len(s) /\ i \in 1..Len(s)
      BY <1>1
    <3> QED
      BY <3>1, SubSeqRecursiveSecond
  <2>2. SubSeq(s, 1, i - 1) \in Seq(V) /\ s[i] \in V
    <3>1. \A k \in 1..(i - 1) : s[k] \in V
      BY <1>1
    <3> QED
      BY <1>1, <3>1, SubSeqProperties
  <2>3. SubSeq(s, 1, i) = Append(SubSeq(s, 1, i - 1), s[i])
    BY <2>1, <2>2, AppendIsConcat
  <2>4. SubSeq(s, 1, i - 1) \in P
    BY <1>3
  <2>5. Append(SubSeq(s, 1, i - 1), s[i]) \in P
    BY <2>2, <2>4
  <2>6. SubSeq(s, 1, i) \in P
    BY ONLY <2>3, <2>5
  <2>7. i \in 0..Len(s)
    BY <1>1
  <2> QED
    BY ONLY <2>6, <2>7 DEF S
<1>4. Len(s) \in S
  <2>1. \A i \in 1..Len(s) : i - 1 \in S => i \in S
    BY <1>3
  <2> HIDE DEF S
  <2>2. \A i \in 0..Len(s) : i \in S
    BY <1>1, <1>2, <2>1, AllTheWay
  <2> QED
    BY <1>1, <2>2
<1>5. SubSeq(s, 1, Len(s)) = s
  BY SubSeqFull
<1> QED
  BY <1>4, <1>5

\* What becomes of a list when every element becomes a list.
Spread(m, s) == FlattenSeq([i \in DOMAIN s |-> m[s[i]]])

LEMMA SpreadGrows ==
  ASSUME NEW V, NEW W, NEW m \in [V -> Seq(W)]
  PROVE  /\ Spread(m, <<>>) = <<>>
         /\ \A s \in Seq(V) : Spread(m, s) \in Seq(W)
         /\ \A s \in Seq(V), x \in V : Spread(m, Append(s, x)) = Spread(m, s) \o m[x]
<1> DEFINE Parts(s) == [i \in DOMAIN s |-> m[s[i]]]
<1>1. ASSUME NEW s \in Seq(V) PROVE Parts(s) \in Seq(Seq(W)) /\ Len(Parts(s)) = Len(s) /\ DOMAIN s = 1..Len(s) /\ Len(s) \in Nat
  <2>1. Len(s) \in Nat /\ DOMAIN s = 1..Len(s) /\ \A i \in 1..Len(s) : m[s[i]] \in Seq(W)
    BY LenProperties
  <2> QED
    BY <2>1
<1>2. ASSUME NEW s \in Seq(V)
      PROVE  \E g \in [0..Len(s) -> Seq(W)] :
               /\ g[0] = <<>> /\ \A i \in 1..Len(s) : g[i] = g[i - 1] \o m[s[i]]
               /\ Spread(m, s) = g[Len(s)]
  <2>1. PICK g \in [0..Len(Parts(s)) -> Seq(W)] :
               /\ g[0] = <<>> /\ \A i \in 1..Len(Parts(s)) : g[i] = g[i - 1] \o Parts(s)[i]
               /\ FlattenSeq(Parts(s)) = g[Len(Parts(s))]
    <3> HIDE DEF Parts
    <3> QED
      BY <1>1, Joins
  <2>2. Spread(m, s) = FlattenSeq(Parts(s))
    BY DEF Spread
  <2>3. \A i \in 1..Len(s) : Parts(s)[i] = m[s[i]]
    BY <1>1
  <2> HIDE DEF Parts
  <2> QED
    BY <1>1, <2>1, <2>2, <2>3
<1>3. Spread(m, <<>>) = <<>>
  <2>1. <<>> \in Seq(V) /\ Len(<<>>) = 0
    OBVIOUS
  <2>2. \E g \in [0..0 -> Seq(W)] : g[0] = <<>> /\ Spread(m, <<>>) = g[0]
    BY <1>2, <2>1
  <2> QED
    BY <2>2
<1>4. ASSUME NEW s \in Seq(V) PROVE Spread(m, s) \in Seq(W)
  <2>1. Len(s) \in Nat /\ Len(s) \in 0..Len(s)
    BY <1>1
  <2>2. PICK g \in [0..Len(s) -> Seq(W)] : Spread(m, s) = g[Len(s)]
    BY <1>2
  <2> QED
    BY <2>1, <2>2
<1>5. ASSUME NEW s \in Seq(V), NEW x \in V PROVE Spread(m, Append(s, x)) = Spread(m, s) \o m[x]
  <2>1. PICK t : t = Append(s, x)
    OBVIOUS
  <2>2. /\ t \in Seq(V) /\ Len(t) = Len(s) + 1 /\ t[Len(s) + 1] = x /\ \A i \in 1..Len(s) : t[i] = s[i]
    BY <2>1, AppendProperties
  <2>3. PICK g \in [0..Len(s) -> Seq(W)] :
               /\ g[0] = <<>> /\ \A i \in 1..Len(s) : g[i] = g[i - 1] \o m[s[i]]
               /\ Spread(m, s) = g[Len(s)]
    BY <1>2
  <2>4. PICK h \in [0..Len(t) -> Seq(W)] :
               /\ h[0] = <<>> /\ \A i \in 1..Len(t) : h[i] = h[i - 1] \o m[t[i]]
               /\ Spread(m, t) = h[Len(t)]
    BY <1>2, <2>2
  <2> DEFINE Same == {i \in 0..Len(s) : h[i] = g[i]}
  <2>5. 0 \in Same
    BY <1>1, <2>3, <2>4
  <2>6. ASSUME NEW i \in 1..Len(s), i - 1 \in Same PROVE i \in Same
    <3>1. i \in 1..Len(t) /\ i \in 0..Len(s)
      BY <1>1, <2>2
    <3>2. h[i] = h[i - 1] \o m[t[i]] /\ g[i] = g[i - 1] \o m[s[i]] /\ t[i] = s[i]
      BY <2>2, <2>3, <2>4, <3>1
    <3> QED
      BY <2>6, <3>1, <3>2
  <2>7. h[Len(s)] = g[Len(s)]
    <3>1. \A i \in 1..Len(s) : i - 1 \in Same => i \in Same
      BY <2>6
    <3> HIDE DEF Same
    <3>2. \A i \in 0..Len(s) : i \in Same
      BY <1>1, <2>5, <3>1, AllTheWay
    <3>3. Len(s) \in Same
      BY <1>1, <3>2
    <3> QED
      BY <3>3 DEF Same
  <2>8. h[Len(t)] = h[Len(s)] \o m[x]
    <3>1. Len(t) \in 1..Len(t) /\ Len(t) - 1 = Len(s) /\ t[Len(t)] = x
      BY <1>1, <2>2
    <3>2. h[Len(t)] = h[Len(t) - 1] \o m[t[Len(t)]]
      BY <2>4, <3>1
    <3> QED
      BY <3>1, <3>2
  <2> QED
    BY <2>1, <2>3, <2>4, <2>7, <2>8
<1> QED
  BY <1>3, <1>4, <1>5

\* A list that each element leaves as it is, two lists, and what they hold.
LEMMA SpreadKeeps ==
  ASSUME NEW V, NEW m \in [V -> Seq(V)], NEW s \in Seq(V), \A i \in 1..Len(s) : m[s[i]] = <<s[i]>>
  PROVE  Spread(m, s) = s
<1> DEFINE P == {t \in Seq(V) : (\A i \in 1..Len(t) : m[t[i]] = <<t[i]>>) => Spread(m, t) = t}
<1>0. /\ Spread(m, <<>>) = <<>>
      /\ \A t \in Seq(V) : Spread(m, t) \in Seq(V)
      /\ \A t \in Seq(V), x \in V : Spread(m, Append(t, x)) = Spread(m, t) \o m[x]
  BY ONLY m \in [V -> Seq(V)], SpreadGrows
<1>1. <<>> \in P
  BY <1>0
<1>2. ASSUME NEW t \in Seq(V), NEW x \in V, t \in P PROVE Append(t, x) \in P
  <2>1. PICK u : u = Append(t, x)
    OBVIOUS
  <2>2. /\ u \in Seq(V) /\ Len(u) = Len(t) + 1 /\ u[Len(t) + 1] = x /\ (\A i \in 1..Len(t) : u[i] = t[i]) /\ Len(t) \in Nat
    BY <2>1, AppendProperties
  <2>3. ASSUME \A i \in 1..Len(u) : m[u[i]] = <<u[i]>> PROVE Spread(m, u) = u
    <3>1. \A i \in 1..Len(t) : m[t[i]] = <<t[i]>>
      <4>1. \A i \in 1..Len(t) : i \in 1..Len(u)
        BY <2>2
      <4> QED
        BY <2>2, <2>3, <4>1
    <3>2. m[x] = <<x>>
      <4>1. Len(t) + 1 \in 1..Len(u)
        BY <2>2
      <4> QED
        BY <2>2, <2>3, <4>1
    <3>3. Spread(m, t) = t
      BY <1>2, <3>1
    <3>4. Spread(m, u) = Spread(m, t) \o m[x]
      BY <1>0, <2>1
    <3> QED
      BY <2>1, <3>2, <3>3, <3>4, AppendIsConcat
  <2> QED
    BY <2>1, <2>2, <2>3
<1>3. s \in P
  <2>1. \A t \in Seq(V), x \in V : t \in P => Append(t, x) \in P
    BY <1>2
  <2> HIDE DEF P
  <2>2. \A t \in Seq(V) : t \in P
    BY <1>1, <2>1, AllSequences
  <2> QED
    BY <2>2
<1> QED
  BY <1>3

Regroups(a, b, c) == (a \o b) \o c = a \o (b \o c)

LEMMA Associates == ASSUME NEW V, NEW a \in Seq(V), NEW b \in Seq(V), NEW c \in Seq(V) PROVE Regroups(a, b, c)
  BY ConcatAssociative DEF Regroups

SpreadsOver(m, s, t) == Spread(m, s \o t) = Spread(m, s) \o Spread(m, t)

LEMMA SpreadJoins ==
  ASSUME NEW V, NEW m \in [V -> Seq(V)], NEW s \in Seq(V), NEW t \in Seq(V)
  PROVE  SpreadsOver(m, s, t)
<1> DEFINE P == {u \in Seq(V) : Spread(m, s \o u) = Spread(m, s) \o Spread(m, u)}
<1>0. /\ Spread(m, <<>>) = <<>>
      /\ \A u \in Seq(V) : Spread(m, u) \in Seq(V)
      /\ \A u \in Seq(V), x \in V : Spread(m, Append(u, x)) = Spread(m, u) \o m[x]
  BY ONLY m \in [V -> Seq(V)], SpreadGrows
<1>1. <<>> \in P
  BY <1>0, ConcatEmptySeq
<1>2. ASSUME NEW u \in Seq(V), NEW x \in V, u \in P PROVE Append(u, x) \in P
  <2>1. /\ Append(u, x) = u \o <<x>> /\ <<x>> \in Seq(V) /\ s \o u \in Seq(V) /\ Append(u, x) \in Seq(V)
        /\ Append(s \o u, x) = (s \o u) \o <<x>>
    BY AppendIsConcat, ConcatProperties, AppendProperties
  <2>2. s \o Append(u, x) = Append(s \o u, x)
    <3>1. (s \o u) \o <<x>> = s \o (u \o <<x>>)
      <4>1. Regroups(s, u, <<x>>)
        BY <2>1, Associates
      <4> QED
        BY ONLY <4>1 DEF Regroups
    <3> QED
      BY ONLY <2>1, <3>1
  <2>3. /\ Spread(m, Append(s \o u, x)) = Spread(m, s \o u) \o m[x]
        /\ Spread(m, Append(u, x)) = Spread(m, u) \o m[x]
        /\ Spread(m, s) \in Seq(V) /\ Spread(m, u) \in Seq(V) /\ m[x] \in Seq(V)
    BY <1>0, <2>1
  <2>4. (Spread(m, s) \o Spread(m, u)) \o m[x] = Spread(m, s) \o (Spread(m, u) \o m[x])
    <3>1. Regroups(Spread(m, s), Spread(m, u), m[x])
      BY <2>3, Associates
    <3> QED
      BY ONLY <3>1 DEF Regroups
  <2>5. Spread(m, s \o Append(u, x)) = Spread(m, s) \o Spread(m, Append(u, x))
    BY <1>2, <2>2, <2>3, <2>4
  <2> QED
    BY <2>1, <2>5
<1>3. t \in P
  <2>1. \A u \in Seq(V), x \in V : u \in P => Append(u, x) \in P
    BY <1>2
  <2> HIDE DEF P
  <2>2. \A u \in Seq(V) : u \in P
    BY <1>1, <2>1, AllSequences
  <2> QED
    BY <2>2
<1> QED
  BY <1>3 DEF SpreadsOver

\* Two steps in one.
LEMMA SpreadTwice ==
  ASSUME NEW V, NEW m1 \in [V -> Seq(V)], NEW m2 \in [V -> Seq(V)], NEW m3 \in [V -> Seq(V)],
         NEW s \in Seq(V), \A i \in 1..Len(s) : m3[s[i]] = Spread(m2, m1[s[i]])
  PROVE  Spread(m2, Spread(m1, s)) = Spread(m3, s)
<1> DEFINE Ok(t) == \A i \in 1..Len(t) : m3[t[i]] = Spread(m2, m1[t[i]])
           P == {t \in Seq(V) : Ok(t) => Spread(m2, Spread(m1, t)) = Spread(m3, t)}
<1>a. /\ Spread(m1, <<>>) = <<>>
      /\ \A t \in Seq(V) : Spread(m1, t) \in Seq(V)
      /\ \A t \in Seq(V), x \in V : Spread(m1, Append(t, x)) = Spread(m1, t) \o m1[x]
  BY ONLY m1 \in [V -> Seq(V)], SpreadGrows
<1>b. /\ Spread(m2, <<>>) = <<>>
      /\ \A t \in Seq(V) : Spread(m2, t) \in Seq(V)
      /\ \A t \in Seq(V), x \in V : Spread(m2, Append(t, x)) = Spread(m2, t) \o m2[x]
  BY ONLY m2 \in [V -> Seq(V)], SpreadGrows
<1>c. /\ Spread(m3, <<>>) = <<>>
      /\ \A t \in Seq(V) : Spread(m3, t) \in Seq(V)
      /\ \A t \in Seq(V), x \in V : Spread(m3, Append(t, x)) = Spread(m3, t) \o m3[x]
  BY ONLY m3 \in [V -> Seq(V)], SpreadGrows
<1>1. <<>> \in P
  <2>1. Spread(m1, <<>>) = <<>> /\ Spread(m2, <<>>) = <<>> /\ Spread(m3, <<>>) = <<>>
    BY <1>a, <1>b, <1>c
  <2> QED
    BY <2>1
<1>2. ASSUME NEW t \in Seq(V), NEW x \in V, t \in P PROVE Append(t, x) \in P
  <2>1. PICK u : u = Append(t, x)
    OBVIOUS
  <2>2. /\ u \in Seq(V) /\ Len(u) = Len(t) + 1 /\ u[Len(t) + 1] = x /\ (\A i \in 1..Len(t) : u[i] = t[i]) /\ Len(t) \in Nat
    BY <2>1, AppendProperties
  <2>3. ASSUME Ok(u) PROVE Spread(m2, Spread(m1, u)) = Spread(m3, u)
    <3>1. Ok(t)
      <4>1. \A i \in 1..Len(t) : i \in 1..Len(u)
        BY <2>2
      <4> QED
        BY <2>2, <2>3, <4>1
    <3>2. m3[x] = Spread(m2, m1[x])
      <4>1. Len(t) + 1 \in 1..Len(u)
        BY <2>2
      <4> QED
        BY <2>2, <2>3, <4>1
    <3>3. Spread(m2, Spread(m1, t)) = Spread(m3, t)
      BY <1>2, <3>1
    <3>4. Spread(m1, u) = Spread(m1, t) \o m1[x] /\ Spread(m1, t) \in Seq(V) /\ m1[x] \in Seq(V)
      BY <1>a, <1>c, <2>1
    <3>5. Spread(m3, u) = Spread(m3, t) \o m3[x]
      BY <1>a, <1>c, <2>1
    <3>6. Spread(m2, Spread(m1, t) \o m1[x]) = Spread(m2, Spread(m1, t)) \o Spread(m2, m1[x])
      <4>1. SpreadsOver(m2, Spread(m1, t), m1[x])
        BY <3>4, SpreadJoins
      <4> QED
        BY ONLY <4>1 DEF SpreadsOver
    <3> QED
      BY <3>2, <3>3, <3>4, <3>5, <3>6
  <2> HIDE DEF Ok
  <2> QED
    BY <2>1, <2>2, <2>3
<1>3. s \in P
  <2>1. \A t \in Seq(V), x \in V : t \in P => Append(t, x) \in P
    BY <1>2
  <2> HIDE DEF P
  <2>2. \A t \in Seq(V) : t \in P
    BY <1>1, <2>1, AllSequences
  <2> QED
    BY <2>2
<1>4. Ok(s)
  OBVIOUS
<1> HIDE DEF Ok
<1> QED
  BY <1>3, <1>4

\* What is there afterwards came from what was there.
LEMMA SpreadHolds ==
  ASSUME NEW V, NEW m \in [V -> Seq(V)], NEW s \in Seq(V)
  PROVE  \A k \in 1..Len(Spread(m, s)) : \E i \in 1..Len(s) : \E j \in 1..Len(m[s[i]]) : Spread(m, s)[k] = m[s[i]][j]
<1> DEFINE From(y, t) == \E i \in 1..Len(t) : \E j \in 1..Len(m[t[i]]) : y = m[t[i]][j]
           P == {t \in Seq(V) : \A k \in 1..Len(Spread(m, t)) : From(Spread(m, t)[k], t)}
<1>0. /\ Spread(m, <<>>) = <<>>
      /\ \A t \in Seq(V) : Spread(m, t) \in Seq(V)
      /\ \A t \in Seq(V), x \in V : Spread(m, Append(t, x)) = Spread(m, t) \o m[x]
  BY ONLY m \in [V -> Seq(V)], SpreadGrows
<1>1. <<>> \in P
  <2>1. Spread(m, <<>>) = <<>> /\ Len(<<>>) = 0
    BY <1>0
  <2> QED
    BY <2>1
<1>2. ASSUME NEW t \in Seq(V), NEW x \in V, t \in P PROVE Append(t, x) \in P
  <2>1. PICK u : u = Append(t, x)
    OBVIOUS
  <2>2. /\ u \in Seq(V) /\ Len(u) = Len(t) + 1 /\ u[Len(t) + 1] = x /\ (\A i \in 1..Len(t) : u[i] = t[i]) /\ Len(t) \in Nat
    BY <2>1, AppendProperties
  <2>3. PICK g : g = Spread(m, t)
    OBVIOUS
  <2>4. g \in Seq(V) /\ m[x] \in Seq(V) /\ Spread(m, u) = g \o m[x]
    BY <1>0, <2>1, <2>3
  <2>5. ASSUME NEW k \in 1..Len(Spread(m, u)) PROVE From(Spread(m, u)[k], u)
    <3>1. Len(g) \in Nat /\ Len(m[x]) \in Nat /\ Len(g \o m[x]) = Len(g) + Len(m[x])
      BY <2>4
    <3>2. CASE k <= Len(g)
      <4>1. k \in 1..Len(g) /\ Spread(m, u)[k] = g[k]
        BY <2>4, <3>1, <3>2
      <4>2. From(g[k], t)
        BY <1>2, <2>3, <4>1
      <4>3. PICK i \in 1..Len(t) : \E j \in 1..Len(m[t[i]]) : g[k] = m[t[i]][j]
        BY <4>2
      <4>4. i \in 1..Len(u) /\ u[i] = t[i]
        BY <2>2
      <4> QED
        BY <4>1, <4>3, <4>4
    <3>3. CASE ~(k <= Len(g))
      <4>1. k - Len(g) \in 1..Len(m[x]) /\ Spread(m, u)[k] = m[x][k - Len(g)]
        BY <2>4, <3>1, <3>3
      <4>2. Len(t) + 1 \in 1..Len(u) /\ u[Len(t) + 1] = x
        BY <2>2
      <4> QED
        BY <4>1, <4>2
    <3> QED
      BY <3>2, <3>3
  <2> HIDE DEF From
  <2> QED
    BY <2>1, <2>2, <2>5
<1>3. s \in P
  <2>1. \A t \in Seq(V), x \in V : t \in P => Append(t, x) \in P
    BY <1>2
  <2> HIDE DEF P
  <2>2. \A t \in Seq(V) : t \in P
    BY <1>1, <2>1, AllSequences
  <2> QED
    BY <2>2
<1> QED
  BY <1>3
================================================================================
