---------------------------- MODULE TranslationProofs ----------------------------
(***************************************************************************)
(* Theorems about TranslationProxy, for any requests of any shape and any  *)
(* statuses: an answer is put together right, and vLLM has been stopped    *)
(* when the proxy is over.                                                 *)
(*                                                                         *)
(* The loops of translate that build all_segs and idx are recursive        *)
(* functions.  What they compute is shown by induction over sets of        *)
(* numbers: the set of the j for which a statement holds contains 0 and    *)
(* the successor of each of its members.                                   *)
(***************************************************************************)
EXTENDS TranslationProxy, SequenceTheorems, WellFoundedInduction, TLAPS

-----------------------------------------------------------------------------
(* Induction *)

\* A set of natural numbers that is not empty has a least element.
LEMMA LeastNumber ==
    ASSUME NEW T, T \subseteq Nat, T # {}
    PROVE  \E m \in T : \A k \in T : m <= k
  <1> DEFINE R == {ss \in Nat \X Nat : ss[1] < ss[2]}
  <1>1. IsWellFoundedOn(R, Nat)
    BY NatLessThanWellFounded DEF OpToRel
  <1>2. \E x \in T : \A y \in T : ~ (<<y, x>> \in R)
    <2> HIDE DEF R
    <2> QED BY <1>1, WFMin
  <1>3. ASSUME NEW x \in T, NEW y \in T, ~ (<<y, x>> \in R) PROVE x <= y
    BY <1>3
  <1> QED BY <1>2, <1>3

\* A set that contains 0 and, up to n, the successors of its members contains
\* the numbers up to n.
LEMMA UpTo ==
    ASSUME NEW n \in Nat, NEW S, 0 \in S, \A j \in 0 .. n - 1 : j \in S => j + 1 \in S
    PROVE  0 .. n \subseteq S
  <1> DEFINE T == (0 .. n) \ S
  <1> SUFFICES ASSUME T # {} PROVE FALSE
    OBVIOUS
  <1>1. PICK m \in T : \A k \in T : m <= k
    <2>1. T \subseteq Nat OBVIOUS
    <2> HIDE DEF T
    <2> QED BY <2>1, LeastNumber
  <1>2. m # 0 /\ m - 1 \in 0 .. n - 1 /\ m - 1 \notin T
    BY <1>1
  <1> QED BY <1>2

-----------------------------------------------------------------------------
(* Loops *)

\* A loop over 1 .. n on values of V: what each turn makes of a value.
Turns(n, V) == [V \X (1 .. n) -> V]

\* The values after each turn of a loop that starts with v0.
LoopValues(n, V, v0, turn) ==
    {g \in [0 .. n -> V] : g[0] = v0 /\ \A j \in 1 .. n : g[j] = turn[<<g[j - 1], j>>]}

\* A loop whose turns stay in V has values.
LEMMA LoopRuns ==
    ASSUME NEW n \in Nat, NEW V, NEW v0 \in V, NEW turn \in Turns(n, V)
    PROVE  LoopValues(n, V, v0, turn) # {}
  <1> USE DEF Turns
  <1> DEFINE Runs(m) == {g \in [0 .. m -> V] : g[0] = v0 /\ \A j \in 1 .. m : g[j] = turn[<<g[j - 1], j>>]}
             S == {m \in Nat : Runs(m) # {}}
  <1>1. 0 \in S
    <2>1. [i \in 0 .. 0 |-> v0] \in Runs(0) OBVIOUS
    <2> QED BY <2>1
  <1>2. \A m \in 0 .. n - 1 : m \in S => m + 1 \in S
    <2> SUFFICES ASSUME NEW m \in 0 .. n - 1, m \in S PROVE m + 1 \in S
      OBVIOUS
    <2>1. PICK g \in [0 .. m -> V] : g[0] = v0 /\ \A j \in 1 .. m : g[j] = turn[<<g[j - 1], j>>]
      OBVIOUS
    <2> DEFINE v == turn[<<g[m], m + 1>>]
               h == [j \in 0 .. m + 1 |-> IF j = m + 1 THEN v ELSE g[j]]
    <2>2. m \in Nat /\ m + 1 \in 1 .. n /\ m \in 0 .. m OBVIOUS
    <2>3. v \in V BY <2>1, <2>2
    <2>4. h \in [0 .. m + 1 -> V] BY <2>1, <2>2, <2>3
    <2>5. h[0] = v0 BY <2>1, <2>2
    <2>6. \A j \in 1 .. m + 1 : h[j] = turn[<<h[j - 1], j>>]
      <3> TAKE j \in 1 .. m + 1
      <3>1. CASE j = m + 1
        <4>1. j - 1 = m /\ m \in 0 .. m + 1 /\ m # m + 1 BY <2>2, <3>1
        <4>2. h[m] = g[m] BY <4>1
        <4>3. h[m + 1] = v /\ v = turn[<<g[m], m + 1>>] BY <2>2
        <4> HIDE DEF h, v
        <4> QED BY <3>1, <4>1, <4>2, <4>3
      <3>2. CASE j # m + 1
        <4>1. j \in 1 .. m /\ h[j] = g[j] /\ h[j - 1] = g[j - 1] BY <2>2, <3>2
        <4> QED BY <2>1, <4>1
      <3> QED BY <3>1, <3>2
    <2> HIDE DEF h
    <2>7. h \in Runs(m + 1) BY <2>4, <2>5, <2>6
    <2> HIDE DEF Runs
    <2>8. Runs(m + 1) # {} /\ m + 1 \in Nat BY <2>2, <2>7
    <2> QED BY <2>8
  <1>3. n \in S
    <2> HIDE DEF S
    <2>1. 0 .. n \subseteq S BY <1>1, <1>2, UpTo
    <2> QED BY <2>1
  <1> QED BY <1>3 DEF LoopValues

\* idx counts the sentences of the texts before.
LEMMA IdxRuns ==
    ASSUME NEW ns \in Seq(Nat)
    PROVE  /\ \A j \in 0 .. Len(ns) : Idx(ns)[j] \in Nat
           /\ Idx(ns)[0] = 0
           /\ \A j \in 1 .. Len(ns) : Idx(ns)[j] = Idx(ns)[j - 1] + ns[j]
  <1> DEFINE n == Len(ns)
             V == Nat
             turn == [x \in V \X (1 .. n) |-> x[1] + ns[x[2]]]
  <1>0. n \in Nat /\ 0 \in V
    OBVIOUS
  <1>1. turn \in Turns(n, V)
    BY DEF Turns
  <1>2. \A v \in V, j \in 1 .. n : turn[<<v, j>>] = v + ns[j]
    OBVIOUS
  <1>3. PICK g \in [0 .. n -> V] :
           g[0] = 0 /\ \A j \in 1 .. n : g[j] = turn[<<g[j - 1], j>>]
    <2> HIDE DEF turn, n, V
    <2>1. LoopValues(n, V, 0, turn) # {} BY <1>0, <1>1, LoopRuns
    <2> QED BY <2>1 DEF LoopValues
  <1> HIDE DEF turn
  <1>5. \A j \in 0 .. n : g[j] = IF j = 0 THEN 0 ELSE g[j - 1] + ns[j]
    <2> TAKE j \in 0 .. n
    <2>1. CASE j = 0 BY <1>3, <2>1
    <2>2. CASE j # 0
      <3>1. j \in 1 .. n /\ j - 1 \in 0 .. n BY <2>2
      <3>2. g[j - 1] \in V BY <1>3, <3>1
      <3> QED BY <1>2, <1>3, <2>2, <3>1, <3>2
    <2> QED BY <2>1, <2>2
  <1>6. g = [j \in 0 .. n |-> IF j = 0 THEN 0 ELSE g[j - 1] + ns[j]]
    BY <1>3, <1>5
  <1>7. Idx(ns) = [j \in 0 .. n |-> IF j = 0 THEN 0 ELSE Idx(ns)[j - 1] + ns[j]]
    BY <1>6 DEF Idx
  <1>8. /\ Idx(ns)[0] = 0
        /\ \A j \in 1 .. n : Idx(ns)[j] = Idx(ns)[j - 1] + ns[j]
    BY <1>0, <1>7
  <1> DEFINE S == {j \in 0 .. n : Idx(ns)[j] \in Nat}
  <1>9. 0 .. n \subseteq S
    <2>1. 0 \in S BY <1>0, <1>8
    <2>2. \A j \in 0 .. n - 1 : j \in S => j + 1 \in S
      <3> TAKE j \in 0 .. n - 1
      <3> HAVE j \in S
      <3>1. j + 1 \in 1 .. n /\ j + 1 - 1 = j OBVIOUS
      <3>2. Idx(ns)[j + 1] = Idx(ns)[j] + ns[j + 1] BY <1>8, <3>1
      <3>3. ns[j + 1] \in Nat BY <3>1
      <3> QED BY <3>1, <3>2, <3>3
    <2> HIDE DEF S, n
    <2> QED BY <1>0, <2>1, <2>2, UpTo
  <1> QED BY <1>8, <1>9

\* The sentences of one text, as all_segs.extend gets them.
Segments(ns, j) == [k \in 1 .. ns[j] |-> <<j, k>>]

\* There are as many as the text has, each after the text and its place in it.
LEMMA SegmentsListed ==
    ASSUME NEW ns \in Seq(Nat), NEW j \in 1 .. Len(ns)
    PROVE  /\ Segments(ns, j) \in Seq(Nat \X Nat)
           /\ Len(Segments(ns, j)) = ns[j]
           /\ \A k \in 1 .. ns[j] : Segments(ns, j)[k] = <<j, k>>
  <1>1. ns[j] \in Nat OBVIOUS
  <1>2. Segments(ns, j) \in [1 .. ns[j] -> Nat \X Nat] BY <1>1 DEF Segments
  <1>3. DOMAIN Segments(ns, j) = 1 .. ns[j] BY DEF Segments
  <1>4. Segments(ns, j) \in Seq(Nat \X Nat)
    <2> HIDE DEF Segments
    <2> QED BY <1>1, <1>2
  <1>5. Len(Segments(ns, j)) = ns[j]
    BY <1>1, <1>3, <1>4
  <1> QED BY <1>4, <1>5 DEF Segments

\* all_segs is extended by the sentences of each text.
LEMMA AllSegsRuns ==
    ASSUME NEW ns \in Seq(Nat)
    PROVE  /\ AllSegs(ns)[0] = <<>>
           /\ \A j \in 1 .. Len(ns) :
                AllSegs(ns)[j] = AllSegs(ns)[j - 1] \o Segments(ns, j)
  <1> DEFINE n == Len(ns)
             V == Seq(Nat \X Nat)
             turn == [x \in V \X (1 .. n) |-> x[1] \o Segments(ns, x[2])]
  <1>0. n \in Nat /\ <<>> \in V
    OBVIOUS
  <1>1. \A j \in 1 .. n : Segments(ns, j) \in V
    BY SegmentsListed
  <1>2. turn \in Turns(n, V)
    <2>1. \A v \in V, w \in V : v \o w \in V OBVIOUS
    <2> HIDE DEF V
    <2> QED BY <1>1, <2>1 DEF Turns
  <1>3. \A v \in V, j \in 1 .. n : turn[<<v, j>>] = v \o Segments(ns, j)
    <2> HIDE DEF V
    <2> QED OBVIOUS
  <1>4. PICK g \in [0 .. n -> V] :
           g[0] = <<>> /\ \A j \in 1 .. n : g[j] = turn[<<g[j - 1], j>>]
    <2> HIDE DEF turn, n, V
    <2>1. LoopValues(n, V, <<>>, turn) # {} BY <1>0, <1>2, LoopRuns
    <2> QED BY <2>1 DEF LoopValues
  <1> HIDE DEF turn, V
  <1>5. \A j \in 0 .. n : g[j] = IF j = 0 THEN <<>> ELSE g[j - 1] \o Segments(ns, j)
    <2> TAKE j \in 0 .. n
    <2>1. CASE j = 0 BY <1>4, <2>1
    <2>2. CASE j # 0
      <3>1. j \in 1 .. n /\ j - 1 \in 0 .. n BY <2>2
      <3>2. g[j - 1] \in V BY <1>4, <3>1
      <3> QED BY <1>3, <1>4, <2>2, <3>1, <3>2
    <2> QED BY <2>1, <2>2
  <1>6. g = [j \in 0 .. n |-> IF j = 0 THEN <<>> ELSE g[j - 1] \o Segments(ns, j)]
    BY <1>4, <1>5
  <1>7. AllSegs(ns) =
          [j \in 0 .. n |-> IF j = 0 THEN <<>> ELSE AllSegs(ns)[j - 1] \o Segments(ns, j)]
    BY <1>6 DEF AllSegs, Segments
  <1>8. /\ \A j \in 0 .. n : AllSegs(ns)[j] =
              IF j = 0 THEN <<>> ELSE AllSegs(ns)[j - 1] \o Segments(ns, j)
        /\ 0 \in 0 .. n /\ \A j \in 1 .. n : j \in 0 .. n /\ j # 0
    <2>1. 0 \in 0 .. n /\ \A j \in 1 .. n : j \in 0 .. n /\ j # 0 BY <1>0
    <2> HIDE DEF n
    <2> QED BY <1>7, <2>1, Zenon
  <1> HIDE DEF n
  <1>9. AllSegs(ns)[0] = <<>>
    BY <1>8
  <1>10. ASSUME NEW j \in 1 .. n PROVE AllSegs(ns)[j] = AllSegs(ns)[j - 1] \o Segments(ns, j)
    BY <1>8
  <1> QED BY <1>9, <1>10 DEF n

\* What an extended list holds: the old elements, and the new ones after them.
LEMMA Extended ==
    ASSUME NEW E, NEW u \in Seq(E), NEW v \in Seq(E)
    PROVE  /\ u \o v \in Seq(E) /\ Len(u \o v) = Len(u) + Len(v)
           /\ \A m \in 1 .. Len(u) : (u \o v)[m] = u[m]
           /\ \A k \in 1 .. Len(v) : (u \o v)[Len(u) + k] = v[k]
  OBVIOUS

\* After j texts, all_segs holds the sentences of the first j texts, as many as
\* idx counts, each at its place.
LEMMA AllSegsPlaces ==
    ASSUME NEW ns \in Seq(Nat)
    PROVE  \A j \in 0 .. Len(ns) :
             /\ AllSegs(ns)[j] \in Seq(Nat \X Nat) /\ Len(AllSegs(ns)[j]) = Idx(ns)[j]
             /\ \A i \in 1 .. j : \A k \in 1 .. ns[i] :
                  /\ Idx(ns)[i - 1] + k \in 1 .. Idx(ns)[j]
                  /\ AllSegs(ns)[j][Idx(ns)[i - 1] + k] = <<i, k>>
  <1> DEFINE n == Len(ns)
             all == AllSegs(ns)
             idx == Idx(ns)
             Good(j) == /\ all[j] \in Seq(Nat \X Nat) /\ Len(all[j]) = idx[j]
                        /\ \A i \in 1 .. j : \A k \in 1 .. ns[i] :
                             /\ idx[i - 1] + k \in 1 .. idx[j]
                             /\ all[j][idx[i - 1] + k] = <<i, k>>
             S == {j \in 0 .. n : Good(j)}
  <1>0. n \in Nat /\ \A j \in 1 .. n : ns[j] \in Nat
    OBVIOUS
  <1>1. all[0] = <<>> /\ \A j \in 1 .. n : all[j] = all[j - 1] \o Segments(ns, j)
    BY AllSegsRuns
  <1>2. /\ \A j \in 0 .. n : idx[j] \in Nat
        /\ idx[0] = 0 /\ \A j \in 1 .. n : idx[j] = idx[j - 1] + ns[j]
    BY IdxRuns
  <1> HIDE DEF n, all, idx
  <1>3. 0 \in S
    <2>1. all[0] \in Seq(Nat \X Nat) /\ Len(all[0]) = idx[0]
      <3>1. <<>> \in Seq(Nat \X Nat) /\ Len(<<>>) = 0 OBVIOUS
      <3> QED BY <1>1, <1>2, <3>1
    <2>2. 0 \in 0 .. n /\ 1 .. 0 = {} BY <1>0
    <2> QED BY <2>1, <2>2
  <1>4. \A j \in 0 .. n - 1 : j \in S => j + 1 \in S
    <2> TAKE j \in 0 .. n - 1
    <2> HAVE j \in S
    <2>1. j + 1 \in 1 .. n /\ j \in 0 .. n /\ j + 1 \in 0 .. n BY <1>0
    <2>2. idx[j] \in Nat /\ ns[j + 1] \in Nat /\ idx[j + 1] = idx[j] + ns[j + 1]
      BY <1>0, <1>2, <2>1
    <2>3. all[j + 1] = all[j] \o Segments(ns, j + 1)
      <3> DEFINE m == j + 1
      <3>1. m \in 1 .. n /\ m - 1 = j BY <2>1
      <3> HIDE DEF m
      <3>2. all[m] = all[m - 1] \o Segments(ns, m) BY <1>1, <3>1
      <3>3. all[m] = all[j] \o Segments(ns, m) BY <3>1, <3>2
      <3> QED BY <3>3 DEF m
    <2>4. /\ Segments(ns, j + 1) \in Seq(Nat \X Nat)
          /\ Len(Segments(ns, j + 1)) = ns[j + 1]
          /\ \A k \in 1 .. ns[j + 1] : Segments(ns, j + 1)[k] = <<j + 1, k>>
      BY <2>1, SegmentsListed DEF n
    <2>5. all[j] \in Seq(Nat \X Nat) /\ Len(all[j]) = idx[j] OBVIOUS
    <2>6. /\ all[j + 1] \in Seq(Nat \X Nat) /\ Len(all[j + 1]) = idx[j + 1]
          /\ \A m \in 1 .. idx[j] : all[j + 1][m] = all[j][m]
          /\ \A k \in 1 .. ns[j + 1] : all[j + 1][idx[j] + k] = <<j + 1, k>>
      <3> DEFINE u == all[j]
                 v == Segments(ns, j + 1)
      <3>1. /\ u \o v \in Seq(Nat \X Nat) /\ Len(u \o v) = Len(u) + Len(v)
            /\ \A m \in 1 .. Len(u) : (u \o v)[m] = u[m]
            /\ \A k \in 1 .. Len(v) : (u \o v)[Len(u) + k] = v[k]
        <4>1. u \in Seq(Nat \X Nat) /\ v \in Seq(Nat \X Nat) BY <2>4, <2>5
        <4> DEFINE E == Nat \X Nat
        <4> HIDE DEF u, v, E
        <4>2. u \in Seq(E) /\ v \in Seq(E) BY <4>1 DEF E
        <4>3. /\ u \o v \in Seq(E) /\ Len(u \o v) = Len(u) + Len(v)
              /\ \A m \in 1 .. Len(u) : (u \o v)[m] = u[m]
              /\ \A k \in 1 .. Len(v) : (u \o v)[Len(u) + k] = v[k]
          BY <4>2, Extended
        <4> QED BY <4>3 DEF E
      <3> QED BY <2>2, <2>3, <2>4, <2>5, <3>1
    <2>7. ASSUME NEW i \in 1 .. j + 1, NEW k \in 1 .. ns[i]
          PROVE  idx[i - 1] + k \in 1 .. idx[j + 1] /\ all[j + 1][idx[i - 1] + k] = <<i, k>>
      <3>1. CASE i = j + 1
        <4>1. i - 1 = j /\ k \in 1 .. ns[j + 1] BY <2>1, <3>1
        <4>2. idx[i - 1] = idx[j] BY <4>1
        <4>3. idx[j] + k \in 1 .. idx[j + 1] BY <2>2, <4>1
        <4>4. all[j + 1][idx[j] + k] = <<j + 1, k>> BY <2>6, <4>1
        <4> QED BY <3>1, <4>2, <4>3, <4>4
      <3>2. CASE i # j + 1
        <4>1. i \in 1 .. j BY <2>1, <3>2
        <4>2. idx[i - 1] + k \in 1 .. idx[j] /\ all[j][idx[i - 1] + k] = <<i, k>> BY <4>1
        <4>3. idx[i - 1] + k \in 1 .. idx[j + 1]
          <5> DEFINE x == idx[i - 1] + k
          <5>1. x \in 1 .. idx[j] BY <4>2
          <5> HIDE DEF x
          <5>2. x \in 1 .. idx[j + 1] BY <2>2, <5>1
          <5> QED BY <5>2 DEF x
        <4>4. all[j + 1][idx[i - 1] + k] = all[j][idx[i - 1] + k] BY <2>6, <4>2
        <4> QED BY <4>2, <4>3, <4>4
      <3> QED BY <3>1, <3>2
    <2> QED BY <2>1, <2>6, <2>7
  <1>5. 0 .. n \subseteq S
    <2> HIDE DEF S
    <2> QED BY <1>0, <1>3, <1>4, UpTo
  <1> QED BY <1>5 DEF n, all, idx

\* And nothing else: every place is the place of a sentence.
LEMMA AllSegsCovered ==
    ASSUME NEW ns \in Seq(Nat)
    PROVE  \A j \in 0 .. Len(ns) : \A m \in 1 .. Idx(ns)[j] :
             \E i \in 1 .. j : \E k \in 1 .. ns[i] : m = Idx(ns)[i - 1] + k
  <1> DEFINE n == Len(ns)
             idx == Idx(ns)
             S == {j \in 0 .. n : \A m \in 1 .. idx[j] :
                                    \E i \in 1 .. j : \E k \in 1 .. ns[i] : m = idx[i - 1] + k}
  <1>0. n \in Nat /\ \A j \in 1 .. n : ns[j] \in Nat
    OBVIOUS
  <1>1. /\ \A j \in 0 .. n : idx[j] \in Nat
        /\ idx[0] = 0 /\ \A j \in 1 .. n : idx[j] = idx[j - 1] + ns[j]
    BY IdxRuns
  <1> HIDE DEF n, idx
  <1>2. 0 \in S
    BY <1>0, <1>1
  <1>3. \A j \in 0 .. n - 1 : j \in S => j + 1 \in S
    <2> TAKE j \in 0 .. n - 1
    <2> HAVE j \in S
    <2> DEFINE h == j + 1
    <2>1. h \in 1 .. n /\ h - 1 = j /\ h \in 0 .. n /\ j \in 0 .. n BY <1>0
    <2> HIDE DEF h
    <2>2. idx[j] \in Nat /\ ns[h] \in Nat /\ idx[h] = idx[j] + ns[h]
      BY <1>0, <1>1, <2>1
    <2>3. ASSUME NEW m \in 1 .. idx[h]
          PROVE  \E i \in 1 .. h : \E k \in 1 .. ns[i] : m = idx[i - 1] + k
      <3>1. CASE m \in 1 .. idx[j]
        <4>1. PICK i \in 1 .. j : \E k \in 1 .. ns[i] : m = idx[i - 1] + k BY <3>1
        <4>2. i \in 1 .. h BY <2>1
        <4> QED BY <4>1, <4>2
      <3>2. CASE m \notin 1 .. idx[j]
        <4> DEFINE k == m - idx[j]
        <4>1. k \in 1 .. ns[h] /\ m = idx[j] + k BY <2>2, <3>2
        <4> HIDE DEF k
        <4>2. h \in 1 .. h /\ idx[h - 1] = idx[j] BY <2>1
        <4> QED BY <4>1, <4>2
      <3> QED BY <3>1, <3>2
    <2>4. h \in S BY <2>1, <2>3
    <2> QED BY <2>4 DEF h
  <1>4. 0 .. n \subseteq S
    <2> HIDE DEF S
    <2> QED BY <1>0, <1>2, <1>3, UpTo
  <1> QED BY <1>4 DEF n, idx

\* The sentences of a request are the pairs of a text and a place in it.
LEMMA SentencesPairs ==
    ASSUME NEW ns \in Seq(Nat)
    PROVE  /\ \A j \in 1 .. Len(ns) : \A k \in 1 .. ns[j] : <<j, k>> \in Sentences(ns)
           /\ \A s \in Sentences(ns) :
                \E j \in 1 .. Len(ns) : \E k \in 1 .. ns[j] : s = <<j, k>>
  BY DEF Sentences

\* The place of sentence s in a request of the shape ns.
PlaceOf(ns, s) == Idx(ns)[s[1] - 1] + s[2]

\* all_segs lists every sentence once, in the order of the request.
LEMMA AllSegsListed ==
    ASSUME NEW ns \in Seq(Nat)
    PROVE  LET all == AllSegs(ns)[Len(ns)] IN
           /\ Len(all) \in Nat
           /\ \A s \in Sentences(ns) : PlaceOf(ns, s) \in 1 .. Len(all) /\ all[PlaceOf(ns, s)] = s
           /\ \A m \in 1 .. Len(all) : all[m] \in Sentences(ns) /\ PlaceOf(ns, all[m]) = m
           /\ \A s \in Sentences(ns), t \in Sentences(ns) :
                Before(s, t) => PlaceOf(ns, s) < PlaceOf(ns, t)
  <1> DEFINE n == Len(ns)
             idx == Idx(ns)
             all == AllSegs(ns)[n]
  <1>0. n \in Nat /\ n \in 0 .. n
    OBVIOUS
  <1>1. \A j \in 0 .. n : idx[j] \in Nat
    BY IdxRuns
  <1>2. /\ Len(all) = idx[n]
        /\ \A i \in 1 .. n : \A k \in 1 .. ns[i] :
             idx[i - 1] + k \in 1 .. idx[n] /\ all[idx[i - 1] + k] = <<i, k>>
    BY <1>0, AllSegsPlaces
  <1>3. \A j \in 0 .. n : \A i \in 1 .. j : \A k \in 1 .. ns[i] : idx[i - 1] + k \in 1 .. idx[j]
    BY AllSegsPlaces
  <1>4. \A m \in 1 .. idx[n] : \E i \in 1 .. n : \E k \in 1 .. ns[i] : m = idx[i - 1] + k
    BY <1>0, AllSegsCovered
  <1>5. /\ \A j \in 1 .. n : \A k \in 1 .. ns[j] : <<j, k>> \in Sentences(ns)
        /\ \A s \in Sentences(ns) : \E j \in 1 .. n : \E k \in 1 .. ns[j] : s = <<j, k>>
    BY SentencesPairs
  <1>6. \A i, k : PlaceOf(ns, <<i, k>>) = idx[i - 1] + k
    BY DEF PlaceOf
  <1>7. \A i \in 1 .. n : ns[i] \in Nat
    OBVIOUS
  <1> HIDE DEF n, idx, all
  <1>8. ASSUME NEW s \in Sentences(ns)
        PROVE  PlaceOf(ns, s) \in 1 .. Len(all) /\ all[PlaceOf(ns, s)] = s
    <2>1. PICK j \in 1 .. n : \E k \in 1 .. ns[j] : s = <<j, k>> BY <1>5
    <2>2. PICK k \in 1 .. ns[j] : s = <<j, k>> BY <2>1
    <2>3. PlaceOf(ns, s) = idx[j - 1] + k BY <1>6, <2>2
    <2> QED BY <1>2, <2>2, <2>3
  <1>9. ASSUME NEW m \in 1 .. Len(all)
        PROVE  all[m] \in Sentences(ns) /\ PlaceOf(ns, all[m]) = m
    <2>1. m \in 1 .. idx[n] BY <1>2
    <2>2. PICK i \in 1 .. n : \E k \in 1 .. ns[i] : m = idx[i - 1] + k BY <1>4, <2>1
    <2>3. PICK k \in 1 .. ns[i] : m = idx[i - 1] + k BY <2>2
    <2>4. all[m] = <<i, k>> BY <1>2, <2>3
    <2> QED BY <1>5, <1>6, <2>3, <2>4
  <1>10. ASSUME NEW s \in Sentences(ns), NEW t \in Sentences(ns), Before(s, t)
         PROVE  PlaceOf(ns, s) < PlaceOf(ns, t)
    <2>1. PICK i \in 1 .. n : \E k \in 1 .. ns[i] : s = <<i, k>> BY <1>5
    <2>2. PICK k \in 1 .. ns[i] : s = <<i, k>> BY <2>1
    <2>3. PICK j \in 1 .. n : \E l \in 1 .. ns[j] : t = <<j, l>> BY <1>5
    <2>4. PICK l \in 1 .. ns[j] : t = <<j, l>> BY <2>3
    <2>5. PlaceOf(ns, s) = idx[i - 1] + k /\ PlaceOf(ns, t) = idx[j - 1] + l
      BY <1>6, <2>2, <2>4
    <2>6. j - 1 \in 0 .. n /\ idx[j - 1] \in Nat /\ ns[i] \in Nat /\ ns[j] \in Nat
      BY <1>0, <1>1, <1>7
    <2>7. i < j \/ (i = j /\ k < l) BY <1>10, <2>2, <2>4 DEF Before
    <2>8. CASE i < j
      <3>1. i \in 1 .. j - 1 BY <1>0, <2>8
      <3> DEFINE x == idx[i - 1] + k
                 y == idx[j - 1]
      <3>2. x \in 1 .. y BY <1>3, <2>6, <3>1
      <3>3. y \in Nat BY <2>6
      <3> HIDE DEF x, y
      <3>4. x < y + l BY <2>6, <3>2, <3>3
      <3> QED BY <2>5, <3>4 DEF x, y
    <2>9. CASE i = j /\ k < l
      BY <2>5, <2>6, <2>9
    <2> QED BY <2>7, <2>8, <2>9
  <1> QED BY <1>1, <1>0, <1>2, <1>8, <1>9, <1>10 DEF n, all

-----------------------------------------------------------------------------
(* The proxy *)

\* Where lifespan can be.
Lives == {"start", "wait", "ready", "serving", "giveup", "close", "term"} \cup Ended

\* lifespan, its vLLM and the requests it has let in.
ProxyInv ==
    /\ life \in Lives /\ process \in BOOLEAN
    /\ leader \in {"none", "up", "dead", "reaped"}
    /\ life \in {"wait", "ready", "serving", "giveup", "close", "term"} => process
    /\ life = "start" => leader = "none"
    /\ workers \in BOOLEAN /\ termed \in BOOLEAN
    /\ leader = "none" => ~workers
    /\ life = "term" => termed
    /\ life # "serving" => \A q \in Requests : pc[q] # "gather"
    /\ DOMAIN pc = Requests
    /\ VllmStopped

\* Nothing runs before the start.
LEMMA ProxyInvInit == Init => ProxyInv
  BY DEF Init, ProxyInv, VllmStopped, Lives, Ended

\* A step of vLLM or of lifespan keeps what the proxy knows of them.
LEMMA LifeKeeps ==
    ASSUME ProxyInv, Vllm \/ Lifespan \/ Sigterm \/ Health
    PROVE  ProxyInv'
  <1> USE DEF ProxyInv, VllmStopped, Lives, Ended, requestVars, vllm
  <1>1. CASE Vllm BY <1>1 DEF Vllm, LeaderForks, LeaderExits, WorkersExit
  <1>2. CASE Sigterm BY <1>2 DEF Sigterm
  <1>3. CASE Health BY <1>3 DEF Health, Reaped
  <1>4. CASE StartVllm BY <1>4 DEF StartVllm
  <1>5. CASE WaitVllm BY <1>5 DEF WaitVllm, Reaped
  <1>6. CASE InitClients BY <1>6 DEF InitClients
  <1>7. CASE Close BY <1>7 DEF Close
  <1>8. CASE StopTerminates BY <1>8 DEF StopTerminates, Stopped
  <1>9. CASE StopWaits BY <1>9 DEF StopWaits, Stopped, Reaped
  <1>10. CASE StopKills BY <1>10 DEF StopKills, Stopped
  <1> QED
    BY <1>1, <1>2, <1>3, <1>4, <1>5, <1>6, <1>7, <1>8, <1>9, <1>10 DEF Lifespan

\* A step of a request does not touch the proxy, and starts only while it serves.
LEMMA RequestKeeps ==
    ASSUME ProxyInv, NEW q \in Requests,
           \/ Refuse(q) \/ Translate(q) \/ RequestStep(q)
           \/ \E s \in Sentences(counts[q]) : Translated(q, s) \/ SentenceFails(q, s)
    PROVE  ProxyInv'
  <1>1. /\ UNCHANGED <<life, process, leader, workers, termed>>
        /\ \/ pc' = pc
           \/ pc' = [pc EXCEPT ![q] = "refused"] \/ pc' = [pc EXCEPT ![q] = "answered"]
           \/ life = "serving" /\ pc' = [pc EXCEPT ![q] = "gather"]
    <2>1. CASE Refuse(q) BY <2>1 DEF Refuse, Answers, Goto, proxyVars, vllm
    <2>2. CASE Translate(q) BY <2>2 DEF Translate, Goto, proxyVars, vllm
    <2>3. CASE Respond(q) BY <2>3 DEF Respond, Answers, Goto, proxyVars, vllm
    <2>4. CASE \E s \in Sentences(counts[q]) :
                 SentenceTimesOut(q, s) \/ Translated(q, s) \/ SentenceFails(q, s)
      BY <2>4 DEF SentenceTimesOut, Translated, SentenceFails, SentenceEnds, proxyVars, vllm
    <2> QED BY <2>1, <2>2, <2>3, <2>4 DEF RequestStep
  <1> QED BY <1>1 DEF ProxyInv, VllmStopped, Lives, Ended

\* Every step keeps the invariant.
LEMMA ProxyInvKept == ProxyInv /\ [Next]_vars => ProxyInv'
  <1> SUFFICES ASSUME ProxyInv, [Next]_vars PROVE ProxyInv'
    OBVIOUS
  <1>1. CASE Finished \/ UNCHANGED vars
    BY <1>1 DEF Finished, vars, proxyVars, vllm, requestVars, ProxyInv, VllmStopped, Lives, Ended
  <1>2. CASE Vllm \/ Lifespan \/ Sigterm \/ Health
    BY <1>2, LifeKeeps
  <1>3. CASE \E q \in Requests :
               \/ Refuse(q) \/ Translate(q) \/ RequestStep(q)
               \/ \E s \in Sentences(counts[q]) : Translated(q, s) \/ SentenceFails(q, s)
    BY <1>3, RequestKeeps
  <1> QED BY <1>1, <1>2, <1>3 DEF Next

\* When the proxy is over, however it came to that, its vLLM process does not run,
\* every request it let in has been answered, and workers that still run have been
\* sent SIGTERM or had lost their leader, collected before the stop; for any
\* requests and statuses.
THEOREM ProxyStopsVllm == Spec => []VllmStopped
  <1>1. ProxyInv => VllmStopped BY DEF ProxyInv
  <1> QED BY <1>1, ProxyInvInit, ProxyInvKept, PTL DEF Spec

-----------------------------------------------------------------------------
(* The answers *)

\* What the requests under way and the answers are made of.
BatchInv ==
    /\ DOMAIN pc = Requests /\ DOMAIN counts = Requests
    /\ DOMAIN results = Requests /\ DOMAIN response = Requests
    /\ \A q \in Requests : pc[q] \in {"gather", "answered"} => counts[q] \in Seq(Nat)
    /\ OwnSentences

\* Nothing has been asked.
LEMMA BatchInvInit == Init => BatchInv
  BY DEF Init, BatchInv, OwnSentences

\* A text is cut into a number of sentences each, none of them negative.
LEMMA ShapesCount == Shapes \subseteq Seq(Nat)
  <1> SUFFICES ASSUME NEW ns \in Shapes PROVE ns \in Seq(Nat)
    OBVIOUS
  <1>1. PICK n \in 0 .. MaxTexts : ns \in [1 .. n -> 0 .. MaxSegs] BY DEF Shapes
  <1>2. n \in Nat /\ ns \in [1 .. n -> Nat] BY <1>1, TextsAssumption, SegsAssumption
  <1> QED BY <1>2

\* The pieces of each text are those of its sentences.
LEMMA JoinedOwn ==
    ASSUME NEW q \in Requests, counts[q] \in Seq(Nat)
    PROVE  Joined(q) =
             [j \in 1 .. Len(counts[q]) |-> [k \in 1 .. counts[q][j] |->
                 IF results[q][<<j, k>>] = Ok THEN <<j, k>> ELSE NoPiece]]
  <1> DEFINE ns == counts[q]
             n == Len(ns)
             idx == Idx(ns)
             all == AllSegs(ns)[n]
             piece == Translations(q)
             P(s) == IF results[q][s] = Ok THEN s ELSE NoPiece
  <1>1. /\ n \in Nat /\ \A j \in 1 .. n : ns[j] \in Nat
        /\ \A j \in 0 .. n : idx[j] \in Nat
    BY IdxRuns
  <1>2. /\ Len(all) = idx[n]
        /\ \A i \in 1 .. n : \A k \in 1 .. ns[i] :
             idx[i - 1] + k \in 1 .. idx[n] /\ all[idx[i - 1] + k] = <<i, k>>
    <2>1. n \in 0 .. n BY <1>1
    <2> QED BY <2>1, AllSegsPlaces
  <1>3. piece = [i \in 1 .. Len(all) |-> P(all[i])]
    BY DEF Translations
  <1>4. Joined(q) = [j \in 1 .. n |-> SubSeq(piece, idx[j - 1] + 1, idx[j - 1] + ns[j])]
    BY DEF Joined
  <1> HIDE DEF ns, n, idx, all, piece, P
  <1>5. ASSUME NEW j \in 1 .. n
        PROVE  SubSeq(piece, idx[j - 1] + 1, idx[j - 1] + ns[j]) = [k \in 1 .. ns[j] |-> P(<<j, k>>)]
    <2> DEFINE a == idx[j - 1]
               c == ns[j]
               sub == SubSeq(piece, a + 1, a + c)
    <2>1. a \in Nat /\ c \in Nat
      <3>1. j - 1 \in 0 .. n BY <1>1
      <3> QED BY <1>1, <3>1
    <2>2. \A k \in 1 .. c : a + k \in 1 .. Len(all) /\ all[a + k] = <<j, k>>
      BY <1>2
    <2> HIDE DEF a, c
    <2>3. sub = [k \in 1 .. c |-> piece[a + k]]
      <3> DEFINE x == a + 1
                 y == a + c
                 E == {piece[i] : i \in x .. y}
      <3>1. /\ x \in Int /\ y \in Int /\ y - x + 1 = c
            /\ c = IF x <= y THEN y - x + 1 ELSE 0
            /\ \A k \in 1 .. c : x + k - 1 = a + k
        BY <2>1
      <3>2. \A i \in x .. y : piece[i] \in E OBVIOUS
      <3> HIDE DEF x, y, E
      <3>3. /\ SubSeq(piece, x, y) \in Seq(E) /\ Len(SubSeq(piece, x, y)) = c
            /\ \A k \in 1 .. c : SubSeq(piece, x, y)[k] = piece[a + k]
        BY <3>1, <3>2, SubSeqProperties
      <3>4. sub = SubSeq(piece, x, y) BY DEF x, y
      <3> HIDE DEF sub
      <3>5. sub \in Seq(E) /\ Len(sub) = c /\ \A k \in 1 .. c : sub[k] = piece[a + k]
        BY <3>3, <3>4
      <3> QED BY <2>1, <3>5
    <2>4. \A k \in 1 .. c : piece[a + k] = P(<<j, k>>)
      BY <1>3, <2>2
    <2> QED BY <2>3, <2>4 DEF a, c
  <1>6. Joined(q) = [j \in 1 .. n |-> [k \in 1 .. ns[j] |-> P(<<j, k>>)]]
    BY <1>4, <1>5
  <1> QED BY <1>6 DEF n, ns, P

\* The code of an answer is 0, or what the first sentence that failed failed with.
LEMMA CodeOfFirst ==
    ASSUME NEW q \in Requests, counts[q] \in Seq(Nat)
    PROVE  LET ns == counts[q]
               code == FirstError(q)
           IN  IF \A s \in Sentences(ns) : results[q][s] = Ok
                 THEN code = 0
                 ELSE \E s \in Sentences(ns) :
                        /\ code = results[q][s] /\ results[q][s] # Ok
                        /\ \A t \in Sentences(ns) : Before(t, s) => results[q][t] = Ok
  <1> DEFINE ns == counts[q]
             all == AllSegs(ns)[Len(ns)]
             Place(s) == PlaceOf(ns, s)
             res == results[q]
             failed == {i \in 1 .. Len(all) : res[all[i]] # Ok}
             first == CHOOSE i \in failed : \A k \in failed : i <= k
             code == FirstError(q)
             Segs == Sentences(ns)
  <1>1. /\ Len(all) \in Nat
        /\ \A s \in Segs : Place(s) \in 1 .. Len(all) /\ all[Place(s)] = s
        /\ \A m \in 1 .. Len(all) : all[m] \in Segs /\ Place(all[m]) = m
        /\ \A s \in Segs, t \in Segs : Before(s, t) => Place(s) < Place(t)
    BY AllSegsListed
  <1>2. code = IF failed = {} THEN 0 ELSE res[all[first]]
    BY DEF FirstError
  <1> SUFFICES IF \A s \in Segs : res[s] = Ok
                 THEN code = 0
                 ELSE \E s \in Segs :
                        /\ code = res[s] /\ res[s] # Ok
                        /\ \A t \in Segs : Before(t, s) => res[t] = Ok
    OBVIOUS
  <1> HIDE DEF ns, all, Place, res, code, Segs
  <1>3. CASE failed = {}
    <2>1. ASSUME NEW s \in Segs PROVE res[s] = Ok
      <3>1. Place(s) \in 1 .. Len(all) /\ all[Place(s)] = s BY <1>1
      <3> QED BY <1>3, <3>1
    <2> QED BY <1>2, <1>3, <2>1
  <1>4. CASE failed # {}
    <2>1. first \in failed /\ \A k \in failed : first <= k
      <3>1. failed \subseteq Nat BY <1>1
      <3> HIDE DEF failed
      <3>2. \E m \in failed : \A k \in failed : m <= k BY <1>4, <3>1, LeastNumber
      <3> QED BY <3>2
    <2>2. first \in 1 .. Len(all) /\ res[all[first]] # Ok BY <2>1
    <2> DEFINE s == all[first]
    <2>3. s \in Segs /\ Place(s) = first /\ code = res[s] /\ res[s] # Ok
      BY <1>1, <1>2, <1>4, <2>2
    <2> HIDE DEF first, s
    <2>4. ASSUME NEW t \in Segs, Before(t, s), res[t] # Ok PROVE FALSE
      <3>1. Place(t) \in 1 .. Len(all) /\ all[Place(t)] = t BY <1>1
      <3>2. Place(t) \in failed BY <2>4, <3>1
      <3>3. Place(t) < first BY <1>1, <2>3, <2>4
      <3> HIDE DEF failed
      <3>4. first <= Place(t) BY <2>1, <3>2
      <3>5. Place(t) \in Nat /\ first \in Nat BY <1>1, <2>2, <3>1
      <3> QED BY <3>3, <3>4, <3>5
    <2> QED BY <2>3, <2>4
  <1> QED BY <1>3, <1>4

\* The answers a step makes are right, and the batches it starts are counted.
LEMMA BatchStep ==
    ASSUME BatchInv, NEW q \in Requests,
           \/ Refuse(q) \/ Translate(q) \/ RequestStep(q)
           \/ \E s \in Sentences(counts[q]) : Translated(q, s) \/ SentenceFails(q, s)
    PROVE  BatchInv'
  <1> DEFINE Own(r) ==
               LET ns == counts[r]
                   code == response[r].code
               IN  /\ response[r].texts =
                        [j \in 1 .. Len(ns) |-> [k \in 1 .. ns[j] |->
                            IF results[r][<<j, k>>] = Ok THEN <<j, k>> ELSE NoPiece]]
                   /\ IF \A s \in Sentences(ns) : results[r][s] = Ok
                        THEN code = 0
                        ELSE \E s \in Sentences(ns) :
                               /\ code = results[r][s] /\ code \notin {Pending, Ok}
                               /\ \A t \in Sentences(ns) : Before(t, s) => results[r][t] = Ok
  <1>1. OwnSentences <=> \A r \in Requests : pc[r] = "answered" => Own(r)
    BY DEF OwnSentences
  <1>2. OwnSentences' <=> \A r \in Requests : pc'[r] = "answered" => Own(r)'
    BY DEF OwnSentences
  <1>3. /\ DOMAIN pc = Requests /\ DOMAIN counts = Requests
        /\ DOMAIN results = Requests /\ DOMAIN response = Requests
        /\ \A r \in Requests : pc[r] \in {"gather", "answered"} => counts[r] \in Seq(Nat)
        /\ \A r \in Requests : pc[r] = "answered" => Own(r)
    BY <1>1 DEF BatchInv
  <1>4. ASSUME NEW r \in Requests, Own(r),
               counts'[r] = counts[r], results'[r] = results[r], response'[r] = response[r]
        PROVE  Own(r)'
    BY <1>4
  <1> HIDE DEF Own
  <1> SUFFICES /\ DOMAIN pc' = Requests /\ DOMAIN counts' = Requests
               /\ DOMAIN results' = Requests /\ DOMAIN response' = Requests
               /\ \A r \in Requests : pc'[r] \in {"gather", "answered"} => counts'[r] \in Seq(Nat)
               /\ \A r \in Requests : pc'[r] = "answered" => Own(r)'
    BY <1>2 DEF BatchInv
  <1>5. CASE Refuse(q)
    <2>1. /\ pc' = [pc EXCEPT ![q] = "refused"] /\ counts' = counts /\ results' = results
          /\ \E code : response' = [response EXCEPT ![q] = [code |-> code, texts |-> <<>>]]
      BY <1>5 DEF Refuse, Goto, Answers
    <2> QED BY <1>3, <1>4, <2>1
  <1>6. CASE Translate(q)
    <2>1. PICK ns \in Shapes :
            /\ pc' = [pc EXCEPT ![q] = "gather"] /\ response' = response
            /\ counts' = [counts EXCEPT ![q] = ns]
            /\ results' = [results EXCEPT ![q] = [s \in Sentences(ns) |-> Pending]]
      BY <1>6 DEF Translate, Goto
    <2>2. ns \in Seq(Nat) BY ShapesCount
    <2> QED BY <1>3, <1>4, <2>1, <2>2
  <1>7. CASE Respond(q)
    <2>1. /\ pc[q] = "gather" /\ \A s \in Sentences(counts[q]) : results[q][s] # Pending
          /\ pc' = [pc EXCEPT ![q] = "answered"] /\ counts' = counts /\ results' = results
          /\ response' = [response EXCEPT ![q] = [code |-> FirstError(q), texts |-> Joined(q)]]
      BY <1>7 DEF Respond, Goto, Answers
    <2>2. counts[q] \in Seq(Nat) BY <1>3, <2>1
    <2>3. response'[q].code = FirstError(q) /\ response'[q].texts = Joined(q)
      BY <1>3, <2>1
    <2>4. Own(q)'
      <3>1. response'[q].texts =
              [j \in 1 .. Len(counts[q]) |-> [k \in 1 .. counts[q][j] |->
                  IF results[q][<<j, k>>] = Ok THEN <<j, k>> ELSE NoPiece]]
        BY <2>2, <2>3, JoinedOwn
      <3>2. LET ns == counts[q]
                code == FirstError(q)
            IN  IF \A s \in Sentences(ns) : results[q][s] = Ok
                  THEN code = 0
                  ELSE \E s \in Sentences(ns) :
                         /\ code = results[q][s] /\ results[q][s] # Ok
                         /\ \A t \in Sentences(ns) : Before(t, s) => results[q][t] = Ok
        BY <2>2, CodeOfFirst
      <3>3. IF \A s \in Sentences(counts[q]) : results[q][s] = Ok
              THEN response'[q].code = 0
              ELSE \E s \in Sentences(counts[q]) :
                     /\ response'[q].code = results[q][s]
                     /\ response'[q].code \notin {Pending, Ok}
                     /\ \A t \in Sentences(counts[q]) : Before(t, s) => results[q][t] = Ok
        BY <2>1, <2>3, <3>2
      <3> QED BY <2>1, <3>1, <3>3 DEF Own
    <2> QED BY <1>3, <1>4, <2>1, <2>2, <2>4
  <1>8. CASE \E s \in Sentences(counts[q]) :
               SentenceTimesOut(q, s) \/ Translated(q, s) \/ SentenceFails(q, s)
    <2>1. /\ pc[q] = "gather" /\ pc' = pc /\ counts' = counts /\ response' = response
          /\ \E s, result : results' = [results EXCEPT ![q][s] = result]
      BY <1>8 DEF SentenceTimesOut, Translated, SentenceFails, SentenceEnds
    <2>2. DOMAIN results' = Requests /\ \A r \in Requests : r # q => results'[r] = results[r]
      BY <1>3, <2>1
    <2> QED BY <1>3, <1>4, <2>1, <2>2
  <1> QED BY <1>5, <1>6, <1>7, <1>8 DEF RequestStep

\* Every step keeps the invariant: vLLM and lifespan do not touch the answers.
LEMMA BatchInvKept == BatchInv /\ [Next]_vars => BatchInv'
  <1> SUFFICES ASSUME BatchInv, [Next]_vars PROVE BatchInv'
    OBVIOUS
  <1>1. CASE UNCHANGED requestVars
    BY <1>1 DEF requestVars, BatchInv, OwnSentences
  <1>2. CASE Finished \/ UNCHANGED vars
    BY <1>1, <1>2 DEF Finished, vars
  <1>3. CASE Vllm \/ Lifespan \/ Sigterm \/ Health
    BY <1>1, <1>3 DEF Vllm, LeaderForks, LeaderExits, WorkersExit, Lifespan, Sigterm, Health, StartVllm, WaitVllm, InitClients,
                      Close, StopTerminates, StopWaits, StopKills
  <1>4. CASE \E q \in Requests :
               \/ Refuse(q) \/ Translate(q) \/ RequestStep(q)
               \/ \E s \in Sentences(counts[q]) : Translated(q, s) \/ SentenceFails(q, s)
    BY <1>4, BatchStep
  <1> QED BY <1>2, <1>3, <1>4 DEF Next

\* Every text of an answer is made of the translations of its own sentences in
\* their order, and the code is that of the first failure, for any number of
\* texts and sentences and whichever of them failed.
THEOREM AnswersOwnSentences == Spec => []OwnSentences
  <1>1. BatchInv => OwnSentences BY DEF BatchInv
  <1> QED BY <1>1, BatchInvInit, BatchInvKept, PTL DEF Spec
==============================================================================
