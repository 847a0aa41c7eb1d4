--------------------------- MODULE SequenceLemmas ---------------------------
(***************************************************************************)
(* Induction over numbers and sequences, and what the FlattenSeq of the    *)
(* community modules computes for every sequence of sequences.  Where the  *)
(* usual induction rules take a predicate, these take the set of the       *)
(* values that have it.                                                    *)
(***************************************************************************)
EXTENDS Integers, SequencesExt, SequenceTheorems, WellFoundedInduction, TLAPS

\* A set of natural numbers has a least element.
LEMMA LeastNumber ==
  ASSUME NEW T, T \subseteq Nat, T # {}
  PROVE  \E x \in T : \A y \in T : x <= y
  <1> DEFINE R == OpToRel(<, Nat)
  <1>1. IsWellFoundedOn(R, Nat)
    BY NatLessThanWellFounded
  <1>2. \A m, n \in Nat : m < n => <<m, n>> \in R
    BY DEF OpToRel
  <1> HIDE DEF R
  <1>3. PICK x \in T : \A y \in T : ~(<<y, x>> \in R)
    BY <1>1, WFMin
  <1>4. \A y \in T : ~(y < x)
    BY <1>2, <1>3
  <1> QED
    BY <1>4

\* Induction over the natural numbers.
LEMMA NatSetInduction ==
  ASSUME NEW S, 0 \in S, \A n \in Nat : n \in S => n + 1 \in S
  PROVE  Nat \subseteq S
  <1> DEFINE T == Nat \ S
  <1> SUFFICES ASSUME T # {} PROVE FALSE
    OBVIOUS
  <1>1. PICK x \in T : \A y \in T : x <= y
    BY LeastNumber
  <1>2. x - 1 \in Nat /\ x - 1 \in S
    BY <1>1
  <1>3. (x - 1) + 1 \in S
    BY <1>2
  <1> QED
    BY <1>1, <1>3

\* Induction over sequences, from the first element to the last.
LEMMA SeqSetInduction ==
  ASSUME NEW S, NEW P, << >> \in P,
         \A s \in Seq(S), e \in S : s \in P => Append(s, e) \in P
  PROVE  Seq(S) \subseteq P
  <1> DEFINE N == {n \in Nat : \A s \in Seq(S) : Len(s) = n => s \in P}
  <1>1. 0 \in N
    BY EmptySeq
  <1>2. ASSUME NEW n \in Nat, n \in N PROVE n + 1 \in N
    <2> SUFFICES ASSUME NEW t \in Seq(S), Len(t) = n + 1 PROVE t \in P
      OBVIOUS
    <2>1. t # << >>
      BY EmptySeq
    <2>2. PICK s \in Seq(S), e \in S : t = Append(s, e)
      BY <2>1, SequenceEmptyOrAppend
    <2>3. Len(t) = Len(s) + 1 /\ Len(s) \in Nat
      BY <2>2, AppendProperties, LenProperties
    <2> QED
      BY <1>2, <2>2, <2>3
  <1> HIDE DEF N
  <1>3. Nat \subseteq N
    BY <1>1, <1>2, NatSetInduction
  <1> QED
    BY <1>3, LenProperties DEF N

-----------------------------------------------------------------------------
(* FlattenSeq *)

\* The function that FlattenSeq defines by recursion, up to the first m sequences.
Flattens(f, ss, m) ==
  f = [i \in 1 .. m |-> IF i = 1 THEN ss[i] ELSE f[i - 1] \o ss[i]]

LEMMA FlattensAt ==
  ASSUME NEW f, NEW ss, NEW m \in Nat, Flattens(f, ss, m)
  PROVE  \A i \in 1 .. m : f[i] = IF i = 1 THEN ss[i] ELSE f[i - 1] \o ss[i]
  <1> DEFINE h == [j \in 1 .. m |-> IF j = 1 THEN ss[j] ELSE f[j - 1] \o ss[j]]
  <1>1. f = h
    BY DEF Flattens
  <1>2. \A i \in 1 .. m : h[i] = IF i = 1 THEN ss[i] ELSE f[i - 1] \o ss[i]
    OBVIOUS
  <1> HIDE DEF h
  <1> QED
    BY <1>1, <1>2

LEMMA FlattensExists ==
  ASSUME NEW S, NEW ss \in Seq(Seq(S)), NEW m \in Nat, m <= Len(ss)
  PROVE  \E f \in [1 .. m -> Seq(S)] : Flattens(f, ss, m)
  <1> DEFINE N == {n \in Nat : n <= Len(ss) => \E f \in [1 .. n -> Seq(S)] : Flattens(f, ss, n)}
  <1>1. 0 \in N
    <2> DEFINE f == [i \in 1 .. 0 |-> << >>]
    <2>1. f \in [1 .. 0 -> Seq(S)] /\ Flattens(f, ss, 0)
      BY DEF Flattens
    <2> QED
      BY <2>1
  <1>2. ASSUME NEW n \in Nat, n \in N PROVE n + 1 \in N
    <2> SUFFICES ASSUME n + 1 <= Len(ss)
                 PROVE  \E g \in [1 .. n + 1 -> Seq(S)] : Flattens(g, ss, n + 1)
      OBVIOUS
    <2>1. Len(ss) \in Nat /\ n <= Len(ss) /\ n + 1 \in 1 .. Len(ss)
      BY LenProperties
    <2>2. PICK f \in [1 .. n -> Seq(S)] : Flattens(f, ss, n)
      BY <1>2, <2>1
    <2>c. \A i \in 1 .. n : f[i] = IF i = 1 THEN ss[i] ELSE f[i - 1] \o ss[i]
      <3>1. \A h : Flattens(h, ss, n) =>
              \A i \in 1 .. n : h[i] = IF i = 1 THEN ss[i] ELSE h[i - 1] \o ss[i]
        BY FlattensAt
      <3> QED
        BY <2>2, <3>1, Zenon
    <2>3. \A i \in 1 .. n + 1 : ss[i] \in Seq(S)
      BY <2>1, ElementOfSeq
    <2> DEFINE last == IF n = 0 THEN ss[n + 1] ELSE f[n] \o ss[n + 1]
               g == [i \in 1 .. n + 1 |-> IF i = n + 1 THEN last ELSE f[i]]
    <2>4. last \in Seq(S)
      <3>1. CASE n = 0
        BY <2>3, <3>1
      <3>2. CASE n # 0
        BY <2>3, <3>2, ConcatProperties
      <3> QED
        BY <3>1, <3>2
    <2>a. \A i \in 1 .. n + 1 : g[i] = IF i = n + 1 THEN last ELSE f[i]
      OBVIOUS
    <2>b. g[n + 1] = last /\ \A i \in 1 .. n : g[i] = f[i]
      <3> HIDE DEF last, g
      <3>1. n + 1 \in 1 .. n + 1 /\ \A i \in 1 .. n : i \in 1 .. n + 1 /\ i # n + 1
        OBVIOUS
      <3> QED
        BY <2>a, <3>1
    <2>5. g \in [1 .. n + 1 -> Seq(S)]
      BY <2>4
    <2>6. \A i \in 1 .. n + 1 : g[i] = IF i = 1 THEN ss[i] ELSE g[i - 1] \o ss[i]
      <3>1. ASSUME NEW i \in 1 .. n PROVE g[i] = IF i = 1 THEN ss[i] ELSE g[i - 1] \o ss[i]
        <4>1. g[i] = f[i]
          BY <2>b
        <4>2. i # 1 => g[i - 1] = f[i - 1]
          <5>1. i # 1 => i - 1 \in 1 .. n
            OBVIOUS
          <5> QED
            BY <2>b, <5>1
        <4>3. f[i] = IF i = 1 THEN ss[i] ELSE f[i - 1] \o ss[i]
          BY <2>c
        <4> HIDE DEF g
        <4> QED
          BY <4>1, <4>2, <4>3
      <3>2. n # 0 => g[n] = f[n]
        <4>1. n # 0 => n \in 1 .. n
          OBVIOUS
        <4> QED
          BY <2>b, <4>1
      <3>3. g[n + 1] = last /\ (n + 1) - 1 = n
        BY <2>b
      <3> HIDE DEF g
      <3>4. g[n + 1] = IF n + 1 = 1 THEN ss[n + 1] ELSE g[(n + 1) - 1] \o ss[n + 1]
        BY <3>2, <3>3
      <3> QED
        BY <3>1, <3>4
    <2>7. Flattens(g, ss, n + 1)
      <3>1. \A i \in 1 .. n + 1 :
              g[i] = [j \in 1 .. n + 1 |-> IF j = 1 THEN ss[j] ELSE g[j - 1] \o ss[j]][i]
        BY <2>6
      <3>2. g = [i \in 1 .. n + 1 |-> g[i]]
        OBVIOUS
      <3> HIDE DEF g
      <3> QED
        BY <3>1, <3>2 DEF Flattens
    <2> QED
      BY <2>5, <2>7
  <1> HIDE DEF N
  <1>3. m \in N
    BY <1>1, <1>2, NatSetInduction
  <1> QED
    BY <1>3 DEF N

\* It is determined by the sequences up to there.
Agree(s, t, m) == \A i \in 1 .. m : s[i] = t[i]

LEMMA FlattensUnique ==
  ASSUME NEW ss, NEW tt, NEW m \in Nat, NEW n \in Nat, m <= n, Agree(ss, tt, m),
         NEW f, Flattens(f, ss, m), NEW g, Flattens(g, tt, n)
  PROVE  Agree(f, g, m)
  <1> DEFINE N == {k \in Nat : k \in 1 .. m => f[k] = g[k]}
  <1>1. \A i \in 1 .. m : /\ f[i] = IF i = 1 THEN ss[i] ELSE f[i - 1] \o ss[i]
                          /\ g[i] = IF i = 1 THEN tt[i] ELSE g[i - 1] \o tt[i]
    <2> SUFFICES ASSUME NEW i \in 1 .. m
                 PROVE  /\ f[i] = IF i = 1 THEN ss[i] ELSE f[i - 1] \o ss[i]
                        /\ g[i] = IF i = 1 THEN tt[i] ELSE g[i - 1] \o tt[i]
      OBVIOUS
    <2>1. i \in 1 .. n
      OBVIOUS
    <2> QED
      BY <2>1, FlattensAt
  <1>2. 0 \in N
    OBVIOUS
  <1>3. ASSUME NEW k \in Nat, k \in N PROVE k + 1 \in N
    <2>1. CASE k = 0
      BY <1>1, <2>1 DEF Agree
    <2>2. CASE k # 0
      <3> SUFFICES ASSUME k + 1 \in 1 .. m PROVE f[k + 1] = g[k + 1]
        OBVIOUS
      <3>1. k \in 1 .. m /\ (k + 1) - 1 = k /\ k + 1 # 1
        BY <2>2
      <3>2. f[k] = g[k]
        BY <1>3, <3>1
      <3>3. /\ f[k + 1] = f[k] \o ss[k + 1]
            /\ g[k + 1] = g[k] \o tt[k + 1]
        BY <1>1, <3>1
      <3>4. ss[k + 1] = tt[k + 1]
        BY DEF Agree
      <3> QED
        BY <3>2, <3>3, <3>4
    <2> QED
      BY <2>1, <2>2
  <1> HIDE DEF N
  <1>4. Nat \subseteq N
    BY <1>2, <1>3, NatSetInduction
  <1> QED
    BY <1>4 DEF N, Agree

LEMMA FlattenDef ==
  ASSUME NEW S, NEW ss \in Seq(Seq(S)), ss # << >>
  PROVE  \E f \in [1 .. Len(ss) -> Seq(S)] :
           Flattens(f, ss, Len(ss)) /\ FlattenSeq(ss) = f[Len(ss)]
  <1>1. Len(ss) \in Nat \ {0}
    BY EmptySeq
  <1>2. PICK f \in [1 .. Len(ss) -> Seq(S)] : Flattens(f, ss, Len(ss))
    <2>1. Len(ss) \in Nat /\ Len(ss) <= Len(ss)
      BY <1>1
    <2>2. \E f \in [1 .. Len(ss) -> Seq(S)] : Flattens(f, ss, Len(ss))
      BY <2>1, FlattensExists, Zenon
    <2> QED
      BY <2>2, Zenon
  <1> DEFINE g == CHOOSE g : g = [i \in 1 .. Len(ss) |-> IF i = 1 THEN ss[i] ELSE g[i - 1] \o ss[i]]
  <1>3. FlattenSeq(ss) = g[Len(ss)]
    BY <1>1 DEF FlattenSeq
  <1>4. Flattens(g, ss, Len(ss))
    BY <1>2 DEF Flattens
  <1> HIDE DEF g
  <1>5. Agree(f, g, Len(ss))
    <2>1. Agree(ss, ss, Len(ss)) /\ Len(ss) <= Len(ss)
      BY <1>1 DEF Agree
    <2> QED
      BY <1>1, <1>2, <1>4, <2>1, FlattensUnique
  <1>6. FlattenSeq(ss) = f[Len(ss)]
    BY <1>1, <1>3, <1>5 DEF Agree
  <1> QED
    BY <1>2, <1>6

\* Nothing is made of nothing ...
LEMMA FlattenEmpty == FlattenSeq(<< >>) = << >>
  BY EmptySeq DEF FlattenSeq

\* ... one more sequence comes behind the others ...
LEMMA FlattenAppend ==
  ASSUME NEW S, NEW ss \in Seq(Seq(S)), NEW s \in Seq(S)
  PROVE  FlattenSeq(Append(ss, s)) = FlattenSeq(ss) \o s
  <1>1. /\ Append(ss, s) \in Seq(Seq(S)) /\ Append(ss, s) # << >>
        /\ Len(Append(ss, s)) = Len(ss) + 1 /\ Len(ss) \in Nat
        /\ \A i \in 1 .. Len(ss) : Append(ss, s)[i] = ss[i]
        /\ Append(ss, s)[Len(ss) + 1] = s
    BY AppendProperties, LenProperties
  <1>2. PICK g \in [1 .. Len(ss) + 1 -> Seq(S)] :
          Flattens(g, Append(ss, s), Len(ss) + 1) /\ FlattenSeq(Append(ss, s)) = g[Len(ss) + 1]
    BY <1>1, FlattenDef
  <1>3. g[Len(ss) + 1] = IF Len(ss) + 1 = 1 THEN s ELSE g[(Len(ss) + 1) - 1] \o s
    <2>1. Len(ss) + 1 \in Nat /\ Len(ss) + 1 \in 1 .. Len(ss) + 1
      BY <1>1
    <2>2. \A i \in 1 .. Len(ss) + 1 :
            g[i] = IF i = 1 THEN Append(ss, s)[i] ELSE g[i - 1] \o Append(ss, s)[i]
      BY <1>2, <2>1, FlattensAt
    <2> QED
      BY <1>1, <2>1, <2>2
  <1>4. CASE ss = << >>
    <2>1. g[Len(ss) + 1] = s
      BY <1>3, <1>4, EmptySeq
    <2> QED
      BY <1>2, <1>4, <2>1, FlattenEmpty, ConcatEmptySeq
  <1>5. CASE ss # << >>
    <2>1. Len(ss) \in Nat \ {0}
      BY <1>5, EmptySeq
    <2>2. PICK f \in [1 .. Len(ss) -> Seq(S)] :
            Flattens(f, ss, Len(ss)) /\ FlattenSeq(ss) = f[Len(ss)]
      BY <1>5, FlattenDef
    <2>3. f[Len(ss)] = g[Len(ss)]
      <3>1. /\ Len(ss) + 1 \in Nat /\ Len(ss) <= Len(ss) + 1 /\ Len(ss) \in 1 .. Len(ss)
            /\ \A i \in 1 .. Len(ss) : ss[i] = Append(ss, s)[i]
        BY <1>1, <2>1
      <3>2. \A i \in 1 .. Len(ss) : f[i] = g[i]
        <4>1. Agree(ss, Append(ss, s), Len(ss))
          BY <3>1 DEF Agree
        <4>2. Agree(f, g, Len(ss))
          BY <1>1, <1>2, <2>2, <3>1, <4>1, FlattensUnique
        <4> QED
          BY <4>2 DEF Agree
      <3> QED
        BY <3>1, <3>2
    <2>4. g[Len(ss) + 1] = g[Len(ss)] \o s
      BY <1>3, <2>1
    <2> QED
      BY <1>2, <2>2, <2>3, <2>4
  <1> QED
    BY <1>4, <1>5

\* ... and the elements of the whole are elements of the parts.
LEMMA FlattenType ==
  ASSUME NEW S, NEW ss \in Seq(Seq(S))
  PROVE  FlattenSeq(ss) \in Seq(S)
  <1>1. CASE ss = << >>
    BY <1>1, FlattenEmpty, EmptySeq
  <1>2. CASE ss # << >>
    <2>1. Len(ss) \in 1 .. Len(ss)
      BY <1>2, EmptySeq
    <2>2. PICK f \in [1 .. Len(ss) -> Seq(S)] : FlattenSeq(ss) = f[Len(ss)]
      BY <1>2, FlattenDef
    <2> QED
      BY <2>1, <2>2
  <1> QED
    BY <1>1, <1>2

-----------------------------------------------------------------------------
(* A function applied to every element *)

Maps(f, A, B) == \A a \in A : f[a] \in B
MapSeq(f, s) == [i \in DOMAIN s |-> f[s[i]]]
MapParts(f, ss) == [i \in DOMAIN ss |-> MapSeq(f, ss[i])]

LEMMA MapType ==
  ASSUME NEW A, NEW B, NEW f, Maps(f, A, B), NEW s \in Seq(A)
  PROVE  MapSeq(f, s) \in Seq(B) /\ Len(MapSeq(f, s)) = Len(s)
  <1>1. Len(s) \in Nat /\ DOMAIN s = 1 .. Len(s) /\ \A i \in 1 .. Len(s) : s[i] \in A
    BY LenProperties, ElementOfSeq
  <1>2. /\ MapSeq(f, s) = [i \in 1 .. Len(s) |-> f[s[i]]]
        /\ \A i \in 1 .. Len(s) : f[s[i]] \in B
    BY <1>1 DEF MapSeq, Maps
  <1>3. [i \in 1 .. Len(s) |-> f[s[i]]] \in Seq(B)
    BY <1>1, <1>2
  <1> QED
    BY <1>1, <1>2, <1>3

LEMMA MapAt ==
  ASSUME NEW A, NEW f, NEW s \in Seq(A), NEW i \in 1 .. Len(s)
  PROVE  MapSeq(f, s)[i] = f[s[i]]
  BY LenProperties DEF MapSeq

LEMMA MapConcat ==
  ASSUME NEW A, NEW B, NEW f, Maps(f, A, B), NEW s \in Seq(A), NEW t \in Seq(A)
  PROVE  MapSeq(f, s \o t) = MapSeq(f, s) \o MapSeq(f, t)
  <1>1. Len(s) \in Nat /\ Len(t) \in Nat
    BY LenProperties
  <1>2. PICK c \in Seq(A) : c = s \o t
    BY ConcatProperties
  <1>3. /\ Len(c) = Len(s) + Len(t)
        /\ \A i \in 1 .. Len(s) + Len(t) : c[i] = IF i <= Len(s) THEN s[i] ELSE t[i - Len(s)]
    <2>1. /\ Len(s \o t) = Len(s) + Len(t)
          /\ \A i \in 1 .. Len(s) + Len(t) :
               (s \o t)[i] = IF i <= Len(s) THEN s[i] ELSE t[i - Len(s)]
      BY ConcatProperties
    <2> QED
      BY <1>2, <2>1
  <1>4. PICK l \in Seq(B), m \in Seq(B), n \in Seq(B) :
          /\ l = MapSeq(f, c) /\ m = MapSeq(f, s) /\ n = MapSeq(f, t)
          /\ Len(l) = Len(c) /\ Len(m) = Len(s) /\ Len(n) = Len(t)
    BY MapType
  <1>5. /\ m \o n \in Seq(B) /\ Len(m \o n) = Len(s) + Len(t)
        /\ \A i \in 1 .. Len(s) + Len(t) :
             (m \o n)[i] = IF i <= Len(s) THEN m[i] ELSE n[i - Len(s)]
    <2>1. /\ m \o n \in Seq(B) /\ Len(m \o n) = Len(m) + Len(n)
          /\ \A i \in 1 .. Len(m) + Len(n) :
               (m \o n)[i] = IF i <= Len(m) THEN m[i] ELSE n[i - Len(m)]
      BY ConcatProperties
    <2> QED
      BY <1>4, <2>1
  <1>6. ASSUME NEW i \in 1 .. Len(s) + Len(t) PROVE l[i] = (m \o n)[i]
    <2>1. l[i] = f[c[i]]
      <3>1. i \in 1 .. Len(c)
        BY <1>3
      <3>2. MapSeq(f, c)[i] = f[c[i]]
        BY <3>1, MapAt
      <3> QED
        BY <1>4, <3>2
    <2>2. CASE i <= Len(s)
      <3>1. i \in 1 .. Len(s)
        BY <1>1, <2>2
      <3>2. m[i] = f[s[i]]
        BY <1>4, <3>1, MapAt
      <3> QED
        BY <1>3, <1>5, <2>1, <2>2, <3>2
    <2>3. CASE ~(i <= Len(s))
      <3>1. PICK k \in 1 .. Len(t) : k = i - Len(s)
        <4>1. i - Len(s) \in 1 .. Len(t)
          BY <1>1, <2>3
        <4> QED
          BY <4>1
      <3>2. n[k] = f[t[k]]
        BY <1>4, MapAt
      <3> QED
        BY <1>3, <1>5, <2>1, <2>3, <3>1, <3>2
    <2> QED
      BY <2>2, <2>3
  <1>7. l = m \o n
    BY <1>3, <1>4, <1>5, <1>6, SeqEqual
  <1> QED
    BY <1>2, <1>4, <1>7

\* It makes no difference whether the parts are flattened before or after.
LEMMA FlattenMap ==
  ASSUME NEW A, NEW B, NEW f, Maps(f, A, B), NEW ss \in Seq(Seq(A))
  PROVE  FlattenSeq(MapParts(f, ss)) = MapSeq(f, FlattenSeq(ss))
  <1> DEFINE P == {tt \in Seq(Seq(A)) : /\ MapParts(f, tt) \in Seq(Seq(B))
                                       /\ FlattenSeq(MapParts(f, tt)) = MapSeq(f, FlattenSeq(tt))}
  <1>1. << >> \in P
    <2>1. MapParts(f, << >>) = << >> /\ MapSeq(f, << >>) = << >>
      BY DEF MapParts, MapSeq
    <2> QED
      BY <2>1, FlattenEmpty, EmptySeq
  <1>2. ASSUME NEW tt \in Seq(Seq(A)), NEW t \in Seq(A), tt \in P PROVE Append(tt, t) \in P
    <2>1. /\ Append(tt, t) \in Seq(Seq(A)) /\ Len(Append(tt, t)) = Len(tt) + 1
          /\ \A i \in 1 .. Len(tt) : Append(tt, t)[i] = tt[i]
          /\ Append(tt, t)[Len(tt) + 1] = t
          /\ Len(tt) \in Nat
      BY AppendProperties, LenProperties
    <2>2. MapSeq(f, t) \in Seq(B)
      BY MapType
    <2>3. MapParts(f, Append(tt, t)) = Append(MapParts(f, tt), MapSeq(f, t))
      <3>1. DOMAIN tt = 1 .. Len(tt) /\ DOMAIN Append(tt, t) = 1 .. Len(tt) + 1
        BY <2>1, LenProperties
      <3>2. MapParts(f, Append(tt, t)) = [i \in 1 .. Len(tt) + 1 |-> MapSeq(f, Append(tt, t)[i])]
        BY <3>1 DEF MapParts
      <3>3. MapParts(f, tt) = [i \in 1 .. Len(tt) |-> MapSeq(f, tt[i])]
        BY <3>1 DEF MapParts
      <3>4. PICK u \in Seq(Seq(B)), v \in Seq(B) : u = MapParts(f, tt) /\ v = MapSeq(f, t)
        BY <1>2, <2>2
      <3>5. Len(u) = Len(tt) /\ \A i \in 1 .. Len(tt) : u[i] = MapSeq(f, tt[i])
        BY <2>1, <3>3, <3>4, LenProperties
      <3>6. /\ Append(u, v) \in Seq(Seq(B)) /\ Len(Append(u, v)) = Len(tt) + 1
            /\ \A i \in 1 .. Len(tt) : Append(u, v)[i] = u[i]
            /\ Append(u, v)[Len(tt) + 1] = v
        BY <3>5, AppendProperties
      <3>7. \A i \in 1 .. Len(tt) + 1 : Append(u, v)[i] = MapSeq(f, Append(tt, t)[i])
        <4>1. ASSUME NEW i \in 1 .. Len(tt)
              PROVE  Append(u, v)[i] = MapSeq(f, Append(tt, t)[i])
          BY <2>1, <3>5, <3>6
        <4>2. Append(u, v)[Len(tt) + 1] = MapSeq(f, Append(tt, t)[Len(tt) + 1])
          BY <2>1, <3>4, <3>6
        <4>3. \A i \in 1 .. Len(tt) + 1 : i \in 1 .. Len(tt) \/ i = Len(tt) + 1
          BY <2>1
        <4> QED
          BY <4>1, <4>2, <4>3
      <3>8. Append(u, v) = [i \in 1 .. Len(tt) + 1 |-> Append(u, v)[i]]
        BY <3>6, LenProperties
      <3> QED
        BY <3>2, <3>4, <3>7, <3>8
    <2>4. FlattenSeq(Append(tt, t)) = FlattenSeq(tt) \o t /\ FlattenSeq(tt) \in Seq(A)
      BY FlattenAppend, FlattenType
    <2>5. /\ Append(MapParts(f, tt), MapSeq(f, t)) \in Seq(Seq(B))
          /\ FlattenSeq(Append(MapParts(f, tt), MapSeq(f, t)))
               = FlattenSeq(MapParts(f, tt)) \o MapSeq(f, t)
      BY <1>2, <2>2, FlattenAppend, AppendProperties
    <2>6. MapSeq(f, FlattenSeq(tt) \o t) = MapSeq(f, FlattenSeq(tt)) \o MapSeq(f, t)
      BY <2>4, MapConcat
    <2> QED
      BY <1>2, <2>1, <2>3, <2>4, <2>5, <2>6
  <1> HIDE DEF P
  <1>3. ss \in P
    BY <1>1, <1>2, SeqSetInduction
  <1> QED
    BY <1>3 DEF P

=============================================================================
