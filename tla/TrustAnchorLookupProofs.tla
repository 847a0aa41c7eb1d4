---------------------- MODULE TrustAnchorLookupProofs ----------------------
(***************************************************************************)
(* Proofs about TrustAnchorLookup: for lists, CSVs and chains of any       *)
(* length, with any number of certificates in them.                        *)
(*                                                                         *)
(* The database is at any time a function of what was published: that is   *)
(* the invariant.  The rest is about texts.  What a text says is its data, *)
(* the halves of certificates in it, and no conversion changes that.       *)
(***************************************************************************)
EXTENDS TrustAnchorLookup, SequenceLemmas, FiniteSetTheorems

\* What becomes of a published certificate in the database.
StoredText(w) ==
  IF w.list = "eiDAS" THEN Text(w.what.cert, w.what.style) ELSE Cleaned(w.what)
StoredFor(w) == [list |-> w.list, certificate |-> Trim(StoredText(w))]

Publications ==
  [list : {"eiDAS"}, what : EidasTexts] \cup [list : {"Mozilla"}, what : Written \cup {Empty}]

StoreInv ==
  /\ published \subseteq Publications
  /\ stored = {StoredFor(w) : w \in published}

\* The records read so far are the cleaned cells so far.
RecordsInv ==
  /\ parse \in {"idle", "records", "read", "thrown"}
  /\ csv # None => csv \in Csvs
  /\ parse # "idle" =>
       /\ csv \in Csvs
       /\ Len(records) <= Len(csv.cells)
       /\ records # << >> => csv.pemColumn
       /\ \A i \in 1 .. Len(records) : /\ csv.cells[i] \in Written \cup {Empty}
                                       /\ records[i] = Cleaned(csv.cells[i])
  /\ parse = "read" => Len(records) = Len(csv.cells)
  /\ records \in Seq(Seq(Tokens))

\* An answer is what the database and the texts of the request make of it.
LookupAnswer(a) ==
  \/ /\ a.what \in Written
     /\ a.status = IF Found(Text(a.what.cert, a.what.style)) THEN 200 ELSE 404
  \/ a.what = Empty /\ a.status \in {200, 404}
  \/ a.what = None /\ a.status \in {400, 404}

ChainAnswer(a) ==
  \/ /\ a.what \in Chains
     /\ LET certs == DecodeAll(ChainCerts(ChainText(a.what.lead, a.what.certs, a.what.eol)))
        IN IF Unreadable \in ToSet(certs) THEN a.status = 409
                                          ELSE a.status = None /\ a.certs = certs
  \/ a.what = None /\ a.status = 400

Pkcs7Answer(a) ==
  \E eol \in {<<LF>>, <<CR, LF>>} :
    Unreadable \in ToSet(DecodeAll(ChainCerts(Pkcs7Text(eol)))) => a.status = 409

AnswerInv ==
  \/ answer = Silence
  \/ answer.to = "lookup" /\ LookupAnswer(answer)
  \/ answer.to = "chain" /\ ChainAnswer(answer)
  \/ answer.to = "one" /\ answer.status \in {None, 409}
  \/ answer.to = "pkcs7" /\ Pkcs7Answer(answer)

LookupInv == StoreInv /\ RecordsInv /\ AnswerInv

-----------------------------------------------------------------------------
(* KeptAt *)

LEMMA KeptEmpty ==
  ASSUME NEW is
  PROVE  KeptAt(<< >>, is) = << >>
  <1>1. [i \in DOMAIN << >> |-> IF i \in is THEN <<<< >>[i]>> ELSE << >>] = << >>
    OBVIOUS
  <1> QED
    BY <1>1, FlattenEmpty DEF KeptAt

LEMMA KeptType ==
  ASSUME NEW S, NEW s \in Seq(S), NEW T, NEW is, \A i \in DOMAIN s : i \in is => s[i] \in T
  PROVE  KeptAt(s, is) \in Seq(T)
  <1> DEFINE parts == [i \in 1 .. Len(s) |-> IF i \in is THEN <<s[i]>> ELSE << >>]
  <1>1. Len(s) \in Nat /\ DOMAIN s = 1 .. Len(s)
    BY LenProperties
  <1>2. ASSUME NEW i \in 1 .. Len(s) PROVE (IF i \in is THEN <<s[i]>> ELSE << >>) \in Seq(T)
    <2>1. CASE i \in is
      <3>1. s[i] \in T
        BY <1>1, <2>1
      <3>2. \A x \in T : <<x>> \in Seq(T)
        OBVIOUS
      <3> QED
        BY <2>1, <3>1, <3>2
    <2>2. CASE i \notin is
      BY <2>2, EmptySeq
    <2> QED
      BY <2>1, <2>2
  <1>3. parts \in Seq(Seq(T))
    BY <1>1, <1>2
  <1>4. KeptAt(s, is) = FlattenSeq(parts)
    BY <1>1 DEF KeptAt
  <1> HIDE DEF parts
  <1> QED
    BY <1>3, <1>4, FlattenType

LEMMA KeptAppend ==
  ASSUME NEW S, NEW s \in Seq(S), NEW e \in S, NEW is
  PROVE  KeptAt(Append(s, e), is) = KeptAt(s, is) \o (IF Len(s) + 1 \in is THEN <<e>> ELSE << >>)
  <1> DEFINE Part(x, i) == IF i \in is THEN <<x>> ELSE << >>
             parts == [i \in 1 .. Len(s) |-> Part(s[i], i)]
  <1>1. PICK t \in Seq(S) : t = Append(s, e)
    BY AppendProperties
  <1>2. /\ Len(s) \in Nat /\ DOMAIN s = 1 .. Len(s)
        /\ Len(t) = Len(s) + 1 /\ DOMAIN t = 1 .. Len(s) + 1
        /\ \A i \in 1 .. Len(s) : t[i] = s[i]
        /\ t[Len(s) + 1] = e
        /\ \A i \in 1 .. Len(s) : s[i] \in S
    BY <1>1, AppendProperties, LenProperties, ElementOfSeq
  <1>3. KeptAt(t, is) = FlattenSeq([i \in 1 .. Len(s) + 1 |-> Part(t[i], i)])
    BY <1>2 DEF KeptAt
  <1>4. KeptAt(s, is) = FlattenSeq(parts)
    BY <1>2 DEF KeptAt
  <1>5. \A x \in S, i \in Nat : Part(x, i) \in Seq(S)
    <2>1. << >> \in Seq(S) /\ \A x \in S : <<x>> \in Seq(S)
      BY EmptySeq
    <2> QED
      BY <2>1
  <1> HIDE DEF Part
  <1>6. /\ parts \in Seq(Seq(S)) /\ Len(parts) = Len(s)
        /\ \A i \in 1 .. Len(s) : parts[i] = Part(s[i], i)
    BY <1>2, <1>5
  <1>7. PICK last \in Seq(S) : last = Part(e, Len(s) + 1)
    BY <1>2, <1>5
  <1> HIDE DEF parts
  <1>8. Append(parts, last) = [i \in 1 .. Len(s) + 1 |-> Part(t[i], i)]
    <2>1. /\ Append(parts, last) \in Seq(Seq(S)) /\ Len(Append(parts, last)) = Len(s) + 1
          /\ \A i \in 1 .. Len(s) : Append(parts, last)[i] = parts[i]
          /\ Append(parts, last)[Len(s) + 1] = last
      <3>1. PICK ps \in Seq(Seq(S)) : ps = parts /\ Len(ps) = Len(s)
        BY <1>6
      <3>2. /\ Append(ps, last) \in Seq(Seq(S)) /\ Len(Append(ps, last)) = Len(ps) + 1
            /\ \A i \in 1 .. Len(ps) : Append(ps, last)[i] = ps[i]
            /\ Append(ps, last)[Len(ps) + 1] = last
        BY AppendProperties
      <3> QED
        BY <3>1, <3>2
    <2>2. \A i \in 1 .. Len(s) + 1 : Append(parts, last)[i] = Part(t[i], i)
      <3>1. \A i \in 1 .. Len(s) + 1 : i \in 1 .. Len(s) \/ i = Len(s) + 1
        BY <1>2
      <3> QED
        BY <1>2, <1>6, <1>7, <2>1, <3>1
    <2>3. Append(parts, last) = [i \in 1 .. Len(s) + 1 |-> Append(parts, last)[i]]
      BY <2>1, LenProperties
    <2> QED
      BY <2>2, <2>3
  <1>9. FlattenSeq(Append(parts, last)) = FlattenSeq(parts) \o last
    BY <1>6, FlattenAppend
  <1>10. KeptAt(t, is) = KeptAt(s, is) \o Part(e, Len(s) + 1)
    BY <1>3, <1>4, <1>7, <1>8, <1>9
  <1> QED
    BY <1>1, <1>10 DEF Part

\* What is at positions that are kept is what is there ...
LEMMA KeptSame ==
  ASSUME NEW s, NEW is, NEW js, \A i \in DOMAIN s : i \in is <=> i \in js
  PROVE  KeptAt(s, is) = KeptAt(s, js)
  BY DEF KeptAt

LEMMA KeptAll ==
  ASSUME NEW S, NEW s \in Seq(S), NEW is, \A i \in 1 .. Len(s) : i \in is
  PROVE  KeptAt(s, is) = s
  <1> DEFINE P == {t \in Seq(S) : (\A i \in 1 .. Len(t) : i \in is) => KeptAt(t, is) = t}
  <1>1. << >> \in P
    BY KeptEmpty, EmptySeq
  <1>2. ASSUME NEW t \in Seq(S), NEW e \in S, t \in P PROVE Append(t, e) \in P
    <2>1. PICK u \in Seq(S) : u = Append(t, e) /\ Len(u) = Len(t) + 1 /\ Len(t) \in Nat
      BY AppendProperties, LenProperties
    <2>2. ASSUME \A i \in 1 .. Len(u) : i \in is PROVE KeptAt(u, is) = u
      <3>1. Len(t) + 1 \in is /\ \A i \in 1 .. Len(t) : i \in is
        BY <2>1, <2>2
      <3>2. KeptAt(t, is) = t
        BY <1>2, <3>1
      <3>3. KeptAt(Append(t, e), is) = KeptAt(t, is) \o (IF Len(t) + 1 \in is THEN <<e>> ELSE << >>)
        BY KeptAppend
      <3>4. KeptAt(Append(t, e), is) = t \o <<e>>
        BY <3>1, <3>2, <3>3
      <3> QED
        BY <2>1, <3>4, AppendIsConcat, Zenon
    <2> QED
      BY <2>1, <2>2
  <1> HIDE DEF P
  <1>3. s \in P
    BY <1>1, <1>2, SeqSetInduction
  <1> QED
    BY <1>3 DEF P

LEMMA KeptNone ==
  ASSUME NEW S, NEW s \in Seq(S), NEW is, \A i \in 1 .. Len(s) : i \notin is
  PROVE  KeptAt(s, is) = << >>
  <1>1. \A i \in DOMAIN s : i \in is => s[i] \in {}
    BY LenProperties
  <1>2. KeptAt(s, is) \in Seq({})
    BY <1>1, KeptType
  <1>3. ASSUME NEW t \in Seq({}), t # << >> PROVE FALSE
    <2>1. Head(t) \in {}
      BY <1>3, HeadTailProperties
    <2> QED
      BY <2>1
  <1> QED
    BY <1>2, <1>3

\* ... and as many as they are.
LEMMA KeptLen ==
  ASSUME NEW S, NEW s \in Seq(S), NEW is
  PROVE  /\ IsFiniteSet({i \in DOMAIN s : i \in is})
         /\ Len(KeptAt(s, is)) = Cardinality({i \in DOMAIN s : i \in is})
  <1> DEFINE Kept(t) == {i \in DOMAIN t : i \in is}
             P == {t \in Seq(S) : IsFiniteSet(Kept(t)) /\ Len(KeptAt(t, is)) = Cardinality(Kept(t))}
  <1>1. << >> \in P
    <2>1. Kept(<< >>) = {}
      OBVIOUS
    <2> QED
      BY <2>1, KeptEmpty, EmptySeq, FS_EmptySet
  <1>2. ASSUME NEW t \in Seq(S), NEW e \in S, t \in P PROVE Append(t, e) \in P
    <2>1. PICK u \in Seq(S) : /\ u = Append(t, e) /\ Len(t) \in Nat
                              /\ DOMAIN t = 1 .. Len(t) /\ DOMAIN u = 1 .. Len(t) + 1
      <3> HIDE DEF P, Kept
      <3>1. PICK u \in Seq(S) : u = Append(t, e) /\ Len(u) = Len(t) + 1
        BY AppendProperties
      <3>2. DOMAIN u = 1 .. Len(u) /\ Len(t) \in Nat /\ DOMAIN t = 1 .. Len(t)
        BY LenProperties
      <3> QED
        BY <3>1, <3>2
    <2>2. PICK k \in Seq(S) : k = KeptAt(t, is) /\ Len(k) = Cardinality(Kept(t)) /\ Len(k) \in Nat
      <3>1. KeptAt(t, is) \in Seq(S)
        <4>1. \A i \in DOMAIN t : i \in is => t[i] \in S
          BY LenProperties, ElementOfSeq
        <4> QED
          BY <4>1, KeptType
      <3> QED
        BY <1>2, <3>1, LenProperties
    <2>3. KeptAt(u, is) = k \o (IF Len(t) + 1 \in is THEN <<e>> ELSE << >>)
      <3> HIDE DEF P, Kept
      <3>1. KeptAt(Append(t, e), is) = KeptAt(t, is) \o (IF Len(t) + 1 \in is THEN <<e>> ELSE << >>)
        BY KeptAppend
      <3> QED
        BY <2>1, <2>2, <3>1, Zenon
    <2>4. CASE Len(t) + 1 \in is
      <3>1. Kept(u) = Kept(t) \cup {Len(t) + 1} /\ Len(t) + 1 \notin Kept(t)
        BY <2>1, <2>4
      <3>2. IsFiniteSet(Kept(u)) /\ Cardinality(Kept(u)) = Cardinality(Kept(t)) + 1
        <4> HIDE DEF Kept
        <4> QED
          BY <1>2, <3>1, FS_AddElement
      <3>3. Len(k \o <<e>>) = Len(k) + 1
        BY <2>2
      <3> QED
        BY <2>1, <2>2, <2>3, <2>4, <3>2, <3>3
    <2>5. CASE Len(t) + 1 \notin is
      <3>1. Kept(u) = Kept(t)
        BY <2>1, <2>5
      <3>2. k \o << >> = k
        BY <2>2, ConcatEmptySeq
      <3> QED
        BY <1>2, <2>1, <2>2, <2>3, <2>5, <3>1, <3>2
    <2> QED
      BY <2>4, <2>5
  <1> HIDE DEF P
  <1>3. s \in P
    BY <1>1, <1>2, SeqSetInduction
  <1> QED
    BY <1>3 DEF P

\* Concatenation is associative, in a form whose instances the provers find.
Associates(s, t, u) == (s \o t) \o u = s \o (t \o u)

LEMMA ConcatAssociates ==
  ASSUME NEW S, NEW s \in Seq(S), NEW t \in Seq(S), NEW u \in Seq(S)
  PROVE  Associates(s, t, u)
  BY ConcatAssociative DEF Associates

\* Two sequences one behind the other.
Shifted(is, n) == {i \in Nat : n + i \in is}

LEMMA KeptConcat ==
  ASSUME NEW S, NEW s \in Seq(S), NEW t \in Seq(S), NEW is
  PROVE  KeptAt(s \o t, is) = KeptAt(s, is) \o KeptAt(t, Shifted(is, Len(s)))
  <1> DEFINE js == Shifted(is, Len(s))
             Part(n, e, ks) == IF n + 1 \in ks THEN <<e>> ELSE << >>
             P == {v \in Seq(S) : KeptAt(s \o v, is) = KeptAt(s, is) \o KeptAt(v, js)}
  <1>0. \A a, b, c \in Seq(S) : Associates(a, b, c)
    BY ConcatAssociates
  <1>1. \A v \in Seq(S) : \A ks : KeptAt(v, ks) \in Seq(S)
    <2>1. ASSUME NEW v \in Seq(S), NEW ks PROVE \A i \in DOMAIN v : i \in ks => v[i] \in S
      BY LenProperties, ElementOfSeq
    <2> QED
      BY <2>1, KeptType
  <1>2. << >> \in P
    BY <1>1, KeptEmpty, EmptySeq, ConcatEmptySeq
  <1>3. ASSUME NEW v \in Seq(S), NEW e \in S, v \in P PROVE Append(v, e) \in P
    <2>1. PICK c \in Seq(S) : c = s \o v /\ Len(c) = Len(s) + Len(v)
      BY ConcatProperties
    <2>2. Len(s) \in Nat /\ Len(v) \in Nat
      BY LenProperties
    <2> HIDE DEF P
    <2>3. KeptAt(c, is) = KeptAt(s, is) \o KeptAt(v, js)
      BY <1>3, <2>1 DEF P
    <2>4. Append(v, e) \in Seq(S) /\ s \o Append(v, e) = Append(c, e)
      <3>1. <<e>> \in Seq(S) /\ Append(v, e) \in Seq(S)
        BY AppendProperties
      <3>2. Append(v, e) = v \o <<e>> /\ Append(c, e) = c \o <<e>>
        BY AppendIsConcat
      <3>3. (s \o v) \o <<e>> = s \o (v \o <<e>>)
        <4>1. Associates(s, v, <<e>>)
          BY <1>0, <3>1, Zenon
        <4> QED
          BY <4>1 DEF Associates
      <3> QED
        BY <2>1, <3>1, <3>2, <3>3, Zenon
    <2>5. Part(Len(c), e, is) = Part(Len(v), e, js)
      BY <2>1, <2>2 DEF Shifted
    <2>6. /\ KeptAt(Append(c, e), is) = KeptAt(c, is) \o Part(Len(c), e, is)
          /\ KeptAt(Append(v, e), js) = KeptAt(v, js) \o Part(Len(v), e, js)
      BY KeptAppend
    <2>7. Part(Len(v), e, js) \in Seq(S)
      BY EmptySeq
    <2> HIDE DEF js, Part
    <2>8. (KeptAt(s, is) \o KeptAt(v, js)) \o Part(Len(v), e, js)
            = KeptAt(s, is) \o (KeptAt(v, js) \o Part(Len(v), e, js))
      <3>1. KeptAt(s, is) \in Seq(S) /\ KeptAt(v, js) \in Seq(S)
        BY <1>1, Zenon
      <3>2. Associates(KeptAt(s, is), KeptAt(v, js), Part(Len(v), e, js))
        BY <1>0, <2>7, <3>1, Zenon
      <3> QED
        BY <3>2 DEF Associates
    <2>9. KeptAt(s \o Append(v, e), is) = KeptAt(s, is) \o KeptAt(Append(v, e), js)
      BY <2>3, <2>4, <2>5, <2>6, <2>8, Zenon
    <2> QED
      BY <2>4, <2>9 DEF P
  <1> HIDE DEF P
  <1>4. t \in P
    BY <1>2, <1>3, SeqSetInduction
  <1> QED
    BY <1>4 DEF P

-----------------------------------------------------------------------------
(* What a sequence has of a set *)

Only(T, s) == KeptAt(s, {i \in DOMAIN s : s[i] \in T})

LEMMA OnlyType ==
  ASSUME NEW S, NEW s \in Seq(S), NEW T
  PROVE  Only(T, s) \in Seq(S) /\ Only(T, s) \in Seq(T)
  <1> DEFINE is == {i \in DOMAIN s : s[i] \in T}
  <1>1. \A i \in DOMAIN s : (i \in is => s[i] \in T) /\ s[i] \in S
    BY LenProperties, ElementOfSeq
  <1> HIDE DEF is
  <1>2. KeptAt(s, is) \in Seq(S) /\ KeptAt(s, is) \in Seq(T)
    BY <1>1, KeptType
  <1> QED
    BY <1>2 DEF is, Only

LEMMA OnlyEmpty ==
  ASSUME NEW T
  PROVE  Only(T, << >>) = << >>
  BY KeptEmpty DEF Only

LEMMA OnlyAppend ==
  ASSUME NEW S, NEW s \in Seq(S), NEW e \in S, NEW T
  PROVE  Only(T, Append(s, e)) = Only(T, s) \o (IF e \in T THEN <<e>> ELSE << >>)
  <1>1. PICK t \in Seq(S) : /\ t = Append(s, e) /\ Len(t) = Len(s) + 1
                            /\ \A i \in 1 .. Len(s) : t[i] = s[i]
                            /\ t[Len(s) + 1] = e
    BY AppendProperties
  <1>2. Len(s) \in Nat /\ DOMAIN s = 1 .. Len(s) /\ DOMAIN t = 1 .. Len(t)
    BY LenProperties
  <1> DEFINE is == {i \in DOMAIN s : s[i] \in T}
             js == {i \in DOMAIN t : t[i] \in T}
  <1>3. \A i \in DOMAIN s : i \in is <=> i \in js
    BY <1>1, <1>2
  <1>4. Len(s) + 1 \in js <=> e \in T
    BY <1>1, <1>2
  <1>5. Only(T, s) = KeptAt(s, is) /\ Only(T, t) = KeptAt(t, js)
    BY DEF Only
  <1> HIDE DEF is, js
  <1>6. KeptAt(s, is) = KeptAt(s, js)
    BY <1>3, KeptSame
  <1>7. KeptAt(Append(s, e), js) = KeptAt(s, js) \o (IF Len(s) + 1 \in js THEN <<e>> ELSE << >>)
    BY KeptAppend
  <1>8. CASE e \in T
    BY <1>1, <1>4, <1>5, <1>6, <1>7, <1>8, Zenon
  <1>9. CASE e \notin T
    BY <1>1, <1>4, <1>5, <1>6, <1>7, <1>9, Zenon
  <1> QED
    BY <1>8, <1>9

LEMMA OnlyConcat ==
  ASSUME NEW S, NEW s \in Seq(S), NEW t \in Seq(S), NEW T
  PROVE  Only(T, s \o t) = Only(T, s) \o Only(T, t)
  <1>1. PICK c \in Seq(S) : /\ c = s \o t /\ Len(c) = Len(s) + Len(t)
                            /\ \A i \in 1 .. Len(s) + Len(t) :
                                 c[i] = IF i <= Len(s) THEN s[i] ELSE t[i - Len(s)]
    <2>1. /\ s \o t \in Seq(S) /\ Len(s \o t) = Len(s) + Len(t)
          /\ \A i \in 1 .. Len(s) + Len(t) :
               (s \o t)[i] = IF i <= Len(s) THEN s[i] ELSE t[i - Len(s)]
      BY ConcatProperties
    <2> QED
      BY <2>1, Zenon
  <1>2. /\ Len(s) \in Nat /\ DOMAIN s = 1 .. Len(s)
        /\ Len(t) \in Nat /\ DOMAIN t = 1 .. Len(t) /\ DOMAIN c = 1 .. Len(c)
    BY LenProperties
  <1> DEFINE is == {i \in DOMAIN s : s[i] \in T}
             js == {i \in DOMAIN t : t[i] \in T}
             ks == {i \in DOMAIN c : c[i] \in T}
  <1>3. \A i \in DOMAIN s : i \in is <=> i \in ks
    BY <1>1, <1>2
  <1>4. \A i \in DOMAIN t : i \in js <=> i \in Shifted(ks, Len(s))
    <2> SUFFICES ASSUME NEW i \in 1 .. Len(t) PROVE i \in js <=> i \in Shifted(ks, Len(s))
      BY <1>2
    <2>1. Len(s) + i \in 1 .. Len(s) + Len(t) /\ ~(Len(s) + i <= Len(s)) /\ (Len(s) + i) - Len(s) = i
      BY <1>2
    <2>2. c[Len(s) + i] = t[i]
      BY <1>1, <2>1
    <2> QED
      BY <1>1, <1>2, <2>1, <2>2 DEF Shifted
  <1>5. Only(T, s) = KeptAt(s, is) /\ Only(T, t) = KeptAt(t, js) /\ Only(T, c) = KeptAt(c, ks)
    BY DEF Only
  <1> HIDE DEF is, js, ks
  <1>6. KeptAt(s, is) = KeptAt(s, ks)
    BY <1>3, KeptSame
  <1>7. KeptAt(t, js) = KeptAt(t, Shifted(ks, Len(s)))
    BY <1>4, KeptSame
  <1>8. KeptAt(s \o t, ks) = KeptAt(s, ks) \o KeptAt(t, Shifted(ks, Len(s)))
    BY KeptConcat
  <1> QED
    BY <1>1, <1>5, <1>6, <1>7, <1>8, Zenon

\* Elements are left out one by one: the order does not matter.
LEMMA OnlyKept ==
  ASSUME NEW S, NEW s \in Seq(S), NEW is, NEW T
  PROVE  Only(T, KeptAt(s, is)) = KeptAt(s, {i \in DOMAIN s : i \in is /\ s[i] \in T})
  <1> DEFINE Both(t) == {i \in DOMAIN t : i \in is /\ t[i] \in T}
             P == {t \in Seq(S) : Only(T, KeptAt(t, is)) = KeptAt(t, Both(t))}
  <1>1. << >> \in P
    BY KeptEmpty, OnlyEmpty, EmptySeq
  <1>2. ASSUME NEW t \in Seq(S), NEW e \in S, t \in P PROVE Append(t, e) \in P
    <2> DEFINE kept == KeptAt(t, is)
               js == Both(t)
               ks == Both(Append(t, e))
               n == Len(t) + 1
    <2>1. /\ \A i \in DOMAIN t : i \in js <=> i \in ks
          /\ n \in ks <=> n \in is /\ e \in T
      <3> HIDE DEF P
      <3>1. PICK u \in Seq(S) : /\ u = Append(t, e) /\ Len(u) = Len(t) + 1
                                /\ \A i \in 1 .. Len(t) : u[i] = t[i]
                                /\ u[Len(t) + 1] = e
        BY AppendProperties
      <3>2. Len(t) \in Nat /\ DOMAIN t = 1 .. Len(t) /\ DOMAIN u = 1 .. Len(u)
        BY LenProperties
      <3> QED
        BY <3>1, <3>2
    <2>2. kept \in Seq(S)
      <3>1. \A i \in DOMAIN t : i \in is => t[i] \in S
        BY LenProperties, ElementOfSeq
      <3> QED
        BY <3>1, KeptType
    <2>3. Only(T, kept) = KeptAt(t, js)
      BY <1>2
    <2>4. Append(t, e) \in Seq(S)
      BY AppendProperties
    <2> HIDE DEF P, Both, js, ks, kept, n
    <2>5. KeptAt(t, js) = KeptAt(t, ks)
      BY <2>1, KeptSame
    <2>6. /\ KeptAt(Append(t, e), is) = kept \o (IF n \in is THEN <<e>> ELSE << >>)
          /\ KeptAt(Append(t, e), ks) = KeptAt(t, ks) \o (IF n \in ks THEN <<e>> ELSE << >>)
      BY KeptAppend DEF n, kept
    <2>7. CASE n \in is
      <3>1. KeptAt(Append(t, e), is) = Append(kept, e)
        BY <2>2, <2>6, <2>7, AppendIsConcat
      <3>2. Only(T, Append(kept, e)) = Only(T, kept) \o (IF e \in T THEN <<e>> ELSE << >>)
        BY <2>2, OnlyAppend
      <3>3. (IF e \in T THEN <<e>> ELSE << >>) = (IF n \in ks THEN <<e>> ELSE << >>)
        BY <2>1, <2>7
      <3>4. Only(T, KeptAt(Append(t, e), is)) = KeptAt(Append(t, e), ks)
        BY <2>3, <2>5, <2>6, <3>1, <3>2, <3>3, Zenon
      <3> QED
        BY <2>4, <3>4 DEF P, ks
    <2>8. CASE n \notin is
      <3>1. KeptAt(Append(t, e), is) = kept
        BY <2>2, <2>6, <2>8, ConcatEmptySeq
      <3>2. KeptAt(t, ks) \in Seq(S)
        BY <2>2, <2>3, <2>5, OnlyType
      <3>3. KeptAt(Append(t, e), ks) = KeptAt(t, ks)
        BY <2>1, <2>6, <2>8, <3>2, ConcatEmptySeq
      <3>4. Only(T, KeptAt(Append(t, e), is)) = KeptAt(Append(t, e), ks)
        BY <2>3, <2>5, <3>1, <3>3, Zenon
      <3> QED
        BY <2>4, <3>4 DEF P, ks
    <2> QED
      BY <2>7, <2>8
  <1> HIDE DEF P
  <1>3. s \in P
    BY <1>1, <1>2, SeqSetInduction
  <1> QED
    BY <1>3 DEF P

\* What is left out is not in T, so T is all there is.
LEMMA OnlyIn ==
  ASSUME NEW S, NEW s \in Seq(S), NEW is, NEW T,
         \A i \in DOMAIN s : s[i] \in T => i \in is
  PROVE  Only(T, KeptAt(s, is)) = Only(T, s)
  <1> DEFINE js == {i \in DOMAIN s : i \in is /\ s[i] \in T}
             ks == {i \in DOMAIN s : s[i] \in T}
  <1>1. \A i \in DOMAIN s : i \in js <=> i \in ks
    OBVIOUS
  <1>2. Only(T, KeptAt(s, is)) = KeptAt(s, js)
    BY OnlyKept
  <1>3. Only(T, s) = KeptAt(s, ks)
    BY DEF Only
  <1> HIDE DEF js, ks
  <1> QED
    BY <1>1, <1>2, <1>3, KeptSame

-----------------------------------------------------------------------------
(* Tokens and the data of a text *)

DataTokens == {Data(c, h) : c \in Certs, h \in {1, 2}}
DataOf(text) == Only(DataTokens, text)

LEMMA DataConcat ==
  ASSUME NEW S, NEW s \in Seq(S), NEW t \in Seq(S)
  PROVE  DataOf(s \o t) = DataOf(s) \o DataOf(t)
  BY OnlyConcat DEF DataOf

LEMMA TokensDiffer ==
  /\ LF \notin {CR, SP, Quote, Begin, End} /\ CR \notin {SP, Quote, Begin, End}
  /\ SP \notin {Quote, Begin, End} /\ Quote \notin {Begin, End} /\ Begin # End
  /\ \A c, h : Data(c, h) \notin {LF, CR, SP, Quote, Begin, End}
  /\ \A c, d, h, g : Data(c, h) = Data(d, g) => c = d /\ h = g
  BY DEF LF, CR, SP, Quote, Begin, End, Data

LEMMA TokenKinds ==
  /\ Tokens = {LF, CR, SP, Quote, Begin, End} \cup DataTokens
  /\ DataTokens \cap {LF, CR, SP, Quote, Begin, End} = {}
  <1>1. DataTokens \cap {LF, CR, SP, Quote, Begin, End} = {}
    BY TokensDiffer DEF DataTokens
  <1> QED
    BY <1>1 DEF Tokens, White, DataTokens

LEMMA Pkcs7Differs == BeginPkcs7 \notin Tokens /\ EndPkcs7 \notin Tokens
  BY DEF Tokens, White, LF, CR, SP, Quote, Begin, End, Data, BeginPkcs7, EndPkcs7

LEMMA OneSeq ==
  ASSUME NEW S, NEW e \in S
  PROVE  <<e>> \in Seq(S) /\ Len(<<e>>) = 1 /\ <<e>>[1] = e
  OBVIOUS

LEMMA PairConcat ==
  ASSUME NEW x, NEW y
  PROVE  <<x>> \o <<y>> = <<x,y>>
  <1> DEFINE S == {x, y}
  <1>1. PICK s \in Seq(S) : s = <<x>> /\ Len(s) = 1 /\ s[1] = x
    <2>1. <<x>> \in Seq(S) /\ Len(<<x>>) = 1 /\ <<x>>[1] = x
      OBVIOUS
    <2> QED
      BY <2>1, Zenon
  <1>2. PICK t \in Seq(S) : t = <<y>> /\ Len(t) = 1 /\ t[1] = y
    <2>1. <<y>> \in Seq(S) /\ Len(<<y>>) = 1 /\ <<y>>[1] = y
      OBVIOUS
    <2> QED
      BY <2>1, Zenon
  <1>3. PICK d \in Seq(S) : d = <<x, y>> /\ Len(d) = 2 /\ d[1] = x /\ d[2] = y
    <2>1. <<x, y>> \in Seq(S) /\ Len(<<x, y>>) = 2 /\ <<x, y>>[1] = x /\ <<x, y>>[2] = y
      OBVIOUS
    <2> QED
      BY <2>1, Zenon
  <1> HIDE DEF S
  <1>4. /\ s \o t \in Seq(S) /\ Len(s \o t) = Len(s) + Len(t)
        /\ \A i \in 1 .. Len(s) + Len(t) : (s \o t)[i] = IF i <= Len(s) THEN s[i] ELSE t[i - Len(s)]
    BY ConcatProperties
  <1>5. Len(s \o t) = 2 /\ (s \o t)[1] = x /\ (s \o t)[2] = y
    BY <1>1, <1>2, <1>4
  <1>6. \A i \in 1 .. 2 : (s \o t)[i] = d[i]
    BY <1>3, <1>5
  <1>7. s \o t = d
    BY <1>3, <1>4, <1>5, <1>6, SeqEqual
  <1> QED
    BY <1>1, <1>2, <1>3, <1>7, Zenon

\* A certificate is what its two halves say.
LEMMA LinesIs ==
  ASSUME NEW c
  PROVE  Lines(c, << >>) = <<Data(c, 1), Data(c, 2)>>
  <1> DEFINE x == Data(c, 1)
             y == Data(c, 2)
  <1> HIDE DEF x, y
  <1>1. <<x>> \in Seq({x})
    BY OneSeq
  <1>2. (<<x>> \o << >>) = <<x>> /\ <<x>> \o <<y>> = <<x, y>>
    BY <1>1, ConcatEmptySeq, PairConcat
  <1> QED
    BY <1>2, Zenon DEF Lines, x, y

LEMMA LinesInjective ==
  ASSUME NEW c, NEW d, Lines(c, << >>) = Lines(d, << >>)
  PROVE  c = d
  <1>2. Data(c, 1) = Data(d, 1)
    <2>1. <<Data(c, 1), Data(c, 2)>> = <<Data(d, 1), Data(d, 2)>>
      BY LinesIs
    <2>2. ASSUME NEW p, NEW q, NEW r, NEW s, <<p, q>> = <<r, s>> PROVE p = r
      BY <2>2
    <2> QED
      BY <2>1, <2>2
  <1> QED
    BY <1>2, TokensDiffer

LEMMA OnlyOne ==
  ASSUME NEW e, NEW T
  PROVE  Only(T, <<e>>) = IF e \in T THEN <<e>> ELSE << >>
  <1>1. << >> \in Seq({e}) /\ Append(<< >>, e) = <<e>>
    OBVIOUS
  <1>2. Only(T, Append(<< >>, e)) = Only(T, << >>) \o (IF e \in T THEN <<e>> ELSE << >>)
    BY <1>1, OnlyAppend
  <1>3. (IF e \in T THEN <<e>> ELSE << >>) \in Seq({e})
    <2>1. << >> \in Seq({e}) /\ <<e>> \in Seq({e})
      BY EmptySeq
    <2> QED
      BY <2>1
  <1> QED
    BY <1>1, <1>2, <1>3, OnlyEmpty, ConcatEmptySeq

LEMMA OnlyNone ==
  ASSUME NEW S, NEW s \in Seq(S), NEW T, S \cap T = {}
  PROVE  Only(T, s) = << >>
  <1> DEFINE is == {i \in DOMAIN s : s[i] \in T}
  <1>1. \A i \in 1 .. Len(s) : i \notin is
    BY ElementOfSeq
  <1> HIDE DEF is
  <1>2. KeptAt(s, is) = << >>
    BY <1>1, KeptNone
  <1> QED
    BY <1>2 DEF is, Only

LEMMA OnlyAll ==
  ASSUME NEW S, NEW s \in Seq(S), NEW T, S \subseteq T
  PROVE  Only(T, s) = s
  <1> DEFINE is == {i \in DOMAIN s : s[i] \in T}
  <1>1. \A i \in 1 .. Len(s) : i \in is
    BY ElementOfSeq, LenProperties
  <1> HIDE DEF is
  <1>2. KeptAt(s, is) = s
    BY <1>1, KeptAll
  <1> QED
    BY <1>2 DEF is, Only

LEMMA Marks ==
  ASSUME NEW text \in Seq(Tokens), NEW i \in DOMAIN text
  PROVE  /\ text[i] \in {Begin, End} => AtMark(text, i)
         /\ text[i] \notin {Quote, Begin, End} => ~AtMark(text, i)
  <1>1. DOMAIN text = 1 .. Len(text) /\ Len(text) \in Nat
    BY LenProperties
  <1>2. ASSUME text[i] \in {Begin, End} PROVE AtMark(text, i)
    <2>1. (i .. i - 1) \cup (i + 1 .. i) = {}
      BY <1>1
    <2> QED
      BY <1>2, <2>1 DEF AtMark
  <1>3. ASSUME text[i] \notin {Quote, Begin, End}, AtMark(text, i) PROVE FALSE
    <2>1. PICK j \in DOMAIN text :
            /\ text[j] \in {Begin, End, BeginPkcs7, EndPkcs7}
            /\ \A k \in (i .. j - 1) \cup (j + 1 .. i) : text[k] = Quote
      BY <1>3 DEF AtMark
    <2>2. i # j
      <3>1. text[i] \in Tokens
        BY ElementOfSeq, <1>1
      <3> QED
        BY <1>3, <2>1, <3>1, Pkcs7Differs
    <2>3. i \in (i .. j - 1) \cup (j + 1 .. i)
      BY <1>1, <2>2
    <2> QED
      BY <1>3, <2>1, <2>3
  <1> QED
    BY <1>2, <1>3

LEMMA StripKeepsData ==
  ASSUME NEW text \in Seq(Tokens)
  PROVE  /\ StripPEMInfo(text) \in Seq(Tokens \ {LF, Begin, End})
         /\ DataOf(StripPEMInfo(text)) = DataOf(text)
         /\ \A T : text \in Seq(T) => StripPEMInfo(text) \in Seq(T)
  <1> DEFINE is == {i \in DOMAIN text : text[i] # LF /\ ~AtMark(text, i)}
  <1>1. StripPEMInfo(text) = KeptAt(text, is)
    BY DEF StripPEMInfo
  <1>2. \A i \in DOMAIN text : i \in is => text[i] \in Tokens \ {LF, Begin, End}
    BY Marks, LenProperties, ElementOfSeq
  <1>3. \A i \in DOMAIN text : text[i] \in DataTokens => i \in is
    <2>1. \A i \in DOMAIN text : text[i] \in DataTokens => text[i] \notin {LF, Quote, Begin, End}
      BY TokenKinds
    <2> QED
      BY <2>1, Marks
  <1>4. ASSUME NEW T, text \in Seq(T) PROVE \A i \in DOMAIN text : i \in is => text[i] \in T
    BY <1>4, LenProperties, ElementOfSeq
  <1> HIDE DEF is
  <1>5. KeptAt(text, is) \in Seq(Tokens \ {LF, Begin, End})
    BY <1>2, KeptType
  <1>6. Only(DataTokens, KeptAt(text, is)) = Only(DataTokens, text)
    BY <1>3, OnlyIn
  <1>7. ASSUME NEW T, text \in Seq(T) PROVE KeptAt(text, is) \in Seq(T)
    BY <1>4, <1>7, KeptType
  <1> QED
    BY <1>1, <1>5, <1>6, <1>7 DEF DataOf

LEMMA LinesNotEmpty ==
  ASSUME NEW c \in Certs
  PROVE  Lines(c, << >>) # << >>
  <1> SUFFICES ASSUME Lines(c, << >>) = << >> PROVE FALSE
    OBVIOUS
  <1>1. PICK x \in Tokens, y \in Tokens : x = Data(c, 1) /\ y = Data(c, 2)
    BY DEF Tokens
  <1>2. << >> \in Seq(Tokens) /\ <<x>> \in Seq(Tokens) /\ <<y>> \in Seq(Tokens)
    BY EmptySeq, OneSeq
  <1>3. <<x>> \o << >> \in Seq(Tokens)
    BY <1>2, ConcatProperties
  <1>4. (<<x>> \o << >>) \o <<y>> = << >>
    BY <1>1 DEF Lines
  <1>5. <<y>> = << >>
    BY <1>2, <1>3, <1>4, ConcatEqualIffEmpty
  <1> QED
    BY <1>5, OneSeq, EmptySeq

\* Two certificates do not begin alike.
LEMMA LinesPrefix ==
  ASSUME NEW c, NEW d
  PROVE  /\ IsPrefix(Lines(d, << >>), Lines(c, << >>)) <=> d = c
         /\ ~IsPrefix(Lines(d, << >>), << >>)
  <1>1. ASSUME NEW b
        PROVE  /\ Len(Lines(b, << >>)) = 2
               /\ SubSeq(Lines(b, << >>), 1, 2) = Lines(b, << >>)
    <2> DEFINE x == Data(b, 1)
               y == Data(b, 2)
    <2> HIDE DEF x, y
    <2>1. <<x, y>> \in Seq({x, y}) /\ Len(<<x, y>>) = 2
      OBVIOUS
    <2>2. SubSeq(<<x, y>>, 1, Len(<<x, y>>)) = <<x, y>>
      BY <2>1, SubSeqFull
    <2> QED
      BY <2>1, <2>2, LinesIs DEF x, y
  <1>2. IsPrefix(Lines(d, << >>), Lines(c, << >>)) <=> Lines(d, << >>) = Lines(c, << >>)
    BY <1>1 DEF IsPrefix
  <1>3. Len(<< >>) = 0
    OBVIOUS
  <1>4. ~IsPrefix(Lines(d, << >>), << >>)
    BY <1>1, <1>3 DEF IsPrefix
  <1> QED
    BY <1>2, <1>4, LinesInjective

\* A text without BEGIN and END lines decodes to the certificate of its data.
LEMMA DecodeIsData ==
  ASSUME NEW text \in Seq(Tokens \ {Begin, End})
  PROVE  /\ \A c \in Certs : DataOf(text) = Lines(c, << >>) => Decode(text) = c
         /\ DataOf(text) = << >> => Decode(text) = Unreadable
  <1> DEFINE is == {i \in DOMAIN text : text[i] \notin White \cup {Quote}}
             js == {i \in DOMAIN text : text[i] \in DataTokens}
  <1>1. \A i \in DOMAIN text : i \in is <=> i \in js
    <2>1. \A i \in DOMAIN text : text[i] \in Tokens \ {Begin, End}
      BY LenProperties, ElementOfSeq
    <2>2. \A e \in Tokens \ {Begin, End} : e \notin White \cup {Quote} <=> e \in DataTokens
      BY TokenKinds DEF White
    <2> QED
      BY <2>1, <2>2
  <1>2. DataOf(text) = KeptAt(text, js)
    BY DEF DataOf, Only
  <1> DEFINE matches == {c \in Certs : IsPrefix(Lines(c, << >>), DataOf(text))}
             matching == {c \in Certs : IsPrefix(Lines(c, << >>), KeptAt(text, is))}
  <1>3. Decode(text) = IF matching = {} THEN Unreadable ELSE CHOOSE c \in matching : TRUE
    BY DEF Decode
  <1>4. KeptAt(text, is) = DataOf(text)
    <2> HIDE DEF is, js
    <2> QED
      BY <1>1, <1>2, KeptSame
  <1>5. matching = matches
    BY <1>4
  <1>6. Decode(text) = IF matches = {} THEN Unreadable ELSE CHOOSE c \in matches : TRUE
    <2> HIDE DEF matches, matching
    <2> QED
      BY <1>3, <1>5, Zenon
  <1>7. ASSUME NEW c \in Certs, DataOf(text) = Lines(c, << >>) PROVE Decode(text) = c
    <2>1. matches = {c}
      BY <1>7, LinesPrefix
    <2> HIDE DEF matches
    <2> QED
      BY <1>6, <2>1
  <1>8. ASSUME DataOf(text) = << >> PROVE Decode(text) = Unreadable
    <2>1. matches = {}
      BY <1>8, LinesPrefix
    <2> HIDE DEF matches
    <2> QED
      BY <1>6, <2>1
  <1> QED
    BY <1>7, <1>8

-----------------------------------------------------------------------------
(* Trim *)

\* Positions m to n are the text without the white space at its ends.
Solid(text, m, n) ==
  /\ m \in DOMAIN text /\ text[m] \notin White
  /\ n \in DOMAIN text /\ text[n] \notin White
  /\ \A i \in DOMAIN text : text[i] \notin White => m <= i /\ i <= n

LEMMA SolidExists ==
  ASSUME NEW S, NEW text \in Seq(S), NEW k \in DOMAIN text, text[k] \notin White
  PROVE  \E m, n \in DOMAIN text : Solid(text, m, n)
  <1> DEFINE solid == {i \in DOMAIN text : text[i] \notin White}
             fromEnd == {Len(text) - i : i \in solid}
  <1>1. DOMAIN text = 1 .. Len(text) /\ Len(text) \in Nat
    BY LenProperties
  <1>2. solid \subseteq Nat /\ k \in solid /\ solid \subseteq 1 .. Len(text)
    BY <1>1
  <1>3. fromEnd \subseteq Nat /\ fromEnd # {}
    BY <1>1, <1>2
  <1> HIDE DEF solid
  <1>4. PICK m \in solid : \A i \in solid : m <= i
    BY <1>2, LeastNumber
  <1>5. PICK d \in fromEnd : \A e \in fromEnd : d <= e
    <2> HIDE DEF fromEnd
    <2> QED
      BY <1>3, LeastNumber
  <1>6. PICK n \in solid : d = Len(text) - n
    BY <1>5
  <1>7. ASSUME NEW i \in solid PROVE i <= n
    <2>1. Len(text) - i \in fromEnd
      OBVIOUS
    <2>2. Len(text) - n <= Len(text) - i
      BY <1>5, <1>6, <2>1
    <2> QED
      BY <1>1, <1>2, <2>2
  <1>8. Solid(text, m, n)
    BY <1>4, <1>6, <1>7 DEF Solid, solid
  <1> QED
    BY <1>4, <1>6, <1>8 DEF solid

LEMMA TrimIs ==
  ASSUME NEW S, NEW text \in Seq(S), NEW m, NEW n, Solid(text, m, n)
  PROVE  Trim(text) = SubSeq(text, m, n)
  <1> DEFINE solid == {i \in DOMAIN text : text[i] \notin White}
  <1>1. /\ m \in solid /\ n \in solid
        /\ \A i \in solid : m <= i /\ i <= n
    BY DEF Solid
  <1>2. solid \subseteq Nat
    BY LenProperties
  <1>3. solid # {}
    BY <1>1
  <1>4. Trim(text) = SubSeq(text, Min(solid), Max(solid))
    BY <1>3 DEF Trim
  <1> HIDE DEF solid
  <1>5. Min(solid) = m /\ Max(solid) = n
    <2>1. \A x \in solid : (\A y \in solid : x <= y) => x = m
      BY <1>1, <1>2
    <2>2. \A x \in solid : (\A y \in solid : x >= y) => x = n
      BY <1>1, <1>2
    <2>3. (\A y \in solid : m <= y) /\ (\A y \in solid : n >= y)
      BY <1>1, <1>2
    <2>4. (CHOOSE x \in solid : \A y \in solid : x <= y) = m
      BY <1>1, <2>1, <2>3, Zenon
    <2>5. (CHOOSE x \in solid : \A y \in solid : x >= y) = n
      BY <1>1, <2>2, <2>3, Zenon
    <2> QED
      BY <2>4, <2>5 DEF Min, Max
  <1> QED
    BY <1>4, <1>5

LEMMA TrimOfWhite ==
  ASSUME NEW text \in Seq(White)
  PROVE  Trim(text) = << >>
  <1>1. {i \in DOMAIN text : text[i] \notin White} = {}
    BY LenProperties, ElementOfSeq
  <1> QED
    BY <1>1 DEF Trim

LEMMA TrimKeepsData ==
  ASSUME NEW T, NEW text \in Seq(T)
  PROVE  Trim(text) \in Seq(T) /\ DataOf(Trim(text)) = DataOf(text)
  <1>1. CASE \E k \in DOMAIN text : text[k] \notin White
    <2>1. PICK m \in DOMAIN text, n \in DOMAIN text : Solid(text, m, n)
      BY <1>1, SolidExists
    <2>2. Trim(text) = SubSeq(text, m, n)
      BY <2>1, TrimIs
    <2>3. /\ DOMAIN text = 1 .. Len(text) /\ Len(text) \in Nat
          /\ m \in 1 .. Len(text) /\ n \in 1 .. Len(text)
          /\ \A i \in 1 .. Len(text) : text[i] \in T
      BY LenProperties, ElementOfSeq
    <2>4. m <= n
      BY <2>1 DEF Solid
    <2> DEFINE front == SubSeq(text, 1, m - 1)
               middle == SubSeq(text, m, n)
               back == SubSeq(text, n + 1, Len(text))
    <2>5. middle \in Seq(T)
      <3>1. \A i \in m .. n : text[i] \in T
        BY <2>3
      <3> QED
        BY <2>3, <3>1, SubSeqProperties
    <2>6. front \in Seq(T \cap White)
      <3>1. \A i \in 1 .. m - 1 : text[i] \in T \cap White
        BY <2>1, <2>3 DEF Solid
      <3> QED
        BY <2>3, <3>1, SubSeqProperties
    <2>7. back \in Seq(T \cap White)
      <3>1. \A i \in n + 1 .. Len(text) : text[i] \in T \cap White
        BY <2>1, <2>3 DEF Solid
      <3> QED
        BY <2>3, <3>1, SubSeqProperties
    <2>8. front \o (middle \o back) = text
      <3>1. middle \o back = SubSeq(text, m, Len(text))
        <4>1. m \in 1 .. Len(text) + 1 /\ n \in m - 1 .. Len(text) /\ Len(text) \in n .. Len(text)
          BY <2>3, <2>4
        <4> QED
          BY <4>1, ConcatAdjacentSubSeq
      <3>2. front \o SubSeq(text, m, Len(text)) = SubSeq(text, 1, Len(text))
        <4>1. 1 \in 1 .. Len(text) + 1 /\ m - 1 \in 1 - 1 .. Len(text)
              /\ Len(text) \in m - 1 .. Len(text) /\ (m - 1) + 1 = m
          BY <2>3
        <4>2. front \o SubSeq(text, (m - 1) + 1, Len(text)) = SubSeq(text, 1, Len(text))
          BY <4>1, ConcatAdjacentSubSeq
        <4> QED
          BY <4>1, <4>2
      <3>3. SubSeq(text, 1, Len(text)) = text
        BY SubSeqFull
      <3> QED
        BY <3>1, <3>2, <3>3, Zenon
    <2> HIDE DEF front, middle, back
    <2>9. front \in Seq(T) /\ back \in Seq(T) /\ middle \o back \in Seq(T)
      <3>1. front \in Seq(T) /\ back \in Seq(T)
        BY <2>6, <2>7, SeqMonotonic
      <3> QED
        BY <2>5, <3>1, ConcatProperties
    <2>10. /\ DataOf(front \o (middle \o back)) = DataOf(front) \o DataOf(middle \o back)
           /\ DataOf(middle \o back) = DataOf(middle) \o DataOf(back)
      BY <2>5, <2>9, DataConcat
    <2>11. DataOf(front) = << >> /\ DataOf(back) = << >>
      <3>1. (T \cap White) \cap DataTokens = {}
        BY TokenKinds DEF White
      <3> QED
        BY <2>6, <2>7, <3>1, OnlyNone DEF DataOf
    <2>12. DataOf(middle) \in Seq(T)
      BY <2>5, OnlyType DEF DataOf
    <2>13. DataOf(text) = DataOf(middle)
      <3>1. << >> \o DataOf(middle) = DataOf(middle) /\ DataOf(middle) \o << >> = DataOf(middle)
        BY <2>12, ConcatEmptySeq
      <3> QED
        BY <2>8, <2>10, <2>11, <3>1, Zenon
    <2> QED
      BY <2>2, <2>5, <2>13 DEF middle
  <1>2. CASE \A k \in DOMAIN text : text[k] \in White
    <2>1. text \in Seq(White)
      BY <1>2, LenProperties
    <2>2. Trim(text) = << >>
      BY <2>1, TrimOfWhite
    <2>3. White \cap DataTokens = {}
      BY TokenKinds DEF White
    <2>4. DataOf(text) = << >>
      BY <2>1, <2>3, OnlyNone DEF DataOf
    <2> QED
      BY <2>2, <2>4, OnlyEmpty, EmptySeq DEF DataOf
  <1> QED
    BY <1>1, <1>2

-----------------------------------------------------------------------------
(* The texts of a certificate *)

\* Text without data, before and behind another.
LEMMA DataAround ==
  ASSUME NEW s \in Seq(Tokens), NEW a \in Seq(Tokens \ DataTokens)
  PROVE  /\ a \o s \in Seq(Tokens) /\ DataOf(a \o s) = DataOf(s)
         /\ s \o a \in Seq(Tokens) /\ DataOf(s \o a) = DataOf(s)
  <1>1. a \in Seq(Tokens) /\ DataOf(a) = << >>
    <2>1. (Tokens \ DataTokens) \cap DataTokens = {} /\ Tokens \ DataTokens \subseteq Tokens
      OBVIOUS
    <2> QED
      BY <2>1, OnlyNone, SeqMonotonic DEF DataOf
  <1>2. DataOf(s) \in Seq(Tokens)
    BY OnlyType DEF DataOf
  <1>3. /\ a \o s \in Seq(Tokens) /\ DataOf(a \o s) = << >> \o DataOf(s)
        /\ s \o a \in Seq(Tokens) /\ DataOf(s \o a) = DataOf(s) \o << >>
    <2>1. a \o s \in Seq(Tokens) /\ s \o a \in Seq(Tokens)
      BY <1>1, ConcatProperties
    <2>2. DataOf(a \o s) = DataOf(a) \o DataOf(s) /\ DataOf(s \o a) = DataOf(s) \o DataOf(a)
      BY <1>1, DataConcat
    <2> QED
      BY <1>1, <2>1, <2>2, Zenon
  <1>4. << >> \o DataOf(s) = DataOf(s) /\ DataOf(s) \o << >> = DataOf(s)
    BY <1>2, ConcatEmptySeq
  <1> QED
    BY <1>3, <1>4, Zenon

LEMMA WhiteTexts ==
  /\ White \subseteq Tokens \ DataTokens
  /\ << >> \in Seq(White) /\ <<LF>> \in Seq(White)
  /\ <<CR, LF>> \in Seq(White) /\ <<LF, SP>> \in Seq(White)
  /\ \A s \in Seq(White) : s \in Seq(Tokens \ DataTokens)
  /\ \A e \in {Quote, Begin, End} : <<e>> \in Seq(Tokens \ DataTokens)
  <1>1. White \subseteq Tokens \ DataTokens /\ {Quote, Begin, End} \subseteq Tokens \ DataTokens
    BY TokenKinds DEF White
  <1>2. LF \in White /\ CR \in White /\ SP \in White
    BY DEF White
  <1>3. \A e, f \in White : << >> \in Seq(White) /\ <<e>> \in Seq(White) /\ <<e, f>> \in Seq(White)
    <2>1. \A e \in White : << >> \in Seq(White) /\ <<e>> \in Seq(White)
      BY EmptySeq
    <2>2. ASSUME NEW e \in White, NEW f \in White PROVE <<e, f>> \in Seq(White)
      OBVIOUS
    <2> QED
      BY <2>1, <2>2
  <1>4. \A s \in Seq(White) : s \in Seq(Tokens \ DataTokens)
    BY <1>1, SeqMonotonic
  <1>5. \A e \in {Quote, Begin, End} : <<e>> \in Seq(Tokens \ DataTokens)
    BY <1>1, OneSeq
  <1> QED
    BY <1>1, <1>2, <1>3, <1>4, <1>5, Zenon

LEMMA TextsAssociate == \A s, t, u \in Seq(Tokens) : Associates(s, t, u)
  BY ConcatAssociates

LEMMA LinesData ==
  ASSUME NEW c \in Certs, NEW eol \in Seq(White)
  PROVE  Lines(c, eol) \in Seq(Tokens) /\ DataOf(Lines(c, eol)) = Lines(c, << >>)
  <1>1. PICK x \in DataTokens, y \in DataTokens : x = Data(c, 1) /\ y = Data(c, 2)
    BY DEF DataTokens
  <1>2. x \in Tokens /\ y \in Tokens
    BY TokenKinds
  <1>3. \A e \in DataTokens : e \in Tokens => <<e>> \in Seq(Tokens) /\ DataOf(<<e>>) = <<e>>
    BY OneSeq, OnlyOne DEF DataOf
  <1>4. <<x>> \in Seq(Tokens) /\ DataOf(<<x>>) = <<x>> /\ <<y>> \in Seq(Tokens) /\ DataOf(<<y>>) = <<y>>
    BY <1>2, <1>3, Zenon
  <1>5. eol \in Seq(Tokens \ DataTokens)
    BY WhiteTexts
  <1>6. <<x>> \o eol \in Seq(Tokens) /\ DataOf(<<x>> \o eol) = <<x>>
    <2>1. <<x>> \o eol \in Seq(Tokens) /\ DataOf(<<x>> \o eol) = DataOf(<<x>>)
      BY <1>4, <1>5, DataAround
    <2> QED
      BY <1>4, <2>1, Zenon
  <1>7. /\ (<<x>> \o eol) \o <<y>> \in Seq(Tokens)
        /\ DataOf((<<x>> \o eol) \o <<y>>) = <<x>> \o <<y>>
    <2>1. (<<x>> \o eol) \o <<y>> \in Seq(Tokens)
      BY <1>4, <1>6, ConcatProperties
    <2>2. DataOf((<<x>> \o eol) \o <<y>>) = DataOf(<<x>> \o eol) \o DataOf(<<y>>)
      BY <1>4, <1>6, DataConcat
    <2> QED
      BY <1>4, <1>6, <2>1, <2>2, Zenon
  <1>8. <<x>> \o << >> = <<x>>
    BY <1>4, ConcatEmptySeq
  <1> QED
    BY <1>1, <1>7, <1>8, Zenon DEF Lines

LEMMA PemData ==
  ASSUME NEW c \in Certs, NEW eol \in Seq(White)
  PROVE  Pem(c, eol) \in Seq(Tokens) /\ DataOf(Pem(c, eol)) = Lines(c, << >>)
  <1>1. PICK lines \in Seq(Tokens) : lines = Lines(c, eol) /\ DataOf(lines) = Lines(c, << >>)
    BY LinesData
  <1>2. PICK b \in Seq(Tokens \ DataTokens) : b = <<Begin>>
    BY WhiteTexts
  <1>3. PICK e \in Seq(Tokens \ DataTokens) : e = <<End>>
    BY WhiteTexts
  <1>4. eol \in Seq(Tokens \ DataTokens)
    BY WhiteTexts
  <1>5. PICK p \in Seq(Tokens \ DataTokens) : p = b \o eol
    BY <1>4, ConcatProperties
  <1>6. PICK q \in Seq(Tokens) : q = p \o lines /\ DataOf(q) = DataOf(lines)
    BY DataAround
  <1>7. PICK r \in Seq(Tokens) : r = q \o eol /\ DataOf(r) = DataOf(q)
    BY <1>4, DataAround
  <1>8. r \o e \in Seq(Tokens) /\ DataOf(r \o e) = DataOf(r)
    BY DataAround
  <1> QED
    BY <1>1, <1>2, <1>3, <1>5, <1>6, <1>7, <1>8, Zenon DEF Pem

LEMMA TextData ==
  ASSUME NEW c \in Certs, NEW style \in Styles
  PROVE  Text(c, style) \in Seq(Tokens) /\ DataOf(Text(c, style)) = Lines(c, << >>)
  <1>1. \A eol \in Seq(White) :
          /\ Lines(c, eol) \in Seq(Tokens) /\ DataOf(Lines(c, eol)) = Lines(c, << >>)
          /\ Pem(c, eol) \in Seq(Tokens) /\ DataOf(Pem(c, eol)) = Lines(c, << >>)
    BY LinesData, PemData
  <1>2. ASSUME NEW s \in Seq(Tokens), NEW a \in Seq(Tokens \ DataTokens)
        PROVE  (a \o s) \o a \in Seq(Tokens) /\ DataOf((a \o s) \o a) = DataOf(s)
    <2>1. PICK t \in Seq(Tokens) : t = a \o s /\ DataOf(t) = DataOf(s)
      BY DataAround
    <2>2. t \o a \in Seq(Tokens) /\ DataOf(t \o a) = DataOf(t)
      BY DataAround
    <2> QED
      BY <2>1, <2>2, Zenon
  <1>3. CASE style = "cleared"
    <2>1. Text(c, style) = Lines(c, << >>)
      BY <1>3 DEF Text
    <2> QED
      BY <1>1, <2>1, WhiteTexts
  <1>4. CASE style = "lines"
    <2>1. Text(c, style) = Lines(c, <<LF>>)
      BY <1>4 DEF Text
    <2> QED
      BY <1>1, <2>1, WhiteTexts
  <1>5. CASE style = "padded"
    <2>1. Text(c, style) = (<<LF, SP>> \o Lines(c, << >>)) \o <<LF, SP>>
      BY <1>5 DEF Text
    <2>2. PICK a \in Seq(Tokens \ DataTokens) : a = <<LF, SP>>
      BY WhiteTexts
    <2>3. PICK s \in Seq(Tokens) : s = Lines(c, << >>) /\ DataOf(s) = Lines(c, << >>)
      BY <1>1, WhiteTexts
    <2> QED
      BY <1>2, <2>1, <2>2, <2>3, Zenon
  <1>6. CASE style = "pem"
    <2>1. Text(c, style) = Pem(c, <<LF>>)
      BY <1>6 DEF Text
    <2> QED
      BY <1>1, <2>1, WhiteTexts
  <1>7. CASE style = "crlf"
    <2>1. Text(c, style) = Pem(c, <<CR, LF>>)
      BY <1>7 DEF Text
    <2> QED
      BY <1>1, <2>1, WhiteTexts
  <1>8. CASE style = "quoted"
    <2>1. Text(c, style) = (<<Quote>> \o Pem(c, <<LF>>)) \o <<Quote>>
      BY <1>8 DEF Text
    <2>2. PICK a \in Seq(Tokens \ DataTokens) : a = <<Quote>>
      BY WhiteTexts
    <2>3. PICK s \in Seq(Tokens) : s = Pem(c, <<LF>>) /\ DataOf(s) = Lines(c, << >>)
      BY <1>1, WhiteTexts
    <2> QED
      BY <1>2, <2>1, <2>2, <2>3, Zenon
  <1> QED
    BY <1>3, <1>4, <1>5, <1>6, <1>7, <1>8 DEF Styles

-----------------------------------------------------------------------------
(* What is stored *)

LEMMA CleanedData ==
  ASSUME NEW cell \in Written \cup {Empty}
  PROVE  /\ Cleaned(cell) \in Seq(Tokens \ {Begin, End})
         /\ cell = Empty => Cleaned(cell) = << >>
         /\ cell # Empty => DataOf(Cleaned(cell)) = Lines(cell.cert, << >>)
  <1>1. CASE cell = Empty
    BY <1>1, EmptySeq DEF Cleaned
  <1>2. CASE cell # Empty
    <2>1. cell.cert \in Certs /\ cell.style \in Styles
      BY <1>2 DEF Written
    <2>2. PICK text \in Seq(Tokens) :
            text = Text(cell.cert, cell.style) /\ DataOf(text) = Lines(cell.cert, << >>)
      BY <2>1, TextData
    <2>3. /\ StripPEMInfo(text) \in Seq(Tokens \ {LF, Begin, End})
          /\ DataOf(StripPEMInfo(text)) = DataOf(text)
      BY StripKeepsData
    <2>4. StripPEMInfo(text) \in Seq(Tokens \ {Begin, End})
      <3>1. Tokens \ {LF, Begin, End} \subseteq Tokens \ {Begin, End}
        OBVIOUS
      <3> QED
        BY <2>3, <3>1, SeqMonotonic
    <2>5. Cleaned(cell) = StripPEMInfo(text)
      BY <1>2, <2>2 DEF Cleaned
    <2> QED
      BY <1>2, <2>2, <2>3, <2>4, <2>5
  <1> QED
    BY <1>1, <1>2

LEMMA PublicationKinds ==
  ASSUME NEW w \in Publications
  PROVE  \/ w.list = "eiDAS" /\ w.what \in EidasTexts /\ w.what \in Written /\ w.what # Empty
         \/ w.list = "Mozilla" /\ w.what \in Written \cup {Empty}
  BY ConstantsAssumption DEF Publications

LEMMA StoredData ==
  ASSUME NEW w \in Publications
  PROVE  /\ StoredFor(w).certificate \in Seq(Tokens)
         /\ StoredFor(w).list = w.list
         /\ w.what = Empty => w.list = "Mozilla" /\ StoredFor(w).certificate = << >>
         /\ w.what # Empty => /\ w.what \in Written
                              /\ DataOf(StoredFor(w).certificate) = Lines(w.what.cert, << >>)
         /\ w.list = "Mozilla" => StoredFor(w).certificate \in Seq(Tokens \ {Begin, End})
  <1> DEFINE text == StoredText(w)
  <1>1. /\ text \in Seq(Tokens)
        /\ w.what = Empty => w.list = "Mozilla" /\ text = << >>
        /\ w.what # Empty => w.what \in Written /\ DataOf(text) = Lines(w.what.cert, << >>)
        /\ w.list = "Mozilla" => text \in Seq(Tokens \ {Begin, End})
    <2>1. CASE w.list = "eiDAS" /\ w.what \in Written /\ w.what # Empty
      <3>1. text = Text(w.what.cert, w.what.style)
        BY <2>1 DEF StoredText
      <3>2. w.what.cert \in Certs /\ w.what.style \in Styles
        BY <2>1 DEF Written
      <3> HIDE DEF text
      <3>3. text \in Seq(Tokens) /\ DataOf(text) = Lines(w.what.cert, << >>)
        BY <3>1, <3>2, TextData
      <3> QED
        BY <2>1, <3>3
    <2>2. CASE w.list = "Mozilla" /\ w.what \in Written \cup {Empty}
      <3>1. text = Cleaned(w.what)
        BY <2>2 DEF StoredText
      <3> HIDE DEF text
      <3>2. text \in Seq(Tokens \ {Begin, End})
        BY <2>2, <3>1, CleanedData
      <3>3. text \in Seq(Tokens)
        <4>1. Tokens \ {Begin, End} \subseteq Tokens
          OBVIOUS
        <4> QED
          BY <3>2, <4>1, SeqMonotonic
      <3> QED
        BY <2>2, <3>1, <3>2, <3>3, CleanedData
    <2> QED
      BY <2>1, <2>2, PublicationKinds
  <1>2. StoredFor(w) = [list |-> w.list, certificate |-> Trim(text)]
    BY DEF StoredFor
  <1> HIDE DEF text
  <1>3. Trim(text) \in Seq(Tokens) /\ DataOf(Trim(text)) = DataOf(text)
    BY <1>1, TrimKeepsData
  <1>4. text = << >> => Trim(text) = << >>
    BY TrimOfWhite, EmptySeq
  <1>5. w.list = "Mozilla" => Trim(text) \in Seq(Tokens \ {Begin, End})
    BY <1>1, TrimKeepsData
  <1>6. StoredFor(w).certificate = Trim(text) /\ StoredFor(w).list = w.list
    BY <1>2
  <1> QED
    BY <1>1, <1>3, <1>4, <1>5, <1>6

-----------------------------------------------------------------------------
(* The invariant *)

LEMMA InitInv == Init => LookupInv
  <1> SUFFICES ASSUME Init PROVE LookupInv
    OBVIOUS
  <1>1. StoreInv
    BY DEF Init, StoreInv
  <1>2. RecordsInv
    BY EmptySeq DEF Init, RecordsInv
  <1>3. AnswerInv
    BY DEF Init, AnswerInv
  <1> QED
    BY <1>1, <1>2, <1>3 DEF LookupInv

LEMMA ReadEidasInv ==
  ASSUME LookupInv, ReadEidas
  PROVE  LookupInv'
  <1> USE DEF LookupInv
  <1>1. AnswerInv'
    BY DEF ReadEidas, Quiet, AnswerInv
  <1>2. RecordsInv'
    BY DEF ReadEidas, parsing, RecordsInv
  <1>3. StoreInv'
    <2>1. PICK w \in EidasTexts :
            /\ published' = published \cup {[list |-> "eiDAS", what |-> w]}
            /\ Save("eiDAS", {Text(w.cert, w.style)})
      BY DEF ReadEidas
    <2> DEFINE p == [list |-> "eiDAS", what |-> w]
    <2>2. p \in Publications
      BY DEF Publications
    <2>3. StoredFor(p) = [list |-> "eiDAS", certificate |-> Trim(Text(w.cert, w.style))]
      BY DEF StoredFor, StoredText
    <2>4. stored' = stored \cup {StoredFor(p)}
      BY <2>1, <2>3 DEF Save
    <2>5. published' = published \cup {p}
      BY <2>1
    <2> HIDE DEF p
    <2>6. stored' = {StoredFor(v) : v \in published'}
      BY <2>4, <2>5 DEF StoreInv
    <2> QED
      BY <2>2, <2>5, <2>6 DEF StoreInv
  <1> QED
    BY <1>1, <1>2, <1>3

LEMMA SaveRecordsInv ==
  ASSUME LookupInv, SaveRecords
  PROVE  LookupInv'
  <1> USE DEF LookupInv
  <1>1. AnswerInv'
    BY DEF SaveRecords, Quiet, AnswerInv
  <1>2. RecordsInv'
    BY EmptySeq DEF SaveRecords, RecordsInv
  <1>3. StoreInv'
    <2> DEFINE p(i) == [list |-> "Mozilla", what |-> csv.cells[i]]
    <2>1. /\ DOMAIN records = 1 .. Len(records)
          /\ \A i \in DOMAIN records : /\ csv.cells[i] \in Written \cup {Empty}
                                       /\ records[i] = Cleaned(csv.cells[i])
      BY LenProperties DEF SaveRecords, RecordsInv
    <2>2. \A i \in DOMAIN records : p(i) \in Publications
      BY <2>1 DEF Publications
    <2>3. \A i \in DOMAIN records :
            StoredFor(p(i)) = [list |-> "Mozilla", certificate |-> Trim(records[i])]
      BY <2>1 DEF StoredFor, StoredText
    <2>4. published' = published \cup {p(i) : i \in DOMAIN records}
      BY DEF SaveRecords
    <2>5. stored' = stored \cup {StoredFor(p(i)) : i \in DOMAIN records}
      <3>1. stored' = stored \cup {[list |-> "Mozilla", certificate |-> Trim(text)] : text \in ToSet(records)}
        BY DEF SaveRecords, Save
      <3>2. ToSet(records) = {records[i] : i \in DOMAIN records}
        BY DEF ToSet
      <3> HIDE DEF p, LookupInv
      <3>3. {[list |-> "Mozilla", certificate |-> Trim(text)] : text \in ToSet(records)}
              = {StoredFor(p(i)) : i \in DOMAIN records}
        BY <2>3, <3>2
      <3> QED
        BY <3>1, <3>3
    <2> HIDE DEF p
    <2>6. stored' = {StoredFor(v) : v \in published'}
      BY <2>4, <2>5 DEF StoreInv
    <2> QED
      BY <2>2, <2>4, <2>6 DEF StoreInv
  <1> QED
    BY <1>1, <1>2, <1>3

LEMMA CsvStepInv ==
  ASSUME LookupInv, Download \/ ReadRecord \/ ReadRecordThrows \/ RecordsDone
  PROVE  LookupInv'
  <1> USE DEF LookupInv
  <1>1. AnswerInv'
    BY DEF Download, ReadRecord, ReadRecordThrows, RecordsDone, Quiet, AnswerInv
  <1>2. StoreInv'
    BY DEF Download, ReadRecord, ReadRecordThrows, RecordsDone, StoreInv
  <1>3. CASE Download
    <2>1. csv' \in Csvs /\ csv'.cells \in Seq(Written \cup {Empty, Broken})
      BY <1>3, ConstantsAssumption DEF Download
    <2>2. Len(csv'.cells) \in Nat
      BY <2>1, LenProperties
    <2>3. Len(<< >>) = 0 /\ << >> \in Seq(Seq(Tokens))
      BY EmptySeq
    <2>4. records' = << >> /\ parse' = "records"
      BY <1>3 DEF Download
    <2>5. RecordsInv'
      BY <2>1, <2>2, <2>3, <2>4 DEF RecordsInv
    <2> QED
      BY <1>1, <1>2, <2>5
  <1>4. CASE ReadRecord
    <2>1. /\ csv \in Csvs /\ csv.cells \in Seq(Written \cup {Empty, Broken})
          /\ records \in Seq(Seq(Tokens)) /\ Len(records) \in Nat
          /\ Len(records) + 1 <= Len(csv.cells) /\ Len(csv.cells) \in Nat
          /\ csv' = csv /\ parse' = parse /\ parse = "records"
      <3>1. /\ csv \in Csvs /\ records \in Seq(Seq(Tokens))
            /\ Len(records) + 1 <= Len(csv.cells)
            /\ csv' = csv /\ parse' = parse /\ parse = "records"
        BY <1>4 DEF ReadRecord, Current, RecordsInv
      <3>2. csv.cells \in Seq(Written \cup {Empty, Broken})
        BY <3>1, ConstantsAssumption
      <3> QED
        BY <3>1, <3>2, LenProperties
    <2> DEFINE cell == csv.cells[Len(records) + 1]
    <2>2. csv.pemColumn /\ cell \in Written \cup {Empty}
      <3>1. csv.pemColumn /\ cell # Broken
        BY <1>4 DEF ReadRecord, PEMInfo, Current
      <3>2. cell \in Written \cup {Empty, Broken}
        BY <2>1, ElementOfSeq
      <3> QED
        BY <3>1, <3>2
    <2>3. records' = Append(records, Cleaned(cell))
      BY <1>4, <2>2 DEF ReadRecord, PEMInfo, Current
    <2> HIDE DEF cell
    <2>4. Cleaned(cell) \in Seq(Tokens)
      <3>1. Cleaned(cell) \in Seq(Tokens \ {Begin, End}) /\ Tokens \ {Begin, End} \subseteq Tokens
        BY <2>2, CleanedData
      <3> QED
        BY <3>1, SeqMonotonic
    <2>5. /\ records' \in Seq(Seq(Tokens)) /\ Len(records') = Len(records) + 1
          /\ \A i \in 1 .. Len(records) : records'[i] = records[i]
          /\ records'[Len(records) + 1] = Cleaned(cell)
      BY <2>1, <2>3, <2>4, AppendProperties
    <2>6. \A i \in 1 .. Len(records') : /\ csv.cells[i] \in Written \cup {Empty}
                                        /\ records'[i] = Cleaned(csv.cells[i])
      <3>1. \A i \in 1 .. Len(records) : /\ csv.cells[i] \in Written \cup {Empty}
                                         /\ records[i] = Cleaned(csv.cells[i])
        BY <2>1 DEF RecordsInv
      <3>2. \A i \in 1 .. Len(records') : i \in 1 .. Len(records) \/ i = Len(records) + 1
        BY <2>1, <2>5
      <3> QED
        BY <2>2, <2>5, <3>1, <3>2 DEF cell
    <2>7. RecordsInv'
      BY <2>1, <2>2, <2>5, <2>6 DEF RecordsInv
    <2> QED
      BY <1>1, <1>2, <2>7
  <1>5. CASE ReadRecordThrows
    <2>1. csv \in Csvs /\ Len(csv.cells) \in Nat
      <3>1. csv \in Csvs
        BY <1>5 DEF ReadRecordThrows, RecordsInv
      <3>2. csv.cells \in Seq(Written \cup {Empty, Broken})
        BY <3>1, ConstantsAssumption
      <3> QED
        BY <3>1, <3>2, LenProperties
    <2>2. Len(<< >>) = 0 /\ << >> \in Seq(Seq(Tokens))
      BY EmptySeq
    <2>3. records' = << >> /\ parse' = "thrown" /\ csv' = csv
      BY <1>5 DEF ReadRecordThrows
    <2>4. RecordsInv'
      BY <2>1, <2>2, <2>3 DEF RecordsInv
    <2> QED
      BY <1>1, <1>2, <2>4
  <1>6. CASE RecordsDone
    <2>1. /\ csv \in Csvs /\ csv' = csv /\ records' = records
          /\ parse = "records" /\ parse' = "read"
          /\ Len(records) + 1 > Len(csv.cells) /\ Len(records) <= Len(csv.cells)
      BY <1>6 DEF RecordsDone, Current, RecordsInv
    <2>2. Len(records) \in Nat /\ Len(csv.cells) \in Nat
      <3>1. csv.cells \in Seq(Written \cup {Empty, Broken})
        BY <2>1, ConstantsAssumption
      <3>2. records \in Seq(Seq(Tokens))
        BY DEF RecordsInv
      <3> QED
        BY <3>1, <3>2, LenProperties
    <2>3. Len(records) = Len(csv.cells)
      BY <2>1, <2>2
    <2>4. RecordsInv'
      BY <2>1, <2>3 DEF RecordsInv
    <2> QED
      BY <1>1, <1>2, <2>4
  <1> QED
    BY <1>3, <1>4, <1>5, <1>6

\* A request changes nothing but the answer.
LEMMA RequestInv ==
  ASSUME LookupInv, Request \/ Sent
  PROVE  LookupInv'
  <1> USE DEF LookupInv
  <1>1. UNCHANGED <<stored, csv, records, parse, published>>
    BY DEF Request, Lookup, LookupEmpty, LookupWithoutBody, LookupWithoutField, Chain,
           ChainOfOne, ChainAsPkcs7, ChainWithoutText, Validate, Reply, Sent, parsing
  <1>2. StoreInv' /\ RecordsInv'
    BY <1>1 DEF StoreInv, RecordsInv
  <1>3. \A text : Found(text)' = Found(text)
    BY <1>1 DEF Found
  <1>4. CASE Lookup \/ LookupEmpty \/ LookupWithoutBody \/ LookupWithoutField
    <2>1. CASE Lookup
      <3>1. PICK w \in Written :
              answer' = [to |-> "lookup", what |-> w, certs |-> << >>,
                         status |-> IF Found(Text(w.cert, w.style)) THEN 200 ELSE 404]
        BY <2>1 DEF Lookup, Reply
      <3>2. answer'.what = w /\ answer'.to = "lookup"
            /\ answer'.status = IF Found(Text(w.cert, w.style)) THEN 200 ELSE 404
        BY <3>1
      <3>3. LookupAnswer(answer')
        BY <3>2 DEF LookupAnswer
      <3>4. LookupAnswer(answer)'
        BY <1>3, <3>3 DEF LookupAnswer
      <3> QED
        BY <1>2, <3>2, <3>4 DEF AnswerInv
    <2>2. CASE LookupEmpty
      <3>1. /\ answer'.to = "lookup" /\ answer'.what = Empty
            /\ answer'.status = IF Found(<< >>) THEN 200 ELSE 404
        BY <2>2 DEF LookupEmpty, Reply
      <3>2. LookupAnswer(answer)'
        BY <3>1 DEF LookupAnswer
      <3> QED
        BY <1>2, <3>1, <3>2 DEF AnswerInv
    <2>3. CASE LookupWithoutBody \/ LookupWithoutField
      <3>1. answer'.to = "lookup" /\ answer'.what = None /\ answer'.status \in {400, 404}
        BY <2>3 DEF LookupWithoutBody, LookupWithoutField, Reply
      <3>2. LookupAnswer(answer)'
        BY <3>1 DEF LookupAnswer
      <3> QED
        BY <1>2, <3>1, <3>2 DEF AnswerInv
    <2> QED
      BY <1>4, <2>1, <2>2, <2>3
  <1>5. CASE Chain
    <2>1. PICK f \in Chains : Validate("chain", f, ChainText(f.lead, f.certs, f.eol))
      BY <1>5 DEF Chain
    <2> DEFINE certs == DecodeAll(ChainCerts(ChainText(f.lead, f.certs, f.eol)))
    <2>2. /\ answer'.to = "chain" /\ answer'.what = f
          /\ IF Unreadable \in ToSet(certs) THEN answer'.status = 409
                                            ELSE answer'.status = None /\ answer'.certs = certs
      <3>1. IF Unreadable \in ToSet(certs) THEN Reply("chain", f, 409, << >>)
                                           ELSE Reply("chain", f, None, certs)
        BY <2>1 DEF Validate
      <3> HIDE DEF certs
      <3> QED
        BY <3>1 DEF Reply
    <2>3. ChainAnswer(answer)'
      BY <2>2 DEF ChainAnswer
    <2> QED
      BY <1>2, <2>2, <2>3 DEF AnswerInv
  <1>6. CASE ChainOfOne
    <2>1. answer'.to = "one" /\ answer'.status \in {None, 409}
      BY <1>6 DEF ChainOfOne, Validate, Reply
    <2> QED
      BY <1>2, <2>1 DEF AnswerInv
  <1>9. CASE ChainAsPkcs7
    <2>1. PICK eol \in {<<LF>>, <<CR, LF>>} : Validate("pkcs7", None, Pkcs7Text(eol))
      BY <1>9 DEF ChainAsPkcs7
    <2> DEFINE certs == DecodeAll(ChainCerts(Pkcs7Text(eol)))
    <2>2. answer'.to = "pkcs7" /\ (Unreadable \in ToSet(certs) => answer'.status = 409)
      <3>1. IF Unreadable \in ToSet(certs) THEN Reply("pkcs7", None, 409, << >>)
                                           ELSE Reply("pkcs7", None, None, certs)
        BY <2>1 DEF Validate
      <3> HIDE DEF certs
      <3> QED
        BY <3>1 DEF Reply
    <2>3. Pkcs7Answer(answer)'
      BY <2>2 DEF Pkcs7Answer
    <2> QED
      BY <1>2, <2>2, <2>3 DEF AnswerInv
  <1>7. CASE ChainWithoutText
    <2>1. answer'.to = "chain" /\ answer'.what = None /\ answer'.status = 400
      BY <1>7 DEF ChainWithoutText, Reply
    <2>2. ChainAnswer(answer)'
      BY <2>1 DEF ChainAnswer
    <2> QED
      BY <1>2, <2>1, <2>2 DEF AnswerInv
  <1>8. CASE Sent
    BY <1>2, <1>8 DEF Sent, AnswerInv
  <1> QED
    BY <1>4, <1>5, <1>6, <1>7, <1>8, <1>9 DEF Request

LEMMA NextInv ==
  ASSUME LookupInv, [Next]_vars
  PROVE  LookupInv'
  <1>1. CASE UNCHANGED vars
    BY <1>1 DEF vars, parsing, LookupInv, StoreInv, RecordsInv, AnswerInv, LookupAnswer,
                ChainAnswer, Pkcs7Answer, Found
  <1>2. CASE Next
    BY <1>2, ReadEidasInv, SaveRecordsInv, CsvStepInv, RequestInv DEF Next
  <1> QED
    BY <1>1, <1>2

LEMMA InvCorrect == Spec => []LookupInv
  <1> QED
    BY InitInv, NextInv, PTL DEF Spec

-----------------------------------------------------------------------------
(* SplitAtBegin *)

Begins(text) == {i \in DOMAIN text : text[i] = Begin}
Before(text, i) == Cardinality({j \in Begins(text) : j < i})
PartOf(text, k) == {i \in DOMAIN text \ Begins(text) : Before(text, i) = k - 1}

LEMMA BeginsFinite ==
  ASSUME NEW S, NEW text \in Seq(S)
  PROVE  /\ IsFiniteSet(Begins(text)) /\ Cardinality(Begins(text)) \in Nat
         /\ \A i : /\ Before(text, i) \in Nat
                   /\ Before(text, i) <= Cardinality(Begins(text))
  <1>1. IsFiniteSet(DOMAIN text)
    BY LenProperties, FS_Interval
  <1>2. IsFiniteSet(Begins(text))
    <2>1. Begins(text) \subseteq DOMAIN text
      BY DEF Begins
    <2> QED
      BY <1>1, <2>1, FS_Subset
  <1>3. ASSUME NEW i
        PROVE  /\ IsFiniteSet({j \in Begins(text) : j < i})
               /\ Before(text, i) <= Cardinality(Begins(text))
    <2>1. {j \in Begins(text) : j < i} \subseteq Begins(text)
      OBVIOUS
    <2> QED
      BY <1>2, <2>1, FS_Subset DEF Before
  <1> QED
    BY <1>2, <1>3, FS_CardinalityType DEF Before

LEMMA SplitIs ==
  ASSUME NEW S, NEW text \in Seq(S)
  PROVE  /\ SplitAtBegin(text) \in Seq(Seq(S))
         /\ Len(SplitAtBegin(text)) = Cardinality(Begins(text)) + 1
         /\ \A k \in 1 .. Cardinality(Begins(text)) + 1 :
              SplitAtBegin(text)[k] = KeptAt(text, PartOf(text, k))
  <1> DEFINE n == Cardinality(Begins(text)) + 1
  <1>1. SplitAtBegin(text) = [k \in 1 .. n |-> KeptAt(text, PartOf(text, k))]
    BY DEF SplitAtBegin, Begins, Before, PartOf
  <1>2. n \in Nat
    BY BeginsFinite
  <1>3. \A k : KeptAt(text, PartOf(text, k)) \in Seq(S)
    <2>1. \A i \in DOMAIN text : text[i] \in S
      BY LenProperties, ElementOfSeq
    <2> QED
      BY <2>1, KeptType
  <1> HIDE DEF n
  <1>4. [k \in 1 .. n |-> KeptAt(text, PartOf(text, k))] \in Seq(Seq(S))
    BY <1>2, <1>3
  <1>5. /\ SplitAtBegin(text) \in Seq(Seq(S)) /\ Len(SplitAtBegin(text)) = n
        /\ \A k \in 1 .. n : SplitAtBegin(text)[k] = KeptAt(text, PartOf(text, k))
    BY <1>1, <1>2, <1>4
  <1> QED
    BY <1>5 DEF n

\* No BEGIN line, no split ...
LEMMA SplitWithout ==
  ASSUME NEW S, NEW text \in Seq(S), Begin \notin S
  PROVE  /\ SplitAtBegin(text) \in Seq(Seq(S)) /\ Len(SplitAtBegin(text)) = 1
         /\ SplitAtBegin(text)[1] = text
  <1>1. Begins(text) = {}
    BY LenProperties, ElementOfSeq DEF Begins
  <1>2. Cardinality(Begins(text)) = 0 /\ \A i : Before(text, i) = 0
    <2>1. \A i : {j \in Begins(text) : j < i} = {}
      BY <1>1
    <2> QED
      BY <1>1, <2>1, FS_EmptySet DEF Before
  <1>3. \A i \in 1 .. Len(text) : i \in PartOf(text, 1)
    BY <1>1, <1>2, LenProperties DEF PartOf
  <1>4. KeptAt(text, PartOf(text, 1)) = text
    BY <1>3, KeptAll
  <1>5. 1 \in 1 .. Cardinality(Begins(text)) + 1 /\ Cardinality(Begins(text)) + 1 = 1
    BY <1>2
  <1>6. /\ SplitAtBegin(text) \in Seq(Seq(S))
        /\ Len(SplitAtBegin(text)) = Cardinality(Begins(text)) + 1
        /\ SplitAtBegin(text)[1] = KeptAt(text, PartOf(text, 1))
    BY <1>5, SplitIs
  <1> QED
    BY <1>4, <1>5, <1>6

\* ... and each BEGIN line adds what is behind it as a part.
LEMMA SplitNext ==
  ASSUME NEW s \in Seq(Tokens), NEW t \in Seq(Tokens \ {Begin})
  PROVE  /\ Append(s, Begin) \o t \in Seq(Tokens)
         /\ SplitAtBegin(Append(s, Begin) \o t) = Append(SplitAtBegin(s), t)
  <1>1. Begin \in Tokens
    BY TokenKinds
  <1>2. t \in Seq(Tokens) /\ \A i \in 1 .. Len(t) : t[i] # Begin
    <2>1. Tokens \ {Begin} \subseteq Tokens
      OBVIOUS
    <2> QED
      BY <2>1, SeqMonotonic, ElementOfSeq
  <1>3. PICK b \in Seq(Tokens) :
          /\ b = Append(s, Begin) /\ Len(b) = Len(s) + 1
          /\ \A i \in 1 .. Len(s) : b[i] = s[i]
          /\ b[Len(s) + 1] = Begin
    <2>1. /\ Append(s, Begin) \in Seq(Tokens) /\ Len(Append(s, Begin)) = Len(s) + 1
          /\ \A i \in 1 .. Len(s) : Append(s, Begin)[i] = s[i]
          /\ Append(s, Begin)[Len(s) + 1] = Begin
      BY <1>1, AppendProperties
    <2> QED
      BY <2>1, Zenon
  <1>4. PICK u \in Seq(Tokens) :
          /\ u = b \o t /\ Len(u) = Len(b) + Len(t)
          /\ \A i \in 1 .. Len(b) + Len(t) : u[i] = IF i <= Len(b) THEN b[i] ELSE t[i - Len(b)]
    <2>1. /\ b \o t \in Seq(Tokens) /\ Len(b \o t) = Len(b) + Len(t)
          /\ \A i \in 1 .. Len(b) + Len(t) :
               (b \o t)[i] = IF i <= Len(b) THEN b[i] ELSE t[i - Len(b)]
      BY <1>2, ConcatProperties
    <2> QED
      BY <2>1, Zenon
  <1>5. PICK n \in Nat, m \in Nat :
          /\ n = Len(s) /\ m = Len(t) /\ Len(b) = n + 1 /\ Len(u) = n + 1 + m
          /\ DOMAIN s = 1 .. n /\ DOMAIN t = 1 .. m /\ DOMAIN u = 1 .. n + 1 + m
    <2>1. Len(s) \in Nat /\ Len(t) \in Nat /\ DOMAIN s = 1 .. Len(s) /\ DOMAIN t = 1 .. Len(t)
      BY LenProperties
    <2>2. DOMAIN u = 1 .. Len(u)
      BY LenProperties
    <2> QED
      BY <1>3, <1>4, <2>1, <2>2
  <1>6. /\ \A i \in 1 .. n : u[i] = s[i]
        /\ u[n + 1] = Begin
        /\ \A i \in 1 .. m : u[n + 1 + i] # Begin
    <2>1. ASSUME NEW i \in 1 .. n PROVE u[i] = s[i]
      BY <1>3, <1>4, <1>5
    <2>2. u[n + 1] = Begin
      BY <1>3, <1>4, <1>5
    <2>3. ASSUME NEW i \in 1 .. m PROVE u[n + 1 + i] = t[i]
      BY <1>4, <1>5
    <2> QED
      BY <1>2, <1>5, <2>1, <2>2, <2>3
  <1>7. /\ Begins(u) = Begins(s) \cup {n + 1} /\ n + 1 \notin Begins(s)
        /\ Begins(s) \subseteq 1 .. n
    <2>1. \A i \in 1 .. n + 1 + m : i \in 1 .. n \/ i = n + 1 \/ \E j \in 1 .. m : i = n + 1 + j
      <3> SUFFICES ASSUME NEW i \in 1 .. n + 1 + m, i \notin 1 .. n, i # n + 1
                   PROVE  \E j \in 1 .. m : i = n + 1 + j
        OBVIOUS
      <3>1. i - (n + 1) \in 1 .. m /\ i = n + 1 + (i - (n + 1))
        BY <1>5
      <3> QED
        BY <3>1
    <2>2. \A i \in 1 .. n + 1 + m : u[i] = Begin <=> (i \in 1 .. n /\ s[i] = Begin) \/ i = n + 1
      BY <1>6, <2>1
    <2>3. 1 .. n \subseteq 1 .. n + 1 + m /\ n + 1 \in 1 .. n + 1 + m /\ n + 1 \notin 1 .. n
      OBVIOUS
    <2> QED
      BY <1>5, <2>2, <2>3 DEF Begins
  <1>8. PICK c \in Nat : c = Cardinality(Begins(s)) /\ Cardinality(Begins(u)) = c + 1
    <2>1. IsFiniteSet(Begins(s)) /\ Cardinality(Begins(s)) \in Nat
      BY BeginsFinite
    <2>2. Cardinality(Begins(s) \cup {n + 1}) = Cardinality(Begins(s)) + 1
      BY <1>7, <2>1, FS_AddElement
    <2> QED
      BY <1>7, <2>1, <2>2
  <1>9. /\ \A i \in 1 .. n : Before(u, i) = Before(s, i)
        /\ \A i \in 1 .. n : Before(s, i) <= c /\ Before(s, i) \in Nat
        /\ \A i \in 1 .. m : Before(u, n + 1 + i) = c + 1
    <2>1. ASSUME NEW i \in 1 .. n PROVE Before(u, i) = Before(s, i)
      <3>1. {j \in Begins(u) : j < i} = {j \in Begins(s) : j < i}
        BY <1>7
      <3> QED
        BY <3>1 DEF Before
    <2>2. ASSUME NEW i \in 1 .. m PROVE Before(u, n + 1 + i) = c + 1
      <3>1. {j \in Begins(u) : j < n + 1 + i} = Begins(u)
        BY <1>7
      <3> QED
        BY <1>8, <3>1 DEF Before
    <2> QED
      BY <1>8, <2>1, <2>2, BeginsFinite
  <1>10. \A k : KeptAt(u, PartOf(u, k))
                  = KeptAt(s, PartOf(u, k)) \o KeptAt(t, Shifted(PartOf(u, k), n + 1))
    <2> TAKE k
    <2>1. n + 1 \notin PartOf(u, k)
      BY <1>7 DEF PartOf
    <2> DEFINE is == PartOf(u, k)
    <2> HIDE DEF is
    <2>2. KeptAt(b \o t, is) = KeptAt(b, is) \o KeptAt(t, Shifted(is, Len(b)))
      BY <1>2, KeptConcat
    <2>3. KeptAt(Append(s, Begin), is)
            = KeptAt(s, is) \o (IF Len(s) + 1 \in is THEN <<Begin>> ELSE << >>)
      BY <1>1, KeptAppend
    <2>4. KeptAt(s, is) \in Seq(Tokens)
      <3>1. \A i \in DOMAIN s : s[i] \in Tokens
        BY LenProperties, ElementOfSeq
      <3> QED
        BY <3>1, KeptType
    <2>5. KeptAt(s, is) \o << >> = KeptAt(s, is)
      BY <2>4, ConcatEmptySeq
    <2>6. KeptAt(b, is) = KeptAt(s, is)
      <3>1. Len(s) + 1 \notin is
        BY <1>5, <2>1 DEF is
      <3> QED
        BY <1>3, <2>3, <2>5, <3>1, Zenon
    <2>7. KeptAt(u, is) = KeptAt(s, is) \o KeptAt(t, Shifted(is, n + 1))
      BY <1>4, <1>5, <2>2, <2>6, Zenon
    <2> QED
      BY <2>7 DEF is
  <1>11. ASSUME NEW k \in 1 .. c + 1 PROVE KeptAt(u, PartOf(u, k)) = KeptAt(s, PartOf(s, k))
    <2>1. \A i \in DOMAIN s : i \in PartOf(u, k) <=> i \in PartOf(s, k)
      <3> SUFFICES ASSUME NEW i \in 1 .. n PROVE i \in PartOf(u, k) <=> i \in PartOf(s, k)
        BY <1>5
      <3>1. i \in DOMAIN u /\ i \in DOMAIN s /\ (i \in Begins(u) <=> i \in Begins(s))
        BY <1>5, <1>7
      <3> QED
        BY <1>9, <3>1 DEF PartOf
    <2>2. \A i \in 1 .. Len(t) : i \notin Shifted(PartOf(u, k), n + 1)
      <3> SUFFICES ASSUME NEW i \in 1 .. m PROVE n + 1 + i \notin PartOf(u, k)
        BY <1>5 DEF Shifted
      <3>1. Before(u, n + 1 + i) # k - 1
        <4>1. k - 1 # c + 1
          OBVIOUS
        <4>2. Before(u, n + 1 + i) = c + 1
          BY <1>9
        <4> QED
          BY <4>1, <4>2
      <3> QED
        BY <3>1 DEF PartOf
    <2>3. KeptAt(t, Shifted(PartOf(u, k), n + 1)) = << >>
      BY <2>2, KeptNone
    <2>4. KeptAt(s, PartOf(u, k)) = KeptAt(s, PartOf(s, k))
      BY <2>1, KeptSame
    <2>5. KeptAt(s, PartOf(s, k)) \in Seq(Tokens)
      <3>1. \A i \in DOMAIN s : s[i] \in Tokens
        BY LenProperties, ElementOfSeq
      <3> QED
        BY <3>1, KeptType
    <2>6. KeptAt(s, PartOf(s, k)) \o << >> = KeptAt(s, PartOf(s, k))
      BY <2>5, ConcatEmptySeq
    <2> QED
      BY <1>10, <2>3, <2>4, <2>6, Zenon
  <1>12. KeptAt(u, PartOf(u, c + 2)) = t
    <2>1. \A i \in 1 .. Len(s) : i \notin PartOf(u, c + 2)
      <3> SUFFICES ASSUME NEW i \in 1 .. n PROVE i \notin PartOf(u, c + 2)
        BY <1>5
      <3>1. Before(u, i) # c + 2 - 1
        BY <1>9
      <3> QED
        BY <3>1 DEF PartOf
    <2>2. \A i \in 1 .. Len(t) : i \in Shifted(PartOf(u, c + 2), n + 1)
      <3> SUFFICES ASSUME NEW i \in 1 .. m PROVE n + 1 + i \in PartOf(u, c + 2)
        BY <1>5 DEF Shifted
      <3>1. n + 1 + i \in DOMAIN u /\ Before(u, n + 1 + i) = c + 2 - 1
        BY <1>5, <1>9
      <3>2. n + 1 + i \notin Begins(u)
        BY <1>6 DEF Begins
      <3> QED
        BY <3>1, <3>2 DEF PartOf
    <2>3. KeptAt(t, Shifted(PartOf(u, c + 2), n + 1)) = t
      BY <2>2, KeptAll
    <2>4. KeptAt(s, PartOf(u, c + 2)) = << >>
      BY <2>1, KeptNone
    <2>5. << >> \o t = t
      BY <1>2, ConcatEmptySeq
    <2> QED
      BY <1>10, <2>3, <2>4, <2>5, Zenon
  <1>13. PICK p \in Seq(Seq(Tokens)) :
           /\ p = SplitAtBegin(s) /\ Len(p) = c + 1
           /\ \A k \in 1 .. c + 1 : p[k] = KeptAt(s, PartOf(s, k))
    <2>1. /\ SplitAtBegin(s) \in Seq(Seq(Tokens)) /\ Len(SplitAtBegin(s)) = c + 1
          /\ \A k \in 1 .. c + 1 : SplitAtBegin(s)[k] = KeptAt(s, PartOf(s, k))
      BY <1>8, SplitIs
    <2> QED
      BY <2>1, Zenon
  <1>14. PICK q \in Seq(Seq(Tokens)) :
           /\ q = SplitAtBegin(u) /\ Len(q) = c + 2
           /\ \A k \in 1 .. c + 2 : q[k] = KeptAt(u, PartOf(u, k))
    <2>1. /\ SplitAtBegin(u) \in Seq(Seq(Tokens))
          /\ Len(SplitAtBegin(u)) = Cardinality(Begins(u)) + 1
          /\ \A k \in 1 .. Cardinality(Begins(u)) + 1 : SplitAtBegin(u)[k] = KeptAt(u, PartOf(u, k))
      BY SplitIs
    <2>2. Cardinality(Begins(u)) + 1 = c + 2
      BY <1>8
    <2> QED
      BY <2>1, <2>2, Zenon
  <1>15. /\ Append(p, t) \in Seq(Seq(Tokens)) /\ Len(Append(p, t)) = Len(p) + 1
         /\ \A k \in 1 .. Len(p) : Append(p, t)[k] = p[k]
         /\ Append(p, t)[Len(p) + 1] = t
    BY <1>2, AppendProperties
  <1>16. \A k \in 1 .. Len(q) : q[k] = Append(p, t)[k]
    <2> SUFFICES ASSUME NEW k \in 1 .. c + 2 PROVE q[k] = Append(p, t)[k]
      BY <1>14
    <2>1. CASE k = c + 2
      BY <1>12, <1>13, <1>14, <1>15, <2>1
    <2>2. CASE k \in 1 .. c + 1
      BY <1>11, <1>13, <1>14, <1>15, <2>2
    <2>3. k = c + 2 \/ k \in 1 .. c + 1
      OBVIOUS
    <2> QED
      BY <2>1, <2>2, <2>3
  <1>17. q = Append(p, t)
    <2>1. PICK r \in Seq(Seq(Tokens)) : r = Append(p, t)
      BY <1>15, Zenon
    <2>2. \A k \in 1 .. Len(q) : q[k] = r[k]
      BY <1>16, <2>1, Zenon
    <2>3. Len(q) = Len(r)
      BY <1>13, <1>14, <1>15, <2>1
    <2>4. q = r
      BY <2>2, <2>3, SeqEqual
    <2> QED
      BY <2>1, <2>4, Zenon
  <1> QED
    BY <1>3, <1>4, <1>13, <1>14, <1>17, Zenon

-----------------------------------------------------------------------------
(* What CertChainTransformPipe makes of the parts *)

Stripped(parts) == [k \in DOMAIN parts |-> StripPEMInfo(parts[k])]
CertTexts(parts) ==
  KeptAt(Stripped(parts), {k \in DOMAIN Stripped(parts) : LongerThanOne(Stripped(parts)[k])})

LEMMA ChainCertsIs ==
  ASSUME NEW text
  PROVE  ChainCerts(text) = CertTexts(SplitAtBegin(text))
  BY DEF ChainCerts, CertTexts, Stripped

LEMMA Longer ==
  /\ \A s \in Seq(White \cup {Quote}) : LongerThanOne(s) <=> Len(s) > 1
  /\ \A s \in Seq(Tokens) : DataOf(s) # << >> => LongerThanOne(s)
  <1>1. ASSUME NEW s \in Seq(White \cup {Quote}) PROVE LongerThanOne(s) <=> Len(s) > 1
    <2>1. \A i \in DOMAIN s : s[i] \in White \cup {Quote}
      BY LenProperties, ElementOfSeq
    <2> QED
      BY <2>1 DEF LongerThanOne
  <1>2. ASSUME NEW s \in Seq(Tokens), DataOf(s) # << >> PROVE LongerThanOne(s)
    <2>1. PICK i \in DOMAIN s : s[i] \in DataTokens
      <3> SUFFICES ASSUME \A i \in DOMAIN s : s[i] \notin DataTokens PROVE FALSE
        OBVIOUS
      <3>1. s \in Seq(Tokens \ DataTokens)
        BY LenProperties, ElementOfSeq
      <3>2. (Tokens \ DataTokens) \cap DataTokens = {}
        OBVIOUS
      <3> QED
        BY <1>2, <3>1, <3>2, OnlyNone DEF DataOf
    <2>2. s[i] \notin White \cup {Quote}
      BY <2>1, TokenKinds DEF White
    <2> QED
      BY <2>2 DEF LongerThanOne
  <1> QED
    BY <1>1, <1>2

\* The data of the parts are those certificates.
Says(parts, cs) ==
  /\ parts \in Seq(Seq(Tokens)) /\ cs \in Seq(Certs)
  /\ Len(parts) = Len(cs)
  /\ \A i \in 1 .. Len(cs) : DataOf(parts[i]) = Lines(cs[i], << >>)

LEMMA StrippedType ==
  ASSUME NEW parts \in Seq(Seq(Tokens))
  PROVE  /\ Stripped(parts) \in Seq(Seq(Tokens)) /\ Len(Stripped(parts)) = Len(parts)
         /\ \A i \in 1 .. Len(parts) : /\ Stripped(parts)[i] = StripPEMInfo(parts[i])
                                       /\ Stripped(parts)[i] \in Seq(Tokens \ {Begin, End})
                                       /\ DataOf(Stripped(parts)[i]) = DataOf(parts[i])
  <1>1. Len(parts) \in Nat /\ DOMAIN parts = 1 .. Len(parts)
    BY LenProperties
  <1>2. \A i \in 1 .. Len(parts) : /\ StripPEMInfo(parts[i]) \in Seq(Tokens)
                                   /\ StripPEMInfo(parts[i]) \in Seq(Tokens \ {Begin, End})
                                   /\ DataOf(StripPEMInfo(parts[i])) = DataOf(parts[i])
    <2> SUFFICES ASSUME NEW i \in 1 .. Len(parts)
                 PROVE  /\ StripPEMInfo(parts[i]) \in Seq(Tokens)
                        /\ StripPEMInfo(parts[i]) \in Seq(Tokens \ {Begin, End})
                        /\ DataOf(StripPEMInfo(parts[i])) = DataOf(parts[i])
      OBVIOUS
    <2>1. PICK text \in Seq(Tokens) : text = parts[i]
      BY ElementOfSeq
    <2>2. /\ StripPEMInfo(text) \in Seq(Tokens \ {LF, Begin, End})
          /\ DataOf(StripPEMInfo(text)) = DataOf(text)
      BY StripKeepsData
    <2>3. Tokens \ {LF, Begin, End} \subseteq Tokens /\ Tokens \ {LF, Begin, End} \subseteq Tokens \ {Begin, End}
      OBVIOUS
    <2>4. StripPEMInfo(text) \in Seq(Tokens) /\ StripPEMInfo(text) \in Seq(Tokens \ {Begin, End})
      BY <2>2, <2>3, SeqMonotonic
    <2> QED
      BY <2>1, <2>2, <2>4, Zenon
  <1>3. Stripped(parts) = [i \in 1 .. Len(parts) |-> StripPEMInfo(parts[i])]
    BY <1>1 DEF Stripped
  <1> QED
    BY <1>1, <1>2, <1>3

LEMMA StrippedDecodes ==
  ASSUME NEW parts, NEW cs, Says(parts, cs)
  PROVE  /\ DecodeAll(Stripped(parts)) = cs
         /\ \A i \in 1 .. Len(parts) : LongerThanOne(Stripped(parts)[i])
  <1>1. PICK r \in Seq(Seq(Tokens)) :
          /\ r = Stripped(parts) /\ Len(r) = Len(cs)
          /\ \A i \in 1 .. Len(cs) : /\ r[i] \in Seq(Tokens \ {Begin, End})
                                     /\ DataOf(r[i]) = Lines(cs[i], << >>)
    BY StrippedType DEF Says
  <1>2. cs \in Seq(Certs) /\ DOMAIN cs = 1 .. Len(cs) /\ DOMAIN r = 1 .. Len(cs) /\ Len(parts) = Len(cs)
    BY <1>1, LenProperties DEF Says
  <1>3. \A i \in 1 .. Len(cs) : cs[i] \in Certs
    BY <1>2, ElementOfSeq
  <1>4. ASSUME NEW i \in 1 .. Len(cs)
        PROVE  Decode(r[i]) = cs[i] /\ LongerThanOne(r[i])
    <2>1. Decode(r[i]) = cs[i]
      BY <1>1, <1>3, DecodeIsData
    <2>2. DataOf(r[i]) # << >> /\ r[i] \in Seq(Tokens)
      BY <1>1, <1>2, <1>3, LinesNotEmpty, ElementOfSeq
    <2> QED
      BY <2>1, <2>2, Longer
  <1>5. DecodeAll(r) = [i \in 1 .. Len(cs) |-> cs[i]]
    BY <1>2, <1>4 DEF DecodeAll
  <1>6. cs = [i \in 1 .. Len(cs) |-> cs[i]]
    BY <1>2
  <1> QED
    BY <1>1, <1>2, <1>4, <1>5, <1>6

\* A text that is all certificates ...
LEMMA AllCertTexts ==
  ASSUME NEW parts, NEW cs, Says(parts, cs)
  PROVE  DecodeAll(CertTexts(parts)) = cs
  <1>1. parts \in Seq(Seq(Tokens))
    BY DEF Says
  <1> DEFINE r == Stripped(parts)
             ks == {k \in DOMAIN r : LongerThanOne(r[k])}
  <1>2. r \in Seq(Seq(Tokens)) /\ Len(r) = Len(parts) /\ DOMAIN r = 1 .. Len(r)
    BY <1>1, StrippedType, LenProperties
  <1>3. \A i \in 1 .. Len(r) : i \in ks
    BY <1>2, StrippedDecodes
  <1>4. CertTexts(parts) = KeptAt(r, ks)
    BY DEF CertTexts
  <1>5. DecodeAll(r) = cs
    BY StrippedDecodes
  <1> HIDE DEF r, ks
  <1>6. KeptAt(r, ks) = r
    BY <1>2, <1>3, KeptAll
  <1> QED
    BY <1>4, <1>5, <1>6, Zenon

LEMMA KeptOne ==
  ASSUME NEW S, NEW e \in S, NEW is
  PROVE  KeptAt(<<e>>, is) = IF 1 \in is THEN <<e>> ELSE << >>
  <1>1. << >> \in Seq(S) /\ Append(<< >>, e) = <<e>> /\ Len(<< >>) = 0
    BY EmptySeq
  <1>2. KeptAt(Append(<< >>, e), is) = KeptAt(<< >>, is) \o (IF 1 \in is THEN <<e>> ELSE << >>)
    <2>1. PICK z \in Seq(S) : z = << >> /\ Len(z) + 1 = 1
      <3>1. Len(<< >>) + 1 = 1
        BY <1>1
      <3> QED
        BY <1>1, <3>1, Zenon
    <2>2. KeptAt(Append(z, e), is) = KeptAt(z, is) \o (IF Len(z) + 1 \in is THEN <<e>> ELSE << >>)
      BY KeptAppend
    <2> QED
      BY <2>1, <2>2, Zenon
  <1>3. (IF 1 \in is THEN <<e>> ELSE << >>) \in Seq(S)
    <2>1. << >> \in Seq(S) /\ <<e>> \in Seq(S)
      BY EmptySeq
    <2> QED
      BY <2>1
  <1>4. KeptAt(<<e>>, is) = << >> \o (IF 1 \in is THEN <<e>> ELSE << >>)
    BY <1>1, <1>2, KeptEmpty
  <1> QED
    BY <1>3, <1>4, ConcatEmptySeq

\* ... and one with something before the first of them.
LEMMA LeadCertTexts ==
  ASSUME NEW parts \in Seq(Seq(Tokens)), NEW cs \in Seq(Certs), Len(parts) = Len(cs) + 1,
         parts[1] \in Seq(White \cup {Quote}),
         \A i \in 1 .. Len(cs) : DataOf(parts[i + 1]) = Lines(cs[i], << >>)
  PROVE  IF Len(StripPEMInfo(parts[1])) <= 1
         THEN DecodeAll(CertTexts(parts)) = cs
         ELSE Unreadable \in ToSet(DecodeAll(CertTexts(parts)))
  <1>1. Len(cs) \in Nat /\ Len(parts) \in Nat /\ DOMAIN parts = 1 .. Len(cs) + 1
    BY LenProperties
  <1> DEFINE rest == [i \in 1 .. Len(cs) |-> parts[i + 1]]
  <1>2. /\ rest \in Seq(Seq(Tokens)) /\ Len(rest) = Len(cs)
        /\ \A i \in 1 .. Len(cs) : rest[i] = parts[i + 1]
    <2>1. \A i \in 1 .. Len(cs) : parts[i + 1] \in Seq(Tokens)
      BY <1>1, ElementOfSeq
    <2> QED
      BY <1>1, <2>1
  <1> HIDE DEF rest
  <1>3. Says(rest, cs)
    BY <1>2 DEF Says
  <1>4. PICK x \in Seq(Tokens) :
          /\ x = StripPEMInfo(parts[1]) /\ x \in Seq(Tokens \ {Begin, End})
          /\ x \in Seq(White \cup {Quote}) /\ DataOf(x) = << >>
    <2>1. PICK lead \in Seq(Tokens) : lead = parts[1]
      BY <1>1, ElementOfSeq
    <2>2. /\ StripPEMInfo(lead) \in Seq(Tokens \ {LF, Begin, End})
          /\ StripPEMInfo(lead) \in Seq(White \cup {Quote})
      BY <2>1, StripKeepsData
    <2>3. /\ Tokens \ {LF, Begin, End} \subseteq Tokens
          /\ Tokens \ {LF, Begin, End} \subseteq Tokens \ {Begin, End}
      OBVIOUS
    <2>4. StripPEMInfo(lead) \in Seq(Tokens) /\ StripPEMInfo(lead) \in Seq(Tokens \ {Begin, End})
      BY <2>2, <2>3, SeqMonotonic
    <2>5. (White \cup {Quote}) \cap DataTokens = {}
      BY TokenKinds DEF White
    <2>6. DataOf(StripPEMInfo(lead)) = << >>
      BY <2>2, <2>5, OnlyNone DEF DataOf
    <2> QED
      BY <2>1, <2>2, <2>4, <2>6
  <1>5. PICK r \in Seq(Seq(Tokens)) :
          /\ r = Stripped(rest) /\ Len(r) = Len(cs) /\ DecodeAll(r) = cs
          /\ \A i \in 1 .. Len(cs) : r[i] = StripPEMInfo(rest[i]) /\ LongerThanOne(r[i])
    <2>1. /\ Stripped(rest) \in Seq(Seq(Tokens)) /\ Len(Stripped(rest)) = Len(cs)
          /\ \A i \in 1 .. Len(cs) : Stripped(rest)[i] = StripPEMInfo(rest[i])
      BY <1>2, StrippedType
    <2>2. /\ DecodeAll(Stripped(rest)) = cs
          /\ \A i \in 1 .. Len(cs) : LongerThanOne(Stripped(rest)[i])
      BY <1>2, <1>3, StrippedDecodes
    <2> QED
      BY <2>1, <2>2, Zenon
  <1>6. PICK all \in Seq(Seq(Tokens)) :
          /\ all = Stripped(parts) /\ Len(all) = Len(cs) + 1
          /\ \A i \in 1 .. Len(cs) + 1 : all[i] = StripPEMInfo(parts[i])
    BY StrippedType
  <1>7. PICK one \in Seq(Seq(Tokens)) : one = <<x>> /\ Len(one) = 1 /\ one[1] = x
    BY OneSeq
  <1>8. /\ one \o r \in Seq(Seq(Tokens)) /\ Len(one \o r) = Len(cs) + 1
        /\ (one \o r)[1] = x
        /\ \A i \in 1 .. Len(cs) : (one \o r)[i + 1] = r[i]
    <2>1. /\ one \o r \in Seq(Seq(Tokens)) /\ Len(one \o r) = Len(one) + Len(r)
          /\ \A i \in 1 .. Len(one) + Len(r) :
               (one \o r)[i] = IF i <= Len(one) THEN one[i] ELSE r[i - Len(one)]
      BY ConcatProperties
    <2>2. \A i \in 1 .. Len(cs) : i + 1 \in 1 .. Len(one) + Len(r) /\ ~(i + 1 <= Len(one))
                                  /\ (i + 1) - Len(one) = i
      BY <1>1, <1>5, <1>7
    <2>3. \A i \in 1 .. Len(cs) : (one \o r)[i + 1] = r[i]
      BY <2>1, <2>2
    <2> QED
      BY <1>1, <1>5, <1>7, <2>1, <2>3
  <1>9. all = one \o r
    <2>1. \A i \in 1 .. Len(cs) + 1 : all[i] = (one \o r)[i]
      <3> SUFFICES ASSUME NEW i \in 1 .. Len(cs) + 1 PROVE all[i] = (one \o r)[i]
        OBVIOUS
      <3>1. CASE i = 1
        BY <1>4, <1>6, <1>8, <3>1
      <3>2. CASE i # 1
        <4>1. PICK j \in 1 .. Len(cs) : i = j + 1
          <5>1. i - 1 \in 1 .. Len(cs) /\ i = (i - 1) + 1
            BY <1>1, <3>2
          <5> QED
            BY <5>1
        <4> QED
          BY <1>2, <1>5, <1>6, <1>8, <4>1
      <3> QED
        BY <3>1, <3>2
    <2> QED
      BY <1>6, <1>8, <2>1, SeqEqual
  <1> DEFINE ks == {k \in DOMAIN all : LongerThanOne(all[k])}
  <1>10. CertTexts(parts) = KeptAt(all, ks)
    BY <1>6 DEF CertTexts
  <1>11. /\ DOMAIN all = 1 .. Len(cs) + 1
         /\ 1 \in ks <=> Len(x) > 1
         /\ \A i \in 1 .. Len(cs) : i \in Shifted(ks, 1)
    <2>1. DOMAIN all = 1 .. Len(cs) + 1
      BY <1>6, LenProperties
    <2>2. 1 \in 1 .. Len(cs) + 1 /\ all[1] = x
      BY <1>1, <1>8, <1>9
    <2>3. 1 \in ks <=> Len(x) > 1
      BY <1>4, <2>1, <2>2, Longer
    <2>4. ASSUME NEW i \in 1 .. Len(cs) PROVE i \in Shifted(ks, 1)
      <3>1. all[i + 1] = r[i]
        BY <1>8, <1>9
      <3>2. i + 1 \in DOMAIN all /\ 1 + i = i + 1 /\ i \in Nat
        BY <1>1, <2>1
      <3>3. LongerThanOne(all[i + 1])
        BY <1>5, <3>1
      <3> QED
        BY <3>2, <3>3 DEF Shifted
    <2> QED
      BY <2>1, <2>3, <2>4
  <1> HIDE DEF ks
  <1>12. KeptAt(all, ks) = KeptAt(one, ks) \o r
    <2>1. KeptAt(one \o r, ks) = KeptAt(one, ks) \o KeptAt(r, Shifted(ks, Len(one)))
      BY KeptConcat
    <2>2. KeptAt(r, Shifted(ks, 1)) = r
      BY <1>5, <1>11, KeptAll
    <2> QED
      BY <1>7, <1>9, <2>1, <2>2, Zenon
  <1>13. KeptAt(one, ks) = IF 1 \in ks THEN <<x>> ELSE << >>
    BY <1>7, KeptOne
  <1>14. Len(x) \in Nat
    BY LenProperties
  <1>15. CASE Len(x) <= 1
    <2>1. 1 \notin ks
      BY <1>11, <1>14, <1>15
    <2>2. << >> \o r = r
      BY ConcatEmptySeq
    <2>3. DecodeAll(CertTexts(parts)) = cs
      BY <1>5, <1>10, <1>12, <1>13, <2>1, <2>2, Zenon
    <2> QED
      BY <1>4, <1>15, <2>3
  <1>16. CASE Len(x) > 1
    <2>1. 1 \in ks
      BY <1>11, <1>16
    <2>2. CertTexts(parts) = all
      BY <1>7, <1>9, <1>10, <1>12, <1>13, <2>1, Zenon
    <2>3. Decode(x) = Unreadable
      BY <1>4, DecodeIsData
    <2>4. 1 \in DOMAIN all /\ all[1] = x
      BY <1>1, <1>8, <1>9, <1>11
    <2>5. Unreadable \in ToSet(DecodeAll(all))
      BY <2>3, <2>4 DEF DecodeAll, ToSet
    <2> QED
      BY <1>4, <1>14, <1>16, <2>2, <2>5
  <1> QED
    BY <1>14, <1>15, <1>16

-----------------------------------------------------------------------------
(* Tokens that stay *)

Has(text, e) == \E i \in DOMAIN text : text[i] = e

LEMMA HasConcat ==
  ASSUME NEW S, NEW s \in Seq(S), NEW t \in Seq(S), NEW e, Has(s, e) \/ Has(t, e)
  PROVE  s \o t \in Seq(S) /\ Has(s \o t, e)
  <1>1. /\ s \o t \in Seq(S) /\ Len(s \o t) = Len(s) + Len(t)
        /\ \A i \in 1 .. Len(s) + Len(t) :
             (s \o t)[i] = IF i <= Len(s) THEN s[i] ELSE t[i - Len(s)]
    BY ConcatProperties
  <1>2. PICK c \in Seq(S) : /\ c = s \o t /\ Len(c) = Len(s) + Len(t)
                            /\ \A i \in 1 .. Len(s) + Len(t) :
                                 c[i] = IF i <= Len(s) THEN s[i] ELSE t[i - Len(s)]
    BY <1>1, Zenon
  <1>3. /\ Len(s) \in Nat /\ DOMAIN s = 1 .. Len(s)
        /\ Len(t) \in Nat /\ DOMAIN t = 1 .. Len(t)
        /\ DOMAIN c = 1 .. Len(s) + Len(t)
    BY <1>2, LenProperties
  <1>4. CASE Has(s, e)
    <2>1. PICK i \in 1 .. Len(s) : s[i] = e
      BY <1>3, <1>4 DEF Has
    <2>2. i \in DOMAIN c /\ c[i] = e
      BY <1>2, <1>3, <2>1
    <2> QED
      BY <1>2, <2>2 DEF Has
  <1>5. CASE Has(t, e)
    <2>1. PICK i \in 1 .. Len(t) : t[i] = e
      BY <1>3, <1>5 DEF Has
    <2>2. Len(s) + i \in DOMAIN c /\ ~(Len(s) + i <= Len(s)) /\ (Len(s) + i) - Len(s) = i
      BY <1>3
    <2>3. c[Len(s) + i] = e
      BY <1>2, <1>3, <2>1, <2>2
    <2> QED
      BY <1>2, <2>2, <2>3 DEF Has
  <1> QED
    BY <1>2, <1>4, <1>5

LEMMA HasOne ==
  ASSUME NEW e
  PROVE  Has(<<e>>, e)
  <1>1. 1 \in DOMAIN <<e>> /\ <<e>>[1] = e
    OBVIOUS
  <1> QED
    BY <1>1 DEF Has

LEMMA HasKept ==
  ASSUME NEW S, NEW s \in Seq(S), NEW e, NEW is, Has(s, e),
         \A i \in DOMAIN s : s[i] = e => i \in is
  PROVE  Has(KeptAt(s, is), e)
  <1> DEFINE js == {i \in DOMAIN s : s[i] \in {e}}
  <1>1. /\ Only({e}, KeptAt(s, is)) = Only({e}, s)
        /\ IsFiniteSet({i \in DOMAIN s : i \in js})
        /\ Len(KeptAt(s, js)) = Cardinality({i \in DOMAIN s : i \in js})
    <2>1. \A i \in DOMAIN s : s[i] \in {e} => i \in is
      OBVIOUS
    <2>2. Only({e}, KeptAt(s, is)) = Only({e}, s)
      BY <2>1, OnlyIn
    <2> QED
      BY <2>2, KeptLen
  <1>2. Len(Only({e}, s)) # 0
    <2>1. {i \in DOMAIN s : i \in js} # {}
      BY DEF Has
    <2>2. Cardinality({i \in DOMAIN s : i \in js}) # 0
      BY <1>1, <2>1, FS_EmptySet
    <2> QED
      BY <1>1, <2>2 DEF Only
  <1>3. PICK k \in Seq(S) : k = KeptAt(s, is)
    <2>1. \A i \in DOMAIN s : s[i] \in S
      BY LenProperties, ElementOfSeq
    <2> QED
      BY <2>1, KeptType
  <1>4. CASE ~Has(k, e)
    <2> DEFINE ks == {i \in DOMAIN k : k[i] \in {e}}
    <2>1. \A i \in 1 .. Len(k) : i \notin ks
      BY <1>4 DEF Has
    <2>2. KeptAt(k, ks) = << >>
      <3> HIDE DEF ks
      <3> QED
        BY <2>1, KeptNone
    <2>3. Only({e}, k) = << >>
      BY <2>2 DEF Only
    <2>4. Len(<< >>) = 0
      OBVIOUS
    <2> QED
      BY <1>1, <1>2, <1>3, <2>3, <2>4
  <1> QED
    BY <1>3, <1>4

LEMMA SubSeqAt ==
  ASSUME NEW s, NEW m \in Int, NEW n \in Int
  PROVE  \A i \in 1 .. n - m + 1 : SubSeq(s, m, n)[i] = s[m + i - 1]
  OBVIOUS

LEMMA HasTrim ==
  ASSUME NEW S, NEW text \in Seq(S), NEW e, e \notin White, Has(text, e)
  PROVE  Has(Trim(text), e)
  <1>1. PICK k \in DOMAIN text : text[k] = e
    BY DEF Has
  <1>2. PICK m \in DOMAIN text, n \in DOMAIN text : Solid(text, m, n)
    BY <1>1, SolidExists
  <1>3. Trim(text) = SubSeq(text, m, n)
    BY <1>2, TrimIs
  <1>4. /\ DOMAIN text = 1 .. Len(text) /\ Len(text) \in Nat
        /\ m <= k /\ k <= n
    BY <1>1, <1>2, LenProperties DEF Solid
  <1>5. m \in Int /\ n \in Int /\ k \in Int /\ n - m + 1 \in Nat
        /\ k - m + 1 \in 1 .. n - m + 1 /\ m + (k - m + 1) - 1 = k
    BY <1>4
  <1>6. /\ SubSeq(text, m, n) \in Seq(S) /\ Len(SubSeq(text, m, n)) = n - m + 1
        /\ \A i \in 1 .. n - m + 1 : SubSeq(text, m, n)[i] = text[m + i - 1]
    <2>1. \A i \in m .. n : text[i] \in S
      BY <1>4, <1>5, ElementOfSeq
    <2>2. m <= n
      BY <1>4, <1>5
    <2>3. /\ SubSeq(text, m, n) \in Seq(S)
          /\ Len(SubSeq(text, m, n)) = IF m <= n THEN n - m + 1 ELSE 0
      BY <1>5, <2>1, SubSeqProperties
    <2>4. \A i \in 1 .. n - m + 1 : SubSeq(text, m, n)[i] = text[m + i - 1]
      BY <1>5, SubSeqAt, Zenon
    <2> QED
      BY <2>2, <2>3, <2>4
  <1>7. SubSeq(text, m, n)[k - m + 1] = text[k]
    BY <1>5, <1>6
  <1>8. k - m + 1 \in DOMAIN SubSeq(text, m, n)
    BY <1>5, <1>6, LenProperties
  <1> QED
    BY <1>1, <1>3, <1>7, <1>8 DEF Has

\* A text with PEM lines keeps its BEGIN line when it is trimmed.
LEMMA PemHasBegin ==
  ASSUME NEW c \in Certs, NEW style \in {"pem", "crlf", "quoted"}
  PROVE  Has(Trim(Text(c, style)), Begin)
  <1>1. PICK b \in Seq(Tokens), e \in Seq(Tokens), q \in Seq(Tokens) :
          b = <<Begin>> /\ e = <<End>> /\ q = <<Quote>>
    <2>1. <<Begin>> \in Seq(Tokens) /\ <<End>> \in Seq(Tokens) /\ <<Quote>> \in Seq(Tokens)
      BY TokenKinds, OneSeq
    <2> QED
      BY <2>1, Zenon
  <1>0. \A s, t \in Seq(Tokens) :
          Has(s, Begin) \/ Has(t, Begin) => s \o t \in Seq(Tokens) /\ Has(s \o t, Begin)
    BY HasConcat
  <1>2. Has(b, Begin)
    BY <1>1, HasOne
  <1>3. ASSUME NEW eol \in Seq(White)
        PROVE  Pem(c, eol) \in Seq(Tokens) /\ Has(Pem(c, eol), Begin)
    <2>1. White \subseteq Tokens
      BY DEF Tokens
    <2>2. eol \in Seq(Tokens)
      BY <2>1, SeqMonotonic
    <2>3. PICK lines \in Seq(Tokens) : lines = Lines(c, eol)
      BY <1>3, LinesData
    <2>4. PICK s \in Seq(Tokens) : s = b \o eol /\ Has(s, Begin)
      BY <1>0, <1>2, <2>2, Zenon
    <2>5. PICK t \in Seq(Tokens) : t = s \o lines /\ Has(t, Begin)
      BY <1>0, <2>4, Zenon
    <2>6. PICK u \in Seq(Tokens) : u = t \o eol /\ Has(u, Begin)
      BY <1>0, <2>2, <2>5, Zenon
    <2>7. u \o e \in Seq(Tokens) /\ Has(u \o e, Begin)
      BY <1>0, <2>6, Zenon
    <2>8. Pem(c, eol) = u \o e
      BY <1>1, <2>3, <2>4, <2>5, <2>6, Zenon DEF Pem
    <2> QED
      BY <2>7, <2>8, Zenon
  <1>4. Begin \notin White
    BY TokensDiffer DEF White
  <1>5. CASE style \in {"pem", "crlf"}
    <2>1. PICK eol \in Seq(White) : Text(c, style) = Pem(c, eol)
      BY <1>5, WhiteTexts DEF Text
    <2> QED
      BY <1>3, <1>4, <2>1, HasTrim
  <1>6. CASE style = "quoted"
    <2>1. PICK p \in Seq(Tokens) : p = Pem(c, <<LF>>) /\ Has(p, Begin)
      BY <1>3, WhiteTexts, Zenon
    <2>2. PICK s \in Seq(Tokens) : s = q \o p /\ Has(s, Begin)
      BY <1>0, <2>1, Zenon
    <2>3. PICK t \in Seq(Tokens) : t = s \o q /\ Has(t, Begin)
      BY <1>0, <2>2, Zenon
    <2>4. Text(c, style) = t
      <3>1. Text(c, style) = (<<Quote>> \o Pem(c, <<LF>>)) \o <<Quote>>
        BY <1>6 DEF Text
      <3> QED
        BY <1>1, <2>1, <2>2, <2>3, <3>1, Zenon
    <2> QED
      BY <1>4, <2>3, <2>4, HasTrim
  <1> QED
    BY <1>5, <1>6

\* A PKCS7 file is one part, which keeps its container and so is too long to be
\* filtered, and nothing in it is the data of a certificate.
LEMMA Pkcs7Unreadable ==
  ASSUME NEW eol \in {<<LF>>, <<CR, LF>>}
  PROVE  Unreadable \in ToSet(DecodeAll(ChainCerts(Pkcs7Text(eol))))
  <1> DEFINE S == {BeginPkcs7, EndPkcs7, Container, CR, LF}
  <1>1. /\ Begin \notin S /\ S \cap DataTokens = {}
        /\ Container \notin White \cup {Quote, Begin, End, BeginPkcs7, EndPkcs7}
    <2>1. ASSUME NEW c, NEW h
          PROVE  Data(c, h) \notin S
      BY DEF Data, LF, CR, BeginPkcs7, EndPkcs7, Container
    <2>2. Begin \notin S
      BY DEF LF, CR, Begin, BeginPkcs7, EndPkcs7, Container
    <2>3. Container \notin White \cup {Quote, Begin, End, BeginPkcs7, EndPkcs7}
      BY DEF White, LF, CR, SP, Quote, Begin, End, BeginPkcs7, EndPkcs7, Container
    <2> HIDE DEF S
    <2> QED
      BY <2>1, <2>2, <2>3 DEF DataTokens
  <1>2. PICK text \in Seq(S) : text = Pkcs7Text(eol) /\ Has(text, Container)
    <2>1. eol \in Seq(S)
      <3>1. \A x, y \in S : <<x>> \in Seq(S) /\ <<x, y>> \in Seq(S)
        OBVIOUS
      <3>2. LF \in S /\ CR \in S
        OBVIOUS
      <3> HIDE DEF S
      <3> QED
        BY <3>1, <3>2
    <2>2. PICK b \in Seq(S), m \in Seq(S), e \in Seq(S) :
            b = <<BeginPkcs7>> /\ m = <<Container>> /\ e = <<EndPkcs7>>
      <3>1. BeginPkcs7 \in S /\ Container \in S /\ EndPkcs7 \in S
        OBVIOUS
      <3> HIDE DEF S
      <3>2. <<BeginPkcs7>> \in Seq(S) /\ <<Container>> \in Seq(S) /\ <<EndPkcs7>> \in Seq(S)
        BY <3>1, OneSeq
      <3> QED
        BY <3>2, Zenon
    <2> HIDE DEF S
    <2>0. \A s, t \in Seq(S) : /\ s \o t \in Seq(S)
                               /\ Has(s, Container) \/ Has(t, Container) => Has(s \o t, Container)
      BY HasConcat, ConcatProperties
    <2>9. Has(m, Container)
      BY <2>2, HasOne
    <2>3. PICK s \in Seq(S) : s = b \o eol
      BY <2>0, <2>1, <2>2, Zenon
    <2>4. PICK t \in Seq(S) : t = s \o m /\ Has(t, Container)
      BY <2>0, <2>2, <2>9, Zenon
    <2>5. PICK u \in Seq(S) : u = t \o eol /\ Has(u, Container)
      BY <2>0, <2>1, <2>4, Zenon
    <2>6. PICK v \in Seq(S) : v = u \o e /\ Has(v, Container)
      BY <2>0, <2>2, <2>5, Zenon
    <2>7. PICK w \in Seq(S) : w = v \o eol /\ Has(w, Container)
      BY <2>0, <2>1, <2>6, Zenon
    <2>8. w = Pkcs7Text(eol)
      BY <2>2, <2>3, <2>4, <2>5, <2>6, <2>7, Zenon DEF Pkcs7Text
    <2> QED
      BY <2>7, <2>8
  <1> HIDE DEF S
  <1>3. PICK split \in Seq(Seq(S)) : split = SplitAtBegin(text) /\ Len(split) = 1 /\ split[1] = text
    BY <1>1, SplitWithout
  <1> DEFINE kept == {i \in DOMAIN text : text[i] # LF /\ ~AtMark(text, i)}
  <1>4. PICK t \in Seq(S) : t = StripPEMInfo(text) /\ Has(t, Container)
    <2>1. \A i \in DOMAIN text : text[i] = Container => i \in kept
      <3> SUFFICES ASSUME NEW i \in DOMAIN text, text[i] = Container, AtMark(text, i)
                   PROVE  FALSE
        BY <1>1 DEF White
      <3>1. PICK j \in DOMAIN text :
              /\ text[j] \in {Begin, End, BeginPkcs7, EndPkcs7}
              /\ \A k \in (i .. j - 1) \cup (j + 1 .. i) : text[k] = Quote
        BY DEF AtMark
      <3>2. i # j /\ text[i] # Quote
        BY <1>1, <3>1
      <3>3. i \in (i .. j - 1) \cup (j + 1 .. i)
        BY <3>2, LenProperties
      <3> QED
        BY <3>1, <3>2, <3>3
    <2>2. \A i \in DOMAIN text : text[i] \in S
      BY LenProperties, ElementOfSeq
    <2> HIDE DEF kept
    <2>3. KeptAt(text, kept) \in Seq(S) /\ Has(KeptAt(text, kept), Container)
      BY <1>2, <2>1, <2>2, KeptType, HasKept
    <2> QED
      BY <2>3 DEF StripPEMInfo, kept
  <1>5. LongerThanOne(t)
    <2>1. PICK i \in DOMAIN t : t[i] = Container
      BY <1>4 DEF Has
    <2> QED
      BY <1>1, <2>1 DEF LongerThanOne
  <1> DEFINE stripped == [k \in DOMAIN split |-> StripPEMInfo(split[k])]
             long == {k \in DOMAIN stripped : LongerThanOne(stripped[k])}
  <1>6. stripped = <<t>> /\ 1 \in DOMAIN stripped /\ stripped[1] = t
    <2>1. DOMAIN split = 1 .. 1
      BY <1>3, LenProperties
    <2>2. \A k \in 1 .. 1 : StripPEMInfo(split[k]) = t
      BY <1>3, <1>4
    <2>3. stripped = [k \in 1 .. 1 |-> t]
      BY <2>1, <2>2
    <2> QED
      BY <2>3
  <1>7. ChainCerts(text) = <<t>>
    <2>1. 1 \in long
      BY <1>5, <1>6
    <2>2. ChainCerts(text) = KeptAt(stripped, long)
      BY <1>3 DEF ChainCerts
    <2> HIDE DEF stripped, long
    <2>3. KeptAt(<<t>>, long) = <<t>>
      BY <2>1, KeptOne
    <2> QED
      BY <1>6, <2>2, <2>3, Zenon
  <1>8. Decode(t) = Unreadable
    <2> DEFINE is == {i \in DOMAIN t : t[i] \notin White \cup {Quote}}
               matches == {c \in Certs : IsPrefix(Lines(c, << >>), KeptAt(t, is))}
    <2>1. PICK base64 \in Seq(S) : base64 = KeptAt(t, is)
      <3>1. \A i \in DOMAIN t : t[i] \in S
        BY LenProperties, ElementOfSeq
      <3> HIDE DEF is
      <3> QED
        BY <3>1, KeptType
    <2>2. ASSUME NEW c \in Certs, IsPrefix(Lines(c, << >>), base64) PROVE FALSE
      <3>1. PICK x \in DataTokens, y \in DataTokens : x = Data(c, 1) /\ y = Data(c, 2)
        BY DEF DataTokens
      <3>2. Lines(c, << >>) = <<x, y>>
        BY <3>1, LinesIs
      <3>3. Len(<<x, y>>) = 2 /\ SubSeq(<<x, y>>, 1, 2)[1] = x
        <4>1. <<x, y>> \in Seq({x, y}) /\ Len(<<x, y>>) = 2 /\ <<x, y>>[1] = x
          OBVIOUS
        <4>2. SubSeq(<<x, y>>, 1, Len(<<x, y>>)) = <<x, y>>
          BY <4>1, SubSeqFull
        <4> QED
          BY <4>1, <4>2
      <3>4. Len(base64) >= 2 /\ SubSeq(base64, 1, 2) = SubSeq(<<x, y>>, 1, 2)
        BY <2>2, <3>2, <3>3 DEF IsPrefix
      <3>5. SubSeq(base64, 1, 2)[1] = base64[1] /\ base64[1] \in S
        BY <3>4, LenProperties, ElementOfSeq
      <3> QED
        BY <1>1, <3>1, <3>3, <3>4, <3>5
    <2>3. matches = {}
      BY <2>1, <2>2
    <2>4. Decode(t) = IF matches = {} THEN Unreadable ELSE CHOOSE c \in matches : TRUE
      BY DEF Decode
    <2> QED
      BY <2>3, <2>4
  <1>9. Unreadable \in ToSet(DecodeAll(<<t>>))
    <2>1. 1 \in DOMAIN DecodeAll(<<t>>) /\ DecodeAll(<<t>>)[1] = Unreadable
      BY <1>8 DEF DecodeAll
    <2> QED
      BY <2>1 DEF ToSet
  <1> QED
    BY <1>2, <1>7, <1>9

-----------------------------------------------------------------------------
(* The texts that are sent *)

\* What is behind the BEGIN line of a certificate.
Body(c, eol) == ((eol \o Lines(c, eol)) \o eol) \o <<End>>

LEMMA BodyData ==
  ASSUME NEW c \in Certs, NEW eol \in Seq(White)
  PROVE  /\ Body(c, eol) \in Seq(Tokens \ {Begin})
         /\ DataOf(Body(c, eol)) = Lines(c, << >>)
         /\ Pem(c, eol) = <<Begin>> \o Body(c, eol)
  <1> DEFINE NB == Tokens \ {Begin}
  <1>1. \A s \in Seq(White) : s \in Seq(NB) /\ s \in Seq(Tokens \ DataTokens)
    <2>1. White \subseteq NB
      BY TokenKinds, TokensDiffer DEF White
    <2> QED
      BY <2>1, SeqMonotonic, WhiteTexts
  <1>2. \A e \in DataTokens \cup {End} : e \in NB
    BY TokenKinds, TokensDiffer
  <1>3. \A e \in NB : <<e>> \in Seq(NB)
    BY OneSeq
  <1>4. \A s, t \in Seq(NB) : s \o t \in Seq(NB)
    BY ConcatProperties
  <1>5. PICK lines \in Seq(NB) : lines = Lines(c, eol)
    <2>1. PICK x \in NB, y \in NB : x = Data(c, 1) /\ y = Data(c, 2)
      <3>1. Data(c, 1) \in DataTokens /\ Data(c, 2) \in DataTokens
        BY DEF DataTokens
      <3> QED
        BY <1>2, <3>1
    <2>2. (<<x>> \o eol) \o <<y>> \in Seq(NB)
      <3> HIDE DEF NB
      <3>1. <<x>> \in Seq(NB) /\ <<y>> \in Seq(NB) /\ eol \in Seq(NB)
        BY <1>1, <1>3, Zenon
      <3>2. <<x>> \o eol \in Seq(NB)
        BY <1>4, <3>1, Zenon
      <3> QED
        BY <1>4, <3>1, <3>2, Zenon
    <2> QED
      BY <2>1, <2>2, Zenon DEF Lines
  <1>6. PICK end \in Seq(NB) : end = <<End>> /\ end \in Seq(Tokens \ DataTokens)
    <2>1. <<End>> \in Seq(NB)
      BY <1>2, <1>3
    <2> QED
      BY <2>1, WhiteTexts
  <1>7. PICK nl \in Seq(NB) : nl = eol /\ nl \in Seq(Tokens \ DataTokens)
    BY <1>1
  <1>8. PICK begin \in Seq(Tokens) : begin = <<Begin>>
    BY TokenKinds, OneSeq
  <1>9. ((nl \o lines) \o nl) \o end \in Seq(NB)
    <2> HIDE DEF NB
    <2>1. nl \o lines \in Seq(NB)
      BY <1>4, Zenon
    <2>2. (nl \o lines) \o nl \in Seq(NB)
      BY <1>4, <2>1, Zenon
    <2> QED
      BY <1>4, <2>2, Zenon
  <1>10. DataOf(((nl \o lines) \o nl) \o end) = Lines(c, << >>)
    <2>1. lines \in Seq(Tokens) /\ DataOf(lines) = Lines(c, << >>)
      BY <1>5, LinesData
    <2>2. PICK p \in Seq(Tokens) : p = nl \o lines /\ DataOf(p) = DataOf(lines)
      BY <1>7, <2>1, DataAround
    <2>3. PICK q \in Seq(Tokens) : q = p \o nl /\ DataOf(q) = DataOf(p)
      BY <1>7, DataAround
    <2>4. DataOf(q \o end) = DataOf(q)
      BY <1>6, DataAround
    <2> QED
      BY <2>1, <2>2, <2>3, <2>4, Zenon
  <1>11. (((begin \o nl) \o lines) \o nl) \o end = begin \o (((nl \o lines) \o nl) \o end)
    <2>1. nl \in Seq(Tokens) /\ lines \in Seq(Tokens) /\ end \in Seq(Tokens)
      <3>1. NB \subseteq Tokens
        OBVIOUS
      <3> QED
        BY <3>1, SeqMonotonic
    <2>2. nl \o lines \in Seq(Tokens) /\ (nl \o lines) \o nl \in Seq(Tokens)
      BY <2>1, ConcatProperties
    <2> HIDE DEF NB
    <2>3. (begin \o nl) \o lines = begin \o (nl \o lines)
      <3>1. Associates(begin, nl, lines)
        BY <2>1, TextsAssociate, Zenon
      <3> QED
        BY <3>1 DEF Associates
    <2>4. (begin \o (nl \o lines)) \o nl = begin \o ((nl \o lines) \o nl)
      <3>1. Associates(begin, nl \o lines, nl)
        BY <2>1, <2>2, TextsAssociate, Zenon
      <3> QED
        BY <3>1 DEF Associates
    <2>5. (begin \o ((nl \o lines) \o nl)) \o end = begin \o (((nl \o lines) \o nl) \o end)
      <3>1. Associates(begin, (nl \o lines) \o nl, end)
        BY <2>1, <2>2, TextsAssociate, Zenon
      <3> QED
        BY <3>1 DEF Associates
    <2> QED
      BY <2>3, <2>4, <2>5, Zenon
  <1>12. /\ Body(c, eol) = ((nl \o lines) \o nl) \o end
         /\ Pem(c, eol) = (((begin \o nl) \o lines) \o nl) \o end
    BY <1>5, <1>6, <1>7, <1>8, Zenon DEF Body, Pem
  <1> QED
    BY <1>8, <1>9, <1>10, <1>11, <1>12, Zenon

\* The first part is the lead, the others are behind the BEGIN lines.
LEMMA ChainParts ==
  ASSUME NEW lead \in Seq(White), NEW certs \in Seq(Certs), NEW eol \in Seq(White)
  PROVE  LET parts == SplitAtBegin(ChainText(lead, certs, eol))
         IN /\ parts \in Seq(Seq(Tokens)) /\ Len(parts) = Len(certs) + 1
            /\ parts[1] = lead
            /\ \A i \in 1 .. Len(certs) : DataOf(parts[i + 1]) = Lines(certs[i], << >>)
  <1> DEFINE Pems(cs) == [i \in DOMAIN cs |-> Pem(cs[i], eol) \o eol]
             Parts(cs) == SplitAtBegin(ChainText(lead, cs, eol))
             P == {cs \in Seq(Certs) :
                     /\ Pems(cs) \in Seq(Seq(Tokens))
                     /\ ChainText(lead, cs, eol) \in Seq(Tokens)
                     /\ Parts(cs) \in Seq(Seq(Tokens)) /\ Len(Parts(cs)) = Len(cs) + 1
                     /\ Parts(cs)[1] = lead
                     /\ \A i \in 1 .. Len(cs) : DataOf(Parts(cs)[i + 1]) = Lines(cs[i], << >>)}
  <1>1. \A cs : ChainText(lead, cs, eol) = lead \o FlattenSeq(Pems(cs))
    BY DEF ChainText
  <1>2. lead \in Seq(Tokens) /\ eol \in Seq(Tokens)
    <2>1. White \subseteq Tokens
      BY DEF Tokens
    <2> QED
      BY <2>1, SeqMonotonic
  <1>3. << >> \in P
    <2>1. Pems(<< >>) = << >>
      OBVIOUS
    <2>2. << >> \in Seq(Seq(Tokens)) /\ << >> \in Seq(Certs) /\ Len(<< >>) = 0
      BY EmptySeq
    <2>3. ChainText(lead, << >>, eol) = lead
      <3> HIDE DEF P, Pems, Parts
      <3>1. lead \o << >> = lead
        BY ConcatEmptySeq
      <3>2. ChainText(lead, << >>, eol) = lead \o FlattenSeq(Pems(<< >>))
        BY <1>1
      <3> QED
        BY <2>1, <3>1, <3>2, FlattenEmpty, Zenon
    <2>4. /\ SplitAtBegin(lead) \in Seq(Seq(White)) /\ Len(SplitAtBegin(lead)) = 1
          /\ SplitAtBegin(lead)[1] = lead
      <3>1. Begin \notin White
        BY TokensDiffer DEF White
      <3> QED
        BY <3>1, SplitWithout
    <2>5. SplitAtBegin(lead) \in Seq(Seq(Tokens))
      BY <1>2, SplitIs
    <2>6. /\ Pems(<< >>) \in Seq(Seq(Tokens)) /\ ChainText(lead, << >>, eol) \in Seq(Tokens)
          /\ Parts(<< >>) \in Seq(Seq(Tokens)) /\ Len(Parts(<< >>)) = Len(<< >>) + 1
          /\ Parts(<< >>)[1] = lead
      BY <1>2, <2>1, <2>2, <2>3, <2>4, <2>5
    <2> HIDE DEF Pems, Parts
    <2> QED
      BY <2>2, <2>6
  <1>4. ASSUME NEW cs \in Seq(Certs), NEW c \in Certs, cs \in P PROVE Append(cs, c) \in P
    <2> DEFINE n == Len(cs)
    <2>1. PICK ds \in Seq(Certs) :
            /\ ds = Append(cs, c) /\ Len(ds) = n + 1 /\ n \in Nat
            /\ DOMAIN ds = 1 .. n + 1 /\ DOMAIN cs = 1 .. n
            /\ \A i \in 1 .. n : ds[i] = cs[i]
            /\ ds[n + 1] = c
      <3> HIDE DEF P
      <3>1. /\ Append(cs, c) \in Seq(Certs) /\ Len(Append(cs, c)) = n + 1
            /\ \A i \in 1 .. n : Append(cs, c)[i] = cs[i]
            /\ Append(cs, c)[n + 1] = c
        BY AppendProperties
      <3>2. n \in Nat /\ DOMAIN cs = 1 .. n /\ DOMAIN Append(cs, c) = 1 .. n + 1
        BY <3>1, LenProperties
      <3> QED
        BY <3>1, <3>2, Zenon
    <2>2. PICK body \in Seq(Tokens \ {Begin}) :
            /\ body = Body(c, eol) \o eol
            /\ DataOf(body) = Lines(c, << >>)
            /\ Pem(c, eol) \o eol = <<Begin>> \o body
      <3> HIDE DEF P, Pems, Parts
      <3>1. PICK b \in Seq(Tokens \ {Begin}) :
              b = Body(c, eol) /\ DataOf(b) = Lines(c, << >>) /\ Pem(c, eol) = <<Begin>> \o b
        BY BodyData
      <3>2. eol \in Seq(Tokens \ {Begin})
        <4>1. White \subseteq Tokens \ {Begin}
          BY TokenKinds, TokensDiffer DEF White
        <4> QED
          BY <4>1, SeqMonotonic
      <3>3. b \o eol \in Seq(Tokens \ {Begin})
        BY <3>2, ConcatProperties
      <3>4. b \in Seq(Tokens) /\ <<Begin>> \in Seq(Tokens)
        <4>1. Tokens \ {Begin} \subseteq Tokens /\ Begin \in Tokens
          BY TokenKinds
        <4> QED
          BY <4>1, SeqMonotonic, OneSeq
      <3>5. DataOf(b \o eol) = DataOf(b)
        <4>1. eol \in Seq(Tokens \ DataTokens)
          BY WhiteTexts
        <4> QED
          BY <3>4, <4>1, DataAround
      <3>6. (<<Begin>> \o b) \o eol = <<Begin>> \o (b \o eol)
        <4>1. Associates(<<Begin>>, b, eol)
          BY <1>2, <3>4, TextsAssociate, Zenon
        <4> QED
          BY <4>1 DEF Associates
      <3> QED
        BY <3>1, <3>3, <3>5, <3>6, Zenon
    <2>3. PICK pem \in Seq(Tokens) : pem = Pem(c, eol) \o eol
      <3>1. Pem(c, eol) \in Seq(Tokens)
        BY PemData
      <3> QED
        BY <1>2, <3>1, ConcatProperties
    <2>4. PICK pems \in Seq(Seq(Tokens)) : pems = Pems(cs) /\ Len(pems) = n
      <3>1. Pems(cs) \in Seq(Seq(Tokens))
        BY <1>4
      <3>2. Len(Pems(cs)) = n
        BY <2>1, <3>1
      <3> QED
        BY <3>1, <3>2, Zenon
    <2>5. Pems(ds) = Append(pems, pem)
      <3> HIDE DEF P, Parts
      <3>1. /\ Append(pems, pem) \in Seq(Seq(Tokens)) /\ Len(Append(pems, pem)) = n + 1
            /\ \A i \in 1 .. n : Append(pems, pem)[i] = pems[i]
            /\ Append(pems, pem)[n + 1] = pem
        BY <2>4, AppendProperties
      <3>2. \A i \in 1 .. n + 1 : Append(pems, pem)[i] = Pem(ds[i], eol) \o eol
        <4>1. \A i \in 1 .. n : pems[i] = Pem(cs[i], eol) \o eol
          BY <2>1, <2>4
        <4>2. \A i \in 1 .. n + 1 : i \in 1 .. n \/ i = n + 1
          BY <2>1
        <4> HIDE DEF Pems
        <4> QED
          BY <2>1, <2>3, <3>1, <4>1, <4>2
      <3>3. Append(pems, pem) = [i \in 1 .. n + 1 |-> Append(pems, pem)[i]]
        BY <3>1, LenProperties
      <3> QED
        BY <2>1, <3>2, <3>3
    <2> HIDE DEF Pems, n
    <2>6. PICK text \in Seq(Tokens) :
            /\ text = ChainText(lead, cs, eol)
            /\ Parts(cs) = SplitAtBegin(text)
      BY <1>4
    <2>7. PICK parts \in Seq(Seq(Tokens)) :
            /\ parts = SplitAtBegin(text) /\ Len(parts) = n + 1 /\ parts[1] = lead
            /\ \A i \in 1 .. n : DataOf(parts[i + 1]) = Lines(cs[i], << >>)
      BY <1>4, <2>6 DEF n
    <2> HIDE DEF P, Parts
    <2>8. ChainText(lead, ds, eol) = Append(text, Begin) \o body
      <3>1. FlattenSeq(Append(pems, pem)) = FlattenSeq(pems) \o pem
        BY FlattenAppend
      <3>2. FlattenSeq(pems) \in Seq(Tokens)
        BY FlattenType
      <3>3. lead \o (FlattenSeq(pems) \o pem) = (lead \o FlattenSeq(pems)) \o pem
        <4>1. Associates(lead, FlattenSeq(pems), pem)
          BY <1>2, <3>2, TextsAssociate, Zenon
        <4> QED
          BY <4>1 DEF Associates
      <3>4. text = lead \o FlattenSeq(pems)
        BY <1>1, <2>4, <2>6
      <3>5. ChainText(lead, ds, eol) = lead \o FlattenSeq(Append(pems, pem))
        BY <1>1, <2>5
      <3>6. ChainText(lead, ds, eol) = text \o pem
        BY <3>1, <3>3, <3>4, <3>5, Zenon
      <3>7. Append(text, Begin) = text \o <<Begin>> /\ <<Begin>> \in Seq(Tokens)
        BY TokenKinds, AppendIsConcat, OneSeq
      <3>8. body \in Seq(Tokens)
        <4>1. Tokens \ {Begin} \subseteq Tokens
          OBVIOUS
        <4> QED
          BY <4>1, SeqMonotonic
      <3>9. (text \o <<Begin>>) \o body = text \o (<<Begin>> \o body)
        <4>1. Associates(text, <<Begin>>, body)
          BY <3>7, <3>8, TextsAssociate, Zenon
        <4> QED
          BY <4>1 DEF Associates
      <3> QED
        BY <2>2, <2>3, <3>6, <3>7, <3>9, Zenon
    <2>9. /\ ChainText(lead, ds, eol) \in Seq(Tokens)
          /\ Parts(ds) = Append(parts, body)
      <3>1. /\ Append(text, Begin) \o body \in Seq(Tokens)
            /\ SplitAtBegin(Append(text, Begin) \o body) = Append(SplitAtBegin(text), body)
        BY SplitNext
      <3> QED
        BY <2>7, <2>8, <3>1, Zenon DEF Parts
    <2>10. /\ Append(parts, body) \in Seq(Seq(Tokens)) /\ Len(Append(parts, body)) = Len(parts) + 1
           /\ \A i \in 1 .. Len(parts) : Append(parts, body)[i] = parts[i]
           /\ Append(parts, body)[Len(parts) + 1] = body
      <3>1. body \in Seq(Tokens)
        <4>1. Tokens \ {Begin} \subseteq Tokens
          OBVIOUS
        <4> QED
          BY <4>1, SeqMonotonic
      <3> QED
        BY <3>1, AppendProperties
    <2>11. PICK all \in Seq(Seq(Tokens)) :
             /\ all = Parts(ds) /\ Len(all) = n + 2
             /\ \A i \in 1 .. n + 1 : all[i] = parts[i]
             /\ all[n + 2] = body
      <3>1. Len(parts) = n + 1 /\ (n + 1) + 1 = n + 2
        BY <2>1, <2>7
      <3> QED
        BY <2>9, <2>10, <3>1, Zenon
    <2>12. all[1] = lead
      <3>1. 1 \in 1 .. n + 1
        BY <2>1
      <3>2. all[1] = parts[1]
        BY <2>11, <3>1, Zenon
      <3> QED
        BY <2>7, <3>2, Zenon
    <2>13. \A i \in 1 .. n + 1 : DataOf(all[i + 1]) = Lines(ds[i], << >>)
      <3> SUFFICES ASSUME NEW i \in 1 .. n + 1 PROVE DataOf(all[i + 1]) = Lines(ds[i], << >>)
        OBVIOUS
      <3>1. CASE i \in 1 .. n
        <4>1. i + 1 \in 1 .. n + 1
          BY <2>1, <3>1
        <4> QED
          BY <2>1, <2>7, <2>11, <3>1, <4>1
      <3>2. CASE i = n + 1
        <4>1. i + 1 = n + 2
          BY <2>1, <3>2
        <4> QED
          BY <2>1, <2>2, <2>11, <3>2, <4>1
      <3>3. i \in 1 .. n \/ i = n + 1
        BY <2>1
      <3> QED
        BY <3>1, <3>2, <3>3
    <2>14. Pems(ds) \in Seq(Seq(Tokens))
      BY <2>5, AppendProperties
    <2>15. Len(all) = Len(ds) + 1
      BY <2>1, <2>11
    <2>16. ds \in P
      BY <2>1, <2>9, <2>11, <2>12, <2>13, <2>14, <2>15, Zenon DEF P
    <2> QED
      BY <2>1, <2>16, Zenon
  <1> HIDE DEF P
  <1>5. certs \in P
    BY <1>3, <1>4, SeqSetInduction
  <1> QED
    BY <1>5 DEF P

\* White space that precedes a chain becomes a certificate of its own if more than
\* one character of it is left.
LEMMA LeadLeft ==
  ASSUME NEW lead \in Seq(White)
  PROVE  Len(StripPEMInfo(lead)) = Cardinality({i \in DOMAIN lead : lead[i] # LF})
  <1> DEFINE is == {i \in DOMAIN lead : lead[i] # LF /\ ~AtMark(lead, i)}
  <1>1. {i \in DOMAIN lead : i \in is} = {i \in DOMAIN lead : lead[i] # LF}
    <2>1. lead \in Seq(Tokens)
      <3>1. White \subseteq Tokens
        BY DEF Tokens
      <3> QED
        BY <3>1, SeqMonotonic
    <2>2. \A i \in DOMAIN lead : ~AtMark(lead, i)
      <3> SUFFICES ASSUME NEW i \in DOMAIN lead PROVE ~AtMark(lead, i)
        OBVIOUS
      <3>1. lead[i] \in White
        BY LenProperties, ElementOfSeq
      <3>2. lead[i] \notin {Quote, Begin, End}
        BY <3>1, TokensDiffer DEF White
      <3> QED
        BY <2>1, <3>2, Marks
    <2> QED
      BY <2>2
  <1>2. StripPEMInfo(lead) = KeptAt(lead, is)
    BY DEF StripPEMInfo
  <1> HIDE DEF is
  <1> QED
    BY <1>1, <1>2, KeptLen

LEMMA ChainSplits ==
  ASSUME NEW lead \in Seq(White), NEW certs \in Seq(Certs), NEW eol \in Seq(White)
  PROVE  IF Cardinality({i \in DOMAIN lead : lead[i] # LF}) <= 1
         THEN DecodeAll(ChainCerts(ChainText(lead, certs, eol))) = certs
         ELSE Unreadable \in ToSet(DecodeAll(ChainCerts(ChainText(lead, certs, eol))))
  <1> DEFINE parts == SplitAtBegin(ChainText(lead, certs, eol))
  <1>1. /\ parts \in Seq(Seq(Tokens)) /\ Len(parts) = Len(certs) + 1
        /\ parts[1] = lead
        /\ \A i \in 1 .. Len(certs) : DataOf(parts[i + 1]) = Lines(certs[i], << >>)
    BY ChainParts
  <1>2. ChainCerts(ChainText(lead, certs, eol)) = CertTexts(parts)
    BY ChainCertsIs
  <1> HIDE DEF parts
  <1>3. parts[1] \in Seq(White \cup {Quote})
    BY <1>1, SeqMonotonic
  <1>4. IF Len(StripPEMInfo(parts[1])) <= 1
        THEN DecodeAll(CertTexts(parts)) = certs
        ELSE Unreadable \in ToSet(DecodeAll(CertTexts(parts)))
    BY <1>1, <1>3, LeadCertTexts
  <1> QED
    BY <1>1, <1>2, <1>4, LeadLeft

\* A text of one certificate, in any style, is that certificate to the pipe.
LEMMA LeadBodySplits ==
  ASSUME NEW c \in Certs, NEW lead \in Seq({Quote}), Len(lead) <= 1,
         NEW body \in Seq(Tokens \ {Begin}), DataOf(body) = Lines(c, << >>)
  PROVE  DecodeAll(ChainCerts(Append(lead, Begin) \o body)) = <<c>>
  <1>1. lead \in Seq(Tokens) /\ lead \in Seq(White \cup {Quote})
    <2>1. {Quote} \subseteq Tokens /\ {Quote} \subseteq White \cup {Quote}
      BY DEF Tokens
    <2> QED
      BY <2>1, SeqMonotonic
  <1>2. PICK one \in Seq(Seq(Tokens)) :
          one = SplitAtBegin(lead) /\ Len(one) = 1 /\ one[1] = lead
    <2>1. Begin \notin {Quote}
      BY TokensDiffer
    <2>2. Len(SplitAtBegin(lead)) = 1 /\ SplitAtBegin(lead)[1] = lead
      BY <2>1, SplitWithout
    <2>3. SplitAtBegin(lead) \in Seq(Seq(Tokens))
      BY <1>1, SplitIs
    <2> QED
      BY <2>2, <2>3, Zenon
  <1>3. body \in Seq(Tokens)
    <2>1. Tokens \ {Begin} \subseteq Tokens
      OBVIOUS
    <2> QED
      BY <2>1, SeqMonotonic
  <1>4. PICK parts \in Seq(Seq(Tokens)) :
          /\ parts = SplitAtBegin(Append(lead, Begin) \o body)
          /\ Len(parts) = 2 /\ parts[1] = lead /\ parts[2] = body
    <2>1. SplitAtBegin(Append(lead, Begin) \o body) = Append(one, body)
      BY <1>1, <1>2, SplitNext
    <2>2. /\ Append(one, body) \in Seq(Seq(Tokens)) /\ Len(Append(one, body)) = Len(one) + 1
          /\ \A i \in 1 .. Len(one) : Append(one, body)[i] = one[i]
          /\ Append(one, body)[Len(one) + 1] = body
      BY <1>3, AppendProperties
    <2>3. Len(Append(one, body)) = 2 /\ Append(one, body)[1] = lead /\ Append(one, body)[2] = body
      BY <1>2, <2>2
    <2> QED
      BY <2>1, <2>2, <2>3, Zenon
  <1>5. PICK cs \in Seq(Certs) : cs = <<c>> /\ Len(cs) = 1 /\ cs[1] = c
    BY OneSeq
  <1>6. \A i \in 1 .. Len(cs) : DataOf(parts[i + 1]) = Lines(cs[i], << >>)
    <2>1. \A i \in 1 .. Len(cs) : i = 1 /\ i + 1 = 2
      BY <1>5
    <2>2. DataOf(parts[2]) = Lines(cs[1], << >>)
      BY <1>4, <1>5
    <2> QED
      BY <2>1, <2>2, Zenon
  <1>7. Len(StripPEMInfo(lead)) <= 1
    <2> DEFINE is == {i \in DOMAIN lead : lead[i] # LF /\ ~AtMark(lead, i)}
               kept == {i \in DOMAIN lead : i \in is}
    <2>1. StripPEMInfo(lead) = KeptAt(lead, is)
      BY DEF StripPEMInfo
    <2>2. kept \subseteq 1 .. Len(lead) /\ Len(lead) \in Nat
      BY LenProperties
    <2> HIDE DEF is
    <2>3. Len(KeptAt(lead, is)) = Cardinality(kept)
      BY KeptLen
    <2> HIDE DEF kept
    <2>4. kept \subseteq {1}
      BY <2>2
    <2>5. Cardinality(kept) <= 1 /\ Cardinality(kept) \in Nat
      <3>1. IsFiniteSet({1}) /\ Cardinality({1}) = 1
        BY FS_Singleton
      <3>2. IsFiniteSet(kept) /\ Cardinality(kept) <= Cardinality({1})
        BY <2>4, <3>1, FS_Subset
      <3> QED
        BY <3>1, <3>2, FS_CardinalityType
    <2> QED
      BY <2>1, <2>2, <2>3, <2>5
  <1>8. DecodeAll(CertTexts(parts)) = cs
    <2>1. Len(parts) = Len(cs) + 1 /\ parts[1] \in Seq(White \cup {Quote})
      BY <1>1, <1>4, <1>5
    <2>2. Len(StripPEMInfo(parts[1])) <= 1
      BY <1>4, <1>7
    <2> QED
      BY <1>6, <2>1, <2>2, LeadCertTexts
  <1> QED
    BY <1>4, <1>5, <1>8, ChainCertsIs, Zenon

LEMMA LinesIn ==
  ASSUME NEW S, NEW c, Data(c, 1) \in S, Data(c, 2) \in S, NEW eol \in Seq(S)
  PROVE  Lines(c, eol) \in Seq(S)
  <1>1. <<Data(c, 1)>> \in Seq(S) /\ <<Data(c, 2)>> \in Seq(S)
    BY OneSeq
  <1>2. \A s, t \in Seq(S) : s \o t \in Seq(S)
    BY ConcatProperties
  <1>3. <<Data(c, 1)>> \o eol \in Seq(S)
    BY <1>1, <1>2, Zenon
  <1> QED
    BY <1>1, <1>2, <1>3, Zenon DEF Lines

\* Without BEGIN and END lines.
Base64Styles == {"cleared", "lines", "padded"}

LEMMA Base64Text ==
  ASSUME NEW c \in Certs, NEW style \in Base64Styles
  PROVE  Text(c, style) \in Seq(Tokens \ {Begin, End})
  <1> DEFINE S == Tokens \ {Begin, End}
  <1>1. /\ Data(c, 1) \in S /\ Data(c, 2) \in S
    <2>1. Data(c, 1) \in DataTokens /\ Data(c, 2) \in DataTokens
      BY DEF DataTokens
    <2> QED
      BY <2>1, TokenKinds
  <1>2. White \subseteq S
    BY TokenKinds, TokensDiffer DEF White
  <1>3. \A s \in Seq(White) : s \in Seq(S)
    BY <1>2, SeqMonotonic
  <1>4. \A s, t \in Seq(S) : s \o t \in Seq(S)
    BY ConcatProperties
  <1> HIDE DEF S
  <1>5. << >> \in Seq(S) /\ <<LF>> \in Seq(S) /\ <<LF, SP>> \in Seq(S)
    BY <1>3, WhiteTexts, Zenon
  <1>6. Lines(c, << >>) \in Seq(S) /\ Lines(c, <<LF>>) \in Seq(S)
    BY <1>1, <1>5, LinesIn
  <1>7. (<<LF, SP>> \o Lines(c, << >>)) \o <<LF, SP>> \in Seq(S)
    <2>1. <<LF, SP>> \o Lines(c, << >>) \in Seq(S)
      BY <1>4, <1>5, <1>6, Zenon
    <2> QED
      BY <1>4, <1>5, <2>1, Zenon
  <1>8. Text(c, style) \in Seq(S)
    <2>1. CASE style = "cleared"
      BY <1>6, <2>1 DEF Text
    <2>2. CASE style = "lines"
      BY <1>6, <2>2 DEF Text
    <2>3. CASE style = "padded"
      <3>1. Text(c, style) = (<<LF, SP>> \o Lines(c, << >>)) \o <<LF, SP>>
        BY <2>3 DEF Text
      <3> QED
        BY <1>7, <3>1, Zenon
    <2> QED
      BY <2>1, <2>2, <2>3 DEF Base64Styles
  <1> QED
    BY <1>8 DEF S

LEMMA OneTextSplits ==
  ASSUME NEW c \in Certs, NEW style \in Styles
  PROVE  DecodeAll(ChainCerts(Text(c, style))) = <<c>>
  <1>1. CASE style \in Base64Styles
    <2>1. PICK text \in Seq(Tokens) :
            text = Text(c, style) /\ DataOf(text) = Lines(c, << >>)
      BY TextData
    <2>2. text \in Seq(Tokens \ {Begin, End})
      BY <1>1, <2>1, Base64Text
    <2>3. PICK parts \in Seq(Seq(Tokens)) :
            parts = SplitAtBegin(text) /\ Len(parts) = 1 /\ parts[1] = text
      <3>1. Begin \notin Tokens \ {Begin, End}
        OBVIOUS
      <3>2. Len(SplitAtBegin(text)) = 1 /\ SplitAtBegin(text)[1] = text
        BY <2>2, <3>1, SplitWithout
      <3>3. SplitAtBegin(text) \in Seq(Seq(Tokens))
        BY SplitIs
      <3> QED
        BY <3>2, <3>3, Zenon
    <2>4. PICK cs \in Seq(Certs) : cs = <<c>> /\ Len(cs) = 1 /\ cs[1] = c
      BY OneSeq
    <2>5. Says(parts, cs)
      <3>1. \A i \in 1 .. Len(cs) : i = 1
        BY <2>4
      <3>2. DataOf(parts[1]) = Lines(cs[1], << >>)
        BY <2>1, <2>3, <2>4
      <3>3. \A i \in 1 .. Len(cs) : DataOf(parts[i]) = Lines(cs[i], << >>)
        BY <3>1, <3>2, Zenon
      <3> QED
        BY <2>3, <2>4, <3>3 DEF Says
    <2>6. DecodeAll(CertTexts(parts)) = cs
      BY <2>5, AllCertTexts
    <2> QED
      BY <2>1, <2>3, <2>4, <2>6, ChainCertsIs, Zenon
  <1>2. ASSUME NEW eol \in Seq(White), Text(c, style) = Pem(c, eol)
        PROVE  DecodeAll(ChainCerts(Text(c, style))) = <<c>>
    <2>1. PICK body \in Seq(Tokens \ {Begin}) :
            DataOf(body) = Lines(c, << >>) /\ Pem(c, eol) = <<Begin>> \o body
      BY BodyData
    <2>2. << >> \in Seq({Quote}) /\ Len(<< >>) <= 1 /\ Append(<< >>, Begin) = <<Begin>>
      BY EmptySeq
    <2>3. DecodeAll(ChainCerts(Append(<< >>, Begin) \o body)) = <<c>>
      BY <2>1, <2>2, LeadBodySplits
    <2> QED
      BY <1>2, <2>1, <2>2, <2>3, Zenon
  <1>3. CASE style = "pem"
    <2>1. Text(c, style) = Pem(c, <<LF>>)
      BY <1>3 DEF Text
    <2> QED
      BY <1>2, <2>1, WhiteTexts
  <1>4. CASE style = "crlf"
    <2>1. Text(c, style) = Pem(c, <<CR, LF>>)
      BY <1>4 DEF Text
    <2> QED
      BY <1>2, <2>1, WhiteTexts
  <1>5. CASE style = "quoted"
    <2>1. Text(c, style) = (<<Quote>> \o Pem(c, <<LF>>)) \o <<Quote>>
      BY <1>5 DEF Text
    <2>2. PICK b \in Seq(Tokens \ {Begin}) :
            DataOf(b) = Lines(c, << >>) /\ Pem(c, <<LF>>) = <<Begin>> \o b
      BY BodyData, WhiteTexts
    <2>3. PICK q \in Seq(Tokens \ {Begin}) : q = <<Quote>> /\ q \in Seq(Tokens \ DataTokens)
      <3>1. Quote \in Tokens \ {Begin}
        BY TokenKinds, TokensDiffer
      <3> QED
        BY <3>1, OneSeq, WhiteTexts
    <2>4. /\ b \in Seq(Tokens) /\ q \in Seq(Tokens) /\ <<Begin>> \in Seq(Tokens)
          /\ <<Begin>> \o b \in Seq(Tokens) /\ q \o <<Begin>> \in Seq(Tokens)
      <3>1. Tokens \ {Begin} \subseteq Tokens /\ Begin \in Tokens
        BY TokenKinds
      <3>2. b \in Seq(Tokens) /\ q \in Seq(Tokens) /\ <<Begin>> \in Seq(Tokens)
        BY <3>1, SeqMonotonic, OneSeq
      <3> QED
        BY <3>2, ConcatProperties
    <2>5. PICK body \in Seq(Tokens \ {Begin}) : body = b \o q /\ DataOf(body) = Lines(c, << >>)
      <3>1. b \o q \in Seq(Tokens \ {Begin})
        BY ConcatProperties
      <3>2. DataOf(b \o q) = DataOf(b)
        BY <2>3, <2>4, DataAround
      <3> QED
        BY <2>2, <3>1, <3>2, Zenon
    <2>6. (q \o (<<Begin>> \o b)) \o q = (q \o <<Begin>>) \o (b \o q)
      <3>1. (q \o <<Begin>>) \o b = q \o (<<Begin>> \o b)
        <4>1. Associates(q, <<Begin>>, b)
          BY <2>4, TextsAssociate, Zenon
        <4> QED
          BY <4>1 DEF Associates
      <3>2. ((q \o <<Begin>>) \o b) \o q = (q \o <<Begin>>) \o (b \o q)
        <4>1. Associates(q \o <<Begin>>, b, q)
          BY <2>4, TextsAssociate, Zenon
        <4> QED
          BY <4>1 DEF Associates
      <3> QED
        BY <3>1, <3>2, Zenon
    <2>7. q \in Seq({Quote}) /\ Len(q) <= 1 /\ Append(q, Begin) = q \o <<Begin>>
      <3>1. <<Quote>> \in Seq({Quote}) /\ Len(<<Quote>>) = 1
        BY OneSeq
      <3>2. Append(q, Begin) = q \o <<Begin>>
        BY <2>4, TokenKinds, AppendIsConcat
      <3> QED
        BY <2>3, <3>1, <3>2
    <2>8. DecodeAll(ChainCerts(Append(q, Begin) \o body)) = <<c>>
      BY <2>5, <2>7, LeadBodySplits
    <2> QED
      BY <2>1, <2>2, <2>3, <2>5, <2>6, <2>7, <2>8, Zenon
  <1> QED
    BY <1>1, <1>3, <1>4, <1>5 DEF Styles, Base64Styles

-----------------------------------------------------------------------------
(* The form in which a certificate is found *)

\* A text that is data and nothing else is what it says.
LEMMA OnlyDataIs ==
  ASSUME NEW text \in Seq(DataTokens)
  PROVE  DataOf(text) = text
  BY OnlyAll DEF DataOf

LEMMA TrimPadded ==
  ASSUME NEW a \in Seq(White), NEW b \in Seq(White), NEW s \in Seq(DataTokens), s # << >>
  PROVE  Trim((a \o s) \o b) = s
  <1>1. White \subseteq Tokens /\ DataTokens \subseteq Tokens /\ White \cap DataTokens = {}
    BY TokenKinds DEF White
  <1>2. a \in Seq(Tokens) /\ b \in Seq(Tokens) /\ s \in Seq(Tokens)
    BY <1>1, SeqMonotonic
  <1>3. PICK k \in Nat, m \in Nat, n \in Nat :
          k = Len(a) /\ m = Len(s) /\ n = Len(b) /\ m # 0
    BY LenProperties, EmptySeq
  <1>4. /\ \A i \in 1 .. k : a[i] \in White
        /\ \A i \in 1 .. n : b[i] \in White
        /\ \A i \in 1 .. m : s[i] \in DataTokens
    BY <1>3, ElementOfSeq
  <1>5. PICK p \in Seq(Tokens) :
          /\ p = a \o s /\ Len(p) = k + m
          /\ \A i \in 1 .. k + m : p[i] = IF i <= k THEN a[i] ELSE s[i - k]
    <2>1. /\ a \o s \in Seq(Tokens) /\ Len(a \o s) = Len(a) + Len(s)
          /\ \A i \in 1 .. Len(a) + Len(s) :
               (a \o s)[i] = IF i <= Len(a) THEN a[i] ELSE s[i - Len(a)]
      BY <1>2, ConcatProperties
    <2> QED
      BY <1>3, <2>1, Zenon
  <1>6. PICK t \in Seq(Tokens) :
          /\ t = p \o b /\ Len(t) = k + m + n
          /\ \A i \in 1 .. k + m + n : t[i] = IF i <= k + m THEN p[i] ELSE b[i - (k + m)]
    <2>1. /\ p \o b \in Seq(Tokens) /\ Len(p \o b) = Len(p) + Len(b)
          /\ \A i \in 1 .. Len(p) + Len(b) :
               (p \o b)[i] = IF i <= Len(p) THEN p[i] ELSE b[i - Len(p)]
      BY <1>2, ConcatProperties
    <2>2. Len(p) = k + m /\ Len(b) = n
      BY <1>3, <1>5
    <2>3. /\ Len(p \o b) = k + m + n
          /\ \A i \in 1 .. k + m + n :
               (p \o b)[i] = IF i <= k + m THEN p[i] ELSE b[i - (k + m)]
      BY <2>1, <2>2
    <2> QED
      BY <2>1, <2>3, Zenon
  <1>7. DOMAIN t = 1 .. k + m + n
    BY <1>6, LenProperties
  <1>8. ASSUME NEW i \in 1 .. k + m + n
        PROVE  IF i \in k + 1 .. k + m THEN t[i] \in DataTokens ELSE t[i] \in White
    <2>1. CASE i <= k
      <3>1. t[i] = a[i] /\ i \in 1 .. k /\ i \notin k + 1 .. k + m
        BY <1>5, <1>6, <2>1
      <3> QED
        BY <1>4, <3>1
    <2>2. CASE i > k /\ i <= k + m
      <3>1. t[i] = s[i - k] /\ i - k \in 1 .. m /\ i \in k + 1 .. k + m
        BY <1>5, <1>6, <2>2
      <3> QED
        BY <1>4, <3>1
    <2>3. CASE i > k + m
      <3>1. t[i] = b[i - (k + m)] /\ i - (k + m) \in 1 .. n /\ i \notin k + 1 .. k + m
        BY <1>6, <2>3
      <3> QED
        BY <1>4, <3>1
    <2> QED
      BY <2>1, <2>2, <2>3
  <1>9. Solid(t, k + 1, k + m)
    <2>1. /\ k + 1 \in 1 .. k + m + n /\ k + m \in 1 .. k + m + n
          /\ k + 1 \in k + 1 .. k + m /\ k + m \in k + 1 .. k + m
      BY <1>3
    <2>2. t[k + 1] \notin White /\ t[k + m] \notin White
      BY <1>1, <1>8, <2>1
    <2>3. \A i \in 1 .. k + m + n : t[i] \notin White => i \in k + 1 .. k + m
      BY <1>1, <1>8
    <2>4. \A i \in k + 1 .. k + m : k + 1 <= i /\ i <= k + m
      OBVIOUS
    <2> QED
      BY <1>7, <2>1, <2>2, <2>3, <2>4 DEF Solid
  <1>10. Trim(t) = SubSeq(t, k + 1, k + m)
    BY <1>9, TrimIs
  <1>11. Trim(t) \in Seq(DataTokens)
    <2>1. \A i \in k + 1 .. k + m : t[i] \in DataTokens
      <3>1. k + 1 .. k + m \subseteq 1 .. k + m + n
        OBVIOUS
      <3> QED
        BY <1>8, <3>1
    <2>2. SubSeq(t, k + 1, k + m) \in Seq(DataTokens)
      BY <2>1, SubSeqProperties
    <2> QED
      BY <1>10, <2>2
  <1>12. DataOf(t) = s
    <2>1. a \in Seq(Tokens \ DataTokens) /\ b \in Seq(Tokens \ DataTokens)
      BY WhiteTexts
    <2>2. DataOf(p) = DataOf(s) /\ DataOf(t) = DataOf(p)
      BY <1>2, <1>5, <1>6, <2>1, DataAround
    <2> QED
      BY <2>2, OnlyDataIs
  <1>13. DataOf(Trim(t)) = DataOf(t) /\ DataOf(Trim(t)) = Trim(t)
    BY <1>11, TrimKeepsData, OnlyDataIs
  <1> QED
    BY <1>5, <1>6, <1>12, <1>13, Zenon

LEMMA TrimOfLines ==
  ASSUME NEW c \in Certs
  PROVE  /\ Lines(c, << >>) \in Seq(DataTokens)
         /\ Trim(Lines(c, << >>)) = Lines(c, << >>)
         /\ Trim((<<LF, SP>> \o Lines(c, << >>)) \o <<LF, SP>>) = Lines(c, << >>)
  <1>1. PICK s \in Seq(DataTokens) : s = Lines(c, << >>) /\ s # << >>
    <2>1. Data(c, 1) \in DataTokens /\ Data(c, 2) \in DataTokens /\ << >> \in Seq(DataTokens)
      BY EmptySeq DEF DataTokens
    <2>2. Lines(c, << >>) \in Seq(DataTokens)
      BY <2>1, LinesIn
    <2> QED
      BY <2>2, LinesNotEmpty
  <1>2. Trim(s) = s
    <2>1. Trim(s) \in Seq(DataTokens) /\ DataOf(Trim(s)) = DataOf(s)
      BY TrimKeepsData
    <2> QED
      BY <2>1, OnlyDataIs
  <1>3. PICK a \in Seq(White) : a = <<LF, SP>>
    BY WhiteTexts
  <1>4. Trim((a \o s) \o a) = s
    BY <1>1, TrimPadded
  <1> QED
    BY <1>1, <1>2, <1>3, <1>4, Zenon

\* A text of data and of what stripPEMInfo removes is left as its data.
LEMMA StripsToData ==
  ASSUME NEW text \in Seq(Tokens),
         \A i \in DOMAIN text : text[i] \in DataTokens \cup {LF, Begin, End} \/ AtMark(text, i)
  PROVE  StripPEMInfo(text) = DataOf(text)
  <1> DEFINE is == {i \in DOMAIN text : text[i] # LF /\ ~AtMark(text, i)}
  <1>1. StripPEMInfo(text) = KeptAt(text, is)
    BY DEF StripPEMInfo
  <1>2. \A i \in DOMAIN text : i \in is => text[i] \in DataTokens
    BY Marks
  <1> HIDE DEF is
  <1>3. StripPEMInfo(text) \in Seq(DataTokens)
    BY <1>1, <1>2, KeptType
  <1>4. DataOf(StripPEMInfo(text)) = DataOf(text)
    BY StripKeepsData
  <1> QED
    BY <1>3, <1>4, OnlyDataIs

LEMMA CellIsCleared ==
  ASSUME NEW c \in Certs, NEW style \in Styles, style # "crlf"
  PROVE  Trim(StripPEMInfo(Text(c, style))) = Lines(c, << >>)
  <1> DEFINE M == DataTokens \cup {LF, Begin, End}
  <1>1. PICK text \in Seq(Tokens) :
          text = Text(c, style) /\ DataOf(text) = Lines(c, << >>)
    BY TextData
  <1>2. /\ << >> \in Seq(M) /\ <<LF>> \in Seq(M) /\ <<Begin>> \in Seq(M) /\ <<End>> \in Seq(M)
    <2>1. LF \in M /\ Begin \in M /\ End \in M
      OBVIOUS
    <2> HIDE DEF M
    <2> QED
      BY <2>1, OneSeq, EmptySeq
  <1>3. Data(c, 1) \in M /\ Data(c, 2) \in M
    BY DEF DataTokens
  <1>4. \A s, t \in Seq(M) : s \o t \in Seq(M)
    BY ConcatProperties
  <1>5. ASSUME StripPEMInfo(text) = DataOf(text)
        PROVE  Trim(StripPEMInfo(Text(c, style))) = Lines(c, << >>)
    <2>1. Trim(Lines(c, << >>)) = Lines(c, << >>)
      BY TrimOfLines
    <2> QED
      BY <1>1, <1>5, <2>1, Zenon
  <1>6. ASSUME text \in Seq(M)
        PROVE  Trim(StripPEMInfo(Text(c, style))) = Lines(c, << >>)
    <2>1. \A i \in DOMAIN text : text[i] \in M
      BY <1>6, LenProperties, ElementOfSeq
    <2>2. StripPEMInfo(text) = DataOf(text)
      BY <2>1, StripsToData
    <2> QED
      BY <1>5, <2>2
  <1>7. Lines(c, << >>) \in Seq(M) /\ Lines(c, <<LF>>) \in Seq(M) /\ Pem(c, <<LF>>) \in Seq(M)
    <2> HIDE DEF M
    <2>1. Lines(c, << >>) \in Seq(M) /\ Lines(c, <<LF>>) \in Seq(M)
      BY <1>2, <1>3, LinesIn
    <2>2. <<Begin>> \o <<LF>> \in Seq(M)
      BY <1>2, <1>4, Zenon
    <2>3. (<<Begin>> \o <<LF>>) \o Lines(c, <<LF>>) \in Seq(M)
      BY <1>4, <2>1, <2>2, Zenon
    <2>4. ((<<Begin>> \o <<LF>>) \o Lines(c, <<LF>>)) \o <<LF>> \in Seq(M)
      BY <1>2, <1>4, <2>3, Zenon
    <2>5. (((<<Begin>> \o <<LF>>) \o Lines(c, <<LF>>)) \o <<LF>>) \o <<End>> \in Seq(M)
      BY <1>2, <1>4, <2>4, Zenon
    <2> QED
      BY <2>1, <2>5, Zenon DEF Pem
  <1>8. CASE style = "cleared"
    <2>1. Text(c, style) = Lines(c, << >>)
      BY <1>8 DEF Text
    <2> QED
      BY <1>1, <1>6, <1>7, <2>1
  <1>9. CASE style = "lines"
    <2>1. Text(c, style) = Lines(c, <<LF>>)
      BY <1>9 DEF Text
    <2> QED
      BY <1>1, <1>6, <1>7, <2>1
  <1>10. CASE style = "pem"
    <2>1. Text(c, style) = Pem(c, <<LF>>)
      BY <1>10 DEF Text
    <2> QED
      BY <1>1, <1>6, <1>7, <2>1
  <1>11. CASE style = "padded"
    <2>1. PICK a \in Seq(White) : a = <<LF, SP>>
      BY WhiteTexts
    <2>2. PICK s \in Seq(DataTokens) : s = Lines(c, << >>)
      BY TrimOfLines
    <2>3. text = (a \o s) \o a
      <3>1. Text(c, style) = (<<LF, SP>> \o Lines(c, << >>)) \o <<LF, SP>>
        BY <1>11 DEF Text
      <3> QED
        BY <1>1, <2>1, <2>2, <3>1, Zenon
    <2>4. a \in Seq(Tokens) /\ s \in Seq(Tokens) /\ a \o s \in Seq(Tokens)
      <3>1. White \subseteq Tokens /\ DataTokens \subseteq Tokens
        BY TokenKinds DEF White
      <3>2. a \in Seq(Tokens) /\ s \in Seq(Tokens)
        BY <3>1, SeqMonotonic
      <3> QED
        BY <3>2, ConcatProperties
    <2> DEFINE is == {i \in DOMAIN text : text[i] # LF /\ ~AtMark(text, i)}
    <2>5. StripPEMInfo(text) = KeptAt(text, is)
      BY DEF StripPEMInfo
    <2> HIDE DEF is
    <2>6. \A ks : KeptAt(a, ks) \in Seq(White) /\ KeptAt(s, ks) \in Seq(DataTokens)
      <3>1. \A i \in DOMAIN a : a[i] \in White
        BY LenProperties, ElementOfSeq
      <3>2. \A i \in DOMAIN s : s[i] \in DataTokens
        BY LenProperties, ElementOfSeq
      <3> QED
        BY <3>1, <3>2, KeptType
    <2>7. PICK front \in Seq(White), middle \in Seq(DataTokens), back \in Seq(White) :
            StripPEMInfo(text) = (front \o middle) \o back
      <3>1. KeptAt((a \o s) \o a, is)
              = KeptAt(a \o s, is) \o KeptAt(a, Shifted(is, Len(a \o s)))
        BY <2>4, KeptConcat
      <3>2. KeptAt(a \o s, is) = KeptAt(a, is) \o KeptAt(s, Shifted(is, Len(a)))
        BY <2>4, KeptConcat
      <3> QED
        BY <2>3, <2>5, <2>6, <3>1, <3>2, Zenon
    <2>8. middle = s
      <3>1. front \in Seq(Tokens \ DataTokens) /\ back \in Seq(Tokens \ DataTokens)
        BY WhiteTexts
      <3>2. middle \in Seq(Tokens)
        <4>1. DataTokens \subseteq Tokens
          BY TokenKinds
        <4> QED
          BY <4>1, SeqMonotonic
      <3>3. front \o middle \in Seq(Tokens) /\ DataOf(front \o middle) = DataOf(middle)
        BY <3>1, <3>2, DataAround
      <3>4. DataOf((front \o middle) \o back) = DataOf(front \o middle)
        BY <3>1, <3>3, DataAround
      <3>5. DataOf(StripPEMInfo(text)) = DataOf(text)
        BY StripKeepsData
      <3>6. DataOf(middle) = middle
        BY OnlyDataIs
      <3> QED
        BY <1>1, <2>2, <2>7, <3>3, <3>4, <3>5, <3>6, Zenon
    <2>9. s # << >>
      BY <2>2, LinesNotEmpty
    <2>10. Trim((front \o middle) \o back) = middle
      BY <2>8, <2>9, TrimPadded
    <2> QED
      BY <1>1, <2>2, <2>7, <2>8, <2>10, Zenon
  <1>12. CASE style = "quoted"
    <2>1. PICK p \in Seq(Tokens) :
            /\ p = Pem(c, <<LF>>) /\ p \in Seq(M)
            /\ 1 \in DOMAIN p /\ p[1] = Begin /\ p[Len(p)] = End
      <3>1. PICK b \in Seq(Tokens) : b = ((<<LF>> \o Lines(c, <<LF>>)) \o <<LF>>)
        <4>1. <<LF>> \in Seq(Tokens) /\ Lines(c, <<LF>>) \in Seq(Tokens)
          BY WhiteTexts, LinesData, TokenKinds, OneSeq
        <4>2. <<LF>> \o Lines(c, <<LF>>) \in Seq(Tokens)
          BY <4>1, ConcatProperties
        <4> QED
          BY <4>1, <4>2, ConcatProperties
      <3>2. Begin \in Tokens /\ End \in Tokens
        BY TokenKinds
      <3>3. PICK e \in Seq(Tokens) : e = Append(b, End) /\ Len(e) = Len(b) + 1 /\ e[Len(b) + 1] = End
        BY <3>2, AppendProperties
      <3>4. PICK one \in Seq(Tokens) : one = <<Begin>> /\ Len(one) = 1 /\ one[1] = Begin
        BY <3>2, OneSeq
      <3>5. Pem(c, <<LF>>) = one \o e
        <4>1. Pem(c, <<LF>>) = <<Begin>> \o Body(c, <<LF>>)
          BY BodyData, WhiteTexts
        <4>2. Append(b, End) = b \o <<End>>
          BY <3>2, AppendIsConcat
        <4> QED
          BY <3>1, <3>3, <3>4, <4>1, <4>2, Zenon DEF Body
      <3>6. PICK q \in Seq(Tokens) :
              /\ q = one \o e /\ Len(q) = Len(one) + Len(e)
              /\ \A i \in 1 .. Len(one) + Len(e) :
                   q[i] = IF i <= Len(one) THEN one[i] ELSE e[i - Len(one)]
        <4>1. /\ one \o e \in Seq(Tokens) /\ Len(one \o e) = Len(one) + Len(e)
              /\ \A i \in 1 .. Len(one) + Len(e) :
                   (one \o e)[i] = IF i <= Len(one) THEN one[i] ELSE e[i - Len(one)]
          BY ConcatProperties
        <4> QED
          BY <4>1, Zenon
      <3>7. Len(b) \in Nat /\ DOMAIN q = 1 .. Len(q)
        BY LenProperties
      <3>8. 1 \in DOMAIN q /\ q[1] = Begin /\ q[Len(q)] = End
        <4>1. Len(q) = Len(b) + 2 /\ Len(q) \in 1 .. Len(one) + Len(e) /\ 1 \in 1 .. Len(one) + Len(e)
          BY <3>3, <3>4, <3>6, <3>7
        <4>2. q[1] = Begin
          BY <3>4, <3>6, <4>1
        <4>3. q[Len(q)] = e[Len(b) + 1]
          <5>1. ~(Len(q) <= Len(one)) /\ Len(q) - Len(one) = Len(b) + 1
            BY <3>4, <3>7, <4>1
          <5> QED
            BY <3>6, <4>1, <5>1
        <4> QED
          BY <3>3, <3>6, <3>7, <4>1, <4>2, <4>3
      <3> QED
        BY <1>7, <3>5, <3>6, <3>8, Zenon
    <2>2. PICK n \in Nat : n = Len(p) /\ n # 0 /\ DOMAIN p = 1 .. n
      BY <2>1, LenProperties
    <2>3. PICK one \in Seq(Tokens) : one = <<Quote>> /\ Len(one) = 1 /\ one[1] = Quote
      BY TokenKinds, OneSeq
    <2>4. PICK q \in Seq(Tokens) :
            /\ q = one \o p /\ Len(q) = n + 1
            /\ \A i \in 1 .. n + 1 : q[i] = IF i <= 1 THEN Quote ELSE p[i - 1]
      <3>1. /\ one \o p \in Seq(Tokens) /\ Len(one \o p) = Len(one) + Len(p)
            /\ \A i \in 1 .. Len(one) + Len(p) :
                 (one \o p)[i] = IF i <= Len(one) THEN one[i] ELSE p[i - Len(one)]
        BY ConcatProperties
      <3>2. Len(one) + Len(p) = n + 1
        BY <2>2, <2>3
      <3>3. ASSUME NEW i \in 1 .. n + 1 PROVE (one \o p)[i] = IF i <= 1 THEN Quote ELSE p[i - 1]
        BY <2>2, <2>3, <3>1, <3>2
      <3> QED
        BY <3>1, <3>2, <3>3
    <2>5. /\ text = Append(q, Quote) /\ Len(text) = n + 2 /\ DOMAIN text = 1 .. n + 2
          /\ \A i \in 1 .. n + 1 : text[i] = q[i]
          /\ text[n + 2] = Quote
      <3>1. Text(c, style) = (<<Quote>> \o Pem(c, <<LF>>)) \o <<Quote>>
        BY <1>12 DEF Text
      <3>2. Append(q, Quote) = q \o <<Quote>>
        BY TokenKinds, AppendIsConcat
      <3>3. text = Append(q, Quote)
        BY <1>1, <2>1, <2>3, <2>4, <3>1, <3>2, Zenon
      <3>4. /\ Len(Append(q, Quote)) = Len(q) + 1
            /\ \A i \in 1 .. Len(q) : Append(q, Quote)[i] = q[i]
            /\ Append(q, Quote)[Len(q) + 1] = Quote
        BY TokenKinds, AppendProperties
      <3>5. Len(q) = n + 1 /\ Len(q) + 1 = n + 2
        BY <2>4
      <3>6. DOMAIN text = 1 .. Len(text)
        BY LenProperties
      <3> QED
        BY <3>3, <3>4, <3>5, <3>6, Zenon
    <2>6. /\ text[1] = Quote /\ text[2] = Begin /\ text[n + 1] = End /\ text[n + 2] = Quote
          /\ \A i \in 2 .. n + 1 : text[i] \in M
      <3>1. \A i \in 1 .. n : p[i] \in M
        BY <2>1, <2>2, ElementOfSeq
      <3>2. ASSUME NEW i \in 2 .. n + 1 PROVE text[i] = p[i - 1] /\ i - 1 \in 1 .. n
        BY <2>4, <2>5
      <3>3. 2 \in 2 .. n + 1 /\ n + 1 \in 2 .. n + 1 /\ 1 \in 1 .. n + 1
        BY <2>2
      <3>4. text[1] = Quote
        BY <2>4, <2>5, <3>3
      <3>5. text[2] = p[1] /\ text[n + 1] = p[n]
        <4>1. 2 - 1 = 1 /\ (n + 1) - 1 = n
          OBVIOUS
        <4> QED
          BY <3>2, <3>3, <4>1
      <3>6. \A i \in 2 .. n + 1 : text[i] \in M
        BY <3>1, <3>2
      <3> QED
        BY <2>1, <2>2, <2>5, <3>4, <3>5, <3>6
    <2>7. AtMark(text, 1)
      <3>1. \A k \in (1 .. 2 - 1) \cup (2 + 1 .. 1) : k = 1
        OBVIOUS
      <3>2. 2 \in DOMAIN text /\ text[2] \in {Begin, End}
        BY <2>5, <2>6
      <3> QED
        BY <2>6, <3>1, <3>2 DEF AtMark
    <2>8. AtMark(text, n + 2)
      <3>1. \A k \in (n + 2 .. (n + 1) - 1) \cup ((n + 1) + 1 .. n + 2) : k = n + 2
        OBVIOUS
      <3>2. n + 1 \in DOMAIN text /\ text[n + 1] \in {Begin, End}
        BY <2>5, <2>6
      <3> QED
        BY <2>6, <3>1, <3>2 DEF AtMark
    <2>9. \A i \in DOMAIN text : text[i] \in M \/ AtMark(text, i)
      <3>1. \A i \in 1 .. n + 2 : i = 1 \/ i \in 2 .. n + 1 \/ i = n + 2
        OBVIOUS
      <3> QED
        BY <2>5, <2>6, <2>7, <2>8, <3>1
    <2>10. StripPEMInfo(text) = DataOf(text)
      BY <2>9, StripsToData
    <2> QED
      BY <1>5, <2>10
  <1> QED
    BY <1>8, <1>9, <1>10, <1>11, <1>12 DEF Styles

-----------------------------------------------------------------------------
(* The theorems *)

\* Every document has a list and a text, every answer a status, and the records of
\* a CSV are texts, whatever the CSV holds (readFile, cleanupRecordColumns).
THEOREM TypeCorrect == Spec => []TypeOK
  <1>1. LookupInv => TypeOK
    <2> SUFFICES ASSUME LookupInv PROVE TypeOK
      OBVIOUS
    <2> USE DEF LookupInv
    <2>1. ASSUME NEW a \in stored PROVE a.list \in {"eiDAS", "Mozilla"} /\ a.certificate \in Seq(Tokens)
      <3>1. PICK w \in Publications : a = StoredFor(w)
        BY DEF StoreInv
      <3>2. w.list \in {"eiDAS", "Mozilla"}
        BY PublicationKinds
      <3> QED
        BY <3>1, <3>2, StoredData
    <2>2. \A w \in published : w.what = Empty \/ w.what \in Written
      BY PublicationKinds DEF StoreInv
    <2>3. answer # Silence => answer.status \in Statuses \cup {None}
      <3>1. answer.to = "pkcs7" /\ Pkcs7Answer(answer) => answer.status = 409
        BY Pkcs7Unreadable DEF Pkcs7Answer
      <3> QED
        BY <3>1 DEF AnswerInv, LookupAnswer, ChainAnswer, Statuses
    <2> QED
      BY <2>1, <2>2, <2>3 DEF TypeOK, RecordsInv
  <1> QED
    BY <1>1, InvCorrect, PTL

\* A CSV of any length is read in full or not at all, and every record that was
\* read still has the certificate of its cell after stripPEMInfo, in every style.
THEOREM CsvCorrect == Spec => []CsvAllOrNothing
  <1>1. LookupInv => CsvAllOrNothing
    <2> SUFFICES ASSUME LookupInv, parse = "read" PROVE
          /\ csv.cells # << >> => csv.pemColumn
          /\ Len(records) = Len(csv.cells)
          /\ \A i \in DOMAIN records :
               csv.cells[i] # Empty => Decode(records[i]) = csv.cells[i].cert
      BY DEF CsvAllOrNothing
    <2>1. /\ csv \in Csvs /\ Len(records) = Len(csv.cells) /\ records \in Seq(Seq(Tokens))
          /\ records # << >> => csv.pemColumn
          /\ \A i \in 1 .. Len(records) : /\ csv.cells[i] \in Written \cup {Empty}
                                          /\ records[i] = Cleaned(csv.cells[i])
      BY DEF LookupInv, RecordsInv
    <2>2. csv.cells \in Seq(Written \cup {Empty, Broken})
      BY <2>1, ConstantsAssumption
    <2>3. csv.cells # << >> => records # << >>
      BY <2>1, <2>2, EmptySeq
    <2>4. ASSUME NEW i \in DOMAIN records, csv.cells[i] # Empty
          PROVE  Decode(records[i]) = csv.cells[i].cert
      <3>1. i \in 1 .. Len(records)
        BY <2>1, LenProperties
      <3>2. PICK cell \in Written : cell = csv.cells[i]
        BY <2>1, <2>4, <3>1
      <3>3. /\ Cleaned(cell) \in Seq(Tokens \ {Begin, End})
            /\ DataOf(Cleaned(cell)) = Lines(cell.cert, << >>)
        BY <2>4, <3>2, CleanedData
      <3>4. cell.cert \in Certs
        BY DEF Written
      <3>5. Decode(Cleaned(cell)) = cell.cert
        BY <3>3, <3>4, DecodeIsData
      <3> QED
        BY <2>1, <3>1, <3>2, <3>5
    <2> QED
      BY <2>1, <2>3, <2>4
  <1> QED
    BY <1>1, InvCorrect, PTL

\* ds:X509Certificate is a base64Binary: its text may be padded or broken into
\* lines, but it is no PEM.  PEM in an eiDAS list would be stored as it is, since
\* only the CSV goes through stripPEMInfo, and could not be decoded.
EidasInBase64 == \A w \in EidasTexts : w.style \in Base64Styles

LEMMA StoredInBase64 ==
  ASSUME EidasInBase64, StoreInv, NEW a \in stored
  PROVE  a.certificate \in Seq(Tokens \ {Begin, End})
  <1>1. PICK w \in published : a = StoredFor(w) /\ w \in Publications
    BY DEF StoreInv
  <1>2. CASE w.list = "Mozilla"
    BY <1>1, <1>2, StoredData
  <1>3. CASE w.list = "eiDAS" /\ w.what \in EidasTexts /\ w.what \in Written
    <2>1. w.what.cert \in Certs /\ w.what.style \in Base64Styles
      BY <1>3 DEF EidasInBase64, Written
    <2>2. Text(w.what.cert, w.what.style) \in Seq(Tokens \ {Begin, End})
      BY <2>1, Base64Text
    <2>3. a.certificate = Trim(Text(w.what.cert, w.what.style))
      BY <1>1, <1>3 DEF StoredFor, StoredText
    <2> QED
      BY <2>2, <2>3, TrimKeepsData
  <1> QED
    BY <1>1, <1>2, <1>3, PublicationKinds

\* What is stored decodes to a certificate that the list published, after the
\* cleaning of the columns and the trim of the schema, or is an empty cell.
THEOREM StoredCorrect ==
  ASSUME EidasInBase64
  PROVE  Spec => []StoredAsPublished
  <1>1. LookupInv => StoredAsPublished
    <2> SUFFICES ASSUME LookupInv, NEW a \in stored PROVE
          \/ \E w \in published : /\ w.list = a.list /\ w.what # Empty
                                  /\ w.what.cert = Decode(a.certificate)
          \/ a.certificate = << >> /\ [list |-> "Mozilla", what |-> Empty] \in published
      BY DEF StoredAsPublished
    <2>1. PICK w \in published : a = StoredFor(w) /\ w \in Publications
      BY DEF LookupInv, StoreInv
    <2>2. CASE w.what = Empty
      <3>1. a.certificate = << >> /\ w.list = "Mozilla"
        BY <2>1, <2>2, StoredData
      <3>2. w = [list |-> "Mozilla", what |-> Empty]
        BY <2>1, <2>2, <3>1 DEF Publications
      <3> QED
        BY <3>1, <3>2
    <2>3. CASE w.what # Empty
      <3>1. w.what \in Written /\ DataOf(a.certificate) = Lines(w.what.cert, << >>)
            /\ w.list = a.list
        BY <2>1, <2>3, StoredData
      <3>2. w.what.cert \in Certs
        BY <3>1 DEF Written
      <3>3. a.certificate \in Seq(Tokens \ {Begin, End})
        BY StoredInBase64 DEF LookupInv
      <3>4. Decode(a.certificate) = w.what.cert
        BY <3>1, <3>2, <3>3, DecodeIsData
      <3> QED
        BY <2>3, <3>1, <3>4
    <2> QED
      BY <2>2, <2>3
  <1> QED
    BY <1>1, InvCorrect, PTL

\* A lookup that finds something finds what a list published: a text has the same
\* data after any conversion, so that equal texts are of one certificate.  And the
\* pipe of the other endpoint reads that certificate in the text, whatever style.
THEOREM FoundCorrect == Spec => []FoundIsPublished
  <1>1. LookupInv => FoundIsPublished
    <2> SUFFICES ASSUME LookupInv, answer.to = "lookup", answer.status = 200, answer.what # Empty
                 PROVE
          /\ \E w \in published : w.what # Empty /\ w.what.cert = answer.what.cert
          /\ DecodeAll(ChainCerts(Text(answer.what.cert, answer.what.style)))
               = <<answer.what.cert>>
      BY DEF FoundIsPublished
    <2>1. LookupAnswer(answer)
      BY ConstantsAssumption DEF LookupInv, AnswerInv, Silence
    <2>2. PICK v \in Written : v = answer.what /\ Found(Text(v.cert, v.style))
      BY <2>1 DEF LookupAnswer
    <2>3. v.cert \in Certs /\ v.style \in Styles
      BY DEF Written
    <2>4. PICK text \in Seq(Tokens) :
            text = Text(v.cert, v.style) /\ DataOf(text) = Lines(v.cert, << >>)
      BY <2>3, TextData
    <2>5. PICK w \in published : w \in Publications /\ StoredFor(w).certificate = Trim(text)
      BY <2>2, <2>4 DEF Found, LookupInv, StoreInv
    <2>6. DataOf(StoredFor(w).certificate) = Lines(v.cert, << >>)
      <3>1. DataOf(Trim(text)) = DataOf(text)
        BY TrimKeepsData
      <3> QED
        BY <2>4, <2>5, <3>1, Zenon
    <2>7. w.what # Empty
      <3> SUFFICES ASSUME w.what = Empty PROVE FALSE
        OBVIOUS
      <3>1. StoredFor(w).certificate = << >>
        BY <2>5, StoredData
      <3>2. DataOf(<< >>) = << >>
        BY OnlyEmpty DEF DataOf
      <3>3. Lines(v.cert, << >>) # << >>
        BY <2>3, LinesNotEmpty
      <3> QED
        BY <2>6, <3>1, <3>2, <3>3, Zenon
    <2>8. w.what.cert = v.cert
      <3>1. DataOf(StoredFor(w).certificate) = Lines(w.what.cert, << >>)
        BY <2>5, <2>7, StoredData
      <3>2. Lines(w.what.cert, << >>) = Lines(v.cert, << >>)
        BY <2>6, <3>1, Zenon
      <3> QED
        BY <3>2, LinesInjective
    <2>9. DecodeAll(ChainCerts(Text(v.cert, v.style))) = <<v.cert>>
      BY <2>3, OneTextSplits
    <2> QED
      BY <2>2, <2>7, <2>8, <2>9
  <1> QED
    BY <1>1, InvCorrect, PTL

\* A certificate is found by its cleared text as soon as a list published it, unless
\* an eiDAS list broke it into lines or wrote it as PEM, or the CSV ends its lines
\* with carriage returns, which stripPEMInfo leaves.
THEOREM ClearedCorrect == Spec => []ClearedIsFound
  <1>1. LookupInv => ClearedIsFound
    <2> SUFFICES ASSUME LookupInv, answer.to = "lookup", answer.what \notin {None, Empty},
                        answer.status = 404, NEW w \in published, w.what # Empty,
                        w.what.cert = answer.what.cert,
                        answer.what.style \in {"cleared", "padded"},
                        ~(w.list = "eiDAS" /\ w.what.style \notin {"cleared", "padded"}),
                        w.what.style # "crlf"
                 PROVE  FALSE
      BY DEF ClearedIsFound
    <2>1. LookupAnswer(answer)
      BY ConstantsAssumption DEF LookupInv, AnswerInv, Silence
    <2>2. PICK v \in Written : v = answer.what /\ ~Found(Text(v.cert, v.style))
      BY <2>1 DEF LookupAnswer
    <2>3. v.cert \in Certs /\ v.style \in {"cleared", "padded"}
      BY <2>2 DEF Written
    <2>4. \A style \in {"cleared", "padded"} : Trim(Text(v.cert, style)) = Lines(v.cert, << >>)
      <3>1. /\ Trim(Lines(v.cert, << >>)) = Lines(v.cert, << >>)
            /\ Trim((<<LF, SP>> \o Lines(v.cert, << >>)) \o <<LF, SP>>) = Lines(v.cert, << >>)
        BY <2>3, TrimOfLines
      <3>2. /\ Text(v.cert, "cleared") = Lines(v.cert, << >>)
            /\ Text(v.cert, "padded") = (<<LF, SP>> \o Lines(v.cert, << >>)) \o <<LF, SP>>
        BY DEF Text
      <3>3. Trim(Text(v.cert, "cleared")) = Lines(v.cert, << >>)
        BY <3>1, <3>2, Zenon
      <3>4. Trim(Text(v.cert, "padded")) = Lines(v.cert, << >>)
        BY <3>1, <3>2, Zenon
      <3> QED
        BY <3>3, <3>4
    <2>5. w \in Publications /\ StoredFor(w) \in stored
      BY DEF LookupInv, StoreInv
    <2>6. StoredFor(w).certificate = Lines(v.cert, << >>)
      <3>1. w.what \in Written /\ w.what.cert = v.cert
        BY <2>2, <2>5, StoredData
      <3>2. CASE w.list = "eiDAS"
        <4>1. w.what.style \in {"cleared", "padded"}
          BY <3>2
        <4>2. StoredFor(w).certificate = Trim(Text(v.cert, w.what.style))
          BY <3>1, <3>2 DEF StoredFor, StoredText
        <4> QED
          BY <2>4, <4>1, <4>2
      <3>3. CASE w.list = "Mozilla"
        <4>1. StoredFor(w).certificate = Trim(StripPEMInfo(Text(v.cert, w.what.style)))
          BY <3>1, <3>3 DEF StoredFor, StoredText, Cleaned
        <4>2. w.what.style \in Styles
          BY <3>1 DEF Written
        <4>3. Trim(StripPEMInfo(Text(v.cert, w.what.style))) = Lines(v.cert, << >>)
          BY <2>3, <4>2, CellIsCleared
        <4> QED
          BY <4>1, <4>3
      <3> QED
        BY <2>5, <3>2, <3>3, PublicationKinds
    <2>7. Found(Text(v.cert, v.style))
      <3>1. Trim(Text(v.cert, v.style)) = Lines(v.cert, << >>)
        BY <2>3, <2>4
      <3> QED
        BY <2>5, <2>6, <3>1 DEF Found
    <2> QED
      BY <2>2, <2>7
  <1> QED
    BY <1>1, InvCorrect, PTL

\* No text with PEM lines is found: the stored texts have none, since those of the
\* Mozilla list are cleaned and those of eiDAS lists never had one.
THEOREM PemCorrect ==
  ASSUME EidasInBase64
  PROVE  Spec => []PemIsNotFound
  <1>1. LookupInv => PemIsNotFound
    <2> SUFFICES ASSUME LookupInv, answer.to = "lookup", answer.what \notin {None, Empty},
                        answer.what.style \in {"pem", "crlf", "quoted"}, answer.status # 404
                 PROVE  FALSE
      BY DEF PemIsNotFound
    <2>1. LookupAnswer(answer)
      BY ConstantsAssumption DEF LookupInv, AnswerInv, Silence
    <2>2. PICK v \in Written : v = answer.what /\ Found(Text(v.cert, v.style))
      BY <2>1 DEF LookupAnswer
    <2>3. v.cert \in Certs /\ v.style \in {"pem", "crlf", "quoted"}
      BY <2>2 DEF Written
    <2>4. PICK a \in stored : a.certificate = Trim(Text(v.cert, v.style))
      BY <2>2 DEF Found
    <2>5. Has(a.certificate, Begin)
      BY <2>3, <2>4, PemHasBegin
    <2>6. a.certificate \in Seq(Tokens \ {Begin, End})
      BY StoredInBase64 DEF LookupInv
    <2> QED
      BY <2>5, <2>6, LenProperties, ElementOfSeq DEF Has
  <1> QED
    BY <1>1, InvCorrect, PTL

\* A chain of any length is split into its certificates in their order, whatever
\* ends its lines, or, if more than one character of its lead is left, is refused.
\* A PKCS7 file is always refused.
THEOREM SplitCorrect == Spec => []ChainIsSplit
  <1>1. LookupInv => ChainIsSplit
    <2> DEFINE lead == {i \in DOMAIN answer.what.lead : answer.what.lead[i] # LF}
    <2>0. ASSUME LookupInv, answer.to = "pkcs7" PROVE answer.status = 409
      <3>1. Pkcs7Answer(answer)
        BY <2>0, ConstantsAssumption DEF LookupInv, AnswerInv, Silence
      <3> QED
        BY <3>1, Pkcs7Unreadable DEF Pkcs7Answer
    <2> SUFFICES ASSUME LookupInv, answer.to = "chain", answer.what # None
                 PROVE  IF Cardinality(lead) <= 1
                        THEN answer.status = None /\ answer.certs = answer.what.certs
                        ELSE answer.status = 409
      BY <2>0 DEF ChainIsSplit
    <2>1. ChainAnswer(answer)
      BY ConstantsAssumption DEF LookupInv, AnswerInv, Silence
    <2> DEFINE f == answer.what
               certs == DecodeAll(ChainCerts(ChainText(f.lead, f.certs, f.eol)))
    <2>2. /\ f \in Chains
          /\ IF Unreadable \in ToSet(certs) THEN answer.status = 409
                                            ELSE answer.status = None /\ answer.certs = certs
      BY <2>1 DEF ChainAnswer
    <2>3. f.lead \in Seq(White) /\ f.certs \in Seq(Certs) /\ f.eol \in Seq(White)
      <3>1. f \in ChainFiles
        BY <2>2, ConstantsAssumption
      <3>2. f.lead \in Seq(White) /\ f.certs \in Seq(Certs) /\ f.eol \in {<< >>, <<LF>>, <<CR, LF>>}
        BY <3>1 DEF ChainFiles
      <3> QED
        BY <3>2, WhiteTexts
    <2>4. IF Cardinality(lead) <= 1 THEN certs = f.certs ELSE Unreadable \in ToSet(certs)
      BY <2>3, ChainSplits
    <2>5. Unreadable \notin ToSet(f.certs)
      <3>1. \A i \in DOMAIN f.certs : f.certs[i] \in Certs
        BY <2>3, LenProperties, ElementOfSeq
      <3> QED
        BY <3>1, ConstantsAssumption DEF ToSet
    <2> HIDE DEF certs, lead
    <2> QED
      BY <2>2, <2>4, <2>5
  <1> QED
    BY <1>1, InvCorrect, PTL

=============================================================================
