------------------------- MODULE TrustedListProofs -------------------------
(***************************************************************************)
(* Proofs about TrustedList for every document: any number of providers,   *)
(* services and DigitalIds in any order.                                   *)
(*                                                                         *)
(* What the second loop still has to make of the services found, together  *)
(* with the trust anchors it has made, is at any time what the reference   *)
(* says of the providers that have been read.                              *)
(***************************************************************************)
EXTENDS TrustedList, SequenceLemmas

\* Services that have a certificate, before and after they got the name of their
\* provider, and the certificate that each becomes.
Certified == {s \in Services \cup Found : HasX509(s)}
CertificateAt == [s \in Certified |-> X509Certificate(s)]
CertificatesOf(services) == MapSeq(CertificateAt, services)

\* The number of providers that have been read, and what was published by the
\* first n of them.
Parsed == Len(doc) - Len(todo)
PublishedByFirst(n) == FlattenSeq([i \in 1 .. n |-> PublishedBy(doc[i])])

NamelessRead == \E i \in 1 .. Parsed : Nameless(doc[i])
NamelessFound(services) == \E i \in DOMAIN services : ~(services[i].named /\ services[i].tspNamed)

Types ==
  /\ doc \in Seq(Providers)
  /\ todo \in Seq(Providers)
  /\ found \in Seq({s \in Found : HasX509(s)})
  /\ anchors \in Seq(Certs)
  /\ stage \in {"providers", "services", "returned", "thrown"}

\* The loop over the providers is where it seems to be, and has read all before.
Position ==
  /\ Len(todo) <= Len(doc)
  /\ \A i \in 1 .. Len(todo) : todo[i] = doc[Parsed + i]
  /\ \A i \in 1 .. Parsed : ~ProviderThrows(doc[i])
  /\ stage # "providers" /\ todo # << >> => ProviderThrows(Head(todo))

Account ==
  /\ stage # "thrown" => /\ anchors \o CertificatesOf(found) = PublishedByFirst(Parsed)
                         /\ NamelessRead <=> NamelessFound(found)
  /\ stage = "returned" => found = << >>
  /\ stage = "thrown" => anchors = << >> /\ NamelessRead

ParseInv == Types /\ Position /\ Account
-----------------------------------------------------------------------------
(* The certificates of a service and of a provider *)

\* findX509CredentialDigitalId finds the certificate that the reference names.
LEMMA FirstCertificate ==
  ASSUME NEW s, s.digitalIds \in Seq(Certs \cup {NoCert}), HasX509(s)
  PROVE  X509Certificate(s) \in Certs /\ CertificateOf(s) = <<X509Certificate(s)>>
  <1> DEFINE ids == s.digitalIds
             is == {i \in DOMAIN ids : ids[i] \in Certs}
             First(i) == IsX509(ids[i]) /\ \A j \in 1 .. i - 1 : ~IsX509(ids[j])
             n == CHOOSE i \in DOMAIN ids : First(i)
  <1>1. /\ Len(ids) \in Nat /\ DOMAIN ids = 1 .. Len(ids)
        /\ \A i \in 1 .. Len(ids) : IsX509(ids[i]) <=> ids[i] \in Certs
    BY LenProperties, ElementOfSeq, ConstantsAssumption DEF IsX509
  <1>2. PICK m \in is : \A i \in is : m <= i
    <2>1. is # {} /\ is \subseteq Nat
      BY <1>1 DEF HasX509
    <2> QED
      BY <2>1, LeastNumber
  <1>3. m \in DOMAIN ids /\ First(m)
    BY <1>1, <1>2
  <1>4. n \in DOMAIN ids /\ First(n)
    BY <1>3
  <1>5. n \in is /\ \A i \in is : n <= i
    <2> HIDE DEF n
    <2>1. n \in is
      BY <1>1, <1>4
    <2>2. ASSUME NEW i \in is, ~(n <= i) PROVE FALSE
      <3>1. i \in 1 .. n - 1
        BY <1>1, <1>4, <2>2
      <3> QED
        BY <1>1, <1>4, <3>1
    <2> QED
      BY <2>1, <2>2
  <1>6. Min(is) = n
    <2> HIDE DEF n
    <2>1. \A k \in is : (\A i \in is : k <= i) => k = n
      BY <1>1, <1>5
    <2> HIDE DEF is
    <2> QED
      BY <1>5, <2>1 DEF Min
  <1>7. X509Certificate(s) = ids[n]
    BY DEF X509Certificate
  <1>8. CertificateOf(s) = <<ids[Min(is)]>>
    BY <1>2 DEF CertificateOf
  <1> HIDE DEF n
  <1> QED
    BY <1>5, <1>6, <1>7, <1>8

LEMMA NoCertificate ==
  ASSUME NEW s, s.digitalIds \in Seq(Certs \cup {NoCert}), ~HasX509(s)
  PROVE  CertificateOf(s) = << >>
  <1>1. \A i \in DOMAIN s.digitalIds : s.digitalIds[i] \notin Certs
    BY ConstantsAssumption DEF HasX509, IsX509
  <1> QED
    BY <1>1 DEF CertificateOf

LEMMA CertificateMaps == Maps(CertificateAt, Certified, Certs)
  BY FirstCertificate DEF Maps, CertificateAt, Certified, Services, Found

\* Of a service findX509CredentialDigitalId makes what the reference makes of it.
PartOf(s) == IF HasX509(s) THEN <<s>> ELSE << >>

LEMMA PartMaps ==
  ASSUME NEW s \in Services \cup Found
  PROVE  PartOf(s) \in Seq(Certified) /\ MapSeq(CertificateAt, PartOf(s)) = CertificateOf(s)
  <1>0. s.digitalIds \in Seq(Certs \cup {NoCert})
    BY DEF Services, Found
  <1>1. CASE HasX509(s)
    <2>1. s \in Certified /\ PartOf(s) = <<s>>
      BY <1>1 DEF Certified, PartOf
    <2>2. CertificateAt[s] = X509Certificate(s)
      BY <2>1 DEF CertificateAt
    <2>3. CertificateOf(s) = <<X509Certificate(s)>>
      BY <1>0, <1>1, FirstCertificate
    <2>4. MapSeq(CertificateAt, <<s>>) = <<CertificateAt[s]>>
      <3>1. DOMAIN <<s>> = 1 .. 1 /\ <<s>>[1] = s
        OBVIOUS
      <3>2. MapSeq(CertificateAt, <<s>>) = [i \in 1 .. 1 |-> CertificateAt[<<s>>[i]]]
        BY <3>1 DEF MapSeq
      <3> HIDE DEF CertificateAt
      <3> QED
        BY <3>1, <3>2
    <2> QED
      BY <2>1, <2>2, <2>3, <2>4
  <1>2. CASE ~HasX509(s)
    <2>1. PartOf(s) = << >> /\ CertificateOf(s) = << >>
      BY <1>0, <1>2, NoCertificate DEF PartOf
    <2>2. MapSeq(CertificateAt, << >>) = << >>
      BY DEF MapSeq
    <2> QED
      BY <2>1, <2>2
  <1> QED
    BY <1>1, <1>2

LEMMA ProviderCertificates ==
  ASSUME NEW p \in Providers
  PROVE  /\ X509Services(p) \in Seq({s \in Services : HasX509(s)})
         /\ PublishedBy(p) = CertificatesOf(X509Services(p))
  <1> DEFINE X509 == {s \in Services : HasX509(s)}
             ss == p.services
             parts == [i \in DOMAIN ss |-> PartOf(ss[i])]
  <1>1. Len(ss) \in Nat /\ DOMAIN ss = 1 .. Len(ss) /\ \A i \in DOMAIN ss : ss[i] \in Services
    BY LenProperties, ElementOfSeq DEF Providers
  <1>2. X509Services(p) = FlattenSeq(parts)
    BY DEF X509Services, PartOf
  <1>3. \A s \in Services : PartOf(s) \in Seq(X509) /\ PartOf(s) \in Seq(Certified)
    <2> SUFFICES ASSUME NEW s \in Services PROVE PartOf(s) \in Seq(X509) /\ PartOf(s) \in Seq(Certified)
      OBVIOUS
    <2>1. PartOf(s) \in Seq(Certified)
      BY PartMaps
    <2>2. CASE HasX509(s)
      <3>1. s \in X509 /\ PartOf(s) = <<s>>
        BY <2>2 DEF PartOf
      <3> HIDE DEF X509
      <3> QED
        BY <2>1, <3>1
    <2>3. CASE ~HasX509(s)
      BY <2>1, <2>3 DEF PartOf
    <2> QED
      BY <2>2, <2>3
  <1>4. parts \in Seq(Seq(X509)) /\ parts \in Seq(Seq(Certified))
    <2>1. parts = [i \in 1 .. Len(ss) |-> PartOf(ss[i])]
      BY <1>1
    <2>2. ASSUME NEW T, \A i \in 1 .. Len(ss) : PartOf(ss[i]) \in Seq(T)
          PROVE  [i \in 1 .. Len(ss) |-> PartOf(ss[i])] \in Seq(Seq(T))
      <3> HIDE DEF ss
      <3> QED
        BY <1>1, <2>2
    <2>3. \A i \in 1 .. Len(ss) : PartOf(ss[i]) \in Seq(X509) /\ PartOf(ss[i]) \in Seq(Certified)
      BY <1>1, <1>3
    <2> HIDE DEF ss, parts, X509
    <2> QED
      BY <2>1, <2>2, <2>3
  <1>5. MapParts(CertificateAt, parts) = [i \in DOMAIN ss |-> CertificateOf(ss[i])]
    <2>1. \A i \in DOMAIN ss : MapSeq(CertificateAt, PartOf(ss[i])) = CertificateOf(ss[i])
      BY <1>1, PartMaps
    <2>2. DOMAIN parts = DOMAIN ss /\ \A i \in DOMAIN ss : parts[i] = PartOf(ss[i])
      OBVIOUS
    <2> HIDE DEF ss, parts
    <2> QED
      BY <2>1, <2>2 DEF MapParts
  <1>6. PublishedBy(p) = FlattenSeq(MapParts(CertificateAt, parts))
    BY <1>5 DEF PublishedBy
  <1> HIDE DEF parts
  <1>7. FlattenSeq(MapParts(CertificateAt, parts)) = MapSeq(CertificateAt, FlattenSeq(parts))
    BY <1>4, CertificateMaps, FlattenMap
  <1>8. FlattenSeq(parts) \in Seq(X509)
    BY <1>4, FlattenType
  <1> QED
    BY <1>2, <1>6, <1>7, <1>8 DEF CertificatesOf

\* The name of the provider changes nothing of the certificate.
LEMMA NamedCertificate ==
  ASSUME NEW s \in Services, NEW p \in Providers, HasX509(s)
  PROVE  /\ WithTSPName(s, p) \in Found /\ HasX509(WithTSPName(s, p))
         /\ CertificateAt[WithTSPName(s, p)] = CertificateAt[s]
         /\ WithTSPName(s, p).named = s.named
         /\ WithTSPName(s, p).tspNamed <=> p.info = "named"
  <1> DEFINE t == WithTSPName(s, p)
  <1>1. /\ t \in Found /\ t.digitalIds = s.digitalIds /\ t.named = s.named
        /\ t.tspNamed <=> p.info = "named"
    BY DEF WithTSPName, Services, Found
  <1> HIDE DEF t
  <1>2. HasX509(t) /\ X509Certificate(t) = X509Certificate(s)
    BY <1>1 DEF HasX509, X509Certificate
  <1>3. s \in Certified /\ t \in Certified
    BY <1>1, <1>2 DEF Certified
  <1>4. CertificateAt[t] = X509Certificate(t) /\ CertificateAt[s] = X509Certificate(s)
    BY <1>3 DEF CertificateAt
  <1> QED
    BY <1>1, <1>2, <1>4 DEF t

LEMMA FoundCertificates ==
  ASSUME NEW p \in Providers
  PROVE  /\ FoundIn(p) \in Seq({s \in Found : HasX509(s)})
         /\ CertificatesOf(FoundIn(p)) = PublishedBy(p)
         /\ NamelessFound(FoundIn(p)) <=> Nameless(p)
  <1> DEFINE X509 == {s \in Services : HasX509(s)}
             Fs == {s \in Found : HasX509(s)}
  <1>1. PICK ss \in Seq(X509) : ss = X509Services(p)
    BY ProviderCertificates
  <1>2. /\ Len(ss) \in Nat /\ DOMAIN ss = 1 .. Len(ss)
        /\ \A i \in 1 .. Len(ss) : ss[i] \in Services /\ HasX509(ss[i])
    BY LenProperties, ElementOfSeq
  <1> DEFINE F == [i \in 1 .. Len(ss) |-> WithTSPName(ss[i], p)]
  <1>3. FoundIn(p) = F
    BY <1>1 DEF FoundIn
  <1>4. \A i \in 1 .. Len(ss) :
          /\ WithTSPName(ss[i], p) \in Fs
          /\ CertificateAt[WithTSPName(ss[i], p)] = CertificateAt[ss[i]]
          /\ WithTSPName(ss[i], p).named = ss[i].named
          /\ WithTSPName(ss[i], p).tspNamed <=> p.info = "named"
    BY <1>2, NamedCertificate
  <1>5. \A i \in 1 .. Len(ss) : F[i] = WithTSPName(ss[i], p)
    OBVIOUS
  <1>6. F \in Seq(Fs) /\ DOMAIN F = 1 .. Len(ss)
    BY <1>2, <1>4
  <1> HIDE DEF F, Fs
  <1>7. CertificatesOf(F) = PublishedBy(p)
    <2>1. CertificatesOf(F) = [i \in 1 .. Len(ss) |-> CertificateAt[F[i]]]
      BY <1>6 DEF CertificatesOf, MapSeq
    <2>2. CertificatesOf(ss) = [i \in 1 .. Len(ss) |-> CertificateAt[ss[i]]]
      BY <1>2 DEF CertificatesOf, MapSeq
    <2>3. \A i \in 1 .. Len(ss) : CertificateAt[F[i]] = CertificateAt[ss[i]]
      BY <1>4, <1>5
    <2> QED
      BY <1>1, <2>1, <2>2, <2>3, ProviderCertificates
  <1>8. NamelessFound(F) <=> \E i \in 1 .. Len(ss) : ~(ss[i].named /\ p.info = "named")
    BY <1>4, <1>5, <1>6 DEF NamelessFound
  <1>9. Nameless(p) <=> /\ ss # << >>
                        /\ \/ p.info # "named"
                           \/ \E i \in 1 .. Len(ss) : ~ss[i].named
    BY <1>1, <1>2 DEF Nameless
  <1>10. ss # << >> <=> \E i \in 1 .. Len(ss) : TRUE
    <2>1. ss # << >> => Len(ss) # 0
      BY EmptySeq
    <2>2. ss # << >> => 1 \in 1 .. Len(ss)
      BY <1>2, <2>1
    <2>3. ss = << >> => Len(ss) = 0
      OBVIOUS
    <2> QED
      BY <1>2, <2>2, <2>3
  <1> HIDE DEF X509
  <1>11. NamelessFound(F) <=> Nameless(p)
    BY <1>8, <1>9, <1>10
  <1> QED
    BY <1>3, <1>6, <1>7, <1>11 DEF Fs

LEMMA CertificatesConcat ==
  ASSUME NEW s \in Seq({x \in Found : HasX509(x)}), NEW t \in Seq({x \in Found : HasX509(x)})
  PROVE  /\ CertificatesOf(s) \in Seq(Certs)
         /\ CertificatesOf(s \o t) = CertificatesOf(s) \o CertificatesOf(t)
  <1>1. s \in Seq(Certified) /\ t \in Seq(Certified)
    <2>1. {x \in Found : HasX509(x)} \subseteq Certified
      BY DEF Certified
    <2> HIDE DEF Certified
    <2>2. ASSUME NEW S, NEW T, S \subseteq T, NEW u \in Seq(S) PROVE u \in Seq(T)
      <3>1. Len(u) \in Nat /\ u = [i \in 1 .. Len(u) |-> u[i]] /\ \A i \in 1 .. Len(u) : u[i] \in T
        BY <2>2, LenProperties, ElementOfSeq
      <3>2. [i \in 1 .. Len(u) |-> u[i]] \in Seq(T)
        BY <3>1
      <3> QED
        BY <3>1, <3>2
    <2> QED
      BY <2>1, <2>2
  <1> QED
    BY <1>1, CertificateMaps, MapType, MapConcat DEF CertificatesOf

\* The second loop moves one certificate over.
LEMMA CertificatesHead ==
  ASSUME NEW s \in Seq({x \in Found : HasX509(x)}), s # << >>
  PROVE  /\ X509Certificate(Head(s)) \in Certs
         /\ CertificatesOf(s) = <<X509Certificate(Head(s))>> \o CertificatesOf(Tail(s))
         /\ \/ ~(Head(s).named /\ Head(s).tspNamed)
            \/ NamelessFound(s) <=> NamelessFound(Tail(s))
  <1> DEFINE Fs == {x \in Found : HasX509(x)}
  <1>1. /\ Head(s) \in Fs /\ Tail(s) \in Seq(Fs) /\ Head(s) = s[1]
        /\ Len(s) \in Nat \ {0} /\ Len(Tail(s)) = Len(s) - 1
        /\ DOMAIN s = 1 .. Len(s) /\ DOMAIN Tail(s) = 1 .. Len(s) - 1
        /\ \A i \in 1 .. Len(s) - 1 : Tail(s)[i] = s[i + 1]
    BY EmptySeq, HeadTailProperties, LenProperties
  <1>2. PICK h \in Certified : h = Head(s) /\ CertificateAt[h] = X509Certificate(h)
    BY <1>1 DEF Certified, CertificateAt
  <1>3. X509Certificate(h) \in Certs
    BY <1>2, CertificateMaps DEF Maps
  <1>4. <<h>> \o Tail(s) = s
    BY <1>1, <1>2, HeadTailProperties, ConcatProperties
  <1>5. CertificatesOf(<<h>>) = <<CertificateAt[h]>>
    <2>1. DOMAIN <<h>> = 1 .. 1 /\ <<h>>[1] = h
      OBVIOUS
    <2>2. MapSeq(CertificateAt, <<h>>) = [i \in 1 .. 1 |-> CertificateAt[<<h>>[i]]]
      BY <2>1 DEF MapSeq
    <2> HIDE DEF CertificateAt
    <2> QED
      BY <2>1, <2>2 DEF CertificatesOf
  <1>6. <<h>> \in Seq(Fs)
    <2> HIDE DEF Fs
    <2> QED
      BY <1>1, <1>2
  <1>7. CertificatesOf(s) = CertificatesOf(<<h>>) \o CertificatesOf(Tail(s))
    BY <1>1, <1>4, <1>6, CertificatesConcat
  <1>8. ASSUME s[1].named /\ s[1].tspNamed
        PROVE  NamelessFound(s) <=> NamelessFound(Tail(s))
    <2> DEFINE N(i) == ~(s[i].named /\ s[i].tspNamed)
    <2>1. NamelessFound(s) <=> \E i \in 1 .. Len(s) : N(i)
      BY <1>1 DEF NamelessFound
    <2>2. NamelessFound(Tail(s)) <=> \E i \in 1 .. Len(s) - 1 : N(i + 1)
      BY <1>1 DEF NamelessFound
    <2>3. ~N(1)
      BY <1>8
    <2> HIDE DEF N
    <2>4. ASSUME NEW i \in 1 .. Len(s), N(i) PROVE \E j \in 1 .. Len(s) - 1 : N(j + 1)
      <3>1. i # 1
        BY <2>3, <2>4
      <3>2. i - 1 \in 1 .. Len(s) - 1 /\ (i - 1) + 1 = i
        BY <1>1, <3>1
      <3> QED
        BY <2>4, <3>2
    <2>5. \A j \in 1 .. Len(s) - 1 : j + 1 \in 1 .. Len(s)
      BY <1>1
    <2> QED
      BY <2>1, <2>2, <2>4, <2>5
  <1> QED
    BY <1>1, <1>2, <1>3, <1>5, <1>7, <1>8

LEMMA NamelessConcat ==
  ASSUME NEW S, NEW s \in Seq(S), NEW t \in Seq(S)
  PROVE  NamelessFound(s \o t) <=> (NamelessFound(s) \/ NamelessFound(t))
  <1> DEFINE N(x) == ~(x.named /\ x.tspNamed)
  <1>1. PICK c \in Seq(S) : c = s \o t
    BY ConcatProperties
  <1>2. /\ Len(s) \in Nat /\ Len(t) \in Nat /\ DOMAIN s = 1 .. Len(s) /\ DOMAIN t = 1 .. Len(t)
        /\ DOMAIN c = 1 .. Len(s) + Len(t)
        /\ \A i \in 1 .. Len(s) + Len(t) : c[i] = IF i <= Len(s) THEN s[i] ELSE t[i - Len(s)]
    BY <1>1, ConcatProperties, LenProperties
  <1>3. NamelessFound(c) <=> \E i \in 1 .. Len(s) + Len(t) : N(c[i])
    BY <1>2 DEF NamelessFound
  <1>4. /\ NamelessFound(s) <=> \E i \in 1 .. Len(s) : N(s[i])
        /\ NamelessFound(t) <=> \E i \in 1 .. Len(t) : N(t[i])
    BY <1>2 DEF NamelessFound
  <1> HIDE DEF N
  <1>5. ASSUME NEW i \in 1 .. Len(s) + Len(t), N(c[i])
        PROVE  (\E j \in 1 .. Len(s) : N(s[j])) \/ (\E j \in 1 .. Len(t) : N(t[j]))
    <2>1. CASE i <= Len(s)
      BY <1>2, <1>5, <2>1
    <2>2. CASE ~(i <= Len(s))
      <3>1. i - Len(s) \in 1 .. Len(t)
        BY <1>2, <2>2
      <3> QED
        BY <1>2, <1>5, <2>2, <3>1
    <2> QED
      BY <2>1, <2>2
  <1>6. ASSUME NEW j \in 1 .. Len(s), N(s[j]) PROVE \E i \in 1 .. Len(s) + Len(t) : N(c[i])
    <2>1. j \in 1 .. Len(s) + Len(t) /\ j <= Len(s)
      BY <1>2
    <2> QED
      BY <1>2, <1>6, <2>1
  <1>7. ASSUME NEW j \in 1 .. Len(t), N(t[j]) PROVE \E i \in 1 .. Len(s) + Len(t) : N(c[i])
    <2>1. PICK i \in 1 .. Len(s) + Len(t) : i = j + Len(s) /\ ~(i <= Len(s)) /\ i - Len(s) = j
      <3>1. j + Len(s) \in 1 .. Len(s) + Len(t)
        BY <1>2
      <3>2. ~(j + Len(s) <= Len(s)) /\ (j + Len(s)) - Len(s) = j
        BY <1>2
      <3> QED
        BY <3>1, <3>2
    <2> QED
      BY <1>2, <1>7, <2>1
  <1> QED
    BY <1>1, <1>3, <1>4, <1>5, <1>6, <1>7

-----------------------------------------------------------------------------
(* What was published by the providers that have been read *)

LEMMA PublishedType ==
  ASSUME NEW p \in Providers
  PROVE  PublishedBy(p) \in Seq(Certs)
  <1>1. FoundIn(p) \in Seq({x \in Found : HasX509(x)}) /\ CertificatesOf(FoundIn(p)) = PublishedBy(p)
    BY FoundCertificates
  <1>2. << >> \in Seq({x \in Found : HasX509(x)})
    BY EmptySeq
  <1> QED
    BY <1>1, <1>2, CertificatesConcat

LEMMA PublishedNext ==
  ASSUME NEW n \in Nat, doc \in Seq(Providers), n + 1 <= Len(doc)
  PROVE  PublishedByFirst(n + 1) = PublishedByFirst(n) \o PublishedBy(doc[n + 1])
  <1>1. Len(doc) \in Nat /\ \A i \in 1 .. Len(doc) : doc[i] \in Providers
    BY LenProperties, ElementOfSeq
  <1>2. \A i \in 1 .. n + 1 : i \in 1 .. Len(doc)
    BY <1>1
  <1>3. \A i \in 1 .. n + 1 : PublishedBy(doc[i]) \in Seq(Certs)
    BY <1>1, <1>2, PublishedType
  <1>4. n + 1 \in 1 .. n + 1 /\ \A i \in 1 .. n : i \in 1 .. n + 1
    OBVIOUS
  <1>5. PICK e \in Seq(Certs) : e = PublishedBy(doc[n + 1])
    BY <1>3, <1>4
  <1> DEFINE ps == [i \in 1 .. n |-> PublishedBy(doc[i])]
             qs == [i \in 1 .. n + 1 |-> PublishedBy(doc[i])]
  <1>6. ps \in Seq(Seq(Certs)) /\ Len(ps) = n /\ qs \in Seq(Seq(Certs)) /\ Len(qs) = n + 1
    BY <1>3, <1>4
  <1>7. (\A i \in 1 .. n : qs[i] = ps[i]) /\ qs[n + 1] = e
    BY <1>4, <1>5
  <1>8. PublishedByFirst(n + 1) = FlattenSeq(qs) /\ PublishedByFirst(n) = FlattenSeq(ps)
    BY DEF PublishedByFirst
  <1> HIDE DEF ps, qs
  <1>9. qs = Append(ps, e)
    <2>1. /\ Append(ps, e) \in Seq(Seq(Certs)) /\ Len(Append(ps, e)) = n + 1
          /\ \A i \in 1 .. n : Append(ps, e)[i] = ps[i]
          /\ Append(ps, e)[n + 1] = e
      BY <1>6, AppendProperties
    <2>2. \A i \in 1 .. n + 1 : qs[i] = Append(ps, e)[i]
      <3>1. \A i \in 1 .. n + 1 : i \in 1 .. n \/ i = n + 1
        OBVIOUS
      <3> QED
        BY <1>7, <2>1, <3>1
    <2> QED
      BY <1>6, <2>1, <2>2, SeqEqual
  <1> QED
    BY <1>5, <1>6, <1>8, <1>9, FlattenAppend

-----------------------------------------------------------------------------
(* ParseInv *)

LEMMA InitInv == Init => ParseInv
  <1> SUFFICES ASSUME Init PROVE ParseInv
    OBVIOUS
  <1>1. doc \in Seq(Providers) /\ todo = doc /\ Len(doc) \in Nat /\ Parsed = 0
    BY ConstantsAssumption, LenProperties DEF Init, Parsed
  <1>2. Types
    BY <1>1, EmptySeq DEF Init, Types
  <1>3. Position
    BY <1>1 DEF Init, Position
  <1>4. PublishedByFirst(0) = << >>
    <2>1. [i \in 1 .. 0 |-> PublishedBy(doc[i])] = << >>
      OBVIOUS
    <2> QED
      BY <2>1, FlattenEmpty DEF PublishedByFirst
  <1>5. CertificatesOf(<< >>) = << >> /\ ~NamelessFound(<< >>)
    BY DEF CertificatesOf, MapSeq, NamelessFound
  <1>6. << >> \o << >> = << >>
    BY EmptySeq, ConcatEmptySeq
  <1> QED
    BY <1>1, <1>2, <1>3, <1>4, <1>5, <1>6 DEF Init, ParseInv, Account, NamelessRead

LEMMA ReadProviderInv == ParseInv /\ ReadProvider => ParseInv'
  <1> SUFFICES ASSUME ParseInv, ReadProvider PROVE ParseInv'
    OBVIOUS
  <1> DEFINE Fs == {s \in Found : HasX509(s)}
             n == Parsed
  <1>1. /\ stage = "providers" /\ stage' = stage /\ doc' = doc /\ anchors' = anchors
        /\ todo # << >> /\ todo' = Tail(todo) /\ ~ProviderThrows(Head(todo))
        /\ found' = found \o FoundIn(Head(todo))
    BY DEF ReadProvider
  <1>2. /\ doc \in Seq(Providers) /\ todo \in Seq(Providers) /\ found \in Seq(Fs)
        /\ anchors \in Seq(Certs)
    BY DEF ParseInv, Types
  <1>3. /\ Len(todo) \in Nat \ {0} /\ Len(doc) \in Nat /\ Len(todo) <= Len(doc)
        /\ n = Len(doc) - Len(todo)
        /\ \A i \in 1 .. Len(todo) : todo[i] = doc[n + i]
        /\ \A i \in 1 .. n : ~ProviderThrows(doc[i])
    BY <1>1, <1>2, EmptySeq, LenProperties DEF ParseInv, Position, Parsed
  <1>4. /\ Head(todo) = todo[1] /\ Head(todo) \in Providers
        /\ todo' \in Seq(Providers) /\ Len(todo') = Len(todo) - 1
        /\ \A i \in 1 .. Len(todo) - 1 : todo'[i] = todo[i + 1]
    BY <1>1, <1>2, HeadTailProperties
  <1>5. PICK p \in Providers : p = Head(todo) /\ p = doc[n + 1] /\ ~ProviderThrows(p)
    BY <1>1, <1>3, <1>4
  <1>6. n \in Nat /\ n + 1 <= Len(doc) /\ Parsed' = n + 1
    BY <1>1, <1>3, <1>4 DEF Parsed
  <1> HIDE DEF n
  <1>7. PICK new \in Seq(Fs) : new = FoundIn(p) /\ CertificatesOf(new) = PublishedBy(p)
                               /\ (NamelessFound(new) <=> Nameless(p))
    BY FoundCertificates
  <1>8. Types'
    <2>1. found' = found \o new /\ found' \in Seq(Fs)
      BY <1>1, <1>2, <1>5, <1>7, ConcatProperties
    <2> QED
      BY <1>1, <1>2, <1>4, <2>1 DEF ParseInv, Types
  <1>9. Position'
    <2>1. \A i \in 1 .. Len(todo') : todo'[i] = doc[(n + 1) + i]
      <3> SUFFICES ASSUME NEW i \in 1 .. Len(todo') PROVE todo'[i] = doc[(n + 1) + i]
        OBVIOUS
      <3>1. i + 1 \in 1 .. Len(todo) /\ i \in 1 .. Len(todo) - 1 /\ n + (i + 1) = (n + 1) + i
        BY <1>3, <1>4, <1>6
      <3> QED
        BY <1>3, <1>4, <3>1
    <2>2. \A i \in 1 .. n + 1 : ~ProviderThrows(doc[i])
      <3>1. \A i \in 1 .. n + 1 : i \in 1 .. n \/ i = n + 1
        BY <1>6
      <3> QED
        BY <1>3, <1>5, <3>1
    <2>3. Len(todo') <= Len(doc)
      BY <1>3, <1>4
    <2> QED
      BY <1>1, <1>6, <2>1, <2>2, <2>3 DEF Position
  <1>10. Account'
    <2>1. PublishedByFirst(n + 1) = PublishedByFirst(n) \o PublishedBy(p)
      BY <1>2, <1>5, <1>6, PublishedNext
    <2>2. /\ CertificatesOf(found \o new) = CertificatesOf(found) \o CertificatesOf(new)
          /\ CertificatesOf(found) \in Seq(Certs) /\ CertificatesOf(new) \in Seq(Certs)
      BY <1>2, CertificatesConcat
    <2>3. anchors \o CertificatesOf(found) = PublishedByFirst(n) /\ (NamelessRead <=> NamelessFound(found))
      BY <1>1 DEF ParseInv, Account, n
    <2>4. anchors \o CertificatesOf(found \o new) = PublishedByFirst(n + 1)
      <3>1. PICK b \in Seq(Certs), c \in Seq(Certs) : b = CertificatesOf(found) /\ c = CertificatesOf(new)
        BY <2>2
      <3>2. (anchors \o b) \o c = anchors \o (b \o c)
        <4>1. anchors \in Seq(Certs)
          BY <1>2
        <4> HIDE DEF Fs
        <4> QED
          BY <4>1, ConcatAssociative
      <3> QED
        <4>1. PublishedByFirst(n + 1) = (anchors \o b) \o c
          BY <1>7, <2>1, <2>3, <3>1, Zenon
        <4>2. CertificatesOf(found \o new) = b \o c
          BY <2>2, <3>1, Zenon
        <4> QED
          BY <3>2, <4>1, <4>2, Zenon
    <2>5. NamelessFound(found \o new) <=> (NamelessFound(found) \/ NamelessFound(new))
      BY <1>2, NamelessConcat
    <2>6. NamelessRead' <=> (NamelessRead \/ Nameless(p))
      <3>1. NamelessRead' <=> \E i \in 1 .. n + 1 : Nameless(doc[i])
        BY <1>1, <1>6 DEF NamelessRead
      <3>2. NamelessRead <=> \E i \in 1 .. n : Nameless(doc[i])
        BY DEF NamelessRead, n
      <3>3. /\ \A i \in 1 .. n + 1 : i \in 1 .. n \/ i = n + 1
            /\ \A i \in 1 .. n : i \in 1 .. n + 1
            /\ n + 1 \in 1 .. n + 1
        BY <1>6
      <3> QED
        BY <1>5, <3>1, <3>2, <3>3
    <2>7. found' = found \o new
      BY <1>1, <1>5, <1>7
    <2>8. CertificatesOf(found)' = CertificatesOf(found \o new) /\ NamelessFound(found)' = NamelessFound(found \o new)
      BY <2>7 DEF CertificatesOf, NamelessFound, MapSeq
    <2>9. PublishedByFirst(Parsed)' = PublishedByFirst(n + 1)
      BY <1>1, <1>6 DEF PublishedByFirst
    <2>10. (NamelessRead <=> NamelessFound(found))'
      BY <1>7, <2>3, <2>5, <2>6, <2>8
    <2> QED
      BY <1>1, <2>4, <2>8, <2>9, <2>10 DEF Account
  <1> QED
    BY <1>8, <1>9, <1>10 DEF ParseInv

LEMMA LoopEndsInv == ParseInv /\ (ReadProviderThrows \/ ProvidersDone) => ParseInv'
  <1> SUFFICES ASSUME ParseInv, ReadProviderThrows \/ ProvidersDone PROVE ParseInv'
    OBVIOUS
  <1>1. /\ stage = "providers" /\ stage' = "services"
        /\ doc' = doc /\ todo' = todo /\ found' = found /\ anchors' = anchors
        /\ todo # << >> => ProviderThrows(Head(todo))
    BY DEF ReadProviderThrows, ProvidersDone
  <1>2. Types'
    BY <1>1 DEF ParseInv, Types
  <1>3. Position'
    BY <1>1 DEF ParseInv, Position, Parsed
  <1>4. Account'
    <2>1. /\ (anchors \o CertificatesOf(found) = PublishedByFirst(Parsed))'
             <=> anchors \o CertificatesOf(found) = PublishedByFirst(Parsed)
          /\ (NamelessRead <=> NamelessFound(found))' <=> (NamelessRead <=> NamelessFound(found))
      BY <1>1 DEF CertificatesOf, MapSeq, PublishedByFirst, Parsed, NamelessRead, NamelessFound
    <2> QED
      BY <1>1, <2>1 DEF ParseInv, Account
  <1> QED
    BY <1>2, <1>3, <1>4 DEF ParseInv

LEMMA MakeAnchorInv == ParseInv /\ MakeAnchor => ParseInv'
  <1> SUFFICES ASSUME ParseInv, MakeAnchor PROVE ParseInv'
    OBVIOUS
  <1> DEFINE Fs == {s \in Found : HasX509(s)}
  <1>1. /\ stage = "services" /\ stage' = stage /\ doc' = doc /\ todo' = todo
        /\ found # << >> /\ found' = Tail(found)
        /\ Head(found).named /\ Head(found).tspNamed
        /\ anchors' = Append(anchors, X509Certificate(Head(found)))
    BY DEF MakeAnchor
  <1>2. /\ found \in Seq(Fs) /\ anchors \in Seq(Certs)
        /\ anchors \o CertificatesOf(found) = PublishedByFirst(Parsed)
        /\ NamelessRead <=> NamelessFound(found)
    BY <1>1 DEF ParseInv, Types, Account
  <1>3. PICK c \in Certs : c = X509Certificate(Head(found))
    BY <1>1, <1>2, CertificatesHead
  <1>4. Tail(found) \in Seq(Fs)
    BY <1>1, <1>2, HeadTailProperties
  <1>5. Append(anchors, c) \in Seq(Certs)
    BY <1>2, <1>3, AppendProperties
  <1>6. Types'
    BY <1>1, <1>3, <1>4, <1>5 DEF ParseInv, Types
  <1>7. Position'
    BY <1>1 DEF ParseInv, Position, Parsed
  <1>8. Account'
    <2>1. PICK cs \in Seq(Certs) : cs = CertificatesOf(Tail(found))
      BY <1>4, CertificatesConcat
    <2>2. CertificatesOf(found) = <<c>> \o cs
      BY <1>1, <1>2, <1>3, <2>1, CertificatesHead
    <2>3. Append(anchors, c) \o cs = anchors \o (<<c>> \o cs)
      <3>1. Append(anchors, c) = anchors \o <<c>> /\ <<c>> \in Seq(Certs)
        BY <1>2, AppendIsConcat
      <3>2. (anchors \o <<c>>) \o cs = anchors \o (<<c>> \o cs)
        BY <1>2, <3>1, ConcatAssociative
      <3> QED
        BY <3>1, <3>2
    <2>4. (anchors \o CertificatesOf(found))' = PublishedByFirst(Parsed)
      <3>1. CertificatesOf(found)' = CertificatesOf(Tail(found))
        BY <1>1 DEF CertificatesOf, MapSeq
      <3> QED
        BY <1>1, <1>2, <1>3, <2>1, <2>2, <2>3, <3>1
    <2>5. PublishedByFirst(Parsed)' = PublishedByFirst(Parsed) /\ (NamelessRead' <=> NamelessRead)
      BY <1>1 DEF PublishedByFirst, Parsed, NamelessRead
    <2>6. NamelessFound(found)' <=> NamelessFound(found)
      <3>1. NamelessFound(found)' <=> NamelessFound(Tail(found))
        BY <1>1 DEF NamelessFound
      <3> QED
        BY <1>1, <1>2, <3>1, CertificatesHead
    <2> QED
      BY <1>1, <1>2, <2>4, <2>5, <2>6 DEF Account
  <1> QED
    BY <1>6, <1>7, <1>8 DEF ParseInv

LEMMA MakeAnchorThrowsInv == ParseInv /\ MakeAnchorThrows => ParseInv'
  <1> SUFFICES ASSUME ParseInv, MakeAnchorThrows PROVE ParseInv'
    OBVIOUS
  <1>1. /\ stage = "services" /\ stage' = "thrown" /\ doc' = doc /\ todo' = todo
        /\ found # << >> /\ found' = found /\ anchors' = << >>
        /\ ~(Head(found).named /\ Head(found).tspNamed)
    BY DEF MakeAnchorThrows
  <1>2. Types'
    BY <1>1, EmptySeq DEF ParseInv, Types
  <1>3. Position'
    BY <1>1 DEF ParseInv, Position, Parsed
  <1>4. NamelessFound(found)
    <2>1. 1 \in DOMAIN found /\ Head(found) = found[1]
      <3>1. found \in Seq({s \in Found : HasX509(s)})
        BY DEF ParseInv, Types
      <3> QED
        BY <1>1, <3>1, EmptySeq, LenProperties, HeadTailProperties
    <2> QED
      BY <1>1, <2>1 DEF NamelessFound
  <1>5. NamelessRead'
    BY <1>1, <1>4 DEF ParseInv, Account, NamelessRead, Parsed
  <1> QED
    BY <1>1, <1>2, <1>3, <1>5 DEF ParseInv, Account

LEMMA ReturnInv == ParseInv /\ Return => ParseInv'
  <1> SUFFICES ASSUME ParseInv, Return PROVE ParseInv'
    OBVIOUS
  <1>1. /\ stage = "services" /\ stage' = "returned" /\ found = << >>
        /\ doc' = doc /\ todo' = todo /\ found' = found /\ anchors' = anchors
    BY DEF Return
  <1>2. Types'
    BY <1>1 DEF ParseInv, Types
  <1>3. Position'
    BY <1>1 DEF ParseInv, Position, Parsed
  <1>4. /\ (anchors \o CertificatesOf(found) = PublishedByFirst(Parsed))'
           <=> anchors \o CertificatesOf(found) = PublishedByFirst(Parsed)
        /\ (NamelessRead <=> NamelessFound(found))' <=> (NamelessRead <=> NamelessFound(found))
    BY <1>1 DEF CertificatesOf, MapSeq, PublishedByFirst, Parsed, NamelessRead, NamelessFound
  <1> QED
    BY <1>1, <1>2, <1>3, <1>4 DEF ParseInv, Account

LEMMA StutterInv == ParseInv /\ UNCHANGED vars => ParseInv'
  BY DEF vars, ParseInv, Types, Position, Account, Parsed, PublishedByFirst, CertificatesOf,
         MapSeq, NamelessRead, NamelessFound

LEMMA ParseInvariant == Spec => []ParseInv
  <1>1. ParseInv /\ [Next]_vars => ParseInv'
    BY ReadProviderInv, LoopEndsInv, MakeAnchorInv, MakeAnchorThrowsInv, ReturnInv, StutterInv
       DEF Next
  <1> QED
    BY InitInv, <1>1, PTL DEF Spec

-----------------------------------------------------------------------------
(* What the parse returns *)

\* Once the loop over the providers has ended, what it has read is what can be
\* read.
LEMMA ReadableIsRead ==
  ASSUME ParseInv, stage # "providers"
  PROVE  /\ DOMAIN Readable = 1 .. Parsed
         /\ \A i \in 1 .. Parsed : Readable[i] = doc[i]
  <1> DEFINE Cut(k) == /\ \A i \in 1 .. k : ~ProviderThrows(doc[i])
                       /\ k < Len(doc) => ProviderThrows(doc[k + 1])
             n == CHOOSE k \in 0 .. Len(doc) : Cut(k)
  <1>1. /\ doc \in Seq(Providers) /\ todo \in Seq(Providers)
        /\ Len(doc) \in Nat /\ Len(todo) \in Nat /\ Len(todo) <= Len(doc)
        /\ \A i \in 1 .. Len(todo) : todo[i] = doc[Parsed + i]
        /\ \A i \in 1 .. Parsed : ~ProviderThrows(doc[i])
        /\ todo # << >> => ProviderThrows(Head(todo))
    BY LenProperties DEF ParseInv, Types, Position
  <1>2. Parsed \in 0 .. Len(doc)
    BY <1>1 DEF Parsed
  <1>3. Cut(Parsed)
    <2>1. ASSUME Parsed < Len(doc) PROVE ProviderThrows(doc[Parsed + 1])
      <3>1. Len(todo) # 0
        BY <1>1, <2>1 DEF Parsed
      <3>2. todo # << >> /\ 1 \in 1 .. Len(todo)
        BY <1>1, <3>1, EmptySeq
      <3>3. Head(todo) = doc[Parsed + 1]
        BY <1>1, <3>2, HeadTailProperties
      <3> QED
        BY <1>1, <3>2, <3>3
    <2> QED
      BY <1>1, <2>1
  <1>4. n \in 0 .. Len(doc) /\ Cut(n)
    BY <1>2, <1>3
  <1>5. Readable = SubSeq(doc, 1, n)
    BY DEF Readable
  <1> HIDE DEF n
  <1>6. n = Parsed
    <2>1. ASSUME NEW k \in 0 .. Len(doc), NEW l \in 0 .. Len(doc), Cut(k), Cut(l) PROVE ~(k < l)
      <3> SUFFICES ASSUME k < l PROVE FALSE
        OBVIOUS
      <3>1. k + 1 \in 1 .. l /\ k < Len(doc)
        BY <1>1
      <3> QED
        BY <2>1, <3>1
    <2> HIDE DEF Cut
    <2> QED
      BY <1>1, <1>2, <1>3, <1>4, <2>1
  <1>7. PICK m \in 0 .. Len(doc) : m = Parsed
    BY <1>2
  <1>8. DOMAIN SubSeq(doc, 1, m) = 1 .. m /\ \A i \in 1 .. m : SubSeq(doc, 1, m)[i] = doc[i]
    BY <1>1
  <1> QED
    BY <1>5, <1>6, <1>7, <1>8

LEMMA ReadableIsPublished ==
  ASSUME ParseInv, stage # "providers"
  PROVE  /\ ReadableCertificates = PublishedByFirst(Parsed)
         /\ (\E i \in DOMAIN Readable : Nameless(Readable[i])) <=> NamelessRead
  BY ReadableIsRead DEF ReadableCertificates, PublishedByFirst, NamelessRead

\* The parse only ever handles what it has found in the downloaded list, and
\* what becomes a trust anchor is a certificate.
THEOREM TypeCorrect == Spec => []TypeOK
  <1>1. ParseInv => TypeOK
    <2> SUFFICES ASSUME ParseInv PROVE TypeOK
      OBVIOUS
    <2>1. found \in Seq(Found)
      <3>1. Len(found) \in Nat /\ found = [i \in 1 .. Len(found) |-> found[i]]
            /\ \A i \in 1 .. Len(found) : found[i] \in Found
        <4>1. found \in Seq({s \in Found : HasX509(s)})
          BY DEF ParseInv, Types
        <4> QED
          BY <4>1, LenProperties, ElementOfSeq
      <3>2. [i \in 1 .. Len(found) |-> found[i]] \in Seq(Found)
        BY <3>1
      <3> QED
        BY <3>1, <3>2
    <2> QED
      BY <2>1 DEF ParseInv, Types, TypeOK
  <1> QED
    BY <1>1, ParseInvariant, PTL

\* The parse returns, in order, the first certificate of every service of the
\* providers before the first that cannot be read, no more and no less, and
\* throws exactly if one of those services or providers lacks its name: for a
\* list of any length.
THEOREM ParseCorrect == Spec => []ReturnsReadable
  <1>1. ParseInv => ReturnsReadable
    <2> SUFFICES ASSUME ParseInv PROVE ReturnsReadable
      OBVIOUS
    <2>1. ASSUME stage = "returned"
          PROVE  ~(\E i \in DOMAIN Readable : Nameless(Readable[i])) /\ anchors = ReadableCertificates
      <3>1. found = << >> /\ (NamelessRead <=> NamelessFound(found))
            /\ anchors \o CertificatesOf(found) = PublishedByFirst(Parsed)
        BY <2>1 DEF ParseInv, Account
      <3>2. ~NamelessFound(found) /\ CertificatesOf(found) = << >>
        BY <3>1 DEF NamelessFound, CertificatesOf, MapSeq
      <3>3. anchors \o << >> = anchors
        <4>1. anchors \in Seq(Certs)
          BY DEF ParseInv, Types
        <4> QED
          BY <4>1, ConcatEmptySeq
      <3> QED
        BY <2>1, <3>1, <3>2, <3>3, ReadableIsPublished
    <2>2. ASSUME stage = "thrown"
          PROVE  (\E i \in DOMAIN Readable : Nameless(Readable[i])) /\ anchors = << >>
      BY <2>2, ReadableIsPublished DEF ParseInv, Account
    <2> QED
      BY <2>1, <2>2 DEF ReturnsReadable
  <1> QED
    BY <1>1, ParseInvariant, PTL

=============================================================================
