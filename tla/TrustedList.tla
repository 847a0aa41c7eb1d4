---------------------------- MODULE TrustedList ----------------------------
(***************************************************************************)
(* What EiDASTrustedListParserService makes of one downloaded trusted      *)
(* list: the loop over its providers, which collects the services that     *)
(* have an X509 certificate and gives up at the first provider it cannot   *)
(* read, and the loop that turns each service into a trust anchor.  What   *)
(* is returned is what the action Fetch of ListRefresh finds; an exception *)
(* that leaves the second loop is its FetchFails.                          *)
(*                                                                         *)
(* An element that occurs once and a list of such elements are the same    *)
(* here, as getValueAsArray makes them.  An element that does not occur    *)
(* becomes [undefined], the empty sequence here: looking into it throws.   *)
(***************************************************************************)
EXTENDS Integers, SequencesExt

CONSTANTS
  Certs,     \* X509 certificates
  NoCert,    \* a DigitalId without an X509Certificate
  Documents  \* the lists that may be downloaded

Infos == {"named", "nameless", "missing"}
Services == [digitalIds : Seq(Certs \cup {NoCert}), named : BOOLEAN]
Providers == [info : Infos, services : Seq(Services)]
Found == [digitalIds : Seq(Certs \cup {NoCert}), named : BOOLEAN, tspNamed : BOOLEAN]

ASSUME ConstantsAssumption ==
  /\ NoCert \notin Certs
  /\ Documents \subseteq Seq(Providers)

VARIABLES
  doc,       \* the downloaded list: its providers
  todo,      \* the providers that are still to be read
  found,     \* services with a certificate that are not yet trust anchors
  anchors,   \* the certificates of the trust anchors made so far
  stage      \* the loop that runs, or how the parse ended

vars == <<doc, todo, found, anchors, stage>>

TypeOK ==
  /\ doc \in Seq(Providers)
  /\ todo \in Seq(Providers)
  /\ found \in Seq(Found)
  /\ anchors \in Seq(Certs)
  /\ stage \in {"providers", "services", "returned", "thrown"}

Init ==
  /\ doc \in Documents
  /\ todo = doc
  /\ found = << >>
  /\ anchors = << >>
  /\ stage = "providers"

-----------------------------------------------------------------------------
IsX509(id) == id # NoCert

\* findX509CredentialDigitalId finds one ...
HasX509(service) == \E i \in DOMAIN service.digitalIds : IsX509(service.digitalIds[i])

\* Mutant: the first DigitalId, whatever it is.
FirstDigitalId(service) == Head(service.digitalIds)

\* ... and it is the first.
X509Certificate(service) ==
  LET ids == service.digitalIds
      n == CHOOSE i \in DOMAIN ids : IsX509(ids[i]) /\ \A j \in 1 .. i - 1 : ~IsX509(ids[j])
  IN ids[n]

\* filterForX509CertificateServices throws at a service without any DigitalId.
FilterThrows(services) ==
  services = << >> \/ \E i \in DOMAIN services : services[i].digitalIds = << >>

X509Services(provider) ==
  FlattenSeq([i \in DOMAIN provider.services |->
    IF HasX509(provider.services[i]) THEN <<provider.services[i]>> ELSE << >>])

\* The name of the provider is only looked for when a service was found, and is
\* only looked into when the service becomes a trust anchor.
ProviderThrows(provider) ==
  \/ FilterThrows(provider.services)
  \/ provider.info = "missing" /\ X509Services(provider) # << >>

WithTSPName(service, provider) ==
  [digitalIds |-> service.digitalIds, named |-> service.named,
   tspNamed |-> provider.info = "named"]

FoundIn(provider) ==
  [i \in 1 .. Len(X509Services(provider)) |-> WithTSPName(X509Services(provider)[i], provider)]

ReadProvider ==
  /\ stage = "providers"
  /\ todo # << >>
  /\ ~ProviderThrows(Head(todo))
  /\ found' = found \o FoundIn(Head(todo))
  /\ todo' = Tail(todo)
  /\ UNCHANGED <<doc, anchors, stage>>

\* Mutant: the exception leaves with an empty result.
ReadProviderDropsFound ==
  /\ stage = "providers"
  /\ todo # << >>
  /\ ProviderThrows(Head(todo))
  /\ stage' = "services"
  /\ found' = << >>
  /\ UNCHANGED <<doc, todo, anchors>>

\* The exception ends the loop, not the parse: what was found is kept.
ReadProviderThrows ==
  /\ stage = "providers"
  /\ todo # << >>
  /\ ProviderThrows(Head(todo))
  /\ stage' = "services"
  /\ UNCHANGED <<doc, todo, found, anchors>>

ProvidersDone ==
  /\ stage = "providers"
  /\ todo = << >>
  /\ stage' = "services"
  /\ UNCHANGED <<doc, todo, found, anchors>>

MakeAnchor ==
  /\ stage = "services"
  /\ found # << >>
  /\ Head(found).named /\ Head(found).tspNamed
  /\ anchors' = Append(anchors, X509Certificate(Head(found)))
  /\ found' = Tail(found)
  /\ UNCHANGED <<doc, todo, stage>>

\* getNameAsString throws: the trust anchors made so far are gone.
MakeAnchorThrows ==
  /\ stage = "services"
  /\ found # << >>
  /\ ~(Head(found).named /\ Head(found).tspNamed)
  /\ anchors' = << >>
  /\ stage' = "thrown"
  /\ UNCHANGED <<doc, todo, found>>

Return ==
  /\ stage = "services"
  /\ found = << >>
  /\ stage' = "returned"
  /\ UNCHANGED <<doc, todo, found, anchors>>

Next ==
  \/ ReadProvider \/ ReadProviderThrows \/ ProvidersDone
  \/ MakeAnchor \/ MakeAnchorThrows \/ Return

Spec == Init /\ [][Next]_vars

-----------------------------------------------------------------------------
(* Properties *)

\* The providers before the first that cannot be read.
Readable ==
  LET n == CHOOSE k \in 0 .. Len(doc) :
             /\ \A i \in 1 .. k : ~ProviderThrows(doc[i])
             /\ k < Len(doc) => ProviderThrows(doc[k + 1])
  IN SubSeq(doc, 1, n)

CertificateOf(service) ==
  LET is == {i \in DOMAIN service.digitalIds : service.digitalIds[i] \in Certs}
  IN IF is = {} THEN << >> ELSE <<service.digitalIds[Min(is)]>>

PublishedBy(provider) ==
  FlattenSeq([i \in DOMAIN provider.services |-> CertificateOf(provider.services[i])])

\* The reference: of every service of those providers, in order, the first
\* certificate, if it has one.
ReadableCertificates == FlattenSeq([i \in DOMAIN Readable |-> PublishedBy(Readable[i])])

Nameless(provider) ==
  /\ X509Services(provider) # << >>
  /\ \/ provider.info # "named"
     \/ \E i \in DOMAIN X509Services(provider) : ~X509Services(provider)[i].named

\* A provider that cannot be read takes the readable ones behind it along, but
\* never those before it: the parse returns the trust anchors of all providers
\* before the first that cannot be read, and throws exactly if one of those
\* lacks a name that it needs.
ReturnsReadable ==
  LET nameless == \E i \in DOMAIN Readable : Nameless(Readable[i])
  IN /\ stage = "returned" => ~nameless /\ anchors = ReadableCertificates
     /\ stage = "thrown" => nameless /\ anchors = << >>
=============================================================================
