-------------------------- MODULE CertificateTexts --------------------------
(***************************************************************************)
(* The forms in which the text of a certificate reaches the registry, and  *)
(* the conversions it goes through: stripPEMInfo, the trim of the schema,  *)
(* the split of CertChainTransformPipe and the decoding of pkijs.          *)
(*                                                                         *)
(* A text is a sequence of tokens.  A token is one character if it is      *)
(* white space or a quote; the lines of PEM and the two halves of the      *)
(* base64 data of a certificate are one token each, and so is the base64   *)
(* data of a PKCS7 container.                                              *)
(***************************************************************************)
EXTENDS Integers, SequencesExt, FiniteSetsExt

CONSTANTS
  Certs,      \* certificates
  Unreadable  \* what does not decode to a certificate

LF    == <<"LF">>
CR    == <<"CR">>
SP    == <<"SP">>
Quote == <<"'">>
Begin == <<"BEGIN">>  \* -----BEGIN CERTIFICATE-----
End   == <<"END">>    \* -----END CERTIFICATE-----
Data(c, half) == <<"data", c, half>>
BeginPkcs7 == <<"BEGIN PKCS7">>
EndPkcs7   == <<"END PKCS7">>
Container  == <<"PKCS7">>  \* of whichever certificates

White == {LF, CR, SP}

\* What certificates and chains of them are written with.
Tokens == White \cup {Quote, Begin, End} \cup {Data(c, h) : c \in Certs, h \in {1, 2}}

\* How a certificate is written: in one line, in lines, in PEM ...
Lines(c, eol) == <<Data(c, 1)>> \o eol \o <<Data(c, 2)>>
Pem(c, eol) == <<Begin>> \o eol \o Lines(c, eol) \o eol \o <<End>>

Styles == {"cleared", "lines", "padded", "pem", "crlf", "quoted"}
Text(c, style) ==
  CASE style = "cleared" -> Lines(c, << >>)
    [] style = "lines"   -> Lines(c, <<LF>>)
    [] style = "padded"  -> <<LF, SP>> \o Lines(c, << >>) \o <<LF, SP>>
    [] style = "pem"     -> Pem(c, <<LF>>)
    [] style = "crlf"    -> Pem(c, <<CR, LF>>)
    [] style = "quoted"  -> <<Quote>> \o Pem(c, <<LF>>) \o <<Quote>>

\* ... and a file with a chain of them, after a lead of white space.
ChainText(lead, certs, eol) ==
  lead \o FlattenSeq([i \in DOMAIN certs |-> Pem(certs[i], eol) \o eol])

\* ... or a PKCS7 file.
Pkcs7Text(eol) == <<BeginPkcs7>> \o eol \o <<Container>> \o eol \o <<EndPkcs7>> \o eol

-----------------------------------------------------------------------------
\* What a sequence has at some of its positions, in their order.
KeptAt(s, is) == FlattenSeq([i \in DOMAIN s |-> IF i \in is THEN <<s[i]>> ELSE << >>])

\* A BEGIN or END line of either kind, or one of the quotes around it.
AtMark(text, i) ==
  \E j \in DOMAIN text : /\ text[j] \in {Begin, End, BeginPkcs7, EndPkcs7}
                         /\ \A k \in (i .. j - 1) \cup (j + 1 .. i) : text[k] = Quote

\* Mutant: the BEGIN line stays.
StripEndOnly(text) == KeptAt(text, {i \in DOMAIN text : text[i] \notin {End, LF}})

\* stripPEMInfo: without the lines BEGIN and END, the quotes around them, and
\* the line feeds.  A carriage return stays.
StripPEMInfo(text) == KeptAt(text, {i \in DOMAIN text : text[i] # LF /\ ~AtMark(text, i)})

\* The setter of the schema, applied to what is stored and to a query.
Trim(text) ==
  LET solid == {i \in DOMAIN text : text[i] \notin White}
  IN IF solid = {} THEN << >> ELSE SubSeq(text, Min(solid), Max(solid))

LongerThanOne(text) ==
  Len(text) > 1 \/ \E i \in DOMAIN text : text[i] \notin White \cup {Quote}

\* certs.split at the BEGIN lines of certificates: part k is between the lines k - 1 and k.
SplitAtBegin(text) ==
  LET begins == {i \in DOMAIN text : text[i] = Begin}
      before(i) == Cardinality({j \in begins : j < i})
  IN [k \in 1 .. Cardinality(begins) + 1 |->
        KeptAt(text, {i \in DOMAIN text \ begins : before(i) = k - 1})]

\* Mutant: nothing is filtered.
ChainCertsUnfiltered(text) ==
  LET split == SplitAtBegin(text) IN [k \in DOMAIN split |-> StripPEMInfo(split[k])]

\* CertChainTransformPipe: one text per certificate; what is left of the text
\* before the first BEGIN line is filtered if it is at most one character.
ChainCerts(text) ==
  LET split == SplitAtBegin(text)
      stripped == [k \in DOMAIN split |-> StripPEMInfo(split[k])]
  IN KeptAt(stripped, {k \in DOMAIN stripped : LongerThanOne(stripped[k])})

\* Buffer.from(text, "base64") skips white space and quotes, and takes the letters
\* of a BEGIN or END line for data; Certificate.fromBER throws unless what is left
\* starts with a certificate, and does not look at what follows it.
Decode(text) ==
  LET base64 == KeptAt(text, {i \in DOMAIN text : text[i] \notin White \cup {Quote}})
      matches == {c \in Certs : IsPrefix(Lines(c, << >>), base64)}
  IN IF matches = {} THEN Unreadable ELSE CHOOSE c \in matches : TRUE

DecodeAll(texts) == [i \in DOMAIN texts |-> Decode(texts[i])]
=============================================================================
