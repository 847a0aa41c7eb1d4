-------------------------- MODULE TrustAnchorLookup --------------------------
(***************************************************************************)
(* The text of a certificate from its list to the answer of a request: the *)
(* records of the Mozilla CSV with their columns, the text as it is        *)
(* stored, the lookup by text in both versions of the API, and the pipes   *)
(* in front of the validation of a chain.                                  *)
(*                                                                         *)
(* A parse is read and stored in full here: when and whether it happens is *)
(* the matter of ListRefresh.  What becomes of a chain that was split and  *)
(* decoded is the matter of CertificateCache.                              *)
(***************************************************************************)
EXTENDS CertificateTexts

CONSTANTS
  EidasTexts, \* what the eiDAS lists may hold: certificates and how each is written
  Csvs,       \* CSV files that the Mozilla list may be
  Chains,     \* chains that may be sent
  Empty,      \* an empty cell of the column PEM Info
  Broken,     \* a record that the CSV parser rejects
  None        \* no value

Written == [cert : Certs, style : Styles]
ChainFiles == [lead : Seq(White), certs : Seq(Certs), eol : {<< >>, <<LF>>, <<CR, LF>>}]

ASSUME ConstantsAssumption ==
  /\ EidasTexts \subseteq Written
  /\ Csvs \subseteq [pemColumn : BOOLEAN, cells : Seq(Written \cup {Empty, Broken})]
  /\ Chains \subseteq ChainFiles
  /\ Unreadable \notin Certs
  /\ Empty \notin Written
  /\ None \notin {"lookup", "chain", "one", "pkcs7"}

VARIABLES
  stored,    \* trust anchor documents: the list and the field certificate
  csv,       \* the downloaded CSV: its columns and all its records
  records,   \* what on_record has made of the records so far
  parse,     \* where the parse of the CSV is
  published, \* history: what was read of a list, and of which
  answer     \* the answer to a request, until it is sent

parsing == <<csv, records, parse>>
vars == <<stored, parsing, published, answer>>

Statuses == {200, 400, 404, 409}
Silence == [to |-> None]

TypeOK ==
  /\ \A a \in stored : a.list \in {"eiDAS", "Mozilla"} /\ a.certificate \in Seq(Tokens)
  /\ parse \in {"idle", "records", "read", "thrown"}
  /\ csv # None => csv \in Csvs
  /\ records \in Seq(Seq(Tokens))
  /\ \A w \in published : w.what = Empty \/ w.what \in Written
  /\ answer # Silence => answer.status \in Statuses \cup {None}

Init ==
  /\ stored = {}
  /\ csv = None /\ records = << >> /\ parse = "idle"
  /\ published = {}
  /\ answer = Silence

-----------------------------------------------------------------------------
(* The lists *)

\* Mutant: the setter of the schema is gone.
SaveUntrimmed(list, texts) ==
  stored' = stored \cup {[list |-> list, certificate |-> text] : text \in texts}

\* updateTrustAnchors, with the setter of the schema.
Save(list, texts) ==
  stored' = stored \cup {[list |-> list, certificate |-> Trim(text)] : text \in texts}

\* An answer is sent before the next step: a request reads the database once and
\* changes nothing, so that one at a time stands for any number of them.
Quiet == answer = Silence /\ UNCHANGED answer

\* An eiDAS list: the certificates are stored as they are written.
ReadEidas ==
  /\ Quiet
  /\ \E w \in EidasTexts :
       /\ published' = published \cup {[list |-> "eiDAS", what |-> w]}
       /\ Save("eiDAS", {Text(w.cert, w.style)})
  /\ UNCHANGED parsing

Download ==
  /\ Quiet
  /\ parse = "idle"
  /\ csv' \in Csvs
  /\ records' = << >>
  /\ parse' = "records"
  /\ UNCHANGED <<stored, published>>

\* transformCsvHeader and filterRecord: the column PEM Info, however it is
\* spaced, or undefined.
PEMInfo(i) == IF csv.pemColumn THEN csv.cells[i] ELSE None

\* Mutant: an empty cell is no value.
CleanedNone(cell) ==
  IF cell = Empty THEN None ELSE StripPEMInfo(Text(cell.cert, cell.style))

\* Mutant: the column keeps its lines.
CleanedNot(cell) == IF cell = Empty THEN << >> ELSE Text(cell.cert, cell.style)

\* cleanupRecordColumns: the column goes through stripPEMInfo.
Cleaned(cell) ==
  IF cell = Empty THEN << >> ELSE StripPEMInfo(Text(cell.cert, cell.style))

Current == Len(records) + 1

ReadRecord ==
  /\ Quiet
  /\ parse = "records"
  /\ Current <= Len(csv.cells)
  /\ PEMInfo(Current) \notin {None, Broken}
  /\ records' = Append(records, Cleaned(PEMInfo(Current)))
  /\ UNCHANGED <<stored, csv, parse, published>>

\* Mutant: the records before it are kept.
ReadRecordThrowsLate ==
  /\ Quiet
  /\ parse = "records"
  /\ Current <= Len(csv.cells)
  /\ PEMInfo(Current) \in {None, Broken}
  /\ parse' = "read"
  /\ UNCHANGED <<stored, csv, records, published>>

\* The parser rejects the record, or stripPEMInfo throws at undefined: no record
\* is returned at all.
ReadRecordThrows ==
  /\ Quiet
  /\ parse = "records"
  /\ Current <= Len(csv.cells)
  /\ PEMInfo(Current) \in {None, Broken}
  /\ records' = << >>
  /\ parse' = "thrown"
  /\ UNCHANGED <<stored, csv, published>>

RecordsDone ==
  /\ Quiet
  /\ parse = "records"
  /\ Current > Len(csv.cells)
  /\ parse' = "read"
  /\ UNCHANGED <<stored, csv, records, published>>

\* Each record becomes a trust anchor, of whichever were read.
SaveRecords ==
  /\ Quiet
  /\ parse \in {"read", "thrown"}
  /\ Save("Mozilla", ToSet(records))
  /\ published' = published \cup
       {[list |-> "Mozilla", what |-> csv.cells[i]] : i \in DOMAIN records}
  /\ csv' = None /\ records' = << >> /\ parse' = "idle"

-----------------------------------------------------------------------------
(* The requests *)

Reply(to, what, status, certs) ==
  /\ answer' = [to |-> to, what |-> what, status |-> status, certs |-> certs]
  /\ UNCHANGED <<stored, parsing, published>>

\* Mutant: the stored text only has to begin like the requested one, as the base64
\* of all certificates does.
FoundByPrefix(text) ==
  \E a \in stored :
    \/ a.certificate = Trim(text)
    \/ << >> \notin {a.certificate, Trim(text)} /\ a.certificate[1][1] = Trim(text)[1][1]

\* findOne by the field certificate, undefined if the body has none.
Found(text) == \E a \in stored : a.certificate = Trim(text)

\* findTrustAnchor.  isEmpty is about the body, not about the certificate in it.
Lookup ==
  \E w \in Written :
    LET text == Text(w.cert, w.style)
    IN Reply("lookup", w, IF Found(text) THEN 200 ELSE 404, << >>)

LookupEmpty == Reply("lookup", Empty, IF Found(<< >>) THEN 200 ELSE 404, << >>)

LookupWithoutBody == Reply("lookup", None, 400, << >>)

\* The body has no certificate; in V1 that is any body without publicKey.
LookupWithoutField == Reply("lookup", None, 404, << >>)

\* What the pipe makes of a text, and the 409 of the validation if a certificate
\* does not decode; otherwise the validation goes on and decides.
Validate(to, what, text) ==
  LET certs == DecodeAll(ChainCerts(text))
  IN IF Unreadable \in ToSet(certs) THEN Reply(to, what, 409, << >>)
                                    ELSE Reply(to, what, None, certs)

Chain == \E f \in Chains : Validate("chain", f, ChainText(f.lead, f.certs, f.eol))

\* A single certificate, in the form that a lookup takes too.
ChainOfOne == \E w \in Written : Validate("one", w, Text(w.cert, w.style))

\* A PKCS7 file: stripPEMInfo knows its lines, the split and the decoding do not.
ChainAsPkcs7 == \E eol \in {<<LF>>, <<CR, LF>>} : Validate("pkcs7", None, Pkcs7Text(eol))

\* The file cannot be downloaded or is not a text, or there is no text to split.
ChainWithoutText == Reply("chain", None, 400, << >>)

Request ==
  /\ answer = Silence
  /\ \/ Lookup \/ LookupEmpty \/ LookupWithoutBody \/ LookupWithoutField
     \/ Chain \/ ChainOfOne \/ ChainAsPkcs7 \/ ChainWithoutText

Sent ==
  /\ answer # Silence
  /\ answer' = Silence
  /\ UNCHANGED <<stored, parsing, published>>

Next ==
  \/ ReadEidas
  \/ Download \/ ReadRecord \/ ReadRecordThrows \/ RecordsDone \/ SaveRecords
  \/ Request \/ Sent

Spec == Init /\ [][Next]_vars

-----------------------------------------------------------------------------
(* Properties *)

\* A CSV is read in full or not at all, and a record keeps its certificate
\* through the cleaning of its columns, however it is quoted and broken into
\* lines.
CsvAllOrNothing ==
  parse = "read" =>
    /\ csv.cells # << >> => csv.pemColumn
    /\ Len(records) = Len(csv.cells)
    /\ \A i \in DOMAIN records :
         csv.cells[i] # Empty => Decode(records[i]) = csv.cells[i].cert

\* What is stored is what the list published: neither cleaning nor trimming ever
\* makes another certificate of it, or one that can no longer be decoded and would
\* then end every bootstrap (CertificateCache).  The exception is an empty cell.
StoredAsPublished ==
  \A a \in stored :
    \/ \E w \in published : /\ w.list = a.list /\ w.what # Empty
                            /\ w.what.cert = Decode(a.certificate)
    \/ a.certificate = << >> /\ [list |-> "Mozilla", what |-> Empty] \in published

\* A text that a lookup finds is the text of a published certificate, and the
\* other endpoint reads the same certificate in it: sent as a chain it is split
\* into that certificate and nothing else.
FoundIsPublished ==
  answer.to = "lookup" /\ answer.status = 200 /\ answer.what # Empty =>
    /\ \E w \in published : w.what # Empty /\ w.what.cert = answer.what.cert
    /\ DecodeAll(ChainCerts(Text(answer.what.cert, answer.what.style))) = <<answer.what.cert>>

\* The form in which both lists store a certificate if it has no line breaks of
\* its own, which the README shows, is found as soon as one list published it.
\* Line breaks that stripPEMInfo removes do no harm, those that it leaves, and
\* those in an eiDAS list, do.
ClearedIsFound ==
  answer.to = "lookup" /\ answer.what \notin {None, Empty} /\ answer.status = 404 =>
    \A w \in published :
      /\ w.what # Empty
      /\ w.what.cert = answer.what.cert
      /\ answer.what.style \in {"cleared", "padded"}
      => \/ w.list = "eiDAS" /\ w.what.style \notin {"cleared", "padded"}
         \/ w.what.style = "crlf"

\* No text with PEM lines is ever found, not even the one that the Mozilla list
\* published: what is stored is stripped of them and what is asked for is not,
\* although it should be "the raw certificate in pem format"
\* (dto/trust-anchor-request.dto.ts:5).  That is, as long as eiDAS lists hold none.
PemIsNotFound ==
  /\ answer.to = "lookup" /\ answer.what \notin {None, Empty}
  /\ answer.what.style \in {"pem", "crlf", "quoted"}
  => answer.status = 404

\* The validation gets the certificates of a chain in their order, whatever ends
\* the lines; unless more than one character other than a line feed precedes the
\* first BEGIN line, which makes a certificate of its own of it.  So does all of a
\* PKCS7 file, which the request expects as well as PEM
\* (dto/trust-anchor-chain-request.dto.ts:16), and none is ever validated.
ChainIsSplit ==
  /\ answer.to = "chain" /\ answer.what # None =>
       LET lead == {i \in DOMAIN answer.what.lead : answer.what.lead[i] # LF}
       IN IF Cardinality(lead) <= 1
          THEN answer.status = None /\ answer.certs = answer.what.certs
          ELSE answer.status = 409
  /\ answer.to = "pkcs7" => answer.status = 409
=============================================================================
