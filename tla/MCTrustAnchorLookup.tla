------------------------ MODULE MCTrustAnchorLookup ------------------------
(***************************************************************************)
(* Two certificates.  The eiDAS lists write one of them in one line and    *)
(* the other in lines; the CSV has PEM of every kind, and records that are *)
(* empty, broken or lack the column.                                       *)
(***************************************************************************)
EXTENDS TrustAnchorLookup

CONSTANTS c1, c2

MCEidasTexts == {[cert |-> c1, style |-> "padded"], [cert |-> c2, style |-> "lines"]}

MCCsvs ==
  LET cells == {[cert |-> c1, style |-> "quoted"], [cert |-> c2, style |-> "crlf"],
                Empty, Broken}
  IN [pemColumn : {TRUE}, cells : BoundedSeq(cells, 2)]
       \cup [pemColumn : {FALSE}, cells : {<<Empty>>}]

MCChains ==
  [lead : {<< >>, <<LF>>, <<CR, LF>>, <<CR, LF, CR, LF>>, <<SP, SP>>},
   certs : {<<c1>>, <<c2, c1>>},
   eol : {<< >>, <<LF>>, <<CR, LF>>}]
=============================================================================
