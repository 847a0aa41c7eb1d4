--------------------------- MODULE MCTrustedList ---------------------------
(***************************************************************************)
(* Every list of at most two providers with at most two services each; the *)
(* services cover what a service can lack, and a certificate that is not   *)
(* the first DigitalId or not the only one.                                *)
(***************************************************************************)
EXTENDS TrustedList

CONSTANTS c1, c2

MCServices ==
  [digitalIds : {<< >>, <<NoCert>>, <<c1>>, <<NoCert, c2>>, <<c2, c1>>}, named : {TRUE}]
    \cup [digitalIds : {<<c1>>}, named : {FALSE}]

MCDocuments ==
  LET provider == [info : Infos, services : BoundedSeq(MCServices, 2)]
  IN BoundedSeq(provider, 2)
=============================================================================
