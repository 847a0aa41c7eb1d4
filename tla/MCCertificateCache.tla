------------------------ MODULE MCCertificateCache ------------------------
(***************************************************************************)
(* Instances of CertificateCache: two requests to the same pod whose       *)
(* chains lead to the same anchor, and a request to the other pod whose    *)
(* chain leads to another one.                                             *)
(***************************************************************************)
EXTENDS CertificateCache

CONSTANTS pod1, pod2, r1, r2, r3, c1, c2

MCPodOf == [r \in Requests |-> IF r = r3 THEN pod2 ELSE pod1]
MCRootsOf == [r \in Requests |-> IF r = r3 THEN {c2} ELSE {c1}]
=============================================================================
