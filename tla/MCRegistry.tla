----------------------------- MODULE MCRegistry -----------------------------
(***************************************************************************)
(* Two pods over one list with one certificate.  No list points at the     *)
(* other list, so that what it offers is never stored.  A request to each  *)
(* pod, the first with a chain that leads to the certificate of the list,  *)
(* the second with one that leads to the certificate of the other list.    *)
(***************************************************************************)
EXTENDS Registry

CONSTANTS lotl, other, c1, c2, pod1, pod2, r1, r2

MCParents == <<lotl>>
MCPointers == [u \in Uris |-> << >>]
MCOffers == [u \in Uris |-> IF u = lotl THEN {c1} ELSE {c2}]
MCPodOf == [r \in Requests |-> IF r = r1 THEN pod1 ELSE pod2]
MCRootsOf == [r \in Requests |-> IF r = r1 THEN {c1} ELSE {c2}]
=============================================================================
