--------------------------- MODULE MCListRefresh ---------------------------
(***************************************************************************)
(* Instances of ListRefresh.  The eiDAS list of lists points at itself and *)
(* at a national list; that points back and, in the deeper instance, at a  *)
(* third list, which points back too.  The Mozilla list stands alone.      *)
(***************************************************************************)
EXTENDS ListRefresh

CONSTANTS lotl, nat, sub, moz, c1, c2, pod1, pod2

MCBothParents == <<lotl, moz>>
MCEidasParent == <<lotl>>
MCPointers ==
  LET all(u) == CASE u = lotl -> <<lotl, nat>>
                  [] u = nat  -> <<lotl, sub>>
                  [] u = sub  -> <<nat, lotl>>
                  [] OTHER    -> << >>
  IN [u \in Uris |-> SelectSeq(all(u), LAMBDA v : v \in Uris)]

\* One certificate per list, the same on the eiDAS list and on the Mozilla list.
MCOffers == [u \in Uris |-> IF u = nat THEN {c2} ELSE {c1}]

\* The list of lists holds no certificates of its own.
MCNestedOffers == [u \in Uris |-> IF u = lotl THEN {} ELSE {c2}]

PodSymmetry == Permutations(Pods)
=============================================================================
