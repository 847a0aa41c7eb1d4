-------------------------- MODULE AnchorCollection --------------------------
(***************************************************************************)
(* What the refresh of the trust anchor lists amounts to, without the      *)
(* loops, the recursion, the dates and the errors: processes collect trust *)
(* anchors from the lists they know and put what they hold into the        *)
(* database.  Lists and trust anchors are never removed from it, and what  *)
(* a process holds leaves it through the database, unless it may be lost.  *)
(* ListRefresh implements this specification.                              *)
(***************************************************************************)
CONSTANTS
  Pods,     \* processes that collect
  ListIds,  \* trust anchor list documents
  Offered,  \* Offered[d]: the trust anchors that list d may hold
  Lossy     \* what a process holds may be lost

VARIABLES
  lists,    \* the list documents in the database
  anchors,  \* the trust anchor documents in the database
  held      \* held[p]: what p has downloaded and not yet stored

vars == <<lists, anchors, held>>

Init ==
  /\ lists = {}
  /\ anchors = {}
  /\ held = [p \in Pods |-> {}]

AddList ==
  /\ \E d \in ListIds \ lists : lists' = lists \cup {d}
  /\ UNCHANGED <<anchors, held>>

\* A list is downloaded that is in the database.
Download(p) ==
  /\ \E d \in lists : \E served \in SUBSET Offered[d] :
       held' = [held EXCEPT ![p] = @ \cup served]
  /\ UNCHANGED <<lists, anchors>>

Store(p) ==
  /\ \E a \in held[p] : /\ anchors' = anchors \cup {a}
                        /\ held' = [held EXCEPT ![p] = @ \ {a}]
  /\ UNCHANGED lists

\* A crash, or an error that takes trust anchors along.
Lose(p) ==
  /\ Lossy
  /\ \E lost \in SUBSET held[p] : held' = [held EXCEPT ![p] = @ \ lost]
  /\ UNCHANGED <<lists, anchors>>

Next == AddList \/ \E p \in Pods : Download(p) \/ Store(p) \/ Lose(p)

Spec == Init /\ [][Next]_vars
=============================================================================
