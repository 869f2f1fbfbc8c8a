------------------------------ MODULE PerIdOrder ------------------------------
(***************************************************************************)
(* What AXI asks of a buffer of outstanding transactions, as the header of *)
(* rtl/aou_reorder.sv states it: transactions with the same ID complete in *)
(* issue order, transactions with different IDs in any order, and each     *)
(* transaction is answered once, with the response that arrived for it.    *)
(*                                                                         *)
(*   pending   the outstanding transactions: issue number, ID and the      *)
(*             response that arrived (None until it does)                  *)
(*   issued    transactions issued so far                                  *)
(*   delivered the last response that left: its ID and its data            *)
(***************************************************************************)
EXTENDS Naturals

CONSTANTS Ids, Data, None

VARIABLES pending, issued, delivered

Txns == [n : Nat, id : Ids, rsp : Data \cup {None}]

Init == pending = {} /\ issued = 0 /\ delivered = None

\* At most one transaction of each kind moves in a step.
AtMostOne(S) == \A s, t \in S : s = t

Oldest(t) == \A u \in pending : u.id = t.id => t.n <= u.n

Arrivals == {A \in SUBSET {t \in pending : t.rsp = None} : AtMostOne(A)}
Releases == {R \in SUBSET {t \in pending : t.rsp # None /\ Oldest(t)} : AtMostOne(R)}

Step(new, arrived, d, released) ==
  /\ pending' = (pending \ (arrived \cup released))
                  \cup {[n |-> t.n, id |-> t.id, rsp |-> d] : t \in arrived}
                  \cup {[n |-> issued, id |-> i, rsp |-> None] : i \in new}
  /\ issued' = IF new = {} THEN issued ELSE issued + 1
  /\ delivered' = IF released = {} THEN delivered
                  ELSE LET t == CHOOSE t \in released : TRUE
                       IN  [id |-> t.id, data |-> t.rsp]

Next ==
  \E new \in {N \in SUBSET Ids : AtMostOne(N)}, arrived \in Arrivals,
     d \in Data, released \in Releases : Step(new, arrived, d, released)

Spec == Init /\ [][Next]_<<pending, issued, delivered>>
=============================================================================
