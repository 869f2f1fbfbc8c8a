--------------------------- MODULE ResponseReordering ---------------------------
(***************************************************************************)
(* The reorder buffer (AouReorder) as the out-of-order initiator bridge    *)
(* uses it: a requester that issues transactions of any ID, a memory       *)
(* system that answers each outstanding slot once, in any order, and an    *)
(* AXI output stage that takes a response when it has room.                *)
(*                                                                         *)
(* History variables: ticket[s] is the issue number of the transaction     *)
(* that last took slot s, issued counts the transactions, delivered is the *)
(* last response that left.  MaxIssued bounds the requester.               *)
(***************************************************************************)
EXTENDS AouReorder

CONSTANT MaxIssued

ASSUME ResponseReorderingAssumption ==
  MaxIssued \in Nat /\ None \notin Data

VARIABLES ticket, issued, delivered

history == <<ticket, issued, delivered>>
allVars == <<regs, history>>

RInit ==
  /\ Init
  /\ ticket = [s \in Slots |-> 0]
  /\ issued = 0
  /\ delivered = None

Requests == IF issued < MaxIssued THEN Ids \cup {None} ELSE {None}

\* The far end answers a request it has received, and answers it once.
Answers == {None} \cup [tag : occ \ done, data : Data]

History(iss, outRdy) ==
  /\ ticket' = IF iss_fire(iss) THEN [ticket EXCEPT ![tail] = issued] ELSE ticket
  /\ issued' = IF iss_fire(iss) THEN issued + 1 ELSE issued
  /\ delivered' = IF out_fire(outRdy) THEN [id |-> out_id, data |-> out_data]
                                      ELSE delivered

Tick(iss, cmp, outRdy) == Clock(iss, cmp, outRdy) /\ History(iss, outRdy)

RNext ==
  \E iss \in Requests, cmp \in Answers, outRdy \in BOOLEAN : Tick(iss, cmp, outRdy)

Spec == RInit /\ [][RNext]_allVars

(***************************************************************************)
(* Fairness: the clock runs, each outstanding slot is answered, and the    *)
(* output stage takes responses again and again.                           *)
(***************************************************************************)
Answering(s) ==
  \E iss \in Requests, cmp \in Answers \ {None}, outRdy \in BOOLEAN :
    cmp.tag = s /\ Tick(iss, cmp, outRdy)

Taking == \E iss \in Requests, cmp \in Answers : Tick(iss, cmp, TRUE)

FairSpec == Spec /\ WF_allVars(Taking) /\ \A s \in Slots : WF_allVars(Answering(s))

-----------------------------------------------------------------------------
RTypeOK ==
  /\ TypeOK
  /\ ticket \in [Slots -> Nat]
  /\ issued \in Nat
  /\ delivered \in {None} \cup [id : Ids, data : Data]

\* The window is where head, tail and count say it is, nothing lives outside
\* it, only an occupied slot is done, and a slot's position is its age.
Window ==
  /\ tail = idx_at(count)
  /\ count <= issued
  /\ occ \subseteq {idx_at(k) : k \in 0 .. count - 1}
  /\ done \subseteq occ
  /\ \A k \in 0 .. count - 1 : ticket[idx_at(k)] = issued - count + k

\* A tag handed out is never one whose transaction is still outstanding, even
\* when slots were vacated out of order and the pointers have wrapped.
FreshTag == iss_ready => iss_tag \notin occ

Outstanding ==
  {[n |-> ticket[s], id |-> id_arr[s],
    rsp |-> IF s \in done THEN data_arr[s] ELSE None] : s \in occ}

Abstract == INSTANCE PerIdOrder WITH pending <- Outstanding

\* The buffer keeps AXI's ordering rule: same-ID responses leave in issue order,
\* each once and with its own data, whatever order they arrive in.
KeepsPerIdOrder == Abstract!Spec

\* A full buffer always accepts again: vacated slots are reclaimed even though
\* head only advances one slot a cycle.
RoomAgain == ~iss_ready ~> iss_ready

\* Every transaction issued leaves the buffer.
EveryResponseLeaves == \A s \in Slots : s \in occ ~> s \notin occ
=============================================================================
