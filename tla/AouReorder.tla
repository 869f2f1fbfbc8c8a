------------------------------ MODULE AouReorder ------------------------------
(***************************************************************************)
(* The per-ID response reorder buffer (rtl/aou_reorder.sv).                *)
(*                                                                         *)
(* The bit vectors occ and done are the sets of the slots whose bit is     *)
(* set.  Slots [head, tail) form a circular window; a slot's position in   *)
(* the window is its age.  Wires are operators; Clock is one clock edge,   *)
(* given                                                                   *)
(*   iss     the ID presented for allocation (None: iss_valid low)         *)
(*   cmp     [tag, data] of the completion that arrives, or None           *)
(*   outRdy  out_ready                                                     *)
(***************************************************************************)
EXTENDS Integers

CONSTANTS DEPTH, Ids, Data, None

ASSUME ReorderAssumption ==
  /\ DEPTH \in Nat /\ DEPTH > 1
  /\ None \notin Ids

VARIABLES occ, done, id_arr, data_arr, head, tail, count

regs == <<occ, done, id_arr, data_arr, head, tail, count>>

Slots == 0 .. DEPTH - 1

\* The arrays have no reset: they start with whatever the flip-flops hold.
Init ==
  /\ occ = {} /\ done = {}
  /\ head = 0 /\ tail = 0 /\ count = 0
  /\ id_arr \in [Slots -> Ids]
  /\ data_arr \in [Slots -> Data]

\* The slot after i, and the k-th slot of the window (0 the oldest).
Succ(i)   == IF i = DEPTH - 1 THEN 0 ELSE i + 1
idx_at(k) == IF head + k >= DEPTH THEN head + k - DEPTH ELSE head + k

iss_ready     == count # DEPTH
iss_fire(iss) == iss # None /\ iss_ready
iss_tag       == tail

\* Mutants: responses leave in arrival order; a slot blocks itself.
AnyReleasable(k) == k < count /\ idx_at(k) \in occ \cap done
SelfBlocked(k) ==
  /\ k < count
  /\ idx_at(k) \in occ \cap done
  /\ \A j \in 0 .. k :
       idx_at(j) \in occ => id_arr[idx_at(j)] # id_arr[idx_at(k)]

\* Position k holds a completed response with no older one of its ID present.
Releasable(k) ==
  /\ k < count
  /\ idx_at(k) \in occ \cap done
  /\ \A j \in 0 .. k - 1 :
       idx_at(j) \in occ => id_arr[idx_at(j)] # id_arr[idx_at(k)]

\* The oldest releasable position is the one presented.
Presented(k) == Releasable(k) /\ \A j \in 0 .. k - 1 : ~Releasable(j)

out_valid == \E k \in Slots : Presented(k)
out_pos   == CHOOSE k \in Slots : Presented(k)
out_idx   == IF out_valid THEN idx_at(out_pos) ELSE head
out_id    == id_arr[out_idx]
out_data  == data_arr[out_idx]

out_fire(outRdy) == out_valid /\ outRdy
Released(outRdy) == IF out_fire(outRdy) THEN {out_idx} ELSE {}

\* Mutants: head moves over an occupied slot; head only moves with a release.
reclaim_blindly(outRdy)  == count # 0
reclaim_released(outRdy) == count # 0 /\ head \in Released(outRdy)

\* The head slot is vacant, or is vacated in this very cycle.
reclaim(outRdy) ==
  /\ count # 0
  /\ head \notin occ \/ head \in Released(outRdy)

Issue(iss, outRdy) ==
  LET new == IF iss_fire(iss) THEN {tail} ELSE {}
  IN  /\ occ' = (occ \cup new) \ Released(outRdy)
      /\ id_arr' = IF iss_fire(iss) THEN [id_arr EXCEPT ![tail] = iss] ELSE id_arr
      /\ tail' = IF iss_fire(iss) THEN Succ(tail) ELSE tail

\* Issue clears done, completion sets it, release clears it, in that order.
Complete(iss, cmp, outRdy) ==
  LET new == IF iss_fire(iss) THEN {tail} ELSE {}
      arrived == IF cmp = None THEN {} ELSE {cmp.tag}
  IN  /\ done' = ((done \ new) \cup arrived) \ Released(outRdy)
      /\ data_arr' = IF cmp = None THEN data_arr
                                   ELSE [data_arr EXCEPT ![cmp.tag] = cmp.data]

Reclaim(iss, outRdy) ==
  /\ head' = IF reclaim(outRdy) THEN Succ(head) ELSE head
  /\ count' = count + (IF iss_fire(iss) THEN 1 ELSE 0)
                    - (IF reclaim(outRdy) THEN 1 ELSE 0)

Clock(iss, cmp, outRdy) ==
  /\ Issue(iss, outRdy)
  /\ Complete(iss, cmp, outRdy)
  /\ Reclaim(iss, outRdy)

TypeOK ==
  /\ occ \subseteq Slots /\ done \subseteq Slots
  /\ id_arr \in [Slots -> Ids]
  /\ data_arr \in [Slots -> Data]
  /\ head \in Slots /\ tail \in Slots
  /\ count \in 0 .. DEPTH
=============================================================================
