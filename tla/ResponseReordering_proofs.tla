------------------------ MODULE ResponseReordering_proofs ------------------------
(***************************************************************************)
(* Proofs about the reorder buffer, for every DEPTH, set of IDs, data and  *)
(* bound: its registers keep their types and its window its shape, tags    *)
(* are fresh, and it implements PerIdOrder.                                *)
(***************************************************************************)
EXTENDS ResponseReordering, TLAPS

\* idx_at stays within the buffer (idx_at in rtl/aou_reorder.sv).
LEMMA IdxInRange ==
  ASSUME TypeOK, NEW k \in 0 .. DEPTH
  PROVE  idx_at(k) \in Slots
BY ReorderAssumption DEF TypeOK, idx_at, Slots

\* Different positions of the window are different slots.
LEMMA IdxInjective ==
  ASSUME TypeOK, NEW j \in 0 .. DEPTH - 1, NEW k \in 0 .. DEPTH - 1,
         idx_at(j) = idx_at(k)
  PROVE  j = k
BY ReorderAssumption DEF TypeOK, idx_at, Slots

\* The slot after position k is position k + 1.
LEMMA SuccOfIdx ==
  ASSUME TypeOK, NEW k \in 0 .. DEPTH - 1
  PROVE  Succ(idx_at(k)) = idx_at(k + 1)
BY ReorderAssumption DEF TypeOK, idx_at, Slots, Succ

\* What the output selection presents: an occupied, completed slot inside the
\* window, with no older slot of its ID.
LEMMA OutputSelected ==
  ASSUME TypeOK, out_valid
  PROVE  /\ out_pos \in 0 .. count - 1
         /\ out_idx = idx_at(out_pos)
         /\ out_idx \in occ \cap done
         /\ \A j \in 0 .. out_pos - 1 :
              idx_at(j) \in occ => id_arr[idx_at(j)] # out_id
<1>1. out_pos \in Slots /\ Presented(out_pos)
  BY DEF out_valid, out_pos
<1>2. out_idx = idx_at(out_pos)
  BY DEF out_idx
<1> QED
  BY <1>1, <1>2, ReorderAssumption DEF TypeOK, Slots, Presented, Releasable, out_id

\* The head slot is position 0, the first free slot position count.
LEMMA HeadIsFirst == ASSUME TypeOK PROVE head = idx_at(0)
BY ReorderAssumption DEF TypeOK, Slots, idx_at

Inv == RTypeOK /\ Window

\* A fresh tag: position count of a window that is not full is outside it.
LEMMA InvFreshTag == Inv => FreshTag
<1> SUFFICES ASSUME Inv, iss_ready, tail \in occ PROVE FALSE
  BY DEF FreshTag, iss_tag
<1>1. count \in 0 .. DEPTH - 1 /\ TypeOK
  BY ReorderAssumption DEF Inv, RTypeOK, TypeOK, iss_ready
<1>2. PICK k \in 0 .. count - 1 : tail = idx_at(k)
  BY DEF Inv, Window
<1>3. count = k
  <2>1. k \in 0 .. DEPTH - 1 /\ idx_at(count) = idx_at(k)
    BY <1>1, <1>2, ReorderAssumption DEF Inv, Window
  <2> QED
    BY <2>1, <1>1, IdxInjective
<1> QED
  BY <1>1, <1>2, <1>3

-----------------------------------------------------------------------------
\* Initially every register holds a value of its type and the window is empty.
LEMMA InitInv == RInit => Inv
<1> SUFFICES ASSUME RInit PROVE Inv
  OBVIOUS
<1>1. RTypeOK
  BY ReorderAssumption DEF RInit, Init, RTypeOK, TypeOK, Slots
<1>2. Window
  BY ReorderAssumption DEF RInit, Init, Window, idx_at, Slots
<1> QED
  BY <1>1, <1>2 DEF Inv

\* One clock edge keeps the types.
LEMMA TickTypeOK ==
  ASSUME Inv, NEW iss \in Requests, NEW cmp \in Answers, NEW outRdy \in BOOLEAN,
         Tick(iss, cmp, outRdy)
  PROVE  RTypeOK'
<1> USE DEF Inv, RTypeOK, TypeOK
<1>1. iss_fire(iss) => iss \in Ids
  BY DEF iss_fire, Requests
<1>2. cmp # None => cmp.tag \in Slots /\ cmp.data \in Data
  BY DEF Answers
<1>3. out_valid => out_idx \in Slots /\ out_id \in Ids /\ out_data \in Data
  BY OutputSelected DEF out_id, out_data
<1>4. \A i \in Slots : Succ(i) \in Slots
  BY ReorderAssumption DEF Slots, Succ
<1>5. occ' \subseteq Slots /\ id_arr' \in [Slots -> Ids] /\ tail' \in Slots
  BY <1>1, <1>4 DEF Tick, Clock, Issue
<1>6. done' \subseteq Slots /\ data_arr' \in [Slots -> Data]
  BY <1>2 DEF Tick, Clock, Complete
<1>7. head' \in Slots /\ count' \in 0 .. DEPTH
  BY <1>4, ReorderAssumption DEF Tick, Clock, Reclaim, reclaim, iss_fire, iss_ready
<1>8. /\ ticket' \in [Slots -> Nat]
      /\ issued' \in Nat
      /\ delivered' \in {None} \cup [id : Ids, data : Data]
  BY <1>3 DEF Tick, History, out_fire
<1> QED
  BY <1>5, <1>6, <1>7, <1>8

\* One clock edge keeps the window's shape: the head moves over vacated slots
\* only, the tail over the slot just allocated.
LEMMA TickWindow ==
  ASSUME Inv, NEW iss \in Requests, NEW cmp \in Answers, NEW outRdy \in BOOLEAN,
         Tick(iss, cmp, outRdy)
  PROVE  Window'
<1> DEFINE f == iss_fire(iss)
           r == reclaim(outRdy)
           R == IF r THEN 1 ELSE 0
           F == IF f THEN 1 ELSE 0
           nxt(k) == IF head' + k >= DEPTH THEN head' + k - DEPTH ELSE head' + k
<1>1. TypeOK /\ TypeOK' /\ count \in 0 .. DEPTH /\ DEPTH \in Nat /\ issued \in Nat
      /\ head \in Slots
  BY TickTypeOK, ReorderAssumption DEF Inv, RTypeOK, TypeOK
<1>2. (f => count < DEPTH) /\ (r => count > 0) /\ count' = count + F - R
      /\ count' \in 0 .. DEPTH
  BY <1>1 DEF Tick, Clock, Reclaim, reclaim, iss_fire, iss_ready, TypeOK
<1>3. \A k \in 0 .. DEPTH : k + R <= DEPTH => nxt(k) = idx_at(k + R)
  <2>1. CASE r
    <3>1. head' = Succ(head)
      BY <2>1 DEF Tick, Clock, Reclaim
    <3> QED
      BY <3>1, <2>1, <1>1, ReorderAssumption DEF idx_at, Succ, Slots
  <2>2. CASE ~r
    <3>1. head' = head
      BY <2>2 DEF Tick, Clock, Reclaim
    <3> QED
      BY <3>1, <2>2, <1>1 DEF idx_at
  <2> QED
    BY <2>1, <2>2
<1>4. tail' = idx_at(count + F)
  <2>1. tail = idx_at(count) /\ tail' = IF f THEN Succ(tail) ELSE tail
    BY DEF Inv, Window, Tick, Clock, Issue
  <2>2. f => Succ(idx_at(count)) = idx_at(count + 1)
    BY <1>1, <1>2, SuccOfIdx
  <2> QED
    BY <2>1, <2>2, <1>1
<1>5. tail' = nxt(count')
  <2>1. count' + R = count + F /\ count' + R <= DEPTH
    BY <1>1, <1>2
  <2> QED
    BY <2>1, <1>2, <1>3, <1>4
<1>6. count' <= issued'
  BY <1>1, <1>2 DEF Tick, History, Inv, Window
<1>7. \A j, k \in 0 .. DEPTH - 1 : idx_at(j) = idx_at(k) => j = k
  BY <1>1, IdxInjective
<1>8. ASSUME NEW s \in occ'
      PROVE  \E k \in 0 .. count' - 1 : s = nxt(k)
  <2>1. PICK k \in 0 .. count + F - 1 : s = idx_at(k)
    <3>1. CASE s \in occ
      BY <3>1, <1>1 DEF Inv, Window
    <3>2. CASE s \notin occ
      <4>1. f /\ s = tail
        BY <3>2, <1>8 DEF Tick, Clock, Issue
      <4> QED
        BY <4>1, <1>1 DEF Inv, Window
    <3> QED
      BY <3>1, <3>2
  <2>2. k \in 0 .. DEPTH - 1
    BY <1>1, <1>2
  <2>3. r => k # 0
    <3> SUFFICES ASSUME r, k = 0 PROVE FALSE
      OBVIOUS
    <3>1. s = head
      BY <2>1, <1>1, HeadIsFirst
    <3>2. f /\ s = tail
      BY <3>1, <1>8 DEF Tick, Clock, Issue, reclaim
    <3>3. idx_at(0) = idx_at(count) /\ count \in 1 .. DEPTH - 1 /\ 0 \in 0 .. DEPTH - 1
      BY <3>1, <3>2, <1>1, <1>2, HeadIsFirst DEF Inv, Window
    <3> QED
      BY <3>3, <1>7
  <2>4. k - R \in 0 .. count' - 1 /\ (k - R) + R = k /\ k - R \in 0 .. DEPTH
    BY <2>2, <2>3, <1>1, <1>2
  <2>5. nxt(k - R) = idx_at(k)
    BY <2>2, <2>4, <1>1, <1>3
  <2> QED
    BY <2>1, <2>4, <2>5
<1>9. occ' \subseteq {nxt(k) : k \in 0 .. count' - 1}
  BY <1>8
<1>10. done' \subseteq occ'
  BY DEF Inv, Window, Answers, Tick, Clock, Issue, Complete
<1>11. ASSUME NEW k \in 0 .. count' - 1
       PROVE  ticket'[nxt(k)] = issued' - count' + k
  <2>1. k + R \in 0 .. count + F - 1 /\ k + R \in 0 .. DEPTH - 1 /\ k \in 0 .. DEPTH
    BY <1>1, <1>2
  <2>2. nxt(k) = idx_at(k + R)
    BY <2>1, <1>1, <1>3
  <2>3. issued' - count' + k = issued - count + (k + R)
    BY <1>1, <1>2 DEF Tick, History
  <2>4. ticket'[idx_at(k + R)] = issued - count + (k + R)
    <3>1. CASE f /\ k + R = count
      <4>1. idx_at(k + R) = tail /\ tail \in Slots /\ ticket \in [Slots -> Nat]
        BY <3>1 DEF Inv, Window, RTypeOK, TypeOK
      <4> QED
        BY <4>1, <3>1, <1>1 DEF Tick, History
    <3>2. CASE k + R \in 0 .. count - 1
      <4>1. f => idx_at(k + R) # tail
        <5> SUFFICES ASSUME f, idx_at(k + R) = idx_at(count) PROVE FALSE
          BY DEF Inv, Window
        <5>1. count \in 0 .. DEPTH - 1
          BY <1>1, <1>2
        <5>2. k + R = count
          BY <5>1, <2>1, <1>7
        <5> QED
          BY <5>2, <3>2, <1>1
      <4>2. ticket'[idx_at(k + R)] = ticket[idx_at(k + R)]
        <5>1. idx_at(k + R) \in Slots /\ ticket \in [Slots -> Nat]
          BY <2>1, <1>1, IdxInRange DEF Inv, RTypeOK
        <5> QED
          BY <5>1, <4>1 DEF Tick, History
      <4> QED
        BY <4>2, <3>2 DEF Inv, Window
    <3> QED
      BY <3>1, <3>2, <2>1, <1>1
  <2> QED
    BY <2>2, <2>3, <2>4
<1> QED
  BY <1>5, <1>6, <1>9, <1>10, <1>11 DEF Window, idx_at

-----------------------------------------------------------------------------
\* The window invariant is inductive.
LEMMA Inductive == Inv /\ [RNext]_allVars => Inv'
<1> SUFFICES ASSUME Inv, [RNext]_allVars PROVE Inv'
  OBVIOUS
<1>1. CASE RNext
  BY <1>1, TickTypeOK, TickWindow DEF RNext, Inv
<1>2. CASE UNCHANGED allVars
  <2> USE <1>2 DEF allVars, regs, history
  <2>1. RTypeOK'
    BY DEF Inv, RTypeOK, TypeOK
  <2>2. Window'
    BY DEF Inv, Window, idx_at
  <2> QED
    BY <2>1, <2>2 DEF Inv
<1> QED
  BY <1>1, <1>2

\* Registers and history keep their types, and the window its shape: occupied
\* slots lie in [head, tail) and a slot's position is its transaction's age.
THEOREM WindowHolds == Spec => [](RTypeOK /\ Window)
<1>1. Inv <=> RTypeOK /\ Window
  BY DEF Inv
<1> QED
  BY <1>1, InitInv, Inductive, PTL DEF Spec

\* No tag is handed out while the transaction that last had it is outstanding.
THEOREM TagsAreFresh == Spec => []FreshTag
<1>1. Spec => []Inv
  BY InitInv, Inductive, PTL DEF Spec
<1> QED
  BY <1>1, InvFreshTag, PTL

-----------------------------------------------------------------------------
(* Implementation of PerIdOrder.                                           *)

txn(s) == [n |-> ticket[s], id |-> id_arr[s],
           rsp |-> IF s \in done THEN data_arr[s] ELSE None]

\* An occupied slot has a position, and different slots different ages.
LEMMA TicketsDiffer ==
  ASSUME Inv, NEW s \in occ, NEW t \in occ, ticket[s] = ticket[t]
  PROVE  s = t
<1>1. count \in 0 .. DEPTH /\ DEPTH \in Nat /\ issued \in Nat
  BY ReorderAssumption DEF Inv, RTypeOK, TypeOK
<1>2. PICK j \in 0 .. count - 1 : s = idx_at(j)
  BY DEF Inv, Window
<1>3. PICK k \in 0 .. count - 1 : t = idx_at(k)
  BY DEF Inv, Window
<1>4. ticket[s] = issued - count + j /\ ticket[t] = issued - count + k
  BY <1>2, <1>3 DEF Inv, Window
<1> QED
  BY <1>1, <1>2, <1>3, <1>4

\* The slot presented is completed and the oldest outstanding one of its ID.
LEMMA OutputIsOldest ==
  ASSUME Inv, out_valid
  PROVE  /\ out_idx \in occ /\ out_idx \in done
         /\ \A s \in occ : id_arr[s] = out_id => ticket[out_idx] <= ticket[s]
<1>1. /\ out_pos \in 0 .. count - 1
      /\ out_idx = idx_at(out_pos)
      /\ out_idx \in occ \cap done
      /\ \A j \in 0 .. out_pos - 1 :
           idx_at(j) \in occ => id_arr[idx_at(j)] # out_id
  BY OutputSelected DEF Inv, RTypeOK
<1>2. ASSUME NEW s \in occ, id_arr[s] = out_id PROVE ticket[out_idx] <= ticket[s]
  <2>1. count \in 0 .. DEPTH /\ DEPTH \in Nat /\ issued \in Nat
    BY ReorderAssumption DEF Inv, RTypeOK, TypeOK
  <2>2. PICK k \in 0 .. count - 1 : s = idx_at(k)
    BY DEF Inv, Window
  <2>3. out_pos <= k
    BY <1>1, <1>2, <2>1, <2>2
  <2>4. ticket[s] = issued - count + k /\ ticket[out_idx] = issued - count + out_pos
    BY <1>1, <2>2 DEF Inv, Window
  <2> QED
    BY <1>1, <2>1, <2>2, <2>3, <2>4
<1> QED
  BY <1>1, <1>2

\* One clock edge is one step of PerIdOrder: at most one issue, one arrival and
\* one release, the released transaction the oldest of its ID.
LEMMA TickImplements ==
  ASSUME Inv, NEW iss \in Requests, NEW cmp \in Answers, NEW outRdy \in BOOLEAN,
         Tick(iss, cmp, outRdy)
  PROVE  Abstract!Next
<1> DEFINE f == iss_fire(iss)
           o == out_fire(outRdy)
           nxt(s) == [n |-> ticket'[s], id |-> id_arr'[s],
                      rsp |-> IF s \in done' THEN data_arr'[s] ELSE None]
           new == IF f THEN {iss} ELSE {}
           arrived == IF cmp = None THEN {} ELSE {txn(cmp.tag)}
           d == IF cmp = None THEN data_arr[0] ELSE cmp.data
           released == IF o THEN {txn(out_idx)} ELSE {}
           answered == {[n |-> t.n, id |-> t.id, rsp |-> d] : t \in arrived}
           begun == {[n |-> issued, id |-> i, rsp |-> None] : i \in new}
<1>1. Outstanding = {txn(s) : s \in occ} /\ Outstanding' = {nxt(s) : s \in occ'}
  BY DEF Outstanding, txn
<1>2. /\ occ \subseteq Slots /\ done \subseteq occ /\ 0 \in Slots
      /\ id_arr \in [Slots -> Ids] /\ data_arr \in [Slots -> Data]
      /\ ticket \in [Slots -> Nat] /\ tail \in Slots /\ issued \in Nat
      /\ None \notin Data
  BY ReorderAssumption, ResponseReorderingAssumption
     DEF Inv, RTypeOK, TypeOK, Window, Slots
<1>3. f => tail \notin occ /\ iss \in Ids
  BY InvFreshTag DEF FreshTag, iss_fire, iss_tag, Requests
<1>4. cmp # None => cmp.tag \in occ /\ cmp.tag \notin done /\ cmp.data \in Data
  BY DEF Answers
<1>5. o => /\ out_idx \in occ /\ out_idx \in done
           /\ \A s \in occ : id_arr[s] = id_arr[out_idx] => ticket[out_idx] <= ticket[s]
  BY OutputIsOldest DEF out_fire, out_id
<1>6. occ' = (IF f THEN occ \cup {tail} ELSE occ) \ (IF o THEN {out_idx} ELSE {})
  BY DEF Tick, Clock, Issue, Released
<1>7. done' = ((done \ (IF f THEN {tail} ELSE {}))
                 \cup (IF cmp = None THEN {} ELSE {cmp.tag}))
              \ (IF o THEN {out_idx} ELSE {})
  BY DEF Tick, Clock, Complete, Released
<1>8. \A s \in occ : s # tail \/ ~f
  BY <1>3
<1>9. ASSUME NEW s \in occ
      PROVE  /\ ticket'[s] = ticket[s] /\ id_arr'[s] = id_arr[s]
             /\ (cmp = None \/ s # cmp.tag) => data_arr'[s] = data_arr[s]
             /\ (cmp # None /\ s = cmp.tag) => data_arr'[s] = cmp.data
  <2>1. ticket'[s] = ticket[s] /\ id_arr'[s] = id_arr[s]
    BY <1>2, <1>8 DEF Tick, Clock, Issue, History
  <2>2. data_arr' = IF cmp = None THEN data_arr
                    ELSE [data_arr EXCEPT ![cmp.tag] = cmp.data]
    BY DEF Tick, Clock, Complete
  <2> QED
    BY <1>2, <2>1, <2>2
<1>10. f => nxt(tail) = [n |-> issued, id |-> iss, rsp |-> None]
  <2> SUFFICES ASSUME f PROVE nxt(tail) = [n |-> issued, id |-> iss, rsp |-> None]
    OBVIOUS
  <2>1. ticket'[tail] = issued /\ id_arr'[tail] = iss
    BY <1>2 DEF Tick, Clock, Issue, History
  <2>2. tail \notin done'
    BY <1>2, <1>3, <1>4, <1>7
  <2> QED
    BY <2>1, <2>2
<1>11. cmp # None /\ cmp.tag \in occ' =>
         nxt(cmp.tag) = [n |-> txn(cmp.tag).n, id |-> txn(cmp.tag).id, rsp |-> d]
  BY <1>4, <1>6, <1>7, <1>9 DEF txn
<1>12. \A s \in occ : s \in occ' /\ (cmp = None \/ s # cmp.tag) => nxt(s) = txn(s)
  BY <1>6, <1>7, <1>8, <1>9 DEF txn
<1>13. \A s, t \in occ : txn(s) = txn(t) => s = t
  <2> SUFFICES ASSUME NEW s \in occ, NEW t \in occ, txn(s) = txn(t) PROVE s = t
    OBVIOUS
  <2>1. ticket[s] = ticket[t]
    BY DEF txn
  <2> QED
    BY <2>1, TicketsDiffer
<1>14. arrived \in Abstract!Arrivals
  <2>1. cmp # None => txn(cmp.tag) \in Outstanding /\ txn(cmp.tag).rsp = None
    BY <1>1, <1>4 DEF txn
  <2> QED
    BY <2>1 DEF Abstract!Arrivals, Abstract!AtMostOne
<1>15. released \in Abstract!Releases
  <2>1. o => txn(out_idx) \in Outstanding /\ txn(out_idx).rsp # None
    BY <1>1, <1>2, <1>5 DEF txn
  <2>2. o => Abstract!Oldest(txn(out_idx))
    <3> SUFFICES ASSUME o, NEW s \in occ, txn(s).id = txn(out_idx).id
                 PROVE  txn(out_idx).n <= txn(s).n
      BY <1>1 DEF Abstract!Oldest
    <3> QED
      BY <1>5 DEF txn
  <2> QED
    BY <2>1, <2>2 DEF Abstract!Releases, Abstract!AtMostOne
<1>16. Outstanding' = (Outstanding \ (arrived \cup released)) \cup answered \cup begun
  <2>1. ASSUME NEW s \in occ'
        PROVE  nxt(s) \in (Outstanding \ (arrived \cup released)) \cup answered \cup begun
    <3>1. CASE f /\ s = tail
      BY <3>1, <1>10
    <3>2. CASE s \in occ /\ cmp # None /\ s = cmp.tag
      BY <3>2, <2>1, <1>11
    <3>3. CASE s \in occ /\ (cmp = None \/ s # cmp.tag)
      <4>1. nxt(s) = txn(s) /\ txn(s) \in Outstanding
        BY <3>3, <2>1, <1>1, <1>12
      <4>2. txn(s) \notin arrived
        BY <3>3, <1>4, <1>13
      <4>3. txn(s) \notin released
        BY <3>3, <2>1, <1>3, <1>5, <1>6, <1>13
      <4> QED
        BY <4>1, <4>2, <4>3
    <3> QED
      BY <3>1, <3>2, <3>3, <1>6
  <2>2. ASSUME NEW s \in occ, txn(s) \notin arrived, txn(s) \notin released
        PROVE  txn(s) \in Outstanding'
    <3>1. s \in occ' /\ (cmp = None \/ s # cmp.tag)
      BY <2>2, <1>6
    <3> QED
      BY <3>1, <1>1, <1>12
  <2>3. answered \subseteq Outstanding'
    <3> SUFFICES ASSUME cmp # None
                 PROVE  [n |-> txn(cmp.tag).n, id |-> txn(cmp.tag).id, rsp |-> d]
                          \in Outstanding'
      OBVIOUS
    <3>1. cmp.tag \in occ'
      BY <1>4, <1>5, <1>6
    <3> QED
      BY <3>1, <1>1, <1>11
  <2>4. begun \subseteq Outstanding'
    <3> SUFFICES ASSUME f
                 PROVE  [n |-> issued, id |-> iss, rsp |-> None] \in Outstanding'
      OBVIOUS
    <3>1. tail \in occ'
      BY <1>3, <1>5, <1>6
    <3> QED
      BY <3>1, <1>1, <1>10
  <2> HIDE DEF arrived, released, answered, begun, nxt
  <2>5. Outstanding \ (arrived \cup released) \subseteq Outstanding'
    BY <2>2, <1>1
  <2>6. Outstanding' \subseteq
          (Outstanding \ (arrived \cup released)) \cup answered \cup begun
    BY <2>1, <1>1
  <2> QED
    BY <2>3, <2>4, <2>5, <2>6
<1>17. issued' = IF new = {} THEN issued ELSE issued + 1
  BY DEF Tick, History
<1>18. delivered' = IF released = {} THEN delivered
                    ELSE LET t == CHOOSE t \in released : TRUE
                         IN  [id |-> t.id, data |-> t.rsp]
  <2>1. CASE o
    <3>1. released = {txn(out_idx)} /\ (CHOOSE t \in released : TRUE) = txn(out_idx)
      BY <2>1
    <3> QED
      BY <3>1, <2>1, <1>5 DEF Tick, History, txn, out_id, out_data
  <2>2. CASE ~o
    BY <2>2 DEF Tick, History
  <2> QED
    BY <2>1, <2>2
<1>19. Abstract!Step(new, arrived, d, released)
  BY <1>16, <1>17, <1>18 DEF Abstract!Step
<1>20. new \in {N \in SUBSET Ids : Abstract!AtMostOne(N)} /\ d \in Data
  BY <1>2, <1>3, <1>4 DEF Abstract!AtMostOne
<1> QED
  BY <1>14, <1>15, <1>19, <1>20 DEF Abstract!Next

\* The buffer implements AXI's ordering rule (PerIdOrder).
THEOREM ImplementsPerIdOrder == Spec => KeepsPerIdOrder
<1>1. RInit => Abstract!Init
  BY DEF RInit, Init, Abstract!Init, Outstanding
<1>2. Inv /\ [RNext]_allVars => [Abstract!Next]_<<Outstanding, issued, delivered>>
  <2> SUFFICES ASSUME Inv, [RNext]_allVars
               PROVE  [Abstract!Next]_<<Outstanding, issued, delivered>>
    OBVIOUS
  <2>1. CASE RNext
    BY <2>1, TickImplements DEF RNext
  <2>2. CASE UNCHANGED allVars
    BY <2>2 DEF allVars, regs, history, Outstanding
  <2> QED
    BY <2>1, <2>2
<1> QED
  BY <1>1, <1>2, InitInv, Inductive, PTL DEF Spec, KeepsPerIdOrder, Abstract!Spec
=============================================================================
