------------------------- MODULE ActivationLink_proofs -------------------------
(***************************************************************************)
(* Proofs about the two ends of a plane's activation, for every schedule   *)
(* of tear-downs, with a link to itself (HeldOff = {}).  As long as no     *)
(* stray request struck, no end falls into ERROR and the two are ENABLED   *)
(* together; and no data flit meets an end that brings the link up, before *)
(* and (unless software clears an end) after any number of strays.         *)
(*                                                                         *)
(* The argument: the ends are always in one of four situations: both       *)
(* bringing the link up, both up (or tearing it down), or one a single     *)
(* cycle ahead of the other over the border between the two.  In each,     *)
(* what one end has sent is what the other has received and what is on     *)
(* the link, and an end answers a message in the cycle that message        *)
(* arrives in, so neither finishes a handshake with a message of its own   *)
(* still to send.  A stray request forges neither an ack nor a grant: it   *)
(* loosens what a request says of its sender, and otherwise takes an end   *)
(* into ERROR, which sends nothing and takes whatever comes.               *)
(***************************************************************************)
EXTENDS ActivationLink, FiniteSetTheorems, TLAPS

BringUp  == {"areq", "aack", "crdt"}
TearDown == {"dreq", "dack"}
Rising   == {"DISABLED", "ACTIVATE"}
Up       == {"ENABLED", "DEACTIVATE"}

\* The situations, for ends in state s1, s2 with the flags S1, R1, S2, R2 and the
\* links l12, l21 between them.

\* X are the stray requests that may have joined the ends' own messages: none as
\* long as none struck, any of Requests from then on.
Requests == {"areq", "dreq"}

\* What end 1 has sent of the messages M, end 2 has received or is about to, and
\* (but for stray requests) the other way round.
Carried(S1, l12, R2, M, X) ==
  /\ \A m \in M : m \in S1 => m \in R2 \/ l12 = m
  /\ \A m \in M \ X : m \in R2 \/ l12 = m => m \in S1

\* Bringing the link up, seen from end 1.
RisingSide(s1, S1, R1, l12, l21, R2, X) ==
  /\ s1 \in Rising
  /\ s1 = "ACTIVATE" <=> "areq" \in S1
  /\ l12 \in BringUp \cup {None} \cup X
  /\ l12 \in BringUp \ X => l12 \notin R2
  /\ Carried(S1, l12, R2, BringUp, X)
  /\ "aack" \in S1 => "areq" \in S1 /\ "areq" \in R1
  /\ "crdt" \in S1 => "aack" \in S1
  /\ "aack" \in R1 => "areq" \in R1 /\ s1 = "ACTIVATE"
  /\ "crdt" \in R1 => "aack" \in R1 /\ "crdt" \in S1
  /\ l21 = "aack" => "areq" \in R1 /\ s1 = "ACTIVATE"
  /\ l21 = "crdt" => "aack" \in S1

\* Up or tearing the link down, seen from end 1.  A DeactivateReq can be received
\* and still be on the link: an ENABLED end sees it before it takes it.
UpSide(s1, S1, R1, l12, l21, R2, X) ==
  /\ s1 \in Up
  /\ s1 = "ENABLED" => S1 \cap TearDown = {} /\ R1 \cap TearDown = {}
  /\ l12 \in TearDown \cup {None, "data"} \cup X
  /\ Carried(S1, l12, R2, TearDown, X)
  /\ l12 = "dack" => "dack" \notin R2
  /\ "dack" \in S1 => "dreq" \in S1 /\ "dreq" \in R1
  /\ "dack" \in R1 => "dreq" \in R1 /\ "dreq" \in S1
  /\ l21 = "dack" => "dreq" \in R1 /\ s1 = "DEACTIVATE"

\* End 1 is up already, end 2 follows in this cycle.
UpFirst(s1, S1, R1, s2, S2, R2, l12, l21, X) ==
  /\ s1 = "ENABLED" /\ s2 = "ACTIVATE"
  /\ S1 \cap TearDown = {} /\ R1 \cap TearDown = {}
  /\ BringUp \subseteq S2 /\ BringUp \subseteq R2
  /\ l12 \in {None} \cup X /\ l21 \in {None} \cup X

\* End 1 is down already, end 2 follows in this cycle.
DownFirst(s1, S1, R1, s2, S2, R2, l12, l21, X) ==
  /\ s1 = "DISABLED" /\ s2 = "DEACTIVATE"
  /\ S1 \cap BringUp = {} /\ R1 \cap BringUp = {}
  /\ TearDown \subseteq S2 /\ TearDown \subseteq R2
  /\ l12 \in {None} \cup X /\ l21 \in {None} \cup X

BothRising(s1, S1, R1, s2, S2, R2, l12, l21, X) ==
  /\ RisingSide(s1, S1, R1, l12, l21, R2, X)
  /\ RisingSide(s2, S2, R2, l21, l12, R1, X)

BothUp(s1, S1, R1, s2, S2, R2, l12, l21, X) ==
  /\ UpSide(s1, S1, R1, l12, l21, R2, X)
  /\ UpSide(s2, S2, R2, l21, l12, R1, X)

Situation(s1, S1, R1, s2, S2, R2, l12, l21, X) ==
  \/ BothRising(s1, S1, R1, s2, S2, R2, l12, l21, X)
  \/ BothUp(s1, S1, R1, s2, S2, R2, l12, l21, X)
  \/ UpFirst(s1, S1, R1, s2, S2, R2, l12, l21, X)
  \/ UpFirst(s2, S2, R2, s1, S1, R1, l21, l12, X)
  \/ DownFirst(s1, S1, R1, s2, S2, R2, l12, l21, X)
  \/ DownFirst(s2, S2, R2, s1, S1, R1, l21, l12, X)

InStep(X) == Situation(iState, iSent, iRcvd, tState, tSent, tRcvd, a2b, b2a, X)

Inv == /\ faults \in Nat
       /\ faults = 0 => InStep({})

\* What keeps data from being swallowed when stray requests strike: whatever its peer
\* does, an end that data is coming to takes it before it can leave the connection.
DataMet(s, R, l) ==
  /\ s \in Rising \cup Up \cup {"ERROR"}
  /\ s = "ENABLED" => "dack" \notin R
  /\ l = "data" => s \in {"ENABLED", "ERROR"} \/ (s = "DEACTIVATE" /\ "dack" \notin R)

\* With strays, the situations last until an end is in ERROR: for good, unless
\* software clears it.
PairMet(s1, S1, R1, s2, S2, R2, l12, l21) ==
  /\ DataMet(s1, R1, l21)
  /\ DataMet(s2, R2, l12)
  /\ "ERROR" \notin {s1, s2} => Situation(s1, S1, R1, s2, S2, R2, l12, l21, Requests)

StrayInv == PairMet(iState, iSent, iRcvd, tState, tSent, tRcvd, a2b, b2a)

-----------------------------------------------------------------------------
(* One end, by its messages.                                               *)

\* act_tx as a function of the registers.
Tx(s, S, R) ==
  CASE s \in Rising ->
         IF "areq" \notin S THEN "areq"
         ELSE IF "aack" \notin S /\ "areq" \in R THEN "aack"
         ELSE IF "crdt" \notin S /\ "aack" \in S THEN "crdt" ELSE None
    [] s = "DEACTIVATE" ->
         IF "dreq" \notin S THEN "dreq"
         ELSE IF "dack" \notin S /\ "dreq" \in R THEN "dack" ELSE None
    [] OTHER -> None

\* The messages an end in state s takes note of.
Noted(s, m) ==
  \/ m = "areq" /\ s \in Rising
  \/ m \in {"aack", "crdt"} /\ s = "ACTIVATE"
  \/ m = "dreq" /\ s \in Up
  \/ m = "dack" /\ s = "DEACTIVATE"

\* The requests that are inconsistent with the state and take the end into ERROR.
Upset(s, rx) == (rx = "areq" /\ s \in Up) \/ (rx = "dreq" /\ s = "ACTIVATE")

\* One clock edge of an end that is not in ERROR and not upset by rx.
EndStep(s, S, R, n, N, M, rx, rdy) ==
  /\ s = "DISABLED" => n = IF (Tx(s, S, R) = "areq" /\ rdy) \/ rx = "areq"
                           THEN "ACTIVATE" ELSE "DISABLED"
  /\ s = "ACTIVATE" => n = IF "aack" \in S /\ "aack" \in R /\ "crdt" \in R
                           THEN "ENABLED" ELSE "ACTIVATE"
  /\ s = "ENABLED" => /\ n \in Up
                      /\ rx = "dreq" => n = "DEACTIVATE"
  /\ s = "DEACTIVATE" => n = IF "dack" \in S /\ "dack" \in R
                             THEN "DISABLED" ELSE "DEACTIVATE"
  /\ \A m \in BringUp :
       /\ m \in N <=> /\ m \in S \/ (Tx(s, S, R) = m /\ rdy)
                     /\ ~(s = "DEACTIVATE" /\ n = "DISABLED")
       /\ m \in M <=> /\ m \in R \/ (rx = m /\ Noted(s, m))
                     /\ ~(s = "DEACTIVATE" /\ n = "DISABLED")
  /\ \A m \in TearDown :
       /\ m \in N <=> /\ m \in S \/ (Tx(s, S, R) = m /\ rdy)
                     /\ ~(s = "ACTIVATE" /\ n = "ENABLED")
       /\ m \in M <=> /\ m \in R \/ (rx = m /\ Noted(s, m))
                     /\ ~(s = "ACTIVATE" /\ n = "ENABLED")

\* act_tx as the model of the block chooses it.
Rank == [areq |-> 1, aack |-> 2, crdt |-> 3, dreq |-> 4, dack |-> 5]

WantedOf(s, S, R) ==
  {m \in {"areq", "aack", "crdt", "dreq", "dack"} \ S :
     \/ m = "areq" /\ s \in Rising
     \/ m = "aack" /\ s \in Rising /\ "areq" \in R
     \/ m = "crdt" /\ s \in Rising /\ "aack" \in S
     \/ m = "dreq" /\ s = "DEACTIVATE"
     \/ m = "dack" /\ s = "DEACTIVATE" /\ "dreq" \in R}

FirstOf(W) ==
  IF W = {} THEN None ELSE CHOOSE m \in W : \A n \in W : Rank[m] <= Rank[n]

\* Of the messages wanted, the one of least rank goes out.
LEMMA LeastWanted ==
  ASSUME NEW W \in SUBSET {"areq", "aack", "crdt", "dreq", "dack"},
         NEW m \in W, \A n \in W : Rank[m] <= Rank[n]
  PROVE  FirstOf(W) = m
<1> DEFINE k == CHOOSE k \in W : \A n \in W : Rank[k] <= Rank[n]
<1>1. k \in W /\ \A n \in W : Rank[k] <= Rank[n]
  OBVIOUS
<1>2. \A a, b \in W : Rank[a] = Rank[b] => a = b
  BY DEF Rank
<1>3. \A a \in W : Rank[a] \in Nat
  BY DEF Rank
<1>4. Rank[k] = Rank[m]
  <2> HIDE DEF k
  <2> QED BY <1>1, <1>3
<1> QED BY <1>1, <1>2, <1>4 DEF FirstOf

LEMMA TxOfWanted ==
  ASSUME NEW s, NEW S, NEW R
  PROVE  FirstOf(WantedOf(s, S, R)) = Tx(s, S, R)
<1> DEFINE W == WantedOf(s, S, R)
<1>1. W \in SUBSET {"areq", "aack", "crdt", "dreq", "dack"}
  BY DEF WantedOf
<1>2. CASE W = {}
  BY <1>2 DEF WantedOf, FirstOf, Tx, Rising
<1>3. CASE W # {}
  <2>1. Tx(s, S, R) \in W
    BY <1>3 DEF WantedOf, Tx, Rising
  <2>2. \A n \in W : Rank[Tx(s, S, R)] <= Rank[n]
    BY DEF WantedOf, Tx, Rising, Rank
  <2>3. FirstOf(W) = Tx(s, S, R)
    <3> HIDE DEF W
    <3> QED BY <1>1, <2>1, <2>2, LeastWanted
  <2> QED BY <2>3
<1> QED BY <1>2, <1>3

LEMMA IniTx == I!act_tx = Tx(iState, iSent, iRcvd)
<1>1. I!Wanted = WantedOf(iState, iSent, iRcvd)
  BY DEF I!Wanted, I!in_bringup, I!Misc, I!BringUp, I!TearDown, WantedOf, Rising
<1>2. I!act_tx = FirstOf(I!Wanted)
  BY DEF I!act_tx, I!Rank, FirstOf, Rank
<1> QED BY <1>1, <1>2, TxOfWanted

LEMMA TgtTx == T!act_tx = Tx(tState, tSent, tRcvd)
<1>1. T!Wanted = WantedOf(tState, tSent, tRcvd)
  BY DEF T!Wanted, T!in_bringup, T!Misc, T!BringUp, T!TearDown, WantedOf, Rising
<1>2. T!act_tx = FirstOf(T!Wanted)
  BY DEF T!act_tx, T!Rank, FirstOf, Rank
<1> QED BY <1>1, <1>2, TxOfWanted

LEMMA IniStep ==
  ASSUME NEW rx, NEW rdy, NEW trig, NEW idle, NEW clr,
         I!Clock(rx, rdy, trig, idle, clr),
         iState \in Rising \cup Up, ~Upset(iState, rx)
  PROVE  EndStep(iState, iSent, iRcvd, iState', iSent', iRcvd', rx, rdy)
<1> DEFINE tx == I!act_tx
<1>1. tx = Tx(iState, iSent, iRcvd)
  BY IniTx
<1>2. \A m \in BringUp \cup TearDown :
        /\ m \in I!SentNow(rdy) <=> m \in iSent \/ (tx = m /\ rdy)
        /\ m \in I!RcvdNow(rx) <=> m \in iRcvd \/ (rx = m /\ Noted(iState, m))
  BY NoneIsNoFlit DEF I!SentNow, I!RcvdNow, I!Recorded, I!in_bringup, Noted, BringUp, TearDown,
     Rising, Up, I!Flits, I!Misc, I!BringUp, I!TearDown
<1>3. I!err_now(rx) => iState = "DISABLED"
  BY DEF I!err_now, Upset, Rising, Up
<1> HIDE DEF tx
<1> USE <1>1, <1>2, <1>3 DEF EndStep, I!Flags, BringUp, TearDown, Rising, Up
<1>4. CASE I!Disabled(rx, rdy)
  BY <1>4 DEF I!Disabled, tx
<1>5. CASE I!Activating(rx, rdy)
  BY <1>5 DEF I!Activating, I!HandshakeDone
<1>6. CASE I!Enable(rx, rdy)
  BY <1>6 DEF I!Enable, I!HandshakeDone, I!TearDown
<1>7. CASE I!PeerTeardown(rx, rdy)
  BY <1>7 DEF I!PeerTeardown, I!enabled
<1>8. CASE I!Enabled(rx, rdy, trig, idle)
  BY <1>8 DEF I!Enabled, I!enabled
<1>9. CASE I!Deactivating(rx, rdy)
  BY <1>9 DEF I!Deactivating, I!TeardownDone
<1>10. CASE I!Disable(rx, rdy)
  BY <1>10 DEF I!Disable, I!TeardownDone, I!BringUp
<1>11. ~I!Inconsistent(rx, rdy)
  BY DEF I!Inconsistent
<1>12. ~I!Error(clr) /\ ~I!ClearError(clr)
  BY DEF I!Error, I!ClearError
<1> QED BY <1>4, <1>5, <1>6, <1>7, <1>8, <1>9, <1>10, <1>11, <1>12 DEF I!Clock

LEMMA TgtStep ==
  ASSUME NEW rx, NEW rdy, NEW trig, NEW idle, NEW clr,
         T!Clock(rx, rdy, trig, idle, clr),
         tState \in Rising \cup Up, ~Upset(tState, rx)
  PROVE  EndStep(tState, tSent, tRcvd, tState', tSent', tRcvd', rx, rdy)
<1> DEFINE tx == T!act_tx
<1>1. tx = Tx(tState, tSent, tRcvd)
  BY TgtTx
<1>2. \A m \in BringUp \cup TearDown :
        /\ m \in T!SentNow(rdy) <=> m \in tSent \/ (tx = m /\ rdy)
        /\ m \in T!RcvdNow(rx) <=> m \in tRcvd \/ (rx = m /\ Noted(tState, m))
  BY NoneIsNoFlit DEF T!SentNow, T!RcvdNow, T!Recorded, T!in_bringup, Noted, BringUp, TearDown,
     Rising, Up, I!Flits, I!Misc, I!BringUp, I!TearDown
<1>3. T!err_now(rx) => tState = "DISABLED"
  BY DEF T!err_now, Upset, Rising, Up
<1> HIDE DEF tx
<1> USE <1>1, <1>2, <1>3 DEF EndStep, T!Flags, BringUp, TearDown, Rising, Up
<1>4. CASE T!Disabled(rx, rdy)
  BY <1>4 DEF T!Disabled, tx
<1>5. CASE T!Activating(rx, rdy)
  BY <1>5 DEF T!Activating, T!HandshakeDone
<1>6. CASE T!Enable(rx, rdy)
  BY <1>6 DEF T!Enable, T!HandshakeDone, T!TearDown
<1>7. CASE T!PeerTeardown(rx, rdy)
  BY <1>7 DEF T!PeerTeardown, T!enabled
<1>8. CASE T!Enabled(rx, rdy, trig, idle)
  BY <1>8 DEF T!Enabled, T!enabled
<1>9. CASE T!Deactivating(rx, rdy)
  BY <1>9 DEF T!Deactivating, T!TeardownDone
<1>10. CASE T!Disable(rx, rdy)
  BY <1>10 DEF T!Disable, T!TeardownDone, T!BringUp
<1>11. ~T!Inconsistent(rx, rdy)
  BY DEF T!Inconsistent
<1>12. ~T!Error(clr) /\ ~T!ClearError(clr)
  BY DEF T!Error, T!ClearError
<1> QED BY <1>4, <1>5, <1>6, <1>7, <1>8, <1>9, <1>10, <1>11, <1>12 DEF T!Clock

\* An end that gets upset is in ERROR, and stays there until it is cleared.
LEMMA IniFails ==
  ASSUME NEW rx, NEW rdy, NEW trig, NEW idle, NEW clr,
         I!Clock(rx, rdy, trig, idle, clr)
  PROVE  /\ iState = "ERROR" /\ ~clr => iState' = "ERROR"
         /\ Upset(iState, rx) => iState' = "ERROR"
<1>1. Upset(iState, rx) => I!err_now(rx) /\ iState \in Up \cup {"ACTIVATE"}
  BY DEF I!err_now, Upset, Rising, Up
<1>2. ~clr => ~I!ClearError(clr)
  BY DEF I!ClearError
<1>3. CASE iState = "ERROR"
  BY <1>1, <1>2, <1>3 DEF Up, I!Clock, I!Disabled, I!Activating, I!Enable, I!Inconsistent,
     I!PeerTeardown, I!Enabled, I!enabled, I!Deactivating, I!Disable, I!Error, I!actVars
<1>4. CASE Upset(iState, rx)
  <2>1. I!Inconsistent(rx, rdy)
    BY <1>1, <1>4, NoneIsNoFlit DEF Up, I!Clock, I!Disabled, I!Activating, I!Enable,
       I!PeerTeardown, I!Enabled, I!enabled, I!Deactivating, I!Disable, I!Error,
       I!ClearError, Upset
  <2> QED BY <1>1, <1>4, <2>1 DEF I!Inconsistent, Up
<1> QED BY <1>3, <1>4

LEMMA TgtFails ==
  ASSUME NEW rx, NEW rdy, NEW trig, NEW idle, NEW clr,
         T!Clock(rx, rdy, trig, idle, clr)
  PROVE  /\ tState = "ERROR" /\ ~clr => tState' = "ERROR"
         /\ Upset(tState, rx) => tState' = "ERROR"
<1>1. Upset(tState, rx) => T!err_now(rx) /\ tState \in Up \cup {"ACTIVATE"}
  BY DEF T!err_now, Upset, Rising, Up
<1>2. ~clr => ~T!ClearError(clr)
  BY DEF T!ClearError
<1>3. CASE tState = "ERROR"
  BY <1>1, <1>2, <1>3 DEF Up, T!Clock, T!Disabled, T!Activating, T!Enable, T!Inconsistent,
     T!PeerTeardown, T!Enabled, T!enabled, T!Deactivating, T!Disable, T!Error, T!actVars
<1>4. CASE Upset(tState, rx)
  <2>1. T!Inconsistent(rx, rdy)
    BY <1>1, <1>4, NoneIsNoFlit DEF Up, T!Clock, T!Disabled, T!Activating, T!Enable,
       T!PeerTeardown, T!Enabled, T!enabled, T!Deactivating, T!Disable, T!Error,
       T!ClearError, Upset
  <2> QED BY <1>1, <1>4, <2>1 DEF T!Inconsistent, Up
<1> QED BY <1>3, <1>4

-----------------------------------------------------------------------------
(* Both ends.                                                              *)

\* What an end puts on its link, and whether it takes what comes.
Put(s, S, R, o) == IF s = "ENABLED" THEN o ELSE Tx(s, S, R)
Takes(s, g)     == s = "ENABLED" => g

\* The link after a cycle.
Next12(l12, put, taken) == IF l12 = None \/ taken THEN put ELSE l12

\* What an end's link is offered: what the end puts there or, if neither the end nor
\* the link has a flit, a stray request.
Offered(p, put, l, X) == p = put \/ (put = None /\ l = None /\ p \in X)

Driven(l, k, put, taken, X) ==
  \E p \in {put} \cup X : Offered(p, put, l, X) /\ k = Next12(l, p, taken)

\* A cycle of an end that does not get upset, with its own link l (then k).
EndCycle(s, S, R, n, N, M, rx, l, k, taken, X) ==
  /\ ~Upset(s, rx)
  /\ EndStep(s, S, R, n, N, M, rx, l = None \/ taken)
  /\ \E o \in {None, "data"} : Driven(l, k, Put(s, S, R, o), taken, X)

\* A cycle of two such ends.
LEMMA PairStep ==
  ASSUME NEW X \in SUBSET Requests,
         NEW s1, NEW S1, NEW R1, NEW s2, NEW S2, NEW R2, NEW l12, NEW l21,
         NEW n1, NEW N1, NEW M1, NEW n2, NEW N2, NEW M2, NEW k12, NEW k21,
         NEW g1 \in BOOLEAN, NEW g2 \in BOOLEAN,
         Situation(s1, S1, R1, s2, S2, R2, l12, l21, X),
         EndCycle(s1, S1, R1, n1, N1, M1, l21, l12, k12, Takes(s2, g2), X),
         EndCycle(s2, S2, R2, n2, N2, M2, l12, l21, k21, Takes(s1, g1), X)
  PROVE  Situation(n1, N1, M1, n2, N2, M2, k12, k21, X)
<1> DEFINE r12 == l12 = None \/ Takes(s2, g2)
           r21 == l21 = None \/ Takes(s1, g1)
<1>a. ~Upset(s1, l21) /\ EndStep(s1, S1, R1, n1, N1, M1, l21, r12)
  BY DEF EndCycle
<1>b. ~Upset(s2, l12) /\ EndStep(s2, S2, R2, n2, N2, M2, l12, r21)
  BY DEF EndCycle
<1>c. PICK o1 \in {None, "data"} : Driven(l12, k12, Put(s1, S1, R1, o1), Takes(s2, g2), X)
  BY DEF EndCycle
<1>d. PICK o2 \in {None, "data"} : Driven(l21, k21, Put(s2, S2, R2, o2), Takes(s1, g1), X)
  BY DEF EndCycle
<1>p. PICK p12 : Offered(p12, Put(s1, S1, R1, o1), l12, X) /\ k12 = Next12(l12, p12, Takes(s2, g2))
  BY <1>c DEF Driven
<1>q. PICK p21 : Offered(p21, Put(s2, S2, R2, o2), l21, X) /\ k21 = Next12(l21, p21, Takes(s1, g1))
  BY <1>d DEF Driven
<1> USE <1>a, <1>b, <1>p, <1>q, NoneIsNoFlit
        DEF I!Flits, I!Misc, I!BringUp, I!TearDown, BringUp, TearDown, Rising, Up, EndStep,
        Tx, Put, Takes, Next12, Noted, Carried, Requests, Offered, Upset
<1>1. CASE BothRising(s1, S1, R1, s2, S2, R2, l12, l21, X)
  <2> USE <1>1 DEF BothRising, RisingSide
  <2>1. CASE n1 \in Rising /\ n2 \in Rising
    <3>1. RisingSide(n1, N1, M1, k12, k21, M2, X)
      <4>1. /\ n1 = "ACTIVATE" <=> "areq" \in N1
            /\ k12 \in BringUp \cup {None} \cup X
            /\ k12 \in BringUp \ X => k12 \notin M2
        BY <2>1
      <4>2. Carried(N1, k12, M2, BringUp, X)
        BY <2>1
      <4>3. /\ "aack" \in N1 => "areq" \in N1 /\ "areq" \in M1
            /\ "crdt" \in N1 => "aack" \in N1
            /\ "aack" \in M1 => "areq" \in M1 /\ n1 = "ACTIVATE"
        BY <2>1
      <4>4. /\ "crdt" \in M1 => "aack" \in M1 /\ "crdt" \in N1
            /\ k21 = "aack" => "areq" \in M1 /\ n1 = "ACTIVATE"
            /\ k21 = "crdt" => "aack" \in N1
        BY <2>1
      <4> QED BY <2>1, <4>1, <4>2, <4>3, <4>4 DEF RisingSide
    <3>2. RisingSide(n2, N2, M2, k21, k12, M1, X)
      <4>1. /\ n2 = "ACTIVATE" <=> "areq" \in N2
            /\ k21 \in BringUp \cup {None} \cup X
            /\ k21 \in BringUp \ X => k21 \notin M1
        BY <2>1
      <4>2. Carried(N2, k21, M1, BringUp, X)
        BY <2>1
      <4>3. /\ "aack" \in N2 => "areq" \in N2 /\ "areq" \in M2
            /\ "crdt" \in N2 => "aack" \in N2
            /\ "aack" \in M2 => "areq" \in M2 /\ n2 = "ACTIVATE"
        BY <2>1
      <4>4. /\ "crdt" \in M2 => "aack" \in M2 /\ "crdt" \in N2
            /\ k12 = "aack" => "areq" \in M2 /\ n2 = "ACTIVATE"
            /\ k12 = "crdt" => "aack" \in N2
        BY <2>1
      <4> QED BY <2>1, <4>1, <4>2, <4>3, <4>4 DEF RisingSide
    <3> QED BY <3>1, <3>2 DEF Situation
  <2>2. CASE n1 = "ENABLED" /\ n2 \in Rising
    <3>1. UpFirst(n1, N1, M1, n2, N2, M2, k12, k21, X)
      BY <2>2 DEF UpFirst
    <3> QED BY <3>1 DEF Situation
  <2>3. CASE n1 \in Rising /\ n2 = "ENABLED"
    <3>1. UpFirst(n2, N2, M2, n1, N1, M1, k21, k12, X)
      BY <2>3 DEF UpFirst
    <3> QED BY <3>1 DEF Situation
  <2>4. CASE n1 = "ENABLED" /\ n2 = "ENABLED"
    <3>1. UpSide(n1, N1, M1, k12, k21, M2, X)
      BY <2>4 DEF UpSide
    <3>2. UpSide(n2, N2, M2, k21, k12, M1, X)
      BY <2>4 DEF UpSide
    <3> QED BY <3>1, <3>2 DEF Situation, BothUp
  <2> QED BY <2>1, <2>2, <2>3, <2>4
<1>2. CASE BothUp(s1, S1, R1, s2, S2, R2, l12, l21, X)
  <2> USE <1>2 DEF BothUp, UpSide
  <2>1. CASE n1 \in Up /\ n2 \in Up
    <3>1. UpSide(n1, N1, M1, k12, k21, M2, X)
      <4>1. n1 = "ENABLED" => N1 \cap TearDown = {} /\ M1 \cap TearDown = {}
        BY <2>1
      <4>2. /\ k12 \in TearDown \cup {None, "data"} \cup X
            /\ k12 = "dack" => "dack" \notin M2
        BY <2>1
      <4>3. Carried(N1, k12, M2, TearDown, X)
        BY <2>1
      <4>4. /\ "dack" \in N1 => "dreq" \in N1 /\ "dreq" \in M1
            /\ "dack" \in M1 => "dreq" \in M1 /\ "dreq" \in N1
            /\ k21 = "dack" => "dreq" \in M1 /\ n1 = "DEACTIVATE"
        BY <2>1
      <4> QED BY <2>1, <4>1, <4>2, <4>3, <4>4 DEF UpSide
    <3>2. UpSide(n2, N2, M2, k21, k12, M1, X)
      <4>1. n2 = "ENABLED" => N2 \cap TearDown = {} /\ M2 \cap TearDown = {}
        BY <2>1
      <4>2. /\ k21 \in TearDown \cup {None, "data"} \cup X
            /\ k21 = "dack" => "dack" \notin M1
        BY <2>1
      <4>3. Carried(N2, k21, M1, TearDown, X)
        BY <2>1
      <4>4. /\ "dack" \in N2 => "dreq" \in N2 /\ "dreq" \in M2
            /\ "dack" \in M2 => "dreq" \in M2 /\ "dreq" \in N2
            /\ k12 = "dack" => "dreq" \in M2 /\ n2 = "DEACTIVATE"
        BY <2>1
      <4> QED BY <2>1, <4>1, <4>2, <4>3, <4>4 DEF UpSide
    <3> QED BY <3>1, <3>2 DEF Situation
  <2>2. CASE n1 = "DISABLED" /\ n2 \in Up
    <3>1. DownFirst(n1, N1, M1, n2, N2, M2, k12, k21, X)
      BY <2>2 DEF DownFirst
    <3> QED BY <3>1 DEF Situation
  <2>3. CASE n1 \in Up /\ n2 = "DISABLED"
    <3>1. DownFirst(n2, N2, M2, n1, N1, M1, k21, k12, X)
      BY <2>3 DEF DownFirst
    <3> QED BY <3>1 DEF Situation
  <2>4. CASE n1 = "DISABLED" /\ n2 = "DISABLED"
    <3>1. RisingSide(n1, N1, M1, k12, k21, M2, X)
      BY <2>4 DEF RisingSide
    <3>2. RisingSide(n2, N2, M2, k21, k12, M1, X)
      BY <2>4 DEF RisingSide
    <3> QED BY <3>1, <3>2 DEF Situation, BothRising
  <2> QED BY <2>1, <2>2, <2>3, <2>4
<1>3. CASE UpFirst(s1, S1, R1, s2, S2, R2, l12, l21, X)
  <2> USE <1>3 DEF UpFirst
  <2>1. UpSide(n1, N1, M1, k12, k21, M2, X)
    BY DEF UpSide
  <2>2. UpSide(n2, N2, M2, k21, k12, M1, X)
    BY DEF UpSide
  <2> QED BY <2>1, <2>2 DEF Situation, BothUp
<1>4. CASE UpFirst(s2, S2, R2, s1, S1, R1, l21, l12, X)
  <2> USE <1>4 DEF UpFirst
  <2>1. UpSide(n1, N1, M1, k12, k21, M2, X)
    BY DEF UpSide
  <2>2. UpSide(n2, N2, M2, k21, k12, M1, X)
    BY DEF UpSide
  <2> QED BY <2>1, <2>2 DEF Situation, BothUp
<1>5. CASE DownFirst(s1, S1, R1, s2, S2, R2, l12, l21, X)
  <2> USE <1>5 DEF DownFirst
  <2>1. RisingSide(n1, N1, M1, k12, k21, M2, X)
    BY DEF RisingSide
  <2>2. RisingSide(n2, N2, M2, k21, k12, M1, X)
    BY DEF RisingSide
  <2> QED BY <2>1, <2>2 DEF Situation, BothRising
<1>6. CASE DownFirst(s2, S2, R2, s1, S1, R1, l21, l12, X)
  <2> USE <1>6 DEF DownFirst
  <2>1. RisingSide(n1, N1, M1, k12, k21, M2, X)
    BY DEF RisingSide
  <2>2. RisingSide(n2, N2, M2, k21, k12, M1, X)
    BY DEF RisingSide
  <2> QED BY <2>1, <2>2 DEF Situation, BothRising
<1> QED BY <1>1, <1>2, <1>3, <1>4, <1>5, <1>6 DEF Situation

LEMMA Symmetric ==
  ASSUME NEW s1, NEW S1, NEW R1, NEW s2, NEW S2, NEW R2, NEW l12, NEW l21, NEW X,
         Situation(s1, S1, R1, s2, S2, R2, l12, l21, X)
  PROVE  Situation(s2, S2, R2, s1, S1, R1, l21, l12, X)
BY DEF Situation, BothRising, BothUp

\* Without stray requests no message on the links upsets an end, and no end is in
\* ERROR.
LEMMA Calm ==
  ASSUME InStep({})
  PROVE  /\ iState \in Rising \cup Up /\ ~Upset(iState, b2a)
         /\ tState \in Rising \cup Up /\ ~Upset(tState, a2b)
BY NoneIsNoFlit DEF InStep, Situation, BothRising, RisingSide, BothUp, UpSide, UpFirst, DownFirst,
   Upset, Rising, Up, BringUp, TearDown, I!Flits, I!Misc, I!BringUp, I!TearDown

LEMMA LinkStep ==
  /\ \A in, taken : A2B!Clock(in, taken) => a2b' = Next12(a2b, in, taken)
  /\ \A in, taken : B2A!Clock(in, taken) => b2a' = Next12(b2a, in, taken)
BY DEF Next12, A2B!Clock, A2B!Load, A2B!Drain, A2B!Hold, A2B!InReady,
       B2A!Clock, B2A!Load, B2A!Drain, B2A!Hold, B2A!InReady

\* A cycle as the two ends and the two links see it, with stray requests of X.
LEMMA EdgeOfEnds ==
  ASSUME NEW X \in SUBSET Requests, NEW stray \in [Ends -> {None} \cup X],
         NEW offer \in Offers, NEW ready, NEW idle, NEW trig, NEW clr,
         Edge(offer, ready, idle, {}, trig, clr, stray)
  PROVE  /\ I!Clock(b2a, a2b = None \/ Takes(tState, "tgt" \in ready),
                    "ini" \in trig, "ini" \in idle, "ini" \in clr)
         /\ T!Clock(a2b, b2a = None \/ Takes(iState, "ini" \in ready),
                    "tgt" \in trig, "tgt" \in idle, "tgt" \in clr)
         /\ Driven(a2b, a2b', Put(iState, iSent, iRcvd, offer["ini"]),
                   Takes(tState, "tgt" \in ready), X)
         /\ Driven(b2a, b2a', Put(tState, tSent, tRcvd, offer["tgt"]),
                   Takes(iState, "ini" \in ready), X)
<1> DEFINE iRx == I!rx_ready("ini" \in ready)
           tRx == T!rx_ready("tgt" \in ready)
           iFlit == I!tx_flit(offer["ini"])
           tFlit == T!tx_flit(offer["tgt"])
           iOnto == Onto(iFlit, a2b, stray["ini"])
           tOnto == Onto(tFlit, b2a, stray["tgt"])
<1>1. /\ iRx = Takes(iState, "ini" \in ready)
      /\ tRx = Takes(tState, "tgt" \in ready)
  BY DEF I!rx_ready, I!enabled, T!rx_ready, T!enabled, Takes
<1>2. /\ iFlit = Put(iState, iSent, iRcvd, offer["ini"])
      /\ tFlit = Put(tState, tSent, tRcvd, offer["tgt"])
  BY IniTx, TgtTx DEF I!tx_flit, I!enabled, T!tx_flit, T!enabled, Put
<1>3. /\ I!Clock(b2a, a2b = None \/ tRx, "ini" \in trig, "ini" \in idle, "ini" \in clr)
      /\ T!Clock(a2b, b2a = None \/ iRx, "tgt" \in trig, "tgt" \in idle, "tgt" \in clr)
      /\ A2B!Clock(iOnto, tRx)
      /\ B2A!Clock(tOnto, iRx)
  <2> HIDE DEF iRx, tRx
  <2> QED BY DEF Edge, A2B!InReady, B2A!InReady, iRx, tRx
<1>4. /\ Offered(iOnto, iFlit, a2b, X)
      /\ Offered(tOnto, tFlit, b2a, X)
  <2>1. stray["ini"] \in {None} \cup X /\ stray["tgt"] \in {None} \cup X
    BY DEF Ends
  <2> HIDE DEF iFlit, tFlit
  <2> QED BY <2>1 DEF Offered, Onto
<1> HIDE DEF iRx, tRx, iFlit, tFlit, iOnto, tOnto
<1>5. /\ a2b' = Next12(a2b, iOnto, tRx)
      /\ b2a' = Next12(b2a, tOnto, iRx)
  BY <1>3, LinkStep
<1>6. /\ Driven(a2b, a2b', iFlit, tRx, X)
      /\ Driven(b2a, b2a', tFlit, iRx, X)
  <2>1. iOnto \in {iFlit} \cup X /\ tOnto \in {tFlit} \cup X
    BY <1>4 DEF Offered
  <2> QED BY <1>4, <1>5, <2>1 DEF Driven
<1> QED BY <1>1, <1>2, <1>3, <1>6

\* A cycle in which neither end gets upset.
LEMMA EdgeKeepsInStep ==
  ASSUME NEW X \in SUBSET Requests, NEW stray \in [Ends -> {None} \cup X],
         InStep(X), NEW offer \in Offers, NEW ready, NEW idle, NEW trig, NEW clr,
         Edge(offer, ready, idle, {}, trig, clr, stray),
         iState \in Rising \cup Up, ~Upset(iState, b2a),
         tState \in Rising \cup Up, ~Upset(tState, a2b)
  PROVE  InStep(X)'
<1> DEFINE iTakes == "ini" \in ready
           tTakes == "tgt" \in ready
           iTxRdy == a2b = None \/ Takes(tState, tTakes)
           tTxRdy == b2a = None \/ Takes(iState, iTakes)
<1>1. offer["ini"] \in {None, "data"} /\ offer["tgt"] \in {None, "data"}
  BY DEF Offers, Ends
<1>2. /\ I!Clock(b2a, iTxRdy, "ini" \in trig, "ini" \in idle, "ini" \in clr)
      /\ T!Clock(a2b, tTxRdy, "tgt" \in trig, "tgt" \in idle, "tgt" \in clr)
  BY EdgeOfEnds
<1>3. /\ Driven(a2b, a2b', Put(iState, iSent, iRcvd, offer["ini"]), Takes(tState, tTakes), X)
      /\ Driven(b2a, b2a', Put(tState, tSent, tRcvd, offer["tgt"]), Takes(iState, iTakes), X)
  BY EdgeOfEnds
<1>5. EndStep(iState, iSent, iRcvd, iState', iSent', iRcvd', b2a, iTxRdy)
  BY <1>2, IniStep
<1>6. EndStep(tState, tSent, tRcvd, tState', tSent', tRcvd', a2b, tTxRdy)
  BY <1>2, TgtStep
<1>7. iTakes \in BOOLEAN /\ tTakes \in BOOLEAN
  OBVIOUS
<1>8. Situation(iState, iSent, iRcvd, tState, tSent, tRcvd, a2b, b2a, X)
  BY DEF InStep
<1>9. /\ EndCycle(iState, iSent, iRcvd, iState', iSent', iRcvd', b2a, a2b, a2b',
                 Takes(tState, tTakes), X)
      /\ EndCycle(tState, tSent, tRcvd, tState', tSent', tRcvd', a2b, b2a, b2a',
                 Takes(iState, iTakes), X)
  <2> HIDE DEF iTakes, tTakes
  <2> QED BY <1>1, <1>3, <1>5, <1>6 DEF EndCycle
<1> HIDE DEF iTakes, tTakes
<1>10. Situation(iState', iSent', iRcvd', tState', tSent', tRcvd', a2b', b2a', X)
  BY <1>7, <1>8, <1>9, PairStep
<1> QED BY <1>10 DEF InStep

\* A stray request that strikes is counted.
LEMMA StrayCounts ==
  ASSUME NEW stray \in Strays
  PROVE  /\ Cardinality(Struck(stray)) \in Nat
         /\ Cardinality(Struck(stray)) = 0 => stray = NoStray
<1>1. IsFiniteSet(Ends)
  <2>1. Ends = {"ini"} \cup {"tgt"}
    BY DEF Ends
  <2> QED BY <2>1, FS_Singleton, FS_Union
<1>2. IsFiniteSet(Struck(stray))
  BY <1>1, FS_Subset DEF Struck
<1>3. Cardinality(Struck(stray)) = 0 => Struck(stray) = {}
  BY <1>2, FS_EmptySet
<1>4. Struck(stray) = {} => stray = NoStray
  BY DEF Struck, Strays, NoStray
<1> QED BY <1>2, <1>3, <1>4, FS_CardinalityType

LEMMA InitInv == Init => Inv /\ StrayInv
<1> SUFFICES ASSUME Init PROVE Inv /\ StrayInv
  OBVIOUS
<1>1. \A X : BothRising(iState, iSent, iRcvd, tState, tSent, tRcvd, a2b, b2a, X)
  BY NoneIsNoFlit DEF Init, I!Init, T!Init, A2B!Init, B2A!Init, BothRising, RisingSide, Rising,
     BringUp, Carried, I!Flits, I!Misc, I!BringUp, I!TearDown
<1>2. InStep({}) /\ InStep(Requests)
  BY <1>1 DEF InStep, Situation
<1>3. DataMet(iState, iRcvd, b2a) /\ DataMet(tState, tRcvd, a2b)
  BY NoneIsNoFlit DEF Init, I!Init, T!Init, A2B!Init, B2A!Init, DataMet, Rising, I!Flits
<1> QED BY <1>2, <1>3 DEF Init, Inv, StrayInv, PairMet, InStep

\* A cycle of Next, on a link of the ends' own.
LEMMA NextIsEdge ==
  ASSUME HeldOff = {}, Next
  PROVE  \E offer \in Offers, stray \in Strays : \E ready, idle, trig, clr :
           /\ Edge(offer, ready, idle, {}, trig, clr, stray)
           /\ faults' = faults + Cardinality(Struck(stray))
           /\ Clears = {{}} => clr = {}
<1>1. PICK ready \in SUBSET Open, held \in SUBSET HeldOff : Tick(ready, held, Strays)
  BY Zenon DEF Next
<1>2. PICK offer \in Offers, trig \in SUBSET (Triggers \cap Open),
           clr \in {c \cap Failed : c \in Clears},
           stray \in {s \in Strays : faults + Cardinality(Struck(s)) <= MaxFaults} :
        \E idle \in SUBSET {e \in Open : offer[e] = None} :
          Edge(offer, ready, idle, {}, trig, clr, stray)
  <2>1. held = {}
    OBVIOUS
  <2> QED BY <1>1, <2>1, Zenon DEF Tick
<1>3. PICK idle \in SUBSET {e \in Open : offer[e] = None} :
         Edge(offer, ready, idle, {}, trig, clr, stray)
  BY <1>2
<1>4. faults' = faults + Cardinality(Struck(stray))
  BY <1>3 DEF Edge
<1>5. stray \in Strays /\ (Clears = {{}} => clr = {})
  OBVIOUS
<1> QED BY <1>3, <1>4, <1>5

LEMMA StepInv ==
  ASSUME HeldOff = {}, Inv, [Next]_vars
  PROVE  Inv'
<1>1. CASE UNCHANGED vars
  BY <1>1 DEF vars, Inv, InStep
<1>2. CASE Next
  <2>1. PICK offer \in Offers, stray \in Strays : \E ready, idle, trig, clr :
          /\ Edge(offer, ready, idle, {}, trig, clr, stray)
          /\ faults' = faults + Cardinality(Struck(stray))
    BY <1>2, NextIsEdge
  <2>2. PICK ready, idle, trig, clr :
          /\ Edge(offer, ready, idle, {}, trig, clr, stray)
          /\ faults' = faults + Cardinality(Struck(stray))
    BY <2>1
  <2>3. faults' \in Nat /\ (faults' = 0 => faults = 0 /\ stray = NoStray)
    BY <2>2, StrayCounts DEF Inv
  <2>4. ASSUME faults' = 0 PROVE InStep({})'
    <3>1. stray \in [Ends -> {None} \cup {}]
      BY <2>3, <2>4 DEF NoStray
    <3>2. {} \in SUBSET Requests
      OBVIOUS
    <3>3. InStep({})
      BY <2>3, <2>4 DEF Inv
    <3> QED BY <2>2, <3>1, <3>2, <3>3, Calm, EdgeKeepsInStep
  <2> QED BY <2>3, <2>4 DEF Inv
<1> QED BY <1>1, <1>2

StrayStep(s, S, R, n, N, M, rx, rdy) ==
  /\ s = "ERROR" => n = "ERROR"
  /\ Upset(s, rx) => n = "ERROR"
  /\ s \in Rising \cup Up /\ ~Upset(s, rx) => EndStep(s, S, R, n, N, M, rx, rdy)

\* Whatever a cycle does, an end that data is coming to stays where it takes it.
LEMMA DataStep ==
  ASSUME NEW s1, NEW S1, NEW R1, NEW s2, NEW S2, NEW R2, NEW l12, NEW l21,
         NEW n1, NEW N1, NEW M1, NEW k21, NEW g1 \in BOOLEAN, NEW r12,
         PairMet(s1, S1, R1, s2, S2, R2, l12, l21),
         StrayStep(s1, S1, R1, n1, N1, M1, l21, r12),
         \E o \in {None, "data"} : Driven(l21, k21, Put(s2, S2, R2, o), Takes(s1, g1), Requests)
  PROVE  DataMet(n1, M1, k21)
<1>o. PICK o2 \in {None, "data"} : Driven(l21, k21, Put(s2, S2, R2, o2), Takes(s1, g1), Requests)
  OBVIOUS
<1>p. PICK p21 : /\ Offered(p21, Put(s2, S2, R2, o2), l21, Requests)
                 /\ k21 = Next12(l21, p21, Takes(s1, g1))
  BY <1>o DEF Driven
<1> USE <1>p, NoneIsNoFlit
        DEF I!Flits, I!Misc, I!BringUp, I!TearDown, BringUp, TearDown, Rising, Up, PairMet
<1>1. CASE n1 = "ERROR"
  BY <1>1 DEF DataMet
<1>2. CASE n1 # "ERROR"
  <2>1. /\ s1 \in Rising \cup Up /\ ~Upset(s1, l21)
        /\ EndStep(s1, S1, R1, n1, N1, M1, l21, r12)
    BY <1>2 DEF DataMet, StrayStep
  <2>2. n1 \in Rising \cup Up /\ (n1 = "ENABLED" => "dack" \notin M1)
    BY <2>1 DEF EndStep, DataMet, Noted
  <2>3. ASSUME k21 = "data" PROVE n1 = "ENABLED" \/ (n1 = "DEACTIVATE" /\ "dack" \notin M1)
    <3>1. CASE l21 = "data" /\ ~Takes(s1, g1)
      BY <2>1, <3>1 DEF Takes, EndStep, DataMet, Noted
    <3>2. CASE p21 = "data"
      <4>1. s2 = "ENABLED"
        BY <3>2 DEF Offered, Put, Tx, Requests
      <4>2. Situation(s1, S1, R1, s2, S2, R2, l12, l21, Requests)
        BY <2>1, <4>1
      <4>3. s1 = "ENABLED" \/ (s1 = "DEACTIVATE" /\ "dack" \notin R1 /\ l21 # "dack")
              \/ (s1 = "ACTIVATE" /\ BringUp \subseteq S1 /\ BringUp \subseteq R1)
        BY <4>1, <4>2 DEF Situation, BothRising, BothUp, UpFirst, DownFirst, RisingSide, UpSide,
           Carried, Requests
      <4> QED BY <2>1, <4>3 DEF EndStep, DataMet, Noted
    <3> QED BY <2>3, <3>1, <3>2 DEF Next12, Offered
  <2> QED BY <2>2, <2>3 DEF DataMet
<1> QED BY <1>1, <1>2

LEMMA StepStray ==
  ASSUME HeldOff = {}, Clears = {{}}, StrayInv, [Next]_vars
  PROVE  StrayInv'
<1>1. CASE UNCHANGED vars
  BY <1>1 DEF vars, StrayInv
<1>2. CASE Next
  <2> DEFINE iTxRdy(ready) == a2b = None \/ Takes(tState, "tgt" \in ready)
             tTxRdy(ready) == b2a = None \/ Takes(iState, "ini" \in ready)
  <2>0. PICK offer \in Offers, stray \in Strays :
          \E ready, idle, trig, clr : Edge(offer, ready, idle, {}, trig, clr, stray) /\ clr = {}
    BY <1>2, NextIsEdge
  <2>1. PICK ready, idle, trig : Edge(offer, ready, idle, {}, trig, {}, stray)
    BY <2>0
  <2>2. Requests \in SUBSET Requests /\ stray \in [Ends -> {None} \cup Requests]
    BY DEF Strays, Requests
  <2>3. /\ I!Clock(b2a, iTxRdy(ready), "ini" \in trig, "ini" \in idle, FALSE)
        /\ T!Clock(a2b, tTxRdy(ready), "tgt" \in trig, "tgt" \in idle, FALSE)
    <3>1. ("ini" \in {}) = FALSE /\ ("tgt" \in {}) = FALSE
      OBVIOUS
    <3> QED BY <2>1, <2>2, <3>1, EdgeOfEnds
  <2>4. /\ Driven(a2b, a2b', Put(iState, iSent, iRcvd, offer["ini"]),
                  Takes(tState, "tgt" \in ready), Requests)
        /\ Driven(b2a, b2a', Put(tState, tSent, tRcvd, offer["tgt"]),
                  Takes(iState, "ini" \in ready), Requests)
    BY <2>1, <2>2, EdgeOfEnds
  <2>5. /\ ("ini" \in ready) \in BOOLEAN /\ ("tgt" \in ready) \in BOOLEAN
    OBVIOUS
  <2>6. offer["ini"] \in {None, "data"} /\ offer["tgt"] \in {None, "data"}
    BY DEF Offers, Ends
  <2>7. StrayStep(iState, iSent, iRcvd, iState', iSent', iRcvd', b2a, iTxRdy(ready))
    <3> HIDE DEF iTxRdy
    <3> QED BY <2>3, IniFails, IniStep DEF StrayStep
  <2>8. StrayStep(tState, tSent, tRcvd, tState', tSent', tRcvd', a2b, tTxRdy(ready))
    <3> HIDE DEF tTxRdy
    <3> QED BY <2>3, TgtFails, TgtStep DEF StrayStep
  <2> HIDE DEF iTxRdy, tTxRdy
  <2>9. PairMet(tState, tSent, tRcvd, iState, iSent, iRcvd, b2a, a2b)
    BY Symmetric DEF StrayInv, PairMet
  <2>10. DataMet(iState', iRcvd', b2a')
    <3>1. \E o \in {None, "data"} :
            Driven(b2a, b2a', Put(tState, tSent, tRcvd, o), Takes(iState, "ini" \in ready), Requests)
      BY <2>4, <2>6
    <3> QED BY <2>5, <2>7, <3>1, DataStep DEF StrayInv
  <2>11. DataMet(tState', tRcvd', a2b')
    <3>1. \E o \in {None, "data"} :
            Driven(a2b, a2b', Put(iState, iSent, iRcvd, o), Takes(tState, "tgt" \in ready), Requests)
      BY <2>4, <2>6
    <3> QED BY <2>5, <2>8, <2>9, <3>1, DataStep
  <2>12. ASSUME "ERROR" \notin {iState', tState'} PROVE InStep(Requests)'
    <3>1. /\ iState \in Rising \cup Up /\ ~Upset(iState, b2a)
          /\ tState \in Rising \cup Up /\ ~Upset(tState, a2b)
      BY <2>7, <2>8, <2>12 DEF StrayInv, PairMet, DataMet, StrayStep
    <3>2. InStep(Requests)
      BY <3>1 DEF StrayInv, PairMet, InStep, Rising, Up
    <3> QED BY <2>1, <2>2, <3>1, <3>2, EdgeKeepsInStep
  <2> QED BY <2>10, <2>11, <2>12 DEF StrayInv, PairMet, InStep
<1> QED BY <1>1, <1>2

-----------------------------------------------------------------------------
(* The theorems.                                                           *)

LEMMA InvHolds == HeldOff = {} => (Spec => []Inv)
<1> SUFFICES ASSUME HeldOff = {} PROVE Spec => []Inv
  OBVIOUS
<1>1. Inv /\ [Next]_vars => Inv'
  BY StepInv
<1> QED BY InitInv, <1>1, PTL DEF Spec

\* Two well-behaved ends never fall into ERROR, whatever software asks of them and
\* whenever (err_now of aou_activation.sv): that takes a stray request.
THEOREM ErrorNeedsAStray == HeldOff = {} => (Spec => []NoSpuriousError)
<1> SUFFICES ASSUME HeldOff = {} PROVE Spec => []NoSpuriousError
  OBVIOUS
<1>1. Inv => NoSpuriousError
  BY Calm DEF Inv, NoSpuriousError, Rising, Up
<1> QED BY <1>1, InvHolds, PTL

\* The two ends are connected together (st_n of aou_activation.sv): while one is
\* ENABLED the other is, is in its last cycle before, or is tearing down.
THEOREM ConnectedTogether == HeldOff = {} => (Spec => []EnabledTogether)
<1> SUFFICES ASSUME HeldOff = {} PROVE Spec => []EnabledTogether
  OBVIOUS
<1>1. Inv => EnabledTogether
  BY DEF Inv, EnabledTogether, InStep, Situation, BothRising, RisingSide, BothUp, UpSide, UpFirst,
     DownFirst, Rising, Up, BringUp, TearDown, I!enabled, T!enabled
<1> QED BY <1>1, InvHolds, PTL

\* No data flit meets an end that is bringing the link up and would swallow it
\* (header of aou_activation.sv), whatever software clears and whenever, as long as
\* no stray request struck.
THEOREM DataIsNotSwallowed ==
  HeldOff = {} => (Spec => [](faults = 0 => NoDataWhileActivating))
<1> SUFFICES ASSUME HeldOff = {} PROVE Spec => [](faults = 0 => NoDataWhileActivating)
  OBVIOUS
<1>1. Inv => (faults = 0 => NoDataWhileActivating)
  BY NoneIsNoFlit DEF Inv, NoDataWhileActivating, InStep, Situation, BothRising, RisingSide, BothUp,
     UpSide, UpFirst, DownFirst, Rising, Up, BringUp, TearDown, I!in_bringup, T!in_bringup,
     I!Flits, I!Misc, I!BringUp, I!TearDown
<1> QED BY <1>1, InvHolds, PTL

\* The same with any number of stray requests, at any moment, for as long as software
\* leaves an end that they took into ERROR there (err_clear of aou_activation.sv).
THEOREM StraysSwallowNoData ==
  HeldOff = {} /\ Clears = {{}} => (Spec => []NoDataWhileActivating)
<1> SUFFICES ASSUME HeldOff = {}, Clears = {{}} PROVE Spec => []NoDataWhileActivating
  OBVIOUS
<1>1. StrayInv /\ [Next]_vars => StrayInv'
  BY StepStray
<1>2. StrayInv => NoDataWhileActivating
  BY DEF StrayInv, PairMet, DataMet, NoDataWhileActivating, I!in_bringup, T!in_bringup
<1> QED BY InitInv, <1>1, <1>2, PTL DEF Spec
================================================================================
