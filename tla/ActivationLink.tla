---------------------------- MODULE ActivationLink ----------------------------
(***************************************************************************)
(* Both ends of one resource plane: two activation blocks (AouActivation)  *)
(* facing each other over the two skid buffers (UcieStreamLink), wired as  *)
(* in rtl/axi_ucie_mem_top.sv.  Everything shares one clock: every step of *)
(* Next is one edge of ACLK at both ends and in both links.                *)
(*                                                                         *)
(* The bridges behind the two ends are left free: in every ENABLED cycle a *)
(* bridge may offer a data flit or not, accept the incoming one or not,    *)
(* and report a drained data path when it offers nothing.                  *)
(*                                                                         *)
(*   HeldOff    the ends whose transmit side may find the link taken by    *)
(*              somebody else (the plane arbiter of a shared link); {} is  *)
(*              the single-plane chain, where only a full link stalls      *)
(*   Triggers   the ends whose deact_trig software may raise, at any cycle *)
(*   Clears     the ways err_clear may be raised: a set of sets of ends    *)
(*   MaxFaults  how many stray link-state requests may appear on an idle   *)
(*              link, as dv/sv/tb_axi_ucie_mem.sv section 7 injects one    *)
(***************************************************************************)
EXTENDS Naturals, FiniteSets

CONSTANTS None, HeldOff, Triggers, Clears, MaxFaults

Ends == {"ini", "tgt"}

ASSUME ActivationLinkAssumption ==
  /\ HeldOff \subseteq Ends
  /\ Triggers \subseteq Ends
  /\ {} \in Clears /\ Clears \subseteq SUBSET Ends
  /\ MaxFaults \in Nat

VARIABLES
  iState, iSent, iRcvd, iPend,     \* the initiator's end
  tState, tSent, tRcvd, tPend,     \* the target's end
  a2b, b2a,                        \* the two links
  faults                           \* stray requests so far

vars == <<iState, iSent, iRcvd, iPend, tState, tSent, tRcvd, tPend,
          a2b, b2a, faults>>

I == INSTANCE AouActivation WITH
       state <- iState, sent <- iSent, rcvd <- iRcvd, deact_pending <- iPend
T == INSTANCE AouActivation WITH
       state <- tState, sent <- tSent, rcvd <- tRcvd, deact_pending <- tPend
A2B == INSTANCE UcieStreamLink WITH buf <- a2b
B2A == INSTANCE UcieStreamLink WITH buf <- b2a

\* A link without a flit carries none of the messages.
ASSUME NoneIsNoFlit == None \notin I!Flits

Init == I!Init /\ T!Init /\ A2B!Init /\ B2A!Init /\ faults = 0

\* The free inputs of one cycle, an input that no register can depend on left
\* out: the bridge behind an end matters while that end is ENABLED (Open), its
\* err_clear while it is in ERROR (Failed).
Open   == {e \in Ends : IF e = "ini" THEN I!enabled ELSE T!enabled}
Failed == {e \in Ends : "ERROR" = IF e = "ini" THEN iState ELSE tState}

Offers == {o \in [Ends -> {None, "data"}] : \A e \in Ends \ Open : o[e] = None}
Strays == [Ends -> {None, "areq", "dreq"}]
NoStray == [e \in Ends |-> None]
Struck(stray) == {e \in Ends : stray[e] # None}

\* What goes onto a link whose transmitter presents flit: a stray request only
\* ever appears on an idle link.
Onto(flit, link, stray) ==
  IF flit = None /\ link = None THEN stray ELSE flit

\* One clock edge.  The ends in ready accept data, those in idle report a
\* drained data path, those in held find their link taken.
Edge(offer, ready, idle, held, trig, clr, stray) ==
  LET iRx    == I!rx_ready("ini" \in ready)
      tRx    == T!rx_ready("tgt" \in ready)
      iFlit  == IF "ini" \in held THEN None ELSE I!tx_flit(offer["ini"])
      tFlit  == IF "tgt" \in held THEN None ELSE T!tx_flit(offer["tgt"])
      iTxRdy == "ini" \notin held /\ A2B!InReady(tRx)
      tTxRdy == "tgt" \notin held /\ B2A!InReady(iRx)
  IN  /\ I!Clock(b2a, iTxRdy, "ini" \in trig, "ini" \in idle, "ini" \in clr)
      /\ T!Clock(a2b, tTxRdy, "tgt" \in trig, "tgt" \in idle, "tgt" \in clr)
      /\ A2B!Clock(Onto(iFlit, a2b, stray["ini"]), tRx)
      /\ B2A!Clock(Onto(tFlit, b2a, stray["tgt"]), iRx)
      /\ faults' = faults + Cardinality(Struck(stray))

Tick(ready, held, strays) ==
  \E offer \in Offers, trig \in SUBSET (Triggers \cap Open),
     clr \in {c \cap Failed : c \in Clears},
     stray \in {s \in strays : faults + Cardinality(Struck(s)) <= MaxFaults} :
    \E idle \in SUBSET {e \in Open : offer[e] = None} :
      Edge(offer, ready, idle, held, trig, clr, stray)

Next == \E ready \in SUBSET Open, held \in SUBSET HeldOff :
          Tick(ready, held, Strays)

Spec == Init /\ [][Next]_vars

(***************************************************************************)
(* Fairness.  The clock runs whether or not a stray request strikes.  In   *)
(* each direction, the plane arbiter grants the transmitter sooner or      *)
(* later (its round robin) and the receiving bridge accepts sooner or      *)
(* later.  err_clear, where software may raise it, is raised again and     *)
(* again.                                                                  *)
(***************************************************************************)
Flows(from, to) ==
  \E ready \in {r \in SUBSET Open : to \in Open => to \in r},
     held \in {h \in SUBSET HeldOff : from \notin h} : Tick(ready, held, {NoStray})

Clean == \E ready \in SUBSET Open, held \in SUBSET HeldOff : Tick(ready, held, {NoStray})

Clearing(e) ==
  /\ \E clr \in Clears : e \in clr
  /\ Clean
  /\ IF e = "ini" THEN iState = "ERROR" /\ iState' = "DISABLED"
                  ELSE tState = "ERROR" /\ tState' = "DISABLED"

Fairness ==
  /\ WF_vars(Clean)
  /\ WF_vars(Flows("ini", "tgt"))
  /\ WF_vars(Flows("tgt", "ini"))
  /\ WF_vars(Clearing("ini"))
  /\ WF_vars(Clearing("tgt"))

FairSpec == Spec /\ Fairness

-----------------------------------------------------------------------------
(* Properties.                                                             *)

\* Ordering safety, as the header of aou_activation.sv states it: a data flit
\* never reaches a receiver that is still (or again) bringing the link up,
\* where the activation block would silently consume it.
NoDataWhileActivating ==
  /\ a2b = "data" => ~T!in_bringup
  /\ b2a = "data" => ~I!in_bringup

\* Two well-behaved ends never take each other's requests for inconsistent
\* ones, however their tear-downs and re-activations interleave: an ERROR needs
\* a stray request.
NoSpuriousError == "ERROR" \in {iState, tState} => faults > 0

\* The two ends agree on being connected: while one is ENABLED and no stray
\* request struck, the other is ENABLED, on its last step into ENABLED (its own
\* grant already sent, the peer's received or on the link), or tearing down.
EnabledTogether ==
  faults = 0 =>
    /\ I!enabled => \/ tState \in {"ENABLED", "DEACTIVATE"}
                    \/ tState = "ACTIVATE" /\ (a2b = "crdt" \/ "crdt" \in tRcvd)
    /\ T!enabled => \/ iState \in {"ENABLED", "DEACTIVATE"}
                    \/ iState = "ACTIVATE" /\ (b2a = "crdt" \/ "crdt" \in iRcvd)

\* An end that is DISABLED or activating always gets to ENABLED.
BringUpCompletes ==
  /\ I!in_bringup ~> (I!enabled \/ faults > 0)
  /\ T!in_bringup ~> (T!enabled \/ faults > 0)

\* A tear-down, once begun at either end, takes both ends out of ENABLED and
\* back through DISABLED.
TeardownCompletes ==
  /\ iState = "DEACTIVATE" ~> (iState = "DISABLED" \/ faults > 0)
  /\ tState = "DEACTIVATE" ~> (tState = "DISABLED" \/ faults > 0)

\* Coordinated recovery: with both ends in ERROR, err_clear raised at both at once
\* gets both to ENABLED again, whatever was left on the links.
JointRecovery ==
  \A n \in 0 .. MaxFaults :
    (iState = "ERROR" /\ tState = "ERROR" /\ faults = n) ~>
      ((I!enabled /\ T!enabled) \/ faults > n)
=============================================================================
