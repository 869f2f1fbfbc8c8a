---------------------------- MODULE AouActivation ----------------------------
(***************************************************************************)
(* One endpoint of the interface state management of rtl/aou_activation.sv *)
(* (one resource plane's end of the link).                                 *)
(*                                                                         *)
(* A flit is abstracted to what this block tells apart: the five Misc      *)
(* messages it sends and classifies, any data-path flit ("data"), or None  *)
(* when valid is low.  The sent/received flip-flops are the sets `sent'    *)
(* and `rcvd' of the messages whose flag is set.                           *)
(*                                                                         *)
(* Wires are operators; one clock edge is one of the actions below, one    *)
(* per arm of the state register's case.  Their inputs are                 *)
(*   rx     the flit on the receive link (rx_valid/rx_data)                *)
(*   txRdy  tx_ready of the transmit link                                  *)
(*   trig, idle, clr   deact_trig, data_idle, err_clear                    *)
(***************************************************************************)
EXTENDS Naturals

CONSTANT None

VARIABLES state, sent, rcvd, deact_pending

actVars == <<state, sent, rcvd, deact_pending>>

BringUp  == {"areq", "aack", "crdt"}
TearDown == {"dreq", "dack"}
Misc  == BringUp \cup TearDown
Flits == Misc \cup {"data"}

Init ==
  /\ state = "DISABLED"
  /\ sent = {}
  /\ rcvd = {}
  /\ deact_pending = FALSE

-----------------------------------------------------------------------------
enabled    == state = "ENABLED"
quiescing  == enabled /\ deact_pending
in_bringup == state \in {"DISABLED", "ACTIVATE"}

\* Mutants: no ActivateAck before the peer's; no DeactivateAck before the peer's.
WantedAckLast ==
  {m \in Misc \ sent :
     \/ m = "areq" /\ in_bringup
     \/ m = "aack" /\ in_bringup /\ {"areq", "aack"} \subseteq rcvd
     \/ m = "crdt" /\ in_bringup /\ "aack" \in sent
     \/ m = "dreq" /\ state = "DEACTIVATE"
     \/ m = "dack" /\ state = "DEACTIVATE" /\ "dreq" \in rcvd}
WantedDackLast ==
  {m \in Misc \ sent :
     \/ m = "areq" /\ in_bringup
     \/ m = "aack" /\ in_bringup /\ "areq" \in rcvd
     \/ m = "crdt" /\ in_bringup /\ "aack" \in sent
     \/ m = "dreq" /\ state = "DEACTIVATE"
     \/ m = "dack" /\ state = "DEACTIVATE" /\ {"dreq", "dack"} \subseteq rcvd}

\* The Misc messages waiting to go out (send_areq ... send_dack).
Wanted ==
  {m \in Misc \ sent :
     \/ m = "areq" /\ in_bringup
     \/ m = "aack" /\ in_bringup /\ "areq" \in rcvd
     \/ m = "crdt" /\ in_bringup /\ "aack" \in sent
     \/ m = "dreq" /\ state = "DEACTIVATE"
     \/ m = "dack" /\ state = "DEACTIVATE" /\ "dreq" \in rcvd}

Rank == [areq |-> 1, aack |-> 2, crdt |-> 3, dreq |-> 4, dack |-> 5]

\* act_tx_flit: the first of them in priority order, None if there is none.
act_tx ==
  IF Wanted = {}
  THEN None
  ELSE CHOOSE m \in Wanted : \A n \in Wanted : Rank[m] <= Rank[n]

\* The link / data-path mux: transparent when ENABLED, owned by this block
\* otherwise.  Every state but ENABLED consumes whatever arrives.
tx_flit(dTx)       == IF enabled THEN dTx ELSE act_tx
d_tx_ready(txRdy)  == enabled /\ txRdy
rx_ready(dRxReady) == enabled => dRxReady
d_rx(rx)           == IF enabled THEN rx ELSE None

\* An inconsistent link-state request (err_now).
err_now(rx) ==
  \/ rx = "areq" /\ state \in {"ENABLED", "DEACTIVATE"}
  \/ rx = "dreq" /\ state \in {"DISABLED", "ACTIVATE"}

\* The one-cycle pulse that loads the bridge's transmit credits.
seed_valid(rx) == rx = "crdt" /\ state \notin {"ENABLED", "ERROR"}

\* Which received message sets its flag in which state.
Recorded(rx) ==
  \/ rx = "areq" /\ in_bringup
  \/ rx \in {"aack", "crdt"} /\ state = "ACTIVATE"
  \/ rx = "dreq" /\ state \in {"ENABLED", "DEACTIVATE"}
  \/ rx = "dack" /\ state = "DEACTIVATE"

SentNow(txRdy) == IF act_tx # None /\ txRdy THEN sent \cup {act_tx} ELSE sent
RcvdNow(rx)    == IF Recorded(rx) THEN rcvd \cup {rx} ELSE rcvd

-----------------------------------------------------------------------------
(* The clock edge in each state.                                           *)

Flags(rx, txRdy) ==
  /\ sent' = SentNow(txRdy)
  /\ rcvd' = RcvdNow(rx)

Disabled(rx, txRdy) ==
  /\ state = "DISABLED"
  /\ Flags(rx, txRdy)
  /\ state' = IF (act_tx = "areq" /\ txRdy) \/ rx = "areq"
              THEN "ACTIVATE" ELSE "DISABLED"
  /\ UNCHANGED deact_pending

\* Mutant: ENABLED as soon as the peer's request is in.
HandshakeOnRequest == "areq" \in rcvd

HandshakeDone == "aack" \in sent /\ {"aack", "crdt"} \subseteq rcvd

Activating(rx, txRdy) ==
  /\ state = "ACTIVATE"
  /\ ~err_now(rx)
  /\ ~HandshakeDone
  /\ Flags(rx, txRdy)
  /\ UNCHANGED <<state, deact_pending>>

\* The move to ENABLED clears the tear-down flags, arming a later tear-down.
Enable(rx, txRdy) ==
  /\ state = "ACTIVATE"
  /\ ~err_now(rx)
  /\ HandshakeDone
  /\ state' = "ENABLED"
  /\ sent' = SentNow(txRdy) \ TearDown
  /\ rcvd' = RcvdNow(rx) \ TearDown
  /\ UNCHANGED deact_pending

Inconsistent(rx, txRdy) ==
  /\ state \in {"ACTIVATE", "ENABLED", "DEACTIVATE"}
  /\ err_now(rx)
  /\ Flags(rx, txRdy)
  /\ state' = "ERROR"
  /\ deact_pending' = (deact_pending /\ ~enabled)

PeerTeardown(rx, txRdy) ==
  /\ enabled
  /\ rx = "dreq"
  /\ Flags(rx, txRdy)
  /\ state' = "DEACTIVATE"
  /\ deact_pending' = FALSE

\* Without an inconsistent request or a peer's tear-down: leave once the data
\* path is drained, otherwise remember that software asked.
Enabled(rx, txRdy, trig, idle) ==
  /\ enabled
  /\ ~err_now(rx)
  /\ rx # "dreq"
  /\ Flags(rx, txRdy)
  /\ LET wanted == deact_pending \/ trig
     IN  /\ state' = IF wanted /\ idle THEN "DEACTIVATE" ELSE "ENABLED"
         /\ deact_pending' = (wanted /\ ~idle)

\* Mutant: DISABLED as soon as the peer's request is in.
TeardownOnRequest == "dreq" \in rcvd

TeardownDone == "dack" \in sent /\ "dack" \in rcvd

Deactivating(rx, txRdy) ==
  /\ state = "DEACTIVATE"
  /\ ~err_now(rx)
  /\ ~TeardownDone
  /\ Flags(rx, txRdy)
  /\ UNCHANGED <<state, deact_pending>>

\* Back to DISABLED with the bring-up flags re-armed.
Disable(rx, txRdy) ==
  /\ state = "DEACTIVATE"
  /\ ~err_now(rx)
  /\ TeardownDone
  /\ state' = "DISABLED"
  /\ sent' = SentNow(txRdy) \ BringUp
  /\ rcvd' = RcvdNow(rx) \ BringUp
  /\ UNCHANGED deact_pending

Error(clr) ==
  /\ state = "ERROR"
  /\ ~clr
  /\ UNCHANGED actVars

\* Mutant: err_clear leaves the flags of the broken connection set.
ClearStateOnly(clr) ==
  /\ state = "ERROR"
  /\ clr
  /\ state' = "DISABLED"
  /\ UNCHANGED <<sent, rcvd, deact_pending>>

ClearError(clr) ==
  /\ state = "ERROR"
  /\ clr
  /\ state' = "DISABLED"
  /\ sent' = {}
  /\ rcvd' = {}
  /\ UNCHANGED deact_pending

Clock(rx, txRdy, trig, idle, clr) ==
  \/ Disabled(rx, txRdy)
  \/ Activating(rx, txRdy)
  \/ Enable(rx, txRdy)
  \/ Inconsistent(rx, txRdy)
  \/ PeerTeardown(rx, txRdy)
  \/ Enabled(rx, txRdy, trig, idle)
  \/ Deactivating(rx, txRdy)
  \/ Disable(rx, txRdy)
  \/ Error(clr)
  \/ ClearError(clr)
=============================================================================
