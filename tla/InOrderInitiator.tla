--------------------------- MODULE InOrderInitiator ---------------------------
(***************************************************************************)
(* The in-order datapath of the initiator bridge (g_inorder of             *)
(* rtl/aou_axi_initiator_bridge.sv, OOO_EN = 0): one burst at a time from  *)
(* the request queue onto the link, credits permitting, and its response   *)
(* back onto B or R.                                                       *)
(*                                                                         *)
(* A flit is a record: mt is its message type, mc its MsgCredit, and the   *)
(* other fields the ones the message carries.  The registers of the burst  *)
(* being sent are the record req; the W beat buffer is wbeat (None when    *)
(* wbeat_valid is low); cr are the credits held, ret the ones owed.        *)
(*                                                                         *)
(* Clock's inputs: qHead the request at the queue's head (None: empty),    *)
(* w the W beat [data, strb, last] or None, rx the data-path flit from the *)
(* activation block or None, txRdy (dtx_ready), seed the grants of a       *)
(* seed_valid pulse or None, disabled (act_disabled), bRdy and rRdy.       *)
(***************************************************************************)
EXTENDS AouCredits

CONSTANTS CR_WREQ, CR_RREQ, CR_WDATA, None

VARIABLES state, req, wbeat, b_q, cr, ret

iniVars == <<state, req, wbeat, b_q, cr, ret>>


NoCredit == [wreq |-> 0, rreq |-> 0, wdata |-> 0]
NoReturn == [rdata |-> 0, wresp |-> 0]

Init ==
  /\ state = "S_IDLE"
  /\ req = None /\ wbeat = None /\ b_q = None
  /\ cr = NoCredit
  /\ ret = NoReturn

-----------------------------------------------------------------------------
(* Wires.                                                                  *)

return_credit ==
  mk_msgcredit(0, 0, 0, cred_encode_ge(ret.rdata), cred_encode_ge2(ret.wresp))

wreq_ok  == cr.wreq >= WRITEREQ_GRAN
rreq_ok  == cr.rreq >= READREQ_GRAN
wdata_ok == cr.wdata >= WRITEDATA_GRAN

\* dtx_valid/dtx_data: the flit the state emits, once its credit is held.
dtx ==
  CASE state = "S_WREQ" /\ wreq_ok ->
         [mt |-> "wreq", req |-> req, mc |-> return_credit]
    [] state = "S_WDATA" /\ wbeat # None /\ wdata_ok ->
         [mt |-> "wdata", data |-> wbeat.data, strb |-> wbeat.strb,
          mc |-> return_credit]
    [] state = "S_RREQ" /\ rreq_ok ->
         [mt |-> "rreq", req |-> req, mc |-> return_credit]
    [] OTHER -> None

drx_ready(rRdy) == state = "S_WWAIT" \/ (state = "S_RDATA" /\ rRdy)
i_wready        == state = "S_WDATA" /\ wbeat = None
do_pop(qHead)   == state = "S_IDLE" /\ qHead # None
br_idle         == state = "S_IDLE"

i_bvalid     == state = "S_B"
i_rvalid(rx) == state = "S_RDATA" /\ rx # None
i_rresp(rx)  == [id |-> rx.id, resp |-> rx.resp, data |-> rx.data, last |-> rx.last]

-----------------------------------------------------------------------------
(* Credits.  A DISABLED link discards them and the peer's CrdtGrant seeds  *)
(* them; both happen while the data path carries nothing, so the FSM's own *)
(* credit updates never coincide with them.                                *)

Grant(mc) ==
  [wreq  |-> sat_add(cr.wreq,  cred_decode(mc.wreq),  CR_WREQ),
   rreq  |-> sat_add(cr.rreq,  cred_decode(mc.rreq),  CR_RREQ),
   wdata |-> sat_add(cr.wdata, cred_decode(mc.wdata), CR_WDATA)]

\* cr after a cycle in which the FSM itself leaves the credits at fsmCr.
Credits(fsmCr, seed, disabled) ==
  cr' = IF disabled THEN NoCredit
        ELSE IF seed # None THEN Grant(seed) ELSE fsmCr

-----------------------------------------------------------------------------
(* The FSM's clock edge, one action per thing that can happen.             *)

Pop(qHead) ==
  /\ do_pop(qHead)
  /\ req' = qHead
  /\ wbeat' = IF qHead.wr THEN None ELSE wbeat
  /\ state' = IF qHead.wr THEN "S_WREQ" ELSE "S_RREQ"
  /\ UNCHANGED <<b_q, ret>>

\* The request goes out and the owed credits with it.
SendWriteReq(txRdy) ==
  /\ state = "S_WREQ"
  /\ dtx # None /\ txRdy
  /\ ret' = NoReturn
  /\ state' = "S_WDATA"
  /\ UNCHANGED <<req, wbeat, b_q>>

SendReadReq(txRdy) ==
  /\ state = "S_RREQ"
  /\ dtx # None /\ txRdy
  /\ ret' = NoReturn
  /\ state' = "S_RDATA"
  /\ UNCHANGED <<req, wbeat, b_q>>

TakeBeat(w) ==
  /\ i_wready
  /\ w # None
  /\ wbeat' = w
  /\ UNCHANGED <<state, req, b_q, ret>>

SendBeat(txRdy) ==
  /\ state = "S_WDATA"
  /\ dtx # None /\ txRdy
  /\ wbeat' = None
  /\ state' = IF wbeat.last THEN "S_WWAIT" ELSE "S_WDATA"
  /\ UNCHANGED <<req, b_q, ret>>

WriteResponse(rx) ==
  /\ state = "S_WWAIT"
  /\ rx # None
  /\ b_q' = [id |-> rx.id, resp |-> rx.resp]
  /\ ret' = [ret EXCEPT !.wresp = (@ + WRITERESP_GRAN) % 256]
  /\ state' = "S_B"
  /\ UNCHANGED <<req, wbeat>>

DeliverB(bRdy) ==
  /\ state = "S_B"
  /\ bRdy
  /\ state' = "S_IDLE"
  /\ UNCHANGED <<req, wbeat, b_q, ret>>

DeliverR(rx, rRdy) ==
  /\ i_rvalid(rx)
  /\ rRdy
  /\ ret' = [ret EXCEPT !.rdata = (@ + READDATA_GRAN) % 256]
  /\ state' = IF rx.last THEN "S_IDLE" ELSE "S_RDATA"
  /\ UNCHANGED <<req, wbeat, b_q>>

Stall(qHead, w, rx, txRdy, bRdy, rRdy) ==
  /\ CASE state = "S_IDLE"  -> qHead = None
       [] state = "S_WDATA" -> IF wbeat = None THEN w = None
                                               ELSE ~(wdata_ok /\ txRdy)
       [] state = "S_WWAIT" -> rx = None
       [] state = "S_B"     -> ~bRdy
       [] state = "S_RDATA" -> ~(rx # None /\ rRdy)
       [] OTHER             -> ~(dtx # None /\ txRdy)
  /\ UNCHANGED <<state, req, wbeat, b_q, ret>>

\* The credits as the FSM leaves them: a flit sent costs its granules, a
\* response consumed brings those in its MsgCredit.
FsmCredits(rx, txRdy, rRdy) ==
  CASE dtx # None /\ txRdy ->
         IF state = "S_WREQ" THEN [cr EXCEPT !.wreq = @ - WRITEREQ_GRAN]
         ELSE IF state = "S_RREQ" THEN [cr EXCEPT !.rreq = @ - READREQ_GRAN]
         ELSE [cr EXCEPT !.wdata = @ - WRITEDATA_GRAN]
    [] rx # None /\ drx_ready(rRdy) -> Grant(rx.mc)
    [] OTHER -> cr

Clock(qHead, w, rx, txRdy, seed, disabled, bRdy, rRdy) ==
  /\ \/ Pop(qHead)
     \/ SendWriteReq(txRdy) \/ SendReadReq(txRdy)
     \/ TakeBeat(w) \/ SendBeat(txRdy)
     \/ WriteResponse(rx) \/ DeliverB(bRdy) \/ DeliverR(rx, rRdy)
     \/ Stall(qHead, w, rx, txRdy, bRdy, rRdy)
  /\ Credits(FsmCredits(rx, txRdy, rRdy), seed, disabled)
=============================================================================
