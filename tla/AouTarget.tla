------------------------------- MODULE AouTarget -------------------------------
(***************************************************************************)
(* The target bridge (rtl/aou_axi_target_bridge.sv): takes one request off *)
(* the link, runs it as single-beat AXI4-Lite accesses and sends the       *)
(* response flits, credits permitting.                                     *)
(*                                                                         *)
(* Flits are records as in InOrderInitiator.  req holds the burst (its     *)
(* addr is base_q), addr_q and beat_q the current beat; wbeat is the write *)
(* beat buffer (None when wpending is low) with aw_done and w_done its     *)
(* handshake; rbeat the read beat buffer (None when rpending is low) with  *)
(* ar_done its handshake; cr the credits held, ret the ones owed.          *)
(*                                                                         *)
(* Clock's inputs: rx the data-path flit or None, rspRdy (rsp_ready), seed *)
(* and disabled as in InOrderInitiator, and the memory's outputs awRdy,    *)
(* wRdy, arRdy, b (m_bresp, None when not valid) and r ([data, resp] or    *)
(* None).                                                                  *)
(***************************************************************************)
EXTENDS AouCredits, AxiBurst

CONSTANTS CR_RDATA, LCR_WRESP, None

VARIABLES state, req, addr_q, beat_q, wbeat, aw_done, w_done, bresp_q,
          rbeat, ar_done, cr, ret

tgtVars == <<state, req, addr_q, beat_q, wbeat, aw_done, w_done, bresp_q,
             rbeat, ar_done, cr, ret>>


NoCredit == [rdata |-> 0, wresp |-> 0]
NoReturn == [wreq |-> 0, rreq |-> 0, wdata |-> 0]

Init ==
  /\ state = "S_IDLE"
  /\ req = None /\ addr_q = 0 /\ beat_q = 0
  /\ wbeat = None /\ aw_done = FALSE /\ w_done = FALSE /\ bresp_q = "OKAY"
  /\ rbeat = None /\ ar_done = FALSE
  /\ cr = NoCredit
  /\ ret = NoReturn

-----------------------------------------------------------------------------
(* Wires.                                                                  *)

return_credit ==
  mk_msgcredit(cred_encode_ge(ret.wreq), cred_encode_ge(ret.rreq),
               cred_encode_ge(ret.wdata), 0, 0)

\* Mutant: the burst ends one beat early.
last_beat_early == beat_q + 1 >= req.len

last_beat == beat_q = req.len
next_addr == axi_burst_next(addr_q, req.addr, req.burst, req.size, req.len)

drx_ready == state = "S_IDLE" \/ (state = "S_WBEAT" /\ wbeat = None)

\* The AXI4-Lite manager's outputs.
m_aw     == IF state = "S_WBEAT" /\ wbeat # None /\ ~aw_done THEN addr_q ELSE None
m_w      == IF state = "S_WBEAT" /\ wbeat # None /\ ~w_done THEN wbeat ELSE None
m_bready == state = "S_WBEAT" /\ wbeat # None
m_ar     == IF state = "S_RBEAT" /\ rbeat = None /\ ~ar_done THEN addr_q ELSE None
m_rready == state = "S_RBEAT" /\ rbeat = None

\* rsp_valid/rsp_data: the response flit, once its credit is held.
rsp ==
  CASE state = "S_WRESP" /\ cr.wresp >= WRITERESP_GRAN ->
         [mt |-> "wresp", id |-> req.id, resp |-> bresp_q, mc |-> return_credit]
    [] state = "S_RBEAT" /\ rbeat # None /\ cr.rdata >= READDATA_GRAN ->
         [mt |-> "rdata", id |-> req.id, resp |-> rbeat.resp, data |-> rbeat.data,
          last |-> last_beat, mc |-> return_credit]
    [] OTHER -> None

rsp_fire(rspRdy) == rsp # None /\ rspRdy

-----------------------------------------------------------------------------
(* Credits, as in the initiator bridge.                                    *)

Grant(mc) ==
  [rdata |-> sat_add(cr.rdata, cred_decode(mc.rdata), CR_RDATA),
   wresp |-> sat_add(cr.wresp, cred_decode(mc.wresp), LCR_WRESP)]

FsmCredits(rx, rspRdy) ==
  CASE state = "S_IDLE" /\ rx # None -> Grant(rx.mc)
    [] rsp_fire(rspRdy) -> IF state = "S_WRESP"
                           THEN [cr EXCEPT !.wresp = @ - WRITERESP_GRAN]
                           ELSE [cr EXCEPT !.rdata = @ - READDATA_GRAN]
    [] OTHER -> cr

Credits(rx, rspRdy, seed, disabled) ==
  cr' = IF disabled THEN NoCredit
        ELSE IF seed # None THEN Grant(seed) ELSE FsmCredits(rx, rspRdy)

-----------------------------------------------------------------------------
(* The FSM's clock edge in each state.                                     *)

\* A WriteReq starts a write burst; every other message is read as a ReadReq.
TakeRequest(rx) ==
  /\ state = "S_IDLE"
  /\ rx # None
  /\ req' = rx.req
  /\ addr_q' = rx.req.addr
  /\ beat_q' = 0
  /\ IF rx.mt = "wreq"
     THEN /\ state' = "S_WBEAT"
          /\ ret' = [ret EXCEPT !.wreq = (@ + WRITEREQ_GRAN) % 256]
          /\ wbeat' = None /\ aw_done' = FALSE /\ w_done' = FALSE
          /\ UNCHANGED <<rbeat, ar_done>>
     ELSE /\ state' = "S_RBEAT"
          /\ ret' = [ret EXCEPT !.rreq = (@ + READREQ_GRAN) % 256]
          /\ rbeat' = None /\ ar_done' = FALSE
          /\ UNCHANGED <<wbeat, aw_done, w_done>>
  /\ UNCHANGED bresp_q

TakeBeat(rx) ==
  /\ state = "S_WBEAT"
  /\ wbeat = None
  /\ rx # None
  /\ wbeat' = [data |-> rx.data, strb |-> rx.strb]
  /\ aw_done' = FALSE /\ w_done' = FALSE
  /\ ret' = [ret EXCEPT !.wdata = (@ + WRITEDATA_GRAN) % 256]
  /\ UNCHANGED <<state, req, addr_q, beat_q, bresp_q, rbeat, ar_done>>

\* One single-beat memory write; its response ends the beat.
WriteBeat(awRdy, wRdy, b) ==
  /\ state = "S_WBEAT"
  /\ wbeat # None
  /\ aw_done' = (aw_done \/ (m_aw # None /\ awRdy))
  /\ w_done' = (w_done \/ (m_w # None /\ wRdy))
  /\ IF b = None
     THEN UNCHANGED <<state, addr_q, beat_q, wbeat, bresp_q>>
     ELSE /\ bresp_q' = b
          /\ wbeat' = None
          /\ addr_q' = next_addr
          /\ beat_q' = beat_q + 1
          /\ state' = IF last_beat THEN "S_WRESP" ELSE "S_WBEAT"
  /\ UNCHANGED <<req, rbeat, ar_done, ret>>

SendWriteResp(rspRdy) ==
  /\ state = "S_WRESP"
  /\ rsp_fire(rspRdy)
  /\ ret' = NoReturn
  /\ state' = "S_IDLE"
  /\ UNCHANGED <<req, addr_q, beat_q, wbeat, aw_done, w_done, bresp_q, rbeat, ar_done>>

\* One single-beat memory read into the buffer.
ReadBeat(arRdy, r) ==
  /\ state = "S_RBEAT"
  /\ rbeat = None
  /\ ar_done' = (ar_done \/ (m_ar # None /\ arRdy))
  /\ rbeat' = r
  /\ UNCHANGED <<state, req, addr_q, beat_q, wbeat, aw_done, w_done, bresp_q, ret>>

\* The owed credits ride in every beat and are cleared with the last one.
SendReadData(rspRdy) ==
  /\ state = "S_RBEAT"
  /\ rsp_fire(rspRdy)
  /\ rbeat' = None /\ ar_done' = FALSE
  /\ addr_q' = next_addr
  /\ beat_q' = beat_q + 1
  /\ ret' = IF last_beat THEN NoReturn ELSE ret
  /\ state' = IF last_beat THEN "S_IDLE" ELSE "S_RBEAT"
  /\ UNCHANGED <<req, wbeat, aw_done, w_done, bresp_q>>

Stall(rx, rspRdy) ==
  /\ CASE state = "S_IDLE"  -> rx = None
       [] state = "S_WBEAT" -> wbeat = None /\ rx = None
       [] state = "S_WRESP" -> ~rsp_fire(rspRdy)
       [] state = "S_RBEAT" -> rbeat # None /\ ~rsp_fire(rspRdy)
  /\ UNCHANGED <<state, req, addr_q, beat_q, wbeat, aw_done, w_done, bresp_q,
                 rbeat, ar_done, ret>>

Clock(rx, rspRdy, seed, disabled, awRdy, wRdy, arRdy, b, r) ==
  /\ \/ TakeRequest(rx) \/ TakeBeat(rx) \/ WriteBeat(awRdy, wRdy, b)
     \/ SendWriteResp(rspRdy) \/ ReadBeat(arRdy, r) \/ SendReadData(rspRdy)
     \/ Stall(rx, rspRdy)
  /\ Credits(rx, rspRdy, seed, disabled)
=============================================================================
