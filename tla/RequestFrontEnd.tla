---------------------------- MODULE RequestFrontEnd ----------------------------
(***************************************************************************)
(* The AXI side of the initiator bridge that both response paths share     *)
(* (rtl/aou_axi_initiator_bridge.sv): the accept logic, the request queue  *)
(* and the local error responder for bursts longer than the credit loop    *)
(* can carry.                                                              *)
(*                                                                         *)
(* A request is [wr, id, addr, len, size, burst], len being AxLEN.  The    *)
(* circular queue is the sequence q of its descriptors.                    *)
(*                                                                         *)
(* Clock's inputs: aw, ar the requests on AW and AR (None when not valid), *)
(* enabled (act_enabled), pop (do_pop of the datapath), brIdle (br_idle),  *)
(* wLast (a W beat with WLAST is valid), bRdy and rRdy.                    *)
(***************************************************************************)
EXTENDS Naturals, Sequences

CONSTANTS REQ_QD, MAX_WBEATS, MAX_RBEATS, None

VARIABLES q, e_state, e_req, e_beat


Init ==
  /\ q = <<>>
  /\ e_state = "E_IDLE"
  /\ e_req = None
  /\ e_beat = 0

q_empty == q = <<>>

\* s_awready; AR is accepted under the same condition when AW is not valid.
s_awready(enabled) == enabled /\ Len(q) < REQ_QD /\ e_state = "E_IDLE"

accepted(aw, ar, enabled) ==
  IF ~s_awready(enabled) THEN None
  ELSE IF aw # None THEN aw ELSE ar

\* aw_long, ar_long.
Long(r) == r.len + 1 > IF r.wr THEN MAX_WBEATS ELSE MAX_RBEATS

Enqueue(req, pop) ==
  q' = (IF pop THEN Tail(q) ELSE q)
         \o (IF req # None /\ ~Long(req) THEN <<req>> ELSE <<>>)

-----------------------------------------------------------------------------
(* The error responder's wires and FSM.                                    *)

e_b == e_state = "E_B"
e_r == e_state = "E_R"
e_w == e_state = "E_WDRAIN"

e_bresp == [id |-> e_req.id, resp |-> "SLVERR"]
e_rresp == [id |-> e_req.id, resp |-> "SLVERR", data |-> 0,
            last |-> e_beat = e_req.len]

TakeLong(req) ==
  /\ e_state = "E_IDLE"
  /\ req # None /\ Long(req)
  /\ e_req' = req
  /\ e_state' = "E_WAIT"
  /\ UNCHANGED e_beat

\* Mutant: respond at once.
StartAtOnce(brIdle) ==
  /\ e_state = "E_WAIT"
  /\ e_beat' = 0
  /\ e_state' = IF e_req.wr THEN "E_WDRAIN" ELSE "E_R"
  /\ UNCHANGED e_req

\* Respond only once every earlier transaction has completed.
StartResponse(brIdle) ==
  /\ e_state = "E_WAIT"
  /\ q_empty /\ brIdle
  /\ e_beat' = 0
  /\ e_state' = IF e_req.wr THEN "E_WDRAIN" ELSE "E_R"
  /\ UNCHANGED e_req

DrainLast(wLast) ==
  /\ e_w
  /\ wLast
  /\ e_state' = "E_B"
  /\ UNCHANGED <<e_req, e_beat>>

RespondB(bRdy) ==
  /\ e_b
  /\ bRdy
  /\ e_state' = "E_IDLE"
  /\ UNCHANGED <<e_req, e_beat>>

RespondR(rRdy) ==
  /\ e_r
  /\ rRdy
  /\ IF e_beat = e_req.len
     THEN e_state' = "E_IDLE" /\ UNCHANGED e_beat
     ELSE e_beat' = e_beat + 1 /\ UNCHANGED e_state
  /\ UNCHANGED e_req

Waiting(req, brIdle, wLast, bRdy, rRdy) ==
  /\ CASE e_state = "E_IDLE"   -> req # None => ~Long(req)
       [] e_state = "E_WAIT"   -> ~(q_empty /\ brIdle)
       [] e_state = "E_WDRAIN" -> ~wLast
       [] e_state = "E_B"      -> ~bRdy
       [] e_state = "E_R"      -> ~rRdy
  /\ UNCHANGED <<e_state, e_req, e_beat>>

ErrorResponder(req, brIdle, wLast, bRdy, rRdy) ==
  \/ TakeLong(req)
  \/ StartResponse(brIdle)
  \/ DrainLast(wLast)
  \/ RespondB(bRdy)
  \/ RespondR(rRdy)
  \/ Waiting(req, brIdle, wLast, bRdy, rRdy)

Clock(aw, ar, enabled, pop, brIdle, wLast, bRdy, rRdy) ==
  LET req == accepted(aw, ar, enabled)
  IN  /\ Enqueue(req, pop)
      /\ ErrorResponder(req, brIdle, wLast, bRdy, rRdy)
=============================================================================
