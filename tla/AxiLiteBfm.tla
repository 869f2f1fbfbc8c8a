------------------------------- MODULE AxiLiteBfm -------------------------------
(***************************************************************************)
(* dv/cocotb/axi_lite_bfm.py: the coroutines that drive and watch the five *)
(* AXI channels, at half a clock a step.  At a rising edge every coroutine *)
(* awaiting it sees the values of before the edge, while the design takes  *)
(* the handshakes and changes its outputs; at a falling edge the requests  *)
(* are driven.                                                             *)
(*                                                                         *)
(*   edge   the edge that comes next                                       *)
(*   pin    what the BFM drives: aw, w, ar (sequences of at most one       *)
(*          element: empty is not valid), bready, rready                   *)
(*   bfm    the driver: pc names what is awaited, item the transfer in     *)
(*          hand, k the beats or requests done, beats the data returned    *)
(*   mon    monitor_bfm: the write context aw, w_cur and w_pending, and    *)
(*          ar_q, the open reads oldest first                              *)
(*   seen   the reports put into monitor_queue, oldest first               *)
(***************************************************************************)
EXTENDS AxiSequences, AxiSubordinate

VARIABLES edge, pin, bfm, mon, seen

busVars == <<edge, pin, bfm, mon, seen, sub>>

NoItem == Read(0)
Quiet == [aw |-> <<>>, w |-> <<>>, ar |-> <<>>, bready |-> FALSE, rready |-> FALSE]
Rest == [pc |-> "idle", item |-> NoItem, k |-> 0, beats |-> <<>>]
Blind == [aw |-> NoItem, w_cur |-> 0, w_pending |-> <<>>, ar_q |-> <<>>]

BfmInit ==
  /\ edge = "fall" /\ pin = Quiet /\ bfm = Rest /\ mon = Blind /\ seen = <<>>
  /\ sub = SubReset

\* reset, in the cycles of which nothing is valid: what a test starts from.
reset == edge' = "fall" /\ pin' = Quiet /\ bfm' = Rest /\ mon' = Blind /\ sub' = SubReset

-----------------------------------------------------------------------------
AW == IF sub.awrdy THEN pin.aw ELSE <<>>
W  == IF sub.wrdy THEN pin.w ELSE <<>>
AR == IF sub.arrdy THEN pin.ar ELSE <<>>
B  == sub.bvalid /\ pin.bready
R  == sub.rvalid /\ pin.rready

Goto(pc) == bfm' = [bfm EXCEPT !.pc = pc]
Stay == UNCHANGED <<pin, bfm>>

\* Await a rising edge at which cond held, then the falling edge of the step next.
Until(pc, cond, next) ==
  edge = "rise" /\ bfm.pc = pc /\ UNCHANGED pin /\ (IF cond THEN Goto(next) ELSE UNCHANGED bfm)

_wburst ==
  \/ /\ edge = "fall" /\ bfm.pc = "aw_drive"
     /\ pin' = [pin EXCEPT !.aw = <<bfm.item>>, !.bready = TRUE]
     /\ Goto("aw_wait")
  \/ Until("aw_wait", sub.awrdy, "aw_done")
  \/ /\ edge = "fall" /\ bfm.pc = "aw_done"
     /\ pin' = [pin EXCEPT !.aw = <<>>, !.w = <<bfm.item.beats[1]>>]
     /\ bfm' = [bfm EXCEPT !.pc = "w_wait", !.k = 1]
  \/ Until("w_wait", sub.wrdy, "w_done")
  \/ /\ edge = "fall" /\ bfm.pc = "w_done" /\ bfm.k < Len(bfm.item.beats)
     /\ pin' = [pin EXCEPT !.w = <<bfm.item.beats[bfm.k + 1]>>]
     /\ bfm' = [bfm EXCEPT !.pc = "w_wait", !.k = @ + 1]
  \/ /\ edge = "fall" /\ bfm.pc = "w_done" /\ bfm.k = Len(bfm.item.beats)
     /\ pin' = [pin EXCEPT !.w = <<>>]
     /\ Goto(IF sub.bvalid THEN "b_taken" ELSE "b_wait")
  \/ Until("b_taken", TRUE, "b_done")
  \/ Until("b_wait", sub.bvalid, "b_done")
  \/ /\ edge = "fall" /\ bfm.pc = "b_done"
     /\ pin' = [pin EXCEPT !.bready = FALSE]
     /\ Goto("idle")

\* Mutant: without the edge that accepts a beat, one beat is read len + 1 times.
append_beat_at_once(b) ==
  [b EXCEPT !.beats = [i \in 1 .. b.item.len + 1 |-> RData], !.k = b.item.len + 1, !.pc = "r_accept"]

append_beat(b) ==
  [b EXCEPT !.beats = Append(@, RData), !.k = @ + 1, !.pc = "r_accept"]

_rburst ==
  \/ /\ edge = "fall" /\ bfm.pc = "ar_drive"
     /\ pin' = [pin EXCEPT !.ar = <<bfm.item>>, !.rready = TRUE]
     /\ Goto("ar_wait")
  \/ Until("ar_wait", sub.arrdy, "ar_done")
  \/ /\ edge = "fall" /\ bfm.pc = "ar_done"
     /\ pin' = [pin EXCEPT !.ar = <<>>]
     /\ bfm' = IF sub.rvalid THEN append_beat(bfm) ELSE [bfm EXCEPT !.pc = "r_wait"]
  \/ /\ edge = "rise" /\ bfm.pc = "r_wait"
     /\ bfm' = IF sub.rvalid THEN append_beat(bfm) ELSE bfm
     /\ UNCHANGED pin
  \/ /\ edge = "rise" /\ bfm.pc = "r_accept"
     /\ bfm' = CASE bfm.k > bfm.item.len -> [bfm EXCEPT !.pc = "r_done"]
                 [] bfm.k <= bfm.item.len /\ sub.rvalid -> append_beat(bfm)
                 [] OTHER -> [bfm EXCEPT !.pc = "r_wait"]
     /\ UNCHANGED pin
  \/ /\ edge = "fall" /\ bfm.pc = "r_done"
     /\ pin' = [pin EXCEPT !.rready = FALSE]
     /\ Goto("idle")

\* The beats of the reads reqs, each a pair of the read and its beat.
BeatsOf(reqs) == UNION {{i} \X (0 .. reqs[i].len) : i \in DOMAIN reqs}

\* Mutant: the drain loop counts down past zero, one beat too many.
remaining_and_one == Cardinality(BeatsOf(bfm.item.reqs)) + 1

\* How many beats read_multi drains.
remaining == Cardinality(BeatsOf(bfm.item.reqs))

\* k counts the requests queued, then the beats drained.
read_multi ==
  \/ /\ edge = "fall" /\ bfm.pc = "m_drive"
     /\ pin' = [pin EXCEPT !.ar = <<bfm.item.reqs[bfm.k + 1]>>]
     /\ bfm' = [bfm EXCEPT !.pc = "m_wait", !.k = @ + 1]
  \/ Until("m_wait", sub.arrdy, "m_done")
  \/ /\ edge = "fall" /\ bfm.pc = "m_done"
     /\ pin' = [pin EXCEPT !.ar = <<>>, !.rready = bfm.k = Len(bfm.item.reqs)]
     /\ bfm' = IF bfm.k < Len(bfm.item.reqs) THEN [bfm EXCEPT !.pc = "m_drive"]
               ELSE [bfm EXCEPT !.pc = "m_drain", !.k = 0]
  \/ /\ edge = "rise" /\ bfm.pc = "m_drain"
     /\ bfm' = IF ~sub.rvalid THEN bfm
               ELSE [bfm EXCEPT !.k = @ + 1, !.pc = IF bfm.k + 1 = remaining THEN "m_end" ELSE @]
     /\ UNCHANGED pin
  \/ /\ edge = "fall" /\ bfm.pc = "m_end"
     /\ pin' = [pin EXCEPT !.rready = FALSE]
     /\ Goto("idle")

\* A half cycle at which the coroutine in hand awaits the other edge.
OtherEdge ==
  /\ \/ edge = "rise" /\ bfm.pc \in {"aw_drive", "ar_drive", "m_drive"}
     \/ edge = "fall" /\ bfm.pc \in {"aw_wait", "w_wait", "b_wait", "ar_wait", "r_wait",
                                     "r_accept", "m_wait", "m_drain"}
  /\ Stay

\* driver_bfm takes the next command; a body calls read_multi itself.
driver_bfm(item) ==
  /\ bfm.pc = "idle"
  /\ bfm' = [pc |-> CASE item.kind = "W" -> "aw_drive" [] item.kind = "R" -> "ar_drive"
                      [] item.kind = "M" -> "m_drive",
             item |-> item, k |-> 0, beats |-> <<>>]
  /\ UNCHANGED <<edge, pin, mon, seen, sub>>

-----------------------------------------------------------------------------
Report(wr, addr, data, len, outstanding) ==
  [wr |-> wr, addr |-> addr, data |-> data, len |-> len, outstanding |-> outstanding]

\* Mutant: an R beat is attributed to the youngest open read.
Owner_youngest(ar_q) == Len(ar_q)

\* The open read an R beat belongs to.
Owner(ar_q) == 1

NextOf(cur, r) == next_addr(cur, r.addr, r.burst, SIZE_4B, r.len)

\* monitor_bfm at a rising edge, in the order it looks at the channels.
monitor_bfm ==
  LET aw      == IF AW = <<>> THEN mon.aw ELSE Head(AW)
      w_cur   == IF AW = <<>> THEN mon.w_cur ELSE aw.addr
      kept    == IF AW = <<>> THEN mon.w_pending ELSE <<>>
      taken   == kept \o [i \in DOMAIN W |-> <<w_cur, W[i]>>]
      flushed == IF B THEN [i \in DOMAIN taken |->
                              Report(TRUE, taken[i][1], taken[i][2], aw.len, 1)]
                 ELSE <<>>
      open    == mon.ar_q \o [i \in DOMAIN AR |-> [cur |-> AR[i].addr, item |-> AR[i], rem |-> AR[i].len + 1]]
      i       == Owner(open)
      ctx     == open[i]
      on      == [ctx EXCEPT !.cur = NextOf(ctx.cur, ctx.item), !.rem = @ - 1]
  IN  /\ seen' = seen \o flushed
                 \o (IF R /\ open # <<>>
                     THEN <<Report(FALSE, ctx.cur, RData, ctx.item.len, Len(open))>> ELSE <<>>)
      /\ mon' = [aw |-> aw,
                 w_cur |-> IF W = <<>> THEN w_cur ELSE NextOf(w_cur, aw),
                 w_pending |-> IF B THEN <<>> ELSE taken,
                 ar_q |-> CASE ~R \/ open = <<>> -> open
                            [] R /\ open # <<>> /\ on.rem > 0 -> [open EXCEPT ![i] = on]
                            [] OTHER -> RemoveAt(open, i)]

-----------------------------------------------------------------------------
Coroutines == _wburst \/ _rburst \/ read_multi \/ OtherEdge

Fall == edge = "fall" /\ edge' = "rise" /\ Coroutines /\ UNCHANGED <<mon, seen, sub>>

Rise(may) ==
  /\ edge = "rise" /\ edge' = "fall"
  /\ SubEdge(AW, W, AR, B, R, may)
  /\ Coroutines
  /\ monitor_bfm
===============================================================================
