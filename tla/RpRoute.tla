------------------------------- MODULE RpRoute -------------------------------
(***************************************************************************)
(* The ingress router of a shared link (aou_rp_route of rtl/aou_rp_mux.sv):*)
(* each arriving flit goes to the receive queue of the plane its FDId      *)
(* (flit.rp) names; a flit that names no plane is consumed and dropped.    *)
(*                                                                         *)
(* A queue (aou_flit_fifo) is the sequence of the flits that its mem,      *)
(* head, tail and count stand for.  A flit is None when in_valid is low.   *)
(* `taking' is the set of the planes whose bridge accepts a flit.          *)
(***************************************************************************)
EXTENDS Naturals, Sequences

CONSTANTS None, NUM_RP, RX_D
VARIABLE queues

Planes == 0 .. NUM_RP - 1

Init == queues = [p \in Planes |-> <<>>]

-----------------------------------------------------------------------------
(* One queue                                                               *)

\* Mutant: full one flit too early.
ReadyEarly(queue, outReady) == Len(queue) + 1 < RX_D \/ outReady

\* in_ready: not full, or the head leaves in this very cycle.
InReady(queue, outReady) == Len(queue) < RX_D \/ outReady

\* The queue after a clock edge.
After(queue, in, outReady) ==
  LET kept == IF queue # <<>> /\ outReady THEN Tail(queue) ELSE queue
  IN  IF in # None /\ InReady(queue, outReady) THEN Append(kept, in) ELSE kept

-----------------------------------------------------------------------------
(* The router                                                              *)

\* Mutant: the last plane takes every flit above it as well as its own.
HitAnyway(in) == {p \in Planes : in # None /\ (in.rp = p \/ p = NUM_RP - 1)}

\* The plane a flit is addressed to, if any.
hit(in) == {p \in Planes : in # None /\ in.rp = p}

in_ready(in, taking) == \A p \in hit(in) : InReady(queues[p], p \in taking)

Clock(in, taking) ==
  queues' = [p \in Planes |->
               After(queues[p], IF p \in hit(in) THEN in ELSE None, p \in taking)]
=============================================================================
