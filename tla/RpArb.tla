-------------------------------- MODULE RpArb --------------------------------
(***************************************************************************)
(* The egress arbiter of a shared link (aou_rp_arb of rtl/aou_rp_mux.sv):  *)
(* a round robin over the planes that present a flit, locked on its choice *)
(* while the link stalls.                                                  *)
(*                                                                         *)
(* `in' gives the flit each plane presents (None when in_valid is low).    *)
(* `locked' is lock_sel while lock is set and None otherwise.              *)
(***************************************************************************)
EXTENDS Integers

CONSTANTS None, NUM_RP
VARIABLES last, locked

Planes == 0 .. NUM_RP - 1

Init == last = 0 /\ locked = None

Presenting(in) == {p \in Planes : in[p] # None}

\* Mutant: the plane just granted looks first.
TurnFromLast(p) == IF p >= last THEN p - last ELSE NUM_RP + p - last

\* How late plane p looks in this rotation, k - 1 for the k with
\* p = (last + k) % NUM_RP: the plane after `last' looks first.
Turn(p) == IF p > last THEN p - last - 1 ELSE NUM_RP + p - last - 1

\* The loop's first hit, as a set: empty if no plane presents a flit (rr_hit low).
Hit(in) == {p \in Presenting(in) : \A q \in Presenting(in) : Turn(p) <= Turn(q)}

rr_sel(in) == IF Hit(in) = {} THEN None ELSE CHOOSE p \in Hit(in) : TRUE

\* Mutant: no lock across a stall.
SelUnlocked(in) == rr_sel(in)

sel(in) == IF locked # None THEN locked ELSE rr_sel(in)

\* out_data, None when out_valid is low; and the plane whose flit it is.
out(in)   == IF sel(in) = None THEN None ELSE in[sel(in)]
grant(in) == IF out(in) = None THEN {} ELSE {sel(in)}

\* The planes whose in_ready is high.
in_ready(in, outReady) == IF outReady THEN grant(in) ELSE {}

Grant(in, outReady) ==
  /\ out(in) # None
  /\ outReady
  /\ last' = sel(in)
  /\ locked' = None

Stall(in, outReady) ==
  /\ out(in) # None
  /\ ~outReady
  /\ locked' = sel(in)
  /\ UNCHANGED last

Idle(in) ==
  /\ out(in) = None
  /\ locked' = None
  /\ UNCHANGED last

Clock(in, outReady) == Grant(in, outReady) \/ Stall(in, outReady) \/ Idle(in)

TypeOK == last \in Planes /\ locked \in Planes \cup {None}
=============================================================================
