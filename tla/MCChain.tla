-------------------------------- MODULE MCChain --------------------------------
(***************************************************************************)
(* Instance of AxiUcieMemChain for TLC: the requests the manager makes.    *)
(***************************************************************************)
EXTENDS AxiUcieMemChain

Rd(id, addr, len, size, burst) ==
  [wr |-> FALSE, id |-> id, addr |-> addr, len |-> len, size |-> size, burst |-> burst]
Wr(id, addr, len, size, burst) ==
  [Rd(id, addr, len, size, burst) EXCEPT !.wr = TRUE]

\* Bursts of every type, one of them narrow, the longest the shipped ceiling of
\* credits lets through (16 beats), and one beat too many in both directions.
MixedRequests ==
  {Wr(1, 4, 1, 2, "WRAP"), Wr(2, 0, 1, 2, "FIXED"), Wr(1, 0, 15, 2, "INCR"),
   Wr(1, 0, 16, 2, "INCR"),
   Rd(1, 2, 1, 1, "INCR"), Rd(2, 0, 15, 2, "INCR"), Rd(2, 0, 16, 2, "INCR")}
=============================================================================
