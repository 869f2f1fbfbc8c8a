---------------------------- MODULE BurstAddressing ----------------------------
(***************************************************************************)
(* A burst walked through axi_burst_next as the target bridge walks it     *)
(* (addr_q and beat_q), next to the closed formula of the AXI              *)
(* specification.                                                          *)
(*                                                                         *)
(*   Starts   the start addresses                                          *)
(*   Lens     the values of AxLEN                                          *)
(*   walk     [r, addr_q, beat_q]: the burst, the address and the number   *)
(*            of the beat it has got to                                    *)
(***************************************************************************)
EXTENDS AxiBurst, AxiBeatAddress

CONSTANTS Starts, Lens

VARIABLE walk

\* The bursts AXI allows: a WRAP burst has 2, 4, 8 or 16 beats and starts at a
\* multiple of its beat size.
Bursts ==
  {b \in [addr : Starts, len : Lens, size : 0 .. 2, burst : {"FIXED", "INCR", "WRAP"}] :
     b.burst = "WRAP" => b.len + 1 \in {2, 4, 8, 16} /\ b.addr % Bytes(b.size) = 0}

Init == walk \in {[r |-> b, addr_q |-> b.addr, beat_q |-> 0] : b \in Bursts}

Next ==
  LET r == walk.r
  IN  /\ walk.beat_q < r.len
      /\ walk' = [walk EXCEPT !.beat_q = @ + 1,
                    !.addr_q = axi_burst_next(@, r.addr, r.burst, r.size, r.len)]

-----------------------------------------------------------------------------
\* Beat by beat the walk stays in the container AXI names: a burst that starts
\* unaligned keeps its offset where AXI aligns, but never leaves the container,
\* so the word accessed is the same.
SameContainer ==
  LET bytes == Bytes(walk.r.size)
  IN  walk.addr_q \div bytes = BeatAddr(walk.r, walk.beat_q) \div bytes
===============================================================================
