---------------------------- MODULE PlaneChannels ----------------------------
(***************************************************************************)
(* What a shared link promises its planes: each has a channel of its own,  *)
(* which delivers what that plane's transmitter presented, each flit once  *)
(* and in order, whatever the other planes do.                             *)
(*                                                                         *)
(*   offer[p]   the flit plane p's transmitter presents, None if none      *)
(*   chan[p]    the flits on their way, the next to be received first      *)
(***************************************************************************)
EXTENDS Sequences

CONSTANTS None, Planes
VARIABLES offer, chan

Init ==
  /\ offer = [p \in Planes |-> None]
  /\ chan = [p \in Planes |-> <<>>]

\* The flits of channel p once the head is received, or not.
Left(p, received) ==
  IF p \in received /\ chan[p] # <<>> THEN Tail(chan[p]) ELSE chan[p]

\* The planes in sent hand over the flit they present, those in received take
\* one; a flit presented and not handed over stays.
Step(sent, received) ==
  /\ \A p \in sent : offer[p] # None
  /\ chan' = [p \in Planes |->
                IF p \in sent THEN Append(Left(p, received), offer[p])
                              ELSE Left(p, received)]
  /\ \A p \in Planes \ sent : offer[p] # None => offer'[p] = offer[p]

Next == \E sent, received \in SUBSET Planes : Step(sent, received)

Spec == Init /\ [][Next]_<<offer, chan>>
=============================================================================
