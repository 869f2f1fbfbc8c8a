------------------------------ MODULE SharedLink ------------------------------
(***************************************************************************)
(* One direction of a link shared by several resource planes, as wired in  *)
(* rtl/axi_ucie_mem_top.sv for NUM_RP > 1: plane arbiter (RpArb), skid     *)
(* buffer (UcieStreamLink), router with one receive queue per plane        *)
(* (RpRoute).  Every step is one clock edge.                               *)
(*                                                                         *)
(* The bridges are left free.  A transmitter presents a flit whenever it   *)
(* has credit and holds it until it is taken (dv/sva/aou_flit_sva.sv,      *)
(* a_flit_stable); a receiver takes flits when it likes.                   *)
(*                                                                         *)
(*   Payloads   what tells two flits of one plane apart                    *)
(*   Credit     how many flits of a plane may be presented or under way    *)
(*   waited     a history variable: how many flits of other planes went    *)
(*              onto the link while a plane was presenting one, counted up *)
(*              to NUM_RP                                                  *)
(*   clk        the parity of the clock: an edge that changes no register  *)
(*              is a step too (full throughput with equal flits)           *)
(***************************************************************************)
EXTENDS Naturals, Sequences, FiniteSets

CONSTANTS None, NUM_RP, RX_D, Payloads, Credit


VARIABLES last, locked, buf, queues,   \* arbiter, link, router
          offer,                       \* what the planes present
          waited, clk

vars == <<last, locked, buf, queues, offer, waited, clk>>

ARB   == INSTANCE RpArb
LINK  == INSTANCE UcieStreamLink
ROUTE == INSTANCE RpRoute

Planes == 0 .. NUM_RP - 1
FlitsOf(p) == [rp : {p}, data : Payloads]
Flits == [rp : Planes, data : Payloads]

ASSUME SharedLinkAssumption ==
  /\ {NUM_RP, RX_D, Credit} \subseteq Nat \ {0}
  /\ None \notin Planes \cup Flits

Init == /\ ARB!Init /\ LINK!Init /\ ROUTE!Init
        /\ offer = [p \in Planes |-> None]
        /\ waited = [p \in Planes |-> 0]
        /\ clk = 0

\* The flits of each plane in its receive queue and on the link, in order.
chan == [p \in Planes |-> IF buf # None /\ buf.rp = p THEN Append(queues[p], buf)
                                                     ELSE queues[p]]

\* The flits plane p has presented or under way.
InUse(p) == Len(chan[p]) + (IF offer[p] # None THEN 1 ELSE 0)

\* The planes whose flit is taken by the link while those in taking accept one,
\* and the planes that are free to present a new one after that edge.
Sent(taking) == ARB!in_ready(offer, LINK!InReady(ROUTE!in_ready(buf, taking)))
Free(taking) ==
  {p \in Planes : (offer[p] = None \/ p \in Sent(taking)) /\ InUse(p) < Credit}

\* One clock edge: the bridges in taking accept a flit, the transmitters in the
\* domain of new present one with the given payload.
Edge(taking, new) ==
  LET rxReady == ROUTE!in_ready(buf, taking)
      sent    == Sent(taking)
  IN  /\ ARB!Clock(offer, LINK!InReady(rxReady))
      /\ LINK!Clock(ARB!out(offer), rxReady)
      /\ ROUTE!Clock(buf, taking)
      /\ offer' = [p \in Planes |->
                     IF p \in DOMAIN new THEN [rp |-> p, data |-> new[p]]
                     ELSE IF p \in sent THEN None ELSE offer[p]]
      /\ waited' = [p \in Planes |->
                      IF offer[p] = None \/ p \in sent THEN 0
                      ELSE IF waited[p] < NUM_RP THEN waited[p] + Cardinality(sent)
                      ELSE NUM_RP]
      /\ clk' = 1 - clk

\* A bridge that accepts when its queue is empty leaves no trace.
Next ==
  \E taking \in SUBSET {p \in Planes : queues[p] # <<>>} :
    \E starting \in SUBSET Free(taking) :
      \E new \in [starting -> Payloads] : Edge(taking, new)

Spec == Init /\ [][Next]_vars

\* Fairness: the clock runs.  Nothing is assumed of the receivers.
FairSpec == Spec /\ WF_vars(Next)

-----------------------------------------------------------------------------
(* Properties.                                                             *)

\* Registers hold values of their types, and no receive queue overruns.
TypeOK ==
  /\ ARB!TypeOK
  /\ buf \in Flits \cup {None}
  /\ \A p \in Planes : /\ Len(queues[p]) <= RX_D
                       /\ \A i \in 1 .. Len(queues[p]) : queues[p][i] \in FlitsOf(p)
                       /\ offer[p] \in FlitsOf(p) \cup {None}

\* The planes share nothing but time: each has a channel of its own that loses,
\* duplicates, reorders and misroutes no flit (aou_rp_mux.sv: "responses and the
\* MsgCredit word they carry cannot reach another plane's bridge").
Channels == INSTANCE PlaneChannels
PlanesIsolated == Channels!Spec

\* A flit presented to a stalled link is still presented in the next cycle, even
\* if a plane with an earlier turn has one by then.
FlitHeld ==
  [][LET shown == ARB!out(offer)
     IN  shown # None /\ ~LINK!InReady(ROUTE!in_ready(buf, {}))
           => (buf' = shown \/ ARB!out(offer)' = shown)]_vars

\* A plane that presents a flit is granted the link within NUM_RP grants.
GrantedInTurn == \A p \in Planes : waited[p] < NUM_RP

\* With no more credit than a receive queue holds the link never stalls, however
\* long a receiver takes nothing: no plane's stall becomes another plane's.
LinkNeverStalls == ROUTE!in_ready(buf, {})

\* So every flit presented gets onto the link though no bridge ever takes one.
EveryFlitCrosses ==
  \A p \in Planes : offer[p] # None ~> (buf # None /\ buf.rp = p)
=============================================================================
