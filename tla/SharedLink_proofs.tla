--------------------------- MODULE SharedLink_proofs ---------------------------
(***************************************************************************)
(* Proofs about the shared link, for every number of planes, depth of the  *)
(* receive queues, credit and payloads: the planes are isolated, a stalled  *)
(* flit stays, none stalls the link within its credit, and the arbiter     *)
(* grants in turn.                                                         *)
(***************************************************************************)
EXTENDS SharedLink, SequenceTheorems, FiniteSetTheorems, TLAPS

\* The types of the registers, and whose flits are where.
Types ==
  /\ last \in Planes
  /\ locked \in Planes \cup {None}
  /\ buf \in Flits \cup {None}
  /\ queues \in [Planes -> Seq(Flits)]
  /\ offer \in [Planes -> Flits \cup {None}]
  /\ \A p \in Planes : offer[p] # None => offer[p].rp = p

\* What the link takes in a cycle: nothing, or the flit one plane presents.
LEMMA SentIsOne ==
  ASSUME Types, NEW taking, NEW s \in Sent(taking)
  PROVE  /\ s \in Planes
         /\ Sent(taking) = {s}
         /\ offer[s] # None
         /\ ARB!out(offer) = offer[s]
         /\ s = ARB!sel(offer)
         /\ LINK!InReady(ROUTE!in_ready(buf, taking))
<1>1. /\ LINK!InReady(ROUTE!in_ready(buf, taking))
      /\ ARB!out(offer) # None
      /\ s = ARB!sel(offer)
      /\ Sent(taking) = {s}
  BY DEF Sent, ARB!in_ready, ARB!grant
<1>2. ARB!sel(offer) # None /\ ARB!out(offer) = offer[ARB!sel(offer)]
  BY <1>1 DEF ARB!out
<1>3. CASE locked # None
  BY <1>1, <1>2, <1>3 DEF Types, ARB!sel, ARB!Planes, Planes
<1>4. CASE locked = None
  <2>1. s = ARB!rr_sel(offer) /\ s # None
    BY <1>1, <1>2, <1>4 DEF ARB!sel
  <2>2. s \in ARB!Hit(offer)
    BY <2>1 DEF ARB!rr_sel
  <2> QED BY <1>1, <1>2, <2>2 DEF ARB!Hit, ARB!Presenting, ARB!Planes, Planes
<1> QED BY <1>3, <1>4

\* The inputs of an edge: bridges that take have a flit to take, transmitters that
\* start are free to.
Legal(taking, new) ==
  /\ taking \subseteq {p \in Planes : queues[p] # <<>>}
  /\ DOMAIN new \subseteq Free(taking)
  /\ \A p \in DOMAIN new : new[p] \in Payloads

\* What stays in plane p's queue once the bridges in taking took theirs.
Kept(p, taking) == IF p \in taking THEN Tail(queues[p]) ELSE queues[p]

\* What stays in a queue (out_ready pops it, aou_flit_fifo) is a shorter queue.
LEMMA KeptType ==
  ASSUME Types, NEW taking, NEW new, Legal(taking, new), NEW p \in Planes
  PROVE  /\ Kept(p, taking) \in Seq(Flits)
         /\ Len(Kept(p, taking)) <= Len(queues[p])
<1>1. queues[p] \in Seq(Flits)
  BY DEF Types
<1>2. CASE p \in taking
  <2>1. queues[p] # <<>>
    BY <1>2 DEF Legal
  <2>2. Tail(queues[p]) \in Seq(Flits) /\ Len(Tail(queues[p])) = Len(queues[p]) - 1
    BY <1>1, <2>1, HeadTailProperties
  <2> QED BY <1>1, <1>2, <2>2, LenProperties DEF Kept
<1>3. CASE p \notin taking
  BY <1>1, <1>3, LenProperties DEF Kept
<1> QED BY <1>2, <1>3

\* The channel of plane p less what its bridge takes.
LEMMA LeftOfChannel ==
  ASSUME Types, NEW taking, NEW new, Legal(taking, new), NEW p \in Planes
  PROVE  Channels!Left(p, taking) =
           IF buf # None /\ buf.rp = p THEN Append(Kept(p, taking), buf)
                                       ELSE Kept(p, taking)
<1>1. queues[p] \in Seq(Flits)
  BY DEF Types
<1>2. p \in taking => queues[p] # <<>>
  BY DEF Legal
<1>3. CASE buf # None /\ buf.rp = p
  <2>1. chan[p] = Append(queues[p], buf) /\ chan[p] # <<>>
    BY <1>1, <1>3, AppendProperties DEF chan, Types
  <2>2. Tail(chan[p]) = IF queues[p] = <<>> THEN <<>> ELSE Append(Tail(queues[p]), buf)
    BY <1>1, <2>1, HeadTailAppend
  <2> QED BY <1>2, <1>3, <2>1, <2>2 DEF Channels!Left, Kept
<1>4. CASE ~(buf # None /\ buf.rp = p)
  <2>1. chan[p] = queues[p]
    BY <1>4 DEF chan
  <2> QED BY <1>2, <1>4, <2>1 DEF Channels!Left, Kept
<1> QED BY <1>3, <1>4

\* One edge moves every channel on: what the bridges take leaves it, what the
\* link takes of the plane's transmitter joins it (u_arb_a, u_link_a2b, u_route_b).
LEMMA ChannelMoves ==
  ASSUME Types, NEW taking, NEW new, Legal(taking, new), Edge(taking, new),
         NEW p \in Planes
  PROVE  chan'[p] = IF p \in Sent(taking)
                    THEN Append(Channels!Left(p, taking), offer[p])
                    ELSE Channels!Left(p, taking)
<1> DEFINE rxReady == ROUTE!in_ready(buf, taking)
<1>1. queues' = [q \in Planes |->
                   ROUTE!After(queues[q],
                     IF q \in ROUTE!hit(buf) THEN buf ELSE None, q \in taking)]
  BY DEF Edge, ROUTE!Clock, ROUTE!Planes, Planes
<1>2. ROUTE!hit(buf) = {q \in Planes : buf # None /\ buf.rp = q}
  BY DEF ROUTE!hit, ROUTE!Planes, Planes
<1>3. LINK!Clock(ARB!out(offer), rxReady)
  BY DEF Edge
<1>4. chan'[p] = IF buf' # None /\ buf'.rp = p THEN Append(queues'[p], buf')
                                              ELSE queues'[p]
  BY DEF chan
<1>5. queues'[p] =
        IF (buf # None /\ buf.rp = p) /\ ROUTE!InReady(queues[p], p \in taking)
        THEN Append(Kept(p, taking), buf) ELSE Kept(p, taking)
  <2>1. p \in taking => queues[p] # <<>>
    BY DEF Legal
  <2> QED BY <1>1, <1>2, <2>1 DEF ROUTE!After, Kept
<1>6. CASE rxReady
  <2>1. queues'[p] = Channels!Left(p, taking)
    <3>1. buf # None /\ buf.rp = p => ROUTE!InReady(queues[p], p \in taking)
      BY <1>2, <1>6 DEF ROUTE!in_ready
    <3> QED BY <1>5, <3>1, LeftOfChannel
  <2>2. buf' = ARB!out(offer)
    BY <1>3, <1>6 DEF LINK!Clock, LINK!Load, LINK!Drain, LINK!Hold, LINK!InReady
  <2>3. CASE Sent(taking) = {}
    <3>1. ARB!out(offer) = None
      BY <1>6, <2>3 DEF Sent, LINK!InReady, ARB!in_ready, ARB!grant
    <3> QED BY <1>4, <2>1, <2>2, <2>3, <3>1
  <2>4. ASSUME NEW s \in Sent(taking)
        PROVE  chan'[p] = IF p \in Sent(taking)
                          THEN Append(Channels!Left(p, taking), offer[p])
                          ELSE Channels!Left(p, taking)
    <3>1. Sent(taking) = {s} /\ ARB!out(offer) = offer[s] /\ offer[s] # None /\ offer[s].rp = s
      BY SentIsOne DEF Types
    <3> QED BY <1>4, <2>1, <2>2, <3>1
  <2> QED BY <2>3, <2>4
<1>7. CASE ~rxReady
  <2>1. buf # None /\ ~ROUTE!InReady(queues[buf.rp], buf.rp \in taking)
    BY <1>2, <1>7 DEF ROUTE!in_ready
  <2>2. ~LINK!InReady(rxReady)
    BY <1>7, <2>1 DEF LINK!InReady
  <2>3. Sent(taking) = {}
    BY <2>2 DEF Sent, ARB!in_ready
  <2>4. buf' = buf
    BY <1>3, <1>7, <2>2 DEF LINK!Clock, LINK!Load, LINK!Drain, LINK!Hold
  <2>5. queues'[p] = Kept(p, taking)
    BY <1>5, <2>1
  <2> QED BY <1>4, <2>3, <2>4, <2>5, LeftOfChannel
<1> QED BY <1>6, <1>7

-----------------------------------------------------------------------------
(* Types.                                                                  *)

\* A step is an edge with legal inputs.
LEMMA NextIsEdge ==
  ASSUME Next
  PROVE  \E taking, new : Legal(taking, new) /\ Edge(taking, new)
<1>1. PICK taking \in SUBSET {p \in Planes : queues[p] # <<>>} :
        \E starting \in SUBSET Free(taking) :
          \E new \in [starting -> Payloads] : Edge(taking, new)
  BY DEF Next
<1>2. PICK starting \in SUBSET Free(taking) :
        \E new \in [starting -> Payloads] : Edge(taking, new)
  BY <1>1
<1>3. PICK new \in [starting -> Payloads] : Edge(taking, new)
  BY <1>2
<1>4. Legal(taking, new)
  BY <1>1, <1>2, <1>3 DEF Legal
<1> QED BY <1>3, <1>4

\* The reset state has the right types.
LEMMA InitTypes == Init => Types
<1> SUFFICES ASSUME Init PROVE Types
  OBVIOUS
<1>1. 0 \in Planes
  BY SharedLinkAssumption DEF Planes
<1>2. queues = [p \in Planes |-> <<>>]
  BY DEF Init, ROUTE!Init, ROUTE!Planes, Planes
<1>3. queues \in [Planes -> Seq(Flits)]
  BY <1>2, EmptySeq
<1> QED BY <1>1, <1>3 DEF Init, Types, ARB!Init, LINK!Init

\* Where plane p's transmitter stands after an edge.
LEMMA OfferMoves ==
  ASSUME Types, NEW taking, NEW new, Legal(taking, new), Edge(taking, new),
         NEW p \in Planes
  PROVE  /\ offer'[p] = IF p \in DOMAIN new THEN [rp |-> p, data |-> new[p]]
                        ELSE IF p \in Sent(taking) THEN None ELSE offer[p]
         /\ p \in DOMAIN new => /\ offer'[p] \in Flits /\ offer'[p] # None
                                /\ offer'[p].rp = p
<1>1. offer'[p] = IF p \in DOMAIN new THEN [rp |-> p, data |-> new[p]]
                  ELSE IF p \in Sent(taking) THEN None ELSE offer[p]
  BY DEF Edge
<1>2. ASSUME p \in DOMAIN new
      PROVE  /\ offer'[p] \in Flits /\ offer'[p] # None /\ offer'[p].rp = p
  <2>1. new[p] \in Payloads
    BY <1>2 DEF Legal
  <2> QED BY <1>1, <1>2, <2>1, SharedLinkAssumption DEF Flits
<1> QED BY <1>1, <1>2

\* An edge keeps the registers of arbiter, link, router and transmitters typed.
LEMMA EdgeTypes ==
  ASSUME Types, NEW taking, NEW new, Legal(taking, new), Edge(taking, new)
  PROVE  Types'
<1>1. last' \in Planes /\ locked' \in Planes \cup {None}
  <2>1. ARB!Clock(offer, LINK!InReady(ROUTE!in_ready(buf, taking)))
    BY DEF Edge
  <2>2. ARB!sel(offer) \in Planes \cup {None}
    BY DEF Types, ARB!sel, ARB!rr_sel, ARB!Hit, ARB!Presenting, ARB!Planes, Planes
  <2>3. ARB!out(offer) # None => ARB!sel(offer) # None
    BY DEF ARB!out
  <2> QED BY <2>1, <2>2, <2>3 DEF Types, ARB!Clock, ARB!Grant, ARB!Stall, ARB!Idle
<1>2. ARB!out(offer) \in Flits \cup {None}
  BY DEF Types, ARB!out, ARB!sel, ARB!rr_sel, ARB!Hit, ARB!Presenting, ARB!Planes, Planes
<1>3. buf' \in Flits \cup {None}
  BY <1>2 DEF Types, Edge, LINK!Clock, LINK!Load, LINK!Drain, LINK!Hold
<1>4. queues' \in [Planes -> Seq(Flits)]
  <2>1. queues' = [q \in Planes |->
                     ROUTE!After(queues[q],
                       IF q \in ROUTE!hit(buf) THEN buf ELSE None, q \in taking)]
    BY DEF Edge, ROUTE!Clock, ROUTE!Planes, Planes
  <2>2. ASSUME NEW q \in Planes
        PROVE  ROUTE!After(queues[q],
                 IF q \in ROUTE!hit(buf) THEN buf ELSE None, q \in taking) \in Seq(Flits)
    <3>1. Kept(q, taking) \in Seq(Flits)
      BY KeptType
    <3>2. q \in taking => queues[q] # <<>>
      BY DEF Legal
    <3>3. buf # None => Append(Kept(q, taking), buf) \in Seq(Flits)
      BY <3>1, AppendProperties DEF Types
    <3> QED BY <3>1, <3>2, <3>3 DEF ROUTE!After, Kept
  <2> QED BY <2>1, <2>2
<1>5. offer' \in [Planes -> Flits \cup {None}]
  <2>1. \A p \in Planes : offer'[p] \in Flits \cup {None}
    BY OfferMoves DEF Types
  <2>2. offer' = [p \in Planes |-> offer'[p]]
    BY DEF Edge
  <2> QED BY <2>1, <2>2
<1>6. \A p \in Planes : offer'[p] # None => offer'[p].rp = p
  BY OfferMoves DEF Types
<1> QED BY <1>1, <1>3, <1>4, <1>5, <1>6 DEF Types

\* So does a stutter.
LEMMA StutterTypes == Types /\ UNCHANGED vars => Types'
BY DEF Types, vars, Planes, Flits

\* Types is inductive.
LEMMA TypesInductive == Types /\ [Next]_vars => Types'
<1>1. ASSUME Types, Next PROVE Types'
  BY <1>1, NextIsEdge, EdgeTypes
<1> QED BY <1>1, StutterTypes

\* Types is an invariant of the shared link.
LEMMA TypesHold == Spec => []Types
BY InitTypes, TypesInductive, PTL DEF Spec

-----------------------------------------------------------------------------
(* Isolation.                                                              *)

\* For every number of planes, queue depth and credit, each plane of a shared
\* link has a channel of its own: nothing is lost, doubled, reordered or handed
\* to another plane, however the link stalls (aou_rp_mux.sv).
THEOREM PlanesAreIsolated == Spec => PlanesIsolated
<1>1. Init => Channels!Init
  <2> SUFFICES ASSUME Init PROVE Channels!Init
    OBVIOUS
  <2>1. queues = [p \in Planes |-> <<>>] /\ buf = None
    BY DEF Init, ROUTE!Init, ROUTE!Planes, Planes, LINK!Init
  <2>2. chan = [p \in Planes |-> <<>>]
    BY <2>1 DEF chan
  <2> QED BY <2>2 DEF Init, Channels!Init
<1>2. ASSUME Types, NEW taking, NEW new, Legal(taking, new), Edge(taking, new)
      PROVE  Channels!Next
  <2>1. Sent(taking) \in SUBSET Planes /\ taking \in SUBSET Planes
    BY <1>2, SentIsOne DEF Legal
  <2>2. \A p \in Sent(taking) : offer[p] # None
    BY <1>2, SentIsOne
  <2>3. chan' = [p \in Planes |-> IF p \in Sent(taking)
                                  THEN Append(Channels!Left(p, taking), offer[p])
                                  ELSE Channels!Left(p, taking)]
    <3>1. chan' = [p \in Planes |-> chan'[p]]
      BY DEF chan, Planes
    <3>2. \A p \in Planes : chan'[p] = IF p \in Sent(taking)
                                       THEN Append(Channels!Left(p, taking), offer[p])
                                       ELSE Channels!Left(p, taking)
      BY <1>2, ChannelMoves
    <3> QED BY <3>1, <3>2
  <2>4. ASSUME NEW p \in Planes \ Sent(taking), offer[p] # None
        PROVE  offer'[p] = offer[p]
    <3>1. p \notin DOMAIN new
      BY <1>2, <2>4 DEF Legal, Free
    <3> QED BY <1>2, <2>4, <3>1, OfferMoves
  <2>5. Channels!Step(Sent(taking), taking)
    BY <2>2, <2>3, <2>4 DEF Channels!Step
  <2> QED BY <2>1, <2>5 DEF Channels!Next
<1>3. Types /\ Next => Channels!Next
  BY <1>2, NextIsEdge
<1>4. UNCHANGED vars => UNCHANGED <<offer, chan>>
  BY DEF vars, chan, Planes
<1>5. Types /\ [Next]_vars => [Channels!Next]_<<offer, chan>>
  BY <1>3, <1>4
<1> QED BY <1>1, <1>5, TypesHold, PTL DEF Spec, PlanesIsolated, Channels!Spec

-----------------------------------------------------------------------------
(* A stalled flit.                                                         *)

\* The plane chosen presents a flit, so it is one of the planes.
LEMMA ChosenPlane ==
  ASSUME Types, ARB!out(offer) # None
  PROVE  /\ ARB!sel(offer) \in Planes
         /\ offer[ARB!sel(offer)] # None
         /\ ARB!out(offer) = offer[ARB!sel(offer)]
<1>1. ARB!sel(offer) # None /\ ARB!out(offer) = offer[ARB!sel(offer)]
  BY DEF ARB!out
<1>2. CASE locked # None
  BY <1>1, <1>2 DEF Types, ARB!sel, ARB!Planes, Planes
<1>3. CASE locked = None
  <2>1. ARB!sel(offer) = ARB!rr_sel(offer)
    BY <1>3 DEF ARB!sel
  <2>2. ARB!sel(offer) \in ARB!Hit(offer)
    BY <1>1, <2>1 DEF ARB!rr_sel
  <2> QED BY <1>1, <2>2 DEF ARB!Hit, ARB!Presenting, ARB!Planes, Planes
<1> QED BY <1>1, <1>2, <1>3

\* A flit the link does not take in this cycle is still the one presented in the
\* next: its plane keeps it and the arbiter is locked on that plane.
LEMMA StalledFlitStays ==
  ASSUME Types, NEW taking, NEW new, Legal(taking, new), Edge(taking, new),
         ARB!out(offer) # None, ~LINK!InReady(ROUTE!in_ready(buf, taking))
  PROVE  ARB!out(offer)' = ARB!out(offer)
<1> DEFINE s == ARB!sel(offer)
<1>1. s \in Planes /\ offer[s] # None /\ ARB!out(offer) = offer[s]
  BY ChosenPlane
<1>2. Sent(taking) = {}
  BY DEF Sent, ARB!in_ready
<1>3. locked' = s
  BY DEF Edge, ARB!Clock, ARB!Grant, ARB!Stall, ARB!Idle
<1>4. s \notin DOMAIN new
  BY <1>1, <1>2 DEF Legal, Free
<1>5. offer'[s] = offer[s]
  BY <1>1, <1>2, <1>4, OfferMoves
<1>6. s # None
  BY <1>1, SharedLinkAssumption
<1> HIDE DEF s
<1>7. ARB!sel(offer)' = s
  BY <1>3, <1>6 DEF ARB!sel
<1> QED BY <1>1, <1>5, <1>6, <1>7 DEF ARB!out

\* A flit the link takes is the one it holds after the edge.
LEMMA TakenFlitIsHeld ==
  ASSUME NEW taking, NEW new, Edge(taking, new),
         ARB!out(offer) # None, LINK!InReady(ROUTE!in_ready(buf, taking))
  PROVE  buf' = ARB!out(offer)
BY DEF Edge, LINK!Clock, LINK!Load, LINK!Drain, LINK!Hold

\* A flit presented to a stalled link stays presented until the link takes it,
\* though a plane with an earlier turn may have one by then (the lock of aou_rp_arb).
THEOREM StalledFlitIsHeld == Spec => FlitHeld
<1> DEFINE shown == ARB!out(offer)
           stalled == shown # None /\ ~LINK!InReady(ROUTE!in_ready(buf, {}))
           held == buf' = shown \/ ARB!out(offer)' = shown
<1>1. ASSUME Types, Next, stalled PROVE held
  <2>1. PICK taking, new : Legal(taking, new) /\ Edge(taking, new)
    BY <1>1, NextIsEdge
  <2>2. CASE LINK!InReady(ROUTE!in_ready(buf, taking))
    BY <1>1, <2>1, <2>2, TakenFlitIsHeld
  <2>3. CASE ~LINK!InReady(ROUTE!in_ready(buf, taking))
    BY <1>1, <2>1, <2>3, StalledFlitStays
  <2> QED BY <2>2, <2>3
<1>2. Types /\ [Next]_vars => [stalled => held]_vars
  BY <1>1
<1> QED BY <1>2, TypesHold, PTL DEF Spec, FlitHeld

-----------------------------------------------------------------------------
(* Credit.                                                                 *)

WithinCredit == \A p \in Planes : InUse(p) <= Credit

\* Taking flits shortens a channel.
LEMMA LeftLength ==
  ASSUME Types, NEW taking, NEW new, Legal(taking, new), NEW p \in Planes
  PROVE  /\ Channels!Left(p, taking) \in Seq(Flits)
         /\ Len(Channels!Left(p, taking)) <= Len(chan[p])
         /\ Len(chan[p]) \in Nat
<1>1. queues[p] \in Seq(Flits) /\ Len(queues[p]) \in Nat
  BY LenProperties DEF Types
<1>2. /\ Kept(p, taking) \in Seq(Flits) /\ Len(Kept(p, taking)) \in Nat
      /\ Len(Kept(p, taking)) <= Len(queues[p])
  BY KeptType, LenProperties
<1>3. CASE buf # None /\ buf.rp = p
  <2>1. buf \in Flits
    BY <1>3 DEF Types
  <2>2. chan[p] = Append(queues[p], buf) /\ Len(chan[p]) = Len(queues[p]) + 1
    BY <1>1, <1>3, <2>1, AppendProperties DEF chan
  <2>3. Channels!Left(p, taking) = Append(Kept(p, taking), buf)
    BY <1>3, LeftOfChannel
  <2> QED BY <1>1, <1>2, <2>1, <2>2, <2>3, AppendProperties
<1>4. CASE ~(buf # None /\ buf.rp = p)
  BY <1>1, <1>2, <1>4, LeftOfChannel DEF chan
<1> QED BY <1>3, <1>4

\* A plane only starts a flit it has credit for, so no edge exceeds its credit.
LEMMA EdgeWithinCredit ==
  ASSUME Types, WithinCredit, NEW taking, NEW new, Legal(taking, new), Edge(taking, new)
  PROVE  WithinCredit'
<1> SUFFICES ASSUME NEW p \in Planes PROVE InUse(p)' <= Credit
  BY DEF WithinCredit, Planes
<1> DEFINE left == Channels!Left(p, taking)
           presented == IF offer[p] # None THEN 1 ELSE 0
           presents  == IF offer'[p] # None THEN 1 ELSE 0
<1>1. left \in Seq(Flits) /\ Len(left) \in Nat /\ Len(chan[p]) \in Nat
  BY LeftLength, LenProperties
<1>2. Len(left) <= Len(chan[p])
  BY LeftLength
<1>3. InUse(p) = Len(chan[p]) + presented /\ InUse(p)' = Len(chan'[p]) + presents
  BY DEF InUse
<1>4. InUse(p) <= Credit /\ Credit \in Nat
  BY SharedLinkAssumption DEF WithinCredit
<1>5. Len(chan'[p]) = Len(left) + (IF p \in Sent(taking) THEN 1 ELSE 0)
  <2>1. CASE p \in Sent(taking)
    <3>1. offer[p] \in Flits
      BY <2>1, SentIsOne DEF Types
    <3>2. chan'[p] = Append(left, offer[p])
      BY <2>1, ChannelMoves
    <3> HIDE DEF left
    <3>3. Len(Append(left, offer[p])) = Len(left) + 1
      BY <1>1, <3>1, AppendProperties
    <3> QED BY <2>1, <3>2, <3>3
  <2>2. CASE p \notin Sent(taking)
    BY <1>1, <2>2, ChannelMoves
  <2> QED BY <2>1, <2>2
<1>6. p \in Sent(taking) => offer[p] # None
  BY SentIsOne
<1>7. p \in DOMAIN new => (offer[p] = None \/ p \in Sent(taking)) /\ InUse(p) < Credit
  BY DEF Legal, Free
<1>8. p \notin DOMAIN new => presents = IF p \in Sent(taking) THEN 0 ELSE presented
  BY OfferMoves
<1>9. /\ presented \in {0, 1} /\ presents \in {0, 1}
      /\ offer[p] = None => presented = 0
      /\ offer[p] # None => presented = 1
  OBVIOUS
<1> DEFINE len == Len(left)  old == Len(chan[p])  aft == Len(chan'[p])
           use == InUse(p)  used == InUse(p)'
<1> HIDE DEF left, presented, presents, len, old, aft, use, used
<1>10. /\ len \in Nat /\ old \in Nat /\ len <= old
       /\ use = old + presented /\ used = aft + presents
       /\ use <= Credit /\ Credit \in Nat
       /\ aft = len + (IF p \in Sent(taking) THEN 1 ELSE 0)
  BY <1>1, <1>2, <1>3, <1>4, <1>5 DEF len, old, aft, use, used
<1>11. p \in DOMAIN new => use < Credit
  BY <1>7 DEF use
<1>12. used <= Credit
  BY <1>6, <1>7, <1>8, <1>9, <1>10, <1>11
<1> QED BY <1>12 DEF used

\* A plane never has more flits presented or under way than credit.
LEMMA CreditHolds == Spec => []WithinCredit
<1>1. Init => WithinCredit
  <2> SUFFICES ASSUME Init, NEW p \in Planes PROVE InUse(p) <= Credit
    BY DEF WithinCredit
  <2>1. chan[p] = <<>> /\ offer[p] = None
    BY DEF Init, chan, ROUTE!Init, ROUTE!Planes, Planes, LINK!Init
  <2>2. Len(chan[p]) = 0
    BY <2>1, EmptySeq
  <2> QED BY <2>1, <2>2, SharedLinkAssumption DEF InUse
<1>2. Types /\ WithinCredit /\ Next => WithinCredit'
  BY NextIsEdge, EdgeWithinCredit
<1>3. WithinCredit /\ UNCHANGED vars => WithinCredit'
  BY DEF WithinCredit, vars, InUse, chan, Planes
<1> QED BY <1>1, <1>2, <1>3, TypesHold, PTL DEF Spec

\* Whatever the number of planes: if a receive queue holds all a plane has credit
\* for, the link never stalls, even if no bridge ever takes a flit.
THEOREM NoPlaneStallsTheLink ==
  ASSUME Credit <= RX_D
  PROVE  Spec => []LinkNeverStalls
<1>1. Types /\ WithinCredit => LinkNeverStalls
  <2> SUFFICES ASSUME Types, WithinCredit, NEW p \in Planes, buf # None, buf.rp = p
               PROVE  Len(queues[p]) < RX_D
    BY DEF LinkNeverStalls, ROUTE!in_ready, ROUTE!hit, ROUTE!InReady, ROUTE!Planes, Planes
  <2>1. queues[p] \in Seq(Flits) /\ Len(queues[p]) \in Nat /\ buf \in Flits
    BY LenProperties DEF Types
  <2>2. Len(chan[p]) = Len(queues[p]) + 1
    BY <2>1, AppendProperties DEF chan
  <2>3. InUse(p) <= Credit
    BY DEF WithinCredit
  <2> DEFINE n == Len(queues[p])
             presented == IF offer[p] # None THEN 1 ELSE 0
  <2>4. n \in Nat /\ presented \in {0, 1} /\ n + 1 + presented <= Credit
    BY <2>1, <2>2, <2>3 DEF InUse
  <2>5. Credit \in Nat /\ RX_D \in Nat
    BY SharedLinkAssumption
  <2> HIDE DEF n, presented
  <2>6. n < RX_D
    BY <2>4, <2>5
  <2> QED BY <2>6 DEF n
<1> QED BY <1>1, TypesHold, CreditHolds, PTL

-----------------------------------------------------------------------------
(* Turns.                                                                  *)

\* Behind a stall a plane waits for the locked one, and from there for its turn:
\* the grants it has waited for and those it may still have to wait for are
\* fewer than the planes.
TurnsLeft ==
  \A p \in Planes :
    /\ waited[p] \in Nat
    /\ offer[p] = None => waited[p] = 0
    /\ offer[p] # None =>
         IF locked \in {None, p} \/ ARB!Turn(p) > ARB!Turn(locked)
         THEN waited[p] + ARB!Turn(p) < NUM_RP
         ELSE waited[p] = 0

\* Every plane has one of NUM_RP turns (idx in aou_rp_arb).
LEMMA TurnRange ==
  ASSUME Types, NEW p \in Planes
  PROVE  ARB!Turn(p) \in 0 .. NUM_RP - 1
BY SharedLinkAssumption DEF Types, ARB!Turn, Planes

\* The same after an edge.
LEMMA TurnRangeNext ==
  ASSUME NEW s \in Planes, last' = s, NEW p \in Planes
  PROVE  ARB!Turn(p)' \in 0 .. NUM_RP - 1
BY SharedLinkAssumption DEF ARB!Turn, Planes

\* A grant to s brings a plane behind s forward by more than the turns of s.
LEMMA TurnMoves ==
  ASSUME Types, NEW s \in Planes, last' = s, NEW p \in Planes, p # s
  PROVE  /\ ARB!Turn(p)' <= NUM_RP - 2
         /\ ARB!Turn(p) > ARB!Turn(s) => ARB!Turn(p)' = ARB!Turn(p) - ARB!Turn(s) - 1
         /\ ARB!Turn(p) # ARB!Turn(s)
BY SharedLinkAssumption DEF Types, ARB!Turn, Planes

\* TurnsLeft is inductive: a grant to another plane costs p at least one turn.
LEMMA EdgeTurns ==
  ASSUME Types, TurnsLeft, NEW taking, NEW new, Legal(taking, new), Edge(taking, new)
  PROVE  TurnsLeft'
<1> DEFINE linkReady == LINK!InReady(ROUTE!in_ready(buf, taking))
           s == ARB!sel(offer)
<1>1. ARB!Clock(offer, linkReady)
  BY DEF Edge
<1>2. \A p \in Planes : /\ ARB!Turn(p) \in 0 .. NUM_RP - 1
                       /\ ARB!Turn(p)' \in 0 .. NUM_RP - 1
  <2>1. last' \in Planes
    <3>1. Types'
      BY EdgeTypes
    <3> QED BY <3>1 DEF Types, Planes
  <2> QED BY <2>1, TurnRange, TurnRangeNext
<1> SUFFICES ASSUME NEW p \in Planes
             PROVE  /\ waited'[p] \in Nat
                    /\ offer'[p] = None => waited'[p] = 0
                    /\ offer'[p] # None =>
                         IF locked' \in {None, p} \/ ARB!Turn(p)' > ARB!Turn(locked)'
                         THEN waited'[p] + ARB!Turn(p)' < NUM_RP
                         ELSE waited'[p] = 0
  BY DEF TurnsLeft, Planes
<1>3. NUM_RP \in Nat \ {0}
  BY SharedLinkAssumption
<1>4. waited'[p] = IF offer[p] = None \/ p \in Sent(taking) THEN 0
                   ELSE IF waited[p] < NUM_RP THEN waited[p] + Cardinality(Sent(taking))
                   ELSE NUM_RP
  BY DEF Edge
\* A plane that was not presenting, or whose flit was taken, starts from nothing.
<1>5. CASE offer[p] = None \/ p \in Sent(taking)
  BY <1>2, <1>3, <1>4, <1>5
\* Any other plane still presents its flit.
<1>6. CASE offer[p] # None /\ p \notin Sent(taking)
  <2>1. offer'[p] # None
    <3>1. p \notin DOMAIN new
      BY <1>6 DEF Legal, Free
    <3> QED BY <1>6, <3>1, OfferMoves
  <2>2. /\ waited[p] \in Nat /\ waited[p] < NUM_RP
        /\ IF locked \in {None, p} \/ ARB!Turn(p) > ARB!Turn(locked)
           THEN waited[p] + ARB!Turn(p) < NUM_RP
           ELSE waited[p] = 0
    BY <1>2, <1>3, <1>6 DEF TurnsLeft
  <2>3. waited'[p] = waited[p] + Cardinality(Sent(taking))
    BY <1>4, <1>6, <2>2
  <2>4. CASE ARB!out(offer) = None
    <3>1. Sent(taking) = {}
      BY <2>4 DEF Sent, ARB!in_ready, ARB!grant
    <3>2. waited'[p] = waited[p]
      BY <2>2, <2>3, <3>1, FS_EmptySet
    <3>3. locked' = None /\ last' = last
      BY <1>1, <2>4 DEF ARB!Clock, ARB!Grant, ARB!Stall, ARB!Idle
    <3>4. ARB!Turn(p)' = ARB!Turn(p)
      BY <3>3 DEF ARB!Turn
    <3> QED BY <1>2, <1>3, <2>1, <2>2, <3>2, <3>3, <3>4
  \* The plane chosen, s, is another one: it is the locked one, or its turn is
  \* earlier.
  <2>5. CASE ARB!out(offer) # None
    <3>1. s \in Planes /\ offer[s] # None /\ ARB!out(offer) = offer[s]
      BY <2>5 DEF Types, ARB!out, ARB!sel, ARB!rr_sel, ARB!Hit, ARB!Presenting,
                  ARB!Planes, Planes
    <3>2. locked # None => s = locked
      BY DEF ARB!sel
    <3>3. locked = None => ARB!Turn(s) <= ARB!Turn(p)
      <4>1. ASSUME locked = None PROVE s \in ARB!Hit(offer)
        BY <3>1, <4>1, SharedLinkAssumption DEF ARB!sel, ARB!rr_sel
      <4> QED BY <1>6, <4>1 DEF ARB!Hit, ARB!Presenting, ARB!Planes, Planes
    <3>4. CASE linkReady
      <4>1. last' = s /\ locked' = None
        BY <1>1, <2>5, <3>4 DEF ARB!Clock, ARB!Grant, ARB!Stall, ARB!Idle
      <4>2. Sent(taking) = {s} /\ p # s
        BY <1>6, <2>5, <3>4 DEF Sent, ARB!in_ready, ARB!grant
      <4>3. waited'[p] = waited[p] + 1
        BY <2>3, <4>2, FS_Singleton
      <4>4. /\ ARB!Turn(p)' <= NUM_RP - 2
            /\ ARB!Turn(p) > ARB!Turn(s) => ARB!Turn(p)' = ARB!Turn(p) - ARB!Turn(s) - 1
            /\ ARB!Turn(p) # ARB!Turn(s)
        BY <3>1, <4>1, <4>2, TurnMoves
      <4>5. waited'[p] + ARB!Turn(p)' < NUM_RP
        BY <1>2, <1>3, <2>2, <3>1, <3>2, <3>3, <4>2, <4>3, <4>4
      <4> QED BY <2>1, <2>2, <4>1, <4>3, <4>5
    <3>5. CASE ~linkReady
      <4>1. last' = last /\ locked' = s
        BY <1>1, <2>5, <3>5 DEF ARB!Clock, ARB!Grant, ARB!Stall, ARB!Idle
      <4>2. Sent(taking) = {}
        BY <3>5 DEF Sent, ARB!in_ready
      <4>3. waited'[p] = waited[p]
        BY <2>2, <2>3, <4>2, FS_EmptySet
      <4>4. ARB!Turn(p)' = ARB!Turn(p) /\ ARB!Turn(locked)' = ARB!Turn(s)
        BY <4>1 DEF ARB!Turn
      <4>5. p # s => ARB!Turn(p) # ARB!Turn(s)
        BY <3>1, SharedLinkAssumption DEF Types, ARB!Turn, Planes
      <4> QED BY <1>2, <1>3, <2>1, <2>2, <3>1, <3>2, <3>3, <4>1, <4>3, <4>4, <4>5
    <3> QED BY <3>4, <3>5
  <2> QED BY <2>4, <2>5
<1> QED BY <1>5, <1>6

\* For every number of planes: a plane that presents a flit is granted the link
\* within NUM_RP grants, whichever planes come and go and however long the link
\* stalls (the comment at the rotation in aou_rp_mux.sv).
THEOREM GrantsInTurn == Spec => []GrantedInTurn
<1>1. Init => TurnsLeft
  <2> SUFFICES ASSUME Init, NEW p \in Planes
               PROVE  waited[p] = 0 /\ offer[p] = None
    BY DEF TurnsLeft
  <2> QED BY DEF Init
<1>2. Types /\ TurnsLeft /\ Next => TurnsLeft'
  BY NextIsEdge, EdgeTurns
<1>3. TurnsLeft /\ UNCHANGED vars => TurnsLeft'
  BY DEF TurnsLeft, vars, ARB!Turn, Planes
<1>4. Types /\ TurnsLeft => GrantedInTurn
  <2> SUFFICES ASSUME Types, TurnsLeft, NEW p \in Planes PROVE waited[p] < NUM_RP
    BY DEF GrantedInTurn
  <2>1. ARB!Turn(p) \in 0 .. NUM_RP - 1 /\ NUM_RP \in Nat \ {0}
    BY TurnRange, SharedLinkAssumption
  <2> QED BY <2>1 DEF TurnsLeft
<1> QED BY <1>1, <1>2, <1>3, <1>4, TypesHold, PTL DEF Spec
=============================================================================
