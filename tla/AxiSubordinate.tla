---------------------------- MODULE AxiSubordinate ----------------------------
(***************************************************************************)
(* What the bench has at the other end of its five AXI channels: the chain *)
(* of rtl/axi_ucie_mem_top.sv as AxiUcieMemChain shows it, an in-order     *)
(* memory behind a request queue.  Ready and valid come and go as the      *)
(* chain likes, within AXI's rules; a read answers no earlier than the     *)
(* second edge after its AR, and no request is accepted beyond the queue   *)
(* (the bench never offers AW and AR at once, so that the chain holds AR   *)
(* back for AW does not show).                                             *)
(*                                                                         *)
(*   q      accepted requests, oldest first, with the W beats taken (w)    *)
(*          and the R beats delivered (sent)                               *)
(*   mem    the words written, by byte address                             *)
(*   awrdy, wrdy, arrdy   the ready outputs;  bvalid, rvalid the valid ones*)
(***************************************************************************)
EXTENDS AxiSeqItem, AxiBeatAddress, SequencesExt

CONSTANT REQ_QD

VARIABLE sub

Beat(r, k) == BeatAddr([addr |-> r.addr, len |-> r.len, size |-> SIZE_4B, burst |-> r.burst], k)

Word(mem, a) == IF a \in DOMAIN mem THEN mem[a] ELSE 0

\* At time 0, and after reset.
SubReset ==
  [q |-> <<>>, mem |-> <<>>, awrdy |-> FALSE, wrdy |-> FALSE, arrdy |-> FALSE,
   bvalid |-> FALSE, rvalid |-> FALSE]

\* The beat on R: the next one of the oldest request.
RData == Word(sub.mem, Beat(Head(sub.q), Head(sub.q).sent))

Filling(q) == {i \in DOMAIN q : q[i].kind = "W" /\ Len(q[i].w) <= q[i].len}

\* The beats of the write r that go to address a.
BeatsTo(r, a) == {k \in DOMAIN r.w : Beat(r, k - 1) = a}

\* The memory once the write r is committed, its beats in order: of those to one
\* address the last stays.
Committed(mem, r) ==
  [a \in DOMAIN mem \cup {Beat(r, k - 1) : k \in DOMAIN r.w} |->
     IF BeatsTo(r, a) = {} THEN mem[a] ELSE r.w[Max(BeatsTo(r, a))]]

\* One rising edge.  aw, w, ar are what is handshaken, each a sequence of at most
\* one element, b and r whether the response is; may is what a ready or a valid
\* the chain is free to give can be.
SubEdge(aw, w, ar, b, r, may) ==
  LET new(x) == [i \in DOMAIN x |-> [kind |-> x[i].kind, addr |-> x[i].addr, len |-> x[i].len,
                                     burst |-> x[i].burst, w |-> <<>>, sent |-> 0]]
      filled == [i \in DOMAIN sub.q |->
                   IF i \in Filling(sub.q) THEN [sub.q[i] EXCEPT !.w = @ \o w] ELSE sub.q[i]]
      sent   == IF r THEN [filled EXCEPT ![1].sent = @ + 1] ELSE filled
      gone   == b \/ (r /\ sent[1].sent > sent[1].len)
      old    == IF gone THEN Tail(sent) ELSE sent
      q      == old \o new(aw) \o new(ar)
      given(free) == IF free THEN may ELSE {FALSE}
  IN  \E awrdy \in given(Len(q) <= REQ_QD), arrdy \in given(Len(q) <= REQ_QD),
         wrdy \in given(Filling(q) # {}),
         bvalid \in IF sub.bvalid /\ ~b THEN {TRUE}
                    ELSE given(old # <<>> /\ old[1].kind = "W" /\ Filling(old) = {}),
         rvalid \in IF sub.rvalid /\ ~r THEN {TRUE}
                    ELSE given(old # <<>> /\ old[1].kind = "R") :
        sub' = [q |-> q,
                mem |-> IF b THEN Committed(sub.mem, Head(sub.q)) ELSE sub.mem,
                awrdy |-> awrdy, arrdy |-> arrdy, wrdy |-> wrdy,
                bvalid |-> bvalid, rvalid |-> rvalid]
===============================================================================
