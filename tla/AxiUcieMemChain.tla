---------------------------- MODULE AxiUcieMemChain ----------------------------
(***************************************************************************)
(* The single-plane chain of rtl/axi_ucie_mem_top.sv (NUM_RP = 1,          *)
(* OOO_EN = 0): the initiator bridge, the two links, the target bridge and *)
(* the memory, each bridge behind its activation block, with an AXI        *)
(* manager at the front.  One step is one edge of ACLK everywhere.         *)
(*                                                                         *)
(*   Requests   the requests the manager may make                          *)
(*   Partial    the beats of a burst that may come without strobes         *)
(*   MaxIssued  how many requests it makes                                 *)
(*   DataCode   the Table-17 code granted for data messages: 7, that is    *)
(*              128 granules or 16 beats, in the shipped build             *)
(***************************************************************************)
EXTENDS Naturals, Sequences

CONSTANTS None, Requests, Partial, MaxIssued, REQ_QD, WORDS, DataCode

VARIABLES
  q, e_state, e_req, e_beat,                             \* request front end
  iState, iReq, iWbeat, iB, iCr, iRet,                   \* initiator datapath
  iAct, iSent, iRcvd, iPend, tAct, tSent, tRcvd, tPend,  \* activation blocks
  a2b, b2a,                                              \* links
  tState, tReq, tAddr, tBeat, tWbeat, tAwDone, tWDone,
  tBresp, tRbeat, tArDone, tCr, tRet,                    \* target bridge
  mem, aw_taken, w_taken, awaddr_q, wbeat_q, BVALID, RVALID, RDATA,  \* memory
  todo, rbeats, shadow, issued, stamp                    \* AXI manager

feVars  == <<q, e_state, e_req, e_beat>>
iniVars == <<iState, iReq, iWbeat, iB, iCr, iRet>>
actVars == <<iAct, iSent, iRcvd, iPend, tAct, tSent, tRcvd, tPend, a2b, b2a>>
tgtVars == <<tState, tReq, tAddr, tBeat, tWbeat, tAwDone, tWDone, tBresp,
             tRbeat, tArDone, tCr, tRet>>
memVars == <<mem, aw_taken, w_taken, awaddr_q, wbeat_q, BVALID, RVALID, RDATA>>
axiVars == <<todo, rbeats, shadow, issued, stamp>>
vars    == <<feVars, iniVars, actVars, tgtVars, memVars, axiVars>>

C == INSTANCE AouCredits

\* The data credit ceiling in granules (CR_WDATA, CR_RDATA), and in beats.
DataCredits == C!cred_decode(DataCode)
MaxBeats    == DataCredits \div C!WRITEDATA_GRAN

ASSUME AxiUcieMemChainAssumption ==
  /\ DataCode \in 3 .. 7
  /\ {REQ_QD, WORDS} \subseteq Nat \ {0} /\ MaxIssued \in Nat
  /\ Partial \subseteq Nat

FE  == INSTANCE RequestFrontEnd WITH MAX_WBEATS <- MaxBeats, MAX_RBEATS <- MaxBeats
INI == INSTANCE InOrderInitiator WITH
         CR_WREQ <- C!WRITEREQ_GRAN, CR_RREQ <- C!READREQ_GRAN,
         CR_WDATA <- DataCredits, state <- iState, req <- iReq,
         wbeat <- iWbeat, b_q <- iB, cr <- iCr, ret <- iRet
IA  == INSTANCE AouActivation WITH
         state <- iAct, sent <- iSent, rcvd <- iRcvd, deact_pending <- iPend
TA  == INSTANCE AouActivation WITH
         state <- tAct, sent <- tSent, rcvd <- tRcvd, deact_pending <- tPend
A2B == INSTANCE UcieStreamLink WITH buf <- a2b
B2A == INSTANCE UcieStreamLink WITH buf <- b2a
TGT == INSTANCE AouTarget WITH
         CR_RDATA <- DataCredits, LCR_WRESP <- C!WRITERESP_GRAN,
         state <- tState, req <- tReq, addr_q <- tAddr, beat_q <- tBeat,
         wbeat <- tWbeat, aw_done <- tAwDone, w_done <- tWDone,
         bresp_q <- tBresp, rbeat <- tRbeat, ar_done <- tArDone,
         cr <- tCr, ret <- tRet
MEM == INSTANCE AxiLiteMem
AXI == INSTANCE AxiMaster

\* What travels: requests, flits and beats.
Request   == [wr : BOOLEAN, id : Nat, addr : Nat, len : 0 .. 255, size : 0 .. 2,
              burst : {"FIXED", "INCR", "WRAP"}]
MsgCredit == [wreq : 0 .. 7, rreq : 0 .. 7, wdata : 0 .. 7, rdata : 0 .. 7, wresp : 0 .. 7]
ReqFlit   == [mt : {"wreq", "rreq"}, req : Request, mc : MsgCredit]
WDataFlit == [mt : {"wdata"}, data : Nat, strb : BOOLEAN, mc : MsgCredit]
WRespFlit == [mt : {"wresp"}, id : Nat, resp : {"OKAY"}, mc : MsgCredit]
RDataFlit == [mt : {"rdata"}, id : Nat, resp : {"OKAY"}, data : Nat, last : BOOLEAN,
              mc : MsgCredit]
ActFlit   == [mt : IA!Misc, mc : MsgCredit]
Flit      == ReqFlit \cup WDataFlit \cup WRespFlit \cup RDataFlit \cup ActFlit
WBeat     == [data : Nat, strb : BOOLEAN, last : BOOLEAN]
LiteWBeat == [data : Nat, strb : BOOLEAN]
LiteRBeat == [data : Nat, resp : {"OKAY"}]
BResp     == [id : Nat, resp : {"OKAY", "SLVERR"}]
RResp     == [id : Nat, resp : {"OKAY", "SLVERR"}, data : Nat, last : BOOLEAN]

\* The requests AXI allows: a WRAP burst has 2, 4, 8 or 16 beats and starts at a
\* multiple of its beat size.
ASSUME RequestsAssumption ==
  /\ Requests \subseteq Request
  /\ \A r \in Requests :
       r.burst = "WRAP" => r.len + 1 \in {2, 4, 8, 16} /\ r.addr % 2 ^ r.size = 0

\* Absence is none of the things that can be present.
ASSUME NoneIsNothing ==
  None \notin Request \cup Flit \cup IA!Flits \cup MsgCredit
                      \cup WBeat \cup LiteWBeat \cup LiteRBeat
                      \cup BResp \cup RResp \cup Nat \cup {"OKAY"}

Init == /\ FE!Init /\ INI!Init /\ IA!Init /\ TA!Init /\ A2B!Init /\ B2A!Init
        /\ TGT!Init /\ MEM!Init /\ AXI!Init

-----------------------------------------------------------------------------
(* Wiring.                                                                 *)

\* What an activation block tells apart in a flit.
Kind(flit) ==
  IF flit = None THEN None ELSE IF flit.mt \in IA!Misc THEN flit.mt ELSE "data"

\* The Misc message m as a flit; its CrdtGrant carries the end's grants.
MiscFlit(m, grants) == IF m = None THEN None ELSE [mt |-> m, mc |-> grants]

\* GR_RDATA, GR_WRESP of the initiator; GR_WREQ, GR_RREQ, GR_WDATA of the target.
IniGrants == C!mk_msgcredit(0, 0, 0, DataCode, 1)
TgtGrants == C!mk_msgcredit(2, 2, DataCode, 0, 0)

\* The links' inputs, the flits the data paths see, and the seeds.
iTx == IF IA!enabled THEN INI!dtx ELSE MiscFlit(IA!act_tx, IniGrants)
tTx == IF TA!enabled THEN TGT!rsp ELSE MiscFlit(TA!act_tx, TgtGrants)
iRx == IF IA!enabled THEN b2a ELSE None
tRx == IF TA!enabled THEN a2b ELSE None
iSeed == IF IA!seed_valid(Kind(b2a)) THEN b2a.mc ELSE None
tSeed == IF TA!seed_valid(Kind(a2b)) THEN a2b.mc ELSE None

\* The AXI outputs of the initiator bridge: the error responder's while it is
\* active, the datapath's otherwise.
s_wready == FE!e_w \/ INI!i_wready
s_b == IF FE!e_b THEN FE!e_bresp ELSE IF INI!i_bvalid THEN iB ELSE None
s_r == IF FE!e_r THEN FE!e_rresp
       ELSE IF INI!i_rvalid(iRx) THEN INI!i_rresp(iRx) ELSE None

\* One clock edge, given the request accepted from the manager, the W beat it
\* presents and whether it takes B and R.
Edge(acc, w, bRdy, rRdy) ==
  LET qHead  == IF FE!q_empty THEN None ELSE Head(q)
      iRxRdy == IA!rx_ready(INI!drx_ready(rRdy))
      tRxRdy == TA!rx_ready(TGT!drx_ready)
      iTxRdy == A2B!InReady(tRxRdy)
      tTxRdy == B2A!InReady(iRxRdy)
  IN  /\ FE!Clock(acc, None, IA!enabled, INI!do_pop(qHead), INI!br_idle,
                  w # None /\ w.last, bRdy, rRdy)
      /\ INI!Clock(qHead, w, iRx, IA!d_tx_ready(iTxRdy), iSeed,
                   iAct = "DISABLED", bRdy, rRdy)
      /\ IA!Clock(Kind(b2a), iTxRdy, FALSE, TRUE, FALSE)
      /\ TA!Clock(Kind(a2b), tTxRdy, FALSE, TRUE, FALSE)
      /\ A2B!Clock(iTx, tRxRdy)
      /\ B2A!Clock(tTx, iRxRdy)
      /\ TGT!Clock(tRx, TA!d_tx_ready(tTxRdy), tSeed, tAct = "DISABLED",
                   MEM!AWREADY, MEM!WREADY, MEM!ARREADY,
                   IF BVALID /\ TGT!m_bready THEN "OKAY" ELSE None,
                   IF RVALID /\ TGT!m_rready THEN [data |-> RDATA, resp |-> "OKAY"]
                                             ELSE None)
      /\ MEM!Clock(TGT!m_aw, TGT!m_w, TGT!m_bready, TGT!m_ar, TGT!m_rready)
      /\ AXI!Clock(acc, w, IF bRdy THEN s_b ELSE None, IF rRdy THEN s_r ELSE None)

\* The manager's choices.  A request or a beat that is presented and not taken
\* in a cycle leaves no trace, so only those taken are enumerated.
Offers == IF FE!s_awready(IA!enabled) /\ issued < MaxIssued
          THEN Requests \cup {None} ELSE {None}
Beats  == IF s_wready THEN AXI!Beats(Partial) ELSE {}
Takes(resp) == IF resp = None THEN {FALSE} ELSE BOOLEAN

Next ==
  \E acc \in Offers, w \in Beats \cup {None}, bRdy \in Takes(s_b), rRdy \in Takes(s_r) :
    Edge(acc, w, bRdy, rRdy)

Spec == Init /\ [][Next]_vars

(***************************************************************************)
(* Fairness: the clock runs, and a manager takes the responses and presents*)
(* the W beats it owes again and again, whether or not it makes requests.  *)
(***************************************************************************)
Willing ==
  \E acc \in Offers, w \in (IF Beats = {} THEN {None} ELSE Beats) :
    Edge(acc, w, s_b # None, s_r # None)

FairSpec == Spec /\ WF_vars(Willing)

-----------------------------------------------------------------------------
(* Properties.                                                             *)

\* Every B and R beat offered to the manager is the right one: for the oldest
\* unanswered request, with its ID, the right RESP and LAST, and as data what
\* the writes answered before it left in the memory (README, AXI profile).
ResponsesRight ==
  /\ s_b # None => AXI!GoodB(s_b)
  /\ s_r # None => AXI!GoodR(s_r)

\* The two FSMs stay in step over the link: the target only ever finds a request
\* where it reads one (everything that is not a WriteReq is taken for a ReadReq)
\* and write data where it reads write data; the initiator only ever finds the
\* response its state waits for.
FlitsExpected ==
  /\ tRx # None =>
       CASE tState = "S_IDLE"  -> tRx.mt \in {"wreq", "rreq"}
         [] tState = "S_WBEAT" -> tRx.mt = "wdata"
         [] OTHER              -> FALSE
  /\ iRx # None =>
       CASE iState = "S_WWAIT" -> iRx.mt = "wresp"
         [] iState = "S_RDATA" -> iRx.mt = "rdata"
         [] OTHER              -> FALSE

InFlight(link, mt) == IF link # None /\ link.mt = mt THEN 1 ELSE 0

\* A sender never holds, or has on the link, more credit than its receiver
\* granted: coarse return codes over-grant, the ceiling absorbs it.
CreditsWithinGrant ==
  /\ iCr.wreq + C!WRITEREQ_GRAN * InFlight(a2b, "wreq") <= C!WRITEREQ_GRAN
  /\ iCr.rreq + C!READREQ_GRAN * InFlight(a2b, "rreq") <= C!READREQ_GRAN
  /\ iCr.wdata + C!WRITEDATA_GRAN * InFlight(a2b, "wdata") <= DataCredits
  /\ tCr.wresp + C!WRITERESP_GRAN * InFlight(b2a, "wresp") <= C!WRITERESP_GRAN
  /\ tCr.rdata + C!READDATA_GRAN * InFlight(b2a, "rdata") <= DataCredits

Quiet == /\ IA!enabled /\ TA!enabled /\ todo = <<>>
         /\ a2b = None /\ b2a = None

\* No credit leaks: with nothing outstanding the initiator holds every credit it
\* was granted, and the target's are held or owed to it.
CreditsComeHome ==
  Quiet =>
    /\ iCr = [wreq |-> C!WRITEREQ_GRAN, rreq |-> C!READREQ_GRAN, wdata |-> DataCredits]
    /\ tCr.rdata + iRet.rdata >= DataCredits
    /\ tCr.wresp + iRet.wresp >= C!WRITERESP_GRAN

\* With nothing outstanding the memory is what the answered writes made it.
MemoryMatches == Quiet => mem = shadow

\* Every accepted request is answered in full.
EveryRequestAnswered == todo # <<>> ~> todo = <<>>
=============================================================================
