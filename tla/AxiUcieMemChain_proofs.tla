-------------------------- MODULE AxiUcieMemChain_proofs --------------------------
(***************************************************************************)
(* The single-plane chain keeps its two FSMs in step, loses no credit, and *)
(* gives the manager the right responses: for every set of requests AXI    *)
(* allows, every grant code of at least one beat, every queue depth and    *)
(* every memory size.                                                      *)
(*                                                                         *)
(* Inv is the inductive invariant.  Until both ends are ENABLED they are   *)
(* in the same stage of the bring-up (Booting), since no link is ever      *)
(* stalled.  From then on (Running) at most one burst is past the queue,   *)
(* and Phase says where it is and, for every phase, what each end holds of *)
(* the credits and what it owes: the request on its link, beats that are    *)
(* counted from the manager to the memory, the response.  What makes       *)
(* the credits close is that a return code is worth at least what it was   *)
(* encoded from and that the receiver of a return stops at its ceiling.    *)
(* Books and Turns tie the burst to the requests the manager still awaits. *)
(*                                                                         *)
(* Data, in the second half, is inductive together with Inv: where the     *)
(* target bridge is in its burst (Walk), how far the memory is with the    *)
(* beat at hand (Store, Load), which beats are on their way (WBeats,       *)
(* RBeats), and that the memory is the manager's, or, while a write is     *)
(* being stored, the manager's with the beats so far (Contents).  The      *)
(* counts of beats in Inv turn positions into indices.                     *)
(***************************************************************************)
EXTENDS AxiUcieMemChain, SequenceTheorems, FiniteSetTheorems, TLAPS

D == DataCredits

One(b) == IF b THEN 1 ELSE 0

-----------------------------------------------------------------------------
(* The inductive invariant: what the registers can hold ...                *)

Todo == [wr : BOOLEAN, id : Nat, addr : Nat, len : 0 .. 255, size : 0 .. 2,
         burst : {"FIXED", "INCR", "WRAP"}, w : Seq(LiteWBeat)]

Types ==
  /\ q \in Seq(Requests) /\ \A i \in DOMAIN q : ~FE!Long(q[i])
  /\ e_state \in {"E_IDLE", "E_WAIT", "E_WDRAIN", "E_B", "E_R"}
  /\ e_state # "E_IDLE" => e_req \in Requests /\ FE!Long(e_req)
  /\ e_beat \in Nat
  /\ iState # "S_IDLE" => iReq \in Requests /\ ~FE!Long(iReq)
  /\ iWbeat \in WBeat \cup {None}
  /\ a2b \in Flit \cup {None} /\ b2a \in Flit \cup {None}
  /\ tState # "S_IDLE" => tReq \in Requests
  /\ tAddr \in Nat /\ tBeat \in Nat
  /\ tWbeat \in LiteWBeat \cup {None} /\ tRbeat \in LiteRBeat \cup {None}
  /\ tBresp = "OKAY"
  /\ mem \in [0 .. WORDS - 1 -> Nat] /\ awaddr_q \in 0 .. WORDS - 1
  /\ wbeat_q \in LiteWBeat /\ RDATA \in Nat
  /\ BVALID \in BOOLEAN /\ RVALID \in BOOLEAN /\ aw_taken \in BOOLEAN /\ w_taken \in BOOLEAN
  /\ tAwDone \in BOOLEAN /\ tWDone \in BOOLEAN /\ tArDone \in BOOLEAN
  /\ todo \in Seq(Todo) /\ rbeats \in Nat /\ stamp \in Nat
  /\ iPend = FALSE /\ tPend = FALSE

-----------------------------------------------------------------------------
(* ... the bring-up, which both ends go through in step ...                *)

Resting ==
  /\ q = <<>> /\ e_state = "E_IDLE"
  /\ iState = "S_IDLE" /\ iWbeat = None /\ iRet = INI!NoReturn
  /\ tState = "S_IDLE" /\ tRet = TGT!NoReturn
  /\ todo = <<>> /\ rbeats = 0

Stage(st, S, R, m) ==
  /\ iAct = st /\ tAct = st /\ iSent = S /\ tSent = S /\ iRcvd = R /\ tRcvd = R
  /\ a2b = MiscFlit(m, IniGrants) /\ b2a = MiscFlit(m, TgtGrants)

Boot1 == Stage("DISABLED", {}, {}, None)
Boot2 == Stage("ACTIVATE", {"areq"}, {}, "areq")
Boot3 == Stage("ACTIVATE", {"areq"}, {"areq"}, None)
Boot4 == Stage("ACTIVATE", {"areq", "aack"}, {"areq"}, "aack")
Boot5 == Stage("ACTIVATE", {"areq", "aack", "crdt"}, {"areq", "aack"}, "crdt")
Boot6 == Stage("ACTIVATE", {"areq", "aack", "crdt"}, {"areq", "aack", "crdt"}, None)

iFull == [wreq |-> 3, rreq |-> 3, wdata |-> D]
tFull == [rdata |-> D, wresp |-> 1]

Booting ==
  /\ Resting
  /\ \/ /\ iCr = INI!NoCredit /\ tCr = TGT!NoCredit
        /\ Boot1 \/ Boot2 \/ Boot3 \/ Boot4 \/ Boot5
     \/ iCr = iFull /\ tCr = tFull /\ Boot6

-----------------------------------------------------------------------------
(* ... the books: the manager's unanswered requests are the one in the     *)
(* datapath, the queue's, and the over-long one of the error responder ... *)

Same(t, r) == /\ t.wr = r.wr /\ t.id = r.id /\ t.addr = r.addr
              /\ t.len = r.len /\ t.size = r.size /\ t.burst = r.burst

nCur == IF iState = "S_IDLE" THEN 0 ELSE 1
nErr == IF e_state = "E_IDLE" THEN 0 ELSE 1

\* W beats taken so far for the oldest request, and the beats it has.
taken == Len(todo[1].w)
beats == iReq.len + 1

Books ==
  /\ Len(todo) = nCur + Len(q) + nErr
  /\ iState # "S_IDLE" => Same(todo[1], iReq)
  /\ \A i \in 1 .. Len(q) : Same(todo[nCur + i], q[i])
  /\ e_state # "E_IDLE" => Same(todo[Len(todo)], e_req)
  /\ \A i \in 2 .. Len(todo) : todo[i].w = <<>>

\* Who may have taken W beats or delivered R beats, and how many.
Turns ==
  /\ e_state \in {"E_WDRAIN", "E_B", "E_R"} => q = <<>> /\ iState = "S_IDLE"
  /\ iState \in {"S_WREQ", "S_WDATA", "S_WWAIT", "S_B"} => iReq.wr
  /\ iState \in {"S_RREQ", "S_RDATA"} => ~iReq.wr
  /\ e_state \in {"E_WDRAIN", "E_B"} => e_req.wr
  /\ e_state = "E_R" => ~e_req.wr /\ rbeats = e_beat /\ e_beat <= e_req.len
  /\ e_state = "E_WDRAIN" => taken <= e_req.len
  /\ e_state = "E_B" => taken = e_req.len + 1
  /\ iState = "S_B" => taken = beats /\ iB = [id |-> iReq.id, resp |-> "OKAY"]
  /\ todo # <<>> /\ iState \notin {"S_WDATA", "S_WWAIT", "S_B"}
                 /\ e_state \notin {"E_WDRAIN", "E_B"} => todo[1].w = <<>>
  /\ iState # "S_RDATA" /\ e_state # "E_R" => rbeats = 0

-----------------------------------------------------------------------------
(* ... and where the current burst is, with the credits of every phase.    *)

Decoded(code) == C!cred_decode(code)

\* Between bursts nothing is on the way.
Home ==
  /\ iState \in {"S_IDLE", "S_WREQ", "S_RREQ", "S_B"} /\ tState = "S_IDLE"
  /\ a2b = None /\ b2a = None /\ iWbeat = None
  /\ iCr = iFull /\ tRet = TGT!NoReturn
  /\ \E r \in 0 .. D, p \in 0 .. 1 :
       tCr = [rdata |-> D - r, wresp |-> 1 - p] /\ iRet = [rdata |-> r, wresp |-> p]

\* The MsgCredit mc brings the target's credits back to the ceiling.
Repays(mc) ==
  \E r \in 0 .. D, p \in 0 .. 1 :
    /\ tCr = [rdata |-> D - r, wresp |-> 1 - p]
    /\ Decoded(mc.rdata) >= r /\ Decoded(mc.wresp) >= p

\* A request is on the link.
Requested(mt) ==
  /\ tState = "S_IDLE" /\ iWbeat = None
  /\ a2b # None /\ a2b.mt = mt /\ a2b.req = iReq /\ b2a = None
  /\ iRet = INI!NoReturn /\ tRet = TGT!NoReturn
  /\ Repays(a2b.mc)

WReqOut ==
  /\ iState = "S_WDATA" /\ Requested("wreq")
  /\ iCr = [wreq |-> 0, rreq |-> 3, wdata |-> D] /\ taken = 0

RReqOut ==
  /\ iState = "S_RDATA" /\ Requested("rreq")
  /\ iCr = [wreq |-> 3, rreq |-> 0, wdata |-> D] /\ rbeats = 0

\* A write burst under way: every beat taken is in the initiator's buffer, on
\* the link, in the target's buffer or done.
Writing ==
  /\ iState \in {"S_WDATA", "S_WWAIT"} /\ tState = "S_WBEAT" /\ tReq = iReq
  /\ b2a = None
  /\ a2b # None => a2b.mt = "wdata"
  /\ tBeat <= iReq.len
  /\ taken = tBeat + One(tWbeat # None) + One(a2b # None) + One(iWbeat # None)
  /\ taken <= beats
  /\ iWbeat # None => iState = "S_WDATA" /\ iWbeat.last = (taken = beats)
  /\ iState = "S_WDATA" /\ iWbeat = None => taken < beats
  /\ iState = "S_WWAIT" => taken = beats
  /\ iCr = [wreq |-> 0, rreq |-> 3, wdata |-> D - 8 * (taken - One(iWbeat # None))]
  /\ tRet = [wreq |-> 3, rreq |-> 0, wdata |-> 8 * (tBeat + One(tWbeat # None))]
  /\ tCr = tFull /\ iRet = INI!NoReturn

\* All beats written; the response is due, or on the link.
Written ==
  /\ iState = "S_WWAIT" /\ a2b = None /\ iWbeat = None /\ taken = beats
  /\ iCr = [wreq |-> 0, rreq |-> 3, wdata |-> D - 8 * beats]
  /\ iRet = INI!NoReturn

WriteDone ==
  /\ Written
  /\ tState = "S_WRESP" /\ tReq = iReq /\ b2a = None
  /\ tRet = [wreq |-> 3, rreq |-> 0, wdata |-> 8 * beats]
  /\ tCr = tFull

WRespOut ==
  /\ Written
  /\ tState = "S_IDLE" /\ tRet = TGT!NoReturn
  /\ b2a # None /\ b2a.mt = "wresp" /\ b2a.id = iReq.id
  /\ Decoded(b2a.mc.wreq) >= 3 /\ Decoded(b2a.mc.wdata) >= 8 * beats
  /\ tCr = [rdata |-> D, wresp |-> 0]

\* A read burst under way; its last beat may already be on the link.
Reading ==
  /\ iState = "S_RDATA" /\ a2b = None /\ iWbeat = None
  /\ rbeats <= iReq.len
  /\ tBeat = rbeats + One(b2a # None)
  /\ b2a # None =>
       /\ b2a.mt = "rdata" /\ b2a.id = iReq.id /\ b2a.last = (tBeat = beats)
       /\ Decoded(b2a.mc.rreq) >= 3
  /\ iCr = [wreq |-> 3, rreq |-> IF rbeats = 0 THEN 0 ELSE 3, wdata |-> D]
  /\ tCr = [rdata |-> D - 8 * tBeat, wresp |-> 1]
  /\ iRet = [rdata |-> 8 * rbeats, wresp |-> 0]
  /\ \/ /\ tState = "S_RBEAT" /\ tReq = iReq /\ tBeat <= iReq.len
        /\ tRet = [wreq |-> 0, rreq |-> 3, wdata |-> 0]
     \/ tState = "S_IDLE" /\ tBeat = beats /\ tRet = TGT!NoReturn

Connected == iAct = "ENABLED" /\ tAct = "ENABLED"

Phase == Home \/ WReqOut \/ Writing \/ WriteDone \/ WRespOut \/ RReqOut \/ Reading

Running == Connected /\ Books /\ Turns /\ Phase

Inv == Types /\ (Booting \/ Running)

-----------------------------------------------------------------------------
(* The Table-17 codes.                                                     *)

Worth == [c \in 0 .. 7 |->
             CASE c = 0 -> 0  [] c = 1 -> 1  [] c = 2 -> 4  [] c = 3 -> 8
               [] c = 4 -> 16 [] c = 5 -> 32 [] c = 6 -> 64 [] c = 7 -> 128]

\* The granules of every code of Table 17.
LEMMA Worths == /\ Worth[0] = 0 /\ Worth[1] = 1 /\ Worth[2] = 4 /\ Worth[3] = 8
                /\ Worth[4] = 16 /\ Worth[5] = 32 /\ Worth[6] = 64 /\ Worth[7] = 128
BY DEF Worth

\* Decoding is reading that table (cred_decode of aou_pkg.sv), whoever decodes.
LEMMA Decodes == /\ \A c : Decoded(c) = Worth[c]
                 /\ \A c : C!cred_decode(c) = Worth[c]
                 /\ \A c : INI!cred_decode(c) = Worth[c]
                 /\ \A c : TGT!cred_decode(c) = Worth[c]
BY DEF Decoded, C!cred_decode, INI!cred_decode, TGT!cred_decode, C!Bucket, INI!Bucket,
       TGT!Bucket, Worth

Least(n, m) == CHOOSE c \in 0 .. m : n <= Worth[c] /\ (c > 0 => Worth[c - 1] < n)

\* cred_encode_ge and cred_encode_ge2 round up: the code returns at least n.
LEMMA LeastCovers ==
  ASSUME NEW n \in Nat, NEW m \in {2, 6}, n <= Worth[m]
  PROVE  Least(n, m) \in 0 .. m /\ n <= Worth[Least(n, m)]
<1>1. \E c \in 0 .. m : n <= Worth[c] /\ (c > 0 => Worth[c - 1] < n)
  <2>1. CASE n = 0 BY <2>1, Worths
  <2>2. CASE n = 1 BY <2>2, Worths
  <2>3. CASE n \in 2 .. 4 BY <2>3, Worths
  <2>4. CASE n \in 5 .. 8 BY <2>4, Worths
  <2>5. CASE n \in 9 .. 16 BY <2>5, Worths
  <2>6. CASE n \in 17 .. 32 BY <2>6, Worths
  <2>7. CASE n \in 33 .. 64 BY <2>7, Worths
  <2> QED BY <2>1, <2>2, <2>3, <2>4, <2>5, <2>6, <2>7, Worths
<1> QED BY <1>1 DEF Least

\* A returned code is worth at least what is owed.
LEMMA Encodes ==
  /\ \A n \in 0 .. 128 : /\ INI!cred_encode_ge(n) \in 0 .. 7 /\ Worth[INI!cred_encode_ge(n)] >= n
                         /\ TGT!cred_encode_ge(n) \in 0 .. 7 /\ Worth[TGT!cred_encode_ge(n)] >= n
  /\ \A n \in 0 .. 8 : INI!cred_encode_ge2(n) \in 0 .. 7 /\ Worth[INI!cred_encode_ge2(n)] >= n
<1>1. \A n : /\ INI!cred_encode_ge(n) = IF n > 64 THEN 7 ELSE Least(n, 6)
             /\ TGT!cred_encode_ge(n) = IF n > 64 THEN 7 ELSE Least(n, 6)
             /\ INI!cred_encode_ge2(n) = IF n > 4 THEN 3 ELSE Least(n, 2)
  BY DEF INI!cred_encode_ge, TGT!cred_encode_ge, INI!cred_encode_ge2, INI!Bucket, TGT!Bucket,
         Least, Worth
<1>2. \A n \in 0 .. 64 : Least(n, 6) \in 0 .. 6 /\ n <= Worth[Least(n, 6)]
  BY LeastCovers, Worths
<1>3. \A n \in 0 .. 4 : Least(n, 2) \in 0 .. 2 /\ n <= Worth[Least(n, 2)]
  BY LeastCovers, Worths
<1>4. \A n \in 0 .. 128 : n > 64 \/ n \in 0 .. 64
  OBVIOUS
<1>5. \A n \in 0 .. 8 : n > 4 \/ n \in 0 .. 4
  OBVIOUS
<1>6. \A n \in 0 .. 128 : LET c == IF n > 64 THEN 7 ELSE Least(n, 6) IN c \in 0 .. 7 /\ Worth[c] >= n
  BY <1>2, <1>4, Worths
<1>7. \A n \in 0 .. 8 : LET c == IF n > 4 THEN 3 ELSE Least(n, 2) IN c \in 0 .. 7 /\ Worth[c] >= n
  BY <1>3, <1>5, Worths
<1> QED BY <1>1, <1>6, <1>7

\* The data ceiling is a Table-17 value, and what is not over-long fits in it.
LEMMA Ceiling == /\ D = Worth[DataCode]
                 /\ D \in {8, 16, 32, 64, 128}
                 /\ D \in Nat /\ 8 <= D /\ D <= 128
                 /\ \A r \in Request : FE!Long(r) <=> 8 * (r.len + 1) > D
<1>1. D = Worth[DataCode]
  BY Decodes DEF D, DataCredits
<1>2. D \in {8, 16, 32, 64, 128}
  BY <1>1, Worths, AxiUcieMemChainAssumption
<1>3. MaxBeats \in {1, 2, 4, 8, 16} /\ 8 * MaxBeats = D
  BY <1>2 DEF MaxBeats, D, C!WRITEDATA_GRAN
<1>4. \A r \in Request : FE!Long(r) <=> r.len + 1 > MaxBeats
  BY DEF FE!Long
<1> QED BY <1>1, <1>2, <1>3, <1>4 DEF Request

-----------------------------------------------------------------------------
(* What can be present is present.                                         *)

LEMMA Present ==
  /\ \A x \in Requests : x # None /\ x \in Request
  /\ \A x \in Flit : x # None
  /\ \A x \in MsgCredit : x # None
  /\ \A x \in WBeat : x # None
  /\ \A x \in LiteWBeat : x # None
  /\ \A x \in LiteRBeat : x # None
  /\ \A x \in BResp : x # None
  /\ \A x \in RResp : x # None
  /\ \A x \in Nat : x # None
  /\ "OKAY" # None /\ "data" # None
  /\ \A x \in IA!Misc : x # None
BY NoneIsNothing, RequestsAssumption DEF IA!Flits

\* The fields of an admissible request.
LEMMA RequestFields ==
  ASSUME NEW r \in Requests
  PROVE  /\ r.wr \in BOOLEAN /\ r.id \in Nat /\ r.addr \in Nat /\ r.len \in 0 .. 255
         /\ r.len \in Nat /\ r.size \in 0 .. 2 /\ r.burst \in {"FIXED", "INCR", "WRAP"}
<1>1. r \in Request
  BY Present
<1> QED BY <1>1 DEF Request

\* Every flit carries a credit return, of granules one can count.
LEMMA FlitCredits ==
  ASSUME NEW f \in Flit
  PROVE  /\ f.mc \in MsgCredit
         /\ Decoded(f.mc.wreq) \in Nat /\ Decoded(f.mc.rreq) \in Nat
         /\ Decoded(f.mc.wdata) \in Nat /\ Decoded(f.mc.rdata) \in Nat
         /\ Decoded(f.mc.wresp) \in Nat
<1>1. f.mc \in MsgCredit
  BY DEF Flit, ReqFlit, WDataFlit, WRespFlit, RDataFlit, ActFlit
<1>2. \A c \in 0 .. 7 : Worth[c] \in Nat
  BY Worths
<1> QED BY <1>1, <1>2, Decodes DEF MsgCredit

-----------------------------------------------------------------------------
(* One clock edge of a connected chain, block by block.                    *)

aGo == a2b = None \/ TGT!drx_ready
bGo(rRdy) == b2a = None \/ INI!drx_ready(rRdy)

\* Connected, with data messages only on the links and at most D granules owed.
Flowing ==
  /\ Connected
  /\ iState \in {"S_IDLE", "S_WREQ", "S_RREQ", "S_WDATA", "S_WWAIT", "S_B", "S_RDATA"}
  /\ tState \in {"S_IDLE", "S_WBEAT", "S_WRESP", "S_RBEAT"}
  /\ iRet \in [rdata : 0 .. 128, wresp : 0 .. 8]
  /\ tRet \in [wreq : 0 .. 128, rreq : 0 .. 128, wdata : 0 .. 128]
  /\ a2b # None => a2b.mt \in {"wreq", "rreq", "wdata"}
  /\ b2a # None => b2a.mt \in {"wresp", "rdata"}

\* What a bridge sends is a flit.
LEMMA IniFlits ==
  ASSUME Types, Flowing
  PROVE  /\ INI!return_credit \in MsgCredit
         /\ INI!dtx \in Flit \cup {None}
         /\ iState \in {"S_WREQ", "S_RREQ"} =>
              \A mt \in {"wreq", "rreq"} :
                [mt |-> mt, req |-> iReq, mc |-> INI!return_credit] \in Flit
<1>1. INI!return_credit \in MsgCredit
  BY Encodes DEF Flowing, INI!return_credit, INI!mk_msgcredit, MsgCredit
<1>2. iState \in {"S_WREQ", "S_RREQ"} =>
              \A mt \in {"wreq", "rreq"} :
                [mt |-> mt, req |-> iReq, mc |-> INI!return_credit] \in Flit
  BY <1>1, Present DEF Types, Flit, ReqFlit
<1>3. iWbeat # None =>
        [mt |-> "wdata", data |-> iWbeat.data, strb |-> iWbeat.strb, mc |-> INI!return_credit] \in Flit
  BY <1>1 DEF Types, Flit, WBeat, WDataFlit
<1> QED BY <1>1, <1>2, <1>3 DEF INI!dtx

\* What the target sends is a flit.
LEMMA TgtFlits ==
  ASSUME Types, Flowing
  PROVE  /\ TGT!return_credit \in MsgCredit
         /\ tState = "S_WRESP" =>
              [mt |-> "wresp", id |-> tReq.id, resp |-> tBresp, mc |-> TGT!return_credit] \in Flit
         /\ tState = "S_RBEAT" /\ tRbeat # None =>
              [mt |-> "rdata", id |-> tReq.id, resp |-> tRbeat.resp, data |-> tRbeat.data,
               last |-> TGT!last_beat, mc |-> TGT!return_credit] \in Flit
         /\ TGT!rsp \in Flit \cup {None}
<1>1. TGT!return_credit \in MsgCredit
  BY Encodes DEF Flowing, TGT!return_credit, TGT!mk_msgcredit, MsgCredit
<1>2. tState = "S_WRESP" =>
        [mt |-> "wresp", id |-> tReq.id, resp |-> tBresp, mc |-> TGT!return_credit] \in Flit
  BY <1>1, Present DEF Types, Flit, Request, WRespFlit
<1>3. TGT!last_beat \in BOOLEAN
  BY DEF TGT!last_beat
<1>4. tState = "S_RBEAT" /\ tRbeat # None =>
        [mt |-> "rdata", id |-> tReq.id, resp |-> tRbeat.resp, data |-> tRbeat.data,
         last |-> TGT!last_beat, mc |-> TGT!return_credit] \in Flit
  BY <1>1, <1>3, Present DEF Types, Flit, Request, RDataFlit, LiteRBeat
<1> QED BY <1>1, <1>2, <1>4 DEF TGT!rsp

\* The choices behind an edge.
Chosen(acc, w, bRdy, rRdy) ==
  acc \in Offers /\ w \in Beats \cup {None} /\ bRdy \in Takes(s_b) /\ rRdy \in Takes(s_r)

\* What the manager chooses.
LEMMA ChosenType ==
  ASSUME NEW acc, NEW w, NEW bRdy, NEW rRdy, Chosen(acc, w, bRdy, rRdy)
  PROVE  /\ bRdy \in BOOLEAN /\ rRdy \in BOOLEAN
         /\ acc # None => acc \in Requests
         /\ bRdy => s_b # None
         /\ rRdy => s_r # None
BY DEF Chosen, Offers, Takes

\* The links and the activation blocks.
LEMMA LinkMoves ==
  ASSUME Types, Flowing, NEW acc, NEW w, NEW bRdy, NEW rRdy, Edge(acc, w, bRdy, rRdy)
  PROVE  /\ Connected' /\ iPend' = FALSE /\ tPend' = FALSE
         /\ a2b' = IF aGo THEN INI!dtx ELSE a2b
         /\ b2a' = IF bGo(rRdy) THEN TGT!rsp ELSE b2a
<1>1. /\ Kind(a2b) \in {None, "data"} /\ Kind(b2a) \in {None, "data"}
      /\ \A k \in {None, "data"} : k \notin {"areq", "dreq"}
  BY Present DEF Kind, Flowing, IA!Misc, IA!BringUp, IA!TearDown
<1>2. IA!Clock(Kind(b2a), A2B!InReady(TA!rx_ready(TGT!drx_ready)), FALSE, TRUE, FALSE)
  BY DEF Edge
<1>3. TA!Clock(Kind(a2b), B2A!InReady(IA!rx_ready(INI!drx_ready(rRdy))), FALSE, TRUE, FALSE)
  BY DEF Edge
<1>4. iAct' = "ENABLED" /\ iPend' = FALSE
  BY <1>1, <1>2 DEF Types, Flowing, Connected, IA!Clock, IA!Disabled, IA!Activating, IA!Enable,
     IA!Inconsistent, IA!PeerTeardown, IA!Enabled, IA!Deactivating, IA!Disable, IA!Error,
     IA!ClearError, IA!enabled, IA!err_now
<1>5. tAct' = "ENABLED" /\ tPend' = FALSE
  BY <1>1, <1>3 DEF Types, Flowing, Connected, TA!Clock, TA!Disabled, TA!Activating, TA!Enable,
     TA!Inconsistent, TA!PeerTeardown, TA!Enabled, TA!Deactivating, TA!Disable, TA!Error,
     TA!ClearError, TA!enabled, TA!err_now
<1>6. a2b' = IF aGo THEN INI!dtx ELSE a2b
  BY DEF Edge, A2B!Clock, A2B!Load, A2B!Drain, A2B!Hold, A2B!InReady, iTx, TA!rx_ready,
     IA!enabled, TA!enabled, Flowing, Connected, aGo
<1>7. b2a' = IF bGo(rRdy) THEN TGT!rsp ELSE b2a
  BY DEF Edge, B2A!Clock, B2A!Load, B2A!Drain, B2A!Hold, B2A!InReady, tTx, IA!rx_ready,
     IA!enabled, TA!enabled, Flowing, Connected, bGo
<1> QED BY <1>4, <1>5, <1>6, <1>7 DEF Connected

\* The initiator's datapath.
IniStays == UNCHANGED <<iState, iReq, iWbeat, iB, iCr, iRet>>

IniIdle ==
  IF q = <<>> THEN IniStays
  ELSE /\ iReq' = Head(q) /\ iState' = IF Head(q).wr THEN "S_WREQ" ELSE "S_RREQ"
       /\ iWbeat' \in {iWbeat, None} /\ UNCHANGED <<iCr, iRet>>

IniWReq ==
  IF iCr.wreq >= 3 /\ aGo
  THEN /\ iState' = "S_WDATA" /\ iRet' = INI!NoReturn /\ iCr' = [iCr EXCEPT !.wreq = @ - 3]
       /\ UNCHANGED <<iReq, iWbeat, iB>>
  ELSE IniStays

IniRReq ==
  IF iCr.rreq >= 3 /\ aGo
  THEN /\ iState' = "S_RDATA" /\ iRet' = INI!NoReturn /\ iCr' = [iCr EXCEPT !.rreq = @ - 3]
       /\ UNCHANGED <<iReq, iWbeat, iB>>
  ELSE IniStays

IniWData(w) ==
  IF iWbeat = None THEN iWbeat' = w /\ UNCHANGED <<iState, iReq, iB, iCr, iRet>>
  ELSE IF iCr.wdata >= 8 /\ aGo
  THEN /\ iWbeat' = None /\ iState' = IF iWbeat.last THEN "S_WWAIT" ELSE "S_WDATA"
       /\ iCr' = [iCr EXCEPT !.wdata = @ - 8]
       /\ UNCHANGED <<iReq, iB, iRet>>
  ELSE IniStays

IniWWait ==
  IF b2a # None
  THEN /\ iState' = "S_B" /\ iB' = [id |-> b2a.id, resp |-> b2a.resp]
       /\ iRet' = [iRet EXCEPT !.wresp = (@ + 1) % 256] /\ iCr' = INI!Grant(b2a.mc)
       /\ UNCHANGED <<iReq, iWbeat>>
  ELSE IniStays

IniB(bRdy) ==
  IF bRdy THEN iState' = "S_IDLE" /\ UNCHANGED <<iReq, iWbeat, iB, iCr, iRet>> ELSE IniStays

IniRData(rRdy) ==
  IF b2a # None /\ rRdy
  THEN /\ iState' = IF b2a.last THEN "S_IDLE" ELSE "S_RDATA"
       /\ iRet' = [iRet EXCEPT !.rdata = (@ + 8) % 256] /\ iCr' = INI!Grant(b2a.mc)
       /\ UNCHANGED <<iReq, iWbeat, iB>>
  ELSE IniStays

\* One edge of the initiator's datapath, by state (always_ff of the initiator bridge).
LEMMA IniMoves ==
  ASSUME Types, Flowing, NEW acc, NEW w, NEW bRdy, NEW rRdy, Edge(acc, w, bRdy, rRdy)
  PROVE  /\ iState = "S_IDLE"  => IniIdle
         /\ iState = "S_WREQ"  => IniWReq
         /\ iState = "S_RREQ"  => IniRReq
         /\ iState = "S_WDATA" => IniWData(w)
         /\ iState = "S_WWAIT" => IniWWait
         /\ iState = "S_B"     => IniB(bRdy)
         /\ iState = "S_RDATA" => IniRData(rRdy)
<1> DEFINE qh == IF FE!q_empty THEN None ELSE Head(q)
           go == IA!d_tx_ready(A2B!InReady(TA!rx_ready(TGT!drx_ready)))
<1>1. INI!Clock(qh, w, iRx, go, iSeed, iAct = "DISABLED", bRdy, rRdy)
  BY DEF Edge
<1>2. /\ (go <=> aGo) /\ iRx = b2a
      /\ q = <<>> => qh = None
      /\ q # <<>> => qh = Head(q) /\ qh # None
  <2>1. q # <<>> => Head(q) \in Requests
    BY HeadTailProperties DEF Types
  <2> QED BY <2>1, Present DEF Flowing, Connected, IA!d_tx_ready, IA!enabled, TA!enabled, A2B!InReady, TA!rx_ready, aGo,
     iRx, FE!q_empty, Types
<1>3. iAct # "DISABLED" /\ iSeed = None
  BY DEF Flowing, Connected, iSeed, IA!seed_valid
<1> HIDE DEF qh, go
<1>4. /\ \/ INI!Pop(qh)
         \/ INI!SendWriteReq(go) \/ INI!SendReadReq(go)
         \/ INI!TakeBeat(w) \/ INI!SendBeat(go)
         \/ INI!WriteResponse(iRx) \/ INI!DeliverB(bRdy) \/ INI!DeliverR(iRx, rRdy)
         \/ INI!Stall(qh, w, iRx, go, bRdy, rRdy)
      /\ iCr' = INI!FsmCredits(iRx, go, rRdy)
  BY <1>1, <1>3 DEF INI!Clock, INI!Credits
<1> USE <1>2, <1>4, IniFlits, Present
<1> USE DEF INI!Pop, INI!SendWriteReq, INI!SendReadReq, INI!TakeBeat, INI!SendBeat, INI!WriteResponse,
       INI!DeliverB, INI!DeliverR, INI!Stall, INI!FsmCredits, INI!dtx, INI!do_pop, INI!i_wready,
       INI!drx_ready, INI!i_rvalid, IniStays, INI!wreq_ok, INI!rreq_ok, INI!wdata_ok,
       INI!WRITEREQ_GRAN, INI!READREQ_GRAN, INI!WRITEDATA_GRAN, INI!READDATA_GRAN, INI!WRITERESP_GRAN
<1>5. CASE iState = "S_IDLE" BY <1>5 DEF IniIdle
<1>6. CASE iState = "S_WREQ" BY <1>6 DEF IniWReq
<1>7. CASE iState = "S_RREQ" BY <1>7 DEF IniRReq
<1>8. CASE iState = "S_WDATA" BY <1>8 DEF IniWData
<1>9. CASE iState = "S_WWAIT" BY <1>9 DEF IniWWait
<1>10. CASE iState = "S_B" BY <1>10 DEF IniB
<1>11. CASE iState = "S_RDATA" BY <1>11 DEF IniRData
<1> QED BY <1>5, <1>6, <1>7, <1>8, <1>9, <1>10, <1>11

\* The target bridge.
TgtStays == UNCHANGED <<tState, tReq, tAddr, tBeat, tWbeat, tBresp, tRbeat, tCr, tRet>>

TgtIdle ==
  IF a2b = None THEN TgtStays /\ UNCHANGED <<tAwDone, tWDone, tArDone>>
  ELSE /\ tReq' = a2b.req /\ tAddr' = a2b.req.addr /\ tBeat' = 0
       /\ tCr' = TGT!Grant(a2b.mc) /\ tBresp' = tBresp
       /\ IF a2b.mt = "wreq"
          THEN /\ tState' = "S_WBEAT" /\ tRet' = [tRet EXCEPT !.wreq = (@ + 3) % 256]
               /\ tWbeat' = None /\ tAwDone' = FALSE /\ tWDone' = FALSE
               /\ UNCHANGED <<tRbeat, tArDone>>
          ELSE /\ tState' = "S_RBEAT" /\ tRet' = [tRet EXCEPT !.rreq = (@ + 3) % 256]
               /\ tRbeat' = None /\ tArDone' = FALSE
               /\ UNCHANGED <<tWbeat, tAwDone, tWDone>>

TgtTakes ==
  IF a2b = None THEN TgtStays /\ UNCHANGED <<tAwDone, tWDone, tArDone>>
  ELSE /\ tWbeat' = [data |-> a2b.data, strb |-> a2b.strb]
       /\ tAwDone' = FALSE /\ tWDone' = FALSE
       /\ tRet' = [tRet EXCEPT !.wdata = (@ + 8) % 256]
       /\ UNCHANGED <<tState, tReq, tAddr, tBeat, tBresp, tRbeat, tArDone, tCr>>

TgtWrites ==
  /\ tAwDone' = (tAwDone \/ ~aw_taken) /\ tWDone' = (tWDone \/ ~w_taken)
  /\ UNCHANGED <<tReq, tBresp, tRbeat, tArDone, tCr, tRet>>
  /\ IF BVALID
     THEN /\ tWbeat' = None /\ tAddr' = TGT!next_addr /\ tBeat' = tBeat + 1
          /\ tState' = IF tBeat = tReq.len THEN "S_WRESP" ELSE "S_WBEAT"
     ELSE UNCHANGED <<tState, tAddr, tBeat, tWbeat>>

TgtAnswers(rRdy) ==
  /\ UNCHANGED <<tReq, tAddr, tBeat, tWbeat, tAwDone, tWDone, tBresp, tRbeat, tArDone>>
  /\ IF tCr.wresp >= 1 /\ bGo(rRdy)
     THEN tState' = "S_IDLE" /\ tRet' = TGT!NoReturn /\ tCr' = [tCr EXCEPT !.wresp = @ - 1]
     ELSE UNCHANGED <<tState, tCr, tRet>>

TgtReads ==
  /\ tRbeat' = IF RVALID THEN [data |-> RDATA, resp |-> "OKAY"] ELSE None
  /\ tArDone' = (tArDone \/ ~RVALID)
  /\ UNCHANGED <<tState, tReq, tAddr, tBeat, tWbeat, tAwDone, tWDone, tBresp, tCr, tRet>>

TgtSends(rRdy) ==
  IF tCr.rdata >= 8 /\ bGo(rRdy)
  THEN /\ tRbeat' = None /\ tArDone' = FALSE
       /\ tAddr' = TGT!next_addr /\ tBeat' = tBeat + 1
       /\ tCr' = [tCr EXCEPT !.rdata = @ - 8]
       /\ tState' = IF tBeat = tReq.len THEN "S_IDLE" ELSE "S_RBEAT"
       /\ tRet' = IF tBeat = tReq.len THEN TGT!NoReturn ELSE tRet
       /\ UNCHANGED <<tReq, tWbeat, tAwDone, tWDone, tBresp>>
  ELSE TgtStays /\ UNCHANGED <<tAwDone, tWDone, tArDone>>

\* One edge of the target bridge, by state and by what its buffers hold.
LEMMA TgtMoves ==
  ASSUME Types, Flowing, NEW acc, NEW w, NEW bRdy, NEW rRdy, Edge(acc, w, bRdy, rRdy)
  PROVE  /\ tState = "S_IDLE"                     => TgtIdle
         /\ tState = "S_WBEAT" /\ tWbeat = None   => TgtTakes
         /\ tState = "S_WBEAT" /\ tWbeat # None   => TgtWrites
         /\ tState = "S_WRESP"                    => TgtAnswers(rRdy)
         /\ tState = "S_RBEAT" /\ tRbeat = None   => TgtReads
         /\ tState = "S_RBEAT" /\ tRbeat # None   => TgtSends(rRdy)
<1> DEFINE go == TA!d_tx_ready(B2A!InReady(IA!rx_ready(INI!drx_ready(rRdy))))
           b  == IF BVALID /\ TGT!m_bready THEN "OKAY" ELSE None
           r  == IF RVALID /\ TGT!m_rready THEN [data |-> RDATA, resp |-> "OKAY"] ELSE None
<1>1. TGT!Clock(tRx, go, tSeed, tAct = "DISABLED", MEM!AWREADY, MEM!WREADY, MEM!ARREADY, b, r)
  BY DEF Edge
<1>2. (go <=> bGo(rRdy)) /\ tRx = a2b
  BY DEF Flowing, Connected, TA!d_tx_ready, IA!enabled, TA!enabled, B2A!InReady, IA!rx_ready, bGo, tRx
<1>3. tAct # "DISABLED" /\ tSeed = None
  BY DEF Flowing, Connected, tSeed, TA!seed_valid
<1>4. /\ tState = "S_WBEAT" /\ tWbeat # None => b = IF BVALID THEN "OKAY" ELSE None
      /\ tState = "S_RBEAT" /\ tRbeat = None
           => r = IF RVALID THEN [data |-> RDATA, resp |-> "OKAY"] ELSE None
  BY DEF TGT!m_bready, TGT!m_rready
<1> HIDE DEF go, b, r
<1>5. /\ \/ TGT!TakeRequest(tRx) \/ TGT!TakeBeat(tRx)
         \/ TGT!WriteBeat(MEM!AWREADY, MEM!WREADY, b)
         \/ TGT!SendWriteResp(go) \/ TGT!ReadBeat(MEM!ARREADY, r) \/ TGT!SendReadData(go)
         \/ TGT!Stall(tRx, go)
      /\ tCr' = TGT!FsmCredits(tRx, go)
  BY <1>1, <1>3 DEF TGT!Clock, TGT!Credits
<1>6. tAddr # None /\ tBresp = "OKAY"
  BY Present DEF Types
<1> USE <1>2, <1>5, TgtFlits, Present
<1> USE DEF TGT!TakeRequest, TGT!TakeBeat, TGT!WriteBeat, TGT!SendWriteResp, TGT!ReadBeat,
       TGT!SendReadData, TGT!Stall, TGT!FsmCredits, TGT!rsp, TGT!rsp_fire, TGT!last_beat, TgtStays,
       TGT!WRITEREQ_GRAN, TGT!READREQ_GRAN, TGT!WRITEDATA_GRAN, TGT!READDATA_GRAN,
       TGT!WRITERESP_GRAN
<1>7. CASE tState = "S_IDLE" BY <1>7 DEF TgtIdle
<1>8. CASE tState = "S_WBEAT" /\ tWbeat = None BY <1>8 DEF TgtTakes
<1>9. CASE tState = "S_WBEAT" /\ tWbeat # None
  BY <1>4, <1>6, <1>9 DEF TgtWrites, TGT!m_aw, TGT!m_w, MEM!AWREADY, MEM!WREADY, Types
<1>10. CASE tState = "S_WRESP" BY <1>10 DEF TgtAnswers
<1>11. CASE tState = "S_RBEAT" /\ tRbeat = None
  BY <1>4, <1>6, <1>11 DEF TgtReads, TGT!m_ar, MEM!ARREADY, Types
<1>12. CASE tState = "S_RBEAT" /\ tRbeat # None BY <1>12 DEF TgtSends
<1> QED BY <1>7, <1>8, <1>9, <1>10, <1>11, <1>12

\* The memory.
awValid == tState = "S_WBEAT" /\ tWbeat # None /\ ~tAwDone
wValid  == tState = "S_WBEAT" /\ tWbeat # None /\ ~tWDone
arValid == tState = "S_RBEAT" /\ tRbeat = None /\ ~tArDone

\* One edge of the memory, register by register (axi_lite_mem.sv).
LEMMA MemMoves ==
  ASSUME Types, NEW acc, NEW w, NEW bRdy, NEW rRdy, Edge(acc, w, bRdy, rRdy)
  PROVE  /\ awaddr_q' = IF awValid /\ ~aw_taken THEN MEM!Word(tAddr) ELSE awaddr_q
         /\ aw_taken' = (~MEM!do_write /\ (aw_taken \/ awValid))
         /\ wbeat_q' = IF wValid /\ ~w_taken THEN tWbeat ELSE wbeat_q
         /\ w_taken' = (~MEM!do_write /\ (w_taken \/ wValid))
         /\ mem' = IF MEM!do_write /\ wbeat_q.strb
                   THEN [mem EXCEPT ![awaddr_q] = wbeat_q.data] ELSE mem
         /\ BVALID' = (MEM!do_write \/ (BVALID /\ ~(tState = "S_WBEAT" /\ tWbeat # None)))
         /\ RDATA' = IF arValid /\ ~RVALID THEN mem[MEM!Word(tAddr)] ELSE RDATA
         /\ RVALID' = IF RVALID THEN ~(tState = "S_RBEAT" /\ tRbeat = None) ELSE arValid
<1>1. MEM!Clock(TGT!m_aw, TGT!m_w, TGT!m_bready, TGT!m_ar, TGT!m_rready)
  BY DEF Edge
<1>2. tAddr # None
  BY Present DEF Types
<1>3. /\ awValid => TGT!m_aw = tAddr
      /\ ~awValid => TGT!m_aw = None
      /\ wValid => TGT!m_w = tWbeat
      /\ ~wValid => TGT!m_w = None
      /\ arValid => TGT!m_ar = tAddr
      /\ ~arValid => TGT!m_ar = None
      /\ TGT!m_bready <=> tState = "S_WBEAT" /\ tWbeat # None
      /\ TGT!m_rready <=> tState = "S_RBEAT" /\ tRbeat = None
      /\ wValid => tWbeat # None
  BY DEF TGT!m_aw, TGT!m_w, TGT!m_ar, TGT!m_bready, TGT!m_rready, awValid, wValid, arValid
<1>4. /\ awaddr_q' = IF TGT!m_aw # None /\ ~aw_taken THEN MEM!Word(TGT!m_aw) ELSE awaddr_q
      /\ aw_taken' = (~MEM!do_write /\ (aw_taken \/ TGT!m_aw # None))
  BY <1>1 DEF MEM!Clock, MEM!CaptureAw, MEM!AWREADY
<1>5. /\ wbeat_q' = IF TGT!m_w # None /\ ~w_taken THEN TGT!m_w ELSE wbeat_q
      /\ w_taken' = (~MEM!do_write /\ (w_taken \/ TGT!m_w # None))
  BY <1>1 DEF MEM!Clock, MEM!CaptureW, MEM!WREADY
<1>6. /\ mem' = IF MEM!do_write /\ wbeat_q.strb
                THEN [mem EXCEPT ![awaddr_q] = wbeat_q.data] ELSE mem
      /\ BVALID' = (MEM!do_write \/ (BVALID /\ ~TGT!m_bready))
  BY <1>1 DEF MEM!Clock, MEM!Commit
<1>7. /\ RDATA' = IF TGT!m_ar # None /\ ~RVALID THEN mem[MEM!Word(TGT!m_ar)] ELSE RDATA
      /\ RVALID' = IF RVALID THEN ~TGT!m_rready ELSE TGT!m_ar # None
  BY <1>1 DEF MEM!Clock, MEM!Read, MEM!ARREADY
<1>8. /\ awaddr_q' = IF awValid /\ ~aw_taken THEN MEM!Word(tAddr) ELSE awaddr_q
      /\ aw_taken' = (~MEM!do_write /\ (aw_taken \/ awValid))
  BY <1>2, <1>3, <1>4
<1>9. /\ wbeat_q' = IF wValid /\ ~w_taken THEN tWbeat ELSE wbeat_q
      /\ w_taken' = (~MEM!do_write /\ (w_taken \/ wValid))
  BY <1>3, <1>5
<1>10. BVALID' = (MEM!do_write \/ (BVALID /\ ~(tState = "S_WBEAT" /\ tWbeat # None)))
  BY <1>3, <1>6
<1>11. /\ RDATA' = IF arValid /\ ~RVALID THEN mem[MEM!Word(tAddr)] ELSE RDATA
       /\ RVALID' = IF RVALID THEN ~(tState = "S_RBEAT" /\ tRbeat = None) ELSE arValid
  <2>1. CASE RVALID BY <1>3, <1>7, <2>1, Zenon
  <2>2. CASE ~RVALID
    <3>1. RVALID' = (TGT!m_ar # None)
      BY <1>7, <2>2, Zenon
    <3>2. RDATA' = IF TGT!m_ar # None THEN mem[MEM!Word(TGT!m_ar)] ELSE RDATA
      BY <1>7, <2>2, Zenon
    <3>3. CASE arValid BY <1>2, <1>3, <2>2, <3>1, <3>2, <3>3
    <3>4. CASE ~arValid BY <1>2, <1>3, <2>2, <3>1, <3>2, <3>4 DEF arValid
    <3> QED BY <3>3, <3>4
  <2> QED BY <2>1, <2>2
<1> QED BY <1>6, <1>8, <1>9, <1>10, <1>11

\* The request front end.
ErrStays == UNCHANGED <<e_state, e_req, e_beat>>

FeMove(acc, w, bRdy, rRdy) ==
  /\ acc # None => e_state = "E_IDLE"
  /\ q' = (IF iState = "S_IDLE" /\ q # <<>> THEN Tail(q) ELSE q)
            \o (IF acc # None /\ ~FE!Long(acc) THEN <<acc>> ELSE <<>>)
  /\ e_state = "E_IDLE" =>
       IF acc # None /\ FE!Long(acc)
       THEN e_state' = "E_WAIT" /\ e_req' = acc /\ e_beat' = e_beat ELSE ErrStays
  /\ e_state = "E_WAIT" =>
       IF q = <<>> /\ iState = "S_IDLE"
       THEN /\ e_beat' = 0 /\ e_req' = e_req
            /\ e_state' = IF e_req.wr THEN "E_WDRAIN" ELSE "E_R"
       ELSE ErrStays
  /\ e_state = "E_WDRAIN" =>
       IF w # None /\ w.last THEN e_state' = "E_B" /\ UNCHANGED <<e_req, e_beat>> ELSE ErrStays
  /\ e_state = "E_B" =>
       IF bRdy THEN e_state' = "E_IDLE" /\ UNCHANGED <<e_req, e_beat>> ELSE ErrStays
  /\ e_state = "E_R" =>
       IF ~rRdy THEN ErrStays
       ELSE /\ e_req' = e_req
            /\ IF e_beat = e_req.len THEN e_state' = "E_IDLE" /\ e_beat' = e_beat
                                     ELSE e_beat' = e_beat + 1 /\ e_state' = "E_R"

\* One edge of the request queue and the error responder.
LEMMA FeMoves ==
  ASSUME Types, Connected, NEW acc, NEW w, NEW bRdy, NEW rRdy, Chosen(acc, w, bRdy, rRdy),
         Edge(acc, w, bRdy, rRdy)
  PROVE  FeMove(acc, w, bRdy, rRdy)
<1> DEFINE qh   == IF FE!q_empty THEN None ELSE Head(q)
           last == w # None /\ w.last
<1>1. FE!Clock(acc, None, IA!enabled, INI!do_pop(qh), INI!br_idle, last, bRdy, rRdy)
  BY DEF Edge
<1>2. /\ q = <<>> => qh = None
      /\ q # <<>> => qh # None
  <2>1. q # <<>> => Head(q) \in Requests
    BY HeadTailProperties DEF Types
  <2> QED BY <2>1, Present DEF FE!q_empty
<1>3. acc # None => FE!s_awready(IA!enabled)
  BY DEF Chosen, Offers
<1>4. FE!accepted(acc, None, IA!enabled) = acc
  BY <1>3 DEF FE!accepted
<1> HIDE DEF qh
<1>5. /\ FE!Enqueue(acc, INI!do_pop(qh))
      /\ FE!ErrorResponder(acc, INI!br_idle, last, bRdy, rRdy)
  BY <1>1, <1>4 DEF FE!Clock
<1>6. acc # None => e_state = "E_IDLE"
  BY <1>3 DEF FE!s_awready
<1>7. q' = (IF iState = "S_IDLE" /\ q # <<>> THEN Tail(q) ELSE q)
            \o (IF acc # None /\ ~FE!Long(acc) THEN <<acc>> ELSE <<>>)
  BY <1>2, <1>5 DEF FE!Enqueue, INI!do_pop
<1>8. \/ FE!TakeLong(acc)
      \/ FE!StartResponse(INI!br_idle)
      \/ FE!DrainLast(last)
      \/ FE!RespondB(bRdy)
      \/ FE!RespondR(rRdy)
      \/ FE!Waiting(acc, INI!br_idle, last, bRdy, rRdy)
  BY <1>5 DEF FE!ErrorResponder
<1> QED BY <1>6, <1>7, <1>8 DEF FeMove, ErrStays, FE!TakeLong, FE!StartResponse, FE!DrainLast,
       FE!RespondB, FE!RespondR, FE!Waiting, FE!e_w, FE!e_b, FE!e_r, FE!q_empty, INI!br_idle

-----------------------------------------------------------------------------
(* The manager.                                                            *)

\* s without its first d elements and with x added a times, d and a at most one.
Shift(s, x, d, a) == (IF d = 1 THEN Tail(s) ELSE s) \o (IF a = 1 THEN <<x>> ELSE <<>>)

IsShift(t, S, s, x, d, a) ==
  /\ t \in Seq(S) /\ Len(t) = Len(s) - d + a
  /\ \A i \in 1 .. Len(s) - d : t[i] = s[i + d]
  /\ a = 1 => t[Len(t)] = x

\* A sequence that loses its head if d and gets x at its end if a.
LEMMA PushPop ==
  ASSUME NEW S, NEW s \in Seq(S), NEW x, NEW d \in {0, 1}, NEW a \in {0, 1},
         a = 1 => x \in S, d = 1 => s # <<>>
  PROVE  IsShift(Shift(s, x, d, a), S, s, x, d, a)
<1> DEFINE t == Shift(s, x, d, a)
<1> DEFINE u == IF d = 1 THEN Tail(s) ELSE s
<1>1. /\ u \in Seq(S) /\ Len(u) = Len(s) - d /\ Len(u) \in Nat
      /\ \A i \in 1 .. Len(u) : u[i] = s[i + d]
  <2>1. CASE d = 1 BY <2>1, HeadTailProperties, LenProperties
  <2>2. CASE d = 0 BY <2>2, LenProperties
  <2> QED BY <2>1, <2>2
<1>2. CASE a = 1
  <2>1. t = u \o <<x>>
    BY <1>2 DEF Shift
  <2> HIDE DEF u, t
  <2>2. t = Append(u, x)
    BY <1>1, <1>2, <2>1, AppendIsConcat
  <2>3. /\ Append(u, x) \in Seq(S) /\ Len(Append(u, x)) = Len(u) + 1
        /\ Append(u, x)[Len(u) + 1] = x
        /\ \A i \in 1 .. Len(u) : Append(u, x)[i] = u[i]
    <3>1. x \in S /\ u \in Seq(S)
      BY <1>1, <1>2
    <3> QED BY ONLY <3>1, AppendProperties
  <2>4. /\ t \in Seq(S) /\ Len(t) = Len(s) - d + a /\ t[Len(t)] = x
        /\ \A i \in 1 .. Len(s) - d : t[i] = s[i + d]
    BY <1>1, <1>2, <2>2, <2>3, Zenon
  <2> QED BY <1>2, <2>4 DEF t, IsShift
<1>3. CASE a = 0
  <2>1. t = u \o <<>>
    BY <1>3 DEF Shift
  <2> HIDE DEF u, t
  <2>2. t = u
    BY <1>1, <2>1, ConcatEmptySeq
  <2>3. /\ t \in Seq(S) /\ Len(t) = Len(s) - d + a
        /\ \A i \in 1 .. Len(s) - d : t[i] = s[i + d]
    BY <1>1, <1>3, <2>2
  <2> QED BY <1>3, <2>3 DEF t, IsShift
<1> QED BY <1>2, <1>3

Entry(r) == [wr |-> r.wr, id |-> r.id, addr |-> r.addr, len |-> r.len,
             size |-> r.size, burst |-> r.burst, w |-> <<>>]

\* An accepted request enters the manager's list with no W beat.
LEMMA EntryType ==
  ASSUME NEW r \in Requests
  PROVE  Entry(r) \in Todo /\ Same(Entry(r), r) /\ Entry(r).w = <<>>
BY Present DEF Entry, Todo, Same, Request

\* The responses taken at an edge, and the one that ends the oldest request.
ErrDone(bRdy, rRdy) == \/ e_state = "E_B" /\ bRdy
                       \/ e_state = "E_R" /\ rRdy /\ e_beat = e_req.len
IniDone(bRdy, rRdy) == \/ iState = "S_B" /\ bRdy
                       \/ iState = "S_RDATA" /\ b2a # None /\ rRdy /\ b2a.last
Done(bRdy, rRdy)    == ErrDone(bRdy, rRdy) \/ IniDone(bRdy, rRdy)
GivesR(rRdy)        == \/ e_state = "E_R" /\ rRdy
                       \/ iState = "S_RDATA" /\ b2a # None /\ rRdy

\* What the states of the two FSMs say of the messages around them.
Fitting ==
  /\ iState = "S_RDATA" /\ b2a # None => b2a \in RDataFlit
  /\ iState = "S_WWAIT" /\ b2a # None =>
       b2a \in WRespFlit /\ b2a.id = iReq.id /\ taken = beats
  /\ tState = "S_IDLE" /\ a2b # None => a2b \in ReqFlit /\ a2b.req = iReq /\ iState # "S_IDLE"
  /\ tState = "S_WBEAT" /\ a2b # None => a2b \in WDataFlit
  /\ iState = "S_WDATA" /\ iWbeat = None => taken <= iReq.len

Wanting == e_state = "E_WDRAIN" \/ (iState = "S_WDATA" /\ iWbeat = None)

\* While W beats are wanted they are those of the oldest request.
LEMMA OldestFills ==
  ASSUME Types, Books, Turns, Fitting, Wanting
  PROVE  todo # <<>> /\ todo[1] \in Todo /\ taken <= todo[1].len /\ AXI!FirstToFill = 1
<1>1. Len(todo) \in Nat /\ Len(todo) >= 1
  <2>1. Len(q) \in Nat /\ Len(todo) \in Nat
    BY LenProperties DEF Types
  <2>2. nCur \in {0, 1} /\ nErr \in {0, 1} /\ (nCur = 1 \/ nErr = 1)
    BY DEF Wanting, nCur, nErr
  <2>3. Len(todo) = nCur + Len(q) + nErr
    BY DEF Books
  <2> QED BY <2>1, <2>2, <2>3
<1>2. todo # <<>> /\ todo[1] \in Todo /\ 1 \in DOMAIN todo /\ DOMAIN todo = 1 .. Len(todo)
  BY <1>1, LenProperties, ElementOfSeq DEF Types
<1>3. /\ todo[1].wr /\ taken <= todo[1].len
  <2>1. CASE e_state = "E_WDRAIN"
    <3>1. q = <<>> /\ iState = "S_IDLE" /\ Len(todo) = 1
      BY <2>1 DEF Turns, Books, nCur, nErr
    <3> QED BY <2>1, <3>1 DEF Turns, Books, Same
  <2>2. CASE iState = "S_WDATA" /\ iWbeat = None
    BY <2>2 DEF Turns, Books, Same, Fitting
  <2> QED BY <2>1, <2>2 DEF Wanting
<1>4. 1 \in AXI!Filling /\ \A j \in AXI!Filling : 1 <= j
  BY <1>1, <1>2, <1>3 DEF AXI!Filling, AXI!Short, taken
<1>5. \A i \in AXI!Filling : (\A j \in AXI!Filling : i <= j) => i = 1
  BY <1>1, <1>2, <1>4 DEF AXI!Filling
<1> QED BY <1>2, <1>3, <1>4, <1>5 DEF AXI!FirstToFill

\* The W beat at an edge is the oldest request's next one.
LEMMA BeatMoves ==
  ASSUME Types, Books, Turns, Fitting,
         NEW acc, NEW w, NEW bRdy, NEW rRdy, Chosen(acc, w, bRdy, rRdy), w # None
  PROVE  /\ Wanting /\ todo # <<>> /\ w \in WBeat /\ w.last = (taken = todo[1].len)
         /\ ~Done(bRdy, rRdy) /\ ~GivesR(rRdy)
<1>1. w \in Beats /\ Beats # {}
  BY DEF Chosen
<1>2. s_wready /\ w \in AXI!Beats(Partial)
  BY <1>1 DEF Beats
<1>3. Wanting
  BY <1>2 DEF s_wready, FE!e_w, INI!i_wready, Wanting
<1>4. /\ todo # <<>> /\ todo[1] \in Todo /\ AXI!FirstToFill = 1
  BY <1>3, OldestFills
<1>5. w \in WBeat /\ w.last = (taken = todo[1].len)
  <2>1. AXI!Filling # {}
    BY <1>2 DEF AXI!Beats
  <2>2. w \in [data : {stamp + 1}, last : {taken = todo[1].len},
               strb : IF taken \in Partial THEN BOOLEAN ELSE {TRUE}]
    BY <1>2, <1>4, <2>1 DEF AXI!Beats, taken
  <2>3. stamp + 1 \in Nat
    BY DEF Types
  <2> QED BY <2>2, <2>3 DEF WBeat
<1>6. e_state = "E_WDRAIN" => iState = "S_IDLE"
  BY DEF Turns
<1>7. iState = "S_WDATA" => e_state \notin {"E_B", "E_R"}
  BY DEF Turns
<1>8. ~Done(bRdy, rRdy) /\ ~GivesR(rRdy)
  BY <1>3, <1>6, <1>7 DEF Wanting, Done, ErrDone, IniDone, GivesR
<1> QED BY <1>3, <1>4, <1>5, <1>8

\* A W beat is appended to the oldest request's; the others stay as they are.
LEMMA WithBeatIs ==
  ASSUME Types, Books, Turns, Fitting,
         NEW acc, NEW w, NEW bRdy, NEW rRdy, Chosen(acc, w, bRdy, rRdy)
  PROVE  /\ AXI!WithBeat(w) \in Seq(Todo) /\ Len(AXI!WithBeat(w)) = Len(todo)
         /\ \A i \in 2 .. Len(todo) : AXI!WithBeat(w)[i] = todo[i]
         /\ \A r : todo # <<>> /\ Same(todo[1], r) => Same(AXI!WithBeat(w)[1], r)
         /\ w = None => AXI!WithBeat(w) = todo
         /\ w # None => /\ Len(AXI!WithBeat(w)[1].w) = taken + 1
                        /\ AXI!WithBeat(w)[1].w
                             = Append(todo[1].w, [data |-> w.data, strb |-> w.strb])
<1>1. CASE w = None
  BY <1>1 DEF AXI!WithBeat, Types
<1>2. CASE w # None
  <2> DEFINE b == [data |-> w.data, strb |-> w.strb]
             t == [todo[1] EXCEPT !.w = Append(todo[1].w, b)]
  <2>1. /\ todo # <<>> /\ Wanting /\ b \in LiteWBeat
    BY <1>2, BeatMoves DEF WBeat, LiteWBeat
  <2>2. /\ todo[1] \in Todo /\ AXI!FirstToFill = 1 /\ 1 \in 1 .. Len(todo) /\ Len(todo) \in Nat
    <3>1. todo[1] \in Todo /\ AXI!FirstToFill = 1
      BY <2>1, OldestFills
    <3>2. Len(todo) \in Nat \ {0}
      BY <2>1, EmptySeq DEF Types
    <3> QED BY <3>1, <3>2
  <2>3. Append(todo[1].w, b) \in Seq(LiteWBeat) /\ Len(Append(todo[1].w, b)) = taken + 1
    BY <2>1, <2>2, AppendProperties DEF Todo, taken
  <2> HIDE DEF b
  <2>4. t \in Todo /\ t.w = Append(todo[1].w, b) /\ \A r : Same(todo[1], r) => Same(t, r)
    BY <2>2, <2>3 DEF Todo, Same
  <2>5. AXI!WithBeat(w) = [todo EXCEPT ![1] = t]
    BY <1>2, <2>2 DEF AXI!WithBeat, b
  <2> HIDE DEF t
  <2> QED BY <1>2, <2>2, <2>3, <2>4, <2>5, ExceptSeq DEF Types, b
<1> QED BY <1>1, <1>2

\* One edge of the manager: the list of its unanswered requests.
LEMMA MasterMoves ==
  ASSUME Types, Books, Turns, Fitting, Flowing,
         NEW acc, NEW w, NEW bRdy, NEW rRdy, Chosen(acc, w, bRdy, rRdy), Edge(acc, w, bRdy, rRdy)
  PROVE  /\ todo' = (IF Done(bRdy, rRdy) THEN Tail(AXI!WithBeat(w)) ELSE AXI!WithBeat(w))
                      \o (IF acc # None THEN <<Entry(acc)>> ELSE <<>>)
         /\ rbeats' = IF Done(bRdy, rRdy) THEN 0 ELSE IF GivesR(rRdy) THEN rbeats + 1 ELSE rbeats
         /\ stamp' \in Nat
<1> DEFINE b == IF bRdy THEN s_b ELSE None
           x == IF rRdy THEN s_r ELSE None
<1>1. AXI!Clock(acc, w, b, x)
  BY DEF Edge
<1>2. /\ bRdy \in BOOLEAN /\ rRdy \in BOOLEAN
      /\ bRdy => s_b # None
      /\ rRdy => s_r # None
  BY ChosenType
<1>3. (b # None) <=> bRdy /\ (e_state = "E_B" \/ iState = "S_B")
  BY <1>2 DEF s_b, FE!e_b, INI!i_bvalid
<1>4. /\ (x # None) <=> GivesR(rRdy)
      /\ x # None => x.last = (\/ e_state = "E_R" /\ e_beat = e_req.len
                               \/ e_state # "E_R" /\ b2a.last)
  BY <1>2 DEF s_r, FE!e_r, FE!e_rresp, INI!i_rvalid, INI!i_rresp, iRx, IA!enabled, Flowing, Connected, GivesR,
     Fitting, RDataFlit
<1>5. /\ iState = "S_RDATA" => e_state # "E_R"
      /\ e_state = "E_R" => iState = "S_IDLE"
      /\ iState = "S_B" => ~GivesR(rRdy)
      /\ e_state = "E_B" => ~GivesR(rRdy)
  BY DEF Turns, GivesR
<1> HIDE DEF b, x
<1>6. AXI!Answered(b, x) <=> Done(bRdy, rRdy)
  BY <1>3, <1>4, <1>5 DEF AXI!Answered, Done, ErrDone, IniDone, GivesR
<1>7. todo' = (IF Done(bRdy, rRdy) THEN Tail(AXI!WithBeat(w)) ELSE AXI!WithBeat(w))
                 \o (IF acc # None THEN <<Entry(acc)>> ELSE <<>>)
  BY <1>1, <1>6 DEF AXI!Clock, AXI!Begun, Entry
<1>8. x # None => (x.last <=> Done(bRdy, rRdy))
  BY <1>4, <1>5 DEF Done, ErrDone, IniDone, GivesR
<1>9. Done(bRdy, rRdy) /\ ~GivesR(rRdy) => rbeats = 0
  BY DEF Done, ErrDone, IniDone, GivesR, Turns
<1>10. rbeats' = IF Done(bRdy, rRdy) THEN 0 ELSE IF GivesR(rRdy) THEN rbeats + 1 ELSE rbeats
  BY <1>1, <1>4, <1>8, <1>9 DEF AXI!Clock
<1>11. stamp' \in Nat
  BY <1>1 DEF AXI!Clock, Types
<1> QED BY <1>7, <1>10, <1>11

-----------------------------------------------------------------------------
(* The books stay balanced.                                                *)

Pops == iState = "S_IDLE" /\ q # <<>>

\* How a request enters and leaves the datapath.
LEMMA CurMoves ==
  ASSUME Types, Flowing, Turns, NEW acc, NEW w, NEW bRdy, NEW rRdy,
         Chosen(acc, w, bRdy, rRdy), Edge(acc, w, bRdy, rRdy)
  PROVE  /\ iState = "S_IDLE" /\ q = <<>> => iState' = "S_IDLE"
         /\ Pops => iState' = (IF q[1].wr THEN "S_WREQ" ELSE "S_RREQ") /\ iReq' = q[1]
         /\ IniDone(bRdy, rRdy) => iState' = "S_IDLE" /\ iState # "S_IDLE"
         /\ iState # "S_IDLE" /\ ~IniDone(bRdy, rRdy) => iState' # "S_IDLE" /\ iReq' = iReq
<1> USE DEF IniStays, IniDone
<1>1. CASE iState = "S_IDLE"
  <2>1. q # <<>> => Head(q) = q[1]
    BY DEF Types
  <2> QED BY <1>1, <2>1, IniMoves DEF IniIdle, Pops
<1>2. CASE iState = "S_WREQ" BY <1>2, IniMoves DEF IniWReq, Pops
<1>3. CASE iState = "S_RREQ" BY <1>3, IniMoves DEF IniRReq, Pops
<1>4. CASE iState = "S_WDATA" BY <1>4, IniMoves DEF IniWData, Pops
<1>5. CASE iState = "S_WWAIT" BY <1>5, IniMoves DEF IniWWait, Pops
<1>6. CASE iState = "S_B" BY <1>6, IniMoves DEF IniB, Pops
<1>7. CASE iState = "S_RDATA" BY <1>7, IniMoves DEF IniRData, Pops
<1> QED BY <1>1, <1>2, <1>3, <1>4, <1>5, <1>6, <1>7 DEF Flowing

\* How a request enters and leaves the error responder.
LEMMA ErrMoves ==
  ASSUME Types, NEW acc, NEW w, NEW bRdy, NEW rRdy, FeMove(acc, w, bRdy, rRdy)
  PROVE  /\ acc # None => e_state = "E_IDLE"
         /\ acc # None /\ FE!Long(acc) => e_state' = "E_WAIT" /\ e_req' = acc
         /\ e_state = "E_IDLE" /\ (acc = None \/ ~FE!Long(acc)) => e_state' = "E_IDLE"
         /\ ErrDone(bRdy, rRdy) => e_state' = "E_IDLE" /\ e_state # "E_IDLE"
         /\ e_state # "E_IDLE" /\ ~ErrDone(bRdy, rRdy) => e_state' # "E_IDLE" /\ e_req' = e_req
BY DEF FeMove, ErrStays, ErrDone, Types

\* The queue as shifts: pop takes its head, add appends the accepted request.
LEMMA QueueMoves ==
  ASSUME Types, NEW acc, NEW w, NEW bRdy, NEW rRdy, acc # None => acc \in Requests,
         FeMove(acc, w, bRdy, rRdy), NEW pop \in {0, 1}, NEW add \in {0, 1},
         pop = 1 <=> Pops, add = 1 <=> (acc # None /\ ~FE!Long(acc))
  PROVE  /\ q' \in Seq(Requests) /\ Len(q') = Len(q) - pop + add
         /\ \A i \in 1 .. Len(q) - pop : q'[i] = q[i + pop]
         /\ add = 1 => q'[Len(q')] = acc
<1>1. q' = Shift(q, acc, pop, add)
  BY DEF FeMove, Pops, Shift
<1>2. pop = 1 => q # <<>>
  BY DEF Pops
<1>3. q \in Seq(Requests)
  BY DEF Types
<1>4. add = 1 => acc \in Requests
  OBVIOUS
<1>5. IsShift(Shift(q, acc, pop, add), Requests, q, acc, pop, add)
  BY <1>2, <1>3, <1>4, PushPop
<1> QED BY <1>1, <1>5 DEF IsShift

\* The manager's list as shifts: end takes its head, add appends.
LEMMA TodoMoves ==
  ASSUME Types, Books, Turns, Fitting, Flowing,
         NEW acc, NEW w, NEW bRdy, NEW rRdy, Chosen(acc, w, bRdy, rRdy), Edge(acc, w, bRdy, rRdy),
         NEW end \in {0, 1}, NEW add \in {0, 1},
         end = 1 <=> Done(bRdy, rRdy), add = 1 <=> acc # None
  PROVE  /\ todo' \in Seq(Todo) /\ Len(todo') = Len(todo) - end + add
         /\ \A i \in 1 .. Len(todo) - end : todo'[i] = AXI!WithBeat(w)[i + end]
         /\ add = 1 => todo'[Len(todo')] = Entry(acc)
         /\ end = 1 => todo # <<>>
<1>1. todo' = Shift(AXI!WithBeat(w), Entry(acc), end, add)
  BY MasterMoves DEF Shift
<1>2. AXI!WithBeat(w) \in Seq(Todo) /\ Len(AXI!WithBeat(w)) = Len(todo)
  BY WithBeatIs
<1>3. end = 1 => todo # <<>> /\ AXI!WithBeat(w) # <<>>
  <2>1. SUFFICES ASSUME end = 1 PROVE Len(todo) > 0
    BY <1>2
  <2>2. nCur \in {0, 1} /\ nErr \in {0, 1} /\ (nCur = 1 \/ nErr = 1)
    BY <2>1 DEF Done, ErrDone, IniDone, nCur, nErr
  <2>3. Len(q) \in Nat /\ Len(todo) = nCur + Len(q) + nErr
    BY LenProperties DEF Types, Books
  <2> QED BY <2>2, <2>3
<1>4. add = 1 => Entry(acc) \in Todo
  BY EntryType, ChosenType
<1>5. IsShift(Shift(AXI!WithBeat(w), Entry(acc), end, add), Todo, AXI!WithBeat(w), Entry(acc),
              end, add)
  BY <1>2, <1>3, <1>4, PushPop
<1> QED BY <1>1, <1>2, <1>3, <1>5 DEF IsShift

\* The books stay balanced: what is accepted, popped and answered is so on all sides.
LEMMA BooksStep ==
  ASSUME Types, Books, Turns, Fitting, Flowing,
         NEW acc, NEW w, NEW bRdy, NEW rRdy, Chosen(acc, w, bRdy, rRdy), Edge(acc, w, bRdy, rRdy)
  PROVE  /\ Books'
         /\ q' \in Seq(Requests) /\ \A i \in 1 .. Len(q') : ~FE!Long(q'[i])
         /\ todo' \in Seq(Todo)
         /\ todo # <<>> /\ ~Done(bRdy, rRdy) =>
              todo'[1].w = (IF w = None THEN todo[1].w
                            ELSE Append(todo[1].w, [data |-> w.data, strb |-> w.strb]))
         /\ todo' # <<>> /\ (todo = <<>> \/ Done(bRdy, rRdy)) => todo'[1].w = <<>>
<1> DEFINE X   == AXI!WithBeat(w)
           pop == IF Pops THEN 1 ELSE 0
           ql  == IF acc # None /\ ~FE!Long(acc) THEN 1 ELSE 0
           end == IF Done(bRdy, rRdy) THEN 1 ELSE 0
           add == IF acc # None THEN 1 ELSE 0
<1>0. FeMove(acc, w, bRdy, rRdy) /\ (acc # None => acc \in Requests)
  BY FeMoves, ChosenType DEF Flowing
<1>1. /\ q' \in Seq(Requests) /\ Len(q') = Len(q) - pop + ql
      /\ \A i \in 1 .. Len(q) - pop : q'[i] = q[i + pop]
      /\ ql = 1 => q'[Len(q')] = acc
  <2>1. pop \in {0, 1} /\ ql \in {0, 1} /\ (pop = 1 <=> Pops) /\ (ql = 1 <=> (acc # None /\ ~FE!Long(acc)))
    OBVIOUS
  <2> HIDE DEF pop, ql
  <2> QED BY <1>0, <2>1, QueueMoves
<1>2. /\ todo' \in Seq(Todo) /\ Len(todo') = Len(todo) - end + add
      /\ \A i \in 1 .. Len(todo) - end : todo'[i] = X[i + end]
      /\ add = 1 => todo'[Len(todo')] = Entry(acc)
      /\ end = 1 => todo # <<>>
  <2>1. end \in {0, 1} /\ add \in {0, 1} /\ (end = 1 <=> Done(bRdy, rRdy)) /\ (add = 1 <=> acc # None)
    OBVIOUS
  <2> HIDE DEF end, add, X
  <2>2. AXI!WithBeat(w) = X
    BY DEF X
  <2> QED BY <2>1, <2>2, TodoMoves
<1>3. /\ \A i \in 2 .. Len(todo) : X[i] = todo[i]
      /\ \A i \in 1 .. Len(todo) : \A r : Same(todo[i], r) => Same(X[i], r)
  <2>1. Len(todo) \in Nat /\ (todo = <<>> => Len(todo) = 0)
    BY LenProperties DEF Types
  <2>2. \A i \in 2 .. Len(todo) : X[i] = todo[i]
    BY WithBeatIs
  <2>3. \A r : todo # <<>> /\ Same(todo[1], r) => Same(X[1], r)
    BY WithBeatIs
  <2> HIDE DEF X
  <2>4. \A i \in 1 .. Len(todo) : i = 1 \/ i \in 2 .. Len(todo)
    BY <2>1
  <2>5. \A i \in 1 .. Len(todo) : todo # <<>>
    BY <2>1
  <2> QED BY <2>2, <2>3, <2>4, <2>5
<1>4. /\ Len(q) \in Nat /\ Len(todo) \in Nat /\ nCur \in {0, 1} /\ nErr \in {0, 1}
      /\ (q = <<>> <=> Len(q) = 0)
  BY LenProperties, EmptySeq DEF Types, nCur, nErr
<1>5. acc # None => Same(Entry(acc), acc) /\ Entry(acc).w = <<>>
  BY <1>0, EntryType
<1>6. /\ pop \in {0, 1} /\ ql \in {0, 1} /\ end \in {0, 1} /\ add \in {0, 1} /\ ql <= add
      /\ pop = 1 <=> Pops
      /\ ql = 1 <=> acc # None /\ ~FE!Long(acc)
      /\ end = 1 <=> Done(bRdy, rRdy)
      /\ add = 1 <=> acc # None
  OBVIOUS
<1> HIDE DEF X, pop, ql, end, add
<1>7. Len(q') \in Nat /\ Len(todo') \in Nat
  BY <1>1, <1>2, LenProperties
<1>8. \A i \in 1 .. Len(q') : ~FE!Long(q'[i])
  <2> SUFFICES ASSUME NEW i \in 1 .. Len(q') PROVE ~FE!Long(q'[i])
    OBVIOUS
  <2>1. CASE i <= Len(q) - pop
    <3>1. i + pop \in 1 .. Len(q) /\ i \in 1 .. Len(q) - pop
      BY <1>4, <1>6, <2>1
    <3>2. q'[i] = q[i + pop] /\ i + pop \in DOMAIN q
      BY <1>1, <3>1, LenProperties DEF Types
    <3> QED BY <3>2 DEF Types
  <2>2. CASE ~(i <= Len(q) - pop)
    <3>1. i = Len(q') /\ ql = 1
      BY <1>1, <1>4, <1>6, <1>7, <2>2
    <3> QED BY <1>1, <1>6, <3>1
  <2> QED BY <2>1, <2>2
<1>9. \A i \in 1 .. Len(todo') :
        \/ i + end \in 1 .. Len(todo) /\ i \in 1 .. Len(todo) - end /\ todo'[i] = X[i + end]
        \/ i = Len(todo') /\ add = 1 /\ todo'[i] = Entry(acc)
  <2> SUFFICES ASSUME NEW i \in 1 .. Len(todo')
               PROVE  \/ i + end \in 1 .. Len(todo) /\ i \in 1 .. Len(todo) - end /\ todo'[i] = X[i + end]
                      \/ i = Len(todo') /\ add = 1 /\ todo'[i] = Entry(acc)
    OBVIOUS
  <2>1. CASE i <= Len(todo) - end
    <3>1. i + end \in 1 .. Len(todo) /\ i \in 1 .. Len(todo) - end
      BY <1>4, <1>6, <2>1
    <3> QED BY <1>2, <3>1
  <2>2. CASE ~(i <= Len(todo) - end)
    <3>1. i = Len(todo') /\ add = 1
      BY <1>2, <1>4, <1>6, <1>7, <2>2
    <3> QED BY <1>2, <3>1
  <2> QED BY <2>1, <2>2
<1>10. \A i \in 2 .. Len(todo') : todo'[i].w = <<>>
  <2> SUFFICES ASSUME NEW i \in 2 .. Len(todo') PROVE todo'[i].w = <<>>
    OBVIOUS
  <2>1. i \in 1 .. Len(todo') /\ (i + end \in 1 .. Len(todo) => i + end \in 2 .. Len(todo))
    BY <1>6, <1>7
  <2>2. CASE i + end \in 1 .. Len(todo) /\ todo'[i] = X[i + end]
    <3>1. i + end \in 2 .. Len(todo)
      BY <2>1, <2>2
    <3>2. todo'[i] = todo[i + end]
      BY <1>3, <2>2, <3>1
    <3> QED BY <3>1, <3>2 DEF Books
  <2>3. CASE add = 1 /\ todo'[i] = Entry(acc)
    BY <1>5, <1>6, <2>3
  <2> QED BY <1>9, <2>1, <2>2, <2>3
<1>11. /\ todo # <<>> /\ ~Done(bRdy, rRdy) =>
            todo'[1].w = (IF w = None THEN todo[1].w
                          ELSE Append(todo[1].w, [data |-> w.data, strb |-> w.strb]))
       /\ todo' # <<>> /\ (todo = <<>> \/ Done(bRdy, rRdy)) => todo'[1].w = <<>>
  <2>1. ASSUME todo # <<>>, ~Done(bRdy, rRdy)
        PROVE  todo'[1].w = (IF w = None THEN todo[1].w
                          ELSE Append(todo[1].w, [data |-> w.data, strb |-> w.strb]))
    <3>1. end = 0 /\ Len(todo) \in Nat \ {0}
      BY <1>6, <2>1, EmptySeq DEF Types
    <3>2. todo'[1] = X[1]
      BY <1>2, <3>1
    <3> QED BY <2>1, <3>2, WithBeatIs DEF X
  <2>2. ASSUME todo' # <<>>, todo = <<>> \/ Done(bRdy, rRdy) PROVE todo'[1].w = <<>>
    <3>1. Len(todo') \in Nat \ {0} /\ (todo = <<>> => Len(todo) = 0)
      BY <1>2, <2>2, EmptySeq
    <3>2. 1 \in 1 .. Len(todo')
      BY <3>1
    <3>3. CASE todo'[1] = Entry(acc) /\ add = 1
      BY <1>5, <1>6, <3>3
    <3>4. CASE 1 + end \in 1 .. Len(todo) /\ todo'[1] = X[1 + end]
      <4>1. Done(bRdy, rRdy)
        BY <1>6, <2>2, <3>1, <3>4
      <4>2. end = 1 /\ 2 \in 2 .. Len(todo)
        BY <1>6, <3>4, <4>1
      <4>3. todo'[1] = todo[2]
        BY <1>3, <3>4, <4>2
      <4> QED BY <4>2, <4>3 DEF Books
    <3> QED BY <1>9, <3>2, <3>3, <3>4
  <2> QED BY <2>1, <2>2
<1>12. Books'
  <2>1. /\ iState = "S_IDLE" /\ q = <<>> => iState' = "S_IDLE"
        /\ Pops => iState' # "S_IDLE" /\ iReq' = q[1]
        /\ IniDone(bRdy, rRdy) => iState' = "S_IDLE" /\ iState # "S_IDLE"
        /\ iState # "S_IDLE" /\ ~IniDone(bRdy, rRdy) => iState' # "S_IDLE" /\ iReq' = iReq
    BY CurMoves
  <2>2. /\ acc # None => e_state = "E_IDLE"
        /\ acc # None /\ FE!Long(acc) => e_state' = "E_WAIT" /\ e_req' = acc
        /\ e_state = "E_IDLE" /\ (acc = None \/ ~FE!Long(acc)) => e_state' = "E_IDLE"
        /\ ErrDone(bRdy, rRdy) => e_state' = "E_IDLE" /\ e_state # "E_IDLE"
        /\ e_state # "E_IDLE" /\ ~ErrDone(bRdy, rRdy) => e_state' # "E_IDLE" /\ e_req' = e_req
    BY <1>0, ErrMoves
  <2>3. /\ Pops => ~Done(bRdy, rRdy)
        /\ ErrDone(bRdy, rRdy) => Len(q) = 0 /\ ~IniDone(bRdy, rRdy) /\ nCur = 0
    BY <1>4 DEF Pops, Done, ErrDone, IniDone, Turns, nCur
  <2>4. /\ nCur' = nCur + pop - (IF IniDone(bRdy, rRdy) THEN 1 ELSE 0)
        /\ nErr' = nErr + (add - ql) - (IF ErrDone(bRdy, rRdy) THEN 1 ELSE 0)
    <3>1. nCur' = nCur + pop - (IF IniDone(bRdy, rRdy) THEN 1 ELSE 0)
      BY <1>6, <2>1 DEF nCur, Pops
    <3>2. nErr' = nErr + (add - ql) - (IF ErrDone(bRdy, rRdy) THEN 1 ELSE 0)
      BY <1>6, <2>2 DEF nErr
    <3> QED BY <3>1, <3>2
  <2>5. Len(todo) = nCur + Len(q) + nErr
    BY DEF Books
  <2>6. end = (IF IniDone(bRdy, rRdy) THEN 1 ELSE 0) + (IF ErrDone(bRdy, rRdy) THEN 1 ELSE 0)
    BY <1>6, <2>3 DEF Done
  <2>7. nCur' \in {0, 1} /\ nErr' \in {0, 1}
    BY DEF nCur, nErr
  <2>8. Len(todo') = nCur' + Len(q') + nErr'
    BY <1>1, <1>2, <1>4, <1>6, <2>4, <2>5, <2>6
  <2>9. ASSUME iState' # "S_IDLE" PROVE Same(todo'[1], iReq')
    <3>1. end = 0
      BY <1>4, <1>6, <2>1, <2>3, <2>9 DEF Done, nCur, Pops
    <3>2. CASE Pops
      <4>1. nCur = 0 /\ Len(q) \in Nat \ {0}
        BY <1>4, <3>2 DEF Pops, nCur
      <4>2. 1 \in 1 .. Len(q) /\ 1 \in 1 .. Len(todo) /\ nCur + 1 = 1
        BY <1>4, <2>5, <4>1
      <4>3. Same(todo[1], q[1])
        BY <4>2 DEF Books
      <4>4. todo'[1] = X[1]
        BY <1>2, <3>1, <4>2
      <4> QED BY <1>3, <2>1, <3>2, <4>2, <4>3, <4>4
    <3>3. CASE ~Pops
      <4>1. iState # "S_IDLE" /\ iReq' = iReq /\ nCur = 1
        BY <2>1, <2>9, <3>3 DEF Pops, nCur
      <4>2. 1 \in 1 .. Len(todo)
        BY <1>4, <2>5, <4>1
      <4>3. Same(todo[1], iReq)
        BY <4>1 DEF Books
      <4>4. todo'[1] = X[1]
        BY <1>2, <3>1, <4>2
      <4> QED BY <1>3, <4>1, <4>2, <4>3, <4>4
    <3> QED BY <3>2, <3>3
  <2>10. \A i \in 1 .. Len(q') : Same(todo'[nCur' + i], q'[i])
    <3> SUFFICES ASSUME NEW i \in 1 .. Len(q') PROVE Same(todo'[nCur' + i], q'[i])
      OBVIOUS
    <3>1. CASE i <= Len(q) - pop
      <4>1. /\ i + pop \in 1 .. Len(q) /\ i \in 1 .. Len(q) - pop /\ ~ErrDone(bRdy, rRdy)
        BY <1>4, <1>6, <2>3, <3>1
      <4>2. /\ nCur' + i \in 1 .. Len(todo) - end
            /\ nCur' + i + end = nCur + (i + pop)
            /\ nCur + (i + pop) \in 1 .. Len(todo)
        BY <1>4, <1>6, <2>4, <2>5, <2>6, <2>7, <4>1
      <4>3. Same(todo[nCur + (i + pop)], q[i + pop])
        BY <4>1 DEF Books
      <4>4. todo'[nCur' + i] = X[nCur + (i + pop)] /\ q'[i] = q[i + pop]
        BY <1>1, <1>2, <4>1, <4>2
      <4> QED BY <1>3, <4>2, <4>3, <4>4
    <3>2. CASE ~(i <= Len(q) - pop)
      <4>1. i = Len(q') /\ ql = 1
        BY <1>1, <1>4, <1>6, <1>7, <3>2
      <4>2. add = 1 /\ acc # None /\ nErr = 0
        BY <1>6, <2>2, <4>1 DEF nErr
      <4>3. nErr' = 0
        BY <1>6, <2>4, <2>7, <4>1, <4>2
      <4>4. nCur' + i = Len(todo')
        BY <1>7, <2>7, <2>8, <4>1, <4>3
      <4> QED BY <1>1, <1>2, <1>5, <4>1, <4>2, <4>4
    <3> QED BY <3>1, <3>2
  <2>11. ASSUME e_state' # "E_IDLE" PROVE Same(todo'[Len(todo')], e_req')
    <3>1. CASE acc # None /\ FE!Long(acc)
      BY <1>2, <1>5, <1>6, <2>2, <3>1
    <3>2. CASE ~(acc # None /\ FE!Long(acc))
      <4>1. e_state # "E_IDLE" /\ e_req' = e_req /\ acc = None
        BY <2>2, <2>11, <3>2
      <4>2. add = 0 /\ nErr' = 1
        BY <1>6, <2>11, <4>1 DEF nErr
      <4>3. Len(todo') \in 1 .. Len(todo) - end /\ Len(todo') + end = Len(todo)
            /\ Len(todo) \in 1 .. Len(todo)
        BY <1>2, <1>4, <1>6, <1>7, <2>7, <2>8, <4>2
      <4>4. todo'[Len(todo')] = X[Len(todo)]
        BY <1>2, <4>3
      <4>5. Same(todo[Len(todo)], e_req)
        BY <4>1 DEF Books
      <4> QED BY <1>3, <4>1, <4>3, <4>4, <4>5
    <3> QED BY <3>1, <3>2
  <2> QED BY <1>10, <2>8, <2>9, <2>10, <2>11 DEF Books
<1> QED BY <1>1, <1>2, <1>8, <1>11, <1>12

-----------------------------------------------------------------------------
(* The turns stay in order.                                                *)

LEMMA StateMoves ==
  ASSUME Types, Flowing, Turns, NEW acc, NEW w, NEW bRdy, NEW rRdy,
         Chosen(acc, w, bRdy, rRdy), Edge(acc, w, bRdy, rRdy)
  PROVE  /\ iState' = "S_WREQ" => iState = "S_WREQ" \/ (Pops /\ q[1].wr)
         /\ iState' = "S_RREQ" => iState = "S_RREQ" \/ (Pops /\ ~q[1].wr)
         /\ iState' = "S_WDATA" => iState \in {"S_WREQ", "S_WDATA"}
         /\ iState' = "S_WWAIT" => iState \in {"S_WDATA", "S_WWAIT"}
         /\ iState' = "S_RDATA" => iState \in {"S_RREQ", "S_RDATA"}
         /\ iState' = "S_B" =>
              \/ iState = "S_WWAIT" /\ b2a # None /\ iB' = [id |-> b2a.id, resp |-> b2a.resp]
              \/ iState = "S_B" /\ ~bRdy /\ iB' = iB
         /\ iState \in {"S_WDATA", "S_WWAIT", "S_B"} =>
              iState' \in {"S_WDATA", "S_WWAIT", "S_B"} \/ IniDone(bRdy, rRdy)
         /\ iState = "S_RDATA" => iState' = "S_RDATA" \/ IniDone(bRdy, rRdy)
         /\ iState' \in {"S_IDLE", "S_WREQ", "S_RREQ", "S_WDATA", "S_WWAIT", "S_B", "S_RDATA"}
<1> USE IniMoves DEF IniStays, IniDone
<1>1. CASE iState = "S_IDLE"
  <2>1. q # <<>> => Head(q) = q[1]
    BY DEF Types
  <2> QED BY <1>1, <2>1 DEF IniIdle, Pops
<1>2. CASE iState = "S_WREQ" BY <1>2 DEF IniWReq
<1>3. CASE iState = "S_RREQ" BY <1>3 DEF IniRReq
<1>4. CASE iState = "S_WDATA" BY <1>4 DEF IniWData
<1>5. CASE iState = "S_WWAIT" BY <1>5 DEF IniWWait
<1>6. CASE iState = "S_B" BY <1>6 DEF IniB
<1>7. CASE iState = "S_RDATA" BY <1>7 DEF IniRData
<1> QED BY <1>1, <1>2, <1>3, <1>4, <1>5, <1>6, <1>7 DEF Flowing

\* How many W beats of the oldest request have been taken, across an edge.
LEMMA TakenMoves ==
  ASSUME Types, Books, Turns, Fitting, Flowing,
         NEW acc, NEW w, NEW bRdy, NEW rRdy, Chosen(acc, w, bRdy, rRdy), Edge(acc, w, bRdy, rRdy)
  PROVE  /\ todo # <<>> /\ ~Done(bRdy, rRdy) => taken' = taken + (IF w = None THEN 0 ELSE 1)
         /\ todo # <<>> /\ ~Done(bRdy, rRdy) /\ w = None => todo'[1].w = todo[1].w
         /\ todo' # <<>> /\ (todo = <<>> \/ Done(bRdy, rRdy)) => todo'[1].w = <<>>
<1>1. todo # <<>> => Len(todo) \in Nat \ {0} /\ todo[1] \in Todo
  BY EmptySeq, ElementOfSeq DEF Types
<1>2. todo # <<>> => todo[1].w \in Seq(LiteWBeat)
  BY <1>1 DEF Todo
<1>3. w # None => [data |-> w.data, strb |-> w.strb] \in LiteWBeat
  BY BeatMoves DEF WBeat, LiteWBeat
<1>4. todo # <<>> /\ w # None =>
        Len(Append(todo[1].w, [data |-> w.data, strb |-> w.strb])) = taken + 1
  BY <1>2, <1>3, AppendProperties DEF taken
<1>5. /\ todo # <<>> /\ ~Done(bRdy, rRdy) =>
            todo'[1].w = (IF w = None THEN todo[1].w
                          ELSE Append(todo[1].w, [data |-> w.data, strb |-> w.strb]))
      /\ todo' # <<>> /\ (todo = <<>> \/ Done(bRdy, rRdy)) => todo'[1].w = <<>>
  BY BooksStep
<1>6. todo # <<>> => taken \in Nat
  BY <1>2, LenProperties DEF taken
<1>7. todo # <<>> /\ ~Done(bRdy, rRdy) => taken' = taken + (IF w = None THEN 0 ELSE 1)
  <2>1. CASE w = None BY <1>5, <1>6, <2>1 DEF taken
  <2>2. CASE w # None BY <1>4, <1>5, <1>6, <2>2 DEF taken
  <2> QED BY <2>1, <2>2
<1> QED BY <1>5, <1>7

\* The error responder and the datapath stay out of each other's way.
LEMMA TurnsStep ==
  ASSUME Types, Books, Turns, Fitting, Flowing,
         NEW acc, NEW w, NEW bRdy, NEW rRdy, Chosen(acc, w, bRdy, rRdy), Edge(acc, w, bRdy, rRdy)
  PROVE  Turns'
<1>1. FeMove(acc, w, bRdy, rRdy) /\ (acc # None => acc \in Requests)
  BY FeMoves, ChosenType DEF Flowing
<1>2. /\ iState = "S_IDLE" /\ q = <<>> => iState' = "S_IDLE"
      /\ Pops => iState' # "S_IDLE" /\ iReq' = q[1]
      /\ IniDone(bRdy, rRdy) => iState' = "S_IDLE" /\ iState # "S_IDLE"
      /\ iState # "S_IDLE" /\ ~IniDone(bRdy, rRdy) => iState' # "S_IDLE" /\ iReq' = iReq
  BY CurMoves
<1>3. w # None => /\ Wanting /\ todo # <<>> /\ w.last = (taken = todo[1].len)
                  /\ ~Done(bRdy, rRdy) /\ ~GivesR(rRdy)
  BY BeatMoves
<1>4. /\ todo # <<>> /\ ~Done(bRdy, rRdy) => taken' = taken + (IF w = None THEN 0 ELSE 1)
      /\ todo # <<>> /\ ~Done(bRdy, rRdy) /\ w = None => todo'[1].w = todo[1].w
      /\ todo' # <<>> /\ (todo = <<>> \/ Done(bRdy, rRdy)) => todo'[1].w = <<>>
  BY TakenMoves
<1>5. rbeats' = IF Done(bRdy, rRdy) THEN 0 ELSE IF GivesR(rRdy) THEN rbeats + 1 ELSE rbeats
  BY MasterMoves
<1>6. e_state' \in {"E_WDRAIN", "E_B", "E_R"} => q' = <<>> /\ iState' = "S_IDLE"
  <2>1. q = <<>> /\ acc = None => q' = <<>>
    BY <1>1 DEF FeMove
  <2>2. CASE e_state \in {"E_WDRAIN", "E_B", "E_R"}
    BY <1>1, <1>2, <2>1, <2>2 DEF Turns, FeMove
  <2>3. CASE e_state \in {"E_IDLE", "E_WAIT"}
    BY <1>1, <1>2, <2>1, <2>3 DEF FeMove, ErrStays
  <2> QED BY <2>2, <2>3 DEF Types
<1>7. /\ iState' \in {"S_WREQ", "S_WDATA", "S_WWAIT", "S_B"} => iReq'.wr
      /\ iState' \in {"S_RREQ", "S_RDATA"} => ~iReq'.wr
  BY <1>2, StateMoves DEF Turns, Pops
<1>8. e_state' \in {"E_WDRAIN", "E_B"} => e_req'.wr
  BY <1>1 DEF FeMove, ErrStays, Turns, Types
\* The one request of an error responder at work.
<1>9. e_state \in {"E_WDRAIN", "E_B", "E_R"} =>
        /\ Len(todo) = 1 /\ todo # <<>> /\ todo[1].len = e_req.len /\ e_req.len \in Nat
        /\ ~IniDone(bRdy, rRdy) /\ acc = None
  <2> SUFFICES ASSUME e_state \in {"E_WDRAIN", "E_B", "E_R"}
               PROVE  /\ Len(todo) = 1 /\ todo # <<>> /\ todo[1].len = e_req.len /\ e_req.len \in Nat
                      /\ ~IniDone(bRdy, rRdy) /\ acc = None
    OBVIOUS
  <2>1. q = <<>> /\ iState = "S_IDLE" /\ e_state # "E_IDLE"
    BY DEF Turns
  <2>2. Len(todo) = 1
    BY <2>1 DEF Books, nCur, nErr
  <2>3. e_req.len \in Nat
    BY <2>1, RequestFields DEF Types
  <2>4. Same(todo[1], e_req)
    BY <2>1, <2>2 DEF Books
  <2>5. todo # <<>>
    BY <2>2, EmptySeq
  <2>6. acc = None
    BY <1>1, <2>1 DEF FeMove
  <2> QED BY <2>1, <2>2, <2>3, <2>4, <2>5, <2>6 DEF Same, IniDone
<1>10. e_state' = "E_R" => ~e_req'.wr /\ rbeats' = e_beat' /\ e_beat' <= e_req'.len
  <2>1. CASE e_state = "E_R"
    BY <1>1, <1>5, <1>9, <2>1 DEF FeMove, ErrStays, Turns, Types, Done, ErrDone, GivesR
  <2>2. CASE e_state = "E_WAIT" /\ e_state' = "E_R"
    <3>1. q = <<>> /\ iState = "S_IDLE" /\ ~e_req.wr /\ e_beat' = 0 /\ e_req' = e_req
      BY <1>1, <2>2 DEF FeMove, ErrStays, Types
    <3>2. rbeats = 0 /\ ~GivesR(rRdy)
      BY <2>2, <3>1 DEF Turns, GivesR
    <3>3. rbeats' = 0
      BY <1>5, <3>2
    <3>4. e_req.len \in Nat
      BY <2>2, RequestFields DEF Types
    <3> QED BY <3>1, <3>3, <3>4
  <2>3. CASE e_state \notin {"E_R", "E_WAIT"}
    BY <1>1, <2>3 DEF FeMove, ErrStays, Types
  <2> QED BY <1>1, <2>1, <2>2, <2>3 DEF FeMove, ErrStays
<1>11. e_state \in {"E_WDRAIN", "E_B", "E_R"} => taken \in Nat
  <2> SUFFICES ASSUME e_state \in {"E_WDRAIN", "E_B", "E_R"} PROVE taken \in Nat
    OBVIOUS
  <2>1. todo[1] \in Todo
    BY <1>9, ElementOfSeq DEF Types
  <2> QED BY <2>1, LenProperties DEF Todo, taken
<1>12. /\ e_state' = "E_WDRAIN" => taken' <= e_req'.len
       /\ e_state' = "E_B" => taken' = e_req'.len + 1
  <2>1. CASE e_state = "E_WDRAIN"
    <3>1. taken' = taken + (IF w = None THEN 0 ELSE 1)
      BY <1>4, <1>9, <2>1 DEF Done, ErrDone
    <3>2. taken <= e_req.len
      BY <2>1 DEF Turns
    <3>3. e_req' = e_req /\ e_state' = IF w # None /\ w.last THEN "E_B" ELSE "E_WDRAIN"
      BY <1>1, <2>1 DEF FeMove, ErrStays
    <3>4. e_req.len \in Nat /\ taken \in Nat /\ todo[1].len = e_req.len
      BY <1>9, <1>11, <2>1
    <3>5. CASE w = None
      BY <3>1, <3>2, <3>3, <3>4, <3>5
    <3>6. CASE w # None /\ taken = e_req.len
      BY <1>3, <3>1, <3>3, <3>4, <3>6
    <3>7. CASE w # None /\ taken # e_req.len
      <4>1. w.last = FALSE
        BY <1>3, <3>4, <3>7
      <4>2. taken + 1 <= e_req.len
        BY <3>2, <3>4, <3>7
      <4> QED BY <3>1, <3>3, <3>4, <3>7, <4>1, <4>2
    <3> QED BY <3>5, <3>6, <3>7
  <2>2. CASE e_state = "E_B" /\ e_state' # "E_IDLE"
    <3>1. w = None /\ ~Done(bRdy, rRdy) /\ e_req' = e_req /\ e_state' = "E_B"
      BY <1>1, <1>3, <1>9, <2>2 DEF FeMove, ErrStays, Done, ErrDone, Wanting, Turns
    <3> QED BY <1>4, <1>9, <1>11, <2>2, <3>1 DEF Turns
  <2>3. CASE e_state = "E_WAIT" /\ e_state' = "E_WDRAIN"
    <3>1. q = <<>> /\ iState = "S_IDLE" /\ e_req' = e_req /\ acc = None
      BY <1>1, <2>3 DEF FeMove, ErrStays
    <3>2. Len(todo) = 1 /\ todo # <<>>
      BY <2>3, <3>1 DEF Books, nCur, nErr
    <3>3. w = None /\ ~Done(bRdy, rRdy) /\ todo[1].w = <<>>
      BY <1>3, <2>3, <3>1, <3>2 DEF Wanting, Done, ErrDone, IniDone, Turns
    <3>4. taken' = 0
      BY <1>4, <3>2, <3>3 DEF taken
    <3>5. e_req.len \in Nat
      BY <2>3, RequestFields DEF Types
    <3> QED BY <2>3, <3>1, <3>4, <3>5
  <2>4. CASE e_state = "E_WAIT" /\ e_state' # "E_WDRAIN"
    BY <1>1, <2>4 DEF FeMove, ErrStays
  <2>5. CASE e_state = "E_IDLE"
    BY <1>1, <2>5 DEF FeMove, ErrStays
  <2>6. CASE e_state = "E_R"
    BY <1>1, <2>6 DEF FeMove, ErrStays
  <2> QED BY <2>1, <2>2, <2>3, <2>4, <2>5, <2>6 DEF Types
<1>13. iState' = "S_B" => taken' = beats' /\ iB' = [id |-> iReq'.id, resp |-> "OKAY"]
  <2> SUFFICES ASSUME iState' = "S_B"
               PROVE  taken' = beats' /\ iB' = [id |-> iReq'.id, resp |-> "OKAY"]
    OBVIOUS
  <2>1. \/ iState = "S_WWAIT" /\ b2a # None /\ iB' = [id |-> b2a.id, resp |-> b2a.resp]
        \/ iState = "S_B" /\ ~bRdy /\ iB' = iB
    BY StateMoves
  <2>2. todo # <<>> /\ iReq' = iReq /\ w = None /\ ~Done(bRdy, rRdy)
    <3>1. ~IniDone(bRdy, rRdy) /\ iReq' = iReq /\ nCur = 1
      BY <1>2, <2>1 DEF nCur
    <3>2. w = None /\ ~ErrDone(bRdy, rRdy)
      BY <1>3, <2>1 DEF Wanting, ErrDone, Turns
    <3>3. Len(todo) # 0
      BY <3>1, LenProperties DEF Books, nErr, Types
    <3> QED BY <3>1, <3>2, <3>3 DEF Done
  <2>3. taken' = taken /\ beats' = beats
    BY <1>4, <2>2 DEF taken, beats
  <2>4. taken = beats /\ iB' = [id |-> iReq.id, resp |-> "OKAY"]
    BY <2>1 DEF Fitting, Turns, WRespFlit
  <2> QED BY <2>2, <2>3, <2>4
<1>14. todo' # <<>> /\ iState' \notin {"S_WDATA", "S_WWAIT", "S_B"}
                    /\ e_state' \notin {"E_WDRAIN", "E_B"} => todo'[1].w = <<>>
  <2> SUFFICES ASSUME todo' # <<>>, iState' \notin {"S_WDATA", "S_WWAIT", "S_B"},
                      e_state' \notin {"E_WDRAIN", "E_B"}, todo # <<>>, ~Done(bRdy, rRdy)
               PROVE  todo'[1].w = <<>>
    BY <1>4
  <2>1. iState \notin {"S_WDATA", "S_WWAIT", "S_B"}
    BY StateMoves DEF Done
  <2>2. e_state \notin {"E_WDRAIN", "E_B"}
    BY <1>1 DEF FeMove, ErrStays, Done, ErrDone
  <2>3. w = None
    BY <1>3, <2>1, <2>2 DEF Wanting
  <2> QED BY <1>4, <2>1, <2>2, <2>3 DEF Turns
<1>15. iState' # "S_RDATA" /\ e_state' # "E_R" => rbeats' = 0
  <2> SUFFICES ASSUME iState' # "S_RDATA", e_state' # "E_R", ~Done(bRdy, rRdy)
               PROVE  rbeats' = 0
    BY <1>5
  <2>1. iState # "S_RDATA" /\ e_state # "E_R"
    BY <1>1, StateMoves DEF Done, ErrDone, FeMove, ErrStays
  <2> QED BY <1>5, <2>1 DEF Turns, GivesR
<1> QED BY <1>6, <1>7, <1>8, <1>10, <1>12, <1>13, <1>14, <1>15 DEF Turns

-----------------------------------------------------------------------------
(* What the phases say of the wires.                                       *)

LEMMA FlitKinds ==
  ASSUME NEW f \in Flit
  PROVE  /\ f.mt \in {"wreq", "rreq"} => f \in ReqFlit
         /\ f.mt = "wdata" => f \in WDataFlit
         /\ f.mt = "wresp" => f \in WRespFlit
         /\ f.mt = "rdata" => f \in RDataFlit
BY DEF Flit, ReqFlit, WDataFlit, WRespFlit, RDataFlit, ActFlit, IA!Misc, IA!BringUp, IA!TearDown

\* The burst in the datapath fits in the data credits.
LEMMA BurstFits ==
  ASSUME Types, Books, iState # "S_IDLE"
  PROVE  /\ beats \in Nat /\ 1 <= beats /\ 8 * beats <= D /\ D <= 128 /\ D \in Nat
         /\ iReq.len \in Nat /\ beats = iReq.len + 1 /\ iReq \in Requests
         /\ todo # <<>> /\ todo[1] \in Todo /\ Same(todo[1], iReq) /\ taken \in Nat
<1>1. iReq \in Requests /\ iReq \in Request /\ iReq.len \in Nat /\ ~FE!Long(iReq)
  BY Present, RequestFields DEF Types
<1>2. 8 * (iReq.len + 1) <= D /\ D \in Nat /\ D <= 128
  BY <1>1, Ceiling
<1>3. Len(q) \in Nat /\ Len(todo) \in Nat
  BY LenProperties DEF Types
<1>4. Len(todo) >= 1
  BY <1>3 DEF Books, nCur, nErr
<1>5. todo # <<>> /\ todo[1] \in Todo
  BY <1>3, <1>4, ElementOfSeq DEF Types
<1>6. taken \in Nat
  BY <1>5, LenProperties DEF Todo, taken
<1> QED BY <1>1, <1>2, <1>5, <1>6 DEF beats, Books

\* The phases say what is on the links and that the counters do not overflow.
LEMMA PhaseFits ==
  ASSUME Types, Running
  PROVE  Flowing /\ Fitting
<1> USE DEF Running
<1>0. D \in Nat /\ D <= 128 /\ 8 <= D
  BY Ceiling
<1>1. /\ iState \in {"S_IDLE", "S_WREQ", "S_RREQ", "S_WDATA", "S_WWAIT", "S_B", "S_RDATA"}
      /\ tState \in {"S_IDLE", "S_WBEAT", "S_WRESP", "S_RBEAT"}
      /\ a2b # None => a2b.mt \in {"wreq", "rreq", "wdata"}
      /\ b2a # None => b2a.mt \in {"wresp", "rdata"}
      /\ iState = "S_RDATA" /\ b2a # None => b2a.mt = "rdata"
      /\ iState = "S_WWAIT" /\ b2a # None => b2a.mt = "wresp" /\ b2a.id = iReq.id /\ taken = beats
      /\ tState = "S_IDLE" /\ a2b # None =>
           a2b.mt \in {"wreq", "rreq"} /\ a2b.req = iReq /\ iState # "S_IDLE"
      /\ tState = "S_WBEAT" /\ a2b # None => a2b.mt = "wdata"
  BY DEF Phase, Home, WReqOut, RReqOut, Requested, Writing, Written, WriteDone, WRespOut, Reading
<1>2. iState = "S_WDATA" /\ iWbeat = None => taken <= iReq.len
  <2> SUFFICES ASSUME iState = "S_WDATA", iWbeat = None PROVE taken <= iReq.len
    OBVIOUS
  <2>1. /\ iReq.len \in Nat /\ taken \in Nat /\ beats = iReq.len + 1
    BY BurstFits
  <2>2. WReqOut \/ Writing
    BY DEF Phase, Home, WReqOut, RReqOut, Requested, Writing, Written, WriteDone, WRespOut, Reading
  <2> QED BY <2>1, <2>2 DEF WReqOut, Writing
<1>3. iRet \in [rdata : 0 .. 128, wresp : 0 .. 8]
  <2>1. CASE Home
    <3>1. PICK r \in 0 .. D : \E p \in 0 .. 1 : iRet = [rdata |-> r, wresp |-> p]
      BY <2>1 DEF Home
    <3>2. PICK p \in 0 .. 1 : iRet = [rdata |-> r, wresp |-> p]
      BY <3>1
    <3> QED BY <1>0, <3>2
  <2>2. CASE Reading
    <3>1. 8 * rbeats \in 0 .. 128
      <4>1. /\ iReq.len \in Nat /\ 8 * (iReq.len + 1) <= D
        BY <2>2, BurstFits DEF Reading
      <4>2. rbeats \in Nat /\ rbeats <= iReq.len
        BY <2>2 DEF Reading, Types
      <4> QED BY <1>0, <4>1, <4>2
    <3> QED BY <2>2, <3>1 DEF Reading
  <2>3. CASE WReqOut \/ RReqOut \/ Writing \/ WriteDone \/ WRespOut
    BY <2>3 DEF WReqOut, RReqOut, Requested, Writing, Written, WriteDone, WRespOut, INI!NoReturn
  <2> QED BY <2>1, <2>2, <2>3 DEF Phase
<1>4. tRet \in [wreq : 0 .. 128, rreq : 0 .. 128, wdata : 0 .. 128]
  <2>1. CASE Writing
    <3>1. 8 * (tBeat + One(tWbeat # None)) \in 0 .. 128
      <4>1. /\ iReq.len \in Nat /\ 8 * (iReq.len + 1) <= D
        BY <2>1, BurstFits DEF Writing
      <4>2. tBeat \in Nat /\ tBeat <= iReq.len
        BY <2>1 DEF Writing, Types
      <4>3. One(tWbeat # None) \in {0, 1}
        BY DEF One
      <4> HIDE DEF Running
      <4> QED BY <1>0, <4>1, <4>2, <4>3
    <3> QED BY <2>1, <3>1 DEF Writing
  <2>2. CASE WriteDone
    <3>1. 8 * beats \in 0 .. 128
      <4>1. /\ beats \in Nat /\ 8 * beats <= D
        BY <2>2, BurstFits DEF WriteDone, Written
      <4> QED BY <1>0, <4>1
    <3> QED BY <2>2, <3>1 DEF WriteDone
  <2>3. CASE Home \/ WReqOut \/ RReqOut \/ WRespOut \/ Reading
    BY <2>3 DEF Home, WReqOut, RReqOut, Requested, WRespOut, Reading, TGT!NoReturn
  <2> QED BY <2>1, <2>2, <2>3 DEF Phase
<1>5. Flowing
  BY <1>1, <1>3, <1>4 DEF Flowing
<1>6. /\ a2b # None => a2b \in Flit
      /\ b2a # None => b2a \in Flit
  BY DEF Types
<1> QED BY <1>1, <1>2, <1>5, <1>6, FlitKinds DEF Fitting

-----------------------------------------------------------------------------
(* Types.                                                                  *)

LEMMA NextAddr ==
  ASSUME Types, tReq \in Requests
  PROVE  TGT!next_addr \in Nat
<1>1. /\ tReq.addr \in Nat /\ tReq.len \in Nat /\ tReq.size \in {0, 1, 2}
      /\ tReq.burst \in {"FIXED", "INCR", "WRAP"}
      /\ tReq.burst = "WRAP" => tReq.len + 1 \in {2, 4, 8, 16}
      /\ tAddr \in Nat
  BY RequestFields, RequestsAssumption DEF Types
<1>2. TGT!Bytes(tReq.size) \in {1, 2, 4}
  <2>1. \A s \in {0, 1, 2} : 2 ^ s \in {1, 2, 4}
    <3>1. 2 ^ 0 = 1 /\ 2 ^ 1 = 2 /\ 2 ^ 2 = 4
      OBVIOUS
    <3> QED BY <3>1
  <2> QED BY <1>1, <2>1 DEF TGT!Bytes
<1>3. tReq.burst = "WRAP" =>
        LET t == (tReq.len + 1) * TGT!Bytes(tReq.size) IN
        t \in {2, 4, 8, 16, 32, 64} /\ TGT!WrapLow(tReq.addr, t) \in Nat
  <2>1. \A n \in {2, 4, 8, 16}, m \in {1, 2, 4} : n * m \in {2, 4, 8, 16, 32, 64}
    OBVIOUS
  <2>2. \A t \in {2, 4, 8, 16, 32, 64}, b \in Nat : b - (b % t) \in Nat
    OBVIOUS
  <2> QED BY <1>1, <1>2, <2>1, <2>2 DEF TGT!WrapLow
<1> QED BY <1>1, <1>2, <1>3 DEF TGT!next_addr, TGT!axi_burst_next

\* The memory's registers keep their types.
LEMMA MemTypes ==
  ASSUME Types, NEW acc, NEW w, NEW bRdy, NEW rRdy, Edge(acc, w, bRdy, rRdy)
  PROVE  /\ mem' \in [0 .. WORDS - 1 -> Nat] /\ awaddr_q' \in 0 .. WORDS - 1
         /\ wbeat_q' \in LiteWBeat /\ RDATA' \in Nat
         /\ BVALID' \in BOOLEAN /\ RVALID' \in BOOLEAN
         /\ aw_taken' \in BOOLEAN /\ w_taken' \in BOOLEAN
<1>1. MEM!Word(tAddr) \in 0 .. WORDS - 1
  <2>1. WORDS \in Nat \ {0}
    BY AxiUcieMemChainAssumption
  <2>2. \A n \in Nat : (n \div 4) % WORDS \in 0 .. WORDS - 1
    BY <2>1
  <2> QED BY <2>2 DEF MEM!Word, Types
<1>2. mem[MEM!Word(tAddr)] \in Nat
  BY <1>1 DEF Types
<1>3. mem' \in [0 .. WORDS - 1 -> Nat]
  BY MemMoves DEF Types, LiteWBeat
<1>4. awaddr_q' \in 0 .. WORDS - 1
  BY <1>1, MemMoves DEF Types
<1>5. wbeat_q' \in LiteWBeat
  BY MemMoves DEF Types, wValid
<1>6. RDATA' \in Nat
  BY <1>2, MemMoves DEF Types
<1>7. BVALID' \in BOOLEAN /\ aw_taken' \in BOOLEAN /\ w_taken' \in BOOLEAN
  BY MemMoves DEF Types, MEM!do_write, awValid, wValid
<1>8. RVALID' \in BOOLEAN
  BY MemMoves DEF Types, arValid
<1> QED BY <1>3, <1>4, <1>5, <1>6, <1>7, <1>8

\* Every register keeps its type.
LEMMA TypesStep ==
  ASSUME Types, Books, Turns, Fitting, Flowing,
         NEW acc, NEW w, NEW bRdy, NEW rRdy, Chosen(acc, w, bRdy, rRdy), Edge(acc, w, bRdy, rRdy)
  PROVE  Types'
<1>1. FeMove(acc, w, bRdy, rRdy) /\ (acc # None => acc \in Requests)
  BY FeMoves, ChosenType DEF Flowing
<1>2. /\ q' \in Seq(Requests) /\ \A i \in DOMAIN q' : ~FE!Long(q'[i])
      /\ todo' \in Seq(Todo)
  <2>1. /\ q' \in Seq(Requests) /\ \A i \in 1 .. Len(q') : ~FE!Long(q'[i])
        /\ todo' \in Seq(Todo)
    BY BooksStep
  <2> QED BY <2>1, LenProperties
<1>3. /\ e_state' \in {"E_IDLE", "E_WAIT", "E_WDRAIN", "E_B", "E_R"}
      /\ e_state' # "E_IDLE" => e_req' \in Requests /\ FE!Long(e_req')
      /\ e_beat' \in Nat
  BY <1>1 DEF FeMove, ErrStays, Types
<1>4. iState' # "S_IDLE" => iReq' \in Requests /\ ~FE!Long(iReq')
  <2>1. q # <<>> => 1 \in DOMAIN q /\ q[1] \in Requests
    BY EmptySeq, LenProperties, ElementOfSeq DEF Types
  <2> QED BY <2>1, CurMoves DEF Types, Pops
<1>5. iWbeat' \in WBeat \cup {None}
  <2>1. w \in WBeat \cup {None}
    BY BeatMoves
  <2>2. iWbeat' \in {iWbeat, w, None}
    <3> USE IniMoves DEF IniStays
    <3>1. CASE iState = "S_IDLE"
      BY <3>1 DEF IniIdle
    <3>2. CASE iState = "S_WREQ" BY <3>2 DEF IniWReq
    <3>3. CASE iState = "S_RREQ" BY <3>3 DEF IniRReq
    <3>4. CASE iState = "S_WDATA" BY <3>4 DEF IniWData
    <3>5. CASE iState = "S_WWAIT" BY <3>5 DEF IniWWait
    <3>6. CASE iState = "S_B" BY <3>6 DEF IniB
    <3>7. CASE iState = "S_RDATA" BY <3>7 DEF IniRData
    <3> QED BY <3>1, <3>2, <3>3, <3>4, <3>5, <3>6, <3>7 DEF Flowing
  <2> QED BY <2>1, <2>2 DEF Types
<1>6. a2b' \in Flit \cup {None} /\ b2a' \in Flit \cup {None} /\ iPend' = FALSE /\ tPend' = FALSE
  BY LinkMoves, IniFlits, TgtFlits DEF Types
<1>7. a2b # None /\ tState = "S_IDLE" => a2b.req \in Requests
  BY DEF Fitting, Types
<1>8. tState \in {"S_IDLE", "S_WBEAT", "S_WRESP", "S_RBEAT"}
  BY DEF Flowing
<1>9. /\ tState' # "S_IDLE" => tReq' \in Requests
      /\ tAddr' \in Nat /\ tBeat' \in Nat
      /\ tWbeat' \in LiteWBeat \cup {None} /\ tRbeat' \in LiteRBeat \cup {None}
      /\ tBresp' = "OKAY"
      /\ tAwDone' \in BOOLEAN /\ tWDone' \in BOOLEAN /\ tArDone' \in BOOLEAN
  <2>0. /\ tState # "S_IDLE" => tReq \in Requests
        /\ tAddr \in Nat /\ tBeat \in Nat
        /\ tWbeat \in LiteWBeat \cup {None} /\ tRbeat \in LiteRBeat \cup {None}
        /\ tBresp = "OKAY"
        /\ tAwDone \in BOOLEAN /\ tWDone \in BOOLEAN /\ tArDone \in BOOLEAN
        /\ RDATA \in Nat /\ tBeat + 1 \in Nat
    BY DEF Types
  <2> USE <2>0 DEF TgtStays
  <2>1. CASE tState = "S_IDLE"
    <3>1. a2b # None => a2b.req.addr \in Nat
      BY <1>7, <2>1, RequestFields
    <3>2. TgtIdle
      BY <2>1, TgtMoves
    <3>3. CASE a2b = None BY <2>1, <3>2, <3>3 DEF TgtIdle
    <3>4. CASE a2b # None
      <4>1. tReq' = a2b.req /\ tAddr' = a2b.req.addr /\ tBeat' = 0 /\ tBresp' = tBresp
        BY <3>2, <3>4 DEF TgtIdle
      <4>2. /\ tWbeat' \in {None, tWbeat} /\ tRbeat' \in {None, tRbeat}
            /\ tAwDone' \in {FALSE, tAwDone} /\ tWDone' \in {FALSE, tWDone}
            /\ tArDone' \in {FALSE, tArDone}
        BY <3>2, <3>4 DEF TgtIdle
      <4>3. tAwDone' \in BOOLEAN /\ tWDone' \in BOOLEAN /\ tArDone' \in BOOLEAN
        BY <4>2
      <4> QED BY <1>7, <2>1, <3>1, <3>4, <4>1, <4>2, <4>3
    <3> QED BY <3>3, <3>4
  <2>2. CASE tState = "S_WBEAT" /\ tWbeat = None
    <3>1. a2b # None => [data |-> a2b.data, strb |-> a2b.strb] \in LiteWBeat
      BY <2>2 DEF Fitting, WDataFlit, LiteWBeat
    <3>2. TgtTakes
      BY <2>2, TgtMoves
    <3> QED BY <2>2, <3>1, <3>2 DEF TgtTakes
  <2>3. CASE tState = "S_WBEAT" /\ tWbeat # None
    <3>1. TgtWrites
      BY <2>3, TgtMoves
    <3>2. TGT!next_addr \in Nat
      BY <2>3, NextAddr
    <3>3. tAwDone' \in BOOLEAN /\ tWDone' \in BOOLEAN
      BY <3>1 DEF TgtWrites
    <3> QED BY <2>3, <3>1, <3>2, <3>3 DEF TgtWrites
  <2>4. CASE tState = "S_WRESP"
    <3>1. TgtAnswers(rRdy)
      BY <2>4, TgtMoves
    <3> QED BY <2>4, <3>1 DEF TgtAnswers
  <2>5. CASE tState = "S_RBEAT" /\ tRbeat = None
    <3>1. TgtReads
      BY <2>5, TgtMoves
    <3>2. tArDone' \in BOOLEAN
      BY <3>1 DEF TgtReads
    <3> QED BY <2>5, <3>1, <3>2 DEF TgtReads, LiteRBeat
  <2>6. CASE tState = "S_RBEAT" /\ tRbeat # None
    <3>1. TgtSends(rRdy)
      BY <2>6, TgtMoves
    <3>2. TGT!next_addr \in Nat
      BY <2>6, NextAddr
    <3> QED BY <2>6, <3>1, <3>2 DEF TgtSends
  <2> QED BY <1>8, <2>1, <2>2, <2>3, <2>4, <2>5, <2>6
<1>10. /\ mem' \in [0 .. WORDS - 1 -> Nat] /\ awaddr_q' \in 0 .. WORDS - 1
       /\ wbeat_q' \in LiteWBeat /\ RDATA' \in Nat
       /\ BVALID' \in BOOLEAN /\ RVALID' \in BOOLEAN
       /\ aw_taken' \in BOOLEAN /\ w_taken' \in BOOLEAN
  BY MemTypes
<1>11. rbeats' \in Nat /\ stamp' \in Nat
  <2>1. rbeats + 1 \in Nat /\ rbeats \in Nat
    BY DEF Types
  <2>2. stamp' \in Nat
    BY MasterMoves
  <2>3. rbeats' = IF Done(bRdy, rRdy) THEN 0 ELSE IF GivesR(rRdy) THEN rbeats + 1 ELSE rbeats
    BY MasterMoves
  <2> QED BY <2>1, <2>2, <2>3
<1> QED BY <1>2, <1>3, <1>4, <1>5, <1>6, <1>9, <1>10, <1>11 DEF Types

-----------------------------------------------------------------------------
(* A burst goes from phase to phase.                                       *)

\* A return that covers what is missing brings an end back to its ceiling.
LEMMA IniGrants3 ==
  ASSUME NEW mc \in MsgCredit, NEW a \in 0 .. 3, NEW b \in 0 .. 3, NEW c \in 0 .. D,
         iCr = [wreq |-> a, rreq |-> b, wdata |-> c],
         a + Decoded(mc.wreq) >= 3, b + Decoded(mc.rreq) >= 3, c + Decoded(mc.wdata) >= D
  PROVE  INI!Grant(mc) = iFull
<1>1. D \in Nat
  BY Ceiling
<1>2. /\ Decoded(mc.wreq) \in Nat /\ Decoded(mc.rreq) \in Nat /\ Decoded(mc.wdata) \in Nat
  BY Decodes, Worths DEF MsgCredit
<1>3. /\ INI!cred_decode(mc.wreq) = Decoded(mc.wreq)
      /\ INI!cred_decode(mc.rreq) = Decoded(mc.rreq)
      /\ INI!cred_decode(mc.wdata) = Decoded(mc.wdata)
  BY Decodes
<1>4. /\ INI!sat_add(a, Decoded(mc.wreq), 3) = 3
      /\ INI!sat_add(b, Decoded(mc.rreq), 3) = 3
      /\ INI!sat_add(c, Decoded(mc.wdata), D) = D
  BY <1>1, <1>2 DEF INI!sat_add
<1> QED BY <1>3, <1>4 DEF INI!Grant, iFull, C!WRITEREQ_GRAN, C!READREQ_GRAN, D

\* Likewise at the target.
LEMMA TgtGrants3 ==
  ASSUME NEW mc \in MsgCredit, NEW a \in 0 .. D, NEW b \in 0 .. 1,
         tCr = [rdata |-> a, wresp |-> b],
         a + Decoded(mc.rdata) >= D, b + Decoded(mc.wresp) >= 1
  PROVE  TGT!Grant(mc) = tFull
<1>1. D \in Nat
  BY Ceiling
<1>2. /\ Decoded(mc.rdata) \in Nat /\ Decoded(mc.wresp) \in Nat
  BY Decodes, Worths DEF MsgCredit
<1>3. /\ TGT!cred_decode(mc.rdata) = Decoded(mc.rdata)
      /\ TGT!cred_decode(mc.wresp) = Decoded(mc.wresp)
  BY Decodes
<1>4. /\ TGT!sat_add(a, Decoded(mc.rdata), D) = D
      /\ TGT!sat_add(b, Decoded(mc.wresp), 1) = 1
  BY <1>1, <1>2 DEF TGT!sat_add
<1> QED BY <1>3, <1>4 DEF TGT!Grant, tFull, C!WRITERESP_GRAN, D

\* The return on a request flit does.
LEMMA Repaid ==
  ASSUME NEW mc \in MsgCredit, Repays(mc)
  PROVE  TGT!Grant(mc) = tFull
<1>0. D \in Nat
  BY Ceiling
<1>1. PICK r \in 0 .. D : \E p \in 0 .. 1 :
        /\ tCr = [rdata |-> D - r, wresp |-> 1 - p]
        /\ Decoded(mc.rdata) >= r /\ Decoded(mc.wresp) >= p
  BY DEF Repays
<1>2. PICK p \in 0 .. 1 : /\ tCr = [rdata |-> D - r, wresp |-> 1 - p]
                          /\ Decoded(mc.rdata) >= r /\ Decoded(mc.wresp) >= p
  BY <1>1
<1>3. Decoded(mc.rdata) \in Nat /\ Decoded(mc.wresp) \in Nat
  BY Decodes, Worths DEF MsgCredit
<1>4. D - r \in 0 .. D /\ 1 - p \in 0 .. 1 /\ D - r + Decoded(mc.rdata) >= D
      /\ 1 - p + Decoded(mc.wresp) >= 1
  BY <1>0, <1>2, <1>3
<1> QED BY <1>2, <1>4, TgtGrants3

\* The datapath sends at most what its state says.
LEMMA Sends ==
  /\ iState \in {"S_IDLE", "S_WWAIT", "S_B", "S_RDATA"} => INI!dtx = None
  /\ iState = "S_WREQ" /\ iCr.wreq >= 3 =>
       INI!dtx = [mt |-> "wreq", req |-> iReq, mc |-> INI!return_credit]
  /\ iState = "S_RREQ" /\ iCr.rreq >= 3 =>
       INI!dtx = [mt |-> "rreq", req |-> iReq, mc |-> INI!return_credit]
  /\ iState = "S_WDATA" /\ iWbeat = None => INI!dtx = None
  /\ iState = "S_WDATA" /\ iWbeat # None /\ iCr.wdata >= 8 =>
       INI!dtx = [mt |-> "wdata", data |-> iWbeat.data, strb |-> iWbeat.strb,
                  mc |-> INI!return_credit]
  /\ tState \in {"S_IDLE", "S_WBEAT"} => TGT!rsp = None
  /\ tState = "S_WRESP" /\ tCr.wresp >= 1 =>
       TGT!rsp = [mt |-> "wresp", id |-> tReq.id, resp |-> tBresp, mc |-> TGT!return_credit]
  /\ tState = "S_RBEAT" /\ tRbeat = None => TGT!rsp = None
  /\ tState = "S_RBEAT" /\ tRbeat # None /\ tCr.rdata >= 8 =>
       TGT!rsp = [mt |-> "rdata", id |-> tReq.id, resp |-> tRbeat.resp,
                  data |-> tRbeat.data, last |-> TGT!last_beat, mc |-> TGT!return_credit]
BY DEF INI!dtx, INI!wreq_ok, INI!rreq_ok, INI!wdata_ok, INI!WRITEREQ_GRAN, INI!READREQ_GRAN,
   INI!WRITEDATA_GRAN, TGT!rsp, TGT!WRITERESP_GRAN, TGT!READDATA_GRAN

\* Between bursts: stay, or send the request.
LEMMA HomeStep ==
  ASSUME Types, Books, Turns, Fitting, Flowing, Home,
         NEW acc, NEW w, NEW bRdy, NEW rRdy, Chosen(acc, w, bRdy, rRdy), Edge(acc, w, bRdy, rRdy)
  PROVE  Phase'
<1>0. D \in Nat /\ D <= 128
  BY Ceiling
<1>1. tState' = "S_IDLE" /\ tRet' = TGT!NoReturn /\ tCr' = tCr
  BY TgtMoves DEF Home, TgtIdle, TgtStays
<1>2. b2a' = None /\ a2b' = INI!dtx
  BY LinkMoves, Sends DEF Home, aGo, bGo
<1>3. PICK r \in 0 .. D : \E p \in 0 .. 1 :
        tCr = [rdata |-> D - r, wresp |-> 1 - p] /\ iRet = [rdata |-> r, wresp |-> p]
  BY DEF Home
<1>4. PICK p \in 0 .. 1 :
        tCr = [rdata |-> D - r, wresp |-> 1 - p] /\ iRet = [rdata |-> r, wresp |-> p]
  BY <1>3
<1>5. ASSUME iState' \in {"S_IDLE", "S_WREQ", "S_RREQ", "S_B"}, a2b' = None, iWbeat' = None,
             iCr' = iCr, iRet' = iRet
      PROVE  Phase'
  BY <1>1, <1>2, <1>3, <1>5 DEF Home, Phase, iFull
<1>6. CASE iState = "S_IDLE"
  BY <1>2, <1>5, <1>6, IniMoves, Sends DEF IniIdle, IniStays, Home
<1>7. CASE iState = "S_B"
  BY <1>2, <1>5, <1>7, IniMoves, Sends DEF IniB, IniStays, Home
\* A request leaves with every credit owed.
<1>8. iState \in {"S_WREQ", "S_RREQ"} =>
        /\ INI!return_credit \in MsgCredit
        /\ Decoded(INI!return_credit.rdata) >= r /\ Decoded(INI!return_credit.wresp) >= p
        /\ \A mt \in {"wreq", "rreq"} :
             [mt |-> mt, req |-> iReq, mc |-> INI!return_credit] # None
  <2>1. r \in 0 .. 128 /\ p \in 0 .. 8
    BY <1>0
  <2>2. INI!return_credit.rdata = INI!cred_encode_ge(r)
        /\ INI!return_credit.wresp = INI!cred_encode_ge2(p)
    BY <1>4 DEF INI!return_credit, INI!mk_msgcredit
  <2>3. /\ INI!return_credit \in MsgCredit
        /\ Decoded(INI!return_credit.rdata) >= r /\ Decoded(INI!return_credit.wresp) >= p
    BY <2>1, <2>2, Encodes, Decodes, IniFlits
  <2> QED BY <2>3, IniFlits, Present
<1>9. iState \in {"S_WREQ", "S_RREQ"} =>
        /\ w = None /\ ~Done(bRdy, rRdy) /\ todo # <<>> /\ taken' = 0
        /\ iState' # "S_IDLE" => rbeats' = 0
  <2> SUFFICES ASSUME iState \in {"S_WREQ", "S_RREQ"}
               PROVE  /\ w = None /\ ~Done(bRdy, rRdy) /\ todo # <<>> /\ taken' = 0
                      /\ iState' # "S_IDLE" => rbeats' = 0
    OBVIOUS
  <2>1. e_state \notin {"E_WDRAIN", "E_B", "E_R"}
    BY DEF Turns
  <2>2. w = None /\ ~Done(bRdy, rRdy) /\ ~GivesR(rRdy)
    BY <2>1, BeatMoves DEF Wanting, Done, ErrDone, IniDone, GivesR
  <2>3. todo # <<>> /\ todo[1].w = <<>> /\ rbeats = 0
    BY <2>1, BurstFits DEF Turns
  <2>4. taken' = 0
    BY <2>2, <2>3, TakenMoves DEF taken
  <2>5. rbeats' = 0
    BY <2>2, <2>3, MasterMoves
  <2> QED BY <2>2, <2>3, <2>4, <2>5
<1>10. CASE iState = "S_WREQ"
  <2>1. iCr.wreq >= 3 /\ aGo
    BY DEF Home, iFull, aGo
  <2>2. /\ iState' = "S_WDATA" /\ iRet' = INI!NoReturn /\ iCr' = [wreq |-> 0, rreq |-> 3, wdata |-> D]
        /\ iReq' = iReq /\ iWbeat' = None
    BY <1>10, <2>1, IniMoves DEF IniWReq, Home, iFull
  <2>3. a2b' = [mt |-> "wreq", req |-> iReq, mc |-> INI!return_credit]
    BY <1>2, <1>10, <2>1, Sends
  <2>4. Repays(a2b.mc)'
    BY <1>1, <1>4, <1>8, <1>10, <2>3 DEF Repays, Decoded, C!cred_decode, C!Bucket
  <2>5. a2b' # None /\ a2b'.mt = "wreq" /\ a2b'.req = iReq'
    BY <1>8, <1>10, <2>2, <2>3
  <2> QED BY <1>1, <1>2, <1>9, <1>10, <2>2, <2>4, <2>5
          DEF Phase, WReqOut, Requested, INI!NoReturn, TGT!NoReturn, iFull
<1>11. CASE iState = "S_RREQ"
  <2>1. iCr.rreq >= 3 /\ aGo
    BY DEF Home, iFull, aGo
  <2>2. /\ iState' = "S_RDATA" /\ iRet' = INI!NoReturn /\ iCr' = [wreq |-> 3, rreq |-> 0, wdata |-> D]
        /\ iReq' = iReq /\ iWbeat' = None
    BY <1>11, <2>1, IniMoves DEF IniRReq, Home, iFull
  <2>3. a2b' = [mt |-> "rreq", req |-> iReq, mc |-> INI!return_credit]
    BY <1>2, <1>11, <2>1, Sends
  <2>4. Repays(a2b.mc)'
    BY <1>1, <1>4, <1>8, <1>11, <2>3 DEF Repays, Decoded, C!cred_decode, C!Bucket
  <2>5. a2b' # None /\ a2b'.mt = "rreq" /\ a2b'.req = iReq'
    BY <1>8, <1>11, <2>2, <2>3
  <2> QED BY <1>1, <1>2, <1>9, <1>11, <2>2, <2>4, <2>5
          DEF Phase, RReqOut, Requested, INI!NoReturn, TGT!NoReturn, iFull
<1> QED BY <1>6, <1>7, <1>10, <1>11 DEF Home

\* A WriteReq on the link: the target takes it at once, and the burst begins.
LEMMA WReqOutStep ==
  ASSUME Types, Books, Turns, Fitting, Flowing, WReqOut,
         NEW acc, NEW w, NEW bRdy, NEW rRdy, Chosen(acc, w, bRdy, rRdy), Edge(acc, w, bRdy, rRdy)
  PROVE  Phase'
<1>1. /\ tState' = "S_WBEAT" /\ tReq' = iReq /\ tBeat' = 0 /\ tWbeat' = None
      /\ tRet' = [wreq |-> 3, rreq |-> 0, wdata |-> 0] /\ tCr' = tFull
  <2>1. TGT!Grant(a2b.mc) = tFull
    BY Repaid, FlitCredits DEF WReqOut, Requested, Types
  <2>2. /\ tState' = "S_WBEAT" /\ tReq' = iReq /\ tBeat' = 0 /\ tWbeat' = None
        /\ tRet' = [tRet EXCEPT !.wreq = (@ + 3) % 256] /\ tCr' = TGT!Grant(a2b.mc)
    BY TgtMoves DEF WReqOut, Requested, TgtIdle
  <2>3. (0 + 3) % 256 = 3
    OBVIOUS
  <2> QED BY <2>1, <2>2, <2>3 DEF WReqOut, Requested, TGT!NoReturn
<1>2. /\ iState' = "S_WDATA" /\ iReq' = iReq /\ iWbeat' = w
      /\ iCr' = iCr /\ iRet' = iRet
  BY IniMoves DEF WReqOut, Requested, IniWData
<1>3. a2b' = None /\ b2a' = None
  BY LinkMoves, Sends DEF WReqOut, Requested, aGo, bGo, TGT!drx_ready
<1>4. /\ beats \in Nat /\ beats = iReq.len + 1 /\ iReq.len \in Nat /\ todo # <<>> /\ D \in Nat
      /\ todo[1].len = iReq.len
  BY BurstFits DEF WReqOut, Same
<1>5. ~Done(bRdy, rRdy)
  BY DEF WReqOut, Done, ErrDone, IniDone, Turns
<1>6. taken' = IF w = None THEN 0 ELSE 1
  BY <1>4, <1>5, TakenMoves DEF WReqOut
<1>7. w # None => w.last = (iReq.len = 0)
  BY <1>4, BeatMoves DEF WReqOut
<1>8. beats' = beats
  BY <1>2 DEF beats
<1>9. tFull' = tFull /\ iFull' = iFull
  BY DEF tFull, iFull
<1>10. taken' = tBeat' + One(tWbeat # None)' + One(a2b # None)' + One(iWbeat # None)'
  BY <1>1, <1>2, <1>3, <1>6 DEF One
<1>11. /\ iWbeat' # None => iWbeat'.last = (taken' = beats')
       /\ iWbeat' = None => taken' < beats'
       /\ taken' <= beats'
  BY <1>2, <1>4, <1>6, <1>7, <1>8
<1>12. iCr' = [wreq |-> 0, rreq |-> 3, wdata |-> D - 8 * (taken' - One(iWbeat # None)')]
  <2>1. taken' - One(iWbeat # None)' = 0
    BY <1>2, <1>6 DEF One
  <2>2. D - 8 * (taken' - One(iWbeat # None)') = D
    BY <1>4, <2>1
  <2> QED BY <1>2, <2>2 DEF WReqOut
<1>13. tRet' = [wreq |-> 3, rreq |-> 0, wdata |-> 8 * (tBeat' + One(tWbeat # None)')]
  BY <1>1 DEF One
<1>14. Writing'
  <2>1. tBeat' <= iReq'.len /\ iRet' = INI!NoReturn' /\ iState' \in {"S_WDATA", "S_WWAIT"}
    BY <1>1, <1>2, <1>4 DEF WReqOut, Requested, INI!NoReturn
  <2> QED BY <1>1, <1>2, <1>3, <1>9, <1>10, <1>11, <1>12, <1>13, <2>1 DEF Writing
<1> QED BY <1>14 DEF Phase

\* A ReadReq on the link: likewise.
LEMMA RReqOutStep ==
  ASSUME Types, Books, Turns, Fitting, Flowing, RReqOut,
         NEW acc, NEW w, NEW bRdy, NEW rRdy, Chosen(acc, w, bRdy, rRdy), Edge(acc, w, bRdy, rRdy)
  PROVE  Phase'
<1>1. /\ tState' = "S_RBEAT" /\ tReq' = iReq /\ tBeat' = 0
      /\ tRet' = [wreq |-> 0, rreq |-> 3, wdata |-> 0] /\ tCr' = tFull
  <2>1. TGT!Grant(a2b.mc) = tFull
    BY Repaid, FlitCredits DEF RReqOut, Requested, Types
  <2>2. /\ tState' = "S_RBEAT" /\ tReq' = iReq /\ tBeat' = 0
        /\ tRet' = [tRet EXCEPT !.rreq = (@ + 3) % 256] /\ tCr' = TGT!Grant(a2b.mc)
    BY TgtMoves DEF RReqOut, Requested, TgtIdle
  <2>3. (0 + 3) % 256 = 3
    OBVIOUS
  <2> QED BY <2>1, <2>2, <2>3 DEF RReqOut, Requested, TGT!NoReturn
<1>2. /\ iState' = "S_RDATA" /\ iReq' = iReq /\ iWbeat' = None
      /\ iCr' = iCr /\ iRet' = iRet
  BY IniMoves DEF RReqOut, Requested, IniRData, IniStays
<1>3. a2b' = None /\ b2a' = None
  BY LinkMoves, Sends DEF RReqOut, Requested, aGo, bGo, TGT!drx_ready
<1>4. iReq.len \in Nat /\ D \in Nat
  BY BurstFits DEF RReqOut
<1>5. ~Done(bRdy, rRdy) /\ ~GivesR(rRdy)
  BY DEF RReqOut, Requested, Done, ErrDone, IniDone, GivesR, Turns
<1>6. rbeats' = 0
  BY <1>5, MasterMoves DEF RReqOut
<1>7. One(b2a # None)' = 0
  BY <1>3 DEF One
<1>8. tBeat' = rbeats' + One(b2a # None)' /\ rbeats' <= iReq'.len /\ tBeat' <= iReq'.len
  BY <1>1, <1>2, <1>4, <1>6, <1>7
<1>9. /\ iCr' = [wreq |-> 3, rreq |-> IF rbeats' = 0 THEN 0 ELSE 3, wdata |-> D]
      /\ tCr' = [rdata |-> D - 8 * tBeat', wresp |-> 1]
      /\ iRet' = [rdata |-> 8 * rbeats', wresp |-> 0]
  BY <1>1, <1>2, <1>4, <1>6 DEF RReqOut, Requested, tFull, INI!NoReturn
<1>10. Reading'
  BY <1>1, <1>2, <1>3, <1>8, <1>9 DEF Reading
<1> QED BY <1>10 DEF Phase

\* All beats written: the WriteResp goes out with the credits of the burst.
LEMMA WriteDoneStep ==
  ASSUME Types, Books, Turns, Fitting, Flowing, WriteDone,
         NEW acc, NEW w, NEW bRdy, NEW rRdy, Chosen(acc, w, bRdy, rRdy), Edge(acc, w, bRdy, rRdy)
  PROVE  Phase'
<1>1. /\ beats \in Nat /\ 8 * beats <= 128 /\ D \in Nat /\ todo # <<>>
  BY BurstFits DEF WriteDone, Written
<1>2. tCr.wresp >= 1 /\ bGo(rRdy) /\ tCr = [rdata |-> D, wresp |-> 1]
  BY DEF WriteDone, tFull, bGo
<1>3. /\ tState' = "S_IDLE" /\ tRet' = TGT!NoReturn /\ tCr' = [rdata |-> D, wresp |-> 0]
  BY <1>2, TgtMoves DEF WriteDone, TgtAnswers
<1>4. iState' = "S_WWAIT" /\ iReq' = iReq /\ iWbeat' = None /\ iCr' = iCr /\ iRet' = iRet
  BY IniMoves DEF WriteDone, Written, IniWWait, IniStays
<1>5. /\ a2b' = None
      /\ b2a' = [mt |-> "wresp", id |-> tReq.id, resp |-> tBresp, mc |-> TGT!return_credit]
  BY <1>2, LinkMoves, Sends DEF WriteDone, Written, aGo
<1>6. b2a' # None
  BY <1>5, TgtFlits, Present DEF WriteDone
<1>7. /\ Decoded(b2a'.mc.wreq) >= 3 /\ Decoded(b2a'.mc.wdata) >= 8 * beats
  <2>1. /\ TGT!return_credit.wreq = TGT!cred_encode_ge(3)
        /\ TGT!return_credit.wdata = TGT!cred_encode_ge(8 * beats)
    BY DEF TGT!return_credit, TGT!mk_msgcredit, WriteDone
  <2>2. 3 \in 0 .. 128 /\ 8 * beats \in 0 .. 128
    BY <1>1
  <2> QED BY <1>5, <2>1, <2>2, Encodes, Decodes
<1>8. ~Done(bRdy, rRdy) /\ w = None
  BY BeatMoves DEF WriteDone, Written, Done, ErrDone, IniDone, Wanting, Turns
<1>9. taken' = taken /\ beats' = beats
  BY <1>1, <1>4, <1>8, TakenMoves DEF taken, beats
<1>10. Written'
  BY <1>4, <1>5, <1>9 DEF Written, WriteDone, INI!NoReturn
<1>11. /\ Decoded(b2a.mc.wreq)' >= 3 /\ Decoded(b2a.mc.wdata)' >= 8 * beats'
  BY <1>7, <1>9 DEF Decoded, C!cred_decode, C!Bucket
<1>12. WRespOut'
  BY <1>3, <1>4, <1>5, <1>6, <1>10, <1>11 DEF WRespOut, WriteDone, TGT!NoReturn
<1> QED BY <1>12 DEF Phase

\* A WriteResp on the link: the initiator takes it and its credits.
LEMMA WRespOutStep ==
  ASSUME Types, Books, Turns, Fitting, Flowing, WRespOut,
         NEW acc, NEW w, NEW bRdy, NEW rRdy, Chosen(acc, w, bRdy, rRdy), Edge(acc, w, bRdy, rRdy)
  PROVE  Phase'
<1>1. /\ beats \in Nat /\ 8 * beats <= D /\ D \in Nat
  BY BurstFits DEF WRespOut, Written
<1>2. b2a \in Flit /\ b2a.mc \in MsgCredit
  BY FlitCredits DEF WRespOut, Types
<1>3. INI!Grant(b2a.mc) = iFull
  <2>1. /\ 0 \in 0 .. 3 /\ 3 \in 0 .. 3 /\ D - 8 * beats \in 0 .. D
    BY <1>1
  <2>2. /\ 0 + Decoded(b2a.mc.wreq) >= 3 /\ 3 + Decoded(b2a.mc.rreq) >= 3
        /\ D - 8 * beats + Decoded(b2a.mc.wdata) >= D
    BY <1>1, <1>2, FlitCredits DEF WRespOut
  <2>3. iCr = [wreq |-> 0, rreq |-> 3, wdata |-> D - 8 * beats]
    BY DEF WRespOut, Written
  <2> HIDE DEF iFull
  <2> QED BY <1>2, <2>1, <2>2, <2>3, IniGrants3
<1>4. /\ iState' = "S_B" /\ iWbeat' = None /\ iCr' = iFull
      /\ iRet' = [rdata |-> 0, wresp |-> 1]
  <2>1. (0 + 1) % 256 = 1
    OBVIOUS
  <2>2. IniWWait
    BY IniMoves DEF WRespOut, Written
  <2> QED BY <1>3, <2>1, <2>2 DEF WRespOut, Written, IniWWait, INI!NoReturn
<1>5. tState' = "S_IDLE" /\ tRet' = TGT!NoReturn /\ tCr' = tCr
  BY TgtMoves DEF WRespOut, Written, TgtIdle, TgtStays
<1>6. a2b' = None /\ b2a' = None
  BY LinkMoves, Sends DEF WRespOut, Written, aGo, bGo, INI!drx_ready
<1>7. 0 \in 0 .. D /\ 1 \in 0 .. 1 /\ tCr' = [rdata |-> D - 0, wresp |-> 1 - 1]
  BY <1>1, <1>5 DEF WRespOut
<1>8. Home'
  BY <1>4, <1>5, <1>6, <1>7 DEF Home, TGT!NoReturn, iFull
<1> QED BY <1>8 DEF Phase

\* A beat moves from buffer to link to buffer to memory; no beat is lost.
LEMMA WritingStep ==
  ASSUME Types, Books, Turns, Fitting, Flowing, Writing,
         NEW acc, NEW w, NEW bRdy, NEW rRdy, Chosen(acc, w, bRdy, rRdy), Edge(acc, w, bRdy, rRdy)
  PROVE  Phase'
<1> DEFINE x == One(iWbeat # None)
           v == One(a2b # None)
           u == One(tWbeat # None)
           e == One(w # None)
           s == One(iWbeat # None /\ aGo)
           g == One(tWbeat = None /\ a2b # None)
           c == One(tWbeat # None /\ BVALID)
<1>1. /\ beats \in Nat /\ beats = iReq.len + 1 /\ iReq.len \in Nat /\ 8 * beats <= D
      /\ D \in Nat /\ D <= 128 /\ todo # <<>> /\ taken \in Nat /\ todo[1].len = iReq.len
      /\ tBeat \in Nat
  BY BurstFits DEF Writing, Same, Types
<1>2. ~Done(bRdy, rRdy) /\ (w # None => iState = "S_WDATA" /\ iWbeat = None)
  BY BeatMoves DEF Writing, Done, ErrDone, IniDone, Wanting, Turns
<1>3. taken' = taken + e
  BY <1>1, <1>2, TakenMoves DEF One
<1>4. w # None => w.last = (taken + 1 = beats) /\ w # None
  <2>1. w # None => w.last = (taken = iReq.len)
    BY <1>1, BeatMoves
  <2>2. (taken = iReq.len) = (taken + 1 = beats)
    BY <1>1
  <2> QED BY <2>1, <2>2
<1>5. /\ x \in {0, 1} /\ v \in {0, 1} /\ u \in {0, 1} /\ e \in {0, 1}
      /\ s \in {0, 1} /\ g \in {0, 1} /\ c \in {0, 1}
  BY DEF One
<1>6. taken = tBeat + u + v + x /\ taken <= beats /\ tBeat <= iReq.len
  BY DEF Writing
<1>7. aGo <=> (a2b = None \/ tWbeat = None)
  BY DEF aGo, TGT!drx_ready, Writing
<1>8. iCr = [wreq |-> 0, rreq |-> 3, wdata |-> D - 8 * (taken - x)]
  BY DEF Writing
<1>9. x = 1 => D - 8 * (taken - x) >= 8
  BY <1>1, <1>5, <1>6
<1>10. iWbeat # None => iCr.wdata >= 8
  BY <1>8, <1>9 DEF One
\* The initiator's side.
<1>11. /\ iReq' = iReq /\ iRet' = INI!NoReturn /\ beats' = beats
       /\ iState' = IF iState = "S_WDATA" /\ s = 1 /\ taken = beats THEN "S_WWAIT" ELSE iState
       /\ iWbeat' = IF s = 1 THEN None ELSE IF iWbeat = None THEN w ELSE iWbeat
       /\ iCr' = [wreq |-> 0, rreq |-> 3, wdata |-> IF s = 1 THEN D - 8 * (taken - x) - 8
                                                    ELSE D - 8 * (taken - x)]
  <2>1. CASE iState = "S_WDATA" /\ iWbeat = None
    BY <1>8, <2>1, IniMoves DEF IniWData, One, Writing, beats
  <2>2. CASE iState = "S_WDATA" /\ iWbeat # None
    <3>1. iWbeat.last <=> taken = beats
      BY <2>2 DEF Writing
    <3>2. IniWData(w) /\ iRet = INI!NoReturn
      BY <2>2, IniMoves DEF Writing
    <3>3. CASE aGo
      <4>1. /\ s = 1 /\ iWbeat' = None /\ iReq' = iReq /\ iRet' = iRet
            /\ iState' = IF iWbeat.last THEN "S_WWAIT" ELSE "S_WDATA"
            /\ iCr' = [iCr EXCEPT !.wdata = @ - 8]
        <5>1. iWbeat # None /\ iCr.wdata >= 8 /\ aGo
          BY <1>10, <2>2, <3>3
        <5>2. s = 1
          BY <5>1 DEF One
        <5>3. iWbeat' = None /\ iReq' = iReq /\ iRet' = iRet
          BY <3>2, <5>1 DEF IniWData
        <5>4. iState' = IF iWbeat.last THEN "S_WWAIT" ELSE "S_WDATA"
          BY <3>2, <5>1 DEF IniWData
        <5>5. iCr' = [iCr EXCEPT !.wdata = @ - 8]
          BY <3>2, <5>1 DEF IniWData
        <5> HIDE DEF s
        <5> QED BY <5>2, <5>3, <5>4, <5>5
      <4>2. iState' = IF iState = "S_WDATA" /\ s = 1 /\ taken = beats THEN "S_WWAIT" ELSE iState
        <5> HIDE DEF s
        <5>1. CASE taken = beats BY <2>2, <3>1, <4>1, <5>1
        <5>2. CASE taken # beats BY <2>2, <3>1, <4>1, <5>2
        <5> QED BY <5>1, <5>2
      <4>3. iCr' = [wreq |-> 0, rreq |-> 3, wdata |-> D - 8 * (taken - x) - 8]
        <5> DEFINE n == D - 8 * (taken - x)
        <5>1. iCr = [wreq |-> 0, rreq |-> 3, wdata |-> n]
          BY <1>8
        <5>0. n \in Int
          BY <1>1, <1>5
        <5> HIDE DEF n
        <5>2. iCr' = [wreq |-> 0, rreq |-> 3, wdata |-> n - 8]
          BY <4>1, <5>0, <5>1
        <5> QED BY <5>2 DEF n
      <4> HIDE DEF s, x
      <4> QED BY <3>2, <4>1, <4>2, <4>3 DEF beats
    <3>4. CASE ~aGo
      <4>1. s = 0 /\ UNCHANGED <<iState, iReq, iWbeat, iCr, iRet>>
        BY <2>2, <3>2, <3>4 DEF IniWData, IniStays, One
      <4> HIDE DEF s, x
      <4> QED BY <1>8, <2>2, <3>2, <4>1 DEF beats
    <3> QED BY <3>3, <3>4
  <2>3. CASE iState = "S_WWAIT"
    BY <1>2, <1>8, <2>3, IniMoves DEF IniWWait, IniStays, One, Writing, beats
  <2> QED BY <2>1, <2>2, <2>3 DEF Writing
<1>12. One(iWbeat # None)' = x + e - s
  BY <1>2, <1>11 DEF One
\* The link, and the target's side.
<1>13. /\ b2a' = None /\ One(a2b # None)' = v + s - g
       /\ a2b' # None => a2b'.mt = "wdata"
  <2>1. b2a' = None
    BY LinkMoves, Sends DEF Writing, bGo
  <2>2. a2b' = IF aGo THEN INI!dtx ELSE a2b
    BY LinkMoves
  <2>3. s = 1 => INI!dtx # None /\ INI!dtx.mt = "wdata"
    <3> SUFFICES ASSUME s = 1 PROVE INI!dtx # None /\ INI!dtx.mt = "wdata"
      OBVIOUS
    <3>1. INI!dtx = [mt |-> "wdata", data |-> iWbeat.data, strb |-> iWbeat.strb,
                     mc |-> INI!return_credit]
      BY <1>10, Sends DEF One, Writing
    <3>2. INI!return_credit \in MsgCredit
      BY IniFlits
    <3>3. iWbeat \in WBeat
      BY DEF One, Types
    <3>4. [mt |-> "wdata", data |-> iWbeat.data, strb |-> iWbeat.strb,
           mc |-> INI!return_credit] \in Flit
      BY <3>2, <3>3 DEF WBeat, Flit, WDataFlit
    <3> QED BY <3>1, <3>4, Present
  <2>4. aGo /\ s = 0 => INI!dtx = None
    BY Sends DEF One, Writing
  <2>5. CASE aGo
    <3>1. v - g = 0
      BY <1>7, <2>5 DEF One
    <3>2. One(a2b # None)' = s /\ (a2b' # None => a2b'.mt = "wdata")
      BY <1>5, <2>2, <2>3, <2>4, <2>5 DEF One
    <3> HIDE DEF v, g, s
    <3> QED BY <1>5, <2>1, <3>1, <3>2
  <2>6. CASE ~aGo
    <3>1. v = 1 /\ g = 0 /\ s = 0 /\ a2b' = a2b
      BY <1>7, <2>2, <2>6 DEF One
    <3>2. One(a2b # None)' = 1 /\ a2b'.mt = "wdata"
      BY <1>7, <2>6, <3>1 DEF One, Writing
    <3> HIDE DEF v, g, s
    <3> QED BY <2>1, <3>1, <3>2
  <2> QED BY <2>1, <2>5, <2>6
<1>14. /\ tReq' = iReq /\ tCr' = tFull /\ tBeat' = tBeat + c
       /\ One(tWbeat # None)' = u + g - c
       /\ tState' = IF c = 1 /\ tBeat = iReq.len THEN "S_WRESP" ELSE "S_WBEAT"
       /\ tRet' = [wreq |-> 3, rreq |-> 0, wdata |-> 8 * (tBeat + u) + 8 * g]
  <2>0. tRet = [wreq |-> 3, rreq |-> 0, wdata |-> 8 * (tBeat + u)]
    BY DEF Writing
  <2>1. CASE tWbeat = None /\ a2b = None
    BY <1>1, <2>0, <2>1, TgtMoves DEF TgtTakes, TgtStays, One, Writing
  <2>2. CASE tWbeat = None /\ a2b # None
    <3>1. [data |-> a2b.data, strb |-> a2b.strb] # None
      <4>1. [data |-> a2b.data, strb |-> a2b.strb] \in LiteWBeat
        BY <2>2 DEF Fitting, WDataFlit, LiteWBeat, Writing
      <4> QED BY <4>1, Present
    <3>2. (8 * (tBeat + u) + 8) % 256 = 8 * (tBeat + u) + 8 * g
      <4>1. g = 1 /\ u = 0
        BY <2>2 DEF One
      <4>2. 8 * (tBeat + 0) + 8 \in 0 .. 255
        BY <1>1, <1>6
      <4>3. \A n \in 0 .. 255 : n % 256 = n
        OBVIOUS
      <4> HIDE DEF u, g
      <4> QED BY <1>1, <4>1, <4>2, <4>3
    <3>3. TgtTakes
      BY <2>2, TgtMoves DEF Writing
    <3>4. tRet' = [wreq |-> 3, rreq |-> 0, wdata |-> 8 * (tBeat + u) + 8 * g]
      <4>1. tRet' = [tRet EXCEPT !.wdata = (@ + 8) % 256]
        BY <2>2, <3>3 DEF TgtTakes
      <4> HIDE DEF u, g
      <4> QED BY <2>0, <3>2, <4>1
    <3>5. /\ tReq' = tReq /\ tCr' = tCr /\ tBeat' = tBeat /\ tState' = tState
          /\ tWbeat' # None
      BY <2>2, <3>1, <3>3 DEF TgtTakes
    <3> QED BY <1>1, <2>2, <3>4, <3>5 DEF One, Writing
  <2>3. CASE tWbeat # None /\ ~BVALID
    BY <1>1, <2>0, <2>3, TgtMoves DEF TgtWrites, One, Writing
  <2>4. CASE tWbeat # None /\ BVALID
    BY <1>1, <2>0, <2>4, TgtMoves DEF TgtWrites, One, Writing
  <2> QED BY <2>1, <2>2, <2>3, <2>4
<1>15. tFull' = tFull
  BY DEF tFull
\* The sum is kept.
<1>16. taken' = tBeat' + One(tWbeat # None)' + One(a2b # None)' + One(iWbeat # None)'
  <2> HIDE DEF x, v, u, e, s, g, c
  <2> QED BY <1>1, <1>3, <1>5, <1>6, <1>12, <1>13, <1>14
<1>17. /\ iWbeat' # None => iState' = "S_WDATA" /\ iWbeat'.last = (taken' = beats')
       /\ iState' = "S_WDATA" /\ iWbeat' = None => taken' < beats'
       /\ iState' = "S_WWAIT" => taken' = beats'
       /\ taken' <= beats'
       /\ iState' \in {"S_WDATA", "S_WWAIT"}
  <2>1. CASE w # None
    <3>1. e = 1 /\ s = 0 /\ taken < beats /\ iState = "S_WDATA"
      BY <1>2, <2>1 DEF One, Writing
    <3>2. iWbeat' = w /\ iState' = "S_WDATA" /\ taken' = taken + 1
      <4> HIDE DEF x, v, u, e, s, g, c
      <4> QED BY <1>1, <1>2, <1>3, <1>11, <2>1, <3>1
    <3> QED BY <1>1, <1>4, <1>11, <2>1, <3>1, <3>2
  <2>2. CASE w = None
    <3>1. taken' = taken
      BY <1>1, <1>3, <2>2 DEF One
    <3>2. CASE s = 1
      <4>1. iWbeat # None /\ iState = "S_WDATA"
        BY <3>2 DEF One, Writing
      <4>2. iWbeat' = None /\ iState' = IF taken = beats THEN "S_WWAIT" ELSE "S_WDATA"
        BY <1>11, <3>2, <4>1
      <4> QED BY <1>1, <1>6, <1>11, <3>1, <4>2
    <3>3. CASE s # 1
      <4>1. iState' = iState /\ iWbeat' = iWbeat
        BY <1>11, <2>2, <3>3
      <4> QED BY <1>6, <1>11, <3>1, <4>1 DEF Writing
    <3> QED BY <3>2, <3>3
  <2> QED BY <2>1, <2>2
<1>18. iCr' = [wreq |-> 0, rreq |-> 3, wdata |-> D - 8 * (taken' - One(iWbeat # None)')]
  <2> HIDE DEF x, v, u, e, s, g, c
  <2>1. taken' - One(iWbeat # None)' = taken - x + s
    BY <1>1, <1>3, <1>5, <1>12
  <2>2. (IF s = 1 THEN D - 8 * (taken - x) - 8 ELSE D - 8 * (taken - x)) = D - 8 * (taken - x + s)
    BY <1>1, <1>5
  <2> QED BY <1>11, <2>1, <2>2
<1>19. tRet' = [wreq |-> 3, rreq |-> 0, wdata |-> 8 * (tBeat' + One(tWbeat # None)')]
  <2> HIDE DEF x, v, u, e, s, g, c
  <2>1. 8 * (tBeat' + One(tWbeat # None)') = 8 * (tBeat + u) + 8 * g
    BY <1>1, <1>5, <1>14
  <2> QED BY <1>14, <2>1
<1>20. CASE c = 1 /\ tBeat = iReq.len
  <2>1. tState' = "S_WRESP" /\ tBeat' = beats' /\ u = 1 /\ g = 0 /\ v = 0 /\ x = 0 /\ taken = beats
    <3>1. tState' = "S_WRESP" /\ tBeat' = tBeat + 1 /\ u = 1 /\ g = 0
      BY <1>14, <1>20 DEF One
    <3> HIDE DEF x, v, u, e, s, g, c
    <3>2. taken = tBeat + u + v + x /\ taken <= tBeat + 1
      BY <1>1, <1>6, <1>20
    <3>3. v = 0 /\ x = 0 /\ taken = tBeat + 1
      BY <1>1, <1>5, <3>1, <3>2
    <3> QED BY <1>1, <1>11, <1>20, <3>1, <3>3
  <2>2. iState = "S_WWAIT" /\ iWbeat = None /\ a2b = None /\ w = None
    BY <1>1, <1>2, <2>1 DEF One, Writing
  <2>3. s = 0 /\ e = 0
    BY <2>2 DEF One
  <2>4. One(iWbeat # None)' = 0 /\ One(a2b # None)' = 0 /\ One(tWbeat # None)' = 0
    <3> HIDE DEF x, v, u, e, s, g, c
    <3> QED BY <1>12, <1>13, <1>14, <1>20, <2>1, <2>3
  <2>5. iWbeat' = None /\ a2b' = None /\ iState' = "S_WWAIT"
    BY <1>11, <2>2, <2>4 DEF One
  <2>6. taken' = beats' /\ beats' \in Nat /\ iReq' = iReq
    BY <1>1, <1>11, <1>17, <2>5
  <2>7. /\ iCr' = [wreq |-> 0, rreq |-> 3, wdata |-> D - 8 * beats']
        /\ tRet' = [wreq |-> 3, rreq |-> 0, wdata |-> 8 * beats']
    <3>1. taken' - One(iWbeat # None)' = beats' /\ tBeat' + One(tWbeat # None)' = beats'
      BY <2>1, <2>4, <2>6
    <3> QED BY <1>18, <1>19, <3>1
  <2>8. Written' /\ WriteDone'
    BY <1>11, <1>13, <1>14, <1>15, <2>1, <2>5, <2>6, <2>7 DEF Written, WriteDone, INI!NoReturn
  <2> QED BY <2>8 DEF Phase
<1>21. CASE ~(c = 1 /\ tBeat = iReq.len)
  <2>1. tState' = "S_WBEAT" /\ tBeat' <= iReq'.len
    BY <1>1, <1>5, <1>6, <1>11, <1>14, <1>21
  <2>2. iRet' = INI!NoReturn'
    BY <1>11 DEF INI!NoReturn
  <2>3. Writing'
    BY <1>11, <1>13, <1>14, <1>15, <1>16, <1>17, <1>18, <1>19, <2>1, <2>2 DEF Writing
  <2> QED BY <2>3 DEF Phase
<1> QED BY <1>20, <1>21

\* A read burst under way: one more beat on the link, or taken, or both.
LEMMA ReadingStep ==
  ASSUME Types, Books, Turns, Fitting, Flowing, Reading,
         NEW acc, NEW w, NEW bRdy, NEW rRdy, Chosen(acc, w, bRdy, rRdy), Edge(acc, w, bRdy, rRdy)
  PROVE  Phase'
<1> DEFINE v == One(b2a # None)
           k == One(b2a # None /\ rRdy)
           c == One(tState = "S_RBEAT" /\ tRbeat # None /\ bGo(rRdy))
<1>1. /\ beats \in Nat /\ beats = iReq.len + 1 /\ iReq.len \in Nat /\ 8 * beats <= D
      /\ D \in Nat /\ D <= 128 /\ tBeat \in Nat /\ rbeats \in Nat
  BY BurstFits DEF Reading, Types
<1>2. /\ v \in {0, 1} /\ k \in {0, 1} /\ c \in {0, 1} /\ k <= v
      /\ rRdy \in BOOLEAN
  BY ChosenType DEF One
<1>3. tBeat = rbeats + v /\ rbeats <= iReq.len
  BY DEF Reading
<1>4. b2a # None => /\ b2a.last <=> tBeat = beats
                    /\ b2a \in Flit /\ b2a.mc \in MsgCredit
  BY FlitCredits DEF Reading, Types
<1>5. bGo(rRdy) <=> (b2a = None \/ rRdy)
  BY DEF bGo, INI!drx_ready, Reading
<1>6. a2b' = None
  BY LinkMoves, Sends DEF Reading, aGo
<1>7. /\ iCr = [wreq |-> 3, rreq |-> IF rbeats = 0 THEN 0 ELSE 3, wdata |-> D]
      /\ tCr = [rdata |-> D - 8 * tBeat, wresp |-> 1]
      /\ iRet = [rdata |-> 8 * rbeats, wresp |-> 0]
  BY DEF Reading
\* The initiator's side: a beat taken is one credit owed more.
<1>8. k = 1 => INI!Grant(b2a.mc) = iFull
  <2> SUFFICES ASSUME k = 1 PROVE INI!Grant(b2a.mc) = iFull
    OBVIOUS
  <2>1. b2a # None
    BY DEF One
  <2>2. Decoded(b2a.mc.rreq) >= 3
    BY <2>1 DEF Reading
  <2> DEFINE b == IF rbeats = 0 THEN 0 ELSE 3
  <2>3. /\ 3 \in 0 .. 3 /\ b \in 0 .. 3 /\ D \in 0 .. D
    BY <1>1
  <2>4. /\ 3 + Decoded(b2a.mc.wreq) >= 3 /\ b + Decoded(b2a.mc.rreq) >= 3
        /\ D + Decoded(b2a.mc.wdata) >= D
    BY <1>1, <1>4, <2>1, <2>2, <2>3, FlitCredits
  <2>5. iCr = [wreq |-> 3, rreq |-> b, wdata |-> D]
    BY <1>7
  <2> HIDE DEF b, iFull
  <2> QED BY <1>4, <2>1, <2>3, <2>4, <2>5, IniGrants3
<1>9. iRet' = [rdata |-> 8 * rbeats + 8 * k, wresp |-> 0]
  <2>1. CASE k = 1
    <3>1. 8 * rbeats + 8 \in 0 .. 255
      BY <1>1, <1>3
    <3>2. \A n \in 0 .. 255 : n % 256 = n
      OBVIOUS
    <3>3. iRet' = [iRet EXCEPT !.rdata = (@ + 8) % 256]
      BY <2>1, IniMoves DEF IniRData, One, Reading
    <3>4. (8 * rbeats + 8) % 256 = 8 * rbeats + 8
      BY <3>1, <3>2
    <3>5. iRet' = [rdata |-> 8 * rbeats + 8, wresp |-> 0]
      BY <1>7, <3>3, <3>4
    <3> HIDE DEF k
    <3> QED BY <1>1, <2>1, <3>5
  <2>2. CASE k = 0
    <3>1. iRet' = iRet
      BY <2>2, IniMoves DEF IniRData, IniStays, One, Reading
    <3> HIDE DEF k
    <3> QED BY <1>1, <1>7, <2>2, <3>1
  <2> QED BY <1>2, <2>1, <2>2
<1>10. /\ iWbeat' = None /\ iReq' = iReq /\ beats' = beats
       /\ iCr' = IF k = 1 THEN iFull ELSE iCr
       /\ iState' = IF k = 1 /\ tBeat = beats THEN "S_IDLE" ELSE "S_RDATA"
  <2>1. CASE k = 1
    <3>1. /\ iWbeat' = iWbeat /\ iReq' = iReq /\ iCr' = INI!Grant(b2a.mc)
          /\ iState' = IF b2a.last THEN "S_IDLE" ELSE "S_RDATA"
      BY <2>1, IniMoves DEF IniRData, One, Reading
    <3>2. b2a.last <=> tBeat = beats
      BY <1>4, <2>1 DEF One
    <3>3. iState' = IF tBeat = beats THEN "S_IDLE" ELSE "S_RDATA"
      BY <3>1, <3>2
    <3> HIDE DEF k
    <3> QED BY <1>8, <2>1, <3>1, <3>3 DEF beats, Reading
  <2>2. CASE k = 0
    <3>1. UNCHANGED <<iState, iReq, iWbeat, iCr>>
      BY <2>2, IniMoves DEF IniRData, IniStays, One, Reading
    <3> HIDE DEF k
    <3> QED BY <2>2, <3>1 DEF beats, Reading
  <2> QED BY <1>2, <2>1, <2>2
<1>11. iState' = "S_RDATA" => rbeats' = rbeats + k
  <2>1. Done(bRdy, rRdy) <=> k = 1 /\ tBeat = beats
    BY <1>4 DEF Done, ErrDone, IniDone, One, Reading, Turns
  <2>2. GivesR(rRdy) <=> k = 1
    BY DEF GivesR, One, Reading, Turns
  <2>3. ASSUME iState' = "S_RDATA" PROVE ~Done(bRdy, rRdy)
    <3> HIDE DEF k
    <3> QED BY <1>10, <2>1, <2>3
  <2>4. ~Done(bRdy, rRdy) => rbeats' = IF GivesR(rRdy) THEN rbeats + 1 ELSE rbeats
    BY MasterMoves
  <2> HIDE DEF k
  <2> QED BY <1>1, <1>2, <2>2, <2>3, <2>4
\* The target's side: a beat sent costs its credit, the last one returns what is owed.
<1>12. tState = "S_RBEAT" => tReq = iReq /\ tBeat <= iReq.len /\ tCr.rdata >= 8
                             /\ tRet = [wreq |-> 0, rreq |-> 3, wdata |-> 0]
  <2> SUFFICES ASSUME tState = "S_RBEAT"
               PROVE  tReq = iReq /\ tBeat <= iReq.len /\ tCr.rdata >= 8
                             /\ tRet = [wreq |-> 0, rreq |-> 3, wdata |-> 0]
    OBVIOUS
  <2>1. tReq = iReq /\ tBeat <= iReq.len /\ tRet = [wreq |-> 0, rreq |-> 3, wdata |-> 0]
    BY DEF Reading
  <2>2. D - 8 * tBeat >= 8
    BY <1>1, <2>1
  <2> QED BY <1>7, <2>1, <2>2
<1>13. /\ tBeat' = tBeat + c
       /\ tCr' = [rdata |-> D - 8 * tBeat - 8 * c, wresp |-> 1]
  <2>1. CASE c = 1
    <3>1. tState = "S_RBEAT" /\ tRbeat # None /\ bGo(rRdy)
      BY <2>1 DEF One
    <3>2. TgtSends(rRdy)
      BY <3>1, TgtMoves
    <3>3. tBeat' = tBeat + 1 /\ tCr' = [tCr EXCEPT !.rdata = @ - 8]
      BY <1>12, <3>1, <3>2 DEF TgtSends
    <3> DEFINE n == D - 8 * tBeat
    <3>4. n \in Int /\ tCr = [rdata |-> n, wresp |-> 1]
      BY <1>1, <1>7
    <3> HIDE DEF n, c
    <3>5. tCr' = [rdata |-> n - 8, wresp |-> 1]
      BY <3>3, <3>4
    <3> QED BY <1>1, <2>1, <3>3, <3>4, <3>5 DEF n
  <2>2. CASE c = 0
    <3>1. tBeat' = tBeat /\ tCr' = tCr
      <4>1. CASE tState = "S_IDLE" BY <4>1, TgtMoves DEF TgtIdle, TgtStays, Reading
      <4>2. CASE tState = "S_RBEAT" /\ tRbeat = None BY <4>2, TgtMoves DEF TgtReads
      <4>3. CASE tState = "S_RBEAT" /\ tRbeat # None
        <5>1. TgtSends(rRdy) /\ ~bGo(rRdy)
          BY <2>2, <4>3, TgtMoves DEF One
        <5> QED BY <5>1 DEF TgtSends, TgtStays
      <4> QED BY <4>1, <4>2, <4>3 DEF Reading
    <3> HIDE DEF c
    <3> QED BY <1>1, <1>7, <2>2, <3>1
  <2> QED BY <1>2, <2>1, <2>2
<1>14. \/ /\ tState' = "S_RBEAT" /\ tReq' = iReq /\ tBeat' <= iReq.len
          /\ tRet' = [wreq |-> 0, rreq |-> 3, wdata |-> 0] /\ tState = "S_RBEAT"
       \/ tState' = "S_IDLE" /\ tBeat' = beats /\ tRet' = TGT!NoReturn
  <2>1. CASE tState = "S_IDLE"
    <3>1. tState' = "S_IDLE" /\ tBeat' = tBeat /\ tRet' = tRet
      BY <2>1, TgtMoves DEF TgtIdle, TgtStays, Reading
    <3> QED BY <2>1, <3>1 DEF Reading
  <2>2. CASE tState = "S_RBEAT" /\ c = 1
    <3>1. tRbeat # None /\ bGo(rRdy)
      BY <2>2 DEF One
    <3>2. TgtSends(rRdy) /\ tCr.rdata >= 8
      BY <1>12, <2>2, <3>1, TgtMoves
    <3>3. /\ tBeat' = tBeat + 1 /\ tReq' = tReq
          /\ tState' = IF tBeat = tReq.len THEN "S_IDLE" ELSE "S_RBEAT"
          /\ tRet' = IF tBeat = tReq.len THEN TGT!NoReturn ELSE tRet
      BY <3>1, <3>2 DEF TgtSends
    <3> HIDE DEF c
    <3> QED BY <1>1, <1>12, <2>2, <3>3
  <2>3. CASE tState = "S_RBEAT" /\ c = 0
    <3>1. UNCHANGED <<tState, tReq, tBeat, tRet>>
      <4>1. CASE tRbeat = None BY <2>3, <4>1, TgtMoves DEF TgtReads
      <4>2. CASE tRbeat # None
        <5>1. TgtSends(rRdy) /\ ~bGo(rRdy)
          BY <2>3, <4>2, TgtMoves DEF One
        <5> QED BY <5>1 DEF TgtSends, TgtStays
      <4> QED BY <4>1, <4>2
    <3> HIDE DEF c
    <3> QED BY <1>12, <2>3, <3>1
  <2> QED BY <1>2, <2>1, <2>2, <2>3 DEF Reading
\* The link between them.
<1>15. One(b2a # None)' = v - k + c
  <2>1. CASE bGo(rRdy)
    <3>0. v - k = 0
      <4>1. CASE b2a = None BY <4>1 DEF One
      <4>2. CASE b2a # None BY <1>5, <2>1, <4>2 DEF One
      <4> QED BY <4>1, <4>2
    <3>1. b2a' = TGT!rsp /\ v - k = 0
      BY <2>1, <3>0, LinkMoves
    <3>2. c = 1 => TGT!rsp # None
      BY <1>12, TgtFlits, Present, Sends DEF One
    <3>3. c = 0 => TGT!rsp = None
      BY <2>1, Sends DEF One, Reading
    <3>4. One(b2a # None)' = c
      BY <1>2, <3>1, <3>2, <3>3 DEF One
    <3> HIDE DEF v, k, c
    <3> QED BY <1>2, <3>1, <3>4
  <2>2. CASE ~bGo(rRdy)
    <3>1. b2a' = b2a /\ k = 0 /\ c = 0
      BY <1>5, <2>2, LinkMoves DEF One
    <3>2. One(b2a # None)' = v
      BY <3>1 DEF One
    <3> HIDE DEF v, k, c
    <3> QED BY <1>2, <3>1, <3>2
  <2> QED BY <2>1, <2>2
<1>16. b2a' # None => /\ b2a'.mt = "rdata" /\ b2a'.id = iReq.id
                      /\ b2a'.last = (tBeat' = beats)
                      /\ Worth[b2a'.mc.rreq] >= 3
  <2> SUFFICES ASSUME b2a' # None
               PROVE  /\ b2a'.mt = "rdata" /\ b2a'.id = iReq.id
                      /\ b2a'.last = (tBeat' = beats)
                      /\ Worth[b2a'.mc.rreq] >= 3
    OBVIOUS
  <2>1. CASE c = 1
    <3>1. tState = "S_RBEAT" /\ tRbeat # None /\ bGo(rRdy)
      BY <2>1 DEF One
    <3>2. b2a' = [mt |-> "rdata", id |-> tReq.id, resp |-> tRbeat.resp,
                  data |-> tRbeat.data, last |-> TGT!last_beat, mc |-> TGT!return_credit]
      BY <1>12, <3>1, LinkMoves, Sends
    <3>3. TGT!return_credit.rreq = TGT!cred_encode_ge(3)
      BY <1>12, <3>1 DEF TGT!return_credit, TGT!mk_msgcredit
    <3>4. Worth[TGT!return_credit.rreq] >= 3
      BY <3>3, Encodes
    <3>5. TGT!last_beat = (tBeat' = beats)
      <4>1. (tBeat = iReq.len) = (tBeat + 1 = beats)
        BY <1>1
      <4> HIDE DEF c
      <4> QED BY <1>12, <1>13, <2>1, <3>1, <4>1 DEF TGT!last_beat
    <3> QED BY <1>12, <3>1, <3>2, <3>4, <3>5
  <2>2. CASE c = 0
    <3>1. v = 1 /\ b2a' = b2a
      <4>1. CASE bGo(rRdy)
        <5>1. ~(tState = "S_RBEAT" /\ tRbeat # None)
          BY <2>2, <4>1 DEF One
        <5>2. TGT!rsp = None
          BY <5>1, Sends DEF Reading
        <5> QED BY <4>1, <5>2, LinkMoves
      <4>2. CASE ~bGo(rRdy)
        BY <1>5, <4>2, LinkMoves DEF One
      <4> QED BY <4>1, <4>2
    <3>2. tBeat' = tBeat
      <4> HIDE DEF c
      <4> QED BY <1>1, <1>13, <2>2
    <3>3. b2a # None
      BY <3>1 DEF One
    <3> QED BY <3>1, <3>2, <3>3, Decodes DEF Reading
  <2> QED BY <1>2, <2>1, <2>2
<1>17. CASE k = 1 /\ tBeat = beats
  <2>1. v = 1 /\ rbeats + 1 = beats /\ c = 0
    <3>1. v = 1
      BY <1>17 DEF One
    <3>2. tState # "S_RBEAT"
      BY <1>1, <1>12, <1>17
    <3>3. c = 0
      BY <3>2 DEF One
    <3> HIDE DEF v, k, c
    <3> QED BY <1>1, <1>3, <1>17, <3>1, <3>3
  <2>2. b2a' = None
    <3>1. One(b2a # None)' = 0
      <4> HIDE DEF v, k, c
      <4> QED BY <1>15, <1>17, <2>1
    <3> QED BY <3>1 DEF One
  <2>3. tState' = "S_IDLE" /\ tRet' = TGT!NoReturn
    BY <1>1, <1>12, <1>14, <1>17
  <2>4. /\ 8 * beats \in 0 .. D /\ 0 \in 0 .. 1
        /\ tCr' = [rdata |-> D - 8 * beats, wresp |-> 1 - 0]
        /\ iRet' = [rdata |-> 8 * beats, wresp |-> 0]
    <3> HIDE DEF v, k, c
    <3>1. 8 * rbeats + 8 * k = 8 * beats /\ D - 8 * tBeat - 8 * c = D - 8 * beats /\ 1 - 0 = 1
      BY <1>1, <1>17, <2>1
    <3> QED BY <1>1, <1>9, <1>13, <3>1
  <2>5. iState' = "S_IDLE" /\ iCr' = iFull /\ iWbeat' = None
    <3> HIDE DEF v, k, c
    <3> QED BY <1>10, <1>17
  <2>6. Home'
    BY <1>6, <2>2, <2>3, <2>4, <2>5 DEF Home, TGT!NoReturn, iFull
  <2> QED BY <2>6 DEF Phase
<1>18. CASE ~(k = 1 /\ tBeat = beats)
  <2>1. iState' = "S_RDATA" /\ rbeats' = rbeats + k
    <3> HIDE DEF v, k, c
    <3> QED BY <1>10, <1>11, <1>18
  <2>2. rbeats' <= iReq.len /\ tBeat' = rbeats' + One(b2a # None)' /\ rbeats' \in Nat
    <3> HIDE DEF v, k, c
    <3> QED BY <1>1, <1>2, <1>3, <1>13, <1>15, <1>18, <2>1
  <2>3. iCr' = [wreq |-> 3, rreq |-> IF rbeats' = 0 THEN 0 ELSE 3, wdata |-> D]
    <3> HIDE DEF v, k, c
    <3>1. CASE k = 1
      <4>1. rbeats' # 0
        BY <1>1, <2>1, <3>1
      <4> QED BY <1>10, <3>1, <4>1 DEF iFull
    <3>2. CASE k = 0
      BY <1>1, <1>7, <1>10, <2>1, <3>2
    <3> QED BY <1>2, <3>1, <3>2
  <2>4. /\ tCr' = [rdata |-> D - 8 * tBeat', wresp |-> 1]
        /\ iRet' = [rdata |-> 8 * rbeats', wresp |-> 0]
    <3> HIDE DEF v, k, c
    <3>1. D - 8 * tBeat - 8 * c = D - 8 * tBeat' /\ 8 * rbeats + 8 * k = 8 * rbeats'
      BY <1>1, <1>2, <1>13, <2>1
    <3> QED BY <1>9, <1>13, <3>1
  <2>5. b2a' # None => Decoded(b2a.mc.rreq)' >= 3
    BY <1>16 DEF Decoded, C!cred_decode, C!Bucket, Worth
  <2>6. Reading'
    BY <1>6, <1>10, <1>14, <1>16, <2>1, <2>2, <2>3, <2>4, <2>5 DEF Reading, TGT!NoReturn
  <2> QED BY <2>6 DEF Phase
<1> QED BY <1>17, <1>18

\* Every phase ends in a phase.
LEMMA PhaseStep ==
  ASSUME Types, Running,
         NEW acc, NEW w, NEW bRdy, NEW rRdy, Chosen(acc, w, bRdy, rRdy), Edge(acc, w, bRdy, rRdy)
  PROVE  Types' /\ Running'
<1>1. Flowing /\ Fitting
  BY PhaseFits
<1>2. Types' /\ Books' /\ Turns'
  BY <1>1, TypesStep, BooksStep, TurnsStep DEF Running
<1>3. Connected'
  BY <1>1, LinkMoves
<1>4. Phase'
  BY <1>1, HomeStep, WReqOutStep, RReqOutStep, WritingStep, WriteDoneStep, WRespOutStep,
     ReadingStep DEF Running, Phase
<1> QED BY <1>2, <1>3, <1>4 DEF Running

-----------------------------------------------------------------------------
(* The bring-up.                                                           *)

LEMMA GrantWords ==
  /\ IniGrants \in MsgCredit /\ TgtGrants \in MsgCredit
  /\ \A g \in MsgCredit, m \in IA!Misc :
       /\ MiscFlit(m, g) = [mt |-> m, mc |-> g] /\ MiscFlit(m, g) \in Flit
       /\ MiscFlit(m, g) # None /\ Kind(MiscFlit(m, g)) = m
  /\ \A g : MiscFlit(None, g) = None
  /\ Kind(None) = None
<1>1. IniGrants \in MsgCredit /\ TgtGrants \in MsgCredit
  BY AxiUcieMemChainAssumption DEF IniGrants, TgtGrants, C!mk_msgcredit, MsgCredit
<1>2. \A g \in MsgCredit, m \in IA!Misc :
       MiscFlit(m, g) = [mt |-> m, mc |-> g] /\ MiscFlit(m, g) \in Flit
  BY Present DEF MiscFlit, Flit, ActFlit
<1>3. \A g \in MsgCredit, m \in IA!Misc : MiscFlit(m, g) # None
  BY <1>2, Present
<1>4. \A g \in MsgCredit, m \in IA!Misc : Kind(MiscFlit(m, g)) = m
  <2> SUFFICES ASSUME NEW g \in MsgCredit, NEW m \in IA!Misc PROVE Kind(MiscFlit(m, g)) = m
    OBVIOUS
  <2>1. MiscFlit(m, g).mt = m /\ MiscFlit(m, g) # None
    BY <1>2, <1>3
  <2> QED BY <2>1 DEF Kind
<1> QED BY <1>1, <1>2, <1>3, <1>4 DEF MiscFlit, Kind

\* While the links come up the manager gets nothing in or out.
LEMMA BootChoice ==
  ASSUME Types, Booting, NEW acc, NEW w, NEW bRdy, NEW rRdy, Chosen(acc, w, bRdy, rRdy)
  PROVE  acc = None /\ w = None /\ bRdy = FALSE /\ rRdy = FALSE
<1>1. ~IA!enabled
  BY DEF Booting, Boot1, Boot2, Boot3, Boot4, Boot5, Boot6, Stage, IA!enabled
<1>2. e_state = "E_IDLE" /\ iState = "S_IDLE"
  BY DEF Booting, Resting
<1>3. acc = None
  BY <1>1 DEF Chosen, Offers, FE!s_awready
<1>4. w = None
  BY <1>2 DEF Chosen, Beats, s_wready, FE!e_w, INI!i_wready
<1>5. s_b = None /\ s_r = None
  BY <1>2 DEF s_b, s_r, FE!e_b, FE!e_r, INI!i_bvalid, INI!i_rvalid
<1> QED BY <1>3, <1>4, <1>5 DEF Chosen, Takes

\* One edge while the links come up, block by block.
LEMMA BootMoves ==
  ASSUME Types, Booting, NEW acc, NEW w, NEW bRdy, NEW rRdy, Chosen(acc, w, bRdy, rRdy),
         Edge(acc, w, bRdy, rRdy)
  PROVE  /\ Resting'
         /\ e_beat' \in Nat /\ tAddr' \in Nat /\ tBeat' \in Nat /\ stamp' \in Nat
         /\ UNCHANGED <<tWbeat, tRbeat, tBresp, tAwDone, tWDone, tArDone>>
         /\ iCr' = IF iAct = "DISABLED" THEN INI!NoCredit
                   ELSE IF iSeed # None THEN INI!Grant(iSeed) ELSE iCr
         /\ tCr' = IF tAct = "DISABLED" THEN TGT!NoCredit
                   ELSE IF tSeed # None THEN TGT!Grant(tSeed) ELSE tCr
         /\ IA!Clock(Kind(b2a), TRUE, FALSE, TRUE, FALSE)
         /\ TA!Clock(Kind(a2b), TRUE, FALSE, TRUE, FALSE)
         /\ a2b' = MiscFlit(IA!act_tx, IniGrants)
         /\ b2a' = MiscFlit(TA!act_tx, TgtGrants)
<1>1. ~IA!enabled /\ ~TA!enabled
  BY DEF Booting, Boot1, Boot2, Boot3, Boot4, Boot5, Boot6, Stage, IA!enabled, TA!enabled
<1>2. acc = None /\ w = None /\ bRdy = FALSE /\ rRdy = FALSE
  BY BootChoice
<1>3. Resting
  BY DEF Booting
<1> DEFINE qh  == IF FE!q_empty THEN None ELSE Head(q)
           irr == IA!rx_ready(INI!drx_ready(rRdy))
           trr == TA!rx_ready(TGT!drx_ready)
<1>4. qh = None /\ irr = TRUE /\ trr = TRUE /\ iRx = None /\ tRx = None
      /\ A2B!InReady(trr) = TRUE /\ B2A!InReady(irr) = TRUE
      /\ iTx = MiscFlit(IA!act_tx, IniGrants) /\ tTx = MiscFlit(TA!act_tx, TgtGrants)
  BY <1>1, <1>3 DEF Resting, FE!q_empty, IA!rx_ready, TA!rx_ready, iRx, tRx, A2B!InReady, B2A!InReady,
     iTx, tTx
<1>5. /\ FE!Clock(None, None, IA!enabled, INI!do_pop(qh), INI!br_idle, w # None /\ w.last, bRdy, rRdy)
      /\ INI!Clock(qh, w, iRx, IA!d_tx_ready(A2B!InReady(trr)), iSeed, iAct = "DISABLED", bRdy, rRdy)
      /\ IA!Clock(Kind(b2a), A2B!InReady(trr), FALSE, TRUE, FALSE)
      /\ TA!Clock(Kind(a2b), B2A!InReady(irr), FALSE, TRUE, FALSE)
      /\ A2B!Clock(iTx, trr)
      /\ B2A!Clock(tTx, irr)
      /\ AXI!Clock(None, None, None, None)
  BY <1>2 DEF Edge
<1>6. TGT!Clock(tRx, TA!d_tx_ready(B2A!InReady(irr)), tSeed, tAct = "DISABLED",
                MEM!AWREADY, MEM!WREADY, MEM!ARREADY,
                IF BVALID /\ TGT!m_bready THEN "OKAY" ELSE None,
                IF RVALID /\ TGT!m_rready THEN [data |-> RDATA, resp |-> "OKAY"] ELSE None)
  BY DEF Edge
<1>7. /\ IA!Clock(Kind(b2a), TRUE, FALSE, TRUE, FALSE)
      /\ TA!Clock(Kind(a2b), TRUE, FALSE, TRUE, FALSE)
      /\ a2b' = MiscFlit(IA!act_tx, IniGrants)
      /\ b2a' = MiscFlit(TA!act_tx, TgtGrants)
  <2> HIDE DEF irr, trr, qh
  <2> QED BY <1>4, <1>5 DEF A2B!Clock, A2B!Load, A2B!Drain, A2B!Hold, A2B!InReady,
                            B2A!Clock, B2A!Load, B2A!Drain, B2A!Hold, B2A!InReady
<1>8. q' = <<>> /\ e_state' = "E_IDLE" /\ e_beat' = e_beat
  <2> DEFINE pop == INI!do_pop(qh)
             last == w # None /\ w.last
  <2>1. FE!accepted(None, None, IA!enabled) = None
    BY DEF FE!accepted
  <2>2. ~pop
    BY <1>4 DEF INI!do_pop
  <2> HIDE DEF pop, last, qh
  <2>3. /\ FE!Enqueue(None, pop)
        /\ FE!ErrorResponder(None, INI!br_idle, last, bRdy, rRdy)
    BY <1>5, <2>1 DEF FE!Clock, pop, last
  <2>4. q' = <<>> \o <<>>
    BY <1>3, <2>2, <2>3 DEF FE!Enqueue, Resting
  <2>5. e_state' = "E_IDLE" /\ e_beat' = e_beat
    BY <1>3, <2>3 DEF FE!ErrorResponder, FE!TakeLong, FE!StartResponse, FE!DrainLast, FE!RespondB,
       FE!RespondR, FE!Waiting, FE!e_w, FE!e_b, FE!e_r, Resting
  <2> QED BY <2>4, <2>5
<1>9. /\ UNCHANGED <<iState, iReq, iWbeat, iB, iRet>>
      /\ iCr' = IF iAct = "DISABLED" THEN INI!NoCredit
                ELSE IF iSeed # None THEN INI!Grant(iSeed) ELSE iCr
  <2> DEFINE go == IA!d_tx_ready(A2B!InReady(trr))
  <2>1. INI!Clock(None, None, None, go, iSeed, iAct = "DISABLED", FALSE, FALSE)
    BY <1>2, <1>4, <1>5
  <2> HIDE DEF go, irr, trr, qh
  <2>2. iState = "S_IDLE" /\ INI!dtx = None
    BY <1>3, Sends DEF Resting
  <2>3. UNCHANGED <<iState, iReq, iWbeat, iB, iRet>>
    BY <2>1, <2>2 DEF INI!Clock, INI!Pop, INI!SendWriteReq, INI!SendReadReq, INI!TakeBeat, INI!SendBeat,
       INI!WriteResponse, INI!DeliverB, INI!DeliverR, INI!Stall, INI!do_pop, INI!i_wready, INI!i_rvalid
  <2>4. INI!FsmCredits(None, go, FALSE) = iCr
    BY <2>2 DEF INI!FsmCredits
  <2> QED BY <2>1, <2>3, <2>4 DEF INI!Clock, INI!Credits
<1>10. /\ UNCHANGED <<tState, tReq, tAddr, tBeat, tWbeat, tAwDone, tWDone, tBresp, tRbeat, tArDone, tRet>>
       /\ tCr' = IF tAct = "DISABLED" THEN TGT!NoCredit
                 ELSE IF tSeed # None THEN TGT!Grant(tSeed) ELSE tCr
  <2> DEFINE go == TA!d_tx_ready(B2A!InReady(irr))
             b  == IF BVALID /\ TGT!m_bready THEN "OKAY" ELSE None
             r  == IF RVALID /\ TGT!m_rready THEN [data |-> RDATA, resp |-> "OKAY"] ELSE None
  <2>1. TGT!Clock(None, go, tSeed, tAct = "DISABLED", MEM!AWREADY, MEM!WREADY, MEM!ARREADY, b, r)
    BY <1>4, <1>6
  <2> HIDE DEF go, b, r, irr, trr, qh
  <2>2. tState = "S_IDLE" /\ TGT!rsp = None
    BY <1>3, Sends DEF Resting
  <2>3. UNCHANGED <<tState, tReq, tAddr, tBeat, tWbeat, tAwDone, tWDone, tBresp, tRbeat, tArDone, tRet>>
    BY <2>1, <2>2 DEF TGT!Clock, TGT!TakeRequest, TGT!TakeBeat, TGT!WriteBeat, TGT!SendWriteResp,
       TGT!ReadBeat, TGT!SendReadData, TGT!Stall
  <2>4. TGT!FsmCredits(None, go) = tCr
    BY <2>2 DEF TGT!FsmCredits, TGT!rsp_fire
  <2> QED BY <2>1, <2>3, <2>4 DEF TGT!Clock, TGT!Credits
<1>11. todo' = <<>> /\ rbeats' = 0 /\ stamp' = stamp
  BY <1>3, <1>5 DEF AXI!Clock, AXI!Answered, AXI!WithBeat, AXI!Begun, Resting
<1>12. Resting'
  BY <1>3, <1>8, <1>9, <1>10, <1>11 DEF Resting, INI!NoReturn, TGT!NoReturn
<1> QED BY <1>7, <1>8, <1>9, <1>10, <1>11, <1>12 DEF Types

\* While the links come up no register leaves its type.
LEMMA BootTypes ==
  ASSUME Types, Resting', NEW acc, NEW w, NEW bRdy, NEW rRdy, Edge(acc, w, bRdy, rRdy),
         e_beat' \in Nat, tAddr' \in Nat, tBeat' \in Nat, stamp' \in Nat,
         UNCHANGED <<tWbeat, tRbeat, tBresp, tAwDone, tWDone, tArDone>>,
         a2b' \in Flit \cup {None}, b2a' \in Flit \cup {None},
         iPend' = FALSE, tPend' = FALSE
  PROVE  Types'
<1>1. /\ q' = <<>> /\ e_state' = "E_IDLE" /\ iState' = "S_IDLE" /\ iWbeat' = None
      /\ tState' = "S_IDLE" /\ todo' = <<>> /\ rbeats' = 0
  BY DEF Resting
<1>2. q' \in Seq(Requests) /\ \A i \in DOMAIN q' : ~FE!Long(q'[i])
  BY <1>1
<1>3. todo' \in Seq(Todo)
  BY <1>1
<1> QED BY <1>1, <1>2, <1>3, MemTypes DEF Types

\* What one end does in each stage: the message it sends, its next state and flags.
EndRises(s, S, R, rx, tx, n, N, M) ==
  /\ s = "DISABLED" /\ S = {} /\ R = {} /\ rx = None =>
       tx = "areq" /\ n = "ACTIVATE" /\ N = {"areq"} /\ M = {}
  /\ s = "ACTIVATE" /\ S = {"areq"} /\ R = {} /\ rx = "areq" =>
       tx = None /\ n = "ACTIVATE" /\ N = {"areq"} /\ M = {"areq"}
  /\ s = "ACTIVATE" /\ S = {"areq"} /\ R = {"areq"} /\ rx = None =>
       tx = "aack" /\ n = "ACTIVATE" /\ N = {"areq", "aack"} /\ M = {"areq"}
  /\ s = "ACTIVATE" /\ S = {"areq", "aack"} /\ R = {"areq"} /\ rx = "aack" =>
       /\ tx = "crdt" /\ n = "ACTIVATE"
       /\ N = {"areq", "aack", "crdt"} /\ M = {"areq", "aack"}
  /\ s = "ACTIVATE" /\ S = {"areq", "aack", "crdt"} /\ R = {"areq", "aack"} /\ rx = "crdt" =>
       /\ tx = None /\ n = "ACTIVATE"
       /\ N = {"areq", "aack", "crdt"} /\ M = {"areq", "aack", "crdt"}
  /\ s = "ACTIVATE" /\ S = {"areq", "aack", "crdt"} /\ R = {"areq", "aack", "crdt"} /\ rx = None =>
       tx = None /\ n = "ENABLED"

\* The activation block of the initiator in a bring-up without back-pressure ...
LEMMA IARises ==
  ASSUME NEW rx, iPend = FALSE, IA!Clock(rx, TRUE, FALSE, TRUE, FALSE)
  PROVE  /\ iAct \in {"DISABLED", "ACTIVATE"} => iPend' = FALSE
         /\ EndRises(iAct, iSent, iRcvd, rx, IA!act_tx, iAct', iSent', iRcvd')
<1>1. /\ IA!Wanted = {} => IA!act_tx = None
      /\ \A m : IA!Wanted = {m} => IA!act_tx = m
  <2>1. \A m : IA!Wanted = {m} => IA!act_tx = CHOOSE x \in {m} : \A y \in {m} : IA!Rank[x] <= IA!Rank[y]
    BY DEF IA!act_tx
  <2>2. \A m \in IA!Misc : (CHOOSE x \in {m} : \A y \in {m} : IA!Rank[x] <= IA!Rank[y]) = m
    <3> SUFFICES ASSUME NEW m \in IA!Misc
                 PROVE  (CHOOSE x \in {m} : \A y \in {m} : IA!Rank[x] <= IA!Rank[y]) = m
      OBVIOUS
    <3>1. IA!Rank[m] <= IA!Rank[m]
      BY DEF IA!Rank, IA!Misc, IA!BringUp, IA!TearDown
    <3> QED BY <3>1
  <2>3. \A m : IA!Wanted = {m} => m \in IA!Misc
    BY DEF IA!Wanted
  <2> QED BY <2>1, <2>2, <2>3 DEF IA!act_tx
<1>2. "areq" # None /\ "aack" # None /\ "crdt" # None
  BY Present DEF IA!Misc, IA!BringUp, IA!TearDown
<1> USE <1>1, <1>2
<1>3. iAct \in {"DISABLED", "ACTIVATE"} => iPend' = FALSE
  BY DEF IA!Clock, IA!Disabled, IA!Activating, IA!Enable, IA!Inconsistent, IA!PeerTeardown, IA!Enabled,
     IA!Deactivating, IA!Disable, IA!Error, IA!ClearError, IA!enabled
<1>4. ASSUME iAct = "DISABLED", iSent = {}, iRcvd = {},
             rx = None
      PROVE  /\ IA!act_tx = "areq" /\ iAct' = "ACTIVATE"
             /\ iSent' = {"areq"} /\ iRcvd' = {}
  <2>1. IA!Wanted = {"areq"}
    BY <1>4 DEF IA!Wanted, IA!Misc, IA!BringUp, IA!TearDown, IA!in_bringup
  <2>2. IA!act_tx = "areq"
    BY <2>1
  <2>3. IA!Disabled(rx, TRUE)
    BY <1>4 DEF IA!Clock, IA!Activating, IA!Enable, IA!Inconsistent, IA!PeerTeardown, IA!Enabled,
       IA!Deactivating, IA!Disable, IA!Error, IA!ClearError, IA!enabled
  <2>4. iAct' = "ACTIVATE" /\ iSent' = {"areq"} /\ iRcvd' = {}
    BY <1>4, <2>2, <2>3 DEF IA!Disabled, IA!Flags, IA!SentNow, IA!RcvdNow, IA!Recorded
  <2> QED BY <2>2, <2>4
<1>5. ASSUME iAct = "ACTIVATE", rx \in {None, "areq", "aack", "crdt"}, ~IA!HandshakeDone
      PROVE  iAct' = "ACTIVATE" /\ iSent' = IA!SentNow(TRUE) /\ iRcvd' = IA!RcvdNow(rx)
  <2>1. ~IA!err_now(rx)
    BY <1>5, Present DEF IA!err_now, IA!Misc, IA!BringUp, IA!TearDown
  <2>2. IA!Activating(rx, TRUE)
    BY <1>5, <2>1 DEF IA!Clock, IA!Disabled, IA!Enable, IA!Inconsistent, IA!PeerTeardown, IA!Enabled,
       IA!Deactivating, IA!Disable, IA!Error, IA!ClearError, IA!enabled
  <2> QED BY <1>5, <2>2 DEF IA!Activating, IA!Flags
<1>6. ASSUME iAct = "ACTIVATE", iSent = {"areq"}, iRcvd = {},
             rx = "areq"
      PROVE  /\ IA!act_tx = None /\ iAct' = "ACTIVATE"
             /\ iSent' = {"areq"} /\ iRcvd' = {"areq"}
  <2>1. IA!Wanted = {} /\ ~IA!HandshakeDone
    BY <1>6 DEF IA!Wanted, IA!Misc, IA!BringUp, IA!TearDown, IA!in_bringup, IA!HandshakeDone
  <2>2. IA!act_tx = None
    BY <2>1
  <2>3. iAct' = "ACTIVATE" /\ iSent' = {"areq"} /\ iRcvd' = {"areq"}
    BY <1>5, <1>6, <2>1, <2>2 DEF IA!SentNow, IA!RcvdNow, IA!Recorded, IA!in_bringup
  <2> QED BY <2>2, <2>3
<1>7. ASSUME iAct = "ACTIVATE", iSent = {"areq"}, iRcvd = {"areq"},
             rx = None
      PROVE  /\ IA!act_tx = "aack" /\ iAct' = "ACTIVATE"
             /\ iSent' = {"areq", "aack"} /\ iRcvd' = {"areq"}
  <2>1. IA!Wanted = {"aack"} /\ ~IA!HandshakeDone
    BY <1>7 DEF IA!Wanted, IA!Misc, IA!BringUp, IA!TearDown, IA!in_bringup, IA!HandshakeDone
  <2>2. IA!act_tx = "aack"
    BY <2>1
  <2>3. iAct' = "ACTIVATE" /\ iSent' = {"areq", "aack"} /\ iRcvd' = {"areq"}
    BY <1>5, <1>7, <2>1, <2>2 DEF IA!SentNow, IA!RcvdNow, IA!Recorded, IA!in_bringup
  <2> QED BY <2>2, <2>3
<1>8. ASSUME iAct = "ACTIVATE", iSent = {"areq", "aack"}, iRcvd = {"areq"},
             rx = "aack"
      PROVE  /\ IA!act_tx = "crdt" /\ iAct' = "ACTIVATE"
             /\ iSent' = {"areq", "aack", "crdt"} /\ iRcvd' = {"areq", "aack"}
  <2>1. IA!Wanted = {"crdt"} /\ ~IA!HandshakeDone
    BY <1>8 DEF IA!Wanted, IA!Misc, IA!BringUp, IA!TearDown, IA!in_bringup, IA!HandshakeDone
  <2>2. IA!act_tx = "crdt"
    BY <2>1
  <2>3. iAct' = "ACTIVATE" /\ iSent' = {"areq", "aack", "crdt"} /\ iRcvd' = {"areq", "aack"}
    BY <1>5, <1>8, <2>1, <2>2 DEF IA!SentNow, IA!RcvdNow, IA!Recorded, IA!in_bringup
  <2> QED BY <2>2, <2>3
<1>9. ASSUME iAct = "ACTIVATE", iSent = {"areq", "aack", "crdt"}, iRcvd = {"areq", "aack"},
             rx = "crdt"
      PROVE  /\ IA!act_tx = None /\ iAct' = "ACTIVATE"
             /\ iSent' = {"areq", "aack", "crdt"} /\ iRcvd' = {"areq", "aack", "crdt"}
  <2>1. IA!Wanted = {} /\ ~IA!HandshakeDone
    BY <1>9 DEF IA!Wanted, IA!Misc, IA!BringUp, IA!TearDown, IA!in_bringup, IA!HandshakeDone
  <2>2. IA!act_tx = None
    BY <2>1
  <2>3. /\ iAct' = "ACTIVATE" /\ iSent' = {"areq", "aack", "crdt"}
        /\ iRcvd' = {"areq", "aack", "crdt"}
    BY <1>5, <1>9, <2>1, <2>2 DEF IA!SentNow, IA!RcvdNow, IA!Recorded, IA!in_bringup
  <2> QED BY <2>2, <2>3
<1>10. ASSUME iAct = "ACTIVATE", iSent = {"areq", "aack", "crdt"}, iRcvd = {"areq", "aack", "crdt"},
             rx = None
      PROVE  /\ IA!act_tx = None /\ iAct' = "ENABLED"
  <2>0. IA!Wanted = {}
    BY <1>10 DEF IA!Wanted, IA!Misc, IA!BringUp, IA!TearDown, IA!in_bringup
  <2>1. IA!HandshakeDone /\ ~IA!err_now(rx)
    BY <1>10, Present DEF IA!HandshakeDone, IA!err_now, IA!Misc, IA!BringUp, IA!TearDown
  <2>2. IA!act_tx = None
    BY <2>0
  <2>3. iAct' = "ENABLED"
    BY <1>10, <2>1 DEF IA!Clock, IA!Disabled, IA!Activating, IA!Enable, IA!Inconsistent, IA!PeerTeardown,
       IA!Enabled, IA!Deactivating, IA!Disable, IA!Error, IA!ClearError, IA!enabled
  <2> QED BY <2>2, <2>3
<1> QED BY <1>3, <1>4, <1>6, <1>7, <1>8, <1>9, <1>10, Zenon DEF EndRises

\* ... and that of the target.
LEMMA TARises ==
  ASSUME NEW rx, tPend = FALSE, TA!Clock(rx, TRUE, FALSE, TRUE, FALSE)
  PROVE  /\ tAct \in {"DISABLED", "ACTIVATE"} => tPend' = FALSE
         /\ EndRises(tAct, tSent, tRcvd, rx, TA!act_tx, tAct', tSent', tRcvd')
<1>1. /\ TA!Wanted = {} => TA!act_tx = None
      /\ \A m : TA!Wanted = {m} => TA!act_tx = m
  <2>1. \A m : TA!Wanted = {m} => TA!act_tx = CHOOSE x \in {m} : \A y \in {m} : TA!Rank[x] <= TA!Rank[y]
    BY DEF TA!act_tx
  <2>2. \A m \in TA!Misc : (CHOOSE x \in {m} : \A y \in {m} : TA!Rank[x] <= TA!Rank[y]) = m
    <3> SUFFICES ASSUME NEW m \in TA!Misc
                 PROVE  (CHOOSE x \in {m} : \A y \in {m} : TA!Rank[x] <= TA!Rank[y]) = m
      OBVIOUS
    <3>1. TA!Rank[m] <= TA!Rank[m]
      BY DEF TA!Rank, TA!Misc, TA!BringUp, TA!TearDown
    <3> QED BY <3>1
  <2>3. \A m : TA!Wanted = {m} => m \in TA!Misc
    BY DEF TA!Wanted
  <2> QED BY <2>1, <2>2, <2>3 DEF TA!act_tx
<1>2. "areq" # None /\ "aack" # None /\ "crdt" # None
  BY Present DEF IA!Misc, IA!BringUp, IA!TearDown
<1> USE <1>1, <1>2
<1>3. tAct \in {"DISABLED", "ACTIVATE"} => tPend' = FALSE
  BY DEF TA!Clock, TA!Disabled, TA!Activating, TA!Enable, TA!Inconsistent, TA!PeerTeardown, TA!Enabled,
     TA!Deactivating, TA!Disable, TA!Error, TA!ClearError, TA!enabled
<1>4. ASSUME tAct = "DISABLED", tSent = {}, tRcvd = {},
             rx = None
      PROVE  /\ TA!act_tx = "areq" /\ tAct' = "ACTIVATE"
             /\ tSent' = {"areq"} /\ tRcvd' = {}
  <2>1. TA!Wanted = {"areq"}
    BY <1>4 DEF TA!Wanted, TA!Misc, TA!BringUp, TA!TearDown, TA!in_bringup
  <2>2. TA!act_tx = "areq"
    BY <2>1
  <2>3. TA!Disabled(rx, TRUE)
    BY <1>4 DEF TA!Clock, TA!Activating, TA!Enable, TA!Inconsistent, TA!PeerTeardown, TA!Enabled,
       TA!Deactivating, TA!Disable, TA!Error, TA!ClearError, TA!enabled
  <2>4. tAct' = "ACTIVATE" /\ tSent' = {"areq"} /\ tRcvd' = {}
    BY <1>4, <2>2, <2>3 DEF TA!Disabled, TA!Flags, TA!SentNow, TA!RcvdNow, TA!Recorded
  <2> QED BY <2>2, <2>4
<1>5. ASSUME tAct = "ACTIVATE", rx \in {None, "areq", "aack", "crdt"}, ~TA!HandshakeDone
      PROVE  tAct' = "ACTIVATE" /\ tSent' = TA!SentNow(TRUE) /\ tRcvd' = TA!RcvdNow(rx)
  <2>1. ~TA!err_now(rx)
    BY <1>5, Present DEF TA!err_now, IA!Misc, IA!BringUp, IA!TearDown
  <2>2. TA!Activating(rx, TRUE)
    BY <1>5, <2>1 DEF TA!Clock, TA!Disabled, TA!Enable, TA!Inconsistent, TA!PeerTeardown, TA!Enabled,
       TA!Deactivating, TA!Disable, TA!Error, TA!ClearError, TA!enabled
  <2> QED BY <1>5, <2>2 DEF TA!Activating, TA!Flags
<1>6. ASSUME tAct = "ACTIVATE", tSent = {"areq"}, tRcvd = {},
             rx = "areq"
      PROVE  /\ TA!act_tx = None /\ tAct' = "ACTIVATE"
             /\ tSent' = {"areq"} /\ tRcvd' = {"areq"}
  <2>1. TA!Wanted = {} /\ ~TA!HandshakeDone
    BY <1>6 DEF TA!Wanted, TA!Misc, TA!BringUp, TA!TearDown, TA!in_bringup, TA!HandshakeDone
  <2>2. TA!act_tx = None
    BY <2>1
  <2>3. tAct' = "ACTIVATE" /\ tSent' = {"areq"} /\ tRcvd' = {"areq"}
    BY <1>5, <1>6, <2>1, <2>2 DEF TA!SentNow, TA!RcvdNow, TA!Recorded, TA!in_bringup
  <2> QED BY <2>2, <2>3
<1>7. ASSUME tAct = "ACTIVATE", tSent = {"areq"}, tRcvd = {"areq"},
             rx = None
      PROVE  /\ TA!act_tx = "aack" /\ tAct' = "ACTIVATE"
             /\ tSent' = {"areq", "aack"} /\ tRcvd' = {"areq"}
  <2>1. TA!Wanted = {"aack"} /\ ~TA!HandshakeDone
    BY <1>7 DEF TA!Wanted, TA!Misc, TA!BringUp, TA!TearDown, TA!in_bringup, TA!HandshakeDone
  <2>2. TA!act_tx = "aack"
    BY <2>1
  <2>3. tAct' = "ACTIVATE" /\ tSent' = {"areq", "aack"} /\ tRcvd' = {"areq"}
    BY <1>5, <1>7, <2>1, <2>2 DEF TA!SentNow, TA!RcvdNow, TA!Recorded, TA!in_bringup
  <2> QED BY <2>2, <2>3
<1>8. ASSUME tAct = "ACTIVATE", tSent = {"areq", "aack"}, tRcvd = {"areq"},
             rx = "aack"
      PROVE  /\ TA!act_tx = "crdt" /\ tAct' = "ACTIVATE"
             /\ tSent' = {"areq", "aack", "crdt"} /\ tRcvd' = {"areq", "aack"}
  <2>1. TA!Wanted = {"crdt"} /\ ~TA!HandshakeDone
    BY <1>8 DEF TA!Wanted, TA!Misc, TA!BringUp, TA!TearDown, TA!in_bringup, TA!HandshakeDone
  <2>2. TA!act_tx = "crdt"
    BY <2>1
  <2>3. tAct' = "ACTIVATE" /\ tSent' = {"areq", "aack", "crdt"} /\ tRcvd' = {"areq", "aack"}
    BY <1>5, <1>8, <2>1, <2>2 DEF TA!SentNow, TA!RcvdNow, TA!Recorded, TA!in_bringup
  <2> QED BY <2>2, <2>3
<1>9. ASSUME tAct = "ACTIVATE", tSent = {"areq", "aack", "crdt"}, tRcvd = {"areq", "aack"},
             rx = "crdt"
      PROVE  /\ TA!act_tx = None /\ tAct' = "ACTIVATE"
             /\ tSent' = {"areq", "aack", "crdt"} /\ tRcvd' = {"areq", "aack", "crdt"}
  <2>1. TA!Wanted = {} /\ ~TA!HandshakeDone
    BY <1>9 DEF TA!Wanted, TA!Misc, TA!BringUp, TA!TearDown, TA!in_bringup, TA!HandshakeDone
  <2>2. TA!act_tx = None
    BY <2>1
  <2>3. /\ tAct' = "ACTIVATE" /\ tSent' = {"areq", "aack", "crdt"}
        /\ tRcvd' = {"areq", "aack", "crdt"}
    BY <1>5, <1>9, <2>1, <2>2 DEF TA!SentNow, TA!RcvdNow, TA!Recorded, TA!in_bringup
  <2> QED BY <2>2, <2>3
<1>10. ASSUME tAct = "ACTIVATE", tSent = {"areq", "aack", "crdt"}, tRcvd = {"areq", "aack", "crdt"},
             rx = None
      PROVE  /\ TA!act_tx = None /\ tAct' = "ENABLED"
  <2>0. TA!Wanted = {}
    BY <1>10 DEF TA!Wanted, TA!Misc, TA!BringUp, TA!TearDown, TA!in_bringup
  <2>1. TA!HandshakeDone /\ ~TA!err_now(rx)
    BY <1>10, Present DEF TA!HandshakeDone, TA!err_now, IA!Misc, IA!BringUp, IA!TearDown
  <2>2. TA!act_tx = None
    BY <2>0
  <2>3. tAct' = "ENABLED"
    BY <1>10, <2>1 DEF TA!Clock, TA!Disabled, TA!Activating, TA!Enable, TA!Inconsistent, TA!PeerTeardown,
       TA!Enabled, TA!Deactivating, TA!Disable, TA!Error, TA!ClearError, TA!enabled
  <2> QED BY <2>2, <2>3
<1> QED BY <1>3, <1>4, <1>6, <1>7, <1>8, <1>9, <1>10, Zenon DEF EndRises

\* The CrdtGrants fill both ends' credits to the ceiling.
LEMMA SeedsFill ==
  /\ iCr = INI!NoCredit => INI!Grant(TgtGrants) = iFull
  /\ tCr = TGT!NoCredit => TGT!Grant(IniGrants) = tFull
<1>0. D \in Nat /\ D = Worth[DataCode]
  BY Ceiling
<1>1. /\ Decoded(TgtGrants.wreq) = 4 /\ Decoded(TgtGrants.rreq) = 4
      /\ Decoded(TgtGrants.wdata) = D
      /\ Decoded(IniGrants.rdata) = D /\ Decoded(IniGrants.wresp) = 1
  BY <1>0, Decodes, Worths DEF TgtGrants, IniGrants, C!mk_msgcredit
<1>2. TgtGrants \in MsgCredit /\ IniGrants \in MsgCredit
  BY GrantWords
<1>3. 0 \in 0 .. 3 /\ 0 \in 0 .. D /\ 0 \in 0 .. 1
  BY <1>0
<1>4. iCr = INI!NoCredit => INI!Grant(TgtGrants) = iFull
  <2> SUFFICES ASSUME iCr = INI!NoCredit PROVE INI!Grant(TgtGrants) = iFull
    OBVIOUS
  <2>1. iCr = [wreq |-> 0, rreq |-> 0, wdata |-> 0]
    BY DEF INI!NoCredit
  <2>2. /\ 0 + Decoded(TgtGrants.wreq) >= 3 /\ 0 + Decoded(TgtGrants.rreq) >= 3
        /\ 0 + Decoded(TgtGrants.wdata) >= D
    BY <1>0, <1>1
  <2> HIDE DEF iFull
  <2> QED BY <1>2, <1>3, <2>1, <2>2, IniGrants3
<1>5. tCr = TGT!NoCredit => TGT!Grant(IniGrants) = tFull
  <2> SUFFICES ASSUME tCr = TGT!NoCredit PROVE TGT!Grant(IniGrants) = tFull
    OBVIOUS
  <2>1. tCr = [rdata |-> 0, wresp |-> 0]
    BY DEF TGT!NoCredit
  <2>2. /\ 0 + Decoded(IniGrants.rdata) >= D /\ 0 + Decoded(IniGrants.wresp) >= 1
    BY <1>0, <1>1
  <2> HIDE DEF tFull
  <2> QED BY <1>2, <1>3, <2>1, <2>2, TgtGrants3
<1> QED BY <1>4, <1>5

\* The ends rise together; after the CrdtGrants every sender has its full credit.
LEMMA BootStep ==
  ASSUME Types, Booting, NEW acc, NEW w, NEW bRdy, NEW rRdy, Chosen(acc, w, bRdy, rRdy),
         Edge(acc, w, bRdy, rRdy)
  PROVE  Types' /\ (Booting' \/ Running')
<1>1. /\ Resting'
      /\ e_beat' \in Nat /\ tAddr' \in Nat /\ tBeat' \in Nat /\ stamp' \in Nat
      /\ UNCHANGED <<tWbeat, tRbeat, tBresp, tAwDone, tWDone, tArDone>>
  BY BootMoves
<1>2. /\ iCr' = IF iAct = "DISABLED" THEN INI!NoCredit
                ELSE IF iSeed # None THEN INI!Grant(iSeed) ELSE iCr
      /\ tCr' = IF tAct = "DISABLED" THEN TGT!NoCredit
                ELSE IF tSeed # None THEN TGT!Grant(tSeed) ELSE tCr
      /\ a2b' = MiscFlit(IA!act_tx, IniGrants)
      /\ b2a' = MiscFlit(TA!act_tx, TgtGrants)
  BY BootMoves
<1>3. iAct \in {"DISABLED", "ACTIVATE"} /\ tAct \in {"DISABLED", "ACTIVATE"}
  BY DEF Booting, Boot1, Boot2, Boot3, Boot4, Boot5, Boot6, Stage
<1>4. /\ iPend' = FALSE /\ tPend' = FALSE
      /\ EndRises(iAct, iSent, iRcvd, Kind(b2a), IA!act_tx, iAct', iSent', iRcvd')
      /\ EndRises(tAct, tSent, tRcvd, Kind(a2b), TA!act_tx, tAct', tSent', tRcvd')
  BY <1>3, BootMoves, IARises, TARises DEF Types
<1>5. /\ \A g : MiscFlit(None, g) = None
      /\ Kind(None) = None
      /\ \A m \in {"areq", "aack", "crdt"} :
           /\ Kind(MiscFlit(m, IniGrants)) = m /\ Kind(MiscFlit(m, TgtGrants)) = m
           /\ MiscFlit(m, IniGrants) \in Flit /\ MiscFlit(m, TgtGrants) \in Flit
           /\ MiscFlit(m, IniGrants).mc = IniGrants /\ MiscFlit(m, TgtGrants).mc = TgtGrants
      /\ None \notin {"areq", "aack", "crdt"}
  BY GrantWords, Present DEF IA!Misc, IA!BringUp, IA!TearDown
\* Without a CrdtGrant on the links the credits stay as they are.
<1>6. /\ iAct = "ACTIVATE" /\ Kind(b2a) # "crdt" => iCr' = iCr
      /\ tAct = "ACTIVATE" /\ Kind(a2b) # "crdt" => tCr' = tCr
      /\ iAct = "DISABLED" => iCr' = INI!NoCredit
      /\ tAct = "DISABLED" => tCr' = TGT!NoCredit
  BY <1>2 DEF iSeed, tSeed, IA!seed_valid, TA!seed_valid
<1>7. ASSUME a2b' \in Flit \cup {None}, b2a' \in Flit \cup {None} PROVE Types'
  BY <1>1, <1>4, <1>7, BootTypes
<1>8. CASE Boot1
  <2>1. Kind(a2b) = None /\ Kind(b2a) = None
    BY <1>5, <1>8 DEF Boot1, Stage
  <2>2. /\ IA!act_tx = "areq" /\ iAct' = "ACTIVATE" /\ iSent' = {"areq"} /\ iRcvd' = {}
        /\ TA!act_tx = "areq" /\ tAct' = "ACTIVATE" /\ tSent' = {"areq"} /\ tRcvd' = {}
    BY <1>4, <1>8, <2>1 DEF EndRises, Boot1, Stage
  <2>3. Boot2'
    BY <1>2, <2>2 DEF Boot2, Stage, MiscFlit, IniGrants, TgtGrants, C!mk_msgcredit
  <2>4. iCr' = INI!NoCredit /\ tCr' = TGT!NoCredit
    BY <1>6, <1>8 DEF Boot1, Stage
  <2> QED BY <1>1, <1>2, <1>5, <1>7, <2>2, <2>3, <2>4 DEF Booting, INI!NoCredit, TGT!NoCredit
<1>9. ASSUME Boot2 \/ Boot3 \/ Boot4 PROVE iCr = INI!NoCredit /\ tCr = TGT!NoCredit
  <2>1. ~Boot6
    BY <1>9 DEF Boot2, Boot3, Boot4, Boot6, Stage
  <2> QED BY <2>1 DEF Booting
<1>10. CASE Boot2
  <2>1. Kind(a2b) = "areq" /\ Kind(b2a) = "areq"
    BY <1>5, <1>10 DEF Boot2, Stage
  <2>2. /\ IA!act_tx = None /\ iAct' = "ACTIVATE" /\ iSent' = {"areq"} /\ iRcvd' = {"areq"}
        /\ TA!act_tx = None /\ tAct' = "ACTIVATE" /\ tSent' = {"areq"} /\ tRcvd' = {"areq"}
    BY <1>4, <1>10, <2>1 DEF EndRises, Boot2, Stage
  <2>3. Boot3'
    BY <1>2, <2>2 DEF Boot3, Stage, MiscFlit, IniGrants, TgtGrants, C!mk_msgcredit
  <2>4. iCr' = INI!NoCredit /\ tCr' = TGT!NoCredit
    BY <1>6, <1>9, <1>10, <2>1 DEF Boot2, Stage
  <2> QED BY <1>1, <1>2, <1>5, <1>7, <2>2, <2>3, <2>4 DEF Booting, INI!NoCredit, TGT!NoCredit
<1>11. CASE Boot3
  <2>1. Kind(a2b) = None /\ Kind(b2a) = None
    BY <1>5, <1>11 DEF Boot3, Stage
  <2>2. /\ IA!act_tx = "aack" /\ iAct' = "ACTIVATE" /\ iSent' = {"areq", "aack"} /\ iRcvd' = {"areq"}
        /\ TA!act_tx = "aack" /\ tAct' = "ACTIVATE" /\ tSent' = {"areq", "aack"} /\ tRcvd' = {"areq"}
    BY <1>4, <1>11, <2>1 DEF EndRises, Boot3, Stage
  <2>3. Boot4'
    BY <1>2, <2>2 DEF Boot4, Stage, MiscFlit, IniGrants, TgtGrants, C!mk_msgcredit
  <2>4. iCr' = INI!NoCredit /\ tCr' = TGT!NoCredit
    BY <1>5, <1>6, <1>9, <1>11, <2>1 DEF Boot3, Stage
  <2> QED BY <1>1, <1>2, <1>5, <1>7, <2>2, <2>3, <2>4 DEF Booting, INI!NoCredit, TGT!NoCredit
<1>12. CASE Boot4
  <2>1. Kind(a2b) = "aack" /\ Kind(b2a) = "aack"
    BY <1>5, <1>12 DEF Boot4, Stage
  <2>2. /\ IA!act_tx = "crdt" /\ iAct' = "ACTIVATE" /\ iSent' = {"areq", "aack", "crdt"}
        /\ iRcvd' = {"areq", "aack"}
        /\ TA!act_tx = "crdt" /\ tAct' = "ACTIVATE" /\ tSent' = {"areq", "aack", "crdt"}
        /\ tRcvd' = {"areq", "aack"}
    BY <1>4, <1>12, <2>1 DEF EndRises, Boot4, Stage
  <2>3. Boot5'
    BY <1>2, <2>2 DEF Boot5, Stage, MiscFlit, IniGrants, TgtGrants, C!mk_msgcredit
  <2>4. iCr' = INI!NoCredit /\ tCr' = TGT!NoCredit
    BY <1>6, <1>9, <1>12, <2>1 DEF Boot4, Stage
  <2> QED BY <1>1, <1>2, <1>5, <1>7, <2>2, <2>3, <2>4 DEF Booting, INI!NoCredit, TGT!NoCredit
<1>13. CASE Boot5
  <2>1. Kind(a2b) = "crdt" /\ Kind(b2a) = "crdt"
    BY <1>5, <1>13 DEF Boot5, Stage
  <2>2. /\ IA!act_tx = None /\ iAct' = "ACTIVATE" /\ iSent' = {"areq", "aack", "crdt"}
        /\ iRcvd' = {"areq", "aack", "crdt"}
        /\ TA!act_tx = None /\ tAct' = "ACTIVATE" /\ tSent' = {"areq", "aack", "crdt"}
        /\ tRcvd' = {"areq", "aack", "crdt"}
    BY <1>4, <1>13, <2>1 DEF EndRises, Boot5, Stage
  <2>3. Boot6'
    BY <1>2, <2>2 DEF Boot6, Stage, MiscFlit, IniGrants, TgtGrants, C!mk_msgcredit
  <2>4. iSeed = TgtGrants /\ tSeed = IniGrants
    BY <1>5, <1>13, <2>1 DEF Boot5, Stage, iSeed, tSeed, IA!seed_valid, TA!seed_valid
  <2>5. iSeed # None /\ tSeed # None
    BY <2>4, GrantWords, Present
  <2>6. iCr = INI!NoCredit /\ tCr = TGT!NoCredit
    <3>1. ~Boot6
      BY <1>13, <1>5 DEF Boot5, Boot6, Stage
    <3> QED BY <3>1 DEF Booting
  <2>7. iCr' = iFull /\ tCr' = tFull
    BY <1>2, <1>13, <2>4, <2>5, <2>6, SeedsFill DEF Boot5, Stage
  <2>8. Booting'
    BY <1>1, <2>3, <2>7 DEF Booting, iFull, tFull
  <2> QED BY <1>2, <1>5, <1>7, <2>2, <2>8
<1>14. CASE Boot6
  <2>1. Kind(a2b) = None /\ Kind(b2a) = None
    BY <1>5, <1>14 DEF Boot6, Stage
  <2>2. IA!act_tx = None /\ iAct' = "ENABLED" /\ TA!act_tx = None /\ tAct' = "ENABLED"
    BY <1>4, <1>14, <2>1 DEF EndRises, Boot6, Stage
  <2>3. iCr = iFull /\ tCr = tFull
    <3>1. ~Boot1 /\ ~Boot2 /\ ~Boot3 /\ ~Boot4 /\ ~Boot5
      BY <1>14 DEF Boot1, Boot2, Boot3, Boot4, Boot5, Boot6, Stage
    <3> QED BY <3>1 DEF Booting
  <2>4. iCr' = iFull /\ tCr' = tFull /\ a2b' = None /\ b2a' = None
    BY <1>2, <1>5, <1>6, <1>14, <2>1, <2>2, <2>3 DEF Boot6, Stage
  <2>5. Home'
    <3>1. D \in Nat /\ 0 \in 0 .. D /\ 0 \in 0 .. 1 /\ D - 0 = D /\ 1 - 0 = 1
      BY Ceiling
    <3>2. tCr' = [rdata |-> D - 0, wresp |-> 1 - 0] /\ iRet' = [rdata |-> 0, wresp |-> 0]
      BY <1>1, <2>4, <3>1 DEF Resting, INI!NoReturn, tFull
    <3> QED BY <1>1, <2>4, <3>1, <3>2 DEF Home, Resting, TGT!NoReturn, iFull
  <2>6. Books'
    BY <1>1 DEF Books, Resting, nCur, nErr
  <2>7. Turns'
    BY <1>1 DEF Turns, Resting
  <2>8. Running'
    BY <2>2, <2>5, <2>6, <2>7 DEF Running, Phase, Connected
  <2> QED BY <1>7, <2>4, <2>8
<1> QED BY <1>8, <1>10, <1>11, <1>12, <1>13, <1>14 DEF Booting

-----------------------------------------------------------------------------
(* The invariant, and what it says of the chain.                           *)

LEMMA InitInv == Init => Inv
<1> SUFFICES ASSUME Init PROVE Types /\ Booting
  BY DEF Inv
<1>1. /\ q = <<>> /\ e_state = "E_IDLE" /\ e_beat = 0
      /\ iState = "S_IDLE" /\ iWbeat = None /\ iCr = INI!NoCredit /\ iRet = INI!NoReturn
      /\ iAct = "DISABLED" /\ iSent = {} /\ iRcvd = {} /\ iPend = FALSE
      /\ tAct = "DISABLED" /\ tSent = {} /\ tRcvd = {} /\ tPend = FALSE
      /\ a2b = None /\ b2a = None
  BY DEF Init, FE!Init, INI!Init, IA!Init, TA!Init, A2B!Init, B2A!Init
<1>2. /\ tState = "S_IDLE" /\ tAddr = 0 /\ tBeat = 0 /\ tWbeat = None
      /\ tAwDone = FALSE /\ tWDone = FALSE /\ tBresp = "OKAY"
      /\ tRbeat = None /\ tArDone = FALSE /\ tCr = TGT!NoCredit /\ tRet = TGT!NoReturn
      /\ todo = <<>> /\ rbeats = 0 /\ stamp = 0
  BY DEF Init, TGT!Init, AXI!Init
<1>3. /\ mem \in [0 .. WORDS - 1 -> Nat] /\ awaddr_q \in 0 .. WORDS - 1
      /\ wbeat_q \in LiteWBeat /\ RDATA \in Nat
      /\ BVALID = FALSE /\ RVALID = FALSE /\ aw_taken = FALSE /\ w_taken = FALSE
  BY AxiUcieMemChainAssumption DEF Init, MEM!Init, MEM!Words, LiteWBeat
<1>4. Types
  <2>1. q \in Seq(Requests) /\ (\A i \in DOMAIN q : ~FE!Long(q[i])) /\ todo \in Seq(Todo)
    BY <1>1, <1>2, EmptySeq, Len(<<>>) = 0
  <2> QED BY <1>1, <1>2, <1>3, <2>1, Zenon DEF Types
<1>5. Boot1
  BY <1>1 DEF Boot1, Stage, MiscFlit
<1> QED BY <1>1, <1>2, <1>4, <1>5 DEF Booting, Resting

\* The invariant is about vars alone.
LEMMA IdleInv == Inv /\ UNCHANGED vars => Inv'
<1> SUFFICES ASSUME Inv, UNCHANGED vars PROVE Inv'
  OBVIOUS
<1>1. /\ UNCHANGED <<q, e_state, e_req, e_beat, iState, iReq, iWbeat, iB, iCr, iRet>>
      /\ UNCHANGED <<iAct, iSent, iRcvd, iPend, tAct, tSent, tRcvd, tPend, a2b, b2a>>
      /\ UNCHANGED <<tState, tReq, tAddr, tBeat, tWbeat, tAwDone, tWDone, tBresp>>
      /\ UNCHANGED <<tRbeat, tArDone, tCr, tRet, todo, rbeats, stamp>>
      /\ UNCHANGED <<mem, aw_taken, w_taken, awaddr_q, wbeat_q, BVALID, RVALID, RDATA>>
  BY DEF vars, feVars, iniVars, actVars, tgtVars, memVars, axiVars
<1>2. Types'
  BY <1>1 DEF Inv, Types
<1>3. Booting => Booting'
  BY <1>1 DEF Booting, Resting, Boot1, Boot2, Boot3, Boot4, Boot5, Boot6, Stage
<1>4. Books => Books'
  BY <1>1 DEF Books, nCur, nErr, Same
<1>5. Turns => Turns'
  BY <1>1 DEF Turns, taken, beats
<1>6. (Home => Home') /\ (WReqOut => WReqOut') /\ (RReqOut => RReqOut')
  BY <1>1 DEF Home, WReqOut, RReqOut, Requested, Repays, taken
<1>7. (Writing => Writing') /\ (WriteDone => WriteDone')
  BY <1>1 DEF Writing, WriteDone, Written, taken, beats
<1>8. (WRespOut => WRespOut') /\ (Reading => Reading')
  BY <1>1 DEF WRespOut, Written, Reading, taken, beats
<1>9. Running => Running'
  BY <1>1, <1>4, <1>5, <1>6, <1>7, <1>8 DEF Running, Connected, Phase
<1> QED BY <1>2, <1>3, <1>9 DEF Inv

\* The invariant is inductive.
LEMMA StepInv == Inv /\ [Next]_vars => Inv'
<1> SUFFICES ASSUME Inv, [Next]_vars PROVE Inv'
  OBVIOUS
<1>1. CASE UNCHANGED vars
  BY <1>1, IdleInv
<1>2. CASE Next
  <2>1. PICK acc \in Offers, w \in Beats \cup {None}, bRdy \in Takes(s_b), rRdy \in Takes(s_r) :
          Edge(acc, w, bRdy, rRdy)
    BY <1>2 DEF Next
  <2>2. Chosen(acc, w, bRdy, rRdy)
    BY <2>1 DEF Chosen
  <2>3. CASE Booting
    BY <2>1, <2>2, <2>3, BootStep DEF Inv
  <2>4. CASE Running
    BY <2>1, <2>2, <2>4, PhaseStep DEF Inv
  <2> QED BY <2>3, <2>4 DEF Inv
<1> QED BY <1>1, <1>2

\* The registers, the bring-up, the manager's books and the phase of the burst
\* under way always agree.
THEOREM AlwaysInPhase == Spec => []Inv
BY InitInv, StepInv, PTL DEF Spec

\* While the links come up only Misc messages travel.
LEMMA BootLinks ==
  ASSUME Types, Booting
  PROVE  /\ iRx = None /\ tRx = None /\ ~IA!enabled
         /\ a2b # None => a2b.mt \in IA!Misc
         /\ b2a # None => b2a.mt \in IA!Misc
<1>1. /\ iAct # "ENABLED" /\ tAct # "ENABLED"
      /\ \E m \in IA!Misc \cup {None} : a2b = MiscFlit(m, IniGrants) /\ b2a = MiscFlit(m, TgtGrants)
  BY DEF Booting, Boot1, Boot2, Boot3, Boot4, Boot5, Boot6, Stage, IA!Misc, IA!BringUp
<1> QED BY <1>1, GrantWords DEF iRx, tRx, IA!enabled, TA!enabled, MiscFlit

\* The target only ever finds a request where it reads one and write data where
\* it reads write data, the initiator the response it waits for: the type of a
\* message is never tested where aou_target.sv takes it.
THEOREM FsmsInStep == Spec => []FlitsExpected
<1>1. Inv => FlitsExpected
  <2> SUFFICES ASSUME Inv PROVE FlitsExpected
    OBVIOUS
  <2>1. CASE Booting
    BY <2>1, BootLinks DEF FlitsExpected, Inv
  <2>2. CASE Running
    <3>1. Phase
      BY <2>2 DEF Running
    <3>2. CASE Home
      BY <3>2 DEF Home, FlitsExpected, iRx, tRx
    <3>3. CASE WReqOut \/ RReqOut
      BY <3>3 DEF WReqOut, RReqOut, Requested, FlitsExpected, iRx, tRx
    <3>4. CASE Writing
      BY <3>4 DEF Writing, FlitsExpected, iRx, tRx
    <3>5. CASE WriteDone \/ WRespOut
      BY <3>5 DEF WriteDone, WRespOut, Written, FlitsExpected, iRx, tRx
    <3>6. CASE Reading
      BY <3>6 DEF Reading, FlitsExpected, iRx, tRx
    <3> QED BY <3>1, <3>2, <3>3, <3>4, <3>5, <3>6 DEF Phase
  <2> QED BY <2>1, <2>2 DEF Inv
<1> QED BY <1>1, AlwaysInPhase, PTL

\* A sender never holds, and has on the link, more credit than was granted: the
\* coarse codes of Table 17 return more than was used, and the ceiling takes
\* the difference.
THEOREM NoCreditBeyondGrant == Spec => []CreditsWithinGrant
<1>1. /\ C!WRITEREQ_GRAN = 3 /\ C!READREQ_GRAN = 3 /\ C!WRITEDATA_GRAN = 8
      /\ C!READDATA_GRAN = 8 /\ C!WRITERESP_GRAN = 1 /\ DataCredits = D
  BY DEF C!WRITEREQ_GRAN, C!READREQ_GRAN, C!WRITEDATA_GRAN, C!READDATA_GRAN,
         C!WRITERESP_GRAN, D
<1>2. D \in Nat
  BY Ceiling
<1>3. \A link : InFlight(link, "wreq") = One(link # None /\ link.mt = "wreq")
                /\ InFlight(link, "rreq") = One(link # None /\ link.mt = "rreq")
                /\ InFlight(link, "wdata") = One(link # None /\ link.mt = "wdata")
                /\ InFlight(link, "wresp") = One(link # None /\ link.mt = "wresp")
                /\ InFlight(link, "rdata") = One(link # None /\ link.mt = "rdata")
  BY DEF InFlight, One
<1>4. ASSUME NEW a \in Nat, NEW b \in Nat, NEW c \in Nat, NEW r \in Nat, NEW p \in Nat,
             iCr = [wreq |-> a, rreq |-> b, wdata |-> c], tCr = [rdata |-> r, wresp |-> p],
             a + 3 * InFlight(a2b, "wreq") <= 3, b + 3 * InFlight(a2b, "rreq") <= 3,
             c + 8 * InFlight(a2b, "wdata") <= D,
             p + InFlight(b2a, "wresp") <= 1, r + 8 * InFlight(b2a, "rdata") <= D
      PROVE  CreditsWithinGrant
  <2>1. iCr.wreq = a /\ iCr.rreq = b /\ iCr.wdata = c /\ tCr.rdata = r /\ tCr.wresp = p
    BY <1>4
  <2>2. InFlight(b2a, "wresp") \in {0, 1}
    BY DEF InFlight
  <2>3. 1 * InFlight(b2a, "wresp") = InFlight(b2a, "wresp")
    BY <2>2
  <2> QED BY <1>1, <1>4, <2>1, <2>3 DEF CreditsWithinGrant
<1>5. Inv => CreditsWithinGrant
  <2> SUFFICES ASSUME Inv PROVE CreditsWithinGrant
    OBVIOUS
  <2>1. CASE Booting
    <3>1. a2b # None => a2b.mt \notin {"wreq", "rreq", "wdata", "wresp", "rdata"}
      BY <2>1, BootLinks DEF Inv, IA!Misc, IA!BringUp, IA!TearDown
    <3>2. b2a # None => b2a.mt \notin {"wreq", "rreq", "wdata", "wresp", "rdata"}
      BY <2>1, BootLinks DEF Inv, IA!Misc, IA!BringUp, IA!TearDown
    <3>3. /\ InFlight(a2b, "wreq") = 0 /\ InFlight(a2b, "rreq") = 0 /\ InFlight(a2b, "wdata") = 0
          /\ InFlight(b2a, "wresp") = 0 /\ InFlight(b2a, "rdata") = 0
      BY <3>1, <3>2 DEF InFlight
    <3>4. \/ iCr = [wreq |-> 0, rreq |-> 0, wdata |-> 0] /\ tCr = [rdata |-> 0, wresp |-> 0]
          \/ iCr = iFull /\ tCr = tFull
      BY <2>1 DEF Booting, INI!NoCredit, TGT!NoCredit
    <3>5. CASE iCr = [wreq |-> 0, rreq |-> 0, wdata |-> 0] /\ tCr = [rdata |-> 0, wresp |-> 0]
      BY <1>2, <1>4, <3>3, <3>5
    <3>6. CASE iCr = iFull /\ tCr = tFull
      BY <1>2, <1>4, <3>3, <3>6 DEF iFull, tFull
    <3> QED BY <3>4, <3>5, <3>6
  <2>2. CASE Running
    <3>1. Phase
      BY <2>2 DEF Running
    <3>2. CASE Home
      <4>1. /\ InFlight(a2b, "wreq") = 0 /\ InFlight(a2b, "rreq") = 0 /\ InFlight(a2b, "wdata") = 0
            /\ InFlight(b2a, "wresp") = 0 /\ InFlight(b2a, "rdata") = 0
        BY <3>2 DEF Home, InFlight
      <4>2. PICK r \in 0 .. D, p \in 0 .. 1 : tCr = [rdata |-> D - r, wresp |-> 1 - p]
        BY <3>2 DEF Home
      <4>3. D - r \in Nat /\ 1 - p \in Nat /\ D - r <= D /\ 1 - p <= 1
        BY <1>2
      <4> QED BY <1>2, <1>4, <3>2, <4>1, <4>2, <4>3 DEF Home, iFull
    <3>3. CASE WReqOut \/ RReqOut
      <4>1. a2b # None /\ b2a = None /\ Repays(a2b.mc)
        BY <3>3 DEF WReqOut, RReqOut, Requested
      <4>2. PICK r \in 0 .. D, p \in 0 .. 1 : tCr = [rdata |-> D - r, wresp |-> 1 - p]
        BY <4>1 DEF Repays
      <4>3. D - r \in Nat /\ 1 - p \in Nat /\ D - r <= D /\ 1 - p <= 1
        BY <1>2
      <4>4. InFlight(b2a, "wresp") = 0 /\ InFlight(b2a, "rdata") = 0
        BY <4>1 DEF InFlight
      <4>5. CASE WReqOut
        <5>1. /\ iCr = [wreq |-> 0, rreq |-> 3, wdata |-> D]
              /\ InFlight(a2b, "wreq") = 1 /\ InFlight(a2b, "rreq") = 0 /\ InFlight(a2b, "wdata") = 0
          BY <4>5 DEF WReqOut, Requested, InFlight
        <5> QED BY <1>2, <1>4, <4>2, <4>3, <4>4, <5>1
      <4>6. CASE RReqOut
        <5>1. /\ iCr = [wreq |-> 3, rreq |-> 0, wdata |-> D]
              /\ InFlight(a2b, "wreq") = 0 /\ InFlight(a2b, "rreq") = 1 /\ InFlight(a2b, "wdata") = 0
          BY <4>6 DEF RReqOut, Requested, InFlight
        <5> QED BY <1>2, <1>4, <4>2, <4>3, <4>4, <5>1
      <4> QED BY <3>3, <4>5, <4>6
    <3>4. CASE Writing
      <4> DEFINE n == taken - One(iWbeat # None)
      <4>1. /\ InFlight(a2b, "wreq") = 0 /\ InFlight(a2b, "rreq") = 0
            /\ InFlight(a2b, "wdata") = One(a2b # None)
            /\ InFlight(b2a, "wresp") = 0 /\ InFlight(b2a, "rdata") = 0
        BY <3>4 DEF Writing, InFlight, One
      <4>2. /\ iCr = [wreq |-> 0, rreq |-> 3, wdata |-> D - 8 * n] /\ tCr = [rdata |-> D, wresp |-> 1]
            /\ One(a2b # None) \in {0, 1} /\ One(iWbeat # None) \in {0, 1} /\ One(tWbeat # None) \in {0, 1}
        BY <3>4 DEF Writing, tFull, One
      <4>3. /\ taken \in Nat /\ beats \in Nat /\ 8 * beats <= D /\ tBeat \in Nat /\ taken <= beats
            /\ taken = tBeat + One(tWbeat # None) + One(a2b # None) + One(iWbeat # None)
        BY <2>2, <3>4, BurstFits DEF Inv, Types, Running, Writing
      <4>4. n \in Nat /\ n <= beats /\ One(a2b # None) <= n
        BY <4>2, <4>3
      <4> HIDE DEF n
      <4>5. D - 8 * n \in Nat /\ D - 8 * n + 8 * One(a2b # None) <= D
        BY <1>2, <4>2, <4>3, <4>4
      <4> QED BY <1>2, <1>4, <4>1, <4>2, <4>5
    <3>5. CASE WriteDone \/ WRespOut
      <4>1. /\ InFlight(a2b, "wreq") = 0 /\ InFlight(a2b, "rreq") = 0 /\ InFlight(a2b, "wdata") = 0
            /\ InFlight(b2a, "rdata") = 0
            /\ iCr = [wreq |-> 0, rreq |-> 3, wdata |-> D - 8 * beats]
        BY <3>5 DEF WriteDone, WRespOut, Written, InFlight
      <4>2. beats \in Nat /\ 8 * beats <= D
        BY <2>2, <3>5, BurstFits DEF Inv, Running, WriteDone, WRespOut, Written
      <4>3. D - 8 * beats \in Nat /\ D - 8 * beats <= D
        BY <1>2, <4>2
      <4>4. \/ tCr = [rdata |-> D, wresp |-> 1] /\ InFlight(b2a, "wresp") = 0
            \/ tCr = [rdata |-> D, wresp |-> 0] /\ InFlight(b2a, "wresp") = 1
        BY <3>5 DEF WriteDone, WRespOut, InFlight, tFull
      <4> QED BY <1>2, <1>4, <4>1, <4>3, <4>4
    <3>6. CASE Reading
      <4> DEFINE c == IF rbeats = 0 THEN 0 ELSE 3
      <4>1. /\ InFlight(a2b, "wreq") = 0 /\ InFlight(a2b, "rreq") = 0 /\ InFlight(a2b, "wdata") = 0
            /\ InFlight(b2a, "wresp") = 0 /\ InFlight(b2a, "rdata") = One(b2a # None)
            /\ iCr = [wreq |-> 3, rreq |-> c, wdata |-> D]
            /\ tCr = [rdata |-> D - 8 * tBeat, wresp |-> 1]
            /\ c \in {0, 3}
        BY <3>6 DEF Reading, InFlight, One
      <4>2. /\ beats \in Nat /\ 8 * beats <= D /\ rbeats \in Nat /\ tBeat = rbeats + One(b2a # None)
            /\ One(b2a # None) \in {0, 1} /\ rbeats <= iReq.len /\ beats = iReq.len + 1 /\ iReq.len \in Nat
        BY <2>2, <3>6, BurstFits DEF Inv, Types, Running, Reading, One
      <4>3. tBeat \in Nat /\ tBeat <= beats /\ One(b2a # None) <= tBeat
        BY <4>2
      <4>4. D - 8 * tBeat \in Nat /\ D - 8 * tBeat + 8 * One(b2a # None) <= D
        BY <1>2, <4>2, <4>3
      <4> HIDE DEF c
      <4> QED BY <1>2, <1>4, <4>1, <4>4
    <3> QED BY <3>1, <3>2, <3>3, <3>4, <3>5, <3>6 DEF Phase
  <2> QED BY <2>1, <2>2 DEF Inv
<1> QED BY <1>5, AlwaysInPhase, PTL

\* No credit leaks: with nothing outstanding the initiator holds all it was
\* granted, and what the target does not hold the initiator still owes it.
THEOREM NoCreditLeaks == Spec => []CreditsComeHome
<1>1. C!WRITEREQ_GRAN = 3 /\ C!READREQ_GRAN = 3 /\ C!WRITERESP_GRAN = 1 /\ DataCredits = D
  BY DEF C!WRITEREQ_GRAN, C!READREQ_GRAN, C!WRITERESP_GRAN, D
<1>2. Inv => CreditsComeHome
  <2> SUFFICES ASSUME Inv, Quiet PROVE CreditsComeHome
    BY DEF CreditsComeHome
  <2>1. ~Booting
    BY BootLinks DEF Inv, Quiet
  <2>2. Running
    BY <2>1 DEF Inv
  <2>3. Len(todo) = 0
    BY DEF Quiet
  <2>4. iState = "S_IDLE"
    <3>1. Len(todo) = nCur + Len(q) + nErr /\ Len(q) \in Nat
      BY <2>2, LenProperties DEF Running, Books, Inv, Types
    <3>2. nCur \in {0, 1} /\ nErr \in {0, 1}
      BY DEF nCur, nErr
    <3>3. nCur = 0
      BY <2>3, <3>1, <3>2
    <3> QED BY <3>3 DEF nCur
  <2>5. Home
    BY <2>2, <2>4 DEF Running, Phase, Home, WReqOut, RReqOut, Writing, Written, WriteDone, WRespOut, Reading
  <2>6. PICK r \in 0 .. D : \E p \in 0 .. 1 :
          tCr = [rdata |-> D - r, wresp |-> 1 - p] /\ iRet = [rdata |-> r, wresp |-> p]
    BY <2>5 DEF Home
  <2>7. PICK p \in 0 .. 1 :
          tCr = [rdata |-> D - r, wresp |-> 1 - p] /\ iRet = [rdata |-> r, wresp |-> p]
    BY <2>6
  <2>8. tCr.rdata = D - r /\ tCr.wresp = 1 - p /\ iRet.rdata = r /\ iRet.wresp = p
    BY <2>7
  <2>9. D \in Nat /\ D - r + r >= D /\ 1 - p + p >= 1
    BY Ceiling
  <2>10. iCr = [wreq |-> 3, rreq |-> 3, wdata |-> D]
    BY <2>5 DEF Home, iFull
  <2> QED BY <1>1, <2>8, <2>9, <2>10 DEF CreditsComeHome
<1> QED BY <1>2, AlwaysInPhase, PTL

-----------------------------------------------------------------------------
(* Data: the addresses of a burst.                                         *)

\* Address a is where the target bridge is at beat k of r.
At(r, a, k) ==
  IF r.burst = "FIXED" THEN a = r.addr
  ELSE IF r.burst = "WRAP" THEN a = AXI!BeatAddr(r, k)
  ELSE a = r.addr + k * 2 ^ r.size

\* Bytes per beat.
LEMMA Powers == 2 ^ 0 = 1 /\ 2 ^ 1 = 2 /\ 2 ^ 2 = 4
OBVIOUS

\* Counting in steps of b modulo t, b a divisor of t.
LEMMA Counting ==
  ASSUME NEW t \in {2, 4, 8, 16, 32, 64}, NEW b \in {1, 2, 4}, t % b = 0, NEW n \in Nat, n % b = 0
  PROVE  (n + b) % t = IF (n % t) + b = t THEN 0 ELSE (n % t) + b
<1>1. CASE t = 2 BY <1>1
<1>2. CASE t = 4 BY <1>2
<1>3. CASE t = 8 BY <1>3
<1>4. CASE t = 16 BY <1>4
<1>5. CASE t = 32 BY <1>5
<1>6. CASE t = 64 BY <1>6
<1> QED BY <1>1, <1>2, <1>3, <1>4, <1>5, <1>6

\* A beat and its container are in the same word.
LEMMA Containers ==
  ASSUME NEW b \in {1, 2, 4}, NEW a \in Nat, NEW k \in Nat
  PROVE  (a + k * b) \div 4 = ((a \div b) * b + k * b) \div 4
<1>1. CASE b = 1 BY <1>1
<1>2. CASE b = 2 BY <1>2
<1>3. CASE b = 4 BY <1>3
<1> QED BY <1>1, <1>2, <1>3

\* The parts of a burst's addresses.
bytes(r) == 2 ^ r.size
total(r) == 2 ^ r.size * (r.len + 1)
low(r)   == (r.addr \div total(r)) * total(r)

\* A WRAP burst fills a block that is a power of two, in whole beats.
LEMMA Parts ==
  ASSUME NEW r \in Requests
  PROVE  /\ bytes(r) \in {1, 2, 4} /\ r.addr \in Nat /\ r.len \in Nat
         /\ r.burst \in {"FIXED", "INCR", "WRAP"}
         /\ r.burst = "WRAP" =>
              /\ total(r) \in {2, 4, 8, 16, 32, 64} /\ total(r) % bytes(r) = 0
              /\ r.addr % bytes(r) = 0
<1>1. /\ r.addr \in Nat /\ r.len \in Nat /\ r.size \in {0, 1, 2}
      /\ r.burst \in {"FIXED", "INCR", "WRAP"}
  BY RequestFields
<1>2. bytes(r) \in {1, 2, 4}
  BY <1>1, Powers DEF bytes
<1>3. ASSUME r.burst = "WRAP"
      PROVE  total(r) \in {2, 4, 8, 16, 32, 64} /\ total(r) % bytes(r) = 0 /\ r.addr % bytes(r) = 0
  <2>1. r.len + 1 \in {2, 4, 8, 16} /\ r.addr % bytes(r) = 0
    BY <1>3, RequestsAssumption DEF bytes
  <2>2. \A n \in {2, 4, 8, 16}, m \in {1, 2, 4} :
          m * n \in {2, 4, 8, 16, 32, 64} /\ (m * n) % m = 0
    OBVIOUS
  <2>3. total(r) = bytes(r) * (r.len + 1)
    BY DEF total, bytes
  <2> QED BY <1>2, <2>1, <2>2, <2>3
<1> QED BY <1>1, <1>2, <1>3

\* The offset of beat k of a WRAP burst in its block of t bytes.
Offsets(t, b, a, k) ==
  /\ (a \div t) * t \in Nat /\ a - (a % t) = (a \div t) * t
  /\ (a - (a \div t) * t + k * b) \in Nat
  /\ (a - (a \div t) * t + k * b) % b = 0
  /\ (a - (a \div t) * t + k * b) + b = a - (a \div t) * t + (k + 1) * b
  /\ (a \div t) * t + ((a - (a \div t) * t + 0 * b) % t) = a

\* Wrapping keeps the offset a multiple of the beat.
LEMMA WrapOffset ==
  ASSUME NEW t \in {2, 4, 8, 16, 32, 64}, NEW b \in {1, 2, 4}, t % b = 0,
         NEW a \in Nat, a % b = 0, NEW k \in Nat
  PROVE  Offsets(t, b, a, k)
<1>1. /\ (a \div t) * t \in Nat /\ a - (a % t) = (a \div t) * t /\ a - (a \div t) * t = a % t
      /\ a % t \in Nat /\ (a % t) % t = a % t
  <2>1. CASE t = 2 BY <2>1
  <2>2. CASE t = 4 BY <2>2
  <2>3. CASE t = 8 BY <2>3
  <2>4. CASE t = 16 BY <2>4
  <2>5. CASE t = 32 BY <2>5
  <2>6. CASE t = 64 BY <2>6
  <2> QED BY <2>1, <2>2, <2>3, <2>4, <2>5, <2>6
<1>2. (a % t) % b = 0
  <2>1. CASE b = 1 BY <1>1, <2>1
  <2>2. CASE b = 2
    BY <2>2
  <2>3. CASE b = 4 BY <2>3
  <2> QED BY <2>1, <2>2, <2>3
<1> DEFINE o == a - (a \div t) * t
<1>3. o = a % t /\ o \in Nat
  BY <1>1
<1> HIDE DEF o
<1>4. o + k * b \in Nat /\ (o + k * b) % b = 0 /\ (o + k * b) + b = o + (k + 1) * b /\ o + 0 * b = o
  <2>1. o % b = 0
    BY <1>2, <1>3
  <2>2. CASE b = 1 BY <1>3, <2>1, <2>2
  <2>3. CASE b = 2 BY <1>3, <2>1, <2>3
  <2>4. CASE b = 4 BY <1>3, <2>1, <2>4
  <2> QED BY <2>2, <2>3, <2>4
<1>5. (a \div t) * t + ((o + 0 * b) % t) = a
  <2>1. o + 0 * b = o /\ o % t = a % t
    BY <1>1, <1>3, <1>4
  <2> DEFINE m == (a \div t) * t
  <2>2. m \in Nat /\ a - m = o /\ (o + 0 * b) % t = o
    BY <1>1, <1>3, <2>1
  <2> HIDE DEF m
  <2>3. m + ((o + 0 * b) % t) = a
    BY <1>3, <2>2
  <2> QED BY <2>3 DEF m
<1> QED BY <1>1, <1>4, <1>5 DEF o, Offsets

\* A WRAP burst's beat k.
LEMMA WrapAddr ==
  ASSUME NEW r \in Requests, r.burst = "WRAP", NEW k \in Nat
  PROVE  AXI!BeatAddr(r, k) = low(r) + ((r.addr - low(r) + k * bytes(r)) % total(r))
BY DEF AXI!BeatAddr, low, bytes, total

\* The first beat is at the address of the request.
LEMMA WalkBegins ==
  ASSUME NEW r \in Requests
  PROVE  At(r, r.addr, 0)
<1>1. CASE r.burst = "WRAP"
  <2>1. low(r) + ((r.addr - low(r) + 0 * bytes(r)) % total(r)) = r.addr
    <3>1. Offsets(total(r), bytes(r), r.addr, 0)
      BY <1>1, Parts, WrapOffset
    <3> QED BY <3>1 DEF low, Offsets
  <2>2. AXI!BeatAddr(r, 0) = r.addr
    BY <1>1, <2>1, WrapAddr
  <2> QED BY <1>1, <2>2 DEF At
<1>2. CASE r.burst # "WRAP"
  <2>1. r.addr + 0 * bytes(r) = r.addr
    BY Parts
  <2> QED BY <1>2, <2>1 DEF At, bytes
<1> QED BY <1>1, <1>2

\* Every next one is where axi_burst_next of aou_pkg.sv goes.
LEMMA WalkNext ==
  ASSUME NEW r \in Requests, NEW k \in Nat, NEW a \in Nat, At(r, a, k)
  PROVE  At(r, TGT!axi_burst_next(a, r.addr, r.burst, r.size, r.len), k + 1)
<1> DEFINE n == TGT!axi_burst_next(a, r.addr, r.burst, r.size, r.len)
<1>1. CASE r.burst = "FIXED"
  BY <1>1 DEF At, TGT!axi_burst_next
<1>2. CASE r.burst = "WRAP"
  <2> DEFINE t == total(r)
             b == bytes(r)
             o == r.addr - low(r) + k * b
  <2>1. /\ t \in {2, 4, 8, 16, 32, 64} /\ b \in {1, 2, 4} /\ t % b = 0
        /\ r.addr \in Nat /\ r.addr % b = 0
    BY <1>2, Parts
  <2>2. a = low(r) + (o % t)
    BY <1>2, WrapAddr DEF At
  <2>3. /\ low(r) \in Nat /\ r.addr - (r.addr % t) = low(r)
        /\ o \in Nat /\ o % b = 0 /\ o + b = r.addr - low(r) + (k + 1) * b
    <3> HIDE DEF t, b
    <3>1. /\ (r.addr \div t) * t \in Nat /\ r.addr - (r.addr % t) = (r.addr \div t) * t
          /\ (r.addr - (r.addr \div t) * t + k * b) \in Nat
          /\ (r.addr - (r.addr \div t) * t + k * b) % b = 0
          /\ (r.addr - (r.addr \div t) * t + k * b) + b = r.addr - (r.addr \div t) * t + (k + 1) * b
      <4>1. Offsets(t, b, r.addr, k)
        BY <2>1, WrapOffset
      <4> QED BY <4>1 DEF Offsets
    <3>2. low(r) = (r.addr \div t) * t
      BY DEF low, t
    <3> QED BY <3>1, <3>2
  <2>4. (r.len + 1) * TGT!Bytes(r.size) = t
    BY <2>1, Parts DEF TGT!Bytes, total, bytes
  <2>5. n = IF a + b = low(r) + t THEN low(r) ELSE a + b
    BY <1>2, <2>3, <2>4 DEF TGT!axi_burst_next, TGT!Bytes, TGT!WrapLow, bytes
  <2> HIDE DEF t, b, o, n
  <2>6. (o + b) % t = IF (o % t) + b = t THEN 0 ELSE (o % t) + b
    BY <2>1, <2>3, Counting
  <2>7. o % t \in Nat
    BY <2>1, <2>3
  <2>8. n = low(r) + ((o + b) % t)
    <3> DEFINE l == low(r)
               x == o % t
    <3>1. l \in Nat /\ x \in Nat /\ t \in Nat /\ b \in Nat /\ a = l + x
      BY <2>1, <2>2, <2>3, <2>7
    <3>2. n = IF a + b = l + t THEN l ELSE a + b
      BY <2>5
    <3>3. (o + b) % t = IF x + b = t THEN 0 ELSE x + b
      BY <2>6
    <3> HIDE DEF l, x
    <3>4. n = l + ((o + b) % t)
      BY <3>1, <3>2, <3>3
    <3> QED BY <3>4 DEF l
  <2>9. n = AXI!BeatAddr(r, k + 1)
    BY <1>2, <2>3, <2>8, WrapAddr DEF b, t
  <2> QED BY <1>2, <2>9 DEF At, n
<1>3. CASE r.burst = "INCR"
  <2>1. a = r.addr + k * bytes(r) /\ n = a + bytes(r)
    BY <1>3 DEF At, bytes, TGT!axi_burst_next, TGT!Bytes
  <2>2. n = r.addr + (k + 1) * bytes(r)
    <3>1. \A b \in {1, 2, 4}, x \in Nat : x + k * b + b = x + (k + 1) * b
      OBVIOUS
    <3> QED BY <2>1, <3>1, Parts
  <2> QED BY <1>3, <2>2 DEF At, bytes
<1> QED BY <1>1, <1>2, <1>3, Parts

\* The bridge does not align an INCR burst as AXI does, but stays in the word.
LEMMA SameWord ==
  ASSUME NEW r \in Requests, NEW k \in Nat, NEW a, At(r, a, k)
  PROVE  MEM!Word(a) = AXI!BeatWord(r, k) /\ AXI!BeatWord(r, k) \in 0 .. WORDS - 1
<1>1. a \in Nat /\ a \div 4 = AXI!BeatAddr(r, k) \div 4
  <2>1. CASE r.burst = "FIXED"
    BY <2>1, Parts DEF At, AXI!BeatAddr
  <2>2. CASE r.burst = "WRAP"
    <3>1. a = low(r) + ((r.addr - low(r) + k * bytes(r)) % total(r))
      BY <2>2, WrapAddr DEF At
    <3>2. low(r) \in Nat /\ (r.addr - low(r) + k * bytes(r)) \in Nat
      BY <2>2, Parts, WrapOffset DEF low, Offsets
    <3>3. a \in Nat
      BY <2>2, <3>1, <3>2, Parts
    <3> QED BY <2>2, <3>3 DEF At
  <2>3. CASE r.burst = "INCR"
    <3>1. a = r.addr + k * bytes(r)
      BY <2>3 DEF At, bytes
    <3>2. AXI!BeatAddr(r, k) = IF k = 0 THEN r.addr
                               ELSE (r.addr \div bytes(r)) * bytes(r) + k * bytes(r)
      BY <2>3 DEF AXI!BeatAddr, bytes
    <3>3. a \in Nat
      <4>1. \A b \in {1, 2, 4}, x \in Nat : x + k * b \in Nat
        OBVIOUS
      <4> QED BY <3>1, <4>1, Parts
    <3>4. CASE k = 0
      <4>1. r.addr + 0 * bytes(r) = r.addr
        BY Parts
      <4> QED BY <3>1, <3>2, <3>3, <3>4, <4>1
    <3>5. CASE k # 0
      BY <3>1, <3>2, <3>3, <3>5, Parts, Containers
    <3> QED BY <3>4, <3>5
  <2> QED BY <2>1, <2>2, <2>3, Parts
<1>2. WORDS \in Nat \ {0} /\ (a \div 4) % WORDS \in 0 .. WORDS - 1
  <2>1. WORDS \in Nat \ {0} /\ a \div 4 \in Nat
    BY <1>1, AxiUcieMemChainAssumption
  <2> QED BY <2>1
<1> QED BY <1>1, <1>2 DEF MEM!Word, AXI!BeatWord

-----------------------------------------------------------------------------
(* What a write leaves in the memory.                                      *)

\* m is s after the first n beats of the write r.
After(m, s, r, n) ==
  \A a \in 0 .. WORDS - 1 :
    \/ AXI!Landing(r, n, a) = {} /\ m[a] = s[a]
    \/ \E k \in AXI!Landing(r, n, a) :
         (\A j \in AXI!Landing(r, n, a) : j <= k) /\ m[a] = r.w[k].data

Memories == [0 .. WORDS - 1 -> Nat]

\* Before its first beat a write has changed nothing.
LEMMA AfterNone ==
  ASSUME NEW s, NEW r
  PROVE  After(s, s, r, 0)
BY DEF After, AXI!Landing

\* m with the data of beat b in word a, if it has its strobes.
Put(m, b, a) == IF b.strb THEN [m EXCEPT ![a] = b.data] ELSE m

\* Storing beat n + 1 in its word is one beat more of the write.
LEMMA AfterBeat ==
  ASSUME NEW m \in Memories, NEW s, NEW r, NEW n \in Nat, After(m, s, r, n),
         r.w[n + 1].strb \in BOOLEAN
  PROVE  After(Put(m, r.w[n + 1], AXI!BeatWord(r, n)), s, r, n + 1)
<1> DEFINE p == Put(m, r.w[n + 1], AXI!BeatWord(r, n))
<1> SUFFICES ASSUME NEW a \in 0 .. WORDS - 1
             PROVE  \/ AXI!Landing(r, n + 1, a) = {} /\ p[a] = s[a]
                    \/ \E k \in AXI!Landing(r, n + 1, a) :
                         (\A j \in AXI!Landing(r, n + 1, a) : j <= k) /\ p[a] = r.w[k].data
  BY DEF After
<1>1. AXI!Landing(r, n + 1, a) = AXI!Landing(r, n, a)
        \cup (IF r.w[n + 1].strb /\ AXI!BeatWord(r, n) = a THEN {n + 1} ELSE {})
  <2>1. \A k : k \in 1 .. n + 1 <=> k \in 1 .. n \/ k = n + 1
    OBVIOUS
  <2>2. n + 1 - 1 = n
    OBVIOUS
  <2> QED BY <2>1, <2>2 DEF AXI!Landing
<1>2. \A j \in AXI!Landing(r, n, a) : j \in Nat /\ j <= n
  BY DEF AXI!Landing
<1>3. CASE r.w[n + 1].strb /\ AXI!BeatWord(r, n) = a
  <2>1. p[a] = r.w[n + 1].data
    BY <1>3 DEF Put, Memories
  <2>2. n + 1 \in AXI!Landing(r, n + 1, a) /\ \A j \in AXI!Landing(r, n + 1, a) : j <= n + 1
    BY <1>1, <1>2, <1>3
  <2> QED BY <2>1, <2>2
<1>4. CASE ~(r.w[n + 1].strb /\ AXI!BeatWord(r, n) = a)
  <2>1. p[a] = m[a]
    BY <1>4 DEF Put, Memories
  <2>2. AXI!Landing(r, n + 1, a) = AXI!Landing(r, n, a)
    BY <1>1, <1>4
  <2> QED BY <2>1, <2>2 DEF After
<1> QED BY <1>3, <1>4

\* After its last beat a write has made of shadow what the manager expects.
LEMMA AfterAll ==
  ASSUME NEW m \in Memories, NEW r, After(m, shadow, r, Len(r.w))
  PROVE  m = AXI!Written(r)
<1>1. ASSUME NEW a \in 0 .. WORDS - 1 PROVE m[a] = AXI!Written(r)[a]
  <2> DEFINE hits == AXI!Landing(r, Len(r.w), a)
  <2>1. AXI!Written(r)[a] = IF hits = {} THEN shadow[a] ELSE r.w[AXI!Max(hits)].data
    BY DEF AXI!Written
  <2>2. CASE hits = {}
    BY <2>1, <2>2 DEF After
  <2>3. CASE hits # {}
    <3>1. PICK k \in hits : (\A j \in hits : j <= k) /\ m[a] = r.w[k].data
      BY <2>3 DEF After
    <3>2. \A j \in hits : j \in Int
      BY DEF AXI!Landing
    <3> HIDE DEF hits
    <3>3. AXI!Max(hits) = k
      BY <3>1, <3>2 DEF AXI!Max
    <3> QED BY <2>1, <2>3, <3>1, <3>3
  <2> QED BY <2>2, <2>3
<1>2. AXI!Written(r) = [a \in 0 .. WORDS - 1 |-> AXI!Written(r)[a]]
  BY DEF AXI!Written
<1>3. m = [a \in 0 .. WORDS - 1 |-> m[a]]
  BY DEF Memories
<1> QED BY <1>1, <1>2, <1>3

\* What the first n beats do depends on those beats only.
LEMMA AfterSame ==
  ASSUME NEW m, NEW s, NEW r, NEW x, NEW n \in Nat, After(m, s, r, n),
         Same(r, x), \A k \in 1 .. n : r.w[k] = x.w[k]
  PROVE  After(m, s, x, n)
<1>1. \A k : AXI!BeatWord(r, k) = AXI!BeatWord(x, k)
  BY DEF AXI!BeatWord, AXI!BeatAddr, Same
<1>2. \A a : AXI!Landing(r, n, a) = AXI!Landing(x, n, a)
  BY <1>1 DEF AXI!Landing
<1>3. \A a : \A k \in AXI!Landing(r, n, a) : r.w[k] = x.w[k]
  BY DEF AXI!Landing
<1> QED BY <1>2, <1>3 DEF After

-----------------------------------------------------------------------------
(* The invariant of the data: what the memory is doing with the beat at    *)
(* hand, where the beats of the burst are, and what the memory holds.      *)

\* A write beat is presented, held by the memory, or stored and answered.
Presented == ~tAwDone /\ ~tWDone /\ ~aw_taken /\ ~w_taken /\ ~BVALID
Held      == /\ tAwDone /\ tWDone /\ aw_taken /\ w_taken /\ ~BVALID
             /\ awaddr_q = MEM!Word(tAddr) /\ wbeat_q = tWbeat
Stored    == tAwDone /\ tWDone /\ ~aw_taken /\ ~w_taken /\ BVALID

Store == IF tState = "S_WBEAT" /\ tWbeat # None THEN Presented \/ Held \/ Stored
         ELSE ~aw_taken /\ ~w_taken /\ ~BVALID

\* A read beat is asked for, answered by the memory, or buffered.
Load ==
  /\ IF tState = "S_RBEAT" /\ tRbeat = None
     THEN \/ ~tArDone /\ ~RVALID
          \/ tArDone /\ RVALID /\ RDATA = mem[MEM!Word(tAddr)]
     ELSE ~RVALID
  /\ tState = "S_RBEAT" /\ tRbeat # None =>
       tRbeat = [data |-> mem[MEM!Word(tAddr)], resp |-> "OKAY"]

Walk == tState \in {"S_WBEAT", "S_RBEAT"} => At(tReq, tAddr, tBeat)

\* The beats of a write on their way, in order.
Carried(b) == [data |-> b.data, strb |-> b.strb]

WBeats ==
  tState = "S_WBEAT" =>
    /\ tWbeat # None => tWbeat = todo[1].w[tBeat + 1]
    /\ a2b # None => Carried(a2b) = todo[1].w[tBeat + One(tWbeat # None) + 1]
    /\ iWbeat # None => Carried(iWbeat) = todo[1].w[taken]

\* The beat of a read on its way back.
RBeats == iState = "S_RDATA" /\ b2a # None => b2a.data = mem[AXI!BeatWord(iReq, rbeats)]

\* The memory is the answered writes', and what the current one has stored.
stored  == IF tState = "S_WBEAT" THEN tBeat + One(BVALID) ELSE taken
Pending == tState \in {"S_WBEAT", "S_WRESP"} \/ iState \in {"S_WWAIT", "S_B"}

Contents ==
  /\ shadow \in Memories
  /\ IF Pending THEN After(mem, shadow, todo[1], stored) ELSE mem = shadow

Data == Store /\ Load /\ Walk /\ WBeats /\ RBeats /\ Contents

-----------------------------------------------------------------------------
(* One edge of the memory at work.                                         *)

Beating == tState = "S_WBEAT" /\ tWbeat # None

\* No beat at hand: the memory rests, and a new beat is presented first.
LEMMA StoreRests ==
  ASSUME Types, Flowing, Store, ~Beating,
         NEW acc, NEW w, NEW bRdy, NEW rRdy, Edge(acc, w, bRdy, rRdy)
  PROVE  Store' /\ mem' = mem /\ BVALID' = FALSE
<1>1. ~aw_taken /\ ~w_taken /\ ~BVALID
  BY DEF Store, Beating
<1>2. ~awValid /\ ~wValid /\ ~MEM!do_write
  BY <1>1 DEF awValid, wValid, MEM!do_write, Beating
<1>3. mem' = mem /\ aw_taken' = FALSE /\ w_taken' = FALSE /\ BVALID' = FALSE
  BY <1>1, <1>2, MemMoves
<1>4. Beating' => tAwDone' = FALSE /\ tWDone' = FALSE
  <2> USE TgtMoves DEF Beating, TgtStays
  <2>1. CASE tState = "S_IDLE" BY <2>1 DEF TgtIdle
  <2>2. CASE tState = "S_WBEAT" BY <2>2 DEF TgtTakes
  <2>3. CASE tState = "S_WRESP" BY <2>3 DEF TgtAnswers
  <2>4. CASE tState = "S_RBEAT" /\ tRbeat = None BY <2>4 DEF TgtReads
  <2>5. CASE tState = "S_RBEAT" /\ tRbeat # None BY <2>5 DEF TgtSends
  <2> QED BY <2>1, <2>2, <2>3, <2>4, <2>5 DEF Flowing
<1> QED BY <1>3, <1>4 DEF Store, Beating, Presented

\* A beat at hand: presented, held, stored and answered in turn.
LEMMA StoreWorks ==
  ASSUME Types, Flowing, Store, Beating,
         NEW acc, NEW w, NEW bRdy, NEW rRdy, Edge(acc, w, bRdy, rRdy)
  PROVE  /\ Store'
         /\ mem' = IF Held THEN Put(mem, tWbeat, MEM!Word(tAddr)) ELSE mem
         /\ (BVALID' <=> Held)
         /\ (BVALID <=> Stored)
<1>1. TgtWrites
  BY TgtMoves DEF Beating
<1>2. Presented \/ Held \/ Stored
  BY DEF Store, Beating
<1>3. CASE Presented
  <2>1. awValid /\ wValid /\ ~MEM!do_write /\ ~Held /\ ~BVALID
    BY <1>3 DEF Presented, Held, Beating, awValid, wValid, MEM!do_write
  <2>2. /\ awaddr_q' = MEM!Word(tAddr) /\ wbeat_q' = tWbeat /\ mem' = mem
        /\ aw_taken' = TRUE /\ w_taken' = TRUE /\ BVALID' = FALSE
    BY <1>3, <2>1, MemMoves DEF Presented
  <2>3. tAwDone' = TRUE /\ tWDone' = TRUE /\ tAddr' = tAddr /\ tWbeat' = tWbeat /\ tState' = tState
    BY <1>1, <1>3, <2>1 DEF TgtWrites, Presented
  <2>4. Held'
    BY <2>2, <2>3 DEF Held, MEM!Word
  <2>5. ~Stored
    BY <1>3 DEF Presented, Stored
  <2>6. Store'
    BY <2>3, <2>4 DEF Store, Beating
  <2> QED BY <2>1, <2>2, <2>5, <2>6
<1>4. CASE Held
  <2>1. MEM!do_write /\ ~BVALID /\ ~awValid /\ ~wValid
    BY <1>4 DEF Held, MEM!do_write, awValid, wValid
  <2>2. /\ mem' = Put(mem, tWbeat, MEM!Word(tAddr))
        /\ aw_taken' = FALSE /\ w_taken' = FALSE /\ BVALID' = TRUE
    BY <1>4, <2>1, MemMoves DEF Held, Put
  <2>3. tAwDone' = TRUE /\ tWDone' = TRUE /\ tWbeat' = tWbeat /\ tState' = tState
    BY <1>1, <1>4, <2>1 DEF TgtWrites, Held
  <2> QED BY <1>4, <2>1, <2>2, <2>3 DEF Store, Beating, Stored
<1>5. CASE Stored
  <2>1. ~MEM!do_write /\ BVALID /\ ~awValid /\ ~wValid /\ ~Held
    BY <1>5 DEF Stored, Held, MEM!do_write, awValid, wValid
  <2>2. /\ mem' = mem /\ aw_taken' = FALSE /\ w_taken' = FALSE /\ BVALID' = FALSE
    BY <1>5, <2>1, MemMoves DEF Stored, Beating
  <2>3. tWbeat' = None
    BY <1>1, <2>1 DEF TgtWrites
  <2>4. Store'
    BY <2>2, <2>3 DEF Store, Beating
  <2> QED BY <1>5, <2>1, <2>2, <2>4
<1> QED BY <1>2, <1>3, <1>4, <1>5

\* The memory changes only with a beat at hand.
LEMMA StoreStep ==
  ASSUME Types, Flowing, Store,
         NEW acc, NEW w, NEW bRdy, NEW rRdy, Edge(acc, w, bRdy, rRdy)
  PROVE  Store' /\ (~Beating => mem' = mem)
BY StoreRests, StoreWorks

\* A read beat is the word at its address.
LEMMA LoadStep ==
  ASSUME Types, Flowing, Store, Load,
         NEW acc, NEW w, NEW bRdy, NEW rRdy, Edge(acc, w, bRdy, rRdy)
  PROVE  Load'
<1>0. RVALID \in BOOLEAN /\ tArDone \in BOOLEAN
  BY DEF Types
<1>1. CASE tState = "S_RBEAT" /\ tRbeat = None
  <2>1. TgtReads /\ mem' = mem
    BY <1>1, TgtMoves, StoreStep DEF Beating
  <2>2. tState' = tState /\ tAddr' = tAddr /\ tArDone' = TRUE
    BY <1>0, <1>1, <2>1 DEF TgtReads, Load
  <2>3. CASE RVALID
    <3>1. RVALID' = FALSE
      BY <1>1, <2>3, MemMoves
    <3>2. tRbeat' = [data |-> mem[MEM!Word(tAddr)], resp |-> "OKAY"]
      BY <1>1, <2>1, <2>3 DEF TgtReads, Load
    <3>3. tRbeat' # None
      <4>1. mem[MEM!Word(tAddr)] \in Nat
        BY <1>1, <2>3 DEF Types, Load
      <4> QED BY <3>2, <4>1, Present DEF LiteRBeat
    <3> QED BY <2>1, <2>2, <3>1, <3>2, <3>3 DEF Load, MEM!Word
  <2>4. CASE ~RVALID
    <3>1. arValid
      BY <1>1, <2>4 DEF arValid, Load
    <3>2. RVALID' = TRUE /\ RDATA' = mem[MEM!Word(tAddr)]
      BY <2>4, <3>1, MemMoves
    <3>3. tRbeat' = None
      BY <2>1, <2>4 DEF TgtReads
    <3>4. RDATA' = mem'[MEM!Word(tAddr')]
      BY <2>1, <2>2, <3>2
    <3>5. tState' = "S_RBEAT" /\ tRbeat' = None /\ tArDone' /\ RVALID'
      BY <1>1, <2>2, <3>2, <3>3
    <3> QED BY <3>4, <3>5 DEF Load, MEM!Word
  <2> QED BY <2>3, <2>4
<1>2. CASE ~(tState = "S_RBEAT" /\ tRbeat = None)
  <2>1. RVALID' = FALSE
    <3>1. ~RVALID /\ ~arValid
      BY <1>2 DEF Load, arValid
    <3> QED BY <3>1, MemMoves
  <2> USE TgtMoves, <2>1 DEF Load, TgtStays, MEM!Word
  <2>2. CASE tState = "S_IDLE" BY <2>2 DEF TgtIdle
  <2>3. CASE tState = "S_WBEAT" /\ tWbeat = None BY <2>3 DEF TgtTakes
  <2>4. CASE tState = "S_WBEAT" /\ tWbeat # None BY <2>4 DEF TgtWrites
  <2>5. CASE tState = "S_WRESP" BY <2>5 DEF TgtAnswers
  <2>6. CASE tState = "S_RBEAT" /\ tRbeat # None
    <3>1. mem' = mem
      BY <2>6, StoreStep DEF Beating
    <3> QED BY <1>2, <2>6, <3>1 DEF TgtSends
  <2> QED BY <1>2, <2>2, <2>3, <2>4, <2>5, <2>6 DEF Flowing
<1> QED BY <1>1, <1>2

\* The target bridge is where its burst is.
LEMMA WalkStep ==
  ASSUME Types, Flowing, Fitting, Walk,
         NEW acc, NEW w, NEW bRdy, NEW rRdy, Edge(acc, w, bRdy, rRdy)
  PROVE  Walk'
<1>1. tState # "S_IDLE" => tReq \in Requests /\ tReq.addr \in Nat
  BY RequestFields DEF Types
<1>2. tAddr \in Nat /\ tBeat \in Nat
  BY DEF Types
<1>3. ASSUME tState \in {"S_WBEAT", "S_RBEAT"} PROVE At(tReq, TGT!next_addr, tBeat + 1)
  BY <1>1, <1>2, <1>3, WalkNext DEF Walk, TGT!next_addr
<1> USE TgtMoves DEF Walk, TgtStays
<1>4. CASE tState = "S_IDLE"
  <2>1. a2b # None => a2b.req \in Requests /\ iState # "S_IDLE"
    BY <1>4 DEF Fitting, Types
  <2> QED BY <1>4, <2>1, WalkBegins DEF TgtIdle, At
<1>5. CASE tState = "S_WBEAT" /\ tWbeat = None BY <1>5 DEF TgtTakes, At
<1>6. CASE tState = "S_WBEAT" /\ tWbeat # None BY <1>3, <1>6 DEF TgtWrites, At
<1>7. CASE tState = "S_WRESP" BY <1>7 DEF TgtAnswers
<1>8. CASE tState = "S_RBEAT" /\ tRbeat = None BY <1>8 DEF TgtReads, At
<1>9. CASE tState = "S_RBEAT" /\ tRbeat # None BY <1>3, <1>9 DEF TgtSends, At
<1> QED BY <1>4, <1>5, <1>6, <1>7, <1>8, <1>9 DEF Flowing

-----------------------------------------------------------------------------
(* One edge of the manager's memory and of its oldest request.             *)

\* The manager's memory changes with the response of a write that went out.
LEMMA ShadowMoves ==
  ASSUME Types, Books, Turns, NEW acc, NEW w, NEW bRdy, NEW rRdy,
         Chosen(acc, w, bRdy, rRdy), Edge(acc, w, bRdy, rRdy)
  PROVE  shadow' = IF iState = "S_B" /\ bRdy THEN AXI!Written(todo[1]) ELSE shadow
<1> DEFINE b == IF bRdy THEN s_b ELSE None
           x == IF rRdy THEN s_r ELSE None
<1>1. AXI!Clock(acc, w, b, x)
  BY DEF Edge
<1>2. bRdy \in BOOLEAN /\ (bRdy => s_b # None)
  BY ChosenType
<1>3. iState = "S_B" => e_state # "E_B" /\ iB.resp = "OKAY"
  BY DEF Turns
<1>4. e_state = "E_B" => s_b.resp = "SLVERR"
  BY DEF s_b, FE!e_b, FE!e_bresp
<1>5. b # None /\ b.resp = "OKAY" <=> iState = "S_B" /\ bRdy
  BY <1>2, <1>3, <1>4 DEF s_b, FE!e_b, INI!i_bvalid
<1> HIDE DEF b, x
<1>6. shadow' = IF b # None /\ b.resp = "OKAY" THEN AXI!Written(Head(todo)) ELSE shadow
  BY <1>1 DEF AXI!Clock
<1>7. iState = "S_B" => Head(todo) = todo[1]
  BY BurstFits DEF Types
<1> QED BY <1>5, <1>6, <1>7

\* While a burst is under way it stays the oldest request, and keeps its W beats.
LEMMA CurrentStep ==
  ASSUME Types, Books, Turns, Fitting, Flowing,
         NEW acc, NEW w, NEW bRdy, NEW rRdy, Chosen(acc, w, bRdy, rRdy), Edge(acc, w, bRdy, rRdy),
         iState # "S_IDLE", ~IniDone(bRdy, rRdy)
  PROVE  /\ iState' # "S_IDLE" /\ iReq' = iReq /\ Same(todo[1], iReq) /\ Same(todo'[1], iReq)
         /\ taken \in Nat /\ \A k \in 1 .. taken : todo'[1].w[k] = todo[1].w[k]
         /\ w = None => taken' = taken
         /\ w # None => taken' = taken + 1 /\ todo'[1].w[taken + 1] = Carried(w)
<1>1. iState' # "S_IDLE" /\ iReq' = iReq
  BY CurMoves
<1>2. Books' /\ Same(todo'[1], iReq')
  BY <1>1, BooksStep DEF Books
<1>3. todo # <<>> /\ todo[1] \in Todo /\ Same(todo[1], iReq) /\ taken \in Nat
  BY BurstFits
<1>4. ~Done(bRdy, rRdy)
  BY DEF Done, ErrDone, Turns
<1>5. todo'[1].w = (IF w = None THEN todo[1].w
                    ELSE Append(todo[1].w, [data |-> w.data, strb |-> w.strb]))
  BY <1>3, <1>4, BooksStep
<1>6. taken' = taken + (IF w = None THEN 0 ELSE 1)
  BY <1>3, <1>4, TakenMoves
<1>7. CASE w = None
  BY <1>1, <1>2, <1>3, <1>5, <1>6, <1>7
<1>8. CASE w # None
  <2>1. Carried(w) \in LiteWBeat
    BY <1>8, BeatMoves DEF WBeat, LiteWBeat, Carried
  <2>2. todo[1].w \in Seq(LiteWBeat)
    BY <1>3 DEF Todo
  <2>3. /\ \A k \in 1 .. Len(todo[1].w) : Append(todo[1].w, Carried(w))[k] = todo[1].w[k]
        /\ Append(todo[1].w, Carried(w))[Len(todo[1].w) + 1] = Carried(w)
    BY <2>1, <2>2, AppendProperties
  <2>4. todo'[1].w = Append(todo[1].w, Carried(w))
    BY <1>5, <1>8 DEF Carried
  <2> QED BY <1>1, <1>2, <1>3, <1>6, <1>8, <2>3, <2>4 DEF taken
<1> QED BY <1>7, <1>8

\* The state of the target bridge tells the phase.
LEMMA PhaseOf ==
  ASSUME Phase
  PROVE  /\ tState = "S_WBEAT" => Writing
         /\ tState = "S_WRESP" => WriteDone
         /\ tState = "S_RBEAT" => Reading
         /\ iState = "S_RDATA" /\ b2a # None => Reading
BY DEF Phase, Home, WReqOut, RReqOut, Requested, Writing, Written, WriteDone, WRespOut, Reading

\* The same, after an edge.
LEMMA PhaseOfNext ==
  ASSUME Phase'
  PROVE  /\ tState' = "S_WBEAT" => Writing'
         /\ tState' = "S_WRESP" => WriteDone'
         /\ tState' = "S_RBEAT" => Reading'
         /\ iState' = "S_RDATA" /\ b2a' # None => Reading'
BY DEF Phase, Home, WReqOut, RReqOut, Requested, Writing, Written, WriteDone, WRespOut, Reading

-----------------------------------------------------------------------------
(* The beats under way, across an edge.                                    *)

\* The beat a W data flit carries is the one it was made of.
LEMMA CarriedFlit ==
  ASSUME iState = "S_WDATA", iWbeat # None, INI!dtx # None
  PROVE  Carried(INI!dtx) = Carried(iWbeat) /\ iCr.wdata >= 8
BY DEF INI!dtx, INI!wdata_ok, INI!WRITEDATA_GRAN, Carried

\* The W beats keep their order from the manager to the memory: the buffers and
\* the link hold the next beats of the write, each at its index.
LEMMA WBeatsStep ==
  ASSUME Types, Books, Turns, Fitting, Flowing, Phase, Phase', WBeats,
         NEW acc, NEW w, NEW bRdy, NEW rRdy, Chosen(acc, w, bRdy, rRdy), Edge(acc, w, bRdy, rRdy)
  PROVE  WBeats'
<1> SUFFICES ASSUME tState' = "S_WBEAT"
             PROVE  /\ tWbeat' # None => tWbeat' = todo'[1].w[tBeat' + 1]
                    /\ a2b' # None => Carried(a2b') = todo'[1].w[tBeat' + One(tWbeat' # None) + 1]
                    /\ iWbeat' # None => Carried(iWbeat') = todo'[1].w[taken']
  BY DEF WBeats, Carried
<1>1. Writing'
  BY PhaseOfNext
<1>2. taken' = tBeat' + One(tWbeat' # None) + One(a2b' # None) + One(iWbeat' # None)
  BY <1>1 DEF Writing
<1>3. WReqOut \/ Writing
  <2> USE TgtMoves DEF TgtStays
  <2>1. CASE tState = "S_IDLE"
    <3>1. a2b # None /\ a2b.mt = "wreq"
      BY <2>1 DEF TgtIdle
    <3> QED BY <2>1, <3>1 DEF Phase, Home, WReqOut, RReqOut, Requested, Writing, Written,
                              WriteDone, WRespOut, Reading
  <2>2. CASE tState = "S_WBEAT" BY <2>2, PhaseOf
  <2>3. CASE tState = "S_WRESP" BY <2>3 DEF TgtAnswers
  <2>4. CASE tState = "S_RBEAT" /\ tRbeat = None BY <2>4 DEF TgtReads
  <2>5. CASE tState = "S_RBEAT" /\ tRbeat # None BY <2>5 DEF TgtSends
  <2> QED BY <2>1, <2>2, <2>3, <2>4, <2>5 DEF Flowing
<1>4. iState \in {"S_WDATA", "S_WWAIT"} /\ iState # "S_IDLE" /\ ~IniDone(bRdy, rRdy)
  BY <1>3 DEF WReqOut, Writing, IniDone
<1>5. /\ taken \in Nat /\ \A k \in 1 .. taken : todo'[1].w[k] = todo[1].w[k]
      /\ w = None => taken' = taken
      /\ w # None => taken' = taken + 1 /\ todo'[1].w[taken + 1] = Carried(w)
  BY <1>4, CurrentStep
<1>6. w # None => iState = "S_WDATA" /\ iWbeat = None
  BY <1>4, BeatMoves DEF Wanting, Turns
<1>7. a2b' = IF aGo THEN INI!dtx ELSE a2b
  BY LinkMoves
<1>8. tBeat \in Nat
  BY DEF Types
<1>9. CASE WReqOut
  <2>1. tWbeat' = None
    BY <1>9, TgtMoves DEF WReqOut, Requested, TgtIdle
  <2>2. a2b' = None
    BY <1>7, <1>9, Sends DEF WReqOut, Requested, aGo, TGT!drx_ready
  <2>3. iWbeat' = w /\ taken = 0
    BY <1>9, IniMoves DEF WReqOut, Requested, IniWData
  <2> QED BY <1>5, <2>1, <2>2, <2>3
<1>10. CASE Writing
  <2>1. taken = tBeat + One(tWbeat # None) + One(a2b # None) + One(iWbeat # None)
    BY <1>10 DEF Writing
  <2>2. /\ tWbeat # None => tWbeat = todo[1].w[tBeat + 1]
        /\ a2b # None => Carried(a2b) = todo[1].w[tBeat + One(tWbeat # None) + 1]
        /\ iWbeat # None => Carried(iWbeat) = todo[1].w[taken]
    BY <1>10 DEF WBeats, Writing
  <2>3. aGo <=> a2b = None \/ tWbeat = None
    BY <1>10 DEF aGo, TGT!drx_ready, Writing
  <2>4. /\ tWbeat = None => tBeat' = tBeat
        /\ tWbeat = None /\ a2b # None => tWbeat' = Carried(a2b)
        /\ tWbeat = None /\ a2b = None => tWbeat' = None
        /\ tWbeat # None => \/ tBeat' = tBeat /\ tWbeat' = tWbeat
                            \/ tBeat' = tBeat + 1 /\ tWbeat' = None
    BY <1>10, TgtMoves DEF TgtTakes, TgtWrites, TgtStays, Writing, Carried
  <2>5. tWbeat' # None => tWbeat' = todo'[1].w[tBeat' + 1]
    <3>1. ASSUME tWbeat' # None
          PROVE  tWbeat' = todo[1].w[tBeat + 1] /\ tBeat' = tBeat /\ tBeat + 1 <= taken
      <4>1. CASE tWbeat = None
        BY <1>5, <1>8, <2>1, <2>2, <2>4, <3>1, <4>1 DEF One
      <4>2. CASE tWbeat # None
        BY <1>5, <1>8, <2>1, <2>2, <2>4, <3>1, <4>2 DEF One
      <4> QED BY <4>1, <4>2
    <3> QED BY <1>5, <1>8, <3>1
  <2>6. a2b' # None => Carried(a2b') = todo'[1].w[tBeat' + One(tWbeat' # None) + 1]
    <3>1. CASE aGo
      <4> SUFFICES ASSUME a2b' # None
                   PROVE  Carried(a2b') = todo'[1].w[tBeat' + One(tWbeat' # None) + 1]
        OBVIOUS
      <4>1. a2b' = INI!dtx /\ INI!dtx # None
        BY <1>7, <3>1
      <4>2. iState = "S_WDATA" /\ iWbeat # None
        BY <1>4, <4>1, Sends
      <4>3. Carried(a2b') = Carried(iWbeat) /\ iCr.wdata >= 8
        BY <4>1, <4>2, CarriedFlit
      <4>4. iWbeat' = None /\ taken' = taken
        BY <1>5, <1>6, <3>1, <4>2, <4>3, IniMoves DEF IniWData
      <4>5. taken' = tBeat' + One(tWbeat' # None) + 1
        BY <1>2, <1>8, <2>4, <4>1, <4>4 DEF One
      <4>6. 1 <= taken
        BY <1>8, <2>1, <4>2 DEF One
      <4> QED BY <1>5, <2>2, <4>2, <4>3, <4>4, <4>5, <4>6
    <3>2. CASE ~aGo
      <4>1. a2b' = a2b /\ a2b # None /\ tWbeat # None
        BY <1>7, <2>3, <3>2
      <4>2. tBeat' + One(tWbeat' # None) + 1 = tBeat + 2
        BY <1>8, <2>4, <4>1 DEF One
      <4>3. Carried(a2b) = todo[1].w[tBeat + 2] /\ tBeat + 2 <= taken
        BY <1>8, <2>1, <2>2, <4>1 DEF One
      <4> QED BY <1>5, <1>8, <4>1, <4>2, <4>3
    <3> QED BY <3>1, <3>2
  <2>7. iWbeat' # None => Carried(iWbeat') = todo'[1].w[taken']
    <3>1. CASE iState = "S_WWAIT"
      <4>1. iWbeat = None /\ iWbeat' = iWbeat
        BY <1>10, <3>1, IniMoves DEF IniWWait, IniStays, Writing
      <4> QED BY <4>1
    <3>2. CASE iState = "S_WDATA" /\ iWbeat = None
      <4>1. iWbeat' = w
        BY <3>2, IniMoves DEF IniWData
      <4> QED BY <1>5, <4>1
    <3>3. CASE iState = "S_WDATA" /\ iWbeat # None
      <4>1. iWbeat' \in {None, iWbeat} /\ taken' = taken
        BY <1>5, <1>6, <3>3, IniMoves DEF IniWData, IniStays
      <4>2. 1 <= taken
        BY <1>8, <2>1, <3>3 DEF One
      <4> QED BY <1>5, <2>2, <3>3, <4>1, <4>2
    <3> QED BY <1>4, <3>1, <3>2, <3>3
  <2> QED BY <2>5, <2>6, <2>7
<1> QED BY <1>3, <1>9, <1>10

\* The R beat on the link is the word of the beat the manager waits for.
LEMMA RBeatsStep ==
  ASSUME Types, Books, Turns, Fitting, Flowing, Phase, Types', Phase', Store, Load, Walk, RBeats,
         NEW acc, NEW w, NEW bRdy, NEW rRdy, Chosen(acc, w, bRdy, rRdy), Edge(acc, w, bRdy, rRdy)
  PROVE  RBeats'
<1> SUFFICES ASSUME iState' = "S_RDATA", b2a' # None
             PROVE  b2a'.data = mem'[AXI!BeatWord(iReq', rbeats')]
  BY DEF RBeats, AXI!BeatWord, AXI!BeatAddr
<1>1. Reading'
  BY PhaseOfNext
<1>2. b2a' = IF bGo(rRdy) THEN TGT!rsp ELSE b2a
  BY LinkMoves
<1>3. iState \in {"S_RREQ", "S_RDATA"} /\ iState # "S_IDLE" /\ ~IniDone(bRdy, rRdy)
  BY StateMoves, CurMoves
<1>4. tState # "S_IDLE" \/ b2a # None
  BY <1>2, Sends
<1>5. Reading
  BY <1>3, <1>4 DEF Phase, Home, WReqOut, RReqOut, Requested, Writing, Written, WriteDone,
                    WRespOut, Reading
<1>6. iReq' = iReq
  BY <1>3, CurMoves
<1>7. mem' = mem
  BY <1>5, StoreStep DEF Beating, Reading
<1>8. tBeat \in Nat /\ rbeats \in Nat /\ tBeat' \in Nat /\ rbeats' \in Nat /\ rRdy \in BOOLEAN
  BY ChosenType DEF Types
<1>9. CASE bGo(rRdy)
  <2>1. b2a' = TGT!rsp /\ TGT!rsp # None
    BY <1>2, <1>9
  <2>2. tState = "S_RBEAT" /\ tRbeat # None
    BY <1>5, <2>1, Sends DEF Reading
  <2>3. tCr.rdata >= 8 /\ b2a'.data = tRbeat.data
    BY <2>1, <2>2 DEF TGT!rsp, TGT!READDATA_GRAN
  <2>4. tBeat' = tBeat + 1
    BY <1>9, <2>2, <2>3, TgtMoves DEF TgtSends
  <2>5. rbeats' = tBeat
    <3>1. tBeat' = rbeats' + One(b2a' # None) /\ b2a' # None
      BY <1>1 DEF Reading
    <3>2. tBeat' = rbeats' + 1
      BY <3>1 DEF One
    <3>3. \A n, m \in Nat : m + 1 = n + 1 => n = m
      OBVIOUS
    <3>4. rbeats' \in Nat /\ tBeat \in Nat
      BY <1>8
    <3>5. rbeats' + 1 = tBeat + 1
      BY <2>4, <3>2
    <3> QED BY ONLY <3>3, <3>4, <3>5
  <2>6. tReq = iReq /\ iReq \in Requests /\ At(iReq, tAddr, tBeat)
    BY <1>5, <2>2 DEF Reading, Types, Walk
  <2>7. MEM!Word(tAddr) = AXI!BeatWord(iReq, tBeat)
    BY <1>8, <2>6, SameWord
  <2>8. tRbeat.data = mem[MEM!Word(tAddr)]
    BY <2>2 DEF Load
  <2> QED BY <1>6, <1>7, <2>3, <2>5, <2>7, <2>8
<1>10. CASE ~bGo(rRdy)
  <2>1. b2a' = b2a /\ b2a # None /\ ~rRdy
    BY <1>2, <1>5, <1>10 DEF bGo, INI!drx_ready, Reading
  <2>2. ~Done(bRdy, rRdy) /\ ~GivesR(rRdy)
    BY <1>3, <2>1 DEF Done, ErrDone, GivesR, Turns
  <2>3. rbeats' = rbeats
    BY <2>2, MasterMoves
  <2>4. b2a.data = mem[AXI!BeatWord(iReq, rbeats)]
    BY <1>5, <2>1 DEF RBeats, Reading
  <2> QED BY <1>6, <1>7, <2>1, <2>3, <2>4
<1> QED BY <1>9, <1>10

-----------------------------------------------------------------------------
(* What the memory holds, across an edge.                                  *)

\* A request is the same burst as one that is the same as it.
LEMMA SameBurst ==
  ASSUME NEW r, NEW x, NEW y, Same(r, y), Same(x, y)
  PROVE  Same(r, x) /\ \A k : AXI!BeatWord(r, k) = AXI!BeatWord(y, k)
BY DEF Same, AXI!BeatWord, AXI!BeatAddr

\* No burst is being stored: the memory is the manager's, and stays it.
LEMMA ContentsKept ==
  ASSUME Types, Books, Turns, Fitting, Flowing, Phase, Store, Contents,
         NEW acc, NEW w, NEW bRdy, NEW rRdy, Chosen(acc, w, bRdy, rRdy), Edge(acc, w, bRdy, rRdy),
         (Home /\ iState # "S_B") \/ RReqOut \/ Reading
  PROVE  Contents'
<1>1. iState \in {"S_IDLE", "S_WREQ", "S_RREQ", "S_RDATA"} /\ tState \in {"S_IDLE", "S_RBEAT"}
  BY DEF Home, RReqOut, Requested, Reading
<1>2. iState' \notin {"S_WWAIT", "S_B"}
  BY <1>1, StateMoves
<1>3. tState' \notin {"S_WBEAT", "S_WRESP"}
  <2>1. CASE tState = "S_IDLE"
    <3>1. a2b # None => a2b.mt = "rreq"
      BY DEF Home, RReqOut, Requested, Reading
    <3> QED BY <2>1, <3>1, TgtMoves DEF TgtIdle, TgtStays
  <2>2. CASE tState = "S_RBEAT" /\ tRbeat = None BY <2>2, TgtMoves DEF TgtReads
  <2>3. CASE tState = "S_RBEAT" /\ tRbeat # None BY <2>3, TgtMoves DEF TgtSends, TgtStays
  <2> QED BY <1>1, <2>1, <2>2, <2>3
<1>4. mem' = mem
  BY <1>1, StoreStep DEF Beating
<1>5. shadow' = shadow
  BY <1>1, ShadowMoves
<1>6. mem = shadow /\ shadow \in Memories
  BY <1>1 DEF Contents, Pending
<1> QED BY <1>2, <1>3, <1>4, <1>5, <1>6 DEF Contents, Pending

\* The answer to a write makes its effect the manager's.
LEMMA ContentsAnswered ==
  ASSUME Types, Books, Turns, Fitting, Flowing, Phase, Store, Contents,
         NEW acc, NEW w, NEW bRdy, NEW rRdy, Chosen(acc, w, bRdy, rRdy), Edge(acc, w, bRdy, rRdy),
         Home, iState = "S_B", bRdy
  PROVE  Contents'
<1>1. iState' = "S_IDLE"
  BY IniMoves DEF IniB
<1>2. tState' = "S_IDLE"
  BY TgtMoves DEF Home, TgtIdle, TgtStays
<1>3. mem' = mem
  BY StoreStep DEF Beating, Home
<1>4. shadow' = AXI!Written(todo[1])
  BY ShadowMoves
<1>5. mem \in Memories
  BY DEF Types, Memories
<1>6. After(mem, shadow, todo[1], Len(todo[1].w))
  BY DEF Contents, Pending, stored, taken, Home
<1>7. mem = AXI!Written(todo[1])
  BY <1>5, <1>6, AfterAll
<1> QED BY <1>1, <1>2, <1>3, <1>4, <1>5, <1>7 DEF Contents, Pending

\* A written burst on its way to its answer.
LEMMA ContentsWaits ==
  ASSUME Types, Books, Turns, Fitting, Flowing, Phase, Store, Contents,
         NEW acc, NEW w, NEW bRdy, NEW rRdy, Chosen(acc, w, bRdy, rRdy), Edge(acc, w, bRdy, rRdy),
         \/ Home /\ iState = "S_B" /\ ~bRdy
         \/ WriteDone
         \/ WRespOut
  PROVE  Contents'
<1>1. /\ iState \in {"S_WWAIT", "S_B"} /\ iState # "S_IDLE" /\ ~IniDone(bRdy, rRdy)
      /\ tState \in {"S_IDLE", "S_WRESP"} /\ a2b = None
  BY DEF Home, WriteDone, WRespOut, Written, IniDone
<1>2. iState' \in {"S_WWAIT", "S_B"}
  BY <1>1, IniMoves DEF IniWWait, IniB, IniStays, IniDone
<1>3. tState' \in {"S_IDLE", "S_WRESP"}
  BY <1>1, TgtMoves DEF TgtIdle, TgtAnswers, TgtStays
<1>4. mem' = mem
  BY <1>1, StoreStep DEF Beating
<1>5. shadow' = shadow
  BY <1>1, ShadowMoves DEF IniDone
<1>6. w = None
  BY <1>1, BeatMoves DEF Wanting, Turns
<1>7. /\ Same(todo[1], iReq) /\ Same(todo'[1], iReq) /\ taken \in Nat /\ taken' = taken
      /\ \A k \in 1 .. taken : todo'[1].w[k] = todo[1].w[k]
  BY <1>1, <1>6, CurrentStep
<1>8. After(mem, shadow, todo[1], taken) /\ shadow \in Memories
  BY <1>1 DEF Contents, Pending, stored
<1>9. After(mem, shadow, todo'[1], taken)
  BY <1>7, <1>8, AfterSame, SameBurst
<1>10. stored' = taken
  BY <1>3, <1>7 DEF stored
<1>11. Pending'
  BY <1>2 DEF Pending
<1>12. (After(mem, shadow, todo[1], stored))'
  BY <1>4, <1>5, <1>9, <1>10 DEF After, AXI!Landing, AXI!BeatWord, AXI!BeatAddr
<1> QED BY <1>5, <1>8, <1>11, <1>12 DEF Contents

\* The first beat of a write has yet to come.
LEMMA ContentsBegins ==
  ASSUME Types, Flowing, Store, Contents, Turns, Books,
         NEW acc, NEW w, NEW bRdy, NEW rRdy, Chosen(acc, w, bRdy, rRdy), Edge(acc, w, bRdy, rRdy),
         WReqOut
  PROVE  Contents'
<1>1. iState = "S_WDATA" /\ tState = "S_IDLE" /\ a2b # None /\ a2b.mt = "wreq"
  BY DEF WReqOut, Requested
<1>2. tState' = "S_WBEAT" /\ tBeat' = 0
  BY <1>1, TgtMoves DEF TgtIdle
<1>3. mem' = mem /\ BVALID' = FALSE
  BY <1>1, StoreRests DEF Beating
<1>4. shadow' = shadow
  BY <1>1, ShadowMoves
<1>5. mem = shadow /\ shadow \in Memories
  BY <1>1 DEF Contents, Pending
<1>6. stored' = 0
  BY <1>2, <1>3 DEF stored, One
<1>7. Pending'
  BY <1>2 DEF Pending
<1>8. After(mem', shadow', todo'[1], 0)
  BY <1>3, <1>4, <1>5, AfterNone
<1>9. (After(mem, shadow, todo[1], stored))'
  BY <1>6, <1>8 DEF After, AXI!Landing, AXI!BeatWord, AXI!BeatAddr
<1> QED BY <1>4, <1>5, <1>7, <1>9 DEF Contents

\* The beats of a write, one after the other.
LEMMA ContentsGrows ==
  ASSUME Types, Books, Turns, Fitting, Flowing, Phase, Types', Phase', Store, Walk, WBeats, Contents,
         NEW acc, NEW w, NEW bRdy, NEW rRdy, Chosen(acc, w, bRdy, rRdy), Edge(acc, w, bRdy, rRdy),
         Writing
  PROVE  Contents'
<1>1. /\ iState \in {"S_WDATA", "S_WWAIT"} /\ iState # "S_IDLE" /\ ~IniDone(bRdy, rRdy)
      /\ tState = "S_WBEAT" /\ tReq = iReq /\ tBeat \in Nat
  BY DEF Writing, IniDone, Types
<1>2. /\ Same(todo[1], iReq) /\ Same(todo'[1], iReq) /\ iReq' = iReq
      /\ taken \in Nat /\ \A k \in 1 .. taken : todo'[1].w[k] = todo[1].w[k]
  BY <1>1, CurrentStep
<1>3. tBeat + One(tWbeat # None) <= taken
  <2>1. taken = tBeat + One(tWbeat # None) + One(a2b # None) + One(iWbeat # None)
    BY DEF Writing
  <2> QED BY <1>1, <2>1 DEF One
<1>4. shadow' = shadow
  BY <1>1, ShadowMoves
<1>5. After(mem, shadow, todo[1], tBeat + One(BVALID)) /\ shadow \in Memories
  BY <1>1 DEF Contents, Pending, stored
<1>6. \E n \in Nat : n <= taken /\ stored' = n /\ After(mem', shadow, todo[1], n)
  <2>1. CASE ~Beating
    <3>1. mem' = mem /\ ~BVALID /\ BVALID' = FALSE
      BY <2>1, StoreRests DEF Store, Beating
    <3>2. tBeat' = tBeat /\ tState' = "S_WBEAT"
      BY <1>1, <2>1, TgtMoves DEF Beating, TgtTakes, TgtStays
    <3>3. stored' = tBeat /\ tBeat <= taken /\ After(mem', shadow, todo[1], tBeat)
      <4>1. After(mem, shadow, todo[1], tBeat)
        BY <1>1, <1>5, <3>1 DEF One
      <4>2. tBeat <= taken
        BY <1>1, <1>2, <1>3 DEF One
      <4>3. stored' = tBeat' + One(BVALID')
        BY <3>2 DEF stored, One
      <4>4. stored' = tBeat
        BY <1>1, <3>1, <3>2, <4>3 DEF One
      <4> QED BY <3>1, <4>1, <4>2, <4>4
    <3> QED BY <1>1, <3>3
  <2>2. CASE Beating /\ BVALID
    <3>1. Stored /\ ~Held
      BY <2>2, StoreWorks DEF Held
    <3>2. mem' = mem /\ ~BVALID'
      BY <2>2, <3>1, StoreWorks
    <3>3. tBeat' = tBeat + 1 /\ tState' = IF tBeat = tReq.len THEN "S_WRESP" ELSE "S_WBEAT"
      BY <2>2, TgtMoves DEF TgtWrites, Beating
    <3>4. tBeat + 1 <= taken /\ After(mem', shadow, todo[1], tBeat + 1)
      BY <1>1, <1>3, <1>5, <2>2, <3>2 DEF Beating, One
    <3>5. stored' = tBeat + 1
      <4>1. CASE tState' = "S_WBEAT"
        <5>1. stored' = tBeat' + One(BVALID')
          BY <4>1 DEF stored, One
        <5> QED BY <1>1, <3>2, <3>3, <5>1 DEF One
      <4>2. CASE tState' = "S_WRESP"
        <5>1. WriteDone'
          BY <4>2, PhaseOfNext
        <5>2. taken' = iReq'.len + 1
          BY <5>1 DEF WriteDone, Written, beats
        <5>3. tBeat = iReq.len
          BY <1>1, <3>3, <4>2
        <5>4. stored' = taken'
          BY <4>2 DEF stored
        <5> QED BY <1>2, <5>2, <5>3, <5>4
      <4> QED BY <3>3, <4>1, <4>2
    <3> QED BY <1>1, <3>4, <3>5
  <2>3. CASE Beating /\ ~BVALID
    <3>1. tBeat' = tBeat /\ tState' = "S_WBEAT"
      BY <1>1, <2>3, TgtMoves DEF TgtWrites, Beating
    <3>2. After(mem, shadow, todo[1], tBeat) /\ tBeat + 1 <= taken
      BY <1>1, <1>3, <1>5, <2>3 DEF One, Beating
    <3>3. CASE ~Held
      <4>1. mem' = mem /\ ~BVALID'
        BY <2>3, <3>3, StoreWorks
      <4>2. stored' = tBeat /\ tBeat <= taken
        BY <1>1, <1>2, <3>1, <3>2, <4>1 DEF stored, One
      <4> QED BY <1>1, <3>2, <4>1, <4>2
    <3>4. CASE Held
      <4>1. mem' = Put(mem, tWbeat, MEM!Word(tAddr)) /\ BVALID'
        BY <2>3, <3>4, StoreWorks
      <4>2. stored' = tBeat + 1
        BY <1>1, <3>1, <4>1 DEF stored, One
      <4>3. tWbeat = todo[1].w[tBeat + 1] /\ tWbeat \in LiteWBeat
        BY <1>1, <2>3 DEF WBeats, Beating, Types
      <4>4. MEM!Word(tAddr) = AXI!BeatWord(todo[1], tBeat)
        <5>1. At(iReq, tAddr, tBeat) /\ iReq \in Requests
          BY <1>1 DEF Walk, Types
        <5>2. MEM!Word(tAddr) = AXI!BeatWord(iReq, tBeat)
          BY <1>1, <5>1, SameWord
        <5> QED BY <1>2, <5>2, SameBurst
      <4>5. mem \in Memories /\ todo[1].w[tBeat + 1].strb \in BOOLEAN
        BY <4>3 DEF Types, Memories, LiteWBeat
      <4>6. After(Put(mem, todo[1].w[tBeat + 1], AXI!BeatWord(todo[1], tBeat)),
                  shadow, todo[1], tBeat + 1)
        BY <1>1, <3>2, <4>5, AfterBeat
      <4>7. After(mem', shadow, todo[1], tBeat + 1)
        BY <4>1, <4>3, <4>4, <4>6
      <4> QED BY <1>1, <3>2, <4>2, <4>7
    <3> QED BY <3>3, <3>4
  <2> QED BY <2>1, <2>2, <2>3
<1>7. After(mem', shadow', todo'[1], stored')
  <2>1. PICK n \in Nat : n <= taken /\ stored' = n /\ After(mem', shadow, todo[1], n)
    BY <1>6
  <2>2. \A k \in 1 .. n : todo'[1].w[k] = todo[1].w[k]
    BY <1>2, <2>1
  <2>3. Same(todo[1], todo'[1])
    BY <1>2, SameBurst
  <2>4. After(mem', shadow, todo'[1], n)
    BY <2>1, <2>2, <2>3, AfterSame
  <2> QED BY <1>4, <2>1, <2>4
<1>8. (After(mem, shadow, todo[1], stored))'
  BY <1>7 DEF After, AXI!Landing, AXI!BeatWord, AXI!BeatAddr
<1>9. Pending'
  <2>1. tState' \in {"S_WBEAT", "S_WRESP"}
    BY <1>1, TgtMoves DEF TgtTakes, TgtWrites, TgtStays
  <2> QED BY <2>1 DEF Pending
<1> QED BY <1>4, <1>5, <1>8, <1>9 DEF Contents

\* What the memory holds is what the answered writes and the beats of the current
\* one made of it.
LEMMA ContentsStep ==
  ASSUME Types, Books, Turns, Fitting, Flowing, Phase, Types', Phase', Store, Walk, WBeats, Contents,
         NEW acc, NEW w, NEW bRdy, NEW rRdy, Chosen(acc, w, bRdy, rRdy), Edge(acc, w, bRdy, rRdy)
  PROVE  Contents'
<1>1. bRdy \in BOOLEAN
  BY ChosenType
<1>2. CASE (Home /\ iState # "S_B") \/ RReqOut \/ Reading BY <1>2, ContentsKept
<1>3. CASE Home /\ iState = "S_B" /\ bRdy BY <1>3, ContentsAnswered
<1>4. CASE (Home /\ iState = "S_B" /\ ~bRdy) \/ WriteDone \/ WRespOut BY <1>4, ContentsWaits
<1>5. CASE WReqOut BY <1>5, ContentsBegins
<1>6. CASE Writing BY <1>6, ContentsGrows
<1> QED BY <1>1, <1>2, <1>3, <1>4, <1>5, <1>6 DEF Phase

-----------------------------------------------------------------------------
(* The invariant of the data is inductive.                                 *)

\* An edge of the connected chain keeps the data in order.
LEMMA DataRuns ==
  ASSUME Types, Running, Data,
         NEW acc, NEW w, NEW bRdy, NEW rRdy, Chosen(acc, w, bRdy, rRdy), Edge(acc, w, bRdy, rRdy)
  PROVE  Data'
<1>1. Flowing /\ Fitting
  BY PhaseFits
<1>2. Types' /\ Phase'
  BY PhaseStep DEF Running
<1>3. Books /\ Turns /\ Phase
  BY DEF Running
<1>4. Store /\ Load /\ Walk /\ WBeats /\ RBeats /\ Contents
  BY DEF Data
<1>5. Store' BY <1>1, <1>4, StoreStep
<1>6. Load' BY <1>1, <1>4, LoadStep
<1>7. Walk' BY <1>1, <1>4, WalkStep
<1>8. WBeats' BY <1>1, <1>2, <1>3, <1>4, WBeatsStep
<1>9. RBeats' BY <1>1, <1>2, <1>3, <1>4, RBeatsStep
<1>10. Contents' BY <1>1, <1>2, <1>3, <1>4, ContentsStep
<1> QED BY <1>5, <1>6, <1>7, <1>8, <1>9, <1>10 DEF Data

\* Between bursts, and before the first, the data is in order when the memory
\* rests and is the manager's.
LEMMA DataRests ==
  ASSUME iState = "S_IDLE", tState = "S_IDLE", shadow \in Memories, mem = shadow,
         ~aw_taken, ~w_taken, ~BVALID, ~RVALID
  PROVE  Data
BY DEF Data, Store, Load, Walk, WBeats, RBeats, Contents, Pending

\* While the links come up the memory and the manager rest.
LEMMA DataBoots ==
  ASSUME Types, Booting, Data,
         NEW acc, NEW w, NEW bRdy, NEW rRdy, Chosen(acc, w, bRdy, rRdy), Edge(acc, w, bRdy, rRdy)
  PROVE  Data'
<1>1. iState = "S_IDLE" /\ tState = "S_IDLE" /\ Resting' /\ bRdy = FALSE
  <2>1. iState = "S_IDLE" /\ tState = "S_IDLE"
    BY DEF Booting, Resting
  <2>2. Resting'
    BY BootMoves
  <2>3. acc = None /\ w = None /\ bRdy = FALSE /\ rRdy = FALSE
    BY BootChoice
  <2> QED BY <2>1, <2>2, <2>3
<1>2. iState' = "S_IDLE" /\ tState' = "S_IDLE"
  BY <1>1 DEF Resting
<1>3. shadow \in Memories /\ mem = shadow /\ ~aw_taken /\ ~w_taken /\ ~BVALID /\ ~RVALID
  BY <1>1 DEF Data, Store, Load, Contents, Pending
<1>4. ~awValid /\ ~wValid /\ ~arValid /\ ~MEM!do_write
  BY <1>1, <1>3 DEF awValid, wValid, arValid, MEM!do_write
<1>5. mem' = mem /\ ~aw_taken' /\ ~w_taken' /\ ~BVALID' /\ ~RVALID'
  BY <1>3, <1>4, MemMoves
<1>6. shadow' = shadow
  BY <1>1 DEF Edge, AXI!Clock
<1>7. Data' <=> (Store /\ Load /\ Walk /\ WBeats /\ RBeats /\ Contents)'
  BY DEF Data
<1>8. Store' /\ Load' /\ Walk' /\ WBeats' /\ RBeats'
  BY <1>2, <1>5 DEF Store, Load, Walk, WBeats, RBeats
<1>9. Contents'
  BY <1>2, <1>3, <1>5, <1>6 DEF Contents, Pending
<1> QED BY <1>7, <1>8, <1>9

\* At reset the memory is zero, as the manager expects.
LEMMA DataInit == Init => Data
<1> SUFFICES ASSUME Init PROVE Data
  OBVIOUS
<1>1. iState = "S_IDLE" /\ tState = "S_IDLE"
  BY DEF Init, INI!Init, TGT!Init
<1>2. ~aw_taken /\ ~w_taken /\ ~BVALID /\ ~RVALID /\ mem = [a \in 0 .. WORDS - 1 |-> 0]
  BY DEF Init, MEM!Init, MEM!Words
<1>3. shadow = [a \in 0 .. WORDS - 1 |-> 0]
  BY DEF Init, AXI!Init
<1>4. shadow \in Memories
  BY <1>3 DEF Memories
<1> QED BY <1>1, <1>2, <1>3, <1>4, DataRests

\* The invariant is about vars alone.
LEMMA DataIdle == Data /\ UNCHANGED vars => Data'
<1> SUFFICES ASSUME Data, UNCHANGED vars PROVE Data'
  OBVIOUS
<1> USE DEF vars, feVars, iniVars, actVars, tgtVars, memVars, axiVars
<1>1. Store' BY DEF Data, Store, Presented, Held, Stored, MEM!Word
<1>2. Load' BY DEF Data, Load, MEM!Word
<1>3. Walk' BY DEF Data, Walk, At, AXI!BeatAddr
<1>4. WBeats' BY DEF Data, WBeats, Carried, One, taken
<1>5. RBeats' BY DEF Data, RBeats, AXI!BeatWord, AXI!BeatAddr
<1>6. Contents'
  BY DEF Data, Contents, Pending, After, stored, taken, One, AXI!Landing, AXI!BeatWord, AXI!BeatAddr
<1> QED BY <1>1, <1>2, <1>3, <1>4, <1>5, <1>6 DEF Data

\* The two invariants together are inductive.
LEMMA DataStep == Inv /\ Data /\ [Next]_vars => Data'
<1> SUFFICES ASSUME Inv, Data, [Next]_vars PROVE Data'
  OBVIOUS
<1>1. CASE UNCHANGED vars BY <1>1, DataIdle
<1>2. CASE Next
  <2>1. PICK acc \in Offers, w \in Beats \cup {None}, bRdy \in Takes(s_b), rRdy \in Takes(s_r) :
          Edge(acc, w, bRdy, rRdy)
    BY <1>2 DEF Next
  <2>2. Chosen(acc, w, bRdy, rRdy)
    BY DEF Chosen
  <2>3. CASE Booting BY <2>1, <2>2, <2>3, DataBoots DEF Inv
  <2>4. CASE Running BY <2>1, <2>2, <2>4, DataRuns DEF Inv
  <2> QED BY <2>3, <2>4 DEF Inv
<1> QED BY <1>1, <1>2

\* The memory, the beats on their way and what the manager expects always agree.
THEOREM DataInOrder == Spec => []Data
<1>1. Init => Inv /\ Data
  BY InitInv, DataInit
<1>2. Inv /\ Data /\ [Next]_vars => (Inv /\ Data)'
  BY StepInv, DataStep
<1> QED BY <1>1, <1>2, PTL DEF Spec

-----------------------------------------------------------------------------
(* What the manager sees.                                                  *)

\* Over-long is the same to the manager and to the bridge.
LEMMA LongAlike ==
  ASSUME NEW r \in Requests, NEW t, Same(t, r)
  PROVE  AXI!TooLong(t) <=> FE!Long(r)
BY DEF AXI!TooLong, FE!Long, Same

\* Every B beat is the oldest request's.
LEMMA RightB ==
  ASSUME Types, Running, s_b # None
  PROVE  AXI!GoodB(s_b)
<1>1. CASE e_state = "E_B"
  <2>1. s_b = [id |-> e_req.id, resp |-> "SLVERR"]
    BY <1>1 DEF s_b, FE!e_b, FE!e_bresp
  <2>2. /\ e_req \in Requests /\ FE!Long(e_req) /\ e_req.wr /\ taken = e_req.len + 1
        /\ q = <<>> /\ iState = "S_IDLE"
    BY <1>1 DEF Types, Running, Turns
  <2>3. Len(todo) = 1 /\ Same(todo[1], e_req)
    BY <1>1, <2>2 DEF Running, Books, nCur, nErr
  <2>4. todo # <<>> /\ Head(todo) = todo[1]
    <3>1. todo \in Seq(Todo)
      BY DEF Types
    <3>2. todo # <<>>
      BY <2>3
    <3> QED BY <3>1, <3>2
  <2>5. AXI!TooLong(todo[1])
    BY <2>2, <2>3, LongAlike
  <2>6. todo[1].wr /\ ~AXI!Short(todo[1]) /\ todo[1].id = e_req.id
    <3>1. e_req.len \in Nat
      BY <2>2, RequestFields
    <3> QED BY <2>2, <2>3, <3>1 DEF Same, AXI!Short, taken
  <2> QED BY <2>1, <2>4, <2>5, <2>6 DEF AXI!GoodB
<1>2. CASE e_state # "E_B"
  <2>1. iState = "S_B" /\ s_b = iB
    BY <1>2 DEF s_b, FE!e_b, INI!i_bvalid
  <2>2. iReq.wr /\ taken = beats /\ iB = [id |-> iReq.id, resp |-> "OKAY"]
    BY <2>1 DEF Running, Turns
  <2>3. /\ iReq.len \in Nat /\ beats = iReq.len + 1 /\ iReq \in Requests
        /\ todo # <<>> /\ Same(todo[1], iReq)
    BY <2>1, BurstFits DEF Running
  <2>4. ~FE!Long(iReq)
    BY <2>1 DEF Types
  <2>5. ~AXI!TooLong(todo[1])
    BY <2>3, <2>4, LongAlike
  <2>6. todo[1].wr /\ ~AXI!Short(todo[1]) /\ todo[1].id = iReq.id
    BY <2>2, <2>3 DEF Same, AXI!Short, taken
  <2>7. Head(todo) = todo[1]
    <3>1. todo \in Seq(Todo) /\ todo # <<>>
      BY <2>3 DEF Types
    <3> QED BY <3>1
  <2> QED BY <2>1, <2>2, <2>3, <2>5, <2>6, <2>7 DEF AXI!GoodB
<1> QED BY <1>1, <1>2

\* Every R beat is the oldest request's next one, with the word the answered writes
\* left in the memory.
LEMMA RightR ==
  ASSUME Types, Running, Data, s_r # None
  PROVE  AXI!GoodR(s_r)
<1>1. CASE e_state = "E_R"
  <2>1. s_r = [id |-> e_req.id, resp |-> "SLVERR", data |-> 0, last |-> e_beat = e_req.len]
    BY <1>1 DEF s_r, FE!e_r, FE!e_rresp
  <2>2. /\ e_req \in Requests /\ FE!Long(e_req) /\ ~e_req.wr /\ rbeats = e_beat
        /\ q = <<>> /\ iState = "S_IDLE"
    BY <1>1 DEF Types, Running, Turns
  <2>3. Len(todo) = 1 /\ Same(todo[1], e_req)
    BY <1>1, <2>2 DEF Running, Books, nCur, nErr
  <2>4. todo # <<>> /\ Head(todo) = todo[1]
    <3>1. todo \in Seq(Todo)
      BY DEF Types
    <3>2. todo # <<>>
      BY <2>3
    <3> QED BY <3>1, <3>2
  <2>5. AXI!TooLong(todo[1])
    BY <2>2, <2>3, LongAlike
  <2>6. ~todo[1].wr /\ todo[1].id = e_req.id /\ todo[1].len = e_req.len
    BY <2>2, <2>3 DEF Same
  <2> QED BY <2>1, <2>2, <2>4, <2>5, <2>6 DEF AXI!GoodR
<1>2. CASE e_state # "E_R"
  <2>1. iState = "S_RDATA" /\ b2a # None /\ s_r = INI!i_rresp(b2a)
    BY <1>2 DEF s_r, FE!e_r, INI!i_rvalid, iRx, Running, Connected, IA!enabled
  <2>2. Reading
    BY <2>1, PhaseOf DEF Running
  <2>3. /\ ~iReq.wr /\ iReq.len \in Nat /\ iReq \in Requests /\ beats = iReq.len + 1
        /\ todo # <<>> /\ Same(todo[1], iReq)
    BY <2>1, BurstFits DEF Running, Turns
  <2>4. ~FE!Long(iReq)
    BY <2>1 DEF Types
  <2>5. ~AXI!TooLong(todo[1])
    BY <2>3, <2>4, LongAlike
  <2>6. /\ b2a \in Flit /\ b2a.mt = "rdata" /\ b2a.id = iReq.id /\ b2a.last = (tBeat = beats)
        /\ tBeat = rbeats + 1 /\ rbeats \in Nat
    BY <2>1, <2>2 DEF Reading, One, Types
  <2>7. b2a.resp = "OKAY" /\ b2a \in RDataFlit
    BY <2>6, FlitKinds DEF RDataFlit
  <2>8. b2a.data = mem[AXI!BeatWord(iReq, rbeats)]
    BY <2>1 DEF Data, RBeats
  <2>9. mem = shadow
    BY <2>1, <2>2 DEF Data, Contents, Pending, Reading
  <2>10. AXI!BeatWord(todo[1], rbeats) = AXI!BeatWord(iReq, rbeats)
    BY <2>3, SameBurst DEF Same
  <2>11. tBeat = beats <=> rbeats = iReq.len
    BY <2>3, <2>6
  <2>12. ~todo[1].wr /\ todo[1].id = iReq.id /\ todo[1].len = iReq.len
    BY <2>3 DEF Same
  <2>13. Head(todo) = todo[1]
    <3>1. todo \in Seq(Todo) /\ todo # <<>>
      BY <2>3 DEF Types
    <3> QED BY <3>1
  <2>14. s_r = [id |-> iReq.id, resp |-> "OKAY", data |-> shadow[AXI!BeatWord(todo[1], rbeats)],
                last |-> rbeats = iReq.len]
    BY <2>1, <2>6, <2>7, <2>8, <2>9, <2>10, <2>11 DEF INI!i_rresp
  <2> QED BY <2>3, <2>5, <2>12, <2>13, <2>14 DEF AXI!GoodR
<1> QED BY <1>1, <1>2

\* While the links come up nothing is offered to the manager.
LEMMA BootQuiet ==
  ASSUME Types, Booting
  PROVE  s_b = None /\ s_r = None /\ ~Quiet
BY BootLinks DEF Booting, Resting, s_b, s_r, FE!e_b, FE!e_r, INI!i_bvalid, INI!i_rvalid, Quiet

\* Every B and R beat offered to the manager is the right one: for the oldest
\* unanswered request, with its ID, RESP and LAST, and as data what the writes
\* answered before it left in the memory, whatever the bursts overlap.
THEOREM EveryResponseRight == Spec => []ResponsesRight
<1>1. Inv /\ Data => ResponsesRight
  <2> SUFFICES ASSUME Inv, Data PROVE ResponsesRight
    OBVIOUS
  <2>1. CASE Booting BY <2>1, BootQuiet DEF Inv, ResponsesRight
  <2>2. CASE Running BY <2>2, RightB, RightR DEF Inv, ResponsesRight
  <2> QED BY <2>1, <2>2 DEF Inv
<1> QED BY <1>1, AlwaysInPhase, DataInOrder, PTL

\* With nothing outstanding the memory is what the answered writes made it: no
\* beat is lost, doubled, misplaced or stored after its answer.
THEOREM MemoryIsTheManagers == Spec => []MemoryMatches
<1>1. Inv /\ Data => MemoryMatches
  <2> SUFFICES ASSUME Inv, Data, Quiet PROVE mem = shadow
    BY DEF MemoryMatches
  <2>1. Running
    BY BootQuiet DEF Inv
  <2>2. iState = "S_IDLE"
    <3>1. Types /\ Books /\ todo = <<>>
      BY <2>1 DEF Inv, Running, Quiet
    <3> QED BY <3>1, BurstFits
  <2>3. tState = "S_IDLE"
    BY <2>1, <2>2 DEF Running, Phase, Home, WReqOut, RReqOut, Writing, Written, WriteDone, WRespOut,
                      Reading
  <2> QED BY <2>2, <2>3 DEF Data, Contents, Pending
<1> QED BY <1>1, AlwaysInPhase, DataInOrder, PTL
====
