------------------------------ MODULE AxiLiteMem ------------------------------
(***************************************************************************)
(* The AXI4-Lite word memory behind the target bridge                      *)
(* (rtl/axi_lite_mem.sv).  AW and W are captured independently and the     *)
(* write commits once both are held.                                       *)
(*                                                                         *)
(* A word is one value and its strobes one Boolean: all lanes or none.     *)
(* RDATA is kept while RVALID is low, as the register keeps it.  The read  *)
(* channel's ar_taken is never set and is left out.                        *)
(*                                                                         *)
(* Clock's inputs: aw, ar the byte addresses on AW and AR (None when not   *)
(* valid), w the beat [data, strb] on W (None when not valid), and the     *)
(* Booleans bReady and rReady.                                             *)
(***************************************************************************)
EXTENDS Naturals

CONSTANTS WORDS, None

VARIABLES mem, aw_taken, w_taken, awaddr_q, wbeat_q, BVALID, RVALID, RDATA

memVars == <<mem, aw_taken, w_taken, awaddr_q, wbeat_q, BVALID, RVALID, RDATA>>

Words == 0 .. WORDS - 1

\* AWADDR[ADDR_W-1:2]: the word index, sub-word and upper bits dropped.
Word(addr) == (addr \div 4) % WORDS

Init ==
  /\ mem = [a \in Words |-> 0]
  /\ aw_taken = FALSE /\ w_taken = FALSE /\ BVALID = FALSE /\ RVALID = FALSE
  /\ awaddr_q = 0
  /\ wbeat_q = [data |-> 0, strb |-> FALSE]
  /\ RDATA = 0

AWREADY == ~aw_taken
WREADY  == ~w_taken
ARREADY == ~RVALID

do_write == aw_taken /\ w_taken /\ ~BVALID

CaptureAw(aw) ==
  /\ awaddr_q' = IF aw # None /\ AWREADY THEN Word(aw) ELSE awaddr_q
  /\ aw_taken' = (~do_write /\ (aw_taken \/ aw # None))

CaptureW(w) ==
  /\ wbeat_q' = IF w # None /\ WREADY THEN w ELSE wbeat_q
  /\ w_taken' = (~do_write /\ (w_taken \/ w # None))

\* Mutant: the strobes are ignored.
CommitAllLanes(bReady) ==
  /\ mem' = IF do_write THEN [mem EXCEPT ![awaddr_q] = wbeat_q.data] ELSE mem
  /\ BVALID' = (do_write \/ (BVALID /\ ~bReady))

Commit(bReady) ==
  /\ mem' = IF do_write /\ wbeat_q.strb THEN [mem EXCEPT ![awaddr_q] = wbeat_q.data]
                                        ELSE mem
  /\ BVALID' = (do_write \/ (BVALID /\ ~bReady))

Read(ar, rReady) ==
  /\ RDATA' = IF ar # None /\ ARREADY THEN mem[Word(ar)] ELSE RDATA
  /\ RVALID' = IF RVALID THEN ~rReady ELSE ar # None

Clock(aw, w, bReady, ar, rReady) ==
  /\ CaptureAw(aw)
  /\ CaptureW(w)
  /\ Commit(bReady)
  /\ Read(ar, rReady)
=============================================================================
