------------------------------ MODULE AxiMaster ------------------------------
(***************************************************************************)
(* What an AXI4 manager connected to the top level (the testbenches of dv/)*)
(* expects of the memory behind it, as a scoreboard.                       *)
(*                                                                         *)
(*   todo     the accepted requests not yet fully answered, in accept      *)
(*            order; each with w, the W beats taken for it so far          *)
(*   rbeats   R beats delivered of the oldest one                          *)
(*   shadow   the memory a manager computes from the writes answered OKAY  *)
(*   issued   requests accepted so far                                     *)
(*   stamp    W beats sent so far; a beat's data is its stamp, so no two   *)
(*            beats carry the same                                         *)
(***************************************************************************)
EXTENDS AxiBeatAddress, Sequences, FiniteSetsExt

CONSTANTS WORDS, MaxBeats, None

VARIABLES todo, rbeats, shadow, issued, stamp

masterVars == <<todo, rbeats, shadow, issued, stamp>>

Init ==
  /\ todo = <<>>
  /\ rbeats = 0
  /\ shadow = [a \in 0 .. WORDS - 1 |-> 0]
  /\ issued = 0
  /\ stamp = 0

\* The memory word of beat k.
BeatWord(r, k) == (BeatAddr(r, k) \div 4) % WORDS

\* Bursts beyond the credit contract are answered SLVERR (README).
TooLong(r) == r.len + 1 > MaxBeats

\* The oldest write whose data is not complete: the W channel has no ID, so a
\* W beat always belongs to it.
Short(r)  == r.wr /\ Len(r.w) <= r.len
Filling   == {i \in DOMAIN todo : Short(todo[i])}
FirstToFill == CHOOSE i \in Filling : \A j \in Filling : i <= j

\* What W carries next: a beat for that write, with all strobes or, if it is one
\* of the beats in partial, with none.
Beats(partial) ==
  IF Filling = {} THEN {}
  ELSE LET r == todo[FirstToFill]
       IN  [data : {stamp + 1}, last : {Len(r.w) = r.len},
            strb : IF Len(r.w) \in partial THEN BOOLEAN ELSE {TRUE}]

\* The beats, of the first n of the write r, that put something in word a.
Landing(r, n, a) == {k \in 1 .. n : r.w[k].strb /\ BeatWord(r, k - 1) = a}

\* shadow after the write r: every word as its last such beat left it.
Written(r) ==
  [a \in 0 .. WORDS - 1 |->
     LET hits == Landing(r, Len(r.w), a)
     IN  IF hits = {} THEN shadow[a] ELSE r.w[Max(hits)].data]

-----------------------------------------------------------------------------
(* The responses the oldest request may get.                               *)

GoodB(b) ==
  /\ todo # <<>>
  /\ LET r == Head(todo)
     IN  /\ r.wr /\ ~Short(r)
         /\ b = [id |-> r.id, resp |-> IF TooLong(r) THEN "SLVERR" ELSE "OKAY"]

GoodR(x) ==
  /\ todo # <<>>
  /\ LET r == Head(todo)
     IN  /\ ~r.wr
         /\ x = [id |-> r.id,
                 resp |-> IF TooLong(r) THEN "SLVERR" ELSE "OKAY",
                 data |-> IF TooLong(r) THEN 0 ELSE shadow[BeatWord(r, rbeats)],
                 last |-> rbeats = r.len]

-----------------------------------------------------------------------------
(* One clock edge: the request accepted on AW/AR, the beat accepted on W   *)
(* and the responses taken on B and R, None where there is none.           *)

WithBeat(w) ==
  IF w = None THEN todo
  ELSE [todo EXCEPT ![FirstToFill].w =
          Append(@, [data |-> w.data, strb |-> w.strb])]

Begun(acc) ==
  IF acc = None THEN <<>>
  ELSE <<[wr |-> acc.wr, id |-> acc.id, addr |-> acc.addr, len |-> acc.len,
          size |-> acc.size, burst |-> acc.burst, w |-> <<>>]>>

Answered(b, x) == b # None \/ (x # None /\ x.last)

Clock(acc, w, b, x) ==
  /\ todo' = (IF Answered(b, x) THEN Tail(WithBeat(w)) ELSE WithBeat(w))
               \o Begun(acc)
  /\ rbeats' = IF x = None THEN rbeats ELSE IF x.last THEN 0 ELSE rbeats + 1
  /\ shadow' = IF b # None /\ b.resp = "OKAY" THEN Written(Head(todo)) ELSE shadow
  /\ issued' = IF acc = None THEN issued ELSE issued + 1
  /\ stamp' = IF w = None THEN stamp ELSE stamp + 1
=============================================================================
