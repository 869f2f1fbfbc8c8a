------------------------------ MODULE AouCredits ------------------------------
(***************************************************************************)
(* Credit arithmetic of rtl/aou_pkg.sv (section 6): granules per message,  *)
(* the Table-17 bucket codes a MsgCredit carries, and the saturating       *)
(* counters of the two bridges.                                            *)
(***************************************************************************)
EXTENDS Naturals

WRITEREQ_GRAN  == 3
READREQ_GRAN   == 3
WRITEDATA_GRAN == 8
READDATA_GRAN  == 8
WRITERESP_GRAN == 1

\* Table 17: code c (three bits) grants Bucket[c] credits.
Bucket == [c \in 0 .. 7 |->
             CASE c = 0 -> 0  [] c = 1 -> 1  [] c = 2 -> 4  [] c = 3 -> 8
               [] c = 4 -> 16 [] c = 5 -> 32 [] c = 6 -> 64 [] c = 7 -> 128]

cred_decode(code) == Bucket[code]

\* Mutant: the largest code granting at most n credits.
cred_encode_le(n) ==
  CHOOSE c \in 0 .. 7 : Bucket[c] <= n /\ (c < 7 => n < Bucket[c + 1])

\* The smallest code granting at least n credits; the largest one beyond 128.
cred_encode_ge(n) ==
  IF n > 64 THEN 7
  ELSE CHOOSE c \in 0 .. 6 : n <= Bucket[c] /\ (c > 0 => Bucket[c - 1] < n)

\* The two-bit variant of the WRESPCRED field.
cred_encode_ge2(n) ==
  IF n > 4 THEN 3
  ELSE CHOOSE c \in 0 .. 2 : n <= Bucket[c] /\ (c > 0 => Bucket[c - 1] < n)

\* Mutant: no clamp.
plain_add(cur, add, lim) == cur + add

\* cur + add, clamped at lim.
sat_add(cur, add, lim) == IF cur + add > lim THEN lim ELSE cur + add

\* A MsgCredit word: the five codes (Table 16) that ride in a flit's header.
mk_msgcredit(wreq, rreq, wdata, rdata, wresp) ==
  [wreq |-> wreq, rreq |-> rreq, wdata |-> wdata, rdata |-> rdata, wresp |-> wresp]
=============================================================================
