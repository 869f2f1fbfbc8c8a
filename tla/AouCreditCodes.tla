---------------------------- MODULE AouCreditCodes ----------------------------
(***************************************************************************)
(* The credit codec of AouCredits over every input it can get: the eight-  *)
(* bit count walk of granules a bridge owes.  One state per count.         *)
(***************************************************************************)
EXTENDS AouCredits

VARIABLE walk

Init == walk \in 0 .. 255
Next == walk' = (walk + 1) % 256

-----------------------------------------------------------------------------
\* A credit return covers the granules freed (comment at cred_encode_ge), as far
\* as the largest bucket, 128, reaches (a count beyond it leaks the difference),
\* by the least bucket that does: the over-grant the peer's ceiling has to absorb
\* is bounded.
ReturnCovers ==
  /\ walk <= 128 => cred_decode(cred_encode_ge(walk)) >= walk
  /\ walk <= 8   => cred_decode(cred_encode_ge2(walk)) >= walk
  /\ \A c \in 0 .. 7 : Bucket[c] >= walk => Bucket[cred_encode_ge(walk)] <= Bucket[c]
  /\ \A c \in 0 .. 3 : Bucket[c] >= walk => Bucket[cred_encode_ge2(walk)] <= Bucket[c]
===============================================================================
