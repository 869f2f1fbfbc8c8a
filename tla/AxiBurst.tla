------------------------------- MODULE AxiBurst -------------------------------
(***************************************************************************)
(* Burst addressing: axi_burst_next of rtl/aou_pkg.sv, the address of the  *)
(* beat after addr in a burst that began at base.  Byte addresses; `size'  *)
(* is log2 of the bytes per beat, `len' is AxLEN (beats - 1).              *)
(***************************************************************************)
EXTENDS Naturals

Bytes(size) == 2 ^ size

\* base & ~(total - 1), for the power-of-two totals a legal WRAP burst has.
WrapLow(base, total) == base - (base % total)

\* Mutant: a WRAP burst goes on past its boundary.
burst_next_nowrap(addr, base, burst, size, len) ==
  IF burst = "FIXED" THEN addr ELSE addr + Bytes(size)

axi_burst_next(addr, base, burst, size, len) ==
  CASE burst = "FIXED" -> addr
    [] burst = "WRAP"  -> LET total == (len + 1) * Bytes(size)
                              low   == WrapLow(base, total)
                              nxt   == addr + Bytes(size)
                          IN  IF nxt = low + total THEN low ELSE nxt
    [] OTHER           -> addr + Bytes(size)
=============================================================================
