---------------------------- MODULE AxiBeatAddress ----------------------------
(***************************************************************************)
(* The address of a beat of a burst, by the formulas of the AXI            *)
(* specification (A3.4.1), which comments in rtl/aou_pkg.sv refer to.  A   *)
(* burst r has addr (bytes), len (AxLEN), size (log2 of bytes a beat) and  *)
(* burst.                                                                  *)
(***************************************************************************)
EXTENDS Naturals

\* Beat k, counted from 0: every beat after the first starts at its container, a
\* WRAP burst wraps at its own total size.
BeatAddr(r, k) ==
  LET bytes   == 2 ^ r.size
      total   == bytes * (r.len + 1)
      aligned == (r.addr \div bytes) * bytes
      low     == (r.addr \div total) * total
  IN  CASE r.burst = "FIXED" -> r.addr
        [] r.burst = "WRAP"  -> low + (((r.addr - low) + k * bytes) % total)
        [] OTHER             -> IF k = 0 THEN r.addr ELSE aligned + k * bytes
=============================================================================
