------------------------------ MODULE AxiSeqItem ------------------------------
(***************************************************************************)
(* The transfers of the PyUVM bench (dv/cocotb/axi_seq_item.py): requests  *)
(* as the sequences make them, and the bench's own copy of the burst       *)
(* address rule.  A transfer is [kind, addr, len, burst, beats]; all of    *)
(* the bench's transfers have SIZE_4B beats, and len is AxLEN.             *)
(***************************************************************************)
EXTENDS Naturals, Sequences

CONSTANTS MEM_ADDR_W, DATA_W

ASSUME AxiSeqItemAssumption == MEM_ADDR_W \in 8 .. 24 /\ DATA_W \in 8 .. 30

ADDR_LIMIT == 2 ^ MEM_ADDR_W
DATA_MASK  == 2 ^ DATA_W - 1
WORD_ADDRS == ADDR_LIMIT \div 4
SIZE_4B    == 2

\* rand_word_addr draws one of these.
rand_word_addrs == {4 * i : i \in 0 .. WORD_ADDRS - 1}

\* Mutant: the wrap boundary is taken from the current address, not the base.
next_addr_nowrap(a, base, burst, size, length) ==
  IF burst = "FIXED" THEN a ELSE a + 2 ^ size

next_addr(a, base, burst, size, length) ==
  CASE burst = "FIXED" -> a
    [] burst = "WRAP" ->
         LET total == (length + 1) * 2 ^ size
             low   == base - (base % total)
         IN  IF a + 2 ^ size = low + total THEN low ELSE a + 2 ^ size
    [] OTHER -> a + 2 ^ size

\* AxiSeqItem(...): the address is cut to a word of the memory, a word of data to
\* the width of the bus.
Item(kind, addr, len, burst, beats) ==
  [kind |-> kind, addr |-> 4 * ((addr % ADDR_LIMIT) \div 4), len |-> len, burst |-> burst,
   beats |-> [k \in DOMAIN beats |-> beats[k] % (DATA_MASK + 1)]]

Write(addr, data)               == Item("W", addr, 0, "INCR", <<data>>)
Read(addr)                      == Item("R", addr, 0, "INCR", <<>>)
WriteBurst(addr, burst, beats)  == Item("W", addr, Len(beats) - 1, burst, beats)
ReadBurst(addr, burst, len)     == Item("R", addr, len, burst, <<>>)
===============================================================================
