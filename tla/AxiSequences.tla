------------------------------ MODULE AxiSequences ------------------------------
(***************************************************************************)
(* The stimulus of dv/cocotb/axi_seq.py: for each test the set of the item *)
(* sequences its body can make.  A body of directed stimulus makes one.    *)
(* read_multi, which a body calls on the BFM itself, is an item of kind    *)
(* "M" with its reads.                                                     *)
(*                                                                         *)
(* Words are DATA_W bits wide: Byte(b) is the source's 0xbb000000.         *)
(* RandAddrs and RandData bound the values drawn, Num the length of the    *)
(* two random bodies (32 and 64 in the source).                            *)
(***************************************************************************)
EXTENDS AxiCoverage, SequencesExt

CONSTANTS RandAddrs, RandData, Num

ASSUME AxiSequencesAssumption ==
  RandAddrs \subseteq rand_word_addrs /\ RandData \subseteq 0 .. DATA_MASK /\ Num \in Nat

Byte(b) == b * 2 ^ (DATA_W - 8)
Beats(len, Val(_)) == [k \in 1 .. len + 1 |-> Val(k - 1)]

BurstThenRead(addr, burst, beats) ==
  <<WriteBurst(addr, burst, beats), ReadBurst(addr, burst, Len(beats) - 1)>>

\* Write, then read back, each of the pairs of address and data in turn.
WriteThenRead(pairs) ==
  [j \in 1 .. 2 * Len(pairs) |->
     LET pair == pairs[(j + 1) \div 2]
     IN  IF j % 2 = 1 THEN Write(pair[1], pair[2]) ELSE Read(pair[1])]

AxiWriteReadSeq == {WriteThenRead(c) : c \in [1 .. Num -> RandAddrs \X RandData]}

\* Reads prefer written addresses; which is a matter of how often, not of what.
AxiRandomSeq ==
  LET items == {Write(a, d) : a \in RandAddrs, d \in RandData} \cup {Read(a) : a \in RandAddrs}
  IN  [1 .. Num -> items]

AxiBurstSeq ==
  LET blens == <<1, 3, 7, 15>>
      incr(i) == BurstThenRead(8192 + 64 * (i - 1), "INCR",
                   Beats(blens[i], LAMBDA k : Byte(160) + 16 * (i - 1) + 17 * k))
      wrap(i) == BurstThenRead(256 + 4 * (i - 1), "WRAP",
                   Beats(blens[i], LAMBDA k : Byte(176) + 16 * (i - 1) + 7 * k))
  IN  {incr(1) \o incr(2) \o incr(3) \o incr(4) \o wrap(1) \o wrap(2) \o wrap(3) \o wrap(4)
         \o BurstThenRead(64, "FIXED", Beats(3, LAMBDA k : Byte(240) + k))}

Multi(reqs) == <<[kind |-> "M", reqs |-> [i \in DOMAIN reqs |-> ReadBurst(reqs[i][1], "INCR", reqs[i][2])]]>>

\* Preload what reqs (pairs of address and AxLEN) read, then read_multi(reqs).
PreloadThenMulti(reqs, base, step) ==
  [i \in DOMAIN reqs |->
     WriteBurst(reqs[i][1], "INCR", Beats(reqs[i][2], LAMBDA k : base + 256 * (i - 1) + step * k))]
    \o Multi(reqs)

AxiMultiReadSeq ==
  {PreloadThenMulti(<<<<2048, 0>>, <<2112, 3>>, <<2176, 1>>, <<2240, 7>>, <<2304, 0>>>>,
                    Byte(192), 19)}

\* For each address, each word of data.
AllPairs(addrs, data) ==
  WriteThenRead([i \in 1 .. Len(addrs) * Len(data) |->
                   <<addrs[((i - 1) \div Len(data)) + 1], data[((i - 1) % Len(data)) + 1]>>])

TopBit == 2 ^ (DATA_W - 1)
Other  == Byte(222) + 173        \* 0xDEADBEEF: neither a pattern nor a power of two

AxiWalkingSeq ==
  {AllPairs(<<0, 4, ADDR_LIMIT - 8, ADDR_LIMIT - 4>>,
            <<0, 1, TopBit, DATA_MASK - 1, TopBit - 1, ALT_5, ALT_A, DATA_MASK, Other>>)}

PATTERNS == <<0, DATA_MASK, 1, DATA_MASK - 1, ALT_5, Other>>

\* Mutant: the closure stimulus stops before its overlapping reads.
AxiCoverageCloseSeq_noMulti ==
  {AllPairs([g \in 1 .. 3 |-> region_sample_addr(<<"low", "mid", "high">>[g])] \o <<0, LAST_WORD>>,
            PATTERNS)}

AxiCoverageCloseSeq ==
  LET addrs == [g \in 1 .. 3 |-> region_sample_addr(<<"low", "mid", "high">>[g])]
      beats(len) == Beats(len, LAMBDA k : Byte(81) + 65536 * len + 257 * k)
      base == 256 * (region_sample_addr("high") \div 256)
  IN  {AllPairs(addrs \o <<0, LAST_WORD>>, PATTERNS)
         \o BurstThenRead(region_sample_addr("low") + 64, "INCR", beats(3))
         \o BurstThenRead(region_sample_addr("mid") + 128, "INCR", beats(15))
         \o PreloadThenMulti(<<<<base, 0>>, <<base + 64, 3>>, <<base + 128, 1>>>>, Byte(92), 23)}

Stimulus ==
  [write_read_test        |-> AxiWriteReadSeq,
   random_test            |-> AxiRandomSeq,
   walking_test           |-> AxiWalkingSeq,
   burst_test             |-> AxiBurstSeq,
   multi_outstanding_test |-> AxiMultiReadSeq,
   coverage_test          |-> AxiCoverageCloseSeq]
===============================================================================
