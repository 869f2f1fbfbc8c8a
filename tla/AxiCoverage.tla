------------------------------ MODULE AxiCoverage ------------------------------
(***************************************************************************)
(* The functional coverage model of dv/cocotb/axi_coverage.py: the bins an *)
(* observed transfer is counted in, and what the goal is.  A transfer is   *)
(* [wr, addr, data, len, outstanding]; its response is always OKAY, so     *)
(* that of the resp group only bin okay is ever hit.  Of a bin's count the *)
(* model keeps what the goal looks at: whether it is zero, so the counts   *)
(* are the set of the bins that were hit.                                  *)
(***************************************************************************)
EXTENDS AxiSeqItem, FiniteSets

Third     == 4 * ((ADDR_LIMIT \div 3) \div 4)
LAST_WORD == ADDR_LIMIT - 4

\* name -> first and last byte address
ADDR_REGIONS ==
  [low  |-> <<0, Third - 1>>,
   mid  |-> <<Third, 2 * Third - 1>>,
   high |-> <<2 * Third, ADDR_LIMIT - 1>>]
Regions == DOMAIN ADDR_REGIONS

\* What is in no range counts as the last one.
region_of(addr) ==
  IF \E g \in Regions : addr \in ADDR_REGIONS[g][1] .. ADDR_REGIONS[g][2]
  THEN CHOOSE g \in Regions : addr \in ADDR_REGIONS[g][1] .. ADDR_REGIONS[g][2]
  ELSE "high"

region_sample_addr(g) ==
  4 * (((ADDR_REGIONS[g][1] + ADDR_REGIONS[g][2] + 1) \div 2) \div 4)

ALT_5 == DATA_MASK \div 3
ALT_A == (2 * ALT_5) % (DATA_MASK + 1)
OneBit == {2 ^ i : i \in 0 .. DATA_W - 1}

data_pattern(v) ==
  CASE v = 0                      -> "zero"
    [] v = DATA_MASK              -> "all_ones"
    [] v \in OneBit               -> "walking_one"
    [] DATA_MASK - v \in OneBit   -> "walking_zero"
    [] v \in {ALT_5, ALT_A}       -> "alternating"
    [] OTHER                      -> "other"

burst_bucket(length) ==
  CASE length + 1 = 1  -> "beats_1"
    [] length + 1 <= 8 -> "beats_small"
    [] OTHER           -> "beats_max"

outstanding_bucket(depth) == IF depth <= 1 THEN "one" ELSE "multi"

\* The coverpoints and their declared bins; a bin is <<group, name>>.
BinsOf ==
  [direction     |-> {"read", "write"},
   addr_region   |-> Regions,
   addr_boundary |-> {"first_word", "interior", "last_word"},
   data_pattern  |-> {"zero", "all_ones", "walking_one", "walking_zero", "alternating", "other"},
   resp          |-> {"okay", "exokay", "slverr", "decerr"},
   burst_len     |-> {"beats_1", "beats_small", "beats_max"},
   outstanding   |-> {"one", "multi"},
   dir_x_region  |-> {"read", "write"} \X Regions]
Bins == UNION {{g} \X BinsOf[g] : g \in DOMAIN BinsOf}

\* The error encodings are excluded from the goal: the design ties them off.
Goal == Bins \ ({"resp"} \X {"exokay", "slverr", "decerr"})

Boundary(addr) ==
  CASE addr = 0         -> "first_word"
    [] addr = LAST_WORD -> "last_word"
    [] OTHER            -> "interior"

\* The bins sample(tr) hits.
sample(tr) ==
  LET direction == IF tr.wr THEN "write" ELSE "read"
  IN  {<<"direction", direction>>,
       <<"addr_region", region_of(tr.addr)>>,
       <<"addr_boundary", Boundary(tr.addr)>>,
       <<"data_pattern", data_pattern(tr.data)>>,
       <<"resp", "okay">>,
       <<"burst_len", burst_bucket(tr.len)>>,
       <<"outstanding", outstanding_bucket(tr.outstanding)>>,
       <<"dir_x_region", <<direction, region_of(tr.addr)>>>>}

\* The bins hit once the transfers trs have been sampled too.
hit(bins, trs) == bins \cup UNION {sample(trs[i]) : i \in DOMAIN trs}

\* load: what is in the database is added to the bins; one that is absent or does
\* not parse is passed over.
load(bins, db) == IF db.file = "counts" THEN bins \cup db.bins ELSE bins

holes(bins) == Goal \ bins

\* check against the default floor of 100 %: every goal bin is hit.
check(bins) == holes(bins) = {}
===============================================================================
