-------------------------- MODULE AxiTestbench_proofs --------------------------
(***************************************************************************)
(* Proofs about the PyUVM bench, for any stalls of the design, any width   *)
(* of the memory and of a word, any random data and any kill of a          *)
(* simulation.                                                             *)
(*                                                                         *)
(* The coverage database: the bins the invocation has hit are those of the *)
(* test in hand, which its own collector has, and those of the tests       *)
(* before it, which are in the database; from the moment the database is   *)
(* emptied to the moment it is written, the collector has them all.  A     *)
(* simulation that dies in between ends the invocation, and the next one   *)
(* starts by dropping the database.                                        *)
(*                                                                         *)
(* The bus: at every edge at most one transfer is in hand, and where the   *)
(* driver is in it says what the design's queue and the monitor's context  *)
(* hold: a write with so many of its beats taken, or reads with so many    *)
(* beats of the oldest delivered.  Both sides move together at each        *)
(* handshake (TakeAW ... TakeR), a write is committed at the edge at which *)
(* its beats are reported, and so the memory the scoreboard builds from    *)
(* the reports is the design's at all times, and every read reported       *)
(* carries its word.  The stimulus matters only in that its bursts are     *)
(* within AXI's rules, so that next_addr and AXI's formula agree.          *)
(***************************************************************************)
EXTENDS AxiTestbench, SequenceTheorems, FiniteSetTheorems, WellFoundedInduction, TLAPS

-----------------------------------------------------------------------------
(* The coverage database.                                                  *)

\* Where the bins of this invocation are, at each point of a test.
Where ==
  /\ pc = "none" => hits = load({}, db)
  /\ pc \in {"run", "check", "report"} => hits = load(cov, db)
  /\ pc \in {"save", "final"} => hits = cov
  /\ pc = "final" => db = [file |-> "counts", bins |-> cov]

Counted ==
  /\ run = [target |-> run.target, tests |-> run.tests]
  /\ pc # "none" => run.tests # <<>>
  /\ run.tests # <<>> /\ run.target # "waves" => Where

\* Sampling a report and adding what is in the database commute.
LEMMA LoadLate ==
  ASSUME NEW bins, NEW trs, NEW counts
  PROVE  hit(load(bins, counts), trs) = load(hit(bins, trs), counts)
BY DEF hit, load

\* A simulation that stops ends the invocation.
LEMMA StopCounts ==
  ASSUME Counted, NEW v, Stop(v)
  PROVE  Counted'
<1>1. run' = [target |-> run.target, tests |-> <<>>] /\ pc' = "none" BY DEF Counted, Stop
<1> QED BY <1>1 DEF Counted

LEMMA StepCounts ==
  ASSUME Counted, [Next]_vars
  PROVE  Counted'
<1>1. ASSUME NEW target \in DOMAIN Tests, Make(target) PROVE Counted'
  <2>1. /\ run' = [target |-> target, tests |-> Tests[target]]
        /\ db' = fcov_reset(target) /\ hits' = {} /\ pc' = "none"
    BY <1>1 DEF Make
  <2>2. target # "waves" => load({}, db') = {}
    BY <2>1 DEF fcov_reset, Absent, load
  <2> QED BY <2>1, <2>2 DEF Counted, Where
<1>2. CASE run_one_test
  <2>1. pc = "none" /\ run.tests # <<>> /\ pc' = "run" /\ cov' = {} /\ UNCHANGED <<run, db, hits>>
    BY <1>2 DEF run_one_test
  <2> QED BY <2>1 DEF Counted, Where
<1>3. CASE get_next_item \/ EndOfRun
  <2>1. /\ pc = "run" /\ pc' \in {"run", "check"} /\ UNCHANGED <<run, db, cov, hits>>
    BY <1>3 DEF get_next_item, EndOfRun
  <2> QED BY <2>1 DEF Counted, Where
<1>4. CASE Clock(BOOLEAN)
  <2>1. /\ pc = "run" /\ pc' = "run" /\ UNCHANGED <<run, db>>
        /\ cov' = hit(cov, NewReports) /\ hits' = hit(hits, NewReports)
    BY <1>4 DEF Clock
  <2>2. hit(load(cov, db), NewReports) = load(hit(cov, NewReports), db) BY LoadLate
  <2> QED BY <2>1, <2>2 DEF Counted, Where
<1>5. CASE check_phase
  <2>1. CASE Mismatches(seen) = {}
    <3>1. pc = "check" /\ pc' = "report" /\ UNCHANGED <<run, db, cov, hits>> BY <1>5, <2>1 DEF check_phase
    <3> QED BY <3>1 DEF Counted, Where
  <2>2. CASE Mismatches(seen) # {} BY <1>5, <2>2, StopCounts DEF check_phase
  <2> QED BY <2>1, <2>2
<1>6. CASE report_phase
  <2>1. pc = "report" /\ pc' = "save" /\ cov' = load(cov, db) /\ UNCHANGED <<run, hits>>
    BY <1>6 DEF report_phase
  <2> QED BY <2>1 DEF Counted, Where
<1>7. CASE save
  <2>1. /\ pc = "save" /\ pc' = "final" /\ UNCHANGED <<run, cov, hits>>
        /\ db' = [file |-> "counts", bins |-> cov]
    BY <1>7 DEF save
  <2> QED BY <2>1 DEF Counted, Where
<1>8. CASE final_phase
  <2>1. pc = "final" /\ UNCHANGED <<cov, db, hits>> BY <1>8 DEF final_phase
  <2>2. CASE \E v : Stop(v) BY <2>2, StopCounts
  <2>3. CASE ~(\E v : Stop(v))
    <3>1. pc' = "none" /\ run' = [run EXCEPT !.tests = Tail(@)] BY <1>8, <2>3 DEF final_phase
    <3>2. run' = [target |-> run.target, tests |-> Tail(run.tests)] BY <3>1 DEF Counted
    <3>3. run.target # "waves" => hits' = load({}, db')
      BY <2>1 DEF Counted, Where, load
    <3> QED BY <3>1, <3>2, <3>3 DEF Counted, Where
  <2> QED BY <2>2, <2>3
<1>9. CASE Kill BY <1>9, StopCounts DEF Kill
<1>10. CASE UNCHANGED vars BY <1>10 DEF vars, tbVars, Counted, Where
<1> QED BY <1>1, <1>2, <1>3, <1>4, <1>5, <1>6, <1>7, <1>8, <1>9, <1>10 DEF Next

\* Makefile:251-253: between two tests the coverage database holds the bins this
\* invocation of make has hit, no more and no fewer, whatever was killed before.
THEOREM CountsAreOurs == Spec => []CountsThisRun
<1>1. Init => Counted BY DEF Init, Counted
<1>2. Counted => CountsThisRun BY DEF Counted, Where, CountsThisRun, load
<1> QED BY <1>1, <1>2, StepCounts, PTL DEF Spec

-----------------------------------------------------------------------------
(* The addresses of a burst.                                               *)

Bursts == {"FIXED", "INCR", "WRAP"}

\* A burst within the rules of AXI: whole words; a WRAP burst fills a power of two.
LegalBurst(x) ==
  /\ x.addr \in Nat /\ x.addr % 4 = 0
  /\ x.len \in Nat
  /\ x.burst \in Bursts
  /\ x.burst = "WRAP" => x.len \in {1, 3, 7, 15}

\* The block of a WRAP burst: its size and where it begins.
Block(x) == 4 * (x.len + 1)
Low(x)   == (x.addr \div Block(x)) * Block(x)

\* The address of beat k of a burst, from the formula of AXI.
LEMMA BeatIs ==
  ASSUME NEW x, LegalBurst(x), NEW k \in Nat
  PROVE  Beat(x, k) = IF x.burst = "FIXED" THEN x.addr
                      ELSE IF x.burst = "WRAP"
                           THEN Low(x) + (((x.addr - Low(x)) + 4 * k) % Block(x))
                           ELSE x.addr + 4 * k
<1>1. 2 ^ SIZE_4B = 4 BY DEF SIZE_4B
<1>2. /\ 4 * (x.len + 1) = Block(x)
      /\ Low(x) + (((x.addr - Low(x)) + k * 4) % Block(x))
           = Low(x) + (((x.addr - Low(x)) + 4 * k) % Block(x))
      /\ (x.addr \div 4) * 4 = x.addr
      /\ x.addr + k * 4 = x.addr + 4 * k
  <2>1. k * 4 = 4 * k OBVIOUS
  <2> QED BY <2>1 DEF Block, LegalBurst
<1> DEFINE r == [addr |-> x.addr, len |-> x.len, size |-> SIZE_4B, burst |-> x.burst]
<1>3. r.addr = x.addr /\ r.len = x.len /\ r.size = SIZE_4B /\ r.burst = x.burst
  OBVIOUS
<1>4. Beat(x, k) = BeatAddr(r, k) BY DEF Beat
<1> HIDE DEF r
<1>5. BeatAddr(r, k) = IF x.burst = "FIXED" THEN x.addr
                       ELSE IF x.burst = "WRAP"
                            THEN Low(x) + (((x.addr - Low(x)) + k * 4) % Block(x))
                            ELSE IF k = 0 THEN x.addr ELSE (x.addr \div 4) * 4 + k * 4
  BY <1>1, <1>2, <1>3 DEF BeatAddr, Low
<1>6. k = 0 => x.addr = x.addr + 4 * k BY DEF LegalBurst
<1> QED BY <1>2, <1>4, <1>5, <1>6

\* The offset of word k of a burst from a in its block of t bytes, from l.
Offset(t, l, a, k) ==
  LET o == (a - l) + 4 * k
  IN  /\ l \in Nat /\ o \in Nat /\ l = a - (a % t)
      /\ l + (((a - l) + 4 * 0) % t) = a
      /\ (a - l) + 4 * (k + 1) = o + 4
      /\ (o + 4) % t = IF (o % t) + 4 = t THEN 0 ELSE (o % t) + 4
      /\ o % t \in Nat

\* Counting in words modulo a block.
LEMMA InBlock ==
  ASSUME NEW t \in {8, 16, 32, 64}, NEW a \in Nat, a % 4 = 0, NEW k \in Nat
  PROVE  Offset(t, (a \div t) * t, a, k)
<1>1. CASE t = 8 BY <1>1 DEF Offset
<1>2. CASE t = 16 BY <1>2 DEF Offset
<1>3. CASE t = 32 BY <1>3 DEF Offset
<1>4. CASE t = 64 BY <1>4 DEF Offset
<1> QED BY <1>1, <1>2, <1>3, <1>4

\* The same for the block of a WRAP burst.
LEMMA WrapOffset ==
  ASSUME NEW x, LegalBurst(x), Block(x) \in {8, 16, 32, 64}, NEW k \in Nat
  PROVE  Offset(Block(x), Low(x), x.addr, k)
BY InBlock DEF LegalBurst, Low

\* A burst begins at its own address.
LEMMA FirstBeat ==
  ASSUME NEW x, LegalBurst(x)
  PROVE  Beat(x, 0) = x.addr
<1>1. CASE x.burst = "WRAP"
  <2>1. Block(x) \in {8, 16, 32, 64} BY <1>1 DEF Block, LegalBurst
  <2>2. Low(x) + (((x.addr - Low(x)) + 4 * 0) % Block(x)) = x.addr
    <3>1. Offset(Block(x), Low(x), x.addr, 0) BY <2>1, WrapOffset
    <3> QED BY <3>1 DEF Offset
  <2> QED BY <1>1, <2>2, BeatIs
<1>2. CASE x.burst # "WRAP"
  <2>1. Beat(x, 0) = IF x.burst = "FIXED" THEN x.addr ELSE x.addr + 4 * 0 BY <1>2, BeatIs
  <2> QED BY <2>1 DEF LegalBurst
<1> QED BY <1>1, <1>2

\* Every beat has an address.
LEMMA BeatIsAddress ==
  ASSUME NEW x, LegalBurst(x), NEW k \in Nat
  PROVE  Beat(x, k) \in Nat
<1>1. CASE x.burst = "WRAP"
  <2>1. Block(x) \in {8, 16, 32, 64} BY <1>1 DEF Block, LegalBurst
  <2>2. /\ Low(x) \in Nat
        /\ (((x.addr - Low(x)) + 4 * k) % Block(x)) \in Nat
    BY <2>1, WrapOffset DEF Offset
  <2> QED BY <1>1, <2>2, BeatIs
<1>2. CASE x.burst # "WRAP" BY <1>2, BeatIs DEF LegalBurst
<1> QED BY <1>1, <1>2

\* next_addr, by which the monitor goes from beat to beat, follows AXI's formula.
LEMMA NextBeat ==
  ASSUME NEW x, LegalBurst(x), NEW k \in Nat
  PROVE  NextOf(Beat(x, k), x) = Beat(x, k + 1)
<1>1. 2 ^ SIZE_4B = 4 BY DEF SIZE_4B
<1>2. CASE x.burst = "WRAP"
  <2> DEFINE t == Block(x)
             l == Low(x)
             o == (x.addr - l) + 4 * k
  <2>1. t \in {8, 16, 32, 64} BY <1>2 DEF Block, LegalBurst
  <2>2. /\ l \in Nat /\ o \in Nat /\ l = x.addr - (x.addr % t)
        /\ (x.addr - l) + 4 * (k + 1) = o + 4
        /\ (o + 4) % t = IF (o % t) + 4 = t THEN 0 ELSE (o % t) + 4
        /\ o % t \in Nat
    BY <2>1, WrapOffset DEF Offset
  <2>3. Beat(x, k) = l + (o % t) /\ Beat(x, k + 1) = l + ((o + 4) % t)
    BY <1>2, <2>2, BeatIs
  <2>4. (x.len + 1) * 2 ^ SIZE_4B = t
    BY <1>1 DEF Block, LegalBurst
  <2>5. NextOf(Beat(x, k), x) = IF Beat(x, k) + 4 = l + t THEN l ELSE Beat(x, k) + 4
    BY <1>1, <1>2, <2>2, <2>4 DEF NextOf, next_addr
  <2> DEFINE m == o % t
             b == (o + 4) % t
  <2>6. /\ m \in Nat /\ b = IF m + 4 = t THEN 0 ELSE m + 4
        /\ Beat(x, k) = l + m /\ Beat(x, k + 1) = l + b
    BY <2>2, <2>3
  <2> HIDE DEF m, b, t, l, o
  <2> QED BY <2>1, <2>2, <2>5, <2>6
<1>3. CASE x.burst = "INCR"
  BY <1>1, <1>3, BeatIs DEF NextOf, next_addr, LegalBurst
<1>4. CASE x.burst = "FIXED"
  BY <1>4, BeatIs DEF NextOf, next_addr
<1> QED BY <1>2, <1>3, <1>4 DEF LegalBurst, Bursts

-----------------------------------------------------------------------------
(* The stimulus: every item is a legal transfer.                           *)

Reads ==
  {x \in [kind : {"R"}, addr : Nat, len : Nat, burst : Bursts, beats : {<<>>}] : LegalBurst(x)}
Writes ==
  {x \in [kind : {"W"}, addr : Nat, len : Nat, burst : Bursts, beats : Seq(Nat)] :
     LegalBurst(x) /\ Len(x.beats) = x.len + 1}
Multis == [kind : {"M"}, reqs : Seq(Reads) \ {<<>>}]
Items == Reads \cup Writes \cup Multis

\* 2^n, which is the number of subsets of n things, is positive.
LEMMA PowerOfTwo ==
  ASSUME NEW n \in Nat
  PROVE  2 ^ n \in Nat \ {0}
<1>1. IsFiniteSet(1 .. n) /\ Cardinality(1 .. n) = n
  BY FS_Interval
<1>2. IsFiniteSet(SUBSET (1 .. n)) /\ Cardinality(SUBSET (1 .. n)) = 2 ^ n
  BY <1>1, FS_SUBSET
<1>3. SUBSET (1 .. n) # {}
  OBVIOUS
<1> QED BY <1>2, <1>3, FS_CardinalityType, FS_EmptySet

\* The sizes of the memory and of a word are positive numbers.
LEMMA Widths == /\ ADDR_LIMIT \in Nat \ {0} /\ DATA_MASK + 1 \in Nat \ {0} /\ DATA_MASK \in Nat
                /\ 2 ^ (DATA_W - 8) \in Nat /\ 2 ^ (DATA_W - 1) \in Nat
<1>1. {MEM_ADDR_W, DATA_W, DATA_W - 8, DATA_W - 1} \subseteq Nat BY AxiSeqItemAssumption
<1>2. {2 ^ MEM_ADDR_W, 2 ^ DATA_W, 2 ^ (DATA_W - 8), 2 ^ (DATA_W - 1)} \subseteq Nat \ {0}
  BY <1>1, PowerOfTwo
<1> QED BY <1>2 DEF ADDR_LIMIT, DATA_MASK

\* The address an item is cut to is that of a whole word.
LEMMA ItemAddress ==
  ASSUME NEW a \in Int
  PROVE  /\ 4 * ((a % ADDR_LIMIT) \div 4) \in Nat
         /\ (4 * ((a % ADDR_LIMIT) \div 4)) % 4 = 0
<1>1. a % ADDR_LIMIT \in Nat BY Widths
<1> QED BY <1>1

\* A read whose burst is within AXI's rules is legal.
LEMMA ReadIsLegal ==
  ASSUME NEW a \in Int, NEW len \in Nat, NEW burst \in Bursts,
         burst = "WRAP" => len \in {1, 3, 7, 15}
  PROVE  ReadBurst(a, burst, len) \in Reads
<1> DEFINE x == ReadBurst(a, burst, len)
           at == 4 * ((a % ADDR_LIMIT) \div 4)
<1>1. x = [kind |-> "R", addr |-> at, len |-> len, burst |-> burst, beats |-> <<>>]
  BY DEF ReadBurst, Item
<1>2. at \in Nat /\ at % 4 = 0 BY ItemAddress
<1> HIDE DEF at, x
<1>3. LegalBurst(x) BY <1>1, <1>2 DEF LegalBurst
<1> QED BY <1>1, <1>2, <1>3 DEF Reads, x

\* A write whose burst is within AXI's rules is legal, and has len + 1 words.
LEMMA WriteIsLegal ==
  ASSUME NEW a \in Int, NEW burst \in Bursts, NEW beats \in Seq(Int), beats # <<>>,
         burst = "WRAP" => Len(beats) \in {2, 4, 8, 16}
  PROVE  WriteBurst(a, burst, beats) \in Writes
<1> DEFINE x == WriteBurst(a, burst, beats)
           at == 4 * ((a % ADDR_LIMIT) \div 4)
           ws == [k \in DOMAIN beats |-> beats[k] % (DATA_MASK + 1)]
<1>1. x = [kind |-> "W", addr |-> at, len |-> Len(beats) - 1, burst |-> burst, beats |-> ws]
  BY DEF WriteBurst, Item
<1>2. at \in Nat /\ at % 4 = 0 BY ItemAddress
<1>3. Len(beats) \in Nat \ {0} /\ DOMAIN beats = 1 .. Len(beats) /\ \A k \in DOMAIN beats : beats[k] \in Int
  BY EmptySeq, LenProperties, ElementOfSeq
<1>4. ws \in Seq(Nat) /\ Len(ws) = Len(beats)
  <2>1. \A k \in 1 .. Len(beats) : beats[k] % (DATA_MASK + 1) \in Nat BY <1>3, Widths
  <2>2. ws \in [1 .. Len(beats) -> Nat] BY <1>3, <2>1
  <2> QED BY <1>3, <2>2
<1> HIDE DEF at, x, ws
<1>5. LegalBurst(x)
  <2>1. x.addr = at /\ x.len = Len(beats) - 1 /\ x.burst = burst BY <1>1
  <2>2. Len(beats) - 1 \in Nat BY <1>3
  <2>3. burst = "WRAP" => Len(beats) - 1 \in {1, 3, 7, 15} OBVIOUS
  <2> QED BY <1>2, <2>1, <2>2, <2>3 DEF LegalBurst
<1> QED BY <1>1, <1>2, <1>3, <1>4, <1>5 DEF Writes, x

\* Transfers of one beat are legal.
LEMMA SingleIsLegal ==
  ASSUME NEW a \in Int, NEW d \in Int
  PROVE  Write(a, d) \in Writes /\ Read(a) \in Reads
<1>1. <<d>> \in Seq(Int) /\ <<d>> # <<>> /\ Len(<<d>>) = 1 OBVIOUS
<1>2. WriteBurst(a, "INCR", <<d>>) \in Writes BY <1>1, WriteIsLegal DEF Bursts
<1>3. Write(a, d) = WriteBurst(a, "INCR", <<d>>) BY <1>1 DEF Write, WriteBurst
<1>4. Read(a) = ReadBurst(a, "INCR", 0) BY DEF Read, ReadBurst
<1> QED BY <1>2, <1>3, <1>4, ReadIsLegal DEF Bursts

\* A function over an initial segment of the naturals is a sequence.
LEMMA SegmentIsSeq ==
  ASSUME NEW S, NEW k \in Nat, NEW f \in [1 .. k -> S]
  PROVE  f \in Seq(S)
BY SeqDef

\* A loop that writes and reads back.
LEMMA WriteThenReadLegal ==
  ASSUME NEW pairs \in Seq(Int \X Int)
  PROVE  WriteThenRead(pairs) \in Seq(Items)
<1> DEFINE n == Len(pairs)
<1>1. n \in Nat BY LenProperties
<1>2. ASSUME NEW j \in 1 .. 2 * n
      PROVE  WriteThenRead(pairs)[j] \in Items
  <2> DEFINE pair == pairs[(j + 1) \div 2]
  <2>1. (j + 1) \div 2 \in 1 .. n BY <1>1
  <2>2. pair \in Int \X Int BY <2>1, ElementOfSeq
  <2>3. Write(pair[1], pair[2]) \in Items /\ Read(pair[1]) \in Items
    BY <2>2, SingleIsLegal DEF Items
  <2> QED BY <2>3 DEF WriteThenRead
<1>3. WriteThenRead(pairs) \in [1 .. 2 * n -> Items] BY <1>2 DEF WriteThenRead
<1>4. 2 * n \in Nat BY <1>1
<1> HIDE DEF n
<1> QED BY <1>3, <1>4, SegmentIsSeq

\* Row and column of entry i of a table of m rows of n.
LEMMA PairsOf ==
  ASSUME NEW m \in Nat, NEW n \in {6, 9}, NEW i \in 1 .. m * n
  PROVE  ((i - 1) \div n) + 1 \in 1 .. m /\ ((i - 1) % n) + 1 \in 1 .. n
<1>1. CASE n = 6 BY <1>1
<1>2. CASE n = 9 BY <1>2
<1> QED BY <1>1, <1>2

\* A loop over addresses and data makes legal items.
LEMMA AllPairsLegal ==
  ASSUME NEW addrs \in Seq(Int), NEW data \in Seq(Int), Len(data) \in {6, 9}
  PROVE  AllPairs(addrs, data) \in Seq(Items)
<1> DEFINE m == Len(addrs)
           n == Len(data)
           N == m * n
           pairs == [i \in 1 .. N |-> <<addrs[((i - 1) \div n) + 1], data[((i - 1) % n) + 1]>>]
<1>1. m \in Nat /\ n \in {6, 9} /\ N \in Nat BY LenProperties
<1>2. ASSUME NEW i \in 1 .. N
      PROVE  <<addrs[((i - 1) \div n) + 1], data[((i - 1) % n) + 1]>> \in Int \X Int
  <2>1. ((i - 1) \div n) + 1 \in 1 .. m /\ ((i - 1) % n) + 1 \in 1 .. n BY <1>1, PairsOf
  <2> QED BY <2>1, ElementOfSeq
<1>3. AllPairs(addrs, data) = WriteThenRead(pairs) BY DEF AllPairs
<1> HIDE DEF N
<1>4. pairs \in [1 .. N -> Int \X Int] BY <1>2
<1> HIDE DEF pairs
<1>5. pairs \in Seq(Int \X Int) BY <1>1, <1>4, SegmentIsSeq
<1> QED BY <1>3, <1>5, WriteThenReadLegal

\* A burst written and read back makes legal items.
LEMMA BurstThenReadLegal ==
  ASSUME NEW a \in Int, NEW burst \in Bursts, NEW beats \in Seq(Int), beats # <<>>,
         burst = "WRAP" => Len(beats) \in {2, 4, 8, 16}
  PROVE  BurstThenRead(a, burst, beats) \in Seq(Items)
<1>1. WriteBurst(a, burst, beats) \in Items BY WriteIsLegal DEF Items
<1>2. Len(beats) - 1 \in Nat /\ (burst = "WRAP" => Len(beats) - 1 \in {1, 3, 7, 15}) BY EmptySeq
<1>3. ReadBurst(a, burst, Len(beats) - 1) \in Items BY <1>2, ReadIsLegal DEF Items
<1> QED BY <1>1, <1>3 DEF BurstThenRead

\* len + 1 words of data.
LEMMA BeatsLegal ==
  ASSUME NEW len \in Nat, NEW S, NEW f \in [1 .. len + 1 -> S]
  PROVE  f \in Seq(S) /\ f # <<>> /\ Len(f) = len + 1
<1>1. len + 1 \in Nat \ {0} OBVIOUS
<1> DEFINE n == len + 1
<1> HIDE DEF n
<1>2. f \in Seq(S) /\ Len(f) = n BY <1>1 DEF n
<1> QED BY <1>1, <1>2, EmptySeq DEF n

\* Bytes at the top of a word.
LEMMA ByteIsWord ==
  ASSUME NEW b \in Nat
  PROVE  Byte(b) \in Int
BY Widths DEF Byte

\* The reads of a read_multi are legal.
LEMMA MultiLegal ==
  ASSUME NEW reqs \in Seq(Nat \X Nat), reqs # <<>>
  PROVE  Multi(reqs) \in Seq(Items)
<1> DEFINE rs == [i \in DOMAIN reqs |-> ReadBurst(reqs[i][1], "INCR", reqs[i][2])]
<1>1. DOMAIN reqs = 1 .. Len(reqs) /\ Len(reqs) \in Nat \ {0} BY LenProperties, EmptySeq
<1>2. ASSUME NEW i \in 1 .. Len(reqs) PROVE ReadBurst(reqs[i][1], "INCR", reqs[i][2]) \in Reads
  <2>1. reqs[i] \in Nat \X Nat BY ElementOfSeq
  <2> QED BY <2>1, ReadIsLegal DEF Bursts
<1>3. rs \in Seq(Reads) /\ Len(rs) = Len(reqs)
  <2>1. rs \in [1 .. Len(reqs) -> Reads] BY <1>1, <1>2
  <2> QED BY <1>1, <2>1
<1>4. rs # <<>> BY <1>1, <1>3, EmptySeq
<1> HIDE DEF rs
<1>5. [kind |-> "M", reqs |-> rs] \in Items BY <1>3, <1>4 DEF Items, Multis
<1> QED BY <1>5 DEF Multi, rs

\* What is preloaded, and the read_multi after it, are legal.
LEMMA PreloadLegal ==
  ASSUME NEW reqs \in Seq(Nat \X Nat), reqs # <<>>, NEW base \in Int, NEW step \in Int
  PROVE  PreloadThenMulti(reqs, base, step) \in Seq(Items)
<1> DEFINE Val(i, k) == base + 256 * (i - 1) + step * k
           bs(i) == [k \in 1 .. reqs[i][2] + 1 |-> Val(i, k - 1)]
           ws == [i \in DOMAIN reqs |-> WriteBurst(reqs[i][1], "INCR", bs(i))]
<1>1. DOMAIN reqs = 1 .. Len(reqs) /\ Len(reqs) \in Nat BY LenProperties
<1>2. ASSUME NEW i \in 1 .. Len(reqs) PROVE WriteBurst(reqs[i][1], "INCR", bs(i)) \in Items
  <2>1. reqs[i] \in Nat \X Nat BY ElementOfSeq
  <2>2. bs(i) \in [1 .. reqs[i][2] + 1 -> Int]
    <3>1. ASSUME NEW k \in 1 .. reqs[i][2] + 1 PROVE Val(i, k - 1) \in Int
      <4>1. k - 1 \in Int /\ step * (k - 1) \in Int BY <2>1
      <4> QED BY <4>1
    <3> HIDE DEF Val
    <3> QED BY <3>1
  <2> HIDE DEF bs
  <2>3. bs(i) \in Seq(Int) /\ bs(i) # <<>> BY <2>1, <2>2, BeatsLegal
  <2> QED BY <2>1, <2>3, WriteIsLegal DEF Items, Bursts
<1>3. PreloadThenMulti(reqs, base, step) = ws \o Multi(reqs) BY DEF PreloadThenMulti, Beats
<1>4. ws \in Seq(Items)
  <2> HIDE DEF bs
  <2>1. ws \in [1 .. Len(reqs) -> Items] BY <1>1, <1>2
  <2> QED BY <1>1, <2>1
<1> HIDE DEF ws
<1> QED BY <1>3, <1>4, MultiLegal, ConcatProperties

\* Beats with a value for each k is a sequence of words.
LEMMA WriteReadLegal == AxiWriteReadSeq \subseteq Seq(Items)
<1>1. RandAddrs \subseteq Int /\ RandData \subseteq Int /\ Num \in Nat
  BY AxiSequencesAssumption, Widths DEF rand_word_addrs, WORD_ADDRS
<1>2. ASSUME NEW c \in [1 .. Num -> RandAddrs \X RandData] PROVE WriteThenRead(c) \in Seq(Items)
  <2>1. c \in [1 .. Num -> Int \X Int] BY <1>1
  <2>2. c \in Seq(Int \X Int) BY <1>1, <2>1
  <2> QED BY <2>2, WriteThenReadLegal
<1> QED BY <1>2 DEF AxiWriteReadSeq

\* The items of the random body are legal.
LEMMA RandomLegal == AxiRandomSeq \subseteq Seq(Items)
<1>1. RandAddrs \subseteq Int /\ RandData \subseteq Int /\ Num \in Nat
  BY AxiSequencesAssumption, Widths DEF rand_word_addrs, WORD_ADDRS
<1> DEFINE items == {Write(a, d) : a \in RandAddrs, d \in RandData} \cup {Read(a) : a \in RandAddrs}
<1>2. items \subseteq Items BY <1>1, SingleIsLegal DEF Items
<1>3. AxiRandomSeq = [1 .. Num -> items] BY DEF AxiRandomSeq
<1> HIDE DEF items
<1>4. [1 .. Num -> items] \subseteq [1 .. Num -> Items] BY <1>2
<1>5. [1 .. Num -> Items] \subseteq Seq(Items) BY <1>1
<1> QED BY <1>3, <1>4, <1>5

\* What BurstThenRead makes of a burst of len + 1 words, each a number.
LEMMA BurstOfLegal ==
  ASSUME NEW a \in Int, NEW burst \in Bursts, NEW len \in {1, 3, 7, 15}, NEW f \in [1 .. len + 1 -> Int]
  PROVE  BurstThenRead(a, burst, f) \in Seq(Items)
<1>1. f \in Seq(Int) /\ f # <<>> /\ Len(f) = len + 1 BY BeatsLegal
<1>2. Len(f) \in {2, 4, 8, 16} BY <1>1
<1> QED BY <1>1, <1>2, BurstThenReadLegal

\* The items of the burst body are legal.
LEMMA BurstLegal == AxiBurstSeq \subseteq Seq(Items)
<1> DEFINE blens == <<1, 3, 7, 15>>
           incr(i) == BurstThenRead(8192 + 64 * (i - 1), "INCR",
                        [k \in 1 .. blens[i] + 1 |-> Byte(160) + 16 * (i - 1) + 17 * (k - 1)])
           wrap(i) == BurstThenRead(256 + 4 * (i - 1), "WRAP",
                        [k \in 1 .. blens[i] + 1 |-> Byte(176) + 16 * (i - 1) + 7 * (k - 1)])
           fixed == BurstThenRead(64, "FIXED", [k \in 1 .. 3 + 1 |-> Byte(240) + (k - 1)])
<1>1. AxiBurstSeq = {incr(1) \o incr(2) \o incr(3) \o incr(4)
                       \o wrap(1) \o wrap(2) \o wrap(3) \o wrap(4) \o fixed}
  BY DEF AxiBurstSeq, Beats
<1>2. Byte(160) \in Int /\ Byte(176) \in Int /\ Byte(240) \in Int BY ByteIsWord
<1>3. ASSUME NEW i \in 1 .. 4 PROVE incr(i) \in Seq(Items) /\ wrap(i) \in Seq(Items)
  <2> DEFINE len == blens[i]
  <2>1. len \in {1, 3, 7, 15} OBVIOUS
  <2> HIDE DEF len
  <2> DEFINE f == [k \in 1 .. len + 1 |-> Byte(160) + 16 * (i - 1) + 17 * (k - 1)]
             g == [k \in 1 .. len + 1 |-> Byte(176) + 16 * (i - 1) + 7 * (k - 1)]
             a == 8192 + 64 * (i - 1)
             b == 256 + 4 * (i - 1)
  <2>2. f \in [1 .. len + 1 -> Int] /\ g \in [1 .. len + 1 -> Int] BY <1>2, <2>1
  <2>3. a \in Int /\ b \in Int /\ {"INCR", "WRAP"} \subseteq Bursts BY DEF Bursts
  <2>4. incr(i) = BurstThenRead(a, "INCR", f) /\ wrap(i) = BurstThenRead(b, "WRAP", g) BY DEF len
  <2> HIDE DEF f, g, a, b, incr, wrap
  <2>5. BurstThenRead(a, "INCR", f) \in Seq(Items) /\ BurstThenRead(b, "WRAP", g) \in Seq(Items)
    BY <2>1, <2>2, <2>3, BurstOfLegal
  <2> QED BY <2>4, <2>5
<1>4. fixed \in Seq(Items)
  <2>1. [k \in 1 .. 3 + 1 |-> Byte(240) + (k - 1)] \in [1 .. 3 + 1 -> Int] BY <1>2
  <2> QED BY <2>1, BurstOfLegal DEF Bursts
<1> HIDE DEF incr, wrap, fixed
<1>5. incr(1) \o incr(2) \o incr(3) \o incr(4)
        \o wrap(1) \o wrap(2) \o wrap(3) \o wrap(4) \o fixed \in Seq(Items)
  <2>1. /\ incr(1) \in Seq(Items) /\ incr(2) \in Seq(Items) /\ incr(3) \in Seq(Items)
        /\ incr(4) \in Seq(Items) /\ wrap(1) \in Seq(Items) /\ wrap(2) \in Seq(Items)
        /\ wrap(3) \in Seq(Items) /\ wrap(4) \in Seq(Items)
    BY <1>3
  <2> QED BY <1>4, <2>1, ConcatProperties
<1> QED BY <1>1, <1>5

\* The items of the overlapping reads are legal.
LEMMA MultiReadLegal == AxiMultiReadSeq \subseteq Seq(Items)
<1> DEFINE reqs == <<<<2048, 0>>, <<2112, 3>>, <<2176, 1>>, <<2240, 7>>, <<2304, 0>>>>
<1>1. reqs \in Seq(Nat \X Nat) /\ reqs # <<>> OBVIOUS
<1>2. Byte(192) \in Int /\ 19 \in Int BY ByteIsWord
<1> HIDE DEF reqs
<1>3. PreloadThenMulti(reqs, Byte(192), 19) \in Seq(Items) BY <1>1, <1>2, PreloadLegal
<1> QED BY <1>3 DEF AxiMultiReadSeq, reqs

\* The constants of the directed data are numbers.
LEMMA Words ==
  {TopBit, DATA_MASK, ALT_5, ALT_A, Other, ADDR_LIMIT, LAST_WORD, Third} \subseteq Int
<1>1. ALT_5 \in Nat BY Widths DEF ALT_5
<1>2. ALT_A \in Nat BY <1>1, Widths DEF ALT_A
<1>3. Other \in Int BY ByteIsWord DEF Other
<1>4. Third \in Int BY Widths DEF Third
<1> QED BY <1>1, <1>2, <1>3, <1>4, Widths DEF TopBit, LAST_WORD

\* The items of the walking body are legal.
LEMMA WalkingLegal == AxiWalkingSeq \subseteq Seq(Items)
<1> DEFINE addrs == <<0, 4, ADDR_LIMIT - 8, ADDR_LIMIT - 4>>
           data == <<0, 1, TopBit, DATA_MASK - 1, TopBit - 1, ALT_5, ALT_A, DATA_MASK, Other>>
<1>1. addrs \in Seq(Int) BY Words
<1>2. data \in Seq(Int) /\ Len(data) = 9 BY Words
<1> HIDE DEF addrs, data
<1> QED BY <1>1, <1>2, AllPairsLegal DEF AxiWalkingSeq, addrs, data

\* The sample address of a region is a number.
LEMMA SampleIsAddress ==
  ASSUME NEW g \in {"low", "mid", "high"}
  PROVE  region_sample_addr(g) \in Nat
<1>1. Third \in Nat /\ ADDR_LIMIT \in Nat \ {0} BY Widths DEF Third
<1>2. ADDR_REGIONS[g] \in {<<0, Third - 1>>, <<Third, 2 * Third - 1>>, <<2 * Third, ADDR_LIMIT - 1>>}
  BY DEF ADDR_REGIONS
<1>3. ADDR_REGIONS[g][1] + ADDR_REGIONS[g][2] + 1 \in Nat BY <1>1, <1>2
<1> QED BY <1>3 DEF region_sample_addr

\* The items of the coverage closure are legal.
LEMMA CoverageCloseLegal == AxiCoverageCloseSeq \subseteq Seq(Items)
<1> DEFINE addrs == [g \in 1 .. 3 |-> region_sample_addr(<<"low", "mid", "high">>[g])]
           beats(len) == [k \in 1 .. len + 1 |-> Byte(81) + 65536 * len + 257 * (k - 1)]
           base == 256 * (region_sample_addr("high") \div 256)
           lo == region_sample_addr("low") + 64
           mi == region_sample_addr("mid") + 128
           reqs == <<<<base, 0>>, <<base + 64, 3>>, <<base + 128, 1>>>>
<1>1. AxiCoverageCloseSeq = {AllPairs(addrs \o <<0, LAST_WORD>>, PATTERNS)
                               \o BurstThenRead(lo, "INCR", beats(3))
                               \o BurstThenRead(mi, "INCR", beats(15))
                               \o PreloadThenMulti(reqs, Byte(92), 23)}
  BY DEF AxiCoverageCloseSeq, Beats
<1>2. lo \in Int /\ mi \in Int /\ base \in Nat BY SampleIsAddress
<1>3. \A g \in 1 .. 3 : region_sample_addr(<<"low", "mid", "high">>[g]) \in Int
  BY SampleIsAddress
<1>4. addrs \o <<0, LAST_WORD>> \in Seq(Int)
  <2>1. addrs \in [1 .. 3 -> Int] BY <1>3
  <2>2. addrs \in Seq(Int) BY <2>1
  <2>3. <<0, LAST_WORD>> \in Seq(Int) BY Words
  <2> QED BY <2>2, <2>3, ConcatProperties
<1>5. PATTERNS \in Seq(Int) /\ Len(PATTERNS) = 6 BY Words DEF PATTERNS
<1>6. beats(3) \in [1 .. 3 + 1 -> Int] /\ beats(15) \in [1 .. 15 + 1 -> Int] BY ByteIsWord
<1>7. reqs \in Seq(Nat \X Nat) /\ reqs # <<>> BY <1>2
<1> HIDE DEF addrs, beats, base, lo, mi, reqs
<1>8. AllPairs(addrs \o <<0, LAST_WORD>>, PATTERNS) \in Seq(Items) BY <1>4, <1>5, AllPairsLegal
<1>9. BurstThenRead(lo, "INCR", beats(3)) \in Seq(Items) /\ BurstThenRead(mi, "INCR", beats(15)) \in Seq(Items)
  BY <1>2, <1>6, BurstOfLegal DEF Bursts
<1>10. PreloadThenMulti(reqs, Byte(92), 23) \in Seq(Items) BY <1>7, PreloadLegal, ByteIsWord
<1> DEFINE all == AllPairs(addrs \o <<0, LAST_WORD>>, PATTERNS)
           one == BurstThenRead(lo, "INCR", beats(3))
           two == BurstThenRead(mi, "INCR", beats(15))
           three == PreloadThenMulti(reqs, Byte(92), 23)
<1> HIDE DEF all, one, two, three
<1>11. all \o one \o two \o three \in Seq(Items)
  BY <1>8, <1>9, <1>10, ConcatProperties DEF all, one, two, three
<1> QED BY <1>1, <1>11 DEF all, one, two, three

\* Every item a sequence can make is a legal transfer.
LEMMA StimulusLegal ==
  ASSUME NEW t \in DOMAIN Stimulus
  PROVE  Stimulus[t] \subseteq Seq(Items)
BY WriteReadLegal, RandomLegal, BurstLegal, MultiReadLegal, WalkingLegal, CoverageCloseLegal DEF Stimulus

-----------------------------------------------------------------------------
(* The scoreboard: the memory the reports make, and what it compares.      *)

Reports == [wr : BOOLEAN, addr : Nat, data : Nat, len : Nat, outstanding : Nat]

\* A set of indices has a largest one.
LEMMA Largest ==
  ASSUME NEW n \in Nat, NEW S \in SUBSET (1 .. n), S # {}
  PROVE  Max(S) \in S /\ \A y \in S : y <= Max(S)
<1> DEFINE T == {n - i : i \in S}
           Rel == {p \in Nat \X Nat : p[1] < p[2]}
<1>1. IsWellFoundedOn(Rel, Nat)
  BY NatLessThanWellFounded DEF OpToRel
<1>2. T \subseteq Nat /\ T # {}
  <2>1. \A i \in S : n - i \in Nat OBVIOUS
  <2> QED BY <2>1
<1>3. \A x, y \in Nat : <<y, x>> \in Rel <=> y < x OBVIOUS
<1> HIDE DEF Rel
<1>4. PICK t \in T : \A y \in T : ~(<<y, t>> \in Rel)
  BY <1>1, <1>2, WFMin
<1>5. PICK i \in S : t = n - i BY <1>4
<1>6. \A y \in S : y <= i
  <2> SUFFICES ASSUME NEW y \in S PROVE y <= i OBVIOUS
  <2>1. n - y \in T OBVIOUS
  <2>2. ~(n - y < t) BY <1>2, <1>3, <1>4, <2>1
  <2> QED BY <1>5, <2>2
<1>7. \E x \in S : \A y \in S : x >= y BY <1>6
<1> DEFINE m == CHOOSE x \in S : \A y \in S : x >= y
<1>8. m \in S /\ \A y \in S : m >= y BY <1>7
<1>9. Max(S) = m BY DEF Max
<1> HIDE DEF m
<1> QED BY <1>8, <1>9

\* There is only one.
LEMMA LargestIs ==
  ASSUME NEW n \in Nat, NEW S \in SUBSET (1 .. n), NEW m \in S, \A y \in S : y <= m
  PROVE  Max(S) = m
<1>1. Max(S) \in S /\ \A y \in S : y <= Max(S) BY Largest
<1>2. m <= Max(S) BY <1>1
<1>3. Max(S) <= m BY <1>1
<1>4. m \in Int /\ Max(S) \in Int
  <2>1. S \subseteq Int OBVIOUS
  <2> QED BY <1>1, <2>1
<1> QED BY <1>2, <1>3, <1>4

\* Reports of writes f that follow the reports s: those of the beats of r.
WritesOf(f, r) ==
  /\ f \in Seq(Reports)
  /\ r.w \in Seq(Nat) /\ Len(f) = Len(r.w)
  /\ \A i \in 1 .. Len(f) : f[i].wr /\ f[i].addr = Beat(r, i - 1) /\ f[i].data = r.w[i]

\* The reports of a write change the scoreboard's memory as the write changes the design's.
LEMMA ModelAfterWrites ==
  ASSUME NEW s \in Seq(Reports), NEW r, NEW f, WritesOf(f, r)
  PROVE  Model(s \o f) = Committed(Model(s), r)
<1> DEFINE n == Len(s)
           t == s \o f
<1>1. /\ n \in Nat /\ DOMAIN s = 1 .. n /\ Len(f) \in Nat /\ DOMAIN f = 1 .. Len(f)
      /\ DOMAIN r.w = 1 .. Len(f) /\ f \in Seq(Reports)
  BY LenProperties DEF WritesOf
<1>2. /\ t \in Seq(Reports) /\ DOMAIN t = 1 .. n + Len(f)
      /\ \A i \in 1 .. n : t[i] = s[i]
      /\ \A i \in 1 .. Len(f) : n + i \in DOMAIN t /\ t[n + i] = f[i]
      /\ \A i \in DOMAIN t : i \in 1 .. n \/ \E k \in 1 .. Len(f) : i = n + k
  <2>1. /\ t \in Seq(Reports) /\ Len(t) = n + Len(f)
        /\ \A i \in 1 .. n + Len(f) : t[i] = IF i <= n THEN s[i] ELSE f[i - n]
    BY <1>1, ConcatProperties
  <2>2. DOMAIN t = 1 .. n + Len(f) BY <2>1, LenProperties
  <2> HIDE DEF t, n
  <2>3. \A i \in 1 .. Len(f) : n + i \in 1 .. n + Len(f) /\ ~(n + i <= n) /\ (n + i) - n = i
    BY <1>1
  <2>4. \A i \in 1 .. n + Len(f) : i \in 1 .. n \/ (i - n \in 1 .. Len(f) /\ i = n + (i - n))
    BY <1>1
  <2>5. \A i \in 1 .. n : i \in 1 .. n + Len(f) /\ i <= n BY <1>1
  <2>6. \A i \in DOMAIN t : i \in 1 .. n \/ \E k \in 1 .. Len(f) : i = n + k BY <2>2, <2>4
  <2> QED BY <2>1, <2>2, <2>3, <2>5, <2>6
<1>3. ASSUME NEW a
      PROVE  WritesTo(t, a) = WritesTo(s, a) \cup {n + k : k \in BeatsTo(r, a)}
  <2>1. BeatsTo(r, a) = {k \in 1 .. Len(f) : f[k].addr = a}
    BY <1>1 DEF BeatsTo, WritesOf
  <2>2. \A k \in 1 .. Len(f) : f[k].wr BY DEF WritesOf
  <2> HIDE DEF t
  <2>3. \A i \in 1 .. n : i \in DOMAIN t BY <1>1, <1>2
  <2>4. ASSUME NEW i \in WritesTo(t, a) PROVE i \in WritesTo(s, a) \cup {n + k : k \in BeatsTo(r, a)}
    <3>1. i \in DOMAIN t /\ t[i].wr /\ t[i].addr = a BY <2>4 DEF WritesTo
    <3>2. CASE i \in 1 .. n BY <1>1, <1>2, <3>1, <3>2 DEF WritesTo
    <3>3. CASE \E k \in 1 .. Len(f) : i = n + k BY <1>2, <2>1, <3>1, <3>3
    <3> QED BY <1>2, <3>1, <3>2, <3>3
  <2>5. ASSUME NEW i \in WritesTo(s, a) PROVE i \in WritesTo(t, a)
    BY <1>1, <1>2, <2>3, <2>5 DEF WritesTo
  <2>6. ASSUME NEW k \in BeatsTo(r, a) PROVE n + k \in WritesTo(t, a)
    BY <1>2, <2>1, <2>2, <2>6 DEF WritesTo
  <2> QED BY <2>4, <2>5, <2>6
<1>4. {t[i].addr : i \in {j \in DOMAIN t : t[j].wr}}
        = {s[i].addr : i \in {j \in DOMAIN s : s[j].wr}} \cup {Beat(r, k - 1) : k \in DOMAIN r.w}
  <2> HIDE DEF t
  <2>1. \A k \in 1 .. Len(f) : f[k].wr /\ f[k].addr = Beat(r, k - 1) BY DEF WritesOf
  <2>2. ASSUME NEW i \in DOMAIN t, t[i].wr
        PROVE  t[i].addr \in {s[j].addr : j \in {j \in DOMAIN s : s[j].wr}}
                             \cup {Beat(r, k - 1) : k \in DOMAIN r.w}
    <3>1. CASE i \in 1 .. n BY <1>1, <1>2, <2>2, <3>1
    <3>2. ASSUME NEW k \in 1 .. Len(f), i = n + k
          PROVE  t[i].addr \in {Beat(r, j - 1) : j \in DOMAIN r.w}
      <4>1. t[i] = f[k] BY <1>2, <3>2
      <4> QED BY <1>1, <2>1, <4>1
    <3> QED BY <1>2, <3>1, <3>2
  <2>3. ASSUME NEW i \in DOMAIN s, s[i].wr PROVE s[i].addr \in {t[j].addr : j \in {j \in DOMAIN t : t[j].wr}}
    <3>1. i \in 1 .. n /\ t[i] = s[i] /\ i \in DOMAIN t BY <1>1, <1>2
    <3> QED BY <2>3, <3>1
  <2>4. ASSUME NEW k \in DOMAIN r.w PROVE Beat(r, k - 1) \in {t[j].addr : j \in {j \in DOMAIN t : t[j].wr}}
    <3>1. k \in 1 .. Len(f) /\ n + k \in DOMAIN t /\ t[n + k] = f[k] BY <1>1, <1>2
    <3> QED BY <2>1, <3>1
  <2> QED BY <2>2, <2>3, <2>4
<1>5. ASSUME NEW a \in {t[i].addr : i \in {j \in DOMAIN t : t[j].wr}}
      PROVE  t[Max(WritesTo(t, a))].data =
               IF BeatsTo(r, a) = {} THEN Model(s)[a] ELSE r.w[Max(BeatsTo(r, a))]
  <2> HIDE DEF t, n
  <2>1. WritesTo(s, a) \subseteq 1 .. n /\ BeatsTo(r, a) \subseteq 1 .. Len(f)
    BY <1>1 DEF WritesTo, BeatsTo
  <2>2. CASE BeatsTo(r, a) = {}
    <3>1. WritesTo(t, a) = WritesTo(s, a) BY <1>3, <2>2
    <3>2. a \notin {Beat(r, k - 1) : k \in DOMAIN r.w} BY <2>2 DEF BeatsTo
    <3>3. a \in {s[i].addr : i \in {j \in DOMAIN s : s[j].wr}} BY <1>4, <3>2
    <3>4. WritesTo(s, a) # {} BY <3>3 DEF WritesTo
    <3>5. Max(WritesTo(s, a)) \in 1 .. n BY <1>1, <2>1, <3>4, Largest
    <3> QED BY <1>2, <2>2, <3>1, <3>3, <3>5 DEF Model
  <2>3. CASE BeatsTo(r, a) # {}
    <3> DEFINE m == Max(BeatsTo(r, a))
    <3>1. m \in BeatsTo(r, a) /\ \A y \in BeatsTo(r, a) : y <= m BY <1>1, <2>1, <2>3, Largest
    <3> HIDE DEF m
    <3>2. m \in 1 .. Len(f) BY <2>1, <3>1
    <3>3. n + m \in WritesTo(t, a) BY <1>3, <3>1
    <3>4. \A y \in WritesTo(t, a) : y <= n + m
      <4>1. \A y \in WritesTo(s, a) : y <= n + m BY <1>1, <2>1, <3>2
      <4>2. \A k \in BeatsTo(r, a) : n + k <= n + m BY <1>1, <2>1, <3>1
      <4> QED BY <1>3, <4>1, <4>2
    <3>5. WritesTo(t, a) \subseteq 1 .. n + Len(f) BY <1>2 DEF WritesTo
    <3>6. Max(WritesTo(t, a)) = n + m
      <4>1. n + Len(f) \in Nat BY <1>1
      <4> QED BY <3>3, <3>4, <3>5, <4>1, LargestIs
    <3>7. t[n + m].data = r.w[m] BY <1>2, <3>2 DEF WritesOf
    <3> QED BY <2>3, <3>6, <3>7 DEF m
  <2> QED BY <2>2, <2>3
<1> HIDE DEF t
<1>6. DOMAIN Model(s) = {s[i].addr : i \in {j \in DOMAIN s : s[j].wr}} BY DEF Model
<1>7. Model(t) = Committed(Model(s), r)
  BY <1>4, <1>5, <1>6 DEF Model, Committed
<1> QED BY <1>7 DEF t

\* The report of a read leaves the scoreboard's memory alone.
LEMMA ModelAfterRead ==
  ASSUME NEW s \in Seq(Reports), NEW rd \in Reports, ~rd.wr
  PROVE  Model(Append(s, rd)) = Model(s)
<1> DEFINE n == Len(s)
           t == Append(s, rd)
<1>1. n \in Nat /\ DOMAIN s = 1 .. n BY LenProperties
<1>2. /\ DOMAIN t = 1 .. n + 1
      /\ \A i \in 1 .. n : t[i] = s[i]
      /\ t[n + 1] = rd
  BY <1>1, AppendProperties, LenProperties
<1> HIDE DEF t, n
<1>3. {j \in DOMAIN t : t[j].wr} = {j \in DOMAIN s : s[j].wr} BY <1>1, <1>2
<1>4. \A a : WritesTo(t, a) = WritesTo(s, a) BY <1>1, <1>2 DEF WritesTo
<1>5. {t[i].addr : i \in {j \in DOMAIN t : t[j].wr}} = {s[i].addr : i \in {j \in DOMAIN s : s[j].wr}}
  BY <1>1, <1>2, <1>3
<1>6. ASSUME NEW a \in {s[i].addr : i \in {j \in DOMAIN s : s[j].wr}}
      PROVE  t[Max(WritesTo(t, a))] = s[Max(WritesTo(s, a))]
  <2>1. WritesTo(s, a) # {} /\ WritesTo(s, a) \subseteq 1 .. n BY <1>1 DEF WritesTo
  <2>2. Max(WritesTo(s, a)) \in 1 .. n BY <1>1, <2>1, Largest
  <2> QED BY <1>2, <1>4, <2>2
<1> QED BY <1>5, <1>6 DEF Model, t

\* What has been compared stays as it was.
LEMMA PrefixStays ==
  ASSUME NEW s \in Seq(Reports), NEW f \in Seq(Reports), NEW i \in 1 .. Len(s)
  PROVE  (s \o f)[i] = s[i] /\ SubSeq(s \o f, 1, i - 1) = SubSeq(s, 1, i - 1)
<1>1. Len(s) \in Nat /\ Len(f) \in Nat BY LenProperties
<1>2. (s \o f)[i] = s[i]
  <2>1. i \in 1 .. Len(s) + Len(f) /\ i <= Len(s) BY <1>1
  <2> QED BY <2>1, ConcatProperties
<1>3. CASE i = 1
  <2>1. SubSeq(s \o f, 1, 0) = <<>> /\ SubSeq(s, 1, 0) = <<>> BY SubSeqEmpty
  <2> QED BY <1>2, <1>3, <2>1
<1>4. CASE i # 1
  <2>1. i - 1 \in 1 .. Len(s) /\ 1 \in 1 .. Len(s) BY <1>1, <1>4
  <2> QED BY <1>2, <2>1, SubSeqOfConcat1
<1> QED BY <1>3, <1>4

\* After the reports of a write what matched still does.
LEMMA MatchAfterWrites ==
  ASSUME NEW s \in Seq(Reports), Mismatches(s) = {}, NEW r, NEW f, WritesOf(f, r)
  PROVE  Mismatches(s \o f) = {}
<1>1. f \in Seq(Reports) /\ Len(s) \in Nat /\ Len(f) \in Nat BY LenProperties DEF WritesOf
<1> SUFFICES ASSUME NEW i \in Mismatches(s \o f) PROVE FALSE OBVIOUS
<1>2. DOMAIN (s \o f) = 1 .. Len(s) + Len(f) BY <1>1, ConcatProperties, LenProperties
<1>3. i \in 1 .. Len(s) + Len(f) /\ ~(s \o f)[i].wr BY <1>2 DEF Mismatches
<1>4. CASE i \in 1 .. Len(s)
  <2>1. i \in DOMAIN s BY <1>4, LenProperties
  <2>2. i \in Mismatches(s) BY <1>1, <1>4, <2>1, PrefixStays DEF Mismatches
  <2> QED BY <2>2
<1>5. CASE i \notin 1 .. Len(s)
  <2>1. ~(i <= Len(s)) /\ i - Len(s) \in 1 .. Len(f) BY <1>1, <1>3, <1>5
  <2>2. (s \o f)[i] = f[i - Len(s)] BY <1>1, <1>3, <2>1, ConcatProperties
  <2> QED BY <1>3, <2>1, <2>2 DEF WritesOf
<1> QED BY <1>4, <1>5

\* After the report of a read with the scoreboard's word, everything still matches.
LEMMA MatchAfterRead ==
  ASSUME NEW s \in Seq(Reports), Mismatches(s) = {}, NEW rd \in Reports,
         rd.data = Word(Model(s), rd.addr)
  PROVE  Mismatches(Append(s, rd)) = {}
<1>1. Append(s, rd) = s \o <<rd>> /\ <<rd>> \in Seq(Reports) /\ Len(s) \in Nat
  BY AppendIsConcat, LenProperties
<1> SUFFICES ASSUME NEW i \in Mismatches(Append(s, rd)) PROVE FALSE OBVIOUS
<1>2. DOMAIN Append(s, rd) = 1 .. Len(s) + 1 BY <1>1, AppendProperties, LenProperties
<1>3. i \in 1 .. Len(s) + 1 BY <1>2 DEF Mismatches
<1>4. CASE i \in 1 .. Len(s)
  <2>1. i \in DOMAIN s BY <1>4, LenProperties
  <2>2. (s \o <<rd>>)[i] = s[i] /\ SubSeq(s \o <<rd>>, 1, i - 1) = SubSeq(s, 1, i - 1)
    BY <1>1, <1>4, PrefixStays
  <2>3. i \in Mismatches(s) BY <1>1, <2>1, <2>2 DEF Mismatches
  <2> QED BY <2>3
<1>5. CASE i = Len(s) + 1
  <2>1. Append(s, rd)[i] = rd BY <1>5, AppendProperties
  <2>2. SubSeq(Append(s, rd), 1, i - 1) = s
    <3>1. i - 1 = Len(s) BY <1>1, <1>5
    <3>2. SubSeq(s \o <<rd>>, 1, Len(s)) = s
      <4>1. CASE Len(s) = 0
        <5>1. s = <<>> BY <4>1, EmptySeq
        <5>2. SubSeq(s \o <<rd>>, 1, 0) = <<>> BY SubSeqEmpty
        <5> QED BY <4>1, <5>1, <5>2
      <4>2. CASE Len(s) # 0
        <5>1. 1 \in 1 .. Len(s) /\ Len(s) \in 1 .. Len(s) BY <1>1, <4>2
        <5>2. SubSeq(s \o <<rd>>, 1, Len(s)) = SubSeq(s, 1, Len(s)) BY <1>1, <5>1, SubSeqOfConcat1
        <5> QED BY <5>2, SubSeqFull
      <4> QED BY <4>1, <4>2
    <3> QED BY <1>1, <3>1, <3>2
  <2>3. rd.data # Word(Model(s), rd.addr) BY <2>1, <2>2 DEF Mismatches
  <2> QED BY <2>3
<1> QED BY <1>1, <1>3, <1>4, <1>5

\* Words of the memory are numbers.
Numbers(mem) == \A a \in DOMAIN mem : mem[a] \in Nat

\* A write leaves numbers in the memory.
LEMMA CommittedNumbers ==
  ASSUME NEW mem, Numbers(mem), NEW r, r.w \in Seq(Nat)
  PROVE  Numbers(Committed(mem, r))
<1> SUFFICES ASSUME NEW a \in DOMAIN Committed(mem, r) PROVE Committed(mem, r)[a] \in Nat
  BY DEF Numbers
<1>1. a \in DOMAIN mem \cup {Beat(r, k - 1) : k \in DOMAIN r.w} BY DEF Committed
<1>2. Committed(mem, r)[a] = IF BeatsTo(r, a) = {} THEN mem[a] ELSE r.w[Max(BeatsTo(r, a))]
  BY <1>1 DEF Committed
<1>4. CASE BeatsTo(r, a) = {}
  <2>1. a \in DOMAIN mem BY <1>1, <1>4 DEF BeatsTo
  <2> QED BY <1>2, <1>4, <2>1 DEF Numbers
<1>3. CASE BeatsTo(r, a) # {}
  <2>1. BeatsTo(r, a) \subseteq 1 .. Len(r.w) /\ Len(r.w) \in Nat BY LenProperties DEF BeatsTo
  <2>2. Max(BeatsTo(r, a)) \in 1 .. Len(r.w) BY <1>3, <2>1, Largest
  <2>3. r.w[Max(BeatsTo(r, a))] \in Nat BY <2>2, ElementOfSeq
  <2> QED BY <1>2, <1>3, <2>3
<1> QED BY <1>3, <1>4

-----------------------------------------------------------------------------
(* What is in hand, on the two sides of the bus.                           *)

Entries ==
  [kind : {"R", "W"}, addr : Nat, len : Nat, burst : Bursts, w : Seq(Nat), sent : Nat]
Contexts == [cur : Nat, item : Reads, rem : Nat]

WriteEntry(x, j) == [kind |-> "W", addr |-> x.addr, len |-> x.len, burst |-> x.burst,
                     w |-> [i \in 1 .. j |-> x.beats[i]], sent |-> 0]
ReadEntry(x, s) == [kind |-> "R", addr |-> x.addr, len |-> x.len, burst |-> x.burst,
                    w |-> <<>>, sent |-> s]
Context(x, s) == [cur |-> Beat(x, s), item |-> x, rem |-> (x.len + 1) - s]

\* What the monitor keeps of a write with j of its beats taken.
Collected(x, j) ==
  [aw |-> x, w_cur |-> Beat(x, j),
   w_pending |-> [i \in 1 .. j |-> <<Beat(x, i - 1), x.beats[i]>>], ar_q |-> <<>>]

\* The write x is in hand, j of its beats taken.
Writing(x, j) == sub.q = <<WriteEntry(x, j)>> /\ mon = Collected(x, j)

\* The reads xs are in hand, s beats of the first delivered.
Sofar(i, s) == IF i = 1 THEN s ELSE 0
Reading(xs, s) ==
  /\ sub.q = [i \in DOMAIN xs |-> ReadEntry(xs[i], Sofar(i, s))]
  /\ mon.ar_q = [i \in DOMAIN xs |-> Context(xs[i], Sofar(i, s))]
  /\ mon.w_pending = <<>>
  /\ xs # <<>> => s \in 0 .. xs[1].len

Empty == sub.q = <<>> /\ mon.ar_q = <<>> /\ mon.w_pending = <<>>

MonShape == mon = [aw |-> mon.aw, w_cur |-> mon.w_cur, w_pending |-> mon.w_pending, ar_q |-> mon.ar_q]
Shaped == sub.q \in Seq(Entries) /\ mon.w_pending \in Seq(Nat \X Nat) /\ mon.ar_q \in Seq(Contexts)

\* A response is that of the oldest request, a B only once its beats are all there.
Answers ==
  /\ sub.bvalid => sub.q # <<>> /\ sub.q[1].kind = "W" /\ Filling(sub.q) = {}
  /\ sub.rvalid => sub.q # <<>> /\ sub.q[1].kind = "R"

\* What a read is made of.
LEMMA ReadFields ==
  ASSUME NEW x \in Reads
  PROVE  /\ LegalBurst(x) /\ x.kind = "R" /\ x.beats = <<>>
         /\ x.addr \in Nat /\ x.len \in Nat /\ x.burst \in Bursts
BY DEF Reads

\* What a write is made of.
LEMMA WriteFields ==
  ASSUME NEW x \in Writes
  PROVE  /\ LegalBurst(x) /\ x.kind = "W" /\ x.addr \in Nat /\ x.len \in Nat /\ x.burst \in Bursts
         /\ x.beats \in Seq(Nat) /\ Len(x.beats) = x.len + 1
         /\ \A i \in 1 .. x.len + 1 : x.beats[i] \in Nat
<1>1. /\ LegalBurst(x) /\ x.kind = "W" /\ x.addr \in Nat /\ x.len \in Nat /\ x.burst \in Bursts
      /\ x.beats \in Seq(Nat) /\ Len(x.beats) = x.len + 1
  BY DEF Writes
<1> QED BY <1>1, ElementOfSeq

\* The j beats of a write taken so far are words at the addresses of its burst.
LEMMA TakenTyped ==
  ASSUME NEW x \in Writes, NEW j \in 0 .. x.len + 1
  PROVE  /\ [i \in 1 .. j |-> x.beats[i]] \in Seq(Nat)
         /\ Len([i \in 1 .. j |-> x.beats[i]]) = j
         /\ [i \in 1 .. j |-> <<Beat(x, i - 1), x.beats[i]>>] \in Seq(Nat \X Nat)
         /\ Len([i \in 1 .. j |-> <<Beat(x, i - 1), x.beats[i]>>]) = j
         /\ WriteEntry(x, j) \in Entries
<1>1. x.len \in Nat /\ j \in Nat /\ LegalBurst(x) BY WriteFields
<1>2. \A i \in 1 .. j : x.beats[i] \in Nat BY <1>1, WriteFields
<1>3. \A i \in 1 .. j : Beat(x, i - 1) \in Nat
  <2>1. \A i \in 1 .. j : i - 1 \in Nat BY <1>1
  <2> QED BY <1>1, <2>1, BeatIsAddress
<1>4. [i \in 1 .. j |-> x.beats[i]] \in [1 .. j -> Nat] BY <1>2
<1>5. [i \in 1 .. j |-> <<Beat(x, i - 1), x.beats[i]>>] \in [1 .. j -> Nat \X Nat] BY <1>2, <1>3
<1>6. [i \in 1 .. j |-> x.beats[i]] \in Seq(Nat) BY <1>1, <1>4
<1>7. WriteEntry(x, j) \in Entries BY <1>6, WriteFields DEF WriteEntry, Entries
<1> QED BY <1>1, <1>4, <1>5, <1>6, <1>7

\* With a write in hand, the queues of the design and of the monitor hold what they should.
LEMMA WritingShaped ==
  ASSUME NEW x \in Writes, NEW j \in 0 .. x.len + 1, Writing(x, j)
  PROVE  Shaped /\ MonShape
<1>1. sub.q \in Seq(Entries) BY TakenTyped DEF Writing
<1>2. mon.w_pending \in Seq(Nat \X Nat) BY TakenTyped DEF Writing, Collected
<1>3. mon.ar_q = <<>> /\ MonShape BY DEF Writing, Collected, MonShape
<1> QED BY <1>1, <1>2, <1>3 DEF Shaped

\* The queue and the open reads, when the reads xs are in hand, s beats of the first
\* delivered.
LEMMA ReadsTyped ==
  ASSUME NEW xs \in Seq(Reads), NEW s, xs # <<>> => s \in 0 .. xs[1].len
  PROVE  /\ DOMAIN xs = 1 .. Len(xs) /\ Len(xs) \in Nat
         /\ [i \in DOMAIN xs |-> ReadEntry(xs[i], Sofar(i, s))] \in Seq(Entries)
         /\ [i \in DOMAIN xs |-> Context(xs[i], Sofar(i, s))] \in Seq(Contexts)
         /\ Len([i \in DOMAIN xs |-> ReadEntry(xs[i], Sofar(i, s))]) = Len(xs)
         /\ Len([i \in DOMAIN xs |-> Context(xs[i], Sofar(i, s))]) = Len(xs)
<1>1. DOMAIN xs = 1 .. Len(xs) /\ Len(xs) \in Nat BY LenProperties
<1>2. ASSUME NEW i \in 1 .. Len(xs)
      PROVE  ReadEntry(xs[i], Sofar(i, s)) \in Entries /\ Context(xs[i], Sofar(i, s)) \in Contexts
  <2>1. xs[i] \in Reads BY ElementOfSeq
  <2>2. Sofar(i, s) \in 0 .. xs[i].len
    <3>1. xs # <<>> BY <1>1, EmptySeq
    <3>2. xs[i].len \in Nat BY <2>1, ReadFields
    <3> QED BY <3>1, <3>2 DEF Sofar
  <2> DEFINE x == xs[i]
             n == Sofar(i, s)
  <2>3. x \in Reads /\ n \in Nat /\ n <= x.len BY <2>1, <2>2, ReadFields
  <2> HIDE DEF x, n
  <2>4. ReadEntry(x, n) \in Entries BY <2>3, ReadFields, EmptySeq DEF ReadEntry, Entries
  <2>5. Beat(x, n) \in Nat BY <2>3, ReadFields, BeatIsAddress
  <2>6. (x.len + 1) - n \in Nat BY <2>3, ReadFields
  <2>7. Context(x, n) \in Contexts BY <2>3, <2>5, <2>6 DEF Context, Contexts
  <2> QED BY <2>4, <2>7 DEF x, n
<1> DEFINE q == [i \in DOMAIN xs |-> ReadEntry(xs[i], Sofar(i, s))]
           c == [i \in DOMAIN xs |-> Context(xs[i], Sofar(i, s))]
<1>3. q \in [1 .. Len(xs) -> Entries] BY <1>1, <1>2
<1>4. c \in [1 .. Len(xs) -> Contexts] BY <1>1, <1>2
<1> HIDE DEF q, c
<1>5. q \in Seq(Entries) /\ Len(q) = Len(xs) BY <1>1, <1>3
<1>6. c \in Seq(Contexts) /\ Len(c) = Len(xs) BY <1>1, <1>4
<1> QED BY <1>1, <1>5, <1>6 DEF q, c

\* With reads in hand too; none of them waits for beats.
LEMMA ReadingShaped ==
  ASSUME NEW xs \in Seq(Reads), NEW s, Reading(xs, s)
  PROVE  /\ Shaped
         /\ Len(sub.q) = Len(xs) /\ Len(mon.ar_q) = Len(xs)
         /\ DOMAIN xs = 1 .. Len(xs) /\ Len(xs) \in Nat
         /\ \A i \in 1 .. Len(xs) : sub.q[i].kind = "R"
         /\ Filling(sub.q) = {}
<1>1. xs # <<>> => s \in 0 .. xs[1].len BY DEF Reading
<1>2. /\ DOMAIN xs = 1 .. Len(xs) /\ Len(xs) \in Nat
      /\ sub.q \in Seq(Entries) /\ Len(sub.q) = Len(xs)
      /\ mon.ar_q \in Seq(Contexts) /\ Len(mon.ar_q) = Len(xs)
  BY <1>1, ReadsTyped DEF Reading
<1>3. mon.w_pending \in Seq(Nat \X Nat) BY DEF Reading
<1>4. \A i \in 1 .. Len(xs) : sub.q[i].kind = "R" BY <1>2 DEF Reading, ReadEntry
<1>5. DOMAIN sub.q = 1 .. Len(xs) BY <1>2, LenProperties
<1>6. Filling(sub.q) = {} BY <1>4, <1>5 DEF Filling
<1> QED BY <1>2, <1>3, <1>4, <1>6 DEF Shaped

\* Without a read in hand nothing is.
LEMMA NothingRead ==
  ASSUME NEW s
  PROVE  Reading(<<>>, s) <=> Empty
BY DEF Reading, Empty

-----------------------------------------------------------------------------
(* One rising edge, by what is handshaken.                                 *)

Filled(w) ==
  [i \in DOMAIN sub.q |-> IF i \in Filling(sub.q) THEN [sub.q[i] EXCEPT !.w = @ \o w] ELSE sub.q[i]]
Delivered(w, r) == IF r THEN [Filled(w) EXCEPT ![1].sent = @ + 1] ELSE Filled(w)
Left(w, b, r) ==
  IF b \/ (r /\ Delivered(w, r)[1].sent > Delivered(w, r)[1].len)
  THEN Tail(Delivered(w, r)) ELSE Delivered(w, r)
Accepted(x) == [i \in DOMAIN x |-> [kind |-> x[i].kind, addr |-> x[i].addr, len |-> x[i].len,
                               burst |-> x[i].burst, w |-> <<>>, sent |-> 0]]

\* What SubEdge says of the queue, the memory and the responses.
LEMMA EdgeGives ==
  ASSUME NEW aw, NEW w, NEW ar, NEW b, NEW r, NEW may, SubEdge(aw, w, ar, b, r, may)
  PROVE  /\ sub'.q = Left(w, b, r) \o Accepted(aw) \o Accepted(ar)
         /\ sub'.mem = IF b THEN Committed(sub.mem, Head(sub.q)) ELSE sub.mem
         /\ sub'.bvalid => \/ sub.bvalid /\ ~b
                           \/ Left(w, b, r) # <<>> /\ Left(w, b, r)[1].kind = "W" /\ Filling(Left(w, b, r)) = {}
         /\ sub'.rvalid => \/ sub.rvalid /\ ~r
                           \/ Left(w, b, r) # <<>> /\ Left(w, b, r)[1].kind = "R"
<1> DEFINE given(free) == IF free THEN may ELSE {FALSE}
           q == Left(w, b, r) \o Accepted(aw) \o Accepted(ar)
<1>1. PICK awrdy \in given(Len(q) <= REQ_QD), arrdy \in given(Len(q) <= REQ_QD),
           wrdy \in given(Filling(q) # {}),
           bvalid \in IF sub.bvalid /\ ~b THEN {TRUE}
                      ELSE given(/\ Left(w, b, r) # <<>> /\ Left(w, b, r)[1].kind = "W"
                                 /\ Filling(Left(w, b, r)) = {}),
           rvalid \in IF sub.rvalid /\ ~r THEN {TRUE}
                      ELSE given(Left(w, b, r) # <<>> /\ Left(w, b, r)[1].kind = "R") :
        sub' = [q |-> q,
                mem |-> IF b THEN Committed(sub.mem, Head(sub.q)) ELSE sub.mem,
                awrdy |-> awrdy, arrdy |-> arrdy, wrdy |-> wrdy,
                bvalid |-> bvalid, rvalid |-> rvalid]
  BY DEF SubEdge, Left, Accepted, Delivered, Filled
<1>2. sub'.q = q /\ sub'.mem = (IF b THEN Committed(sub.mem, Head(sub.q)) ELSE sub.mem)
      /\ sub'.bvalid = bvalid /\ sub'.rvalid = rvalid
  BY <1>1
<1> HIDE DEF q
<1> QED BY <1>1, <1>2 DEF q

\* What the bench knows between two edges, whatever is in hand.
Known ==
  /\ seen \in Seq(Reports) /\ Model(seen) = sub.mem /\ Mismatches(seen) = {}
  /\ Numbers(sub.mem) /\ MonShape /\ Answers

\* Without a W beat no request is filled.
LEMMA NoBeat ==
  ASSUME sub.q \in Seq(Entries)
  PROVE  Filled(<<>>) = sub.q
<1>1. DOMAIN sub.q = 1 .. Len(sub.q) /\ Len(sub.q) \in Nat BY LenProperties
<1>2. ASSUME NEW i \in DOMAIN sub.q PROVE [sub.q[i] EXCEPT !.w = @ \o <<>>] = sub.q[i]
  <2> DEFINE e == sub.q[i]
  <2>1. e \in Entries BY <1>1, ElementOfSeq
  <2> HIDE DEF e
  <2>2. e.w \o <<>> = e.w BY <2>1, ConcatEmptySeq DEF Entries
  <2>3. [e EXCEPT !.w = e.w \o <<>>] = e BY <2>1, <2>2 DEF Entries
  <2> QED BY <2>3 DEF e
<1>3. Filled(<<>>) = [i \in DOMAIN sub.q |-> sub.q[i]] BY <1>2 DEF Filled
<1> QED BY <1>1, <1>3

\* Without a request none is accepted.
LEMMA NothingNew == Accepted(<<>>) = <<>>
BY DEF Accepted

\* EdgeGives for the handshakes of this edge.
LEMMA EdgeNow ==
  ASSUME NEW may, SubEdge(AW, W, AR, B, R, may)
  PROVE  /\ sub'.q = Left(W, B, R) \o Accepted(AW) \o Accepted(AR)
         /\ sub'.mem = IF B THEN Committed(sub.mem, Head(sub.q)) ELSE sub.mem
         /\ sub'.bvalid => \/ sub.bvalid /\ ~B
                           \/ Left(W, B, R) # <<>> /\ Left(W, B, R)[1].kind = "W" /\ Filling(Left(W, B, R)) = {}
         /\ sub'.rvalid => \/ sub.rvalid /\ ~R
                           \/ Left(W, B, R) # <<>> /\ Left(W, B, R)[1].kind = "R"
<1>1. sub'.q = Left(W, B, R) \o Accepted(AW) \o Accepted(AR)  BY EdgeGives
<1>2. sub'.mem = IF B THEN Committed(sub.mem, Head(sub.q)) ELSE sub.mem BY EdgeGives
<1>3. sub'.bvalid => \/ sub.bvalid /\ ~B
                     \/ Left(W, B, R) # <<>> /\ Left(W, B, R)[1].kind = "W" /\ Filling(Left(W, B, R)) = {}
  BY EdgeGives
<1>4. sub'.rvalid => \/ sub.rvalid /\ ~R
                     \/ Left(W, B, R) # <<>> /\ Left(W, B, R)[1].kind = "R"
  BY EdgeGives
<1> QED BY <1>1, <1>2, <1>3, <1>4

\* An edge without a handshake changes nothing the bench knows.
LEMMA QuietEdge ==
  ASSUME NEW may, SubEdge(AW, W, AR, B, R, may), monitor_bfm, Shaped, Known,
         AW = <<>>, W = <<>>, AR = <<>>, ~B, ~R
  PROVE  sub'.q = sub.q /\ sub'.mem = sub.mem /\ mon' = mon /\ seen' = seen /\ Known'
<1>1. /\ sub.q \in Seq(Entries) /\ mon.w_pending \in Seq(Nat \X Nat) /\ mon.ar_q \in Seq(Contexts)
      /\ seen \in Seq(Reports)
  BY DEF Shaped, Known
<1>2. Left(<<>>, B, R) = sub.q BY <1>1, NoBeat DEF Left, Delivered
<1>3. sub.q \o <<>> \o <<>> = sub.q BY <1>1, ConcatEmptySeq, Zenon
<1>4. sub'.q = sub.q /\ sub'.mem = sub.mem
  <2>1. /\ sub'.q = Left(W, B, R) \o Accepted(AW) \o Accepted(AR)
        /\ sub'.mem = IF B THEN Committed(sub.mem, Head(sub.q)) ELSE sub.mem
    BY EdgeGives
  <2> QED BY <1>2, <1>3, <2>1, NothingNew
<1>5. Answers'
  <2>1. sub'.bvalid => sub.bvalid \/ (sub.q # <<>> /\ sub.q[1].kind = "W" /\ Filling(sub.q) = {})
    BY <1>2, EdgeGives
  <2>2. sub'.rvalid => sub.rvalid \/ (sub.q # <<>> /\ sub.q[1].kind = "R")
    BY <1>2, EdgeGives
  <2> QED BY <1>4, <2>1, <2>2 DEF Answers, Known
<1>6. mon' = [aw |-> mon.aw, w_cur |-> mon.w_cur,
              w_pending |-> mon.w_pending \o [i \in DOMAIN W |-> <<mon.w_cur, W[i]>>],
              ar_q |-> mon.ar_q \o
                [i \in DOMAIN AR |-> [cur |-> AR[i].addr, item |-> AR[i], rem |-> AR[i].len + 1]]]
      /\ seen' = seen \o <<>> \o <<>>
  BY DEF monitor_bfm
<1>7. [i \in DOMAIN W |-> <<mon.w_cur, W[i]>>] = <<>>
      /\ [i \in DOMAIN AR |-> [cur |-> AR[i].addr, item |-> AR[i], rem |-> AR[i].len + 1]] = <<>>
  OBVIOUS
<1>8. mon.w_pending \o <<>> = mon.w_pending /\ mon.ar_q \o <<>> = mon.ar_q /\ seen \o <<>> \o <<>> = seen
  BY <1>1, ConcatEmptySeq
<1>9. mon' = mon /\ seen' = seen BY <1>6, <1>7, <1>8 DEF MonShape, Known
<1> QED BY <1>4, <1>5, <1>9 DEF Known, MonShape, Numbers

\* An AW puts its write in hand, on both sides.
LEMMA TakeAW ==
  ASSUME NEW may, SubEdge(AW, W, AR, B, R, may), monitor_bfm, Known, Empty,
         NEW x \in Writes, AW = <<x>>, W = <<>>, AR = <<>>, ~R
  PROVE  Writing(x, 0)' /\ sub'.mem = sub.mem /\ seen' = seen /\ Known'
<1>1. ~sub.bvalid /\ ~sub.rvalid BY DEF Known, Answers, Empty
<1>2. ~B BY <1>1 DEF B
<1>3. Left(<<>>, B, R) = <<>>
  <2>1. Filled(<<>>) = <<>> BY DEF Filled, Empty
  <2> QED BY <1>2, <2>1 DEF Left, Delivered
<1>4. Accepted(<<x>>) =
        <<[kind |-> x.kind, addr |-> x.addr, len |-> x.len, burst |-> x.burst, w |-> <<>>, sent |-> 0]>>
  BY DEF Accepted
<1>5. [i \in 1 .. 0 |-> x.beats[i]] = <<>> OBVIOUS
<1>6. Accepted(<<x>>) = <<WriteEntry(x, 0)>> BY <1>4, <1>5, WriteFields DEF WriteEntry
<1>7. <<>> \o <<WriteEntry(x, 0)>> \o <<>> = <<WriteEntry(x, 0)>> OBVIOUS
<1>8. sub'.q = <<WriteEntry(x, 0)>> /\ sub'.mem = sub.mem
  BY <1>2, <1>3, <1>6, <1>7, EdgeGives, NothingNew
<1>9. ~sub'.bvalid /\ ~sub'.rvalid
  BY <1>1, <1>3, EdgeGives
<1>10. mon' = [aw |-> Head(AW), w_cur |-> Head(AW).addr,
               w_pending |-> <<>> \o [i \in DOMAIN W |-> <<Head(AW).addr, W[i]>>],
               ar_q |-> mon.ar_q \o
                 [i \in DOMAIN AR |-> [cur |-> AR[i].addr, item |-> AR[i], rem |-> AR[i].len + 1]]]
      /\ seen' = seen \o <<>> \o <<>>
  <2>1. AW # <<>> OBVIOUS
  <2> QED BY <1>2, <2>1 DEF monitor_bfm
<1>11. [i \in DOMAIN W |-> <<Head(AW).addr, W[i]>>] = <<>>
      /\ [i \in DOMAIN AR |-> [cur |-> AR[i].addr, item |-> AR[i], rem |-> AR[i].len + 1]] = <<>>
      /\ Head(AW) = x
  OBVIOUS
<1>12. seen \o <<>> \o <<>> = seen BY ConcatEmptySeq DEF Known
<1>13. mon' = [aw |-> x, w_cur |-> x.addr, w_pending |-> <<>>, ar_q |-> <<>>] /\ seen' = seen
  BY <1>10, <1>11, <1>12 DEF Empty
<1>14. Collected(x, 0) = [aw |-> x, w_cur |-> x.addr, w_pending |-> <<>>, ar_q |-> <<>>]
  BY FirstBeat, WriteFields DEF Collected
<1>15. Writing(x, 0)' BY <1>8, <1>13, <1>14 DEF Writing
<1>16. Known'
  BY <1>8, <1>9, <1>13 DEF Known, MonShape, Answers, Numbers
<1> QED BY <1>8, <1>13, <1>15, <1>16

\* The oldest write still lacks beats, or has them all.
LEMMA WriteFilling ==
  ASSUME NEW x \in Writes, NEW j \in 0 .. x.len + 1
  PROVE  Filling(<<WriteEntry(x, j)>>) = IF j <= x.len THEN {1} ELSE {}
<1>1. Len([i \in 1 .. j |-> x.beats[i]]) = j BY TakenTyped
<1> DEFINE e == WriteEntry(x, j)
<1>2. e.kind = "W" /\ Len(e.w) = j /\ e.len = x.len BY <1>1 DEF WriteEntry
<1> HIDE DEF e
<1>3. DOMAIN <<e>> = {1} /\ <<e>>[1] = e OBVIOUS
<1> QED BY <1>2, <1>3 DEF Filling, e

\* A sequence and one element more.
LEMMA OneMore ==
  ASSUME NEW S, NEW f \in Seq(S), NEW g \in Seq(S), Len(g) = Len(f) + 1,
         \A i \in 1 .. Len(f) : g[i] = f[i]
  PROVE  f \o <<g[Len(f) + 1]>> = g
<1> DEFINE n == Len(f)
           v == g[n + 1]
<1>1. n \in Nat /\ v \in S BY LenProperties, ElementOfSeq
<1>2. Append(f, v) \in Seq(S) /\ Len(Append(f, v)) = n + 1
      /\ (\A i \in 1 .. n : Append(f, v)[i] = f[i]) /\ Append(f, v)[n + 1] = v
  BY <1>1, AppendProperties
<1>3. \A i \in 1 .. n + 1 : i \in 1 .. n \/ i = n + 1 BY <1>1
<1> HIDE DEF n
<1>4. \A i \in 1 .. n + 1 : Append(f, v)[i] = g[i] BY <1>2, <1>3 DEF n
<1>5. Append(f, v) = g BY <1>2, <1>4, SeqEqual DEF n
<1>6. Append(f, v) = f \o <<v>> BY <1>1, AppendIsConcat
<1> QED BY <1>5, <1>6 DEF n

\* A W beat is the next one of the write in hand, on both sides.
LEMMA TakeW ==
  ASSUME NEW may, SubEdge(AW, W, AR, B, R, may), monitor_bfm, Known,
         NEW x \in Writes, NEW j \in 0 .. x.len, Writing(x, j),
         AW = <<>>, W = <<x.beats[j + 1]>>, AR = <<>>
  PROVE  Writing(x, j + 1)' /\ sub'.mem = sub.mem /\ seen' = seen /\ Known'
<1>1. /\ x.len \in Nat /\ j \in Nat /\ j + 1 \in 0 .. x.len + 1 /\ j \in 0 .. x.len + 1 /\ j <= x.len
      /\ LegalBurst(x) /\ x.beats \in Seq(Nat) /\ (j + 1) - 1 = j
  BY WriteFields
<1>2. sub.q = <<WriteEntry(x, j)>> /\ mon = Collected(x, j) BY DEF Writing
<1>3. Filling(sub.q) = {1} BY <1>1, <1>2, WriteFilling
<1>4. sub.q[1].kind = "W" BY <1>2 DEF WriteEntry
<1>5. ~sub.bvalid /\ ~sub.rvalid BY <1>3, <1>4 DEF Known, Answers
<1>6. ~B /\ ~R BY <1>5 DEF B, R
<1> DEFINE f == [i \in 1 .. j |-> x.beats[i]]
           g == [i \in 1 .. j + 1 |-> x.beats[i]]
           f2 == [i \in 1 .. j |-> <<Beat(x, i - 1), x.beats[i]>>]
           g2 == [i \in 1 .. j + 1 |-> <<Beat(x, i - 1), x.beats[i]>>]
<1>7. /\ f \in Seq(Nat) /\ Len(f) = j /\ g \in Seq(Nat) /\ Len(g) = j + 1
      /\ f2 \in Seq(Nat \X Nat) /\ Len(f2) = j /\ g2 \in Seq(Nat \X Nat) /\ Len(g2) = j + 1
  BY <1>1, TakenTyped
<1>8. /\ \A i \in 1 .. j : g[i] = f[i] /\ g2[i] = f2[i]
      /\ g[j + 1] = x.beats[j + 1] /\ g2[j + 1] = <<Beat(x, j), x.beats[j + 1]>>
  <2>1. \A i \in 1 .. j : i \in 1 .. j + 1 BY <1>1
  <2>2. j + 1 \in 1 .. j + 1 BY <1>1
  <2>3. \A i \in 1 .. j : g[i] = f[i] BY <2>1
  <2>4. \A i \in 1 .. j : g2[i] = f2[i] BY <2>1
  <2>5. g[j + 1] = x.beats[j + 1] BY <2>2
  <2>6. g2[j + 1] = <<Beat(x, j), x.beats[j + 1]>> BY <1>1, <2>2
  <2> QED BY <2>3, <2>4, <2>5, <2>6
<1>9. WriteEntry(x, j).w = f /\ WriteEntry(x, j + 1).w = g /\ mon.w_pending = f2
  BY <1>2 DEF WriteEntry, Collected
<1> HIDE DEF f, g, f2, g2
<1>10. f \o <<x.beats[j + 1]>> = g BY <1>7, <1>8, OneMore
<1>11. f2 \o <<<<Beat(x, j), x.beats[j + 1]>>>> = g2 BY <1>7, <1>8, OneMore
<1>12. [WriteEntry(x, j) EXCEPT !.w = @ \o W] = WriteEntry(x, j + 1)
  <2> DEFINE v == WriteEntry(x, j).w \o W
  <2>1. v = [i \in 1 .. j + 1 |-> x.beats[i]] BY <1>9, <1>10 DEF g
  <2> HIDE DEF v
  <2> DEFINE u == [i \in 1 .. j |-> x.beats[i]]
  <2>2. WriteEntry(x, j + 1) = [kind |-> "W", addr |-> x.addr, len |-> x.len, burst |-> x.burst,
                              w |-> v, sent |-> 0]
    BY <2>1 DEF WriteEntry
  <2>3. WriteEntry(x, j) = [kind |-> "W", addr |-> x.addr, len |-> x.len, burst |-> x.burst,
                          w |-> u, sent |-> 0]
    BY DEF WriteEntry
  <2> HIDE DEF u
  <2>4. [WriteEntry(x, j) EXCEPT !.w = v] = WriteEntry(x, j + 1) BY <2>2, <2>3
  <2> QED BY <2>4 DEF v
<1>13. Left(W, B, R) = <<WriteEntry(x, j + 1)>>
  <2>1. Filled(W) = <<WriteEntry(x, j + 1)>>
    <3>1. DOMAIN sub.q = {1} /\ sub.q[1] = WriteEntry(x, j) BY <1>2
    <3>2. Filled(W) = [i \in {1} |-> WriteEntry(x, j + 1)] BY <1>3, <1>12, <3>1 DEF Filled
    <3> QED BY <3>2
  <2> QED BY <1>6, <2>1 DEF Left, Delivered
<1>14. /\ sub'.q = Left(W, B, R) \o Accepted(AW) \o Accepted(AR)
       /\ sub'.mem = IF B THEN Committed(sub.mem, Head(sub.q)) ELSE sub.mem
       /\ sub'.bvalid => \/ sub.bvalid /\ ~B
                         \/ Left(W, B, R) # <<>> /\ Left(W, B, R)[1].kind = "W" /\ Filling(Left(W, B, R)) = {}
       /\ sub'.rvalid => \/ sub.rvalid /\ ~R
                         \/ Left(W, B, R) # <<>> /\ Left(W, B, R)[1].kind = "R"
  BY EdgeNow
<1>15. <<WriteEntry(x, j + 1)>> \o <<>> \o <<>> = <<WriteEntry(x, j + 1)>> OBVIOUS
<1>16. sub'.q = <<WriteEntry(x, j + 1)>> /\ sub'.mem = sub.mem
  BY <1>6, <1>13, <1>14, <1>15, NothingNew
<1>17. Answers'
  <2>1. <<WriteEntry(x, j + 1)>>[1].kind = "W" BY DEF WriteEntry
  <2> QED BY <1>5, <1>13, <1>14, <1>16, <2>1 DEF Answers, Filling
<1>18. /\ mon' = [aw |-> mon.aw, w_cur |-> NextOf(mon.w_cur, mon.aw),
                  w_pending |-> mon.w_pending \o [i \in DOMAIN W |-> <<mon.w_cur, W[i]>>],
                  ar_q |-> mon.ar_q \o
                    [i \in DOMAIN AR |-> [cur |-> AR[i].addr, item |-> AR[i], rem |-> AR[i].len + 1]]]
       /\ seen' = seen \o <<>> \o <<>>
  <2>1. W # <<>> OBVIOUS
  <2> QED BY <1>6, <2>1 DEF monitor_bfm
<1>19. mon.aw = x /\ mon.w_cur = Beat(x, j) /\ mon.ar_q = <<>> BY <1>2 DEF Collected
<1>20. /\ [i \in DOMAIN W |-> <<mon.w_cur, W[i]>>] = <<<<Beat(x, j), x.beats[j + 1]>>>>
       /\ [i \in DOMAIN AR |-> [cur |-> AR[i].addr, item |-> AR[i], rem |-> AR[i].len + 1]] = <<>>
  BY <1>19
<1>21. mon' = [aw |-> x, w_cur |-> Beat(x, j + 1), w_pending |-> g2, ar_q |-> <<>>]
  <2>1. NextOf(Beat(x, j), x) = Beat(x, j + 1) BY <1>1, NextBeat
  <2>2. mon.w_pending \o [i \in DOMAIN W |-> <<mon.w_cur, W[i]>>] = g2 BY <1>9, <1>11, <1>20
  <2>3. mon.ar_q \o [i \in DOMAIN AR |-> [cur |-> AR[i].addr, item |-> AR[i], rem |-> AR[i].len + 1]] = <<>>
    BY <1>19, <1>20
  <2> QED BY <1>18, <1>19, <2>1, <2>2, <2>3
<1>22. seen' = seen BY <1>18, ConcatEmptySeq DEF Known
<1>23. mon' = Collected(x, j + 1) BY <1>21 DEF Collected, g2
<1>24. Writing(x, j + 1)' BY <1>16, <1>23 DEF Writing
<1> QED BY <1>16, <1>17, <1>21, <1>22, <1>24 DEF Known, MonShape, Numbers

\* A B ends the write: the design commits it, the monitor reports it, and the memories agree.
LEMMA TakeB ==
  ASSUME NEW may, SubEdge(AW, W, AR, B, R, may), monitor_bfm, Known,
         NEW x \in Writes, Writing(x, x.len + 1), AW = <<>>, W = <<>>, AR = <<>>, B
  PROVE  Empty' /\ Known'
<1> DEFINE n == x.len + 1
           e == WriteEntry(x, n)
           f == [i \in 1 .. n |-> Report(TRUE, Beat(x, i - 1), x.beats[i], x.len, 1)]
<1>1. x.len \in Nat /\ n \in Nat /\ n \in 0 .. x.len + 1 /\ LegalBurst(x) /\ n # 0 BY WriteFields
<1>2. sub.q = <<e>> /\ mon = Collected(x, n) BY DEF Writing
<1>3. /\ e.w = [i \in 1 .. n |-> x.beats[i]] /\ e.kind = "W"
      /\ e.addr = x.addr /\ e.len = x.len /\ e.burst = x.burst
  BY DEF WriteEntry
<1>4. e.w \in Seq(Nat) /\ Len(e.w) = n /\ e \in Entries BY <1>1, <1>3, TakenTyped
<1>5. ~sub.rvalid
  <2>1. sub.q[1].kind = "W" BY <1>2, <1>3
  <2> QED BY <2>1 DEF Known, Answers
<1>6. ~R BY <1>5 DEF R
<1>7. WritesOf(f, e)
  <2>1. \A i \in 1 .. n : x.beats[i] \in Nat /\ Beat(x, i - 1) \in Nat
    <3>1. \A i \in 1 .. n : i - 1 \in Nat BY <1>1
    <3>2. \A i \in 1 .. n : Beat(x, i - 1) \in Nat BY <1>1, <3>1, BeatIsAddress
    <3> QED BY <3>2, WriteFields
  <2>2. \A i \in 1 .. n : Report(TRUE, Beat(x, i - 1), x.beats[i], x.len, 1) \in Reports
    BY <1>1, <2>1 DEF Report, Reports
  <2>3. \A k : Beat(e, k) = Beat(x, k) BY <1>3 DEF Beat
  <2>4. f \in [1 .. n -> Reports] BY <2>2
  <2>5. \A i \in 1 .. n : f[i].wr /\ f[i].addr = Beat(x, i - 1) /\ f[i].data = x.beats[i]
    BY DEF Report
  <2>6. \A i \in 1 .. n : e.w[i] = x.beats[i] BY <1>3
  <2> HIDE DEF f, e, n
  <2>7. f \in Seq(Reports) /\ Len(f) = n BY <1>1, <2>4
  <2> QED BY <1>4, <2>3, <2>5, <2>6, <2>7 DEF WritesOf
<1>8. Left(<<>>, B, R) = <<>>
  <2>1. sub.q \in Seq(Entries) BY <1>2, <1>4
  <2>2. Filled(<<>>) = <<e>> BY <1>2, <2>1, NoBeat
  <2>3. Delivered(<<>>, R) = <<e>> BY <1>6, <2>2 DEF Delivered
  <2>4. Left(<<>>, B, R) = Tail(<<e>>) BY <2>3 DEF Left
  <2> HIDE DEF e
  <2>5. Tail(<<e>>) = <<>> OBVIOUS
  <2> QED BY <2>4, <2>5
<1>9. /\ sub'.q = Left(W, B, R) \o Accepted(AW) \o Accepted(AR)
      /\ sub'.mem = IF B THEN Committed(sub.mem, Head(sub.q)) ELSE sub.mem
      /\ sub'.bvalid => \/ sub.bvalid /\ ~B
                        \/ Left(W, B, R) # <<>> /\ Left(W, B, R)[1].kind = "W" /\ Filling(Left(W, B, R)) = {}
      /\ sub'.rvalid => \/ sub.rvalid /\ ~R
                        \/ Left(W, B, R) # <<>> /\ Left(W, B, R)[1].kind = "R"
  BY EdgeNow
<1> HIDE DEF e, n, f
<1>10. <<>> \o <<>> \o <<>> = <<>> /\ Head(sub.q) = e BY <1>2
<1>11. sub'.q = <<>> /\ sub'.mem = Committed(sub.mem, e) BY <1>8, <1>9, <1>10, NothingNew
<1>12. ~sub'.bvalid /\ ~sub'.rvalid BY <1>5, <1>8, <1>9
<1> DEFINE reports(p) == [i \in DOMAIN p |-> Report(TRUE, p[i][1], p[i][2], mon.aw.len, 1)]
<1>13. /\ mon' = [aw |-> mon.aw, w_cur |-> mon.w_cur, w_pending |-> <<>>,
                  ar_q |-> mon.ar_q \o
                    [i \in DOMAIN AR |-> [cur |-> AR[i].addr, item |-> AR[i], rem |-> AR[i].len + 1]]]
       /\ seen' = seen \o reports(mon.w_pending \o [i \in DOMAIN W |-> <<mon.w_cur, W[i]>>]) \o <<>>
  BY <1>6 DEF monitor_bfm
<1>14. /\ [i \in DOMAIN W |-> <<mon.w_cur, W[i]>>] = <<>>
       /\ [i \in DOMAIN AR |-> [cur |-> AR[i].addr, item |-> AR[i], rem |-> AR[i].len + 1]] = <<>>
  OBVIOUS
<1>15. /\ mon.aw = x /\ mon.ar_q = <<>>
       /\ mon.w_pending = [i \in 1 .. n |-> <<Beat(x, i - 1), x.beats[i]>>]
       /\ mon.w_pending \in Seq(Nat \X Nat)
  BY <1>1, <1>2, TakenTyped DEF Collected
<1>16. mon.w_pending \o <<>> = mon.w_pending BY <1>15, ConcatEmptySeq
<1>17. reports(mon.w_pending) = f BY <1>15 DEF f
<1> HIDE DEF reports
<1>18. seen \o f \in Seq(Reports) /\ seen \in Seq(Reports) BY <1>7, ConcatProperties DEF Known, WritesOf
<1>19. seen' = seen \o f BY <1>13, <1>14, <1>16, <1>17, <1>18, ConcatEmptySeq
<1>20. Empty' /\ MonShape'
  <2>1. <<>> \o <<>> = <<>> OBVIOUS
  <2>2. mon' = [aw |-> mon.aw, w_cur |-> mon.w_cur, w_pending |-> <<>>, ar_q |-> <<>>]
    BY <1>13, <1>14, <1>15, <2>1
  <2> QED BY <1>11, <2>2 DEF Empty, MonShape
<1>21. Model(seen)' = sub'.mem
  BY <1>7, <1>11, <1>18, <1>19, ModelAfterWrites DEF Known
<1>22. Mismatches(seen)' = {}
  BY <1>7, <1>18, <1>19, MatchAfterWrites DEF Known
<1>23. Numbers(sub'.mem)
  BY <1>4, <1>11, CommittedNumbers DEF Known
<1> QED BY <1>11, <1>12, <1>18, <1>19, <1>20, <1>21, <1>22, <1>23 DEF Known, Answers, Numbers

\* An AR puts its read in hand behind those before it; what answers is no read accepted now.
LEMMA TakeAR ==
  ASSUME NEW may, SubEdge(AW, W, AR, B, R, may), monitor_bfm, Known,
         NEW xs \in Seq(Reads), Reading(xs, 0), NEW x \in Reads,
         AW = <<>>, W = <<>>, AR = <<x>>, ~R
  PROVE  /\ Reading(Append(xs, x), 0)' /\ sub'.mem = sub.mem /\ seen' = seen /\ Known'
         /\ xs = <<>> => ~sub'.rvalid
<1> DEFINE n == Len(xs)
           ys == Append(xs, x)
           q == [i \in DOMAIN xs |-> ReadEntry(xs[i], Sofar(i, 0))]
           c == [i \in DOMAIN xs |-> Context(xs[i], Sofar(i, 0))]
           q2 == [i \in DOMAIN ys |-> ReadEntry(ys[i], Sofar(i, 0))]
           c2 == [i \in DOMAIN ys |-> Context(ys[i], Sofar(i, 0))]
<1>1. /\ Len(sub.q) = n /\ DOMAIN xs = 1 .. n /\ n \in Nat /\ Filling(sub.q) = {}
      /\ \A i \in 1 .. n : sub.q[i].kind = "R"
  BY ReadingShaped
<1>2. /\ ys \in Seq(Reads) /\ Len(ys) = n + 1 /\ DOMAIN ys = 1 .. n + 1
      /\ (\A i \in 1 .. n : ys[i] = xs[i]) /\ ys[n + 1] = x
  BY <1>1, AppendProperties, LenProperties
<1>3. x.len \in Nat /\ \A i \in Nat : Sofar(i, 0) = 0 BY ReadFields DEF Sofar
<1>4. ys # <<>> => 0 \in 0 .. ys[1].len
  <2>1. ys[1] \in Reads
    <3>1. 1 \in 1 .. Len(ys) BY <1>1, <1>2
    <3> QED BY <1>2, <3>1, ElementOfSeq
  <2>2. ys[1].len \in Nat BY <2>1, ReadFields
  <2> QED BY <2>2
<1>5. sub.q = q /\ mon.ar_q = c /\ mon.w_pending = <<>> BY DEF Reading
<1>6. /\ q \in Seq(Entries) /\ c \in Seq(Contexts) /\ Len(q) = n /\ Len(c) = n
  <2>1. xs # <<>> => 0 \in 0 .. xs[1].len BY DEF Reading
  <2> QED BY <2>1, ReadsTyped
<1> HIDE DEF ys
<1>7. /\ q2 \in Seq(Entries) /\ c2 \in Seq(Contexts) /\ Len(q2) = n + 1 /\ Len(c2) = n + 1
  BY <1>2, <1>4, ReadsTyped
<1>8. /\ \A i \in 1 .. n : q2[i] = q[i] /\ c2[i] = c[i]
      /\ q2[n + 1] = ReadEntry(x, 0) /\ c2[n + 1] = Context(x, 0)
  <2>1. \A i \in 1 .. n : i \in 1 .. n + 1 BY <1>1
  <2>2. n + 1 \in 1 .. n + 1 /\ n + 1 \in Nat BY <1>1
  <2>3. \A i \in 1 .. n : q2[i] = q[i] BY <1>1, <1>2, <2>1
  <2>4. \A i \in 1 .. n : c2[i] = c[i] BY <1>1, <1>2, <2>1
  <2>5. q2[n + 1] = ReadEntry(x, 0) BY <1>2, <1>3, <2>2
  <2>6. c2[n + 1] = Context(x, 0) BY <1>2, <1>3, <2>2
  <2> QED BY <2>3, <2>4, <2>5, <2>6
<1> HIDE DEF q, c, q2, c2, n
<1>9. q \o <<ReadEntry(x, 0)>> = q2 BY <1>6, <1>7, <1>8, OneMore
<1>10. c \o <<Context(x, 0)>> = c2 BY <1>6, <1>7, <1>8, OneMore
<1>11. ~sub.bvalid
  <2>1. CASE sub.q = <<>> BY <2>1 DEF Known, Answers
  <2>2. CASE sub.q # <<>>
    <3>1. n # 0 BY <1>5, <1>6, <2>2, EmptySeq
    <3>2. 1 \in 1 .. n BY <1>1, <3>1
    <3> QED BY <1>1, <3>2 DEF Known, Answers
  <2> QED BY <2>1, <2>2
<1>12. ~B BY <1>11 DEF B
<1>13. Left(<<>>, B, R) = sub.q BY <1>5, <1>6, <1>12, NoBeat DEF Left, Delivered
<1>14. Accepted(<<x>>) = <<ReadEntry(x, 0)>>
  <2>1. Accepted(<<x>>) =
          <<[kind |-> x.kind, addr |-> x.addr, len |-> x.len, burst |-> x.burst, w |-> <<>>, sent |-> 0]>>
    BY DEF Accepted
  <2> QED BY <2>1, ReadFields DEF ReadEntry
<1>15. /\ sub'.q = sub.q \o <<>> \o <<ReadEntry(x, 0)>> /\ sub'.mem = sub.mem
  <2>1. sub'.q = Left(W, B, R) \o Accepted(AW) \o Accepted(AR) /\ sub'.mem = sub.mem BY <1>12, EdgeNow
  <2> QED BY <1>13, <1>14, <2>1, NothingNew
<1>16. sub.q \o <<>> = sub.q /\ seen \o <<>> \o <<>> = seen BY <1>5, <1>6, ConcatEmptySeq DEF Known
<1>17. sub'.q = q2 BY <1>5, <1>9, <1>15, <1>16
<1>18. /\ ~sub'.bvalid
       /\ sub'.rvalid => sub.q # <<>>
  <2>1. sub.q # <<>> => sub.q[1].kind = "R"
    <3> SUFFICES ASSUME sub.q # <<>> PROVE sub.q[1].kind = "R" OBVIOUS
    <3>1. n # 0 BY <1>5, <1>6, EmptySeq
    <3>2. 1 \in 1 .. n BY <1>1, <3>1
    <3> QED BY <1>1, <3>2
  <2>2. sub'.bvalid => \/ sub.bvalid /\ ~B
                       \/ Left(W, B, R) # <<>> /\ Left(W, B, R)[1].kind = "W" /\ Filling(Left(W, B, R)) = {}
    BY EdgeNow
  <2>3. sub'.rvalid => \/ sub.rvalid /\ ~R
                       \/ Left(W, B, R) # <<>> /\ Left(W, B, R)[1].kind = "R"
    BY EdgeNow
  <2>4. sub.rvalid => sub.q # <<>> BY DEF Known, Answers
  <2> QED BY <1>11, <1>13, <2>1, <2>2, <2>3, <2>4
<1>19. Answers'
  <2>1. q2 # <<>> /\ q2[1].kind = "R"
    <3>1. n + 1 # 0 /\ 1 \in 1 .. n + 1 /\ q2[1] = ReadEntry(ys[1], Sofar(1, 0)) BY <1>1, <1>2 DEF q2
    <3>2. q2 # <<>> BY <1>7, <3>1, EmptySeq
    <3> QED BY <3>1, <3>2 DEF ReadEntry
  <2> QED BY <1>17, <1>18, <2>1 DEF Answers
<1>20. /\ mon' = [aw |-> mon.aw, w_cur |-> mon.w_cur,
                  w_pending |-> mon.w_pending \o [i \in DOMAIN W |-> <<mon.w_cur, W[i]>>],
                  ar_q |-> mon.ar_q \o
                    [i \in DOMAIN AR |-> [cur |-> AR[i].addr, item |-> AR[i], rem |-> AR[i].len + 1]]]
       /\ seen' = seen \o <<>> \o <<>>
  BY <1>12 DEF monitor_bfm
<1>21. [i \in DOMAIN W |-> <<mon.w_cur, W[i]>>] = <<>> /\ <<>> \o <<>> = <<>> OBVIOUS
<1>22. [i \in DOMAIN AR |-> [cur |-> AR[i].addr, item |-> AR[i], rem |-> AR[i].len + 1]] = <<Context(x, 0)>>
  <2>1. [i \in DOMAIN AR |-> [cur |-> AR[i].addr, item |-> AR[i], rem |-> AR[i].len + 1]]
          = <<[cur |-> x.addr, item |-> x, rem |-> x.len + 1]>>
    OBVIOUS
  <2>2. Beat(x, 0) = x.addr /\ (x.len + 1) - 0 = x.len + 1 BY <1>3, FirstBeat, ReadFields
  <2> QED BY <2>1, <2>2 DEF Context
<1>23. mon' = [aw |-> mon.aw, w_cur |-> mon.w_cur, w_pending |-> <<>>, ar_q |-> c2]
  BY <1>5, <1>10, <1>20, <1>21, <1>22
<1>24. seen' = seen BY <1>16, <1>20
<1>25. Reading(ys, 0)'
  <2>1. sub'.q = [i \in DOMAIN ys |-> ReadEntry(ys[i], Sofar(i, 0))] BY <1>17 DEF q2
  <2>2. mon'.ar_q = [i \in DOMAIN ys |-> Context(ys[i], Sofar(i, 0))] /\ mon'.w_pending = <<>>
    BY <1>23 DEF c2
  <2> QED BY <1>4, <2>1, <2>2 DEF Reading
<1>26. xs = <<>> => sub.q = <<>>
  <2>1. xs = <<>> => q = <<>> BY DEF q
  <2> QED BY <1>5, <2>1
<1>27. Known' BY <1>15, <1>19, <1>23, <1>24 DEF Known, MonShape, Numbers
<1> QED BY <1>15, <1>18, <1>24, <1>25, <1>26, <1>27 DEF ys

Queued(xs, s) == [i \in DOMAIN xs |-> ReadEntry(xs[i], Sofar(i, s))]
Open(xs, s)   == [i \in DOMAIN xs |-> Context(xs[i], Sofar(i, s))]

\* The reads in hand once a beat of the first is delivered.
LEMMA ReadsAdvance ==
  ASSUME NEW xs \in Seq(Reads), xs # <<>>, NEW s \in 0 .. xs[1].len
  PROVE  /\ s < xs[1].len =>
              /\ [Queued(xs, s) EXCEPT ![1] = ReadEntry(xs[1], s + 1)] = Queued(xs, s + 1)
              /\ [Open(xs, s) EXCEPT ![1] = Context(xs[1], s + 1)] = Open(xs, s + 1)
         /\ Tail([Queued(xs, s) EXCEPT ![1] = ReadEntry(xs[1], s + 1)]) = Queued(Tail(xs), 0)
         /\ Tail(Open(xs, s)) = Open(Tail(xs), 0)
         /\ Tail(xs) # <<>> => 0 \in 0 .. Tail(xs)[1].len
<1> DEFINE n == Len(xs)
           x == xs[1]
           ts == Tail(xs)
           q == Queued(xs, s)
           c == Open(xs, s)
           d == [q EXCEPT ![1] = ReadEntry(x, s + 1)]
<1>1. n \in Nat /\ n # 0 /\ 1 \in 1 .. n /\ DOMAIN xs = 1 .. n BY LenProperties, EmptySeq
<1>2. x \in Reads /\ x.len \in Nat /\ s \in Nat /\ s <= x.len BY <1>1, ElementOfSeq, ReadFields
<1>3. /\ q \in Seq(Entries) /\ c \in Seq(Contexts) /\ Len(q) = n /\ Len(c) = n
  BY ReadsTyped DEF Queued, Open
<1>4. /\ ts \in Seq(Reads) /\ Len(ts) = n - 1 /\ n - 1 \in Nat /\ DOMAIN ts = 1 .. n - 1
      /\ \A i \in 1 .. n - 1 : ts[i] = xs[i + 1]
  <2>1. ts \in Seq(Reads) /\ Len(ts) = n - 1 /\ \A i \in 1 .. n - 1 : ts[i] = xs[i + 1]
    BY <1>1, HeadTailProperties
  <2> QED BY <1>1, <2>1, LenProperties
<1>5. ts # <<>> => 0 \in 0 .. ts[1].len
  <2> SUFFICES ASSUME ts # <<>> PROVE 0 \in 0 .. ts[1].len OBVIOUS
  <2>1. 1 \in 1 .. Len(ts) BY <1>4, EmptySeq
  <2>2. ts[1] \in Reads BY <1>4, <2>1, ElementOfSeq
  <2>3. ts[1].len \in Nat BY <2>2, ReadFields
  <2> QED BY <2>3
<1> HIDE DEF ts
<1>6. /\ Queued(ts, 0) \in Seq(Entries) /\ Open(ts, 0) \in Seq(Contexts)
      /\ Len(Queued(ts, 0)) = n - 1 /\ Len(Open(ts, 0)) = n - 1
  BY <1>4, <1>5, ReadsTyped DEF Queued, Open
<1>7. \A i \in 2 .. n : q[i] = ReadEntry(xs[i], 0) /\ c[i] = Context(xs[i], 0)
  BY <1>1 DEF Sofar, Queued, Open
<1>8. \A i \in 1 .. n - 1 : /\ Queued(ts, 0)[i] = ReadEntry(xs[i + 1], 0)
                            /\ Open(ts, 0)[i] = Context(xs[i + 1], 0)
  BY <1>4 DEF Sofar, Queued, Open
<1>9. s < x.len => d = Queued(xs, s + 1) /\ [c EXCEPT ![1] = Context(x, s + 1)] = Open(xs, s + 1)
  BY <1>1 DEF Queued, Open, Sofar
<1>10. ReadEntry(x, s + 1) \in Entries
  BY <1>2, ReadFields, EmptySeq DEF ReadEntry, Entries
<1> HIDE DEF q, c, n, x
<1>11. d \in Seq(Entries) /\ Len(d) = n /\ d # <<>> /\ c # <<>>
       /\ \A i \in 1 .. n : d[i] = IF i = 1 THEN ReadEntry(x, s + 1) ELSE q[i]
  BY <1>1, <1>3, <1>10, ExceptSeq, EmptySeq
<1> HIDE DEF d
<1>12. /\ Tail(d) \in Seq(Entries) /\ Len(Tail(d)) = n - 1
       /\ \A i \in 1 .. n - 1 : Tail(d)[i] = d[i + 1]
       /\ Tail(c) \in Seq(Contexts) /\ Len(Tail(c)) = n - 1
       /\ \A i \in 1 .. n - 1 : Tail(c)[i] = c[i + 1]
  BY <1>3, <1>11, HeadTailProperties
<1>13. \A i \in 1 .. n - 1 : i + 1 \in 1 .. n /\ i + 1 \in 2 .. n /\ i + 1 # 1 BY <1>1
<1>14. Tail(d) = Queued(ts, 0)
  <2>1. \A i \in 1 .. n - 1 : Tail(d)[i] = Queued(ts, 0)[i] BY <1>7, <1>8, <1>11, <1>12, <1>13
  <2> QED BY <1>6, <1>12, <2>1, SeqEqual
<1>15. Tail(c) = Open(ts, 0)
  <2>1. \A i \in 1 .. n - 1 : Tail(c)[i] = Open(ts, 0)[i] BY <1>7, <1>8, <1>12, <1>13
  <2> QED BY <1>6, <1>12, <2>1, SeqEqual
<1> QED BY <1>5, <1>9, <1>14, <1>15 DEF d, q, c, x, ts

\* What remains without the first element is the tail.
LEMMA RemoveFirstIsTail ==
  ASSUME NEW S, NEW c \in Seq(S), c # <<>>
  PROVE  RemoveAt(c, 1) = Tail(c)
<1>1. RemoveAt(c, 1) = SubSeq(c, 1, 0) \o SubSeq(c, 2, Len(c)) BY DEF RemoveAt
<1>2. SubSeq(c, 1, 0) = <<>> BY SubSeqEmpty
<1>3. Tail(c) = SubSeq(c, 2, Len(c)) BY TailIsSubSeq
<1>4. Tail(c) \in Seq(S) BY HeadTailProperties
<1> QED BY <1>1, <1>2, <1>3, <1>4, ConcatEmptySeq

\* An R beat is one of the oldest read, on both sides, and is reported with the memory's word.
LEMMA TakeR ==
  ASSUME NEW may, SubEdge(AW, W, AR, B, R, may), monitor_bfm, Known,
         NEW xs \in Seq(Reads), NEW s, Reading(xs, s), xs # <<>>,
         AW = <<>>, W = <<>>, AR = <<>>, R
  PROVE  /\ s < xs[1].len => Reading(xs, s + 1)'
         /\ s = xs[1].len => Reading(Tail(xs), 0)'
         /\ \E rd \in Reports : seen' = Append(seen, rd) /\ rd.data = RData
         /\ sub'.mem = sub.mem /\ Known'
<1> DEFINE n == Len(xs)
           x == xs[1]
           q == Queued(xs, s)
           c == Open(xs, s)
           d == [q EXCEPT ![1] = ReadEntry(x, s + 1)]
<1>1. /\ Len(sub.q) = n /\ DOMAIN xs = 1 .. n /\ n \in Nat /\ Filling(sub.q) = {}
      /\ \A i \in 1 .. n : sub.q[i].kind = "R"
  BY ReadingShaped
<1>2. n # 0 /\ 1 \in 1 .. n BY <1>1, EmptySeq
<1>3. x \in Reads /\ LegalBurst(x) /\ x.len \in Nat /\ s \in 0 .. x.len /\ s \in Nat
  <2>1. x \in Reads BY <1>2, ElementOfSeq
  <2>2. x.len \in Nat /\ LegalBurst(x) BY <2>1, ReadFields
  <2> QED BY <2>1, <2>2 DEF Reading
<1>4. sub.q = q /\ mon.ar_q = c /\ mon.w_pending = <<>> BY DEF Reading, Queued, Open
<1>5. /\ q \in Seq(Entries) /\ c \in Seq(Contexts) /\ Len(q) = n /\ Len(c) = n
  <2>1. xs # <<>> => s \in 0 .. xs[1].len BY DEF Reading
  <2> QED BY <2>1, ReadsTyped DEF Queued, Open
<1>6. q[1] = ReadEntry(x, s) /\ c[1] = Context(x, s) BY <1>1, <1>2 DEF Sofar, Queued, Open
<1>7. /\ s < x.len => d = Queued(xs, s + 1) /\ [c EXCEPT ![1] = Context(x, s + 1)] = Open(xs, s + 1)
      /\ Tail(d) = Queued(Tail(xs), 0) /\ Tail(c) = Open(Tail(xs), 0)
      /\ Tail(xs) # <<>> => 0 \in 0 .. Tail(xs)[1].len
  BY <1>3, ReadsAdvance
<1>8. ReadEntry(x, s + 1) \in Entries
  BY <1>3, ReadFields, EmptySeq DEF ReadEntry, Entries
<1> HIDE DEF q, c, n, x
<1>9. q # <<>> /\ c # <<>> BY <1>2, <1>5, EmptySeq
<1>10. /\ d \in Seq(Entries) /\ Len(d) = n /\ d[1] = ReadEntry(x, s + 1) /\ d # <<>>
  BY <1>2, <1>5, <1>8, ExceptSeq, EmptySeq
<1>11. ~sub.bvalid BY <1>1, <1>2 DEF Known, Answers
<1>12. ~B BY <1>11 DEF B
<1>13. Delivered(<<>>, R) = d
  <2>1. Filled(<<>>) = q BY <1>4, <1>5, NoBeat
  <2>2. [ReadEntry(x, s) EXCEPT !.sent = @ + 1] = ReadEntry(x, s + 1) BY DEF ReadEntry
  <2>3. [q EXCEPT ![1].sent = @ + 1] = d BY <1>6, <2>2
  <2> QED BY <2>1, <2>3 DEF Delivered
<1> HIDE DEF d
<1> DEFINE old == IF s = x.len THEN Tail(d) ELSE d
<1>14. Left(<<>>, B, R) = old
  <2>1. d[1].sent = s + 1 /\ d[1].len = x.len BY <1>10 DEF ReadEntry
  <2>2. s + 1 > x.len <=> s = x.len BY <1>3
  <2>3. Left(<<>>, B, R) = IF d[1].sent > d[1].len THEN Tail(d) ELSE d BY <1>12, <1>13 DEF Left
  <2> QED BY <2>1, <2>2, <2>3
<1>15. old \in Seq(Entries) BY <1>10, HeadTailProperties
<1>16. sub'.q = old /\ sub'.mem = sub.mem
  <2>1. sub'.q = Left(W, B, R) \o Accepted(AW) \o Accepted(AR) /\ sub'.mem = sub.mem BY <1>12, EdgeNow
  <2> HIDE DEF old
  <2>2. old \o <<>> \o <<>> = old BY <1>15, ConcatEmptySeq
  <2> QED BY <1>14, <2>1, <2>2, NothingNew
<1>17. old # <<>> => old[1].kind = "R"
  <2>1. ~(s = x.len) => old[1].kind = "R" BY <1>10 DEF ReadEntry
  <2>2. CASE s = x.len /\ old # <<>>
    <3>1. old = Queued(Tail(xs), 0) BY <1>7, <2>2
    <3> HIDE DEF old
    <3>2. old \in Seq(Entries) /\ Len(old) # 0 BY <1>15, <2>2, EmptySeq
    <3>3. 1 \in DOMAIN old
      <4>1. Len(old) \in Nat /\ DOMAIN old = 1 .. Len(old) BY <3>2, LenProperties
      <4> QED BY <3>2, <4>1
    <3>4. 1 \in DOMAIN Tail(xs) BY <3>1, <3>3 DEF Queued
    <3>5. Queued(Tail(xs), 0)[1].kind = "R" BY <3>4 DEF Queued, ReadEntry
    <3> QED BY <3>1, <3>5
  <2> QED BY <2>1, <2>2
<1>18. Answers'
  <2>1. sub'.bvalid => \/ sub.bvalid /\ ~B
                       \/ Left(W, B, R) # <<>> /\ Left(W, B, R)[1].kind = "W" /\ Filling(Left(W, B, R)) = {}
    BY EdgeNow
  <2>2. sub'.rvalid => \/ sub.rvalid /\ ~R
                       \/ Left(W, B, R) # <<>> /\ Left(W, B, R)[1].kind = "R"
    BY EdgeNow
  <2> HIDE DEF old
  <2>3. ~sub'.bvalid BY <1>11, <1>14, <1>17, <2>1
  <2>4. sub'.rvalid => old # <<>> /\ old[1].kind = "R" BY <1>14, <2>2
  <2> QED BY <1>16, <2>3, <2>4 DEF Answers
<1> DEFINE on == Context(x, s + 1)
           rd == Report(FALSE, Beat(x, s), RData, x.len, n)
           open == IF s = x.len THEN Tail(c) ELSE [c EXCEPT ![1] = on]
<1>19. [Context(x, s) EXCEPT !.cur = NextOf(Context(x, s).cur, Context(x, s).item), !.rem = @ - 1] = on
  <2>1. NextOf(Beat(x, s), x) = Beat(x, s + 1) BY <1>3, NextBeat
  <2>2. ((x.len + 1) - s) - 1 = (x.len + 1) - (s + 1) BY <1>3
  <2>3. Context(x, s).cur = Beat(x, s) /\ Context(x, s).item = x /\ Context(x, s).rem = (x.len + 1) - s
    BY DEF Context
  <2>4. NextOf(Context(x, s).cur, Context(x, s).item) = Beat(x, s + 1) BY <2>1, <2>3
  <2> DEFINE at == Beat(x, s)
             to == NextOf(Context(x, s).cur, Context(x, s).item)
             left == (x.len + 1) - s
  <2>5. Context(x, s) = [cur |-> at, item |-> x, rem |-> left] BY DEF Context
  <2>6. on = [cur |-> to, item |-> x, rem |-> left - 1] BY <2>2, <2>4 DEF Context
  <2> HIDE DEF at, to, left, on
  <2> DEFINE m == Context(x, s)
  <2> HIDE DEF m
  <2>7. PICK z : z = [m EXCEPT !.cur = to] OBVIOUS
  <2>8. z = [cur |-> to, item |-> x, rem |-> left] BY <2>5, <2>7 DEF m
  <2>9. [z EXCEPT !.rem = left - 1] = [cur |-> to, item |-> x, rem |-> left - 1] BY <2>8
  <2>10. [z EXCEPT !.rem = left - 1] = [m EXCEPT !.cur = to, !.rem = left - 1] BY <2>7
  <2>11. m.rem = left BY <2>5 DEF m
  <2> QED BY <2>6, <2>9, <2>10, <2>11 DEF to, m
<1>20. c \o <<>> = c /\ [i \in DOMAIN AR |-> [cur |-> AR[i].addr, item |-> AR[i], rem |-> AR[i].len + 1]] = <<>>
       /\ [i \in DOMAIN W |-> <<mon.w_cur, W[i]>>] = <<>> /\ <<>> \o <<>> = <<>>
  BY <1>5, ConcatEmptySeq
<1>21. Context(x, s + 1).rem > 0 <=> s < x.len BY <1>3 DEF Context
<1>22. Context(x, s).cur = Beat(x, s) /\ Context(x, s).item = x BY DEF Context
<1>23. RemoveAt(c, 1) = Tail(c) BY <1>5, <1>9, RemoveFirstIsTail
<1> HIDE DEF on, rd
<1> DEFINE ctx == c[1]
           nxt == [ctx EXCEPT !.cur = NextOf(ctx.cur, ctx.item), !.rem = @ - 1]
<1>24. ctx = Context(x, s) /\ nxt = on BY <1>6, <1>19
<1>25. /\ seen' = seen \o <<>> \o <<Report(FALSE, ctx.cur, RData, ctx.item.len, Len(c))>>
       /\ mon' = [aw |-> mon.aw, w_cur |-> mon.w_cur, w_pending |-> <<>>,
                  ar_q |-> CASE ~R \/ c = <<>> -> c
                             [] R /\ c # <<>> /\ nxt.rem > 0 -> [c EXCEPT ![1] = nxt]
                             [] OTHER -> RemoveAt(c, 1)]
  <2>1. mon.ar_q \o [i \in DOMAIN AR |-> [cur |-> AR[i].addr, item |-> AR[i], rem |-> AR[i].len + 1]] = c
    BY <1>4, <1>20
  <2>2. mon.w_pending \o [i \in DOMAIN W |-> <<mon.w_cur, W[i]>>] = <<>> BY <1>4, <1>20
  <2> HIDE DEF nxt, ctx
  <2> QED BY <1>9, <1>12, <2>1, <2>2 DEF monitor_bfm, Owner, nxt, ctx
<1> HIDE DEF nxt, ctx
<1>26. mon' = [aw |-> mon.aw, w_cur |-> mon.w_cur, w_pending |-> <<>>, ar_q |-> open]
  <2>1. s < x.len <=> ~(s = x.len) BY <1>3
  <2> QED BY <1>9, <1>21, <1>23, <1>24, <1>25, <2>1 DEF on
<1>27. rd = Report(FALSE, ctx.cur, RData, ctx.item.len, Len(c)) BY <1>5, <1>22, <1>24 DEF rd
<1>28. RData = Word(sub.mem, Beat(x, s)) /\ RData \in Nat
  <2>1. Head(sub.q) = ReadEntry(x, s) BY <1>4, <1>6, <1>9
  <2>2. Beat(ReadEntry(x, s), s) = Beat(x, s) BY DEF Beat, ReadEntry
  <2>3. ReadEntry(x, s).sent = s BY DEF ReadEntry
  <2>4. RData = Word(sub.mem, Beat(x, s)) BY <2>1, <2>2, <2>3 DEF RData
  <2> QED BY <2>4 DEF Word, Known, Numbers
<1>29. rd \in Reports /\ ~rd.wr /\ rd.addr = Beat(x, s) /\ rd.data = RData
  <2>1. Beat(x, s) \in Nat BY <1>3, BeatIsAddress
  <2> QED BY <1>1, <1>3, <1>28, <2>1 DEF rd, Report, Reports
<1>30. seen' = Append(seen, rd)
  <2>1. seen \in Seq(Reports) BY DEF Known
  <2>2. seen \o <<>> = seen BY <2>1, ConcatEmptySeq
  <2>3. Append(seen, rd) = seen \o <<rd>> BY <1>29, <2>1, AppendIsConcat
  <2> QED BY <1>25, <1>27, <2>2, <2>3
<1>31. Known'
  <2>1. seen' \in Seq(Reports) BY <1>29, <1>30, AppendProperties DEF Known
  <2>2. Model(seen)' = sub'.mem BY <1>16, <1>29, <1>30, ModelAfterRead DEF Known
  <2>3. Mismatches(seen)' = {} BY <1>28, <1>29, <1>30, MatchAfterRead DEF Known
  <2> QED BY <1>16, <1>18, <1>26, <2>1, <2>2, <2>3 DEF Known, MonShape, Numbers
<1>32. s < x.len => Reading(xs, s + 1)'
  <2> SUFFICES ASSUME s < x.len PROVE Reading(xs, s + 1)' OBVIOUS
  <2>1. ~(s = x.len) /\ s + 1 \in 0 .. x.len BY <1>3
  <2>2. sub'.q = Queued(xs, s + 1) /\ mon'.ar_q = Open(xs, s + 1) /\ mon'.w_pending = <<>>
    BY <1>7, <1>16, <1>26, <2>1 DEF on
  <2> QED BY <2>1, <2>2 DEF Reading, Queued, Open, x
<1>33. s = x.len => Reading(Tail(xs), 0)'
  <2> SUFFICES ASSUME s = x.len PROVE Reading(Tail(xs), 0)' OBVIOUS
  <2>1. sub'.q = Queued(Tail(xs), 0) /\ mon'.ar_q = Open(Tail(xs), 0) /\ mon'.w_pending = <<>>
    BY <1>7, <1>16, <1>26
  <2> QED BY <1>7, <2>1 DEF Reading, Queued, Open
<1> QED BY <1>16, <1>29, <1>30, <1>31, <1>32, <1>33 DEF x

-----------------------------------------------------------------------------
(* The beats of a read_multi, counted.                                     *)

\* The beats of the reads reqs before beat s of read i.
Before(reqs, i, s) == {b \in BeatsOf(reqs) : b[1] < i \/ (b[1] = i /\ b[2] < s)}

\* The beats of the reads, each once.
LEMMA BeatsOfIs ==
  ASSUME NEW reqs \in Seq(Reads)
  PROVE  /\ \A i \in 1 .. Len(reqs) : \A s \in 0 .. reqs[i].len : <<i, s>> \in BeatsOf(reqs)
         /\ \A b \in BeatsOf(reqs) : /\ b = <<b[1], b[2]>>
                                     /\ b[1] \in 1 .. Len(reqs) /\ b[2] \in 0 .. reqs[b[1]].len
<1>1. DOMAIN reqs = 1 .. Len(reqs) BY LenProperties
<1>2. ASSUME NEW b \in BeatsOf(reqs)
      PROVE  b = <<b[1], b[2]>> /\ b[1] \in 1 .. Len(reqs) /\ b[2] \in 0 .. reqs[b[1]].len
  <2>1. PICK i \in DOMAIN reqs : b \in {i} \X (0 .. reqs[i].len) BY DEF BeatsOf
  <2> QED BY <1>1, <2>1
<1>3. ASSUME NEW i \in 1 .. Len(reqs), NEW s \in 0 .. reqs[i].len PROVE <<i, s>> \in BeatsOf(reqs)
  BY <1>1 DEF BeatsOf
<1> QED BY <1>2, <1>3

\* There are finitely many.
LEMMA BeatsFinite ==
  ASSUME NEW reqs \in Seq(Reads)
  PROVE  IsFiniteSet(BeatsOf(reqs))
<1> DEFINE I == 1 .. Len(reqs)
           S == {{i} \X (0 .. reqs[i].len) : i \in I}
           f == [i \in I |-> {i} \X (0 .. reqs[i].len)]
<1>1. DOMAIN reqs = I /\ Len(reqs) \in Nat BY LenProperties
<1>2. IsFiniteSet(I) BY <1>1, FS_Interval
<1>3. f \in Surjection(I, S) BY DEF Surjection
<1> HIDE DEF f
<1>4. IsFiniteSet(S) BY <1>2, <1>3, FS_Surjection
<1>5. ASSUME NEW i \in I PROVE IsFiniteSet({i} \X (0 .. reqs[i].len))
  <2>1. reqs[i].len \in Nat BY ElementOfSeq, ReadFields
  <2> DEFINE l == reqs[i].len
  <2> HIDE DEF l
  <2>2. IsFiniteSet(0 .. l)
    <3>1. 0 \in Int /\ l \in Int BY <2>1 DEF l
    <3> QED BY <3>1, FS_Interval
  <2> QED BY <2>2, FS_Singleton, FS_Product DEF l
<1>6. \A T \in S : IsFiniteSet(T) BY <1>5
<1>7. BeatsOf(reqs) = UNION S BY <1>1 DEF BeatsOf
<1> HIDE DEF S
<1> QED BY <1>4, <1>6, <1>7, FS_UNION

\* Nothing comes before the first beat; one beat is one more; the last beat leaves none.
LEMMA OneBeatMore ==
  ASSUME NEW reqs \in Seq(Reads), NEW i \in 1 .. Len(reqs), NEW s \in 0 .. reqs[i].len
  PROVE  /\ Cardinality(Before(reqs, 1, 0)) = 0
         /\ Cardinality(Before(reqs, i, s)) \in Nat
         /\ s < reqs[i].len => Cardinality(Before(reqs, i, s + 1)) = Cardinality(Before(reqs, i, s)) + 1
         /\ s = reqs[i].len => Cardinality(Before(reqs, i + 1, 0)) = Cardinality(Before(reqs, i, s)) + 1
         /\ Cardinality(Before(reqs, i, s)) + 1 = Cardinality(BeatsOf(reqs))
              <=> i = Len(reqs) /\ s = reqs[i].len
<1> DEFINE n == Len(reqs)
           P == Before(reqs, i, s)
           N == Before(reqs, i, s) \cup {<<i, s>>}
           all == BeatsOf(reqs)
<1>1. n \in Nat /\ reqs[i] \in Reads /\ reqs[i].len \in Nat /\ s \in Nat /\ i \in Nat
  <2>1. n \in Nat /\ reqs[i] \in Reads BY LenProperties, ElementOfSeq
  <2> QED BY <2>1, ReadFields
<1>2. <<i, s>> \in all /\ ~(<<i, s>> \in P)
  <2>1. ~(i < i) /\ ~(s < s) BY <1>1
  <2> QED BY <2>1, BeatsOfIs DEF Before
<1>3. \A b \in all : b = <<b[1], b[2]>> /\ b[1] \in 1 .. n /\ b[2] \in 0 .. reqs[b[1]].len BY BeatsOfIs
<1>4. IsFiniteSet(all) /\ P \subseteq all BY BeatsFinite DEF Before
<1>5. IsFiniteSet(P) BY <1>4, FS_Subset
<1>6. Cardinality(P) \in Nat /\ Cardinality(N) = Cardinality(P) + 1
  BY <1>2, <1>5, FS_CardinalityType, FS_AddElement
<1>7. N \subseteq all BY <1>2, <1>4
<1>8. \A b \in all : /\ b \in N <=> b[1] < i \/ (b[1] = i /\ b[2] < s) \/ (b[1] = i /\ b[2] = s)
                     /\ b[1] \in Nat /\ b[2] \in Nat
  <2>1. \A b \in all : b[1] \in Nat /\ b[2] \in Nat
    <3> SUFFICES ASSUME NEW b \in all PROVE b[1] \in Nat /\ b[2] \in Nat OBVIOUS
    <3>1. b[1] \in 1 .. n /\ b[2] \in 0 .. reqs[b[1]].len BY <1>3
    <3>2. reqs[b[1]].len \in Nat BY <3>1, ElementOfSeq, ReadFields
    <3> QED BY <1>1, <3>1, <3>2
  <2>2. \A b \in all : b = <<i, s>> <=> b[1] = i /\ b[2] = s BY <1>3
  <2>3. \A b \in all : b \in P <=> b[1] < i \/ (b[1] = i /\ b[2] < s) BY DEF Before
  <2> QED BY <2>1, <2>2, <2>3
<1>9. s < reqs[i].len => Before(reqs, i, s + 1) = N
  <2> SUFFICES ASSUME s < reqs[i].len PROVE Before(reqs, i, s + 1) = N OBVIOUS
  <2>1. \A k \in Nat : k < s + 1 <=> k < s \/ k = s BY <1>1
  <2>2. \A b \in all : b \in Before(reqs, i, s + 1) <=> b[1] < i \/ (b[1] = i /\ b[2] < s + 1) BY DEF Before
  <2>3. Before(reqs, i, s + 1) \subseteq all BY DEF Before
  <2> HIDE DEF N, all
  <2>4. \A b \in all : b \in Before(reqs, i, s + 1) <=> b \in N BY <1>8, <2>1, <2>2
  <2> QED BY <1>7, <2>3, <2>4
<1>10. s = reqs[i].len => Before(reqs, i + 1, 0) = N
  <2> SUFFICES ASSUME s = reqs[i].len PROVE Before(reqs, i + 1, 0) = N OBVIOUS
  <2>1. \A k \in Nat : k < i + 1 <=> k < i \/ k = i BY <1>1
  <2>2. \A k \in Nat : ~(k < 0) BY <1>1
  <2>3. \A b \in all : b[1] = i => b[2] < s \/ b[2] = s BY <1>1, <1>3
  <2>4. \A b \in all : b \in Before(reqs, i + 1, 0) <=> b[1] < i + 1 \/ (b[1] = i + 1 /\ b[2] < 0) BY DEF Before
  <2>5. Before(reqs, i + 1, 0) \subseteq all BY DEF Before
  <2> HIDE DEF N, all
  <2>6. \A b \in all : b \in Before(reqs, i + 1, 0) <=> b \in N BY <1>8, <2>1, <2>2, <2>3, <2>4
  <2> QED BY <1>7, <2>5, <2>6
<1>11. Cardinality(Before(reqs, 1, 0)) = 0
  <2>1. \A b \in all : ~(b[1] < 1) /\ ~(b[2] < 0) BY <1>3, <1>8
  <2>2. Before(reqs, 1, 0) = {} BY <2>1 DEF Before
  <2> QED BY <2>2, FS_EmptySet
<1>12. i = n /\ s = reqs[i].len => N = all
  <2> SUFFICES ASSUME i = n, s = reqs[i].len PROVE N = all OBVIOUS
  <2>1. ASSUME NEW b \in all PROVE b \in N
    <3>1. b[1] \in 1 .. n /\ b[2] \in 0 .. reqs[b[1]].len BY <1>3
    <3>2. CASE b[1] = i
      <4>1. b[2] < s \/ b[2] = s BY <1>1, <3>1, <3>2
      <4> QED BY <1>8, <3>2, <4>1
    <3>3. CASE b[1] # i
      <4>1. b[1] < i BY <1>1, <3>1, <3>3
      <4> QED BY <1>8, <4>1
    <3> QED BY <3>2, <3>3
  <2> HIDE DEF all, N
  <2> QED BY <1>7, <2>1
<1>13. Cardinality(N) = Cardinality(all) => N = all BY <1>4, <1>7, FS_Subset
<1>14. N = all => i = n /\ s = reqs[i].len
  <2> SUFFICES ASSUME N = all PROVE i = n /\ s = reqs[i].len OBVIOUS
  <2>1. s = reqs[i].len
    <3> SUFFICES ASSUME s # reqs[i].len PROVE FALSE OBVIOUS
    <3>1. s + 1 \in 0 .. reqs[i].len BY <1>1
    <3>2. <<i, s + 1>> \in all BY <3>1, BeatsOfIs
    <3>3. ~(i < i) /\ ~(s + 1 < s) /\ ~(s + 1 = s) BY <1>1
    <3>4. <<i, s + 1>>[1] = i /\ <<i, s + 1>>[2] = s + 1 OBVIOUS
    <3> HIDE DEF N, all
    <3> QED BY <1>8, <3>2, <3>3, <3>4
  <2>2. i = n
    <3> SUFFICES ASSUME i # n PROVE FALSE OBVIOUS
    <3>1. i + 1 \in 1 .. n BY <1>1
    <3>2. reqs[i + 1].len \in Nat BY <3>1, ElementOfSeq, ReadFields
    <3>3. <<i + 1, 0>> \in all
      <4>1. 0 \in 0 .. reqs[i + 1].len BY <3>2
      <4> QED BY <3>1, <4>1, BeatsOfIs
    <3>4. ~(i + 1 < i) /\ ~(i + 1 = i) BY <1>1
    <3>5. <<i + 1, 0>>[1] = i + 1 OBVIOUS
    <3> HIDE DEF N, all
    <3> QED BY <1>8, <3>3, <3>4, <3>5
  <2> QED BY <2>1, <2>2
<1> QED BY <1>6, <1>9, <1>10, <1>11, <1>12, <1>13, <1>14

-----------------------------------------------------------------------------
(* The driver: where it is, and what is in hand there.                     *)

On  == TRUE
Off == FALSE
At(p, x, k, bs) == [pc |-> p, item |-> x, k |-> k, beats |-> bs]
Pins(aw, w, ar, b, r) == [aw |-> aw, w |-> w, ar |-> ar, bready |-> b, rready |-> r]

\* The last k reports are of the beats bs.
Got(k, bs) == k <= Len(seen) /\ bs = [i \in 1 .. k |-> seen[(Len(seen) - k) + i].data]

\* _wburst, with the write x in hand.
WriteIn(x) ==
  LET n == x.len + 1
  IN  \/ bfm = At("aw_drive", x, 0, <<>>) /\ pin = Quiet /\ Empty
      \/ bfm = At("aw_wait", x, 0, <<>>) /\ pin = Pins(<<x>>, <<>>, <<>>, On, Off) /\ Empty
      \/ /\ bfm = At("aw_done", x, 0, <<>>) /\ pin = Pins(<<x>>, <<>>, <<>>, On, Off)
         /\ edge = "fall" /\ Writing(x, 0)
      \/ \E k \in 1 .. n :
           /\ bfm = At("w_wait", x, k, <<>>) /\ pin = Pins(<<>>, <<x.beats[k]>>, <<>>, On, Off)
           /\ Writing(x, k - 1)
      \/ \E k \in 1 .. n :
           /\ bfm = At("w_done", x, k, <<>>) /\ pin = Pins(<<>>, <<x.beats[k]>>, <<>>, On, Off)
           /\ edge = "fall" /\ Writing(x, k)
      \/ bfm = At("b_wait", x, n, <<>>) /\ pin = Pins(<<>>, <<>>, <<>>, On, Off) /\ Writing(x, n)
      \/ /\ bfm = At("b_taken", x, n, <<>>) /\ pin = Pins(<<>>, <<>>, <<>>, On, Off) /\ Writing(x, n)
         /\ edge = "rise" /\ sub.bvalid
      \/ bfm = At("b_done", x, n, <<>>) /\ pin = Pins(<<>>, <<>>, <<>>, On, Off) /\ Empty /\ edge = "fall"

\* _rburst, with the read x in hand.
ReadIn(x) ==
  \/ bfm = At("ar_drive", x, 0, <<>>) /\ pin = Quiet /\ Empty
  \/ bfm = At("ar_wait", x, 0, <<>>) /\ pin = Pins(<<>>, <<>>, <<x>>, Off, On) /\ Empty
  \/ /\ bfm = At("ar_done", x, 0, <<>>) /\ pin = Pins(<<>>, <<>>, <<x>>, Off, On)
     /\ edge = "fall" /\ Reading(<<x>>, 0) /\ ~sub.rvalid
  \/ \E k \in 0 .. x.len : \E bs :
       /\ bfm = At("r_wait", x, k, bs) /\ pin = Pins(<<>>, <<>>, <<>>, Off, On)
       /\ Got(k, bs) /\ Reading(<<x>>, k)
  \/ \E k \in 1 .. x.len + 1 : \E bs :
       /\ bfm = At("r_accept", x, k, bs) /\ pin = Pins(<<>>, <<>>, <<>>, Off, On)
       /\ Got(k, bs) /\ IF k <= x.len THEN Reading(<<x>>, k) ELSE Empty
  \/ \E bs :
       /\ bfm = At("r_done", x, x.len + 1, bs) /\ pin = Pins(<<>>, <<>>, <<>>, Off, On)
       /\ Got(x.len + 1, bs) /\ Empty /\ edge = "fall"

\* read_multi, with x in hand.
MultiIn(x) ==
  LET reqs == x.reqs
      n    == Len(reqs)
  IN  \/ \E k \in 0 .. n - 1 :
           bfm = At("m_drive", x, k, <<>>) /\ pin = Quiet /\ Reading(SubSeq(reqs, 1, k), 0)
      \/ \E k \in 1 .. n :
           /\ bfm = At("m_wait", x, k, <<>>) /\ pin = Pins(<<>>, <<>>, <<reqs[k]>>, Off, Off)
           /\ Reading(SubSeq(reqs, 1, k - 1), 0)
      \/ \E k \in 1 .. n :
           /\ bfm = At("m_done", x, k, <<>>) /\ pin = Pins(<<>>, <<>>, <<reqs[k]>>, Off, Off)
           /\ edge = "fall" /\ Reading(SubSeq(reqs, 1, k), 0)
      \/ \E i \in 1 .. n : \E s \in 0 .. reqs[i].len :
           /\ bfm = At("m_drain", x, Cardinality(Before(reqs, i, s)), <<>>)
           /\ pin = Pins(<<>>, <<>>, <<>>, Off, On) /\ Reading(SubSeq(reqs, i, n), s)
      \/ \E k :
           bfm = At("m_end", x, k, <<>>) /\ pin = Pins(<<>>, <<>>, <<>>, Off, On) /\ Empty /\ edge = "fall"

\* Between two transfers.
Between ==
  /\ bfm = At("idle", bfm.item, bfm.k, bfm.beats) /\ pin = Quiet /\ Empty
  /\ bfm.item.kind = "R" /\ seen # <<>> => Got(bfm.item.len + 1, bfm.beats)

InHand ==
  \/ Between
  \/ \E x \in Writes : WriteIn(x)
  \/ \E x \in Reads : ReadIn(x)
  \/ \E x \in Multis : MultiIn(x)

\* A coroutine awaits something else.
LEMMA Goes ==
  ASSUME NEW p, NEW x, NEW k, NEW bs, NEW q, bfm = At(p, x, k, bs), bfm' = [bfm EXCEPT !.pc = q]
  PROVE  bfm' = At(q, x, k, bs)
BY DEF At

SetAW(y, u) == [y EXCEPT !.aw = u]
SetW(y, u)  == [y EXCEPT !.w = u]
SetAR(y, u) == [y EXCEPT !.ar = u]
SetB(y, u)  == [y EXCEPT !.bready = u]
SetR(y, u)  == [y EXCEPT !.rready = u]

\* One pin is set.
LEMMA PinSet ==
  ASSUME NEW a, NEW w, NEW r, NEW b, NEW t, NEW u
  PROVE  /\ SetAW(Pins(a, w, r, b, t), u) = Pins(u, w, r, b, t)
         /\ SetW(Pins(a, w, r, b, t), u) = Pins(a, u, r, b, t)
         /\ SetAR(Pins(a, w, r, b, t), u) = Pins(a, w, u, b, t)
         /\ SetB(Pins(a, w, r, b, t), u) = Pins(a, w, r, u, t)
         /\ SetR(Pins(a, w, r, b, t), u) = Pins(a, w, r, b, u)
<1>1. SetAW(Pins(a, w, r, b, t), u) = Pins(u, w, r, b, t) BY DEF Pins, SetAW
<1>2. SetW(Pins(a, w, r, b, t), u) = Pins(a, u, r, b, t) BY DEF Pins, SetW
<1>3. SetAR(Pins(a, w, r, b, t), u) = Pins(a, w, u, b, t) BY DEF Pins, SetAR
<1>4. SetB(Pins(a, w, r, b, t), u) = Pins(a, w, r, u, t) BY DEF Pins, SetB
<1>5. SetR(Pins(a, w, r, b, t), u) = Pins(a, w, r, b, u) BY DEF Pins, SetR
<1> QED BY <1>1, <1>2, <1>3, <1>4, <1>5

\* Quiet, pin by pin.
LEMMA QuietPins == Quiet = Pins(<<>>, <<>>, <<>>, Off, Off)
BY DEF Quiet, Pins, Off

\* _wburst drives AW.
LEMMA DrivesAW ==
  ASSUME NEW u, pin = Quiet, pin' = [pin EXCEPT !.aw = u, !.bready = TRUE]
  PROVE  pin' = Pins(u, <<>>, <<>>, On, Off)
<1>1. PICK z : z = [pin EXCEPT !.aw = u] OBVIOUS
<1>2. pin' = [z EXCEPT !.bready = On] BY <1>1 DEF On
<1>3. pin' = SetB(SetAW(pin, u), On) BY <1>1, <1>2 DEF SetAW, SetB
<1> QED BY <1>3, PinSet, QuietPins

\* _wburst drops AW and drives the first W beat.
LEMMA DrivesW ==
  ASSUME NEW a, NEW u, pin = Pins(a, <<>>, <<>>, On, Off), pin' = [pin EXCEPT !.aw = <<>>, !.w = u]
  PROVE  pin' = Pins(<<>>, u, <<>>, On, Off)
<1>1. PICK z : z = [pin EXCEPT !.aw = <<>>] OBVIOUS
<1>2. pin' = [z EXCEPT !.w = u] BY <1>1
<1>3. pin' = SetW(SetAW(pin, <<>>), u) BY <1>1, <1>2 DEF SetAW, SetW
<1> QED BY <1>3, PinSet

\* _wburst drives the next W beat, or none.
LEMMA DrivesNextW ==
  ASSUME NEW a, NEW u, pin = Pins(<<>>, a, <<>>, On, Off), pin' = [pin EXCEPT !.w = u]
  PROVE  pin' = Pins(<<>>, u, <<>>, On, Off)
<1>1. pin' = SetW(pin, u) BY DEF SetW
<1> QED BY <1>1, PinSet

\* _rburst drives AR.
LEMMA DrivesAR ==
  ASSUME NEW u, pin = Quiet, pin' = [pin EXCEPT !.ar = u, !.rready = TRUE]
  PROVE  pin' = Pins(<<>>, <<>>, u, Off, On)
<1>1. PICK z : z = [pin EXCEPT !.ar = u] OBVIOUS
<1>2. pin' = [z EXCEPT !.rready = On] BY <1>1 DEF On
<1>3. pin' = SetR(SetAR(pin, u), On) BY <1>1, <1>2 DEF SetAR, SetR
<1> QED BY <1>3, PinSet, QuietPins

\* _rburst drops AR.
LEMMA DropsAR ==
  ASSUME NEW u, pin = Pins(<<>>, <<>>, u, Off, On), pin' = [pin EXCEPT !.ar = <<>>]
  PROVE  pin' = Pins(<<>>, <<>>, <<>>, Off, On)
<1>1. pin' = SetAR(pin, <<>>) BY DEF SetAR
<1> QED BY <1>1, PinSet

\* read_multi drives AR, without being ready for data.
LEMMA DrivesOneAR ==
  ASSUME NEW u, pin = Quiet, pin' = [pin EXCEPT !.ar = u]
  PROVE  pin' = Pins(<<>>, <<>>, u, Off, Off)
<1>1. pin' = SetAR(pin, u) BY DEF SetAR
<1> QED BY <1>1, PinSet, QuietPins

\* read_multi drops AR, and is ready after the last.
LEMMA DropsOneAR ==
  ASSUME NEW u, NEW last, pin = Pins(<<>>, <<>>, u, Off, Off),
         pin' = [pin EXCEPT !.ar = <<>>, !.rready = last]
  PROVE  pin' = Pins(<<>>, <<>>, <<>>, Off, last)
<1>1. PICK z : z = [pin EXCEPT !.ar = <<>>] OBVIOUS
<1>2. pin' = [z EXCEPT !.rready = last] BY <1>1
<1>3. pin' = SetR(SetAR(pin, <<>>), last) BY <1>1, <1>2 DEF SetAR, SetR
<1> QED BY <1>3, PinSet

\* At the end of a transfer all pins are quiet.
LEMMA DropsReady ==
  /\ pin = Pins(<<>>, <<>>, <<>>, On, Off) /\ pin' = [pin EXCEPT !.bready = FALSE] => pin' = Quiet
  /\ pin = Pins(<<>>, <<>>, <<>>, Off, On) /\ pin' = [pin EXCEPT !.rready = FALSE] => pin' = Quiet
<1>1. ASSUME pin = Pins(<<>>, <<>>, <<>>, On, Off), pin' = [pin EXCEPT !.bready = FALSE] PROVE pin' = Quiet
  <2>1. pin' = SetB(pin, Off) BY <1>1 DEF SetB, Off
  <2> QED BY <1>1, <2>1, PinSet, QuietPins
<1>2. ASSUME pin = Pins(<<>>, <<>>, <<>>, Off, On), pin' = [pin EXCEPT !.rready = FALSE] PROVE pin' = Quiet
  <2>1. pin' = SetR(pin, Off) BY <1>2 DEF SetR, Off
  <2> QED BY <1>2, <2>1, PinSet, QuietPins
<1> QED BY <1>1, <1>2

Waiting == {"aw_wait", "w_wait", "b_wait", "ar_wait", "r_wait", "r_accept", "m_wait", "m_drain"}

\* What a coroutine does at a falling edge, by what it awaits.
LEMMA FallDoes ==
  ASSUME Coroutines, edge = "fall"
  PROVE  /\ bfm.pc = "aw_drive" =>
              pin' = [pin EXCEPT !.aw = <<bfm.item>>, !.bready = TRUE] /\ Goto("aw_wait")
         /\ bfm.pc = "aw_done" =>
              /\ pin' = [pin EXCEPT !.aw = <<>>, !.w = <<bfm.item.beats[1]>>]
              /\ bfm' = [bfm EXCEPT !.pc = "w_wait", !.k = 1]
         /\ bfm.pc = "w_done" =>
              \/ /\ bfm.k < Len(bfm.item.beats)
                 /\ pin' = [pin EXCEPT !.w = <<bfm.item.beats[bfm.k + 1]>>]
                 /\ bfm' = [bfm EXCEPT !.pc = "w_wait", !.k = @ + 1]
              \/ /\ bfm.k = Len(bfm.item.beats)
                 /\ pin' = [pin EXCEPT !.w = <<>>]
                 /\ Goto(IF sub.bvalid THEN "b_taken" ELSE "b_wait")
         /\ bfm.pc = "b_done" => pin' = [pin EXCEPT !.bready = FALSE] /\ Goto("idle")
         /\ bfm.pc = "ar_drive" =>
              pin' = [pin EXCEPT !.ar = <<bfm.item>>, !.rready = TRUE] /\ Goto("ar_wait")
         /\ bfm.pc = "ar_done" =>
              /\ pin' = [pin EXCEPT !.ar = <<>>]
              /\ bfm' = IF sub.rvalid THEN append_beat(bfm) ELSE [bfm EXCEPT !.pc = "r_wait"]
         /\ bfm.pc = "r_done" => pin' = [pin EXCEPT !.rready = FALSE] /\ Goto("idle")
         /\ bfm.pc = "m_drive" =>
              /\ pin' = [pin EXCEPT !.ar = <<bfm.item.reqs[bfm.k + 1]>>]
              /\ bfm' = [bfm EXCEPT !.pc = "m_wait", !.k = @ + 1]
         /\ bfm.pc = "m_done" =>
              /\ pin' = [pin EXCEPT !.ar = <<>>, !.rready = bfm.k = Len(bfm.item.reqs)]
              /\ bfm' = IF bfm.k < Len(bfm.item.reqs) THEN [bfm EXCEPT !.pc = "m_drive"]
                        ELSE [bfm EXCEPT !.pc = "m_drain", !.k = 0]
         /\ bfm.pc = "m_end" => pin' = [pin EXCEPT !.rready = FALSE] /\ Goto("idle")
         /\ bfm.pc \in Waiting => pin' = pin /\ bfm' = bfm
         /\ bfm.pc \notin {"idle", "b_taken"}
<1>1. CASE _wburst BY <1>1 DEF _wburst, Until, Waiting
<1>2. CASE _rburst BY <1>2 DEF _rburst, Until, Waiting
<1>3. CASE read_multi BY <1>3 DEF read_multi, Until, Waiting
<1>4. CASE OtherEdge BY <1>4 DEF OtherEdge, Stay, Waiting
<1> QED BY <1>1, <1>2, <1>3, <1>4 DEF Coroutines

\* What a coroutine does at a rising edge, by what it awaits.
LEMMA RiseDoes ==
  ASSUME Coroutines, edge = "rise"
  PROVE  /\ pin' = pin
         /\ bfm.pc \in {"aw_drive", "ar_drive", "m_drive"} => bfm' = bfm
         /\ bfm.pc = "aw_wait" => IF sub.awrdy THEN Goto("aw_done") ELSE bfm' = bfm
         /\ bfm.pc = "w_wait" => IF sub.wrdy THEN Goto("w_done") ELSE bfm' = bfm
         /\ bfm.pc = "b_wait" => IF sub.bvalid THEN Goto("b_done") ELSE bfm' = bfm
         /\ bfm.pc = "b_taken" => Goto("b_done")
         /\ bfm.pc = "ar_wait" => IF sub.arrdy THEN Goto("ar_done") ELSE bfm' = bfm
         /\ bfm.pc = "r_wait" => bfm' = IF sub.rvalid THEN append_beat(bfm) ELSE bfm
         /\ bfm.pc = "r_accept" =>
              bfm' = CASE bfm.k > bfm.item.len -> [bfm EXCEPT !.pc = "r_done"]
                       [] bfm.k <= bfm.item.len /\ sub.rvalid -> append_beat(bfm)
                       [] OTHER -> [bfm EXCEPT !.pc = "r_wait"]
         /\ bfm.pc = "m_wait" => IF sub.arrdy THEN Goto("m_done") ELSE bfm' = bfm
         /\ bfm.pc = "m_drain" =>
              bfm' = IF ~sub.rvalid THEN bfm
                     ELSE [bfm EXCEPT !.k = @ + 1, !.pc = IF bfm.k + 1 = remaining THEN "m_end" ELSE @]
         /\ bfm.pc \in {"aw_drive", "ar_drive", "m_drive", "b_taken"} \cup Waiting
<1>1. CASE _wburst BY <1>1 DEF _wburst, Until, Waiting
<1>2. CASE _rburst BY <1>2 DEF _rburst, Until, Waiting
<1>3. CASE read_multi BY <1>3 DEF read_multi, Until, Waiting
<1>4. CASE OtherEdge BY <1>4 DEF OtherEdge, Stay, Waiting
<1> QED BY <1>1, <1>2, <1>3, <1>4 DEF Coroutines

\* At a falling edge only the driver and its pins change.
LEMMA FallKeeps ==
  ASSUME Known, Fall
  PROVE  /\ Known' /\ edge = "fall" /\ edge' = "rise" /\ Coroutines
         /\ mon' = mon /\ seen' = seen /\ sub' = sub
BY DEF Fall, Known, MonShape, Answers, Numbers

-----------------------------------------------------------------------------
(* Each transfer, edge by edge.                                            *)

\* A falling edge with a write in hand.
LEMMA WriteFalls ==
  ASSUME NEW x \in Writes, WriteIn(x), Known, Fall
  PROVE  (WriteIn(x) \/ Between)'
<1> DEFINE n == x.len + 1
<1>1. /\ edge = "fall" /\ edge' = "rise" /\ Coroutines
      /\ mon' = mon /\ seen' = seen /\ sub' = sub
  BY FallKeeps
<1>2. x.len \in Nat /\ n \in Nat /\ 1 \in 1 .. n /\ Len(x.beats) = n /\ x.kind = "W" BY WriteFields
<1>4. CASE bfm = At("aw_drive", x, 0, <<>>) /\ pin = Quiet /\ Empty
  <2>1. bfm.pc = "aw_drive" /\ bfm.item = x BY <1>4 DEF At
  <2>2. pin' = [pin EXCEPT !.aw = <<x>>, !.bready = TRUE] /\ bfm' = [bfm EXCEPT !.pc = "aw_wait"]
    BY <1>1, <2>1, FallDoes DEF Goto
  <2>3. pin' = Pins(<<x>>, <<>>, <<>>, On, Off) BY <1>4, <2>2, DrivesAW
  <2>4. bfm' = At("aw_wait", x, 0, <<>>) BY <1>4, <2>2, Goes
  <2> QED BY <1>1, <1>4, <2>3, <2>4 DEF WriteIn, Empty
<1>5. CASE /\ bfm = At("aw_done", x, 0, <<>>) /\ pin = Pins(<<x>>, <<>>, <<>>, On, Off)
           /\ edge = "fall" /\ Writing(x, 0)
  <2>1. bfm.pc = "aw_done" /\ bfm.item = x BY <1>5 DEF At
  <2>2. /\ pin' = [pin EXCEPT !.aw = <<>>, !.w = <<x.beats[1]>>]
        /\ bfm' = [bfm EXCEPT !.pc = "w_wait", !.k = 1]
    BY <1>1, <2>1, FallDoes
  <2>3. pin' = Pins(<<>>, <<x.beats[1]>>, <<>>, On, Off) BY <1>5, <2>2, DrivesW
  <2>4. bfm' = At("w_wait", x, 1, <<>>)
    <3>1. PICK y : y = [bfm EXCEPT !.pc = "w_wait"] OBVIOUS
    <3>2. y = At("w_wait", x, 0, <<>>) BY <1>5, <3>1 DEF At
    <3>3. bfm' = [y EXCEPT !.k = 1] BY <2>2, <3>1
    <3> QED BY <3>2, <3>3 DEF At
  <2>5. Writing(x, 1 - 1)' BY <1>1, <1>5 DEF Writing
  <2> QED BY <1>2, <2>3, <2>4, <2>5 DEF WriteIn
<1>6. ASSUME NEW k \in 1 .. n,
             bfm = At("w_wait", x, k, <<>>), pin = Pins(<<>>, <<x.beats[k]>>, <<>>, On, Off),
             Writing(x, k - 1)
      PROVE  WriteIn(x)'
  <2>1. bfm.pc = "w_wait" BY <1>6 DEF At
  <2>2. pin' = pin /\ bfm' = bfm BY <1>1, <2>1, FallDoes DEF Waiting
  <2>3. Writing(x, k - 1)' BY <1>1, <1>6 DEF Writing
  <2> QED BY <1>6, <2>2, <2>3 DEF WriteIn
<1>7. ASSUME NEW k \in 1 .. n,
             bfm = At("w_done", x, k, <<>>), pin = Pins(<<>>, <<x.beats[k]>>, <<>>, On, Off),
             Writing(x, k)
      PROVE  WriteIn(x)'
  <2>1. bfm.pc = "w_done" /\ bfm.item = x /\ bfm.k = k BY <1>7 DEF At
  <2>2. \/ /\ k < n
           /\ pin' = [pin EXCEPT !.w = <<x.beats[k + 1]>>]
           /\ bfm' = [bfm EXCEPT !.pc = "w_wait", !.k = k + 1]
        \/ /\ k = n
           /\ pin' = [pin EXCEPT !.w = <<>>]
           /\ bfm' = [bfm EXCEPT !.pc = IF sub.bvalid THEN "b_taken" ELSE "b_wait"]
    BY <1>1, <1>2, <2>1, FallDoes DEF Goto
  <2>3. CASE /\ k < n
             /\ pin' = [pin EXCEPT !.w = <<x.beats[k + 1]>>]
             /\ bfm' = [bfm EXCEPT !.pc = "w_wait", !.k = k + 1]
    <3>1. pin' = Pins(<<>>, <<x.beats[k + 1]>>, <<>>, On, Off) BY <1>7, <2>3, DrivesNextW
    <3>2. bfm' = At("w_wait", x, k + 1, <<>>)
      <4>1. PICK y : y = [bfm EXCEPT !.pc = "w_wait"] OBVIOUS
      <4>2. y = At("w_wait", x, k, <<>>) BY <1>7, <4>1 DEF At
      <4>3. bfm' = [y EXCEPT !.k = k + 1] BY <2>3, <4>1
      <4> QED BY <4>2, <4>3 DEF At
    <3>3. k + 1 \in 1 .. n /\ (k + 1) - 1 = k BY <1>2, <2>3
    <3>4. Writing(x, (k + 1) - 1)' BY <1>1, <1>7, <3>3 DEF Writing
    <3> QED BY <3>1, <3>2, <3>3, <3>4 DEF WriteIn
  <2>4. CASE /\ k = n
             /\ pin' = [pin EXCEPT !.w = <<>>]
             /\ bfm' = [bfm EXCEPT !.pc = IF sub.bvalid THEN "b_taken" ELSE "b_wait"]
    <3>1. pin' = Pins(<<>>, <<>>, <<>>, On, Off) BY <1>7, <2>4, DrivesNextW
    <3>2. bfm' = At(IF sub.bvalid THEN "b_taken" ELSE "b_wait", x, n, <<>>) BY <1>7, <2>4, Goes
    <3>3. Writing(x, n)' BY <1>1, <1>7, <2>4 DEF Writing
    <3> QED BY <1>1, <3>1, <3>2, <3>3 DEF WriteIn
  <2> QED BY <2>2, <2>3, <2>4
<1>8. CASE bfm = At("b_wait", x, n, <<>>) /\ pin = Pins(<<>>, <<>>, <<>>, On, Off) /\ Writing(x, n)
  <2>1. bfm.pc = "b_wait" BY <1>8 DEF At
  <2>2. pin' = pin /\ bfm' = bfm BY <1>1, <2>1, FallDoes DEF Waiting
  <2>3. Writing(x, n)' BY <1>1, <1>8 DEF Writing
  <2> QED BY <1>8, <2>2, <2>3 DEF WriteIn
<1>9. CASE bfm = At("b_done", x, n, <<>>) /\ pin = Pins(<<>>, <<>>, <<>>, On, Off) /\ Empty /\ edge = "fall"
  <2>1. bfm.pc = "b_done" BY <1>9 DEF At
  <2>2. pin' = [pin EXCEPT !.bready = FALSE] /\ bfm' = [bfm EXCEPT !.pc = "idle"]
    BY <1>1, <2>1, FallDoes DEF Goto
  <2>3. pin' = Quiet BY <1>9, <2>2, DropsReady
  <2>4. bfm' = At("idle", x, n, <<>>) BY <1>9, <2>2, Goes
  <2>5. bfm'.item = x /\ bfm'.k = n /\ bfm'.beats = <<>> BY <2>4 DEF At
  <2> QED BY <1>1, <1>2, <1>9, <2>3, <2>4, <2>5 DEF Between, Empty
<1> QED
  <2>1. ASSUME bfm = At("aw_wait", x, 0, <<>>), pin = Pins(<<x>>, <<>>, <<>>, On, Off), Empty
        PROVE  WriteIn(x)'
    <3>1. bfm.pc = "aw_wait" BY <2>1 DEF At
    <3>2. pin' = pin /\ bfm' = bfm BY <1>1, <3>1, FallDoes DEF Waiting
    <3> QED BY <1>1, <2>1, <3>2 DEF WriteIn, Empty
  <2> QED BY <1>1, <1>4, <1>5, <1>6, <1>7, <1>8, <1>9, <2>1 DEF WriteIn

\* What happens at a rising edge.
LEMMA RiseIs ==
  ASSUME NEW may, Rise(may)
  PROVE  /\ edge = "rise" /\ edge' = "fall" /\ Coroutines /\ pin' = pin
         /\ SubEdge(AW, W, AR, B, R, may) /\ monitor_bfm
BY RiseDoes DEF Rise

\* At a rising edge, when what is handshaken is the W beats of a write, or nothing.
LEMMA WriteEdge ==
  ASSUME NEW may, Rise(may), Known, NEW x \in Writes, NEW j \in 0 .. x.len + 1, Writing(x, j),
         AW = <<>>, W = <<>>, AR = <<>>, ~R, ~B
  PROVE  Known' /\ Writing(x, j)'
<1>1. Shaped BY WritingShaped
<1>2. sub'.q = sub.q /\ mon' = mon /\ Known' BY <1>1, RiseIs, QuietEdge
<1> QED BY <1>2 DEF Writing

\* At a rising edge, when nothing is in hand and nothing is offered.
LEMMA EmptyEdge ==
  ASSUME NEW may, Rise(may), Known, Empty, AW = <<>>, W = <<>>, AR = <<>>
  PROVE  Known' /\ Empty' /\ seen' = seen
<1>1. Shaped BY EmptySeq DEF Shaped, Empty
<1>2. ~B /\ ~R BY DEF B, R, Known, Answers, Empty
<1>3. sub'.q = sub.q /\ mon' = mon /\ seen' = seen /\ Known' BY <1>1, <1>2, RiseIs, QuietEdge
<1> QED BY <1>3 DEF Empty

\* A rising edge with a write in hand.
LEMMA WriteRises ==
  ASSUME NEW x \in Writes, WriteIn(x), Known, NEW may, Rise(may)
  PROVE  WriteIn(x)' /\ Known'
<1> DEFINE n == x.len + 1
<1>1. /\ edge = "rise" /\ edge' = "fall" /\ Coroutines /\ pin' = pin
      /\ SubEdge(AW, W, AR, B, R, may) /\ monitor_bfm
  BY RiseIs
<1>2. x.len \in Nat /\ n \in Nat /\ n \in 0 .. x.len + 1 BY WriteFields
<1>3. CASE bfm = At("aw_drive", x, 0, <<>>) /\ pin = Quiet /\ Empty
  <2>1. bfm.pc = "aw_drive" BY <1>3 DEF At
  <2>2. bfm' = bfm BY <1>1, <2>1, RiseDoes
  <2>3. AW = <<>> /\ W = <<>> /\ AR = <<>> BY <1>3 DEF AW, W, AR, Quiet
  <2>4. Known' /\ Empty' BY <1>3, <2>3, EmptyEdge
  <2> QED BY <1>1, <1>3, <2>2, <2>4 DEF WriteIn
<1>4. CASE bfm = At("aw_wait", x, 0, <<>>) /\ pin = Pins(<<x>>, <<>>, <<>>, On, Off) /\ Empty
  <2>1. bfm.pc = "aw_wait" BY <1>4 DEF At
  <2>2. AW = (IF sub.awrdy THEN <<x>> ELSE <<>>) /\ W = <<>> /\ AR = <<>> /\ ~R
    BY <1>4 DEF AW, W, AR, R, Pins, Off
  <2>3. CASE sub.awrdy
    <3>1. bfm' = [bfm EXCEPT !.pc = "aw_done"] BY <1>1, <2>1, <2>3, RiseDoes DEF Goto
    <3>2. bfm' = At("aw_done", x, 0, <<>>) BY <1>4, <3>1, Goes
    <3>3. Writing(x, 0)' /\ Known' BY <1>1, <1>4, <2>2, <2>3, TakeAW
    <3> QED BY <1>1, <1>4, <3>2, <3>3 DEF WriteIn
  <2>4. CASE ~sub.awrdy
    <3>1. bfm' = bfm BY <1>1, <2>1, <2>4, RiseDoes
    <3>2. Known' /\ Empty' BY <1>4, <2>2, <2>4, EmptyEdge
    <3> QED BY <1>1, <1>4, <3>1, <3>2 DEF WriteIn
  <2> QED BY <2>3, <2>4
<1>5. ASSUME NEW k \in 1 .. n,
             bfm = At("w_wait", x, k, <<>>), pin = Pins(<<>>, <<x.beats[k]>>, <<>>, On, Off),
             Writing(x, k - 1)
      PROVE  WriteIn(x)' /\ Known'
  <2>1. bfm.pc = "w_wait" BY <1>5 DEF At
  <2>2. k - 1 \in 0 .. x.len /\ k - 1 \in 0 .. x.len + 1 /\ (k - 1) + 1 = k /\ k - 1 <= x.len BY <1>2
  <2>3. AW = <<>> /\ W = (IF sub.wrdy THEN <<x.beats[k]>> ELSE <<>>) /\ AR = <<>> /\ ~R
    BY <1>5 DEF AW, W, AR, R, Pins, Off
  <2>4. CASE sub.wrdy
    <3>1. bfm' = [bfm EXCEPT !.pc = "w_done"] BY <1>1, <2>1, <2>4, RiseDoes DEF Goto
    <3>2. bfm' = At("w_done", x, k, <<>>) BY <1>5, <3>1, Goes
    <3> DEFINE j == k - 1
    <3>3. j \in 0 .. x.len /\ Writing(x, j) /\ W = <<x.beats[j + 1]>> BY <1>5, <2>2, <2>3, <2>4
    <3> HIDE DEF j
    <3>4. Writing(x, j + 1)' /\ Known' BY <1>1, <2>3, <3>3, TakeW
    <3>5. Writing(x, k)' BY <2>2, <3>4 DEF j
    <3> QED BY <1>1, <1>5, <3>2, <3>4, <3>5 DEF WriteIn
  <2>5. CASE ~sub.wrdy
    <3>1. bfm' = bfm BY <1>1, <2>1, <2>5, RiseDoes
    <3> DEFINE j == k - 1
    <3>2. j \in 0 .. x.len + 1 /\ j <= x.len /\ Writing(x, j) BY <1>5, <2>2
    <3> HIDE DEF j
    <3>3. ~B
      <4>1. Filling(sub.q) = {1} BY <3>2, WriteFilling DEF Writing
      <4> QED BY <4>1 DEF B, Known, Answers
    <3>4. Known' /\ Writing(x, j)' BY <2>3, <2>5, <3>2, <3>3, WriteEdge
    <3>5. Writing(x, k - 1)' BY <3>4 DEF j
    <3> QED BY <1>1, <1>5, <3>1, <3>4, <3>5 DEF WriteIn
  <2> QED BY <2>4, <2>5
<1>6. CASE bfm = At("b_wait", x, n, <<>>) /\ pin = Pins(<<>>, <<>>, <<>>, On, Off) /\ Writing(x, n)
  <2>1. bfm.pc = "b_wait" BY <1>6 DEF At
  <2>2. AW = <<>> /\ W = <<>> /\ AR = <<>> /\ ~R /\ (B <=> sub.bvalid)
    BY <1>6 DEF AW, W, AR, R, B, Pins, On, Off
  <2>3. CASE sub.bvalid
    <3>1. bfm' = [bfm EXCEPT !.pc = "b_done"] BY <1>1, <2>1, <2>3, RiseDoes DEF Goto
    <3>2. bfm' = At("b_done", x, n, <<>>) BY <1>6, <3>1, Goes
    <3>3. Empty' /\ Known' BY <1>1, <1>6, <2>2, <2>3, TakeB
    <3> QED BY <1>1, <1>6, <3>2, <3>3 DEF WriteIn
  <2>4. CASE ~sub.bvalid
    <3>1. bfm' = bfm BY <1>1, <2>1, <2>4, RiseDoes
    <3>2. Known' /\ Writing(x, n)' BY <1>2, <1>6, <2>2, <2>4, WriteEdge
    <3> QED BY <1>1, <1>6, <3>1, <3>2 DEF WriteIn
  <2> QED BY <2>3, <2>4
<1>7. CASE /\ bfm = At("b_taken", x, n, <<>>) /\ pin = Pins(<<>>, <<>>, <<>>, On, Off) /\ Writing(x, n)
           /\ edge = "rise" /\ sub.bvalid
  <2>1. bfm.pc = "b_taken" BY <1>7 DEF At
  <2>2. AW = <<>> /\ W = <<>> /\ AR = <<>> /\ B
    BY <1>7 DEF AW, W, AR, B, Pins, On
  <2>3. bfm' = [bfm EXCEPT !.pc = "b_done"] BY <1>1, <2>1, RiseDoes DEF Goto
  <2>4. bfm' = At("b_done", x, n, <<>>) BY <1>7, <2>3, Goes
  <2>5. Empty' /\ Known' BY <1>1, <1>7, <2>2, TakeB
  <2> QED BY <1>1, <1>7, <2>4, <2>5 DEF WriteIn
<1> QED BY <1>1, <1>3, <1>4, <1>5, <1>6, <1>7 DEF WriteIn

\* The driver appends the beat on R.
LEMMA Appends ==
  ASSUME NEW p, NEW x, NEW k, NEW bs, bfm = At(p, x, k, bs)
  PROVE  append_beat(bfm) = At("r_accept", x, k + 1, Append(bs, RData))
<1>1. PICK cs : cs = Append(bs, RData) OBVIOUS
<1>2. PICK m : m = k + 1 OBVIOUS
<1>3. PICK y1 : y1 = [bfm EXCEPT !.beats = cs] OBVIOUS
<1>4. y1 = At(p, x, k, cs) BY <1>3 DEF At
<1>5. PICK y2 : y2 = [y1 EXCEPT !.k = m] OBVIOUS
<1>6. y2 = At(p, x, m, cs) BY <1>4, <1>5 DEF At
<1>7. [y2 EXCEPT !.pc = "r_accept"] = At("r_accept", x, m, cs) BY <1>6 DEF At
<1>8. bfm.beats = bs /\ bfm.k = k BY DEF At
<1>9. append_beat(bfm) = [bfm EXCEPT !.beats = cs, !.k = m, !.pc = "r_accept"]
  BY <1>1, <1>2, <1>8 DEF append_beat
<1>10. append_beat(bfm) = [y2 EXCEPT !.pc = "r_accept"] BY <1>3, <1>5, <1>9
<1> QED BY <1>1, <1>2, <1>7, <1>10

\* The beat the driver appends is the one the monitor reports.
LEMMA GotOneMore ==
  ASSUME seen \in Seq(Reports), NEW k \in Nat, NEW bs, Got(k, bs), NEW rd \in Reports,
         seen' = Append(seen, rd)
  PROVE  Got(k + 1, Append(bs, rd.data))'
<1> DEFINE n == Len(seen)
           t == Append(seen, rd)
           g == [i \in 1 .. k + 1 |-> t[(Len(t) - (k + 1)) + i].data]
<1>1. n \in Nat /\ k <= n /\ rd.data \in Nat BY LenProperties DEF Got, Reports
<1>2. Len(t) = n + 1 /\ t[n + 1] = rd /\ \A i \in 1 .. n : t[i] = seen[i] /\ seen[i] \in Reports
  BY AppendProperties, ElementOfSeq
<1> HIDE DEF n, t
<1>3. \A i \in 1 .. k : /\ (n - k) + i \in 1 .. n
                        /\ (Len(t) - (k + 1)) + i = (n - k) + i
                        /\ i \in 1 .. k + 1
  BY <1>1, <1>2
<1>4. (Len(t) - (k + 1)) + (k + 1) = n + 1 /\ k + 1 \in 1 .. k + 1 BY <1>1, <1>2
<1>5. bs = [i \in 1 .. k |-> seen[(n - k) + i].data] BY DEF Got, n
<1>6. \A i \in 1 .. k : g[i] = bs[i] /\ bs[i] \in Nat
  <2>1. ASSUME NEW i \in 1 .. k PROVE g[i] = bs[i] /\ bs[i] \in Nat
    <3>1. g[i] = t[(n - k) + i].data BY <1>3
    <3>2. bs[i] = seen[(n - k) + i].data BY <1>5
    <3>3. seen[(n - k) + i] \in Reports BY <1>2, <1>3
    <3> QED BY <1>2, <1>3, <3>1, <3>2, <3>3 DEF Reports
  <2> QED BY <2>1
<1>7. g[k + 1] = rd.data BY <1>2, <1>4
<1>8. g = [i \in 1 .. k + 1 |-> g[i]] OBVIOUS
<1> HIDE DEF g
<1>9. \A i \in 1 .. k + 1 : g[i] \in Nat
  <2>1. \A i \in 1 .. k + 1 : i \in 1 .. k \/ i = k + 1 OBVIOUS
  <2> QED BY <1>1, <1>6, <1>7, <2>1
<1>10. bs \in Seq(Nat) /\ Len(bs) = k
  <2>1. bs \in [1 .. k -> Nat] BY <1>5, <1>6
  <2> QED BY <2>1
<1>11. g \in Seq(Nat) /\ Len(g) = k + 1
  <2>1. g \in [1 .. k + 1 -> Nat] BY <1>8, <1>9
  <2> QED BY <2>1
<1>12. bs \o <<rd.data>> = g BY <1>6, <1>7, <1>10, <1>11, OneMore
<1>13. Append(bs, rd.data) = g BY <1>1, <1>10, <1>12, AppendIsConcat
<1>14. Len(seen') = Len(t) /\ seen' = t BY DEF t
<1>15. k + 1 <= Len(t) BY <1>1, <1>2
<1> QED BY <1>13, <1>14, <1>15 DEF Got, g

\* The data of a read stay while nothing is reported.
LEMMA GotKept ==
  ASSUME NEW k, NEW bs, Got(k, bs), seen' = seen
  PROVE  Got(k, bs)'
BY DEF Got

\* A falling edge with a read in hand.
LEMMA ReadFalls ==
  ASSUME NEW x \in Reads, ReadIn(x), Known, Fall
  PROVE  (ReadIn(x) \/ Between)'
<1>1. /\ edge = "fall" /\ edge' = "rise" /\ Coroutines
      /\ mon' = mon /\ seen' = seen /\ sub' = sub
  BY FallKeeps
<1>2. x.len \in Nat /\ 0 \in 0 .. x.len /\ x.kind = "R" BY ReadFields
<1>3. CASE bfm = At("ar_drive", x, 0, <<>>) /\ pin = Quiet /\ Empty
  <2>1. bfm.pc = "ar_drive" /\ bfm.item = x BY <1>3 DEF At
  <2>2. pin' = [pin EXCEPT !.ar = <<x>>, !.rready = TRUE] /\ bfm' = [bfm EXCEPT !.pc = "ar_wait"]
    BY <1>1, <2>1, FallDoes DEF Goto
  <2>3. pin' = Pins(<<>>, <<>>, <<x>>, Off, On) BY <1>3, <2>2, DrivesAR
  <2>4. bfm' = At("ar_wait", x, 0, <<>>) BY <1>3, <2>2, Goes
  <2> QED BY <1>1, <1>3, <2>3, <2>4 DEF ReadIn, Empty
<1>4. CASE bfm = At("ar_wait", x, 0, <<>>) /\ pin = Pins(<<>>, <<>>, <<x>>, Off, On) /\ Empty
  <2>1. bfm.pc = "ar_wait" BY <1>4 DEF At
  <2>2. pin' = pin /\ bfm' = bfm BY <1>1, <2>1, FallDoes DEF Waiting
  <2> QED BY <1>1, <1>4, <2>2 DEF ReadIn, Empty
<1>5. CASE /\ bfm = At("ar_done", x, 0, <<>>) /\ pin = Pins(<<>>, <<>>, <<x>>, Off, On)
           /\ edge = "fall" /\ Reading(<<x>>, 0) /\ ~sub.rvalid
  <2>1. bfm.pc = "ar_done" BY <1>5 DEF At
  <2>2. pin' = [pin EXCEPT !.ar = <<>>] /\ bfm' = [bfm EXCEPT !.pc = "r_wait"]
    BY <1>1, <1>5, <2>1, FallDoes
  <2>3. pin' = Pins(<<>>, <<>>, <<>>, Off, On) BY <1>5, <2>2, DropsAR
  <2>4. bfm' = At("r_wait", x, 0, <<>>) BY <1>5, <2>2, Goes
  <2>5. Reading(<<x>>, 0)' BY <1>1, <1>5 DEF Reading
  <2>6. Got(0, <<>>)'
    <3>1. [i \in 1 .. 0 |-> seen'[(Len(seen') - 0) + i].data] = <<>> OBVIOUS
    <3>2. seen \in Seq(Reports) BY DEF Known
    <3>3. Len(seen') \in Nat BY <1>1, <3>2, LenProperties
    <3> QED BY <3>1, <3>3 DEF Got
  <2> QED BY <1>2, <2>3, <2>4, <2>5, <2>6 DEF ReadIn
<1>6. ASSUME NEW k \in 0 .. x.len, NEW bs,
             bfm = At("r_wait", x, k, bs), pin = Pins(<<>>, <<>>, <<>>, Off, On),
             Got(k, bs), Reading(<<x>>, k)
      PROVE  ReadIn(x)'
  <2>1. bfm.pc = "r_wait" BY <1>6 DEF At
  <2>2. pin' = pin /\ bfm' = bfm BY <1>1, <2>1, FallDoes DEF Waiting
  <2>3. Reading(<<x>>, k)' /\ Got(k, bs)' BY <1>1, <1>6 DEF Reading, Got
  <2> QED BY <1>6, <2>2, <2>3 DEF ReadIn
<1>7. ASSUME NEW k \in 1 .. x.len + 1, NEW bs,
             bfm = At("r_accept", x, k, bs), pin = Pins(<<>>, <<>>, <<>>, Off, On),
             Got(k, bs), IF k <= x.len THEN Reading(<<x>>, k) ELSE Empty
      PROVE  ReadIn(x)'
  <2>1. bfm.pc = "r_accept" BY <1>7 DEF At
  <2>2. pin' = pin /\ bfm' = bfm BY <1>1, <2>1, FallDoes DEF Waiting
  <2>3. (IF k <= x.len THEN Reading(<<x>>, k) ELSE Empty)' /\ Got(k, bs)'
    BY <1>1, <1>7 DEF Reading, Got, Empty
  <2> QED BY <1>7, <2>2, <2>3 DEF ReadIn
<1>8. ASSUME NEW bs,
             bfm = At("r_done", x, x.len + 1, bs), pin = Pins(<<>>, <<>>, <<>>, Off, On),
             Got(x.len + 1, bs), Empty
      PROVE  Between'
  <2>1. bfm.pc = "r_done" BY <1>8 DEF At
  <2>2. pin' = [pin EXCEPT !.rready = FALSE] /\ bfm' = [bfm EXCEPT !.pc = "idle"]
    BY <1>1, <2>1, FallDoes DEF Goto
  <2>3. pin' = Quiet BY <1>8, <2>2, DropsReady
  <2>4. bfm' = At("idle", x, x.len + 1, bs) BY <1>8, <2>2, Goes
  <2>5. bfm'.item = x /\ bfm'.k = x.len + 1 /\ bfm'.beats = bs BY <2>4 DEF At
  <2>6. Got(x.len + 1, bs)' BY <1>1, <1>8, GotKept
  <2>7. Empty' BY <1>1, <1>8 DEF Empty
  <2> QED BY <2>3, <2>4, <2>5, <2>6, <2>7 DEF Between
<1> QED BY <1>1, <1>3, <1>4, <1>5, <1>6, <1>7, <1>8 DEF ReadIn

\* At a rising edge, when reads are in hand and nothing is handshaken.
LEMMA ReadEdge ==
  ASSUME NEW may, Rise(may), Known, NEW xs \in Seq(Reads), NEW s, Reading(xs, s),
         AW = <<>>, W = <<>>, AR = <<>>, ~R
  PROVE  Known' /\ Reading(xs, s)' /\ seen' = seen
<1>1. /\ Shaped /\ Filling(sub.q) = {} /\ \A i \in 1 .. Len(xs) : sub.q[i].kind = "R"
      /\ Len(sub.q) = Len(xs)
  BY ReadingShaped
<1>2. ~sub.bvalid
  <2> SUFFICES ASSUME sub.bvalid PROVE FALSE OBVIOUS
  <2>1. sub.q # <<>> /\ sub.q[1].kind = "W" BY DEF Known, Answers
  <2>2. 1 \in 1 .. Len(sub.q) BY <1>1, <2>1, EmptySeq DEF Shaped
  <2> QED BY <1>1, <2>1, <2>2
<1>3. ~B BY <1>2 DEF B
<1>4. sub'.q = sub.q /\ mon' = mon /\ seen' = seen /\ Known' BY <1>1, <1>3, RiseIs, QuietEdge
<1> QED BY <1>4 DEF Reading

\* Once the last read has left nothing is in hand.
LEMMA NothingLeft ==
  ASSUME Reading(<<>>, 0)'
  PROVE  Empty'
BY DEF Reading, Empty

\* The driver takes a beat of the read x.
LEMMA ReadBeat ==
  ASSUME NEW may, Rise(may), Known, NEW x \in Reads, NEW k \in 0 .. x.len, NEW bs, NEW p,
         bfm = At(p, x, k, bs), pin = Pins(<<>>, <<>>, <<>>, Off, On), bfm' = append_beat(bfm),
         Got(k, bs), Reading(<<x>>, k), sub.rvalid
  PROVE  ReadIn(x)' /\ Known'
<1>1. /\ edge = "rise" /\ edge' = "fall" /\ Coroutines /\ pin' = pin
      /\ SubEdge(AW, W, AR, B, R, may) /\ monitor_bfm
  BY RiseIs
<1>2. AW = <<>> /\ W = <<>> /\ AR = <<>> /\ R BY DEF AW, W, AR, R, Pins, On
<1>3. x.len \in Nat /\ k \in Nat BY ReadFields
<1> DEFINE xs == <<x>>
<1>4. xs \in Seq(Reads) /\ xs # <<>> /\ xs[1] = x /\ Tail(xs) = <<>> OBVIOUS
<1>5. Reading(xs, k) OBVIOUS
<1> HIDE DEF xs
<1>6. /\ k < xs[1].len => Reading(xs, k + 1)'
      /\ k = xs[1].len => Reading(Tail(xs), 0)'
      /\ \E rd \in Reports : seen' = Append(seen, rd) /\ rd.data = RData
      /\ Known'
  BY <1>1, <1>2, <1>4, <1>5, TakeR
<1>7. k < x.len => Reading(<<x>>, k + 1)' BY <1>4, <1>6 DEF xs
<1>8. k = x.len => Empty' BY <1>4, <1>6, NothingLeft
<1>9. PICK rd \in Reports : seen' = Append(seen, rd) /\ rd.data = RData BY <1>6
<1>10. PICK m : m = k + 1 OBVIOUS
<1>11. PICK cs : cs = Append(bs, RData) OBVIOUS
<1>12. bfm' = At("r_accept", x, m, cs) BY <1>10, <1>11, Appends
<1>13. seen \in Seq(Reports) BY DEF Known
<1>14. Got(k + 1, Append(bs, rd.data))' BY <1>3, <1>9, <1>13, GotOneMore
<1>15. Got(m, cs)' BY <1>9, <1>10, <1>11, <1>14
<1>16. m \in 1 .. x.len + 1 /\ (m <= x.len <=> k < x.len) /\ (~(m <= x.len) => k = x.len)
  BY <1>3, <1>10
<1>17. (IF m <= x.len THEN Reading(<<x>>, m) ELSE Empty)' BY <1>7, <1>8, <1>10, <1>16
<1>18. ReadIn(x)' BY <1>1, <1>12, <1>15, <1>16, <1>17 DEF ReadIn
<1> QED BY <1>6, <1>18

\* A rising edge with a read in hand.
LEMMA ReadRises ==
  ASSUME NEW x \in Reads, ReadIn(x), Known, NEW may, Rise(may)
  PROVE  ReadIn(x)' /\ Known'
<1>1. /\ edge = "rise" /\ edge' = "fall" /\ Coroutines /\ pin' = pin
      /\ SubEdge(AW, W, AR, B, R, may) /\ monitor_bfm
  BY RiseIs
<1>2. x.len \in Nat /\ 0 \in 0 .. x.len /\ x.kind = "R" BY ReadFields
<1>3. <<x>> \in Seq(Reads) /\ <<>> \in Seq(Reads) /\ Append(<<>>, x) = <<x>> OBVIOUS
<1>4. CASE bfm = At("ar_drive", x, 0, <<>>) /\ pin = Quiet /\ Empty
  <2>1. bfm.pc = "ar_drive" BY <1>4 DEF At
  <2>2. bfm' = bfm BY <1>1, <2>1, RiseDoes
  <2>3. AW = <<>> /\ W = <<>> /\ AR = <<>> BY <1>4 DEF AW, W, AR, Quiet
  <2>4. Known' /\ Empty' BY <1>4, <2>3, EmptyEdge
  <2> QED BY <1>1, <1>4, <2>2, <2>4 DEF ReadIn
<1>5. CASE bfm = At("ar_wait", x, 0, <<>>) /\ pin = Pins(<<>>, <<>>, <<x>>, Off, On) /\ Empty
  <2>1. bfm.pc = "ar_wait" BY <1>5 DEF At
  <2>2. AW = <<>> /\ W = <<>> /\ AR = (IF sub.arrdy THEN <<x>> ELSE <<>>)
    BY <1>5 DEF AW, W, AR, Pins
  <2>3. CASE sub.arrdy
    <3>1. bfm' = [bfm EXCEPT !.pc = "ar_done"] BY <1>1, <2>1, <2>3, RiseDoes DEF Goto
    <3>2. bfm' = At("ar_done", x, 0, <<>>) BY <1>5, <3>1, Goes
    <3>3. Reading(<<>>, 0) BY <1>5, NothingRead
    <3>4. ~R BY <1>5 DEF R, Known, Answers, Empty
    <3>5. AR = <<x>> BY <2>2, <2>3
    <3> DEFINE xs == <<>>
    <3>6. xs \in Seq(Reads) /\ Reading(xs, 0) /\ xs = <<>> BY <1>3, <3>3
    <3> HIDE DEF xs
    <3>7. Reading(Append(xs, x), 0)' /\ Known' /\ ~sub'.rvalid
      BY <1>1, <2>2, <3>4, <3>5, <3>6, TakeAR
    <3>8. Reading(<<x>>, 0)' BY <1>3, <3>6, <3>7
    <3> QED BY <1>1, <1>5, <3>2, <3>7, <3>8 DEF ReadIn
  <2>4. CASE ~sub.arrdy
    <3>1. bfm' = bfm BY <1>1, <2>1, <2>4, RiseDoes
    <3>2. Known' /\ Empty' BY <1>5, <2>2, <2>4, EmptyEdge
    <3> QED BY <1>1, <1>5, <3>1, <3>2 DEF ReadIn
  <2> QED BY <2>3, <2>4
<1>6. ASSUME NEW k \in 0 .. x.len, NEW bs,
             bfm = At("r_wait", x, k, bs), pin = Pins(<<>>, <<>>, <<>>, Off, On),
             Got(k, bs), Reading(<<x>>, k)
      PROVE  ReadIn(x)' /\ Known'
  <2>1. bfm.pc = "r_wait" BY <1>6 DEF At
  <2>2. CASE sub.rvalid
    <3>1. bfm' = append_beat(bfm) BY <1>1, <2>1, <2>2, RiseDoes
    <3> QED BY <1>6, <2>2, <3>1, ReadBeat
  <2>3. CASE ~sub.rvalid
    <3>1. bfm' = bfm BY <1>1, <2>1, <2>3, RiseDoes
    <3>2. AW = <<>> /\ W = <<>> /\ AR = <<>> /\ ~R BY <1>6, <2>3 DEF AW, W, AR, R, Pins
    <3>3. Known' /\ Reading(<<x>>, k)' /\ seen' = seen BY <1>3, <1>6, <3>2, ReadEdge
    <3>4. Got(k, bs)' BY <1>6, <3>3, GotKept
    <3> QED BY <1>1, <1>6, <3>1, <3>3, <3>4 DEF ReadIn
  <2> QED BY <2>2, <2>3
<1>7. ASSUME NEW k \in 1 .. x.len + 1, NEW bs,
             bfm = At("r_accept", x, k, bs), pin = Pins(<<>>, <<>>, <<>>, Off, On),
             Got(k, bs), IF k <= x.len THEN Reading(<<x>>, k) ELSE Empty
      PROVE  ReadIn(x)' /\ Known'
  <2>1. bfm.pc = "r_accept" /\ bfm.k = k /\ bfm.item = x BY <1>7 DEF At
  <2>2. AW = <<>> /\ W = <<>> /\ AR = <<>> /\ (R <=> sub.rvalid)
    BY <1>7 DEF AW, W, AR, R, Pins, On
  <2>3. bfm' = CASE k > x.len -> [bfm EXCEPT !.pc = "r_done"]
                 [] k <= x.len /\ sub.rvalid -> append_beat(bfm)
                 [] OTHER -> [bfm EXCEPT !.pc = "r_wait"]
    BY <1>1, <2>1, RiseDoes
  <2>4. CASE k = x.len + 1
    <3>1. k > x.len /\ ~(k <= x.len) BY <1>2, <2>4
    <3>2. bfm' = [bfm EXCEPT !.pc = "r_done"] BY <1>2, <2>3, <3>1
    <3>3. bfm' = At("r_done", x, x.len + 1, bs) BY <1>7, <2>4, <3>2, Goes
    <3>4. Known' /\ Empty' /\ seen' = seen BY <1>7, <2>2, <3>1, EmptyEdge
    <3>5. Got(x.len + 1, bs)' BY <1>7, <2>4, <3>4, GotKept
    <3> QED BY <1>1, <1>7, <3>3, <3>4, <3>5 DEF ReadIn
  <2>5. CASE k <= x.len /\ sub.rvalid
    <3>1. k \in 0 .. x.len /\ ~(k > x.len) BY <1>2, <2>5
    <3>2. bfm' = append_beat(bfm) BY <2>3, <2>5, <3>1
    <3> QED BY <1>7, <2>5, <3>1, <3>2, ReadBeat
  <2>6. CASE k <= x.len /\ ~sub.rvalid
    <3>1. k \in 0 .. x.len /\ ~(k > x.len) BY <1>2, <2>6
    <3>2. bfm' = [bfm EXCEPT !.pc = "r_wait"] BY <2>3, <2>6, <3>1
    <3>3. bfm' = At("r_wait", x, k, bs) BY <1>7, <3>2, Goes
    <3>4. Known' /\ Reading(<<x>>, k)' /\ seen' = seen BY <1>3, <1>7, <2>2, <2>6, ReadEdge
    <3>5. Got(k, bs)' BY <1>7, <3>4, GotKept
    <3> QED BY <1>1, <1>7, <3>1, <3>3, <3>4, <3>5 DEF ReadIn
  <2> QED BY <1>2, <2>4, <2>5, <2>6
<1> QED BY <1>1, <1>4, <1>5, <1>6, <1>7 DEF ReadIn

\* What a read_multi is made of.
LEMMA MultiFields ==
  ASSUME NEW x \in Multis
  PROVE  /\ x.kind = "M" /\ x.reqs \in Seq(Reads) /\ Len(x.reqs) \in Nat /\ Len(x.reqs) >= 1
         /\ \A i \in 1 .. Len(x.reqs) : x.reqs[i] \in Reads /\ x.reqs[i].len \in Nat
<1>1. x.kind = "M" /\ x.reqs \in Seq(Reads) /\ x.reqs # <<>> BY DEF Multis
<1>2. Len(x.reqs) \in Nat /\ Len(x.reqs) >= 1 BY <1>1, EmptySeq, LenProperties
<1>3. \A i \in 1 .. Len(x.reqs) : x.reqs[i] \in Reads BY <1>1, ElementOfSeq
<1> QED BY <1>1, <1>2, <1>3, ReadFields

\* The reads in hand stay while neither the design nor the monitor moves.
LEMMA ReadingKept ==
  ASSUME NEW xs, NEW s, Reading(xs, s), sub' = sub, mon' = mon
  PROVE  Reading(xs, s)'
BY DEF Reading

\* A falling edge with a read_multi in hand.
LEMMA MultiFalls ==
  ASSUME NEW x \in Multis, MultiIn(x), Known, Fall
  PROVE  (MultiIn(x) \/ Between)'
<1> DEFINE reqs == x.reqs
           n == Len(reqs)
<1>1. /\ edge = "fall" /\ edge' = "rise" /\ Coroutines
      /\ mon' = mon /\ seen' = seen /\ sub' = sub
  BY FallKeeps
<1>2. /\ x.kind = "M" /\ reqs \in Seq(Reads) /\ n \in Nat /\ n >= 1
      /\ \A i \in 1 .. n : reqs[i] \in Reads /\ reqs[i].len \in Nat
  BY MultiFields
<1>3. ASSUME NEW k \in 0 .. n - 1,
             bfm = At("m_drive", x, k, <<>>), pin = Quiet, Reading(SubSeq(reqs, 1, k), 0)
      PROVE  MultiIn(x)'
  <2>1. bfm.pc = "m_drive" /\ bfm.item = x /\ bfm.k = k BY <1>3 DEF At
  <2>2. PICK m : m = k + 1 OBVIOUS
  <2>3. /\ pin' = [pin EXCEPT !.ar = <<reqs[m]>>]
        /\ bfm' = [bfm EXCEPT !.pc = "m_wait", !.k = m]
    BY <1>1, <2>1, <2>2, FallDoes
  <2>4. pin' = Pins(<<>>, <<>>, <<reqs[m]>>, Off, Off) BY <1>3, <2>3, DrivesOneAR
  <2>5. bfm' = At("m_wait", x, m, <<>>)
    <3>1. PICK y : y = [bfm EXCEPT !.pc = "m_wait"] OBVIOUS
    <3>2. y = At("m_wait", x, k, <<>>) BY <1>3, <3>1 DEF At
    <3>3. bfm' = [y EXCEPT !.k = m] BY <2>3, <3>1
    <3> QED BY <3>2, <3>3 DEF At
  <2>6. m \in 1 .. n /\ m - 1 = k BY <1>2, <2>2
  <2>7. Reading(SubSeq(reqs, 1, m - 1), 0)' BY <1>1, <1>3, <2>6, ReadingKept
  <2> QED BY <2>4, <2>5, <2>6, <2>7 DEF MultiIn
<1>4. ASSUME NEW k \in 1 .. n,
             bfm = At("m_wait", x, k, <<>>), pin = Pins(<<>>, <<>>, <<reqs[k]>>, Off, Off),
             Reading(SubSeq(reqs, 1, k - 1), 0)
      PROVE  MultiIn(x)'
  <2>1. bfm.pc = "m_wait" BY <1>4 DEF At
  <2>2. pin' = pin /\ bfm' = bfm BY <1>1, <2>1, FallDoes DEF Waiting
  <2>3. Reading(SubSeq(reqs, 1, k - 1), 0)' BY <1>1, <1>4, ReadingKept
  <2> QED BY <1>4, <2>2, <2>3 DEF MultiIn
<1>5. ASSUME NEW k \in 1 .. n,
             bfm = At("m_done", x, k, <<>>), pin = Pins(<<>>, <<>>, <<reqs[k]>>, Off, Off),
             Reading(SubSeq(reqs, 1, k), 0)
      PROVE  MultiIn(x)'
  <2>1. bfm.pc = "m_done" /\ bfm.item = x /\ bfm.k = k BY <1>5 DEF At
  <2>2. PICK last : last = (k = n) OBVIOUS
  <2>3. bfm' = IF k < n THEN [bfm EXCEPT !.pc = "m_drive"]
               ELSE [bfm EXCEPT !.pc = "m_drain", !.k = 0]
    BY <1>1, <2>1, FallDoes
  <2>4. pin' = Pins(<<>>, <<>>, <<>>, Off, last)
    <3>1. pin' = [pin EXCEPT !.ar = <<>>, !.rready = last] BY <1>1, <2>1, <2>2, FallDoes
    <3>2. PICK u : u = <<reqs[k]>> OBVIOUS
    <3>3. pin = Pins(<<>>, <<>>, u, Off, Off) BY <1>5, <3>2
    <3> QED BY <3>1, <3>3, DropsOneAR
  <2>5. Reading(SubSeq(reqs, 1, k), 0)' BY <1>1, <1>5, ReadingKept
  <2>6. CASE k < n
    <3>1. last = Off
      <4>1. k # n BY <1>2, <2>6
      <4>2. last = FALSE BY <2>2, <4>1
      <4> QED BY <4>2 DEF Off
    <3>2. bfm' = [bfm EXCEPT !.pc = "m_drive"] BY <2>3, <2>6
    <3>3. bfm' = At("m_drive", x, k, <<>>) BY <1>5, <3>2, Goes
    <3>4. k \in 0 .. n - 1 BY <1>2, <2>6
    <3> QED BY <2>4, <2>5, <3>1, <3>3, <3>4, QuietPins DEF MultiIn
  <2>7. CASE k = n
    <3>1. last = On BY <2>2, <2>7 DEF On
    <3>2. bfm' = [bfm EXCEPT !.pc = "m_drain", !.k = 0] BY <1>2, <2>3, <2>7
    <3>3. bfm' = At("m_drain", x, 0, <<>>)
      <4>1. PICK y : y = [bfm EXCEPT !.pc = "m_drain"] OBVIOUS
      <4>2. y = At("m_drain", x, k, <<>>) BY <1>5, <4>1 DEF At
      <4>3. bfm' = [y EXCEPT !.k = 0] BY <3>2, <4>1
      <4> QED BY <4>2, <4>3 DEF At
    <3>4. 1 \in 1 .. n /\ 0 \in 0 .. reqs[1].len BY <1>2
    <3>5. Cardinality(Before(reqs, 1, 0)) = 0 BY <1>2, <3>4, OneBeatMore
    <3>6. bfm' = At("m_drain", x, Cardinality(Before(reqs, 1, 0)), <<>>) BY <3>3, <3>5
    <3>7. Reading(SubSeq(reqs, 1, n), 0)' BY <2>5, <2>7
    <3> QED BY <2>4, <3>1, <3>4, <3>6, <3>7 DEF MultiIn
  <2> QED BY <1>2, <2>6, <2>7
<1>6. ASSUME NEW i \in 1 .. n, NEW s \in 0 .. reqs[i].len,
             bfm = At("m_drain", x, Cardinality(Before(reqs, i, s)), <<>>),
             pin = Pins(<<>>, <<>>, <<>>, Off, On), Reading(SubSeq(reqs, i, n), s)
      PROVE  MultiIn(x)'
  <2>1. bfm.pc = "m_drain" BY <1>6 DEF At
  <2>2. pin' = pin /\ bfm' = bfm BY <1>1, <2>1, FallDoes DEF Waiting
  <2>3. Reading(SubSeq(reqs, i, n), s)' BY <1>1, <1>6, ReadingKept
  <2> QED BY <1>6, <2>2, <2>3 DEF MultiIn
<1>7. ASSUME NEW k,
             bfm = At("m_end", x, k, <<>>), pin = Pins(<<>>, <<>>, <<>>, Off, On), Empty
      PROVE  Between'
  <2>1. bfm.pc = "m_end" BY <1>7 DEF At
  <2>2. pin' = [pin EXCEPT !.rready = FALSE] /\ bfm' = [bfm EXCEPT !.pc = "idle"]
    BY <1>1, <2>1, FallDoes DEF Goto
  <2>3. pin' = Quiet BY <1>7, <2>2, DropsReady
  <2>4. bfm' = At("idle", x, k, <<>>) BY <1>7, <2>2, Goes
  <2>5. bfm'.item = x /\ bfm'.k = k /\ bfm'.beats = <<>> BY <2>4 DEF At
  <2>6. Empty' BY <1>1, <1>7 DEF Empty
  <2> QED BY <1>2, <2>3, <2>4, <2>5, <2>6 DEF Between
<1> QED BY <1>3, <1>4, <1>5, <1>6, <1>7 DEF MultiIn

\* What is queued and what is open, of the reads of a read_multi.
LEMMA Cuts ==
  ASSUME NEW rs \in Seq(Reads), NEW k \in 1 .. Len(rs)
  PROVE  LET n == Len(rs)
         IN  /\ SubSeq(rs, 1, k - 1) \in Seq(Reads) /\ SubSeq(rs, 1, k) \in Seq(Reads)
             /\ Append(SubSeq(rs, 1, k - 1), rs[k]) = SubSeq(rs, 1, k)
             /\ SubSeq(rs, k, n) \in Seq(Reads) /\ SubSeq(rs, k, n) # <<>>
             /\ SubSeq(rs, k, n)[1] = rs[k]
             /\ Tail(SubSeq(rs, k, n)) = SubSeq(rs, k + 1, n)
             /\ SubSeq(rs, n + 1, n) = <<>>
<1> DEFINE n == Len(rs)
<1>1. /\ n \in Nat /\ k \in 1 .. n /\ k - 1 \in Int /\ 1 \in 1 .. n /\ n \in k .. n /\ k \in 1 .. k
      /\ k \in 1 .. n
  BY LenProperties
<1>2. \A i \in 1 .. n : rs[i] \in Reads BY ElementOfSeq
<1>3. SubSeq(rs, 1, k - 1) \in Seq(Reads) BY <1>1, <1>2, SubSeqProperties
<1>4. SubSeq(rs, 1, k) \in Seq(Reads) BY <1>1, <1>2, SubSeqProperties
<1>5. /\ SubSeq(rs, k, n) \in Seq(Reads)
      /\ Len(SubSeq(rs, k, n)) = n - k + 1
      /\ SubSeq(rs, k, n)[1] = rs[k]
  <2>1. /\ SubSeq(rs, k, n) \in Seq(Reads)
        /\ Len(SubSeq(rs, k, n)) = IF k <= n THEN n - k + 1 ELSE 0
    BY <1>1, <1>2, SubSeqProperties
  <2>2. \A i \in 1 .. n - k + 1 : SubSeq(rs, k, n)[i] = rs[k + i - 1]
    BY <1>1, <1>2, SubSeqProperties
  <2>3. SubSeq(rs, k, n)[1] = rs[k] BY <1>1, <2>2
  <2> QED BY <1>1, <2>1, <2>3
<1>6. SubSeq(rs, k, n) # <<>>
  <2>1. PICK t \in Seq(Reads) : t = SubSeq(rs, k, n) BY <1>5
  <2>2. Len(t) = n - k + 1 BY <1>5, <2>1
  <2>3. Len(t) # 0 BY <1>1, <2>2
  <2>4. t # <<>> BY <2>3, EmptySeq
  <2> QED BY <2>1, <2>4
<1>7. Tail(SubSeq(rs, k, n)) = SubSeq(rs, k + 1, n) BY <1>1, HeadTailOfSubSeq
<1>8. SubSeq(rs, 1, k) = SubSeq(rs, 1, k - 1) \o <<rs[k]>>
  <2>1. k \in 1 .. Len(rs) /\ 1 \in 1 .. Len(rs) /\ k \in 1 .. Len(rs) BY <1>1
  <2> QED BY <2>1, SubSeqRecursiveSecond
<1>9. Append(SubSeq(rs, 1, k - 1), rs[k]) = SubSeq(rs, 1, k - 1) \o <<rs[k]>>
  BY <1>2, <1>3, AppendIsConcat
<1>10. SubSeq(rs, n + 1, n) = <<>>
  <2>1. n + 1 \in Int /\ n \in Int /\ n < n + 1 BY <1>1
  <2> QED BY <2>1, SubSeqEmpty
<1> QED BY <1>3, <1>4, <1>5, <1>6, <1>7, <1>8, <1>9, <1>10

\* A rising edge with a read_multi in hand.
LEMMA MultiRises ==
  ASSUME NEW x \in Multis, MultiIn(x), Known, NEW may, Rise(may)
  PROVE  MultiIn(x)' /\ Known'
<1> DEFINE reqs == x.reqs
           n == Len(reqs)
<1>1. /\ edge = "rise" /\ edge' = "fall" /\ Coroutines /\ pin' = pin
      /\ SubEdge(AW, W, AR, B, R, may) /\ monitor_bfm
  BY RiseIs
<1>2. /\ reqs \in Seq(Reads) /\ n \in Nat /\ n >= 1
      /\ \A i \in 1 .. n : reqs[i] \in Reads /\ reqs[i].len \in Nat
  BY MultiFields
<1>3. ASSUME NEW k \in 0 .. n - 1,
             bfm = At("m_drive", x, k, <<>>), pin = Quiet, Reading(SubSeq(reqs, 1, k), 0)
      PROVE  MultiIn(x)' /\ Known'
  <2>1. bfm.pc = "m_drive" BY <1>3 DEF At
  <2>2. bfm' = bfm BY <1>1, <2>1, RiseDoes
  <2>3. AW = <<>> /\ W = <<>> /\ AR = <<>> /\ ~R BY <1>3 DEF AW, W, AR, R, Quiet
  <2>4. SubSeq(reqs, 1, k) \in Seq(Reads)
    <3>1. \A i \in 1 .. k : reqs[i] \in Reads BY <1>2
    <3> QED BY <3>1, SubSeqProperties
  <2>5. Known' /\ Reading(SubSeq(reqs, 1, k), 0)' BY <1>3, <2>3, <2>4, ReadEdge
  <2> QED BY <1>1, <1>3, <2>2, <2>5 DEF MultiIn
<1>4. ASSUME NEW k \in 1 .. n,
             bfm = At("m_wait", x, k, <<>>), pin = Pins(<<>>, <<>>, <<reqs[k]>>, Off, Off),
             Reading(SubSeq(reqs, 1, k - 1), 0)
      PROVE  MultiIn(x)' /\ Known'
  <2>1. bfm.pc = "m_wait" BY <1>4 DEF At
  <2>2. AW = <<>> /\ W = <<>> /\ AR = (IF sub.arrdy THEN <<reqs[k]>> ELSE <<>>) /\ ~R
    BY <1>4 DEF AW, W, AR, R, Pins, Off
  <2>3. /\ SubSeq(reqs, 1, k - 1) \in Seq(Reads)
        /\ Append(SubSeq(reqs, 1, k - 1), reqs[k]) = SubSeq(reqs, 1, k)
    BY <1>2, Cuts
  <2> DEFINE xs == SubSeq(reqs, 1, k - 1)
  <2>4. xs \in Seq(Reads) /\ Reading(xs, 0) /\ Append(xs, reqs[k]) = SubSeq(reqs, 1, k)
    BY <1>4, <2>3
  <2> HIDE DEF xs
  <2>5. CASE sub.arrdy
    <3>1. bfm' = [bfm EXCEPT !.pc = "m_done"] BY <1>1, <2>1, <2>5, RiseDoes DEF Goto
    <3>2. bfm' = At("m_done", x, k, <<>>) BY <1>4, <3>1, Goes
    <3>3. PICK r \in Reads : r = reqs[k] BY <1>2
    <3>4. AR = <<r>> BY <2>2, <2>5, <3>3
    <3>5. Reading(Append(xs, r), 0)' /\ Known' BY <1>1, <2>2, <2>4, <3>4, TakeAR
    <3>6. Reading(SubSeq(reqs, 1, k), 0)' BY <2>4, <3>3, <3>5
    <3> QED BY <1>1, <1>4, <3>2, <3>5, <3>6 DEF MultiIn
  <2>6. CASE ~sub.arrdy
    <3>1. bfm' = bfm BY <1>1, <2>1, <2>6, RiseDoes
    <3>2. AR = <<>> BY <2>2, <2>6
    <3>3. Known' /\ Reading(xs, 0)' BY <2>2, <2>4, <3>2, ReadEdge
    <3>4. Reading(SubSeq(reqs, 1, k - 1), 0)' BY <3>3 DEF xs
    <3> QED BY <1>1, <1>4, <3>1, <3>3, <3>4 DEF MultiIn
  <2> QED BY <2>5, <2>6
<1>5. ASSUME NEW i \in 1 .. n, NEW s \in 0 .. reqs[i].len,
             bfm = At("m_drain", x, Cardinality(Before(reqs, i, s)), <<>>),
             pin = Pins(<<>>, <<>>, <<>>, Off, On), Reading(SubSeq(reqs, i, n), s)
      PROVE  MultiIn(x)' /\ Known'
  <2> DEFINE c == Cardinality(Before(reqs, i, s))
             all == Cardinality(BeatsOf(reqs))
             xs == SubSeq(reqs, i, n)
  <2>1. bfm.pc = "m_drain" /\ bfm.item = x /\ bfm.k = c BY <1>5 DEF At
  <2>2. AW = <<>> /\ W = <<>> /\ AR = <<>> /\ (R <=> sub.rvalid)
    BY <1>5 DEF AW, W, AR, R, Pins, On
  <2>3. /\ xs \in Seq(Reads) /\ xs # <<>> /\ xs[1] = reqs[i]
        /\ Tail(xs) = SubSeq(reqs, i + 1, n) /\ SubSeq(reqs, n + 1, n) = <<>>
    BY <1>2, Cuts
  <2>4. /\ c \in Nat
        /\ s < reqs[i].len => Cardinality(Before(reqs, i, s + 1)) = c + 1
        /\ s = reqs[i].len => Cardinality(Before(reqs, i + 1, 0)) = c + 1
        /\ c + 1 = all <=> i = n /\ s = reqs[i].len
    BY <1>2, OneBeatMore
  <2>5. bfm = At("m_drain", x, c, <<>>) /\ Reading(xs, s) BY <1>5
  <2>6. all = remaining BY <2>1 DEF remaining
  <2>7. s \in Nat /\ reqs[i].len \in Nat /\ (s < reqs[i].len \/ s = reqs[i].len) BY <1>2
  <2> HIDE DEF c, all, xs
  <2>8. CASE ~sub.rvalid
    <3>1. bfm' = bfm BY <1>1, <2>1, <2>8, RiseDoes
    <3>2. ~R BY <2>2, <2>8
    <3>3. Known' /\ Reading(xs, s)' BY <2>2, <2>3, <2>5, <3>2, ReadEdge
    <3>4. Reading(SubSeq(reqs, i, n), s)' BY <3>3 DEF xs
    <3> QED BY <1>1, <1>5, <3>1, <3>3, <3>4 DEF MultiIn
  <2>9. CASE sub.rvalid
    <3>1. /\ s < xs[1].len => Reading(xs, s + 1)'
          /\ s = xs[1].len => Reading(Tail(xs), 0)'
          /\ Known'
      <4>1. R BY <2>2, <2>9
      <4> QED BY <1>1, <2>2, <2>3, <2>5, <4>1, TakeR
    <3>2. PICK m : m = c + 1 OBVIOUS
    <3>3. PICK q : q = IF m = all THEN "m_end" ELSE "m_drain" OBVIOUS
    <3>4. bfm' = [bfm EXCEPT !.k = m, !.pc = q]
      <4>1. bfm' = [bfm EXCEPT !.k = @ + 1, !.pc = IF bfm.k + 1 = remaining THEN "m_end" ELSE @]
        BY <1>1, <2>1, <2>9, RiseDoes
      <4>2. (IF bfm.k + 1 = remaining THEN "m_end" ELSE bfm.pc) = q
        BY <2>1, <2>6, <3>2, <3>3
      <4>3. bfm.k + 1 = m BY <2>1, <3>2
      <4> QED BY <4>1, <4>2, <4>3
    <3>5. bfm' = At(q, x, m, <<>>)
      <4>1. PICK y : y = [bfm EXCEPT !.k = m] OBVIOUS
      <4>2. y = At("m_drain", x, m, <<>>) BY <2>5, <4>1 DEF At
      <4>3. bfm' = [y EXCEPT !.pc = q] BY <3>4, <4>1
      <4> QED BY <4>2, <4>3 DEF At
    <3>6. CASE i = n /\ s = reqs[i].len
      <4>1. q = "m_end" BY <2>4, <3>2, <3>3, <3>6
      <4>2. Tail(xs) = <<>> BY <2>3, <3>6
      <4>3. Empty' BY <2>3, <3>1, <3>6, <4>2, NothingLeft
      <4> QED BY <1>1, <1>5, <3>1, <3>5, <4>1, <4>3 DEF MultiIn
    <3>7. CASE s < reqs[i].len
      <4>1. q = "m_drain" BY <2>4, <2>7, <3>2, <3>3, <3>7
      <4>2. s + 1 \in 0 .. reqs[i].len BY <2>7, <3>7
      <4>3. bfm' = At("m_drain", x, Cardinality(Before(reqs, i, s + 1)), <<>>)
        BY <2>4, <3>2, <3>5, <3>7, <4>1
      <4>4. Reading(SubSeq(reqs, i, n), s + 1)' BY <2>3, <3>1, <3>7 DEF xs
      <4> QED BY <1>1, <1>5, <3>1, <4>2, <4>3, <4>4 DEF MultiIn
    <3>8. CASE i # n /\ s = reqs[i].len
      <4>1. q = "m_drain" BY <2>4, <3>2, <3>3, <3>8
      <4>2. i + 1 \in 1 .. n BY <1>2, <3>8
      <4>3. 0 \in 0 .. reqs[i + 1].len BY <1>2, <4>2
      <4>4. bfm' = At("m_drain", x, Cardinality(Before(reqs, i + 1, 0)), <<>>)
        BY <2>4, <3>2, <3>5, <3>8, <4>1
      <4>5. Reading(SubSeq(reqs, i + 1, n), 0)' BY <2>3, <3>1, <3>8
      <4> QED BY <1>1, <1>5, <3>1, <4>2, <4>3, <4>4, <4>5 DEF MultiIn
    <3> QED BY <2>7, <3>6, <3>7, <3>8
  <2> QED BY <2>8, <2>9
<1> QED BY <1>1, <1>3, <1>4, <1>5 DEF MultiIn

-----------------------------------------------------------------------------
(* The whole bench.                                                        *)

\* The inductive invariant.
Bench ==
  /\ Known
  /\ pc = "run" => InHand /\ todo \in Seq(Items)
  /\ pc = "check" => Empty
  /\ run = [target |-> run.target, tests |-> run.tests] /\ run.tests \in Seq(DOMAIN Stimulus)
  /\ pc # "none" => run.tests # <<>>

\* Before the first report the scoreboard knows nothing and blames nothing.
LEMMA NothingSeen ==
  <<>> \in Seq(Reports) /\ Model(<<>>) = <<>> /\ Mismatches(<<>>) = {} /\ Numbers(<<>>)
<1>1. Model(<<>>) = <<>> BY DEF Model
<1>2. Mismatches(<<>>) = {} BY DEF Mismatches
<1> QED BY <1>1, <1>2 DEF Numbers

\* At time 0 and after reset the bench knows what it should.
LEMMA Started ==
  /\ BfmInit => Known
  /\ reset /\ seen' = <<>> => Known' /\ Empty' /\ Between'
<1>1. BfmInit => Known BY NothingSeen DEF BfmInit, Known, MonShape, Answers, Blind, SubReset
<1>2. ASSUME reset, seen' = <<>> PROVE Known' /\ Empty' /\ Between'
  <2>1. Known' BY <1>2, NothingSeen DEF reset, Known, MonShape, Answers, Blind, SubReset
  <2>2. Empty' BY <1>2 DEF reset, Empty, Blind, SubReset
  <2>3. bfm' = At("idle", bfm'.item, bfm'.k, bfm'.beats) BY <1>2 DEF reset, Rest, At
  <2>4. pin' = Quiet BY <1>2 DEF reset
  <2> QED BY <1>2, <2>1, <2>2, <2>3, <2>4 DEF Between
<1> QED BY <1>1, <1>2

\* So it does while nothing on the bus moves.
LEMMA BusKept ==
  ASSUME Known, UNCHANGED busVars
  PROVE  Known' /\ (Empty => Empty') /\ (InHand => InHand')
<1>1. edge' = edge /\ pin' = pin /\ bfm' = bfm /\ mon' = mon /\ seen' = seen /\ sub' = sub
  BY DEF busVars
<1>2. Known' BY <1>1 DEF Known, MonShape, Answers, Numbers
<1>3. Empty => Empty' BY <1>1 DEF Empty
<1>4. InHand => InHand'
  <2>1. Between => Between' BY <1>1 DEF Between, Empty, Got
  <2>2. \A x \in Writes : WriteIn(x) => WriteIn(x)' BY <1>1 DEF WriteIn, Writing, Empty
  <2>3. \A xs : \A s : Reading(xs, s) => Reading(xs, s)' BY <1>1, ReadingKept
  <2>4. ASSUME NEW x \in Reads, ReadIn(x) PROVE ReadIn(x)' BY <1>1, <2>3, <2>4 DEF ReadIn, Got, Empty
  <2>5. ASSUME NEW x \in Multis, MultiIn(x) PROVE MultiIn(x)' BY <1>1, <2>3, <2>5 DEF MultiIn, Empty
  <2> QED BY <2>1, <2>2, <2>4, <2>5 DEF InHand
<1> QED BY <1>2, <1>3, <1>4

\* The driver is idle only between two transfers.
LEMMA Idle ==
  ASSUME InHand, bfm.pc = "idle"
  PROVE  Between
<1>1. ASSUME NEW p, NEW x, NEW k, NEW bs, bfm = At(p, x, k, bs) PROVE p = "idle" BY <1>1 DEF At
<1>2. ASSUME NEW x \in Writes, WriteIn(x) PROVE FALSE BY <1>1, <1>2 DEF WriteIn
<1>3. ASSUME NEW x \in Reads, ReadIn(x) PROVE FALSE BY <1>1, <1>3 DEF ReadIn
<1>4. ASSUME NEW x \in Multis, MultiIn(x) PROVE FALSE BY <1>1, <1>4 DEF MultiIn
<1> QED BY <1>2, <1>3, <1>4 DEF InHand

\* The driver starts on the item x.
LEMMA Starts ==
  ASSUME Known, InHand, NEW x \in Items, driver_bfm(x)
  PROVE  Known' /\ InHand'
<1>1. /\ bfm.pc = "idle"
      /\ bfm' = At(CASE x.kind = "W" -> "aw_drive" [] x.kind = "R" -> "ar_drive"
                     [] x.kind = "M" -> "m_drive", x, 0, <<>>)
      /\ edge' = edge /\ pin' = pin /\ mon' = mon /\ seen' = seen /\ sub' = sub
  BY DEF driver_bfm, At
<1>2. Between BY <1>1, Idle
<1>3. pin' = Quiet /\ Empty /\ Empty' BY <1>1, <1>2 DEF Between, Empty
<1>4. Known' BY <1>1 DEF Known, MonShape, Answers, Numbers
<1>5. CASE x \in Writes
  <2>1. x.kind = "W" BY <1>5, WriteFields
  <2>2. bfm' = At("aw_drive", x, 0, <<>>) BY <1>1, <2>1
  <2>3. WriteIn(x)' BY <1>3, <2>2 DEF WriteIn
  <2> QED BY <1>4, <1>5, <2>3 DEF InHand
<1>6. CASE x \in Reads
  <2>1. x.kind = "R" BY <1>6, ReadFields
  <2>2. bfm' = At("ar_drive", x, 0, <<>>) BY <1>1, <2>1
  <2>3. ReadIn(x)' BY <1>3, <2>2 DEF ReadIn
  <2> QED BY <1>4, <1>6, <2>3 DEF InHand
<1>7. CASE x \in Multis
  <2>1. x.kind = "M" /\ 0 \in 0 .. Len(x.reqs) - 1 BY <1>7, MultiFields
  <2>2. bfm' = At("m_drive", x, 0, <<>>) BY <1>1, <2>1
  <2>3. SubSeq(x.reqs, 1, 0) = <<>> BY SubSeqEmpty
  <2>4. Reading(<<>>, 0) BY <1>3, NothingRead
  <2>5. Reading(SubSeq(x.reqs, 1, 0), 0) BY <2>3, <2>4
  <2>6. Reading(SubSeq(x.reqs, 1, 0), 0)' BY <1>1, <2>5, ReadingKept
  <2>7. MultiIn(x)' BY <1>3, <2>1, <2>2, <2>6 DEF MultiIn
  <2> QED BY <1>4, <1>7, <2>7 DEF InHand
<1> QED BY <1>5, <1>6, <1>7 DEF Items

\* A half clock keeps what the bench knows, whatever is in hand.
LEMMA EdgeKnown ==
  ASSUME Known, InHand, NEW may, Fall \/ Rise(may)
  PROVE  Known' /\ InHand'
<1>1. ASSUME NEW x \in Writes, WriteIn(x) PROVE Known' /\ InHand'
  <2>1. CASE Fall
    <3>1. Known' BY <2>1, FallKeeps
    <3>2. (WriteIn(x) \/ Between)' BY <1>1, <2>1, WriteFalls
    <3> QED BY <3>1, <3>2 DEF InHand
  <2>2. CASE Rise(may)
    <3>1. WriteIn(x)' /\ Known' BY <1>1, <2>2, WriteRises
    <3> QED BY <3>1 DEF InHand
  <2> QED BY <2>1, <2>2
<1>2. ASSUME NEW x \in Reads, ReadIn(x) PROVE Known' /\ InHand'
  <2>1. CASE Fall
    <3>1. Known' BY <2>1, FallKeeps
    <3>2. (ReadIn(x) \/ Between)' BY <1>2, <2>1, ReadFalls
    <3> QED BY <3>1, <3>2 DEF InHand
  <2>2. CASE Rise(may)
    <3>1. ReadIn(x)' /\ Known' BY <1>2, <2>2, ReadRises
    <3> QED BY <3>1 DEF InHand
  <2> QED BY <2>1, <2>2
<1>3. ASSUME NEW x \in Multis, MultiIn(x) PROVE Known' /\ InHand'
  <2>1. CASE Fall
    <3>1. Known' BY <2>1, FallKeeps
    <3>2. (MultiIn(x) \/ Between)' BY <1>3, <2>1, MultiFalls
    <3> QED BY <3>1, <3>2 DEF InHand
  <2>2. CASE Rise(may)
    <3>1. MultiIn(x)' /\ Known' BY <1>3, <2>2, MultiRises
    <3> QED BY <3>1 DEF InHand
  <2> QED BY <2>1, <2>2
<1>4. CASE Between
  <2>1. bfm.pc = "idle" BY <1>4 DEF Between, At
  <2>2. CASE Fall BY <2>1, <2>2, FallKeeps, FallDoes
  <2>3. CASE Rise(may)
    <3>1. bfm.pc \in {"aw_drive", "ar_drive", "m_drive", "b_taken"} \cup Waiting
      BY <2>3, RiseIs, RiseDoes
    <3> QED BY <2>1, <3>1 DEF Waiting
  <2> QED BY <2>2, <2>3
<1> QED BY <1>1, <1>2, <1>3, <1>4 DEF InHand

\* A simulation that stops leaves what was seen.
LEMMA StopKeeps ==
  ASSUME Bench, NEW v, Stop(v), UNCHANGED busVars
  PROVE  Bench'
<1>1. pc' = "none" /\ run' = [run EXCEPT !.tests = <<>>] BY DEF Stop
<1>2. run' = [target |-> run.target, tests |-> <<>>] BY <1>1 DEF Bench
<1>3. Known' BY BusKept DEF Bench
<1> QED BY <1>1, <1>2, <1>3 DEF Bench

\* Every step of the bench keeps the invariant.
LEMMA StepKnown ==
  ASSUME Bench, [Next]_vars
  PROVE  Bench'
<1>1. ASSUME NEW target \in DOMAIN Tests, Make(target) PROVE Bench'
  <2>1. run' = [target |-> target, tests |-> Tests[target]] /\ pc' = "none" /\ UNCHANGED busVars
    BY <1>1 DEF Make
  <2>2. Tests[target] \in Seq(DOMAIN Stimulus)
    <3>1. /\ Tests["waves"] \in Seq(DOMAIN Stimulus)
          /\ Tests["test_coverage"] \in Seq(DOMAIN Stimulus)
      BY DEF Tests, Stimulus
    <3>2. Tests["test_all"] \in Seq(DOMAIN Stimulus) BY DEF Tests, Stimulus
    <3>3. DOMAIN Tests = {"test_all", "test_coverage", "waves"} BY DEF Tests
    <3> QED BY <3>1, <3>2, <3>3
  <2>3. Known' BY <2>1, BusKept DEF Bench
  <2> QED BY <2>1, <2>2, <2>3 DEF Bench
<1>2. CASE run_one_test
  <2>1. /\ run.tests # <<>> /\ pc' = "run" /\ todo' \in Stimulus[Head(run.tests)]
        /\ reset /\ seen' = <<>> /\ run' = run
    BY <1>2 DEF run_one_test
  <2>2. Head(run.tests) \in DOMAIN Stimulus BY <2>1, HeadTailProperties DEF Bench
  <2>3. todo' \in Seq(Items) BY <2>1, <2>2, StimulusLegal
  <2>4. Known' /\ Between' BY <2>1, Started
  <2> QED BY <2>1, <2>3, <2>4 DEF Bench, InHand
<1>3. CASE get_next_item
  <2>1. pc = "run" /\ todo # <<>> /\ driver_bfm(Head(todo)) /\ todo' = Tail(todo) /\ pc' = pc /\ run' = run
    BY <1>3 DEF get_next_item
  <2>2. todo \in Seq(Items) BY <2>1 DEF Bench
  <2>3. Head(todo) \in Items /\ todo' \in Seq(Items) BY <2>1, <2>2, HeadTailProperties
  <2>4. Known' /\ InHand' BY <2>1, <2>3, Starts DEF Bench
  <2> QED BY <2>1, <2>3, <2>4 DEF Bench
<1>4. CASE Clock(BOOLEAN)
  <2>1. /\ pc = "run" /\ (Fall \/ Rise(BOOLEAN)) /\ pc' = pc /\ todo' = todo /\ run' = run
    BY <1>4 DEF Clock
  <2>2. Known' /\ InHand' BY <2>1, EdgeKnown DEF Bench
  <2> QED BY <2>1, <2>2 DEF Bench
<1>5. CASE EndOfRun
  <2>1. /\ pc = "run" /\ bfm.pc = "idle" /\ pc' = "check" /\ UNCHANGED busVars /\ run' = run
    BY <1>5 DEF EndOfRun
  <2>2. Empty BY <2>1, Idle DEF Bench, Between
  <2>3. Known' /\ Empty' BY <2>1, <2>2, BusKept DEF Bench
  <2> QED BY <2>1, <2>3 DEF Bench
<1>6. CASE check_phase
  <2>1. UNCHANGED busVars BY <1>6 DEF check_phase
  <2>2. CASE Mismatches(seen) = {}
    <3>1. pc = "check" /\ pc' = "report" /\ run' = run BY <1>6, <2>2 DEF check_phase
    <3>2. Known' BY <2>1, BusKept DEF Bench
    <3> QED BY <3>1, <3>2 DEF Bench
  <2>3. CASE Mismatches(seen) # {}
    <3>1. Stop("fail") BY <1>6, <2>3 DEF check_phase
    <3> QED BY <2>1, <3>1, StopKeeps
  <2> QED BY <2>2, <2>3
<1>7. CASE report_phase \/ save
  <2>1. pc # "none" /\ pc' \in {"save", "final"} /\ run' = run /\ UNCHANGED busVars
    BY <1>7 DEF report_phase, save
  <2>2. Known' BY <2>1, BusKept DEF Bench
  <2> QED BY <2>1, <2>2 DEF Bench
<1>8. CASE final_phase
  <2>1. UNCHANGED busVars BY <1>8 DEF final_phase
  <2>2. CASE \E v : Stop(v) BY <2>1, <2>2, StopKeeps
  <2>3. CASE ~(\E v : Stop(v))
    <3>1. pc' = "none" /\ run' = [run EXCEPT !.tests = Tail(@)] BY <1>8, <2>3 DEF final_phase
    <3>2. run' = [target |-> run.target, tests |-> Tail(run.tests)] BY <3>1 DEF Bench
    <3>3. Tail(run.tests) \in Seq(DOMAIN Stimulus)
      <4>1. run.tests \in Seq(DOMAIN Stimulus) /\ run.tests # <<>> BY <1>8 DEF final_phase, Bench
      <4> QED BY <4>1, HeadTailProperties
    <3>4. Known' BY <2>1, BusKept DEF Bench
    <3> QED BY <3>1, <3>2, <3>3, <3>4 DEF Bench
  <2> QED BY <2>2, <2>3
<1>9. CASE Kill
  <2>1. Stop("killed") /\ UNCHANGED busVars BY <1>9 DEF Kill
  <2> QED BY <2>1, StopKeeps
<1>10. CASE UNCHANGED vars
  <2>1. UNCHANGED busVars /\ pc' = pc /\ todo' = todo /\ run' = run BY <1>10 DEF vars, tbVars
  <2>2. Known' /\ (Empty => Empty') /\ (InHand => InHand') BY <2>1, BusKept DEF Bench
  <2> QED BY <2>1, <2>2 DEF Bench
<1> QED BY <1>1, <1>2, <1>3, <1>4, <1>5, <1>6, <1>7, <1>8, <1>9, <1>10 DEF Next

\* It holds at the start.
LEMMA StartKnown == Init => Bench
<1>1. Init => Known BY Started DEF Init
<1> QED BY <1>1 DEF Init, Bench

\* axi_lite_bfm.py, monitor_bfm: between two transfers the writes reported, each beat at
\* the address next_addr gave it, rebuild the memory of the design.
THEOREM MonitorMirrors == Spec => []MonitorMirrorsMemory
<1>1. Bench => MonitorMirrorsMemory BY DEF Bench, Known, MonitorMirrorsMemory
<1> QED BY <1>1, StartKnown, StepKnown, PTL DEF Spec

\* axi_components.py, check_phase: the scoreboard never blames a design that is right, and
\* nothing is still unreported when it looks, whatever the stimulus and the stalls.
THEOREM ScoreboardIsRight == Spec => []ScoreboardAgrees
<1>1. Bench => ScoreboardAgrees BY DEF Bench, Known, Empty, ScoreboardAgrees
<1> QED BY <1>1, StartKnown, StepKnown, PTL DEF Spec

\* axi_lite_bfm.py, _rburst: a sequence gets back the beats of its own read, those the
\* monitor reported last, each once.
THEOREM DriverGetsItsBeats == Spec => []DriverGetsBeats
<1>1. ASSUME Bench PROVE DriverGetsBeats
  <2>1. SUFFICES ASSUME pc = "run", bfm.pc = "idle", bfm.item.kind = "R", seen # <<>>
                 PROVE  LET n == bfm.item.len + 1
                        IN  /\ Len(seen) >= n
                            /\ bfm.beats = [i \in 1 .. n |-> seen[Len(seen) - n + i].data]
    BY DEF DriverGetsBeats
  <2>2. Between BY <1>1, <2>1, Idle DEF Bench
  <2>3. Got(bfm.item.len + 1, bfm.beats) BY <2>1, <2>2 DEF Between
  <2> QED BY <2>3 DEF Got
<1> QED BY <1>1, StartKnown, StepKnown, PTL DEF Spec
===============================================================================
