------------------------------- MODULE Algorithms -------------------------------
(***************************************************************************)
(* The pure algorithms, each walked over its inputs and compared with a    *)
(* definition of what it should compute.  `walker' says which it is.       *)
(***************************************************************************)
EXTENDS Integers, Sequences, Functions, FiniteSets

CONSTANTS
  NULL,
  Starts, Lens,                                \* BurstAddressing
  Tids, LabelOf, MaxEvents,                    \* AgentStream
  Agents, Times,                               \* SpanSweep
  STEP_MARKERS, Gaps, MaxLines,                \* StepSpans
  DOMAINS, Series, Values, HEADLINES, direction, tol     \* Regressions

\* A series is of one of the domains; scope and name tell it: the names in the four
\* tables differ, but for the seconds of a make target and of an agent, whose scopes do.
ASSUME AlgorithmsAssumption ==
  /\ NULL \notin Int
  /\ Starts \subseteq Nat /\ Lens \subseteq Nat
  /\ NULL \notin Tids
  /\ Times \subseteq Int /\ IsFiniteSet(Agents)
  /\ NULL \notin STEP_MARKERS /\ Gaps \subseteq Nat
  /\ DOMAINS \in Seq(Range(DOMAINS)) /\ IsInjective(DOMAINS)
  /\ \A k \in Series : k[1] \in Range(DOMAINS)
  /\ \A k, l \in Series : k[2] = l[2] /\ k[3] = l[3] => k = l
  /\ Values \subseteq Int \cup {NULL} /\ tol \in Nat
  /\ \A name \in DOMAIN direction : direction[name] \in {"up", "down"}

VARIABLES walker, walk

vars == <<walker, walk>>

Credits == INSTANCE AouCreditCodes
Burst   == INSTANCE BurstAddressing
Stream  == INSTANCE AgentStream
Sweep   == INSTANCE SpanSweep
Steps   == INSTANCE StepSpans
Regress == INSTANCE Regressions

Init ==
  \/ walker = "credits"     /\ Credits!Init
  \/ walker = "burst"       /\ Burst!Init
  \/ walker = "stream"      /\ Stream!Init
  \/ walker = "sweep"       /\ Sweep!Init
  \/ walker = "steps"       /\ Steps!Init
  \/ walker = "regressions" /\ Regress!Init

Next ==
  /\ \/ walker = "credits"     /\ Credits!Next
     \/ walker = "burst"       /\ Burst!Next
     \/ walker = "stream"      /\ Stream!Next
     \/ walker = "sweep"       /\ Sweep!Next
     \/ walker = "steps"       /\ Steps!Next
     \/ walker = "regressions" /\ Regress!Next
  /\ UNCHANGED walker

Spec == Init /\ [][Next]_vars

-----------------------------------------------------------------------------
\* Credit returns cover what was freed (AouCreditCodes).
ReturnCovers == walker = "credits" => Credits!ReturnCovers

\* A burst walks the words AXI says it does (BurstAddressing).
SameContainer == walker = "burst" => Burst!SameContainer

\* Events are attributed to the agents they are of (AgentStream), and the parallelism
\* reported is the most of these agents' spans that were open at once (SpanSweep).
StreamAccounted ==
  /\ walker = "stream" => Stream!StreamAccounted
  /\ walker = "sweep"  => Sweep!PeakIsRight

\* The seconds of a gate are its steps' (StepSpans).
SpansAddUp == walker = "steps" => Steps!SpansAddUp

\* Every regression is listed once (Regressions).
RegressionsListed == walker = "regressions" => Regress!RegressionsListed
===============================================================================
