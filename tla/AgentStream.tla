------------------------------ MODULE AgentStream ------------------------------
(***************************************************************************)
(* The walk of collect_ai_from_stream (metrics/collect.py): events of a    *)
(* swarm, in the order they were captured, attributed to the agents that   *)
(* the Task blocks dispatched.  Read is one turn of the loop.              *)
(*                                                                         *)
(*   walk.stream   the events so far                                       *)
(*   walk.root     the manager's record                                    *)
(*   walk.agents   the record of each agent, by the id of its Task block   *)
(*   walk.order    these ids as they came up                               *)
(*                                                                         *)
(* An event is [parent, type, usage, task]: parent the id of the agent it  *)
(* is of, NULL for the manager; task the id its Task block dispatches.     *)
(* Its time is its place in the stream.                                    *)
(***************************************************************************)
EXTENDS Naturals, Sequences, FiniteSetsExt

CONSTANTS
  NULL,
  Tids, LabelOf,      \* the ids of Task blocks; what the blocks call their agents
  MaxEvents           \* bound

VARIABLE walk

Events ==
  {e \in [parent : Tids \cup {NULL}, type : {"assistant", "user"}, usage : BOOLEAN, task : Tids \cup {NULL}] :
     /\ e.type = "user" => ~e.usage /\ e.task = NULL
     /\ e.task # NULL => e.task # e.parent /\ e.usage}

blank(name) == [name |-> name, t0 |-> NULL, t1 |-> NULL, turns |-> 0, tokens |-> 0,
                tool_calls |-> 0, tool_errors |-> 0]

Init == walk = [stream |-> <<>>, root |-> blank("swarm-manager"),
                agents |-> [t \in {} |-> blank("")], order |-> <<>>]

\* What an event adds to the record of its agent; a user event here is the result of
\* a tool that failed.
Told(rec, e, ts) ==
  [rec EXCEPT !.t0 = IF @ = NULL THEN ts ELSE @, !.t1 = ts,
              !.turns       = IF e.type = "assistant" THEN @ + 1 ELSE @,
              !.tokens      = IF e.usage THEN @ + 1 ELSE @,
              !.tool_calls  = IF e.task # NULL THEN @ + 1 ELSE @,
              !.tool_errors = IF e.type = "user" THEN @ + 1 ELSE @]

\* A record for an agent that comes up.
Entered(w, tid, name) ==
  [w EXCEPT !.agents = [t \in DOMAIN @ \cup {tid} |-> IF t = tid THEN blank(name) ELSE @[t]],
            !.order = Append(@, tid)]

\* Mutant: a Task block of an agent that came up before it does not name it.
Dispatched_onlyNew(w, tid) ==
  IF tid = NULL \/ tid \in DOMAIN w.agents THEN w
  ELSE Entered(w, tid, LabelOf[tid])

\* A Task block makes the record of its agent, or names the placeholder.
Dispatched(w, tid) ==
  CASE tid = NULL             -> w
    [] tid \in DOMAIN w.agents -> [w EXCEPT !.agents[tid].name = LabelOf[tid]]
    [] OTHER                  -> Entered(w, tid, LabelOf[tid])

\* A placeholder for an agent whose Task block has not been seen.
Placed(w, parent) ==
  IF parent \in DOMAIN w.agents \cup {NULL} THEN w
  ELSE Entered(w, parent, "unknown-agent")

Read(e) ==
  LET ts == Len(walk.stream) + 1
      w  == Placed([walk EXCEPT !.stream = Append(@, e)], e.parent)
      to == IF e.parent = NULL THEN [w EXCEPT !.root = Told(@, e, ts)]
                               ELSE [w EXCEPT !.agents[e.parent] = Told(@, e, ts)]
  IN  walk' = Dispatched(to, e.task)

Next == Len(walk.stream) < MaxEvents /\ \E e \in Events : Read(e)

-----------------------------------------------------------------------------
(* The rows *)

Recs == <<walk.root>> \o [i \in DOMAIN walk.order |-> walk.agents[walk.order[i]]]

\* Repeated names are told apart by a number: <<name, n>> stands for "name#n".
Agent(i) == <<Recs[i].name, Cardinality({j \in 1 .. i : Recs[j].name = Recs[i].name})>>

-----------------------------------------------------------------------------
Of(parent) == {k \in DOMAIN walk.stream : walk.stream[k].parent = parent}
Kind(ks, type) == {k \in ks : walk.stream[k].type = type}
Named(tid) == \E k \in DOMAIN walk.stream : walk.stream[k].task = tid

Tells(rec, parent) ==
  LET ks == Of(parent)
  IN  /\ rec.turns = Cardinality(Kind(ks, "assistant"))
      /\ rec.tokens = Cardinality({k \in ks : walk.stream[k].usage})
      /\ rec.tool_calls = Cardinality({k \in ks : walk.stream[k].task # NULL})
      /\ rec.tool_errors = Cardinality(Kind(ks, "user"))
      /\ ks # {} => rec.t0 = Min(ks) /\ rec.t1 = Max(ks)

\* Whatever order the events of the agents come in, a Task block after the events of
\* its own agent included, each agent's rows are of its own events, none is dropped,
\* the agent has the name its block gives it, and no two agents share a row.
StreamAccounted ==
  /\ Tells(walk.root, NULL)
  /\ DOMAIN walk.agents = {t \in Tids : Of(t) # {} \/ Named(t)}
  /\ \A t \in DOMAIN walk.agents :
       /\ Tells(walk.agents[t], t)
       /\ walk.agents[t].name = IF Named(t) THEN LabelOf[t] ELSE "unknown-agent"
  /\ \A i, j \in DOMAIN Recs : Agent(i) = Agent(j) => i = j
  /\ Len(walk.order) = Cardinality(DOMAIN walk.agents)
===============================================================================
