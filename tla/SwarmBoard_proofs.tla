---------------------------- MODULE SwarmBoard_proofs ----------------------------
(***************************************************************************)
(* Proofs about the status board, for every number of workers and every    *)
(* bound: what the manager has seen of a worker never goes back.           *)
(*                                                                         *)
(* The argument: files only get newer along the way a report travels, from *)
(* the manager's boards over its tracking branches to the origin, and,     *)
(* where a push would be accepted, on to the sandbox.                      *)
(***************************************************************************)
EXTENDS SwarmBoard, TLAPS

\* g is a set of files at least as new as f, file by file.
NoOlder(g, f) == \A n \in Worker : Updated(g[n]) >= Updated(f[n])

\* Nothing carries a time stamp from the future.
Past == \A w, n \in Worker : Updated(clone[w][n]) <= clock /\ Updated(origin[w][n]) <= clock

\* A push that would be accepted does not take a file back.
PushesForward == \A w \in Worker : descends[w] => NoOlder(clone[w], origin[w])

\* The origin is at least as new as what was fetched from it.
FetchesForward == \A r \in Worker : NoOlder(origin[r], tracking[r])

\* Some fetched branch has a copy at least as new as what was read.
ReadsForward ==
  \A n \in Worker : \E r \in Worker : Updated(tracking[r][n]) >= Updated(boards[n])

Inv == TypeOK /\ Past /\ PushesForward /\ FetchesForward /\ (Worker # {} => ReadsForward)

\* A time stamp is an integer; that of no file is before all others.
LEMMA UpdatedInt ==
  ASSUME NEW f \in File PROVE Updated(f) \in Int /\ Updated(f) >= -1
BY SwarmBoardAssumption DEF File, Report, Updated

\* The copy remote_boards keeps is no older than any other.
LEMMA NewestIsNewest ==
  ASSUME NEW refs \in [Worker -> [Worker -> File]], NEW n \in Worker, NEW f \in File,
         Newest(refs, n, f)
  PROVE  \A r \in Worker : Updated(refs[r][n]) <= Updated(f)
<1>1. CASE f = NoFile /\ \A r \in Worker : refs[r][n] = NoFile
  BY <1>1 DEF Updated
<1>2. CASE f # NoFile /\ \A q \in Worker : Updated(refs[q][n]) <= f.updated
  BY <1>2 DEF Updated
<1> QED
  BY <1>1, <1>2 DEF Newest

\* ... and it is one of the copies.
LEMMA NewestIsCopy ==
  ASSUME NEW refs, NEW n \in Worker, NEW f, Newest(refs, n, f), Worker # {}
  PROVE  \E r \in Worker : refs[r][n] = f
BY DEF Newest

\* A poll (git fetch and remote_boards) keeps the order of the copies, and what
\* the manager now has is no older than what it had.
LEMMA PollForward ==
  ASSUME Inv, NEW fetched \in BOOLEAN, remote_boards(fetched), UNCHANGED origin
  PROVE  /\ tracking' \in [Worker -> [Worker -> File]]
         /\ boards' \in [Worker -> File]
         /\ FetchesForward'
         /\ Worker # {} => ReadsForward'
         /\ \A n \in Worker : Updated(boards'[n]) >= Updated(boards[n])
<1>1. /\ tracking' \in [Worker -> [Worker -> File]]
      /\ boards' \in [Worker -> File]
      /\ \A n \in Worker : Newest(tracking', n, boards'[n])
  BY DEF remote_boards, Inv, TypeOK
<1>2. \A r, n \in Worker : /\ Updated(tracking'[r][n]) \in Int
                           /\ Updated(origin[r][n]) \in Int
                           /\ Updated(tracking[r][n]) \in Int
                           /\ Updated(boards'[n]) \in Int /\ Updated(boards[n]) \in Int
  BY <1>1, UpdatedInt DEF Inv, TypeOK
<1>3. \A r, n \in Worker : /\ Updated(tracking'[r][n]) <= Updated(origin[r][n])
                           /\ Updated(tracking'[r][n]) >= Updated(tracking[r][n])
  BY <1>2 DEF remote_boards, Inv, FetchesForward, NoOlder
<1>4. FetchesForward'
  BY <1>2, <1>3 DEF FetchesForward, NoOlder
<1>5. Worker # {} => ReadsForward'
  <2> SUFFICES ASSUME Worker # {}, NEW n \in Worker
               PROVE  \E r \in Worker : Updated(tracking'[r][n]) >= Updated(boards'[n])
    BY DEF ReadsForward
  <2>1. PICK r \in Worker : tracking'[r][n] = boards'[n]
    BY <1>1, NewestIsCopy
  <2> QED
    BY <2>1, <1>2
<1>6. ASSUME NEW n \in Worker
      PROVE  Updated(boards'[n]) >= Updated(boards[n])
  <2>1. PICK r \in Worker : Updated(tracking[r][n]) >= Updated(boards[n])
    BY <1>6 DEF Inv, ReadsForward
  <2>2. Updated(tracking'[r][n]) <= Updated(boards'[n])
    BY <1>1, NewestIsNewest
  <2> QED
    BY <2>1, <2>2, <1>2, <1>3
<1> QED
  BY <1>1, <1>4, <1>5, <1>6

-----------------------------------------------------------------------------
LEMMA InvInit == Init => Inv
<1> SUFFICES ASSUME Init PROVE Inv
  OBVIOUS
<1>1. TypeOK
  BY SwarmBoardAssumption DEF Init, TypeOK, NoFiles, File
<1>2. Past /\ PushesForward /\ FetchesForward /\ (Worker # {} => ReadsForward)
  BY DEF Init, Past, PushesForward, FetchesForward, ReadsForward, NoOlder, NoFiles, Updated
<1> QED
  BY <1>1, <1>2 DEF Inv

\* A report is stamped now: newer than the file it replaces, here and at the origin.
LEMMA InvReport ==
  ASSUME Inv, NEW w \in Worker, NEW cmd \in Commands, cmd_worker(w, cmd)
  PROVE  Inv'
<1> DEFINE new == [state |-> NewState(w, cmd), updated |-> clock]
<1>1. new \in Report
  BY DEF Inv, TypeOK, NewState, load, Commands, Report, Reported, File
<1>2. clone' = [clone EXCEPT ![w][w] = new] /\ Updated(new) = clock
  BY <1>1, NoFileAssumption DEF cmd_worker, write, Updated
<1>3. TypeOK'
  <2>1. clone' \in [Worker -> [Worker -> File]]
    BY <1>1, <1>2 DEF Inv, TypeOK, File
  <2>2. used' \in [reports : 0 .. MaxReports, replaced : 0 .. MaxReplaced]
    <3>1. used' = [used EXCEPT !.reports = used.reports + 1] /\ used.reports < MaxReports
      BY DEF cmd_worker
    <3> QED
      BY <3>1, SwarmBoardAssumption DEF Inv, TypeOK
  <2> QED
    BY <2>1, <2>2 DEF Inv, TypeOK, cmd_worker
<1>4. \A v, n \in Worker : clone'[v][n] = IF v = w /\ n = w THEN new ELSE clone[v][n]
  BY <1>2 DEF Inv, TypeOK
<1>5. \A v, n \in Worker : Updated(clone[v][n]) \in Int /\ Updated(origin[v][n]) \in Int
  BY UpdatedInt DEF Inv, TypeOK
<1>6. clock \in Int
  BY DEF Inv, TypeOK
<1>7. Past'
  BY <1>2, <1>4, <1>5, <1>6 DEF Inv, Past, cmd_worker
<1>8. PushesForward'
  BY <1>2, <1>4, <1>5, <1>6 DEF Inv, Past, PushesForward, NoOlder, cmd_worker
<1>9. FetchesForward' /\ (Worker # {} => ReadsForward')
  BY DEF Inv, FetchesForward, ReadsForward, NoOlder, cmd_worker
<1> QED
  BY <1>3, <1>7, <1>8, <1>9 DEF Inv

\* A push that is accepted fast-forwards the branch.
LEMMA InvPush ==
  ASSUME Inv, NEW w \in Worker, Push(w)
  PROVE  Inv'
<1>1. TypeOK'
  BY DEF Inv, TypeOK, Push
<1>2. \A v \in Worker : origin'[v] = IF v = w THEN clone[w] ELSE origin[v]
  BY DEF Inv, TypeOK, Push
<1>3. \A v, n \in Worker : /\ Updated(clone[v][n]) \in Int /\ Updated(origin[v][n]) \in Int
                           /\ Updated(tracking[v][n]) \in Int
  BY UpdatedInt DEF Inv, TypeOK
<1>4. Past'
  BY <1>2 DEF Inv, Past, Push
<1>5. PushesForward'
  BY <1>2, <1>3 DEF Inv, PushesForward, NoOlder, Push
<1>6. NoOlder(clone[w], origin[w])
  BY DEF Inv, PushesForward, Push
<1>7. FetchesForward'
  BY <1>2, <1>3, <1>6 DEF Inv, FetchesForward, NoOlder, Push
<1>8. Worker # {} => ReadsForward'
  BY DEF Inv, ReadsForward, Push
<1> QED
  BY <1>1, <1>4, <1>5, <1>7, <1>8 DEF Inv

\* A replaced sandbox has the files of a branch, and may push only over its own.
LEMMA InvReplace ==
  ASSUME Inv, NEW w \in Worker, NEW from \in Worker \cup {Main}, Replace(w, from)
  PROVE  Inv'
<1> DEFINE files == IF from = Main THEN NoFiles ELSE origin[from]
<1>1. files \in [Worker -> File]
  BY DEF Inv, TypeOK, NoFiles, File
<1>2. \A v \in Worker : /\ clone'[v] = (IF v = w THEN files ELSE clone[v])
                        /\ descends'[v] = (IF v = w THEN from = w \/ origin[w] = NoFiles
                                           ELSE descends[v])
  BY DEF Inv, TypeOK, Replace
<1>3. TypeOK'
  <2>1. clone' \in [Worker -> [Worker -> File]]
    BY <1>1 DEF Inv, TypeOK, Replace
  <2>2. descends' \in [Worker -> BOOLEAN]
    BY DEF Inv, TypeOK, Replace
  <2>3. used' \in [reports : 0 .. MaxReports, replaced : 0 .. MaxReplaced]
    BY SwarmBoardAssumption DEF Inv, TypeOK, Replace
  <2> QED
    BY <2>1, <2>2, <2>3 DEF Inv, TypeOK, Replace
<1>4. \A v, n \in Worker : /\ Updated(clone[v][n]) \in Int /\ Updated(origin[v][n]) \in Int
                           /\ Updated(files[n]) \in Int /\ Updated(files[n]) >= -1
  BY <1>1, UpdatedInt DEF Inv, TypeOK
<1>5. \A n \in Worker : Updated(files[n]) <= clock
  BY SwarmBoardAssumption DEF Inv, TypeOK, Past, NoFiles, Updated
<1>6. Past'
  BY <1>2, <1>5 DEF Inv, Past, Replace
<1>7. from = w \/ origin[w] = NoFiles => NoOlder(files, origin[w])
  BY <1>4, SwarmBoardAssumption DEF NoOlder, NoFiles, Updated
<1>8. PushesForward'
  BY <1>2, <1>7 DEF Inv, PushesForward, NoOlder, Replace
<1>9. FetchesForward' /\ (Worker # {} => ReadsForward')
  BY DEF Inv, FetchesForward, ReadsForward, NoOlder, Replace
<1> QED
  BY <1>3, <1>6, <1>8, <1>9 DEF Inv

\* A poll touches only the manager's copies.
LEMMA InvPoll ==
  ASSUME Inv, NEW fetched \in BOOLEAN, remote_boards(fetched),
         UNCHANGED <<clock, clone, descends, origin, tasks, used>>,
         wait' \in [pc : {"idle", "looping", "found", "timed_out", "returned", "raised"},
                    end : 0 .. MaxClock]
  PROVE  Inv'
<1>1. /\ tracking' \in [Worker -> [Worker -> File]] /\ boards' \in [Worker -> File]
      /\ FetchesForward' /\ (Worker # {} => ReadsForward')
  BY PollForward
<1>2. TypeOK'
  BY <1>1 DEF Inv, TypeOK
<1>3. Past' /\ PushesForward'
  BY DEF Inv, Past, PushesForward, NoOlder
<1> QED
  BY <1>1, <1>2, <1>3 DEF Inv

\* Steps that touch no file.
LEMMA InvOther ==
  ASSUME Inv, TypeOK', UNCHANGED <<clone, descends, origin, tracking, boards>>,
         clock' = clock \/ clock' = clock + 1
  PROVE  Inv'
<1>1. \A v, n \in Worker : Updated(clone[v][n]) \in Int /\ Updated(origin[v][n]) \in Int
  BY UpdatedInt DEF Inv, TypeOK
<1>2. clock \in Int
  BY DEF Inv, TypeOK
<1>3. Past'
  BY <1>1, <1>2 DEF Inv, Past
<1>4. PushesForward' /\ FetchesForward' /\ (Worker # {} => ReadsForward')
  BY DEF Inv, PushesForward, FetchesForward, ReadsForward, NoOlder
<1> QED
  BY <1>3, <1>4 DEF Inv

\* The steps of Next that poll; all of them leave the sandboxes and the origin alone.
Polls(fetched) == Show(fetched) \/ WaitLook(fetched) \/ WaitShow(fetched)

LEMMA PollSteps ==
  ASSUME Inv, NEW fetched \in BOOLEAN, Polls(fetched)
  PROVE  /\ remote_boards(fetched)
         /\ UNCHANGED <<clock, clone, descends, origin, tasks, used>>
         /\ wait' \in [pc : {"idle", "looping", "found", "timed_out", "returned", "raised"},
                       end : 0 .. MaxClock]
BY DEF Polls, Show, WaitLook, WaitShow, cmd_show, Inv, TypeOK

\* Every other step leaves the manager's boards alone.
Others ==
  \/ \E w \in Planned : cmd_assign(w) \/ cmd_retire(w)
  \/ WaitStart \/ WaitTimeout \/ Tick
  \/ UNCHANGED vars

LEMMA OtherSteps ==
  ASSUME Inv, Others
  PROVE  /\ TypeOK' /\ UNCHANGED <<clone, descends, origin, tracking, boards>>
         /\ clock' = clock \/ clock' = clock + 1
<1>1. CASE \E w \in Planned : cmd_assign(w) \/ cmd_retire(w)
  BY <1>1, SwarmBoardAssumption DEF cmd_assign, cmd_retire, Inv, TypeOK
<1>2. CASE WaitStart \/ WaitTimeout
  BY <1>2, SwarmBoardAssumption DEF WaitStart, WaitTimeout, Inv, TypeOK
<1>3. CASE Tick
  BY <1>3, SwarmBoardAssumption DEF Tick, Inv, TypeOK
<1>4. CASE UNCHANGED vars
  BY <1>4 DEF vars, Inv, TypeOK
<1> QED
  BY <1>1, <1>2, <1>3, <1>4 DEF Others

\* Next and the stuttering step, split into the kinds of steps above.
LEMMA StepKinds ==
  ASSUME [Next]_vars
  PROVE  \/ \E w \in Worker, cmd \in Commands : cmd_worker(w, cmd)
         \/ \E w \in Worker : Push(w)
         \/ \E w \in Worker, from \in Worker \cup {Main} : Replace(w, from)
         \/ \E fetched \in BOOLEAN : Polls(fetched)
         \/ Others
BY DEF Next, Polls, Others

LEMMA InvNext == Inv /\ [Next]_vars => Inv'
<1> SUFFICES ASSUME Inv, [Next]_vars PROVE Inv'
  OBVIOUS
<1>1. ASSUME NEW fetched \in BOOLEAN, Polls(fetched) PROVE Inv'
  BY <1>1, PollSteps, InvPoll
<1>2. CASE Others
  BY <1>2, OtherSteps, InvOther
<1> QED
  BY <1>1, <1>2, StepKinds, InvReport, InvPush, InvReplace

\* What the manager holds never gets older in any step.
LEMMA StepNeverGoesBack ==
  ASSUME Inv, [Next]_vars
  PROVE  \A n \in Worker : Updated(boards'[n]) >= Updated(boards[n])
<1>1. \A n \in Worker : Updated(boards[n]) \in Int
  BY UpdatedInt DEF Inv, TypeOK
<1>2. ASSUME NEW fetched \in BOOLEAN, Polls(fetched)
      PROVE  \A n \in Worker : Updated(boards'[n]) >= Updated(boards[n])
  BY <1>2, PollSteps, PollForward
<1>3. CASE UNCHANGED boards
  BY <1>1, <1>3
<1>4. Others => UNCHANGED boards
  BY OtherSteps
<1>5. \A w \in Worker : Push(w) \/ (\E cmd \in Commands : cmd_worker(w, cmd))
                          \/ (\E from \in Worker \cup {Main} : Replace(w, from))
                        => UNCHANGED boards
  BY DEF Push, cmd_worker, Replace
<1> QED
  BY <1>2, <1>3, <1>4, <1>5, StepKinds

\* TypeOK: the files, refs and registers keep their types.
THEOREM BoardTypes == Spec => []TypeOK
<1>1. Inv => TypeOK
  BY DEF Inv
<1> QED
  BY <1>1, InvInit, InvNext, PTL DEF Spec

\* NeverGoesBack: whatever sandboxes are lost, forked or replaced and whichever
\* fetches fail, the newest report seen of a worker stays the newest
\* (remote_boards in tools/swarm/board.py).
THEOREM NeverBack == Spec => NeverGoesBack
<1>1. Inv /\ [Next]_vars => [\A n \in Worker : Updated(boards'[n]) >= Updated(boards[n])]_vars
  BY StepNeverGoesBack
<1> QED
  BY <1>1, InvInit, InvNext, PTL DEF Spec, NeverGoesBack

===============================================================================
