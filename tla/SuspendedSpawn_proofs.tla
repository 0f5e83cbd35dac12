------------------------ MODULE SuspendedSpawn_proofs ------------------------
(***************************************************************************)
(* Theorems about SuspendedSpawn, for any number of launches and pids.     *)
(*                                                                         *)
(* A step is one launch's, or the world's.  What it must keep for its own  *)
(* launch differs from step to step; what the launches it does not belong  *)
(* to need of it is always the same (OthersKeep): it starts no process of  *)
(* theirs, and one that it lets run it has let run astray.                 *)
(***************************************************************************)
EXTENDS SuspendedSpawn, TLAPS

Processes == {NoProcess} \cup [owner : Launches, run : {"held", "running"}]

NoneOf(l) == \A p \in Pids : proc[p].owner # l

\* What is so of each launch.  A handle knows where its target is, if it still
\* exists; it has let go of the target exactly if the launch succeeded; and it
\* takes it for terminated only when it has ended.
LaunchInv(l) ==
    /\ stage[l] = "launch" => gate[l] = None /\ NoneOf(l)
    /\ gate[l] # None => \A p \in Pids : proc[p].owner = l => p = pid[l]
    /\ released[l] = TRUE <=> stage[l] \in {"ready", "attached"}
    /\ stage[l] = "resume" => agent[l] = TRUE
    /\ state[l] = "terminated" => stage[l] \in {"drop", "failed"} /\ NoneOf(l)
    /\ stage[l] \in {"ready", "attached"} =>
          \A p \in Pids : proc[p].owner = l => proc[p].run = "running"
    /\ stage[l] = "failed" /\ gate[l] # None /\ l \notin refused => NoneOf(l)
    /\ \A p \in Pids : proc[p].owner = l /\ proc[p].run = "running" =>
          agent[l] = TRUE \/ l \in opened \cup astray

Inv == TypeOK /\ \A l \in Launches : LaunchInv(l)

------------------------------------------------------------------------------
(* The launches that a step does not belong to.                            *)

Untouched(k) ==
    /\ stage'[k] = stage[k] /\ gate'[k] = gate[k] /\ state'[k] = state[k]
    /\ released'[k] = released[k] /\ agent'[k] = agent[k] /\ pid'[k] = pid[k]

ProcessesGoOn(k) ==
    \A p \in Pids : proc'[p].owner = k =>
        /\ proc[p].owner = k
        /\ \/ proc'[p].run = proc[p].run
           \/ proc'[p].run = "running" /\ k \in opened' \cup astray'

HistoryGrows ==
    opened \subseteq opened' /\ refused \subseteq refused' /\ astray \subseteq astray'

LEMMA OthersKeep ==
    ASSUME NEW k \in Launches, LaunchInv(k), Untouched(k), ProcessesGoOn(k), HistoryGrows
    PROVE  LaunchInv(k)'
  <1>1. NoneOf(k) => NoneOf(k)'
    BY DEF NoneOf, ProcessesGoOn
  <1>2. \A p \in Pids : proc'[p].owner = k =>
            proc[p].owner = k /\ (proc[p].run = "running" => proc'[p].run = "running")
    BY DEF ProcessesGoOn
  <1>3. \A p \in Pids : proc'[p].owner = k /\ proc'[p].run = "running" =>
            agent[k] = TRUE \/ k \in opened' \cup astray'
    BY DEF ProcessesGoOn, HistoryGrows, LaunchInv
  <1>4. k \in refused => k \in refused'
    BY DEF HistoryGrows
  <1> QED
    BY <1>1, <1>2, <1>3, <1>4 DEF LaunchInv, Untouched

\* A launch between its start and its end has a handle.
LEMMA HandleHasTarget ==
    ASSUME Inv, NEW l \in Launches, stage[l] \notin {"launch", "failed"}
    PROVE  /\ pid[l] \in Pids /\ gate[l] # None /\ state[l] # "none"
           /\ Target(l) \in Processes
           /\ \A p \in Pids : proc[p].owner = l => p = pid[l]
  BY DEF Inv, TypeOK, LaunchInv, Target, Processes

LEMMA ProcessTypes ==
    /\ NoProcess.owner = None /\ NoProcess.run = "none"
    /\ \A r \in Processes : /\ r.owner \in Launches \cup {None}
                            /\ r.run \in {"none", "held", "running"}
                            /\ r = NoProcess <=> r.owner = None
                            /\ r = NoProcess <=> r.run = "none"
  BY NoneIsNeither DEF Processes, NoProcess

\* A handle that does not reach its target, or sees it gone, has none.
LEMMA TargetIsGone ==
    ASSUME Inv, NEW l \in Launches, stage[l] \notin {"launch", "failed"},
           SeesExited(l) \/ ~Reaches(l)
    PROVE  NoneOf(l)
  <1> SUFFICES ASSUME NEW p \in Pids, proc[p].owner = l PROVE FALSE
    BY DEF NoneOf
  <1>1. Target(l).owner = l /\ Target(l) \in Processes
    BY HandleHasTarget DEF Target
  <1>2. Target(l) # NoProcess /\ Target(l).run # "none"
    BY <1>1, ProcessTypes, NoneIsNeither
  <1> QED
    BY <1>1, <1>2 DEF SeesExited, Reaches

------------------------------------------------------------------------------
(* Signals.                                                                *)

LEMMA ReleaseNow ==
    ASSUME Inv, NEW l \in Launches, stage[l] \notin {"launch", "failed"}, Release(l),
           UNCHANGED <<opened, refused>>
    PROVE  /\ proc' \in [Pids -> Processes]
           /\ astray' \subseteq Launches
           /\ HistoryGrows
           /\ \A k \in Launches : k # l => ProcessesGoOn(k)
           /\ \A p \in Pids : proc'[p].owner = l =>
                 proc[p].owner = l /\ proc'[p].run = "running"
  <1>1. pid[l] \in Pids /\ Target(l) \in Processes /\ Target(l) # NoProcess
        /\ \A p \in Pids : proc[p].owner = l => p = pid[l]
    BY HandleHasTarget DEF Release, Reaches
  <1>2. PICK r \in Processes : r = Target(l) /\ r \in [owner : Launches, run : {"held", "running"}]
    BY <1>1 DEF Processes
  <1>3. PICK q : q = [owner |-> r.owner, run |-> "running"]
    OBVIOUS
  <1>4. q = [Target(l) EXCEPT !.run = "running"] /\ q \in Processes
    BY <1>2, <1>3 DEF Processes
  <1>5. /\ proc' = [proc EXCEPT ![pid[l]] = q]
        /\ astray' = astray \cup ({r.owner} \ {l})
    BY <1>2, <1>4 DEF Release, Hit
  <1>6. proc \in [Pids -> Processes] /\ astray \subseteq Launches
    BY DEF Inv, TypeOK, Processes
  <1>7. /\ proc' \in [Pids -> Processes]
        /\ proc'[pid[l]] = q
        /\ \A p \in Pids : p # pid[l] => proc'[p] = proc[p]
    BY <1>1, <1>4, <1>5, <1>6
  <1>8. q.owner = r.owner /\ q.run = "running" /\ r = proc[pid[l]] /\ r.owner \in Launches
    BY <1>2, <1>3 DEF Target
  <1>9. astray' \subseteq Launches /\ HistoryGrows
    BY <1>5, <1>6, <1>8 DEF HistoryGrows
  <1>10. ASSUME NEW k \in Launches, k # l
         PROVE  ProcessesGoOn(k)
    BY <1>5, <1>7, <1>8, <1>10 DEF ProcessesGoOn
  <1>11. \A p \in Pids : proc'[p].owner = l => proc[p].owner = l /\ proc'[p].run = "running"
    BY <1>1, <1>7, <1>8
  <1> QED
    BY <1>7, <1>9, <1>10, <1>11

LEMMA TerminateNow ==
    ASSUME Inv, NEW l \in Launches, stage[l] \notin {"launch", "failed"}, Terminate(l),
           UNCHANGED <<opened, refused>>
    PROVE  /\ proc' \in [Pids -> Processes]
           /\ astray' \subseteq Launches
           /\ HistoryGrows
           /\ \A k \in Launches : k # l => ProcessesGoOn(k)
           /\ NoneOf(l)'
  <1>1. pid[l] \in Pids /\ Target(l) \in Processes /\ Target(l) # NoProcess
        /\ \A p \in Pids : proc[p].owner = l => p = pid[l]
    BY HandleHasTarget DEF Terminate, Reaches
  <1>2. Target(l).owner \in Launches
    BY <1>1 DEF Processes
  <1>3. /\ proc' = [proc EXCEPT ![pid[l]] = NoProcess]
        /\ astray' = astray \cup ({Target(l).owner} \ {l})
    BY DEF Terminate, Hit
  <1>4. proc \in [Pids -> Processes] /\ astray \subseteq Launches /\ NoProcess \in Processes
    BY DEF Inv, TypeOK, Processes
  <1>5. /\ proc' \in [Pids -> Processes]
        /\ proc'[pid[l]] = NoProcess
        /\ \A p \in Pids : p # pid[l] => proc'[p] = proc[p]
    BY <1>1, <1>3, <1>4
  <1>6. astray' \subseteq Launches /\ HistoryGrows
    BY <1>2, <1>3, <1>4 DEF HistoryGrows
  <1>7. NoProcess.owner \notin Launches
    BY ProcessTypes, NoneIsNeither
  <1>8. \A k \in Launches : k # l => ProcessesGoOn(k)
    BY <1>5, <1>7 DEF ProcessesGoOn
  <1>9. NoneOf(l)'
    BY <1>1, <1>5, <1>7 DEF NoneOf
  <1> QED
    BY <1>5, <1>6, <1>8, <1>9

------------------------------------------------------------------------------
(* The start of a target.                                                  *)

LEMMA StartedNow ==
    ASSUME Inv, NEW l \in Launches, NEW p \in Pids, stage[l] = "launch", Started(l, p),
           UNCHANGED <<opened, refused, astray>>
    PROVE  /\ proc' \in [Pids -> Processes]
           /\ HistoryGrows
           /\ \A k \in Launches : k # l => ProcessesGoOn(k)
           /\ \A q \in Pids : proc'[q].owner = l => q = p /\ proc'[q].run = "held"
  <1>1. PICK r : r = [owner |-> l, run |-> "held"]
    OBVIOUS
  <1>2. r \in Processes /\ r.owner = l /\ r.run = "held"
    BY <1>1 DEF Processes
  <1>3. proc \in [Pids -> Processes] /\ NoneOf(l)
    BY DEF Inv, TypeOK, Processes, LaunchInv
  <1>4. /\ proc' \in [Pids -> Processes]
        /\ proc'[p] = r
        /\ \A q \in Pids : q # p => proc'[q] = proc[q]
    BY <1>1, <1>2, <1>3 DEF Started
  <1> QED
    BY <1>2, <1>3, <1>4 DEF ProcessesGoOn, HistoryGrows, NoneOf

LEMMA GivenUpKeeps ==
    ASSUME Inv, NEW l \in Launches, stage[l] = "launch", GivenUp(l),
           proc' \in [Pids -> Processes],
           \A k \in Launches : k # l => ProcessesGoOn(k) /\ pid'[k] = pid[k],
           \A p \in Pids : proc'[p].owner = l => proc'[p].run = "held",
           pid' \in [Launches -> Pids \cup {None}]
    PROVE  Inv'
  <1> USE DEF GivenUp
  <1>1. TypeOK'
    BY DEF Inv, TypeOK, Stages, Processes
  <1>2. ASSUME NEW k \in Launches, k # l
        PROVE  LaunchInv(k)'
    <2>1. Untouched(k) /\ HistoryGrows
      BY <1>2 DEF Untouched, HistoryGrows, Inv, TypeOK
    <2> QED
      BY <1>2, <2>1, OthersKeep DEF Inv
  <1>3. LaunchInv(l)'
    <2>1. stage'[l] = "failed" /\ gate'[l] = None /\ state'[l] # "terminated"
          /\ released'[l] # TRUE
      BY DEF Inv, TypeOK, LaunchInv
    <2> QED
      BY <2>1 DEF LaunchInv
  <1> QED
    BY <1>1, <1>2, <1>3 DEF Inv

LEMMA LaunchKeeps ==
    ASSUME Inv, NEW l \in Launches, Launch(l)
    PROVE  Inv'
  <1>1. stage[l] = "launch"
    BY DEF Launch, NotStarted, StartedUnreported, StartedUnverified, StartedUnparsed, Launched
  <1>2. proc \in [Pids -> Processes] /\ pid \in [Launches -> Pids \cup {None}] /\ NoneOf(l)
    BY <1>1 DEF Inv, TypeOK, Processes, LaunchInv
  <1>3. CASE GivenUp(l) /\ UNCHANGED proc /\ pid' \in [Launches -> Pids \cup {None}]
             /\ \A k \in Launches : k # l => pid'[k] = pid[k]
    <2>1. \A k \in Launches : ProcessesGoOn(k)
      BY <1>3 DEF ProcessesGoOn
    <2> QED
      BY <1>1, <1>2, <1>3, <2>1, GivenUpKeeps DEF NoneOf
  <1>4. CASE GivenUp(l) /\ (\E p \in Pids : Started(l, p))
             /\ pid' \in [Launches -> Pids \cup {None}]
             /\ \A k \in Launches : k # l => pid'[k] = pid[k]
    <2>1. PICK p \in Pids : Started(l, p)
      BY <1>4
    <2>2. UNCHANGED <<opened, refused, astray>>
      BY <1>4 DEF GivenUp
    <2> QED
      BY <1>1, <1>4, <2>1, <2>2, StartedNow, GivenUpKeeps
  <1>5. CASE NotStarted(l)
    BY <1>2, <1>3, <1>5 DEF NotStarted
  <1>6. CASE StartedUnreported(l)
    BY <1>2, <1>4, <1>6 DEF StartedUnreported
  <1>7. CASE StartedUnverified(l)
    BY <1>2, <1>3, <1>7 DEF StartedUnverified
  <1>8. CASE StartedUnparsed(l)
    BY <1>2, <1>4, <1>8 DEF StartedUnparsed
  <1>9. CASE Launched(l)
    <2>1. PICK p \in Pids, kind \in Gates :
            /\ Started(l, p)
            /\ pid' = [pid EXCEPT ![l] = p]
            /\ gate' = [gate EXCEPT ![l] = kind]
      BY <1>9 DEF Launched
    <2>2. /\ state' = [state EXCEPT ![l] = "suspended"]
          /\ stage' = [stage EXCEPT ![l] = "confirm"]
          /\ UNCHANGED <<released, agent, opened, refused, astray>>
      BY <1>9 DEF Launched
    <2>3. /\ proc' \in [Pids -> Processes]
          /\ HistoryGrows
          /\ \A k \in Launches : k # l => ProcessesGoOn(k)
          /\ \A q \in Pids : proc'[q].owner = l => q = p /\ proc'[q].run = "held"
      BY <1>1, <2>1, <2>2, StartedNow
    <2>4. TypeOK'
      <3>1. /\ pid' \in [Launches -> Pids \cup {None}] /\ pid'[l] = p
            /\ gate' \in [Launches -> {None} \cup Gates] /\ gate'[l] = kind
            /\ state' \in [Launches -> States] /\ state'[l] = "suspended"
            /\ stage' \in [Launches -> Stages]
        BY <2>1, <2>2 DEF Inv, TypeOK, Stages, States
      <3>2. \A k \in Launches : k # l => pid'[k] = pid[k] /\ gate'[k] = gate[k]
                                        /\ state'[k] = state[k] /\ stage'[k] = stage[k]
        BY <2>1, <2>2 DEF Inv, TypeOK
      <3>3. p # None
        BY NoneIsNeither
      <3>4. kind # None
        BY NoneIsNeither
      <3>5. ASSUME NEW k \in Launches, stage'[k] \notin {"launch", "failed"}
            PROVE  pid'[k] # None /\ gate'[k] # None /\ state'[k] # "none"
        BY <3>1, <3>2, <3>3, <3>4, <3>5 DEF Inv, TypeOK
      <3> QED
        BY <2>2, <2>3, <3>1, <3>5 DEF Inv, TypeOK, Processes
    <2>5. ASSUME NEW k \in Launches, k # l
          PROVE  LaunchInv(k)'
      <3>1. Untouched(k)
        BY <2>1, <2>2, <2>5 DEF Untouched, Inv, TypeOK
      <3> QED
        BY <2>3, <2>5, <3>1, OthersKeep DEF Inv
    <2>6. LaunchInv(l)'
      <3>1. /\ stage'[l] = "confirm" /\ pid'[l] = p /\ state'[l] = "suspended"
            /\ released'[l] # TRUE
        BY <1>1, <2>1, <2>2 DEF Inv, TypeOK, LaunchInv
      <3> QED
        BY <2>3, <3>1 DEF LaunchInv
    <2> QED
      BY <2>4, <2>5, <2>6 DEF Inv
  <1> QED
    BY <1>5, <1>6, <1>7, <1>8, <1>9 DEF Launch

------------------------------------------------------------------------------
(* The handle.                                                             *)

Busy == {"confirm", "inject", "resume", "released"}

\* A step on which no process does anything, short of the launch's success.
LEMMA MovesOn ==
    ASSUME Inv, NEW l \in Launches, stage[l] \in Busy,
           NEW next \in {"inject", "resume", "released", "drop"},
           NEW now \in States \ {"none"}, Step(l, next, now),
           UNCHANGED <<proc, gate, released, pid, opened, refused, astray>>,
           agent' \in [Launches -> BOOLEAN],
           \A k \in Launches : agent[k] = TRUE => agent'[k] = TRUE,
           \A k \in Launches : k # l => agent'[k] = agent[k],
           next = "resume" => agent'[l] = TRUE,
           now = "terminated" => next = "drop" /\ NoneOf(l)
    PROVE  Inv'
  <1>1. /\ stage'[l] = next /\ state'[l] = now
        /\ \A k \in Launches : k # l => stage'[k] = stage[k] /\ state'[k] = state[k]
        /\ stage' \in [Launches -> Stages] /\ state' \in [Launches -> States]
    BY DEF Step, Inv, TypeOK, Stages
  <1>2. TypeOK'
    BY <1>1, HandleHasTarget DEF Inv, TypeOK, Busy
  <1>3. ASSUME NEW k \in Launches, k # l
        PROVE  LaunchInv(k)'
    <2>1. Untouched(k) /\ HistoryGrows /\ ProcessesGoOn(k)
      BY <1>1, <1>3 DEF Untouched, HistoryGrows, ProcessesGoOn
    <2> QED
      BY <2>1, OthersKeep DEF Inv
  <1>4. LaunchInv(l)'
    BY <1>1 DEF Inv, LaunchInv, NoneOf, Busy
  <1> QED
    BY <1>2, <1>3, <1>4 DEF Inv

LEMMA FailKeeps ==
    ASSUME Inv, NEW l \in Launches, stage[l] \in Busy, Fail(l),
           UNCHANGED <<proc, gate, released, agent, pid, opened, refused, astray>>
    PROVE  Inv'
  <1>1. state[l] \in States \ {"none"} /\ state[l] # "terminated"
    BY DEF Inv, TypeOK, LaunchInv, Busy
  <1>2. agent' \in [Launches -> BOOLEAN]
    BY DEF Inv, TypeOK
  <1> QED
    BY <1>1, <1>2, MovesOn DEF Fail

LEMMA GoneKeeps ==
    ASSUME Inv, NEW l \in Launches, stage[l] \in Busy,
           SeesExited(l) \/ ~Reaches(l), Step(l, "drop", "terminated"),
           UNCHANGED <<proc, gate, released, agent, pid, opened, refused, astray>>
    PROVE  Inv'
  <1>1. NoneOf(l)
    BY TargetIsGone DEF Busy
  <1>2. agent' \in [Launches -> BOOLEAN]
    BY DEF Inv, TypeOK
  <1> QED
    BY <1>1, <1>2, MovesOn DEF States

LEMMA ConfirmStoppedKeeps ==
    ASSUME Inv, NEW l \in Launches, ConfirmStopped(l)
    PROVE  Inv'
  <1> USE DEF ConfirmStopped
  <1>1. stage[l] \in Busy /\ agent' \in [Launches -> BOOLEAN]
    BY DEF Busy, Inv, TypeOK
  <1>2. CASE Step(l, "inject", "suspended")
    BY <1>1, <1>2, MovesOn DEF States
  <1>3. CASE SeesExited(l) /\ Step(l, "drop", "terminated")
    BY <1>1, <1>3, GoneKeeps
  <1>4. CASE Fail(l)
    BY <1>1, <1>4, FailKeeps
  <1> QED
    BY <1>2, <1>3, <1>4

LEMMA StatusIs ==
    ASSUME NEW l, NEW status \in Status(l)
    PROVE  /\ status \in {"error", "terminated", "held", "released"}
           /\ status = "terminated" => ~Reaches(l)
           /\ status = "released" => Reaches(l) /\ Target(l).run # "held"
  BY DEF Status

LEMMA ConfirmHeldKeeps ==
    ASSUME Inv, NEW l \in Launches, ConfirmHeld(l)
    PROVE  Inv'
  <1> USE DEF ConfirmHeld
  <1>1. stage[l] \in Busy /\ agent' \in [Launches -> BOOLEAN]
    BY DEF Busy, Inv, TypeOK
  <1>2. CASE SeesExited(l) /\ Step(l, "drop", "terminated")
    BY <1>1, <1>2, GoneKeeps
  <1>3. ASSUME NEW status \in Status(l),
               CASE status = "held" -> Step(l, "inject", "suspended")
                 [] status = "released" -> Step(l, "drop", "running")
                 [] status = "terminated" -> Step(l, "drop", "terminated")
                 [] OTHER -> Fail(l)
        PROVE  Inv'
    <2>1. CASE status = "held"
      <3>1. Step(l, "inject", "suspended")
        BY <1>3, <2>1
      <3> QED
        BY <1>1, <3>1, MovesOn DEF States
    <2>2. CASE status = "released"
      <3>1. Step(l, "drop", "running")
        BY <1>3, <2>2
      <3> QED
        BY <1>1, <3>1, MovesOn DEF States
    <2>3. CASE status = "terminated"
      <3>1. Step(l, "drop", "terminated") /\ ~Reaches(l)
        BY <1>3, <2>3, StatusIs
      <3> QED
        BY <1>1, <3>1, GoneKeeps
    <2>4. CASE status = "error"
      <3>1. Fail(l)
        BY <1>3, <2>4
      <3> QED
        BY <1>1, <3>1, FailKeeps
    <2> QED
      BY <2>1, <2>2, <2>3, <2>4, StatusIs
  <1> QED
    BY <1>2, <1>3

LEMMA InjectKeeps ==
    ASSUME Inv, NEW l \in Launches, Inject(l)
    PROVE  Inv'
  <1> USE DEF Inject
  <1>1. stage[l] \in Busy
    BY DEF Busy
  <1>2. CASE agent' = [agent EXCEPT ![l] = TRUE] /\ Step(l, "resume", state[l])
    <2>1. /\ agent' \in [Launches -> BOOLEAN] /\ agent'[l] = TRUE
          /\ \A k \in Launches : k # l => agent'[k] = agent[k]
      BY <1>2 DEF Inv, TypeOK
    <2>2. state[l] \in States \ {"none"} /\ state[l] # "terminated"
      BY <1>1 DEF Inv, TypeOK, LaunchInv, Busy
    <2> QED
      BY <1>1, <1>2, <2>1, <2>2, MovesOn
  <1>3. CASE Fail(l) /\ UNCHANGED agent
    BY <1>1, <1>3, FailKeeps
  <1> QED
    BY <1>2, <1>3

\* The launch succeeds: its target runs, if it still exists, and may.
LEMMA ReadyKeeps ==
    ASSUME Inv, NEW l \in Launches, stage[l] \in Busy, ReadyFor(l),
           UNCHANGED <<gate, agent, pid, opened, refused>>,
           proc' \in [Pids -> Processes], astray' \subseteq Launches, HistoryGrows,
           \A k \in Launches : k # l => ProcessesGoOn(k),
           \A p \in Pids : proc'[p].owner = l =>
               /\ proc[p].owner = l /\ proc'[p].run = "running"
               /\ agent[l] = TRUE \/ l \in opened \cup astray
    PROVE  Inv'
  <1>1. /\ stage'[l] = "ready" /\ state'[l] = "running" /\ released'[l] = TRUE
        /\ \A k \in Launches : k # l =>
              stage'[k] = stage[k] /\ state'[k] = state[k] /\ released'[k] = released[k]
        /\ stage' \in [Launches -> Stages] /\ state' \in [Launches -> States]
        /\ released' \in [Launches -> BOOLEAN]
    BY DEF ReadyFor, Step, Inv, TypeOK, Stages, States
  <1>2. TypeOK'
    BY <1>1, HandleHasTarget DEF Inv, TypeOK, Busy, Processes
  <1>3. ASSUME NEW k \in Launches, k # l
        PROVE  LaunchInv(k)'
    <2>1. Untouched(k)
      BY <1>1, <1>3 DEF Untouched
    <2> QED
      BY <1>3, <2>1, OthersKeep DEF Inv
  <1>4. LaunchInv(l)'
    BY <1>1 DEF Inv, LaunchInv, NoneOf, Busy, HistoryGrows
  <1> QED
    BY <1>2, <1>3, <1>4 DEF Inv

LEMMA ResumeStoppedKeeps ==
    ASSUME Inv, NEW l \in Launches, ResumeStopped(l)
    PROVE  Inv'
  <1> USE DEF ResumeStopped
  <1>1. stage[l] \in Busy /\ agent[l] = TRUE
    BY DEF Busy, Inv, LaunchInv
  <1>2. CASE Release(l) /\ ReadyFor(l)
    <2>1. stage[l] \notin {"launch", "failed"}
      OBVIOUS
    <2> QED
      BY <1>1, <1>2, <2>1, ReleaseNow, ReadyKeeps
  <1>3. CASE (SeesExited(l) /\ Step(l, "drop", "terminated")) /\ UNCHANGED <<proc, released, astray>>
    BY <1>1, <1>3, GoneKeeps
  <1>4. CASE Fail(l) /\ UNCHANGED <<proc, released, astray>>
    BY <1>1, <1>4, FailKeeps
  <1> QED
    BY <1>2, <1>3, <1>4

LEMMA ResumeSceneKeeps ==
    ASSUME Inv, NEW l \in Launches, ResumeScene(l)
    PROVE  Inv'
  <1> USE DEF ResumeScene
  <1>1. /\ stage[l] \in Busy /\ stage[l] \notin {"launch", "failed"} /\ agent[l] = TRUE
        /\ state[l] \in States \ {"none"} /\ state[l] # "terminated"
    BY DEF Busy, Inv, TypeOK, LaunchInv
  <1>2. PICK next \in {"released", "drop"} : Step(l, next, state[l])
    BY DEF Fail
  <1>3. CASE UNCHANGED <<proc, astray>>
    <2>1. agent' \in [Launches -> BOOLEAN]
      BY DEF Inv, TypeOK
    <2> QED
      BY <1>1, <1>2, <1>3, <2>1, MovesOn
  <1>4. CASE Release(l)
    <2>1. /\ proc' \in [Pids -> Processes]
          /\ astray' \subseteq Launches
          /\ HistoryGrows
          /\ \A k \in Launches : k # l => ProcessesGoOn(k)
          /\ \A p \in Pids : proc'[p].owner = l =>
                proc[p].owner = l /\ proc'[p].run = "running"
      BY <1>1, <1>4, ReleaseNow
    <2>2. /\ stage'[l] = next /\ state'[l] = state[l]
          /\ \A k \in Launches : k # l => stage'[k] = stage[k] /\ state'[k] = state[k]
          /\ stage' \in [Launches -> Stages] /\ state' \in [Launches -> States]
      BY <1>2 DEF Step, Inv, TypeOK, Stages
    <2>3. TypeOK'
      BY <1>1, <2>1, <2>2, HandleHasTarget DEF Inv, TypeOK, Processes
    <2>4. ASSUME NEW k \in Launches, k # l
          PROVE  LaunchInv(k)'
      <3>1. Untouched(k)
        BY <2>2, <2>4 DEF Untouched
      <3> QED
        BY <2>1, <2>4, <3>1, OthersKeep DEF Inv
    <2>5. LaunchInv(l)'
      BY <1>1, <2>1, <2>2 DEF Inv, LaunchInv
    <2> QED
      BY <2>3, <2>4, <2>5 DEF Inv
  <1> QED
    BY <1>3, <1>4

LEMMA ConfirmReleasedKeeps ==
    ASSUME Inv, NEW l \in Launches, ConfirmReleased(l)
    PROVE  Inv'
  <1> USE DEF ConfirmReleased
  <1>1. stage[l] \in Busy /\ stage[l] \notin {"launch", "failed"}
    BY DEF Busy
  <1>2. PICK status \in Status(l) :
          CASE status = "released" -> ReadyFor(l)
            [] status = "terminated" -> Step(l, "drop", "terminated") /\ UNCHANGED released
            [] OTHER -> Fail(l) /\ UNCHANGED released
    OBVIOUS
  <1>3. CASE status = "released"
    <2>1. ReadyFor(l) /\ Reaches(l) /\ Target(l).run # "held"
      BY <1>2, <1>3, StatusIs
    <2>2. Target(l).run = "running" /\ Target(l) = proc[pid[l]]
      BY <1>1, <2>1, HandleHasTarget, ProcessTypes DEF Reaches, Target
    <2>3. \A p \in Pids : proc[p].owner = l =>
              proc[p].run = "running" /\ (agent[l] = TRUE \/ l \in opened \cup astray)
      <3> SUFFICES ASSUME NEW p \in Pids, proc[p].owner = l
                   PROVE  /\ proc[p].run = "running"
                          /\ agent[l] = TRUE \/ l \in opened \cup astray
        OBVIOUS
      <3>1. p = pid[l]
        BY <1>1, HandleHasTarget
      <3>2. proc[p].run = "running"
        BY <2>2, <3>1
      <3> QED
        BY <3>2 DEF Inv, LaunchInv
    <2>4. /\ proc' \in [Pids -> Processes] /\ astray' \subseteq Launches /\ HistoryGrows
          /\ \A k \in Launches : k # l => ProcessesGoOn(k)
      BY DEF Inv, TypeOK, Processes, HistoryGrows, ProcessesGoOn
    <2> QED
      BY <1>1, <2>1, <2>3, <2>4, ReadyKeeps
  <1>4. CASE status = "terminated"
    <2>1. Step(l, "drop", "terminated") /\ UNCHANGED released /\ ~Reaches(l)
      BY <1>2, <1>4, StatusIs
    <2> QED
      BY <1>1, <2>1, GoneKeeps
  <1>5. CASE status \in {"error", "held"}
    <2>1. Fail(l) /\ UNCHANGED released
      BY <1>2, <1>5
    <2> QED
      BY <1>1, <2>1, FailKeeps
  <1> QED
    BY <1>3, <1>4, <1>5, StatusIs

\* A handle that still owns its target terminates it, or is refused.
LEMMA DropKeeps ==
    ASSUME Inv, NEW l \in Launches, Drop(l)
    PROVE  Inv' /\ (stage[l] = "ready" => UNCHANGED proc)
  <1>1. stage[l] \in {"drop", "ready"} /\ stage[l] \notin {"launch", "failed"}
    BY DEF Drop
  <1>2. /\ stage' = [stage EXCEPT ![l] = IF @ = "drop" THEN "failed" ELSE "attached"]
        /\ UNCHANGED <<gate, released, agent, pid, opened>>
    BY DEF Drop
  <1>3. /\ stage' \in [Launches -> Stages]
        /\ \A k \in Launches : k # l => stage'[k] = stage[k]
        /\ stage[l] = "drop" => stage'[l] = "failed"
        /\ stage[l] = "ready" => stage'[l] = "attached"
    BY <1>1, <1>2 DEF Inv, TypeOK, Stages
  <1>4. released[l] = TRUE <=> stage[l] = "ready"
    BY <1>1 DEF Inv, LaunchInv
  <1>5. CASE released[l] \/ state[l] = "terminated"
    <2>1. UNCHANGED <<state, proc, refused, astray>>
      BY <1>5 DEF Drop
    <2>2. TypeOK'
      BY <1>1, <1>2, <1>3, <2>1 DEF Inv, TypeOK
    <2>3. ASSUME NEW k \in Launches, k # l
          PROVE  LaunchInv(k)'
      <3>1. Untouched(k) /\ HistoryGrows /\ ProcessesGoOn(k)
        BY <1>2, <1>3, <2>1, <2>3 DEF Untouched, HistoryGrows, ProcessesGoOn
      <3> QED
        BY <3>1, OthersKeep DEF Inv
    <2>4. LaunchInv(l)'
      <3>1. released[l] \in BOOLEAN
        BY DEF Inv, TypeOK
      <3>2. CASE stage[l] = "ready"
        BY <1>1, <1>2, <1>3, <1>4, <2>1, <3>2 DEF Inv, LaunchInv, NoneOf
      <3>3. CASE stage[l] = "drop"
        BY <1>1, <1>2, <1>3, <1>4, <1>5, <2>1, <3>1, <3>3 DEF Inv, LaunchInv, NoneOf
      <3> QED
        BY <1>1, <3>2, <3>3
    <2> QED
      BY <2>1, <2>2, <2>3, <2>4 DEF Inv
  <1>6. CASE ~(released[l] \/ state[l] = "terminated")
    <2>1. stage[l] = "drop" /\ stage'[l] = "failed" /\ released[l] # TRUE
      BY <1>1, <1>3, <1>4, <1>6
    <2>2. /\ state' = [state EXCEPT ![l] = "terminating"]
          /\ \/ Terminate(l) /\ UNCHANGED refused
             \/ refused' = refused \cup {l} /\ UNCHANGED <<proc, astray>>
      BY <1>6 DEF Drop
    <2>3. /\ proc' \in [Pids -> Processes]
          /\ astray' \subseteq Launches /\ refused' \subseteq Launches
          /\ HistoryGrows
          /\ \A k \in Launches : k # l => ProcessesGoOn(k)
          /\ NoneOf(l)' \/ (l \in refused' /\ UNCHANGED <<proc, astray>>)
      <3>1. CASE Terminate(l) /\ UNCHANGED refused
        BY <1>1, <1>2, <3>1, TerminateNow DEF Inv, TypeOK
      <3>2. CASE refused' = refused \cup {l} /\ UNCHANGED <<proc, astray>>
        BY <1>2, <3>2 DEF Inv, TypeOK, Processes, HistoryGrows, ProcessesGoOn
      <3> QED
        BY <2>2, <3>1, <3>2
    <2>4. /\ state' \in [Launches -> States] /\ state'[l] = "terminating"
          /\ \A k \in Launches : k # l => state'[k] = state[k]
      BY <2>2 DEF Inv, TypeOK, States
    <2>5. TypeOK'
      BY <1>2, <1>3, <2>1, <2>3, <2>4 DEF Inv, TypeOK, Processes
    <2>6. ASSUME NEW k \in Launches, k # l
          PROVE  LaunchInv(k)'
      <3>1. Untouched(k)
        BY <1>2, <1>3, <2>4, <2>6 DEF Untouched
      <3> QED
        BY <2>3, <2>6, <3>1, OthersKeep DEF Inv
    <2>7. LaunchInv(l)'
      BY <1>2, <2>1, <2>3, <2>4 DEF Inv, LaunchInv, NoneOf
    <2> QED
      BY <2>1, <2>5, <2>6, <2>7 DEF Inv
  <1> QED
    BY <1>5, <1>6

------------------------------------------------------------------------------
(* The world.                                                              *)

LEMMA WorldKeeps ==
    ASSUME Inv, UNCHANGED <<stage, gate, state, released, agent, pid, refused, astray>>,
           proc' \in [Pids -> Processes], opened' \subseteq Launches,
           HistoryGrows, \A k \in Launches : ProcessesGoOn(k)
    PROVE  Inv'
  <1>1. TypeOK'
    BY DEF Inv, TypeOK, Processes
  <1>2. \A k \in Launches : Untouched(k)
    BY DEF Untouched
  <1> QED
    BY <1>1, <1>2, OthersKeep DEF Inv

LEMMA EndKeeps ==
    ASSUME Inv, NEW p \in Pids, End(p)
    PROVE  Inv'
  <1>1. /\ proc' = [proc EXCEPT ![p] = NoProcess]
        /\ UNCHANGED <<stage, gate, state, released, agent, pid, opened, refused, astray>>
    BY DEF End
  <1>2. /\ proc' \in [Pids -> Processes] /\ proc'[p] = NoProcess
        /\ \A q \in Pids : q # p => proc'[q] = proc[q]
    BY <1>1 DEF Inv, TypeOK, Processes
  <1>3. \A k \in Launches : ProcessesGoOn(k)
    BY <1>2, ProcessTypes, NoneIsNeither DEF ProcessesGoOn
  <1>4. HistoryGrows /\ opened' \subseteq Launches
    BY <1>1 DEF HistoryGrows, Inv, TypeOK
  <1> QED
    BY <1>1, <1>2, <1>3, <1>4, WorldKeeps

LEMMA OpenKeeps ==
    ASSUME Inv, NEW p \in Pids, Open(p)
    PROVE  Inv'
  <1>1. /\ proc' = [proc EXCEPT ![p] = [@ EXCEPT !.run = "running"]]
        /\ opened' = opened \cup {proc[p].owner}
        /\ UNCHANGED <<stage, gate, state, released, agent, pid, refused, astray>>
    BY DEF Open
  <1>2. proc \in [Pids -> Processes]
    BY DEF Inv, TypeOK, Processes
  <1>3. PICK r \in [owner : Launches, run : {"held", "running"}] : r = proc[p]
    BY <1>2, ProcessTypes DEF Open, Processes
  <1>4. PICK q : q = [owner |-> r.owner, run |-> "running"]
    OBVIOUS
  <1>5. q = [r EXCEPT !.run = "running"] /\ q \in Processes /\ q.owner = r.owner
        /\ q.run = "running"
    BY <1>3, <1>4 DEF Processes
  <1>6. proc' = [proc EXCEPT ![p] = q]
    BY <1>1, <1>2, <1>3, <1>5
  <1>7. /\ proc' \in [Pids -> Processes] /\ proc'[p] = q
        /\ \A k \in Pids : k # p => proc'[k] = proc[k]
    BY <1>2, <1>5, <1>6
  <1>8. \A k \in Launches : ProcessesGoOn(k)
    BY <1>1, <1>3, <1>5, <1>7 DEF ProcessesGoOn
  <1>9. HistoryGrows /\ opened' \subseteq Launches
    BY <1>1, <1>3 DEF HistoryGrows, Inv, TypeOK
  <1> QED
    BY <1>1, <1>7, <1>8, <1>9, WorldKeeps

------------------------------------------------------------------------------
(* The theorems.                                                           *)

LEMMA InitInv ==
    ASSUME Init
    PROVE  Inv
  <1> USE DEF Init
  <1>1. TypeOK
    BY DEF TypeOK, Stages, States
  <1>2. \A p \in Pids : proc[p].owner = None
    BY DEF NoProcess
  <1>3. \A l \in Launches : LaunchInv(l)
    BY <1>2, NoneIsNeither DEF LaunchInv, NoneOf
  <1> QED
    BY <1>1, <1>3 DEF Inv

LEMMA NextInv ==
    ASSUME Inv, [Next]_vars
    PROVE  Inv'
  <1>1. ASSUME NEW l \in Launches, Launch(l) PROVE Inv'
    BY <1>1, LaunchKeeps
  <1>2. ASSUME NEW l \in Launches, Handle(l) PROVE Inv'
    BY <1>2, ConfirmStoppedKeeps, ConfirmHeldKeeps, InjectKeeps, ResumeStoppedKeeps,
       ResumeSceneKeeps, ConfirmReleasedKeeps, DropKeeps DEF Handle
  <1>3. ASSUME NEW p \in Pids, End(p) \/ Open(p) PROVE Inv'
    BY <1>3, EndKeeps, OpenKeeps
  <1>4. CASE UNCHANGED vars
    BY <1>4 DEF vars, Inv, TypeOK, LaunchInv, NoneOf
  <1> QED
    BY <1>1, <1>2, <1>3, <1>4 DEF Next

\* What is so of each launch, whatever fails and whichever processes end.
THEOREM InvHolds == Spec => []Inv
  <1>1. Init => Inv
    BY InitInv
  <1>2. Inv /\ [Next]_vars => Inv'
    BY NextInv
  <1> QED
    BY <1>1, <1>2, PTL DEF Spec

\* The variables keep their types, and a launch that is under way has a pid, a
\* gate and a state.
THEOREM TypeCorrect == Spec => []TypeOK
  <1>1. Inv => TypeOK
    BY DEF Inv
  <1> QED
    BY <1>1, InvHolds, PTL

\* connect_agent_session: no target runs before its agent and script are
\* loaded, unless its gate opened on its own or another launch's signal did it.
THEOREM AgentComesFirst == Spec => []UserCodeAfterAgent
  <1>1. Inv => UserCodeAfterAgent
    <2> SUFFICES ASSUME Inv, NEW p \in Pids, proc[p].run = "running"
                 PROVE  agent[proc[p].owner] \/ proc[p].owner \in opened \cup astray
      BY DEF UserCodeAfterAgent
    <2>1. proc[p].owner \in Launches
      BY ProcessTypes DEF Inv, TypeOK, Processes
    <2> QED
      BY <2>1 DEF Inv, LaunchInv
  <1> QED
    BY <1>1, InvHolds, PTL

\* SuspendedSpawn::resume: a target that is reported ready is not held.
THEOREM ReadyTargetsRun == Spec => []ReadyIsReleased
  <1>1. Inv => ReadyIsReleased
    BY DEF Inv, LaunchInv, ReadyIsReleased
  <1> QED
    BY <1>1, InvHolds, PTL

\* SuspendedSpawn::drop: a launch that fails with a handle leaves no target,
\* unless its termination was refused.
THEOREM FailedTargetsEnd == Spec => []HandleTerminates
  <1>1. Inv => HandleTerminates
    BY DEF Inv, LaunchInv, HandleTerminates, NoneOf
  <1> QED
    BY <1>1, InvHolds, PTL

\* SuspendedSpawn::drop: the handle of a launch that succeeded signals nobody.
THEOREM SuccessSignalsNobody == Spec => AttachedIsSpared
  <1> DEFINE Spared == \A l \in Launches, p \in Pids :
                          stage[l] = "ready" /\ stage'[l] = "attached" => proc'[p] = proc[p]
  <1>1. Inv /\ [Next]_vars => [Spared]_vars
    <2> SUFFICES ASSUME Inv, Next, NEW l \in Launches, NEW p \in Pids,
                        stage[l] = "ready", stage'[l] = "attached"
                 PROVE  proc'[p] = proc[p]
      OBVIOUS
    <2>1. ASSUME NEW k \in Launches, Launch(k) PROVE FALSE
      BY <2>1 DEF Launch, NotStarted, StartedUnreported, StartedUnverified, StartedUnparsed,
         Launched, GivenUp, Inv, TypeOK
    <2>2. ASSUME NEW k \in Launches, Handle(k) PROVE proc'[p] = proc[p]
      <3>1. CASE Drop(k)
        <4>1. k = l
          BY <3>1 DEF Drop, Inv, TypeOK
        <4> QED
          BY <3>1, <4>1, DropKeeps
      <3>2. ASSUME NEW next \in {"inject", "resume", "released", "drop", "ready"}, NEW now,
                   Step(k, next, now)
            PROVE  FALSE
        BY <3>2 DEF Step, Inv, TypeOK
      <3>3. CASE ConfirmStopped(k) \/ Inject(k) \/ ResumeStopped(k) \/ ResumeScene(k)
        BY <3>2, <3>3 DEF ConfirmStopped, Inject, ResumeStopped, ResumeScene, Fail, ReadyFor
      <3>4. CASE ConfirmHeld(k) \/ ConfirmReleased(k)
        BY <3>2, <3>4, StatusIs DEF ConfirmHeld, ConfirmReleased, Fail, ReadyFor
      <3> QED
        BY <2>2, <3>1, <3>3, <3>4 DEF Handle
    <2>3. ASSUME NEW q \in Pids, End(q) \/ Open(q) PROVE FALSE
      BY <2>3 DEF End, Open
    <2> QED
      BY <2>1, <2>2, <2>3 DEF Next
  <1> QED
    BY <1>1, InvHolds, PTL DEF Spec, AttachedIsSpared
==============================================================================
