---------------------------- MODULE SuspendedSpawn ----------------------------
(***************************************************************************)
(* A target that is started held, injected and released (launch.rs,        *)
(* suspended_spawn.rs and connect_agent_session of injection.rs).          *)
(*                                                                         *)
(* A launcher starts the target behind a gate: the simulator's wait for a  *)
(* debugger, which is a stopped process the controller signals, or a scene *)
(* gate, which a provider's commands report on, open and close.  The       *)
(* controller injects its agent while the target is held and only then     *)
(* releases it.  If anything fails before that, the handle that owns the   *)
(* target is dropped and terminates it.                                    *)
(*                                                                         *)
(* Several launches run at once, and all a handle has of its target is its *)
(* pid, which the system gives to another process once the target is gone. *)
(***************************************************************************)
CONSTANTS
    Launches, \* the launches of a server
    Pids,     \* process identifiers
    None      \* no pid, no gate, no owner

\* What holds a target: a wait for a debugger, or a scene gate.
Gates == {"debugger", "scene"}

ASSUME NoneIsNeither == None \notin Launches \cup Pids \cup Gates

VARIABLES
    proc,     \* the process of each pid: whose target it is, and if it is held
    stage,    \* how far each launch has come
    gate,     \* its gate
    state,    \* the SuspendedSpawnState of its handle
    released, \* the handle's released_to_caller
    agent,    \* has the target's agent been loaded, with its script
    pid,      \* the pid the launch has learned
    opened,   \* history: launches whose gate opened on its own
    refused,  \* history: launches whose target could not be terminated
    astray    \* history: launches whose target got the signal of another

vars == <<proc, stage, gate, state, released, agent, pid, opened, refused, astray>>

NoProcess == [owner |-> None, run |-> "none"]

\* The process that now has the pid of the launch.
Target(l) == proc[pid[l]]

\* A signal reaches whatever process that is; a provider's command knows the
\* gate it was asked to open or close by its own name.
Reaches(l) ==
    /\ Target(l) # NoProcess
    /\ gate[l] = "scene" => Target(l).owner = l

------------------------------------------------------------------------------
(* Starting the target (spawn_bundle_with_native_gate).                    *)

Started(l, p) == proc' = [proc EXCEPT ![p] = [owner |-> l, run |-> "held"]]

GivenUp(l) ==
    /\ stage' = [stage EXCEPT ![l] = "failed"]
    /\ UNCHANGED <<gate, state, released, agent, opened, refused, astray>>

\* The launcher starts nothing.
NotStarted(l) ==
    /\ stage[l] = "launch"
    /\ GivenUp(l)
    /\ UNCHANGED <<proc, pid>>

\* It reports an error, or no pid, though the target may have been started.
StartedUnreported(l) ==
    /\ stage[l] = "launch"
    /\ \E p \in Pids :
          /\ proc[p] = NoProcess
          /\ Started(l, p)
    /\ GivenUp(l)
    /\ UNCHANGED pid

\* It reports a pid with a malformed state or protocol, or without a gate that
\* was verified: the target is killed at once.
StartedUnverified(l) ==
    /\ stage[l] = "launch"
    /\ \E p \in Pids :
          /\ proc[p] = NoProcess
          /\ pid' = [pid EXCEPT ![l] = p]
    /\ GivenUp(l)
    /\ UNCHANGED proc

\* It reports a state on its error output that does not parse: that error is
\* returned as it is.
StartedUnparsed(l) ==
    /\ stage[l] = "launch"
    /\ \E p \in Pids :
          /\ proc[p] = NoProcess
          /\ Started(l, p)
          /\ pid' = [pid EXCEPT ![l] = p]
    /\ GivenUp(l)

\* It reports a target held behind a gate, which the handle takes over.
Launched(l) ==
    /\ stage[l] = "launch"
    /\ \E p \in Pids, kind \in Gates :
          /\ proc[p] = NoProcess
          /\ Started(l, p)
          /\ pid' = [pid EXCEPT ![l] = p]
          /\ gate' = [gate EXCEPT ![l] = kind]
    /\ state' = [state EXCEPT ![l] = "suspended"]
    /\ stage' = [stage EXCEPT ![l] = "confirm"]
    /\ UNCHANGED <<released, agent, opened, refused, astray>>

------------------------------------------------------------------------------
(* The handle.                                                             *)

Step(l, next, now) ==
    /\ stage' = [stage EXCEPT ![l] = next]
    /\ state' = [state EXCEPT ![l] = now]

Fail(l) == Step(l, "drop", state[l])

\* What the handle sees of its pid: a wait reports what it saw last.
SeesStopped(l) == Target(l).run = "held"
SeesExited(l) == Target(l).run = "none"

\* Variant: the wait has no deadline.
ConfirmStoppedWaiting(l) ==
    /\ stage[l] = "confirm" /\ gate[l] = "debugger"
    /\ \/ SeesStopped(l) /\ Step(l, "inject", "suspended")
       \/ SeesExited(l) /\ Step(l, "drop", "terminated")
    /\ UNCHANGED <<proc, gate, released, agent, pid, opened, refused, astray>>

\* confirm_suspended waits for the process to be stopped or gone, until its
\* deadline.
ConfirmStopped(l) ==
    /\ stage[l] = "confirm" /\ gate[l] = "debugger"
    /\ \/ SeesStopped(l) /\ Step(l, "inject", "suspended")
       \/ SeesExited(l) /\ Step(l, "drop", "terminated")
       \/ Fail(l)
    /\ UNCHANGED <<proc, gate, released, agent, pid, opened, refused, astray>>

\* What the provider's status command tells of the gate; the command may fail,
\* and so may the check of what it prints.
Status(l) ==
    {"error", IF ~Reaches(l) THEN "terminated"
              ELSE IF Target(l).run = "held" THEN "held" ELSE "released"}

\* confirm_initial_suspension of a scene gate.
ConfirmHeld(l) ==
    /\ stage[l] = "confirm" /\ gate[l] = "scene"
    /\ \/ SeesExited(l) /\ Step(l, "drop", "terminated")
       \/ \E status \in Status(l) :
             CASE status = "held" -> Step(l, "inject", "suspended")
               [] status = "released" -> Step(l, "drop", "running")
               [] status = "terminated" -> Step(l, "drop", "terminated")
               [] OTHER -> Fail(l)
    /\ UNCHANGED <<proc, gate, released, agent, pid, opened, refused, astray>>

\* Variant: a failed injection does not keep the target from being resumed.
InjectOrNot(l) ==
    /\ stage[l] = "inject"
    /\ ~SeesExited(l)
    /\ \E loaded \in BOOLEAN : agent' = [agent EXCEPT ![l] = loaded]
    /\ Step(l, "resume", state[l])
    /\ UNCHANGED <<proc, gate, released, pid, opened, refused, astray>>

\* The injection, the agent's greeting and the script (connect_agent_session).
Inject(l) ==
    /\ stage[l] = "inject"
    /\ \/ /\ ~SeesExited(l)
          /\ agent' = [agent EXCEPT ![l] = TRUE]
          /\ Step(l, "resume", state[l])
       \/ /\ Fail(l)
          /\ UNCHANGED agent
    /\ UNCHANGED <<proc, gate, released, pid, opened, refused, astray>>

Hit(l, process) ==
    /\ proc' = [proc EXCEPT ![pid[l]] = process]
    /\ astray' = astray \cup ({Target(l).owner} \ {l})

Release(l) == Reaches(l) /\ Hit(l, [Target(l) EXCEPT !.run = "running"])
Terminate(l) == Reaches(l) /\ Hit(l, NoProcess)

\* Variant: the handle keeps the target.
ReadyForKept(l) == Step(l, "ready", "running") /\ UNCHANGED released

ReadyFor(l) ==
    /\ Step(l, "ready", "running")
    /\ released' = [released EXCEPT ![l] = TRUE]

\* resume of a stopped process: a signal, which finds out if there is none.
ResumeStopped(l) ==
    /\ stage[l] = "resume" /\ gate[l] = "debugger"
    /\ \/ Release(l) /\ ReadyFor(l)
       \/ /\ \/ SeesExited(l) /\ Step(l, "drop", "terminated")
             \/ Fail(l)
          /\ UNCHANGED <<proc, released, astray>>
    /\ UNCHANGED <<gate, agent, pid, opened, refused>>

\* Variant: the handle lets go of the target before the release is confirmed.
ResumeSceneEarly(l) ==
    /\ stage[l] = "resume" /\ gate[l] = "scene"
    /\ Release(l) \/ UNCHANGED <<proc, astray>>
    /\ Step(l, "released", state[l])
    /\ released' = [released EXCEPT ![l] = TRUE]
    /\ UNCHANGED <<gate, agent, pid, opened, refused>>

\* resume of a scene: the provider's command, which may do nothing, or fail
\* after it did something.
ResumeScene(l) ==
    /\ stage[l] = "resume" /\ gate[l] = "scene"
    /\ Release(l) \/ UNCHANGED <<proc, astray>>
    /\ Step(l, "released", state[l]) \/ Fail(l)
    /\ UNCHANGED <<gate, released, agent, pid, opened, refused>>

\* Variant: any status of a live target will do.
ConfirmReleasedOrHeld(l) ==
    /\ stage[l] = "released"
    /\ \E status \in Status(l) :
          IF status \in {"released", "held"} THEN ReadyFor(l) ELSE Fail(l) /\ UNCHANGED released
    /\ UNCHANGED <<proc, gate, agent, pid, opened, refused, astray>>

\* And then its status.
ConfirmReleased(l) ==
    /\ stage[l] = "released"
    /\ \E status \in Status(l) :
          CASE status = "released" -> ReadyFor(l)
            [] status = "terminated" -> Step(l, "drop", "terminated") /\ UNCHANGED released
            [] OTHER -> Fail(l) /\ UNCHANGED released
    /\ UNCHANGED <<proc, gate, agent, pid, opened, refused, astray>>

\* SuspendedSpawn::drop, on a failure or when the session is ready: a handle
\* that still owns its target terminates it and ignores whether that was done.
Drop(l) ==
    /\ stage[l] \in {"drop", "ready"}
    /\ stage' = [stage EXCEPT ![l] = IF @ = "drop" THEN "failed" ELSE "attached"]
    /\ IF released[l] \/ state[l] = "terminated"
       THEN UNCHANGED <<state, proc, refused, astray>>
       ELSE /\ state' = [state EXCEPT ![l] = "terminating"]
            /\ \/ Terminate(l) /\ UNCHANGED refused
               \/ refused' = refused \cup {l} /\ UNCHANGED <<proc, astray>>
    /\ UNCHANGED <<gate, released, agent, pid, opened>>

------------------------------------------------------------------------------
(* The world: processes end, and a gate may open on its own.               *)

End(p) ==
    /\ proc[p] # NoProcess
    /\ proc' = [proc EXCEPT ![p] = NoProcess]
    /\ UNCHANGED <<stage, gate, state, released, agent, pid, opened, refused, astray>>

Open(p) ==
    /\ proc[p].run = "held"
    /\ proc' = [proc EXCEPT ![p] = [@ EXCEPT !.run = "running"]]
    /\ opened' = opened \cup {proc[p].owner}
    /\ UNCHANGED <<stage, gate, state, released, agent, pid, refused, astray>>

Launch(l) ==
    \/ NotStarted(l) \/ StartedUnreported(l) \/ StartedUnverified(l)
    \/ StartedUnparsed(l) \/ Launched(l)

Handle(l) ==
    \/ ConfirmStopped(l) \/ ConfirmHeld(l) \/ Inject(l) \/ ResumeStopped(l)
    \/ ResumeScene(l) \/ ConfirmReleased(l) \/ Drop(l)

Init ==
    /\ proc = [p \in Pids |-> NoProcess]
    /\ stage = [l \in Launches |-> "launch"]
    /\ gate = [l \in Launches |-> None]
    /\ state = [l \in Launches |-> "none"]
    /\ released = [l \in Launches |-> FALSE]
    /\ agent = [l \in Launches |-> FALSE]
    /\ pid = [l \in Launches |-> None]
    /\ opened = {}
    /\ refused = {}
    /\ astray = {}

Next ==
    \/ \E l \in Launches : Launch(l) \/ Handle(l)
    \/ \E p \in Pids : End(p) \/ Open(p)

Spec == Init /\ [][Next]_vars

\* The controller's thread is scheduled and what it calls returns.
FairSpec == Spec /\ \A l \in Launches : WF_vars(Handle(l))

------------------------------------------------------------------------------
Stages == {"launch", "confirm", "inject", "resume", "released", "ready",
           "attached", "drop", "failed"}
States == {"none", "suspended", "running", "terminating", "terminated"}

\* The variables' types; a handle has a pid and a gate from the first on.
TypeOK ==
    /\ proc \in [Pids -> {NoProcess} \cup [owner : Launches, run : {"held", "running"}]]
    /\ stage \in [Launches -> Stages]
    /\ gate \in [Launches -> {None} \cup Gates]
    /\ state \in [Launches -> States]
    /\ released \in [Launches -> BOOLEAN]
    /\ agent \in [Launches -> BOOLEAN]
    /\ pid \in [Launches -> Pids \cup {None}]
    /\ opened \subseteq Launches /\ refused \subseteq Launches /\ astray \subseteq Launches
    /\ \A l \in Launches :
          stage[l] \notin {"launch", "failed"} =>
             pid[l] # None /\ gate[l] # None /\ state[l] # "none"

\* No target runs before its agent and script are loaded, unless its gate
\* opened on its own or the signal of another launch opened it: the order of
\* connect_agent_session, whatever fails on the way.
UserCodeAfterAgent ==
    \A p \in Pids :
        proc[p].run = "running" => agent[proc[p].owner] \/ proc[p].owner \in opened \cup astray

\* A launch does not report a target ready that is still held: a resume that
\* was reported done is checked against the provider's status (resume).
ReadyIsReleased ==
    \A l \in Launches, p \in Pids :
        stage[l] \in {"ready", "attached"} /\ proc[p].owner = l => proc[p].run = "running"

\* A launch that fails with a handle leaves no target behind, running or held,
\* unless the termination itself was refused (SuspendedSpawn::drop).
HandleTerminates ==
    \A l \in Launches, p \in Pids :
        stage[l] = "failed" /\ gate[l] # None /\ proc[p].owner = l => l \in refused

\* The drop of the handle at the end of a launch that succeeded leaves every
\* target alone, its own first of all (connect_agent_session, SuspendedSpawn::drop).
AttachedIsSpared ==
    [][\A l \in Launches, p \in Pids :
          stage[l] = "ready" /\ stage'[l] = "attached" => proc'[p] = proc[p]]_vars

\* A launch with a handle comes to an end: every wait has a deadline
\* (wait_for).
LaunchEnds ==
    \A l \in Launches : (stage[l] = "confirm") ~> (stage[l] \in {"attached", "failed"})

\* The README says that any failure before the resume terminates the target.
\* A helper whose error output holds a state that does not parse leaves one
\* whose pid is known.
FailureTerminates ==
    \A l \in Launches, p \in Pids :
        stage[l] = "failed" /\ pid[l] # None /\ proc[p].owner = l => l \in refused

==============================================================================
