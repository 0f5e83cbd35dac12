--------------------------- MODULE SessionServer ---------------------------
(***************************************************************************)
(* The controller's server mode: the REPL thread (server_runtime.rs), the  *)
(* health monitor thread (server_runtime.rs) and one launch worker per     *)
(* launch (injection.rs), sharing one registry through the frontend        *)
(* (server_frontend.rs).  The frontend's mutex is a real lock: it is held  *)
(* over whole detaches, backend I/O included.                              *)
(*                                                                         *)
(* Every step is a step of SessionRegistry, guarded by what the thread is  *)
(* doing, or leaves the registry alone.  Server mode adopts no external    *)
(* hook (session.rs is only asked to release them), so leases stay absent. *)
(***************************************************************************)
EXTENDS SessionRegistry

CONSTANTS Repl, Health

ASSUME ServerThreads == Repl # Health /\ Threads = {Repl, Health}

VARIABLES
  frontend,   \* owner of the frontend's mutex, or NoThread
  active,     \* the session the REPL is in, 0 in server mode
  closed,     \* FrontendState.closed
  worker,     \* a launch worker of the session is running
  at,         \* where each of the two threads is in its loop
  arc,        \* the session each of them is handling, 0 if none
  failure,    \* why the call a thread handles has failed: "none" if it has not
  todo,       \* sessions left in the loop a thread is in
  reports     \* the sessions of the REPL's detach_all snapshot

frontendVars == <<frontend, active, closed>>
loopVars == <<at, arc, failure, todo, reports>>
serverVars == <<vars, frontendVars, worker, loopVars>>

ReplPoints == {"prompt", "launching", "issue", "calling", "reconcile", "reaping",
               "detaching", "detachAll", "exit", "eof", "stopped"}
HealthPoints == {"waiting", "probing", "calling", "reconcile", "reaping", "stopped"}

ServerTypeOK ==
  /\ TypeOK
  /\ frontend \in Threads \union {NoThread}
  /\ active \in Ids \union {0}
  /\ closed \in BOOLEAN
  /\ worker \in [Ids -> BOOLEAN]
  /\ at \in [Threads -> ReplPoints \union HealthPoints]
  /\ arc \in [Threads -> Ids \union {0}]
  /\ failure \in [Threads -> {"none", "unavailable", "refused"}]
  /\ todo \in [Threads -> SUBSET Ids]
  /\ reports \in SUBSET Ids

ServerInit ==
  /\ Init
  /\ frontend = NoThread
  /\ active = 0
  /\ closed = FALSE
  /\ worker = [s \in Ids |-> FALSE]
  /\ at = [t \in Threads |-> IF t = Repl THEN "prompt" ELSE "waiting"]
  /\ arc = [t \in Threads |-> 0]
  /\ failure = [t \in Threads |-> "none"]
  /\ todo = [t \in Threads |-> {}]
  /\ reports = {}

-----------------------------------------------------------------------------
(* Helpers *)

MoveWith(t, point, s, why) == /\ at' = [at EXCEPT ![t] = point]
                              /\ arc' = [arc EXCEPT ![t] = s]
                              /\ failure' = [failure EXCEPT ![t] = why]
Move(t, point, s) == MoveWith(t, point, s, "none")

\* Where a thread goes on after a call or a reap.
Home(t) == IF t = Repl THEN "prompt" ELSE "probing"

Free == frontend = NoThread
Open == Free /\ ~closed                     \* lock, ensure_open
\* Mutant: the guard is dropped before the registry is called.
LockBriefly(t) == Free /\ UNCHANGED frontend
Lock(t) == Free /\ frontend' = t
Unlock(t) == frontend = t /\ frontend' = NoThread

Idle(t) == op[t] = "idle"

\* The outcome of a detach is clean when the session is Detached.
Clean(s) == state[s] = "Detached"

\* Snapshots of the registry are in the order of the ids.
First(t) == {s \in todo[t] : \A r \in todo[t] : s <= r}

\* What a loop over sessions still has to do after s.  Mutant: a detach that was
\* not clean is repeated.
RestUntilClean(t, s) == IF Clean(s) THEN todo[t] \ {s} ELSE todo[t]
Rest(t, s) == todo[t] \ {s}

\* Leave session mode if the REPL is in session s.  Mutant: it stays in it.
LeaveNothing(s) == UNCHANGED active
Leave(s) == active' = IF active = s THEN 0 ELSE active

-----------------------------------------------------------------------------
(* Launches *)

\* reserve_launch, from launch_attach or launch_spawn.
ReplLaunch ==
  /\ at[Repl] = "prompt"
  /\ Open
  /\ active = 0
  /\ Reserve
  /\ Move(Repl, "launching", nextId)
  /\ UNCHANGED <<frontendVars, worker, todo, reports>>

\* The launcher accepts the reservation and starts a worker for it.
LaunchAccepted ==
  /\ at[Repl] = "launching"
  /\ worker' = [worker EXCEPT ![arc[Repl]] = TRUE]
  /\ Move(Repl, "prompt", 0)
  /\ UNCHANGED <<vars, frontendVars, todo, reports>>

\* The launcher refuses: finish_launch fails the reservation.
LaunchRefused ==
  /\ at[Repl] = "launching"
  /\ FailAttach(arc[Repl])
  /\ Move(Repl, "prompt", 0)
  /\ UNCHANGED <<frontendVars, worker, todo, reports>>

\* The worker thread ends: the agent has connected, or the launch has failed,
\* or its result comes too late and both complete and fail are refused.
WorkerEnds(s) ==
  /\ worker[s]
  /\ \/ CompleteAttach(s)
     \/ FailAttach(s)
     \/ CanWrite(s) /\ ~Launching(s) /\ UNCHANGED vars
  /\ worker' = [worker EXCEPT ![s] = FALSE]
  /\ UNCHANGED <<frontendVars, loopVars>>

-----------------------------------------------------------------------------
(* Session mode *)

ReplUse(s) ==
  /\ at[Repl] = "prompt"
  /\ Open
  /\ active = 0
  /\ s \in registry /\ state[s] = "Attached"
  /\ active' = s
  /\ UNCHANGED <<vars, frontend, closed, worker, loopVars>>

ReplBack ==
  /\ at[Repl] = "prompt"
  /\ Open
  /\ active # 0
  /\ active' = 0
  /\ UNCHANGED <<vars, frontend, closed, worker, loopVars>>

\* execute_session_command up to active_session, which resolves the id under
\* the mutex and forgets an active session that is no longer registered.
ReplCommand ==
  /\ at[Repl] = "prompt"
  /\ Open
  /\ active # 0
  /\ IF active \in registry
     THEN Move(Repl, "issue", active) /\ UNCHANGED active
     ELSE active' = 0 /\ UNCHANGED <<at, arc, failure>>
  /\ UNCHANGED <<vars, frontend, closed, worker, todo, reports>>

\* Session::execute_command of the REPL, health_check of the monitor.  A
\* session that is not attached is Unavailable, which is a transport failure.
Call(t, s) ==
  /\ \/ BeginCall(t, s) /\ Move(t, "calling", s)
     \/ /\ CanRead(s) /\ ~Callable(s)
        /\ MoveWith(t, "reconcile", s, "unavailable")
        /\ UNCHANGED vars
  /\ UNCHANGED <<frontendVars, worker, reports>>

ReplIssue ==
  /\ at[Repl] = "issue"
  /\ Call(Repl, arc[Repl])
  /\ UNCHANGED todo

\* The result of the call.  Only a serving agent answers, and even then the call
\* may time out.  A command may also be refused (a wrong usage, a hook this target
\* does not allow) before anything is sent: execute_command makes Internal of every
\* error, and is_transport_failure holds of Internal as of Unavailable.
CallReturns(t) ==
  /\ at[t] = "calling"
  /\ EndCall(t)
  /\ \/ agent[arc[t]] = "serving" /\ Move(t, Home(t), 0)
     \/ MoveWith(t, "reconcile", arc[t], "unavailable")
     \/ t = Repl /\ MoveWith(t, "reconcile", arc[t], "refused")
  /\ UNCHANGED <<frontendVars, worker, todo, reports>>

\* reconcile_health_failure and reconcile_command_transport_failure: the mutex
\* is taken, a stale active session is left, and the session is reaped.
Reconcile(t) ==
  /\ at[t] = "reconcile"
  /\ Lock(t)
  /\ Leave(arc[t])
  /\ BeginReap(t, arc[t])
  /\ MoveWith(t, "reaping", arc[t], failure[t])
  /\ UNCHANGED <<closed, worker, todo, reports>>

Reconciled(t) ==
  /\ at[t] = "reaping"
  /\ Idle(t)
  /\ Unlock(t)
  /\ Move(t, Home(t), 0)
  /\ UNCHANGED <<vars, active, closed, worker, todo, reports>>

-----------------------------------------------------------------------------
(* Detaching and leaving *)

\* ServerFrontend::detach, typed in server mode, or exit typed in session mode.
\* The mutex is held until the detach is done.
ReplDetach(s) ==
  /\ at[Repl] = "prompt"
  /\ Open
  /\ Reserved(s)
  /\ \/ /\ Lock(Repl)
        /\ BeginDetach(Repl, s)
        /\ Move(Repl, "detaching", s)
        /\ UNCHANGED active
     \/ /\ s \notin registry
        /\ Leave(s)
        /\ UNCHANGED <<vars, frontend, at, arc, failure>>
  /\ UNCHANGED <<closed, worker, todo, reports>>

ReplDetached ==
  /\ at[Repl] = "detaching"
  /\ Idle(Repl)
  /\ Unlock(Repl)
  /\ IF Clean(arc[Repl]) THEN Leave(arc[Repl]) ELSE UNCHANGED active
  /\ Move(Repl, "prompt", 0)
  /\ UNCHANGED <<vars, closed, worker, todo, reports>>

\* detach_all, exit (in session mode the loop turns it into a detach), and the
\* exit that the end of the input stands for: the mutex is taken, and then the
\* snapshot of the registry.
ReplDetachAll ==
  /\ at[Repl] = "prompt"
  /\ Open
  /\ Lock(Repl)
  /\ \E point \in {"detachAll", "exit", "eof"} :
       (point = "exit" => active = 0) /\ Move(Repl, point, 0)
  /\ todo' = [todo EXCEPT ![Repl] = registry]
  /\ reports' = registry
  /\ UNCHANGED <<vars, active, closed, worker>>

DetachingAll == at[Repl] \in {"detachAll", "exit", "eof"}

ReplDetachNext ==
  /\ DetachingAll
  /\ \E s \in First(Repl) : /\ BeginSnapshotDetach(Repl, s)
                             /\ todo' = [todo EXCEPT ![Repl] = Rest(Repl, s)]
  /\ UNCHANGED <<frontendVars, worker, at, arc, failure, reports>>

\* Exit closes the frontend when every report is clean and nothing is left.
\* Mutant: a report of a failed detach does not count.
ClosesUnlessAttached == \A s \in reports : state[s] # "Attached"
Closes == (\A s \in reports : Clean(s)) /\ registry = {}

\* reconcile_active_after_reports, and what follows in run_loop: the REPL leaves
\* its loop when the frontend is closed, and in any case at the end of input.
ReplDetachedAll ==
  /\ DetachingAll
  /\ todo[Repl] = {}
  /\ Idle(Repl)
  /\ Unlock(Repl)
  /\ IF active # 0 /\ (active \notin registry \/ (active \in reports /\ Clean(active)))
     THEN active' = 0 ELSE UNCHANGED active
  /\ closed' = IF at[Repl] = "detachAll" THEN closed ELSE Closes
  /\ Move(Repl, IF at[Repl] = "eof" \/ closed' THEN "stopped" ELSE "prompt", 0)
  /\ reports' = {}
  /\ UNCHANGED <<vars, worker, todo>>

-----------------------------------------------------------------------------
(* The health monitor *)

\* attached_sessions.  Mutant: only the session in use is probed.
ActiveAttached == {s \in registry : state[s] = "Attached" /\ s = active}
AttachedSessions == {s \in registry : state[s] = "Attached"}

\* recv_timeout: the interval has passed, or the runtime has been dropped.
HealthTick ==
  /\ at[Health] = "waiting"
  /\ \/ /\ at[Repl] # "stopped"
        /\ todo' = [todo EXCEPT ![Health] = AttachedSessions]
        /\ Move(Health, "probing", 0)
     \/ /\ at[Repl] = "stopped"
        /\ Move(Health, "stopped", 0)
        /\ UNCHANGED todo
  /\ UNCHANGED <<vars, frontendVars, worker, reports>>

HealthProbe ==
  /\ at[Health] = "probing"
  /\ \E s \in First(Health) : /\ Call(Health, s)
                               /\ todo' = [todo EXCEPT ![Health] = Rest(Health, s)]

HealthRoundEnds ==
  /\ at[Health] = "probing"
  /\ todo[Health] = {}
  /\ Move(Health, "waiting", 0)
  /\ UNCHANGED <<vars, frontendVars, worker, todo, reports>>

-----------------------------------------------------------------------------
\* A step of the reap or detach that a thread is in.
RegistryStep(t) == DetachStep(t) /\ UNCHANGED <<frontendVars, worker, loopVars>>

Crash(s) == AgentDies(s) /\ UNCHANGED <<frontendVars, worker, loopVars>>

\* The server has returned from ServerRuntime::run.
Stopped == /\ at[Repl] = "stopped" /\ at[Health] = "stopped"
           /\ UNCHANGED serverVars

\* What the user types.
Input == \/ ReplLaunch \/ ReplBack \/ ReplCommand \/ ReplDetachAll
         \/ \E s \in Ids : ReplUse(s) \/ ReplDetach(s)

\* What the REPL thread does until it prompts again.
ReplStep == \/ LaunchAccepted \/ LaunchRefused \/ ReplIssue \/ ReplDetached
            \/ ReplDetachNext \/ ReplDetachedAll

HealthStep == HealthTick \/ HealthProbe \/ HealthRoundEnds

ThreadStep(t) == CallReturns(t) \/ Reconcile(t) \/ Reconciled(t) \/ RegistryStep(t)

ServerNext == \/ Input \/ ReplStep \/ HealthStep \/ Stopped
              \/ \E t \in Threads : ThreadStep(t)
              \/ \E s \in Ids : WorkerEnds(s) \/ Crash(s)

ServerSpec == ServerInit /\ [][ServerNext]_serverVars

\* Threads run until they wait; a wait for a lock ends if the lock is free again
\* and again: a queued writer of the gate goes before later readers, and the
\* mutex is released between any two inputs.  The user types when they like, and
\* a launch may take for ever.
Fairness == /\ SF_serverVars(ReplStep)
            /\ SF_serverVars(HealthStep)
            /\ \A t \in Threads : SF_serverVars(ThreadStep(t))

FairServerSpec == ServerSpec /\ Fairness

-----------------------------------------------------------------------------
(* Properties *)

\* Detaches and reaps of the server never overlap: whoever is in one owns the
\* frontend's mutex, from the first look at the session until it has left the
\* registry.
DetachesSerialized ==
  \A t \in Threads :
    op[t] \in {"mark", "lookup", "detach", "shutdown", "remove"} => frontend = t

\* Nobody is left in a session that is gone: when the mutex is free, the active
\* session is a registered one, and never one that is detached.
ActiveIsRegistered ==
  Free /\ active # 0 => active \in registry /\ state[active] # "Detached"

\* A closed frontend has given everything back: no session is registered or has
\* a backend, no agent still serves, and no launch worker that still runs can
\* publish its session any more.
ClosedIsEmpty ==
  closed => /\ registry = {}
            /\ \A s \in Ids : s \notin backend /\ agent[s] # "serving" /\ ~Launching(s)

\* A command, a detach or an exit always comes back to the prompt, or ends the
\* server: no session, failed or busy, blocks the REPL for ever.
ReplReturns == at[Repl] # "prompt" ~> at[Repl] \in {"prompt", "stopped"}

\* An agent that is gone is noticed without any input: its session does not stay
\* attached while the server runs.
DeadAgentNoticed ==
  \A s \in Ids :
    state[s] = "Attached" /\ agent[s] = "gone"
      ~> state[s] # "Attached" \/ at[Repl] = "stopped"

-----------------------------------------------------------------------------
(* What a comment promises and the code does not do *)

\* "Transport and framing failures mean that the long-lived agent stream is no
\* longer usable" (session.rs:295), and only those do: a command that has been
\* refused leaves the session as it is.
RefusedCommandKeepsSession ==
  [][\A t \in Threads :
       op[t] = "mark" /\ op'[t] # "mark" /\ failure[t] = "refused"
         => state'[on[t]] = state[on[t]]]_serverVars
=============================================================================
