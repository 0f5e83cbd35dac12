-------------------------- MODULE SessionRegistry --------------------------
(***************************************************************************)
(* The controller's session registry (controller/src/server.rs) and the    *)
(* sessions in it (controller/src/session.rs), used by any number of       *)
(* threads that call any registry or session operation in any order.  The  *)
(* server and the HTTP frontend are two particular sets of such threads.   *)
(*                                                                         *)
(* A critical section under the registry lock or under a session's         *)
(* lifecycle mutex is one step.  The command gate is a real lock, because  *)
(* it is held across backend I/O, and so is every window in which a thread *)
(* holds only an Arc<Session>: a session it looked up may have failed, been *)
(* detached or left the registry by the thread's next step.                *)
(***************************************************************************)
EXTENDS Naturals, FiniteSets

CONSTANTS Threads,       \* the threads that use the registry
          NoThread,      \* "the gate has no writer"
          MaxSessions,   \* capacity of the registry (max_sessions)
          MaxId          \* bound: the number of reservations of a behaviour

ASSUME ThreadsAssumption == NoThread \notin Threads
ASSUME CapacityAssumption == MaxSessions \in Nat \ {0}
ASSUME BoundAssumption == MaxId \in Nat

VARIABLES
  nextId,     \* the id of the next reservation
  registry,   \* ids of the registered sessions
  state,      \* lifecycle.state of each session; "Unreserved" before reserve
  backend,    \* the sessions whose lifecycle.backend is Some
  shutdown,   \* the sessions whose lifecycle.backend_shutdown is set
  lease,      \* the sessions that own a remote hook lease not yet released
  agent,      \* the agent at the other end of the backend's stream
  readers,    \* command gate: threads with a shared lock
  writer,     \* command gate: the thread with the exclusive lock, or NoThread
  op,         \* the operation each thread is in
  on          \* the session that operation is on, 0 when idle

sessionVars == <<state, backend, shutdown, lease>>
gateVars    == <<readers, writer>>
threadVars  == <<op, on>>
vars == <<nextId, registry, state, backend, shutdown, lease, agent, readers,
          writer, op, on>>

Ids == 1 .. MaxId
States == {"Unreserved", "Attaching", "Attached", "Detaching", "Detached",
           "Failed"}
Agents == {"absent", "serving", "gone"}
Ops == {"idle", "call", "hookcall", "hookadopt", "hookmark", "mark", "lookup",
        "detach", "shutdown", "remove"}

TypeOK == /\ nextId \in 1 .. MaxId + 1
          /\ registry \in SUBSET Ids
          /\ state \in [Ids -> States]
          /\ backend \in SUBSET Ids
          /\ shutdown \in SUBSET Ids
          /\ lease \in SUBSET Ids
          /\ agent \in [Ids -> Agents]
          /\ readers \in [Ids -> SUBSET Threads]
          /\ writer \in [Ids -> Threads \union {NoThread}]
          /\ op \in [Threads -> Ops]
          /\ on \in [Threads -> Ids \union {0}]
          /\ \A t \in Threads : op[t] # "idle" => on[t] \in Ids

Init == /\ nextId = 1
        /\ registry = {}
        /\ state = [s \in Ids |-> "Unreserved"]
        /\ backend = {} /\ shutdown = {} /\ lease = {}
        /\ agent = [s \in Ids |-> "absent"]
        /\ readers = [s \in Ids |-> {}]
        /\ writer = [s \in Ids |-> NoThread]
        /\ op = [t \in Threads |-> "idle"]
        /\ on = [t \in Threads |-> 0]

-----------------------------------------------------------------------------
(* Helpers *)

Goto(t, o, s) == op' = [op EXCEPT ![t] = o] /\ on' = [on EXCEPT ![t] = s]
Finish(t) == Goto(t, "idle", 0)

\* The gate can be locked shared, or exclusively.  Mutant: an exclusive lock
\* does not wait for the readers.
CanRead(s) == writer[s] = NoThread
CanWriteOverReaders(s) == CanRead(s)
CanWrite(s) == CanRead(s) /\ readers[s] = {}

\* A thread can hold an Arc of any session ever reserved, registered or not.
Reserved(s) == state[s] # "Unreserved"

\* cleanup_external_hooks_locked, as far as one lease goes.  A release needs an
\* answer of the agent, and may fail even when the agent serves.
Cleanup(s, peer) == \/ lease' = lease
                    \/ peer = "serving" /\ lease' = lease \ {s}

-----------------------------------------------------------------------------
(* Launching *)

\* The id of the next session, and whether there is one left.  Mutants: an id
\* derived from the number of sessions; a counter not checked for exhaustion.
IdByCount == Cardinality(registry) + 1
NewId == nextId
IdNotChecked == nextId # 0
IdLeft == nextId \in Ids

\* SessionRegistry::reserve.
Reserve == /\ Cardinality(registry) < MaxSessions
           /\ IdLeft
           /\ registry' = registry \union {NewId}
           /\ state' = [state EXCEPT ![NewId] = "Attaching"]
           /\ nextId' = NewId + 1
           /\ UNCHANGED <<backend, shutdown, lease, agent, gateVars, threadVars>>

\* Only the launch of a session that still waits for it can complete or fail.
\* Mutant: a session that has failed meanwhile is published all the same.
NotAttachedYet(s) == state[s] \in {"Attaching", "Failed"}
Launching(s) == state[s] = "Attaching"

\* Session::complete_attach, called with the backend of a connected agent.
CompleteAttach(s) ==
  /\ CanWrite(s)
  /\ Launching(s)
  /\ state' = [state EXCEPT ![s] = "Attached"]
  /\ backend' = backend \union {s}
  /\ shutdown' = shutdown \ {s}
  /\ agent' = [agent EXCEPT ![s] = "serving"]
  /\ UNCHANGED <<nextId, registry, lease, gateVars, threadVars>>

\* Session::fail_attach.
FailAttach(s) ==
  /\ CanWrite(s)
  /\ Launching(s)
  /\ state' = [state EXCEPT ![s] = "Failed"]
  /\ shutdown' = shutdown \union {s}
  /\ Cleanup(s, agent[s])
  /\ UNCHANGED <<nextId, registry, backend, agent, gateVars, threadVars>>

-----------------------------------------------------------------------------
(* Calls under the shared gate *)

\* The check of state and backend that every call starts with.  Mutant: the
\* backend alone is checked.
HasBackend(s) == s \in backend
Callable(s) == state[s] = "Attached" /\ s \in backend

\* Session::rpc_call, execute_command and health_check up to the backend call.
\* A call that finds the session not attached returns Unavailable at once.
BeginCall(t, s) ==
  /\ op[t] = "idle"
  /\ CanRead(s)
  /\ Callable(s)
  /\ readers' = [readers EXCEPT ![s] = @ \union {t}]
  /\ Goto(t, "call", s)
  /\ UNCHANGED <<nextId, registry, sessionVars, agent, writer>>

\* The backend call returns, with any result, and the gate is unlocked.
EndCall(t) ==
  /\ op[t] = "call"
  /\ readers' = [readers EXCEPT ![on[t]] = @ \ {t}]
  /\ Finish(t)
  /\ UNCHANGED <<nextId, registry, sessionVars, agent, writer>>

-----------------------------------------------------------------------------
(* External hooks *)

\* Session::execute_external_hook up to the agent command: the shared gate is
\* unlocked again before the command is sent.
BeginHookCall(t, s) ==
  /\ op[t] = "idle"
  /\ CanRead(s)
  /\ Callable(s)
  /\ s \notin lease
  /\ Goto(t, "hookcall", s)
  /\ UNCHANGED <<nextId, registry, sessionVars, agent, gateVars>>

\* The agent's answer: a receipt, an error that ends the operation, or a
\* transport failure.
EndHookCall(t) ==
  /\ op[t] = "hookcall"
  /\ \/ agent[on[t]] = "serving" /\ Goto(t, "hookadopt", on[t])
     \/ agent[on[t]] = "serving" /\ Finish(t)
     \/ Goto(t, "hookmark", on[t])
  /\ UNCHANGED <<nextId, registry, sessionVars, agent, gateVars>>

\* Mutant: the state is not looked at again when the receipt arrives.
AcceptsAny(s) == Reserved(s)
AcceptsLease(s) == state[s] \in {"Attaching", "Attached"}

\* The receipt becomes a lease, unless another thread has adopted the same
\* request or the session no longer accepts leases (the lease is then released
\* as well as can be, and dropped).
AdoptHook(t) ==
  LET s == on[t]
  IN /\ op[t] = "hookadopt"
     /\ CanWrite(s)
     /\ lease' = IF AcceptsLease(s) THEN lease \union {s} ELSE lease
     /\ Finish(t)
     /\ UNCHANGED <<nextId, registry, state, backend, shutdown, agent, gateVars>>

\* Session::release_external_hook and uninstall_external_hook.
ReleaseHook(t, s) ==
  /\ op[t] = "idle"
  /\ CanWrite(s)
  /\ s \in lease
  /\ Cleanup(s, agent[s])
  /\ UNCHANGED <<nextId, registry, state, backend, shutdown, agent, gateVars,
                 threadVars>>

-----------------------------------------------------------------------------
(* Recording a transport failure, and reaping *)

\* reap_unhealthy and reap_command_transport_failure start with an
\* Arc<Session> and the failure of a call made earlier.
BeginReap(t, s) ==
  /\ op[t] = "idle"
  /\ Reserved(s)
  /\ Goto(t, "mark", s)
  /\ UNCHANGED <<nextId, registry, sessionVars, agent, gateVars>>

\* The states mark_transport_failure accepts.
Markable(s) == state[s] \in {"Attached", "Failed"}

\* Session::mark_transport_failure: called by a reaper, which then detaches
\* the session, or by a failed hook call, which does not.
MarkFailure(t) ==
  LET s == on[t]
  IN /\ op[t] \in {"mark", "hookmark"}
     /\ CanWrite(s)
     /\ \/ /\ Markable(s)
           /\ state' = [state EXCEPT ![s] = "Failed"]
           /\ Cleanup(s, agent[s])
           /\ IF op[t] = "mark" THEN Goto(t, "lookup", s) ELSE Finish(t)
        \/ /\ ~Markable(s)
           /\ Finish(t)
           /\ UNCHANGED <<state, lease>>
     /\ UNCHANGED <<nextId, registry, backend, shutdown, agent, gateVars>>

-----------------------------------------------------------------------------
(* Detaching *)

\* SessionRegistry::detach: the lookup that turns an id into an Arc<Session>.
Lookup(t) ==
  /\ op[t] = "lookup"
  /\ IF on[t] \in registry THEN Goto(t, "detach", on[t]) ELSE Finish(t)
  /\ UNCHANGED <<nextId, registry, sessionVars, agent, gateVars>>

BeginDetach(t, s) ==
  /\ op[t] = "idle"
  /\ s \in registry
  /\ Goto(t, "detach", s)
  /\ UNCHANGED <<nextId, registry, sessionVars, agent, gateVars>>

\* detach_all goes through the Arcs of a snapshot, without a second lookup.
BeginSnapshotDetach(t, s) ==
  /\ op[t] = "idle"
  /\ Reserved(s)
  /\ Goto(t, "detach", s)
  /\ UNCHANGED <<nextId, registry, sessionVars, agent, gateVars>>

\* What Session::detach records, and returns: Detached when the backend has
\* acknowledged the shutdown and no lease is left, and otherwise Failed.
Recorded(t, s, clean) ==
  IF clean
  THEN state' = [state EXCEPT ![s] = "Detached"] /\ Goto(t, "remove", s)
  ELSE state' = [state EXCEPT ![s] = "Failed"] /\ Finish(t)

\* Session::detach of a session whose launch has not completed.
DetachAttaching(t) ==
  LET s == on[t]
  IN /\ op[t] = "detach"
     /\ CanWrite(s)
     /\ Launching(s)
     /\ shutdown' = shutdown \union {s}
     /\ Cleanup(s, agent[s])
     /\ Recorded(t, s, s \notin lease')
     /\ UNCHANGED <<nextId, registry, backend, agent, gateVars>>

\* Session::detach of a session that has been attached: the backend is taken,
\* unless it has been shut down already, and the gate stays locked over the
\* shutdown.
BeginShutdown(t) ==
  LET s == on[t]
  IN /\ op[t] = "detach"
     /\ CanWrite(s)
     /\ state[s] \in {"Attached", "Failed"}
     /\ state' = [state EXCEPT ![s] = "Detaching"]
     /\ backend' = backend \ {s}
     /\ writer' = [writer EXCEPT ![s] = t]
     /\ Goto(t, "shutdown", s)
     /\ UNCHANGED <<nextId, registry, shutdown, lease, agent, readers>>

\* Session::detach of a session another thread has detached.
DetachAgain(t) ==
  /\ op[t] = "detach"
  /\ CanWrite(on[t])
  /\ state[on[t]] \in {"Detaching", "Detached"}
  /\ Goto(t, "remove", on[t])
  /\ UNCHANGED <<nextId, registry, sessionVars, agent, gateVars>>

\* Mutant: the backend is not put back after a failed shutdown.
NotRestored(s) == backend
Restored(s) == backend \union {s}

\* backend.detach, which writes the Exit command, and the lease cleanup that
\* follows it.  A backend that was shut down earlier is not called again.  An
\* agent that reads Exit answers nothing after it, so the releases come too late.
EndShutdown(t) ==
  LET s == on[t]
  IN /\ op[t] = "shutdown"
     /\ \/ /\ s \in shutdown \/ agent[s] = "serving"
           /\ agent' = [agent EXCEPT ![s] = IF @ = "serving" THEN "gone" ELSE @]
           /\ Cleanup(s, agent'[s])
           /\ shutdown' = shutdown \union {s}
           /\ backend' = backend \ {s}
           /\ Recorded(t, s, s \notin lease')
        \/ /\ s \notin shutdown
           /\ Cleanup(s, agent[s])
           /\ backend' = Restored(s)
           /\ Recorded(t, s, FALSE)
           /\ UNCHANGED <<agent, shutdown>>
     /\ writer' = [writer EXCEPT ![s] = NoThread]
     /\ UNCHANGED <<nextId, registry, readers>>

\* The session leaves the registry after Session::detach has returned Ok.
Remove(t) ==
  /\ op[t] = "remove"
  /\ registry' = registry \ {on[t]}
  /\ Finish(t)
  /\ UNCHANGED <<nextId, sessionVars, agent, gateVars>>

-----------------------------------------------------------------------------
\* The target process exits, or the agent closes its stream.
AgentDies(s) ==
  /\ agent[s] = "serving"
  /\ agent' = [agent EXCEPT ![s] = "gone"]
  /\ UNCHANGED <<nextId, registry, sessionVars, gateVars, threadVars>>

\* One step of the reap or detach that a thread is in.
DetachStep(t) == \/ MarkFailure(t) \/ Lookup(t) \/ DetachAttaching(t)
                 \/ BeginShutdown(t) \/ DetachAgain(t) \/ EndShutdown(t)
                 \/ Remove(t)

Next == \/ Reserve
        \/ \E s \in Ids : CompleteAttach(s) \/ FailAttach(s) \/ AgentDies(s)
        \/ \E t \in Threads, s \in Ids :
             \/ BeginCall(t, s) \/ BeginHookCall(t, s) \/ ReleaseHook(t, s)
             \/ BeginReap(t, s) \/ BeginDetach(t, s) \/ BeginSnapshotDetach(t, s)
        \/ \E t \in Threads :
             EndCall(t) \/ EndHookCall(t) \/ AdoptHook(t) \/ DetachStep(t)

Spec == Init /\ [][Next]_vars

-----------------------------------------------------------------------------
(* Properties *)

\* The detach gate: while a thread shuts a session's backend down, no thread
\* has a call in flight on that session, and no other thread shuts it down
\* (the command gate of Session).
DetachWaitsForCalls ==
  \A t, u \in Threads :
    op[t] = "shutdown" /\ op[u] \in {"call", "shutdown"} /\ on[t] = on[u] => t = u

\* A session does not change state under a call: whoever detaches it, marks it
\* failed or completes its launch waits for the call to return (every such
\* operation takes the exclusive gate).
CallsNeedAttached ==
  \A t \in Threads : op[t] = "call" => state[on[t]] = "Attached"

\* A failed shutdown keeps what a retry needs: a session whose backend has not
\* acknowledged a shutdown still has that backend, and a session is in the
\* state Detaching only while a thread is in Session::detach.
RetryOwner ==
  \A s \in Ids :
    /\ state[s] = "Failed" /\ s \notin shutdown => s \in backend
    /\ state[s] = "Detaching" => \E t \in Threads : op[t] = "shutdown" /\ on[t] = s

\* Nothing is dropped with the registry entry: a session that has left the
\* registry is Detached, and owns neither a backend nor a lease.
RemovedOwnNothing ==
  \A s \in Ids :
    Reserved(s) /\ s \notin registry => /\ state[s] = "Detached"
                                        /\ s \notin backend \union lease

\* An id names one session for ever: a session that enters the registry has an
\* id no thread can hold from an earlier session, so a stale id or Arc never
\* reaches a younger session ("monotonically increasing, non-reused IDs").
IdsNotReused ==
  [][\A s \in Ids : s \in registry' \ registry => ~Reserved(s)]_vars

\* A late launch result, a second detach or a stale failure never brings a
\* session back: once detached it stays so, and once failed or detaching it is
\* never attached again.
NoResurrection ==
  [][\A s \in Ids :
       /\ state[s] = "Detached" => state'[s] = "Detached"
       /\ state[s] \in {"Failed", "Detaching"} => state'[s] # "Attached"]_vars

\* A backend that has been given up is not called again: the flag that records
\* it is never cleared, by a late launch either, and no backend comes back
\* (Session::detach takes the backend only while the flag is not set).
ShutdownRecorded ==
  [][\A s \in shutdown : s \in shutdown' /\ s \notin backend']_vars

-----------------------------------------------------------------------------
(* What each session promises *)

Phase(s) == CASE state[s] = "Unreserved" -> "unborn"
              [] state[s] = "Attaching" -> "opening"
              [] state[s] = "Attached" -> "open"
              [] state[s] \in {"Failed", "Detaching"} -> "broken"
              [] state[s] = "Detached" -> "closed"

Lifecycle(s) == INSTANCE SessionLifecycle
                  WITH Callers <- Threads, phase <- Phase(s), calls <- readers[s]

\* Every session of the registry, with its locks, retries and races, behaves
\* like the session of SessionLifecycle: it is Lifecycle(s)!Spec for every s,
\* written as one initial condition and one box.
ImplementsLifecycle ==
  /\ \A s \in Ids : Lifecycle(s)!Init
  /\ [][\A s \in Ids : Lifecycle(s)!Next \/ UNCHANGED Lifecycle(s)!vars]_vars
=============================================================================
