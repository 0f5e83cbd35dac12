------------------------ MODULE SessionServer_proofs ------------------------
(***************************************************************************)
(* Theorems of SessionServer: the server uses the registry only as         *)
(* SessionRegistry lets any threads use it, so the theorems of the         *)
(* registry hold in the server, and its detaches never overlap.            *)
(***************************************************************************)
EXTENDS SessionServer, SessionRegistry_proofs

\* The points at which a thread handles a session, and those at which it owns
\* the frontend's mutex.
Handling == {"launching", "issue", "calling", "reconcile", "reaping", "detaching"}
Holding == {"reaping", "detaching", "detachAll", "exit", "eof"}

DetachOps == {"mark", "lookup", "detach", "shutdown", "remove"}

\* The mutex is owned by whoever is at a holding point, and a thread is in a
\* call, or in a detach, only where its loop says so.
LockInv ==
  \A t \in Threads :
    /\ frontend = t <=> at[t] \in Holding
    /\ at[t] \in Handling => arc[t] \in Ids
    /\ at[t] = "calling" => op[t] = "call"
    /\ at[t] \in Holding => op[t] \in DetachOps \union {"idle"}
    /\ at[t] \notin Holding \union {"calling"} => op[t] = "idle"

ServerInv == ServerTypeOK /\ LockInv

-----------------------------------------------------------------------------

LEMMA TwoThreads == Repl \in Threads /\ Health \in Threads /\ NoThread \notin Threads
  BY ServerThreads, ThreadsAssumption

\* The server starts as the registry does.
LEMMA InitServerInv == ServerInit => Init /\ ServerInv
  <1> SUFFICES ASSUME ServerInit PROVE Init /\ ServerInv
    OBVIOUS
  <1>1. Init /\ TypeOK
    BY InitIInv DEF ServerInit, IInv
  <1>2. ServerTypeOK
    BY <1>1 DEF ServerInit, ServerTypeOK, ReplPoints, HealthPoints
  <1>3. LockInv
    BY TwoThreads DEF ServerInit, Init, LockInv, Handling, Holding
  <1> QED
    BY <1>1, <1>2, <1>3 DEF ServerInv

\* What Move does to the loops of the threads.
LEMMA MoveEffect ==
  ASSUME ServerTypeOK, NEW t \in Threads, NEW point, NEW s, NEW why,
         MoveWith(t, point, s, why)
  PROVE  /\ at'[t] = point /\ arc'[t] = s
         /\ \A u \in Threads \ {t} : at'[u] = at[u] /\ arc'[u] = arc[u]
  BY DEF ServerTypeOK, MoveWith

\* A step of a detach goes on with the detach or ends it.
LEMMA DetachStepEffect ==
  ASSUME TypeOK, NEW t \in Threads, DetachStep(t), op[t] # "hookmark"
  PROVE  /\ op[t] \in DetachOps /\ op'[t] \in DetachOps \union {"idle"}
         /\ \A u \in Threads \ {t} : op'[u] = op[u]
  <1> USE GotoEffect, FinishEffect DEF DetachOps
  <1>1. CASE MarkFailure(t)
    BY <1>1 DEF MarkFailure
  <1>2. CASE Lookup(t)
    BY <1>2 DEF Lookup
  <1>3. CASE DetachAttaching(t)
    BY <1>3 DEF DetachAttaching, Recorded
  <1>4. CASE BeginShutdown(t)
    BY <1>4 DEF BeginShutdown
  <1>5. CASE DetachAgain(t)
    BY <1>5 DEF DetachAgain
  <1>6. CASE EndShutdown(t)
    BY <1>6 DEF EndShutdown, Recorded
  <1>7. CASE Remove(t)
    BY <1>7 DEF Remove
  <1> QED
    BY <1>1, <1>2, <1>3, <1>4, <1>5, <1>6, <1>7 DEF DetachStep

\* Every step of the server is a step of the registry or leaves it alone.
LEMMA ServerStep == ServerInv /\ [ServerNext]_serverVars => [Next]_vars
  <1> SUFFICES ASSUME ServerInv, [ServerNext]_serverVars PROVE [Next]_vars
    OBVIOUS
  <1>i. ServerTypeOK /\ LockInv
    BY DEF ServerInv
  <1>c. ASSUME NEW t \in Threads, NEW s \in Ids, Call(t, s) PROVE [Next]_vars
    BY <1>c DEF Call, Next
  <1>1. CASE ReplLaunch
    BY <1>1 DEF ReplLaunch, Next
  <1>2. CASE LaunchRefused
    <2>1. arc[Repl] \in Ids
      BY <1>2, <1>i, TwoThreads DEF LaunchRefused, LockInv, Handling
    <2> QED
      BY <1>2, <2>1 DEF LaunchRefused, Next
  <1>3. CASE ReplIssue
    <2>1. arc[Repl] \in Ids
      BY <1>3, <1>i, TwoThreads DEF ReplIssue, LockInv, Handling
    <2> QED
      BY <1>3, <2>1, <1>c, TwoThreads DEF ReplIssue
  <1>4. CASE HealthProbe
    <2>1. First(Health) \subseteq Ids
      BY <1>i, TwoThreads DEF ServerTypeOK, First
    <2> QED
      BY <1>4, <2>1, <1>c, TwoThreads DEF HealthProbe
  <1>5. CASE ReplDetachNext
    <2>1. First(Repl) \subseteq Ids
      BY <1>i, TwoThreads DEF ServerTypeOK, First
    <2> QED
      BY <1>5, <2>1, TwoThreads DEF ReplDetachNext, Next
  <1>6. ASSUME NEW t \in Threads, CallReturns(t) PROVE [Next]_vars
    BY <1>6 DEF CallReturns, Next
  <1>7. ASSUME NEW t \in Threads, Reconcile(t) PROVE [Next]_vars
    <2>1. arc[t] \in Ids
      BY <1>7, <1>i DEF Reconcile, LockInv, Handling
    <2> QED
      BY <1>7, <2>1 DEF Reconcile, Next
  <1>8. ASSUME NEW t \in Threads, RegistryStep(t) PROVE [Next]_vars
    BY <1>8 DEF RegistryStep, Next
  <1>9. ASSUME NEW s \in Ids, ReplDetach(s) PROVE [Next]_vars
    BY <1>9, TwoThreads DEF ReplDetach, Next
  <1>10. ASSUME NEW s \in Ids, WorkerEnds(s) PROVE [Next]_vars
    BY <1>10 DEF WorkerEnds, Next
  <1>11. ASSUME NEW s \in Ids, Crash(s) PROVE [Next]_vars
    BY <1>11 DEF Crash, Next
  <1>12. CASE \/ ReplBack \/ ReplCommand \/ ReplDetachAll \/ LaunchAccepted
              \/ ReplDetached \/ ReplDetachedAll \/ HealthTick \/ HealthRoundEnds
              \/ Stopped \/ UNCHANGED serverVars
    BY <1>12 DEF ReplBack, ReplCommand, ReplDetachAll, LaunchAccepted, ReplDetached,
       ReplDetachedAll, HealthTick, HealthRoundEnds, Stopped, serverVars
  <1>13. ASSUME NEW s \in Ids, ReplUse(s) PROVE [Next]_vars
    BY <1>13 DEF ReplUse
  <1>14. ASSUME NEW t \in Threads, Reconciled(t) PROVE [Next]_vars
    BY <1>14 DEF Reconciled
  <1> QED
    BY <1>1, <1>2, <1>3, <1>4, <1>5, <1>6, <1>7, <1>8, <1>9, <1>10, <1>11, <1>12,
       <1>13, <1>14
    DEF ServerNext, Input, ReplStep, HealthStep, ThreadStep

\* The part of the server's type invariant that is not the registry's.
LoopTypeOK ==
  /\ frontend \in Threads \union {NoThread}
  /\ active \in Ids \union {0}
  /\ closed \in BOOLEAN
  /\ worker \in [Ids -> BOOLEAN]
  /\ at \in [Threads -> ReplPoints \union HealthPoints]
  /\ arc \in [Threads -> Ids \union {0}]
  /\ failure \in [Threads -> {"none", "unavailable", "refused"}]
  /\ todo \in [Threads -> SUBSET Ids]
  /\ reports \in SUBSET Ids

\* Every step keeps the types of the server's own variables.
LEMMA LoopTypeStep == ServerTypeOK /\ [ServerNext]_serverVars => LoopTypeOK'
  <1> SUFFICES ASSUME ServerTypeOK, [ServerNext]_serverVars PROVE LoopTypeOK'
    OBVIOUS
  <1> USE TwoThreads DEF ServerTypeOK, LoopTypeOK, ReplPoints, HealthPoints,
          frontendVars, loopVars, Move, MoveWith, Lock, Unlock, Free, Home, Rest
  <1>1. CASE ReplLaunch
    BY <1>1 DEF ReplLaunch, Reserve, IdLeft, NewId
  <1>2. CASE ReplBack
    BY <1>2 DEF ReplBack
  <1>3. CASE ReplCommand
    BY <1>3 DEF ReplCommand
  <1>4. CASE ReplDetachAll
    BY <1>4 DEF ReplDetachAll, TypeOK
  <1>5. ASSUME NEW s \in Ids, ReplUse(s) PROVE LoopTypeOK'
    BY <1>5 DEF ReplUse
  <1>6. ASSUME NEW s \in Ids, ReplDetach(s) PROVE LoopTypeOK'
    BY <1>6 DEF ReplDetach, Leave
  <1>7. CASE LaunchAccepted
    BY <1>7 DEF LaunchAccepted
  <1>8. CASE LaunchRefused
    BY <1>8 DEF LaunchRefused
  <1>9. CASE ReplIssue
    BY <1>9 DEF ReplIssue, Call
  <1>10. CASE ReplDetached
    BY <1>10 DEF ReplDetached, Leave
  <1>11. CASE ReplDetachNext
    BY <1>11 DEF ReplDetachNext
  <1>12. CASE ReplDetachedAll
    <2>1. closed' \in BOOLEAN
      BY <1>12, Zenon DEF ReplDetachedAll, Closes
    <2> QED
      BY <1>12, <2>1 DEF ReplDetachedAll
  <1>13. CASE HealthTick
    BY <1>13 DEF HealthTick, AttachedSessions, TypeOK
  <1>14. CASE HealthProbe
    <2>1. PICK s \in Ids : /\ Call(Health, s)
                           /\ todo' = [todo EXCEPT ![Health] = Rest(Health, s)]
      BY <1>14 DEF HealthProbe, First
    <2> QED
      BY <2>1 DEF Call
  <1>15. CASE HealthRoundEnds
    BY <1>15 DEF HealthRoundEnds
  <1>16. ASSUME NEW t \in Threads, CallReturns(t) PROVE LoopTypeOK'
    BY <1>16 DEF CallReturns
  <1>17. ASSUME NEW t \in Threads, Reconcile(t) PROVE LoopTypeOK'
    BY <1>17 DEF Reconcile, Leave
  <1>18. ASSUME NEW t \in Threads, Reconciled(t) PROVE LoopTypeOK'
    BY <1>18 DEF Reconciled
  <1>19. ASSUME NEW t \in Threads, RegistryStep(t) PROVE LoopTypeOK'
    BY <1>19 DEF RegistryStep
  <1>20. ASSUME NEW s \in Ids, WorkerEnds(s) PROVE LoopTypeOK'
    BY <1>20 DEF WorkerEnds
  <1>21. ASSUME NEW s \in Ids, Crash(s) PROVE LoopTypeOK'
    BY <1>21 DEF Crash
  <1>22. CASE Stopped \/ UNCHANGED serverVars
    BY <1>22 DEF Stopped, serverVars, vars, threadVars, frontendVars, loopVars
  <1> QED
    BY <1>1, <1>2, <1>3, <1>4, <1>5, <1>6, <1>7, <1>8, <1>9, <1>10, <1>11,
       <1>12, <1>13, <1>14, <1>15, <1>16, <1>17, <1>18, <1>19, <1>20, <1>21, <1>22
    DEF ServerNext, Input, ReplStep, HealthStep, ThreadStep

\* Every step keeps the mutex in step with the threads' loops.
LEMMA LockStep == ServerInv /\ [ServerNext]_serverVars => LockInv'
  <1> SUFFICES ASSUME ServerInv, [ServerNext]_serverVars PROVE LockInv'
    OBVIOUS
  <1>i. ServerTypeOK /\ TypeOK /\ LockInv
    BY DEF ServerInv, ServerTypeOK
  <1> USE <1>i, TwoThreads, MoveEffect, GotoEffect, FinishEffect
      DEF LockInv, Handling, Holding, DetachOps, frontendVars, loopVars, threadVars,
          Move, Lock, Unlock, Free, Open, Home, Idle
  <1>1. CASE ReplLaunch
    BY <1>1 DEF ReplLaunch, Reserve, IdLeft, NewId
  <1>2. CASE ReplBack
    BY <1>2 DEF ReplBack, vars
  <1>3. CASE ReplCommand
    BY <1>3 DEF ReplCommand, vars, TypeOK
  <1>4. CASE ReplDetachAll
    BY <1>4 DEF ReplDetachAll, vars
  <1>5. ASSUME NEW s \in Ids, ReplUse(s) PROVE LockInv'
    BY <1>5 DEF ReplUse, vars
  <1>6. ASSUME NEW s \in Ids, ReplDetach(s) PROVE LockInv'
    BY <1>6 DEF ReplDetach, Leave, BeginDetach, vars
  <1>7. CASE LaunchAccepted
    BY <1>7 DEF LaunchAccepted, vars
  <1>8. CASE LaunchRefused
    BY <1>8 DEF LaunchRefused, FailAttach
  <1>9. CASE ReplIssue
    BY <1>9 DEF ReplIssue, Call, BeginCall, vars
  <1>10. CASE ReplDetached
    BY <1>10 DEF ReplDetached, Leave, vars
  <1>11. CASE ReplDetachNext
    <2>1. PICK s \in Ids : BeginSnapshotDetach(Repl, s)
      BY <1>11 DEF ReplDetachNext, First, ServerTypeOK
    <2>2. op'[Repl] = "detach" /\ \A u \in Threads \ {Repl} : op'[u] = op[u]
      BY <2>1 DEF BeginSnapshotDetach
    <2> QED
      BY <1>11, <2>2 DEF ReplDetachNext, DetachingAll
  <1>12. CASE ReplDetachedAll
    BY <1>12 DEF ReplDetachedAll, vars
  <1>13. CASE HealthTick
    BY <1>13 DEF HealthTick, vars
  <1>14. CASE HealthProbe
    <2>1. PICK s \in Ids : Call(Health, s)
      BY <1>14 DEF HealthProbe, First, ServerTypeOK
    <2> QED
      BY <1>14, <2>1 DEF HealthProbe, Call, BeginCall, vars
  <1>15. CASE HealthRoundEnds
    BY <1>15 DEF HealthRoundEnds, vars
  <1>16. ASSUME NEW t \in Threads, CallReturns(t) PROVE LockInv'
    BY <1>16 DEF CallReturns, EndCall
  <1>17. ASSUME NEW t \in Threads, Reconcile(t) PROVE LockInv'
    BY <1>17 DEF Reconcile, Leave, BeginReap
  <1>18. ASSUME NEW t \in Threads, Reconciled(t) PROVE LockInv'
    BY <1>18 DEF Reconciled, vars
  <1>19. ASSUME NEW t \in Threads, RegistryStep(t) PROVE LockInv'
    <2>1. /\ op[t] \in DetachOps /\ op'[t] \in DetachOps \union {"idle"}
          /\ \A u \in Threads \ {t} : op'[u] = op[u]
      BY <1>19, DetachStepEffect DEF RegistryStep
    <2> QED
      BY <1>19, <2>1 DEF RegistryStep
  <1>20. ASSUME NEW s \in Ids, WorkerEnds(s) PROVE LockInv'
    BY <1>20 DEF WorkerEnds, CompleteAttach, FailAttach, vars
  <1>21. ASSUME NEW s \in Ids, Crash(s) PROVE LockInv'
    BY <1>21 DEF Crash, AgentDies
  <1>22. CASE Stopped \/ UNCHANGED serverVars
    BY <1>22 DEF Stopped, serverVars, vars, threadVars, frontendVars, loopVars
  <1> QED
    BY <1>1, <1>2, <1>3, <1>4, <1>5, <1>6, <1>7, <1>8, <1>9, <1>10, <1>11,
       <1>12, <1>13, <1>14, <1>15, <1>16, <1>17, <1>18, <1>19, <1>20, <1>21, <1>22
    DEF ServerNext, Input, ReplStep, HealthStep, ThreadStep

-----------------------------------------------------------------------------
(* What the active session and a closed frontend say of the registry *)

\* No agent serves a session that has not been published, or whose shutdown has
\* been recorded.
AgentInv ==
  \A s \in Ids :
    /\ state[s] \in {"Unreserved", "Attaching"} => agent[s] = "absent"
    /\ s \in shutdown => agent[s] # "serving"

\* A closed frontend stays empty: only a launch adds a session.
ClosedInv == closed => registry = {}

\* A thread that holds the mutex for one session is in operations on that
\* session, and the loop over all of them stays within its snapshot.
OnInv ==
  /\ at[Health] \in HealthPoints
  /\ \A t \in Threads :
       at[t] \in {"reaping", "detaching"} /\ op[t] # "idle" => on[t] = arc[t]
  /\ DetachingAll => /\ todo[Repl] \subseteq reports
                     /\ op[Repl] # "idle" => on[Repl] \in reports

\* The active session was in use, a reaper never has it, and it is detached only
\* under the eyes of a REPL that is about to leave it.
ActiveInv ==
  /\ active # 0 => Reserved(active)
  /\ \A t \in Threads : at[t] = "reaping" => active # arc[t]
  /\ active # 0 /\ state[active] = "Detached" =>
       \/ at[Repl] = "detaching" /\ active = arc[Repl]
       \/ DetachingAll /\ active \in reports

PlaceInv == AgentInv /\ ClosedInv /\ OnInv /\ ActiveInv

\* Every step of the registry keeps what is known of the agents.
LEMMA AgentStep == IInv /\ AgentInv /\ [Next]_vars => AgentInv'
  <1> SUFFICES ASSUME IInv, AgentInv, [Next]_vars PROVE AgentInv'
    OBVIOUS
  <1>i. TypeOK /\ StateInv
    BY DEF IInv
  <1> USE <1>i DEF AgentInv, TypeOK, sessionVars, gateVars, threadVars
  <1>1. CASE Reserve
    BY <1>1 DEF Reserve, IdLeft, NewId, IInv, IdInv
  <1>2. ASSUME NEW s \in Ids, CompleteAttach(s) PROVE AgentInv'
    BY <1>2 DEF CompleteAttach
  <1>3. ASSUME NEW s \in Ids, FailAttach(s) PROVE AgentInv'
    BY <1>3 DEF FailAttach, Launching
  <1>4. ASSUME NEW s \in Ids, AgentDies(s) PROVE AgentInv'
    BY <1>4 DEF AgentDies
  <1>5. ASSUME NEW t \in Threads, NEW s \in Ids,
               \/ BeginCall(t, s) \/ BeginHookCall(t, s) \/ ReleaseHook(t, s)
               \/ BeginReap(t, s) \/ BeginDetach(t, s) \/ BeginSnapshotDetach(t, s)
        PROVE  AgentInv'
    BY <1>5 DEF BeginCall, BeginHookCall, ReleaseHook, BeginReap, BeginDetach,
       BeginSnapshotDetach
  <1>6. ASSUME NEW t \in Threads,
               \/ EndCall(t) \/ EndHookCall(t) \/ AdoptHook(t) \/ Lookup(t)
               \/ DetachAgain(t) \/ Remove(t)
        PROVE  AgentInv'
    BY <1>6 DEF EndCall, EndHookCall, AdoptHook, Lookup, DetachAgain, Remove
  <1>7. ASSUME NEW t \in Threads, MarkFailure(t) PROVE AgentInv'
    BY <1>7 DEF MarkFailure
  <1>8. ASSUME NEW t \in Threads, DetachAttaching(t) PROVE AgentInv'
    BY <1>8 DEF DetachAttaching, Launching, Recorded
  <1>9. ASSUME NEW t \in Threads, BeginShutdown(t) PROVE AgentInv'
    BY <1>9 DEF BeginShutdown
  <1>10. ASSUME NEW t \in Threads, EndShutdown(t) PROVE AgentInv'
    <2>1. on[t] \in Ids
      BY <1>10 DEF EndShutdown
    <2>2. agent'[on[t]] # "serving" \/ UNCHANGED <<agent, shutdown>>
      BY <1>10, <2>1 DEF EndShutdown
    <2>3. /\ \A s \in Ids \ {on[t]} : /\ agent'[s] = agent[s] /\ state'[s] = state[s]
                                      /\ s \in shutdown' <=> s \in shutdown
          /\ state'[on[t]] \in {"Detached", "Failed"}
      BY <1>10, <2>1 DEF EndShutdown, Recorded
    <2> QED
      BY <2>1, <2>2, <2>3
  <1>11. CASE UNCHANGED vars
    BY <1>11 DEF vars
  <1> QED
    BY <1>1, <1>2, <1>3, <1>4, <1>5, <1>6, <1>7, <1>8, <1>9, <1>10, <1>11
    DEF Next, DetachStep

\* A step of a detach moves no other thread.
LEMMA DetachStepThreads ==
  ASSUME TypeOK, NEW t \in Threads, DetachStep(t)
  PROVE  \A u \in Threads \ {t} : op'[u] = op[u] /\ on'[u] = on[u]
  BY GotoEffect, FinishEffect DEF DetachStep, MarkFailure, Lookup, DetachAttaching,
     BeginShutdown, DetachAgain, EndShutdown, Remove, Recorded

\* The session of a thread's detach changes, and no other.
LEMMA DetachStepSession ==
  ASSUME TypeOK, NEW t \in Threads, DetachStep(t)
  PROVE  /\ \A s \in Ids \ {on[t]} : state'[s] = state[s]
         /\ op'[t] # "idle" => on'[t] = on[t]
         /\ registry' \subseteq registry
  <1> USE GotoEffect, FinishEffect DEF TypeOK, sessionVars
  <1>1. CASE MarkFailure(t)
    BY <1>1 DEF MarkFailure
  <1>2. CASE Lookup(t)
    BY <1>2 DEF Lookup
  <1>3. CASE DetachAttaching(t)
    BY <1>3 DEF DetachAttaching, Recorded
  <1>4. CASE BeginShutdown(t)
    BY <1>4 DEF BeginShutdown
  <1>5. CASE DetachAgain(t)
    BY <1>5 DEF DetachAgain
  <1>6. CASE EndShutdown(t)
    BY <1>6 DEF EndShutdown, Recorded
  <1>7. CASE Remove(t)
    BY <1>7 DEF Remove
  <1> QED
    BY <1>1, <1>2, <1>3, <1>4, <1>5, <1>6, <1>7 DEF DetachStep

\* A session that has been reserved stays so.
LEMMA StaysReserved ==
  ASSUME IInv, [Next]_vars, IInv', NEW s \in Ids, Reserved(s)
  PROVE  Reserved(s)'
  <1>1. nextId' = nextId \/ nextId' = nextId + 1
    BY DEF Next, vars, Reserve, NewId, CompleteAttach, FailAttach, AgentDies, BeginCall,
       BeginHookCall, ReleaseHook, BeginReap, BeginDetach, BeginSnapshotDetach, EndCall,
       EndHookCall, AdoptHook, DetachStep, MarkFailure, Lookup, DetachAttaching,
       BeginShutdown, DetachAgain, EndShutdown, Remove
  <1> QED
    BY <1>1 DEF IInv, IdInv, Reserved, TypeOK, Ids

\* Every step keeps a closed frontend empty.
LEMMA ClosedStep ==
  ASSUME ServerInv, ClosedInv, ServerNext
  PROVE  ClosedInv'
  <1>i. TypeOK /\ ServerTypeOK
    BY DEF ServerInv, ServerTypeOK
  <1> USE DEF ClosedInv, frontendVars
  <1>1. CASE ReplLaunch
    BY <1>1 DEF ReplLaunch, Open
  <1>2. CASE ReplDetachedAll
    BY <1>2 DEF ReplDetachedAll, Closes, vars
  <1>3. CASE LaunchRefused
    BY <1>3 DEF LaunchRefused, FailAttach
  <1>4. ASSUME NEW t \in Threads, RegistryStep(t) PROVE ClosedInv'
    BY <1>4, <1>i, DetachStepSession DEF RegistryStep
  <1>5. ASSUME NEW s \in Ids, WorkerEnds(s) PROVE ClosedInv'
    BY <1>5 DEF WorkerEnds, CompleteAttach, FailAttach, vars
  <1>6. CASE ReplIssue
    BY <1>6 DEF ReplIssue, Call, BeginCall, vars
  <1>7. CASE HealthProbe
    BY <1>7 DEF HealthProbe, Call, BeginCall, vars
  <1>8. ASSUME NEW s \in Ids, ReplDetach(s) PROVE ClosedInv'
    BY <1>8 DEF ReplDetach, BeginDetach, vars
  <1>9. CASE ReplDetachNext
    BY <1>9 DEF ReplDetachNext, BeginSnapshotDetach
  <1>10. ASSUME NEW t \in Threads, CallReturns(t) \/ Reconcile(t) \/ Reconciled(t)
         PROVE  ClosedInv'
    BY <1>10 DEF CallReturns, EndCall, Reconcile, BeginReap, Reconciled, vars
  <1>11. \/ ReplBack \/ ReplCommand \/ ReplDetachAll \/ LaunchAccepted \/ ReplDetached
         \/ HealthTick \/ HealthRoundEnds \/ Stopped
         \/ \E s \in Ids : ReplUse(s) \/ Crash(s)
         => ClosedInv'
    BY DEF ReplBack, ReplCommand, ReplDetachAll, LaunchAccepted, ReplDetached, HealthTick,
       HealthRoundEnds, Stopped, ReplUse, Crash, AgentDies, vars, serverVars
  <1> QED
    BY <1>1, <1>2, <1>3, <1>4, <1>5, <1>6, <1>7, <1>8, <1>9, <1>10, <1>11
    DEF ServerNext, Input, ReplStep, HealthStep, ThreadStep

\* Every step keeps the threads on the sessions their loops say.
LEMMA OnStep ==
  ASSUME ServerInv, OnInv, ServerNext
  PROVE  OnInv'
  <1>i. ServerTypeOK /\ TypeOK /\ LockInv
    BY DEF ServerInv, ServerTypeOK
  <1> USE <1>i, TwoThreads, MoveEffect
      DEF OnInv, LockInv, Holding, Handling, DetachingAll, HealthPoints, ReplPoints,
          frontendVars, loopVars, threadVars, Move, Home, Idle
  <1>1. CASE ReplLaunch
    BY <1>1 DEF ReplLaunch, Reserve, ServerTypeOK
  <1>2. CASE ReplBack \/ ReplCommand \/ \E s \in Ids : ReplUse(s)
    BY <1>2 DEF ReplBack, ReplCommand, ReplUse, vars
  <1>3. CASE ReplDetachAll
    BY <1>3 DEF ReplDetachAll, vars, ServerTypeOK
  <1>4. ASSUME NEW s \in Ids, ReplDetach(s) PROVE OnInv'
    BY <1>4, GotoEffect DEF ReplDetach, BeginDetach, vars
  <1>5. CASE LaunchAccepted \/ LaunchRefused
    BY <1>5 DEF LaunchAccepted, LaunchRefused, FailAttach, vars
  <1>6. CASE ReplIssue
    BY <1>6, GotoEffect DEF ReplIssue, Call, BeginCall, vars
  <1>7. CASE ReplDetached
    BY <1>7 DEF ReplDetached, vars
  <1>8. CASE ReplDetachNext
    <2>1. PICK s \in First(Repl) : /\ BeginSnapshotDetach(Repl, s)
                                   /\ todo' = [todo EXCEPT ![Repl] = Rest(Repl, s)]
      BY <1>8 DEF ReplDetachNext
    <2>2. op'[Repl] = "detach" /\ on'[Repl] = s
          /\ \A u \in Threads \ {Repl} : op'[u] = op[u] /\ on'[u] = on[u]
      BY <2>1, GotoEffect DEF BeginSnapshotDetach
    <2>3. s \in todo[Repl] /\ todo'[Repl] \subseteq todo[Repl]
      BY <2>1 DEF First, Rest, ServerTypeOK
    <2> QED
      BY <1>8, <2>2, <2>3 DEF ReplDetachNext
  <1>9. CASE ReplDetachedAll
    BY <1>9 DEF ReplDetachedAll, vars
  <1>10. CASE HealthTick \/ HealthRoundEnds
    BY <1>10 DEF HealthTick, HealthRoundEnds, vars, ServerTypeOK
  <1>11. CASE HealthProbe
    <2>1. PICK s \in First(Health) : /\ Call(Health, s)
                                     /\ todo' = [todo EXCEPT ![Health] = Rest(Health, s)]
      BY <1>11 DEF HealthProbe
    <2>2. todo'[Repl] = todo[Repl]
      BY <2>1, ServerThreads DEF ServerTypeOK
    <2>3. CASE BeginCall(Health, s)
      <3>1. \A u \in Threads \ {Health} : op'[u] = op[u] /\ on'[u] = on[u]
        BY <2>3, GotoEffect DEF BeginCall
      <3>2. at'[Health] = "calling" \/ at'[Health] = "reconcile"
        BY <2>1 DEF Call
      <3> QED
        BY <2>1, <2>2, <3>1, <3>2, ServerThreads DEF Call
    <2>4. CASE UNCHANGED vars
      <3>1. at'[Health] = "calling" \/ at'[Health] = "reconcile"
        BY <2>1 DEF Call
      <3> QED
        BY <2>1, <2>2, <2>4, <3>1, ServerThreads DEF Call, vars
    <2> QED
      BY <2>1, <2>3, <2>4 DEF Call
  <1>12. ASSUME NEW t \in Threads, CallReturns(t) PROVE OnInv'
    <2>1. \A u \in Threads \ {t} : op'[u] = op[u] /\ on'[u] = on[u] /\ at'[u] = at[u]
                                    /\ arc'[u] = arc[u]
      BY <1>12, FinishEffect DEF CallReturns, EndCall
    <2>2. at'[t] \in {"prompt", "probing", "reconcile"}
          /\ (t = Health => at'[t] # "prompt")
      BY <1>12, ServerThreads DEF CallReturns
    <2> QED
      BY <1>12, <2>1, <2>2, ServerThreads DEF CallReturns
  <1>13. ASSUME NEW t \in Threads, Reconcile(t) PROVE OnInv'
    <2>1. op'[t] = "mark" /\ on'[t] = arc[t]
          /\ \A u \in Threads \ {t} : op'[u] = op[u] /\ on'[u] = on[u]
      BY <1>13, GotoEffect DEF Reconcile, BeginReap
    <2> QED
      BY <1>13, <2>1, ServerThreads DEF Reconcile
  <1>14. ASSUME NEW t \in Threads, Reconciled(t) PROVE OnInv'
    BY <1>14, ServerThreads DEF Reconciled, vars
  <1>15. ASSUME NEW t \in Threads, RegistryStep(t) PROVE OnInv'
    <2>1. op[t] # "hookmark" /\ op[t] # "idle"
      BY <1>15 DEF RegistryStep, DetachStep, MarkFailure, Lookup, DetachAttaching,
         BeginShutdown, DetachAgain, EndShutdown, Remove, DetachOps
    <2>2. /\ op'[t] # "idle" => on'[t] = on[t]
          /\ \A u \in Threads \ {t} : op'[u] = op[u] /\ on'[u] = on[u]
      BY <1>15, <2>1, DetachStepSession, DetachStepThreads DEF RegistryStep
    <2> QED
      BY <1>15, <2>1, <2>2 DEF RegistryStep
  <1>16. ASSUME NEW s \in Ids, WorkerEnds(s) \/ Crash(s) PROVE OnInv'
    BY <1>16 DEF WorkerEnds, CompleteAttach, FailAttach, Crash, AgentDies, vars
  <1>17. CASE Stopped
    BY <1>17 DEF Stopped, serverVars, vars
  <1> QED
    BY <1>1, <1>2, <1>3, <1>4, <1>5, <1>6, <1>7, <1>8, <1>9, <1>10, <1>11, <1>12, <1>13,
       <1>14, <1>15, <1>16, <1>17
    DEF ServerNext, Input, ReplStep, HealthStep, ThreadStep

\* Every step keeps the active session alive, or in the hands of the REPL.
LEMMA ActiveStep ==
  ASSUME ServerInv, IInv, IInv', OnInv, ActiveInv, ServerNext
  PROVE  ActiveInv'
  <1>i. ServerTypeOK /\ TypeOK /\ LockInv
    BY DEF ServerInv, ServerTypeOK
  <1>r. \A s \in Ids : Reserved(s) => Reserved(s)'
    BY ServerStep, StaysReserved
  <1>z. 0 \notin Ids
    BY DEF Ids
  <1>g. \A s \in Ids : s \notin registry => state[s] \in {"Unreserved", "Detached"}
    BY DEF IInv, StateInv
  <1>c. ASSUME NEW t \in Threads, NEW s \in Ids, Call(t, s), at[t] \in {"issue", "probing"}
        PROVE  ActiveInv'
    <2>1. state' = state /\ active' = active /\ reports' = reports
          /\ at'[t] \in {"calling", "reconcile"}
          /\ \A u \in Threads \ {t} : at'[u] = at[u] /\ arc'[u] = arc[u]
      BY <1>c, <1>i, MoveEffect DEF Call, BeginCall, Move, frontendVars, vars, sessionVars
    <2> QED
      BY <2>1, <1>c, TwoThreads DEF ActiveInv, Reserved, DetachingAll
  <1> USE <1>i, <1>z, TwoThreads, MoveEffect
      DEF ActiveInv, OnInv, LockInv, Holding, Handling, DetachingAll, Reserved,
          frontendVars, loopVars, sessionVars, Move, Home, Idle, Open, Free, Lock
  <1>1. CASE ReplLaunch
    <2>1. active = 0 /\ active' = 0
      BY <1>1 DEF ReplLaunch
    <2> QED
      BY <1>1, <2>1 DEF ReplLaunch, ServerTypeOK
  <1>2. CASE ReplBack \/ ReplCommand
    BY <1>2 DEF ReplBack, ReplCommand, vars
  <1>3. ASSUME NEW s \in Ids, ReplUse(s) PROVE ActiveInv'
    BY <1>3 DEF ReplUse, vars
  <1>4. CASE ReplDetachAll
    BY <1>4 DEF ReplDetachAll, vars
  <1>5. ASSUME NEW s \in Ids, ReplDetach(s) PROVE ActiveInv'
    BY <1>5 DEF ReplDetach, BeginDetach, Leave, vars
  <1>6. CASE LaunchAccepted
    BY <1>6 DEF LaunchAccepted, vars
  <1>7. CASE LaunchRefused
    <2>1. \A s \in Ids : state'[s] = state[s] \/ state'[s] = "Failed"
      BY <1>7 DEF LaunchRefused, FailAttach, TypeOK
    <2> QED
      BY <1>7, <2>1 DEF LaunchRefused, ServerTypeOK
  <1>8. CASE ReplIssue
    BY <1>8, <1>c DEF ReplIssue
  <1>9. CASE ReplDetached
    BY <1>9 DEF ReplDetached, Leave, Clean, vars
  <1>10. CASE ReplDetachNext
    BY <1>10 DEF ReplDetachNext, BeginSnapshotDetach
  <1>11. CASE ReplDetachedAll
    BY <1>11, <1>g DEF ReplDetachedAll, Clean, vars
  <1>12. CASE HealthTick \/ HealthRoundEnds
    BY <1>12 DEF HealthTick, HealthRoundEnds, vars
  <1>13. CASE HealthProbe
    <2>1. PICK s \in Ids : Call(Health, s)
      BY <1>13 DEF HealthProbe, First, ServerTypeOK
    <2> QED
      BY <1>13, <2>1, <1>c DEF HealthProbe
  <1>14. ASSUME NEW t \in Threads, CallReturns(t) PROVE ActiveInv'
    BY <1>14 DEF CallReturns, EndCall
  <1>15. ASSUME NEW t \in Threads, Reconcile(t) PROVE ActiveInv'
    BY <1>15 DEF Reconcile, BeginReap, Leave
  <1>16. ASSUME NEW t \in Threads, Reconciled(t) PROVE ActiveInv'
    BY <1>16 DEF Reconciled, vars
  <1>17. ASSUME NEW t \in Threads, RegistryStep(t) PROVE ActiveInv'
    <2>1. op[t] # "idle" /\ at[t] \in Holding /\ frontend = t
      BY <1>17 DEF RegistryStep, DetachStep, MarkFailure, Lookup, DetachAttaching,
         BeginShutdown, DetachAgain, EndShutdown, Remove
    <2>2. \A s \in Ids \ {on[t]} : state'[s] = state[s]
      BY <1>17, DetachStepSession DEF RegistryStep
    <2>3. CASE at[t] = "reaping"
      <3>1. active # on[t]
        BY <2>1, <2>3
      <3> QED
        BY <1>17, <2>2, <3>1, <1>r DEF RegistryStep, ServerTypeOK
    <2>4. CASE at[t] # "reaping"
      <3>1. t = Repl
        BY <2>1, <2>4, ServerThreads DEF HealthPoints
      <3>2. CASE active = on[t]
        BY <1>17, <2>1, <2>4, <3>1, <3>2, <1>r DEF RegistryStep, ServerTypeOK
      <3>3. CASE active # on[t]
        BY <1>17, <2>2, <3>3, <1>r DEF RegistryStep, ServerTypeOK
      <3> QED
        BY <3>2, <3>3
    <2> QED
      BY <2>3, <2>4
  <1>18. ASSUME NEW s \in Ids, WorkerEnds(s) PROVE ActiveInv'
    <2>1. \A r \in Ids : state'[r] = state[r] \/ state'[r] \in {"Failed", "Attached"}
      BY <1>18 DEF WorkerEnds, CompleteAttach, FailAttach, TypeOK, vars
    <2> QED
      BY <1>18, <2>1 DEF WorkerEnds, ServerTypeOK
  <1>19. ASSUME NEW s \in Ids, Crash(s) PROVE ActiveInv'
    BY <1>19 DEF Crash, AgentDies
  <1>20. CASE Stopped
    BY <1>20 DEF Stopped, serverVars, vars
  <1> QED
    BY <1>1, <1>2, <1>3, <1>4, <1>5, <1>6, <1>7, <1>8, <1>9, <1>10, <1>11, <1>12, <1>13,
       <1>14, <1>15, <1>16, <1>17, <1>18, <1>19, <1>20
    DEF ServerNext, Input, ReplStep, HealthStep, ThreadStep

-----------------------------------------------------------------------------

\* The invariant of the server, and the registry's steps under it.
THEOREM ServerInvariant == ServerSpec => []ServerInv /\ [][Next]_vars
  <1>1. ServerInit => ServerInv
    BY InitServerInv
  <1>2. ServerInv /\ [ServerNext]_serverVars => ServerInv'
    <2> SUFFICES ASSUME ServerInv, [ServerNext]_serverVars PROVE ServerInv'
      OBVIOUS
    <2>1. TypeOK'
      BY ServerStep, TypeStep DEF ServerInv, ServerTypeOK
    <2>2. LoopTypeOK'
      BY LoopTypeStep DEF ServerInv
    <2>3. LockInv'
      BY LockStep
    <2> QED
      BY <2>1, <2>2, <2>3 DEF ServerInv, ServerTypeOK, LoopTypeOK
  <1>3. ServerInv /\ [ServerNext]_serverVars => [Next]_vars
    BY ServerStep
  <1> QED
    BY <1>1, <1>2, <1>3, PTL DEF ServerSpec

\* The server implements the registry: whatever the REPL, the monitor and the
\* launch workers do, they use the registry as SessionRegistry allows.
THEOREM ServerImplementsRegistry == ServerSpec => Spec
  <1>1. ServerInit => Init
    BY InitServerInv
  <1> QED
    BY <1>1, ServerInvariant, PTL DEF ServerSpec, Spec

\* Type correctness of the server, its registry included.
THEOREM ServerTypeCorrect == ServerSpec => []ServerTypeOK
  <1>1. ServerInv => ServerTypeOK
    BY DEF ServerInv
  <1> QED
    BY <1>1, ServerInvariant, PTL

\* Whoever is in a reap or a detach owns the frontend's mutex, so detaches of the
\* server never overlap (reconcile_health_failure, detach, detach_all and exit).
THEOREM ServerDetachesSerialized == ServerSpec => []DetachesSerialized
  <1>1. ServerInv => DetachesSerialized
    BY DEF ServerInv, LockInv, DetachesSerialized, Holding, DetachOps
  <1> QED
    BY <1>1, ServerInvariant, PTL

\* What the registry promises any threads holds of the server's: calls and
\* shutdowns exclude each other, a failed shutdown can be retried, and what has
\* left the registry owns nothing.
THEOREM ServerKeepsRegistryPromises ==
  ServerSpec => [](DetachWaitsForCalls /\ RetryOwner /\ RemovedOwnNothing)
  BY ServerImplementsRegistry, NoCallDuringShutdown, FailedKeepsBackend,
     NothingDropped, PTL

\* The invariant of the places: what the loops, the active session and a closed
\* frontend say of the registry.
THEOREM PlacesHold == ServerSpec => [](ServerInv /\ IInv /\ PlaceInv)
  <1>1. ServerInit => PlaceInv
    <2> SUFFICES ASSUME ServerInit PROVE PlaceInv
      OBVIOUS
    <2>1. AgentInv /\ ClosedInv
      BY DEF ServerInit, Init, AgentInv, ClosedInv
    <2>2. at[Repl] = "prompt" /\ \A t \in Threads : at[t] \in {"prompt", "waiting"}
      BY TwoThreads DEF ServerInit
    <2>3. at[Health] = "waiting" /\ active = 0
      BY TwoThreads, ServerThreads DEF ServerInit
    <2>4. OnInv /\ ActiveInv
      BY <2>2, <2>3 DEF OnInv, ActiveInv, HealthPoints, DetachingAll
    <2> QED
      BY <2>1, <2>4 DEF PlaceInv
  <1>2. ASSUME ServerInv, ServerInv', IInv, IInv', PlaceInv, [ServerNext]_serverVars
        PROVE  PlaceInv'
    <2>1. AgentInv'
      BY <1>2, ServerStep, AgentStep DEF PlaceInv
    <2>2. CASE ServerNext
      BY <1>2, <2>1, <2>2, ClosedStep, OnStep, ActiveStep DEF PlaceInv
    <2>3. CASE UNCHANGED serverVars
      BY <1>2, <2>1, <2>3
      DEF PlaceInv, ClosedInv, OnInv, ActiveInv, Reserved, DetachingAll, serverVars, vars,
          frontendVars, loopVars
    <2> QED
      BY <1>2, <2>2, <2>3
  <1>3. Spec => []IInv
    BY InductiveInvariant
  <1> QED
    BY <1>1, <1>2, <1>3, ServerInvariant, ServerImplementsRegistry, PTL DEF ServerSpec

\* Whenever the mutex is free, the session the REPL is in is registered and not
\* detached (active_session and the reconcile functions of the frontend).
THEOREM ActiveStaysRegistered == ServerSpec => []ActiveIsRegistered
  <1>1. ASSUME ServerInv, IInv, PlaceInv PROVE ActiveIsRegistered
    <2> SUFFICES ASSUME Free, active # 0
                 PROVE  active \in registry /\ state[active] # "Detached"
      BY DEF ActiveIsRegistered
    <2>1. active \in Ids /\ Reserved(active)
      BY <1>1 DEF ServerInv, ServerTypeOK, PlaceInv, ActiveInv
    <2>2. at[Repl] \notin Holding
      BY <1>1, TwoThreads DEF ServerInv, LockInv, Free
    <2>3. state[active] # "Detached"
      BY <1>1, <2>2 DEF PlaceInv, ActiveInv, Holding, DetachingAll
    <2> QED
      BY <1>1, <2>1, <2>3 DEF IInv, StateInv, Reserved
  <1> QED
    BY <1>1, PlacesHold, PTL

\* A server that exit has closed has given everything back: no session, backend
\* or serving agent is left, and no worker can publish one (exit, ensure_open).
THEOREM ClosedStaysEmpty == ServerSpec => []ClosedIsEmpty
  <1>1. ASSUME IInv, PlaceInv PROVE ClosedIsEmpty
    BY <1>1 DEF IInv, StateInv, TypeOK, PlaceInv, AgentInv, ClosedInv, ClosedIsEmpty, Launching
  <1> QED
    BY <1>1, PlacesHold, PTL

-----------------------------------------------------------------------------
(* No deadlock *)

\* The thread waits for a lock that is taken: the frontend's mutex, or the gate of
\* the session it wants to call, to probe or to give up.
Blocked(t) == \/ at[t] = "reconcile" /\ ~Free
              \/ at[t] = "issue" /\ ~CanRead(arc[t])
              \/ at[t] = "probing" /\ \E s \in First(t) : ~CanRead(s)
              \/ op[t] \in {"mark", "detach"} /\ ~CanWrite(on[t])

\* The mutex is held over detaches that wait for gates, and a call that holds a gate
\* may fail and need the mutex; it gives the gate back first.
OneRuns == \E u \in Threads : (op[u] # "idle" \/ frontend = u) /\ ~Blocked(u)
NoDeadlock == (\E t \in Threads : Blocked(t)) => OneRuns

\* Who has a gate waits for nothing.
LEMMA GateHoldersRun ==
  ASSUME ServerInv, IInv, NEW s \in Ids, ~CanWrite(s)
  PROVE  OneRuns
  <1>1. TypeOK /\ GateInv /\ LockInv
    BY DEF IInv, ServerInv
  <1>2. PICK u \in Threads : op[u] \in {"call", "shutdown"} /\ on[u] = s
    <2>1. CASE readers[s] # {}
      <3>1. PICK u \in readers[s] : u \in Threads
        BY <1>1, <2>1 DEF TypeOK
      <3> QED
        BY <1>1, <3>1 DEF GateInv
    <2>2. CASE readers[s] = {}
      <3>1. writer[s] \in Threads
        BY <1>1, <2>2 DEF TypeOK, CanWrite, CanRead
      <3> QED
        BY <1>1, <3>1 DEF GateInv
    <2> QED
      BY <2>1, <2>2
  <1>3. at[u] \in Holding \union {"calling"}
    BY <1>1, <1>2 DEF LockInv
  <1> QED
    BY <1>2, <1>3 DEF Blocked, Holding, OneRuns

\* The server never deadlocks: whenever a thread waits for a lock, one that is in the
\* middle of a call, or has the mutex, does not (server_frontend.rs, where the mutex
\* is taken before the gates, and session.rs).
THEOREM ServerNeverDeadlocks == ServerSpec => []NoDeadlock
  <1>1. ASSUME ServerInv, IInv PROVE NoDeadlock
    <2> SUFFICES ASSUME NEW t \in Threads, Blocked(t) PROVE OneRuns
      BY DEF NoDeadlock
    <2>1. TypeOK /\ ServerTypeOK /\ LockInv
      BY <1>1 DEF IInv, ServerInv
    <2>2. ASSUME NEW u \in Threads, at[u] \in Holding,
                 op[u] \notin {"mark", "detach"} \/ CanWrite(on[u]),
                 op[u] # "idle" \/ frontend = u
          PROVE  OneRuns
      BY <2>2 DEF OneRuns, Blocked, Holding
    <2>3. ASSUME NEW u \in Threads, op[u] \in {"mark", "detach"} PROVE OneRuns
      <3>1. on[u] \in Ids /\ at[u] \in Holding
        BY <2>1, <2>3 DEF TypeOK, LockInv
      <3> QED
        BY <1>1, <2>2, <2>3, <3>1, GateHoldersRun
    <2>4. CASE at[t] = "reconcile" /\ ~Free
      <3>1. PICK u \in Threads : frontend = u /\ at[u] \in Holding
        BY <2>1, <2>4 DEF ServerTypeOK, LockInv, Free
      <3> QED
        BY <2>2, <2>3, <3>1
    <2>5. CASE at[t] = "issue" /\ ~CanRead(arc[t])
      <3>1. arc[t] \in Ids /\ ~CanWrite(arc[t])
        BY <2>1, <2>5 DEF LockInv, Handling, CanWrite
      <3> QED
        BY <1>1, <3>1, GateHoldersRun
    <2>6. CASE at[t] = "probing" /\ \E s \in First(t) : ~CanRead(s)
      <3>1. PICK s \in Ids : ~CanWrite(s)
        BY <2>1, <2>6 DEF ServerTypeOK, First, CanWrite
      <3> QED
        BY <1>1, <3>1, GateHoldersRun
    <2> QED
      BY <2>3, <2>4, <2>5, <2>6 DEF Blocked
  <1> QED
    BY <1>1, PlacesHold, PTL

=============================================================================
