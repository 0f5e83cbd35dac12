---------------------- MODULE SessionRegistry_proofs ----------------------
(***************************************************************************)
(* Theorems of SessionRegistry, for any set of threads, any capacity and   *)
(* any number of reservations.                                             *)
(***************************************************************************)
EXTENDS SessionRegistry, TLAPS

\* The command gate is what the threads' operations say it is: its readers are
\* the threads in a call, its writer is the thread in a backend shutdown, and it
\* never has both.
GateInv ==
  /\ \A s \in Ids, t \in Threads : t \in readers[s] <=> op[t] = "call" /\ on[t] = s
  /\ \A s \in Ids, t \in Threads : writer[s] = t <=> op[t] = "shutdown" /\ on[t] = s
  /\ \A s \in Ids : writer[s] # NoThread => readers[s] = {}

\* What each lifecycle state says of the rest of the session.
StateInv ==
  \A s \in Ids :
    /\ state[s] = "Detaching" <=> writer[s] # NoThread
    /\ state[s] \in {"Unreserved", "Attaching"} => s \notin backend \union shutdown
    /\ state[s] = "Attached" => s \in backend /\ s \notin shutdown
    /\ state[s] = "Failed" => (s \in backend <=> s \notin shutdown)
    /\ state[s] = "Detaching" => s \notin backend
    /\ state[s] = "Detached" => s \in shutdown /\ s \notin backend \union lease
    /\ state[s] = "Unreserved" => s \notin registry
    /\ s \notin registry => state[s] \in {"Unreserved", "Detached"}

\* What a thread's operation says of the session it is on.
ThreadInv ==
  \A t \in Threads :
    /\ op[t] # "idle" => state[on[t]] # "Unreserved"
    /\ op[t] = "call" => state[on[t]] = "Attached"
    /\ op[t] = "remove" => state[on[t]] = "Detached"

\* Ids are handed out in order.
IdInv == \A s \in Ids : state[s] = "Unreserved" <=> s >= nextId

IInv == TypeOK /\ GateInv /\ StateInv /\ ThreadInv /\ IdInv

-----------------------------------------------------------------------------

LEMMA InitIInv == Init => IInv
  <1> SUFFICES ASSUME Init PROVE IInv
    OBVIOUS
  <1>1. TypeOK
    BY BoundAssumption, ThreadsAssumption DEF Init, TypeOK, Ids, States, Agents,
       Ops
  <1>2. GateInv
    BY ThreadsAssumption DEF Init, GateInv
  <1>3. StateInv /\ ThreadInv /\ IdInv
    BY BoundAssumption DEF Init, StateInv, ThreadInv, IdInv, Ids
  <1> QED
    BY <1>1, <1>2, <1>3 DEF IInv

\* The threads' part of the type invariant.
ThreadTypeOK == /\ op \in [Threads -> Ops]
                /\ on \in [Threads -> Ids \union {0}]
                /\ \A t \in Threads : op[t] # "idle" => on[t] \in Ids

\* A thread that moves on to another operation has a session for it.
LEMMA GotoType ==
  ASSUME TypeOK, NEW t \in Threads, NEW o \in Ops \ {"idle"}, NEW s \in Ids,
         Goto(t, o, s)
  PROVE  ThreadTypeOK'
  BY DEF TypeOK, ThreadTypeOK, Goto

LEMMA FinishType ==
  ASSUME TypeOK, NEW t \in Threads, Finish(t)
  PROVE  ThreadTypeOK'
  BY DEF TypeOK, ThreadTypeOK, Finish, Goto, Ops

\* Every step keeps the types.
LEMMA TypeStep == TypeOK /\ [Next]_vars => TypeOK'
  <1> SUFFICES ASSUME TypeOK, [Next]_vars PROVE TypeOK'
    OBVIOUS
  <1>0. ASSUME UNCHANGED threadVars PROVE ThreadTypeOK'
    BY <1>0 DEF threadVars, ThreadTypeOK, TypeOK
  <1>r. /\ {"call", "hookcall", "hookadopt", "hookmark", "mark", "lookup", "detach",
           "shutdown", "remove"} \subseteq Ops \ {"idle"}
        /\ \A t \in Threads : op[t] # "idle" => on[t] \in Ids
    BY DEF Ops, TypeOK
  <1> DEFINE RestOK == /\ nextId \in 1 .. MaxId + 1
                       /\ registry \in SUBSET Ids
                       /\ state \in [Ids -> States]
                       /\ backend \in SUBSET Ids
                       /\ shutdown \in SUBSET Ids
                       /\ lease \in SUBSET Ids
                       /\ agent \in [Ids -> Agents]
                       /\ readers \in [Ids -> SUBSET Threads]
                       /\ writer \in [Ids -> Threads \union {NoThread}]
  <1>t. RestOK /\ ThreadTypeOK <=> TypeOK
    BY DEF TypeOK, ThreadTypeOK
  <1>p. RestOK' /\ ThreadTypeOK' => TypeOK'
    BY DEF TypeOK, ThreadTypeOK
  <1> USE DEF States, Agents, sessionVars, gateVars, Cleanup
  <1>1. CASE Reserve
    <2>1. ThreadTypeOK'
      BY <1>1, <1>0 DEF Reserve
    <2>2. nextId' \in 1 .. MaxId + 1
      BY <1>1, BoundAssumption DEF Reserve, IdLeft, NewId, Ids
    <2>3. RestOK'
      BY <1>1, <2>2, <1>t DEF Reserve, IdLeft, NewId
    <2> QED
      BY <2>1, <2>3, <1>p
  <1>2. ASSUME NEW s \in Ids, CompleteAttach(s) PROVE TypeOK'
    <2>1. ThreadTypeOK'
      BY <1>2, <1>0 DEF CompleteAttach
    <2>2. RestOK'
      BY <1>2, <1>t DEF CompleteAttach
    <2> QED
      BY <2>1, <2>2, <1>p
  <1>3. ASSUME NEW s \in Ids, FailAttach(s) PROVE TypeOK'
    <2>1. ThreadTypeOK'
      BY <1>3, <1>0 DEF FailAttach
    <2>2. RestOK'
      BY <1>3, <1>t DEF FailAttach
    <2> QED
      BY <2>1, <2>2, <1>p
  <1>4. ASSUME NEW s \in Ids, AgentDies(s) PROVE TypeOK'
    <2>1. ThreadTypeOK'
      BY <1>4, <1>0 DEF AgentDies
    <2>2. RestOK'
      BY <1>4, <1>t DEF AgentDies
    <2> QED
      BY <2>1, <2>2, <1>p
  <1>5. ASSUME NEW t \in Threads, NEW s \in Ids, BeginCall(t, s) PROVE TypeOK'
    <2>1. ThreadTypeOK'
      BY <1>5, <1>r, GotoType DEF BeginCall
    <2>2. RestOK'
      BY <1>5, <1>r, <1>t DEF BeginCall
    <2> QED
      BY <2>1, <2>2, <1>p
  <1>6. ASSUME NEW t \in Threads, NEW s \in Ids, BeginHookCall(t, s) PROVE TypeOK'
    <2>1. ThreadTypeOK'
      BY <1>6, <1>r, GotoType DEF BeginHookCall
    <2>2. RestOK'
      BY <1>6, <1>r, <1>t DEF BeginHookCall
    <2> QED
      BY <2>1, <2>2, <1>p
  <1>7. ASSUME NEW t \in Threads, NEW s \in Ids, ReleaseHook(t, s) PROVE TypeOK'
    <2>1. ThreadTypeOK'
      BY <1>7, <1>0 DEF ReleaseHook
    <2>2. RestOK'
      BY <1>7, <1>t DEF ReleaseHook
    <2> QED
      BY <2>1, <2>2, <1>p
  <1>8. ASSUME NEW t \in Threads, NEW s \in Ids, BeginReap(t, s) PROVE TypeOK'
    <2>1. ThreadTypeOK'
      BY <1>8, <1>r, GotoType DEF BeginReap
    <2>2. RestOK'
      BY <1>8, <1>r, <1>t DEF BeginReap
    <2> QED
      BY <2>1, <2>2, <1>p
  <1>9. ASSUME NEW t \in Threads, NEW s \in Ids, BeginDetach(t, s) PROVE TypeOK'
    <2>1. ThreadTypeOK'
      BY <1>9, <1>r, GotoType DEF BeginDetach
    <2>2. RestOK'
      BY <1>9, <1>r, <1>t DEF BeginDetach
    <2> QED
      BY <2>1, <2>2, <1>p
  <1>10. ASSUME NEW t \in Threads, NEW s \in Ids, BeginSnapshotDetach(t, s) PROVE TypeOK'
    <2>1. ThreadTypeOK'
      BY <1>10, <1>r, GotoType DEF BeginSnapshotDetach
    <2>2. RestOK'
      BY <1>10, <1>r, <1>t DEF BeginSnapshotDetach
    <2> QED
      BY <2>1, <2>2, <1>p
  <1>11. ASSUME NEW t \in Threads, EndCall(t) PROVE TypeOK'
    <2>1. ThreadTypeOK'
      BY <1>11, <1>r, FinishType DEF EndCall
    <2>2. RestOK'
      BY <1>11, <1>r, <1>t DEF EndCall
    <2> QED
      BY <2>1, <2>2, <1>p
  <1>12. ASSUME NEW t \in Threads, EndHookCall(t) PROVE TypeOK'
    <2>1. ThreadTypeOK'
      BY <1>12, <1>r, GotoType, FinishType DEF EndHookCall
    <2>2. RestOK'
      BY <1>12, <1>r, <1>t DEF EndHookCall
    <2> QED
      BY <2>1, <2>2, <1>p
  <1>13. ASSUME NEW t \in Threads, AdoptHook(t) PROVE TypeOK'
    <2>1. ThreadTypeOK'
      BY <1>13, <1>r, FinishType DEF AdoptHook
    <2>2. RestOK'
      BY <1>13, <1>r, <1>t DEF AdoptHook, AcceptsLease
    <2> QED
      BY <2>1, <2>2, <1>p
  <1>14. ASSUME NEW t \in Threads, MarkFailure(t) PROVE TypeOK'
    <2>1. ThreadTypeOK'
      BY <1>14, <1>r, GotoType, FinishType DEF MarkFailure
    <2>2. RestOK'
      BY <1>14, <1>r, <1>t DEF MarkFailure
    <2> QED
      BY <2>1, <2>2, <1>p
  <1>15. ASSUME NEW t \in Threads, Lookup(t) PROVE TypeOK'
    <2>1. ThreadTypeOK'
      BY <1>15, <1>r, GotoType, FinishType DEF Lookup
    <2>2. RestOK'
      BY <1>15, <1>r, <1>t DEF Lookup
    <2> QED
      BY <2>1, <2>2, <1>p
  <1>16. ASSUME NEW t \in Threads, DetachAgain(t) PROVE TypeOK'
    <2>1. ThreadTypeOK'
      BY <1>16, <1>r, GotoType DEF DetachAgain
    <2>2. RestOK'
      BY <1>16, <1>r, <1>t DEF DetachAgain
    <2> QED
      BY <2>1, <2>2, <1>p
  <1>17. ASSUME NEW t \in Threads, Remove(t) PROVE TypeOK'
    <2>1. ThreadTypeOK'
      BY <1>17, <1>r, FinishType DEF Remove
    <2>2. RestOK'
      BY <1>17, <1>r, <1>t DEF Remove
    <2> QED
      BY <2>1, <2>2, <1>p
  <1>18. ASSUME NEW t \in Threads, DetachAttaching(t) PROVE TypeOK'
    <2>1. ThreadTypeOK'
      BY <1>18, <1>r, GotoType, FinishType DEF DetachAttaching, Recorded
    <2>2. RestOK'
      BY <1>18, <1>r, <1>t DEF DetachAttaching, Recorded
    <2> QED
      BY <2>1, <2>2, <1>p
  <1>19. ASSUME NEW t \in Threads, BeginShutdown(t) PROVE TypeOK'
    <2>1. ThreadTypeOK'
      BY <1>19, <1>r, GotoType DEF BeginShutdown
    <2>2. RestOK'
      BY <1>19, <1>r, <1>t DEF BeginShutdown
    <2> QED
      BY <2>1, <2>2, <1>p
  <1>20. ASSUME NEW t \in Threads, EndShutdown(t) PROVE TypeOK'
    <2>1. ThreadTypeOK'
      BY <1>20, <1>r, GotoType, FinishType DEF EndShutdown, Recorded
    <2>2. RestOK'
      BY <1>20, <1>r, <1>t DEF EndShutdown, Restored, Recorded
    <2> QED
      BY <2>1, <2>2, <1>p
  <1>21. CASE UNCHANGED vars
    BY <1>21 DEF vars, TypeOK
  <1> QED
    BY <1>1, <1>2, <1>3, <1>4, <1>5, <1>6, <1>7, <1>8, <1>9, <1>10, <1>11, <1>12,
       <1>13, <1>14, <1>15, <1>16, <1>17, <1>18, <1>19, <1>20, <1>21
    DEF Next, DetachStep

\* Type correctness: every variable keeps its type in every behaviour, whatever
\* the threads call (the registry's and the sessions' state).
THEOREM TypeCorrect == Spec => []TypeOK
  <1>1. Init => TypeOK
    BY InitIInv DEF IInv
  <1>2. TypeOK /\ [Next]_vars => TypeOK'
    BY TypeStep
  <1> QED
    BY <1>1, <1>2, PTL DEF Spec
\* What Goto and Finish do to the threads.
LEMMA GotoEffect ==
  ASSUME TypeOK, NEW t \in Threads, NEW o, NEW s, Goto(t, o, s)
  PROVE  /\ op'[t] = o /\ on'[t] = s
         /\ \A u \in Threads \ {t} : op'[u] = op[u] /\ on'[u] = on[u]
  BY DEF TypeOK, Goto

LEMMA FinishEffect ==
  ASSUME TypeOK, NEW t \in Threads, Finish(t)
  PROVE  /\ op'[t] = "idle"
         /\ \A u \in Threads \ {t} : op'[u] = op[u] /\ on'[u] = on[u]
  BY DEF TypeOK, Finish, Goto

\* Every step keeps the gate in step with the threads' operations.
LEMMA GateStep == IInv /\ [Next]_vars => GateInv'
  <1> SUFFICES ASSUME IInv, [Next]_vars PROVE GateInv'
    OBVIOUS
  <1>i. TypeOK /\ GateInv /\ StateInv /\ ThreadInv /\ IdInv
    BY DEF IInv
  <1> USE <1>i, ThreadsAssumption DEF GateInv, TypeOK, sessionVars, gateVars,
          threadVars, Cleanup, CanRead, CanWrite
  <1>1. CASE Reserve
    BY <1>1 DEF Reserve, IdLeft, NewId, Ids
  <1>2. ASSUME NEW s \in Ids, CompleteAttach(s) PROVE GateInv'
    BY <1>2 DEF CompleteAttach, Launching
  <1>3. ASSUME NEW s \in Ids, FailAttach(s) PROVE GateInv'
    BY <1>3 DEF FailAttach, Launching
  <1>4. ASSUME NEW s \in Ids, AgentDies(s) PROVE GateInv'
    BY <1>4 DEF AgentDies
  <1>5. ASSUME NEW t \in Threads, NEW s \in Ids, BeginCall(t, s) PROVE GateInv'
    BY <1>5, GotoEffect DEF BeginCall, Callable
  <1>6. ASSUME NEW t \in Threads, NEW s \in Ids, BeginHookCall(t, s) PROVE GateInv'
    BY <1>6, GotoEffect DEF BeginHookCall, Callable
  <1>7. ASSUME NEW t \in Threads, NEW s \in Ids, ReleaseHook(t, s) PROVE GateInv'
    BY <1>7 DEF ReleaseHook
  <1>8. ASSUME NEW t \in Threads, NEW s \in Ids, BeginReap(t, s) PROVE GateInv'
    BY <1>8, GotoEffect DEF BeginReap, Reserved
  <1>9. ASSUME NEW t \in Threads, NEW s \in Ids, BeginDetach(t, s) PROVE GateInv'
    BY <1>9, GotoEffect DEF BeginDetach
  <1>10. ASSUME NEW t \in Threads, NEW s \in Ids, BeginSnapshotDetach(t, s) PROVE GateInv'
    BY <1>10, GotoEffect DEF BeginSnapshotDetach, Reserved
  <1>11. ASSUME NEW t \in Threads, EndCall(t) PROVE GateInv'
    BY <1>11, FinishEffect DEF EndCall
  <1>12. ASSUME NEW t \in Threads, EndHookCall(t) PROVE GateInv'
    BY <1>12, GotoEffect, FinishEffect DEF EndHookCall
  <1>13. ASSUME NEW t \in Threads, AdoptHook(t) PROVE GateInv'
    BY <1>13, FinishEffect DEF AdoptHook, AcceptsLease
  <1>14. ASSUME NEW t \in Threads, MarkFailure(t) PROVE GateInv'
    BY <1>14, GotoEffect, FinishEffect DEF MarkFailure, Markable
  <1>15. ASSUME NEW t \in Threads, Lookup(t) PROVE GateInv'
    BY <1>15, GotoEffect, FinishEffect DEF Lookup
  <1>16. ASSUME NEW t \in Threads, DetachAgain(t) PROVE GateInv'
    BY <1>16, GotoEffect DEF DetachAgain
  <1>17. ASSUME NEW t \in Threads, Remove(t) PROVE GateInv'
    BY <1>17, FinishEffect DEF Remove
  <1>18. ASSUME NEW t \in Threads, DetachAttaching(t) PROVE GateInv'
    BY <1>18, GotoEffect, FinishEffect DEF DetachAttaching, Recorded, Launching
  <1>19. ASSUME NEW t \in Threads, BeginShutdown(t) PROVE GateInv'
    BY <1>19, GotoEffect DEF BeginShutdown
  <1>20. ASSUME NEW t \in Threads, EndShutdown(t) PROVE GateInv'
    BY <1>20, GotoEffect, FinishEffect DEF EndShutdown, Restored,
       Recorded
  <1>21. CASE UNCHANGED vars
    BY <1>21 DEF vars
  <1> QED
    BY <1>1, <1>2, <1>3, <1>4, <1>5, <1>6, <1>7, <1>8, <1>9, <1>10, <1>11, <1>12,
       <1>13, <1>14, <1>15, <1>16, <1>17, <1>18, <1>19, <1>20, <1>21
    DEF Next, DetachStep

\* Every step keeps what a lifecycle state says of the session.
LEMMA StateStep == IInv /\ [Next]_vars => StateInv'
  <1> SUFFICES ASSUME IInv, [Next]_vars PROVE StateInv'
    OBVIOUS
  <1>i. TypeOK /\ GateInv /\ StateInv /\ ThreadInv /\ IdInv
    BY DEF IInv
  <1> USE <1>i, ThreadsAssumption DEF StateInv, TypeOK, sessionVars, gateVars,
          threadVars, Cleanup, GateInv, CanRead, CanWrite
  <1>1. CASE Reserve
    <2>1. nextId \in Ids /\ state[nextId] = "Unreserved"
      BY <1>1 DEF Reserve, IdLeft, IdInv, Ids
    <2> QED
      BY <1>1, <2>1 DEF Reserve, NewId
  <1>2. ASSUME NEW s \in Ids, CompleteAttach(s) PROVE StateInv'
    BY <1>2 DEF CompleteAttach, Launching
  <1>3. ASSUME NEW s \in Ids, FailAttach(s) PROVE StateInv'
    BY <1>3 DEF FailAttach, Launching
  <1>4. ASSUME NEW s \in Ids, AgentDies(s) PROVE StateInv'
    BY <1>4 DEF AgentDies
  <1>5. ASSUME NEW t \in Threads, NEW s \in Ids, BeginCall(t, s) PROVE StateInv'
    BY <1>5, GotoEffect DEF BeginCall, Callable
  <1>6. ASSUME NEW t \in Threads, NEW s \in Ids, BeginHookCall(t, s) PROVE StateInv'
    BY <1>6, GotoEffect DEF BeginHookCall, Callable
  <1>7. ASSUME NEW t \in Threads, NEW s \in Ids, ReleaseHook(t, s) PROVE StateInv'
    BY <1>7 DEF ReleaseHook
  <1>8. ASSUME NEW t \in Threads, NEW s \in Ids, BeginReap(t, s) PROVE StateInv'
    BY <1>8, GotoEffect DEF BeginReap, Reserved
  <1>9. ASSUME NEW t \in Threads, NEW s \in Ids, BeginDetach(t, s) PROVE StateInv'
    BY <1>9, GotoEffect DEF BeginDetach
  <1>10. ASSUME NEW t \in Threads, NEW s \in Ids, BeginSnapshotDetach(t, s) PROVE StateInv'
    BY <1>10, GotoEffect DEF BeginSnapshotDetach, Reserved
  <1>11. ASSUME NEW t \in Threads, EndCall(t) PROVE StateInv'
    BY <1>11, FinishEffect DEF EndCall
  <1>12. ASSUME NEW t \in Threads, EndHookCall(t) PROVE StateInv'
    BY <1>12, GotoEffect, FinishEffect DEF EndHookCall
  <1>13. ASSUME NEW t \in Threads, AdoptHook(t) PROVE StateInv'
    BY <1>13, FinishEffect DEF AdoptHook, AcceptsLease
  <1>14. ASSUME NEW t \in Threads, MarkFailure(t) PROVE StateInv'
    BY <1>14, GotoEffect, FinishEffect DEF MarkFailure, Markable
  <1>15. ASSUME NEW t \in Threads, Lookup(t) PROVE StateInv'
    BY <1>15, GotoEffect, FinishEffect DEF Lookup
  <1>16. ASSUME NEW t \in Threads, DetachAgain(t) PROVE StateInv'
    BY <1>16, GotoEffect DEF DetachAgain
  <1>17. ASSUME NEW t \in Threads, Remove(t) PROVE StateInv'
    BY <1>17, FinishEffect DEF Remove, ThreadInv
  <1>18. ASSUME NEW t \in Threads, DetachAttaching(t) PROVE StateInv'
    BY <1>18, GotoEffect, FinishEffect DEF DetachAttaching, Recorded, Launching
  <1>19. ASSUME NEW t \in Threads, BeginShutdown(t) PROVE StateInv'
    BY <1>19, GotoEffect DEF BeginShutdown
  <1>20. ASSUME NEW t \in Threads, EndShutdown(t) PROVE StateInv'
    BY <1>20, GotoEffect, FinishEffect DEF EndShutdown, Restored,
       Recorded
  <1>21. CASE UNCHANGED vars
    BY <1>21 DEF vars
  <1> QED
    BY <1>1, <1>2, <1>3, <1>4, <1>5, <1>6, <1>7, <1>8, <1>9, <1>10, <1>11, <1>12,
       <1>13, <1>14, <1>15, <1>16, <1>17, <1>18, <1>19, <1>20, <1>21
    DEF Next, DetachStep

\* Every step keeps what an operation says of its session.
LEMMA OperationStep == IInv /\ [Next]_vars => ThreadInv'
  <1> SUFFICES ASSUME IInv, [Next]_vars PROVE ThreadInv'
    OBVIOUS
  <1>i. TypeOK /\ GateInv /\ StateInv /\ ThreadInv /\ IdInv
    BY DEF IInv
  <1> USE <1>i, ThreadsAssumption DEF ThreadInv, TypeOK, sessionVars, gateVars,
          threadVars, Cleanup, GateInv, StateInv, CanRead, CanWrite
  <1>1. CASE Reserve
    <2>1. nextId \in Ids /\ state[nextId] = "Unreserved"
      BY <1>1 DEF Reserve, IdLeft, IdInv, Ids
    <2> QED
      BY <1>1, <2>1 DEF Reserve, NewId
  <1>2. ASSUME NEW s \in Ids, CompleteAttach(s) PROVE ThreadInv'
    BY <1>2 DEF CompleteAttach, Launching
  <1>3. ASSUME NEW s \in Ids, FailAttach(s) PROVE ThreadInv'
    BY <1>3 DEF FailAttach, Launching
  <1>4. ASSUME NEW s \in Ids, AgentDies(s) PROVE ThreadInv'
    BY <1>4 DEF AgentDies
  <1>5. ASSUME NEW t \in Threads, NEW s \in Ids, BeginCall(t, s) PROVE ThreadInv'
    BY <1>5, GotoEffect DEF BeginCall, Callable
  <1>6. ASSUME NEW t \in Threads, NEW s \in Ids, BeginHookCall(t, s) PROVE ThreadInv'
    BY <1>6, GotoEffect DEF BeginHookCall, Callable
  <1>7. ASSUME NEW t \in Threads, NEW s \in Ids, ReleaseHook(t, s) PROVE ThreadInv'
    BY <1>7 DEF ReleaseHook
  <1>8. ASSUME NEW t \in Threads, NEW s \in Ids, BeginReap(t, s) PROVE ThreadInv'
    BY <1>8, GotoEffect DEF BeginReap, Reserved
  <1>9. ASSUME NEW t \in Threads, NEW s \in Ids, BeginDetach(t, s) PROVE ThreadInv'
    BY <1>9, GotoEffect DEF BeginDetach
  <1>10. ASSUME NEW t \in Threads, NEW s \in Ids, BeginSnapshotDetach(t, s) PROVE ThreadInv'
    BY <1>10, GotoEffect DEF BeginSnapshotDetach, Reserved
  <1>11. ASSUME NEW t \in Threads, EndCall(t) PROVE ThreadInv'
    BY <1>11, FinishEffect DEF EndCall
  <1>12. ASSUME NEW t \in Threads, EndHookCall(t) PROVE ThreadInv'
    BY <1>12, GotoEffect, FinishEffect DEF EndHookCall
  <1>13. ASSUME NEW t \in Threads, AdoptHook(t) PROVE ThreadInv'
    BY <1>13, FinishEffect DEF AdoptHook, AcceptsLease
  <1>14. ASSUME NEW t \in Threads, MarkFailure(t) PROVE ThreadInv'
    BY <1>14, GotoEffect, FinishEffect DEF MarkFailure, Markable
  <1>15. ASSUME NEW t \in Threads, Lookup(t) PROVE ThreadInv'
    BY <1>15, GotoEffect, FinishEffect DEF Lookup
  <1>16. ASSUME NEW t \in Threads, DetachAgain(t) PROVE ThreadInv'
    BY <1>16, GotoEffect DEF DetachAgain
  <1>17. ASSUME NEW t \in Threads, Remove(t) PROVE ThreadInv'
    BY <1>17, FinishEffect DEF Remove
  <1>18. ASSUME NEW t \in Threads, DetachAttaching(t) PROVE ThreadInv'
    BY <1>18, GotoEffect, FinishEffect DEF DetachAttaching, Recorded, Launching
  <1>19. ASSUME NEW t \in Threads, BeginShutdown(t) PROVE ThreadInv'
    BY <1>19, GotoEffect DEF BeginShutdown
  <1>20. ASSUME NEW t \in Threads, EndShutdown(t) PROVE ThreadInv'
    BY <1>20, GotoEffect, FinishEffect DEF EndShutdown, Restored,
       Recorded
  <1>21. CASE UNCHANGED vars
    BY <1>21 DEF vars
  <1> QED
    BY <1>1, <1>2, <1>3, <1>4, <1>5, <1>6, <1>7, <1>8, <1>9, <1>10, <1>11, <1>12,
       <1>13, <1>14, <1>15, <1>16, <1>17, <1>18, <1>19, <1>20, <1>21
    DEF Next, DetachStep

\* Every step keeps the order of the ids.
LEMMA IdStep == IInv /\ [Next]_vars => IdInv'
  <1> SUFFICES ASSUME IInv, [Next]_vars PROVE IdInv'
    OBVIOUS
  <1>i. TypeOK /\ GateInv /\ StateInv /\ ThreadInv /\ IdInv
    BY DEF IInv
  <1> USE <1>i, ThreadsAssumption DEF IdInv, TypeOK, sessionVars, gateVars,
          threadVars, Cleanup, GateInv, StateInv, ThreadInv
  <1>1. CASE Reserve
    BY <1>1 DEF Reserve, IdLeft, NewId, Ids
  <1>2. ASSUME NEW s \in Ids, CompleteAttach(s) PROVE IdInv'
    BY <1>2 DEF CompleteAttach, Launching
  <1>3. ASSUME NEW s \in Ids, FailAttach(s) PROVE IdInv'
    BY <1>3 DEF FailAttach, Launching
  <1>4. ASSUME NEW s \in Ids, AgentDies(s) PROVE IdInv'
    BY <1>4 DEF AgentDies
  <1>5. ASSUME NEW t \in Threads, NEW s \in Ids, BeginCall(t, s) PROVE IdInv'
    BY <1>5 DEF BeginCall, Callable
  <1>6. ASSUME NEW t \in Threads, NEW s \in Ids, BeginHookCall(t, s) PROVE IdInv'
    BY <1>6 DEF BeginHookCall, Callable
  <1>7. ASSUME NEW t \in Threads, NEW s \in Ids, ReleaseHook(t, s) PROVE IdInv'
    BY <1>7 DEF ReleaseHook
  <1>8. ASSUME NEW t \in Threads, NEW s \in Ids, BeginReap(t, s) PROVE IdInv'
    BY <1>8 DEF BeginReap, Reserved
  <1>9. ASSUME NEW t \in Threads, NEW s \in Ids, BeginDetach(t, s) PROVE IdInv'
    BY <1>9 DEF BeginDetach
  <1>10. ASSUME NEW t \in Threads, NEW s \in Ids, BeginSnapshotDetach(t, s) PROVE IdInv'
    BY <1>10 DEF BeginSnapshotDetach, Reserved
  <1>11. ASSUME NEW t \in Threads, EndCall(t) PROVE IdInv'
    BY <1>11 DEF EndCall
  <1>12. ASSUME NEW t \in Threads, EndHookCall(t) PROVE IdInv'
    BY <1>12 DEF EndHookCall
  <1>13. ASSUME NEW t \in Threads, AdoptHook(t) PROVE IdInv'
    BY <1>13 DEF AdoptHook, AcceptsLease
  <1>14. ASSUME NEW t \in Threads, MarkFailure(t) PROVE IdInv'
    BY <1>14 DEF MarkFailure, Markable
  <1>15. ASSUME NEW t \in Threads, Lookup(t) PROVE IdInv'
    BY <1>15 DEF Lookup
  <1>16. ASSUME NEW t \in Threads, DetachAgain(t) PROVE IdInv'
    BY <1>16 DEF DetachAgain
  <1>17. ASSUME NEW t \in Threads, Remove(t) PROVE IdInv'
    BY <1>17 DEF Remove
  <1>18. ASSUME NEW t \in Threads, DetachAttaching(t) PROVE IdInv'
    BY <1>18 DEF DetachAttaching, Recorded, Launching
  <1>19. ASSUME NEW t \in Threads, BeginShutdown(t) PROVE IdInv'
    BY <1>19 DEF BeginShutdown
  <1>20. ASSUME NEW t \in Threads, EndShutdown(t) PROVE IdInv'
    BY <1>20 DEF EndShutdown, Restored, Recorded
  <1>21. CASE UNCHANGED vars
    BY <1>21 DEF vars
  <1> QED
    BY <1>1, <1>2, <1>3, <1>4, <1>5, <1>6, <1>7, <1>8, <1>9, <1>10, <1>11, <1>12,
       <1>13, <1>14, <1>15, <1>16, <1>17, <1>18, <1>19, <1>20, <1>21
    DEF Next, DetachStep

\* The inductive invariant: every variable is typed, the gate agrees with the
\* threads, and each lifecycle state, each operation and each id says of the
\* rest what the code relies on.
THEOREM InductiveInvariant == Spec => []IInv
  <1>1. Init => IInv
    BY InitIInv
  <1>2. IInv /\ [Next]_vars => IInv'
    BY TypeStep, GateStep, StateStep, OperationStep, IdStep DEF IInv
  <1> QED
    BY <1>1, <1>2, PTL DEF Spec

\* No backend is shut down over a call in flight, and none twice at a time
\* (the command gate of Session).
THEOREM NoCallDuringShutdown == Spec => []DetachWaitsForCalls
  <1>1. ASSUME IInv PROVE DetachWaitsForCalls
    <2> SUFFICES ASSUME NEW t \in Threads, NEW u \in Threads,
                        op[t] = "shutdown", op[u] \in {"call", "shutdown"},
                        on[t] = on[u]
                 PROVE  t = u
      BY DEF DetachWaitsForCalls
    <2>1. on[t] \in Ids
      BY <1>1 DEF IInv, TypeOK
    <2>2. writer[on[t]] = t /\ readers[on[t]] = {}
      BY <1>1, <2>1, ThreadsAssumption DEF IInv, GateInv
    <2> QED
      BY <1>1, <2>1, <2>2 DEF IInv, GateInv
  <1> QED
    BY <1>1, InductiveInvariant, PTL

\* A session keeps its state while a call is in flight (every change of it takes
\* the exclusive gate).
THEOREM AttachedDuringCalls == Spec => []CallsNeedAttached
  <1>1. IInv => CallsNeedAttached
    BY DEF IInv, ThreadInv, CallsNeedAttached
  <1> QED
    BY <1>1, InductiveInvariant, PTL

\* A failed shutdown can be retried: its session still has the backend, or the
\* backend has acknowledged, and no session is stuck in Detaching.
THEOREM FailedKeepsBackend == Spec => []RetryOwner
  <1>1. ASSUME IInv PROVE RetryOwner
    <2> SUFFICES ASSUME NEW s \in Ids
                 PROVE  /\ state[s] = "Failed" /\ s \notin shutdown => s \in backend
                        /\ state[s] = "Detaching" =>
                             \E t \in Threads : op[t] = "shutdown" /\ on[t] = s
      BY DEF RetryOwner
    <2>1. state[s] = "Failed" /\ s \notin shutdown => s \in backend
      BY <1>1 DEF IInv, StateInv
    <2>2. ASSUME state[s] = "Detaching"
          PROVE  op[writer[s]] = "shutdown" /\ on[writer[s]] = s /\ writer[s] \in Threads
      BY <1>1, <2>2 DEF IInv, TypeOK, StateInv, GateInv
    <2> QED
      BY <2>1, <2>2
  <1> QED
    BY <1>1, InductiveInvariant, PTL

\* A session leaves the registry only when it is Detached and owns nothing.
THEOREM NothingDropped == Spec => []RemovedOwnNothing
  <1>1. IInv => RemovedOwnNothing
    BY DEF IInv, StateInv, RemovedOwnNothing, Reserved
  <1> QED
    BY <1>1, InductiveInvariant, PTL

\* An id is never handed out twice (the counter of SessionRegistry::reserve).
THEOREM NoIdReuse == Spec => IdsNotReused
  <1>1. ASSUME IInv, [Next]_vars
        PROVE  \A s \in Ids : s \in registry' \ registry => ~Reserved(s)
    <2>i. TypeOK /\ GateInv /\ StateInv /\ ThreadInv /\ IdInv
      BY <1>1 DEF IInv
    <2> USE <2>i, ThreadsAssumption DEF TypeOK, sessionVars, gateVars, threadVars,
            Cleanup, Reserved
    <2>1. CASE Reserve
      BY <2>1 DEF Reserve, IdLeft, NewId, IdInv
    <2>2. ASSUME NEW r \in Ids, CompleteAttach(r)
          PROVE  \A s \in Ids : s \in registry' \ registry => ~Reserved(s)
      BY <2>2 DEF CompleteAttach, Launching
    <2>3. ASSUME NEW r \in Ids, FailAttach(r)
          PROVE  \A s \in Ids : s \in registry' \ registry => ~Reserved(s)
      BY <2>3 DEF FailAttach, Launching
    <2>4. ASSUME NEW r \in Ids, AgentDies(r)
          PROVE  \A s \in Ids : s \in registry' \ registry => ~Reserved(s)
      BY <2>4 DEF AgentDies
    <2>5. ASSUME NEW t \in Threads, NEW r \in Ids, BeginCall(t, r)
          PROVE  \A s \in Ids : s \in registry' \ registry => ~Reserved(s)
      BY <2>5 DEF BeginCall, Callable
    <2>6. ASSUME NEW t \in Threads, NEW r \in Ids, BeginHookCall(t, r)
          PROVE  \A s \in Ids : s \in registry' \ registry => ~Reserved(s)
      BY <2>6 DEF BeginHookCall, Callable
    <2>7. ASSUME NEW t \in Threads, NEW r \in Ids, ReleaseHook(t, r)
          PROVE  \A s \in Ids : s \in registry' \ registry => ~Reserved(s)
      BY <2>7 DEF ReleaseHook
    <2>8. ASSUME NEW t \in Threads, NEW r \in Ids, BeginReap(t, r)
          PROVE  \A s \in Ids : s \in registry' \ registry => ~Reserved(s)
      BY <2>8 DEF BeginReap, Reserved
    <2>9. ASSUME NEW t \in Threads, NEW r \in Ids, BeginDetach(t, r)
          PROVE  \A s \in Ids : s \in registry' \ registry => ~Reserved(s)
      BY <2>9 DEF BeginDetach
    <2>10. ASSUME NEW t \in Threads, NEW r \in Ids, BeginSnapshotDetach(t, r)
          PROVE  \A s \in Ids : s \in registry' \ registry => ~Reserved(s)
      BY <2>10 DEF BeginSnapshotDetach, Reserved
    <2>11. ASSUME NEW t \in Threads, EndCall(t)
          PROVE  \A s \in Ids : s \in registry' \ registry => ~Reserved(s)
      BY <2>11 DEF EndCall
    <2>12. ASSUME NEW t \in Threads, EndHookCall(t)
          PROVE  \A s \in Ids : s \in registry' \ registry => ~Reserved(s)
      BY <2>12 DEF EndHookCall
    <2>13. ASSUME NEW t \in Threads, AdoptHook(t)
          PROVE  \A s \in Ids : s \in registry' \ registry => ~Reserved(s)
      BY <2>13 DEF AdoptHook, AcceptsLease
    <2>14. ASSUME NEW t \in Threads, MarkFailure(t)
          PROVE  \A s \in Ids : s \in registry' \ registry => ~Reserved(s)
      BY <2>14 DEF MarkFailure, Markable
    <2>15. ASSUME NEW t \in Threads, Lookup(t)
          PROVE  \A s \in Ids : s \in registry' \ registry => ~Reserved(s)
      BY <2>15 DEF Lookup
    <2>16. ASSUME NEW t \in Threads, DetachAgain(t)
          PROVE  \A s \in Ids : s \in registry' \ registry => ~Reserved(s)
      BY <2>16 DEF DetachAgain
    <2>17. ASSUME NEW t \in Threads, Remove(t)
          PROVE  \A s \in Ids : s \in registry' \ registry => ~Reserved(s)
      BY <2>17 DEF Remove
    <2>18. ASSUME NEW t \in Threads, DetachAttaching(t)
          PROVE  \A s \in Ids : s \in registry' \ registry => ~Reserved(s)
      BY <2>18 DEF DetachAttaching, Recorded, Launching
    <2>19. ASSUME NEW t \in Threads, BeginShutdown(t)
          PROVE  \A s \in Ids : s \in registry' \ registry => ~Reserved(s)
      BY <2>19 DEF BeginShutdown
    <2>20. ASSUME NEW t \in Threads, EndShutdown(t)
          PROVE  \A s \in Ids : s \in registry' \ registry => ~Reserved(s)
      BY <2>20 DEF EndShutdown, Restored, Recorded
    <2>21. CASE UNCHANGED vars
      BY <2>21 DEF vars
    <2> QED
      BY <1>1, <2>1, <2>2, <2>3, <2>4, <2>5, <2>6, <2>7, <2>8, <2>9, <2>10, <2>11,
         <2>12, <2>13, <2>14, <2>15, <2>16, <2>17, <2>18, <2>19, <2>20, <2>21
      DEF Next, DetachStep
  <1> QED
    BY <1>1, InductiveInvariant, PTL DEF Spec, IdsNotReused

\* Neither a late launch nor a second detach brings a session back.
THEOREM NothingComesBack == Spec => NoResurrection
  <1>1. ASSUME IInv, [Next]_vars
        PROVE  \A s \in Ids :
                  /\ state[s] = "Detached" => state'[s] = "Detached"
                  /\ state[s] \in {"Failed", "Detaching"} => state'[s] # "Attached"
    <2>i. TypeOK /\ GateInv /\ StateInv /\ ThreadInv /\ IdInv
      BY <1>1 DEF IInv
    <2> USE <2>i, ThreadsAssumption DEF TypeOK, sessionVars, gateVars, threadVars,
            Cleanup, GateInv, StateInv, CanRead, CanWrite
    <2>1. CASE Reserve
      BY <2>1 DEF Reserve, IdLeft, NewId, IdInv, Ids
    <2>2. ASSUME NEW r \in Ids, CompleteAttach(r)
          PROVE  \A s \in Ids :
                  /\ state[s] = "Detached" => state'[s] = "Detached"
                  /\ state[s] \in {"Failed", "Detaching"} => state'[s] # "Attached"
      BY <2>2 DEF CompleteAttach, Launching
    <2>3. ASSUME NEW r \in Ids, FailAttach(r)
          PROVE  \A s \in Ids :
                  /\ state[s] = "Detached" => state'[s] = "Detached"
                  /\ state[s] \in {"Failed", "Detaching"} => state'[s] # "Attached"
      BY <2>3 DEF FailAttach, Launching
    <2>4. ASSUME NEW r \in Ids, AgentDies(r)
          PROVE  \A s \in Ids :
                  /\ state[s] = "Detached" => state'[s] = "Detached"
                  /\ state[s] \in {"Failed", "Detaching"} => state'[s] # "Attached"
      BY <2>4 DEF AgentDies
    <2>5. ASSUME NEW t \in Threads, NEW r \in Ids, BeginCall(t, r)
          PROVE  \A s \in Ids :
                  /\ state[s] = "Detached" => state'[s] = "Detached"
                  /\ state[s] \in {"Failed", "Detaching"} => state'[s] # "Attached"
      BY <2>5 DEF BeginCall, Callable
    <2>6. ASSUME NEW t \in Threads, NEW r \in Ids, BeginHookCall(t, r)
          PROVE  \A s \in Ids :
                  /\ state[s] = "Detached" => state'[s] = "Detached"
                  /\ state[s] \in {"Failed", "Detaching"} => state'[s] # "Attached"
      BY <2>6 DEF BeginHookCall, Callable
    <2>7. ASSUME NEW t \in Threads, NEW r \in Ids, ReleaseHook(t, r)
          PROVE  \A s \in Ids :
                  /\ state[s] = "Detached" => state'[s] = "Detached"
                  /\ state[s] \in {"Failed", "Detaching"} => state'[s] # "Attached"
      BY <2>7 DEF ReleaseHook
    <2>8. ASSUME NEW t \in Threads, NEW r \in Ids, BeginReap(t, r)
          PROVE  \A s \in Ids :
                  /\ state[s] = "Detached" => state'[s] = "Detached"
                  /\ state[s] \in {"Failed", "Detaching"} => state'[s] # "Attached"
      BY <2>8 DEF BeginReap, Reserved
    <2>9. ASSUME NEW t \in Threads, NEW r \in Ids, BeginDetach(t, r)
          PROVE  \A s \in Ids :
                  /\ state[s] = "Detached" => state'[s] = "Detached"
                  /\ state[s] \in {"Failed", "Detaching"} => state'[s] # "Attached"
      BY <2>9 DEF BeginDetach
    <2>10. ASSUME NEW t \in Threads, NEW r \in Ids, BeginSnapshotDetach(t, r)
          PROVE  \A s \in Ids :
                  /\ state[s] = "Detached" => state'[s] = "Detached"
                  /\ state[s] \in {"Failed", "Detaching"} => state'[s] # "Attached"
      BY <2>10 DEF BeginSnapshotDetach, Reserved
    <2>11. ASSUME NEW t \in Threads, EndCall(t)
          PROVE  \A s \in Ids :
                  /\ state[s] = "Detached" => state'[s] = "Detached"
                  /\ state[s] \in {"Failed", "Detaching"} => state'[s] # "Attached"
      BY <2>11 DEF EndCall
    <2>12. ASSUME NEW t \in Threads, EndHookCall(t)
          PROVE  \A s \in Ids :
                  /\ state[s] = "Detached" => state'[s] = "Detached"
                  /\ state[s] \in {"Failed", "Detaching"} => state'[s] # "Attached"
      BY <2>12 DEF EndHookCall
    <2>13. ASSUME NEW t \in Threads, AdoptHook(t)
          PROVE  \A s \in Ids :
                  /\ state[s] = "Detached" => state'[s] = "Detached"
                  /\ state[s] \in {"Failed", "Detaching"} => state'[s] # "Attached"
      BY <2>13 DEF AdoptHook, AcceptsLease
    <2>14. ASSUME NEW t \in Threads, MarkFailure(t)
          PROVE  \A s \in Ids :
                  /\ state[s] = "Detached" => state'[s] = "Detached"
                  /\ state[s] \in {"Failed", "Detaching"} => state'[s] # "Attached"
      BY <2>14 DEF MarkFailure, Markable
    <2>15. ASSUME NEW t \in Threads, Lookup(t)
          PROVE  \A s \in Ids :
                  /\ state[s] = "Detached" => state'[s] = "Detached"
                  /\ state[s] \in {"Failed", "Detaching"} => state'[s] # "Attached"
      BY <2>15 DEF Lookup
    <2>16. ASSUME NEW t \in Threads, DetachAgain(t)
          PROVE  \A s \in Ids :
                  /\ state[s] = "Detached" => state'[s] = "Detached"
                  /\ state[s] \in {"Failed", "Detaching"} => state'[s] # "Attached"
      BY <2>16 DEF DetachAgain
    <2>17. ASSUME NEW t \in Threads, Remove(t)
          PROVE  \A s \in Ids :
                  /\ state[s] = "Detached" => state'[s] = "Detached"
                  /\ state[s] \in {"Failed", "Detaching"} => state'[s] # "Attached"
      BY <2>17 DEF Remove
    <2>18. ASSUME NEW t \in Threads, DetachAttaching(t)
          PROVE  \A s \in Ids :
                  /\ state[s] = "Detached" => state'[s] = "Detached"
                  /\ state[s] \in {"Failed", "Detaching"} => state'[s] # "Attached"
      BY <2>18 DEF DetachAttaching, Recorded, Launching
    <2>19. ASSUME NEW t \in Threads, BeginShutdown(t)
          PROVE  \A s \in Ids :
                  /\ state[s] = "Detached" => state'[s] = "Detached"
                  /\ state[s] \in {"Failed", "Detaching"} => state'[s] # "Attached"
      BY <2>19 DEF BeginShutdown
    <2>20. ASSUME NEW t \in Threads, EndShutdown(t)
          PROVE  \A s \in Ids :
                  /\ state[s] = "Detached" => state'[s] = "Detached"
                  /\ state[s] \in {"Failed", "Detaching"} => state'[s] # "Attached"
      BY <2>20 DEF EndShutdown, Restored, Recorded
    <2>21. CASE UNCHANGED vars
      BY <2>21 DEF vars
    <2> QED
      BY <1>1, <2>1, <2>2, <2>3, <2>4, <2>5, <2>6, <2>7, <2>8, <2>9, <2>10, <2>11,
         <2>12, <2>13, <2>14, <2>15, <2>16, <2>17, <2>18, <2>19, <2>20, <2>21
      DEF Next, DetachStep
  <1> QED
    BY <1>1, InductiveInvariant, PTL DEF Spec, NoResurrection

\* A backend that has been given up is not called again.
THEOREM ShutdownOnce == Spec => ShutdownRecorded
  <1>1. ASSUME IInv, [Next]_vars PROVE shutdown \subseteq shutdown'
    <2>i. TypeOK /\ GateInv /\ StateInv /\ ThreadInv /\ IdInv
      BY <1>1 DEF IInv
    <2> USE <2>i, ThreadsAssumption DEF TypeOK, sessionVars, gateVars, threadVars,
            Cleanup, GateInv, StateInv, CanRead, CanWrite
    <2>1. CASE Reserve
      BY <2>1 DEF Reserve, IdLeft, NewId, Ids
    <2>2. ASSUME NEW r \in Ids, CompleteAttach(r)
          PROVE  shutdown \subseteq shutdown'
      BY <2>2 DEF CompleteAttach, Launching
    <2>3. ASSUME NEW r \in Ids, FailAttach(r)
          PROVE  shutdown \subseteq shutdown'
      BY <2>3 DEF FailAttach, Launching
    <2>4. ASSUME NEW r \in Ids, AgentDies(r)
          PROVE  shutdown \subseteq shutdown'
      BY <2>4 DEF AgentDies
    <2>5. ASSUME NEW t \in Threads, NEW r \in Ids, BeginCall(t, r)
          PROVE  shutdown \subseteq shutdown'
      BY <2>5 DEF BeginCall, Callable
    <2>6. ASSUME NEW t \in Threads, NEW r \in Ids, BeginHookCall(t, r)
          PROVE  shutdown \subseteq shutdown'
      BY <2>6 DEF BeginHookCall, Callable
    <2>7. ASSUME NEW t \in Threads, NEW r \in Ids, ReleaseHook(t, r)
          PROVE  shutdown \subseteq shutdown'
      BY <2>7 DEF ReleaseHook
    <2>8. ASSUME NEW t \in Threads, NEW r \in Ids, BeginReap(t, r)
          PROVE  shutdown \subseteq shutdown'
      BY <2>8 DEF BeginReap, Reserved
    <2>9. ASSUME NEW t \in Threads, NEW r \in Ids, BeginDetach(t, r)
          PROVE  shutdown \subseteq shutdown'
      BY <2>9 DEF BeginDetach
    <2>10. ASSUME NEW t \in Threads, NEW r \in Ids, BeginSnapshotDetach(t, r)
          PROVE  shutdown \subseteq shutdown'
      BY <2>10 DEF BeginSnapshotDetach, Reserved
    <2>11. ASSUME NEW t \in Threads, EndCall(t)
          PROVE  shutdown \subseteq shutdown'
      BY <2>11 DEF EndCall
    <2>12. ASSUME NEW t \in Threads, EndHookCall(t)
          PROVE  shutdown \subseteq shutdown'
      BY <2>12 DEF EndHookCall
    <2>13. ASSUME NEW t \in Threads, AdoptHook(t)
          PROVE  shutdown \subseteq shutdown'
      BY <2>13 DEF AdoptHook, AcceptsLease
    <2>14. ASSUME NEW t \in Threads, MarkFailure(t)
          PROVE  shutdown \subseteq shutdown'
      BY <2>14 DEF MarkFailure, Markable
    <2>15. ASSUME NEW t \in Threads, Lookup(t)
          PROVE  shutdown \subseteq shutdown'
      BY <2>15 DEF Lookup
    <2>16. ASSUME NEW t \in Threads, DetachAgain(t)
          PROVE  shutdown \subseteq shutdown'
      BY <2>16 DEF DetachAgain
    <2>17. ASSUME NEW t \in Threads, Remove(t)
          PROVE  shutdown \subseteq shutdown'
      BY <2>17 DEF Remove
    <2>18. ASSUME NEW t \in Threads, DetachAttaching(t)
          PROVE  shutdown \subseteq shutdown'
      BY <2>18 DEF DetachAttaching, Recorded, Launching
    <2>19. ASSUME NEW t \in Threads, BeginShutdown(t)
          PROVE  shutdown \subseteq shutdown'
      BY <2>19 DEF BeginShutdown
    <2>20. ASSUME NEW t \in Threads, EndShutdown(t)
          PROVE  shutdown \subseteq shutdown'
      BY <2>20 DEF EndShutdown, Restored, Recorded
    <2>21. CASE UNCHANGED vars
      BY <2>21 DEF vars
    <2> QED
      BY <1>1, <2>1, <2>2, <2>3, <2>4, <2>5, <2>6, <2>7, <2>8, <2>9, <2>10, <2>11,
         <2>12, <2>13, <2>14, <2>15, <2>16, <2>17, <2>18, <2>19, <2>20, <2>21
      DEF Next, DetachStep
  <1>2. IInv' => \A s \in shutdown' : s \notin backend'
    BY DEF IInv, TypeOK, StateInv, States
  <1>3. IInv /\ IInv' /\ [Next]_vars => \A s \in shutdown : s \in shutdown' /\ s \notin backend'
    BY <1>1, <1>2
  <1> QED
    BY <1>3, InductiveInvariant, PTL DEF Spec, ShutdownRecorded

\* How one step of the registry looks to one session's lifecycle.
LEMMA LifecycleFrame ==
  ASSUME NEW s \in Ids, state'[s] = state[s], readers'[s] = readers[s]
  PROVE  UNCHANGED Lifecycle(s)!vars
  BY DEF Lifecycle!vars, Phase

LEMMA LifecycleMoves ==
  ASSUME NEW s \in Ids, readers'[s] = readers[s],
         \/ state[s] = "Unreserved" /\ state'[s] = "Attaching"
         \/ state[s] = "Attaching" /\ state'[s] = "Attached"
         \/ /\ state[s] \in {"Attaching", "Attached"} /\ readers[s] = {}
            /\ state'[s] \in {"Failed", "Detaching"}
         \/ state[s] \in {"Failed", "Detaching"} /\ state'[s] \in {"Failed", "Detaching"}
         \/ /\ state[s] \in {"Attaching", "Failed", "Detaching"} /\ readers[s] = {}
            /\ state'[s] = "Detached"
  PROVE  Lifecycle(s)!Next \/ UNCHANGED Lifecycle(s)!vars
  BY DEF Lifecycle!Next, Lifecycle!Reserve, Lifecycle!Open, Lifecycle!Break,
         Lifecycle!Close, Lifecycle!vars, Phase

LEMMA LifecycleCalls ==
  ASSUME NEW s \in Ids, NEW t \in Threads, state'[s] = state[s],
         \/ state[s] = "Attached" /\ readers'[s] = readers[s] \union {t}
         \/ t \in readers[s] /\ readers'[s] = readers[s] \ {t}
  PROVE  Lifecycle(s)!Next
  BY DEF Lifecycle!Next, Lifecycle!Begin, Lifecycle!End, Phase

\* Every session of the registry behaves like the session of SessionLifecycle.
THEOREM RegistryImplementsLifecycle == Spec => ImplementsLifecycle
  <1>0. Init => \A s \in Ids : Lifecycle(s)!Init
    BY DEF Init, Lifecycle!Init, Phase
  <1>1. ASSUME IInv, [Next]_vars
        PROVE  \A s \in Ids : Lifecycle(s)!Next \/ UNCHANGED Lifecycle(s)!vars
    <2>i. TypeOK /\ GateInv /\ StateInv /\ ThreadInv /\ IdInv
      BY <1>1 DEF IInv
    <2> USE <2>i, ThreadsAssumption DEF TypeOK, sessionVars, gateVars, threadVars,
            Cleanup, GateInv, StateInv, CanRead, CanWrite
    <2>1. CASE Reserve
      <3>1. nextId \in Ids /\ state[nextId] = "Unreserved"
        BY <2>1 DEF Reserve, IdLeft, IdInv, Ids
      <3> QED
        BY <2>1, <3>1, LifecycleFrame, LifecycleMoves DEF Reserve, NewId
    <2>2. ASSUME NEW r \in Ids, CompleteAttach(r)
          PROVE  \A s \in Ids : Lifecycle(s)!Next \/ UNCHANGED Lifecycle(s)!vars
      BY <2>2, LifecycleFrame, LifecycleMoves DEF CompleteAttach, Launching
    <2>3. ASSUME NEW r \in Ids, FailAttach(r)
          PROVE  \A s \in Ids : Lifecycle(s)!Next \/ UNCHANGED Lifecycle(s)!vars
      BY <2>3, LifecycleFrame, LifecycleMoves DEF FailAttach, Launching
    <2>4. ASSUME NEW r \in Ids, AgentDies(r)
          PROVE  \A s \in Ids : Lifecycle(s)!Next \/ UNCHANGED Lifecycle(s)!vars
      BY <2>4, LifecycleFrame DEF AgentDies
    <2>5. ASSUME NEW t \in Threads, NEW r \in Ids, BeginCall(t, r)
          PROVE  \A s \in Ids : Lifecycle(s)!Next \/ UNCHANGED Lifecycle(s)!vars
      BY <2>5, LifecycleFrame, LifecycleCalls DEF BeginCall, Callable
    <2>6. ASSUME NEW t \in Threads, NEW r \in Ids, BeginHookCall(t, r)
          PROVE  \A s \in Ids : Lifecycle(s)!Next \/ UNCHANGED Lifecycle(s)!vars
      BY <2>6, LifecycleFrame DEF BeginHookCall, Callable
    <2>7. ASSUME NEW t \in Threads, NEW r \in Ids, ReleaseHook(t, r)
          PROVE  \A s \in Ids : Lifecycle(s)!Next \/ UNCHANGED Lifecycle(s)!vars
      BY <2>7, LifecycleFrame DEF ReleaseHook
    <2>8. ASSUME NEW t \in Threads, NEW r \in Ids, BeginReap(t, r)
          PROVE  \A s \in Ids : Lifecycle(s)!Next \/ UNCHANGED Lifecycle(s)!vars
      BY <2>8, LifecycleFrame DEF BeginReap, Reserved
    <2>9. ASSUME NEW t \in Threads, NEW r \in Ids, BeginDetach(t, r)
          PROVE  \A s \in Ids : Lifecycle(s)!Next \/ UNCHANGED Lifecycle(s)!vars
      BY <2>9, LifecycleFrame DEF BeginDetach
    <2>10. ASSUME NEW t \in Threads, NEW r \in Ids, BeginSnapshotDetach(t, r)
          PROVE  \A s \in Ids : Lifecycle(s)!Next \/ UNCHANGED Lifecycle(s)!vars
      BY <2>10, LifecycleFrame DEF BeginSnapshotDetach, Reserved
    <2>11. ASSUME NEW t \in Threads, EndCall(t)
          PROVE  \A s \in Ids : Lifecycle(s)!Next \/ UNCHANGED Lifecycle(s)!vars
      BY <2>11, LifecycleFrame, LifecycleCalls DEF EndCall
    <2>12. ASSUME NEW t \in Threads, EndHookCall(t)
          PROVE  \A s \in Ids : Lifecycle(s)!Next \/ UNCHANGED Lifecycle(s)!vars
      BY <2>12, LifecycleFrame DEF EndHookCall
    <2>13. ASSUME NEW t \in Threads, AdoptHook(t)
          PROVE  \A s \in Ids : Lifecycle(s)!Next \/ UNCHANGED Lifecycle(s)!vars
      BY <2>13, LifecycleFrame DEF AdoptHook, AcceptsLease
    <2>14. ASSUME NEW t \in Threads, MarkFailure(t)
          PROVE  \A s \in Ids : Lifecycle(s)!Next \/ UNCHANGED Lifecycle(s)!vars
      BY <2>14, LifecycleFrame, LifecycleMoves DEF MarkFailure, Markable
    <2>15. ASSUME NEW t \in Threads, Lookup(t)
          PROVE  \A s \in Ids : Lifecycle(s)!Next \/ UNCHANGED Lifecycle(s)!vars
      BY <2>15, LifecycleFrame DEF Lookup
    <2>16. ASSUME NEW t \in Threads, DetachAgain(t)
          PROVE  \A s \in Ids : Lifecycle(s)!Next \/ UNCHANGED Lifecycle(s)!vars
      BY <2>16, LifecycleFrame DEF DetachAgain
    <2>17. ASSUME NEW t \in Threads, Remove(t)
          PROVE  \A s \in Ids : Lifecycle(s)!Next \/ UNCHANGED Lifecycle(s)!vars
      BY <2>17, LifecycleFrame DEF Remove
    <2>18. ASSUME NEW t \in Threads, DetachAttaching(t)
          PROVE  \A s \in Ids : Lifecycle(s)!Next \/ UNCHANGED Lifecycle(s)!vars
      BY <2>18, LifecycleFrame, LifecycleMoves DEF DetachAttaching, Recorded,
         Launching
    <2>19. ASSUME NEW t \in Threads, BeginShutdown(t)
          PROVE  \A s \in Ids : Lifecycle(s)!Next \/ UNCHANGED Lifecycle(s)!vars
      BY <2>19, LifecycleFrame, LifecycleMoves DEF BeginShutdown
    <2>20. ASSUME NEW t \in Threads, EndShutdown(t)
          PROVE  \A s \in Ids : Lifecycle(s)!Next \/ UNCHANGED Lifecycle(s)!vars
      BY <2>20, LifecycleFrame, LifecycleMoves DEF EndShutdown, Restored, Recorded
    <2>21. CASE UNCHANGED vars
      BY <2>21, LifecycleFrame, LifecycleMoves, LifecycleCalls DEF vars
    <2> QED
      BY <1>1, <2>1, <2>2, <2>3, <2>4, <2>5, <2>6, <2>7, <2>8, <2>9, <2>10, <2>11,
         <2>12, <2>13, <2>14, <2>15, <2>16, <2>17, <2>18, <2>19, <2>20, <2>21
      DEF Next, DetachStep
  <1> QED
    BY <1>0, <1>1, InductiveInvariant, PTL DEF Spec, ImplementsLifecycle

=============================================================================
