---------------------------- MODULE HttpSession ----------------------------
(***************************************************************************)
(* The controller's HTTP mode (run_http_rpc_server in injection.rs): one   *)
(* session, a thread per HTTP connection (http_rpc.rs) that calls the      *)
(* agent, and the main thread, which probes the session and, once it has   *)
(* failed, tries to detach it a bounded number of times.                   *)
(*                                                                         *)
(* Calls share the command gate, so the agent's stream has a mutex of its  *)
(* own (ActiveAgentRpcBackend).  A call writes its command, and takes the  *)
(* next reply on the stream for its answer: frames carry no call id.       *)
(***************************************************************************)
EXTENDS SessionRegistry, Sequences

CONSTANTS Main, Clients,
          MaxAttempts    \* max_cleanup_attempts, at least 1

ASSUME HttpThreads == Main \notin Clients /\ Threads = {Main} \union Clients
ASSUME HttpBounds == MaxId = 1 /\ MaxAttempts \in Nat \ {0}

VARIABLES
  at,         \* where each thread is
  stream,     \* owner of the stream's mutex, or NoThread
  wire,       \* the exchanges on the stream whose reply has not been read
  lost,       \* history: a call has failed at the transport
  attempts,   \* cleanup_attempts of the main thread
  clean       \* the last outcome of the main thread's reap or detach is clean

wireVars == <<stream, wire, lost>>
httpVars == <<vars, at, wireVars, attempts, clean>>

session == 1      \* the id of the only session

ClientPoints == {"idle", "issue", "waiting", "reading", "failed", "reaping"}
MainPoints == {"reserve", "attach", "look", "issue", "waiting", "reading",
               "failed", "reaping", "cleanup", "detaching", "cleaned", "gaveUp"}

\* An exchange is live while the thread that sent its command waits for it.
Exchanges == [of : Threads, live : BOOLEAN,
              reply : {"none", "pong", "value", "error"}]

HttpTypeOK == /\ TypeOK
              /\ at \in [Threads -> ClientPoints \union MainPoints]
              /\ stream \in Threads \union {NoThread}
              /\ wire \in Seq(Exchanges)
              /\ lost \in BOOLEAN
              /\ attempts \in 0 .. MaxAttempts
              /\ clean \in BOOLEAN

HttpInit == /\ Init
            /\ at = [t \in Threads |-> IF t = Main THEN "reserve" ELSE "idle"]
            /\ stream = NoThread
            /\ wire = <<>>
            /\ lost = FALSE
            /\ attempts = 0
            /\ clean = FALSE

-----------------------------------------------------------------------------
(* Helpers *)

Move(t, point) == at' = [at EXCEPT ![t] = point]

\* When the main thread returns the process ends, its other threads with it.
Ended == at[Main] \in {"cleaned", "gaveUp"}
Serving == at[Main] \notin {"reserve", "attach", "cleaned", "gaveUp"}

\* Where a thread goes on after a call without a transport failure.
Home(t) == IF t = Main THEN "look" ELSE "idle"

-----------------------------------------------------------------------------
(* Start *)

\* SessionRegistry::attach, before the listener starts.
Register == /\ at[Main] = "reserve"
            /\ Reserve
            /\ Move(Main, "attach")
            /\ UNCHANGED <<wireVars, attempts, clean>>

Attach == /\ at[Main] = "attach"
          /\ CompleteAttach(session)
          /\ Move(Main, "look")
          /\ UNCHANGED <<wireVars, attempts, clean>>

-----------------------------------------------------------------------------
(* A call: an RPC of a client, a health probe of the main thread *)

\* A connection asks for the session; it may be gone from the registry by then,
\* which answers the request.
Request(c) == /\ c \in Clients
              /\ at[c] = "idle"
              /\ session \in registry
              /\ Move(c, "issue")
              /\ UNCHANGED <<vars, wireVars, attempts, clean>>

\* std's RwLock queues its waiters on the platforms of this code: who waits for
\* the exclusive gate goes before the readers that come later.
WriterQueued == \E u \in Threads : op[u] \in {"mark", "detach"}

\* Session::rpc_call and health_check up to the backend.
Issue(t) ==
  /\ at[t] = "issue"
  /\ ~WriterQueued
  /\ \/ BeginCall(t, session) /\ Move(t, "waiting")
     \/ /\ CanRead(session) /\ ~Callable(session)
        /\ Move(t, "failed")
        /\ UNCHANGED vars
  /\ UNCHANGED <<wireVars, attempts, clean>>

\* The stream is locked and the command written.
Send(t) ==
  /\ at[t] = "waiting"
  /\ stream = NoThread
  /\ agent[session] = "serving"
  /\ stream' = t
  /\ wire' = Append(wire, [of |-> t, live |-> TRUE, reply |-> "none"])
  /\ Move(t, "reading")
  /\ UNCHANGED <<vars, lost, attempts, clean>>

\* The agent takes commands one by one, and answers each before the next.
AgentAnswers(i) ==
  /\ agent[session] = "serving"
  /\ wire[i].reply = "none"
  /\ \A j \in 1 .. i - 1 : wire[j].reply # "none"
  /\ \E r \in IF wire[i].of = Main THEN {"pong"} ELSE {"value", "error"} :
       wire' = [wire EXCEPT ![i].reply = r]
  /\ UNCHANGED <<vars, at, stream, lost, attempts, clean>>

\* The exchanges of a thread that no longer waits.
Abandon(t, w) ==
  [i \in DOMAIN w |-> IF w[i].of = t THEN [w[i] EXCEPT !.live = FALSE] ELSE w[i]]

\* What backends make of a reply.  The answer of a ping is no JSON value; an
\* error is an answer to a client, and a failed probe to the main thread.
\* Mutant: the error of an RPC is taken for a transport failure.
UnavailableOnError(t, reply) == reply = "error" \/ (t # Main /\ reply = "pong")
Unavailable(t, reply) == IF t = Main THEN reply = "error" ELSE reply = "pong"

\* The next reply on the stream, whoever asked for it, ends the call.
Read(t) ==
  /\ at[t] = "reading"
  /\ Head(wire).reply # "none"
  /\ EndCall(t)
  /\ stream' = NoThread
  /\ wire' = Abandon(t, Tail(wire))
  /\ Move(t, IF Unavailable(t, Head(wire).reply) THEN "failed" ELSE Home(t))
  /\ UNCHANGED <<lost, attempts, clean>>

\* A read fails when it times out, at the end of the stream, or on a frame that
\* an earlier time-out has cut in two.  Mutant: there is no time-out.
ReadFailsAtEnd == Head(wire).reply = "none" /\ agent[session] = "gone"
ReadFails == Head(wire).reply = "none" \/ ~Head(wire).live

\* Where a thread goes on after a transport failure.  Mutant: only the main
\* thread, which watches the session's health, reaps it.
MainReaps(t) == IF t = Main THEN "failed" ELSE "idle"
AfterFailure(t) == "failed"

\* The call fails at the transport, in its write or in its read.
Fail(t) ==
  /\ \/ at[t] = "waiting" /\ stream = NoThread
     \/ at[t] = "reading" /\ ReadFails
  /\ EndCall(t)
  /\ stream' = NoThread
  /\ wire' = Abandon(t, wire)
  /\ lost' = TRUE
  /\ Move(t, AfterFailure(t))
  /\ UNCHANGED <<attempts, clean>>

-----------------------------------------------------------------------------
(* Reaping *)

\* SessionRegistryRpcBackend::rpc_call and run_single_session_liveness reap the
\* session after a failed call.
Reap(t) == /\ at[t] = "failed"
           /\ BeginReap(t, session)
           /\ Move(t, "reaping")
           /\ UNCHANGED <<wireVars, attempts, clean>>

\* Whether the detach the thread is in ends cleanly with this step.  Mutant: a
\* shutdown counts, whatever came of it.
OutcomeOfAnyShutdown(t) == op[t] \in {"shutdown", "remove"}
Outcome(t) == op[t] = "remove"

RegistryStep(t) == /\ DetachStep(t)
                   /\ clean' = IF t = Main THEN Outcome(t) ELSE clean
                   /\ UNCHANGED <<at, wireVars, attempts>>

\* A client returns Unavailable to its peer.
Reaped(c) == /\ c \in Clients
             /\ at[c] = "reaping" /\ op[c] = "idle"
             /\ Move(c, "idle")
             /\ UNCHANGED <<vars, wireVars, attempts, clean>>

-----------------------------------------------------------------------------
(* The main thread: run_single_session_liveness *)

\* registry.get and is_attached, at the top of the loop.
Look == /\ at[Main] = "look"
        /\ Move(Main, CASE session \notin registry -> "cleaned"
                       [] session \in registry /\ state[session] = "Attached" -> "issue"
                       [] OTHER -> "cleanup")
        /\ UNCHANGED <<vars, wireVars, attempts, clean>>

\* The end of a cleanup attempt: the server gives up after MaxAttempts of them.
\* Mutant: an attempt is not counted.
NotCounted == attempts
Counted == attempts + 1
Enough(n) == n >= MaxAttempts
Attempted(ok) ==
  /\ attempts' = IF ok THEN attempts ELSE Counted
  /\ Move(Main, IF ok THEN "cleaned"
                ELSE IF Enough(attempts') THEN "gaveUp" ELSE "look")

\* registry.detach of a session that is not attached: NotFound is an attempt.
Retry == /\ at[Main] = "cleanup"
            /\ \/ /\ BeginDetach(Main, session)
                  /\ Move(Main, "detaching")
                  /\ UNCHANGED attempts
               \/ session \notin registry /\ Attempted(FALSE) /\ UNCHANGED vars
            /\ UNCHANGED <<wireVars, clean>>

CleanedUp == /\ at[Main] \in {"reaping", "detaching"} /\ op[Main] = "idle"
             /\ Attempted(clean)
             /\ clean' = FALSE
             /\ UNCHANGED <<vars, wireVars>>

-----------------------------------------------------------------------------
Crash == AgentDies(session) /\ UNCHANGED <<at, wireVars, attempts, clean>>

Terminated == Ended /\ UNCHANGED httpVars

MainStep == Look \/ Retry \/ CleanedUp

ThreadStep(t) == \/ Issue(t) \/ Send(t) \/ Read(t) \/ Fail(t)
                 \/ Reap(t) \/ RegistryStep(t) \/ Reaped(t)

HttpNext == \/ Register \/ Attach \/ Terminated
            \/ /\ Serving
               /\ \/ MainStep \/ Crash
                  \/ \E t \in Threads : Request(t) \/ ThreadStep(t)
                  \/ \E i \in DOMAIN wire : AgentAnswers(i)

HttpSpec == HttpInit /\ [][HttpNext]_httpVars

\* Every thread runs until its wait ends, and a wait for a lock ends if the lock
\* is free again and again; a read ends by its time-out at the latest.  Clients
\* connect when they like, and the agent need not answer.
HttpFairness == /\ SF_httpVars(Serving /\ MainStep)
                /\ \A t \in Threads : SF_httpVars(Serving /\ ThreadStep(t))

FairHttpSpec == HttpSpec /\ HttpFairness

-----------------------------------------------------------------------------
(* Properties *)

\* An agent that answers in time keeps its session, whatever its scripts answer:
\* the session is given up only after a call has failed at the transport ("only
\* an unavailable command transport is evidence for registry cleanup").
HealthyStaysAttached ==
  state[session] \in {"Failed", "Detaching", "Detached"} => lost

\* A reply that nobody waits for any more is on the stream only while its session
\* is on its way out: some thread is about to mark it failed, or it has been.
LateReplyDoomsSession ==
  (\E i \in DOMAIN wire : ~wire[i].live)
    => \/ state[session] # "Attached"
       \/ \E t \in Threads : at[t] \in {"failed", "reaping"}

\* The result of the server is true: it ends well only if the session has been
\* detached and has left the registry, and it gives up only on a session that
\* has failed, after that many attempts.
EndsTruthfully ==
  /\ at[Main] = "cleaned" => state[session] = "Detached" /\ session \notin registry
  /\ at[Main] = "gaveUp" => state[session] # "Attached" /\ attempts = MaxAttempts

\* A session that has failed, or whose agent is gone, ends the server without any
\* request and whatever the clients do (bounded retries, then a definite exit).
FailureEndsServer ==
  state[session] = "Failed" \/ agent[session] = "gone" ~> Ended

\* Every request returns: no client waits for ever for the gate, for the stream,
\* or for an agent that does not answer.
RequestsReturn == \A c \in Clients : at[c] # "idle" ~> at[c] = "idle" \/ Ended
=============================================================================
