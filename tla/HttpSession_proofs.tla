------------------------- MODULE HttpSession_proofs -------------------------
(***************************************************************************)
(* Theorems of HttpSession, for any set of clients and any number of       *)
(* cleanup attempts: it implements the registry, it keeps a healthy        *)
(* session, a late reply is only left on a stream that is given up, and    *)
(* the server's end says the truth about the session.                      *)
(***************************************************************************)
EXTENDS HttpSession, SessionRegistry_proofs, SequenceTheorems

Down == {"Failed", "Detaching", "Detached"}
DetachOps == {"mark", "lookup", "detach", "shutdown", "remove"}

\* The types of the module's own variables, the length of the wire aside.
LoopTypeOK == /\ at \in [Threads -> ClientPoints \union MainPoints]
              /\ stream \in Threads \union {NoThread}
              /\ wire \in Seq(Exchanges)
              /\ lost \in BOOLEAN
              /\ attempts \in 0 .. MaxAttempts
              /\ clean \in BOOLEAN

\* What a thread's place says of its operation, and of the session.
PlaceInv ==
  /\ \A t \in Threads :
       /\ at[t] \in {"waiting", "reading"} => op[t] = "call"
       /\ at[t] \in {"reaping", "detaching"} => op[t] \in DetachOps \union {"idle"}
       /\ at[t] \notin {"waiting", "reading", "reaping", "detaching"} => op[t] = "idle"
       /\ at[t] = "reading" <=> stream = t
       /\ at[t] = "reaping" /\ op[t] # "mark" => state[session] \in Down
       /\ at[t] \in {"cleanup", "detaching"} => state[session] \in Down
  /\ \A c \in Clients : at[c] \in ClientPoints
  /\ at[Main] = "reserve" => state[session] = "Unreserved"
  /\ at[Main] = "attach" => state[session] = "Attaching"
  /\ at[Main] \notin {"reserve", "attach"} => state[session] \in Down \union {"Attached"}

\* What is on the wire: the live exchange is that of the stream's owner, and every
\* reply is one the agent gives to that thread.
WireInv ==
  /\ \A i \in DOMAIN wire :
       /\ wire[i].live => wire[i].of = stream
       /\ wire[i].reply = "pong" => wire[i].of = Main
       /\ wire[i].reply \in {"value", "error"} => wire[i].of # Main
  /\ \A i, j \in DOMAIN wire : wire[i].live /\ wire[j].live => i = j
  /\ stream # NoThread => \E i \in DOMAIN wire : wire[i].live

\* Where a transport failure must have come first.
LostInv ==
  /\ state[session] \in Down => lost
  /\ \A t \in Threads : at[t] \in {"failed", "reaping"} => lost
  /\ \A i \in DOMAIN wire : wire[i].live \/ lost

\* What the main thread's counters say of the session.
EndInv ==
  /\ clean => state[session] = "Detached" /\ session \notin registry
  /\ attempts > 0 => state[session] \in Down
  /\ attempts < MaxAttempts \/ at[Main] = "gaveUp"
  /\ at[Main] = "gaveUp" => attempts = MaxAttempts
  /\ at[Main] = "cleaned" => state[session] = "Detached" /\ session \notin registry

\* A late reply dooms the session; there is none before the listener starts.
DoomInv == /\ LateReplyDoomsSession
           /\ at[Main] \in {"reserve", "attach"} => \A i \in DOMAIN wire : wire[i].live

HttpInv == LoopTypeOK /\ PlaceInv /\ WireInv /\ LostInv /\ EndInv

-----------------------------------------------------------------------------

LEMMA OneSession == Ids = {1} /\ session \in Ids /\ session = 1
  BY HttpBounds DEF Ids, session

LEMMA HttpThreadNames == /\ Main \in Threads /\ NoThread \notin Threads
                         /\ Clients \subseteq Threads /\ Main \notin Clients
                         /\ \A t \in Threads : t = Main \/ t \in Clients
  BY HttpThreads, ThreadsAssumption

\* Every step of the HTTP mode is a step of the registry or leaves it alone.
LEMMA HttpStep == [HttpNext]_httpVars => [Next]_vars
  <1> SUFFICES ASSUME [HttpNext]_httpVars PROVE [Next]_vars
    OBVIOUS
  <1> USE OneSession, HttpThreadNames
  <1>1. CASE Register
    BY <1>1 DEF Register, Next
  <1>2. CASE Attach
    BY <1>2 DEF Attach, Next
  <1>3. CASE Look \/ CleanedUp \/ Terminated \/ UNCHANGED httpVars
    BY <1>3 DEF Look, CleanedUp, Terminated, httpVars
  <1>4. CASE Retry
    BY <1>4 DEF Retry, Next
  <1>5. CASE Crash
    BY <1>5 DEF Crash, Next
  <1>6. ASSUME NEW t \in Threads, Request(t) \/ Send(t) \/ Reaped(t) PROVE [Next]_vars
    BY <1>6 DEF Request, Send, Reaped
  <1>7. ASSUME NEW t \in Threads, Issue(t) PROVE [Next]_vars
    BY <1>7 DEF Issue, Next
  <1>8. ASSUME NEW t \in Threads, Read(t) PROVE [Next]_vars
    BY <1>8 DEF Read, Next
  <1>9. ASSUME NEW t \in Threads, Fail(t) PROVE [Next]_vars
    BY <1>9 DEF Fail, Next
  <1>10. ASSUME NEW t \in Threads, Reap(t) PROVE [Next]_vars
    BY <1>10 DEF Reap, Next
  <1>11. ASSUME NEW t \in Threads, RegistryStep(t) PROVE [Next]_vars
    BY <1>11 DEF RegistryStep, Next
  <1>12. ASSUME NEW i \in DOMAIN wire, AgentAnswers(i) PROVE [Next]_vars
    BY <1>12 DEF AgentAnswers
  <1> QED
    BY <1>1, <1>2, <1>3, <1>4, <1>5, <1>6, <1>7, <1>8, <1>9, <1>10, <1>11, <1>12
    DEF HttpNext, MainStep, ThreadStep

\* The HTTP mode implements the registry: the main thread and the connections use
\* it as SessionRegistry allows.
THEOREM HttpImplementsRegistry == HttpSpec => Spec
  <1>1. HttpInit => Init
    BY DEF HttpInit
  <1> QED
    BY <1>1, HttpStep, PTL DEF HttpSpec, Spec

-----------------------------------------------------------------------------

\* What a step of a reap or a detach does to the session and to the thread.
LEMMA DetachStepEffect ==
  ASSUME IInv, NEW t \in Threads, DetachStep(t), op[t] # "hookmark"
  PROVE  /\ op[t] \in DetachOps /\ op'[t] \in (DetachOps \ {"mark"}) \union {"idle"}
         /\ \A u \in Threads \ {t} : op'[u] = op[u]
         /\ \A s \in Ids : state'[s] = state[s] \/ state'[s] \in Down
         /\ \A s \in Ids : state[s] = "Detached" => state'[s] = "Detached"
         /\ registry' \subseteq registry
         /\ op[t] = "remove" => state'[on[t]] = "Detached" /\ on[t] \notin registry'
         /\ op[t] = "mark" =>
              (state[on[t]] \in Down \union {"Attached"} => state'[on[t]] \in Down)
  <1>i. TypeOK /\ GateInv /\ StateInv /\ ThreadInv
    BY DEF IInv
  <1> USE <1>i, GotoEffect, FinishEffect, ThreadsAssumption
      DEF DetachOps, Down, TypeOK, sessionVars
  <1>1. CASE MarkFailure(t)
    BY <1>1 DEF MarkFailure, Markable
  <1>2. CASE Lookup(t)
    BY <1>2 DEF Lookup
  <1>3. CASE DetachAttaching(t)
    BY <1>3 DEF DetachAttaching, Recorded, Launching
  <1>4. CASE BeginShutdown(t)
    BY <1>4 DEF BeginShutdown
  <1>5. CASE DetachAgain(t)
    BY <1>5 DEF DetachAgain
  <1>6. CASE EndShutdown(t)
    BY <1>6 DEF EndShutdown, Recorded, GateInv, StateInv
  <1>7. CASE Remove(t)
    BY <1>7 DEF Remove, ThreadInv
  <1> QED
    BY <1>1, <1>2, <1>3, <1>4, <1>5, <1>6, <1>7 DEF DetachStep

\* What a thread's move does.
LEMMA MoveEffect ==
  ASSUME LoopTypeOK, NEW t \in Threads, NEW point, Move(t, point)
  PROVE  at'[t] = point /\ \A u \in Threads \ {t} : at'[u] = at[u]
  BY DEF LoopTypeOK, Move

LEMMA AbandonType ==
  ASSUME NEW w \in Seq(Exchanges), NEW t
  PROVE  /\ Abandon(t, w) \in Seq(Exchanges)
         /\ Len(Abandon(t, w)) = Len(w) /\ DOMAIN Abandon(t, w) = DOMAIN w
         /\ \A i \in DOMAIN w : /\ Abandon(t, w)[i].of = w[i].of
                                /\ Abandon(t, w)[i].reply = w[i].reply
                                /\ Abandon(t, w)[i].live <=> w[i].live /\ w[i].of # t
  <1>1. \A i \in 1 .. Len(w) : w[i] \in Exchanges
    OBVIOUS
  <1>2. DOMAIN w = 1 .. Len(w) /\ Len(w) \in Nat
    OBVIOUS
  <1>3. \A i \in 1 .. Len(w) : Abandon(t, w)[i] \in Exchanges
    BY <1>1, <1>2 DEF Abandon, Exchanges
  <1>4. /\ Abandon(t, w) \in Seq(Exchanges)
        /\ Len(Abandon(t, w)) = Len(w) /\ DOMAIN Abandon(t, w) = DOMAIN w
    BY <1>2, <1>3 DEF Abandon
  <1>5. ASSUME NEW i \in DOMAIN w
        PROVE  /\ Abandon(t, w)[i].of = w[i].of
               /\ Abandon(t, w)[i].reply = w[i].reply
               /\ Abandon(t, w)[i].live <=> w[i].live /\ w[i].of # t
    BY <1>1, <1>2, <1>5 DEF Abandon, Exchanges
  <1> QED
    BY <1>4, <1>5

\* Who reads has something to read.
LEMMA WireNotEmpty ==
  ASSUME HttpInv, NEW t \in Threads, at[t] = "reading"
  PROVE  /\ stream = t /\ wire # <<>>
         /\ \E i \in DOMAIN wire : wire[i].live /\ wire[i].of = t
  BY HttpThreadNames DEF HttpInv, LoopTypeOK, PlaceInv, WireInv

\* What the steps on the stream do to the wire.
LEMMA SendEffect ==
  ASSUME LoopTypeOK, NEW t \in Threads, Send(t)
  PROVE  /\ wire' \in Seq(Exchanges) /\ DOMAIN wire' = DOMAIN wire \union {Len(wire) + 1}
         /\ DOMAIN wire = 1 .. Len(wire) /\ Len(wire) \in Nat
         /\ \A i \in DOMAIN wire : wire'[i] = wire[i]
         /\ LET e == wire'[Len(wire) + 1] IN e.of = t /\ e.live /\ e.reply = "none"
  <1> DEFINE e == [of |-> t, live |-> TRUE, reply |-> "none"]
  <1>1. e \in Exchanges /\ e.of = t /\ e.live /\ e.reply = "none"
    BY DEF Exchanges
  <1>2. wire' = Append(wire, e)
    BY DEF Send
  <1> HIDE DEF e
  <1> QED
    BY <1>1, <1>2, AppendProperties DEF LoopTypeOK

\* Exchanges are of threads, so none is live while nobody owns the stream.
LEMMA QuietWire ==
  ASSUME HttpInv, NEW i \in DOMAIN wire
  PROVE  wire[i].of \in Threads /\ (stream = NoThread => ~wire[i].live)
  <1>1. wire[i] \in Exchanges
    BY DEF HttpInv, LoopTypeOK
  <1> QED
    BY <1>1, HttpThreadNames DEF HttpInv, WireInv, Exchanges

LEMMA ReadEffect ==
  ASSUME HttpInv, NEW t \in Threads, Read(t)
  PROVE  /\ wire' \in Seq(Exchanges)
         /\ \A i \in DOMAIN wire' :
              /\ i \in Nat /\ i + 1 \in DOMAIN wire
              /\ wire'[i].of = wire[i + 1].of /\ wire'[i].reply = wire[i + 1].reply
              /\ wire'[i].live <=> wire[i + 1].live /\ wire[i + 1].of # t
         /\ Head(wire) = wire[1] /\ 1 \in DOMAIN wire
  <1>1. wire # <<>> /\ wire \in Seq(Exchanges)
    BY WireNotEmpty DEF Read, HttpInv, LoopTypeOK
  <1> DEFINE w == Tail(wire)
  <1>2. /\ w \in Seq(Exchanges) /\ Len(w) = Len(wire) - 1
        /\ \A i \in 1 .. Len(w) : w[i] = wire[i + 1]
        /\ Head(wire) = wire[1] /\ Len(wire) \in Nat \ {0}
        /\ DOMAIN wire = 1 .. Len(wire) /\ DOMAIN w = 1 .. Len(w)
    BY <1>1
  <1>3. wire' = Abandon(t, w)
    BY DEF Read
  <1> HIDE DEF w
  <1>4. /\ wire' \in Seq(Exchanges) /\ DOMAIN wire' = DOMAIN w
        /\ \A i \in DOMAIN w : /\ wire'[i].of = w[i].of /\ wire'[i].reply = w[i].reply
                               /\ wire'[i].live <=> w[i].live /\ w[i].of # t
    BY <1>2, <1>3, AbandonType
  <1>5. \A i \in DOMAIN wire' : i \in Nat /\ i + 1 \in DOMAIN wire /\ w[i] = wire[i + 1]
    BY <1>2, <1>4
  <1> QED
    BY <1>2, <1>4, <1>5

LEMMA FailEffect ==
  ASSUME HttpInv, NEW t \in Threads, Fail(t)
  PROVE  /\ wire' \in Seq(Exchanges) /\ DOMAIN wire' = DOMAIN wire
         /\ \A i \in DOMAIN wire :
              /\ wire'[i].of = wire[i].of /\ wire'[i].reply = wire[i].reply
              /\ wire'[i].live <=> wire[i].live /\ wire[i].of # t
  BY AbandonType DEF Fail, HttpInv, LoopTypeOK

LEMMA AnswerEffect ==
  ASSUME LoopTypeOK, NEW i \in DOMAIN wire, AgentAnswers(i)
  PROVE  /\ wire' \in Seq(Exchanges) /\ DOMAIN wire' = DOMAIN wire
         /\ \A j \in DOMAIN wire : wire'[j].of = wire[j].of /\ wire'[j].live = wire[j].live
         /\ \A j \in DOMAIN wire \ {i} : wire'[j].reply = wire[j].reply
         /\ IF wire[i].of = Main THEN wire'[i].reply = "pong"
                                 ELSE wire'[i].reply \in {"value", "error"}
  <1>1. PICK r \in IF wire[i].of = Main THEN {"pong"} ELSE {"value", "error"} :
          wire' = [wire EXCEPT ![i].reply = r]
    BY DEF AgentAnswers
  <1> DEFINE e == [of |-> wire[i].of, live |-> wire[i].live, reply |-> r]
  <1>2. /\ i \in 1 .. Len(wire) /\ wire \in Seq(Exchanges)
        /\ DOMAIN wire = 1 .. Len(wire) /\ wire[i] \in Exchanges
    BY DEF LoopTypeOK
  <1>3. e \in Exchanges /\ [wire[i] EXCEPT !.reply = r] = e
    BY <1>2 DEF Exchanges
  <1>4. wire' = [wire EXCEPT ![i] = e]
    BY <1>1, <1>3
  <1> HIDE DEF e
  <1>5. /\ wire' \in Seq(Exchanges) /\ DOMAIN wire' = DOMAIN wire /\ wire'[i] = e
        /\ \A j \in DOMAIN wire \ {i} : wire'[j] = wire[j]
    BY <1>2, <1>3, <1>4, ExceptSeq
  <1> QED
    BY <1>5 DEF e

\* Every step keeps the types of the module's own variables.
LEMMA LoopTypeStep == HttpInv /\ [HttpNext]_httpVars => LoopTypeOK'
  <1> SUFFICES ASSUME HttpInv, [HttpNext]_httpVars PROVE LoopTypeOK'
    OBVIOUS
  <1>i. LoopTypeOK /\ WireInv /\ EndInv /\ PlaceInv
    BY DEF HttpInv
  <1> USE <1>i, HttpThreadNames, HttpBounds
      DEF LoopTypeOK, ClientPoints, MainPoints, wireVars, Move
  <1>1. CASE Register
    BY <1>1 DEF Register
  <1>2. CASE Attach
    BY <1>2 DEF Attach
  <1>3. CASE Serving /\ Look
    BY <1>3 DEF Look
  <1>4. CASE Serving /\ Retry
    BY <1>4 DEF Retry, Attempted, Counted, Enough, EndInv, Serving
  <1>5. CASE Serving /\ CleanedUp
    <2>1. attempts' \in 0 .. MaxAttempts
      BY <1>5 DEF CleanedUp, Attempted, Counted, Serving, EndInv
    <2> QED
      BY <1>5, <2>1 DEF CleanedUp, Attempted
  <1>6. CASE Serving /\ Crash
    BY <1>6 DEF Crash
  <1>7. ASSUME NEW t \in Threads, Serving, Request(t) PROVE LoopTypeOK'
    BY <1>7 DEF Request
  <1>8. ASSUME NEW t \in Threads, Serving, Issue(t) PROVE LoopTypeOK'
    BY <1>8 DEF Issue
  <1>9. ASSUME NEW t \in Threads, Serving, Send(t) PROVE LoopTypeOK'
    BY <1>9, SendEffect DEF Send
  <1>10. ASSUME NEW t \in Threads, Serving, Read(t) PROVE LoopTypeOK'
    BY <1>10, ReadEffect DEF Read, Home
  <1>11. ASSUME NEW t \in Threads, Serving, Fail(t) PROVE LoopTypeOK'
    BY <1>11, FailEffect DEF Fail, AfterFailure
  <1>12. ASSUME NEW t \in Threads, Serving, Reap(t) PROVE LoopTypeOK'
    BY <1>12 DEF Reap
  <1>13. ASSUME NEW t \in Threads, Serving, RegistryStep(t) PROVE LoopTypeOK'
    BY <1>13 DEF RegistryStep, Outcome
  <1>14. ASSUME NEW t \in Threads, Serving, Reaped(t) PROVE LoopTypeOK'
    BY <1>14 DEF Reaped
  <1>15. ASSUME NEW i \in DOMAIN wire, Serving, AgentAnswers(i) PROVE LoopTypeOK'
    BY <1>15, AnswerEffect DEF AgentAnswers
  <1>16. CASE Terminated \/ UNCHANGED httpVars
    BY <1>16 DEF Terminated, httpVars, vars, threadVars, wireVars
  <1> QED
    BY <1>1, <1>2, <1>3, <1>4, <1>5, <1>6, <1>7, <1>8, <1>9, <1>10, <1>11,
       <1>12, <1>13, <1>14, <1>15, <1>16
    DEF HttpNext, MainStep, ThreadStep

\* Every step keeps the threads' places in step with their operations.
LEMMA PlaceStep == IInv /\ HttpInv /\ [HttpNext]_httpVars => PlaceInv'
  <1> SUFFICES ASSUME IInv, HttpInv, [HttpNext]_httpVars PROVE PlaceInv'
    OBVIOUS
  <1>i. /\ TypeOK /\ GateInv /\ StateInv /\ ThreadInv
        /\ LoopTypeOK /\ PlaceInv /\ WireInv /\ LostInv /\ EndInv
    BY DEF IInv, HttpInv
  <1>s. session \in Ids /\ Ids = {session}
    BY OneSession
  <1> USE <1>i, <1>s, HttpThreadNames
      DEF PlaceInv, TypeOK, Down, ClientPoints, vars, wireVars,
          sessionVars, threadVars, gateVars
  <1>1. CASE Register
    BY <1>1, MoveEffect DEF Register, Reserve, NewId, IdLeft
  <1>2. CASE Attach
    BY <1>2, MoveEffect DEF Attach, CompleteAttach, Launching
  <1>3. CASE Serving /\ Look
    BY <1>3, MoveEffect DEF Look, Serving, StateInv
  <1>4. CASE Serving /\ Retry
    BY <1>4, MoveEffect, GotoEffect DEF Retry, BeginDetach, Attempted, DetachOps
  <1>5. CASE Serving /\ CleanedUp
    BY <1>5, MoveEffect DEF CleanedUp, Attempted, DetachOps, Serving
  <1>6. CASE Serving /\ Crash
    BY <1>6 DEF Crash, AgentDies
  <1>7. ASSUME NEW t \in Threads, Serving, Request(t) PROVE PlaceInv'
    BY <1>7, MoveEffect DEF Request
  <1>8. ASSUME NEW t \in Threads, Serving, Issue(t) PROVE PlaceInv'
    BY <1>8, MoveEffect, GotoEffect DEF Issue, BeginCall, Serving
  <1>9. ASSUME NEW t \in Threads, Serving, Send(t) PROVE PlaceInv'
    BY <1>9, MoveEffect DEF Send, Serving
  <1>10. ASSUME NEW t \in Threads, Serving, Read(t) PROVE PlaceInv'
    BY <1>10, MoveEffect, FinishEffect DEF Read, EndCall, Home, Serving
  <1>11. ASSUME NEW t \in Threads, Serving, Fail(t) PROVE PlaceInv'
    BY <1>11, MoveEffect, FinishEffect DEF Fail, EndCall, AfterFailure, Serving
  <1>12. ASSUME NEW t \in Threads, Serving, Reap(t) PROVE PlaceInv'
    BY <1>12, MoveEffect, GotoEffect DEF Reap, BeginReap, DetachOps, Serving
  <1>13. ASSUME NEW t \in Threads, Serving, RegistryStep(t) PROVE PlaceInv'
    BY <1>13, DetachStepEffect DEF RegistryStep, DetachOps, Serving
  <1>14. ASSUME NEW t \in Threads, Serving, Reaped(t) PROVE PlaceInv'
    BY <1>14, MoveEffect DEF Reaped
  <1>15. ASSUME NEW i \in DOMAIN wire, Serving, AgentAnswers(i) PROVE PlaceInv'
    BY <1>15 DEF AgentAnswers
  <1>16. CASE Terminated \/ UNCHANGED httpVars
    BY <1>16 DEF Terminated, httpVars, vars, threadVars, wireVars
  <1> QED
    BY <1>1, <1>2, <1>3, <1>4, <1>5, <1>6, <1>7, <1>8, <1>9, <1>10, <1>11,
       <1>12, <1>13, <1>14, <1>15, <1>16
    DEF HttpNext, MainStep, ThreadStep


\* Every step keeps the wire in step with the stream's mutex.
LEMMA WireStep == IInv /\ HttpInv /\ [HttpNext]_httpVars => WireInv'
  <1> SUFFICES ASSUME IInv, HttpInv, [HttpNext]_httpVars PROVE WireInv'
    OBVIOUS
  <1>i. /\ TypeOK /\ GateInv /\ StateInv /\ ThreadInv
        /\ LoopTypeOK /\ PlaceInv /\ WireInv /\ LostInv /\ EndInv
    BY DEF IInv, HttpInv
  <1>s. session \in Ids /\ Ids = {session}
    BY OneSession
  <1> USE <1>i, <1>s, HttpThreadNames
      DEF WireInv, LoopTypeOK, vars, wireVars, Exchanges
  <1>1. CASE Register
    BY <1>1 DEF Register
  <1>2. CASE Attach
    BY <1>2 DEF Attach
  <1>3. CASE Serving /\ Look
    BY <1>3 DEF Look
  <1>4. CASE Serving /\ Retry
    BY <1>4 DEF Retry
  <1>5. CASE Serving /\ CleanedUp
    BY <1>5 DEF CleanedUp
  <1>6. CASE Serving /\ Crash
    BY <1>6 DEF Crash
  <1>7. ASSUME NEW t \in Threads, Serving, Request(t) PROVE WireInv'
    BY <1>7 DEF Request
  <1>8. ASSUME NEW t \in Threads, Serving, Issue(t) PROVE WireInv'
    BY <1>8 DEF Issue
  <1>9. ASSUME NEW t \in Threads, Serving, Send(t) PROVE WireInv'
    <2>1. stream = NoThread /\ stream' = t /\ t # NoThread
      BY <1>9 DEF Send
    <2>2. \A i \in DOMAIN wire : ~wire[i].live
      BY <2>1, QuietWire
    <2>3. \A i \in DOMAIN wire' : i \in DOMAIN wire \/ i = Len(wire) + 1
      BY <1>9, SendEffect
    <2>4. /\ \A i \in DOMAIN wire : wire'[i] = wire[i]
          /\ Len(wire) + 1 \in DOMAIN wire'
          /\ wire'[Len(wire) + 1].of = t /\ wire'[Len(wire) + 1].live
          /\ wire'[Len(wire) + 1].reply = "none"
      BY <1>9, SendEffect
    <2> QED
      BY <2>1, <2>2, <2>3, <2>4
  <1>10. ASSUME NEW t \in Threads, Serving, Read(t) PROVE WireInv'
    <2>1. stream = t /\ stream' = NoThread
      BY <1>10 DEF Read, PlaceInv
    <2>2. \A i \in DOMAIN wire' : ~wire'[i].live
      BY <1>10, <2>1, ReadEffect
    <2>3. \A i \in DOMAIN wire' :
            /\ wire'[i].reply = "pong" => wire'[i].of = Main
            /\ wire'[i].reply \in {"value", "error"} => wire'[i].of # Main
      BY <1>10, ReadEffect
    <2> QED
      BY <2>1, <2>2, <2>3
  <1>11. ASSUME NEW t \in Threads, Serving, Fail(t) PROVE WireInv'
    <2>1. stream \in {t, NoThread} /\ stream' = NoThread
      BY <1>11 DEF Fail, PlaceInv
    <2>2. \A i \in DOMAIN wire' : ~wire'[i].live
      BY <1>11, <2>1, FailEffect, QuietWire
    <2>3. \A i \in DOMAIN wire' :
            /\ wire'[i].reply = "pong" => wire'[i].of = Main
            /\ wire'[i].reply \in {"value", "error"} => wire'[i].of # Main
      BY <1>11, FailEffect
    <2> QED
      BY <2>1, <2>2, <2>3
  <1>12. ASSUME NEW t \in Threads, Serving, Reap(t) PROVE WireInv'
    BY <1>12 DEF Reap
  <1>13. ASSUME NEW t \in Threads, Serving, RegistryStep(t) PROVE WireInv'
    BY <1>13 DEF RegistryStep
  <1>14. ASSUME NEW t \in Threads, Serving, Reaped(t) PROVE WireInv'
    BY <1>14 DEF Reaped
  <1>15. ASSUME NEW i \in DOMAIN wire, Serving, AgentAnswers(i) PROVE WireInv'
    BY <1>15, AnswerEffect DEF AgentAnswers
  <1>16. CASE Terminated \/ UNCHANGED httpVars
    BY <1>16 DEF Terminated, httpVars, vars, threadVars, wireVars
  <1> QED
    BY <1>1, <1>2, <1>3, <1>4, <1>5, <1>6, <1>7, <1>8, <1>9, <1>10, <1>11,
       <1>12, <1>13, <1>14, <1>15, <1>16
    DEF HttpNext, MainStep, ThreadStep


\* Every step keeps LostInv: nothing is given up before a transport failure.
LEMMA LostStep == IInv /\ HttpInv /\ [HttpNext]_httpVars => LostInv'
  <1> SUFFICES ASSUME IInv, HttpInv, [HttpNext]_httpVars PROVE LostInv'
    OBVIOUS
  <1>i. /\ TypeOK /\ GateInv /\ StateInv /\ ThreadInv
        /\ LoopTypeOK /\ PlaceInv /\ WireInv /\ LostInv /\ EndInv
    BY DEF IInv, HttpInv
  <1>s. session \in Ids /\ Ids = {session}
    BY OneSession
  <1> USE <1>i, <1>s, HttpThreadNames
      DEF LostInv, TypeOK, Down, vars, wireVars, sessionVars, threadVars,
          gateVars
  <1>1. CASE Register
    BY <1>1, MoveEffect DEF Register, Reserve, NewId, IdLeft, PlaceInv
  <1>2. CASE Attach
    BY <1>2, MoveEffect DEF Attach, CompleteAttach, Launching
  <1>3. CASE Serving /\ Look
    BY <1>3, MoveEffect DEF Look
  <1>4. CASE Serving /\ Retry
    BY <1>4, MoveEffect, GotoEffect DEF Retry, BeginDetach, Attempted
  <1>5. CASE Serving /\ CleanedUp
    BY <1>5, MoveEffect DEF CleanedUp, Attempted
  <1>6. CASE Serving /\ Crash
    BY <1>6 DEF Crash, AgentDies
  <1>7. ASSUME NEW t \in Threads, Serving, Request(t) PROVE LostInv'
    BY <1>7, MoveEffect DEF Request
  <1>8. ASSUME NEW t \in Threads, Serving, Issue(t) PROVE LostInv'
    BY <1>8, MoveEffect, GotoEffect
      DEF Issue, BeginCall, Serving, Callable, StateInv, PlaceInv
  <1>9. ASSUME NEW t \in Threads, Serving, Send(t) PROVE LostInv'
    <2>1. \A i \in DOMAIN wire' : wire'[i].live \/ lost
      <3>1. wire'[Len(wire) + 1].live
        BY <1>9, SendEffect
      <3> QED
        BY <1>9, <3>1, SendEffect
    <2> QED
      BY <1>9, <2>1, MoveEffect DEF Send
  <1>10. ASSUME NEW t \in Threads, Serving, Read(t) PROVE LostInv'
    <2>1. wire[1].of = t \/ ~wire[1].live
      BY <1>10, ReadEffect DEF Read, PlaceInv, WireInv
    <2>2. \A i \in DOMAIN wire' : wire'[i].live \/ lost
      BY <1>10, ReadEffect DEF WireInv
    <2>3. Unavailable(t, Head(wire).reply) => lost
      BY <2>1, <1>10, ReadEffect DEF Unavailable, WireInv
    <2> QED
      BY <1>10, <2>2, <2>3, MoveEffect DEF Read, EndCall, Home
  <1>11. ASSUME NEW t \in Threads, Serving, Fail(t) PROVE LostInv'
    BY <1>11, MoveEffect DEF Fail, EndCall, AfterFailure
  <1>12. ASSUME NEW t \in Threads, Serving, Reap(t) PROVE LostInv'
    BY <1>12, MoveEffect DEF Reap, BeginReap
  <1>13. ASSUME NEW t \in Threads, Serving, RegistryStep(t) PROVE LostInv'
    BY <1>13, DetachStepEffect DEF RegistryStep, DetachOps, PlaceInv
  <1>14. ASSUME NEW t \in Threads, Serving, Reaped(t) PROVE LostInv'
    BY <1>14, MoveEffect DEF Reaped
  <1>15. ASSUME NEW i \in DOMAIN wire, Serving, AgentAnswers(i) PROVE LostInv'
    BY <1>15, AnswerEffect DEF AgentAnswers
  <1>16. CASE Terminated \/ UNCHANGED httpVars
    BY <1>16 DEF Terminated, httpVars, vars, threadVars, wireVars
  <1> QED
    BY <1>1, <1>2, <1>3, <1>4, <1>5, <1>6, <1>7, <1>8, <1>9, <1>10, <1>11,
       <1>12, <1>13, <1>14, <1>15, <1>16
    DEF HttpNext, MainStep, ThreadStep


\* Every step keeps what the main thread's counters say of the session.
LEMMA EndStep == IInv /\ HttpInv /\ [HttpNext]_httpVars => EndInv'
  <1> SUFFICES ASSUME IInv, HttpInv, [HttpNext]_httpVars PROVE EndInv'
    OBVIOUS
  <1>i. /\ TypeOK /\ GateInv /\ StateInv /\ ThreadInv
        /\ LoopTypeOK /\ PlaceInv /\ WireInv /\ LostInv /\ EndInv
    BY DEF IInv, HttpInv
  <1>s. session \in Ids /\ Ids = {session}
    BY OneSession
  <1> USE <1>i, <1>s, HttpThreadNames
      DEF EndInv, LoopTypeOK, TypeOK, Down, Serving, vars, wireVars,
          sessionVars, threadVars, gateVars
  <1>1. CASE Register
    BY <1>1, MoveEffect DEF Register, Reserve, NewId, IdLeft, PlaceInv
  <1>2. CASE Attach
    BY <1>2, MoveEffect DEF Attach, CompleteAttach, Launching
  <1>3. CASE Serving /\ Look
    BY <1>3, MoveEffect DEF Look, StateInv, PlaceInv
  <1>4. CASE Serving /\ Retry
    <2>1. state[session] \in Down /\ attempts < MaxAttempts /\ attempts \in Nat
      BY <1>4 DEF Retry, PlaceInv
    <2>2. CASE BeginDetach(Main, session) /\ Move(Main, "detaching") /\ UNCHANGED attempts
      BY <1>4, <2>2, MoveEffect DEF Retry, BeginDetach
    <2>3. CASE Attempted(FALSE) /\ UNCHANGED vars
      BY <1>4, <2>1, <2>3, MoveEffect, HttpBounds DEF Retry, Attempted, Counted, Enough
    <2> QED
      BY <1>4, <2>2, <2>3 DEF Retry
  <1>5. CASE Serving /\ CleanedUp
    <2>1. state[session] \in Down /\ attempts < MaxAttempts /\ attempts \in Nat
      BY <1>5 DEF CleanedUp, PlaceInv
    <2>2. CASE clean
      BY <1>5, <2>1, <2>2, MoveEffect DEF CleanedUp, Attempted
    <2>3. CASE ~clean
      BY <1>5, <2>1, <2>3, MoveEffect, HttpBounds DEF CleanedUp, Attempted, Counted, Enough
    <2> QED
      BY <2>2, <2>3
  <1>6. CASE Serving /\ Crash
    BY <1>6 DEF Crash, AgentDies
  <1>7. ASSUME NEW t \in Threads, Serving, Request(t) PROVE EndInv'
    BY <1>7, MoveEffect DEF Request
  <1>8. ASSUME NEW t \in Threads, Serving, Issue(t) PROVE EndInv'
    BY <1>8, MoveEffect DEF Issue, BeginCall
  <1>9. ASSUME NEW t \in Threads, Serving, Send(t) PROVE EndInv'
    BY <1>9, MoveEffect DEF Send
  <1>10. ASSUME NEW t \in Threads, Serving, Read(t) PROVE EndInv'
    BY <1>10, MoveEffect DEF Read, EndCall, Home
  <1>11. ASSUME NEW t \in Threads, Serving, Fail(t) PROVE EndInv'
    BY <1>11, MoveEffect DEF Fail, EndCall, AfterFailure
  <1>12. ASSUME NEW t \in Threads, Serving, Reap(t) PROVE EndInv'
    BY <1>12, MoveEffect DEF Reap, BeginReap
  <1>13. ASSUME NEW t \in Threads, Serving, RegistryStep(t) PROVE EndInv'
    BY <1>13, DetachStepEffect DEF RegistryStep, DetachOps, PlaceInv, Outcome
  <1>14. ASSUME NEW t \in Threads, Serving, Reaped(t) PROVE EndInv'
    BY <1>14, MoveEffect DEF Reaped
  <1>15. ASSUME NEW i \in DOMAIN wire, Serving, AgentAnswers(i) PROVE EndInv'
    BY <1>15 DEF AgentAnswers
  <1>16. CASE Terminated \/ UNCHANGED httpVars
    BY <1>16 DEF Terminated, httpVars, vars, threadVars, wireVars
  <1> QED
    BY <1>1, <1>2, <1>3, <1>4, <1>5, <1>6, <1>7, <1>8, <1>9, <1>10, <1>11,
       <1>12, <1>13, <1>14, <1>15, <1>16
    DEF HttpNext, MainStep, ThreadStep


\* Every step keeps DoomInv: who leaves a late reply behind goes on to give up the
\* session, and does not stop before the session has failed.
LEMMA DoomStep == IInv /\ HttpInv /\ DoomInv /\ [HttpNext]_httpVars => DoomInv'
  <1> SUFFICES ASSUME IInv, HttpInv, DoomInv, [HttpNext]_httpVars PROVE DoomInv'
    OBVIOUS
  <1>i. /\ TypeOK /\ GateInv /\ StateInv /\ ThreadInv
        /\ LoopTypeOK /\ PlaceInv /\ WireInv /\ LostInv /\ EndInv /\ DoomInv
    BY DEF IInv, HttpInv
  <1>s. session \in Ids /\ Ids = {session}
    BY OneSession
  <1> USE <1>i, <1>s, HttpThreadNames
      DEF DoomInv, LateReplyDoomsSession, Serving, vars, wireVars,
          sessionVars, threadVars, gateVars
  <1>1. CASE Register
    BY <1>1, MoveEffect DEF Register
  <1>2. CASE Attach
    BY <1>2, MoveEffect DEF Attach
  <1>3. CASE Serving /\ Look
    BY <1>3, MoveEffect DEF Look
  <1>4. CASE Serving /\ Retry
    BY <1>4, MoveEffect DEF Retry, BeginDetach, Attempted
  <1>5. CASE Serving /\ CleanedUp
    BY <1>5, MoveEffect DEF CleanedUp, Attempted, PlaceInv, Down
  <1>6. CASE Serving /\ Crash
    BY <1>6 DEF Crash, AgentDies
  <1>7. ASSUME NEW t \in Threads, Serving, Request(t) PROVE DoomInv'
    BY <1>7, MoveEffect DEF Request
  <1>8. ASSUME NEW t \in Threads, Serving, Issue(t) PROVE DoomInv'
    BY <1>8, MoveEffect DEF Issue, BeginCall
  <1>9. ASSUME NEW t \in Threads, Serving, Send(t) PROVE DoomInv'
    BY <1>9, MoveEffect, SendEffect DEF Send
  <1>10. ASSUME NEW t \in Threads, Serving, Read(t) PROVE DoomInv'
    <2>1. ASSUME NEW i \in DOMAIN wire', ~wire'[i].live
          PROVE  \E j \in DOMAIN wire : ~wire[j].live
      <3>1. 1 \in DOMAIN wire /\ i + 1 \in DOMAIN wire /\ i + 1 # 1
        BY <1>10, ReadEffect
      <3> QED
        BY <3>1 DEF WireInv
    <2> QED
      BY <1>10, <2>1, MoveEffect DEF Read, EndCall, Home
  <1>11. ASSUME NEW t \in Threads, Serving, Fail(t) PROVE DoomInv'
    BY <1>11, MoveEffect DEF Fail, EndCall, AfterFailure
  <1>12. ASSUME NEW t \in Threads, Serving, Reap(t) PROVE DoomInv'
    BY <1>12, MoveEffect DEF Reap, BeginReap
  <1>13. ASSUME NEW t \in Threads, Serving, RegistryStep(t) PROVE DoomInv'
    BY <1>13, DetachStepEffect DEF RegistryStep, DetachOps, PlaceInv, Down
  <1>14. ASSUME NEW t \in Threads, Serving, Reaped(t) PROVE DoomInv'
    BY <1>14, MoveEffect DEF Reaped, PlaceInv, Down
  <1>15. ASSUME NEW i \in DOMAIN wire, Serving, AgentAnswers(i) PROVE DoomInv'
    BY <1>15, AnswerEffect DEF AgentAnswers
  <1>16. CASE Terminated \/ UNCHANGED httpVars
    BY <1>16 DEF Terminated, httpVars, vars, threadVars, wireVars
  <1> QED
    BY <1>1, <1>2, <1>3, <1>4, <1>5, <1>6, <1>7, <1>8, <1>9, <1>10, <1>11,
       <1>12, <1>13, <1>14, <1>15, <1>16
    DEF HttpNext, MainStep, ThreadStep


-----------------------------------------------------------------------------

LEMMA HttpInitInv == HttpInit => HttpInv /\ DoomInv
  <1> SUFFICES ASSUME HttpInit PROVE HttpInv /\ DoomInv
    OBVIOUS
  <1> USE OneSession, HttpThreadNames, HttpBounds DEF HttpInit
  <1>1. LoopTypeOK
    <2>1. wire \in Seq(Exchanges) /\ attempts \in 0 .. MaxAttempts
      OBVIOUS
    <2>2. at \in [Threads -> ClientPoints \union MainPoints]
      BY DEF ClientPoints, MainPoints
    <2> QED
      BY <2>1, <2>2 DEF LoopTypeOK
  <1>2. PlaceInv
    BY DEF PlaceInv, ClientPoints, Init, Down
  <1>3. WireInv /\ LostInv
    BY DEF WireInv, LostInv, Init, Down
  <1>4. EndInv /\ DoomInv
    BY DEF EndInv, DoomInv, LateReplyDoomsSession
  <1> QED
    BY <1>1, <1>2, <1>3, <1>4 DEF HttpInv

\* The inductive invariant of the HTTP mode, on top of the registry's.
THEOREM HttpInvariant == HttpSpec => [](IInv /\ HttpInv /\ DoomInv)
  <1>1. HttpInit => HttpInv /\ DoomInv
    BY HttpInitInv
  <1>2. IInv /\ HttpInv /\ DoomInv /\ [HttpNext]_httpVars => HttpInv' /\ DoomInv'
    BY LoopTypeStep, PlaceStep, WireStep, LostStep, EndStep, DoomStep DEF HttpInv
  <1> QED
    BY <1>1, <1>2, HttpImplementsRegistry, InductiveInvariant, PTL DEF HttpSpec

\* Every variable of the HTTP mode keeps its type.
THEOREM HttpTypeCorrect == HttpSpec => []HttpTypeOK
  <1>1. IInv /\ HttpInv => HttpTypeOK
    BY DEF IInv, HttpInv, LoopTypeOK, HttpTypeOK
  <1> QED
    BY <1>1, HttpInvariant, PTL

\* An agent that answers in time keeps its session, whatever its scripts answer.
THEOREM HealthySessionIsKept == HttpSpec => []HealthyStaysAttached
  <1>1. HttpInv => HealthyStaysAttached
    BY DEF HttpInv, LostInv, HealthyStaysAttached, Down
  <1> QED
    BY <1>1, HttpInvariant, PTL

\* A late reply is only on the stream of a session that is being given up.
THEOREM LateRepliesAreDoomed == HttpSpec => []LateReplyDoomsSession
  <1>1. DoomInv => LateReplyDoomsSession
    BY DEF DoomInv
  <1> QED
    BY <1>1, HttpInvariant, PTL

\* The server's result says the truth about the session.
THEOREM EndIsTruthful == HttpSpec => []EndsTruthfully
  <1>1. HttpInv => EndsTruthfully
    BY HttpBounds DEF HttpInv, EndInv, EndsTruthfully, Down
  <1> QED
    BY <1>1, HttpInvariant, PTL

-----------------------------------------------------------------------------
(* No deadlock *)

\* The thread waits for a lock that is taken: the gate, shared or exclusive, or the
\* stream's mutex.
Blocked(t) == \/ at[t] = "issue" /\ (WriterQueued \/ ~CanRead(session))
              \/ at[t] = "waiting" /\ stream # NoThread
              \/ op[t] \in {"mark", "detach"} /\ ~CanWrite(session)

\* Somebody who is in a call or a detach has what it needs to go on.
OneRuns == \E u \in Threads : op[u] # "idle" /\ ~Blocked(u)
NoDeadlock == (\E t \in Threads : Blocked(t)) => OneRuns

\* A call waits for the stream at most, and who has the stream reads.
LEMMA CallsRun ==
  ASSUME IInv, PlaceInv, LoopTypeOK, NEW t \in Threads, op[t] = "call"
  PROVE  OneRuns
  <1>1. at[t] \in {"waiting", "reading"}
    BY DEF PlaceInv, DetachOps
  <1>2. CASE at[t] = "reading" \/ stream = NoThread
    BY <1>1, <1>2 DEF Blocked, OneRuns
  <1>3. CASE at[t] = "waiting" /\ stream # NoThread
    <2>1. PICK u \in Threads : stream = u
      BY <1>3 DEF LoopTypeOK
    <2>2. at[u] = "reading" /\ op[u] = "call"
      BY <2>1 DEF PlaceInv
    <2> QED
      BY <2>2 DEF Blocked, OneRuns
  <1> QED
    BY <1>1, <1>2, <1>3

\* Who shuts the session down has the gate and needs nothing more.
LEMMA GateRuns ==
  ASSUME IInv, PlaceInv, LoopTypeOK, ~CanWrite(session)
  PROVE  OneRuns
  <1>1. TypeOK /\ GateInv
    BY DEF IInv
  <1>2. CASE readers[session] # {}
    <2>1. PICK u \in readers[session] : u \in Threads
      BY <1>1, <1>2, OneSession DEF TypeOK
    <2> QED
      BY <1>1, <2>1, OneSession, CallsRun DEF GateInv
  <1>3. CASE readers[session] = {}
    <2>1. PICK u \in Threads : writer[session] = u
      BY <1>1, <1>3, OneSession DEF TypeOK, CanWrite, CanRead
    <2>2. op[u] = "shutdown"
      BY <1>1, <2>1, OneSession DEF GateInv
    <2>3. at[u] \in {"reaping", "detaching"}
      BY <2>2 DEF PlaceInv
    <2> QED
      BY <2>2, <2>3 DEF Blocked, OneRuns
  <1> QED
    BY <1>2, <1>3

\* The HTTP mode never deadlocks, however many clients share the gate and queue for
\* the stream: whenever a thread waits for a lock, one in the middle of a call or a
\* detach does not (ActiveAgentRpcBackend and Session, whose locks nest).
THEOREM HttpNeverDeadlocks == HttpSpec => []NoDeadlock
  <1>1. ASSUME IInv, HttpInv PROVE NoDeadlock
    <2> SUFFICES ASSUME NEW t \in Threads, Blocked(t) PROVE OneRuns
      BY DEF NoDeadlock
    <2>1. PlaceInv /\ LoopTypeOK
      BY <1>1 DEF HttpInv
    <2>2. ASSUME NEW u \in Threads, op[u] \in {"mark", "detach"} PROVE OneRuns
      <3>1. CASE CanWrite(session)
        <4>1. at[u] \in {"reaping", "detaching"}
          BY <2>1, <2>2 DEF PlaceInv
        <4> QED
          BY <2>2, <3>1, <4>1 DEF Blocked, OneRuns
      <3>2. CASE ~CanWrite(session)
        BY <1>1, <2>1, <3>2, GateRuns
      <3> QED
        BY <3>1, <3>2
    <2>3. CASE at[t] = "waiting" /\ stream # NoThread
      <3>1. op[t] = "call"
        BY <2>1, <2>3 DEF PlaceInv
      <3> QED
        BY <1>1, <2>1, <3>1, CallsRun
    <2>4. CASE ~CanRead(session)
      BY <1>1, <2>1, <2>4, GateRuns DEF CanWrite
    <2> QED
      BY <2>2, <2>3, <2>4 DEF Blocked, WriterQueued
  <1> QED
    BY <1>1, HttpInvariant, PTL

=============================================================================
