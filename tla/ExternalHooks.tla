---------------------------- MODULE ExternalHooks ----------------------------
(***************************************************************************)
(* External hooks: the agent's registry (agent/src/lib.rs), the session's  *)
(* leases on it (controller/src/session.rs) and the stream between them    *)
(* (controller/src/injection.rs).  Any number of threads execute, release, *)
(* uninstall, probe, clean up and detach one attached session.             *)
(*                                                                         *)
(* Frames carry no call ids.  A command that times out leaves its reply on *)
(* the stream, where the next reader takes it for its own; what protects   *)
(* the leases is only the identity in each receipt.  A token stands for    *)
(* its request: tokens come from one counter and are never reused.         *)
(***************************************************************************)
EXTENDS Naturals, Sequences

CONSTANTS Threads,    \* threads that use the session
          NoThread,   \* "nobody holds the lock"
          Ids,        \* request ids
          Bodies,     \* what a request asks for: image, operation, addresses
          None,       \* no record, lease, receipt, reply, id or body
          MaxWire     \* bound: exchanges on the stream

ASSUME ThreadsAssumption == NoThread \notin Threads
ASSUME WireAssumption == MaxWire \in Nat

VARIABLES
  state,     \* lifecycle.state of the session
  shutdown,  \* lifecycle.backend_shutdown: Exit has been written
  writer,    \* command gate: the thread with the exclusive lock
  stream,    \* the thread with the stream's mutex, from a command to its reply
  wire,      \* exchanges whose reply nobody has read, oldest first
  serving,   \* the agent's command loop is running
  record,    \* the agent's records and rejected requests, by request id
  installs,  \* how often a backend has been called for each request
  lease,     \* lifecycle.external_hooks, by the request of their receipt
  call,      \* what each thread is doing
  unnoticed  \* history: an exchange has failed and the session was kept

agentVars == <<serving, record, installs>>
linkVars  == <<stream, wire>>
vars == <<state, shutdown, writer, stream, wire, serving, record, installs,
          lease, call, unnoticed>>

(***************************************************************************)
(* Receipts, replies and calls                                             *)
(***************************************************************************)
Ownership == {"Owned", "Released", "Orphaned"}
Target    == {"Installed", "Restored", "Uncertain", "Untouched"}
Receipt == [id : Ids, body : Bodies, own : Ownership, target : Target]
Commands == {"Execute", "Release", "Uninstall", "Ping", "Rpc", "Exit"}
Reply == [kind : Commands \union {"Error"}, receipt : Receipt \union {None}]
Exchange == [command : Commands, id : Ids \union {None},
             body : Bodies \union {None}, reply : Reply \union {None}]

\* A rejected request is kept without a receipt; nothing was changed for it.
Record == [body : Bodies, own : Ownership \union {"Rejected"}, target : Target]
\* A lease is the last receipt, and target_state as the session shows it.
Lease == [body : Bodies, own : Ownership, target : Target, shown : Target]

ASSUME NoneAssumption == None \notin Ids \union Bodies \union Receipt \union Reply
                                    \union Record \union Lease

\* todo: the leases a cleanup has still to release; failed: a part of a detach
\* has failed.
Ops == {"idle", "execute", "adopt", "discard", "release", "uninstall", "ping",
        "rpc", "mark", "cleanup", "exit", "detach"}
Call == [op : Ops, id : Ids \union {None}, body : Bodies \union {None},
         todo : SUBSET Ids, failed : BOOLEAN]
Doing(op, id, body, todo, failed) ==
  [op |-> op, id |-> id, body |-> body, todo |-> todo, failed |-> failed]
Idle == Doing("idle", None, None, {}, FALSE)

TypeOK == /\ state \in {"Attached", "Failed", "Detached"}
          /\ shutdown \in BOOLEAN
          /\ writer \in Threads \union {NoThread}
          /\ stream \in Threads \union {NoThread}
          /\ wire \in Seq(Exchange)
          /\ serving \in BOOLEAN
          /\ record \in [Ids -> Record \union {None}]
          /\ installs \in [Ids -> Nat]
          /\ lease \in [Ids -> Lease \union {None}]
          /\ call \in [Threads -> Call]
          /\ unnoticed \in BOOLEAN

Init == /\ state = "Attached"
        /\ shutdown = FALSE
        /\ writer = NoThread
        /\ stream = NoThread
        /\ wire = << >>
        /\ serving = TRUE
        /\ record = [id \in Ids |-> None]
        /\ installs = [id \in Ids |-> 0]
        /\ lease = [id \in Ids |-> None]
        /\ call = [t \in Threads |-> Idle]
        /\ unnoticed = FALSE

(***************************************************************************)
(* The agent: one command at a time, in the order of the stream            *)
(***************************************************************************)
Unanswered(i) == /\ i \in DOMAIN wire
                 /\ wire[i].reply = None
                 /\ \A j \in 1 .. i - 1 : wire[j].reply # None

ReceiptOf(id) == IF record[id].own = "Rejected" THEN None
                 ELSE [id |-> id, body |-> record[id].body,
                       own |-> record[id].own, target |-> record[id].target]
Answer(i, kind, receipt) ==
  /\ wire' = [wire EXCEPT ![i].reply = [kind |-> kind, receipt |-> receipt]]
  /\ UNCHANGED <<state, shutdown, writer, stream, serving, lease, call, unnoticed>>

\* A wrong form: a request is forgotten with its hook.
RecordedWhileOwned(id) == record[id] # None /\ record[id].own = "Owned"
Recorded(id) == record[id] # None

\* A request id that is known is answered from its record: never executed again.
Replay(i) ==
  LET id == wire[i].id IN
  /\ Recorded(id)
  /\ Answer(i, IF /\ record[id].body = wire[i].body
                  /\ record[id].own \in {"Owned", "Released"}
               THEN "Execute" ELSE "Error", ReceiptOf(id))
  /\ UNCHANGED <<record, installs>>

\* The backend installs, or fails with the target in doubt; or the request is
\* refused before the backend is called.
Fresh(i) ==
  LET id == wire[i].id IN
  /\ ~Recorded(id)
  /\ \E own \in {"Owned", "Orphaned", "Rejected"} :
       LET r == [body |-> wire[i].body, own |-> own,
                 target |-> CASE own = "Owned" -> "Installed"
                              [] own = "Orphaned" -> "Uncertain"
                              [] OTHER -> "Untouched"]
       IN /\ record' = [record EXCEPT ![id] = r]
          /\ installs' = IF own = "Rejected" THEN installs
                         ELSE [installs EXCEPT ![id] = @ + 1]
          /\ Answer(i, IF own = "Owned" THEN "Execute" ELSE "Error",
                    IF own = "Rejected" THEN None
                    ELSE [id |-> id, body |-> r.body, own |-> own,
                          target |-> r.target])

AgentExecute(i) == Unanswered(i) /\ wire[i].command = "Execute"
                   /\ (Replay(i) \/ Fresh(i))

\* A token is known only for an installed hook: its record is Owned or Released.
Become(i, kind, own, target) ==
  LET id == wire[i].id IN
  /\ record' = [record EXCEPT ![id] =
                  [body |-> record[id].body, own |-> own, target |-> target]]
  /\ Answer(i, kind, [id |-> id, body |-> record[id].body, own |-> own,
                      target |-> target])
  /\ UNCHANGED installs

AgentRelease(i) ==
  /\ Unanswered(i)
  /\ wire[i].command = "Release"
  /\ LET r == record[wire[i].id] IN
     \/ Become(i, "Release", "Released", r.target)
     \/ r.own = "Owned" /\ Become(i, "Error", r.own, r.target)

\* handle.uninstall() and then handle.release(), either of which may fail; or the
\* handle says that it was released before, which the record has then missed.  A
\* hook that is recorded as released is asked for nothing.
AgentUninstall(i) ==
  /\ Unanswered(i)
  /\ wire[i].command = "Uninstall"
  /\ LET r == record[wire[i].id] IN
     IF r.own = "Released"
       THEN Become(i, IF r.target = "Restored" THEN "Uninstall" ELSE "Error",
                   r.own, r.target)
       ELSE \/ Become(i, "Uninstall", "Released", "Restored")
            \/ Become(i, "Error", "Owned", "Restored")
            \/ Become(i, "Error", "Owned", r.target)
            \/ Become(i, "Error", "Released", r.target)

AgentProbe(i) == /\ Unanswered(i)
                 /\ wire[i].command \in {"Ping", "Rpc"}
                 /\ Answer(i, wire[i].command, None)
                 /\ UNCHANGED <<record, installs>>

\* The loop ends; dropping the registry releases every handle it still holds.
\* The "bye" is a log frame, which no reader takes for a reply.
AgentExit(i) ==
  /\ Unanswered(i)
  /\ wire[i].command = "Exit"
  /\ serving' = FALSE
  /\ wire' = SubSeq(wire, 1, i - 1) \o SubSeq(wire, i + 1, Len(wire))
  /\ record' = [id \in Ids |->
       IF record[id] # None /\ record[id].own = "Owned"
       THEN [body |-> record[id].body, own |-> "Released",
             target |-> record[id].target]
       ELSE record[id]]
  /\ UNCHANGED <<state, shutdown, writer, stream, installs, lease, call,
                 unnoticed>>

Agent == /\ serving
         /\ \E i \in DOMAIN wire :
              AgentExecute(i) \/ AgentRelease(i) \/ AgentUninstall(i)
              \/ AgentProbe(i) \/ AgentExit(i)

(***************************************************************************)
(* The command gate                                                        *)
(***************************************************************************)
\* Only probes hold the gate shared over an exchange.
CanRead  == writer = NoThread
CanWrite == writer = NoThread /\ \A t \in Threads : call[t].op \notin {"ping", "rpc"}
Unreleased == {id \in Ids : lease[id] # None /\ lease[id].own # "Released"}
Start(t, c) == call[t].op = "idle" /\ call' = [call EXCEPT ![t] = c]

\* A request that already has a lease is answered from it, without a command.
BeginExecute(t, id, body) ==
  /\ CanRead
  /\ state = "Attached"
  /\ lease[id] = None
  /\ Start(t, Doing("execute", id, body, {}, FALSE))
  /\ UNCHANGED <<state, shutdown, writer, agentVars, linkVars, lease, unnoticed>>

BeginProbe(t, op) ==
  /\ CanRead
  /\ state = "Attached"
  /\ Start(t, Doing(op, None, None, {}, FALSE))
  /\ UNCHANGED <<state, shutdown, writer, agentVars, linkVars, lease, unnoticed>>

\* A lease already released is left alone by both.
BeginRelease(t, op, id) ==
  /\ CanWrite
  /\ id \in Unreleased
  /\ writer' = t
  /\ Start(t, Doing(op, id, None, {}, FALSE))
  /\ UNCHANGED <<state, shutdown, agentVars, linkVars, lease, unnoticed>>

BeginCleanup(t) ==
  /\ CanWrite
  /\ Unreleased # {}
  /\ writer' = t
  /\ Start(t, Doing("cleanup", None, None, Unreleased, FALSE))
  /\ UNCHANGED <<state, shutdown, agentVars, linkVars, lease, unnoticed>>

BeginDetach(t) ==
  /\ CanWrite
  /\ state # "Detached"
  /\ writer' = t
  /\ Start(t, IF shutdown THEN Doing("detach", None, None, Unreleased, FALSE)
              ELSE Doing("exit", None, None, {}, FALSE))
  /\ UNCHANGED <<state, shutdown, agentVars, linkVars, lease, unnoticed>>

(***************************************************************************)
(* Exchanges                                                               *)
(***************************************************************************)
Put(t, c) == call' = [call EXCEPT ![t] = c]
\* What follows a call that is over, and whether it still holds the gate.
Finish(t) == /\ Put(t, Idle)
             /\ writer' = IF writer = t THEN NoThread ELSE writer

\* The thread writes its command and keeps the stream until it has read a reply.
Write(t, command, id, body) ==
  /\ stream = NoThread
  /\ serving
  /\ Len(wire) < MaxWire
  /\ stream' = t
  /\ wire' = Append(wire, [command |-> command, id |-> id, body |-> body,
                          reply |-> None])
  /\ UNCHANGED <<state, shutdown, writer, agentVars, lease, unnoticed>>

Send(t) ==
  LET c == call[t] IN
  \/ c.op = "execute" /\ Write(t, "Execute", c.id, c.body) /\ UNCHANGED call
  \/ c.op \in {"release", "discard"} /\ Write(t, "Release", c.id, None)
     /\ UNCHANGED call
  \/ c.op = "uninstall" /\ Write(t, "Uninstall", c.id, None) /\ UNCHANGED call
  \/ c.op = "ping" /\ Write(t, "Ping", None, None) /\ UNCHANGED call
  \/ c.op = "rpc" /\ Write(t, "Rpc", None, None) /\ UNCHANGED call
  \/ /\ c.op \in {"cleanup", "detach"}
     /\ \E id \in c.todo : /\ Write(t, "Release", id, None)
                           /\ Put(t, [c EXCEPT !.id = id])

\* A wrong form: the receipt of another hook is taken over.
UpdatedByAny(id, receipt, shown) ==
  IF receipt = None THEN lease
  ELSE [lease EXCEPT ![id] = [body |-> receipt.body, own |-> receipt.own,
                              target |-> receipt.target, shown |-> shown]]
\* A remote lease takes a receipt over only if it is its own.
Updated(id, receipt, shown) ==
  IF receipt = None \/ receipt.id # id THEN lease
  ELSE [lease EXCEPT ![id] = [body |-> receipt.body, own |-> receipt.own,
                              target |-> receipt.target, shown |-> shown]]

Owns(id, r, kind) == r.kind = kind /\ r.receipt.id = id

\* A wrong form: any receipt of an installed hook is adopted.
AdoptableByAny(c, r) == r.kind = "Execute" /\ r.receipt.own = "Owned"
\* validate_remote_receipt
Adoptable(c, r) == /\ Owns(c.id, r, "Execute")
                   /\ r.receipt.body = c.body
                   /\ r.receipt.own = "Owned"
                   /\ r.receipt.target = "Installed"

\* "pong" is not JSON, and a payload that is not counts as a lost transport.
ExecuteEnds(t, r) ==
  /\ call[t].op = "execute"
  /\ Put(t, IF Adoptable(call[t], r) THEN [call[t] EXCEPT !.op = "adopt"]
            ELSE IF r.kind = "Ping" THEN [Idle EXCEPT !.op = "mark"] ELSE Idle)
  /\ UNCHANGED <<writer, lease>>

\* A probe takes any successful reply for its own.
ProbeEnds(t, r) ==
  /\ call[t].op \in {"ping", "rpc"}
  /\ Put(t, IF r.kind = "Error" \/ (call[t].op = "rpc" /\ r.kind = "Ping")
            THEN [Idle EXCEPT !.op = "mark"] ELSE Idle)
  /\ UNCHANGED <<writer, lease>>

\* The lease of a receipt that came too late is dropped, released or not.
DiscardEnds(t) == call[t].op = "discard" /\ Finish(t) /\ UNCHANGED lease

ReleaseEnds(t, r) ==
  /\ call[t].op = "release"
  /\ lease' = IF r.kind \in {"Release", "Error"} THEN Updated(call[t].id, r.receipt, lease[call[t].id].shown)
              ELSE lease
  /\ Finish(t)

\* The lease of a successful uninstall is released too, so nothing more is asked.
UninstallEnds(t, r) ==
  LET id == call[t].id IN
  /\ call[t].op = "uninstall"
  /\ lease' = IF r.kind \in {"Uninstall", "Error"}
              THEN Updated(id, r.receipt, IF r.kind = "Uninstall" THEN "Restored"
                                          ELSE lease[id].shown)
              ELSE lease
  /\ Finish(t)

CleanupContinues(t, r) ==
  LET c == call[t] IN
  /\ c.op \in {"cleanup", "detach"}
  /\ lease' = IF r.kind \in {"Release", "Error"} THEN Updated(c.id, r.receipt, lease[c.id].shown)
              ELSE lease
  /\ Put(t, [c EXCEPT !.id = None, !.todo = @ \ {c.id},
                      !.failed = @ \/ ~Owns(c.id, r, "Release")])
  /\ UNCHANGED writer

\* The oldest reply on the stream is the one that is read, whoever asked for it.
Receive(t) ==
  /\ stream = t
  /\ wire # << >>
  /\ Head(wire).reply # None
  /\ wire' = Tail(wire)
  /\ stream' = NoThread
  /\ LET r == Head(wire).reply IN
     \/ ExecuteEnds(t, r)
     \/ ProbeEnds(t, r)
     \/ DiscardEnds(t)
     \/ ReleaseEnds(t, r)
     \/ UninstallEnds(t, r)
     \/ CleanupContinues(t, r)
  /\ UNCHANGED <<state, shutdown, agentVars, unnoticed>>

\* A wrong form: the caller of a failed execute or probe goes on.
FailsAndGoesOn(t) ==
  LET c == call[t] IN
  /\ unnoticed' = (unnoticed \/ c.op \notin {"execute", "ping", "rpc"})
  /\ \/ c.op \notin {"cleanup", "detach"} /\ Finish(t)
     \/ /\ c.op \in {"cleanup", "detach"}
        /\ \E id \in IF c.id # None THEN {c.id} ELSE c.todo :
             Put(t, [c EXCEPT !.id = None, !.todo = @ \ {id}, !.failed = TRUE])
        /\ UNCHANGED writer

\* What a failed exchange leaves to its caller.  A probe and an execute give the
\* session up; a release, an uninstall and a cleanup go on with it.
Fails(t) ==
  LET c == call[t] IN
  /\ unnoticed' = (unnoticed \/ c.op \notin {"execute", "ping", "rpc"})
  /\ \/ /\ c.op \in {"execute", "ping", "rpc"}
        /\ Put(t, [Idle EXCEPT !.op = "mark"])
        /\ UNCHANGED writer
     \/ c.op \in {"discard", "release", "uninstall"} /\ Finish(t)
     \/ /\ c.op \in {"cleanup", "detach"}
        /\ \E id \in IF c.id # None THEN {c.id} ELSE c.todo :
             Put(t, [c EXCEPT !.id = None, !.todo = @ \ {id}, !.failed = TRUE])
        /\ UNCHANGED writer

\* No whole reply in time: none yet, or half of one, after which a later read
\* starts inside a frame and fails as well.
TimeOut(t) ==
  /\ stream = t
  /\ stream' = NoThread
  /\ Fails(t)
  /\ UNCHANGED <<state, shutdown, wire, agentVars, lease>>

\* The agent has closed the stream: the write fails.
WriteFails(t) ==
  /\ ~serving
  /\ stream = NoThread
  /\ Fails(t)
  /\ UNCHANGED <<state, shutdown, linkVars, agentVars, lease>>

(***************************************************************************)
(* Adoption, failure and detach                                            *)
(***************************************************************************)
Adopt(t) ==
  LET c == call[t] IN
  /\ c.op = "adopt"
  /\ CanWrite
  /\ \/ lease[c.id] # None /\ Put(t, Idle) /\ UNCHANGED <<lease, writer>>
     \/ /\ lease[c.id] = None /\ state = "Attached"
        /\ lease' = [lease EXCEPT ![c.id] =
             [body |-> c.body, own |-> "Owned", target |-> "Installed",
              shown |-> "Installed"]]
        /\ Put(t, Idle)
        /\ UNCHANGED writer
     \/ /\ lease[c.id] = None /\ state # "Attached"
        /\ Put(t, [c EXCEPT !.op = "discard"])
        /\ writer' = t
        /\ UNCHANGED lease
  /\ UNCHANGED <<state, shutdown, linkVars, agentVars, unnoticed>>

Mark(t) ==
  /\ call[t].op = "mark"
  /\ CanWrite
  /\ IF state = "Detached" THEN Put(t, Idle) /\ UNCHANGED <<state, writer>>
     ELSE /\ state' = "Failed"
          /\ writer' = t
          /\ Put(t, Doing("cleanup", None, None, Unreleased, FALSE))
  /\ UNCHANGED <<shutdown, linkVars, agentVars, lease, unnoticed>>

\* Exit is written, or the write fails; no reply is read.
WriteExit(t) ==
  /\ call[t].op = "exit"
  /\ stream = NoThread
  /\ \/ /\ serving /\ Len(wire) < MaxWire
        /\ wire' = Append(wire, [command |-> "Exit", id |-> None, body |-> None,
                                reply |-> None])
        /\ shutdown' = TRUE
        /\ Put(t, Doing("detach", None, None, Unreleased, FALSE))
     \/ /\ UNCHANGED <<wire, shutdown>>
        /\ Put(t, Doing("detach", None, None, Unreleased, TRUE))
  /\ UNCHANGED <<state, writer, stream, agentVars, lease, unnoticed>>

CleanupEnds(t) ==
  /\ call[t].op \in {"cleanup", "detach"}
  /\ call[t].todo = {}
  /\ state' = IF call[t].op = "cleanup" THEN state
              ELSE IF call[t].failed THEN "Failed" ELSE "Detached"
  /\ Finish(t)
  /\ UNCHANGED <<shutdown, linkVars, agentVars, lease, unnoticed>>

Begin(t) == \/ \E id \in Ids, body \in Bodies : BeginExecute(t, id, body)
            \/ \E op \in {"ping", "rpc"} : BeginProbe(t, op)
            \/ \E op \in {"release", "uninstall"}, id \in Ids : BeginRelease(t, op, id)
            \/ BeginCleanup(t)
            \/ BeginDetach(t)

Step(t) == \/ Send(t) \/ Receive(t) \/ TimeOut(t) \/ WriteFails(t)
           \/ Adopt(t) \/ Mark(t) \/ WriteExit(t) \/ CleanupEnds(t)

Next == Agent \/ \E t \in Threads : Begin(t) \/ Step(t)

Spec == Init /\ [][Next]_vars

(***************************************************************************)
(* Properties                                                              *)
(***************************************************************************)
\* A request calls its backend at most once, however often it is sent, answered
\* late or asked again with another body (agent 312-348).
InstallsOnce == \A id \in Ids : installs[id] <= 1

\* A lease is on a hook that the agent made for that very request, whichever
\* reply the thread that adopted it has read (SE validate_remote_receipt).
LeasesAreTrue ==
  \A id \in Ids : lease[id] # None =>
    /\ record[id] # None
    /\ record[id].body = lease[id].body
    /\ record[id].own \in {"Owned", "Released"}

\* The controller never believes that a handle is released or a target restored
\* before it is, although replies come late and to the wrong reader (SE
\* update_receipt): a hook it has given up is really out of its hands.
CopyNeverAhead ==
  \A id \in Ids : lease[id] # None =>
    /\ lease[id].own = "Released" => record[id].own = "Released"
    /\ "Restored" \in {lease[id].target, lease[id].shown}
         => record[id].target = "Restored"

\* The agent holds a hook, the session is in use, nobody is still about to adopt
\* it or to give the session up, and yet the session has no lease on it.
Stray(id) == /\ record[id] # None
             /\ record[id].own = "Owned"
             /\ lease[id] = None
             /\ state = "Attached"
             /\ \A t \in Threads :
                  /\ call[t].op # "mark"
                  /\ call[t].op \in {"execute", "adopt"} => call[t].id # id

\* A failed execute or probe never costs the session a hook: the session is given
\* up before anyone can go on.  Strays come only from the exchanges whose failure
\* the session does not notice (SE 475, 499-520, 1083).
StrayOnlyIfUnnoticed == ~unnoticed => \A id \in Ids : ~Stray(id)

\* Two copies of one truth: the agent's records and the leases implement
\* HookOwnership.
Made(id) == record[id] # None /\ record[id].own # "Rejected"
Truth == [id \in Ids |->
  [made |-> Made(id), held |-> Made(id) => record[id].own # "Released",
   hooked |-> Made(id) => record[id].target # "Restored"]]
Copy == [id \in Ids |->
  [made |-> lease[id] # None, held |-> lease[id] # None => lease[id].own # "Released",
   hooked |-> lease[id] # None => lease[id].shown # "Restored"]]
Promise == INSTANCE HookOwnership WITH Hooks <- Ids, truth <- Truth, copy <- Copy
ImplementsOwnership == Promise!Spec
=============================================================================
