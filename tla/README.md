# rustfrida-ios in TLA+

A verification project for rustfrida-ios, an instrumentation toolkit for iOS: a
*controller* (`src/ios-rustfrida/controller`) injects an *agent*
(`src/ios-rustfrida/agent`, with `quickjs-runtime`, `native-api` and `objc-api`)
into target processes and commands it over one Unix-domain stream per target. The
controller keeps many targets in a *session registry* and drives them from a REPL
with a health monitor (server mode), or serves one target over HTTP (HTTP mode).

`SE` stands for `controller/src/session.rs`, `SV` for `server.rs`, `FR` for
`server_frontend.rs`, `RT` for `server_runtime.rs`, `IN` for `injection.rs`, `HT` for
`http_rpc.rs`, `SU` for `suspended_spawn.rs` and `LA` for `launch.rs`, all in
`src/ios-rustfrida/controller/src`; `A` for `src/ios-rustfrida/agent/src/lib.rs`; `HR`
for `hook.rs`, `ST` for `stalker.rs` and `ME` for `memory.rs`, all in
`src/ios-rustfrida/quickjs-runtime/src`.

## 1. Inventory

| Component | State | Operations | What is hard | What makes it correct |
|---|---|---|---|---|
| Session registry (SV) | `next_id`, map of `Arc<Session>` under an `RwLock` | reserve, attach, get, detach, detach_all, reap_* | an Arc outlives its entry; several threads detach one session; ids run out | ids never name two sessions; what leaves owns nothing |
| Session (SE) | lifecycle (state, backend, `backend_shutdown`), hook leases, the command gate (`RwLock<()>`) | complete/fail attach, rpc_call, execute_command, health_check, hook operations, mark_*, detach | the gate is held over backend I/O; a shutdown fails half way and is retried; a launch completes after a detach | shutdowns wait for calls; a failed shutdown can be retried; nothing comes back |
| Server frontend (FR) | `active`, `closed` under a mutex | launch, use, back, detach, detach_all, exit, reconcile_* | the mutex is held over whole detaches | detaches never overlap; the active session is a registered one; exit closes only an empty registry |
| Server runtime (RT) | the REPL loop, the monitor thread | run_loop, health_loop, shutdown | the monitor reaps what the REPL is using | the prompt comes back; a dead agent is noticed |
| Session launcher (IN 183-278) | one worker thread per launch | attach, spawn | the worker outlives its reservation | a late result changes nothing |
| Agent stream (IN 183-402, 18198-18273, 20367-20375) | a `Mutex<UnixStream>`; frames without call ids | write a command, read the next reply | time-outs leave replies behind | a call is answered by its own reply |
| HTTP mode (IN 450-573, HT) | `cleanup_attempts`; a thread per connection | rpc_call, run_single_session_liveness | clients and the main thread reap concurrently; attempts are bounded | a healthy session is kept; the exit tells the truth |
| Agent command loop (`agent/src/lib.rs` 1543-1576) | the stream | read, execute, reply | sequential; answers late | one reply per command |
| External hooks (A 277-660; SE 465-662, 808-1048, 1274-1483) | agent records by request id and token; leases of the controller | execute, validate, find, release, uninstall, owner cleanup | lost replies and replays, two copies of one truth | no installed hook without an owner; a replay installs nothing twice |
| JavaScript hooks (HR), hook engine (`hook-engine-src`, C) | hook registry, dispatch records, JavaScript lock, one frame stack, counters of callbacks and thunks, retired entries | hook, native hook, unhook, detachAll, callbacks, clean-up and restart of the runtime | callbacks of any thread against removal and reclamation; a removal that holds the lock its callbacks wait for | nothing in use is freed; no callback in a dropped context; removals and calls end |
| Stalker rewrite (ST 1833-2290), memory patches (ME 800-905, 1192-1264) | code caches, commits, `applied`, saved bytes, the suspended thread | prepare, commit, rollback, dispose, drop | each step may fail; commits lie over one another; a suspended thread keeps what it holds | callers reach the function's code; a branch has an owner; the thread runs again |
| Suspended spawn (SU, LA 100-300, IN 591-646) | the handle's `state` and `released_to_caller`, the gate | launch, confirm, resume, drop | every step fails; time-outs; pids are used again | no target runs before its agent; a failed launch leaves none; a released target is left alone |
| Native and Objective-C APIs | none that lasts | readers of images and classes | - | not a state machine |
| QuickJS, TinyCC | vendored | - | - | third party |

How they interact: the REPL thread, the monitor thread and launch workers share the
registry and call the sessions directly; the frontend's mutex serialises what the
first two do to it. Every use of an agent goes through its session's command gate,
shared for calls and exclusive for changes of the lifecycle, and then through the
stream's mutex. HTTP connections share the registry with the main thread and have no
frontend. In the agent's process the script that holds the JavaScript lock installs
and removes hooks and rewrites, and every other thread of the target may run into them
at any time; what they share is the pool of the hook engine, the registry of hooks, the
frame stack and two counters.

## 2. The modules

| Module | Models | State | Actions |
|---|---|---|---|
| `SessionLifecycle` | what one session promises | `phase`, `calls` | open, begin and end of calls, break, close |
| `SessionRegistry` | SV and SE: any threads, any operation, any order | variables named after the fields (`nextId`, `registry`, `state`, `backend`, `shutdown` for `backend_shutdown`), the gate as `readers`/`writer`, `lease`, the far end as `agent`, and for each thread the operation it is in (`op`, `on`) | one per critical section |
| `SessionServer` | FR, RT and the launch worker; extends the registry | mutex `frontend`, `active`, `closed`, `worker`, each thread's place in its loop (`at`, `arc`, `todo`, `failure`), the exit's `reports` | one per step of the REPL and monitor loops, each a guarded registry step or none |
| `HttpSession` | the HTTP mode and the agent stream; extends the registry | `at`, the stream's mutex `stream`, `wire` (exchanges whose reply nobody has read), `attempts`, `clean`, and the history variable `lost` | the steps of a call, of the agent, and of `run_single_session_liveness` |
| `HookOwnership` | what the agent and the controller promise each other about external hooks | `truth`, `copy` | advance, learn |
| `ExternalHooks` | the agent's `ExternalHookRegistry` (A), the session's remote leases (SE) and the stream between them | `record` per request id, the session's `state`, `shutdown` and leases, gate and stream owner, `wire`, each thread's `call` | execute with replay, release, uninstall, probe and exit of the agent; the controller's calls, time-outs and failed writes |
| `HookCallbacks` | HR with the hook engine and the runtime's start and end (`runtime.rs`) | dispatch records (`hook`), pool entries (`code`), `registry`, `frames`, the JavaScript `lock`, each thread's `call`, the script's `op`, `runtime` | a thread's way through thunk, callback and original; install, replace, unhook, detachAll, clean-up, each wait a step |
| `RewriteTransaction` | ST and ME: rewrites of one function for one followed thread | `cache`, `commit`, the function's `entry`, its `page`'s protection, where threads are (`at`), the thread in the allocator (`heap`), `suspended`, `op` | one per step that can fail |
| `SuspendedSpawn` | SU, LA and `connect_agent_session` | `proc` of each pid, and for each launch `stage`, `gate`, `state`, `released`, `agent`, `pid` | launch outcomes, confirm, inject, resume, check, drop; processes that end or open their gate |
| `MCSessionRegistry`, `MCExternalHooks`, `MCHookCallbacks` | - | - | model values and symmetry for the runs |
| `SessionRegistry_proofs`, `SessionServer_proofs`, `HttpSession_proofs`, `ExternalHooks_proofs`, `HookCallbacks_proofs`, `RewriteTransaction_proofs`, `SuspendedSpawn_proofs` | theorems | - | - |

How steps were chosen. The registry's `RwLock` is never held over I/O, and a session's
lifecycle mutex only by the release, the uninstall and the clean-up of hook leases (SE
958-1018, 1174-1185): a critical section under them is one step. The exclusive gate is
held around those three, and what they do is several steps of `ExternalHooks` with the
gate held; others who want the mutex meanwhile wait as they would for the gate, or only
read. Three locks are real locks with an owner: the command gate (held over backend
calls), the frontend's mutex (held over detaches) and the stream's mutex (held over a
command and its reply). Between two steps a thread holds only what the code holds, an
`Arc<Session>` or an id, so every stale use the code permits is a behaviour.

`SessionRegistry` merges what no other thread can see: `mark_transport_failure` with
its lease cleanup, `Session::detach` up to the backend call, and from its return to
the unlock. A lease stands for all the remote hook leases of a session: it is there
while one is left. The release of a lease needs an answer of the agent and may fail.
`backend.detach` either has written Exit (the agent serves and is gone then) or has
failed. Labels, pids, statuses, `last_error` and all rendering are left out.

In server mode nobody installs external hooks (only `hooks status`, `release` and
`uninstall` exist, FR 32), so `SessionServer` has no hook steps and leases stay
absent.

In `HttpSession` an exchange on the wire is a command and, once the agent has
answered it, its reply; the stream is FIFO both ways and the agent answers one
command before it reads the next, so one sequence holds both directions. An exchange
is *live* while its sender waits. A failed call may have left half a frame: later
reads of such a stream may fail too. A detach's Exit is not put on the wire: no call
reads after it.

In `ExternalHooks` a token stands for its request id (tokens come from one atomic
counter and are never used again) and the agent's answers are FIFO on one stream, as in
`HttpSession`. A receipt is what the agent knew when it answered; the controller takes
it for whatever it was waiting for, and only the checks of `update_receipt`,
`validate_remote_receipt` and `remote_request_matches_receipt` tell them apart. Half a
frame is a time-out that may come at any moment. The registry is written against the
trait `ExternalHookHandle`; its adapters' `release` is taken not to fail, and an
uninstall may answer that the handle was released already (A 606-616).

In `HookCallbacks` an installation is used once, so its number says which generation
of a record or thunk a thread has hold of. A thread that uses a freed record, a
reclaimed thunk or an unmapped pool is *lost* from then on. The engine's lock is held
for single steps only and is not modelled. History variables say what went wrong
earlier: `unclean` (a wait timed out or a removal failed), `mixed` (a callback popped
another's frame), `stale` (a value of a dropped context was used).

In `RewriteTransaction` the function's entry is its own code or a branch to a cache,
and a cache remembers what it relocated, which may be the branch to another cache. A
write may fail before the bytes are written, or after (the protection could not be put
back; on Apple systems the invalidation of the instruction cache cannot fail). A thread
that calls the function while its page cannot be executed is lost, and may be during a
write, for the page may be made not executable for it and only the followed thread is
kept away (`MayFault`, ME 1210). The allocator of the process has one lock, which any
thread may hold when it is suspended. `failed` and `crossed` record that a patch was dropped that could not be undone,
and that commits were undone out of order.

In `SuspendedSpawn` a pid is given to the next process once its own has ended, a
signal reaches whoever has it, and a provider's command knows the gate it was asked to
open. The provider tells the truth about a gate but any command may fail, also after it
has done its work. `opened`, `refused` and `astray` record a gate that opened on its
own, a termination that was refused, and a signal that hit another launch's process.

## 3. What is checked

Each run's question and bounds:

| Run | Question | Instance |
|---|---|---|
| `registry` | Do calls, shutdowns, retries, late launches and stale failures respect the gate and the lifecycle, does each session implement `SessionLifecycle`, are ids unique, and does what leaves own nothing? | 3 threads, 2 slots, 3 reservations |
| `server` | Do detaches overlap, can the REPL be left in a dead session, what does a closed server leave behind; does the prompt come back, and is a dead agent noticed? | REPL and monitor, 2 slots, 3 reservations |
| `http_safety` | Is a session given up only after a transport failure, what does a late reply imply, is the exit true? | main thread, 2 clients, 2 attempts |
| `http_liveness` | Does a failure end the server, and does every request return? | main thread, 1 client, the code's 3 attempts |
| `external` | Does a repeated execute install once, can a lease be untrue or ahead of the agent, when is an installed hook without an owner, and is `HookOwnership` implemented? | 2 threads, 2 requests, 2 bodies, 2 unread exchanges |
| `hooks` | Is anything in use freed, do engine and registry agree, does the original run once, what of callbacks after their context? | 2 threads, 1 target, 2 installations, 2 entries, 2 runtimes |
| `hooks_live` | Do removals and hooked calls end, also when a removal waits for a callback that waits for the lock? | 2 threads, 1 installation |
| `rewrite` | Do callers reach the code, does a branch have an owner, does the thread run again, does an operation end? | 2 caches, the followed thread and another |
| `spawn` | Does a target run before its agent, is a ready target released, is one left behind, is an attached one spared, does a launch end? | 2 launches, 2 pids |

Why the bounds are enough. A property about one session needs at most a caller, a
detacher and a bystander, which three threads provide in every assignment of roles.
Sessions share nothing but ids and slots, so two sessions and a third that waits for
a slot show the sharing. `MaxId` bounds the reservations of a behaviour and stands
for the end of the id counter too, which the code refuses in the same way. The wire
needs no bound: every unread reply is the trace of a different thread. `http_liveness`
has one client because main and client are then both callers and reapers; `http_safety`
has two. Two requests with two bodies give a reply to be mistaken for
another's, and a request id used for a different body; the theorems cover any number.
Two threads, two installations and two entries let one thread be anywhere in the old
hook while another is in the new one and the old one's entry is used again; a second
target would only add a second copy of the same registry slot, and the second runtime
is there because what a failed clean-up leaves is found by the next one. Two caches
give commits that lie over one another and copies of a function that has changed.
Two launches over two pids give a pid that changes hands. `Hooks`, `Caches` and
`MaxRuntimes` also bound their runs' length.

The runs of components that may rightly stop (everything detached, every installation,
cache or launch used up) say `CHECK_DEADLOCK FALSE`.

What the properties say is stated at each of them. The ones that took the most thought:

- `RetryOwner`, `ShutdownRecorded`: what a failed shutdown leaves is what its retry
  needs, and an acknowledged one is not repeated.
- `ImplementsLifecycle`: with all locks, retries and races, a session only ever opens
  once, breaks and closes when no call is in flight, and is final when closed.
- `ClosedIsEmpty`: after exit, no agent serves and no launch worker still running can
  publish its session.
- `HealthyStaysAttached`, `LateReplyDoomsSession`: a script's error never costs a
  session, and a reply nobody waits for exists only on a stream that is being given up.
- `EndsTruthfully`: with clients reaping at the same time, the main thread's result
  still agrees with the session.

- `LeasesAreTrue`, `ImplementsOwnership`: with replies read by the wrong call, a lease is
  still on a hook the agent installed for that request, and "released" or "restored" is
  never believed too early.
- `StrayOnlyIfUnnoticed`: a failed execute or probe never costs the session a hook; only
  after a release, uninstall or clean-up that failed without the session being marked can
  the agent hold an installed hook that no lease knows.
- `OnlyLateThreadsAreLost`, `EngineMatchesRegistry`, `LeakOnlyIfUnclean`,
  `StaleOnlyIfUnclean`, `JsOnlyWhileAlive`: what the counters, the grace period and the
  list of closing contexts are for. The one way into a reclaimed thunk is a thread that
  branched before the patch was taken back and did not count itself in time. A failing
  removal of a hook that is replaced puts everything back (HR 1300) and is no step.
- `OpsEnd`, `CallsEnd`: a removal waits, under the JavaScript lock, for callbacks that
  wait for that lock; both time out.
- `ReachesCode`: after any sequence of commits and undos, between two writes, the entry
  can be executed and every path from it goes through mapped caches to the function's own
  code. It needs the comparison with the source snapshot: without it a cache made before
  another commit is enough. The page may be not executable only while the commit whose
  write could not restore its protection still counts as applied (`ProtectionLost`): the
  failure was reported and has an owner. Calls are lost all the same, and the code refuses
  every retry from then on (ME 1248).
- `NotLeftSuspended`: every path after the suspension goes through the lease. It takes the
  lease's last resume to succeed, of which the code does not look at the outcome.
- `UserCodeAfterAgent`, `HandleTerminates`, `AttachedIsSpared`: the order of
  `connect_agent_session` and the drop of the handle, over every failure.

### Where code and documents disagree

Three runs check one documented promise each, and find the code breaking it:

1. `server_refused` (SE 298): a command that the controller refuses before it sends
   anything (`hfl` without arguments, `jsrepl`, a hook the target does not allow) is an
   `Internal` failure, and `is_transport_failure` takes `Internal` for a lost transport.
   The session is marked failed and its healthy agent told to exit.
2. `hooks_frames` (HR 2047): an assertion says a callback pops the frame it pushed; the
   stack is shared by all threads, and replacement callbacks of two threads pop each
   other's. Then the original runs twice or not at all (`OriginalRunsOnce` excepts
   exactly this).
3. `spawn_leak` (LA 162): any failure before the resume terminates the target, says the
   repository's README; a spawn helper whose error output holds a malformed state leaves
   the target it has reported.

Others met while modelling, where a checked property carries the exception instead:

- After a time-out on the HTTP stream, a call that already shares the gate reads the
  late reply of the call before it (IN 308); `LateReplyDoomsSession` says how long such
  a session lasts.
- A release that times out leaves the session in use and its reply on the stream; an
  execute may take that reply, fail with `target_state_uncertain: false` (SE 907), and
  leave the hook the agent then installs to nobody (the exception of
  `StrayOnlyIfUnnoticed`).
- `Session::detach` writes Exit before it asks the agent to release the leases (SE 1227,
  1232), so a session with leases can stay `Failed` with nobody left to release them.
- An external hook command is sent outside the gate (SE 863), so a detach does not wait
  for it, though the doc of `Session` speaks of all in-flight calls (SE 664).
- Detaching a session that is still launching frees its slot while its worker runs on,
  so more launches run than the capacity allows (FR 455).
- A rewrite commit that is dropped, and whose rollback fails, unmaps the cache under the
  branch (ST 1972: the field order frees the cache before the patch), where
  `ios-android-parity-audit.md:291` has the bytes restored first (the exception `failed`).
- The quiescence wait of a rewrite has a time-out (ST 36) but takes the mutex of the
  callback counter without one (HR 1988), while the suspended thread may hold it; and the
  operation allocates with the thread suspended (ME 836), while the thread may be inside
  the allocator (the two exceptions of `OpsEndUnlessStuck`).

### Fairness

Safety properties assume none. `server` uses strong fairness of the REPL between
two prompts, of the monitor's loop and of each thread's calls and detaches;
`http_liveness` of each thread. The code justifies it: threads run freely and block
only on locks and on reads and writes with a time-out; a lock that is free again and
again is eventually obtained. For the gate that needs the queueing of `std`'s `RwLock`
(a thread that waits for the exclusive lock goes before later readers): `HttpSession`
models it (`WriterQueued`), because there, without it, overlapping readers can keep a
reaper out for ever, as the model shows when the guard is dropped. In the server two
threads cannot overlap so. Nothing is assumed of the user, of launch workers, of
clients or of the agent, which may die or stay silent.

`hooks_live`: the script's thread runs (weak fairness of `OpStep`); threads in a hooked
call go on, which takes that hooked functions and callbacks return; a script gets to an
end although it may be interrupted (strong fairness of `ScriptReturns`); deadlines pass
(strong fairness of `TimeOut`). `rewrite`: the operation goes on, and what it
needs, the counter's mutex and the allocator, is granted to a waiter that finds it free
again and again (strong fairness of `OpStep`); a thread that holds either and may run
lets go (weak fairness of `Counted` and `Allocated`). `spawn`: the controller's
thread runs, and what it calls returns - of a provider's command the code assumes that
too, it has no time-out (SU 644). Nothing is assumed of processes and gates.

## 4. What is proved

All theorems hold for every set of threads, every capacity and every bound on the
reservations, from the assumptions next to the constants: `NoThread` is no thread, the
capacity is positive, the bound is a natural number; for the server, that its threads
are the REPL and the monitor; for the HTTP mode, that its threads are the main thread
and the clients, that there is one session, and that at least one cleanup attempt is
allowed; for external hooks, rewrites and launches, for every set of requests, bodies,
caches, threads, launches and pids, that the value for "none" is none of them and that
two names of a thread or a place differ; for hooks and their callbacks, that `Host` and
`Nobody` differ and are no thread of the target and that hooks are natural numbers. The type theorems stand for the type invariants
that the runs do not check.

`SessionRegistry_proofs` proves type correctness and each invariant and action
property the registry runs check, and the refinement of `SessionLifecycle`, from one
inductive invariant:

- `GateInv`: the gate's readers are the threads in a call, its writer is the thread in
  a shutdown, never both. `DetachWaitsForCalls` alone is not inductive: it needs the
  gate and the operations to agree.
- `StateInv`: each lifecycle state with the backend, the shutdown flag, the lease and
  the registry entry it implies; it carries `RetryOwner` and `RemovedOwnNothing`.
- `ThreadInv`: what a thread's operation says of its session, whatever it does next.
- `IdInv`: exactly the ids from `nextId` on are unreserved; it carries `IdsNotReused`.

Each part has a lemma with a step per action (`TypeStep`, `GateStep`, `StateStep`,
`OperationStep`, `IdStep`), on lemmas about what `Goto` and `Finish` change.

`SessionServer_proofs` proves that every step of the server is a step of the registry
(`ServerImplementsRegistry`), so that the registry's theorems hold of the server
(`ServerKeepsRegistryPromises`), type correctness, `DetachesSerialized`,
`ActiveIsRegistered` and `ClosedIsEmpty`. Its first invariant `LockInv` ties the mutex
to the threads' loops: the owner is the thread at a holding point, and elsewhere a
thread is in no detach. It also gives what the steps need to be registry steps: a thread
that handles a session has a session. On it and the registry's invariant rests
`PlaceInv`: `AgentInv`, no agent serves a session whose shutdown is recorded;
`ClosedInv`, a closed registry stays empty; `OnInv`, a detach under the mutex is on the
session (or in the snapshot) its loop names; and `ActiveInv`, the active session becomes
detached only in the hands of the REPL that is about to leave it, never in those of a
reaper, which has left it first.

`ServerNeverDeadlocks` (`NoDeadlock`) follows: whenever a thread waits for the mutex or a
gate, one that is in the middle of a call, or has the mutex, does not wait. The mutex is
taken before the gates, and a call gives its gate back before its failure asks for the
mutex. TLC's deadlock check would not show this, for other steps stay possible while two
threads wait on each other. That who waits is also served needs fairness, and stays with
the liveness properties.

`HttpSession_proofs` proves that the HTTP mode implements the registry
(`HttpImplementsRegistry`), and with it `HealthyStaysAttached`, `LateReplyDoomsSession`
and `EndsTruthfully` for any number of clients and attempts. None of the three is
inductive alone. The invariant (`HttpInvariant`) is the registry's with six parts more:
`LoopTypeOK`, the types; `PlaceInv`, what a thread's place says of its operation and of
the session; `WireInv`, that the one live exchange is that of the stream's owner and
that each thread gets the kind of answer it can ask for; `LostInv`, where a transport
failure must have come first; `EndInv`, what the counters say; and `DoomInv`. The kinds
matter: a healthy session is kept because a call can mistake another thread's answer
for a failure only behind a dead exchange, and that takes an earlier failure.

`HttpNeverDeadlocks` states the same of the gate and the stream, with a writer that waits
for the gate holding up new readers: whoever has the gate waits for the stream at most,
and who has the stream waits for nothing.

`ExternalHooks_proofs` proves type correctness, `InstallsOnce`, `LeasesAreTrue`,
`CopyNeverAhead`, `StrayOnlyIfUnnoticed` and the refinement of `HookOwnership` for any
threads, requests and bodies. All but `StrayOnlyIfUnnoticed` come from one inductive
invariant (`InvHolds`). `LeasesAreTrue` is not inductive:
what a late reply says must be true of the agent's records whoever reads it, whenever.
So the invariant says that of every receipt on the wire (and that receipts only get
older: `ExchangesStayTrue`, `CopiesStayTrue`), of every lease, and of what each thread
remembers between two steps (`CallInv`), with the locks that keep two threads from
updating leases at once.

`StrayOnlyIfUnnoticed` needs a second invariant on top of it (`StrayInv`), for it is
about who will take a hook over, which `Inv` does not say. As long as no failure has gone
unnoticed and nobody is about to mark the session (`Watched`), the stream is clean: an
exchange is an unanswered Exit, or it is the last one and its own sender is the reader
(`CleanWire`). So the reply that hands over a new hook is read by the execute that asked
for it, and at every moment a hook without a lease is claimed (`Claimed`): by a thread
that is about to adopt it, or by one whose reply is next on the stream. Each action
either keeps this or ends `Watched` for good: a failed execute or probe by the mark, any
other failure by `unnoticed`. It also needs `DiscardInv`, for a discard is the only
release of a hook that no lease knows.

`HookCallbacks_proofs` proves type correctness and every safety property of the `hooks`
run for any number of threads, targets, entries, installations and runtimes, from one
inductive invariant (`InvHolds`) in three layers:

- `EngineInv`: what engine, registry and the operation under way say of each other,
  between any two steps: what is patched is live and registered or being installed
  (`CodeInv`); what is registered is live and patched unless a removal is under way or
  could not finish (`RegistryInv`); a live record belongs to the registry or to the
  operation (`LeakInv`); and what an installation, a removal, a replacement and a
  clean-up still have to do (`InstallInv`, `RemovalInv`, `NextInv`, `ContextInv`).
  `EngineMatchesRegistry` and `LeakOnlyIfUnclean` are its parts that a reader cares
  about; neither is inductive without what the operations still have to do.
- `LockInv` and `WaitInv`: who has the JavaScript lock, and that callbacks which wait
  for it have a context that is alive, unless a clean-up could not finish. They carry
  `JsOnlyWhileAlive` and `StaleOnlyIfUnclean`.
- `IntactInv`, `CallInv` and `FrameInv`: what each thread's place says of its record, of
  the thunk it runs in and of its frame. `OnlyLateThreadsAreLost` is not inductive: a
  thread is safe from a reclaim because it was counted before the wait for the thunks
  read zero, or before the grace interval ended, so the invariant follows each removal
  step by step and says which threads may still be inside (`IntactOk`).
  `OriginalRunsOnce` needs each frame to be on the stack exactly while its thread is in
  a replacement callback, and how often the original has run at each place (`CallOk`).

The proof has a lemma for each step of a thread and each step of an operation
(`Inv` is too large to be kept by one). It also corrected the model: the guards of the
last step of a removal (`After`) overlapped for a clean-up, which leaves the meaning of a
`CASE` open; TLC takes the first.

`RewriteTransaction_proofs` proves type correctness, `NotLeftSuspended`, `BranchIsOwned`
and `ReachesCode` for any number of caches and threads. The last two are not inductive: that a branch has an owner after an undo is a fact about the branch below it.
The invariant says that the branches form a stack (`StackInv`): from the entry every
cache relocates the entry of the one below, down to the function's own code; that every
cache of the stack has an applied commit that saved the branch below (`OwnerInv`); and
what the operation under way holds and has checked (`OpInv`, `SuspendInv`). The
lemmas `StackGrows`, `StackShrinks` and `StackStays` carry the stack over a commit, an
undo and everything else. `PageHolds` (`PageInv`) says the same of the page: as long as no
patch was given up, a page that cannot be executed has a commit that found it executable,
and still counts as applied.

`SuspendedSpawn_proofs` proves type correctness, `UserCodeAfterAgent`,
`ReadyIsReleased`, `HandleTerminates` and `AttachedIsSpared` for any number of launches
and pids. `LaunchInv` says of each launch what its stage implies for its own
process, gate and agent; the hard part is that the steps of other launches keep it,
because a pid changes hands: `OthersKeep` states what a step of one launch may do to the
process of another, and each action is shown to stay within it.

Only model-checked: the liveness properties `ReplReturns`, `DeadAgentNoticed`,
`FailureEndsServer`, `RequestsReturn`, `OpsEnd`, `CallsEnd`, `OpsEndUnlessStuck` and
`LaunchEnds` (fairness is out of the prover's reach). Every invariant and action property
that a passing run checks, and both refinements, are theorems.

## 5. Not modelled, and the plan

Still worth modelling, in this order:

1. `HookCallbacks`: a thread that runs into a second hook from inside a first one
   (nested calls of one thread), several JavaScript contexts at once, attach hooks with
   one of the two callbacks only, `current_native_hook_frame`'s fall-back to the top of
   the stack, `Interceptor` values and their deferred release, and the Stalker's
   callouts, which share the counters.
2. The engine's redirects, stealth and ART hooks, with a failed re-patch.
3. `RewriteTransaction`: several functions or followed threads.
4. Theorems for what is added: every safety property that a run checks now has one.

Left out for good: injection through Mach ports and remote threads (platform work with
no protocol of its own), parsing and rendering of commands, HTTP and JSON (no state),
the native, Objective-C, Swift and memory-reading APIs that the agent offers to scripts
(no state that outlives a call), the JavaScript bootstrap code, and the vendored
engines. These are by far the most of the repository's lines, which is why the modules
stand for a small share of them: what is modelled is the part with state shared between
threads, processes or calls. A thread that is inside a code cache when it is unmapped is
in the model (it is lost), but no property forbids it, since no step of the code looks
where threads are.
