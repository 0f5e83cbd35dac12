---------------------------- MODULE HookCallbacks ----------------------------
(***************************************************************************)
(* JavaScript and native hooks, and the threads that run into them.        *)
(*                                                                         *)
(* A hook patches a target function with a branch into a generated thunk   *)
(* (hook_engine_inline.c).  Any thread that calls the target goes through  *)
(* the thunk into a callback of hook.rs.  A JavaScript callback needs the  *)
(* lock of the JavaScript runtime, which it only tries to take: when the   *)
(* lock stays busy it is skipped, and a replacement then runs the original *)
(* function itself.  Hooks are installed and removed by the script that    *)
(* holds the same lock, so a removal that waits for the callbacks in       *)
(* flight waits for threads that may wait for it.  Every wait has a        *)
(* time-out; what could not be waited for is kept.                         *)
(*                                                                         *)
(* An installation has a dispatch record (a Box handed to the thunk), and  *)
(* its thunk lives in an entry of the executable pool.  Records are freed  *)
(* and entries are used again only when the counters of callbacks in       *)
(* flight and of active thunks were seen at zero.  A thread that uses a    *)
(* freed record or a reclaimed thunk is "lost".                            *)
(***************************************************************************)
EXTENDS Naturals, Sequences

CONSTANTS
    Threads,      \* threads of the target process that call hooked functions
    Targets,      \* functions that may be hooked
    Entries,      \* entries of the executable pool
    Hooks,        \* installations, numbered; each is used once, which bounds them
    MaxRuntimes,  \* how many JavaScript runtimes are started, one after another
    Host,         \* the thread that evaluates scripts and cleans up
    Nobody,       \* "the lock is free"
    NoHook

ASSUME HookConstants ==
    /\ Host \notin Threads
    /\ Nobody \notin Threads \cup {Host}
    /\ Hooks \subseteq Nat
    /\ NoHook \notin Hooks
    /\ MaxRuntimes \in Nat \ {0}

VARIABLES
    hook,      \* the dispatch record of each installation
    code,      \* the entries of the engine and whose thunk they hold
    mapped,    \* is the executable pool mapped
    registry,  \* HOOK_REGISTRY: the installation of each target
    frames,    \* native_hook_stack, one for all threads
    call,      \* where each thread is
    lock,      \* the holder of JS_RUNTIME_LOCK
    op,        \* the operation the holder is carrying out
    runtime,   \* the JavaScript runtime: its number, whether it is alive ...
    mixed,     \* history: a callback popped a frame that was not its own
    unclean,   \* history: some removal failed or a wait timed out
    stale      \* history: a value of a dropped context was called or freed

vars == <<hook, code, mapped, registry, frames, call, lock, op, runtime,
          mixed, unclean, stale>>

JsKinds == {"replace", "attach"}
NativeKinds == {"nativeReplace", "nativeAttach"}
Kinds == JsKinds \cup NativeKinds
AttachKinds == {"attach", "nativeAttach"}

UnusedHook == [state |-> "unused"]
NoCode == [state |-> "free", hook |-> NoHook]
Idle == [pc |-> "idle"]
NoOp == [kind |-> "none"]

------------------------------------------------------------------------------
(* The two counters, and what the code behind a thread's next step needs.  *)

Kind(t) == hook[call[t].hook].kind

\* in_flight_callbacks: a native attach counts from onEnter to onLeave, every
\* other callback from its entry to its return.
InFlight ==
    {t \in Threads :
        \/ call[t].pc \in {"wait", "js", "original", "body"}
        \/ call[t].pc = "inside" /\ Kind(t) = "nativeAttach"}

\* g_hook_active_thunks: from the first instructions of the thunk to its exit
\* helper.  A thread that has only fetched the branch is not counted.
Active == {t \in Threads : call[t].pc \notin {"idle", "branch", "lost"}}

\* The thunk and the trampoline thread t runs in still hold its hook's code.
Intact(t) ==
    /\ mapped
    /\ code[call[t].entry].hook = call[t].hook
    /\ code[call[t].entry].state # "free"

HookedBy(target) ==
    {e \in Entries : code[e].state = "hooked" /\ hook[code[e].hook].target = target}

\* The context of h has the address of the present one (runtime contexts are
\* known by their address, and a new one may get the address of a dropped one).
OwnedByRuntime(h) == hook[h].runtime = runtime.number \/ hook[h].runtime \in runtime.aliases

\* runtime_context_is_closing for the context of h.
ContextIsClosing(h) == runtime.closing \/ ~OwnedByRuntime(h)

ContextIsAlive(h) == runtime.alive /\ hook[h].runtime = runtime.number

OpIs(kinds) == op.kind \in kinds

------------------------------------------------------------------------------
(* The life of a call, one thread at a time.                               *)

Goto(t, pc) == call' = [call EXCEPT ![t] = [call[t] EXCEPT !.pc = pc]]

Lose(t) == call' = [call EXCEPT ![t] = [pc |-> "lost", late |-> call[t].late]]

\* The thread calls a hooked function and has fetched the branch at its entry.
Call(t) ==
    /\ call[t].pc = "idle"
    /\ \E e \in Entries :
          /\ code[e].state = "hooked"
          /\ call' = [call EXCEPT ![t] =
                [pc |-> "branch", entry |-> e, hook |-> code[e].hook,
                 phase |-> "enter", tramp |-> FALSE, ran |-> 0,
                 late |-> FALSE]]
    /\ UNCHANGED <<hook, code, mapped, registry, frames, lock, op, runtime, mixed, unclean, stale>>

\* emit_thunk_activity_enter: the thunk counts itself active.
EnterThunk(t) ==
    /\ call[t].pc = "branch"
    /\ IF Intact(t) THEN Goto(t, "thunk") ELSE Lose(t)
    /\ UNCHANGED <<hook, code, mapped, registry, frames, lock, op, runtime, mixed, unclean, stale>>

\* The generated thunk calls the callback (or, after the original function of
\* an attached hook, the second one).  It counts itself in flight and reads the
\* dispatch record; a replacement reads the trampoline, which the installer
\* stores only after the target is patched, and pushes its frame.
EnterCallback(t) ==
    /\ call[t].pc \in {"thunk", "inside"}
    /\ IF Intact(t) /\ hook[call[t].hook].state = "live"
       THEN /\ call' = [call EXCEPT ![t] =
                  [call[t] EXCEPT !.pc = IF Kind(t) \in NativeKinds THEN "body" ELSE "wait",
                            !.phase = IF call[t].pc = "inside" THEN "leave" ELSE "enter",
                            !.tramp = Kind(t) = "replace" /\ hook[call[t].hook].tramp]]
            /\ frames' = IF Kind(t) = "replace"
                         THEN Append(frames, [thread |-> t, orig |-> FALSE])
                         ELSE frames
       ELSE Lose(t) /\ UNCHANGED frames
    /\ UNCHANGED <<hook, code, mapped, registry, lock, op, runtime, mixed, unclean, stale>>

\* Where a callback goes when it returns: an attached hook's onEnter is
\* followed by the original function, everything else leaves the thunk.
AfterCallback(t) ==
    IF Kind(t) \in AttachKinds /\ call[t].phase = "enter" THEN "inside" ELSE "out"

\* Variant: The lock is enough: the context is not looked at again.
LockTakenUnchecked(t) == call[t].pc = "wait" /\ lock = Nobody

\* try_enter_runtime_js_for_callback: the lock is taken and the context is
\* still not closing.
LockTaken(t) ==
    /\ call[t].pc = "wait"
    /\ lock = Nobody
    /\ ~ContextIsClosing(call[t].hook)

EnterJs(t) ==
    /\ LockTaken(t)
    /\ IF hook[call[t].hook].state = "live"
       THEN lock' = t /\ Goto(t, "js")
       ELSE Lose(t) /\ UNCHANGED lock
    /\ stale' = (stale \/ ~ContextIsAlive(call[t].hook))
    /\ UNCHANGED <<hook, code, mapped, registry, frames, op, runtime, mixed, unclean>>

\* pop_native_hook_frame takes the last frame of the one stack, whoever pushed
\* it.
Popped == frames[Len(frames)]
PopFrame(t) ==
    /\ frames' = SubSeq(frames, 1, Len(frames) - 1)
    /\ mixed' = (mixed \/ Popped.thread # t)

\* Variant: The popped frame is not asked whether the script ran the original.
FallBackAlways(t) ==
    /\ PopFrame(t)
    /\ call' = [call EXCEPT ![t] =
          [call[t] EXCEPT !.pc = IF call[t].tramp THEN "original" ELSE "out",
                          !.phase = "fallback"]]

\* A replacement whose callback did not run, or failed: the wrapper pops a
\* frame and, unless that frame says the script did so, runs the original.
FallBack(t) ==
    /\ PopFrame(t)
    /\ call' = [call EXCEPT ![t] =
          [call[t] EXCEPT
              !.pc = IF call[t].tramp /\ ~Popped.orig THEN "original" ELSE "out",
              !.phase = "fallback"]]

\* Variant: A callback waits for the lock as long as it takes.
SkipIfClosing(t) ==
    /\ call[t].pc = "wait"
    /\ ContextIsClosing(call[t].hook)
    /\ IF Kind(t) = "replace"
       THEN FallBack(t)
       ELSE Goto(t, AfterCallback(t)) /\ UNCHANGED <<frames, mixed>>
    /\ UNCHANGED <<hook, code, mapped, registry, lock, op, runtime, unclean, stale>>

\* The callback is skipped: its context is closing, or the lock stayed busy.
Skip(t) ==
    /\ call[t].pc = "wait"
    /\ ContextIsClosing(call[t].hook) \/ lock # Nobody
    /\ IF Kind(t) = "replace"
       THEN FallBack(t)
       ELSE Goto(t, AfterCallback(t)) /\ UNCHANGED <<frames, mixed>>
    /\ UNCHANGED <<hook, code, mapped, registry, lock, op, runtime, unclean, stale>>

\* mark_native_hook_frame_orig_called searches from the end for the frame of t.
IsLastOf(t, i) ==
    /\ frames[i].thread = t
    /\ \A j \in DOMAIN frames : j > i => frames[j].thread # t

\* js_native_call_original: ctx.orig() marks the frame of its own call, if it
\* is still there, and runs the original function.
CallOriginal(t) ==
    /\ call[t].pc = "js"
    /\ op = NoOp
    /\ Kind(t) = "replace"
    /\ call[t].tramp
    /\ call[t].ran = 0
    /\ IF Intact(t)
       THEN /\ call' = [call EXCEPT ![t] = [call[t] EXCEPT !.ran = 1]]
            /\ frames' = [i \in DOMAIN frames |->
                             IF IsLastOf(t, i)
                             THEN [frames[i] EXCEPT !.orig = TRUE] ELSE frames[i]]
       ELSE Lose(t) /\ UNCHANGED frames
    /\ UNCHANGED <<hook, code, mapped, registry, lock, op, runtime, mixed, unclean, stale>>

\* The JavaScript function returns; the guard then frees the lock.
ReturnFromJs(t) ==
    /\ call[t].pc = "js"
    /\ op = NoOp
    /\ lock' = Nobody
    /\ Goto(t, AfterCallback(t))
    /\ IF Kind(t) = "replace" THEN PopFrame(t) ELSE UNCHANGED <<frames, mixed>>
    /\ UNCHANGED <<hook, code, mapped, registry, op, runtime, unclean, stale>>

\* A replacement threw: the original runs, still under the lock, unless the
\* popped frame says that it did.
ThrowFromJs(t) ==
    /\ call[t].pc = "js"
    /\ op = NoOp
    /\ Kind(t) = "replace"
    /\ FallBack(t)
    /\ lock' = IF call'[t].pc = "original" THEN lock ELSE Nobody
    /\ UNCHANGED <<hook, code, mapped, registry, op, runtime, unclean, stale>>

\* hook_invoke_trampoline of a skipped or failed replacement returns.
RunOriginal(t) ==
    /\ call[t].pc = "original"
    /\ IF Intact(t)
       THEN call' = [call EXCEPT ![t] = [call[t] EXCEPT !.pc = "out", !.ran = @ + 1]]
       ELSE Lose(t)
    /\ lock' = IF lock = t THEN Nobody ELSE lock
    /\ UNCHANGED <<hook, code, mapped, registry, frames, op, runtime, mixed, unclean, stale>>

\* The native callback returns.
ReturnFromNative(t) ==
    /\ call[t].pc = "body"
    /\ Goto(t, AfterCallback(t))
    /\ UNCHANGED <<hook, code, mapped, registry, frames, lock, op, runtime, mixed, unclean, stale>>

\* The thunk's epilogue, the last that runs in the pool, and its exit helper.
Return(t) ==
    /\ call[t].pc = "out"
    /\ IF Intact(t) THEN call' = [call EXCEPT ![t] = Idle] ELSE Lose(t)
    /\ UNCHANGED <<hook, code, mapped, registry, frames, lock, op, runtime, mixed, unclean, stale>>

ThreadStep(t) ==
    \/ EnterThunk(t) \/ EnterCallback(t)
    \/ EnterJs(t) \/ Skip(t)
    \/ RunOriginal(t) \/ ReturnFromNative(t) \/ Return(t)

ScriptReturns(t) == ReturnFromJs(t) \/ ThrowFromJs(t)

------------------------------------------------------------------------------
(* The script of the lock's holder: a host thread, or a callback.          *)

HostEnters ==
    /\ lock = Nobody
    /\ op = NoOp
    /\ runtime.alive
    /\ lock' = Host
    /\ UNCHANGED <<hook, code, mapped, registry, frames, call, op, runtime, mixed, unclean, stale>>

HostLeaves ==
    /\ lock = Host
    /\ op = NoOp
    /\ lock' = Nobody
    /\ UNCHANGED <<hook, code, mapped, registry, frames, call, op, runtime, mixed, unclean, stale>>

ScriptRuns ==
    /\ op = NoOp
    /\ \/ lock = Host
       \/ lock \in Threads /\ call[lock].pc = "js"

\* Dispatch records are allocated in the order of their numbers.
IsNextHook(h) ==
    /\ hook[h] = UnusedHook
    /\ \A k \in Hooks : k < h => hook[k] # UnusedHook

\* The engine writes trampoline and thunk of h into a free entry and patches
\* the target.
Patch(h, target, kind) ==
    /\ HookedBy(target) = {}
    /\ \E e \in Entries :
          /\ code[e].state = "free"
          /\ code' = [code EXCEPT ![e] = [state |-> "hooked", hook |-> h]]
    /\ hook' = [hook EXCEPT ![h] =
          [state |-> "live", kind |-> kind, target |-> target,
           runtime |-> runtime.number, tramp |-> FALSE]]
    /\ mapped' = TRUE

\* js_hook and js_interceptor_attach, to the end of hook_replace/hook_attach:
\* calls already reach the thunk.
Install(h, target, kind) ==
    /\ ScriptRuns
    /\ IsNextHook(h)
    /\ kind \in JsKinds
    /\ registry[target] = NoHook
    /\ Patch(h, target, kind)
    /\ op' = [kind |-> "install", hook |-> h]
    /\ UNCHANGED <<registry, frames, call, lock, runtime, mixed, unclean, stale>>

\* ... and the rest of them: the trampoline is stored, the hook registered.
Publish ==
    /\ OpIs({"install"})
    /\ hook' = [hook EXCEPT ![op.hook] = [@ EXCEPT !.tramp = TRUE]]
    /\ registry' = [registry EXCEPT ![hook[op.hook].target] = op.hook]
    /\ op' = NoOp
    /\ UNCHANGED <<code, mapped, frames, call, lock, runtime, mixed, unclean, stale>>

\* hook_remove: the target's bytes are restored and the entry is retired.
Retire(targets) ==
    code' = [e \in Entries |->
        IF code[e].state = "hooked" /\ hook[code[e].hook].target \in targets
        THEN [code[e] EXCEPT !.state = "retired"] ELSE code[e]]

\* What a removal is waiting for: "calls" (callbacks in flight), "thunks" and
\* "grace" (active thunks, twice), then "free" and "reclaim".
Removal(kind, dead, targets, next) ==
    [kind |-> kind, step |-> "calls", dead |-> dead, targets |-> targets, next |-> next]

NoNext == [hook |-> NoHook]

\* Variant: The hook leaves the registry but not the engine.
UnhookRegistryOnly(target) ==
    /\ ScriptRuns
    /\ HookedBy(target) # {}
    /\ registry' = [registry EXCEPT ![target] = NoHook]
    /\ op' = IF registry[target] = NoHook THEN NoOp
             ELSE Removal("unhook", {registry[target]}, {}, NoNext)
    /\ UNCHANGED <<hook, code, mapped, frames, call, lock, runtime, mixed, unclean, stale>>

\* js_unhook: the engine's hook is removed first, the registry's then.
Unhook(target) ==
    /\ ScriptRuns
    /\ HookedBy(target) # {}
    /\ Retire({target})
    /\ registry' = [registry EXCEPT ![target] = NoHook]
    /\ op' = IF registry[target] = NoHook THEN NoOp
             ELSE Removal("unhook", {registry[target]}, {}, NoNext)
    /\ UNCHANGED <<hook, mapped, frames, call, lock, runtime, mixed, unclean, stale>>

\* Variant: The registry is not asked whether the target has a hook.
InstallOverNothing(h, target, kind) ==
    /\ ScriptRuns
    /\ IsNextHook(h)
    /\ kind \in NativeKinds
    /\ Retire({target})
    /\ registry' = [registry EXCEPT ![target] = NoHook]
    /\ op' = Removal("native", {registry[target]}, {},
                     [hook |-> h, target |-> target, kind |-> kind])
    /\ UNCHANGED <<hook, mapped, frames, call, lock, runtime, mixed, unclean, stale>>

\* Variant: The replaced hook's record is forgotten.
InstallForgettingOld(h, target, kind) ==
    /\ ScriptRuns
    /\ IsNextHook(h)
    /\ kind \in NativeKinds
    /\ IF registry[target] = NoHook
       THEN /\ Patch(h, target, kind)
            /\ registry' = [registry EXCEPT ![target] = h]
            /\ UNCHANGED op
       ELSE /\ Retire({target})
            /\ registry' = [registry EXCEPT ![target] = NoHook]
            /\ op' = Removal("native", {}, {},
                             [hook |-> h, target |-> target, kind |-> kind])
            /\ UNCHANGED <<hook, mapped>>
    /\ UNCHANGED <<frames, call, lock, runtime, mixed, unclean, stale>>

\* js_hook_native and js_attach_native: a hook the target already has is
\* removed first (a hook only the registry knows counts as removed).  If the
\* engine cannot remove it, it stays registered and nothing has changed.
InstallNative(h, target, kind) ==
    /\ ScriptRuns
    /\ IsNextHook(h)
    /\ kind \in NativeKinds
    /\ IF registry[target] = NoHook
       THEN /\ Patch(h, target, kind)
            /\ registry' = [registry EXCEPT ![target] = h]
            /\ UNCHANGED op
       ELSE /\ Retire({target})
            /\ registry' = [registry EXCEPT ![target] = NoHook]
            /\ op' = Removal("native", {registry[target]}, {},
                             [hook |-> h, target |-> target, kind |-> kind])
            /\ UNCHANGED <<hook, mapped>>
    /\ UNCHANGED <<frames, call, lock, runtime, mixed, unclean, stale>>

\* cleanup_registered_hooks: every hook of the present context is removed from
\* the engine; those whose removal fails stay.  The registry is left for later.
RemoveOwned(kind) ==
    \E removed \in SUBSET Targets :
        LET owned == {t \in Targets : registry[t] # NoHook /\ OwnedByRuntime(registry[t])}
        IN  /\ removed \subseteq owned
            /\ \A t \in owned \ removed : HookedBy(t) # {}
            /\ Retire(removed)
            /\ unclean' = (unclean \/ removed # owned)
            /\ op' = Removal(kind, {registry[t] : t \in removed}, removed,
                             [failed |-> removed # owned])

DetachAll ==
    /\ ScriptRuns
    /\ RemoveOwned("detachAll")
    /\ UNCHANGED <<hook, mapped, registry, frames, call, lock, runtime, mixed, stale>>

\* JsRuntime::cleanup and cleanup_hook_backend, by the host only.
Cleanup ==
    /\ ScriptRuns
    /\ lock = Host
    /\ RemoveOwned("cleanup")
    /\ runtime' = [runtime EXCEPT !.closing = TRUE]
    /\ UNCHANGED <<hook, mapped, registry, frames, call, lock, mixed, stale>>

------------------------------------------------------------------------------
(* Waiting, then freeing - or giving up.                                   *)

Step(step) == op.kind # "none" /\ "step" \in DOMAIN op /\ op.step = step

GoOn(step) == op' = [op EXCEPT !.step = step]

\* Variant: Records are freed as soon as no callback is in flight; a thread between the
\* branch and the callback is not waited for.
CallsGoneIsEnough ==
    /\ Step("calls")
    /\ InFlight = {}
    /\ GoOn("free")
    /\ UNCHANGED <<hook, code, mapped, registry, frames, call, lock, runtime, mixed, unclean, stale>>

\* wait_for_in_flight_callbacks sees the counter at zero.
CallsGone ==
    /\ Step("calls")
    /\ InFlight = {}
    /\ GoOn("thunks")
    /\ UNCHANGED <<hook, code, mapped, registry, frames, call, lock, runtime, mixed, unclean, stale>>

\* hook_engine_wait_for_quiescence sees the counter at zero, once ...
ThunksGone ==
    /\ Step("thunks")
    /\ Active = {}
    /\ GoOn("grace")
    /\ UNCHANGED <<hook, code, mapped, registry, frames, call, lock, runtime, mixed, unclean, stale>>

\* ... and again one millisecond later.  A thread that needed longer from the
\* branch to the counter goes unseen: it is late.
GraceOver ==
    /\ Step("grace")
    /\ IF Active = {}
       THEN /\ GoOn("free")
            /\ call' = [t \in Threads |->
                  IF call[t].pc = "branch" /\ code[call[t].entry].state # "hooked"
                  THEN [call[t] EXCEPT !.late = TRUE] ELSE call[t]]
       ELSE GoOn("thunks") /\ UNCHANGED call
    /\ UNCHANGED <<hook, code, mapped, registry, frames, lock, runtime, mixed, unclean, stale>>

\* Variant: The registry keeps what detachAll and the clean-up freed.
FreeButKeep ==
    /\ Step("free")
    /\ op.kind # "unmap"
    /\ hook' = [h \in Hooks |->
           IF h \in op.dead THEN [hook[h] EXCEPT !.state = "freed"] ELSE hook[h]]
    /\ stale' = (stale \/ \E h \in op.dead : hook[h].kind \in JsKinds /\ ~ContextIsAlive(h))
    /\ GoOn("reclaim")
    /\ UNCHANGED <<code, mapped, registry, frames, call, lock, runtime, mixed, unclean>>

\* The records of the removed hooks are freed; detachAll and the clean-up only
\* now take them from the registry.
Free ==
    /\ Step("free")
    /\ op.kind # "unmap"
    /\ hook' = [h \in Hooks |->
           IF h \in op.dead THEN [hook[h] EXCEPT !.state = "freed"] ELSE hook[h]]
    /\ registry' = [t \in Targets |-> IF t \in op.targets THEN NoHook ELSE registry[t]]
    /\ stale' = (stale \/ \E h \in op.dead : hook[h].kind \in JsKinds /\ ~ContextIsAlive(h))
    /\ GoOn("reclaim")
    /\ UNCHANGED <<code, mapped, frames, call, lock, runtime, mixed, unclean>>

\* What follows a removal: the end of a script's call, the native hook's own
\* installation, or - for the clean-up - the engine's, unless a removal failed
\* or a hook of another context is left.
After(op_, released) ==
    CASE op_.kind = "native" -> [op_ EXCEPT !.step = "install"]
      [] op_.kind = "cleanup" ->
            IF /\ released /\ ~op_.next.failed
               /\ mapped /\ \A t \in Targets : registry[t] = NoHook
            THEN [op_ EXCEPT !.kind = "unmap", !.step = "thunks"]
            ELSE [kind |-> "drop"]
      [] op_.kind = "unmap" -> [kind |-> "drop"]
      [] OTHER -> NoOp

\* The clean-up's guard gives the lock back before the context is dropped.
LockAfter(op_) == IF op_.kind = "drop" THEN Nobody ELSE lock

\* hook_reclaim_retired: every retired entry may be used again, unless some
\* thunk is active.
Reclaim ==
    /\ Step("reclaim")
    /\ code' = IF Active # {} THEN code
               ELSE [e \in Entries |-> IF code[e].state = "retired"
                                       THEN NoCode ELSE code[e]]
    /\ op' = After(op, TRUE)
    /\ lock' = LockAfter(op')
    /\ UNCHANGED <<hook, mapped, registry, frames, call, runtime, mixed, unclean, stale>>

\* hook_engine_cleanup forgets every entry, and the pool is unmapped.
Unmap ==
    /\ Step("free")
    /\ op.kind = "unmap"
    /\ code' = [e \in Entries |-> NoCode]
    /\ mapped' = FALSE
    /\ op' = After(op, TRUE)
    /\ lock' = LockAfter(op')
    /\ UNCHANGED <<hook, registry, frames, call, runtime, mixed, unclean, stale>>

\* Variant: The wait for callbacks in flight has no deadline.
TimeOutOfThunksOnly ==
    /\ Step("thunks") /\ Active # {}
    /\ unclean' = TRUE
    /\ op' = After(op, FALSE)
    /\ lock' = LockAfter(op')
    /\ UNCHANGED <<hook, code, mapped, registry, frames, call, runtime, mixed, stale>>

\* A wait of 20 or 200 ms ends with threads still inside: records and thunks
\* are kept, and the operation ends as it would have.
TimeOut ==
    /\ \/ Step("calls") /\ InFlight # {}
       \/ Step("thunks") /\ Active # {}
    /\ unclean' = TRUE
    /\ op' = After(op, FALSE)
    /\ lock' = LockAfter(op')
    /\ UNCHANGED <<hook, code, mapped, registry, frames, call, runtime, mixed, stale>>

\* The native hook takes the place of the removed one, or the engine cannot
\* install it (no entry is left, the page stays read-only).
InstallNext ==
    /\ Step("install")
    /\ \/ /\ Patch(op.next.hook, op.next.target, op.next.kind)
          /\ registry' = [registry EXCEPT ![op.next.target] = op.next.hook]
       \/ UNCHANGED <<hook, code, mapped, registry>>
    /\ op' = NoOp
    /\ UNCHANGED <<frames, call, lock, runtime, mixed, unclean, stale>>

\* JsRuntime::cleanup drops the context, whatever the clean-up of the hooks
\* came to.
DropContext ==
    /\ OpIs({"drop"})
    /\ runtime' = [runtime EXCEPT !.alive = FALSE]
    /\ op' = NoOp
    /\ UNCHANGED <<hook, code, mapped, registry, frames, call, lock, mixed, unclean, stale>>

\* JsRuntime::initialize: the new context may have the address of the last one,
\* and register_hook_api takes that address off the list of closing contexts.
StartRuntime ==
    /\ ~runtime.alive
    /\ op = NoOp
    /\ runtime.number < MaxRuntimes
    /\ \E reused \in BOOLEAN :
          runtime' = [number |-> runtime.number + 1, alive |-> TRUE, closing |-> FALSE,
                      aliases |-> IF reused THEN runtime.aliases \cup {runtime.number} ELSE {}]
    /\ UNCHANGED <<hook, code, mapped, registry, frames, call, lock, op, mixed, unclean, stale>>

OpStep ==
    \/ Publish \/ CallsGone \/ ThunksGone \/ GraceOver \/ Free \/ Reclaim
    \/ Unmap \/ TimeOut \/ InstallNext \/ DropContext

Script ==
    \/ HostEnters \/ HostLeaves \/ DetachAll \/ Cleanup \/ StartRuntime
    \/ \E target \in Targets : Unhook(target)
    \/ \E h \in Hooks, target \in Targets, kind \in Kinds :
          Install(h, target, kind) \/ InstallNative(h, target, kind)

Init ==
    /\ hook = [h \in Hooks |-> UnusedHook]
    /\ code = [e \in Entries |-> NoCode]
    /\ mapped = FALSE
    /\ registry = [t \in Targets |-> NoHook]
    /\ frames = <<>>
    /\ call = [t \in Threads |-> Idle]
    /\ lock = Nobody
    /\ op = NoOp
    /\ runtime = [number |-> 1, alive |-> TRUE, closing |-> FALSE, aliases |-> {}]
    /\ mixed = FALSE
    /\ unclean = FALSE
    /\ stale = FALSE

Next ==
    \/ Script
    \/ OpStep
    \/ \E t \in Threads : Call(t) \/ CallOriginal(t) \/ ThreadStep(t) \/ ScriptReturns(t)

Spec == Init /\ [][Next]_vars

\* Hooked functions and callbacks return, threads are scheduled, a script that
\* runs in a callback is not busy for ever, and a wait's deadline passes.
FairSpec ==
    /\ Spec
    /\ WF_vars(OpStep)
    /\ SF_vars(TimeOut)
    /\ \A t \in Threads : WF_vars(ThreadStep(t)) /\ SF_vars(ScriptReturns(t))

------------------------------------------------------------------------------
(* Properties.                                                             *)

HookRecords ==
    {UnusedHook} \cup
    [state : {"live", "freed"}, kind : Kinds, target : Targets,
     runtime : 1 .. MaxRuntimes, tramp : BOOLEAN]

Calls ==
    {Idle} \cup
    [pc : {"lost"}, late : BOOLEAN] \cup
    [pc : {"branch", "thunk", "wait", "js", "original", "body", "inside", "out"},
     entry : Entries, hook : Hooks, phase : {"enter", "leave", "fallback"}, tramp : BOOLEAN,
     ran : 0 .. 2, late : BOOLEAN]

Removals ==
    [kind : {"unhook", "detachAll", "cleanup", "native", "unmap"},
     step : {"calls", "thunks", "grace", "free", "reclaim", "install"},
     dead : SUBSET Hooks, targets : SUBSET Targets,
     next : {NoNext} \cup [failed : BOOLEAN] \cup
            [hook : Hooks, target : Targets, kind : NativeKinds]]

Ops == {NoOp, [kind |-> "drop"]} \cup [kind : {"install"}, hook : Hooks] \cup Removals

\* Every variable keeps its type.
HookTypeOK ==
    /\ hook \in [Hooks -> HookRecords]
    /\ code \in [Entries -> [state : {"free", "hooked", "retired"}, hook : Hooks \cup {NoHook}]]
    /\ mapped \in BOOLEAN
    /\ registry \in [Targets -> Hooks \cup {NoHook}]
    /\ frames \in Seq([thread : Threads, orig : BOOLEAN])
    /\ call \in [Threads -> Calls]
    /\ lock \in Threads \cup {Host, Nobody}
    /\ op \in Ops
    /\ runtime \in [number : 1 .. MaxRuntimes, alive : BOOLEAN, closing : BOOLEAN,
                    aliases : SUBSET (1 .. MaxRuntimes)]
    /\ mixed \in BOOLEAN
    /\ unclean \in BOOLEAN
    /\ stale \in BOOLEAN

\* The two counters and the grace interval are enough: the only thread that
\* ever uses a freed record or reclaimed code is one that had fetched the
\* branch to a removed hook and had not reached the counter when the interval
\* ended (hook_engine_wait_for_quiescence, hook_engine.c:81).
OnlyLateThreadsAreLost == \A t \in Threads : call[t].pc = "lost" => call[t].late

\* Engine and registry agree.  What the engine patches has a live record and -
\* unless its installation is not over - is what the registry has for that
\* target; and a target the registry has is patched, unless its removal is
\* under way or an earlier one did not finish (then it can neither be hooked
\* nor unhooked from JavaScript again).
EngineMatchesRegistry ==
    /\ \A e \in Entries : code[e].state = "hooked" =>
          /\ hook[code[e].hook].state = "live"
          /\ registry[hook[code[e].hook].target] = code[e].hook
             \/ op = [kind |-> "install", hook |-> code[e].hook]
    /\ \A t \in Targets : registry[t] # NoHook =>
          \/ \E e \in HookedBy(t) : code[e].hook = registry[t]
          \/ unclean
          \/ OpIs({"detachAll", "cleanup"})

\* Nothing is leaked by an operation that saw every counter at zero: a record
\* that is not freed is the registry's, or is being installed or removed.
LeakOnlyIfUnclean ==
    \A h \in Hooks : hook[h].state = "live" =>
        \/ \E t \in Targets : registry[t] = h
        \/ unclean
        \/ op = [kind |-> "install", hook |-> h]
        \/ op \in Removals /\ h \in op.dead

\* A value of a context is neither called nor freed after the context was
\* dropped, unless a clean-up could not finish (a thread was still in a
\* callback, or a removal failed).  JsRuntime::cleanup drops the context all
\* the same: what the callbacks then have is the list of closing contexts.
StaleOnlyIfUnclean == stale => unclean

\* No callback runs in a context that is gone: the clean-up marks the context
\* closing before it gives the lock back, and a callback looks at the mark
\* again once it has the lock (hook.rs:1595).
JsOnlyWhileAlive == \A t \in Threads : call[t].pc = "js" => runtime.alive

\* A callback that the wrapper replaces by the original function runs it
\* exactly once, whether or not the script had called it - until a callback has
\* popped a frame that was not its own.
OriginalRunsOnce ==
    \A t \in Threads :
        call[t].pc = "out" /\ call[t].phase = "fallback" /\ call[t].tramp
            => call[t].ran = 1 \/ mixed

\* What the assertion in pop_native_hook_frame says (hook.rs:2050): a callback
\* pops the frame it pushed.
PopsItsOwnFrame == ~mixed

\* Whatever the other threads do, and also when it is called from a callback
\* that is itself in flight, a removal ends.
OpsEnd == (op # NoOp) ~> (op = NoOp)

\* A thread that runs into a hook comes out of it.
CallsEnd == \A t \in Threads : (call[t].pc # "idle") ~> (call[t].pc \in {"idle", "lost"})
==============================================================================
