-------------------------- MODULE RewriteTransaction --------------------------
(***************************************************************************)
(* The Stalker's rewrite of a function for a followed thread (stalker.rs). *)
(*                                                                         *)
(* A script prepares a code cache: a relocated copy of the function's      *)
(* first instructions in a mapping of its own.  A commit suspends the      *)
(* followed thread, waits until no hook callback is in flight, compares    *)
(* the function with the bytes the cache was made from, writes a branch to *)
(* the cache over the function's entry and resumes the thread.  A commit   *)
(* owns the cache and the patch; it is rolled back, disposed of, or        *)
(* dropped by the garbage collector, and the last two unmap the cache.     *)
(*                                                                         *)
(* Only the followed thread is suspended.  The other threads go on calling *)
(* the function, and what the suspended thread holds it keeps.             *)
(***************************************************************************)
CONSTANTS
    Caches,   \* code caches; each is prepared once, which bounds them
    Followed, \* the followed thread
    Others,   \* other threads that call the function
    Code      \* the function's own first instruction

ASSUME RewriteConstants ==
    /\ Code \notin Caches
    /\ Followed \notin Others

Threads == Others \cup {Followed}

VARIABLES
    cache,     \* the mapping of each cache and the instruction it relocated
    commit,    \* the commit that owns each cache
    entry,     \* the function's entry: its own code, or a branch to a cache
    page,      \* the protection of the entry's page
    at,        \* where each thread is
    heap,      \* the thread inside the allocator, which admits one
    suspended, \* is the followed thread suspended
    op,        \* the script's operation
    failed,    \* history: a patch could not be undone, and its owner went on
    crossed    \* history: a commit was undone while another lay over it

vars == <<cache, commit, entry, page, at, heap, suspended, op, failed, crossed>>

NoOp == [kind |-> "none"]
NoCommit == [state |-> "none"]
NoCache == [state |-> "none"]

LiveCommit(c) == commit[c].state # "none" /\ commit[c].applied
Mapped(c) == cache[c].state \in {"prepared", "owned"}

\* The operation allocates when it reads or writes the function's bytes (for its
\* protection, and for what was there), and when it fails.
HeapFree == heap = {}

\* The counter of callbacks in flight is behind a mutex that a thread holds
\* while it counts itself.
Counting == {t \in Threads : at[t] = "counting"}
InFlight == {t \in Threads : at[t] = "callback"}

CanRun(t) == at[t] \notin {"gone", "lost"} /\ ~(t = Followed /\ suspended)

------------------------------------------------------------------------------
(* The threads of the target.                                              *)

\* A thread that is inside the allocator does nothing else.
MoveTo(t, place) ==
    /\ t \notin heap
    /\ at' = [at EXCEPT ![t] = place]
    /\ UNCHANGED <<cache, commit, entry, page, heap, suspended, op, failed, crossed>>

\* A write makes the page writable and, where it cannot be both, not executable;
\* only the followed thread is kept away from it meanwhile.
Writing ==
    /\ op.kind # "none"
    /\ \/ op.step \in {"apply", "restore", "undo"}
       \/ op.step = "dropPatch" /\ commit[op.cache].applied
MayFault == page # "rx" \/ Writing

\* The branch, or the relocated instruction, leads into cache c.
Into(c) == IF Mapped(c) THEN c ELSE "lost"

\* A thread calls the function: its own code, or the cache the entry leads to.
CallFunction(t) ==
    /\ CanRun(t)
    /\ at[t] = "out"
    /\ \/ MayFault /\ MoveTo(t, "lost")
       \/ page = "rx" /\ entry \in Caches /\ MoveTo(t, Into(entry))

\* It runs on in the cache: the relocated instruction, then the rest of the
\* function.  What was relocated may itself be the branch to an older cache.
RunCache(t) ==
    /\ CanRun(t)
    /\ at[t] \in Caches
    /\ LET next == cache[at[t]].relocated IN
       \/ ~Mapped(at[t]) /\ MoveTo(t, "lost")
       \/ Mapped(at[t]) /\ next # Code /\ MoveTo(t, Into(next))
       \/ Mapped(at[t]) /\ next = Code /\ MayFault /\ MoveTo(t, "lost")
       \/ Mapped(at[t]) /\ next = Code /\ page = "rx" /\ MoveTo(t, "out")

\* A thread runs into a hook: it counts itself in flight (hook.rs).
EnterHook(t) ==
    /\ CanRun(t)
    /\ at[t] = "out"
    /\ Counting = {}
    /\ MoveTo(t, "counting")

Counted(t) ==
    /\ CanRun(t)
    /\ at[t] = "counting"
    /\ MoveTo(t, "callback")

LeaveHook(t) ==
    /\ CanRun(t)
    /\ at[t] = "callback"
    /\ Counting = {}
    /\ MoveTo(t, "out")

\* A thread allocates, in a callback or elsewhere.
Allocate(t) ==
    /\ CanRun(t)
    /\ at[t] \in {"out", "callback"}
    /\ heap = {}
    /\ heap' = {t}
    /\ UNCHANGED <<cache, commit, entry, page, at, suspended, op, failed, crossed>>

Allocated(t) ==
    /\ CanRun(t)
    /\ heap = {t}
    /\ heap' = {}
    /\ UNCHANGED <<cache, commit, entry, page, at, suspended, op, failed, crossed>>

\* The followed thread ends.
Exit ==
    /\ CanRun(Followed)
    /\ at[Followed] = "out"
    /\ MoveTo(Followed, "gone")

------------------------------------------------------------------------------
(* The patch (TargetMemoryPatch of memory.rs).                             *)

\* What write_patch_bytes may come to (on Apple systems invalidating the
\* instruction cache cannot fail), for a patch prepared when the page had
\* the protection `was`: nothing is written if the protection is no longer
\* that, or the page cannot be made writable; and the bytes may be written
\* while the protection cannot be put back.
Writes(bytes, was) ==
    {[entry |-> entry, page |-> page, ok |-> FALSE]} \cup
    (IF page # was THEN {}
     ELSE {[entry |-> bytes, page |-> page, ok |-> TRUE],
           [entry |-> bytes, page |-> "rw", ok |-> FALSE]})

Written(write) == entry' = write.entry /\ page' = write.page

------------------------------------------------------------------------------
(* The script's operations.                                                *)

GoOn(step) == op' = [op EXCEPT !.step = step]

\* prepareTargetThreadRewrite: the script passes the instructions it has read,
\* the function's own or what is at the entry now.
Prepare(c) ==
    /\ op = NoOp
    /\ cache[c] = NoCache
    /\ \E read \in {Code, entry} :
          cache' = [cache EXCEPT ![c] = [state |-> "prepared", relocated |-> read]]
    /\ UNCHANGED <<commit, entry, page, at, heap, suspended, op, failed, crossed>>

\* StalkerCodeCache.dispose and its finalizer: the mapping goes.
DisposeCache(c) ==
    /\ op = NoOp
    /\ cache[c].state = "prepared"
    /\ cache' = [cache EXCEPT ![c].state = "freed"]
    /\ UNCHANGED <<commit, entry, page, at, heap, suspended, op, failed, crossed>>

Begin(kind, c) == op' = [kind |-> kind, step |-> "suspend", cache |-> c, error |-> FALSE]

\* commitTargetThreadRewrite of a prepared, executable cache.
Commit(c) ==
    /\ op = NoOp
    /\ cache[c].state = "prepared"
    /\ Begin("commit", c)
    /\ UNCHANGED <<cache, commit, entry, page, at, heap, suspended, failed, crossed>>

\* rollback() and dispose() of a commit, and its finalizer.  A patch that is
\* not applied any more needs no thread suspended.
Undo(kind, c) ==
    /\ op = NoOp
    /\ commit[c].state = "live"
    /\ IF commit[c].applied
       THEN Begin(kind, c)
       ELSE op' = [kind |-> kind, step |-> "end", cache |-> c, error |-> FALSE]
    /\ UNCHANGED <<cache, commit, entry, page, at, heap, suspended, failed, crossed>>

\* suspend_stalker_thread: the thread must be live, and the kernel may refuse.
Suspend ==
    /\ op.kind # "none" /\ op.step = "suspend"
    /\ \/ /\ at[Followed] \notin {"gone", "lost"}
          /\ suspended' = TRUE
          /\ GoOn("quiesce")
       \/ /\ op' = [op EXCEPT !.step = "end", !.error = TRUE]
          /\ UNCHANGED suspended
    /\ UNCHANGED <<cache, commit, entry, page, at, heap, failed, crossed>>

\* Variant: the time-out returns without the resume.
QuiesceOrGiveUp ==
    /\ op.kind # "none" /\ op.step = "quiesce"
    /\ Counting = {}
    /\ IF InFlight = {}
       THEN GoOn(IF op.kind = "commit" THEN "verify" ELSE "restore")
       ELSE HeapFree /\ op' = [op EXCEPT !.step = "end", !.error = TRUE]
    /\ UNCHANGED <<cache, commit, entry, page, at, heap, suspended, failed, crossed>>

\* Variant: no time-out.
QuiesceUnlimited ==
    /\ op.kind # "none" /\ op.step = "quiesce"
    /\ Counting = {} /\ InFlight = {}
    /\ GoOn(IF op.kind = "commit" THEN "verify" ELSE "restore")
    /\ UNCHANGED <<cache, commit, entry, page, at, heap, suspended, failed, crossed>>

\* wait_for_target_thread_quiescence takes the counter's mutex, waits at most
\* 200 ms for it to be zero, and fails if it is not.
Quiesce ==
    /\ op.kind # "none" /\ op.step = "quiesce"
    /\ Counting = {}
    /\ IF InFlight = {}
       THEN GoOn(IF op.kind = "commit" THEN "verify" ELSE "restore")
       ELSE HeapFree /\ op' = [op EXCEPT !.step = "resume", !.error = TRUE]
    /\ UNCHANGED <<cache, commit, entry, page, at, heap, suspended, failed, crossed>>

\* Variant: no comparison.
VerifyNothing ==
    /\ op.kind # "none" /\ op.step = "verify"
    /\ HeapFree
    /\ commit' = [commit EXCEPT ![op.cache] =
           [state |-> "preparing", original |-> entry, was |-> page, applied |-> FALSE]]
    /\ GoOn("apply")
    /\ UNCHANGED <<cache, entry, page, at, heap, suspended, failed, crossed>>

\* The bytes at the function are compared with the cache's, and the patch is
\* prepared from them.
Verify ==
    /\ op.kind # "none" /\ op.step = "verify"
    /\ HeapFree
    /\ IF entry = cache[op.cache].relocated
       THEN /\ commit' = [commit EXCEPT ![op.cache] =
                  [state |-> "preparing", original |-> entry, was |-> page, applied |-> FALSE]]
            /\ GoOn("apply")
       ELSE /\ op' = [op EXCEPT !.step = "resume", !.error = TRUE]
            /\ UNCHANGED commit
    /\ UNCHANGED <<cache, entry, page, at, heap, suspended, failed, crossed>>

\* Variant: the mark is set by a write that has succeeded.
ApplyMarkedLast ==
    /\ op.kind # "none" /\ op.step = "apply"
    /\ HeapFree
    /\ \E write \in Writes(op.cache, commit[op.cache].was) :
          /\ Written(write)
          /\ op' = [op EXCEPT !.step = IF write.ok THEN "resume" ELSE "dropPatch",
                              !.error = ~write.ok]
          /\ commit' = [commit EXCEPT ![op.cache].applied = write.ok]
    /\ UNCHANGED <<cache, at, heap, suspended, failed, crossed>>

\* TargetMemoryPatch::apply is marked applied before it writes.  If it fails,
\* the patch is dropped, which tries to undo it and ignores whether it can.
Apply ==
    /\ op.kind # "none" /\ op.step = "apply"
    /\ HeapFree
    /\ \E write \in Writes(op.cache, commit[op.cache].was) :
          /\ Written(write)
          /\ op' = [op EXCEPT !.step = IF write.ok THEN "resume" ELSE "dropPatch",
                              !.error = ~write.ok]
    /\ commit' = [commit EXCEPT ![op.cache].applied = TRUE]
    /\ UNCHANGED <<cache, at, heap, suspended, failed, crossed>>

\* TargetMemoryPatch::rollback writes the original bytes, whatever is there by
\* now, and leaves the patch applied if it fails.
Crosses(c, write) == entry # c /\ write.entry # entry

\* Variant: as apply, it sets the mark before it writes.
RollBackMarkedFirst(c) ==
    \E write \in Writes(commit[c].original, commit[c].was) :
        /\ Written(write)
        /\ commit' = [commit EXCEPT ![c].applied = FALSE]
        /\ crossed' = (crossed \/ Crosses(c, write))

RollBack(c) ==
    \E write \in Writes(commit[c].original, commit[c].was) :
        /\ Written(write)
        /\ commit' = [commit EXCEPT ![c].applied = ~write.ok]
        /\ crossed' = (crossed \/ Crosses(c, write))

Restore ==
    /\ op.kind # "none" /\ op.step = "restore"
    /\ HeapFree
    /\ RollBack(op.cache)
    /\ op' = [op EXCEPT !.step = "resume", !.error = commit'[op.cache].applied]
    /\ UNCHANGED <<cache, at, heap, suspended, failed>>

\* The lease resumes the thread: explicitly, or when it is dropped after an
\* error.  An explicit resume that fails is an error, which a commit answers
\* by undoing its patch; the lease's last attempt is taken to succeed.
Resume ==
    /\ op.kind # "none" /\ op.step = "resume"
    /\ \/ /\ suspended' = FALSE
          /\ GoOn("end")
       \/ /\ ~op.error /\ HeapFree
          /\ op' = [op EXCEPT !.error = TRUE,
                              !.step = IF op.kind = "commit" THEN "undo" ELSE "resume"]
          /\ UNCHANGED suspended
    /\ UNCHANGED <<cache, commit, entry, page, at, heap, failed, crossed>>

\* The patch is undone and the resume repeated, whatever came of the first.
UndoUnresumed ==
    /\ op.kind # "none" /\ op.step = "undo"
    /\ HeapFree
    /\ RollBack(op.cache)
    /\ GoOn("resumeAgain")
    /\ UNCHANGED <<cache, at, heap, suspended, failed>>

ResumeAgain ==
    /\ op.kind # "none" /\ op.step = "resumeAgain"
    /\ suspended' = FALSE \/ (HeapFree /\ UNCHANGED suspended)
    /\ GoOn("dropPatch")
    /\ UNCHANGED <<cache, commit, entry, page, at, heap, failed, crossed>>

\* A patch that is dropped while applied makes one attempt to undo itself, and
\* nobody learns what came of it.  A commit that failed has its cache left; a
\* commit that is freed has nothing left.
DropPatch ==
    /\ op.kind # "none" /\ op.step = "dropPatch"
    /\ HeapFree
    /\ LET c == op.cache IN
       /\ \E write \in Writes(commit[c].original, commit[c].was) :
             IF commit[c].applied
             THEN /\ Written(write)
                  /\ failed' = (failed \/ ~write.ok)
                  /\ crossed' = (crossed \/ Crosses(c, write))
             ELSE UNCHANGED <<entry, page, failed, crossed>>
       /\ commit' = [commit EXCEPT ![c] = NoCommit]
    /\ IF op.kind = "commit" THEN GoOn("resume") ELSE op' = NoOp
    /\ UNCHANGED <<cache, at, heap, suspended>>

\* The end of an operation, with the thread running again.
EndCommit ==
    /\ op.kind = "commit" /\ op.step = "end"
    /\ op' = NoOp
    /\ IF op.error
       THEN UNCHANGED <<cache, commit>>
       ELSE /\ commit' = [commit EXCEPT ![op.cache].state = "live"]
            /\ cache' = [cache EXCEPT ![op.cache].state = "owned"]
    /\ UNCHANGED <<entry, page, at, heap, suspended, failed, crossed>>

\* rollback() keeps the commit, whatever came of it; dispose() keeps it if it
\* could not be rolled back.
KeepCommit ==
    /\ op.kind \in {"rollback", "dispose"} /\ op.step = "end"
    /\ op.kind = "dispose" => op.error
    /\ op' = NoOp
    /\ UNCHANGED <<cache, commit, entry, page, at, heap, suspended, failed, crossed>>

\* The commit is freed.  Its cache is dropped before its patch, and a patch
\* still applied is then undone once more.
FreeCommit ==
    /\ op.kind \in {"dispose", "drop"} /\ op.step = "end"
    /\ op.kind = "dispose" => ~op.error
    /\ cache' = [cache EXCEPT ![op.cache].state = "freed"]
    /\ IF commit[op.cache].applied
       THEN failed' = TRUE /\ GoOn("dropPatch") /\ UNCHANGED commit
       ELSE /\ commit' = [commit EXCEPT ![op.cache] = NoCommit]
            /\ op' = NoOp
            /\ UNCHANGED failed
    /\ UNCHANGED <<entry, page, at, heap, suspended, crossed>>

OpStep ==
    \/ Suspend \/ Quiesce \/ Verify \/ Apply \/ Restore \/ Resume
    \/ UndoUnresumed \/ ResumeAgain \/ DropPatch
    \/ EndCommit \/ KeepCommit \/ FreeCommit

Script ==
    \E c \in Caches :
        \/ Prepare(c) \/ DisposeCache(c) \/ Commit(c)
        \/ \E kind \in {"rollback", "dispose", "drop"} : Undo(kind, c)

ThreadStep(t) ==
    \/ CallFunction(t) \/ RunCache(t)
    \/ EnterHook(t) \/ Counted(t) \/ LeaveHook(t)
    \/ Allocate(t) \/ Allocated(t)

Init ==
    /\ cache = [c \in Caches |-> NoCache]
    /\ commit = [c \in Caches |-> NoCommit]
    /\ entry = Code
    /\ page = "rx"
    /\ at = [t \in Threads |-> "out"]
    /\ heap = {}
    /\ suspended = FALSE
    /\ op = NoOp
    /\ failed = FALSE
    /\ crossed = FALSE

Next == Script \/ OpStep \/ Exit \/ \E t \in Threads : ThreadStep(t)

Spec == Init /\ [][Next]_vars

\* The script's thread and the others are scheduled while they hold a mutex, and
\* the script's thread gets the one it asks for if it keeps being released.
FairSpec ==
    /\ Spec
    /\ SF_vars(OpStep)
    /\ \A t \in Threads : WF_vars(Counted(t)) /\ WF_vars(Allocated(t))

------------------------------------------------------------------------------
CommitSteps == {"suspend", "quiesce", "verify", "apply", "resume", "undo",
                "resumeAgain", "dropPatch", "end"}
UndoSteps == {"suspend", "quiesce", "restore", "resume", "dropPatch", "end"}

\* The variables' types; a commit goes through its own steps, and an operation
\* that undoes one through those of an undo.
TypeOK ==
    /\ cache \in [Caches -> {NoCache}
                    \cup [state : {"prepared", "owned", "freed"}, relocated : Caches \cup {Code}]]
    /\ commit \in [Caches -> {NoCommit}
                    \cup [state : {"preparing", "live"}, original : Caches \cup {Code},
                          was : {"rx", "rw"}, applied : BOOLEAN]]
    /\ entry \in Caches \cup {Code}
    /\ page \in {"rx", "rw"}
    /\ at \in [Threads -> {"out", "counting", "callback", "gone", "lost"} \cup Caches]
    /\ heap \in SUBSET Threads
    /\ suspended \in BOOLEAN
    /\ op \in {NoOp}
              \cup [kind : {"commit"}, step : CommitSteps, cache : Caches, error : BOOLEAN]
              \cup [kind : {"rollback", "dispose", "drop"}, step : UndoSteps,
                    cache : Caches, error : BOOLEAN]
    /\ failed \in BOOLEAN
    /\ crossed \in BOOLEAN

\* A branch at the function's entry has an owner: a commit that knows that its
\* patch is applied, so that the script can ask for it to be undone.  This is so
\* after an operation that failed half way, too, unless a patch was dropped that
\* could not be undone, or commits were undone out of order (rollback_applied,
\* TargetMemoryPatch).
BranchIsOwned ==
    entry \in Caches => LiveCommit(entry) \/ failed \/ crossed

\* The page was left not executable by a write that could not put its protection
\* back, and the commit whose write that was still counts as applied.
ProtectionLost == page # "rx" /\ \E c \in Caches : LiveCommit(c) /\ commit[c].was = "rx"

\* Between two writes, whoever calls the function gets to its own code: its page
\* can be executed, and the branches lead through caches that are all mapped,
\* however often the function was rewritten and the rewrites undone.  This is
\* behind the comparison with the source snapshot in commitTargetThreadRewrite.
\* Calls do fail while a write's failure to restore the page stands; that failure
\* has an owner then, which has reported it (write_patch_bytes, apply).
ReachesCode ==
    \/ failed \/ crossed
    \/ /\ page = "rx" \/ ProtectionLost
       /\ \E path \in SUBSET Caches :
             /\ entry \in path \cup {Code}
             /\ \A c \in path : Mapped(c) /\ cache[c].relocated \in path \cup {Code}

\* No operation leaves the followed thread suspended, whichever of its steps
\* fails, if the lease's last attempt to resume it succeeds, which its drop makes
\* without looking at what comes of it (StalkerThreadSuspendGuard).
NotLeftSuspended == suspended => op # NoOp

\* An operation ends: the time it gives the callbacks in flight is limited.
\* Or else it has suspended the followed thread while that held what the
\* operation needs: the mutex of the counter of callbacks
\* (wait_for_target_thread_quiescence) or the allocator's (snapshot_target_memory).
OpsEndUnlessStuck ==
    (op # NoOp) ~> \/ op = NoOp
                   \/ suspended /\ (at[Followed] = "counting" \/ Followed \in heap)

==============================================================================
