------------------------ MODULE HookCallbacks_proofs ------------------------
(***************************************************************************)
(* Proofs about HookCallbacks, for any threads, targets, entries, number of *)
(* installations and of runtimes.  The invariant has three layers: what    *)
(* engine, registry and the operation under way say of each other          *)
(* (EngineInv); who has the JavaScript lock (LockInv); and what each       *)
(* thread's place says of its hook, of the code it runs in and of the      *)
(* frames (WaitInv, IntactInv, CallInv, FrameInv).                         *)
(***************************************************************************)
EXTENDS HookCallbacks, SequenceTheorems, TLAPS

RemovalKinds == {"unhook", "detachAll", "cleanup", "native", "unmap"}
Live(h) == hook[h].state = "live"
Hooked(e) == code[e].state = "hooked"
Busy(t) == call[t].pc \notin {"idle", "lost"}
NothingLive == \A h \in Hooks : ~Live(h)
NobodyWaits == \A t \in Threads : call[t].pc # "wait"

\* The engine's entries hold hooks that exist, and what it patches is live and
\* registered, or being installed.
CodeInv ==
    \A e \in Entries :
        /\ code[e].state # "free" =>
              mapped /\ code[e].hook \in Hooks /\ hook[code[e].hook] # UnusedHook
        /\ Hooked(e) =>
              /\ Live(code[e].hook)
              /\ \/ registry[hook[code[e].hook].target] = code[e].hook
                 \/ op = [kind |-> "install", hook |-> code[e].hook]

\* What the registry has is live, and patched unless a removal is under way or
\* has not finished.
RegistryInv ==
    \A t \in Targets : registry[t] # NoHook =>
        /\ Live(registry[t]) /\ hook[registry[t]].target = t
        /\ \/ \E e \in Entries : Hooked(e) /\ code[e].hook = registry[t]
           \/ unclean
           \/ op.kind \in {"detachAll", "cleanup"} /\ t \in op.targets

\* A live record belongs to the registry or to the operation under way.
LeakInv ==
    \A h \in Hooks : Live(h) =>
        \/ \E t \in Targets : registry[t] = h
        \/ unclean
        \/ op = [kind |-> "install", hook |-> h]
        \/ op.kind \in RemovalKinds /\ h \in op.dead

\* What an operation under way still has to do.
InstallInv ==
    op.kind = "install" =>
        /\ Live(op.hook) /\ registry[hook[op.hook].target] = NoHook
        /\ \E e \in Entries : Hooked(e) /\ code[e].hook = op.hook

RemovalInv ==
    op.kind \in RemovalKinds =>
        /\ \A e \in Entries : Hooked(e) => code[e].hook \notin op.dead
        /\ \A t \in Targets : /\ t \in op.targets => registry[t] \in op.dead \cup {NoHook}
                              /\ registry[t] \in op.dead => t \in op.targets
        /\ op.kind # "unmap" /\ op.step \in {"calls", "thunks", "grace", "free"} =>
              \A h \in op.dead : Live(h)
        /\ op.kind = "unmap" \/ op.step \in {"reclaim", "install"} =>
              unclean \/ \A h \in op.dead : hook[h].state = "freed"

NextInv ==
    /\ op.kind = "native" =>
          /\ op.next \in [hook : Hooks, target : Targets, kind : NativeKinds]
          /\ hook[op.next.hook] = UnusedHook /\ registry[op.next.target] = NoHook
    /\ op.kind \in RemovalKinds /\ op.step = "install" => op.kind = "native"
    /\ op.kind = "cleanup" =>
          /\ op.next \in [failed : BOOLEAN]
          /\ op.next.failed => unclean
          /\ unclean \/ \A t \in Targets : registry[t] # NoHook => t \in op.targets
    /\ op.kind = "unmap" =>
          /\ op.step \in {"thunks", "grace", "free"}
          /\ \A t \in Targets : registry[t] = NoHook

\* Unless a clean-up could not finish, what is live belongs to the context that
\* is alive, and at its end nothing is.
ContextInv ==
    unclean \/ /\ \A h \in Hooks : Live(h) => ContextIsAlive(h)
               /\ op.kind \in {"unmap", "drop"} => NothingLive

EngineInv == /\ CodeInv /\ RegistryInv /\ LeakInv
             /\ InstallInv /\ RemovalInv /\ NextInv /\ ContextInv

\* Who has the JavaScript lock.
LockInv ==
    /\ \A t \in Threads : call[t].pc = "js" => lock = t /\ runtime.alive
    /\ lock = Host => runtime.alive
    /\ ~runtime.alive => runtime.closing
    /\ op.kind \in {"cleanup", "unmap"} => lock = Host /\ runtime.closing
    /\ op.kind = "drop" => lock = Nobody /\ runtime.closing
    /\ op.kind \notin {"none", "drop"} =>
          lock = Host \/ (lock \in Threads /\ call[lock].pc = "js")

\* Unless a clean-up could not finish, a callback that waits for the lock has a
\* context that is alive.
WaitInv ==
    unclean \/
        /\ ~stale
        /\ \A t \in Threads : call[t].pc = "wait" => ContextIsAlive(call[t].hook)
        /\ ~mapped => NobodyWaits
        /\ op.kind = "drop" => NobodyWaits
        /\ op.kind = "unmap" /\ op.step \in {"grace", "free"} => NobodyWaits

\* What a thread that is not late runs in is there; once the grace interval has
\* passed it is in no hook that was removed.
IntactOk(t) ==
    /\ Busy(t) /\ ~call[t].late =>
          /\ code[call[t].entry].state # "free"
          /\ code[call[t].entry].hook = call[t].hook
          /\ Live(call[t].hook)
          /\ op.kind \in RemovalKinds /\ op.step \in {"free", "reclaim"} =>
                Hooked(call[t].entry)
    /\ call[t].pc = "lost" => call[t].late

\* What a thread's place says of its hook and of the original function.
CallOk(t) ==
    Busy(t) =>
        /\ hook[call[t].hook] # UnusedHook
        /\ call[t].pc \in {"wait", "js"} => Kind(t) \in JsKinds
        /\ call[t].pc = "inside" => Kind(t) \in AttachKinds
        /\ call[t].pc \in {"branch", "thunk", "wait", "body", "inside"} => call[t].ran = 0
        /\ call[t].pc = "js" /\ Kind(t) # "replace" => call[t].ran = 0
        /\ call[t].pc # "out" => call[t].ran \in {0, 1}
        /\ call[t].pc \notin {"original", "out"} => call[t].phase # "fallback"
        /\ call[t].pc = "original" =>
              call[t].phase = "fallback" /\ call[t].tramp /\ (mixed \/ call[t].ran = 0)
        /\ call[t].pc = "out" /\ call[t].phase = "fallback" /\ call[t].tramp =>
              mixed \/ call[t].ran = 1

IntactInv == \A t \in Threads : IntactOk(t)
CallInv == \A t \in Threads : CallOk(t)

\* Until a callback has popped another's frame, each replacement in its
\* JavaScript part has one frame, which says whether the original has run.
HasFrame(t) == call[t].pc \in {"wait", "js"} /\ Kind(t) = "replace"
FrameInv ==
    mixed \/
        /\ \A i, j \in DOMAIN frames : frames[i].thread = frames[j].thread => i = j
        /\ \A i \in DOMAIN frames, t \in Threads :
              frames[i].thread = t => HasFrame(t) \/ call[t].pc = "lost"
        /\ \A t \in Threads : HasFrame(t) =>
              \E i \in DOMAIN frames : /\ frames[i].thread = t
                                       /\ frames[i].orig <=> call[t].ran = 1

Inv == HookTypeOK /\ EngineInv /\ LockInv /\ WaitInv /\ IntactInv /\ CallInv /\ FrameInv

------------------------------------------------------------------------------
(* Types.                                                                  *)

Pcs == {"branch", "thunk", "wait", "js", "original", "body", "inside", "out"}
Phases == {"enter", "leave", "fallback"}
BusyCalls == [pc : Pcs, entry : Entries, hook : Hooks, phase : Phases, tramp : BOOLEAN,
              ran : 0 .. 2, late : BOOLEAN]
UsedHooks == [state : {"live", "freed"}, kind : Kinds, target : Targets,
              runtime : 1 .. MaxRuntimes, tramp : BOOLEAN]
InstallOps == [kind : {"install"}, hook : Hooks]

\* A thread in a hooked call has all the fields of one.
LEMMA CallTypes ==
  ASSUME HookTypeOK, NEW t \in Threads
  PROVE  /\ Busy(t) => call[t] \in BusyCalls
         /\ call[t].pc \in Pcs => Busy(t)
         /\ call[t].pc \in Pcs \cup {"idle", "lost"}
         /\ call[t].pc = "lost" => call[t].late \in BOOLEAN
  BY DEF HookTypeOK, Calls, Idle, Busy, BusyCalls, Pcs, Phases

LEMMA BusyFields ==
  ASSUME NEW c \in BusyCalls
  PROVE  /\ c.pc \in Pcs /\ c.entry \in Entries /\ c.hook \in Hooks /\ c.phase \in Phases
         /\ c.tramp \in BOOLEAN /\ c.ran \in 0 .. 2 /\ c.late \in BOOLEAN
         /\ c = [pc |-> c.pc, entry |-> c.entry, hook |-> c.hook, phase |-> c.phase,
                 tramp |-> c.tramp, ran |-> c.ran, late |-> c.late]
  BY DEF BusyCalls

LEMMA BusyCallsAreCalls == BusyCalls \subseteq Calls
  BY DEF BusyCalls, Calls, Pcs, Phases

\* A record that is in use has all its fields.
LEMMA HookTypes ==
  ASSUME HookTypeOK, NEW h \in Hooks
  PROVE  /\ hook[h] # UnusedHook => hook[h] \in UsedHooks
         /\ hook[h] = UnusedHook => hook[h].state = "unused"
         /\ Live(h) => hook[h] # UnusedHook
         /\ hook[h] # UnusedHook => hook[h].state \in {"live", "freed"}
         /\ hook[h] # UnusedHook => hook[h].kind \in Kinds /\ hook[h].target \in Targets
  <1>1. hook[h] \in {UnusedHook} \cup UsedHooks
    BY DEF HookTypeOK, HookRecords, UsedHooks
  <1>2. UnusedHook.state = "unused"
    BY DEF UnusedHook
  <1> QED
    BY <1>1, <1>2 DEF UsedHooks, Live

\* The kind of the operation says which fields it has.
LEMMA OpTypes ==
  ASSUME HookTypeOK
  PROVE  /\ op.kind \in {"none", "drop", "install"} \cup RemovalKinds
         /\ op.kind = "none" <=> op = NoOp
         /\ op.kind = "install" => op \in InstallOps
         /\ op.kind \in RemovalKinds <=> op \in Removals
         /\ \A h : op = [kind |-> "install", hook |-> h] <=>
                     op.kind = "install" /\ op.hook = h
         /\ \A s : Step(s) => op \in Removals /\ op.kind \in RemovalKinds /\ op.step = s
  <1>1. op \in {NoOp, [kind |-> "drop"]} \cup InstallOps \cup Removals
    BY DEF HookTypeOK, Ops, InstallOps
  <1>2. CASE op \in {NoOp, [kind |-> "drop"]}
    BY <1>2 DEF NoOp, RemovalKinds, Removals, Step
  <1>3. CASE op \in InstallOps
    BY <1>3 DEF NoOp, RemovalKinds, Removals, InstallOps, Step
  <1>4. CASE op \in Removals
    BY <1>4 DEF NoOp, RemovalKinds, Removals, InstallOps, Step
  <1> QED
    BY <1>1, <1>2, <1>3, <1>4

\* What moving a thread in its call changes.
LEMMA GotoNow ==
  ASSUME HookTypeOK, NEW t \in Threads, Busy(t), NEW pc \in Pcs, Goto(t, pc)
  PROVE  /\ call' \in [Threads -> Calls] /\ call'[t] \in BusyCalls
         /\ call'[t] = [call[t] EXCEPT !.pc = pc]
         /\ \A u \in Threads \ {t} : call'[u] = call[u]
  <1>1. call[t] \in BusyCalls
    BY CallTypes
  <1>2. [call[t] EXCEPT !.pc = pc] \in BusyCalls
    BY <1>1 DEF BusyCalls
  <1> QED
    BY <1>2, BusyCallsAreCalls DEF Goto, HookTypeOK

LEMMA LoseNow ==
  ASSUME HookTypeOK, NEW t \in Threads, Busy(t), Lose(t)
  PROVE  /\ call' \in [Threads -> Calls]
         /\ call'[t] = [pc |-> "lost", late |-> call[t].late] /\ call'[t].pc = "lost"
         /\ \A u \in Threads \ {t} : call'[u] = call[u]
  <1>1. call[t].late \in BOOLEAN
    BY CallTypes, BusyFields
  <1>2. [pc |-> "lost", late |-> call[t].late] \in Calls
    BY <1>1 DEF Calls
  <1> QED
    BY <1>2 DEF Lose, HookTypeOK

\* Any other change of a thread's call.
LEMMA PutNow ==
  ASSUME HookTypeOK, NEW t \in Threads, NEW c \in Calls, call' = [call EXCEPT ![t] = c]
  PROVE  /\ call' \in [Threads -> Calls] /\ call'[t] = c
         /\ \A u \in Threads \ {t} : call'[u] = call[u]
  BY DEF HookTypeOK

Frames == [thread : Threads, orig : BOOLEAN]

LEMMA FrameTypes ==
  ASSUME HookTypeOK
  PROVE  /\ frames \in Seq(Frames) /\ Len(frames) \in Nat
         /\ DOMAIN frames = 1 .. Len(frames)
         /\ \A i \in DOMAIN frames : frames[i] \in Frames /\ frames[i].thread \in Threads
                                    /\ frames[i].orig \in BOOLEAN
  <1>1. frames \in Seq(Frames)
    BY DEF HookTypeOK, Frames
  <1>2. /\ Len(frames) \in Nat /\ DOMAIN frames = 1 .. Len(frames)
        /\ frames \in [1 .. Len(frames) -> Frames]
    BY <1>1, LenProperties
  <1>3. \A i \in DOMAIN frames : frames[i] \in Frames
    BY <1>2
  <1> QED
    BY <1>1, <1>2, <1>3 DEF Frames

\* The last frame is popped.
LEMMA PopNow ==
  ASSUME HookTypeOK, NEW t \in Threads, PopFrame(t)
  PROVE  /\ frames' \in Seq(Frames)
         /\ mixed' \in BOOLEAN
         /\ frames # << >> =>
              /\ Len(frames) \in Nat \ {0} /\ Len(frames') = Len(frames) - 1
              /\ \A i \in 1 .. Len(frames) - 1 : frames'[i] = frames[i]
  <1>1. frames \in Seq(Frames)
    BY DEF HookTypeOK, Frames
  <1>2. CASE frames = << >>
    <2>1. Len(frames) = 0
      BY <1>2
    <2>2. SubSeq(frames, 1, Len(frames) - 1) = << >>
      BY <2>1, SubSeqEmpty
    <2> QED
      BY <1>2, <2>2, EmptySeq DEF PopFrame, HookTypeOK
  <1>3. CASE frames # << >>
    <2>1. Len(frames) \in Nat \ {0}
      BY <1>1, <1>3
    <2>2. /\ SubSeq(frames, 1, Len(frames) - 1) \in Seq(Frames)
          /\ \A i \in 1 .. Len(frames) - 1 :
               SubSeq(frames, 1, Len(frames) - 1)[i] = frames[i]
      BY <1>1, <1>3
    <2>3. Len(SubSeq(frames, 1, Len(frames) - 1)) = Len(frames) - 1
      <3>1. CASE Len(frames) = 1
        <4>1. SubSeq(frames, 1, Len(frames) - 1) = << >>
          BY <3>1, SubSeqEmpty
        <4> QED
          BY <3>1, <4>1
      <3>2. CASE 1 <= Len(frames) - 1
        BY <1>1, <2>1, <3>2
      <3>3. \A n \in Nat \ {0} : n = 1 \/ 1 <= n - 1
        OBVIOUS
      <3>4. Len(frames) = 1 \/ 1 <= Len(frames) - 1
        BY <2>1, <3>3, Zenon
      <3> QED
        BY <3>1, <3>2, <3>4, Zenon
    <2> QED
      BY <2>1, <2>2, <2>3 DEF PopFrame, HookTypeOK
  <1> QED
    BY <1>2, <1>3

------------------------------------------------------------------------------
(* What a step of one thread leaves alone.                                 *)

engine == <<hook, code, mapped, registry, op, runtime, unclean>>

Alone(t) == \A u \in Threads \ {t} : call'[u] = call[u]

\* The engine's part speaks of no thread.
LEMMA EngineStays ==
  ASSUME EngineInv, UNCHANGED engine
  PROVE  EngineInv'
  BY DEF engine, EngineInv, CodeInv, RegistryInv, LeakInv, InstallInv, RemovalInv, NextInv,
     ContextInv, Hooked, Live, NothingLive, ContextIsAlive

\* The other threads' places stay as they are.
LEMMA ThreadKeeps ==
  ASSUME Inv, NEW t \in Threads, Alone(t), UNCHANGED engine, mixed => mixed',
         call' \in [Threads -> Calls], frames' \in Seq(Frames), mixed' \in BOOLEAN,
         lock' \in Threads \cup {Host, Nobody}, stale' \in BOOLEAN,
         CallOk(t)', IntactOk(t)', LockInv', WaitInv', FrameInv'
  PROVE  Inv'
  <1>1. HookTypeOK'
    BY DEF Inv, HookTypeOK, engine, Frames
  <1>2. EngineInv'
    BY EngineStays DEF Inv
  <1>3. CallInv'
    BY DEF Inv, CallInv, CallOk, Alone, engine, Busy, Kind
  <1>4. IntactInv'
    BY DEF Inv, IntactInv, IntactOk, Alone, engine, Busy, Live, Hooked
  <1> QED
    BY <1>1, <1>2, <1>3, <1>4 DEF Inv

\* The lock stays with whoever has it.
LEMMA LockStays ==
  ASSUME LockInv, NEW t \in Threads, Alone(t), UNCHANGED <<lock, runtime, op>>,
         call'[t].pc = "js" => call[t].pc = "js",
         call[t].pc = "js" => call'[t].pc = "js" \/ op.kind \in {"none", "drop"}
  PROVE  LockInv'
  BY DEF LockInv, Alone

\* A thread that begins to wait is in a context that is alive.
LEMMA WaitStays ==
  ASSUME WaitInv, NEW t \in Threads, Alone(t), UNCHANGED engine, unclean \/ stale' = stale,
         call'[t].pc = "wait" =>
           \/ unclean
           \/ /\ ContextIsAlive(call'[t].hook) /\ mapped /\ op.kind # "drop"
              /\ ~(op.kind = "unmap" /\ op.step \in {"grace", "free"})
  PROVE  WaitInv'
  BY DEF WaitInv, Alone, engine, ContextIsAlive, NobodyWaits

\* The frames stay those of the same threads.
LEMMA FrameStays ==
  ASSUME HookTypeOK, FrameInv, NEW t \in Threads, Alone(t), UNCHANGED <<frames, mixed, hook>>,
         HasFrame(t) => HasFrame(t)' \/ call'[t].pc = "lost",
         HasFrame(t)' => HasFrame(t) /\ call'[t].ran = call[t].ran,
         call[t].pc # "lost"
  PROVE  FrameInv'
  <1>1. \A u \in Threads \ {t} : /\ HasFrame(u)' <=> HasFrame(u)
                                 /\ call'[u].pc = call[u].pc /\ call'[u].ran = call[u].ran
    BY DEF Alone, HasFrame, Kind
  <1>2. \A i \in DOMAIN frames : frames[i].thread \in Threads
    BY FrameTypes
  <1> QED
    BY <1>1, <1>2 DEF FrameInv

------------------------------------------------------------------------------
(* The threads' steps.                                                     *)

\* A thread that is busy, not late, has its code and its record.
LEMMA IntactWhenNotLate ==
  ASSUME Inv, NEW t \in Threads, Busy(t), ~call[t].late
  PROVE  Intact(t) /\ Live(call[t].hook)
  <1>1. call[t] \in BusyCalls /\ call[t].entry \in Entries
    BY CallTypes, BusyFields DEF Inv
  <1>2. /\ code[call[t].entry].state # "free" /\ Live(call[t].hook)
        /\ code[call[t].entry].hook = call[t].hook
    BY DEF Inv, IntactInv, IntactOk
  <1> QED
    BY <1>1, <1>2 DEF Inv, EngineInv, CodeInv, Intact

\* What becomes of a thread that is lost.
LEMMA LoseKeeps ==
  ASSUME Inv, NEW t \in Threads, Busy(t), Lose(t), call[t].late,
         UNCHANGED engine, UNCHANGED <<frames, mixed>>,
         stale' \in BOOLEAN, unclean \/ stale' = stale,
         lock' \in Threads \cup {Host, Nobody}, LockInv'
  PROVE  Inv'
  <1>0. /\ call' \in [Threads -> Calls] /\ Alone(t)
        /\ call'[t] = [pc |-> "lost", late |-> call[t].late]
    BY LoseNow DEF Inv, Alone
  <1>1. call'[t].pc = "lost" /\ call'[t].late
    <2>1. call'[t].pc = "lost" /\ call'[t].late = call[t].late
      BY <1>0
    <2> QED
      BY <2>1, Zenon
  <1>2. CallOk(t)' /\ IntactOk(t)'
    BY <1>1 DEF CallOk, IntactOk, Busy
  <1>3. WaitInv'
    BY <1>0, <1>1, WaitStays DEF Inv
  <1>4. FrameInv'
    BY <1>0, <1>1, FrameStays DEF Inv, engine, Busy, HasFrame
  <1> QED
    BY <1>0, <1>1, <1>2, <1>3, <1>4, ThreadKeeps DEF Inv, HookTypeOK, Frames

\* What keeps the invariant when a thread goes on in its call.
LEMMA MoveKeeps ==
  ASSUME Inv, NEW t \in Threads, Busy(t), NEW c \in BusyCalls,
         call' = [call EXCEPT ![t] = c],
         c.entry = call[t].entry, c.hook = call[t].hook, c.late = call[t].late,
         UNCHANGED engine, mixed => mixed', frames' \in Seq(Frames), mixed' \in BOOLEAN,
         lock' \in Threads \cup {Host, Nobody}, stale' \in BOOLEAN,
         CallOk(t)', LockInv', WaitInv', FrameInv'
  PROVE  Inv'
  <1>1. /\ call' \in [Threads -> Calls] /\ Alone(t)
        /\ call'[t] = c /\ c.pc \in Pcs
    BY PutNow, BusyCallsAreCalls, BusyFields DEF Inv, Alone
  <1>2. IntactOk(t)'
    BY <1>1 DEF Inv, IntactInv, IntactOk, engine, Busy, Live, Hooked, Pcs
  <1> QED
    BY <1>1, <1>2, ThreadKeeps

\* The thread keeps the frame it has, or has none.
LEMMA NoFrameStays ==
  ASSUME Inv, NEW t \in Threads, Alone(t), UNCHANGED <<frames, mixed, hook>>,
         ~HasFrame(t), ~HasFrame(t)', call[t].pc # "lost"
  PROVE  FrameInv'
  BY FrameStays DEF Inv

\* The first frame of a thread is pushed.
LEMMA FramePushed ==
  ASSUME Inv, NEW t \in Threads, Alone(t), UNCHANGED <<hook, mixed>>,
         call[t].pc \notin {"wait", "js", "lost"}, HasFrame(t)', call'[t].ran = 0,
         frames' = Append(frames, [thread |-> t, orig |-> FALSE])
  PROVE  frames' \in Seq(Frames) /\ FrameInv'
  <1>0. /\ frames \in Seq(Frames) /\ Len(frames) \in Nat /\ DOMAIN frames = 1 .. Len(frames)
        /\ \A i \in DOMAIN frames : frames[i] \in Frames /\ frames[i].thread \in Threads
    BY FrameTypes DEF Inv
  <1>1. [thread |-> t, orig |-> FALSE] \in Frames
    BY DEF Frames
  <1>2. /\ frames' \in Seq(Frames) /\ Len(frames') = Len(frames) + 1
        /\ DOMAIN frames' = 1 .. Len(frames) + 1
        /\ \A i \in 1 .. Len(frames) : frames'[i] = frames[i]
        /\ frames'[Len(frames) + 1] = [thread |-> t, orig |-> FALSE]
    BY <1>0, <1>1, AppendProperties
  <1>3. ASSUME ~mixed
        PROVE  FrameInv'
    <2>1. /\ \A i, j \in DOMAIN frames : frames[i].thread = frames[j].thread => i = j
          /\ \A i \in DOMAIN frames, u \in Threads :
                frames[i].thread = u => HasFrame(u) \/ call[u].pc = "lost"
          /\ \A u \in Threads : HasFrame(u) =>
                \E i \in DOMAIN frames : /\ frames[i].thread = u
                                         /\ frames[i].orig <=> call[u].ran = 1
      BY <1>3 DEF Inv, FrameInv
    <2>2. \A i \in DOMAIN frames : frames[i].thread # t
      BY <2>1 DEF HasFrame
    <2>3. \A u \in Threads \ {t} : /\ HasFrame(u)' <=> HasFrame(u)
                                   /\ call'[u].pc = call[u].pc /\ call'[u].ran = call[u].ran
      BY DEF Alone, HasFrame, Kind
    <2>4. \A i, j \in DOMAIN frames' : frames'[i].thread = frames'[j].thread => i = j
      BY <1>0, <1>2, <2>1, <2>2
    <2>5. ASSUME NEW i \in DOMAIN frames', NEW u \in Threads, frames'[i].thread = u
          PROVE  HasFrame(u)' \/ call'[u].pc = "lost"
      <3>1. CASE i \in 1 .. Len(frames)
        BY <1>0, <1>2, <2>1, <2>2, <2>3, <2>5, <3>1
      <3>2. CASE i = Len(frames) + 1
        BY <1>2, <2>5, <3>2
      <3> QED
        BY <1>0, <1>2, <3>1, <3>2
    <2>6. ASSUME NEW u \in Threads, HasFrame(u)'
          PROVE  \E i \in DOMAIN frames' : /\ frames'[i].thread = u
                                           /\ frames'[i].orig <=> call'[u].ran = 1
      <3>1. CASE u = t
        <4>1. Len(frames) + 1 \in DOMAIN frames'
          BY <1>0, <1>2
        <4> QED
          BY <1>2, <3>1, <4>1
      <3>2. CASE u # t
        <4>1. PICK i \in DOMAIN frames : /\ frames[i].thread = u
                                         /\ frames[i].orig <=> call[u].ran = 1
          BY <2>1, <2>3, <2>6, <3>2
        <4>2. i \in DOMAIN frames' /\ frames'[i] = frames[i]
          BY <1>0, <1>2
        <4> QED
          BY <2>3, <3>2, <4>1, <4>2
      <3> QED
        BY <3>1, <3>2
    <2> QED
      BY <2>4, <2>5, <2>6 DEF FrameInv
  <1> QED
    BY <1>2, <1>3 DEF FrameInv

\* A callback that pops its own frame learns whether the original has run, and
\* the frames of the others stay.
LEMMA FramePopped ==
  ASSUME Inv, NEW t \in Threads, Alone(t), UNCHANGED hook, HasFrame(t), PopFrame(t),
         call'[t].pc \notin {"wait", "js"}
  PROVE  /\ frames' \in Seq(Frames) /\ mixed' \in BOOLEAN /\ (mixed => mixed')
         /\ FrameInv'
         /\ mixed' \/ (Popped.orig <=> call[t].ran = 1)
  <1>0. /\ frames' \in Seq(Frames) /\ mixed' \in BOOLEAN /\ (mixed => mixed')
        /\ Len(frames) \in Nat /\ DOMAIN frames = 1 .. Len(frames)
        /\ \A i \in DOMAIN frames : frames[i].thread \in Threads
    BY PopNow, FrameTypes DEF Inv, PopFrame
  <1>1. ASSUME ~mixed'
        PROVE  FrameInv' /\ (Popped.orig <=> call[t].ran = 1)
    <2>0. ~mixed /\ Popped.thread = t
      BY <1>1 DEF PopFrame
    <2>1. /\ \A i, j \in DOMAIN frames : frames[i].thread = frames[j].thread => i = j
          /\ \A i \in DOMAIN frames, u \in Threads :
                frames[i].thread = u => HasFrame(u) \/ call[u].pc = "lost"
          /\ \A u \in Threads : HasFrame(u) =>
                \E i \in DOMAIN frames : /\ frames[i].thread = u
                                         /\ frames[i].orig <=> call[u].ran = 1
      BY <2>0 DEF Inv, FrameInv
    <2>2. PICK k \in DOMAIN frames : /\ frames[k].thread = t
                                     /\ frames[k].orig <=> call[t].ran = 1
      BY <2>1
    <2>3. Len(frames) \in DOMAIN frames /\ Len(frames) \in Nat \ {0} /\ frames # << >>
      BY <1>0, <2>2
    <2>4. k = Len(frames)
      BY <2>0, <2>1, <2>2, <2>3 DEF Popped
    <2>5. /\ DOMAIN frames' = 1 .. Len(frames) - 1
          /\ \A i \in DOMAIN frames' : /\ i \in DOMAIN frames /\ i # k
                                       /\ frames'[i] = frames[i]
      <3>1. /\ Len(frames') = Len(frames) - 1
            /\ \A i \in 1 .. Len(frames) - 1 : frames'[i] = frames[i]
        BY <2>3, PopNow DEF Inv
      <3>2. DOMAIN frames' = 1 .. Len(frames')
        BY <1>0, LenProperties
      <3> QED
        BY <1>0, <2>3, <2>4, <3>1, <3>2
    <2>6. \A u \in Threads \ {t} : /\ HasFrame(u)' <=> HasFrame(u)
                                   /\ call'[u].pc = call[u].pc /\ call'[u].ran = call[u].ran
      BY DEF Alone, HasFrame, Kind
    <2>7. \A i \in DOMAIN frames' : frames[i].thread # t
      BY <2>1, <2>2, <2>5
    <2>8. \A i, j \in DOMAIN frames' : frames'[i].thread = frames'[j].thread => i = j
      BY <2>1, <2>5
    <2>9. \A i \in DOMAIN frames', u \in Threads :
             frames'[i].thread = u => HasFrame(u)' \/ call'[u].pc = "lost"
      BY <2>1, <2>5, <2>6, <2>7
    <2>10. ASSUME NEW u \in Threads, HasFrame(u)'
           PROVE  \E i \in DOMAIN frames' : /\ frames'[i].thread = u
                                            /\ frames'[i].orig <=> call'[u].ran = 1
      <3>0. u # t
        BY <2>10 DEF HasFrame
      <3>1. PICK i \in DOMAIN frames : /\ frames[i].thread = u
                                       /\ frames[i].orig <=> call[u].ran = 1
        BY <2>1, <2>6, <2>10, <3>0
      <3>2. i # Len(frames)
        BY <2>2, <2>4, <3>0, <3>1
      <3>3. i \in DOMAIN frames'
        BY <1>0, <2>3, <2>5, <3>2
      <3> QED
        BY <2>5, <2>6, <3>0, <3>1, <3>3
    <2> QED
      BY <2>2, <2>4, <2>8, <2>9, <2>10 DEF FrameInv, Popped
  <1> QED
    BY <1>0, <1>1 DEF FrameInv

LEMMA CallKeeps ==
  ASSUME Inv, NEW t \in Threads, Call(t)
  PROVE  Inv'
  <1>0. UNCHANGED engine /\ UNCHANGED <<frames, mixed, lock, stale>> /\ call[t].pc = "idle"
    BY DEF Call, engine
  <1>1. PICK e \in Entries :
          /\ code[e].state = "hooked"
          /\ call' = [call EXCEPT ![t] =
                [pc |-> "branch", entry |-> e, hook |-> code[e].hook,
                 phase |-> "enter", tramp |-> FALSE, ran |-> 0, late |-> FALSE]]
    BY DEF Call
  <1>2. code[e].hook \in Hooks /\ Live(code[e].hook) /\ hook[code[e].hook] # UnusedHook
    BY <1>1 DEF Inv, EngineInv, CodeInv, Hooked
  <1>3. [pc |-> "branch", entry |-> e, hook |-> code[e].hook,
         phase |-> "enter", tramp |-> FALSE, ran |-> 0, late |-> FALSE] \in BusyCalls
    BY <1>2 DEF BusyCalls, Pcs, Phases
  <1>4. /\ call' \in [Threads -> Calls] /\ Alone(t)
        /\ call'[t] = [pc |-> "branch", entry |-> e, hook |-> code[e].hook,
                       phase |-> "enter", tramp |-> FALSE, ran |-> 0, late |-> FALSE]
    BY <1>1, <1>3, PutNow, BusyCallsAreCalls DEF Inv, Alone
  <1>5. CallOk(t)'
    BY <1>0, <1>2, <1>4 DEF CallOk, engine
  <1>6. IntactOk(t)'
    BY <1>0, <1>1, <1>2, <1>4 DEF IntactOk, Live, Hooked, engine
  <1>7. LockInv' /\ WaitInv'
    BY <1>0, <1>4, LockStays, WaitStays DEF Inv, engine
  <1>8. FrameInv'
    BY <1>0, <1>4, NoFrameStays DEF HasFrame, engine
  <1> QED
    BY <1>0, <1>4, <1>5, <1>6, <1>7, <1>8, ThreadKeeps DEF Inv, HookTypeOK, Frames

LEMMA EnterThunkKeeps ==
  ASSUME Inv, NEW t \in Threads, EnterThunk(t)
  PROVE  Inv'
  <1>0. /\ UNCHANGED engine /\ UNCHANGED <<frames, mixed, lock, stale>>
        /\ call[t].pc = "branch" /\ Busy(t) /\ call[t] \in BusyCalls
    BY CallTypes DEF EnterThunk, engine, Busy, Inv
  <1>1. CASE Intact(t)
    <2>1. Goto(t, "thunk")
      BY <1>1 DEF EnterThunk
    <2> DEFINE c == [call[t] EXCEPT !.pc = "thunk"]
    <2>2. /\ c \in BusyCalls /\ c.pc = "thunk" /\ c.entry = call[t].entry
          /\ c.hook = call[t].hook /\ c.late = call[t].late /\ c.ran = call[t].ran
          /\ c.phase = call[t].phase /\ c.tramp = call[t].tramp
      BY <1>0 DEF BusyCalls, Pcs
    <2>3. call' = [call EXCEPT ![t] = c] /\ call'[t] = c /\ Alone(t)
      BY <2>1 DEF Goto, Alone, Inv, HookTypeOK
    <2> HIDE DEF c
    <2>4. CallOk(t)'
      BY <1>0, <2>2, <2>3 DEF Inv, CallInv, CallOk, Busy, engine
    <2>5. LockInv' /\ WaitInv' /\ FrameInv'
      BY <1>0, <2>2, <2>3, LockStays, WaitStays, NoFrameStays DEF Inv, HasFrame, engine
    <2> QED
      BY <1>0, <2>2, <2>3, <2>4, <2>5, MoveKeeps DEF Inv, HookTypeOK, Frames
  <1>2. CASE ~Intact(t)
    <2>1. Lose(t) /\ call[t].late
      BY <1>0, <1>2, IntactWhenNotLate DEF EnterThunk
    <2>2. LockInv'
      <3>1. Alone(t) /\ call'[t].pc = "lost"
        BY <1>0, <2>1, LoseNow DEF Inv, Alone
      <3> QED
        BY <1>0, <2>1, <3>1, LockStays DEF Inv, engine
    <2> QED
      BY <1>0, <2>1, <2>2, LoseKeeps DEF Inv, HookTypeOK
  <1> QED
    BY <1>1, <1>2

LEMMA EnterCallbackKeeps ==
  ASSUME Inv, NEW t \in Threads, EnterCallback(t)
  PROVE  Inv'
  <1>0. /\ UNCHANGED engine /\ UNCHANGED <<mixed, lock, stale>>
        /\ call[t].pc \in {"thunk", "inside"} /\ Busy(t) /\ call[t] \in BusyCalls
        /\ call[t].hook \in Hooks
    BY CallTypes, BusyFields DEF EnterCallback, engine, Busy, Inv
  <1>1. CASE Intact(t) /\ hook[call[t].hook].state = "live"
    <2>0. Kind(t) \in Kinds /\ hook[call[t].hook] \in UsedHooks /\ call[t].ran = 0
      BY <1>0, <1>1, HookTypes DEF Live, Kind, Inv, CallInv, CallOk
    <2> DEFINE c == [call[t] EXCEPT
                        !.pc = IF Kind(t) \in NativeKinds THEN "body" ELSE "wait",
                        !.phase = IF call[t].pc = "inside" THEN "leave" ELSE "enter",
                        !.tramp = Kind(t) = "replace" /\ hook[call[t].hook].tramp]
    <2>1. call' = [call EXCEPT ![t] = c] /\ call'[t] = c /\ Alone(t)
      BY <1>1 DEF EnterCallback, Alone, Inv, HookTypeOK
    <2>2. /\ c \in BusyCalls /\ c.pc = (IF Kind(t) \in NativeKinds THEN "body" ELSE "wait")
          /\ c.entry = call[t].entry /\ c.hook = call[t].hook /\ c.late = call[t].late
          /\ c.ran = call[t].ran /\ c.phase \in {"enter", "leave"}
      BY <1>0 DEF BusyCalls, Pcs, Phases
    <2> HIDE DEF c
    <2>3. CallOk(t)'
      <3>1. Kind(t)' = Kind(t) /\ hook'[call'[t].hook] # UnusedHook
        BY <1>0, <1>1, <2>1, <2>2, HookTypes DEF Kind, engine, Live, Inv
      <3> QED
        BY <2>0, <2>1, <2>2, <3>1 DEF CallOk, Kinds
    <2>4. /\ unclean \/ ContextIsAlive(call[t].hook)
          /\ mapped
          /\ unclean \/ op.kind \notin {"unmap", "drop"}
      BY <1>0, <1>1 DEF Inv, EngineInv, ContextInv, NothingLive, Live, Intact
    <2>5. WaitInv'
      BY <1>0, <2>1, <2>2, <2>4, WaitStays DEF Inv
    <2>6. LockInv'
      BY <1>0, <2>1, <2>2, LockStays DEF Inv, engine
    <2>7. CASE Kind(t) = "replace"
      <3>1. frames' = Append(frames, [thread |-> t, orig |-> FALSE])
        BY <1>1, <2>7 DEF EnterCallback
      <3>2. HasFrame(t)'
        BY <1>0, <2>1, <2>2, <2>7 DEF HasFrame, Kind, NativeKinds, engine
      <3>3. frames' \in Seq(Frames) /\ FrameInv'
        BY <1>0, <2>0, <2>1, <2>2, <3>1, <3>2, FramePushed DEF engine
      <3> QED
        BY <1>0, <2>1, <2>2, <2>3, <2>5, <2>6, <3>3, MoveKeeps DEF Inv, HookTypeOK
    <2>8. CASE Kind(t) # "replace"
      <3>1. UNCHANGED frames
        BY <1>1, <2>8 DEF EnterCallback
      <3>2. ~HasFrame(t) /\ ~HasFrame(t)'
        BY <1>0, <2>1, <2>2, <2>8 DEF HasFrame, Kind, engine
      <3>3. FrameInv'
        BY <1>0, <2>1, <3>1, <3>2, NoFrameStays DEF engine
      <3> QED
        BY <1>0, <2>1, <2>2, <2>3, <2>5, <2>6, <3>1, <3>3, MoveKeeps DEF Inv, HookTypeOK, Frames
    <2> QED
      BY <2>7, <2>8
  <1>2. CASE ~(Intact(t) /\ hook[call[t].hook].state = "live")
    <2>1. Lose(t) /\ call[t].late /\ UNCHANGED frames
      BY <1>0, <1>2, IntactWhenNotLate DEF EnterCallback, Live
    <2>2. LockInv'
      <3>1. Alone(t) /\ call'[t].pc = "lost"
        BY <1>0, <2>1, LoseNow DEF Inv, Alone
      <3> QED
        BY <1>0, <2>1, <3>1, LockStays DEF Inv, engine
    <2> QED
      BY <1>0, <2>1, <2>2, LoseKeeps DEF Inv, HookTypeOK
  <1> QED
    BY <1>1, <1>2

LEMMA EnterJsKeeps ==
  ASSUME Inv, NEW t \in Threads, EnterJs(t)
  PROVE  Inv'
  <1>0. /\ UNCHANGED engine /\ UNCHANGED <<frames, mixed>>
        /\ call[t].pc = "wait" /\ Busy(t) /\ call[t] \in BusyCalls
        /\ lock = Nobody /\ ~runtime.closing
        /\ stale' = (stale \/ ~ContextIsAlive(call[t].hook))
    BY CallTypes DEF EnterJs, LockTaken, ContextIsClosing, engine, Busy, Inv
  <1>1. /\ runtime.alive /\ stale' \in BOOLEAN
        /\ unclean \/ stale' = stale
    BY <1>0 DEF Inv, LockInv, WaitInv, HookTypeOK, ContextIsAlive
  <1>2. op.kind = "none"
    BY <1>0, HookConstants, OpTypes DEF Inv, LockInv, RemovalKinds
  <1>3. CASE hook[call[t].hook].state = "live"
    <2>1. lock' = t /\ Goto(t, "js")
      BY <1>3 DEF EnterJs
    <2> DEFINE c == [call[t] EXCEPT !.pc = "js"]
    <2>2. /\ c \in BusyCalls /\ c.pc = "js" /\ c.entry = call[t].entry
          /\ c.hook = call[t].hook /\ c.late = call[t].late /\ c.ran = call[t].ran
          /\ c.phase = call[t].phase /\ c.tramp = call[t].tramp
      BY <1>0 DEF BusyCalls, Pcs
    <2>3. call' = [call EXCEPT ![t] = c] /\ call'[t] = c /\ Alone(t)
      BY <2>1 DEF Goto, Alone, Inv, HookTypeOK
    <2> HIDE DEF c
    <2>4. CallOk(t)'
      <3>1. Kind(t)' = Kind(t)
        BY <1>0, <2>2, <2>3 DEF Kind, engine
      <3> QED
        BY <1>0, <2>2, <2>3, <3>1 DEF Inv, CallInv, CallOk, Busy, engine
    <2>5. LockInv'
      <3>1. \A u \in Threads \ {t} : call'[u].pc # "js"
        BY <1>0, <2>3, HookConstants DEF Inv, LockInv, Alone
      <3> QED
        BY <1>0, <1>1, <1>2, <2>1, <2>2, <2>3, <3>1, HookConstants DEF LockInv, engine
    <2>6. WaitInv'
      BY <1>0, <1>1, <2>2, <2>3, WaitStays DEF Inv
    <2>7. FrameInv'
      <3>1. Kind(t)' = Kind(t)
        BY <1>0, <2>2, <2>3 DEF Kind, engine
      <3>2. HasFrame(t)' <=> HasFrame(t)
        BY <1>0, <2>2, <2>3, <3>1 DEF HasFrame
      <3> QED
        BY <1>0, <2>2, <2>3, <3>2, FrameStays DEF Inv, engine
    <2> QED
      BY <1>0, <1>1, <2>1, <2>2, <2>3, <2>4, <2>5, <2>6, <2>7, MoveKeeps
         DEF Inv, HookTypeOK, Frames
  <1>4. CASE hook[call[t].hook].state # "live"
    <2>1. Lose(t) /\ call[t].late /\ UNCHANGED lock
      BY <1>0, <1>4, IntactWhenNotLate DEF EnterJs, Live
    <2>2. LockInv'
      <3>1. Alone(t) /\ call'[t].pc = "lost"
        BY <1>0, <2>1, LoseNow DEF Inv, Alone
      <3> QED
        BY <1>0, <2>1, <3>1, LockStays DEF Inv, engine
    <2> QED
      BY <1>0, <1>1, <2>1, <2>2, LoseKeeps DEF Inv, HookTypeOK
  <1> QED
    BY <1>3, <1>4

\* What falling back on the original function changes.
LEMMA FallBackNow ==
  ASSUME Inv, NEW t \in Threads, Busy(t), FallBack(t)
  PROVE  /\ PopFrame(t) /\ Alone(t)
         /\ \E c \in BusyCalls :
               /\ call' = [call EXCEPT ![t] = c] /\ call'[t] = c
               /\ c.pc = (IF call[t].tramp /\ ~Popped.orig THEN "original" ELSE "out")
               /\ c.phase = "fallback" /\ c.entry = call[t].entry /\ c.hook = call[t].hook
               /\ c.late = call[t].late /\ c.ran = call[t].ran /\ c.tramp = call[t].tramp
  <1> DEFINE c == [call[t] EXCEPT
                      !.pc = IF call[t].tramp /\ ~Popped.orig THEN "original" ELSE "out",
                      !.phase = "fallback"]
  <1>1. /\ c \in BusyCalls
        /\ c.pc = (IF call[t].tramp /\ ~Popped.orig THEN "original" ELSE "out")
        /\ c.phase = "fallback" /\ c.entry = call[t].entry /\ c.hook = call[t].hook
        /\ c.late = call[t].late /\ c.ran = call[t].ran /\ c.tramp = call[t].tramp
    BY CallTypes DEF Inv, BusyCalls, Pcs, Phases
  <1>2. PopFrame(t) /\ call' = [call EXCEPT ![t] = c]
    BY DEF FallBack
  <1> HIDE DEF c
  <1>3. call'[t] = c /\ Alone(t)
    BY <1>2 DEF Alone, Inv, HookTypeOK
  <1> QED
    BY <1>1, <1>2, <1>3

\* The original function runs if it has not, and the popped frame knows.
LEMMA FallBackKeeps ==
  ASSUME Inv, NEW t \in Threads, HasFrame(t), FallBack(t), UNCHANGED engine,
         UNCHANGED stale, lock' \in Threads \cup {Host, Nobody}, LockInv'
  PROVE  Inv'
  <1>0. Busy(t) /\ call[t] \in BusyCalls
    BY CallTypes DEF HasFrame, Busy, Inv
  <1>1. PICK c \in BusyCalls :
               /\ call' = [call EXCEPT ![t] = c] /\ call'[t] = c
               /\ c.pc = (IF call[t].tramp /\ ~Popped.orig THEN "original" ELSE "out")
               /\ c.phase = "fallback" /\ c.entry = call[t].entry /\ c.hook = call[t].hook
               /\ c.late = call[t].late /\ c.ran = call[t].ran /\ c.tramp = call[t].tramp
    BY <1>0, FallBackNow
  <1>2. PopFrame(t) /\ Alone(t) /\ call'[t].pc \in {"original", "out"}
    BY <1>0, <1>1, FallBackNow
  <1>3. /\ frames' \in Seq(Frames) /\ mixed' \in BOOLEAN /\ (mixed => mixed')
        /\ FrameInv'
        /\ mixed' \/ (Popped.orig <=> call[t].ran = 1)
    BY <1>2, FramePopped DEF engine
  <1>4. call[t].ran \in {0, 1} /\ hook[call[t].hook] # UnusedHook
    BY <1>0 DEF Inv, CallInv, CallOk, HasFrame
  <1>5. /\ call'[t].pc = "original" => call[t].tramp /\ ~Popped.orig
        /\ call'[t].pc = "out" /\ call[t].tramp => Popped.orig
    BY <1>1
  <1>6. CallOk(t)'
    <2>1. call'[t].pc = "original" => call'[t].tramp /\ (mixed' \/ call'[t].ran = 0)
      BY <1>1, <1>3, <1>4, <1>5
    <2>2. call'[t].pc = "out" /\ call'[t].tramp => mixed' \/ call'[t].ran = 1
      BY <1>1, <1>3, <1>5
    <2> QED
      BY <1>1, <1>2, <1>4, <2>1, <2>2 DEF CallOk, engine
  <1>7. WaitInv'
    BY <1>2, WaitStays DEF Inv
  <1> QED
    BY <1>0, <1>1, <1>3, <1>6, <1>7, MoveKeeps DEF Inv, HookTypeOK

LEMMA AfterNow ==
  ASSUME NEW t \in Threads
  PROVE  /\ AfterCallback(t) \in {"inside", "out"} /\ AfterCallback(t) \in Pcs
         /\ AfterCallback(t) = "inside" => Kind(t) \in AttachKinds
  BY DEF AfterCallback, Pcs

\* What moving a thread on changes, field by field.
LEMMA GotoFields ==
  ASSUME HookTypeOK, NEW t \in Threads, Busy(t), NEW pc \in Pcs, Goto(t, pc)
  PROVE  /\ Alone(t)
         /\ \E c \in BusyCalls :
               /\ call' = [call EXCEPT ![t] = c] /\ call'[t] = c
               /\ c.pc = pc
               /\ c.phase = call[t].phase /\ c.entry = call[t].entry /\ c.hook = call[t].hook
               /\ c.late = call[t].late /\ c.ran = call[t].ran /\ c.tramp = call[t].tramp
  <1> DEFINE c == [call[t] EXCEPT !.pc = pc]
  <1>1. /\ c \in BusyCalls /\ c.pc = pc
        /\ c.phase = call[t].phase /\ c.entry = call[t].entry /\ c.hook = call[t].hook
        /\ c.late = call[t].late /\ c.ran = call[t].ran /\ c.tramp = call[t].tramp
    BY CallTypes DEF BusyCalls
  <1>2. call' = [call EXCEPT ![t] = c]
    BY DEF Goto
  <1> HIDE DEF c
  <1>3. call'[t] = c /\ Alone(t)
    BY <1>2 DEF Alone, HookTypeOK
  <1> QED
    BY <1>1, <1>2, <1>3

\* A callback that is over leaves the thunk or runs the original function.
LEMMA AfterKeeps ==
  ASSUME Inv, NEW t \in Threads, call[t].pc \in {"wait", "js", "body"},
         call[t].pc = "js" => Kind(t) # "replace",
         call[t].pc = "wait" => Kind(t) # "replace",
         Goto(t, AfterCallback(t)), UNCHANGED engine,
         UNCHANGED <<frames, mixed, stale>>,
         lock' \in Threads \cup {Host, Nobody}, LockInv'
  PROVE  Inv'
  <1>0. Busy(t) /\ call[t] \in BusyCalls
    BY CallTypes DEF Busy, Inv
  <1>1. PICK c \in BusyCalls :
               /\ call' = [call EXCEPT ![t] = c] /\ call'[t] = c
               /\ c.pc = AfterCallback(t)
               /\ c.phase = call[t].phase /\ c.entry = call[t].entry /\ c.hook = call[t].hook
               /\ c.late = call[t].late /\ c.ran = call[t].ran /\ c.tramp = call[t].tramp
    BY <1>0, AfterNow, GotoFields DEF Inv
  <1>2. Alone(t) /\ call'[t].pc \in {"inside", "out"}
    BY <1>0, <1>1, AfterNow, GotoFields DEF Inv
  <1>3. CallOk(t)'
    <2>1. /\ hook[call[t].hook] # UnusedHook /\ call[t].ran = 0
          /\ call[t].phase # "fallback"
      BY <1>0 DEF Inv, CallInv, CallOk
    <2>2. Kind(t)' = Kind(t)
      BY <1>1 DEF Kind, engine
    <2> QED
      BY <1>1, <1>2, <2>1, <2>2, AfterNow DEF CallOk, engine
  <1>4. WaitInv'
    BY <1>2, WaitStays DEF Inv
  <1>5. FrameInv'
    <2>1. ~HasFrame(t) /\ ~HasFrame(t)'
      BY <1>2 DEF HasFrame
    <2> QED
      BY <1>0, <1>2, <2>1, NoFrameStays DEF engine
  <1> QED
    BY <1>0, <1>1, <1>3, <1>4, <1>5, MoveKeeps DEF Inv, HookTypeOK, Frames

LEMMA SkipKeeps ==
  ASSUME Inv, NEW t \in Threads, Skip(t)
  PROVE  Inv'
  <1>0. UNCHANGED engine /\ UNCHANGED <<lock, stale>> /\ call[t].pc = "wait" /\ Busy(t)
    BY DEF Skip, engine, Busy
  <1>1. CASE Kind(t) = "replace"
    <2>1. FallBack(t) /\ HasFrame(t)
      BY <1>0, <1>1 DEF Skip, HasFrame
    <2>2. Alone(t) /\ call'[t].pc # "js"
      BY <1>0, <2>1, FallBackNow
    <2>3. LockInv'
      BY <1>0, <2>2, LockStays DEF Inv, engine
    <2> QED
      BY <1>0, <2>1, <2>3, FallBackKeeps DEF Inv, HookTypeOK
  <1>2. CASE Kind(t) # "replace"
    <2>1. Goto(t, AfterCallback(t)) /\ UNCHANGED <<frames, mixed>>
      BY <1>2 DEF Skip
    <2>2. Alone(t) /\ call'[t].pc # "js"
      BY <1>0, <2>1, AfterNow, GotoFields DEF Inv
    <2>3. LockInv'
      BY <1>0, <2>2, LockStays DEF Inv, engine
    <2> QED
      BY <1>0, <1>2, <2>1, <2>3, AfterKeeps DEF Inv, HookTypeOK
  <1> QED
    BY <1>1, <1>2

\* A thread whose script is over gives the lock back, or keeps it.
LEMMA LockGiven ==
  ASSUME Inv, NEW t \in Threads, call[t].pc = "js", op = NoOp, Alone(t),
         call'[t].pc # "js", lock' \in {t, Nobody}, UNCHANGED engine
  PROVE  LockInv'
  <1>1. op.kind = "none" /\ lock = t
    BY DEF NoOp, Inv, LockInv
  <1>2. \A u \in Threads : call'[u].pc # "js"
    BY <1>1 DEF Inv, LockInv, Alone
  <1>3. lock' # Host
    BY HookConstants
  <1> QED
    BY <1>1, <1>2, <1>3 DEF Inv, LockInv, engine

LEMMA ReturnFromJsKeeps ==
  ASSUME Inv, NEW t \in Threads, ReturnFromJs(t)
  PROVE  Inv'
  <1>0. /\ UNCHANGED engine /\ UNCHANGED stale /\ call[t].pc = "js" /\ Busy(t)
        /\ lock' = Nobody /\ op = NoOp /\ Goto(t, AfterCallback(t))
        /\ call[t] \in BusyCalls
    BY CallTypes DEF ReturnFromJs, engine, Busy, Inv
  <1>1. PICK c \in BusyCalls :
               /\ call' = [call EXCEPT ![t] = c] /\ call'[t] = c
               /\ c.pc = AfterCallback(t)
               /\ c.phase = call[t].phase /\ c.entry = call[t].entry /\ c.hook = call[t].hook
               /\ c.late = call[t].late /\ c.ran = call[t].ran /\ c.tramp = call[t].tramp
    BY <1>0, AfterNow, GotoFields DEF Inv
  <1>2. Alone(t) /\ call'[t].pc \in {"inside", "out"}
    BY <1>0, <1>1, AfterNow, GotoFields DEF Inv
  <1>3. LockInv'
    BY <1>0, <1>2, LockGiven
  <1>4. CASE Kind(t) = "replace"
    <2>1. PopFrame(t) /\ HasFrame(t) /\ call'[t].pc = "out"
      BY <1>0, <1>1, <1>2, <1>4, AfterNow DEF ReturnFromJs, HasFrame, AttachKinds
    <2>2. /\ frames' \in Seq(Frames) /\ mixed' \in BOOLEAN /\ (mixed => mixed')
          /\ FrameInv'
      BY <1>0, <1>2, <2>1, FramePopped DEF engine
    <2>3. CallOk(t)'
      BY <1>0, <1>1, <2>1 DEF Inv, CallInv, CallOk, engine
    <2>4. WaitInv'
      BY <1>2, <1>0, WaitStays DEF Inv
    <2> QED
      BY <1>0, <1>1, <1>3, <2>2, <2>3, <2>4, MoveKeeps DEF Inv, HookTypeOK
  <1>5. CASE Kind(t) # "replace"
    <2>1. UNCHANGED <<frames, mixed>>
      BY <1>5 DEF ReturnFromJs
    <2> QED
      BY <1>0, <1>3, <1>5, <2>1, AfterKeeps
  <1> QED
    BY <1>4, <1>5

LEMMA ThrowFromJsKeeps ==
  ASSUME Inv, NEW t \in Threads, ThrowFromJs(t)
  PROVE  Inv'
  <1>0. /\ UNCHANGED engine /\ UNCHANGED stale /\ call[t].pc = "js" /\ Busy(t)
        /\ op = NoOp /\ Kind(t) = "replace" /\ FallBack(t)
        /\ lock' = IF call'[t].pc = "original" THEN lock ELSE Nobody
    BY DEF ThrowFromJs, engine, Busy
  <1>1. HasFrame(t) /\ lock = t
    BY <1>0 DEF HasFrame, Inv, LockInv
  <1>2. Alone(t) /\ call'[t].pc # "js"
    BY <1>0, FallBackNow
  <1>3. lock' \in {t, Nobody}
    BY <1>0, <1>1
  <1>4. LockInv'
    BY <1>0, <1>2, <1>3, LockGiven
  <1> QED
    BY <1>0, <1>1, <1>3, <1>4, FallBackKeeps

LEMMA ReturnFromNativeKeeps ==
  ASSUME Inv, NEW t \in Threads, ReturnFromNative(t)
  PROVE  Inv'
  <1>0. /\ UNCHANGED engine /\ UNCHANGED <<frames, mixed, lock, stale>>
        /\ call[t].pc = "body" /\ Busy(t) /\ Goto(t, AfterCallback(t))
    BY DEF ReturnFromNative, engine, Busy
  <1>1. Alone(t) /\ call'[t].pc # "js"
    BY <1>0, AfterNow, GotoFields DEF Inv
  <1>2. LockInv'
    BY <1>0, <1>1, LockStays DEF Inv, engine
  <1> QED
    BY <1>0, <1>2, AfterKeeps DEF Inv, HookTypeOK

LEMMA RunOriginalKeeps ==
  ASSUME Inv, NEW t \in Threads, RunOriginal(t)
  PROVE  Inv'
  <1>0. /\ UNCHANGED engine /\ UNCHANGED <<frames, mixed, stale>>
        /\ call[t].pc = "original" /\ Busy(t) /\ call[t] \in BusyCalls
        /\ lock' = IF lock = t THEN Nobody ELSE lock
    BY CallTypes DEF RunOriginal, engine, Busy, Inv
  <1>1. lock' \in Threads \cup {Host, Nobody}
    BY <1>0 DEF Inv, HookTypeOK
  <1>2. ASSUME Alone(t), call'[t].pc # "js"
        PROVE  LockInv'
    <2>1. CASE lock = t
      <3>1. op.kind = "none"
        BY <1>0, <2>1, HookConstants, OpTypes DEF Inv, LockInv, RemovalKinds
      <3>2. \A u \in Threads : call'[u].pc # "js"
        BY <1>2, <2>1 DEF Inv, LockInv, Alone
      <3> QED
        BY <1>0, <2>1, <3>1, <3>2, HookConstants DEF Inv, LockInv, engine
    <2>2. CASE lock # t
      BY <1>0, <1>2, <2>2, LockStays DEF Inv, engine
    <2> QED
      BY <2>1, <2>2
  <1>3. CASE Intact(t)
    <2> DEFINE c == [call[t] EXCEPT !.pc = "out", !.ran = call[t].ran + 1]
    <2>1. call[t].ran \in {0, 1} /\ call[t].ran + 1 \in 0 .. 2
      <3>1. call[t].ran \in {0, 1}
        BY <1>0 DEF Inv, CallInv, CallOk
      <3> QED
        BY <3>1
    <2>2. /\ c \in BusyCalls /\ c.pc = "out" /\ c.entry = call[t].entry
          /\ c.hook = call[t].hook /\ c.late = call[t].late /\ c.ran = call[t].ran + 1
          /\ c.phase = call[t].phase /\ c.tramp = call[t].tramp
      BY <1>0, <2>1 DEF BusyCalls, Pcs
    <2>3. call' = [call EXCEPT ![t] = c]
      BY <1>3 DEF RunOriginal, Inv, HookTypeOK
    <2> HIDE DEF c
    <2>4. call'[t] = c /\ Alone(t)
      BY <2>3 DEF Alone, Inv, HookTypeOK
    <2>5. CallOk(t)'
      BY <1>0, <2>1, <2>2, <2>4 DEF Inv, CallInv, CallOk, engine
    <2>6. LockInv' /\ WaitInv' /\ FrameInv'
      BY <1>0, <1>2, <2>2, <2>4, WaitStays, NoFrameStays DEF Inv, HasFrame, engine
    <2> QED
      BY <1>0, <1>1, <2>2, <2>3, <2>5, <2>6, MoveKeeps DEF Inv, HookTypeOK, Frames
  <1>4. CASE ~Intact(t)
    <2>1. Lose(t) /\ call[t].late
      BY <1>0, <1>4, IntactWhenNotLate DEF RunOriginal
    <2>2. Alone(t) /\ call'[t].pc = "lost"
      BY <1>0, <2>1, LoseNow DEF Inv, Alone
    <2> QED
      BY <1>0, <1>1, <1>2, <2>1, <2>2, LoseKeeps DEF Inv, HookTypeOK
  <1> QED
    BY <1>3, <1>4

LEMMA ReturnKeeps ==
  ASSUME Inv, NEW t \in Threads, Return(t)
  PROVE  Inv'
  <1>0. /\ UNCHANGED engine /\ UNCHANGED <<frames, mixed, lock, stale>>
        /\ call[t].pc = "out" /\ Busy(t)
    BY DEF Return, engine, Busy
  <1>1. CASE Intact(t)
    <2>1. /\ call' \in [Threads -> Calls] /\ Alone(t) /\ call'[t] = Idle
      BY <1>1, PutNow DEF Return, Calls, Inv, Alone
    <2>2. call'[t].pc = "idle"
      BY <2>1 DEF Idle
    <2>3. CallOk(t)' /\ IntactOk(t)'
      BY <2>2 DEF CallOk, IntactOk, Busy
    <2>4. LockInv' /\ WaitInv' /\ FrameInv'
      BY <1>0, <2>1, <2>2, LockStays, WaitStays, NoFrameStays DEF Inv, HasFrame, engine
    <2> QED
      BY <1>0, <2>1, <2>3, <2>4, ThreadKeeps DEF Inv, HookTypeOK, Frames
  <1>2. CASE ~Intact(t)
    <2>1. Lose(t) /\ call[t].late
      BY <1>0, <1>2, IntactWhenNotLate DEF Return
    <2>2. Alone(t) /\ call'[t].pc = "lost"
      BY <1>0, <2>1, LoseNow DEF Inv, Alone
    <2>3. LockInv'
      BY <1>0, <2>2, LockStays DEF Inv, engine
    <2> QED
      BY <1>0, <2>1, <2>3, LoseKeeps DEF Inv, HookTypeOK
  <1> QED
    BY <1>1, <1>2

\* A call of the original function marks the frame of its own call.
LEMMA FrameMarked ==
  ASSUME Inv, NEW t \in Threads, Alone(t), UNCHANGED <<hook, mixed>>,
         HasFrame(t), HasFrame(t)', call'[t].ran = 1,
         frames' = [i \in DOMAIN frames |->
                       IF IsLastOf(t, i) THEN [frames[i] EXCEPT !.orig = TRUE] ELSE frames[i]]
  PROVE  frames' \in Seq(Frames) /\ FrameInv'
  <1>0. /\ Len(frames) \in Nat /\ DOMAIN frames = 1 .. Len(frames)
        /\ \A i \in DOMAIN frames : frames[i] \in Frames
    BY FrameTypes DEF Inv
  <1>1. \A i \in DOMAIN frames :
           /\ [frames[i] EXCEPT !.orig = TRUE] \in Frames
           /\ [frames[i] EXCEPT !.orig = TRUE].thread = frames[i].thread
           /\ [frames[i] EXCEPT !.orig = TRUE].orig = TRUE
    BY <1>0 DEF Frames
  <1>2. /\ DOMAIN frames' = DOMAIN frames
        /\ \A i \in DOMAIN frames : /\ frames'[i] \in Frames
                                    /\ frames'[i].thread = frames[i].thread
                                    /\ frames[i].thread # t => frames'[i] = frames[i]
                                    /\ IsLastOf(t, i) => frames'[i].orig = TRUE
    BY <1>0, <1>1 DEF IsLastOf
  <1>3. frames' \in Seq(Frames)
    <2>1. frames' \in [1 .. Len(frames) -> Frames]
      BY <1>0, <1>2
    <2> QED
      BY <1>0, <2>1, SeqDef
  <1>4. ASSUME ~mixed
        PROVE  FrameInv'
    <2>1. /\ \A i, j \in DOMAIN frames : frames[i].thread = frames[j].thread => i = j
          /\ \A i \in DOMAIN frames, u \in Threads :
                frames[i].thread = u => HasFrame(u) \/ call[u].pc = "lost"
          /\ \A u \in Threads : HasFrame(u) =>
                \E i \in DOMAIN frames : /\ frames[i].thread = u
                                         /\ frames[i].orig <=> call[u].ran = 1
      BY <1>4 DEF Inv, FrameInv
    <2>2. \A u \in Threads \ {t} : /\ HasFrame(u)' <=> HasFrame(u)
                                   /\ call'[u].pc = call[u].pc /\ call'[u].ran = call[u].ran
      BY DEF Alone, HasFrame, Kind
    <2>3. \A i, j \in DOMAIN frames' : frames'[i].thread = frames'[j].thread => i = j
      BY <1>2, <2>1
    <2>4. \A i \in DOMAIN frames', u \in Threads :
             frames'[i].thread = u => HasFrame(u)' \/ call'[u].pc = "lost"
      BY <1>2, <2>1, <2>2
    <2>5. ASSUME NEW u \in Threads, HasFrame(u)'
          PROVE  \E i \in DOMAIN frames' : /\ frames'[i].thread = u
                                           /\ frames'[i].orig <=> call'[u].ran = 1
      <3>1. CASE u = t
        <4>1. PICK i \in DOMAIN frames : frames[i].thread = t
          BY <2>1
        <4>2. IsLastOf(t, i)
          BY <1>0, <2>1, <4>1 DEF IsLastOf
        <4>3. frames'[i].orig = TRUE /\ frames'[i].thread = t
          BY <1>2, <4>1, <4>2
        <4> QED
          BY <1>2, <3>1, <4>3
      <3>2. CASE u # t
        <4>1. PICK i \in DOMAIN frames : /\ frames[i].thread = u
                                         /\ frames[i].orig <=> call[u].ran = 1
          BY <2>1, <2>2, <2>5, <3>2
        <4>2. frames'[i] = frames[i]
          BY <1>2, <3>2, <4>1
        <4> QED
          BY <1>2, <2>2, <3>2, <4>1, <4>2
      <3> QED
        BY <3>1, <3>2
    <2> QED
      BY <2>3, <2>4, <2>5 DEF FrameInv
  <1> QED
    BY <1>3, <1>4 DEF FrameInv

LEMMA CallOriginalKeeps ==
  ASSUME Inv, NEW t \in Threads, CallOriginal(t)
  PROVE  Inv'
  <1>0. /\ UNCHANGED engine /\ UNCHANGED <<mixed, lock, stale>>
        /\ call[t].pc = "js" /\ Busy(t) /\ call[t] \in BusyCalls
        /\ op.kind = "none" /\ Kind(t) = "replace" /\ call[t].ran = 0
    BY CallTypes DEF CallOriginal, engine, Busy, Inv, NoOp
  <1>1. CASE Intact(t)
    <2> DEFINE c == [call[t] EXCEPT !.ran = 1]
    <2>1. /\ c \in BusyCalls /\ c.pc = "js" /\ c.entry = call[t].entry
          /\ c.hook = call[t].hook /\ c.late = call[t].late /\ c.ran = 1
          /\ c.phase = call[t].phase /\ c.tramp = call[t].tramp
      BY <1>0 DEF BusyCalls
    <2>2. /\ call' = [call EXCEPT ![t] = c]
          /\ frames' = [i \in DOMAIN frames |->
                           IF IsLastOf(t, i) THEN [frames[i] EXCEPT !.orig = TRUE] ELSE frames[i]]
      BY <1>1 DEF CallOriginal
    <2> HIDE DEF c
    <2>3. call'[t] = c /\ Alone(t)
      BY <2>2 DEF Alone, Inv, HookTypeOK
    <2>4. Kind(t)' = "replace"
      BY <1>0, <2>1, <2>3 DEF Kind, engine
    <2>5. HasFrame(t) /\ HasFrame(t)'
      BY <1>0, <2>1, <2>3, <2>4 DEF HasFrame
    <2>6. frames' \in Seq(Frames) /\ FrameInv'
      BY <1>0, <2>1, <2>2, <2>3, <2>5, FrameMarked DEF engine
    <2>7. CallOk(t)'
      BY <1>0, <2>1, <2>3, <2>4 DEF Inv, CallInv, CallOk, engine, JsKinds
    <2>8. LockInv' /\ WaitInv'
      BY <1>0, <2>1, <2>3, LockStays, WaitStays DEF Inv, engine
    <2> QED
      BY <1>0, <2>1, <2>2, <2>6, <2>7, <2>8, MoveKeeps DEF Inv, HookTypeOK
  <1>2. CASE ~Intact(t)
    <2>1. Lose(t) /\ call[t].late /\ UNCHANGED frames
      BY <1>0, <1>2, IntactWhenNotLate DEF CallOriginal
    <2>2. Alone(t) /\ call'[t].pc = "lost"
      BY <1>0, <2>1, LoseNow DEF Inv, Alone
    <2>3. LockInv'
      BY <1>0, <2>2, LockStays DEF Inv, engine
    <2> QED
      BY <1>0, <2>1, <2>3, LoseKeeps DEF Inv, HookTypeOK
  <1> QED
    BY <1>1, <1>2

\* No step of a thread in its call breaks the invariant.
LEMMA ThreadsKeep ==
  ASSUME Inv, NEW t \in Threads,
         Call(t) \/ CallOriginal(t) \/ ThreadStep(t) \/ ScriptReturns(t)
  PROVE  Inv'
  <1>1. CASE Call(t) \/ CallOriginal(t) \/ ScriptReturns(t)
    BY <1>1, CallKeeps, CallOriginalKeeps, ReturnFromJsKeeps, ThrowFromJsKeeps
       DEF ScriptReturns
  <1>2. CASE ThreadStep(t)
    BY <1>2, EnterThunkKeeps, EnterCallbackKeeps, EnterJsKeeps, SkipKeeps, RunOriginalKeeps,
       ReturnFromNativeKeeps, ReturnKeeps DEF ThreadStep
  <1> QED
    BY <1>1, <1>2

------------------------------------------------------------------------------
(* What a step of the script, or of its operation, leaves alone.           *)

\* A record in use stays in use, with its kind.
HooksKept == \A h \in Hooks : hook[h] # UnusedHook =>
                 /\ hook'[h] # UnusedHook /\ hook'[h].kind = hook[h].kind
                 /\ hook'[h].target = hook[h].target /\ hook'[h].runtime = hook[h].runtime

\* Where the threads are, and what frames they have.
LEMMA CallsStay ==
  ASSUME Inv, UNCHANGED <<call, frames, mixed>>, HooksKept
  PROVE  CallInv' /\ FrameInv'
  <1>1. \A t \in Threads : Busy(t) => /\ call[t].hook \in Hooks
                                      /\ hook[call[t].hook] # UnusedHook
                                      /\ hook'[call[t].hook] # UnusedHook
                                      /\ Kind(t)' = Kind(t)
    BY CallTypes, BusyFields DEF Inv, CallInv, CallOk, HooksKept, Kind
  <1>2. CallInv'
    <2> SUFFICES ASSUME NEW t \in Threads
                 PROVE  CallOk(t)'
      BY DEF CallInv
    <2>1. CallOk(t)
      BY DEF Inv, CallInv
    <2> QED
      BY <1>1, <2>1 DEF CallOk, Busy
  <1>3. \A t \in Threads : HasFrame(t)' <=> HasFrame(t)
    BY <1>1 DEF HasFrame, Busy
  <1>4. FrameInv'
    BY <1>3 DEF FrameInv, Inv
  <1> QED
    BY <1>2, <1>4

\* The code that threads run in.
LEMMA IntactStays ==
  ASSUME Inv, UNCHANGED call,
         \A e \in Entries : code[e].state # "free" =>
             code'[e].state # "free" /\ code'[e].hook = code[e].hook,
         \A h \in Hooks : Live(h) => Live(h)',
         op'.kind \in RemovalKinds => op'.step \notin {"free", "reclaim"}
  PROVE  IntactInv'
  <1> SUFFICES ASSUME NEW t \in Threads
               PROVE  IntactOk(t)'
    BY DEF IntactInv
  <1>1. IntactOk(t)
    BY DEF Inv, IntactInv
  <1>2. Busy(t) => call[t].entry \in Entries /\ call[t].hook \in Hooks
    BY CallTypes, BusyFields DEF Inv
  <1> QED
    BY <1>1, <1>2 DEF IntactOk, Busy

\* Callbacks that wait, while the context stays.
LEMMA WaitersStay ==
  ASSUME Inv, UNCHANGED call, unclean => unclean', HooksKept,
         runtime'.alive = runtime.alive, runtime'.number = runtime.number,
         unclean' \/ /\ stale' = stale
                     /\ mapped => mapped'
                     /\ op'.kind = "drop" => NobodyWaits
                     /\ op'.kind = "unmap" /\ op'.step \in {"grace", "free"} => NobodyWaits
  PROVE  WaitInv'
  <1> SUFFICES ASSUME ~unclean'
               PROVE  WaitInv'
    BY DEF WaitInv
  <1>1. /\ ~stale /\ (~mapped => NobodyWaits)
        /\ \A t \in Threads : call[t].pc = "wait" => ContextIsAlive(call[t].hook)
    BY DEF Inv, WaitInv
  <1>2. \A t \in Threads : call[t].pc = "wait" => ContextIsAlive(call[t].hook)'
    <2>1. \A t \in Threads : call[t].pc = "wait" => Busy(t) /\ call[t].hook \in Hooks
      BY CallTypes, BusyFields DEF Inv, Busy
    <2>2. \A t \in Threads : call[t].pc = "wait" => hook[call[t].hook] # UnusedHook
      BY <2>1 DEF Inv, CallInv, CallOk
    <2> QED
      BY <1>1, <2>1, <2>2 DEF ContextIsAlive, HooksKept
  <1> QED
    BY <1>1, <1>2 DEF WaitInv, NobodyWaits

\* The lock stays with the script, whatever it does.
LEMMA LockerStays ==
  ASSUME Inv, UNCHANGED <<call, lock>>, runtime'.alive = runtime.alive,
         runtime.closing => runtime'.closing,
         op'.kind \in {"cleanup", "unmap"} => lock = Host /\ runtime'.closing,
         op'.kind # "drop",
         op'.kind = "none" \/ op.kind \notin {"none", "drop"} \/ ScriptRuns
  PROVE  LockInv'
  BY DEF Inv, LockInv, ScriptRuns

\* A script runs in a context that is alive.
LEMMA ScriptIsAlive ==
  ASSUME Inv, ScriptRuns
  PROVE  runtime.alive /\ op = NoOp /\ op.kind = "none"
  BY DEF Inv, LockInv, ScriptRuns, NoOp

\* Engine and registry between two operations.
LEMMA Quiet ==
  ASSUME Inv, op.kind = "none"
  PROVE  /\ \A e \in Entries : Hooked(e) =>
               /\ code[e].hook \in Hooks /\ Live(code[e].hook)
               /\ hook[code[e].hook].target \in Targets
               /\ registry[hook[code[e].hook].target] = code[e].hook
         /\ \A t \in Targets : registry[t] # NoHook =>
               /\ registry[t] \in Hooks /\ Live(registry[t]) /\ hook[registry[t]].target = t
               /\ unclean \/ \E e \in Entries : Hooked(e) /\ code[e].hook = registry[t]
         /\ \A h \in Hooks : Live(h) =>
               unclean \/ \E t \in Targets : registry[t] = h
  <1>1. \A e \in Entries : Hooked(e) =>
               /\ code[e].hook \in Hooks /\ Live(code[e].hook)
               /\ registry[hook[code[e].hook].target] = code[e].hook
    BY OpTypes DEF Inv, EngineInv, CodeInv, Hooked
  <1>2. \A e \in Entries : Hooked(e) => hook[code[e].hook].target \in Targets
    BY <1>1, HookTypes DEF Inv
  <1>3. \A t \in Targets : registry[t] # NoHook =>
               /\ registry[t] \in Hooks /\ Live(registry[t]) /\ hook[registry[t]].target = t
               /\ unclean \/ \E e \in Entries : Hooked(e) /\ code[e].hook = registry[t]
    BY DEF Inv, EngineInv, RegistryInv, HookTypeOK
  <1>4. \A h \in Hooks : Live(h) => unclean \/ \E t \in Targets : registry[t] = h
    BY OpTypes DEF Inv, EngineInv, LeakInv, RemovalKinds
  <1> QED
    BY <1>1, <1>2, <1>3, <1>4

\* Entries whose target is among the given ones are retired.
LEMMA RetireNow ==
  ASSUME HookTypeOK, NEW targets, Retire(targets)
  PROVE  /\ code' \in [Entries -> [state : {"free", "hooked", "retired"},
                                   hook : Hooks \cup {NoHook}]]
         /\ \A e \in Entries :
               /\ code'[e].hook = code[e].hook
               /\ code'[e].state = "free" <=> code[e].state = "free"
               /\ Hooked(e)' <=> Hooked(e) /\ hook[code[e].hook].target \notin targets
  <1>1. ASSUME NEW e \in Entries
        PROVE  /\ code'[e] \in [state : {"free", "hooked", "retired"}, hook : Hooks \cup {NoHook}]
               /\ code'[e].hook = code[e].hook
               /\ code'[e].state = "free" <=> code[e].state = "free"
               /\ Hooked(e)' <=> Hooked(e) /\ hook[code[e].hook].target \notin targets
    <2>1. code[e] \in [state : {"free", "hooked", "retired"}, hook : Hooks \cup {NoHook}]
      BY DEF HookTypeOK
    <2>2. code'[e] = IF code[e].state = "hooked" /\ hook[code[e].hook].target \in targets
                     THEN [code[e] EXCEPT !.state = "retired"] ELSE code[e]
      BY DEF Retire
    <2> QED
      BY <2>1, <2>2 DEF Hooked
  <1>2. code' = [e \in Entries |-> code'[e]]
    BY DEF Retire
  <1> QED
    BY <1>1, <1>2

------------------------------------------------------------------------------
(* The script's steps.                                                     *)

LEMMA HostKeeps ==
  ASSUME Inv, HostEnters \/ HostLeaves
  PROVE  Inv'
  <1>0. /\ UNCHANGED engine /\ UNCHANGED <<frames, call, mixed, stale>>
        /\ op.kind = "none" /\ lock' \in {Host, Nobody} /\ lock \in {Host, Nobody}
        /\ lock' = Host => runtime.alive
    BY HookConstants DEF HostEnters, HostLeaves, engine, NoOp
  <1>1. HookTypeOK'
    BY <1>0 DEF Inv, HookTypeOK, engine
  <1>2. EngineInv'
    BY <1>0, EngineStays DEF Inv
  <1>3. LockInv'
    BY <1>0, HookConstants DEF Inv, LockInv, engine
  <1>4. WaitInv'
    BY <1>0, WaitersStay DEF engine, HooksKept, RemovalKinds, Inv, WaitInv
  <1>5. CallInv' /\ FrameInv'
    BY <1>0, CallsStay DEF engine, HooksKept
  <1>6. IntactInv'
    BY <1>0, IntactStays DEF engine, RemovalKinds, Live
  <1> QED
    BY <1>1, <1>2, <1>3, <1>4, <1>5, <1>6 DEF Inv

LEMMA StartRuntimeKeeps ==
  ASSUME Inv, StartRuntime
  PROVE  Inv'
  <1>0. /\ UNCHANGED <<hook, code, mapped, registry, frames, call, lock, op, mixed,
                       unclean, stale>>
        /\ op.kind = "none" /\ ~runtime.alive /\ runtime.number < MaxRuntimes
    BY DEF StartRuntime, NoOp
  <1>1. PICK reused \in BOOLEAN :
          runtime' = [number |-> runtime.number + 1, alive |-> TRUE, closing |-> FALSE,
                      aliases |-> IF reused THEN runtime.aliases \cup {runtime.number} ELSE {}]
    BY DEF StartRuntime
  <1>2. /\ runtime.number \in 1 .. MaxRuntimes /\ runtime.number + 1 \in 1 .. MaxRuntimes
        /\ runtime.aliases \in SUBSET (1 .. MaxRuntimes)
    BY <1>0, HookConstants DEF Inv, HookTypeOK
  <1>3. HookTypeOK'
    BY <1>0, <1>1, <1>2 DEF Inv, HookTypeOK
  <1>4. EngineInv'
    <2>1. /\ CodeInv' /\ RegistryInv' /\ LeakInv' /\ InstallInv' /\ RemovalInv' /\ NextInv'
      BY <1>0 DEF Inv, EngineInv, CodeInv, RegistryInv, LeakInv, InstallInv, RemovalInv,
                  NextInv, Hooked, Live
    <2>2. ContextInv'
      BY <1>0 DEF Inv, EngineInv, ContextInv, ContextIsAlive, Live, NothingLive
    <2> QED
      BY <2>1, <2>2 DEF EngineInv
  <1>5. LockInv'
    BY <1>0, <1>1 DEF Inv, LockInv
  <1>6. WaitInv'
    BY <1>0 DEF Inv, WaitInv, ContextIsAlive, NobodyWaits
  <1>7. CallInv' /\ FrameInv'
    BY <1>0, CallsStay DEF HooksKept
  <1>8. IntactInv'
    BY <1>0, IntactStays DEF RemovalKinds, Live
  <1> QED
    BY <1>3, <1>4, <1>5, <1>6, <1>7, <1>8 DEF Inv

\* What is patched when a hook is installed.
LEMMA PatchNow ==
  ASSUME Inv, NEW h \in Hooks, NEW target \in Targets, NEW kind \in Kinds,
         hook[h] = UnusedHook, Patch(h, target, kind)
  PROVE  /\ code' \in [Entries -> [state : {"free", "hooked", "retired"},
                                   hook : Hooks \cup {NoHook}]]
         /\ hook' \in [Hooks -> HookRecords] /\ mapped' = TRUE
         /\ hook'[h] # UnusedHook /\ Live(h)' /\ ~Live(h)
         /\ hook'[h].target = target /\ hook'[h].runtime = runtime.number
         /\ \A k \in Hooks \ {h} : hook'[k] = hook[k]
         /\ HooksKept
         /\ \A e \in Entries : Hooked(e) => hook[code[e].hook].target # target
         /\ \E e \in Entries :
               /\ ~Hooked(e) /\ Hooked(e)' /\ code'[e].hook = h
               /\ code[e].state = "free"
               /\ \A d \in Entries \ {e} : code'[d] = code[d]
  <1> DEFINE r == [state |-> "live", kind |-> kind, target |-> target,
                   runtime |-> runtime.number, tramp |-> FALSE]
  <1>1. r \in HookRecords /\ r.state = "live" /\ r.target = target
        /\ r.runtime = runtime.number
    BY DEF HookRecords, Inv, HookTypeOK
  <1>2. hook' = [hook EXCEPT ![h] = r] /\ mapped' = TRUE
    BY DEF Patch
  <1> HIDE DEF r
  <1>3. r # UnusedHook
    BY <1>1 DEF UnusedHook
  <1>4. /\ hook' \in [Hooks -> HookRecords] /\ hook'[h] = r
        /\ \A k \in Hooks \ {h} : hook'[k] = hook[k]
    BY <1>1, <1>2 DEF Inv, HookTypeOK
  <1>5. HooksKept
    BY <1>4 DEF HooksKept
  <1>6. ~Live(h)
    BY HookTypes DEF Inv, Live
  <1>7. \A e \in Entries : Hooked(e) => hook[code[e].hook].target # target
    BY DEF Patch, HookedBy, Hooked
  <1>8. PICK e \in Entries :
          /\ code[e].state = "free"
          /\ code' = [code EXCEPT ![e] = [state |-> "hooked", hook |-> h]]
    BY DEF Patch
  <1>9. /\ code'[e] = [state |-> "hooked", hook |-> h]
        /\ \A d \in Entries \ {e} : code'[d] = code[d]
        /\ code' \in [Entries -> [state : {"free", "hooked", "retired"},
                                  hook : Hooks \cup {NoHook}]]
    BY <1>8 DEF Inv, HookTypeOK
  <1>10. ~Hooked(e) /\ Hooked(e)' /\ code'[e].hook = h
    BY <1>8, <1>9 DEF Hooked
  <1> QED
    BY <1>1, <1>2, <1>3, <1>4, <1>5, <1>6, <1>7, <1>8, <1>9, <1>10 DEF Live

\* The code of other hooks stays when one is installed.
LEMMA PatchKeepsCode ==
  ASSUME Inv, NEW h \in Hooks, NEW target \in Targets, NEW kind \in Kinds,
         hook[h] = UnusedHook, Patch(h, target, kind)
  PROVE  /\ \A e \in Entries : code[e].state # "free" =>
               code'[e].state # "free" /\ code'[e].hook = code[e].hook
         /\ \A k \in Hooks : Live(k) => Live(k)'
         /\ \A k \in Hooks : Live(k)' => k = h \/ Live(k)
         /\ \A e \in Entries : code'[e].state # "free" =>
               /\ code'[e].hook \in Hooks /\ hook'[code'[e].hook] # UnusedHook
               /\ \/ ~Hooked(e)' \/ code'[e].hook = h
                  \/ Hooked(e) /\ code'[e].hook = code[e].hook /\ code'[e].hook # h
  <1>1. /\ hook'[h] # UnusedHook /\ Live(h)' /\ ~Live(h)
        /\ \A k \in Hooks \ {h} : hook'[k] = hook[k]
        /\ HooksKept
    BY PatchNow
  <1>2. PICK e \in Entries :
               /\ ~Hooked(e) /\ Hooked(e)' /\ code'[e].hook = h
               /\ code[e].state = "free"
               /\ \A d \in Entries \ {e} : code'[d] = code[d]
    BY PatchNow
  <1>3. \A d \in Entries : code[d].state # "free" =>
           code[d].hook \in Hooks /\ hook[code[d].hook] # UnusedHook
    BY DEF Inv, EngineInv, CodeInv
  <1>4. \A d \in Entries : code'[d].state # "free" =>
               /\ code'[d].hook \in Hooks /\ hook'[code'[d].hook] # UnusedHook
               /\ \/ ~Hooked(d)' \/ code'[d].hook = h
                  \/ Hooked(d) /\ code'[d].hook = code[d].hook /\ code'[d].hook # h
    <2> TAKE d \in Entries
    <2>1. CASE d = e
      <3>1. code'[d].hook = h
        BY <1>2, <2>1
      <3>2. code'[d].hook \in Hooks /\ hook'[code'[d].hook] # UnusedHook
        BY <1>1, <3>1
      <3> QED
        BY <3>1, <3>2
    <2>2. CASE d # e
      BY <1>1, <1>2, <1>3, <2>2 DEF Hooked, HooksKept
    <2> QED
      BY <2>1, <2>2
  <1>5. \A k \in Hooks : /\ Live(k) => Live(k)'
                         /\ Live(k)' => k = h \/ Live(k)
    BY <1>1 DEF Live
  <1>6. \A d \in Entries : code[d].state # "free" =>
           code'[d].state # "free" /\ code'[d].hook = code[d].hook
    BY <1>2
  <1> QED
    BY <1>4, <1>5, <1>6

\* A hook that is installed and registered in one step, at a target that has
\* none.
LEMMA PatchRegisters ==
  ASSUME Inv, NEW h \in Hooks, NEW target \in Targets, NEW kind \in Kinds,
         hook[h] = UnusedHook, Patch(h, target, kind), registry[target] = NoHook,
         registry' = [registry EXCEPT ![target] = h], op' = NoOp,
         op.kind = "none" \/ (op.kind = "native" /\ op.step = "install"), runtime.alive,
         UNCHANGED <<frames, call, lock, runtime, mixed, unclean, stale>>
  PROVE  Inv'
  <1>0. /\ op'.kind = "none" /\ \A k : op' # [kind |-> "install", hook |-> k]
        /\ \A k : op # [kind |-> "install", hook |-> k]
    BY OpTypes DEF NoOp, Inv
  <1>1. /\ Live(h)' /\ ~Live(h) /\ mapped' = TRUE
        /\ hook'[h].target = target /\ hook'[h].runtime = runtime.number
        /\ \A k \in Hooks \ {h} : hook'[k] = hook[k]
        /\ HooksKept
        /\ \A e \in Entries : Hooked(e) => hook[code[e].hook].target # target
    BY PatchNow
  <1>2. PICK n \in Entries : Hooked(n)' /\ code'[n].hook = h /\ code[n].state = "free"
                             /\ \A d \in Entries \ {n} : code'[d] = code[d]
    BY PatchNow
  <1>3. /\ \A e \in Entries : code[e].state # "free" =>
               code'[e].state # "free" /\ code'[e].hook = code[e].hook
        /\ \A k \in Hooks : Live(k) => Live(k)'
        /\ \A k \in Hooks : Live(k)' => k = h \/ Live(k)
        /\ \A e \in Entries : code'[e].state # "free" =>
               /\ code'[e].hook \in Hooks /\ hook'[code'[e].hook] # UnusedHook
               /\ \/ ~Hooked(e)' \/ code'[e].hook = h
                  \/ Hooked(e) /\ code'[e].hook = code[e].hook /\ code'[e].hook # h
    BY PatchKeepsCode
  <1>4. /\ registry'[target] = h /\ \A t \in Targets \ {target} : registry'[t] = registry[t]
        /\ registry' \in [Targets -> Hooks \cup {NoHook}]
    BY DEF Inv, HookTypeOK
  <1>5. HookTypeOK'
    BY <1>1, <1>4, PatchNow DEF Inv, HookTypeOK, Ops
  <1>6. CodeInv'
    <2> SUFFICES ASSUME NEW e \in Entries
                 PROVE  /\ code'[e].state # "free" =>
                              mapped' /\ code'[e].hook \in Hooks
                              /\ hook'[code'[e].hook] # UnusedHook
                        /\ Hooked(e)' => /\ Live(code[e].hook)'
                                         /\ registry'[hook'[code'[e].hook].target] = code'[e].hook
      BY DEF CodeInv
    <2>1. CASE ~Hooked(e)'
      BY <1>1, <1>3, <2>1
    <2>2. CASE Hooked(e)' /\ code'[e].hook = h
      BY <1>1, <1>3, <1>4, <2>2 DEF Hooked, Live
    <2>3. CASE Hooked(e)' /\ code'[e].hook # h
      <3>1. Hooked(e) /\ code'[e].hook = code[e].hook /\ code[e].hook \in Hooks \ {h}
        BY <1>3, <2>3 DEF Hooked
      <3>2. Live(code[e].hook) /\ registry[hook[code[e].hook].target] = code[e].hook
        BY <1>0, <3>1 DEF Inv, EngineInv, CodeInv
      <3>3. /\ hook[code[e].hook].target \in Targets \ {target}
        BY <1>1, <3>1, <3>2, HookTypes DEF Inv
      <3> QED
        BY <1>1, <1>3, <1>4, <3>1, <3>2, <3>3 DEF Live
    <2> QED
      BY <2>1, <2>2, <2>3
  <1>7. RegistryInv'
    <2> SUFFICES ASSUME NEW t \in Targets, registry'[t] # NoHook
                 PROVE  /\ Live(registry[t])' /\ hook'[registry'[t]].target = t
                        /\ \/ \E e \in Entries : Hooked(e)' /\ code'[e].hook = registry'[t]
                           \/ unclean'
      BY DEF RegistryInv
    <2>1. CASE t = target
      BY <1>1, <1>2, <1>4, <2>1 DEF Live
    <2>2. CASE t # target
      <3>1. /\ registry'[t] = registry[t] /\ registry[t] \in Hooks
            /\ Live(registry[t]) /\ hook[registry[t]].target = t
            /\ unclean \/ \E e \in Entries : Hooked(e) /\ code[e].hook = registry[t]
        BY <1>4, <2>2 DEF Inv, EngineInv, RegistryInv, HookTypeOK
      <3>2. registry[t] # h
        BY <1>1, <3>1
      <3>3. \A e \in Entries : Hooked(e) => Hooked(e)' /\ code'[e].hook = code[e].hook
        BY <1>2 DEF Hooked
      <3> QED
        BY <1>1, <3>1, <3>2, <3>3 DEF Live
    <2> QED
      BY <2>1, <2>2
  <1>8. LeakInv'
    <2> SUFFICES ASSUME NEW k \in Hooks, Live(k)'
                 PROVE  unclean' \/ \E t \in Targets : registry'[t] = k
      BY DEF LeakInv
    <2>1. CASE k = h
      BY <1>4, <2>1
    <2>2. CASE k # h
      <3>1. Live(k)
        BY <1>3, <2>2
      <3>2. unclean \/ \E t \in Targets : registry[t] = k
        <4>1. \/ unclean \/ \E t \in Targets : registry[t] = k
              \/ op.kind \in RemovalKinds /\ k \in op.dead
          BY <1>0, <3>1 DEF Inv, EngineInv, LeakInv
        <4>2. op.kind \in RemovalKinds => unclean \/ k \notin op.dead
          BY <3>1 DEF Inv, EngineInv, RemovalInv, Live, RemovalKinds
        <4> QED
          BY <4>1, <4>2
      <3>3. \A t \in Targets : registry[t] = k => registry'[t] = k
        BY <1>4, HookConstants
      <3> QED
        BY <3>2, <3>3
    <2> QED
      BY <2>1, <2>2
  <1>9. ContextInv'
    BY <1>0, <1>1, <1>3 DEF Inv, EngineInv, ContextInv, ContextIsAlive
  <1>10. InstallInv' /\ RemovalInv' /\ NextInv'
    BY <1>0 DEF InstallInv, RemovalInv, NextInv, RemovalKinds
  <1>11. LockInv'
    BY <1>0 DEF Inv, LockInv
  <1>12. WaitInv'
    BY <1>0, <1>1, WaitersStay
  <1>13. CallInv' /\ FrameInv' /\ IntactInv'
    BY <1>0, <1>1, <1>3, CallsStay, IntactStays DEF RemovalKinds
  <1> QED
    BY <1>5, <1>6, <1>7, <1>8, <1>9, <1>10, <1>11, <1>12, <1>13 DEF Inv, EngineInv

LEMMA InstallKeeps ==
  ASSUME Inv, NEW h \in Hooks, NEW target \in Targets, NEW kind \in Kinds,
         Install(h, target, kind)
  PROVE  Inv'
  <1>0. /\ UNCHANGED <<registry, frames, call, lock, runtime, mixed, unclean, stale>>
        /\ hook[h] = UnusedHook /\ ScriptRuns /\ Patch(h, target, kind)
        /\ registry[target] = NoHook /\ op' = [kind |-> "install", hook |-> h]
    BY DEF Install, IsNextHook
  <1>a. /\ op.kind = "none" /\ runtime.alive /\ op'.kind = "install" /\ op'.hook = h
    BY <1>0, ScriptIsAlive
  <1>1. /\ Live(h)' /\ ~Live(h) /\ mapped' = TRUE
        /\ hook'[h].target = target /\ hook'[h].runtime = runtime.number
        /\ \A k \in Hooks \ {h} : hook'[k] = hook[k]
        /\ HooksKept
    BY <1>0, PatchNow
  <1>2. PICK n \in Entries : Hooked(n)' /\ code'[n].hook = h /\ code[n].state = "free"
                             /\ \A d \in Entries \ {n} : code'[d] = code[d]
    BY <1>0, PatchNow
  <1>3. /\ \A e \in Entries : code[e].state # "free" =>
               code'[e].state # "free" /\ code'[e].hook = code[e].hook
        /\ \A k \in Hooks : Live(k) => Live(k)'
        /\ \A k \in Hooks : Live(k)' => k = h \/ Live(k)
        /\ \A e \in Entries : code'[e].state # "free" =>
               /\ code'[e].hook \in Hooks /\ hook'[code'[e].hook] # UnusedHook
               /\ \/ ~Hooked(e)' \/ code'[e].hook = h
                  \/ Hooked(e) /\ code'[e].hook = code[e].hook /\ code'[e].hook # h
    BY <1>0, PatchKeepsCode
  <1>4. HookTypeOK'
    BY <1>0, <1>1, PatchNow DEF Inv, HookTypeOK, Ops
  <1>5. CodeInv'
    <2> SUFFICES ASSUME NEW e \in Entries
                 PROVE  /\ code'[e].state # "free" =>
                              mapped' /\ code'[e].hook \in Hooks
                              /\ hook'[code'[e].hook] # UnusedHook
                        /\ Hooked(e)' => /\ Live(code[e].hook)'
                                         /\ \/ registry'[hook'[code'[e].hook].target] = code'[e].hook
                                            \/ op' = [kind |-> "install", hook |-> code'[e].hook]
      BY DEF CodeInv
    <2>1. CASE ~Hooked(e)'
      BY <1>1, <1>3, <2>1
    <2>2. CASE Hooked(e)' /\ code'[e].hook = h
      BY <1>0, <1>1, <1>3, <2>2 DEF Hooked, Live
    <2>3. CASE Hooked(e)' /\ code'[e].hook # h
      <3>1. Hooked(e) /\ code'[e].hook = code[e].hook /\ code[e].hook \in Hooks \ {h}
        BY <1>3, <2>3 DEF Hooked
      <3>2. Live(code[e].hook) /\ registry[hook[code[e].hook].target] = code[e].hook
        BY <1>a, <3>1, Quiet
      <3> QED
        BY <1>0, <1>1, <1>3, <3>1, <3>2 DEF Live
    <2> QED
      BY <2>1, <2>2, <2>3
  <1>6. RegistryInv'
    <2> SUFFICES ASSUME NEW t \in Targets, registry'[t] # NoHook
                 PROVE  /\ Live(registry[t])' /\ hook'[registry'[t]].target = t
                        /\ \/ \E e \in Entries : Hooked(e)' /\ code'[e].hook = registry'[t]
                           \/ unclean'
      BY DEF RegistryInv
    <2>1. /\ registry'[t] = registry[t] /\ registry[t] \in Hooks
          /\ Live(registry[t]) /\ hook[registry[t]].target = t
          /\ unclean \/ \E e \in Entries : Hooked(e) /\ code[e].hook = registry[t]
      BY <1>0, <1>a, Quiet
    <2>2. registry[t] # h
      BY <1>1, <2>1
    <2>3. \A e \in Entries : Hooked(e) => Hooked(e)' /\ code'[e].hook = code[e].hook
      BY <1>2 DEF Hooked
    <2> QED
      BY <1>0, <1>1, <2>1, <2>2, <2>3 DEF Live
  <1>7. LeakInv'
    BY <1>0, <1>3, <1>a, Quiet DEF LeakInv
  <1>8. InstallInv'
    BY <1>0, <1>1, <1>2, <1>a DEF InstallInv
  <1>9. ContextInv'
    BY <1>0, <1>1, <1>3, <1>a DEF Inv, EngineInv, ContextInv, ContextIsAlive
  <1>10. RemovalInv' /\ NextInv'
    BY <1>a DEF RemovalInv, NextInv, RemovalKinds
  <1>11. LockInv'
    BY <1>0, <1>a, LockerStays
  <1>12. WaitInv'
    BY <1>0, <1>1, <1>a, WaitersStay
  <1>13. CallInv' /\ FrameInv' /\ IntactInv'
    BY <1>0, <1>1, <1>3, <1>a, CallsStay, IntactStays DEF RemovalKinds
  <1> QED
    BY <1>4, <1>5, <1>6, <1>7, <1>8, <1>9, <1>10, <1>11, <1>12, <1>13 DEF Inv, EngineInv

\* A removal starts: the targets' hooks leave the engine, and either the
\* registry too or the registry later.
LEMMA RemovalStarts ==
  ASSUME Inv, ScriptRuns, NEW targets \in SUBSET Targets, Retire(targets),
         \A t \in targets : registry[t] # NoHook,
         NEW kind \in RemovalKinds \ {"unmap"}, NEW later, NEW next,
         op' = Removal(kind, {registry[t] : t \in targets}, later, next),
         \/ /\ kind \in {"detachAll", "cleanup"} /\ later = targets
            /\ registry' = registry
         \/ /\ kind \in {"unhook", "native"} /\ later = {}
            /\ \A t \in Targets : registry'[t] = IF t \in targets THEN NoHook ELSE registry[t],
         UNCHANGED <<hook, mapped>>, unclean => unclean'
  PROVE  /\ op'.kind = kind /\ op'.step = "calls" /\ op'.next = next /\ op'.targets = later
         /\ op'.dead = {registry[t] : t \in targets} /\ op'.dead \in SUBSET Hooks
         /\ CodeInv' /\ RegistryInv' /\ LeakInv' /\ InstallInv' /\ RemovalInv'
         /\ IntactInv' \/ call' # call
  <1>0. op.kind = "none"
    BY ScriptIsAlive
  <1>1. /\ op'.kind = kind /\ op'.step = "calls" /\ op'.next = next /\ op'.targets = later
        /\ op'.dead = {registry[t] : t \in targets}
        /\ kind # "install" /\ kind # "none" /\ kind # "unmap"
    BY DEF Removal, RemovalKinds
  <1>2. /\ \A e \in Entries : Hooked(e) =>
               /\ code[e].hook \in Hooks /\ Live(code[e].hook)
               /\ hook[code[e].hook].target \in Targets
               /\ registry[hook[code[e].hook].target] = code[e].hook
        /\ \A t \in Targets : registry[t] # NoHook =>
               /\ registry[t] \in Hooks /\ Live(registry[t]) /\ hook[registry[t]].target = t
               /\ unclean \/ \E e \in Entries : Hooked(e) /\ code[e].hook = registry[t]
        /\ \A h \in Hooks : Live(h) => unclean \/ \E t \in Targets : registry[t] = h
    BY <1>0, Quiet
  <1>3. /\ \A e \in Entries :
               /\ code'[e].hook = code[e].hook
               /\ code'[e].state = "free" <=> code[e].state = "free"
               /\ Hooked(e)' <=> Hooked(e) /\ hook[code[e].hook].target \notin targets
    BY RetireNow DEF Inv
  <1>4. /\ \A h \in Hooks : Live(h)' <=> Live(h)
        /\ \A t \in Targets \ targets : registry'[t] = registry[t]
        /\ \A t \in Targets : registry'[t] = registry[t] \/ registry'[t] = NoHook
    BY DEF Live
  <1>5. op'.dead \in SUBSET Hooks
    <2>1. \A t \in targets : registry[t] \in Hooks
      BY <1>2
    <2>2. {registry[t] : t \in targets} \subseteq Hooks
      BY <2>1
    <2> QED
      BY <1>1, <2>2
  <1>6. CodeInv'
    <2> SUFFICES ASSUME NEW e \in Entries
                 PROVE  /\ code'[e].state # "free" =>
                              mapped /\ code'[e].hook \in Hooks
                              /\ hook[code'[e].hook] # UnusedHook
                        /\ Hooked(e)' => /\ Live(code[e].hook)'
                                         /\ registry'[hook[code'[e].hook].target] = code'[e].hook
      BY DEF CodeInv
    <2>1. code[e].state # "free" =>
             mapped /\ code[e].hook \in Hooks /\ hook[code[e].hook] # UnusedHook
      BY DEF Inv, EngineInv, CodeInv
    <2> QED
      BY <1>2, <1>3, <1>4, <2>1 DEF Live
  <1>7. RegistryInv'
    <2> SUFFICES ASSUME NEW t \in Targets, registry'[t] # NoHook
                 PROVE  /\ Live(registry[t])' /\ hook'[registry'[t]].target = t
                        /\ \/ \E e \in Entries : Hooked(e)' /\ code'[e].hook = registry'[t]
                           \/ unclean'
                           \/ op'.kind \in {"detachAll", "cleanup"} /\ t \in op'.targets
      BY DEF RegistryInv
    <2>1. /\ registry'[t] = registry[t] /\ registry[t] \in Hooks
          /\ Live(registry[t]) /\ hook[registry[t]].target = t
          /\ unclean \/ \E e \in Entries : Hooked(e) /\ code[e].hook = registry[t]
      BY <1>2, <1>4
    <2>2. Live(registry[t])' /\ hook'[registry'[t]].target = t
      BY <2>1 DEF Live
    <2>3. CASE t \in targets
      BY <1>1, <2>2, <2>3
    <2>4. CASE t \notin targets
      BY <1>3, <2>1, <2>2, <2>4
    <2> QED
      BY <2>3, <2>4
  <1>8. LeakInv'
    <2> SUFFICES ASSUME NEW h \in Hooks, Live(h)'
                 PROVE  \/ \E t \in Targets : registry'[t] = h
                        \/ unclean'
                        \/ op'.kind \in RemovalKinds /\ h \in op'.dead
      BY DEF LeakInv
    <2>1. unclean \/ \E t \in Targets : registry[t] = h
      BY <1>2, <1>4
    <2>2. ASSUME NEW t \in Targets, registry[t] = h
          PROVE  registry'[t] = h \/ h \in op'.dead
      BY <1>1, <1>4, <2>2
    <2> QED
      BY <1>1, <2>1, <2>2
  <1>9. RemovalInv'
    <2>1. \A e \in Entries : Hooked(e)' => code'[e].hook \notin op'.dead
      BY <1>1, <1>2, <1>3
    <2>2. ASSUME NEW t \in Targets
          PROVE  /\ t \in op'.targets => registry'[t] \in op'.dead \cup {NoHook}
                 /\ registry'[t] \in op'.dead => t \in op'.targets
      <3>1. ASSUME registry'[t] \in op'.dead
            PROVE  t \in op'.targets
        <4>1. PICK u \in targets : registry'[t] = registry[u]
          BY <1>1, <3>1
        <4>2. registry[u] # NoHook /\ u \in Targets
          OBVIOUS
        <4>3. registry[t] = registry[u]
          BY <1>4, <4>1, <4>2
        <4>4. t = u
          BY <1>2, <4>2, <4>3
        <4>5. registry'[t] # NoHook
          BY <4>1, <4>2
        <4> QED
          BY <1>1, <4>4, <4>5
      <3>2. ASSUME t \in op'.targets
            PROVE  registry'[t] \in op'.dead
        BY <1>1, <3>2
      <3> QED
        BY <3>1, <3>2
    <2>3. \A h \in op'.dead : Live(h)'
      BY <1>1, <1>2, <1>4
    <2> QED
      BY <1>1, <2>1, <2>2, <2>3 DEF RemovalInv
  <1>10. InstallInv'
    BY <1>1 DEF InstallInv, RemovalKinds
  <1>11. ASSUME call' = call
         PROVE  IntactInv'
    BY <1>1, <1>3, <1>4, <1>11, IntactStays
  <1> QED
    BY <1>1, <1>5, <1>6, <1>7, <1>8, <1>9, <1>10, <1>11

LEMMA UnhookKeeps ==
  ASSUME Inv, NEW target \in Targets, Unhook(target)
  PROVE  Inv'
  <1>0. /\ UNCHANGED <<hook, mapped, frames, call, lock, runtime, mixed, unclean, stale>>
        /\ ScriptRuns /\ Retire({target}) /\ HookedBy(target) # {}
        /\ registry' = [registry EXCEPT ![target] = NoHook]
    BY DEF Unhook
  <1>a. op.kind = "none" /\ runtime.alive
    BY <1>0, ScriptIsAlive
  <1>1. registry[target] # NoHook
    <2>1. PICK e \in Entries : Hooked(e) /\ hook[code[e].hook].target = target
      BY <1>0 DEF HookedBy, Hooked
    <2> QED
      BY <1>a, <2>1, HookConstants, Quiet
  <1>2. op' = Removal("unhook", {registry[t] : t \in {target}}, {}, NoNext)
    <2>1. op' = Removal("unhook", {registry[target]}, {}, NoNext)
      BY <1>1 DEF Unhook
    <2>2. {registry[t] : t \in {target}} = {registry[target]}
      OBVIOUS
    <2> QED
      BY <2>1, <2>2
  <1>3. \A t \in Targets : registry'[t] = IF t \in {target} THEN NoHook ELSE registry[t]
    BY <1>0 DEF Inv, HookTypeOK
  <1>4. /\ op'.kind = "unhook" /\ op'.step = "calls" /\ op'.next = NoNext /\ op'.targets = {}
        /\ op'.dead = {registry[t] : t \in {target}} /\ op'.dead \in SUBSET Hooks
        /\ CodeInv' /\ RegistryInv' /\ LeakInv' /\ InstallInv' /\ RemovalInv' /\ IntactInv'
    <2>1. "unhook" \in RemovalKinds \ {"unmap"} /\ {target} \in SUBSET Targets
      BY DEF RemovalKinds
    <2> QED
      BY <1>0, <1>1, <1>2, <1>3, <2>1, RemovalStarts
  <1>5. op' \in Removals
    BY <1>2, <1>4 DEF Removal, Removals
  <1>6. HookTypeOK'
    BY <1>0, <1>5, RetireNow DEF Inv, HookTypeOK, Ops
  <1>7. NextInv' /\ ContextInv'
    BY <1>0, <1>4, <1>a
       DEF NextInv, Inv, EngineInv, ContextInv, ContextIsAlive, Live, RemovalKinds
  <1>8. LockInv' /\ WaitInv'
    BY <1>0, <1>4, LockerStays, WaitersStay DEF HooksKept
  <1>9. CallInv' /\ FrameInv'
    BY <1>0, CallsStay DEF HooksKept
  <1> QED
    BY <1>4, <1>6, <1>7, <1>8, <1>9 DEF Inv, EngineInv

LEMMA InstallNativeKeeps ==
  ASSUME Inv, NEW h \in Hooks, NEW target \in Targets, NEW kind \in Kinds,
         InstallNative(h, target, kind)
  PROVE  Inv'
  <1>0. /\ UNCHANGED <<frames, call, lock, runtime, mixed, unclean, stale>>
        /\ hook[h] = UnusedHook /\ ScriptRuns /\ kind \in NativeKinds
    BY DEF InstallNative, IsNextHook
  <1>a. op.kind = "none" /\ op = NoOp /\ runtime.alive
    BY <1>0, ScriptIsAlive
  <1>1. CASE registry[target] = NoHook
    <2>1. Patch(h, target, kind) /\ registry' = [registry EXCEPT ![target] = h] /\ op' = op
      BY <1>1 DEF InstallNative
    <2> QED
      BY <1>0, <1>1, <1>a, <2>1, PatchRegisters
  <1>2. CASE registry[target] # NoHook
    <2> DEFINE next == [hook |-> h, target |-> target, kind |-> kind]
    <2>0. /\ next \in [hook : Hooks, target : Targets, kind : NativeKinds]
          /\ next.hook = h /\ next.target = target
      BY <1>0
    <2>1. /\ Retire({target}) /\ registry' = [registry EXCEPT ![target] = NoHook]
          /\ op' = Removal("native", {registry[t] : t \in {target}}, {}, next)
          /\ UNCHANGED <<hook, mapped>>
      <3>1. {registry[t] : t \in {target}} = {registry[target]}
        OBVIOUS
      <3> QED
        BY <1>2, <3>1 DEF InstallNative
    <2> HIDE DEF next
    <2>2. /\ \A t \in Targets : registry'[t] = IF t \in {target} THEN NoHook ELSE registry[t]
          /\ registry'[target] = NoHook
      BY <2>1 DEF Inv, HookTypeOK
    <2>3. /\ op'.kind = "native" /\ op'.step = "calls" /\ op'.next = next /\ op'.targets = {}
          /\ op'.dead = {registry[t] : t \in {target}} /\ op'.dead \in SUBSET Hooks
          /\ CodeInv' /\ RegistryInv' /\ LeakInv' /\ InstallInv' /\ RemovalInv' /\ IntactInv'
      <3>1. "native" \in RemovalKinds \ {"unmap"} /\ {target} \in SUBSET Targets
        BY DEF RemovalKinds
      <3> QED
        BY <1>0, <1>2, <2>1, <2>2, <3>1, RemovalStarts
    <2>4. op' \in Removals
      BY <2>0, <2>1, <2>3 DEF Removal, Removals
    <2>5. HookTypeOK'
      BY <1>0, <2>1, <2>4, RetireNow DEF Inv, HookTypeOK, Ops
    <2>6. NextInv' /\ ContextInv'
      BY <1>0, <1>a, <2>0, <2>1, <2>2, <2>3
         DEF NextInv, Inv, EngineInv, ContextInv, ContextIsAlive, Live, RemovalKinds
    <2>7. LockInv' /\ WaitInv'
      BY <1>0, <2>1, <2>3, LockerStays, WaitersStay DEF HooksKept
    <2>8. CallInv' /\ FrameInv'
      BY <1>0, <2>1, CallsStay DEF HooksKept
    <2> QED
      BY <2>3, <2>5, <2>6, <2>7, <2>8 DEF Inv, EngineInv
  <1> QED
    BY <1>1, <1>2

\* The removal of all hooks of the present context, by the script or by the
\* clean-up, which marks the context closing.
LEMMA RemoveOwnedKeeps ==
  ASSUME Inv, DetachAll \/ Cleanup
  PROVE  Inv'
  <1> DEFINE owned == {t \in Targets : registry[t] # NoHook /\ OwnedByRuntime(registry[t])}
  <1>0. /\ UNCHANGED <<hook, mapped, registry, frames, call, lock, mixed, stale>>
        /\ ScriptRuns
    BY DEF DetachAll, Cleanup
  <1>a. op.kind = "none" /\ runtime.alive
    BY <1>0, ScriptIsAlive
  <1>1. PICK kind \in {"detachAll", "cleanup"} :
          /\ RemoveOwned(kind)
          /\ kind = "detachAll" => runtime' = runtime
          /\ kind = "cleanup" => lock = Host /\ runtime' = [runtime EXCEPT !.closing = TRUE]
    BY DEF DetachAll, Cleanup
  <1>2. /\ runtime' \in [number : 1 .. MaxRuntimes, alive : BOOLEAN, closing : BOOLEAN,
                         aliases : SUBSET (1 .. MaxRuntimes)]
        /\ runtime'.alive = runtime.alive /\ runtime'.number = runtime.number
        /\ runtime.closing => runtime'.closing
        /\ kind = "cleanup" => runtime'.closing
    BY <1>1 DEF Inv, HookTypeOK
  <1>3. PICK removed \in SUBSET Targets :
          /\ removed \subseteq owned
          /\ Retire(removed)
          /\ unclean' = (unclean \/ removed # owned)
          /\ op' = Removal(kind, {registry[t] : t \in removed}, removed,
                           [failed |-> removed # owned])
    BY <1>1 DEF RemoveOwned
  <1>4. \A t \in removed : registry[t] # NoHook
    BY <1>3
  <1>5. /\ op'.kind = kind /\ op'.step = "calls" /\ op'.next = [failed |-> removed # owned]
        /\ op'.targets = removed
        /\ op'.dead = {registry[t] : t \in removed} /\ op'.dead \in SUBSET Hooks
        /\ CodeInv' /\ RegistryInv' /\ LeakInv' /\ InstallInv' /\ RemovalInv' /\ IntactInv'
    <2>1. kind \in RemovalKinds \ {"unmap"}
      BY DEF RemovalKinds
    <2>2. unclean => unclean'
      BY <1>3
    <2>3. \/ /\ kind \in {"detachAll", "cleanup"} /\ removed = removed
             /\ registry' = registry
      BY <1>0
    <2> QED
      BY <1>0, <1>3, <1>4, <2>1, <2>2, <2>3, RemovalStarts
  <1>6. op' \in Removals
    BY <1>3, <1>5 DEF Removal, Removals
  <1>7. unclean' \in BOOLEAN /\ (unclean => unclean')
    BY <1>3 DEF Inv, HookTypeOK
  <1>8. HookTypeOK'
    BY <1>0, <1>2, <1>3, <1>6, <1>7, RetireNow DEF Inv, HookTypeOK, Ops
  <1>9. NextInv'
    <2>1. op'.next \in [failed : BOOLEAN] /\ (op'.next.failed => unclean')
      <3>1. op'.next \in [failed : BOOLEAN]
        BY <1>5
      <3> HIDE DEF owned
      <3>2. PICK b \in BOOLEAN : b = (removed # owned)
        OBVIOUS
      <3>3. op'.next = [failed |-> b]
        BY <1>5, <3>2, Zenon
      <3>4. op'.next.failed = b
        BY <3>3
      <3> QED
        BY <1>3, <3>1, <3>2, <3>4
    <2>2. ASSUME ~unclean', NEW t \in Targets, registry[t] # NoHook
          PROVE  t \in removed
      <3>1. ~unclean /\ removed = owned
        BY <1>3, <2>2
      <3>2. registry[t] \in Hooks /\ Live(registry[t])
        BY <1>a, <2>2, Quiet
      <3>3. OwnedByRuntime(registry[t])
        BY <3>1, <3>2 DEF Inv, EngineInv, ContextInv, ContextIsAlive, OwnedByRuntime
      <3> QED
        BY <2>2, <3>1, <3>3
    <2> QED
      BY <1>0, <1>5, <2>1, <2>2 DEF NextInv
  <1>10. ContextInv'
    BY <1>0, <1>2, <1>5, <1>7 DEF Inv, EngineInv, ContextInv, ContextIsAlive, Live
  <1>11. LockInv'
    BY <1>0, <1>1, <1>2, <1>5, LockerStays
  <1>12. WaitInv'
    BY <1>0, <1>2, <1>5, <1>7, WaitersStay DEF HooksKept
  <1>13. CallInv' /\ FrameInv'
    BY <1>0, CallsStay DEF HooksKept
  <1> QED
    BY <1>5, <1>8, <1>9, <1>10, <1>11, <1>12, <1>13 DEF Inv, EngineInv

LEMMA ScriptKeeps ==
  ASSUME Inv, Script
  PROVE  Inv'
  <1>1. CASE HostEnters \/ HostLeaves \/ DetachAll \/ Cleanup \/ StartRuntime
    BY <1>1, HostKeeps, RemoveOwnedKeeps, StartRuntimeKeeps
  <1>2. CASE \E target \in Targets : Unhook(target)
    BY <1>2, UnhookKeeps
  <1>3. CASE \E h \in Hooks, target \in Targets, kind \in Kinds :
                Install(h, target, kind) \/ InstallNative(h, target, kind)
    BY <1>3, InstallKeeps, InstallNativeKeeps
  <1> QED
    BY <1>1, <1>2, <1>3 DEF Script

------------------------------------------------------------------------------
(* The steps of the operation under way.                                   *)

LEMMA PublishKeeps ==
  ASSUME Inv, Publish
  PROVE  Inv'
  <1>0. /\ UNCHANGED <<code, mapped, frames, call, lock, runtime, mixed, unclean, stale>>
        /\ op.kind = "install" /\ op' = NoOp
        /\ hook' = [hook EXCEPT ![op.hook] = [hook[op.hook] EXCEPT !.tramp = TRUE]]
        /\ registry' = [registry EXCEPT ![hook[op.hook].target] = op.hook]
    BY DEF Publish, OpIs
  <1>1. op.hook \in Hooks /\ (\A k : op = [kind |-> "install", hook |-> k] => k = op.hook)
    BY <1>0, OpTypes DEF InstallOps, Inv
  <1>2. op'.kind = "none" /\ \A k : op' # [kind |-> "install", hook |-> k]
    BY <1>0 DEF NoOp
  <1> DEFINE h == op.hook
             target == hook[h].target
  <1>3. /\ Live(h) /\ registry[target] = NoHook /\ h \in Hooks
        /\ \E e \in Entries : Hooked(e) /\ code[e].hook = h
        /\ hook[h] \in UsedHooks /\ target \in Targets
    BY <1>0, <1>1, HookTypes DEF Inv, EngineInv, InstallInv
  <1>4. /\ hook'[h] \in UsedHooks /\ hook'[h].state = hook[h].state
        /\ hook'[h].kind = hook[h].kind
        /\ hook'[h].target = hook[h].target /\ hook'[h].runtime = hook[h].runtime
        /\ hook' \in [Hooks -> HookRecords]
        /\ \A k \in Hooks \ {h} : hook'[k] = hook[k]
    <2> DEFINE r == [hook[h] EXCEPT !.tramp = TRUE]
    <2>1. /\ r \in UsedHooks /\ r.state = hook[h].state /\ r.kind = hook[h].kind
          /\ r.target = hook[h].target /\ r.runtime = hook[h].runtime
      BY <1>3 DEF UsedHooks
    <2>2. r \in HookRecords
      BY <2>1 DEF UsedHooks, HookRecords
    <2>3. hook' = [hook EXCEPT ![h] = r]
      BY <1>0
    <2> HIDE DEF r
    <2> QED
      BY <1>3, <2>1, <2>2, <2>3 DEF Inv, HookTypeOK
  <1>5. /\ registry'[target] = h /\ \A t \in Targets \ {target} : registry'[t] = registry[t]
        /\ registry' \in [Targets -> Hooks \cup {NoHook}]
    BY <1>0, <1>3 DEF Inv, HookTypeOK
  <1>6. UnusedHook \notin UsedHooks
    BY DEF UsedHooks, UnusedHook
  <1> HIDE DEF h, target
  <1>7. /\ \A k \in Hooks : Live(k)' <=> Live(k)
        /\ \A k \in Hooks : /\ hook'[k].target = hook[k].target
                            /\ hook'[k].runtime = hook[k].runtime
        /\ HooksKept
    BY <1>4, <1>6 DEF Live, HooksKept
  <1>8. HookTypeOK'
    BY <1>0, <1>4, <1>5 DEF Inv, HookTypeOK, Ops
  <1>9. CodeInv'
    <2> SUFFICES ASSUME NEW e \in Entries
                 PROVE  /\ code'[e].state # "free" =>
                              mapped' /\ code'[e].hook \in Hooks
                              /\ hook'[code'[e].hook] # UnusedHook
                        /\ Hooked(e)' => /\ Live(code[e].hook)'
                                         /\ registry'[hook'[code'[e].hook].target] = code'[e].hook
      BY DEF CodeInv
    <2>1. /\ code[e].state # "free" =>
                mapped /\ code[e].hook \in Hooks /\ hook[code[e].hook] # UnusedHook
          /\ Hooked(e) => /\ Live(code[e].hook) /\ code[e].hook \in Hooks
                          /\ \/ registry[hook[code[e].hook].target] = code[e].hook
                             \/ code[e].hook = h
      BY <1>1 DEF Inv, EngineInv, CodeInv, Hooked, h
    <2>2. Hooked(e) => hook[code[e].hook].target \in Targets
      BY <2>1, HookTypes DEF Inv
    <2>3. Hooked(e) => registry'[hook[code[e].hook].target] = code[e].hook
      <3>1. CASE code[e].hook = h
        BY <1>5, <3>1 DEF target
      <3>2. CASE hook[code[e].hook].target = target /\ code[e].hook # h
        BY <1>3, <2>1, <3>2, HookConstants
      <3>3. CASE hook[code[e].hook].target # target /\ code[e].hook # h
        BY <1>5, <2>1, <2>2, <3>3
      <3> QED
        BY <3>1, <3>2, <3>3
    <2>4. Hooked(e)' <=> Hooked(e)
      BY <1>0 DEF Hooked
    <2> QED
      BY <1>0, <1>7, <2>1, <2>3, <2>4 DEF HooksKept, Live
  <1>10. RegistryInv'
    <2> SUFFICES ASSUME NEW t \in Targets, registry'[t] # NoHook
                 PROVE  /\ Live(registry[t])' /\ hook'[registry'[t]].target = t
                        /\ \/ \E e \in Entries : Hooked(e)' /\ code'[e].hook = registry'[t]
                           \/ unclean'
      BY DEF RegistryInv
    <2>0. \A e \in Entries : Hooked(e)' <=> Hooked(e)
      BY <1>0 DEF Hooked
    <2>1. CASE t = target
      BY <1>0, <1>3, <1>4, <1>5, <1>7, <2>0, <2>1 DEF Live, target
    <2>2. CASE t # target
      <3>1. /\ registry'[t] = registry[t] /\ registry[t] \in Hooks
            /\ Live(registry[t]) /\ hook[registry[t]].target = t
            /\ unclean \/ \E e \in Entries : Hooked(e) /\ code[e].hook = registry[t]
        BY <1>0, <1>5, <2>2 DEF Inv, EngineInv, RegistryInv, HookTypeOK
      <3> QED
        BY <1>0, <1>7, <2>0, <3>1 DEF Live
    <2> QED
      BY <2>1, <2>2
  <1>11. LeakInv'
    <2> SUFFICES ASSUME NEW k \in Hooks, Live(k)'
                 PROVE  unclean' \/ \E t \in Targets : registry'[t] = k
      BY DEF LeakInv
    <2>1. unclean \/ k = h \/ \E t \in Targets : registry[t] = k
      BY <1>0, <1>1, <1>7 DEF Inv, EngineInv, LeakInv, RemovalKinds, h
    <2>2. \A t \in Targets : registry[t] = k => registry'[t] = k
      BY <1>3, <1>5, HookConstants
    <2> QED
      BY <1>0, <1>3, <1>5, <2>1, <2>2
  <1>12. ContextInv'
    BY <1>0, <1>2, <1>7 DEF Inv, EngineInv, ContextInv, ContextIsAlive
  <1>13. InstallInv' /\ RemovalInv' /\ NextInv'
    BY <1>2 DEF InstallInv, RemovalInv, NextInv, RemovalKinds
  <1>14. LockInv'
    BY <1>0, <1>2, LockerStays
  <1>15. WaitInv'
    BY <1>0, <1>2, <1>7, WaitersStay
  <1>16. CallInv' /\ FrameInv' /\ IntactInv'
    BY <1>0, <1>2, <1>7, CallsStay, IntactStays DEF RemovalKinds
  <1> QED
    BY <1>8, <1>9, <1>10, <1>11, <1>12, <1>13, <1>14, <1>15, <1>16 DEF Inv, EngineInv

\* Going on to another step changes nothing else of a removal.
LEMMA GoOnNow ==
  ASSUME HookTypeOK, NEW s0, Step(s0),
         NEW s \in {"calls", "thunks", "grace", "free", "reclaim", "install"}, GoOn(s)
  PROVE  /\ op \in Removals /\ op.step = s0 /\ op.kind \in RemovalKinds
         /\ op' \in Removals /\ op'.step = s /\ op'.kind = op.kind
         /\ op'.dead = op.dead /\ op'.targets = op.targets /\ op'.next = op.next
         /\ op.dead \in SUBSET Hooks
         /\ op'.kind # "install" /\ op'.kind # "none" /\ op'.kind # "drop"
         /\ \A h : op' # [kind |-> "install", hook |-> h]
         /\ \A h : op # [kind |-> "install", hook |-> h]
  <1>1. op \in Removals /\ op.step = s0 /\ op.kind \in RemovalKinds
    BY OpTypes
  <1>2. op' = [op EXCEPT !.step = s]
    BY DEF GoOn
  <1>3. /\ op' \in Removals /\ op'.step = s /\ op'.kind = op.kind
        /\ op'.dead = op.dead /\ op'.targets = op.targets /\ op'.next = op.next
        /\ op.dead \in SUBSET Hooks
    BY <1>1, <1>2 DEF Removals
  <1> QED
    BY <1>1, <1>3 DEF RemovalKinds

\* The waits change nothing of engine and registry.
LEMMA GoOnEngine ==
  ASSUME Inv, NEW s0 \in {"calls", "thunks", "grace"}, Step(s0),
         NEW s \in {"thunks", "grace", "free"}, GoOn(s),
         UNCHANGED <<hook, code, mapped, registry, runtime, unclean>>
  PROVE  EngineInv'
  <1>1. /\ op.step = s0 /\ op.kind \in RemovalKinds
        /\ op'.step = s /\ op'.kind = op.kind
        /\ op'.dead = op.dead /\ op'.targets = op.targets /\ op'.next = op.next
        /\ op'.kind # "install"
        /\ \A h : op' # [kind |-> "install", hook |-> h]
        /\ \A h : op # [kind |-> "install", hook |-> h]
    BY GoOnNow DEF Inv
  <1>2. CodeInv'
    BY <1>1 DEF Inv, EngineInv, CodeInv, Hooked, Live
  <1>3. RegistryInv' /\ LeakInv'
    BY <1>1 DEF Inv, EngineInv, RegistryInv, LeakInv, Hooked, Live
  <1>4. InstallInv' /\ RemovalInv'
    BY <1>1 DEF Inv, EngineInv, InstallInv, RemovalInv, Hooked, Live
  <1>5. NextInv' /\ ContextInv'
    BY <1>1 DEF Inv, EngineInv, NextInv, ContextInv, Live, ContextIsAlive, NothingLive
  <1> QED
    BY <1>2, <1>3, <1>4, <1>5 DEF EngineInv

LEMMA CountersKeep ==
  ASSUME Inv, CallsGone \/ ThunksGone \/ (GraceOver /\ Active # {})
  PROVE  Inv'
  <1>0. UNCHANGED <<hook, code, mapped, registry, frames, call, lock, runtime, mixed,
                    unclean, stale>>
    BY DEF CallsGone, ThunksGone, GraceOver
  <1>1. PICK s0 \in {"calls", "thunks", "grace"}, s \in {"thunks", "grace"} :
          /\ Step(s0) /\ GoOn(s)
          /\ s = "grace" => Active = {}
          /\ s0 = "calls" => s = "thunks"
    BY DEF CallsGone, ThunksGone, GraceOver
  <1>2. /\ op.step = s0 /\ op.kind \in RemovalKinds
        /\ op' \in Removals /\ op'.step = s /\ op'.kind = op.kind
        /\ op'.kind # "none" /\ op'.kind # "drop"
    BY <1>1, GoOnNow DEF Inv
  <1>3. EngineInv'
    BY <1>0, <1>1, GoOnEngine
  <1>4. HookTypeOK'
    BY <1>0, <1>2 DEF Inv, HookTypeOK, Ops
  <1>5. LockInv'
    BY <1>0, <1>2 DEF Inv, LockInv, RemovalKinds
  <1>6. Active = {} => NobodyWaits
    BY DEF Active, NobodyWaits
  <1>7. WaitInv'
    BY <1>0, <1>1, <1>2, <1>6, WaitersStay DEF HooksKept, Inv, WaitInv
  <1>8. CallInv' /\ FrameInv' /\ IntactInv'
    BY <1>0, <1>2, CallsStay, IntactStays DEF HooksKept, Live
  <1> QED
    BY <1>3, <1>4, <1>5, <1>7, <1>8 DEF Inv

\* When the grace interval is over, a thread is in the branch to a hook that
\* was not removed, or late.
LEMMA GraceOverKeeps ==
  ASSUME Inv, GraceOver, Active = {}
  PROVE  Inv'
  <1>0. /\ UNCHANGED <<hook, code, mapped, registry, frames, lock, runtime, mixed,
                       unclean, stale>>
        /\ Step("grace") /\ GoOn("free")
        /\ call' = [t \in Threads |->
              IF call[t].pc = "branch" /\ code[call[t].entry].state # "hooked"
              THEN [call[t] EXCEPT !.late = TRUE] ELSE call[t]]
    BY DEF GraceOver
  <1>1. /\ op.step = "grace" /\ op.kind \in RemovalKinds
        /\ op' \in Removals /\ op'.step = "free" /\ op'.kind = op.kind
        /\ op'.kind # "none" /\ op'.kind # "drop"
    BY <1>0, GoOnNow DEF Inv
  <1>2. EngineInv'
    BY <1>0, GoOnEngine
  <1>3. ASSUME NEW t \in Threads
        PROVE  /\ call[t].pc \in {"idle", "branch", "lost"}
               /\ call'[t] \in Calls /\ call'[t].pc = call[t].pc
               /\ call[t].pc # "branch" => call'[t] = call[t]
               /\ call[t].pc = "branch" =>
                     /\ call[t] \in BusyCalls /\ call'[t] \in BusyCalls
                     /\ call'[t].entry = call[t].entry /\ call'[t].hook = call[t].hook
                     /\ call'[t].phase = call[t].phase /\ call'[t].ran = call[t].ran
                     /\ call'[t].tramp = call[t].tramp
                     /\ ~Hooked(call[t].entry) => call'[t].late
                     /\ ~call'[t].late => ~call[t].late
    <2>1. call[t].pc \in {"idle", "branch", "lost"}
      BY DEF Active
    <2>2. CASE call[t].pc # "branch"
      BY <1>0, <2>1, <2>2 DEF Inv, HookTypeOK
    <2>3. CASE call[t].pc = "branch"
      <3> DEFINE c == [call[t] EXCEPT !.late = TRUE]
      <3>1. call[t] \in BusyCalls
        BY <2>3, CallTypes DEF Pcs, Inv
      <3>2. /\ c \in BusyCalls /\ c.pc = call[t].pc
            /\ c.entry = call[t].entry /\ c.hook = call[t].hook
            /\ c.phase = call[t].phase /\ c.ran = call[t].ran /\ c.tramp = call[t].tramp
            /\ c.late = TRUE
        BY <3>1 DEF BusyCalls
      <3>3. call'[t] = IF ~Hooked(call[t].entry) THEN c ELSE call[t]
        BY <1>0, <2>3 DEF Hooked
      <3> HIDE DEF c
      <3>4. CASE Hooked(call[t].entry)
        BY <2>1, <2>3, <3>1, <3>3, <3>4, BusyCallsAreCalls
      <3>5. CASE ~Hooked(call[t].entry)
        <4>1. call'[t] = c
          BY <3>3, <3>5
        <4> QED
          BY <2>1, <2>3, <3>1, <3>2, <4>1, BusyCallsAreCalls
      <3> QED
        BY <3>4, <3>5
    <2> QED
      BY <2>1, <2>2, <2>3
  <1>4. call' \in [Threads -> Calls]
    BY <1>0, <1>3
  <1>5. HookTypeOK'
    BY <1>0, <1>1, <1>4 DEF Inv, HookTypeOK, Ops
  <1>6. LockInv'
    BY <1>0, <1>1, <1>3 DEF Inv, LockInv, RemovalKinds
  <1>7. WaitInv'
    BY <1>0, <1>1, <1>3 DEF Inv, WaitInv, ContextIsAlive, NobodyWaits
  <1>8. IntactInv'
    <2> SUFFICES ASSUME NEW t \in Threads
                 PROVE  IntactOk(t)'
      BY DEF IntactInv
    <2>1. IntactOk(t)
      BY DEF Inv, IntactInv
    <2>2. CASE call[t].pc # "branch"
      BY <1>3, <2>1, <2>2 DEF IntactOk, Busy
    <2>3. CASE call[t].pc = "branch"
      BY <1>0, <1>3, <2>1, <2>3 DEF IntactOk, Busy, Hooked, Live
    <2> QED
      BY <2>2, <2>3
  <1>9. CallInv'
    <2> SUFFICES ASSUME NEW t \in Threads
                 PROVE  CallOk(t)'
      BY DEF CallInv
    <2>1. CallOk(t)
      BY DEF Inv, CallInv
    <2>2. CASE call[t].pc # "branch"
      BY <1>3, <2>2 DEF CallOk, Busy
    <2>3. CASE call[t].pc = "branch"
      BY <1>0, <1>3, <2>1, <2>3 DEF CallOk, Busy
    <2> QED
      BY <2>2, <2>3
  <1>10. FrameInv'
    <2>1. \A t \in Threads : ~HasFrame(t) /\ ~HasFrame(t)' /\ call'[t].pc = call[t].pc
      BY <1>3 DEF HasFrame
    <2> QED
      BY <1>0, <2>1 DEF Inv, FrameInv
  <1> QED
    BY <1>2, <1>5, <1>6, <1>7, <1>8, <1>9, <1>10 DEF Inv

\* Freeing the records of the removed hooks.
LEMMA FreeKeeps ==
  ASSUME Inv, Free
  PROVE  Inv'
  <1>0. /\ UNCHANGED <<code, mapped, frames, call, lock, runtime, mixed, unclean>>
        /\ Step("free") /\ op.kind # "unmap" /\ GoOn("reclaim")
        /\ hook' = [h \in Hooks |->
              IF h \in op.dead THEN [hook[h] EXCEPT !.state = "freed"] ELSE hook[h]]
        /\ registry' = [t \in Targets |-> IF t \in op.targets THEN NoHook ELSE registry[t]]
        /\ stale' = (stale \/ \E h \in op.dead : hook[h].kind \in JsKinds /\ ~ContextIsAlive(h))
    BY DEF Free
  <1>1. /\ op.step = "free" /\ op.kind \in RemovalKinds \ {"unmap"}
        /\ op' \in Removals /\ op'.step = "reclaim" /\ op'.kind = op.kind
        /\ op'.dead = op.dead /\ op'.targets = op.targets /\ op'.next = op.next
        /\ op.dead \in SUBSET Hooks
        /\ op'.kind # "install" /\ op'.kind # "none" /\ op'.kind # "drop" /\ op'.kind # "unmap"
        /\ \A h : op' # [kind |-> "install", hook |-> h]
        /\ \A h : op # [kind |-> "install", hook |-> h]
    BY <1>0, GoOnNow DEF Inv
  <1>2. /\ \A h \in op.dead : Live(h)
        /\ \A e \in Entries : Hooked(e) => code[e].hook \notin op.dead
        /\ \A t \in Targets : /\ t \in op.targets => registry[t] \in op.dead \cup {NoHook}
                              /\ registry[t] \in op.dead => t \in op.targets
    BY <1>1 DEF Inv, EngineInv, RemovalInv
  <1>3. /\ \A h \in Hooks \ op.dead : hook'[h] = hook[h]
        /\ \A h \in op.dead :
              /\ hook'[h] \in UsedHooks /\ hook'[h].state = "freed"
              /\ hook'[h].kind = hook[h].kind
              /\ hook'[h].target = hook[h].target /\ hook'[h].runtime = hook[h].runtime
    <2>1. ASSUME NEW h \in op.dead
          PROVE  /\ hook'[h] \in UsedHooks /\ hook'[h].state = "freed"
                 /\ hook'[h].kind = hook[h].kind
                 /\ hook'[h].target = hook[h].target /\ hook'[h].runtime = hook[h].runtime
      <3>1. hook[h] \in UsedHooks /\ h \in Hooks
        BY <1>1, <1>2, HookTypes DEF Inv
      <3>2. hook'[h] = [hook[h] EXCEPT !.state = "freed"]
        BY <1>0, <3>1
      <3> QED
        BY <3>1, <3>2 DEF UsedHooks
    <2> QED
      BY <1>0, <2>1
  <1>4. UnusedHook \notin UsedHooks
    BY DEF UsedHooks, UnusedHook
  <1>5. /\ HooksKept
        /\ \A h \in Hooks : Live(h)' <=> Live(h) /\ h \notin op.dead
        /\ \A h \in Hooks : Live(h) => /\ hook'[h].target = hook[h].target
                                       /\ hook'[h].runtime = hook[h].runtime
    BY <1>1, <1>3, <1>4 DEF HooksKept, Live
  <1>6. /\ \A t \in Targets : registry'[t] = IF t \in op.targets THEN NoHook ELSE registry[t]
        /\ registry' \in [Targets -> Hooks \cup {NoHook}]
    BY <1>0 DEF Inv, HookTypeOK
  <1>7. hook' \in [Hooks -> HookRecords] /\ stale' \in BOOLEAN
    <2>1. UsedHooks \subseteq HookRecords
      BY DEF UsedHooks, HookRecords
    <2>2. \A h \in Hooks : hook'[h] \in HookRecords
      BY <1>3, <2>1 DEF Inv, HookTypeOK
    <2> QED
      BY <1>0, <2>2 DEF Inv, HookTypeOK
  <1>8. HookTypeOK'
    BY <1>0, <1>1, <1>6, <1>7 DEF Inv, HookTypeOK, Ops
  <1>9. CodeInv'
    <2> SUFFICES ASSUME NEW e \in Entries
                 PROVE  /\ code'[e].state # "free" =>
                              mapped' /\ code'[e].hook \in Hooks
                              /\ hook'[code'[e].hook] # UnusedHook
                        /\ Hooked(e)' => /\ Live(code[e].hook)'
                                         /\ registry'[hook'[code'[e].hook].target] = code'[e].hook
      BY DEF CodeInv
    <2>1. /\ code[e].state # "free" =>
                mapped /\ code[e].hook \in Hooks /\ hook[code[e].hook] # UnusedHook
          /\ Hooked(e) => /\ Live(code[e].hook) /\ code[e].hook \in Hooks
                          /\ registry[hook[code[e].hook].target] = code[e].hook
      BY <1>1 DEF Inv, EngineInv, CodeInv, Hooked
    <2>2. Hooked(e)' <=> Hooked(e)
      BY <1>0 DEF Hooked
    <2>3. ASSUME Hooked(e)
          PROVE  /\ Live(code[e].hook)'
                 /\ registry'[hook'[code'[e].hook].target] = code'[e].hook
      <3>1. hook[code[e].hook].target \in Targets
        BY <2>1, <2>3, HookTypes DEF Inv
      <3>2. hook[code[e].hook].target \notin op.targets
        BY <1>2, <2>1, <2>3, <3>1, HookConstants
      <3> QED
        BY <1>0, <1>2, <1>5, <1>6, <2>1, <2>3, <3>1, <3>2 DEF Live
    <2> QED
      BY <1>0, <1>5, <2>1, <2>2, <2>3 DEF HooksKept
  <1>10. RegistryInv'
    <2> SUFFICES ASSUME NEW t \in Targets, registry'[t] # NoHook
                 PROVE  /\ Live(registry[t])' /\ hook'[registry'[t]].target = t
                        /\ \/ \E e \in Entries : Hooked(e)' /\ code'[e].hook = registry'[t]
                           \/ unclean'
      BY DEF RegistryInv
    <2>1. registry'[t] = registry[t] /\ t \notin op.targets /\ registry[t] \notin op.dead
      BY <1>2, <1>6
    <2>2. /\ Live(registry[t]) /\ hook[registry[t]].target = t /\ registry[t] \in Hooks
          /\ unclean \/ \E e \in Entries : Hooked(e) /\ code[e].hook = registry[t]
      BY <2>1 DEF Inv, EngineInv, RegistryInv, HookTypeOK
    <2> QED
      BY <1>0, <1>5, <2>1, <2>2 DEF Live, Hooked
  <1>11. LeakInv'
    <2> SUFFICES ASSUME NEW h \in Hooks, Live(h)'
                 PROVE  unclean' \/ \E t \in Targets : registry'[t] = h
      BY DEF LeakInv
    <2>1. Live(h) /\ h \notin op.dead
      BY <1>5
    <2>2. unclean \/ \E t \in Targets : registry[t] = h
      BY <1>1, <2>1 DEF Inv, EngineInv, LeakInv
    <2>3. \A t \in Targets : registry[t] = h => registry'[t] = h
      BY <1>2, <1>6, <2>1, HookConstants
    <2> QED
      BY <1>0, <2>2, <2>3
  <1>12. RemovalInv'
    BY <1>0, <1>1, <1>2, <1>3, <1>6, HookConstants DEF RemovalInv, Hooked
  <1>13. NextInv'
    <2>1. op.kind = "native" => /\ op.next \in [hook : Hooks, target : Targets, kind : NativeKinds]
                                /\ hook'[op.next.hook] = UnusedHook
                                /\ registry'[op.next.target] = NoHook
      <3> SUFFICES ASSUME op.kind = "native"
                   PROVE  /\ op.next \in [hook : Hooks, target : Targets, kind : NativeKinds]
                          /\ hook'[op.next.hook] = UnusedHook
                          /\ registry'[op.next.target] = NoHook
        OBVIOUS
      <3>1. /\ op.next \in [hook : Hooks, target : Targets, kind : NativeKinds]
            /\ hook[op.next.hook] = UnusedHook /\ registry[op.next.target] = NoHook
        BY DEF Inv, EngineInv, NextInv
      <3>2. op.next.hook \in Hooks /\ op.next.target \in Targets
        BY <3>1
      <3>3. op.next.hook \notin op.dead
        BY <1>2, <3>1, <3>2, HookTypes DEF Inv
      <3> QED
        BY <1>3, <1>6, <3>1, <3>2, <3>3
    <2>2. op.kind = "cleanup" =>
            /\ op.next \in [failed : BOOLEAN]
            /\ op.next.failed => unclean
            /\ unclean \/ \A t \in Targets : registry'[t] # NoHook => t \in op.targets
      BY <1>6 DEF Inv, EngineInv, NextInv
    <2> QED
      BY <1>0, <1>1, <2>1, <2>2 DEF NextInv
  <1>14. ContextInv'
    BY <1>0, <1>1, <1>5 DEF Inv, EngineInv, ContextInv, ContextIsAlive
  <1>15. InstallInv'
    BY <1>1 DEF InstallInv
  <1>16. LockInv'
    BY <1>0, <1>1 DEF Inv, LockInv, RemovalKinds
  <1>17. WaitInv'
    <2>1. unclean \/ stale' = stale
      BY <1>0, <1>1, <1>2 DEF Inv, EngineInv, ContextInv, HookTypeOK
    <2> QED
      BY <1>0, <1>1, <1>5, <2>1, WaitersStay
  <1>18. CallInv' /\ FrameInv'
    BY <1>0, <1>5, CallsStay
  <1>19. IntactInv'
    <2> SUFFICES ASSUME NEW t \in Threads
                 PROVE  IntactOk(t)'
      BY DEF IntactInv
    <2>1. IntactOk(t)
      BY DEF Inv, IntactInv
    <2>2. Busy(t) => call[t].entry \in Entries /\ call[t].hook \in Hooks
      BY CallTypes, BusyFields DEF Inv
    <2>3. Busy(t) /\ ~call[t].late => call[t].hook \notin op.dead
      BY <1>1, <1>2, <2>1, <2>2 DEF IntactOk
    <2> QED
      BY <1>0, <1>1, <1>5, <2>1, <2>2, <2>3 DEF IntactOk, Busy, Hooked
  <1> QED
    BY <1>8, <1>9, <1>10, <1>11, <1>12, <1>13, <1>14, <1>15, <1>16, <1>17, <1>18, <1>19
       DEF Inv, EngineInv

\* What follows a removal, case by case.
LEMMA AfterCases ==
  ASSUME Inv, op \in Removals, NEW released, op' = After(op, released)
  PROVE  /\ op' \in Ops /\ \A h : op' # [kind |-> "install", hook |-> h]
         /\ op'.kind # "install"
         /\ \/ /\ op.kind = "native" /\ op'.kind = "native" /\ op'.step = "install"
               /\ op'.dead = op.dead /\ op'.targets = op.targets /\ op'.next = op.next
            \/ /\ op.kind = "cleanup" /\ op'.kind = "unmap" /\ op'.step = "thunks"
               /\ op'.dead = op.dead /\ op'.targets = op.targets
               /\ \A t \in Targets : registry[t] = NoHook
            \/ /\ op.kind = "cleanup" /\ op'.kind = "drop"
               /\ released /\ mapped /\ ~op.next.failed =>
                     \E t \in Targets : registry[t] # NoHook
            \/ op.kind = "unmap" /\ op'.kind = "drop"
            \/ op.kind \in {"unhook", "detachAll"} /\ op'.kind = "none"
  <1>1. CASE op.kind = "native"
    <2>1. op' = [op EXCEPT !.step = "install"]
      BY <1>1 DEF After
    <2> QED
      BY <1>1, <2>1 DEF Removals, Ops
  <1>2. CASE op.kind = "cleanup"
    <2>1. op' = IF /\ released /\ ~op.next.failed
                   /\ mapped /\ \A t \in Targets : registry[t] = NoHook
                THEN [op EXCEPT !.kind = "unmap", !.step = "thunks"]
                ELSE [kind |-> "drop"]
      BY <1>2 DEF After
    <2>2. CASE op' = [kind |-> "drop"]
                /\ ~(/\ released /\ ~op.next.failed
                     /\ mapped /\ \A t \in Targets : registry[t] = NoHook)
      BY <1>2, <2>2 DEF Ops
    <2>3. CASE op' = [op EXCEPT !.kind = "unmap", !.step = "thunks"]
                /\ \A t \in Targets : registry[t] = NoHook
      BY <1>2, <2>3 DEF Removals, Ops
    <2> QED
      BY <2>1, <2>2, <2>3
  <1>3. CASE op.kind = "unmap"
    <2>1. op' = [kind |-> "drop"]
      BY <1>3 DEF After
    <2> QED
      BY <1>3, <2>1 DEF Ops
  <1>4. CASE op.kind \in {"unhook", "detachAll"}
    <2>1. op' = NoOp
      BY <1>4 DEF After
    <2> QED
      BY <1>4, <2>1 DEF Ops, NoOp
  <1> QED
    BY <1>1, <1>2, <1>3, <1>4 DEF Removals

\* A removal ends: everything it freed is gone, or it was not clean.
LEMMA RemovalEnds ==
  ASSUME Inv, op \in Removals, NEW released, op' = After(op, released),
         lock' = LockAfter(op'),
         UNCHANGED <<hook, registry, frames, call, runtime, mixed, stale>>,
         unclean' \in BOOLEAN, unclean => unclean', mapped' \in BOOLEAN,
         code' \in [Entries -> [state : {"free", "hooked", "retired"},
                                hook : Hooks \cup {NoHook}]],
         unclean' \/ \A h \in op.dead : hook[h].state = "freed",
         op.kind = "cleanup" => unclean' \/ released,
         op.kind = "unmap" => unclean' \/ NobodyWaits,
         mapped' = mapped \/ unclean' \/ NobodyWaits,
         \A e \in Entries : code'[e].state # "free" => mapped' = mapped /\ code'[e] = code[e],
         \A e \in Entries : Hooked(e) => code'[e] = code[e],
         IntactInv'
  PROVE  Inv'
  <1>1. /\ op' \in Ops /\ \A h : op' # [kind |-> "install", hook |-> h]
        /\ op'.kind # "install"
        /\ \/ /\ op.kind = "native" /\ op'.kind = "native" /\ op'.step = "install"
              /\ op'.dead = op.dead /\ op'.targets = op.targets /\ op'.next = op.next
           \/ /\ op.kind = "cleanup" /\ op'.kind = "unmap" /\ op'.step = "thunks"
              /\ op'.dead = op.dead /\ op'.targets = op.targets
              /\ \A t \in Targets : registry[t] = NoHook
           \/ /\ op.kind = "cleanup" /\ op'.kind = "drop"
              /\ released /\ mapped /\ ~op.next.failed =>
                    \E t \in Targets : registry[t] # NoHook
           \/ op.kind = "unmap" /\ op'.kind = "drop"
           \/ op.kind \in {"unhook", "detachAll"} /\ op'.kind = "none"
    BY AfterCases
  <1>2. op.kind \in RemovalKinds /\ \A h : op # [kind |-> "install", hook |-> h]
    BY OpTypes DEF Inv, RemovalKinds
  <1>3. \A e \in Entries : Hooked(e)' <=> Hooked(e)
    BY DEF Hooked
  <1>4. ASSUME ~unclean', op.kind \in {"cleanup", "unmap"}
        PROVE  \A t \in Targets : registry[t] = NoHook
    <2> SUFFICES ASSUME NEW t \in Targets, registry[t] # NoHook
                 PROVE  FALSE
      OBVIOUS
    <2>1. op.kind = "cleanup" /\ t \in op.targets
      BY <1>4 DEF Inv, EngineInv, NextInv
    <2>2. registry[t] \in op.dead /\ Live(registry[t])
      BY <1>2, <2>1 DEF Inv, EngineInv, RemovalInv, RegistryInv
    <2> QED
      BY <1>4, <2>2 DEF Live
  <1>5. LockAfter(op') = IF op'.kind = "drop" THEN Nobody ELSE lock
    BY DEF LockAfter
  <1>6. HookTypeOK'
    BY <1>1, <1>5 DEF Inv, HookTypeOK
  <1>7. CodeInv'
    <2> SUFFICES ASSUME NEW e \in Entries
                 PROVE  /\ code'[e].state # "free" =>
                              mapped' /\ code'[e].hook \in Hooks
                              /\ hook'[code'[e].hook] # UnusedHook
                        /\ Hooked(e)' => /\ Live(code[e].hook)'
                                         /\ registry'[hook'[code'[e].hook].target] = code'[e].hook
      BY DEF CodeInv
    <2>1. /\ code[e].state # "free" =>
                mapped /\ code[e].hook \in Hooks /\ hook[code[e].hook] # UnusedHook
          /\ Hooked(e) => /\ Live(code[e].hook)
                          /\ registry[hook[code[e].hook].target] = code[e].hook
      BY <1>2 DEF Inv, EngineInv, CodeInv
    <2> QED
      BY <1>3, <2>1 DEF Live
  <1>8. RegistryInv'
    <2> SUFFICES ASSUME NEW t \in Targets, registry'[t] # NoHook
                 PROVE  /\ Live(registry[t])' /\ hook'[registry'[t]].target = t
                        /\ \/ \E e \in Entries : Hooked(e)' /\ code'[e].hook = registry'[t]
                           \/ unclean'
      BY DEF RegistryInv
    <2>1. /\ Live(registry[t]) /\ hook[registry[t]].target = t
          /\ \/ \E e \in Entries : Hooked(e) /\ code[e].hook = registry[t]
             \/ unclean
             \/ t \in op.targets
      BY DEF Inv, EngineInv, RegistryInv
    <2>2. t \in op.targets => unclean'
      BY <1>2, <2>1 DEF Inv, EngineInv, RemovalInv, Live
    <2> QED
      BY <1>3, <2>1, <2>2 DEF Live
  <1>9. ASSUME NEW h \in Hooks, Live(h)
        PROVE  unclean' \/ \E t \in Targets : registry[t] = h
    BY <1>2, <1>9 DEF Inv, EngineInv, LeakInv, Live
  <1>10. LeakInv'
    BY <1>9 DEF LeakInv, Live
  <1>11. InstallInv'
    BY <1>1 DEF InstallInv
  <1>12. RemovalInv'
    BY <1>1, <1>2, <1>3 DEF Inv, EngineInv, RemovalInv, RemovalKinds, Live
  <1>13. NextInv'
    BY <1>1, <1>2 DEF Inv, EngineInv, NextInv, RemovalKinds
  <1>14. ContextInv'
    <2>1. unclean' \/ \A h \in Hooks : Live(h)' => ContextIsAlive(h)'
      BY DEF Inv, EngineInv, ContextInv, ContextIsAlive, Live
    <2>2. op'.kind \in {"unmap", "drop"} => unclean' \/ NothingLive'
      BY <1>1, <1>4, <1>9, HookConstants DEF NothingLive, Live
    <2> QED
      BY <2>1, <2>2 DEF ContextInv
  <1>15. LockInv'
    <2>1. op.kind \in {"cleanup", "unmap"} =>
             lock = Host /\ runtime.closing /\ \A t \in Threads : call[t].pc # "js"
      BY HookConstants DEF Inv, LockInv
    <2>2. CASE op'.kind = "drop"
      BY <1>1, <1>5, <2>1, <2>2, HookConstants DEF Inv, LockInv, RemovalKinds
    <2>3. CASE op'.kind # "drop"
      BY <1>1, <1>2, <1>5, <2>1, <2>3 DEF Inv, LockInv, RemovalKinds
    <2> QED
      BY <2>2, <2>3
  <1>16. WaitInv'
    <2> SUFFICES ASSUME ~unclean'
                 PROVE  WaitInv'
      BY DEF WaitInv
    <2>1. op'.kind = "drop" => NobodyWaits
      <3>1. CASE op.kind = "unmap"
        BY <3>1
      <3>2. CASE op.kind = "cleanup" /\ op'.kind = "drop"
        <4>1. released /\ (\A t \in Targets : registry[t] = NoHook)
          BY <1>4, <3>2
        <4>2. ~op.next.failed
          BY <3>2 DEF Inv, EngineInv, NextInv
        <4>3. ~mapped
          BY <1>1, <3>2, <4>1, <4>2
        <4> QED
          BY <4>3 DEF Inv, WaitInv
      <3> QED
        BY <1>1, <3>1, <3>2
    <2>2. op'.kind = "unmap" => op'.step = "thunks"
      BY <1>1
    <2> QED
      BY <2>1, <2>2 DEF Inv, WaitInv, ContextIsAlive, NobodyWaits
  <1>17. CallInv' /\ FrameInv'
    BY CallsStay DEF HooksKept
  <1> QED
    BY <1>6, <1>7, <1>8, <1>10, <1>11, <1>12, <1>13, <1>14, <1>15, <1>16, <1>17
       DEF Inv, EngineInv

LEMMA ReclaimKeeps ==
  ASSUME Inv, Reclaim
  PROVE  Inv'
  <1>0. /\ UNCHANGED <<hook, mapped, registry, frames, call, runtime, mixed, unclean, stale>>
        /\ Step("reclaim") /\ op' = After(op, TRUE) /\ lock' = LockAfter(op')
    BY DEF Reclaim
  <1>1. /\ op \in Removals /\ op.kind \in RemovalKinds /\ op.step = "reclaim"
    BY <1>0, OpTypes DEF Inv
  <1>2. op.kind # "unmap"
    BY <1>1 DEF Inv, EngineInv, NextInv
  <1>3. unclean \/ \A h \in op.dead : hook[h].state = "freed"
    BY <1>1 DEF Inv, EngineInv, RemovalInv
  <1>4. \A e \in Entries : code'[e] = code[e] \/ (code[e].state = "retired" /\ code'[e] = NoCode)
    BY DEF Reclaim
  <1>5. NoCode \in [state : {"free", "hooked", "retired"}, hook : Hooks \cup {NoHook}]
        /\ NoCode.state = "free"
    BY DEF NoCode
  <1>6. /\ code' \in [Entries -> [state : {"free", "hooked", "retired"},
                                  hook : Hooks \cup {NoHook}]]
        /\ \A e \in Entries : code'[e].state # "free" => code'[e] = code[e]
        /\ \A e \in Entries : Hooked(e) => code'[e] = code[e]
    <2>1. code' = [e \in Entries |-> code'[e]]
      BY DEF Reclaim, Inv, HookTypeOK
    <2>2. \A e \in Entries : code'[e] \in [state : {"free", "hooked", "retired"},
                                           hook : Hooks \cup {NoHook}]
      BY <1>4, <1>5 DEF Inv, HookTypeOK
    <2> QED
      BY <1>4, <1>5, <2>1, <2>2 DEF Hooked
  <1>7. IntactInv'
    <2> SUFFICES ASSUME NEW t \in Threads
                 PROVE  IntactOk(t)'
      BY DEF IntactInv
    <2>1. IntactOk(t)
      BY DEF Inv, IntactInv
    <2>2. Busy(t) => call[t].entry \in Entries
      BY CallTypes, BusyFields DEF Inv
    <2>3. Busy(t) /\ ~call[t].late => code'[call[t].entry] = code[call[t].entry]
      BY <1>1, <1>6, <2>1, <2>2 DEF IntactOk
    <2>4. op'.kind \in RemovalKinds => op'.step \notin {"free", "reclaim"}
      BY <1>0, <1>1, AfterCases DEF RemovalKinds
    <2> QED
      BY <1>0, <2>1, <2>3, <2>4 DEF IntactOk, Busy, Live
  <1> QED
    BY <1>0, <1>1, <1>2, <1>3, <1>6, <1>7, RemovalEnds DEF Inv, HookTypeOK

LEMMA UnmapKeeps ==
  ASSUME Inv, Unmap
  PROVE  Inv'
  <1>0. /\ UNCHANGED <<hook, registry, frames, call, runtime, mixed, unclean, stale>>
        /\ Step("free") /\ op.kind = "unmap" /\ op' = After(op, TRUE)
        /\ lock' = LockAfter(op') /\ mapped' = FALSE
        /\ code' = [e \in Entries |-> NoCode]
    BY DEF Unmap
  <1>1. /\ op \in Removals /\ op.kind \in RemovalKinds /\ op.step = "free"
    BY <1>0, OpTypes DEF Inv
  <1>2. unclean \/ \A h \in op.dead : hook[h].state = "freed"
    BY <1>0, <1>1 DEF Inv, EngineInv, RemovalInv
  <1>3. unclean \/ NobodyWaits
    BY <1>0, <1>1 DEF Inv, WaitInv
  <1>4. NoCode \in [state : {"free", "hooked", "retired"}, hook : Hooks \cup {NoHook}]
        /\ NoCode.state = "free"
    BY DEF NoCode
  <1>5. \A e \in Entries : ~Hooked(e)
    <2> SUFFICES ASSUME NEW e \in Entries, Hooked(e)
                 PROVE  FALSE
      OBVIOUS
    <2>1. /\ code[e].hook \in Hooks /\ Live(code[e].hook)
          /\ registry[hook[code[e].hook].target] = code[e].hook
      BY <1>1, OpTypes DEF Inv, EngineInv, CodeInv, Hooked, RemovalKinds
    <2>2. hook[code[e].hook].target \in Targets
      BY <2>1, HookTypes DEF Inv
    <2>3. \A t \in Targets : registry[t] = NoHook
      BY <1>0 DEF Inv, EngineInv, NextInv
    <2> QED
      BY <2>1, <2>2, <2>3, HookConstants
  <1>6. op'.kind \notin RemovalKinds
    BY <1>0, <1>1, AfterCases DEF RemovalKinds
  <1>7. IntactInv'
    <2> SUFFICES ASSUME NEW t \in Threads
                 PROVE  IntactOk(t)'
      BY DEF IntactInv
    <2>1. IntactOk(t)
      BY DEF Inv, IntactInv
    <2>2. Busy(t) => call[t].entry \in Entries
      BY CallTypes, BusyFields DEF Inv
    <2>3. Busy(t) => call[t].late
      BY <1>1, <1>5, <2>1, <2>2 DEF IntactOk
    <2> QED
      BY <1>0, <2>1, <2>3 DEF IntactOk, Busy
  <1>8. code' \in [Entries -> [state : {"free", "hooked", "retired"},
                               hook : Hooks \cup {NoHook}]]
    BY <1>0, <1>4
  <1>9. \A e \in Entries : code'[e].state = "free"
    BY <1>0, <1>4
  <1> QED
    BY <1>0, <1>1, <1>2, <1>3, <1>5, <1>7, <1>8, <1>9, RemovalEnds DEF Inv, HookTypeOK

LEMMA TimeOutKeeps ==
  ASSUME Inv, TimeOut
  PROVE  Inv'
  <1>0. /\ UNCHANGED <<hook, code, mapped, registry, frames, call, runtime, mixed, stale>>
        /\ lock' = LockAfter(op') /\ unclean' = TRUE
    BY DEF TimeOut
  <1>1. Step("calls") \/ Step("thunks")
    BY DEF TimeOut
  <1>2. op' = After(op, FALSE)
    BY DEF TimeOut
  <1>3. op \in Removals /\ op.kind \in RemovalKinds
    BY <1>1, OpTypes DEF Inv
  <1>4. op'.kind \in RemovalKinds => op'.step \notin {"free", "reclaim"}
    BY <1>2, <1>3, AfterCases DEF RemovalKinds
  <1>5. IntactInv'
    BY <1>0, <1>4, IntactStays DEF Live
  <1> QED
    BY <1>0, <1>2, <1>3, <1>5, RemovalEnds DEF Inv, HookTypeOK

LEMMA InstallNextKeeps ==
  ASSUME Inv, InstallNext
  PROVE  Inv'
  <1>0. /\ UNCHANGED <<frames, call, lock, runtime, mixed, unclean, stale>>
        /\ Step("install") /\ op' = NoOp
    BY DEF InstallNext
  <1>1. op \in Removals /\ op.kind = "native" /\ op.step = "install"
    BY <1>0, OpTypes DEF Inv, EngineInv, NextInv
  <1>2. /\ op.next \in [hook : Hooks, target : Targets, kind : NativeKinds]
        /\ hook[op.next.hook] = UnusedHook /\ registry[op.next.target] = NoHook
    BY <1>1 DEF Inv, EngineInv, NextInv
  <1>3. /\ op.next.hook \in Hooks /\ op.next.target \in Targets /\ op.next.kind \in Kinds
    BY <1>2 DEF Kinds
  <1>4. runtime.alive
    BY <1>1 DEF Inv, LockInv
  <1>5. CASE /\ Patch(op.next.hook, op.next.target, op.next.kind)
             /\ registry' = [registry EXCEPT ![op.next.target] = op.next.hook]
    BY <1>0, <1>1, <1>2, <1>3, <1>4, <1>5, PatchRegisters
  <1>6. CASE UNCHANGED <<hook, code, mapped, registry>>
    <2>1. op'.kind = "none" /\ \A h : op' # [kind |-> "install", hook |-> h]
      BY <1>0 DEF NoOp
    <2>2. \A h : op # [kind |-> "install", hook |-> h]
      BY <1>1
    <2>3. unclean \/ \A h \in op.dead : hook[h].state = "freed"
      BY <1>1 DEF Inv, EngineInv, RemovalInv, RemovalKinds
    <2>4. CodeInv' /\ RegistryInv'
      BY <1>0, <1>1, <1>6, <2>1, <2>2 DEF Inv, EngineInv, CodeInv, RegistryInv, Hooked, Live
    <2>5. LeakInv'
      BY <1>0, <1>6, <2>1, <2>2, <2>3 DEF Inv, EngineInv, LeakInv, Live
    <2>6. InstallInv' /\ RemovalInv' /\ NextInv'
      BY <2>1 DEF InstallInv, RemovalInv, NextInv, RemovalKinds
    <2>7. ContextInv'
      BY <1>0, <1>6, <2>1 DEF Inv, EngineInv, ContextInv, ContextIsAlive, Live
    <2>8. LockInv'
      BY <1>0, <2>1, LockerStays
    <2>9. WaitInv'
      BY <1>0, <1>6, <2>1, WaitersStay DEF HooksKept
    <2>10. CallInv' /\ FrameInv' /\ IntactInv'
      BY <1>0, <1>6, <2>1, CallsStay, IntactStays DEF HooksKept, Live, RemovalKinds
    <2>11. HookTypeOK'
      BY <1>0, <1>6 DEF Inv, HookTypeOK, Ops
    <2> QED
      BY <2>4, <2>5, <2>6, <2>7, <2>8, <2>9, <2>10, <2>11 DEF Inv, EngineInv
  <1> QED
    BY <1>5, <1>6 DEF InstallNext

LEMMA DropContextKeeps ==
  ASSUME Inv, DropContext
  PROVE  Inv'
  <1>0. /\ UNCHANGED <<hook, code, mapped, registry, frames, call, lock, mixed, unclean, stale>>
        /\ op.kind = "drop" /\ op' = NoOp
        /\ runtime' = [runtime EXCEPT !.alive = FALSE]
    BY DEF DropContext, OpIs
  <1>1. /\ runtime' \in [number : 1 .. MaxRuntimes, alive : BOOLEAN, closing : BOOLEAN,
                         aliases : SUBSET (1 .. MaxRuntimes)]
        /\ ~runtime'.alive /\ runtime'.closing = runtime.closing
        /\ runtime'.number = runtime.number
    BY <1>0 DEF Inv, HookTypeOK
  <1>2. /\ op'.kind = "none" /\ \A h : op' # [kind |-> "install", hook |-> h]
        /\ \A h : op # [kind |-> "install", hook |-> h]
    BY <1>0, OpTypes DEF NoOp, Inv
  <1>3. HookTypeOK'
    BY <1>0, <1>1 DEF Inv, HookTypeOK, Ops
  <1>4. CodeInv' /\ RegistryInv' /\ LeakInv'
    BY <1>0, <1>2 DEF Inv, EngineInv, CodeInv, RegistryInv, LeakInv, Hooked, Live, RemovalKinds
  <1>5. InstallInv' /\ RemovalInv' /\ NextInv'
    BY <1>2 DEF InstallInv, RemovalInv, NextInv, RemovalKinds
  <1>6. ContextInv'
    BY <1>0, <1>2 DEF Inv, EngineInv, ContextInv, NothingLive, Live
  <1>7. LockInv'
    BY <1>0, <1>1, <1>2, HookConstants DEF Inv, LockInv
  <1>8. WaitInv'
    BY <1>0, <1>2 DEF Inv, WaitInv, NobodyWaits
  <1>9. CallInv' /\ FrameInv' /\ IntactInv'
    BY <1>0, <1>2, CallsStay, IntactStays DEF HooksKept, Live, RemovalKinds
  <1> QED
    BY <1>3, <1>4, <1>5, <1>6, <1>7, <1>8, <1>9 DEF Inv, EngineInv

LEMMA OpKeeps ==
  ASSUME Inv, OpStep
  PROVE  Inv'
  BY PublishKeeps, CountersKeep, GraceOverKeeps, FreeKeeps, ReclaimKeeps, UnmapKeeps,
     TimeOutKeeps, InstallNextKeeps, DropContextKeeps DEF OpStep

------------------------------------------------------------------------------
(* The theorems.                                                           *)

LEMMA InitHolds == Init => Inv
  <1> SUFFICES ASSUME Init
               PROVE  Inv
    OBVIOUS
  <1>0. /\ hook = [h \in Hooks |-> UnusedHook] /\ code = [e \in Entries |-> NoCode]
        /\ mapped = FALSE /\ registry = [t \in Targets |-> NoHook] /\ frames = << >>
        /\ call = [t \in Threads |-> Idle] /\ lock = Nobody /\ op = NoOp
        /\ runtime = [number |-> 1, alive |-> TRUE, closing |-> FALSE, aliases |-> {}]
        /\ mixed = FALSE /\ unclean = FALSE /\ stale = FALSE
    BY DEF Init
  <1>1. /\ \A h \in Hooks : hook[h] = UnusedHook /\ hook[h].state = "unused"
        /\ \A e \in Entries : code[e].state = "free"
        /\ \A t \in Threads : call[t].pc = "idle"
        /\ op.kind = "none"
    BY <1>0 DEF UnusedHook, NoCode, Idle, NoOp
  <1>2. HookTypeOK
    <2>1. 1 \in 1 .. MaxRuntimes
      BY HookConstants
    <2>2. frames \in Seq([thread : Threads, orig : BOOLEAN])
      BY <1>0
    <2>3. /\ hook \in [Hooks -> HookRecords] /\ call \in [Threads -> Calls]
          /\ code \in [Entries -> [state : {"free", "hooked", "retired"},
                                   hook : Hooks \cup {NoHook}]]
      BY <1>0 DEF HookRecords, Calls, NoCode
    <2> QED
      BY <1>0, <2>1, <2>2, <2>3 DEF HookTypeOK, Ops
  <1>3. EngineInv
    BY <1>0, <1>1 DEF EngineInv, CodeInv, RegistryInv, LeakInv, InstallInv, RemovalInv, NextInv,
       ContextInv, Live, Hooked, NothingLive, RemovalKinds
  <1>4. LockInv
    BY <1>0, <1>1, HookConstants DEF LockInv
  <1>5. WaitInv
    BY <1>0, <1>1 DEF WaitInv, NobodyWaits
  <1>6. IntactInv /\ CallInv
    BY <1>1 DEF IntactInv, IntactOk, CallInv, CallOk, Busy
  <1>7. FrameInv
    <2>1. DOMAIN frames = {}
      BY <1>0
    <2> QED
      BY <1>1, <2>1 DEF FrameInv, HasFrame
  <1> QED
    BY <1>2, <1>3, <1>4, <1>5, <1>6, <1>7 DEF Inv

LEMMA StutterKeeps ==
  ASSUME Inv, UNCHANGED vars
  PROVE  Inv'
  <1>1. HookTypeOK' /\ EngineInv' /\ LockInv' /\ WaitInv'
    BY EngineStays DEF Inv, vars, engine, HookTypeOK, LockInv, WaitInv, ContextIsAlive, NobodyWaits
  <1>2. CallInv' /\ FrameInv'
    BY CallsStay DEF vars, HooksKept
  <1>3. IntactInv'
    BY DEF vars, Inv, IntactInv, IntactOk, Busy, Live, Hooked
  <1> QED
    BY <1>1, <1>2, <1>3 DEF Inv

\* Every step keeps the invariant: those of the threads in their calls, of the
\* script, and of the removal or installation under way.
THEOREM InvHolds == Spec => []Inv
  <1>1. Inv /\ [Next]_vars => Inv'
    BY ThreadsKeep, ScriptKeeps, OpKeeps, StutterKeeps DEF Next
  <1> QED
    BY <1>1, InitHolds, PTL DEF Spec

\* Every variable keeps its type.
THEOREM TypesHold == Spec => []HookTypeOK
  <1>1. Inv => HookTypeOK
    BY DEF Inv
  <1> QED
    BY <1>1, InvHolds, PTL

\* The only thread that uses a freed record or reclaimed code is one that was
\* between the branch and the counter for longer than the grace interval.
THEOREM LateHolds == Spec => []OnlyLateThreadsAreLost
  <1>1. Inv => OnlyLateThreadsAreLost
    BY DEF Inv, IntactInv, IntactOk, OnlyLateThreadsAreLost
  <1> QED
    BY <1>1, InvHolds, PTL

\* What is patched is registered (or being installed) and live; what is
\* registered is patched, unless its removal is under way or did not finish.
THEOREM EngineMatches == Spec => []EngineMatchesRegistry
  <1>1. Inv => EngineMatchesRegistry
    <2> SUFFICES ASSUME Inv
                 PROVE  EngineMatchesRegistry
      OBVIOUS
    <2>1. \A e \in Entries : code[e].state = "hooked" =>
             /\ hook[code[e].hook].state = "live"
             /\ registry[hook[code[e].hook].target] = code[e].hook
                \/ op = [kind |-> "install", hook |-> code[e].hook]
      BY DEF Inv, EngineInv, CodeInv, Hooked, Live
    <2>2. \A t \in Targets : registry[t] # NoHook =>
             \/ \E e \in HookedBy(t) : code[e].hook = registry[t]
             \/ unclean
             \/ OpIs({"detachAll", "cleanup"})
      BY DEF Inv, EngineInv, RegistryInv, Hooked, HookedBy, OpIs
    <2> QED
      BY <2>1, <2>2 DEF EngineMatchesRegistry
  <1> QED
    BY <1>1, InvHolds, PTL

\* A record that is not freed is the registry's, or of the operation under
\* way, unless some operation gave up.
THEOREM LeaksAreUnclean == Spec => []LeakOnlyIfUnclean
  <1>1. Inv => LeakOnlyIfUnclean
    BY OpTypes DEF Inv, EngineInv, LeakInv, Live, LeakOnlyIfUnclean
  <1> QED
    BY <1>1, InvHolds, PTL

\* No value of a dropped context is called or freed, unless some operation
\* gave up.
THEOREM StaleIsUnclean == Spec => []StaleOnlyIfUnclean
  <1>1. Inv => StaleOnlyIfUnclean
    BY DEF Inv, WaitInv, StaleOnlyIfUnclean
  <1> QED
    BY <1>1, InvHolds, PTL

\* No callback is in JavaScript while there is no context.
THEOREM JsIsAlive == Spec => []JsOnlyWhileAlive
  <1>1. Inv => JsOnlyWhileAlive
    BY DEF Inv, LockInv, JsOnlyWhileAlive
  <1> QED
    BY <1>1, InvHolds, PTL

\* A replacement that falls back on the original runs it once, until some
\* callback has popped another's frame.
THEOREM OriginalOnce == Spec => []OriginalRunsOnce
  <1>1. Inv => OriginalRunsOnce
    BY DEF Inv, CallInv, CallOk, Busy, OriginalRunsOnce
  <1> QED
    BY <1>1, InvHolds, PTL

=============================================================================
