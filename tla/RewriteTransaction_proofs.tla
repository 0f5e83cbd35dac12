---------------------- MODULE RewriteTransaction_proofs ----------------------
(***************************************************************************)
(* Theorems about RewriteTransaction, for any number of caches and         *)
(* threads.                                                                *)
(*                                                                         *)
(* The branches that commits have written lie on a stack: the entry leads  *)
(* to the top one, and what each of them overwrote leads to the next.      *)
(* Whatever is on the stack is mapped, and has a commit that is applied.   *)
(* And a page that a write has left not executable has such a commit, too. *)
(***************************************************************************)
EXTENDS RewriteTransaction, Naturals, TLAPS

CommitOps == [kind : {"commit"}, step : CommitSteps, cache : Caches, error : BOOLEAN]
UndoOps == [kind : {"rollback", "dispose", "drop"}, step : UndoSteps,
            cache : Caches, error : BOOLEAN]
CommitRecords == [state : {"preparing", "live"}, original : Caches \cup {Code},
                  was : {"rx", "rw"}, applied : BOOLEAN]
CacheRecords == [state : {"prepared", "owned", "freed"}, relocated : Caches \cup {Code}]

\* While the followed thread is suspended an operation is at a step from which
\* it gets to a resume.
Holding == {"quiesce", "verify", "apply", "restore", "resume", "undo", "resumeAgain"}
SuspendInv ==
    suspended =>
        /\ op \in CommitOps \cup UndoOps
        /\ op.step \in Holding \/ (op \in CommitOps /\ op.step = "dropPatch")

\* The commit of each cache agrees with the operation on it.
OpInv ==
    /\ op \in CommitOps =>
         /\ cache[op.cache].state = "prepared"
         /\ op.step \in {"suspend", "quiesce", "verify"} => commit[op.cache] = NoCommit
         /\ op.step \in {"undo", "resumeAgain", "dropPatch"}
              => commit[op.cache].state = "preparing" /\ op.error = TRUE
         /\ op.step = "apply" =>
              /\ commit[op.cache].state = "preparing"
              /\ commit[op.cache].original = entry
              /\ commit[op.cache].applied = FALSE
         /\ op.step \in {"resume", "end"} =>
              IF op.error THEN commit[op.cache] = NoCommit
              ELSE commit[op.cache].state = "preparing"
    /\ op \in UndoOps => commit[op.cache].state = "live"

\* A commit that has been handed to the script owns its cache, and a branch
\* replaces the instruction that its cache has relocated.
OwnerInv ==
    \A c \in Caches :
        /\ commit[c].state = "preparing" => op \in CommitOps /\ op.cache = c
        /\ commit[c].state = "live" =>
             \/ cache[c].state = "owned"
             \/ failed /\ op \in UndoOps /\ op.cache = c /\ op.step = "dropPatch"
        /\ commit[c] # NoCommit => commit[c].original = cache[c].relocated
        /\ commit[c] # NoCommit => cache[c] # NoCache

\* The branches, the oldest first.
Below(s, i) == IF i = 1 THEN Code ELSE s[i - 1]
Stacked(c, under) ==
    commit[c] # NoCommit /\ commit[c].applied = TRUE /\ commit[c].original = under
Stack(n, s) ==
    /\ entry = Below(s, n + 1)
    /\ \A i \in 1 .. n : Stacked(s[i], Below(s, i))
    /\ \A i, j \in 1 .. n : s[i] = s[j] => i = j
StackInv ==
    failed = FALSE /\ crossed = FALSE =>
        \E n \in Nat : \E s \in [1 .. n -> Caches] : Stack(n, s)

Inv == TypeOK /\ SuspendInv /\ OpInv /\ OwnerInv /\ StackInv

------------------------------------------------------------------------------
(* Operations and records.                                                 *)

LEMMA OpTypes ==
    ASSUME TypeOK
    PROVE  /\ op = NoOp \/ op \in CommitOps \/ op \in UndoOps
           /\ op \in CommitOps => op.kind = "commit"
           /\ op \in UndoOps => op.kind \in {"rollback", "dispose", "drop"}
           /\ op.kind = "none" <=> op = NoOp
           /\ op \in CommitOps <=> op.kind = "commit"
           /\ op \in UndoOps <=> op.kind \in {"rollback", "dispose", "drop"}
           /\ op # NoOp => op.cache \in Caches /\ op.error \in BOOLEAN
           /\ op \in CommitOps => op.step \in CommitSteps
           /\ op \in UndoOps => op.step \in UndoSteps
  BY DEF TypeOK, CommitOps, UndoOps, NoOp

\* What an operation that goes on becomes.
OpNow(kind, step, c, error) ==
    op' = [kind |-> kind, step |-> step, cache |-> c, error |-> error]

LEMMA GoesOn ==
    ASSUME TypeOK, op # NoOp, NEW next, GoOn(next)
    PROVE  OpNow(op.kind, next, op.cache, op.error)
  BY DEF TypeOK, GoOn, OpNow, CommitOps, UndoOps

LEMMA GoesOnWith ==
    ASSUME TypeOK, op # NoOp, NEW next, NEW error \in BOOLEAN,
           op' = [op EXCEPT !.step = next, !.error = error]
    PROVE  OpNow(op.kind, next, op.cache, error)
  BY DEF TypeOK, OpNow, CommitOps, UndoOps

LEMMA ErrsGoingOn ==
    ASSUME TypeOK, op # NoOp, NEW next, op' = [op EXCEPT !.error = TRUE, !.step = next]
    PROVE  OpNow(op.kind, next, op.cache, TRUE)
  BY DEF TypeOK, OpNow, CommitOps, UndoOps

LEMMA CommitNow ==
    ASSUME NEW next \in CommitSteps, NEW c \in Caches, NEW error \in BOOLEAN,
           OpNow("commit", next, c, error)
    PROVE  /\ op' \in CommitOps /\ op' \notin UndoOps /\ op' # NoOp
           /\ op'.kind = "commit" /\ op'.step = next /\ op'.cache = c /\ op'.error = error
  BY DEF OpNow, CommitOps, UndoOps, NoOp

LEMMA UndoNow ==
    ASSUME NEW next \in UndoSteps, NEW c \in Caches, NEW error \in BOOLEAN,
           NEW kind \in {"rollback", "dispose", "drop"},
           OpNow(kind, next, c, error)
    PROVE  /\ op' \in UndoOps /\ op' \notin CommitOps /\ op' # NoOp
           /\ op'.kind = kind /\ op'.step = next /\ op'.cache = c /\ op'.error = error
  BY DEF OpNow, CommitOps, UndoOps, NoOp

\* The step that the operation takes next.
CommitAt(next, error) ==
    /\ op' \in CommitOps /\ op' \notin UndoOps /\ op' # NoOp /\ op \notin UndoOps
    /\ op'.step = next /\ op'.cache = op.cache /\ op'.error = error
UndoAt(next, error) ==
    /\ op' \in UndoOps /\ op' \notin CommitOps /\ op' # NoOp /\ op \notin CommitOps
    /\ op'.kind = op.kind /\ op'.step = next /\ op'.cache = op.cache /\ op'.error = error

LEMMA CommitGoesOn ==
    ASSUME Inv, op \in CommitOps, NEW next \in CommitSteps, NEW error \in BOOLEAN,
           OpNow(op.kind, next, op.cache, error)
    PROVE  CommitAt(next, error)
  <1>1. op.kind = "commit" /\ op.cache \in Caches /\ op \notin UndoOps
    BY DEF CommitOps, UndoOps
  <1> QED
    BY <1>1, CommitNow DEF CommitAt

LEMMA UndoGoesOn ==
    ASSUME Inv, op \in UndoOps, NEW next \in UndoSteps, NEW error \in BOOLEAN,
           OpNow(op.kind, next, op.cache, error)
    PROVE  UndoAt(next, error)
  <1>1. /\ op.kind \in {"rollback", "dispose", "drop"} /\ op.cache \in Caches
        /\ op \notin CommitOps
    BY DEF CommitOps, UndoOps
  <1> QED
    BY <1>1, UndoNow DEF UndoAt

LEMMA NoOpIsNeither == NoOp \notin CommitOps /\ NoOp \notin UndoOps
  BY DEF NoOp, CommitOps, UndoOps

LEMMA WrittenTypes ==
    ASSUME TypeOK, NEW bytes \in Caches \cup {Code}, NEW was,
           NEW write \in Writes(bytes, was)
    PROVE  /\ write.entry \in Caches \cup {Code}
           /\ write.page \in {"rx", "rw"}
           /\ write.ok \in BOOLEAN
           /\ write.entry = entry \/ write.entry = bytes
           /\ write.ok = TRUE => write.entry = bytes
  <1>1. \/ write = [entry |-> entry, page |-> page, ok |-> FALSE]
        \/ write = [entry |-> bytes, page |-> page, ok |-> TRUE]
        \/ write = [entry |-> bytes, page |-> "rw", ok |-> FALSE]
    <2>1. CASE page # was
      BY <2>1, Zenon DEF Writes
    <2>2. CASE page = was
      BY <2>2, Zenon DEF Writes
    <2> QED
      BY <2>1, <2>2
  <1>2. entry \in Caches \cup {Code} /\ page \in {"rx", "rw"}
    BY DEF TypeOK
  <1>3. CASE write = [entry |-> entry, page |-> page, ok |-> FALSE]
    BY <1>2, <1>3
  <1>4. CASE write = [entry |-> bytes, page |-> page, ok |-> TRUE]
    BY <1>2, <1>4
  <1>5. CASE write = [entry |-> bytes, page |-> "rw", ok |-> FALSE]
    BY <1>2, <1>5
  <1> QED
    BY <1>1, <1>3, <1>4, <1>5

LEMMA WrittenEntry ==
    ASSUME NEW bytes, NEW was, NEW write \in Writes(bytes, was)
    PROVE  write.entry \in {entry, bytes}
  <1>1. CASE page # was
    <2>1. write = [entry |-> entry, page |-> page, ok |-> FALSE]
      BY <1>1, Zenon DEF Writes
    <2> QED
      BY <2>1
  <1>2. CASE page = was
    BY <1>2 DEF Writes
  <1> QED
    BY <1>1, <1>2

------------------------------------------------------------------------------
(* What a step does to the commits and the caches.                         *)

LEMMA MarkNow ==
    ASSUME TypeOK, NEW c \in Caches, commit[c] # NoCommit, NEW mark \in BOOLEAN,
           commit' = [commit EXCEPT ![c].applied = mark]
    PROVE  /\ commit' \in [Caches -> {NoCommit} \cup CommitRecords]
           /\ commit'[c] \in CommitRecords
           /\ commit'[c] # NoCommit
           /\ commit'[c].applied = mark
           /\ commit'[c].state = commit[c].state
           /\ commit'[c].original = commit[c].original
           /\ commit'[c].was = commit[c].was
           /\ \A d \in Caches : d # c => commit'[d] = commit[d]
  <1>1. commit \in [Caches -> {NoCommit} \cup CommitRecords] /\ commit[c] \in CommitRecords
    BY DEF TypeOK, CommitRecords
  <1>2. PICK r \in CommitRecords : r = commit[c]
    BY <1>1
  <1>3. PICK q : q = [state |-> r.state, original |-> r.original,
                      was |-> r.was, applied |-> mark]
    OBVIOUS
  <1>4. q \in CommitRecords /\ q # NoCommit
    BY <1>3 DEF CommitRecords, NoCommit
  <1>5. [r EXCEPT !.applied = mark] = q
    BY <1>3 DEF CommitRecords
  <1>6. commit' = [commit EXCEPT ![c] = q]
    BY <1>2, <1>5, <1>1
  <1>7. commit'[c] = q /\ \A d \in Caches : d # c => commit'[d] = commit[d]
    BY <1>1, <1>6
  <1>8. commit' \in [Caches -> {NoCommit} \cup CommitRecords]
    BY <1>1, <1>4, <1>6
  <1>9. /\ q.applied = mark /\ q.state = r.state
        /\ q.original = r.original /\ q.was = r.was
    BY <1>3
  <1> QED
    BY <1>2, <1>4, <1>7, <1>8, <1>9, Zenon

LEMMA LiveNow ==
    ASSUME TypeOK, NEW c \in Caches, commit[c] # NoCommit,
           commit' = [commit EXCEPT ![c].state = "live"]
    PROVE  /\ commit' \in [Caches -> {NoCommit} \cup CommitRecords]
           /\ commit'[c] # NoCommit
           /\ commit'[c].applied = commit[c].applied
           /\ commit'[c].state = "live"
           /\ commit'[c].original = commit[c].original
           /\ commit'[c].was = commit[c].was
           /\ \A d \in Caches : d # c => commit'[d] = commit[d]
  <1>1. commit \in [Caches -> {NoCommit} \cup CommitRecords] /\ commit[c] \in CommitRecords
    BY DEF TypeOK, CommitRecords
  <1>2. PICK r \in CommitRecords : r = commit[c]
    BY <1>1
  <1>3. PICK q : q = [state |-> "live", original |-> r.original,
                      was |-> r.was, applied |-> r.applied]
    OBVIOUS
  <1>4. q \in CommitRecords /\ q # NoCommit
    BY <1>3 DEF CommitRecords, NoCommit
  <1>5. [r EXCEPT !.state = "live"] = q
    BY <1>3 DEF CommitRecords
  <1>6. commit' = [commit EXCEPT ![c] = q]
    BY <1>2, <1>5, <1>1
  <1>7. commit'[c] = q /\ \A d \in Caches : d # c => commit'[d] = commit[d]
    BY <1>1, <1>6
  <1>8. commit' \in [Caches -> {NoCommit} \cup CommitRecords]
    BY <1>1, <1>4, <1>6
  <1>9. /\ q.applied = r.applied /\ q.state = "live"
        /\ q.original = r.original /\ q.was = r.was
    BY <1>3
  <1> QED
    BY <1>2, <1>4, <1>7, <1>8, <1>9, Zenon

LEMMA CommitRecordNow ==
    ASSUME TypeOK, NEW c \in Caches, NEW r \in {NoCommit} \cup CommitRecords,
           commit' = [commit EXCEPT ![c] = r]
    PROVE  /\ commit' \in [Caches -> {NoCommit} \cup CommitRecords]
           /\ commit'[c] = r
           /\ \A d \in Caches : d # c => commit'[d] = commit[d]
  BY DEF TypeOK, CommitRecords

LEMMA CacheNow ==
    ASSUME TypeOK, NEW c \in Caches, cache[c] # NoCache,
           NEW state \in {"prepared", "owned", "freed"},
           cache' = [cache EXCEPT ![c].state = state]
    PROVE  /\ cache' \in [Caches -> {NoCache} \cup CacheRecords]
           /\ cache'[c] # NoCache
           /\ cache'[c].state = state
           /\ cache'[c].relocated = cache[c].relocated
           /\ \A d \in Caches : d # c => cache'[d] = cache[d]
  <1>1. cache \in [Caches -> {NoCache} \cup CacheRecords] /\ cache[c] \in CacheRecords
    BY DEF TypeOK, CacheRecords
  <1>2. PICK r \in CacheRecords : r = cache[c]
    BY <1>1
  <1>3. PICK q : q = [state |-> state, relocated |-> r.relocated]
    OBVIOUS
  <1>4. q \in CacheRecords /\ q # NoCache
    BY <1>3 DEF CacheRecords, NoCache
  <1>5. [r EXCEPT !.state = state] = q
    BY <1>3 DEF CacheRecords
  <1>6. cache' = [cache EXCEPT ![c] = q]
    BY <1>2, <1>5, <1>1
  <1> QED
    BY <1>1, <1>2, <1>3, <1>4, <1>6

------------------------------------------------------------------------------
(* The stack of branches.                                                  *)

\* A step that writes nothing at the entry, and leaves the commits that are
\* applied alone.
LEMMA StackStays ==
    ASSUME StackInv, entry' = entry,
           failed' = FALSE => failed = FALSE,
           crossed' = FALSE => crossed = FALSE,
           \A c \in Caches : commit[c] # NoCommit /\ commit[c].applied = TRUE
               => /\ commit'[c] # NoCommit /\ commit'[c].applied = TRUE
                  /\ commit'[c].original = commit[c].original
    PROVE  StackInv'
  <1> SUFFICES ASSUME failed' = FALSE, crossed' = FALSE
               PROVE  \E n \in Nat : \E s \in [1 .. n -> Caches] : Stack(n, s)'
    BY DEF StackInv
  <1>0. PICK n \in Nat : \E s \in [1 .. n -> Caches] : Stack(n, s)
    BY DEF StackInv
  <1>1. PICK s \in [1 .. n -> Caches] : Stack(n, s)
    BY <1>0
  <1>2. \A i \in 1 .. n : Stacked(s[i], Below(s, i))'
    BY <1>1 DEF Stack, Stacked, Below
  <1>3. Stack(n, s)'
    BY <1>1, <1>2 DEF Stack, Below
  <1> QED
    BY <1>3

\* A commit that writes its branch goes on top.
LEMMA StackGrows ==
    ASSUME StackInv, NEW c \in Caches,
           failed' = FALSE => failed = FALSE,
           crossed' = FALSE => crossed = FALSE,
           entry' = c,
           commit[c] = NoCommit \/ commit[c].applied = FALSE,
           commit'[c] # NoCommit, commit'[c].applied = TRUE, commit'[c].original = entry,
           \A d \in Caches : d # c => commit'[d] = commit[d]
    PROVE  StackInv'
  <1> SUFFICES ASSUME failed' = FALSE, crossed' = FALSE
               PROVE  \E n \in Nat : \E s \in [1 .. n -> Caches] : Stack(n, s)'
    BY DEF StackInv
  <1>0. PICK n \in Nat : \E s \in [1 .. n -> Caches] : Stack(n, s)
    BY DEF StackInv
  <1>1. PICK s \in [1 .. n -> Caches] : Stack(n, s)
    BY <1>0
  <1> DEFINE u == [i \in 1 .. n + 1 |-> IF i = n + 1 THEN c ELSE s[i]]
  <1>2. u \in [1 .. n + 1 -> Caches] /\ n + 1 \in Nat
    OBVIOUS
  <1>3. \A i \in 1 .. n : s[i] # c /\ u[i] = s[i]
    BY <1>1 DEF Stack, Stacked
  <1>4. \A i \in 1 .. n : Below(u, i) = Below(s, i)
    BY <1>3 DEF Below
  <1>5. \A i \in 1 .. n : Stacked(u[i], Below(u, i))'
    BY <1>1, <1>3, <1>4 DEF Stack, Stacked
  <1>6. u[n + 1] = c /\ Below(u, n + 1) = entry /\ Below(u, n + 1 + 1) = c
    BY <1>1, <1>3 DEF Stack, Below
  <1>7. \A i \in 1 .. n + 1 : Stacked(u[i], Below(u, i))'
    BY <1>5, <1>6 DEF Stacked
  <1>8. \A i, j \in 1 .. n + 1 : u[i] = u[j] => i = j
    <2> HIDE DEF u
    <2> SUFFICES ASSUME NEW i \in 1 .. n + 1, NEW j \in 1 .. n + 1, u[i] = u[j]
                 PROVE  i = j
      OBVIOUS
    <2>1. CASE i \in 1 .. n /\ j \in 1 .. n
      BY <1>1, <1>3, <2>1 DEF Stack
    <2>2. CASE i = n + 1 \/ j = n + 1
      BY <1>3, <1>6, <2>2
    <2> QED
      BY <2>1, <2>2
  <1>9. Stack(n + 1, u)'
    BY <1>6, <1>7, <1>8 DEF Stack
  <1> QED
    BY <1>2, <1>9

\* A commit that is undone was on top, or not on the stack at all; and if it
\* could not be undone it is where it was, or its branch is gone all the same.
LEMMA StackShrinks ==
    ASSUME StackInv, NEW c \in Caches, commit[c] # NoCommit,
           failed' = FALSE => failed = FALSE,
           crossed' = FALSE => crossed = FALSE,
           crossed' = FALSE => entry = c \/ entry' = entry,
           entry' = commit[c].original,
           \A d \in Caches : d # c => commit'[d] = commit[d]
    PROVE  StackInv'
  <1> SUFFICES ASSUME failed' = FALSE, crossed' = FALSE
               PROVE  \E n \in Nat : \E s \in [1 .. n -> Caches] : Stack(n, s)'
    BY DEF StackInv
  <1>0. PICK n \in Nat : \E s \in [1 .. n -> Caches] : Stack(n, s)
    BY DEF StackInv
  <1>1. PICK s \in [1 .. n -> Caches] : Stack(n, s)
    BY <1>0
  <1>2. CASE \E i \in 1 .. n : s[i] = c
    <2>1. PICK i \in 1 .. n : s[i] = c
      BY <1>2
    <2>2. commit[c].original = Below(s, i)
      BY <1>1, <2>1 DEF Stack, Stacked
    <2>3. i = n
      <3>1. CASE entry = c
        BY <1>1, <2>1, <3>1, RewriteConstants DEF Stack, Below
      <3>2. CASE entry' = entry
        <4>1. Below(s, n + 1) = Below(s, i)
          BY <1>1, <2>2, <3>2 DEF Stack
        <4>2. n # 0 /\ i + 1 # 1 /\ Below(s, n + 1) = s[n]
          BY <2>1 DEF Below
        <4>3. i # 1
          BY <4>1, <4>2, RewriteConstants DEF Below
        <4>4. s[n] = s[i - 1] /\ i - 1 \in 1 .. n
          BY <4>1, <4>2, <4>3 DEF Below
        <4>5. n = i - 1
          BY <1>1, <4>2, <4>4 DEF Stack
        <4> QED
          BY <4>5
      <3> QED
        BY <3>1, <3>2
    <2> DEFINE u == [k \in 1 .. n - 1 |-> s[k]]
    <2>4. u \in [1 .. n - 1 -> Caches] /\ n - 1 \in Nat
      OBVIOUS
    <2>5. \A k \in 1 .. n - 1 : u[k] = s[k] /\ Below(u, k) = Below(s, k) /\ s[k] # c
      BY <1>1, <2>1, <2>3 DEF Stack, Below
    <2>6. Below(u, n - 1 + 1) = commit[c].original
      BY <2>2, <2>3 DEF Below
    <2>7. \A k \in 1 .. n - 1 : Stacked(u[k], Below(u, k))'
      <3> SUFFICES ASSUME NEW k \in 1 .. n - 1 PROVE Stacked(u[k], Below(u, k))'
        OBVIOUS
      <3> HIDE DEF u
      <3>1. k \in 1 .. n /\ s[k] \in Caches
        OBVIOUS
      <3>2. Stacked(s[k], Below(s, k))
        BY <1>1, <3>1 DEF Stack
      <3>3. commit'[s[k]] = commit[s[k]]
        BY <2>5, <3>1
      <3> QED
        BY <2>5, <3>2, <3>3 DEF Stacked
    <2>8. \A k, j \in 1 .. n - 1 : u[k] = u[j] => k = j
      BY <1>1, <2>5 DEF Stack
    <2>9. Stack(n - 1, u)'
      BY <2>6, <2>7, <2>8 DEF Stack
    <2> QED
      BY <2>4, <2>9
  <1>3. CASE \A i \in 1 .. n : s[i] # c
    <2>1. entry' = entry
      BY <1>1, <1>3, RewriteConstants DEF Stack, Below
    <2>2. \A i \in 1 .. n : Stacked(s[i], Below(s, i))'
      BY <1>1, <1>3 DEF Stack, Stacked
    <2>3. Stack(n, s)'
      BY <1>1, <2>1, <2>2 DEF Stack
    <2> QED
      BY <2>3
  <1> QED
    BY <1>2, <1>3

------------------------------------------------------------------------------
(* Steps that only move the operation on.                                  *)

\* What such a step has to show: that the commit of the operation's cache is
\* what the next step expects, and that nobody is left suspended.
LEMMA OnlyOp ==
    ASSUME Inv, UNCHANGED <<cache, commit, entry, page, at, heap, failed, crossed>>,
           suspended' \in BOOLEAN,
           op' \in {NoOp} \cup CommitOps \cup UndoOps,
           SuspendInv', OpInv',
           op \in CommitOps => \/ op' \in CommitOps /\ op'.cache = op.cache
                               \/ commit[op.cache].state # "preparing",
           op \in UndoOps => op.step # "dropPatch"
    PROVE  Inv'
  <1>1. TypeOK'
    BY DEF Inv, TypeOK, CommitOps, UndoOps
  <1>2. OwnerInv'
    <2> SUFFICES ASSUME NEW c \in Caches
                 PROVE  /\ commit[c].state = "preparing" => op' \in CommitOps /\ op'.cache = c
                        /\ commit[c].state = "live" => cache[c].state = "owned"
                        /\ commit[c] # NoCommit => commit[c].original = cache[c].relocated
                        /\ commit[c] # NoCommit => cache[c] # NoCache
      BY DEF OwnerInv
    <2> QED
      BY DEF Inv, OwnerInv
  <1>3. StackInv'
    BY StackStays DEF Inv
  <1> QED
    BY <1>1, <1>2, <1>3 DEF Inv

LEMMA CommitKeeps ==
    ASSUME Inv, NEW c \in Caches, Commit(c)
    PROVE  Inv'
  <1> USE DEF Commit
  <1>1. OpNow("commit", "suspend", c, FALSE)
    BY DEF Begin, OpNow
  <1>2. /\ op' \in CommitOps /\ op' \notin UndoOps /\ op' # NoOp
        /\ op'.step = "suspend" /\ op'.cache = c /\ op'.error = FALSE
    BY <1>1, CommitNow DEF CommitSteps
  <1>3. op \notin CommitOps /\ op \notin UndoOps
    BY NoOpIsNeither
  <1>4. commit[c] = NoCommit
    BY <1>3 DEF Inv, OwnerInv, TypeOK
  <1>5. SuspendInv'
    BY <1>3 DEF Inv, SuspendInv
  <1>6. OpInv'
    BY <1>2, <1>4 DEF OpInv
  <1> QED
    BY <1>2, <1>3, <1>5, <1>6, OnlyOp DEF Inv, TypeOK

LEMMA UndoKeeps ==
    ASSUME Inv, NEW c \in Caches, NEW kind \in {"rollback", "dispose", "drop"}, Undo(kind, c)
    PROVE  Inv'
  <1> USE DEF Undo
  <1>1. PICK step \in {"suspend", "end"} : OpNow(kind, step, c, FALSE)
    BY DEF Begin, OpNow
  <1>2. /\ op' \in UndoOps /\ op' \notin CommitOps /\ op' # NoOp
        /\ op'.step = step /\ op'.cache = c
    BY <1>1, UndoNow DEF UndoSteps
  <1>3. op \notin CommitOps /\ op \notin UndoOps
    BY NoOpIsNeither
  <1>4. SuspendInv'
    BY <1>3 DEF Inv, SuspendInv
  <1>5. OpInv'
    BY <1>2 DEF OpInv
  <1> QED
    BY <1>2, <1>3, <1>4, <1>5, OnlyOp DEF Inv, TypeOK

LEMMA SuspendKeeps ==
    ASSUME Inv, Suspend
    PROVE  Inv'
  <1> USE DEF Suspend
  <1>1. op # NoOp /\ op.cache \in Caches /\ op.error \in BOOLEAN
    BY OpTypes DEF Inv, NoOp
  <1>2. suspended = FALSE
    BY DEF Inv, TypeOK, SuspendInv, Holding
  <1>3. PICK next \in {"quiesce", "end"}, error \in BOOLEAN :
          /\ OpNow(op.kind, next, op.cache, error)
          /\ suspended' \in BOOLEAN
          /\ suspended' => next = "quiesce"
          /\ next = "end" => error
    <2>1. CASE GoOn("quiesce") /\ suspended' = TRUE
      BY <1>1, <2>1, GoesOn DEF Inv
    <2>2. CASE op' = [op EXCEPT !.step = "end", !.error = TRUE] /\ UNCHANGED suspended
      <3>1. OpNow(op.kind, "end", op.cache, TRUE)
        BY <1>1, <2>2, GoesOnWith DEF Inv
      <3> QED
        BY <1>2, <2>2, <3>1
    <2> QED
      BY <2>1, <2>2
  <1>4. CASE op \in CommitOps
    <2>1. CommitAt(next, error)
      BY <1>3, <1>4, CommitGoesOn DEF CommitSteps
    <2>2. SuspendInv'
      BY <1>3, <2>1 DEF SuspendInv, Holding, CommitAt
    <2>3. OpInv'
      BY <1>3, <1>4, <2>1 DEF OpInv, Inv, CommitAt
    <2> QED
      BY <1>3, <2>1, <2>2, <2>3, OnlyOp DEF CommitAt
  <1>5. CASE op \in UndoOps
    <2>1. UndoAt(next, error)
      BY <1>3, <1>5, UndoGoesOn DEF UndoSteps
    <2>2. SuspendInv'
      BY <1>3, <2>1 DEF SuspendInv, Holding, UndoAt
    <2>3. OpInv'
      BY <1>5, <2>1 DEF OpInv, Inv, UndoAt
    <2> QED
      BY <1>3, <2>1, <2>2, <2>3, OnlyOp DEF UndoAt
  <1> QED
    BY <1>1, <1>4, <1>5, OpTypes DEF Inv

LEMMA QuiesceKeeps ==
    ASSUME Inv, Quiesce
    PROVE  Inv'
  <1> USE DEF Quiesce
  <1>1. op # NoOp /\ op.cache \in Caches /\ op.error \in BOOLEAN
    BY OpTypes DEF Inv, NoOp
  <1>2. CASE op \in CommitOps
    <2>1. PICK next \in {"verify", "resume"}, error \in BOOLEAN :
            CommitAt(next, error) /\ (next = "resume" => error)
      <3>1. CASE InFlight = {}
        BY <1>1, <1>2, <3>1, GoesOn, CommitGoesOn, OpTypes DEF Inv, CommitSteps
      <3>2. CASE InFlight # {}
        <4>1. OpNow(op.kind, "resume", op.cache, TRUE)
          BY <1>1, <3>2, GoesOnWith DEF Inv
        <4> QED
          BY <1>2, <4>1, CommitGoesOn DEF CommitSteps
      <3> QED
        BY <3>1, <3>2
    <2>2. SuspendInv'
      BY <2>1 DEF SuspendInv, Holding, CommitAt
    <2>3. OpInv'
      BY <1>2, <2>1 DEF OpInv, Inv, CommitAt
    <2> QED
      BY <2>1, <2>2, <2>3, OnlyOp DEF CommitAt, Inv, TypeOK
  <1>3. CASE op \in UndoOps
    <2>1. PICK next \in {"restore", "resume"}, error \in BOOLEAN : UndoAt(next, error)
      <3>1. CASE InFlight = {}
        BY <1>1, <1>3, <3>1, GoesOn, UndoGoesOn, OpTypes DEF Inv, UndoSteps
      <3>2. CASE InFlight # {}
        <4>1. OpNow(op.kind, "resume", op.cache, TRUE)
          BY <1>1, <3>2, GoesOnWith DEF Inv
        <4> QED
          BY <1>3, <4>1, UndoGoesOn DEF UndoSteps
      <3> QED
        BY <3>1, <3>2
    <2>2. SuspendInv'
      BY <2>1 DEF SuspendInv, Holding, UndoAt
    <2>3. OpInv'
      BY <1>3, <2>1 DEF OpInv, Inv, UndoAt
    <2> QED
      BY <2>1, <2>2, <2>3, OnlyOp DEF UndoAt, Inv, TypeOK
  <1> QED
    BY <1>1, <1>2, <1>3, OpTypes DEF Inv

LEMMA ResumeKeeps ==
    ASSUME Inv, Resume
    PROVE  Inv'
  <1> USE DEF Resume
  <1>1. op # NoOp /\ op.cache \in Caches /\ op.error \in BOOLEAN
    BY OpTypes DEF Inv, NoOp
  <1>2. CASE op \in CommitOps
    <2>1. PICK next \in {"end", "undo"}, error \in BOOLEAN :
            /\ CommitAt(next, error)
            /\ suspended' \in BOOLEAN
            /\ next = "end" => suspended' = FALSE /\ error = op.error
            /\ next = "undo" => op.error = FALSE /\ error = TRUE
      <3>1. CASE suspended' = FALSE /\ GoOn("end")
        <4>1. OpNow(op.kind, "end", op.cache, op.error)
          BY <1>1, <3>1, GoesOn DEF Inv
        <4> QED
          BY <1>1, <1>2, <3>1, <4>1, CommitGoesOn DEF CommitSteps
      <3>2. CASE ~op.error /\ op' = [op EXCEPT !.error = TRUE, !.step = "undo"]
                 /\ UNCHANGED suspended
        <4>1. OpNow(op.kind, "undo", op.cache, TRUE)
          BY <1>1, <3>2, ErrsGoingOn DEF Inv
        <4> QED
          BY <1>1, <1>2, <3>2, <4>1, CommitGoesOn DEF CommitSteps, Inv, TypeOK
      <3> QED
        BY <1>2, <3>1, <3>2, OpTypes DEF Inv
    <2>2. SuspendInv'
      BY <2>1 DEF SuspendInv, Holding, CommitAt
    <2>3. OpInv'
      BY <1>2, <2>1 DEF OpInv, Inv, CommitAt
    <2> QED
      BY <2>1, <2>2, <2>3, OnlyOp DEF CommitAt
  <1>3. CASE op \in UndoOps
    <2>1. PICK next \in {"end", "resume"}, error \in BOOLEAN :
            /\ UndoAt(next, error)
            /\ suspended' \in BOOLEAN
            /\ next = "end" => suspended' = FALSE
      <3>1. CASE suspended' = FALSE /\ GoOn("end")
        <4>1. OpNow(op.kind, "end", op.cache, op.error)
          BY <1>1, <3>1, GoesOn DEF Inv
        <4> QED
          BY <1>1, <1>3, <3>1, <4>1, UndoGoesOn DEF UndoSteps
      <3>2. CASE op' = [op EXCEPT !.error = TRUE, !.step = "resume"] /\ UNCHANGED suspended
        <4>1. OpNow(op.kind, "resume", op.cache, TRUE)
          BY <1>1, <3>2, ErrsGoingOn DEF Inv
        <4> QED
          BY <1>1, <1>3, <3>2, <4>1, UndoGoesOn DEF UndoSteps, Inv, TypeOK
      <3> QED
        BY <1>3, <3>1, <3>2, OpTypes DEF Inv
    <2>2. SuspendInv'
      BY <2>1 DEF SuspendInv, Holding, UndoAt
    <2>3. OpInv'
      BY <1>3, <2>1 DEF OpInv, Inv, UndoAt
    <2> QED
      BY <2>1, <2>2, <2>3, OnlyOp DEF UndoAt
  <1> QED
    BY <1>1, <1>2, <1>3, OpTypes DEF Inv

LEMMA ResumeAgainKeeps ==
    ASSUME Inv, ResumeAgain
    PROVE  Inv'
  <1> USE DEF ResumeAgain
  <1>1. op \in CommitOps /\ op \notin UndoOps /\ op # NoOp
    BY OpTypes DEF Inv, NoOp, UndoSteps
  <1>2. CommitAt("dropPatch", op.error)
    BY <1>1, GoesOn, CommitGoesOn, OpTypes DEF CommitSteps, Inv
  <1>3. SuspendInv'
    BY <1>2 DEF SuspendInv, Holding, CommitAt
  <1>4. OpInv'
    BY <1>1, <1>2 DEF OpInv, Inv, CommitAt
  <1>5. suspended' \in BOOLEAN
    BY DEF Inv, TypeOK
  <1> QED
    BY <1>1, <1>2, <1>3, <1>4, <1>5, OnlyOp DEF CommitAt

LEMMA KeepCommitKeeps ==
    ASSUME Inv, KeepCommit
    PROVE  Inv'
  <1> USE DEF KeepCommit
  <1>1. op \in UndoOps /\ op \notin CommitOps
    BY OpTypes DEF Inv
  <1>2. SuspendInv'
    BY DEF Inv, SuspendInv, Holding
  <1>3. OpInv'
    BY NoOpIsNeither DEF OpInv
  <1> QED
    BY <1>1, <1>2, <1>3, OnlyOp DEF Inv, TypeOK

------------------------------------------------------------------------------
(* Steps of the target's threads.                                          *)

LEMMA MovesKeep ==
    ASSUME Inv, NEW t \in Threads, NEW place,
           place \in {"out", "counting", "callback", "gone", "lost"} \cup Caches,
           MoveTo(t, place)
    PROVE  Inv'
  <1> USE DEF MoveTo
  <1>1. TypeOK'
    BY DEF Inv, TypeOK
  <1>2. SuspendInv' /\ OpInv' /\ OwnerInv'
    BY DEF Inv, SuspendInv, OpInv, OwnerInv
  <1>3. StackInv'
    BY StackStays DEF Inv
  <1> QED
    BY <1>1, <1>2, <1>3 DEF Inv

LEMMA ThreadKeeps ==
    ASSUME Inv, NEW t \in Threads, ThreadStep(t)
    PROVE  Inv'
  <1>1. \A c \in Caches : Into(c) \in {"lost"} \cup Caches
    BY DEF Into
  <1>2. CASE CallFunction(t)
    BY <1>1, <1>2, MovesKeep DEF CallFunction
  <1>3. CASE RunCache(t)
    <2>1. Mapped(at[t]) => cache[at[t]].relocated \in Caches \cup {Code}
      BY <1>3 DEF RunCache, Mapped, Inv, TypeOK, NoCache
    <2> QED
      BY <1>1, <1>3, <2>1, MovesKeep DEF RunCache
  <1>4. CASE EnterHook(t) \/ Counted(t) \/ LeaveHook(t)
    BY <1>4, MovesKeep DEF EnterHook, Counted, LeaveHook
  <1>5. CASE Allocate(t) \/ Allocated(t)
    <2> USE <1>5 DEF Allocate, Allocated
    <2>1. TypeOK'
      BY DEF Inv, TypeOK
    <2>2. SuspendInv' /\ OpInv' /\ OwnerInv'
      BY DEF Inv, SuspendInv, OpInv, OwnerInv
    <2>3. StackInv'
      BY StackStays DEF Inv
    <2> QED
      BY <2>1, <2>2, <2>3 DEF Inv
  <1> QED
    BY <1>2, <1>3, <1>4, <1>5 DEF ThreadStep

LEMMA ExitKeeps ==
    ASSUME Inv, Exit
    PROVE  Inv'
  BY MovesKeep DEF Exit, Threads

------------------------------------------------------------------------------
(* Steps that change a cache or a commit.                                  *)

LEMMA PrepareKeeps ==
    ASSUME Inv, NEW c \in Caches, Prepare(c)
    PROVE  Inv'
  <1> USE DEF Prepare
  <1>1. PICK r \in CacheRecords : cache' = [cache EXCEPT ![c] = r]
    <2>1. PICK read \in {Code, entry} :
            cache' = [cache EXCEPT ![c] = [state |-> "prepared", relocated |-> read]]
      OBVIOUS
    <2>2. [state |-> "prepared", relocated |-> read] \in CacheRecords
      BY DEF CacheRecords, Inv, TypeOK
    <2> QED
      BY <2>1, <2>2
  <1>2. /\ cache' \in [Caches -> {NoCache} \cup CacheRecords]
        /\ \A d \in Caches : d # c => cache'[d] = cache[d]
    BY <1>1 DEF Inv, TypeOK, CacheRecords
  <1>3. TypeOK'
    BY <1>2 DEF Inv, TypeOK, CacheRecords
  <1>4. op \notin CommitOps /\ op \notin UndoOps
    BY NoOpIsNeither
  <1>5. SuspendInv' /\ OpInv'
    BY <1>4 DEF Inv, SuspendInv, OpInv
  <1>6. commit[c] = NoCommit
    BY DEF Inv, OwnerInv
  <1>7. OwnerInv'
    BY <1>2, <1>4, <1>6 DEF Inv, OwnerInv, NoCommit
  <1>8. StackInv'
    BY StackStays DEF Inv
  <1> QED
    BY <1>3, <1>5, <1>7, <1>8 DEF Inv

LEMMA DisposeCacheKeeps ==
    ASSUME Inv, NEW c \in Caches, DisposeCache(c)
    PROVE  Inv'
  <1> USE DEF DisposeCache
  <1>1. cache[c] # NoCache
    BY DEF NoCache
  <1>2. /\ cache' \in [Caches -> {NoCache} \cup CacheRecords]
        /\ \A d \in Caches : d # c => cache'[d] = cache[d]
    BY <1>1, CacheNow DEF Inv
  <1>3. TypeOK'
    BY <1>2 DEF Inv, TypeOK, CacheRecords
  <1>4. op \notin CommitOps /\ op \notin UndoOps
    BY NoOpIsNeither
  <1>5. SuspendInv' /\ OpInv'
    BY <1>4 DEF Inv, SuspendInv, OpInv
  <1>6. commit[c] = NoCommit
    BY <1>4 DEF Inv, OwnerInv, TypeOK
  <1>7. OwnerInv'
    BY <1>2, <1>4, <1>6 DEF Inv, OwnerInv, NoCommit
  <1>8. StackInv'
    BY StackStays DEF Inv
  <1> QED
    BY <1>3, <1>5, <1>7, <1>8 DEF Inv

LEMMA VerifyKeeps ==
    ASSUME Inv, Verify
    PROVE  Inv'
  <1> DEFINE c == op.cache
  <1>1. op \in CommitOps /\ op \notin UndoOps /\ op # NoOp /\ c \in Caches
    BY OpTypes DEF Verify, Inv, NoOp, UndoSteps
  <1>2. commit[c] = NoCommit /\ cache[c].state = "prepared"
    BY <1>1 DEF Verify, Inv, OpInv
  <1>3. CASE entry = cache[c].relocated
    <2> DEFINE r == [state |-> "preparing", original |-> entry, was |-> page, applied |-> FALSE]
    <2>1. r \in CommitRecords /\ r # NoCommit /\ r.state = "preparing"
          /\ r.original = entry /\ r.applied = FALSE
      BY DEF CommitRecords, NoCommit, Inv, TypeOK
    <2> HIDE DEF r
    <2>2. commit' = [commit EXCEPT ![c] = r] /\ GoOn("apply")
      BY <1>3 DEF Verify, r
    <2>3. /\ commit' \in [Caches -> {NoCommit} \cup CommitRecords]
          /\ commit'[c] = r
          /\ \A d \in Caches : d # c => commit'[d] = commit[d]
      BY <1>1, <2>1, <2>2, CommitRecordNow DEF Inv
    <2>4. CommitAt("apply", op.error)
      BY <1>1, <2>2, GoesOn, CommitGoesOn, OpTypes DEF CommitSteps, Inv
    <2>5. UNCHANGED <<cache, entry, page, at, heap, suspended, failed, crossed>>
      BY <1>3 DEF Verify
    <2>6. TypeOK'
      BY <2>3, <2>4, <2>5 DEF Inv, TypeOK, CommitRecords, CommitAt, CommitOps
    <2>7. SuspendInv'
      BY <2>4 DEF SuspendInv, Holding, CommitAt
    <2>8. OpInv'
      BY <1>1, <1>2, <2>1, <2>3, <2>4, <2>5 DEF OpInv, CommitAt
    <2>9. OwnerInv'
      <3> SUFFICES ASSUME NEW d \in Caches
                   PROVE  /\ commit'[d].state = "preparing" => op' \in CommitOps /\ op'.cache = d
                          /\ commit'[d].state = "live" => cache[d].state = "owned"
                          /\ commit'[d] # NoCommit => commit'[d].original = cache[d].relocated
                          /\ commit'[d] # NoCommit => cache[d] # NoCache
        BY <2>5 DEF OwnerInv
      <3>1. CASE d = c
        BY <1>2, <1>3, <2>1, <2>3, <2>4, <3>1 DEF CommitAt, NoCache
      <3>2. CASE d # c
        BY <1>1, <2>3, <3>2 DEF Inv, OwnerInv
      <3> QED
        BY <3>1, <3>2
    <2>10. StackInv'
      BY <1>2, <2>3, <2>5, StackStays DEF Inv
    <2> QED
      BY <2>6, <2>7, <2>8, <2>9, <2>10 DEF Inv
  <1>4. CASE entry # cache[c].relocated
    <2>1. /\ op' = [op EXCEPT !.step = "resume", !.error = TRUE]
          /\ UNCHANGED <<cache, commit, entry, page, at, heap, suspended, failed, crossed>>
      BY <1>4 DEF Verify
    <2>2. OpNow(op.kind, "resume", op.cache, TRUE)
      BY <1>1, <2>1, GoesOnWith DEF Inv
    <2>3. CommitAt("resume", TRUE)
      BY <1>1, <2>2, CommitGoesOn DEF CommitSteps
    <2>4. SuspendInv'
      BY <2>3 DEF SuspendInv, Holding, CommitAt
    <2>5. OpInv'
      BY <1>1, <1>2, <2>1, <2>3 DEF OpInv, CommitAt
    <2> QED
      BY <1>1, <2>1, <2>3, <2>4, <2>5, OnlyOp DEF CommitAt, Inv, TypeOK
  <1> QED
    BY <1>3, <1>4

\* A patch that is undone, or could not be: the branch is gone if it was
\* written over, and the commit is applied for as long as that may not be so.
LEMMA RollsBack ==
    ASSUME Inv, op \in CommitOps \cup UndoOps, NEW c, c = op.cache,
           commit[c] # NoCommit, RollBack(c)
    PROVE  /\ entry' \in Caches \cup {Code} /\ page' \in {"rx", "rw"}
           /\ crossed' \in BOOLEAN
           /\ commit' \in [Caches -> {NoCommit} \cup CommitRecords]
           /\ commit'[c] # NoCommit
           /\ commit'[c].applied \in BOOLEAN
           /\ commit'[c].state = commit[c].state
           /\ commit'[c].original = commit[c].original
           /\ \A d \in Caches : d # c => commit'[d] = commit[d]
           /\ failed' = failed => StackInv'
  <1>1. c \in Caches
    BY OpTypes DEF Inv, CommitOps, UndoOps
  <1>2. PICK write \in Writes(commit[c].original, commit[c].was) :
          /\ Written(write)
          /\ commit' = [commit EXCEPT ![c].applied = ~write.ok]
          /\ crossed' = (crossed \/ Crosses(c, write))
    BY DEF RollBack
  <1>3. commit[c].original \in Caches \cup {Code} /\ crossed \in BOOLEAN
    BY <1>1 DEF Inv, TypeOK, NoCommit
  <1>4. /\ write.entry \in Caches \cup {Code}
        /\ write.page \in {"rx", "rw"}
        /\ write.entry = entry \/ write.entry = commit[c].original
        /\ write.ok = TRUE => write.entry = commit[c].original
        /\ write.ok \in BOOLEAN
    BY <1>3, WrittenTypes DEF Inv
  <1>5. PICK mark \in BOOLEAN : mark = ~write.ok
    OBVIOUS
  <1>6. commit' = [commit EXCEPT ![c].applied = mark]
    BY <1>2, <1>5
  <1>7. /\ commit' \in [Caches -> {NoCommit} \cup CommitRecords]
        /\ commit'[c] # NoCommit
        /\ commit'[c].applied = mark
        /\ commit'[c].state = commit[c].state
        /\ commit'[c].original = commit[c].original
        /\ \A d \in Caches : d # c => commit'[d] = commit[d]
    BY <1>1, <1>6, MarkNow DEF Inv
  <1>8. entry' = write.entry /\ page' = write.page
    BY <1>2 DEF Written
  <1>9. crossed' = FALSE => crossed = FALSE /\ (entry = c \/ entry' = entry)
    BY <1>2, <1>3, <1>8 DEF Crosses
  <1>10. ASSUME failed' = failed
         PROVE  StackInv'
    <2>1. CASE entry' = commit[c].original
      BY <1>1, <1>7, <1>9, <1>10, <2>1, StackShrinks DEF Inv
    <2>2. CASE entry' # commit[c].original
      <3>1. entry' = entry /\ mark = TRUE
        BY <1>4, <1>5, <1>8, <2>2
      <3> QED
        BY <1>7, <1>9, <1>10, <3>1, StackStays DEF Inv
    <2> QED
      BY <2>1, <2>2
  <1> QED
    BY <1>3, <1>4, <1>2, <1>5, <1>7, <1>8, <1>10

LEMMA ApplyKeeps ==
    ASSUME Inv, Apply
    PROVE  Inv'
  <1> DEFINE c == op.cache
  <1>1. op \in CommitOps /\ op \notin UndoOps /\ op # NoOp /\ c \in Caches
    BY OpTypes DEF Apply, Inv, NoOp, UndoSteps
  <1>2. /\ commit[c] # NoCommit /\ commit[c].state = "preparing"
        /\ commit[c].original = entry /\ commit[c].applied = FALSE
    BY <1>1 DEF Apply, Inv, OpInv, NoCommit
  <1>3. PICK write \in Writes(c, commit[c].was) :
          /\ Written(write)
          /\ op' = [op EXCEPT !.step = IF write.ok THEN "resume" ELSE "dropPatch",
                              !.error = ~write.ok]
    BY DEF Apply
  <1>4. /\ write.entry \in Caches \cup {Code} /\ write.page \in {"rx", "rw"}
        /\ write.ok \in BOOLEAN
        /\ write.entry = entry \/ write.entry = c
    <2>1. TypeOK
      BY DEF Inv
    <2>2. c \in Caches \cup {Code}
      BY <1>1
    <2>3. write.entry \in Caches \cup {Code}
      BY <2>1, <2>2, WrittenTypes
    <2>4. write.page \in {"rx", "rw"}
      BY <2>1, <2>2, WrittenTypes
    <2>5. write.ok \in BOOLEAN
      BY <2>1, <2>2, WrittenTypes
    <2>6. write.entry \in {entry, c}
      BY WrittenEntry
    <2> QED
      BY <2>3, <2>4, <2>5, <2>6
  <1>5. entry' = write.entry /\ page' = write.page
    BY <1>3 DEF Written
  <1>6. /\ commit' = [commit EXCEPT ![c].applied = TRUE]
        /\ UNCHANGED <<cache, at, heap, suspended, failed, crossed>>
    BY DEF Apply
  <1>7. /\ commit' \in [Caches -> {NoCommit} \cup CommitRecords]
        /\ commit'[c] # NoCommit
        /\ commit'[c].applied = TRUE
        /\ commit'[c].state = "preparing"
        /\ commit'[c].original = entry
        /\ \A d \in Caches : d # c => commit'[d] = commit[d]
    BY <1>1, <1>2, <1>6, MarkNow DEF Inv
  <1>8. PICK next \in {"resume", "dropPatch"}, error \in BOOLEAN :
          CommitAt(next, error) /\ (next = "resume" => error = FALSE)
                                /\ (next = "dropPatch" => error = TRUE)
    <2>1. CASE write.ok = TRUE
      <3>1. op' = [op EXCEPT !.step = "resume", !.error = FALSE]
        BY <1>3, <2>1, Zenon
      <3>2. OpNow(op.kind, "resume", op.cache, FALSE)
        BY <1>1, <3>1, GoesOnWith DEF Inv
      <3> QED
        BY <1>1, <3>2, CommitGoesOn DEF CommitSteps
    <2>2. CASE write.ok = FALSE
      <3>1. op' = [op EXCEPT !.step = "dropPatch", !.error = TRUE]
        BY <1>3, <2>2, Zenon
      <3>2. OpNow(op.kind, "dropPatch", op.cache, TRUE)
        BY <1>1, <3>1, GoesOnWith DEF Inv
      <3> QED
        BY <1>1, <3>2, CommitGoesOn DEF CommitSteps
    <2> QED
      BY <1>4, <2>1, <2>2
  <1>9. TypeOK'
    BY <1>4, <1>5, <1>6, <1>7, <1>8 DEF Inv, TypeOK, CommitRecords, CommitAt, CommitOps
  <1>10. SuspendInv'
    BY <1>8 DEF SuspendInv, Holding, CommitAt
  <1>11. OpInv'
    BY <1>1, <1>6, <1>7, <1>8 DEF OpInv, Inv, CommitAt
  <1>12. OwnerInv'
    BY <1>1, <1>2, <1>6, <1>7, <1>8 DEF OwnerInv, Inv, CommitAt
  <1>13. StackInv'
    <2>1. CASE entry' = c
      BY <1>1, <1>2, <1>6, <1>7, <2>1, StackGrows DEF Inv
    <2>2. CASE entry' = entry
      BY <1>2, <1>6, <1>7, <2>2, StackStays DEF Inv
    <2> QED
      BY <1>4, <1>5, <2>1, <2>2
  <1> QED
    BY <1>9, <1>10, <1>11, <1>12, <1>13 DEF Inv

LEMMA RestoreKeeps ==
    ASSUME Inv, Restore
    PROVE  Inv'
  <1> DEFINE c == op.cache
  <1>1. op \in UndoOps /\ op \notin CommitOps /\ op # NoOp /\ c \in Caches
    BY OpTypes DEF Restore, Inv, NoOp, CommitSteps
  <1>2. commit[c] # NoCommit /\ commit[c].state = "live"
    BY <1>1 DEF Inv, OpInv, NoCommit
  <1>3. UNCHANGED <<cache, at, heap, suspended, failed>>
    BY DEF Restore
  <1>4. /\ entry' \in Caches \cup {Code} /\ page' \in {"rx", "rw"}
        /\ crossed' \in BOOLEAN
        /\ commit' \in [Caches -> {NoCommit} \cup CommitRecords]
        /\ commit'[c] # NoCommit
        /\ commit'[c].applied \in BOOLEAN
        /\ commit'[c].state = "live"
        /\ commit'[c].original = commit[c].original
        /\ \A d \in Caches : d # c => commit'[d] = commit[d]
        /\ StackInv'
    BY <1>1, <1>2, <1>3, RollsBack DEF Restore
  <1>5. PICK error \in BOOLEAN : UndoAt("resume", error)
    <2>1. PICK error \in BOOLEAN : error = commit'[c].applied
      BY <1>4
    <2>2. op' = [op EXCEPT !.step = "resume", !.error = error]
      BY <2>1 DEF Restore
    <2>3. OpNow(op.kind, "resume", op.cache, error)
      BY <1>1, <2>2, GoesOnWith DEF Inv
    <2> QED
      BY <1>1, <2>3, UndoGoesOn DEF UndoSteps
  <1>6. TypeOK'
    BY <1>3, <1>4, <1>5 DEF Inv, TypeOK, CommitRecords, UndoAt, UndoOps
  <1>7. SuspendInv'
    BY <1>5 DEF SuspendInv, Holding, UndoAt
  <1>8. OpInv'
    BY <1>4, <1>5 DEF OpInv, UndoAt
  <1>9. OwnerInv'
    BY <1>1, <1>2, <1>3, <1>4, <1>5 DEF OwnerInv, Inv, UndoAt, Restore
  <1> QED
    BY <1>4, <1>6, <1>7, <1>8, <1>9 DEF Inv

LEMMA UndoUnresumedKeeps ==
    ASSUME Inv, UndoUnresumed
    PROVE  Inv'
  <1> DEFINE c == op.cache
  <1>1. op \in CommitOps /\ op \notin UndoOps /\ op # NoOp /\ c \in Caches
    BY OpTypes DEF UndoUnresumed, Inv, NoOp, UndoSteps
  <1>2. commit[c] # NoCommit /\ commit[c].state = "preparing" /\ op.error = TRUE
    BY <1>1 DEF UndoUnresumed, Inv, OpInv, NoCommit
  <1>3. UNCHANGED <<cache, at, heap, suspended, failed>>
    BY DEF UndoUnresumed
  <1>4. /\ entry' \in Caches \cup {Code} /\ page' \in {"rx", "rw"}
        /\ crossed' \in BOOLEAN
        /\ commit' \in [Caches -> {NoCommit} \cup CommitRecords]
        /\ commit'[c] # NoCommit
        /\ commit'[c].applied \in BOOLEAN
        /\ commit'[c].state = "preparing"
        /\ commit'[c].original = commit[c].original
        /\ \A d \in Caches : d # c => commit'[d] = commit[d]
        /\ StackInv'
    BY <1>1, <1>2, <1>3, RollsBack DEF UndoUnresumed
  <1>5. CommitAt("resumeAgain", op.error)
    BY <1>1, GoesOn, CommitGoesOn, OpTypes DEF UndoUnresumed, CommitSteps, Inv
  <1>6. TypeOK'
    BY <1>3, <1>4, <1>5 DEF Inv, TypeOK, CommitRecords, CommitAt, CommitOps
  <1>7. SuspendInv'
    BY <1>5 DEF SuspendInv, Holding, CommitAt
  <1>8. OpInv'
    BY <1>1, <1>2, <1>3, <1>4, <1>5 DEF OpInv, Inv, CommitAt
  <1>9. OwnerInv'
    BY <1>1, <1>2, <1>3, <1>4, <1>5 DEF OwnerInv, Inv, CommitAt
  <1> QED
    BY <1>4, <1>6, <1>7, <1>8, <1>9 DEF Inv

LEMMA DropPatchKeeps ==
    ASSUME Inv, DropPatch
    PROVE  Inv'
  <1> DEFINE c == op.cache
  <1>1. op \in CommitOps \cup UndoOps /\ op # NoOp /\ c \in Caches /\ op.error \in BOOLEAN
    BY OpTypes DEF DropPatch, Inv, NoOp
  <1>2. commit[c] # NoCommit /\ op.step = "dropPatch"
    BY <1>1 DEF DropPatch, Inv, OpInv, NoCommit
  <1>3. commit[c].original \in Caches \cup {Code} /\ commit[c].applied \in BOOLEAN
    BY <1>1, <1>2 DEF Inv, TypeOK
  <1>4. /\ commit' = [commit EXCEPT ![c] = NoCommit]
        /\ UNCHANGED <<cache, at, heap, suspended>>
        /\ IF op.kind = "commit" THEN GoOn("resume") ELSE op' = NoOp
    BY DEF DropPatch
  <1>5. /\ commit' \in [Caches -> {NoCommit} \cup CommitRecords]
        /\ commit'[c] = NoCommit
        /\ \A d \in Caches : d # c => commit'[d] = commit[d]
    BY <1>1, <1>4, CommitRecordNow DEF Inv
  <1>6. PICK write \in Writes(commit[c].original, commit[c].was) :
          IF commit[c].applied
          THEN /\ Written(write)
               /\ failed' = (failed \/ ~write.ok)
               /\ crossed' = (crossed \/ Crosses(c, write))
          ELSE UNCHANGED <<entry, page, failed, crossed>>
    BY DEF DropPatch
  <1>7. /\ entry' \in Caches \cup {Code} /\ page' \in {"rx", "rw"}
        /\ failed' \in BOOLEAN /\ crossed' \in BOOLEAN
        /\ StackInv'
    <2>1. CASE commit[c].applied = TRUE
      <3>1. /\ write.entry \in Caches \cup {Code}
            /\ write.page \in {"rx", "rw"}
            /\ write.ok = TRUE => write.entry = commit[c].original
            /\ write.ok \in BOOLEAN
        BY <1>3, WrittenTypes DEF Inv
      <3>2. /\ entry' = write.entry /\ page' = write.page
            /\ failed' = (failed \/ ~write.ok)
            /\ crossed' = (crossed \/ Crosses(c, write))
        BY <1>6, <2>1 DEF Written
      <3>3. failed \in BOOLEAN /\ crossed \in BOOLEAN
        BY DEF Inv, TypeOK
      <3>4. failed' \in BOOLEAN /\ crossed' \in BOOLEAN
        BY <3>1, <3>2, <3>3
      <3>5. failed' = FALSE => failed = FALSE /\ write.ok = TRUE
        BY <3>1, <3>2, <3>3
      <3>6. crossed' = FALSE => crossed = FALSE /\ (entry = c \/ entry' = entry)
        BY <3>2, <3>3 DEF Crosses
      <3>7. StackInv'
        <4>1. CASE write.ok = TRUE
          BY <1>1, <1>2, <1>5, <3>1, <3>2, <3>5, <3>6, <4>1, StackShrinks DEF Inv
        <4>2. CASE write.ok = FALSE
          BY <3>5, <4>2 DEF StackInv
        <4> QED
          BY <3>1, <4>1, <4>2
      <3> QED
        BY <3>1, <3>2, <3>4, <3>7
    <2>2. CASE commit[c].applied = FALSE
      <3>1. UNCHANGED <<entry, page, failed, crossed>>
        BY <1>6, <2>2
      <3>2. StackInv'
        BY <1>5, <2>2, <3>1, StackStays DEF Inv
      <3> QED
        BY <3>1, <3>2 DEF Inv, TypeOK
    <2> QED
      BY <1>3, <2>1, <2>2
  <1>8. /\ op' = NoOp \/ op' \in CommitOps
        /\ SuspendInv' /\ OpInv'
    <2>1. CASE op \in CommitOps
      <3>1. op.error = TRUE
        BY <1>2, <2>1 DEF Inv, OpInv
      <3>2. OpNow(op.kind, "resume", op.cache, op.error)
        BY <1>1, <1>4, <2>1, GoesOn, OpTypes DEF Inv
      <3>3. CommitAt("resume", TRUE)
        BY <1>1, <2>1, <3>1, <3>2, CommitGoesOn DEF CommitSteps
      <3>4. SuspendInv'
        BY <3>3 DEF SuspendInv, Holding, CommitAt
      <3>5. OpInv'
        BY <1>4, <1>5, <2>1, <3>3 DEF OpInv, Inv, CommitAt
      <3> QED
        BY <3>3, <3>4, <3>5 DEF CommitAt
    <2>2. CASE op \in UndoOps
      <3>1. op \notin CommitOps /\ op' = NoOp
        BY <1>4, <2>2, OpTypes DEF Inv, CommitOps, UndoOps
      <3>2. suspended = FALSE
        BY <1>2, <3>1 DEF Inv, TypeOK, SuspendInv, Holding
      <3>3. SuspendInv'
        BY <1>4, <3>2 DEF SuspendInv
      <3>4. OpInv'
        BY <3>1, NoOpIsNeither DEF OpInv
      <3> QED
        BY <3>1, <3>3, <3>4
    <2> QED
      BY <1>1, <2>1, <2>2
  <1>9. TypeOK'
    BY <1>4, <1>5, <1>7, <1>8 DEF Inv, TypeOK, CommitRecords, CommitOps
  <1>10. OwnerInv'
    <2> SUFFICES ASSUME NEW d \in Caches
                 PROVE  /\ commit'[d].state # "preparing"
                        /\ commit'[d].state = "live" => cache[d].state = "owned"
                        /\ commit'[d] # NoCommit => commit'[d].original = cache[d].relocated
                        /\ commit'[d] # NoCommit => cache[d] # NoCache
      BY <1>4 DEF OwnerInv
    <2>1. CASE d = c
      BY <1>5, <2>1 DEF NoCommit
    <2>2. CASE d # c
      BY <1>5, <2>2 DEF Inv, OwnerInv
    <2> QED
      BY <2>1, <2>2
  <1> QED
    BY <1>7, <1>8, <1>9, <1>10 DEF Inv

LEMMA EndCommitKeeps ==
    ASSUME Inv, EndCommit
    PROVE  Inv'
  <1> DEFINE c == op.cache
  <1>1. op \in CommitOps /\ op \notin UndoOps /\ c \in Caches /\ op.error \in BOOLEAN
    BY OpTypes DEF EndCommit, Inv, NoOp
  <1>2. op' = NoOp /\ UNCHANGED <<entry, page, at, heap, suspended, failed, crossed>>
    BY DEF EndCommit
  <1>3. suspended = FALSE
    BY DEF EndCommit, Inv, TypeOK, SuspendInv, Holding
  <1>4. SuspendInv' /\ OpInv'
    BY <1>2, <1>3, NoOpIsNeither DEF SuspendInv, OpInv
  <1>5. CASE op.error = TRUE
    <2>1. UNCHANGED <<cache, commit>>
      BY <1>5 DEF EndCommit
    <2>2. commit[c] = NoCommit
      BY <1>1, <1>5 DEF EndCommit, Inv, OpInv
    <2> QED
      BY <1>1, <1>2, <1>4, <2>1, <2>2, OnlyOp DEF Inv, TypeOK, NoCommit
  <1>6. CASE op.error = FALSE
    <2>1. /\ commit' = [commit EXCEPT ![c].state = "live"]
          /\ cache' = [cache EXCEPT ![c].state = "owned"]
      BY <1>6 DEF EndCommit
    <2>2. commit[c].state = "preparing" /\ commit[c] # NoCommit /\ cache[c] # NoCache
      BY <1>1, <1>6 DEF EndCommit, Inv, OpInv, NoCommit, NoCache
    <2>3. /\ commit' \in [Caches -> {NoCommit} \cup CommitRecords]
          /\ commit'[c] # NoCommit
          /\ commit'[c].applied = commit[c].applied
          /\ commit'[c].state = "live"
          /\ commit'[c].original = commit[c].original
          /\ \A d \in Caches : d # c => commit'[d] = commit[d]
      BY <1>1, <2>1, <2>2, LiveNow DEF Inv
    <2>4. /\ cache' \in [Caches -> {NoCache} \cup CacheRecords]
          /\ cache'[c] # NoCache
          /\ cache'[c].state = "owned"
          /\ cache'[c].relocated = cache[c].relocated
          /\ \A d \in Caches : d # c => cache'[d] = cache[d]
      BY <1>1, <2>1, <2>2, CacheNow DEF Inv
    <2>5. TypeOK'
      BY <1>2, <2>3, <2>4 DEF Inv, TypeOK, CommitRecords, CacheRecords
    <2>6. OwnerInv'
      <3> SUFFICES ASSUME NEW d \in Caches
                   PROVE  /\ commit'[d].state # "preparing"
                          /\ commit'[d].state = "live" => cache'[d].state = "owned"
                          /\ commit'[d] # NoCommit => commit'[d].original = cache'[d].relocated
                          /\ commit'[d] # NoCommit => cache'[d] # NoCache
        BY DEF OwnerInv
      <3>1. CASE d = c
        BY <1>1, <2>2, <2>3, <2>4, <3>1 DEF Inv, OwnerInv
      <3>2. CASE d # c
        BY <1>1, <2>3, <2>4, <3>2 DEF Inv, OwnerInv
      <3> QED
        BY <3>1, <3>2
    <2>7. StackInv'
      BY <1>1, <1>2, <2>3, StackStays DEF Inv
    <2> QED
      BY <1>4, <2>5, <2>6, <2>7 DEF Inv
  <1> QED
    BY <1>1, <1>5, <1>6

LEMMA FreeCommitKeeps ==
    ASSUME Inv, FreeCommit
    PROVE  Inv'
  <1> DEFINE c == op.cache
  <1>1. op \in UndoOps /\ op \notin CommitOps /\ op # NoOp /\ c \in Caches
        /\ op.error \in BOOLEAN
    BY OpTypes DEF FreeCommit, Inv, NoOp
  <1>2. /\ cache' = [cache EXCEPT ![c].state = "freed"]
        /\ UNCHANGED <<entry, page, at, heap, suspended, crossed>>
    BY DEF FreeCommit
  <1>3. commit[c].state = "live" /\ commit[c] # NoCommit
    BY <1>1 DEF Inv, OpInv, NoCommit
  <1>4. cache[c] # NoCache /\ commit[c].applied \in BOOLEAN
    BY <1>1, <1>3 DEF Inv, OwnerInv, TypeOK
  <1>5. suspended = FALSE
    BY <1>1 DEF FreeCommit, Inv, TypeOK, SuspendInv, Holding
  <1>6. SuspendInv'
    BY <1>2, <1>5 DEF SuspendInv
  <1>7. /\ cache' \in [Caches -> {NoCache} \cup CacheRecords]
        /\ cache'[c] # NoCache
        /\ cache'[c].relocated = cache[c].relocated
        /\ \A d \in Caches : d # c => cache'[d] = cache[d]
    BY <1>1, <1>2, <1>4, CacheNow DEF Inv
  <1>8. CASE commit[c].applied = TRUE
    <2>1. failed' = TRUE /\ GoOn("dropPatch") /\ UNCHANGED commit
      BY <1>8 DEF FreeCommit
    <2>2. UndoAt("dropPatch", op.error)
      BY <1>1, <2>1, GoesOn, UndoGoesOn, OpTypes DEF UndoSteps, Inv
    <2>3. TypeOK'
      BY <1>2, <1>7, <2>1, <2>2 DEF Inv, TypeOK, CacheRecords, UndoAt, UndoOps
    <2>4. OpInv'
      BY <1>3, <2>1, <2>2 DEF OpInv, UndoAt
    <2>5. OwnerInv'
      <3> SUFFICES ASSUME NEW d \in Caches
                   PROVE  /\ commit[d].state # "preparing"
                          /\ commit[d].state = "live" => d = c \/ cache'[d].state = "owned"
                          /\ commit[d] # NoCommit => commit[d].original = cache'[d].relocated
                          /\ commit[d] # NoCommit => cache'[d] # NoCache
        BY <2>1, <2>2 DEF OwnerInv, UndoAt
      <3>1. CASE d = c
        BY <1>1, <1>3, <1>7, <3>1 DEF Inv, OwnerInv
      <3>2. CASE d # c
        BY <1>1, <1>7, <3>2 DEF Inv, OwnerInv
      <3> QED
        BY <3>1, <3>2
    <2>6. StackInv'
      BY <2>1 DEF StackInv
    <2> QED
      BY <1>6, <2>3, <2>4, <2>5, <2>6 DEF Inv
  <1>9. CASE commit[c].applied = FALSE
    <2>1. /\ commit' = [commit EXCEPT ![c] = NoCommit]
          /\ op' = NoOp
          /\ UNCHANGED failed
      BY <1>9 DEF FreeCommit
    <2>2. /\ commit' \in [Caches -> {NoCommit} \cup CommitRecords]
          /\ commit'[c] = NoCommit
          /\ \A d \in Caches : d # c => commit'[d] = commit[d]
      BY <1>1, <2>1, CommitRecordNow DEF Inv
    <2>3. TypeOK'
      BY <1>2, <1>7, <2>1, <2>2 DEF Inv, TypeOK, CommitRecords, CacheRecords
    <2>4. OpInv'
      BY <2>1, NoOpIsNeither DEF OpInv
    <2>5. OwnerInv'
      <3> SUFFICES ASSUME NEW d \in Caches
                   PROVE  /\ commit'[d].state # "preparing"
                          /\ commit'[d].state = "live" => cache'[d].state = "owned"
                          /\ commit'[d] # NoCommit => commit'[d].original = cache'[d].relocated
                          /\ commit'[d] # NoCommit => cache'[d] # NoCache
        BY DEF OwnerInv
      <3>1. CASE d = c
        BY <2>2, <3>1 DEF NoCommit
      <3>2. CASE d # c
        BY <1>1, <1>7, <2>2, <3>2 DEF Inv, OwnerInv
      <3> QED
        BY <3>1, <3>2
    <2>6. StackInv'
      BY <1>2, <1>9, <2>1, <2>2, StackStays DEF Inv
    <2> QED
      BY <1>6, <2>3, <2>4, <2>5, <2>6 DEF Inv
  <1> QED
    BY <1>4, <1>8, <1>9

------------------------------------------------------------------------------
(* The page.                                                               *)

\* As long as no patch was given up, a page that cannot be executed has a commit
\* that still counts as applied and knows the page as executable.
PageInv == failed = TRUE \/ page = "rx" \/ ProtectionLost

LEMMA PageStays ==
    ASSUME PageInv, page' = page, failed' = FALSE => failed = FALSE, failed' \in BOOLEAN,
           \A c \in Caches : LiveCommit(c) /\ commit[c].was = "rx"
               => LiveCommit(c)' /\ commit'[c].was = "rx"
    PROVE  PageInv'
  BY DEF PageInv, ProtectionLost

\* What a write may do to the page.
LEMMA WrittenPage ==
    ASSUME NEW bytes, NEW was, NEW write \in Writes(bytes, was)
    PROVE  /\ write.ok = TRUE \/ write.ok = FALSE
           /\ write.ok = TRUE => page = was /\ write.page = page
           /\ write.page = page \/ (page = was /\ write.page = "rw" /\ write.ok = FALSE)
  <1>1. CASE page # was
    <2>1. write = [entry |-> entry, page |-> page, ok |-> FALSE]
      BY <1>1, Zenon DEF Writes
    <2> QED
      BY <2>1
  <1>2. CASE page = was
    <2>1. \/ write = [entry |-> entry, page |-> page, ok |-> FALSE]
          \/ write = [entry |-> bytes, page |-> page, ok |-> TRUE]
          \/ write = [entry |-> bytes, page |-> "rw", ok |-> FALSE]
      BY <1>2, Zenon DEF Writes
    <2> QED
      BY <1>2, <2>1
  <1> QED
    BY <1>1, <1>2

\* A write of a patch that counts as applied when it fails: it fails if the page
\* is not what the patch was prepared for, and if it leaves it so.
LEMMA WriteKeepsPage ==
    ASSUME Inv, PageInv, NEW c \in Caches, commit[c] # NoCommit, NEW bytes,
           NEW write \in Writes(bytes, commit[c].was), Written(write),
           NEW mark \in BOOLEAN, write.ok = FALSE => mark = TRUE,
           commit' = [commit EXCEPT ![c].applied = mark], failed' = failed
    PROVE  PageInv'
  <1>1. /\ commit'[c].applied = mark /\ commit'[c].was = commit[c].was
        /\ commit'[c].state = commit[c].state
        /\ \A d \in Caches : d # c => commit'[d] = commit[d]
    BY MarkNow DEF Inv
  <1>2. commit[c].state # "none" /\ commit[c].was \in {"rx", "rw"} /\ page \in {"rx", "rw"}
    BY DEF Inv, TypeOK
  <1>3. page' = write.page
    BY DEF Written
  <1>4. CASE page' = page
    <2>1. ASSUME NEW d \in Caches, LiveCommit(d), commit[d].was = "rx", page # "rx"
          PROVE  LiveCommit(d)' /\ commit'[d].was = "rx"
      <3>1. CASE d = c
        <4>1. write.ok = FALSE
          BY <2>1, <3>1, WrittenPage
        <4>2. commit'[c].applied = TRUE
          BY <1>1, <4>1
        <4> QED
          BY <1>1, <1>2, <2>1, <3>1, <4>2 DEF LiveCommit
      <3>2. CASE d # c
        BY <1>1, <2>1, <3>2 DEF LiveCommit
      <3> QED
        BY <3>1, <3>2
    <2> QED
      BY <1>4, <2>1 DEF PageInv, ProtectionLost
  <1>5. CASE page' # page
    <2>1. commit[c].was = "rx" /\ mark = TRUE
      BY <1>2, <1>3, <1>5, WrittenPage
    <2>2. LiveCommit(c)' /\ commit'[c].was = "rx"
      BY <1>1, <1>2, <2>1 DEF LiveCommit
    <2>3. page' # "rx"
      BY <1>3, <1>5, WrittenPage
    <2> QED
      BY <2>2, <2>3 DEF PageInv, ProtectionLost
  <1> QED
    BY <1>4, <1>5

\* A patch that is dropped has no owner afterwards, and if it could not be
\* undone it has failed for good.
LEMMA DropKeepsPage ==
    ASSUME Inv, PageInv, DropPatch
    PROVE  PageInv'
  <1>1. op.cache \in Caches /\ op # NoOp
    BY OpTypes DEF DropPatch, Inv, NoOp
  <1>2. PICK c \in Caches : c = op.cache
    BY <1>1
  <1>3. /\ commit' = [commit EXCEPT ![c] = NoCommit]
        /\ \E write \in Writes(commit[c].original, commit[c].was) :
             IF commit[c].applied
             THEN /\ Written(write)
                  /\ failed' = (failed \/ ~write.ok)
                  /\ crossed' = (crossed \/ Crosses(c, write))
             ELSE UNCHANGED <<entry, page, failed, crossed>>
    BY <1>2 DEF DropPatch
  <1>4. \A d \in Caches : d # c => commit'[d] = commit[d]
    BY <1>3, CommitRecordNow DEF Inv
  <1>5. PICK write \in Writes(commit[c].original, commit[c].was) :
             IF commit[c].applied
             THEN /\ Written(write)
                  /\ failed' = (failed \/ ~write.ok)
                  /\ crossed' = (crossed \/ Crosses(c, write))
             ELSE UNCHANGED <<entry, page, failed, crossed>>
    BY <1>3
  <1>6. CASE commit[c].applied
    <2>1. CASE write.ok = FALSE
      BY <1>5, <1>6, <2>1 DEF PageInv
    <2>2. CASE write.ok = TRUE
      <3>1. page = commit[c].was /\ page' = page /\ failed' = failed
        <4>1. Written(write) /\ failed' = (failed \/ ~write.ok) /\ failed \in BOOLEAN
          BY <1>5, <1>6 DEF Inv, TypeOK
        <4>2. failed' = failed
          BY <2>2, <4>1
        <4>3. page = commit[c].was /\ write.page = page
          BY <2>2, WrittenPage
        <4> QED
          BY <4>1, <4>2, <4>3 DEF Written
      <3> QED
        BY <1>4, <3>1 DEF PageInv, ProtectionLost, LiveCommit
    <2> QED
      BY <2>1, <2>2, WrittenPage
  <1>7. CASE ~commit[c].applied
    <2>1. page' = page /\ failed' = failed
      BY <1>5, <1>7
    <2>2. \A d \in Caches : LiveCommit(d) => d # c
      BY <1>7 DEF LiveCommit
    <2> QED
      BY <1>4, <2>1, <2>2 DEF PageInv, ProtectionLost, LiveCommit
  <1> QED
    BY <1>6, <1>7

LEMMA OpKeepsPage ==
    ASSUME Inv, PageInv, OpStep
    PROVE  PageInv'
  <1>1. failed \in BOOLEAN /\ commit \in [Caches -> {NoCommit} \cup CommitRecords]
    BY DEF Inv, TypeOK, CommitRecords
  <1>2. op # NoOp /\ op.cache \in Caches
    BY OpTypes DEF OpStep, Inv, NoOp, Suspend, Quiesce, Verify, Apply, Restore, Resume,
                   UndoUnresumed, ResumeAgain, DropPatch, EndCommit, KeepCommit, FreeCommit
  <1>3. PICK c \in Caches : c = op.cache
    BY <1>2
  <1>4. CASE Suspend \/ Quiesce \/ Resume \/ ResumeAgain \/ KeepCommit
    <2>1. UNCHANGED <<commit, page, failed>>
      BY <1>4 DEF Suspend, Quiesce, Resume, ResumeAgain, KeepCommit
    <2> QED
      BY <1>1, <2>1, PageStays DEF LiveCommit
  <1>5. CASE Verify
    <2>1. commit[c] = NoCommit
      BY <1>3, <1>5, OpTypes DEF Verify, Inv, OpInv, UndoSteps
    <2>2. UNCHANGED <<page, failed>> /\ \A d \in Caches : d # c => commit'[d] = commit[d]
      BY <1>1, <1>3, <1>5 DEF Verify
    <2>3. ~LiveCommit(c)
      BY <2>1 DEF LiveCommit, NoCommit
    <2>4. \A d \in Caches : LiveCommit(d) /\ commit[d].was = "rx"
              => LiveCommit(d)' /\ commit'[d].was = "rx"
      BY <2>2, <2>3 DEF LiveCommit
    <2> QED
      BY <1>1, <2>2, <2>4, PageStays
  <1>6. CASE Apply
    <2>1. commit[c].state = "preparing"
      BY <1>3, <1>6, OpTypes DEF Apply, Inv, OpInv, UndoSteps
    <2>2. PICK write \in Writes(c, commit[c].was) : Written(write)
      BY <1>3, <1>6 DEF Apply
    <2>3. commit' = [commit EXCEPT ![c].applied = TRUE] /\ failed' = failed
      BY <1>3, <1>6 DEF Apply
    <2>4. commit[c] # NoCommit
      BY <2>1 DEF NoCommit
    <2>5. PICK mark \in BOOLEAN : mark = TRUE
      OBVIOUS
    <2> QED
      BY <2>2, <2>3, <2>4, <2>5, WriteKeepsPage
  <1>7. CASE Restore \/ UndoUnresumed
    <2>1. commit[c] # NoCommit
      BY <1>3, <1>7, OpTypes DEF Restore, UndoUnresumed, Inv, OpInv, UndoSteps,
                                 CommitSteps, NoCommit
    <2>2. PICK write \in Writes(commit[c].original, commit[c].was) :
            Written(write) /\ commit' = [commit EXCEPT ![c].applied = ~write.ok]
      BY <1>3, <1>7 DEF Restore, UndoUnresumed, RollBack
    <2>3. failed' = failed
      BY <1>7 DEF Restore, UndoUnresumed
    <2>4. PICK mark \in BOOLEAN : mark = ~write.ok
      BY WrittenPage
    <2> QED
      BY <2>1, <2>2, <2>3, <2>4, WriteKeepsPage
  <1>8. CASE EndCommit
    <2>1. UNCHANGED <<page, failed>>
      BY <1>8 DEF EndCommit
    <2>2. CASE op.error
      BY <1>1, <1>8, <2>1, <2>2, PageStays DEF EndCommit, LiveCommit
    <2>3. CASE ~op.error
      <3>1. commit[c].state = "preparing" /\ commit' = [commit EXCEPT ![c].state = "live"]
        BY <1>3, <1>8, <2>3, OpTypes DEF EndCommit, Inv, OpInv
      <3>2. commit[c] # NoCommit
        BY <3>1 DEF NoCommit
      <3>3. /\ commit'[c].applied = commit[c].applied /\ commit'[c].state = "live"
            /\ commit'[c].was = commit[c].was
            /\ \A d \in Caches : d # c => commit'[d] = commit[d]
        BY <3>1, <3>2, LiveNow DEF Inv
      <3> QED
        BY <1>1, <2>1, <3>3, PageStays DEF LiveCommit
    <2> QED
      BY <2>2, <2>3
  <1>9. CASE FreeCommit
    <2>1. CASE commit[c].applied
      BY <1>3, <1>9, <2>1 DEF FreeCommit, PageInv
    <2>2. CASE ~commit[c].applied
      <3>1. UNCHANGED <<page, failed>> /\ \A d \in Caches : d # c => commit'[d] = commit[d]
        BY <1>1, <1>3, <1>9, <2>2 DEF FreeCommit
      <3> QED
        BY <1>1, <2>2, <3>1, PageStays DEF LiveCommit
    <2> QED
      BY <2>1, <2>2
  <1> QED
    BY <1>4, <1>5, <1>6, <1>7, <1>8, <1>9, DropKeepsPage DEF OpStep

LEMMA NextPage ==
    ASSUME Inv, PageInv, [Next]_vars
    PROVE  PageInv'
  <1>1. CASE OpStep
    BY <1>1, OpKeepsPage
  <1>2. CASE Script \/ Exit \/ (\E t \in Threads : ThreadStep(t)) \/ UNCHANGED vars
    <2>1. UNCHANGED <<commit, page, failed>>
      BY <1>2 DEF Script, Prepare, DisposeCache, Commit, Undo, Exit, ThreadStep, MoveTo,
                  CallFunction, RunCache, EnterHook, Counted, LeaveHook, Allocate,
                  Allocated, vars
    <2> QED
      BY <2>1, PageStays DEF LiveCommit, Inv, TypeOK
  <1> QED
    BY <1>1, <1>2 DEF Next

------------------------------------------------------------------------------
(* The theorems.                                                           *)

LEMMA InitInv ==
    ASSUME Init
    PROVE  Inv
  <1> USE DEF Init
  <1>1. TypeOK
    BY DEF TypeOK
  <1>2. SuspendInv /\ OpInv
    BY NoOpIsNeither DEF SuspendInv, OpInv
  <1>3. OwnerInv
    BY DEF OwnerInv, NoCommit
  <1>4. StackInv
    <2> DEFINE s == [i \in 1 .. 0 |-> Code]
    <2>1. s \in [1 .. 0 -> Caches] /\ Stack(0, s)
      BY DEF Stack, Below
    <2> QED
      BY <2>1 DEF StackInv
  <1> QED
    BY <1>1, <1>2, <1>3, <1>4 DEF Inv

LEMMA NextInv ==
    ASSUME Inv, [Next]_vars
    PROVE  Inv'
  <1>1. CASE Script
    <2>1. PICK c \in Caches :
            \/ Prepare(c) \/ DisposeCache(c) \/ Commit(c)
            \/ \E kind \in {"rollback", "dispose", "drop"} : Undo(kind, c)
      BY <1>1 DEF Script
    <2> QED
      BY <2>1, PrepareKeeps, DisposeCacheKeeps, CommitKeeps, UndoKeeps
  <1>2. CASE OpStep
    BY <1>2, SuspendKeeps, QuiesceKeeps, VerifyKeeps, ApplyKeeps, RestoreKeeps,
       ResumeKeeps, UndoUnresumedKeeps, ResumeAgainKeeps, DropPatchKeeps,
       EndCommitKeeps, KeepCommitKeeps, FreeCommitKeeps DEF OpStep
  <1>3. CASE Exit \/ \E t \in Threads : ThreadStep(t)
    BY <1>3, ExitKeeps, ThreadKeeps
  <1>4. CASE UNCHANGED vars
    <2>1. UNCHANGED <<cache, commit, entry, page, at, heap, suspended, op, failed, crossed>>
      BY <1>4 DEF vars
    <2>2. TypeOK'
      BY <2>1 DEF Inv, TypeOK
    <2>3. SuspendInv' /\ OpInv' /\ OwnerInv'
      BY <2>1 DEF Inv, SuspendInv, OpInv, OwnerInv
    <2>4. StackInv'
      BY <2>1, StackStays DEF Inv
    <2> QED
      BY <2>2, <2>3, <2>4 DEF Inv
  <1> QED
    BY <1>1, <1>2, <1>3, <1>4 DEF Next

\* The branches lie on a stack, each with a commit that is applied and with a
\* cache that leads to the one below; and whoever is suspended is so on
\* behalf of an operation that will resume it.
THEOREM InvHolds == Spec => []Inv
  <1>1. Init => Inv
    BY InitInv
  <1>2. Inv /\ [Next]_vars => Inv'
    BY NextInv
  <1> QED
    BY <1>1, <1>2, PTL DEF Spec

\* The variables keep their types, and the two kinds of operation (commit, and
\* rollback, dispose or finalizer) each go through steps of their own.
THEOREM TypeCorrect == Spec => []TypeOK
  <1>1. Inv => TypeOK
    BY DEF Inv
  <1> QED
    BY <1>1, InvHolds, PTL

\* StalkerThreadSuspendGuard: an operation that ends, on whatever path, leaves
\* the followed thread running, if the lease's last attempt to resume it succeeds.
THEOREM NeverLeftSuspended == Spec => []NotLeftSuspended
  <1>1. Inv => NotLeftSuspended
    BY NoOpIsNeither DEF Inv, SuspendInv, NotLeftSuspended
  <1> QED
    BY <1>1, InvHolds, PTL

\* TargetMemoryPatch, rollback_applied: a branch at the function's entry has an
\* applied commit, unless a patch could not be undone or commits were undone
\* out of order.
THEOREM BranchesAreOwned == Spec => []BranchIsOwned
  <1>1. Inv => BranchIsOwned
    <2> SUFFICES ASSUME Inv, entry \in Caches, failed = FALSE, crossed = FALSE
                 PROVE  LiveCommit(entry)
      BY DEF BranchIsOwned, Inv, TypeOK
    <2>0. PICK n \in Nat : \E s \in [1 .. n -> Caches] : Stack(n, s)
      BY DEF Inv, StackInv
    <2>1. PICK s \in [1 .. n -> Caches] : Stack(n, s)
      BY <2>0
    <2>2. n \in 1 .. n /\ entry = s[n]
      BY <2>1, RewriteConstants DEF Stack, Below
    <2>3. commit[entry] # NoCommit /\ commit[entry].applied = TRUE
      BY <2>1, <2>2 DEF Stack, Stacked
    <2>4. commit[entry].state \in {"preparing", "live"}
      BY <2>3 DEF Inv, TypeOK
    <2> QED
      BY <2>3, <2>4 DEF LiveCommit
  <1> QED
    BY <1>1, InvHolds, PTL

\* write_patch_bytes, TargetMemoryPatch: as long as no patch was given up, a page
\* whose protection could not be put back has an owner that knows.
THEOREM PageHolds == Spec => []PageInv
  <1>1. Init => PageInv
    BY DEF Init, PageInv
  <1>2. Inv /\ PageInv /\ [Next]_vars => PageInv'
    BY NextPage
  <1> QED
    BY <1>1, <1>2, InvHolds, PTL DEF Spec

\* commitTargetThreadRewrite: as long as no patch was lost, the function's
\* entry leads through mapped caches to the function's own code, for any number
\* of rewrites that lie over one another, and its page can be executed, unless
\* a commit that still counts as applied has failed to see to that.
THEOREM CodeIsReached == Spec => []ReachesCode
  <1>1. Inv /\ PageInv => ReachesCode
    <2> SUFFICES ASSUME Inv, PageInv, failed = FALSE, crossed = FALSE
                 PROVE  \E path \in SUBSET Caches :
                           /\ entry \in path \cup {Code}
                           /\ \A c \in path : Mapped(c) /\ cache[c].relocated \in path \cup {Code}
      BY DEF ReachesCode, PageInv, Inv, TypeOK
    <2>0. PICK n \in Nat : \E s \in [1 .. n -> Caches] : Stack(n, s)
      BY DEF Inv, StackInv
    <2>1. PICK s \in [1 .. n -> Caches] : Stack(n, s)
      BY <2>0
    <2> DEFINE path == {s[i] : i \in 1 .. n}
    <2>2. path \in SUBSET Caches
      OBVIOUS
    <2>3. entry \in path \cup {Code}
      BY <2>1 DEF Stack, Below
    <2>4. ASSUME NEW i \in 1 .. n
          PROVE  Mapped(s[i]) /\ cache[s[i]].relocated \in path \cup {Code}
      <3> DEFINE c == s[i]
      <3>1. c \in Caches /\ commit[c] # NoCommit /\ commit[c].original = Below(s, i)
        BY <2>1 DEF Stack, Stacked
      <3>2. commit[c].state \in {"preparing", "live"}
        BY <3>1 DEF Inv, TypeOK
      <3>3. cache[c].relocated = Below(s, i)
        BY <3>1 DEF Inv, OwnerInv
      <3>4. Below(s, i) \in path \cup {Code}
        BY DEF Below
      <3>5. CASE commit[c].state = "preparing"
        BY <3>1, <3>3, <3>4, <3>5 DEF Inv, OwnerInv, OpInv, Mapped
      <3>6. CASE commit[c].state = "live"
        BY <3>1, <3>3, <3>4, <3>6 DEF Inv, OwnerInv, Mapped
      <3> QED
        BY <3>2, <3>5, <3>6
    <2>5. \A c \in path : Mapped(c) /\ cache[c].relocated \in path \cup {Code}
      BY <2>4
    <2> QED
      BY <2>2, <2>3, <2>5
  <1> QED
    BY <1>1, InvHolds, PageHolds, PTL
==============================================================================
