---------------------------- MODULE HookOwnership ----------------------------
(***************************************************************************)
(* What the two ends of an external hook promise each other.  The agent    *)
(* holds the truth about each hook and the controller a copy that may lag. *)
(* Both only move forward, and the copy never claims what is not yet true: *)
(* a controller that says "released" or "restored" can be relied upon.     *)
(***************************************************************************)
CONSTANT Hooks

VARIABLES truth,   \* the agent's side: a Hook per identity
          copy     \* the controller's copy of it

\* made: the target was changed; held: the agent holds the adapter's handle;
\* hooked: the target still runs the replacement.
Hook == [made : BOOLEAN, held : BOOLEAN, hooked : BOOLEAN]
Unmade == [made |-> FALSE, held |-> TRUE, hooked |-> TRUE]

Init == /\ truth = [h \in Hooks |-> Unmade]
        /\ copy = [h \in Hooks |-> Unmade]

\* b is a or what a may become.
Follows(a, b) == /\ a.made => b.made
                 /\ b.held => a.held
                 /\ b.hooked => a.hooked

\* The agent installs, releases or restores; its exit releases several at once.
Advance == /\ truth' \in [Hooks -> Hook]
           /\ \A h \in Hooks : Follows(truth[h], truth'[h])
           /\ UNCHANGED copy

\* The controller learns something that is true by now, and forgets nothing.
Learn(h) == \E c \in Hook : /\ Follows(copy[h], c)
                            /\ Follows(c, truth[h])
                            /\ copy' = [copy EXCEPT ![h] = c]
                            /\ UNCHANGED truth

Next == Advance \/ \E h \in Hooks : Learn(h)

Spec == Init /\ [][Next]_<<truth, copy>>
=============================================================================
