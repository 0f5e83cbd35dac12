-------------------------- MODULE SessionLifecycle --------------------------
(***************************************************************************)
(* What a controller session promises to the threads that share it,        *)
(* whatever locks it uses.  A session opens at most once, calls are made   *)
(* only while it is open, and neither a failure nor a shutdown overtakes a *)
(* call: both wait until no call is in flight, and no call starts          *)
(* afterwards.  A closed session stays closed.                             *)
(***************************************************************************)
CONSTANT Callers                \* the threads that may have a call in flight

VARIABLES phase,                \* "unborn", "opening", "open", "broken", "closed"
          calls                 \* the callers with a call in flight

vars == <<phase, calls>>

Init == phase = "unborn" /\ calls = {}

Reserve == phase = "unborn" /\ phase' = "opening" /\ UNCHANGED calls

Open == phase = "opening" /\ phase' = "open" /\ UNCHANGED calls

Begin(c) == /\ phase = "open"
            /\ calls' = calls \union {c}
            /\ UNCHANGED phase

End(c) == /\ c \in calls
          /\ calls' = calls \ {c}
          /\ UNCHANGED phase

\* The session stops serving: the attach failed, the transport failed, or a
\* shutdown has begun and may still have to be retried.
Break == /\ phase \in {"opening", "open"}
         /\ calls = {}
         /\ phase' = "broken"
         /\ UNCHANGED calls

\* Everything the session owned has been given back.
Close == /\ phase \in {"opening", "broken"}
         /\ calls = {}
         /\ phase' = "closed"
         /\ UNCHANGED calls

Next == \/ Reserve \/ Open \/ Break \/ Close
        \/ \E c \in Callers : Begin(c) \/ End(c)

Spec == Init /\ [][Next]_vars
=============================================================================
