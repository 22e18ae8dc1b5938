--------------------------- MODULE SessionPromise ---------------------------
(***************************************************************************)
(* What a dispatcher promises its caller (spec.md 4.2, 7 and 8), with no   *)
(* goroutines: Start either fails or leaves the session running; a running *)
(* session's Done settles exactly once, to one outcome, and never changes  *)
(* it; the process may die (a panic) at any point, after which nothing is  *)
(* promised.  Session and Reshare are checked to implement this module.    *)
(***************************************************************************)
CONSTANTS
  Outcomes,  \* what Done may resolve or reject with
  NONE       \* "none": Done has not settled

VARIABLES
  st,   \* created, running, failed, crashed
  out   \* the settled outcome, or NONE

TypeOK ==
  /\ st \in {"created", "running", "failed", "crashed"}
  /\ out \in Outcomes \cup {NONE}

Init == st = "created" /\ out = NONE

\* Start returns nil: the session runs.
Run == st = "created" /\ st' = "running" /\ UNCHANGED out

\* Start returns an error (configuration error): Done is never armed.
Fail == st = "created" /\ st' = "failed" /\ UNCHANGED out

\* Done resolves or rejects, once.
Settle == st = "running" /\ out = NONE /\ \E o \in Outcomes : out' = o
          /\ UNCHANGED st

\* A goroutine panics and the process exits.
Crash == st \in {"created", "running"} /\ st' = "crashed" /\ UNCHANGED out

Next == Run \/ Fail \/ Settle \/ Crash

\* spec.md 7: callers always receive a terminated session within
\* timeout-bound time.
Spec == Init /\ [][Next]_<<st, out>> /\ WF_<<st, out>>(Settle)

=============================================================================
