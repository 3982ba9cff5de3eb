----------------------------- MODULE JobContract -----------------------------
(***************************************************************************)
(* What the engine promises of one job, with no table, replica or lease in *)
(* sight: an attempt is held by runs, one of them the current one; a run   *)
(* can be replaced, and can be given up, at any time; but the job moves on *)
(* only when its current run lets go of it, to a state its attempts and    *)
(* its schedule allow, and an ended job never moves again.                 *)
(***************************************************************************)
EXTENDS Naturals

CONSTANTS
  RunIds,   \* names of runs
  Limit,    \* attempts the job may use
  Recurs    \* TRUE: a success returns the job to the queue

VARIABLES
  state,    \* "queued", "running", "succeeded" or "jobs_exhausted"
  attempt,  \* attempts started so far
  current,  \* the run that may end the attempt
  live      \* runs that have yet to let go of the job

vars == <<state, attempt, current, live>>

Init ==
  /\ state = "queued"
  /\ attempt = 0
  /\ current \in RunIds
  /\ live = {}

\* A run u takes the job: the job's next attempt, or the rest of this one.
Take(u) ==
  /\ u \notin live \cup {current}
  /\ \/ state = "queued" /\ attempt' = attempt + 1
     \/ state = "running" /\ attempt' = attempt
  /\ state' = "running"
  /\ current' = u
  /\ live' = live \cup {u}

\* Where an attempt may end. A job without attempts left is not queued again
\* unless it recurs.
Outcome(s) ==
  \/ s = "succeeded" /\ ~Recurs
  \/ s = "queued" /\ (Recurs \/ attempt < Limit)
  \/ s = "jobs_exhausted"

\* The current run ends the attempt.
End(s) ==
  /\ state = "running"
  /\ current \in live
  /\ Outcome(s)
  /\ state' = s
  /\ live' = live \ {current}
  /\ UNCHANGED <<attempt, current>>

\* Runs die, or find that the job is no longer theirs.
GiveUp ==
  /\ live' \subseteq live
  /\ UNCHANGED <<state, attempt, current>>

Next ==
  \/ \E u \in RunIds : Take(u)
  \/ \E s \in {"queued", "succeeded", "jobs_exhausted"} : End(s)
  \/ GiveUp

Spec == Init /\ [][Next]_vars
==============================================================================
