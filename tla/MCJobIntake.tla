----------------------------- MODULE MCJobIntake -----------------------------
(* Small instances of JobIntake for TLC.                                   *)
EXTENDS JobIntake, TLC

CONSTANTS h1, h2, i1, i2, i3

TwoHandlers == {h1, h2}
Ids == {i1, i2, i3}

Req(p, b, n) == [path |-> p, key |-> "k", body |-> b, maxAttempts |-> n, wellFormed |-> TRUE]

\* One key with two payloads, with another retry limit, and on another path; and
\* a request that does not pass validation.
MixedRequests ==
  {Req("p", "x", 0), Req("p", "x", 1), Req("p", "y", 0), Req("q", "x", 0),
   [Req("p", "x", 0) EXCEPT !.wellFormed = FALSE]}

\* One key on two paths.
TwoPaths == {Req("p", "x", 0), Req("q", "x", 0)}

IdSymmetry == Permutations(JobIds) \cup Permutations(Handlers)
=============================================================================
