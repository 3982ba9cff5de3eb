------------------------------ MODULE FileStore ------------------------------
(* Files that clients set through calls. A call names the contents it wants; *)
(* it finds a file as wanted, or writes some of its files in one step, and   *)
(* succeeds only when no file is left. It may fail with some files written.  *)
(* A call that is not atomic may spoil files that it has not yet written.    *)
EXTENDS FiniteSets

CONSTANTS Clients, Paths, Empty, Torn

VARIABLES files, calls

Open(c) ==
  /\ calls[c].state = "none" /\ calls'[c].state = "open"
  /\ calls'[c].pending = DOMAIN calls'[c].wanted
  /\ UNCHANGED files

Found(c) ==
  \E p \in calls[c].pending :
    /\ calls[c].state = "open" /\ files[p] = calls[c].wanted[p]
    /\ calls' = [calls EXCEPT ![c].pending = @ \ {p}]
    /\ UNCHANGED files

\* The answer may come with the last write; it may also get lost.
Write(c) ==
  \E set \in SUBSET calls[c].pending :
    /\ calls[c].state = "open" /\ set # {}
    /\ files' = [p \in Paths |-> IF p \in set THEN calls[c].wanted[p] ELSE files[p]]
    /\ calls'[c].state \in {"open", "failed"} \cup (IF calls[c].pending = set THEN {"ok"} ELSE {})
    /\ calls'[c].pending \in {calls[c].pending, calls[c].pending \ set}
    /\ calls'[c].wanted = calls[c].wanted /\ calls'[c].atomic = calls[c].atomic

\* A file is emptied before it is written; a write that fails, or that meets the
\* content of somebody else, leaves neither.
Spoil(c) ==
  \E p \in calls[c].pending, content \in {Empty, Torn} :
    /\ calls[c].state = "open" /\ ~calls[c].atomic
    /\ files' = [q \in Paths |-> IF q = p THEN content ELSE files[q]]
    /\ \/ content = Empty /\ UNCHANGED calls
       \/ content = Torn /\ calls' = [calls EXCEPT ![c].state = "failed"]
       \/ /\ content = Torn /\ files[p] \notin {Empty, calls[c].wanted[p]}
          /\ calls' = [calls EXCEPT ![c].pending = @ \ {p}]

Succeed(c) ==
  /\ calls[c].state = "open" /\ calls[c].pending = {}
  /\ calls' = [calls EXCEPT ![c].state = "ok"]
  /\ UNCHANGED files

Fail(c) ==
  /\ calls[c].state = "open"
  /\ calls' = [calls EXCEPT ![c].state = "failed"]
  /\ UNCHANGED files

Close(c) ==
  /\ calls[c].state # "none"
  /\ calls'[c].state = "none" /\ UNCHANGED files

Others(c) == \A d \in Clients \ {c} : calls'[d] = calls[d]

Init == \A c \in Clients : calls[c].state = "none" \/ calls[c].pending = DOMAIN calls[c].wanted

Next ==
  \E c \in Clients :
    Others(c) /\ (Open(c) \/ Found(c) \/ Write(c) \/ Spoil(c) \/ Succeed(c) \/ Fail(c) \/ Close(c))

Spec == Init /\ [][Next]_<<files, calls>>
=============================================================================
