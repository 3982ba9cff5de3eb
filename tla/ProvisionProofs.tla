--------------------------- MODULE ProvisionProofs ---------------------------
(***************************************************************************)
(* Provisioning jobs and other callers of commit_files on one branch.      *)
(* GitInv, about calls and the branch, is inductive by itself: every step  *)
(* of the system opens, moves on or closes one call, is a commit of Argo   *)
(* CD, or touches neither (ProvisionStepKinds). The refinement of          *)
(* FileStore and the absence of lost updates follow from it step by step.  *)
(* InfraInv adds what the row of a job owes at each place of Execute, and  *)
(* HealthInv which commits its row, its call and a status can be about.    *)
(***************************************************************************)
EXTENDS InfraModule, TLAPS

-----------------------------------------------------------------------------
(* Calls and commits as the provers see them.                               *)

CallFields == {"pc", "flavour", "files", "todo", "entries", "base", "path", "seen", "written",
               "rootOpen", "status", "sha", "changed"}

CallShape(f) == f = [x \in CallFields |-> f[x]]

LEMMA NoCallFields ==
  /\ CallShape(NoCall) /\ NoCall.pc = "idle" /\ NoCall.flavour = "none"
  /\ NoCall.todo = {} /\ NoCall.entries = {} /\ NoCall.files = << >> /\ NoCall.changed = FALSE
<1>1. CallShape(NoCall)
  BY Zenon DEF CallShape, NoCall, CallFields
<1> QED
  BY <1>1 DEF NoCall

\* What an answer changes of a call.
Answered(f, status, sha, changed) ==
  [f EXCEPT !.pc = "done", !.status = status, !.sha = sha, !.changed = changed]

LEMMA AnswerFields ==
  ASSUME NEW f, CallShape(f), NEW status, NEW sha, NEW changed
  PROVE  LET g == Answered(f, status, sha, changed) IN
         /\ CallShape(g) /\ g.pc = "done" /\ g.status = status
         /\ g.flavour = f.flavour /\ g.files = f.files /\ g.todo = f.todo /\ g.entries = f.entries
         /\ g.base = f.base /\ g.sha = sha /\ g.changed = changed
<1> DEFINE g == Answered(f, status, sha, changed)
<1>1. CallShape(g)
  BY Zenon DEF CallShape, CallFields, Answered
<1>2. /\ g.pc = "done" /\ g.status = status
      /\ g.flavour = f.flavour /\ g.files = f.files /\ g.todo = f.todo /\ g.entries = f.entries
      /\ g.base = f.base /\ g.sha = sha /\ g.changed = changed
  BY DEF CallShape, CallFields, Answered
<1> QED
  BY <1>1, <1>2

Placed(f, pc) ==
  [f EXCEPT !.pc = pc]

LEMMA PcFields ==
  ASSUME NEW f, CallShape(f), NEW pc
  PROVE  LET g == Placed(f, pc) IN
         /\ CallShape(g) /\ g.pc = pc
         /\ g.flavour = f.flavour /\ g.files = f.files /\ g.todo = f.todo /\ g.entries = f.entries
         /\ g.base = f.base /\ g.sha = f.sha /\ g.changed = f.changed /\ g.path = f.path
<1> DEFINE g == Placed(f, pc)
<1>1. CallShape(g)
  BY Zenon DEF CallShape, CallFields, Placed
<1>2. /\ g.pc = pc
      /\ g.flavour = f.flavour /\ g.files = f.files /\ g.todo = f.todo /\ g.entries = f.entries
      /\ g.base = f.base /\ g.sha = f.sha /\ g.changed = f.changed /\ g.path = f.path
  BY DEF CallShape, CallFields, Placed
<1> QED
  BY <1>1, <1>2

Based(f, base) ==
  [f EXCEPT !.pc = "compare", !.base = base]

LEMMA BaseFields ==
  ASSUME NEW f, CallShape(f), NEW base
  PROVE  LET g == Based(f, base) IN
         /\ CallShape(g) /\ g.pc = "compare"
         /\ g.flavour = f.flavour /\ g.files = f.files /\ g.todo = f.todo /\ g.entries = f.entries
         /\ g.base = base /\ g.sha = f.sha /\ g.changed = f.changed
<1> DEFINE g == Based(f, base)
<1>1. CallShape(g)
  BY Zenon DEF CallShape, CallFields, Based
<1>2. /\ g.pc = "compare"
      /\ g.flavour = f.flavour /\ g.files = f.files /\ g.todo = f.todo /\ g.entries = f.entries
      /\ g.base = base /\ g.sha = f.sha /\ g.changed = f.changed
  BY DEF CallShape, CallFields, Based
<1> QED
  BY <1>1, <1>2

Skipped(f, todo, root) ==
  [f EXCEPT !.todo = todo, !.rootOpen = root]

LEMMA TodoFields ==
  ASSUME NEW f, CallShape(f), NEW todo, NEW root
  PROVE  LET g == Skipped(f, todo, root) IN
         /\ CallShape(g) /\ g.pc = f.pc
         /\ g.flavour = f.flavour /\ g.files = f.files /\ g.todo = todo /\ g.entries = f.entries
         /\ g.base = f.base /\ g.sha = f.sha /\ g.changed = f.changed
<1> DEFINE g == Skipped(f, todo, root)
<1>1. CallShape(g)
  BY Zenon DEF CallShape, CallFields, Skipped
<1>2. /\ g.pc = f.pc
      /\ g.flavour = f.flavour /\ g.files = f.files /\ g.todo = todo /\ g.entries = f.entries
      /\ g.base = f.base /\ g.sha = f.sha /\ g.changed = f.changed
  BY DEF CallShape, CallFields, Skipped
<1> QED
  BY <1>1, <1>2

Entered(f, todo, entries) ==
  [f EXCEPT !.todo = todo, !.entries = entries]

LEMMA EntryFields ==
  ASSUME NEW f, CallShape(f), NEW todo, NEW entries
  PROVE  LET g == Entered(f, todo, entries) IN
         /\ CallShape(g) /\ g.pc = f.pc
         /\ g.flavour = f.flavour /\ g.files = f.files /\ g.todo = todo /\ g.entries = entries
         /\ g.base = f.base /\ g.sha = f.sha /\ g.changed = f.changed
<1> DEFINE g == Entered(f, todo, entries)
<1>1. CallShape(g)
  BY Zenon DEF CallShape, CallFields, Entered
<1>2. /\ g.pc = f.pc
      /\ g.flavour = f.flavour /\ g.files = f.files /\ g.todo = todo /\ g.entries = entries
      /\ g.base = f.base /\ g.sha = f.sha /\ g.changed = f.changed
  BY DEF CallShape, CallFields, Entered
<1> QED
  BY <1>1, <1>2

Readied(f, path, seen) ==
  [f EXCEPT !.pc = "write", !.path = path, !.seen = seen]

LEMMA ReadFields ==
  ASSUME NEW f, CallShape(f), NEW path, NEW seen
  PROVE  LET g == Readied(f, path, seen) IN
         /\ CallShape(g) /\ g.pc = "write" /\ g.path = path
         /\ g.flavour = f.flavour /\ g.files = f.files /\ g.todo = f.todo /\ g.entries = f.entries
         /\ g.base = f.base /\ g.sha = f.sha /\ g.changed = f.changed
<1> DEFINE g == Readied(f, path, seen)
<1>1. CallShape(g)
  BY Zenon DEF CallShape, CallFields, Readied
<1>2. /\ g.pc = "write" /\ g.path = path
      /\ g.flavour = f.flavour /\ g.files = f.files /\ g.todo = f.todo /\ g.entries = f.entries
      /\ g.base = f.base /\ g.sha = f.sha /\ g.changed = f.changed
  BY DEF CallShape, CallFields, Readied
<1> QED
  BY <1>1, <1>2

Wrote(f, todo, sha, written) ==
  [f EXCEPT !.pc = "compare", !.todo = todo, !.path = Blank, !.seen = Blank,
     !.changed = TRUE, !.sha = sha, !.written = written]

LEMMA WrittenFields ==
  ASSUME NEW f, CallShape(f), NEW todo, NEW sha, NEW written
  PROVE  LET g == Wrote(f, todo, sha, written) IN
         /\ CallShape(g) /\ g.pc = "compare"
         /\ g.flavour = f.flavour /\ g.files = f.files /\ g.todo = todo /\ g.entries = f.entries
         /\ g.base = f.base /\ g.sha = sha
<1> DEFINE g == Wrote(f, todo, sha, written)
<1>1. CallShape(g)
  BY Zenon DEF CallShape, CallFields, Wrote
<1>2. /\ g.pc = "compare"
      /\ g.flavour = f.flavour /\ g.files = f.files /\ g.todo = todo /\ g.entries = f.entries
      /\ g.base = f.base /\ g.sha = sha
  BY DEF CallShape, CallFields, Wrote
<1> QED
  BY <1>1, <1>2

Opened(pc, flavour, files) ==
  [NoCall EXCEPT !.pc = pc, !.flavour = flavour, !.files = files, !.todo = DOMAIN files]

LEMMA OpenedFields ==
  ASSUME NEW pc, NEW flavour, NEW files
  PROVE  LET g == Opened(pc, flavour, files) IN
         /\ CallShape(g) /\ g.pc = pc
         /\ g.flavour = flavour /\ g.files = files /\ g.todo = DOMAIN files /\ g.entries = {}
<1> DEFINE g == Opened(pc, flavour, files)
<1> DEFINE f == NoCall
<1>1. /\ CallShape(f) /\ f.entries = {}
      /\ g = [f EXCEPT !.pc = pc, !.flavour = flavour, !.files = files, !.todo = DOMAIN files]
  BY NoCallFields DEF Opened
<1> HIDE DEF f, g
<1>2. CallShape(g)
  BY <1>1, Zenon DEF CallShape, CallFields
<1>3. /\ g.pc = pc
      /\ g.flavour = flavour /\ g.files = files /\ g.todo = DOMAIN files /\ g.entries = f.entries
  BY <1>1 DEF CallShape, CallFields
<1> QED
  BY <1>1, <1>2, <1>3 DEF g

LEMMA OpenedUnchanged ==
  ASSUME NEW pc, NEW flavour, NEW files
  PROVE  Opened(pc, flavour, files).changed = FALSE
<1> DEFINE f == NoCall
           g == [f EXCEPT !.pc = pc, !.flavour = flavour, !.files = files, !.todo = DOMAIN files]
<1>1. CallShape(f) /\ f.changed = FALSE
  BY NoCallFields
<1> HIDE DEF f
<1>2. g.changed = f.changed
  BY <1>1 DEF CallShape, CallFields
<1>3. Opened(pc, flavour, files) = g
  BY DEF Opened, f
<1> HIDE DEF g
<1> QED
  BY <1>1, <1>2, <1>3

\* The branch is a sequence of commits.
Branch(h) == (\E S : h \in Seq(S)) /\ Len(h) \in Nat /\ Len(h) >= 1

LEMMA BranchGrows ==
  ASSUME NEW h, Branch(h), NEW x
  PROVE  /\ Branch(Append(h, x)) /\ Len(Append(h, x)) = Len(h) + 1
         /\ Append(h, x)[Len(h) + 1] = x
         /\ \A i \in 1..Len(h) : Append(h, x)[i] = h[i]
<1> PICK S : h \in Seq(S)
  BY DEF Branch
<1>1. h \in Seq(S \cup {x}) /\ x \in S \cup {x}
  OBVIOUS
<1>2. Append(h, x) \in Seq(S \cup {x})
  BY <1>1
<1> QED
  BY <1>1, <1>2 DEF Branch

-----------------------------------------------------------------------------
(* What a step of a connector does to its call and to the branch.           *)

Under == {"getRef", "compare", "write", "fill", "updateRef"}
Results == {"success", "error", "terminal_error"}

Pending(f) == f.todo \cup f.entries

CallOK(f) ==
  /\ CallShape(f)
  /\ f.pc \in Under \cup {"idle", "done"}
  /\ f.pc = "idle" => f = NoCall
  /\ f.todo \cap f.entries = {} /\ Pending(f) \subseteq DOMAIN f.files
  /\ f.entries # {} => f.flavour = "github"
  /\ f.pc = "write" => f.flavour # "github" /\ f.path \in f.todo
  /\ f.pc = "fill" => f.flavour = "file" /\ f.path \in f.todo
  /\ f.pc = "updateRef" => f.flavour = "github" /\ f.todo = {} /\ f.entries # {}
  /\ f.pc = "done" => f.status \in Results

GitInv ==
  /\ Branch(history)
  /\ gitCall = [c \in GitClients |-> gitCall[c]]
  /\ \A c \in GitClients : CallOK(gitCall[c])

\* The connector goes on; it finds a file as wanted; it answers.
Turns(f, g) ==
  /\ history' = history /\ f.pc \in Under /\ g.pc \in Under
  /\ Pending(g) = Pending(f)

Finds(f, g) ==
  /\ history' = history /\ f.pc \in Under /\ g.pc \in Under
  /\ \E p \in Pending(f) : Tip.tree[p] = f.files[p] /\ Pending(g) = Pending(f) \ {p}

Answers(f, g) ==
  /\ history' = history /\ f.pc \in Under /\ g.pc = "done"
  /\ Pending(g) = Pending(f)
  /\ g.status = "success" => Pending(f) = {}

\* The branch gets a commit of the client on top of the tip.
Puts(c, files, set) ==
  /\ history' = Append(history, Commit(Overlay(Tip.tree, files, set), Tip.status, c))
  /\ Len(history) < MaxCommits

\* It commits some of its files, none of which has changed since it looked.
Lands(c, f, g) ==
  \E set \in SUBSET Pending(f) :
    /\ set # {} /\ Puts(c, f.files, set)
    /\ f.pc \in Under /\ g.pc \in Under \cup {"done"}
    /\ Pending(g) \in {Pending(f), Pending(f) \ set}
    /\ g.pc = "done" /\ g.status = "success" => Pending(f) = set
    /\ f.flavour # "file" =>
         \A p \in set : Tip.tree[p] = IF f.flavour = "github" THEN BaseCommit(c).tree[p] ELSE f.seen

\* The file connector empties a file, or leaves it torn.
Spoils(c, f, g) ==
  \E p \in Pending(f), x \in {Blank, Torn} :
    /\ f.flavour = "file" /\ f.pc \in Under /\ Puts(c, [q \in {p} |-> x], {p})
    /\ \/ x = Blank /\ g.pc \in Under /\ Pending(g) = Pending(f)
       \/ x = Torn /\ g.pc = "done" /\ g.status # "success" /\ Pending(g) = Pending(f)
       \/ /\ x = Torn /\ Tip.tree[p] \notin {Blank, f.files[p]}
          /\ g.pc \in Under /\ Pending(g) = Pending(f) \ {p}

Moves(c, f, g) ==
  /\ g.files = f.files /\ g.flavour = f.flavour
  /\ Turns(f, g) \/ Finds(f, g) \/ Answers(f, g) \/ Lands(c, f, g) \/ Spoils(c, f, g)

\* What a call through a hosting service comes to know of commits: the tip when
\* it starts, a commit of its own, and what it answers with.
Learns(c, f, g) ==
  f.flavour # "file" =>
    \/ /\ history' = history /\ f.pc # "getRef" /\ g.pc \in Under \ {"getRef"}
       /\ g.base = f.base /\ g.sha = f.sha /\ g.changed = f.changed
    \/ /\ history' = history /\ g.pc = "compare" /\ g.base = Len(history)
       /\ g.sha = f.sha /\ g.changed = f.changed
    \/ g.pc = "done" /\ g.status # "success"
    \/ /\ history' = history /\ f.pc = "compare" /\ g.pc = "done"
       /\ g.changed = FALSE /\ g.sha \in {f.base, Len(history), Blank}
    \/ /\ history' = history /\ f.pc = "compare" /\ g.pc = "done"
       /\ f.changed /\ g.sha = f.sha
    \/ /\ f.pc \in {"write", "updateRef"} /\ g.pc \in {"compare", "done"}
       /\ g.base = f.base /\ g.sha = Len(history) + 1
       /\ \E set \in SUBSET DOMAIN f.files : set # {} /\ Puts(c, f.files, set)

Goes(c) ==
  /\ CallOK(gitCall'[c])
  /\ Moves(c, gitCall[c], gitCall'[c]) /\ Learns(c, gitCall[c], gitCall'[c])

LEMMA SetCallSets ==
  ASSUME GitInv, NEW c \in GitClients, NEW r, SetCall(c, r)
  PROVE  gitCall'[c] = r
BY DEF GitInv, SetCall

LEMMA AnswerMoves ==
  ASSUME GitInv, NEW c \in GitClients, gitCall[c].pc \in Under,
         NEW status \in Results, NEW sha, NEW changed, Answer(c, status, sha, changed)
  PROVE  LET f == gitCall[c]
             g == gitCall'[c]
         IN /\ CallOK(g) /\ g.pc = "done" /\ g.status = status
            /\ g.flavour = f.flavour /\ g.files = f.files /\ Pending(g) = Pending(f)
            /\ g.base = f.base /\ g.sha = sha /\ g.changed = changed
<1> DEFINE f == gitCall[c]
           g == gitCall'[c]
<1>0. CallShape(f)
  BY DEF GitInv, CallOK
<1>1. CallOK(f) /\ g = Answered(f, status, sha, changed)
  BY SetCallSets DEF GitInv, Answer, Answered
<1>2. /\ CallShape(g) /\ g.pc = "done" /\ g.status = status
      /\ g.flavour = f.flavour /\ g.files = f.files /\ g.todo = f.todo /\ g.entries = f.entries
      /\ g.base = f.base /\ g.sha = sha /\ g.changed = changed
  BY <1>0, <1>1, AnswerFields
<1> QED
  BY <1>1, <1>2 DEF CallOK, Pending, Under

LEMMA AnswerEnds ==
  ASSUME GitInv, NEW c \in GitClients, gitCall[c].pc \in Under, history' = history,
         NEW status \in Results, NEW sha, NEW changed, Answer(c, status, sha, changed),
         status = "success" => Pending(gitCall[c]) = {}
  PROVE  CallOK(gitCall'[c]) /\ Moves(c, gitCall[c], gitCall'[c])
<1> DEFINE f == gitCall[c]
           g == gitCall'[c]
<1>1. /\ CallOK(g) /\ g.pc = "done" /\ g.status = status
      /\ g.flavour = f.flavour /\ g.files = f.files /\ Pending(g) = Pending(f)
  BY AnswerMoves
<1>2. Answers(f, g)
  BY <1>1 DEF Answers
<1> QED
  BY <1>1, <1>2 DEF Moves

LEMMA ErrorEnds ==
  ASSUME GitInv, NEW c \in GitClients, gitCall[c].pc \in Under, history' = history,
         TerminalError(c) \/ Answer(c, "error", Blank, TRUE)
  PROVE  Goes(c)
<1>1. PICK status \in Results \ {"success"} : Answer(c, status, Blank, TRUE)
  BY DEF TerminalError, Results
<1>2. CallOK(gitCall'[c]) /\ Moves(c, gitCall[c], gitCall'[c])
  BY <1>1, AnswerEnds
<1>3. gitCall'[c].pc = "done" /\ gitCall'[c].status # "success"
  BY <1>1, AnswerMoves
<1> QED
  BY <1>2, <1>3 DEF Goes, Learns

LEMMA RefuseMoves ==
  ASSUME GitInv, NEW c \in GitClients, Refuse(c)
  PROVE  Goes(c)
<1>1. gitCall[c].pc \in Under /\ Answer(c, "error", Blank, TRUE) /\ history' = history
  BY DEF Refuse, Under
<1> QED
  BY <1>1, ErrorEnds

LEMMA GetRefMoves ==
  ASSUME GitInv, NEW c \in GitClients, GetRef(c)
  PROVE  Goes(c)
<1> DEFINE f == gitCall[c]
           g == gitCall'[c]
<1>0. CallShape(f)
  BY DEF GitInv, CallOK
<1>1. CallOK(f) /\ f.pc = "getRef" /\ f.pc \in Under /\ history' = history
  BY DEF GitInv, GetRef, Under
<1>2. CASE SetCall(c, [f EXCEPT !.pc = "compare", !.base = Len(history)])
  <2>1. g = Based(f, Len(history))
    BY <1>2, SetCallSets DEF Based
  <2>2. /\ CallShape(g) /\ g.pc = "compare"
        /\ g.flavour = f.flavour /\ g.files = f.files /\ g.todo = f.todo /\ g.entries = f.entries
        /\ g.base = Len(history) /\ g.sha = f.sha /\ g.changed = f.changed
    BY <1>0, <2>1, BaseFields
  <2>3. CallOK(g) /\ Turns(f, g)
    BY <1>1, <2>2 DEF CallOK, Turns, Pending, Under
  <2>4. Learns(c, f, g)
    BY <1>1, <2>2 DEF Learns
  <2> QED
    BY <2>2, <2>3, <2>4 DEF Goes, Moves
<1>3. CASE TerminalError(c)
  BY <1>1, <1>3, ErrorEnds
<1> QED
  BY <1>2, <1>3 DEF GetRef

LEMMA CompareMoves ==
  ASSUME GitInv, NEW c \in GitClients, Compare(c)
  PROVE  Goes(c)
<1> DEFINE f == gitCall[c]
           g == gitCall'[c]
<1>0. CallShape(f)
  BY DEF GitInv, CallOK
<1>1. CallOK(f) /\ f.pc = "compare" /\ f.pc \in Under /\ history' = history
  BY DEF GitInv, Compare, Under
<1> PICK p \in f.todo : SkipFile(c, p) \/ AddEntry(c, p) \/ ReadFile(c, p) \/ ReadSafe(c, p)
  BY DEF Compare
<1>2. CASE SkipFile(c, p)
  <2>1. g = Skipped(f, f.todo \ {p}, f.flavour # "file") /\ Tip.tree[p] = f.files[p]
    BY <1>2, SetCallSets DEF Skipped, SkipFile, Identical
  <2>2. /\ CallShape(g) /\ g.pc = f.pc
        /\ g.flavour = f.flavour /\ g.files = f.files /\ g.todo = f.todo \ {p} /\ g.entries = f.entries
        /\ g.base = f.base /\ g.sha = f.sha /\ g.changed = f.changed
    BY <1>0, <2>1, TodoFields
  <2>3. p \in Pending(f) /\ Pending(g) = Pending(f) \ {p}
    BY <1>1, <2>2 DEF CallOK, Pending
  <2>4. CallOK(g) /\ Finds(f, g) /\ Learns(c, f, g)
    BY <1>1, <2>1, <2>2, <2>3 DEF CallOK, Finds, Under, Learns
  <2> QED
    BY <2>2, <2>4 DEF Goes, Moves
<1>3. CASE SetCall(c, [f EXCEPT !.todo = @ \ {p}, !.entries = @ \cup {p}]) /\ f.flavour = "github"
  <2>1. g = Entered(f, f.todo \ {p}, f.entries \cup {p})
    BY <1>3, SetCallSets DEF Entered
  <2>2. /\ CallShape(g) /\ g.pc = f.pc
        /\ g.flavour = f.flavour /\ g.files = f.files /\ g.todo = f.todo \ {p} /\ g.entries = f.entries \cup {p}
        /\ g.base = f.base /\ g.sha = f.sha /\ g.changed = f.changed
    BY <1>0, <2>1, EntryFields
  <2>3. Pending(g) = Pending(f)
    BY <1>1, <2>2 DEF CallOK, Pending
  <2>4. CallOK(g) /\ Turns(f, g) /\ Learns(c, f, g)
    BY <1>1, <1>3, <2>2, <2>3 DEF CallOK, Turns, Under, Learns
  <2> QED
    BY <2>2, <2>4 DEF Goes, Moves
<1>4. CASE GoWrite(c, p) /\ f.flavour # "github"
  <2>1. g = Readied(f, p, Tip.tree[p])
    BY <1>4, SetCallSets DEF Readied, GoWrite
  <2>2. /\ CallShape(g) /\ g.pc = "write" /\ g.path = p
        /\ g.flavour = f.flavour /\ g.files = f.files /\ g.todo = f.todo /\ g.entries = f.entries
        /\ g.base = f.base /\ g.sha = f.sha /\ g.changed = f.changed
    BY <1>0, <2>1, ReadFields
  <2>3. CallOK(g) /\ Turns(f, g) /\ Learns(c, f, g)
    BY <1>1, <1>4, <2>2 DEF CallOK, Turns, Pending, Under, Learns
  <2> QED
    BY <2>2, <2>3 DEF Goes, Moves
<1>5. CASE TerminalError(c)
  BY <1>1, <1>5, ErrorEnds
<1> QED
  BY <1>2, <1>3, <1>4, <1>5 DEF AddEntry, ReadFile, ReadSafe

LEMMA OneFileOver ==
  ASSUME NEW tree, NEW files, NEW p
  PROVE  Overlay(tree, [q \in {p} |-> files[p]], {p}) = Overlay(tree, files, {p})
BY DEF Overlay

LEMMA OverwrittenPuts ==
  ASSUME NEW c, NEW x, history' = Overwritten(c, x), Len(history) < MaxCommits
  PROVE  /\ Puts(c, [q \in {gitCall[c].path} |-> x], {gitCall[c].path})
         /\ x = gitCall[c].files[gitCall[c].path] => Puts(c, gitCall[c].files, {gitCall[c].path})
BY OneFileOver DEF Overwritten, Puts

LEMMA FileDoneFields ==
  ASSUME GitInv, NEW c \in GitClients, gitCall[c].pc \in {"write", "fill"}, FileDone(c)
  PROVE  LET f == gitCall[c]
             g == gitCall'[c]
         IN /\ CallOK(g) /\ g.pc = "compare" /\ g.flavour = f.flavour /\ g.files = f.files
            /\ Pending(g) = Pending(f) \ {f.path}
            /\ g.base = f.base /\ g.sha = Len(history) + 1
<1> DEFINE f == gitCall[c]
           g == gitCall'[c]
<1>0. CallOK(f)
  BY DEF GitInv
<1> DEFINE todo == f.todo \ {f.path}
           sha == Len(history) + 1
           written == f.written + 1
<1>1. g = Wrote(f, todo, sha, written)
  BY SetCallSets DEF Wrote, FileDone
<1>2. CallShape(f)
  BY <1>0 DEF CallOK
<1> HIDE DEF todo, sha, written
<1>3. /\ CallShape(g) /\ g.pc = "compare"
      /\ g.flavour = f.flavour /\ g.files = f.files /\ g.todo = todo /\ g.entries = f.entries
      /\ g.base = f.base /\ g.sha = sha
  BY <1>1, <1>2, WrittenFields
<1>4. f.path \in f.todo
  BY <1>0 DEF CallOK
<1> QED
  BY <1>0, <1>3, <1>4 DEF CallOK, Pending, Under, todo, sha

LEMMA WriteFileMoves ==
  ASSUME GitInv, NEW c \in GitClients, WriteFile(c)
  PROVE  Goes(c)
<1> DEFINE f == gitCall[c]
           g == gitCall'[c]
           p == f.path
<1>1. CallOK(f) /\ f.pc = "write" /\ f.pc \in Under /\ f.flavour = "gitea" /\ Len(history) < MaxCommits
  BY DEF GitInv, WriteFile, Under
<1>2. p \in Pending(f) /\ {p} \in SUBSET Pending(f) /\ {p} # {} /\ {p} \in SUBSET DOMAIN f.files
  BY <1>1 DEF CallOK, Pending
<1>3. ASSUME history' = Overwritten(c, f.files[p]) PROVE Puts(c, f.files, {p})
  BY <1>1, <1>3, OverwrittenPuts
<1>4. CASE Unlocked(c) /\ history' = Overwritten(c, f.files[p]) /\ FileDone(c)
  <2>1. /\ CallOK(g) /\ g.pc = "compare" /\ g.flavour = f.flavour /\ g.files = f.files
        /\ Pending(g) = Pending(f) \ {p} /\ g.base = f.base /\ g.sha = Len(history) + 1
    BY <1>1, <1>4, FileDoneFields
  <2>2. Lands(c, f, g) /\ Learns(c, f, g)
    BY <1>1, <1>2, <1>3, <1>4, <2>1 DEF Lands, Under, Unlocked, Learns
  <2> QED
    BY <2>1, <2>2 DEF Goes, Moves
<1>5. CASE TerminalError(c) /\ history' = history
  BY <1>1, <1>5, ErrorEnds
<1>6. CASE TerminalError(c) /\ history' = Overwritten(c, f.files[p]) /\ Unlocked(c)
  <2>1. /\ CallOK(g) /\ g.pc = "done" /\ g.status = "terminal_error"
        /\ g.flavour = f.flavour /\ g.files = f.files /\ Pending(g) = Pending(f)
    BY <1>1, <1>6, AnswerMoves DEF TerminalError, Results
  <2>2. Lands(c, f, g) /\ Learns(c, f, g)
    BY <1>1, <1>2, <1>3, <1>6, <2>1 DEF Lands, Under, Unlocked, Learns
  <2> QED
    BY <2>1, <2>2 DEF Goes, Moves
<1> QED
  BY <1>4, <1>5, <1>6 DEF WriteFile

LEMMA TruncateMoves ==
  ASSUME GitInv, NEW c \in GitClients, Truncate(c)
  PROVE  Goes(c)
<1> DEFINE f == gitCall[c]
           g == gitCall'[c]
<1>0. CallShape(f)
  BY DEF GitInv, CallOK
<1>1. CallOK(f) /\ f.pc = "write" /\ f.pc \in Under /\ f.flavour = "file" /\ Len(history) < MaxCommits
  BY DEF GitInv, Truncate, Under
<1>2. CASE history' = Overwritten(c, Blank) /\ SetCall(c, [f EXCEPT !.pc = "fill"])
  <2>1. g = Placed(f, "fill")
    BY <1>2, SetCallSets DEF Placed
  <2>2. /\ CallShape(g) /\ g.pc = "fill" /\ g.path = f.path
        /\ g.flavour = f.flavour /\ g.files = f.files /\ g.todo = f.todo /\ g.entries = f.entries
    BY <1>0, <2>1, PcFields
  <2>3. CallOK(g) /\ Pending(g) = Pending(f) /\ f.path \in Pending(f) /\ g.pc \in Under
    BY <1>1, <2>2 DEF CallOK, Pending, Under
  <2>4. Puts(c, [q \in {f.path} |-> Blank], {f.path})
    BY <1>1, <1>2, OverwrittenPuts
  <2>5. Spoils(c, f, g)
    BY <1>1, <2>3, <2>4 DEF Spoils
  <2> QED
    BY <1>1, <2>2, <2>3, <2>5 DEF Goes, Moves, Learns
<1>3. CASE TerminalError(c) /\ history' = history
  BY <1>1, <1>3, ErrorEnds
<1> QED
  BY <1>2, <1>3 DEF Truncate

LEMMA FillMoves ==
  ASSUME GitInv, NEW c \in GitClients, Fill(c)
  PROVE  Goes(c)
<1> DEFINE f == gitCall[c]
           g == gitCall'[c]
           p == f.path
<1>1. CallOK(f) /\ f.pc = "fill" /\ f.pc \in Under /\ Len(history) < MaxCommits
  BY DEF GitInv, Fill, Under
<1>2. f.flavour = "file" /\ p \in Pending(f) /\ {p} \in SUBSET Pending(f) /\ {p} # {}
  BY <1>1 DEF CallOK, Pending
<1>3. ASSUME history' = Overwritten(c, Torn) PROVE Puts(c, [q \in {p} |-> Torn], {p})
  BY <1>1, <1>3, OverwrittenPuts
<1>4. CASE FileDone(c) /\ history' = Overwritten(c, f.files[p])
  <2>1. /\ CallOK(g) /\ g.pc = "compare" /\ g.flavour = f.flavour /\ g.files = f.files
        /\ Pending(g) = Pending(f) \ {p}
    BY <1>1, <1>4, FileDoneFields
  <2>2. Puts(c, f.files, {p})
    BY <1>1, <1>4, OverwrittenPuts
  <2>3. Lands(c, f, g)
    BY <1>1, <1>2, <2>1, <2>2 DEF Lands, Under
  <2> QED
    BY <1>2, <2>1, <2>3 DEF Goes, Moves, Learns
<1>5. CASE FileDone(c) /\ history' = Overwritten(c, Torn) /\ Tip.tree[p] \notin {Blank, f.files[p]}
  <2>1. /\ CallOK(g) /\ g.pc = "compare" /\ g.flavour = f.flavour /\ g.files = f.files
        /\ Pending(g) = Pending(f) \ {p}
    BY <1>1, <1>5, FileDoneFields
  <2>2. Spoils(c, f, g)
    BY <1>1, <1>2, <1>3, <1>5, <2>1 DEF Spoils, Under
  <2> QED
    BY <1>2, <2>1, <2>2 DEF Goes, Moves, Learns
<1>6. CASE TerminalError(c) /\ history' = history
  BY <1>1, <1>6, ErrorEnds
<1>7. CASE TerminalError(c) /\ history' = Overwritten(c, Torn)
  <2>1. /\ CallOK(g) /\ g.pc = "done" /\ g.status = "terminal_error"
        /\ g.flavour = f.flavour /\ g.files = f.files /\ Pending(g) = Pending(f)
    BY <1>1, <1>7, AnswerMoves DEF TerminalError, Results
  <2>2. Spoils(c, f, g)
    BY <1>1, <1>2, <1>3, <1>7, <2>1 DEF Spoils
  <2> QED
    BY <1>2, <2>1, <2>2 DEF Goes, Moves, Learns
<1> QED
  BY <1>4, <1>5, <1>6, <1>7 DEF Fill

LEMMA EndOfFilesMoves ==
  ASSUME GitInv, NEW c \in GitClients, EndOfFiles(c)
  PROVE  Goes(c)
<1> DEFINE f == gitCall[c]
           g == gitCall'[c]
<1>0. CallShape(f)
  BY DEF GitInv, CallOK
<1>1. CallOK(f) /\ f.pc = "compare" /\ f.pc \in Under /\ f.todo = {} /\ history' = history
  BY DEF GitInv, EndOfFiles, Under
<1>2. CASE NothingToCommit(c) \/ FilesWritten(c)
  <2>1. Pending(f) = {}
    BY <1>1, <1>2 DEF NothingToCommit, FilesWritten, Pending, CallOK
  <2>2. PICK sha, changed :
               /\ Answer(c, "success", sha, changed)
               /\ f.flavour # "file" => \/ changed = FALSE /\ sha \in {f.base, Len(history), Blank}
                                        \/ f.changed /\ sha = f.sha
    BY <1>2 DEF NothingToCommit, FilesWritten
  <2>3. CallOK(g) /\ Moves(c, f, g)
    BY <1>1, <2>1, <2>2, AnswerEnds DEF Results
  <2>4. g.pc = "done" /\ g.sha = sha /\ g.changed = changed
    BY <1>1, <2>2, AnswerMoves DEF Results
  <2> QED
    BY <1>1, <2>2, <2>3, <2>4 DEF Goes, Learns
<1>3. CASE SetCall(c, [f EXCEPT !.pc = "updateRef"]) /\ f.flavour = "github" /\ f.entries # {}
  <2>1. g = Placed(f, "updateRef")
    BY <1>3, SetCallSets DEF Placed
  <2>2. /\ CallShape(g) /\ g.pc = "updateRef"
        /\ g.flavour = f.flavour /\ g.files = f.files /\ g.todo = f.todo /\ g.entries = f.entries
        /\ g.base = f.base /\ g.sha = f.sha /\ g.changed = f.changed
    BY <1>0, <2>1, PcFields
  <2>3. CallOK(g) /\ Turns(f, g) /\ Learns(c, f, g)
    BY <1>1, <1>3, <2>2 DEF CallOK, Turns, Pending, Under, Learns
  <2> QED
    BY <2>2, <2>3 DEF Goes, Moves
<1>4. CASE TerminalError(c)
  BY <1>1, <1>4, ErrorEnds
<1> QED
  BY <1>2, <1>3, <1>4 DEF EndOfFiles, CreateCommit

LEMMA UpdateRefMoves ==
  ASSUME GitInv, NEW c \in GitClients, UpdateRef(c)
  PROVE  Goes(c)
<1> DEFINE f == gitCall[c]
           g == gitCall'[c]
           moved == Append(history, Commit(NewTree(c), BaseCommit(c).status, c))
<1>1. CallOK(f) /\ f.pc = "updateRef" /\ f.pc \in Under /\ Len(history) < MaxCommits
  BY DEF GitInv, UpdateRef, Under
<1>2. /\ f.entries \in SUBSET Pending(f) /\ f.entries # {} /\ f.flavour = "github" /\ Pending(f) = f.entries
      /\ f.entries \in SUBSET DOMAIN f.files
  BY <1>1 DEF CallOK, Pending
<1>3. ASSUME NEW status \in Results, NEW sha, NEW changed, Answer(c, status, sha, changed),
             status = "success" => sha = Len(history) + 1, FastForward(c), history' = moved
      PROVE  Goes(c)
  <2>1. /\ CallOK(g) /\ g.pc = "done" /\ g.status = status
        /\ g.flavour = f.flavour /\ g.files = f.files /\ Pending(g) = Pending(f)
        /\ g.base = f.base /\ g.sha = sha
    BY <1>1, <1>3, AnswerMoves
  <2>2. BaseCommit(c) = Tip
    BY <1>3 DEF FastForward, BaseCommit, Tip
  <2>3. Puts(c, f.files, f.entries)
    BY <1>1, <1>3, <2>2 DEF NewTree, Puts
  <2>4. Lands(c, f, g) /\ Learns(c, f, g)
    BY <1>1, <1>2, <1>3, <2>1, <2>2, <2>3 DEF Lands, Under, Learns
  <2> QED
    BY <2>1, <2>4 DEF Goes, Moves
<1>4. CASE TerminalError(c) /\ history' = history
  BY <1>1, <1>4, ErrorEnds
<1> QED
  BY <1>3, <1>4 DEF UpdateRef, TerminalError, Results

LEMMA GitStepMoves ==
  ASSUME GitInv, NEW c \in GitClients, GitStep(c)
  PROVE  Goes(c)
BY RefuseMoves, GetRefMoves, CompareMoves, WriteFileMoves, TruncateMoves, FillMoves, EndOfFilesMoves, UpdateRefMoves
   DEF GitStep

-----------------------------------------------------------------------------
(* Every step of the system, seen from the branch and the calls.            *)

Single(c) == \E r : SetCall(c, r)

Opens(c) ==
  /\ history' = history /\ gitCall[c].pc = "idle" /\ gitCall'[c].pc \in Under
  /\ gitCall'[c].entries = {} /\ gitCall'[c].todo = DOMAIN gitCall'[c].files

Closes(c) == history' = history /\ gitCall'[c] = NoCall

CallStep(c) ==
  /\ Single(c) /\ CallOK(gitCall'[c])
  /\ Opens(c) \/ Moves(c, gitCall[c], gitCall'[c]) \/ Closes(c)

Quiet == history' = history /\ gitCall' = gitCall

\* Argo CD speaks of a commit that is there, or of a name that none has.
ArgoCommits ==
  /\ \E status : /\ status.sha \in 1..Len(history) \cup {MockSha(0), MockSha(1)}
                 /\ history' = Append(history, Commit(Tip.tree, status, "argocd"))
  /\ Len(history) < MaxCommits /\ gitCall' = gitCall

LEMMA OpeningStep ==
  ASSUME GitInv, NEW c \in GitClients, NEW flavour, NEW files, CommitFiles(c, flavour, files)
  PROVE  CallStep(c)
<1> DEFINE pc == IF flavour = "file" THEN "compare" ELSE "getRef"
           g == gitCall'[c]
<1>1. SetCall(c, Opened(pc, flavour, files)) /\ history' = history /\ gitCall[c].pc = "idle"
  BY DEF CommitFiles, Opened
<1>2. g = Opened(pc, flavour, files) /\ pc \in {"compare", "getRef"}
  BY <1>1, SetCallSets
<1> HIDE DEF pc
<1>3. /\ CallShape(g) /\ g.pc = pc
      /\ g.flavour = flavour /\ g.files = files /\ g.todo = DOMAIN files /\ g.entries = {}
  BY <1>2, OpenedFields
<1>4. CallOK(g) /\ g.pc \in Under
  BY <1>2, <1>3 DEF CallOK, Under, Pending
<1>5. Single(c)
  BY <1>1 DEF Single
<1> QED
  BY <1>1, <1>3, <1>4, <1>5 DEF CallStep, Opens

LEMMA NoCallOK == CallOK(NoCall)
BY NoCallFields DEF CallOK, Under, Pending

LEMMA ClosingStep ==
  ASSUME GitInv, NEW c \in GitClients, SetCall(c, NoCall), history' = history
  PROVE  CallStep(c)
<1>1. gitCall'[c] = NoCall /\ Single(c)
  BY SetCallSets DEF Single
<1> QED
  BY <1>1, NoCallOK DEF CallStep, Closes

LEMMA GitStepIsSingle ==
  ASSUME NEW c, GitStep(c)
  PROVE  Single(c)
<1>1. CASE Refuse(c)
  BY <1>1, Zenon DEF Refuse, Answer, Single
<1>2. CASE GetRef(c)
  BY <1>2, Zenon DEF GetRef, TerminalError, Answer, Single
<1>3. CASE Compare(c)
  BY <1>3, Zenon DEF Compare, SkipFile, AddEntry, ReadFile, ReadSafe, GoWrite, TerminalError, Answer, Single
<1>4. CASE WriteFile(c) \/ Truncate(c) \/ Fill(c)
  BY <1>4, Zenon DEF WriteFile, Truncate, Fill, FileDone, TerminalError, Answer, Single
<1>5. CASE EndOfFiles(c)
  BY <1>5, Zenon DEF EndOfFiles, NothingToCommit, FilesWritten, CreateCommit, TerminalError, Answer, Single
<1>6. CASE UpdateRef(c)
  BY <1>6, Zenon DEF UpdateRef, TerminalError, Answer, Single
<1> QED
  BY <1>1, <1>2, <1>3, <1>4, <1>5, <1>6 DEF GitStep

LEMMA ConnectorStep ==
  ASSUME GitInv, NEW c \in GitClients, GitStep(c)
  PROVE  CallStep(c)
BY GitStepMoves, GitStepIsSingle DEF CallStep, Goes

LEMMA ProvisionStepKinds ==
  ASSUME GitInv, [ProvisionNext]_<<gitVars, infraVars>>
  PROVE  Quiet \/ ArgoCommits \/ \E c \in GitClients : CallStep(c)
<1>1. CASE UNCHANGED <<gitVars, infraVars>>
  BY <1>1 DEF gitVars, Quiet
<1>2. CASE WriteStatus
  <2> PICK state \in StatusStates, sha \in 1..Len(history) \cup Given :
             history' = Append(history, Commit(Tip.tree, [sha |-> sha, state |-> state], "argocd"))
    BY <1>2 DEF WriteStatus
  <2>1. sha \in 1..Len(history) \cup {MockSha(0), MockSha(1)}
    BY DEF Given
  <2> QED
    BY <1>2, <2>1 DEF WriteStatus, ArgoCommits
<1>3. ASSUME NEW c \in GitClients, ClientStep(c)
      PROVE  CallStep(c)
  BY <1>3, OpeningStep, ConnectorStep, ClosingStep DEF ClientStep, TakeResult
<1>4. ASSUME NEW j \in InfraJobs, InfraStep(j) \/ Decide(j) \/ Crash(j)
      PROVE  Quiet \/ CallStep(j)
  <2>1. j \in GitClients
    BY InfraBounds
  <2>2. CASE GitCommit(j) \/ Remediate(j)
    BY <2>1, <2>2, OpeningStep DEF GitCommit, Remediate
  <2>3. CASE TakeCommit(j) \/ TakeRecommit(j) \/ Crash(j)
    BY <2>1, <2>3, ClosingStep DEF TakeCommit, TakeRecommit, TakeResult, Crash
  <2>4. CASE GitStep(j)
    BY <2>1, <2>4, ConnectorStep
  <2>5. CASE Start(j) \/ ApprovalGate(j) \/ Decide(j) \/ TakeDecision(j)
    BY <2>5 DEF Start, ApprovalGate, Decide, TakeDecision, NoGit, gitVars, Quiet
  <2>6. CASE Healthy(j) \/ PollTimeout(j) \/ Panic(j)
    BY <2>6 DEF Healthy, PollTimeout, Panic, NoGit, gitVars, Quiet
  <2>7. CASE EvaluatePolicy(j) \/ Unreadable(j) \/ PostCallback(j)
    BY <2>7 DEF EvaluatePolicy, Unreadable, PostCallback, gitVars, Quiet
  <2> QED
    BY <1>4, <2>2, <2>3, <2>4, <2>5, <2>6, <2>7 DEF InfraStep
<1> QED
  BY <1>1, <1>2, <1>3, <1>4, InfraBounds DEF ProvisionNext, InfraNext

LEMMA CallsKept ==
  ASSUME GitInv, NEW c \in GitClients, Single(c)
  PROVE  /\ gitCall' = [d \in GitClients |-> gitCall'[d]]
         /\ \A d \in GitClients \ {c} : gitCall'[d] = gitCall[d]
BY DEF GitInv, Single, SetCall

\* A step of a call that is a commit lands or spoils files of the call.
LEMMA OnlyPutsCommit ==
  ASSUME NEW c, CallStep(c), history' # history
  PROVE  /\ Lands(c, gitCall[c], gitCall'[c]) \/ Spoils(c, gitCall[c], gitCall'[c])
         /\ gitCall[c].pc \in Under /\ \E files, set : Puts(c, files, set)
<1>1. Lands(c, gitCall[c], gitCall'[c]) \/ Spoils(c, gitCall[c], gitCall'[c])
  BY DEF CallStep, Opens, Closes, Moves, Turns, Finds, Answers
<1>2. gitCall[c].pc \in Under
  BY <1>1 DEF Lands, Spoils
<1>3. \E files, set : Puts(c, files, set)
  BY <1>1 DEF Lands, Spoils
<1> QED
  BY <1>1, <1>2, <1>3

LEMMA GitInvStarts == GitInit => GitInv
<1> SUFFICES ASSUME GitInit PROVE GitInv
  OBVIOUS
<1> PICK tree \in Trees : history = <<Commit(tree, NoStatus, "argocd")>>
  BY DEF GitInit
<1>1. history \in Seq({Commit(tree, NoStatus, "argocd")}) /\ Len(history) = 1
  OBVIOUS
<1>2. \E S : history \in Seq(S)
  BY <1>1, Zenon
<1>3. Branch(history)
  BY <1>1, <1>2 DEF Branch
<1> QED
  BY <1>3, NoCallOK DEF GitInit, GitInv

LEMMA GitInvKept == GitInv /\ [ProvisionNext]_<<gitVars, infraVars>> => GitInv'
<1> SUFFICES ASSUME GitInv, [ProvisionNext]_<<gitVars, infraVars>> PROVE GitInv'
  OBVIOUS
<1>1. CASE Quiet
  BY <1>1 DEF Quiet, GitInv, CallOK
<1>2. CASE ArgoCommits
  <2>1. Branch(history')
    BY <1>2, BranchGrows DEF ArgoCommits, GitInv
  <2> QED
    BY <1>2, <2>1 DEF ArgoCommits, GitInv
<1>3. ASSUME NEW c \in GitClients, CallStep(c) PROVE GitInv'
  <2>1. Branch(history')
    <3>1. history' = history \/ \E x : history' = Append(history, x)
      BY <1>3, OnlyPutsCommit DEF Puts
    <3>2. ASSUME NEW x, history' = Append(history, x) PROVE Branch(history')
      BY <3>2, BranchGrows DEF GitInv
    <3> QED
      BY <3>1, <3>2 DEF GitInv
  <2>2. /\ gitCall' = [d \in GitClients |-> gitCall'[d]]
        /\ \A d \in GitClients \ {c} : gitCall'[d] = gitCall[d]
    BY <1>3, CallsKept DEF CallStep
  <2>3. \A d \in GitClients : CallOK(gitCall'[d])
    BY <1>3, <2>2 DEF CallStep, GitInv
  <2> QED
    BY <2>1, <2>2, <2>3 DEF GitInv
<1> QED
  BY <1>1, <1>2, <1>3, ProvisionStepKinds

-----------------------------------------------------------------------------
(* commit_files keeps its promise, and loses nobody's update.               *)

LEMMA ProvisionKeepsGitInv == ProvisionSpec => []GitInv
BY GitInvStarts, GitInvKept, PTL DEF ProvisionSpec

LEMMA TipOfAppend ==
  ASSUME GitInv, NEW x, history' = Append(history, x)
  PROVE  Tip' = x
BY BranchGrows DEF GitInv, Tip, Branch

\* A commit through a hosting service never replaces a version of a file that
\* its call did not start from, for any number of clients, files and commits
\* (UpdateRef without force, updateFile with the blob's sha).
THEOREM UpdatesAreNotLost == ProvisionSpec => NoLostUpdate
<1> DEFINE Kept(c) ==
             Len(history') > Len(history) /\ Tip'.by = c /\ gitCall[c].flavour # "file" =>
               \A p \in Paths : Tip'.tree[p] # Tip.tree[p] =>
                 Tip.tree[p] = (IF gitCall[c].flavour = "github" THEN BaseCommit(c).tree[p] ELSE gitCall[c].seen)
<1>1. ASSUME GitInv, [ProvisionNext]_<<gitVars, infraVars>>, NEW c \in GitClients
      PROVE  Kept(c)
  <2> SUFFICES ASSUME Len(history') > Len(history), Tip'.by = c, gitCall[c].flavour # "file",
                      NEW p \in Paths, Tip'.tree[p] # Tip.tree[p]
               PROVE  Tip.tree[p] = IF gitCall[c].flavour = "github" THEN BaseCommit(c).tree[p] ELSE gitCall[c].seen
    OBVIOUS
  <2>1. history' # history
    BY <1>1 DEF GitInv, Branch
  <2>2. CASE ArgoCommits
    <3> PICK status : history' = Append(history, Commit(Tip.tree, status, "argocd"))
      BY <2>2 DEF ArgoCommits
    <3>1. Tip'.by = "argocd"
      BY <1>1, TipOfAppend DEF Commit
    <3> QED
      BY <1>1, <3>1, GitNames
  <2>3. ASSUME NEW d \in GitClients, CallStep(d)
        PROVE  Tip.tree[p] = IF gitCall[c].flavour = "github" THEN BaseCommit(c).tree[p] ELSE gitCall[c].seen
    <3>0. PICK others, some : Puts(d, others, some)
      BY <2>1, <2>3, OnlyPutsCommit
    <3>1. d = c
      BY <1>1, <3>0, TipOfAppend DEF Puts, Commit
    <3>2. Lands(d, gitCall[d], gitCall'[d])
      BY <2>1, <2>3, <3>1, OnlyPutsCommit DEF Spoils
    <3> PICK set :
               /\ set \in SUBSET Pending(gitCall[d])
               /\ Puts(d, gitCall[d].files, set)
               /\ gitCall[d].flavour # "file" =>
                    \A q \in set : Tip.tree[q] = IF gitCall[d].flavour = "github" THEN BaseCommit(d).tree[q]
                                                 ELSE gitCall[d].seen
      BY <3>2 DEF Lands
    <3>3. Tip'.tree = Overlay(Tip.tree, gitCall[d].files, set)
      BY <1>1, TipOfAppend DEF Puts, Commit
    <3>4. p \in set
      BY <3>3 DEF Overlay
    <3> QED
      BY <3>1, <3>4
  <2> QED
    BY <1>1, <2>1, <2>2, <2>3, ProvisionStepKinds DEF Quiet
<1>2. GitInv /\ [ProvisionNext]_<<gitVars, infraVars>> => [\A c \in GitClients : Kept(c)]_history
  BY <1>1
<1> QED
  BY <1>2, ProvisionKeepsGitInv, PTL DEF ProvisionSpec, NoLostUpdate

\* The call of a client as the abstract store sees it.
StoreCall(f) ==
  [wanted |-> f.files, pending |-> Pending(f), atomic |-> f.flavour # "file",
   state |-> IF f.pc = "idle" THEN "none"
             ELSE IF f.pc # "done" THEN "open"
             ELSE IF f.status = "success" THEN "ok" ELSE "failed"]

StoreCalls == [c \in GitClients |-> StoreCall(gitCall[c])]

LEMMA StoreCallKinds ==
  ASSUME NEW f
  PROVE  /\ StoreCall(f).wanted = f.files /\ StoreCall(f).pending = Pending(f)
         /\ StoreCall(f).atomic <=> f.flavour # "file"
         /\ f.pc = "idle" => StoreCall(f).state = "none"
         /\ f.pc \in Under => StoreCall(f).state = "open"
         /\ f.pc = "done" => StoreCall(f).state = IF f.status = "success" THEN "ok" ELSE "failed"
BY DEF StoreCall, Under

LEMMA StorePending ==
  ASSUME NEW f, NEW g, g.files = f.files, g.flavour = f.flavour, StoreCall(g).state = StoreCall(f).state
  PROVE  StoreCall(g) = [StoreCall(f) EXCEPT !.pending = Pending(g)]
BY DEF StoreCall

LEMMA StoreState ==
  ASSUME NEW f, NEW g, g.files = f.files, g.flavour = f.flavour, Pending(g) = Pending(f)
  PROVE  StoreCall(g) = [StoreCall(f) EXCEPT !.state = StoreCall(g).state]
BY DEF StoreCall

LEMMA StoreMapping ==
  /\ Store!Init <=> \A c \in GitClients : \/ StoreCalls[c].state = "none"
                                          \/ StoreCalls[c].pending = DOMAIN StoreCalls[c].wanted
  /\ \A c : Store!Others(c) <=> \A d \in GitClients \ {c} : StoreCalls'[d] = StoreCalls[d]
BY DEF Store!Init, Store!Others, StoreCalls, StoreCall, Pending

StoreOpen(c) ==
  /\ StoreCalls[c].state = "none" /\ StoreCalls'[c].state = "open"
  /\ StoreCalls'[c].pending = DOMAIN StoreCalls'[c].wanted
  /\ (Tip.tree)' = Tip.tree

StoreFound(c) ==
  \E p \in StoreCalls[c].pending :
    /\ StoreCalls[c].state = "open" /\ Tip.tree[p] = StoreCalls[c].wanted[p]
    /\ StoreCalls' = [StoreCalls EXCEPT ![c].pending = @ \ {p}]
    /\ (Tip.tree)' = Tip.tree

StoreWrite(c) ==
  \E set \in SUBSET StoreCalls[c].pending :
    /\ StoreCalls[c].state = "open" /\ set # {}
    /\ (Tip.tree)' = [p \in Paths |-> IF p \in set THEN StoreCalls[c].wanted[p] ELSE Tip.tree[p]]
    /\ StoreCalls'[c].state \in {"open", "failed"} \cup (IF StoreCalls[c].pending = set THEN {"ok"} ELSE {})
    /\ StoreCalls'[c].pending \in {StoreCalls[c].pending, StoreCalls[c].pending \ set}
    /\ StoreCalls'[c].wanted = StoreCalls[c].wanted /\ StoreCalls'[c].atomic = StoreCalls[c].atomic

StoreSpoil(c) ==
  \E p \in StoreCalls[c].pending, content \in {Blank, Torn} :
    /\ StoreCalls[c].state = "open" /\ ~StoreCalls[c].atomic
    /\ (Tip.tree)' = [q \in Paths |-> IF q = p THEN content ELSE Tip.tree[q]]
    /\ \/ content = Blank /\ StoreCalls' = StoreCalls
       \/ content = Torn /\ StoreCalls' = [StoreCalls EXCEPT ![c].state = "failed"]
       \/ /\ content = Torn /\ Tip.tree[p] \notin {Blank, StoreCalls[c].wanted[p]}
          /\ StoreCalls' = [StoreCalls EXCEPT ![c].pending = @ \ {p}]

StoreSucceed(c) ==
  /\ StoreCalls[c].state = "open" /\ StoreCalls[c].pending = {}
  /\ StoreCalls' = [StoreCalls EXCEPT ![c].state = "ok"]
  /\ (Tip.tree)' = Tip.tree

StoreFail(c) ==
  /\ StoreCalls[c].state = "open"
  /\ StoreCalls' = [StoreCalls EXCEPT ![c].state = "failed"]
  /\ (Tip.tree)' = Tip.tree

StoreClose(c) ==
  /\ StoreCalls[c].state # "none" /\ StoreCalls'[c].state = "none"
  /\ (Tip.tree)' = Tip.tree

StoreMove(c) ==
  /\ \A d \in GitClients \ {c} : StoreCalls'[d] = StoreCalls[d]
  /\ \/ StoreOpen(c) \/ StoreFound(c) \/ StoreWrite(c) \/ StoreSpoil(c)
     \/ StoreSucceed(c) \/ StoreFail(c) \/ StoreClose(c)

\* The actions of FileStore under the mapping.
LEMMA StoreActions ==
  ASSUME NEW c \in GitClients, StoreMove(c)
  PROVE  Store!Next
<1>1. Store!Others(c)
  BY DEF StoreMove, Store!Others, StoreCalls, StoreCall, Pending
<1>2. StoreOpen(c) => Store!Open(c)
  BY DEF StoreOpen, Store!Open, StoreCalls, StoreCall, Pending
<1>3. StoreFound(c) => Store!Found(c)
  BY DEF StoreFound, Store!Found, StoreCalls, StoreCall, Pending
<1>4. StoreWrite(c) => Store!Write(c)
  BY DEF StoreWrite, Store!Write, StoreCalls, StoreCall, Pending
<1>5. StoreSucceed(c) => Store!Succeed(c)
  BY DEF StoreSucceed, Store!Succeed, StoreCalls, StoreCall, Pending
<1>6. StoreFail(c) => Store!Fail(c)
  BY DEF StoreFail, Store!Fail, StoreCalls, StoreCall, Pending
<1>7. StoreClose(c) => Store!Close(c)
  BY DEF StoreClose, Store!Close, StoreCalls, StoreCall, Pending
<1>8. StoreSpoil(c) => Store!Spoil(c)
  BY DEF StoreSpoil, Store!Spoil, StoreCalls, StoreCall, Pending
<1> QED
  BY <1>1, <1>2, <1>3, <1>4, <1>5, <1>6, <1>7, <1>8 DEF StoreMove, Store!Next

LEMMA CallStepMoves ==
  ASSUME GitInv, NEW c \in GitClients, CallStep(c)
  PROVE  StoreMove(c) \/ ((Tip.tree)' = Tip.tree /\ StoreCalls' = StoreCalls)
<1> DEFINE f == gitCall[c]
           g == gitCall'[c]
<1>1. /\ gitCall' = [d \in GitClients |-> gitCall'[d]]
      /\ \A d \in GitClients \ {c} : gitCall'[d] = gitCall[d]
  BY CallsKept DEF CallStep
<1>2. /\ StoreCalls[c] = StoreCall(f) /\ StoreCalls'[c] = StoreCall(g)
      /\ \A d \in GitClients \ {c} : StoreCalls'[d] = StoreCalls[d]
      /\ StoreCalls' = [StoreCalls EXCEPT ![c] = StoreCall(g)]
  BY <1>1 DEF StoreCalls
<1>3. CallOK(f) /\ CallOK(g) /\ Branch(history)
  BY DEF GitInv, CallStep
<1>4. history' = history => (Tip.tree)' = Tip.tree
  BY DEF Tip
<1> HIDE DEF f, g
<1>5. CASE Opens(c)
  <2>1. /\ StoreCall(f).state = "none" /\ StoreCall(g).state = "open"
        /\ StoreCall(g).pending = DOMAIN StoreCall(g).wanted
    BY <1>5, StoreCallKinds DEF Opens, Pending, f, g
  <2> QED
    BY <1>2, <1>4, <1>5, <2>1 DEF StoreMove, StoreOpen, Opens
<1>6. CASE Closes(c)
  <2>1. g = NoCall /\ StoreCall(g).state = "none"
    BY <1>6, StoreCallKinds, NoCallFields DEF Closes, g
  <2>2. CASE f.pc = "idle"
    <3>1. g = f
      BY <1>3, <2>1, <2>2 DEF CallOK
    <3>2. StoreCalls' = StoreCalls
      BY <1>2, <3>1 DEF StoreCalls
    <3> QED
      BY <1>4, <1>6, <3>2 DEF Closes
  <2>3. CASE f.pc # "idle"
    <3>1. StoreCall(f).state # "none"
      BY <1>3, <2>3, StoreCallKinds DEF CallOK, StoreCall
    <3> QED
      BY <1>2, <1>4, <1>6, <2>1, <3>1 DEF StoreMove, StoreClose, Closes
  <2> QED
    BY <2>2, <2>3
<1> DEFINE Same == g.files = f.files /\ g.flavour = f.flavour
<1>7. CASE Same /\ Turns(f, g)
  <2>1. StoreCall(g) = StoreCall(f)
    BY <1>7, StoreCallKinds DEF Turns, StoreCall, Under
  <2>2. StoreCalls' = StoreCalls
    BY <1>2, <2>1 DEF StoreCalls
  <2> QED
    BY <1>4, <1>7, <2>2 DEF Turns
<1>8. CASE Same /\ Finds(f, g)
  <2> PICK p \in Pending(f) : Tip.tree[p] = f.files[p] /\ Pending(g) = Pending(f) \ {p}
    BY <1>8 DEF Finds
  <2>1. /\ StoreCall(f).state = "open" /\ StoreCall(g).state = "open"
        /\ StoreCall(f).pending = Pending(f) /\ StoreCall(f).wanted = f.files
        /\ (Tip.tree)' = Tip.tree
    BY <1>4, <1>8, StoreCallKinds DEF Finds
  <2>2. StoreCall(g) = [StoreCall(f) EXCEPT !.pending = Pending(f) \ {p}]
    BY <1>8, <2>1, StorePending
  <2>3. StoreCalls' = [StoreCalls EXCEPT ![c].pending = @ \ {p}]
    BY <1>2, <2>1, <2>2
  <2>4. StoreFound(c)
    <3>1. p \in StoreCalls[c].pending /\ Tip.tree[p] = StoreCalls[c].wanted[p] /\ StoreCalls[c].state = "open"
      BY <1>2, <2>1
    <3> QED
      BY <2>1, <2>3, <3>1 DEF StoreFound
  <2> QED
    BY <1>2, <2>4 DEF StoreMove
<1>9. CASE Same /\ Answers(f, g)
  <2>1. /\ StoreCall(f).state = "open" /\ StoreCall(f).pending = Pending(f)
        /\ StoreCall(g) = [StoreCall(f) EXCEPT !.state = StoreCall(g).state]
    BY <1>9, StoreCallKinds, StoreState DEF Answers
  <2>2. \/ StoreCall(g).state = "failed"
        \/ StoreCall(g).state = "ok" /\ Pending(f) = {}
    BY <1>9, StoreCallKinds DEF Answers
  <2>3. StoreCalls' = [StoreCalls EXCEPT ![c].state = StoreCall(g).state]
    BY <1>2, <2>1
  <2>4. StoreFail(c) \/ StoreSucceed(c)
    BY <1>2, <1>4, <1>9, <2>1, <2>2, <2>3 DEF StoreFail, StoreSucceed, Answers
  <2> QED
    BY <1>2, <2>4 DEF StoreMove
<1>10. CASE Same /\ Lands(c, f, g)
  <2> PICK set \in SUBSET Pending(f) :
             /\ set # {} /\ f.pc \in Under /\ g.pc \in Under \cup {"done"} /\ Puts(c, f.files, set)
             /\ Pending(g) \in {Pending(f), Pending(f) \ set}
             /\ g.pc = "done" /\ g.status = "success" => Pending(f) = set
    BY <1>10 DEF Lands
  <2>1. (Tip.tree)' = [p \in Paths |-> IF p \in set THEN f.files[p] ELSE Tip.tree[p]]
    BY TipOfAppend DEF Puts, Commit, Overlay
  <2>2. /\ StoreCall(f).state = "open" /\ StoreCall(f).pending = Pending(f) /\ StoreCall(f).wanted = f.files
        /\ StoreCall(g).pending = Pending(g) /\ StoreCall(g).wanted = f.files
    BY <1>10, StoreCallKinds
  <2>3. StoreCall(g).state \in {"open", "failed"} \cup (IF Pending(f) = set THEN {"ok"} ELSE {})
    BY StoreCallKinds
  <2>4. StoreCall(g).atomic = StoreCall(f).atomic
    BY <1>10 DEF StoreCall
  <2>5. StoreWrite(c)
    BY <1>2, <2>1, <2>2, <2>3, <2>4 DEF StoreWrite
  <2> QED
    BY <1>2, <2>5 DEF StoreMove
<1>11. CASE Same /\ Spoils(c, f, g)
  <2> PICK p \in Pending(f), x \in {Blank, Torn} :
             /\ f.flavour = "file" /\ f.pc \in Under /\ Puts(c, [q \in {p} |-> x], {p})
             /\ \/ x = Blank /\ g.pc \in Under /\ Pending(g) = Pending(f)
                \/ x = Torn /\ g.pc = "done" /\ g.status # "success" /\ Pending(g) = Pending(f)
                \/ /\ x = Torn /\ Tip.tree[p] \notin {Blank, f.files[p]}
                   /\ g.pc \in Under /\ Pending(g) = Pending(f) \ {p}
    BY <1>11 DEF Spoils
  <2>1. (Tip.tree)' = [q \in Paths |-> IF q = p THEN x ELSE Tip.tree[q]]
    <3> DEFINE tree == Overlay(Tip.tree, [q \in {p} |-> x], {p})
    <3>1. history' = Append(history, Commit(tree, Tip.status, c))
      BY DEF Puts
    <3>2. tree = [q \in Paths |-> IF q = p THEN x ELSE Tip.tree[q]]
      BY DEF Overlay
    <3> HIDE DEF tree
    <3> QED
      BY <3>1, <3>2, TipOfAppend DEF Commit
  <2>2. /\ StoreCall(f).state = "open" /\ ~StoreCall(f).atomic
        /\ StoreCall(f).pending = Pending(f) /\ StoreCall(f).wanted = f.files
    BY StoreCallKinds
  <2>3. CASE x = Blank /\ g.pc \in Under /\ Pending(g) = Pending(f)
    <3>1. StoreCall(g) = StoreCall(f)
      BY <1>11, <2>3 DEF StoreCall, Under
    <3>2. StoreCalls' = StoreCalls
      BY <1>2, <3>1 DEF StoreCalls
    <3> QED
      BY <1>2, <2>1, <2>2, <2>3, <3>2 DEF StoreMove, StoreSpoil
  <2>4. CASE x = Torn /\ g.pc = "done" /\ g.status # "success" /\ Pending(g) = Pending(f)
    <3>1. StoreCall(g) = [StoreCall(f) EXCEPT !.state = "failed"]
      BY <1>11, <2>4, StoreState, StoreCallKinds
    <3>2. StoreCalls' = [StoreCalls EXCEPT ![c].state = "failed"]
      BY <1>2, <3>1
    <3>3. /\ p \in StoreCalls[c].pending /\ Torn \in {Blank, Torn}
          /\ StoreCalls[c].state = "open" /\ ~StoreCalls[c].atomic
          /\ (Tip.tree)' = [q \in Paths |-> IF q = p THEN Torn ELSE Tip.tree[q]]
      BY <1>2, <2>1, <2>2, <2>4
    <3>4. StoreSpoil(c)
      BY <3>2, <3>3, Zenon DEF StoreSpoil
    <3> QED
      BY <1>2, <3>4 DEF StoreMove
  <2>5. CASE /\ x = Torn /\ Tip.tree[p] \notin {Blank, f.files[p]}
             /\ g.pc \in Under /\ Pending(g) = Pending(f) \ {p}
    <3>1. StoreCall(g) = [StoreCall(f) EXCEPT !.pending = Pending(f) \ {p}]
      <4>1. StoreCall(g).state = StoreCall(f).state
        BY <2>2, <2>5, StoreCallKinds
      <4> QED
        BY <1>11, <2>5, <4>1, StorePending
    <3>2. StoreCalls' = [StoreCalls EXCEPT ![c].pending = @ \ {p}]
      BY <1>2, <2>2, <3>1
    <3>3. /\ p \in StoreCalls[c].pending /\ Tip.tree[p] \notin {Blank, StoreCalls[c].wanted[p]}
          /\ StoreCalls[c].state = "open" /\ ~StoreCalls[c].atomic /\ Torn \in {Blank, Torn}
          /\ (Tip.tree)' = [q \in Paths |-> IF q = p THEN Torn ELSE Tip.tree[q]]
      BY <1>2, <2>1, <2>2, <2>5
    <3>4. StoreSpoil(c)
      BY <3>2, <3>3, Zenon DEF StoreSpoil
    <3> QED
      BY <1>2, <3>4 DEF StoreMove
  <2> QED
    BY <2>3, <2>4, <2>5
<1> QED
  BY <1>5, <1>6, <1>7, <1>8, <1>9, <1>10, <1>11 DEF CallStep, Moves, f, g

\* Whichever connectors serve the calls, with any number of clients, jobs and
\* files, lost answers, crashes and commits of Argo CD: the branch's tip changes
\* only by files that an open call asked for, and a call that answers success
\* found or wrote every one of its files (commitFiles of the three connectors).
\* Only the file connector empties or tears a file, and only one that a call of
\* its own still has to write (O_TRUNC and Write of writeFileSafe).
THEOREM CommitFilesKeepsItsPromise == ProvisionSpec => FilesLand
<1>1. GitInit => Store!Init
  <2> SUFFICES ASSUME GitInit PROVE \A c \in GitClients : StoreCalls[c].state = "none"
    BY DEF Store!Init, StoreCalls, StoreCall, Pending
  <2> QED
    BY StoreCallKinds, NoCallFields DEF GitInit, StoreCalls
<1>2. ASSUME GitInv, [ProvisionNext]_<<gitVars, infraVars>>
      PROVE  Store!Next \/ ((Tip.tree)' = Tip.tree /\ StoreCalls' = StoreCalls)
  <2>1. CASE Quiet
    BY <2>1 DEF Quiet, Tip, StoreCalls
  <2>2. CASE ArgoCommits
    <3> PICK status : history' = Append(history, Commit(Tip.tree, status, "argocd"))
      BY <2>2 DEF ArgoCommits
    <3>1. (Tip.tree)' = Tip.tree
      BY <1>2, TipOfAppend DEF Commit
    <3> QED
      BY <2>2, <3>1 DEF ArgoCommits, StoreCalls
  <2>3. ASSUME NEW c \in GitClients, CallStep(c)
        PROVE  Store!Next \/ ((Tip.tree)' = Tip.tree /\ StoreCalls' = StoreCalls)
    BY <1>2, <2>3, CallStepMoves, StoreActions
  <2> QED
    BY <1>2, <2>1, <2>2, <2>3, ProvisionStepKinds
<1>3. GitInv /\ [ProvisionNext]_<<gitVars, infraVars>> =>
        [Store!Next]_<<Tip.tree, [c \in GitClients |->
              [wanted |-> gitCall[c].files,
               pending |-> gitCall[c].todo \cup gitCall[c].entries,
               atomic |-> gitCall[c].flavour # "file",
               state |-> IF gitCall[c].pc = "idle" THEN "none"
                         ELSE IF gitCall[c].pc # "done" THEN "open"
                         ELSE IF gitCall[c].status = "success" THEN "ok" ELSE "failed"]]>>
  BY <1>2 DEF StoreCalls, StoreCall, Pending
<1> QED
  BY <1>1, <1>3, ProvisionKeepsGitInv, PTL DEF ProvisionSpec, FilesLand, Store!Spec

-----------------------------------------------------------------------------
(* Rows of jobs as the provers see them.                                    *)

RowFields == {"pc", "attempt", "policy", "commitSHA", "newSHA", "changed", "outcome"}

RowShape(r) == r = [x \in RowFields |-> r[x]]

AtPlace(r, pc) == [r EXCEPT !.pc = pc]
WithPolicy(r, policy) == [r EXCEPT !.policy = policy]
WithOutcome(r, pc, outcome) == [r EXCEPT !.pc = pc, !.outcome = outcome]
WithNew(r, pc, sha) == [r EXCEPT !.pc = pc, !.newSHA = sha]
WithCommit(r, sha, changed) == [r EXCEPT !.commitSHA = sha, !.changed = changed]
FreshRun(pc, attempt) == [Queued EXCEPT !.pc = pc, !.attempt = attempt]

LEMMA AtPlaceFields ==
  ASSUME NEW r, RowShape(r), NEW pc
  PROVE  LET g == AtPlace(r, pc) IN
         /\ RowShape(g) /\ g.pc = pc /\ g.policy = r.policy /\ g.changed = r.changed
         /\ g.commitSHA = r.commitSHA /\ g.newSHA = r.newSHA /\ g.outcome = r.outcome
<1> DEFINE g == AtPlace(r, pc)
<1>1. RowShape(g)
  BY Zenon DEF RowShape, RowFields, AtPlace
<1>2. /\ g.pc = pc /\ g.policy = r.policy /\ g.changed = r.changed
      /\ g.commitSHA = r.commitSHA /\ g.newSHA = r.newSHA /\ g.outcome = r.outcome
  BY DEF RowShape, RowFields, AtPlace
<1> QED
  BY <1>1, <1>2

LEMMA WithPolicyFields ==
  ASSUME NEW r, RowShape(r), NEW policy
  PROVE  LET g == WithPolicy(r, policy) IN
         /\ RowShape(g) /\ g.pc = r.pc /\ g.policy = policy
<1> DEFINE g == WithPolicy(r, policy)
<1>1. RowShape(g)
  BY Zenon DEF RowShape, RowFields, WithPolicy
<1>2. g.pc = r.pc /\ g.policy = policy
  BY DEF RowShape, RowFields, WithPolicy
<1> QED
  BY <1>1, <1>2

LEMMA WithOutcomeFields ==
  ASSUME NEW r, RowShape(r), NEW pc, NEW outcome
  PROVE  LET g == WithOutcome(r, pc, outcome) IN
         /\ RowShape(g) /\ g.pc = pc /\ g.policy = r.policy /\ g.changed = r.changed
         /\ g.commitSHA = r.commitSHA /\ g.newSHA = r.newSHA /\ g.outcome = outcome
<1> DEFINE g == WithOutcome(r, pc, outcome)
<1>1. RowShape(g)
  BY Zenon DEF RowShape, RowFields, WithOutcome
<1>2. /\ g.pc = pc /\ g.policy = r.policy /\ g.changed = r.changed
      /\ g.commitSHA = r.commitSHA /\ g.newSHA = r.newSHA /\ g.outcome = outcome
  BY DEF RowShape, RowFields, WithOutcome
<1> QED
  BY <1>1, <1>2

LEMMA WithNewFields ==
  ASSUME NEW r, RowShape(r), NEW pc, NEW sha
  PROVE  LET g == WithNew(r, pc, sha) IN
         /\ RowShape(g) /\ g.pc = pc /\ g.policy = r.policy
         /\ g.commitSHA = r.commitSHA /\ g.newSHA = sha
<1> DEFINE g == WithNew(r, pc, sha)
<1>1. RowShape(g)
  BY Zenon DEF RowShape, RowFields, WithNew
<1>2. /\ g.pc = pc /\ g.policy = r.policy
      /\ g.commitSHA = r.commitSHA /\ g.newSHA = sha
  BY DEF RowShape, RowFields, WithNew
<1> QED
  BY <1>1, <1>2

LEMMA WithCommitFields ==
  ASSUME NEW r, RowShape(r), NEW sha, NEW changed
  PROVE  LET g == WithCommit(r, sha, changed) IN
         /\ RowShape(g) /\ g.pc = r.pc /\ g.policy = r.policy
         /\ g.commitSHA = sha /\ g.changed = changed
<1> DEFINE g == WithCommit(r, sha, changed)
<1>1. RowShape(g)
  BY Zenon DEF RowShape, RowFields, WithCommit
<1>2. /\ g.pc = r.pc /\ g.policy = r.policy
      /\ g.commitSHA = sha /\ g.changed = changed
  BY DEF RowShape, RowFields, WithCommit
<1> QED
  BY <1>1, <1>2

LEMMA FreshRunFields ==
  ASSUME NEW pc, NEW attempt
  PROVE  RowShape(FreshRun(pc, attempt)) /\ FreshRun(pc, attempt).pc = pc
<1> DEFINE r == Queued
           g == [r EXCEPT !.pc = pc, !.attempt = attempt]
<1>1. RowShape(r)
  BY Zenon DEF RowShape, RowFields, Queued
<1> HIDE DEF r
<1>2. RowShape(g)
  BY <1>1, Zenon DEF RowShape, RowFields
<1>3. g.pc = pc
  BY <1>1 DEF RowShape, RowFields
<1>4. FreshRun(pc, attempt) = g
  BY DEF FreshRun, r
<1> HIDE DEF g
<1> QED
  BY <1>2, <1>3, <1>4

-----------------------------------------------------------------------------
(* A run commits only with leave.                                           *)

Calling == {"committing", "recommitting"}
Past == {"commit", "poll", "remediation", "repoll", "callback"} \cup Calling

\* Places where a run holds nothing, and has nothing under way.
Free == {"queued", "policy", "gate", "waiting", "commit", "jobs_exhausted", "lost"}

RowOK(r, call, decision, needs) ==
  /\ RowShape(r)
  /\ r.pc \in {"gate", "waiting"} \cup Past => r.policy = "allowed"
  /\ r.pc \in Past => (needs => decision = "approved")
  /\ call.pc # "idle" => r.pc \in Calling

JobOK(j) == RowOK(infra[j], gitCall[j], decisions[j], NeedsApproval(j))

InfraInv ==
  /\ infra = [j \in InfraJobs |-> infra[j]] /\ decisions = [j \in InfraJobs |-> decisions[j]]
  /\ \A j \in InfraJobs : JobOK(j)

LEMMA InfraInvStarts == GitInit /\ InfraInit => InfraInv
<1> SUFFICES ASSUME GitInit, InfraInit PROVE InfraInv
  OBVIOUS
<1> PICK pc \in {"queued", "unsubmitted"} : infra = [j \in InfraJobs |-> [Queued EXCEPT !.pc = pc]]
  BY DEF InfraInit
<1>1. ASSUME NEW j \in InfraJobs PROVE JobOK(j)
  <2>1. infra[j] = FreshRun(pc, Queued.attempt)
    BY DEF FreshRun, Queued
  <2>2. RowShape(infra[j]) /\ infra[j].pc = pc
    BY <2>1, FreshRunFields
  <2>3. gitCall[j].pc = "idle"
    BY InfraBounds, NoCallFields DEF GitInit
  <2> QED
    BY <2>2, <2>3 DEF JobOK, RowOK, Past, Calling
<1> QED
  BY <1>1 DEF InfraInv, InfraInit

LEMMA SetInfraSets ==
  ASSUME InfraInv, NEW j \in InfraJobs, NEW r, SetInfra(j, r)
  PROVE  infra'[j] = r
BY DEF InfraInv, SetInfra

\* A row whose run is not under way owes nothing.
LEMMA ParkedRow ==
  ASSUME NEW r, RowShape(r), r.pc \in {"queued", "policy", "jobs_exhausted", "lost"},
         NEW call, call.pc = "idle", NEW d, NEW n
  PROVE  RowOK(r, call, d, n)
BY DEF RowOK, Past, Calling

\* A row that goes on with its leave.
LEMMA ClearedRow ==
  ASSUME NEW r, RowShape(r), r.policy = "allowed", r.pc \in Past,
         NEW call, call.pc # "idle" => r.pc \in Calling,
         NEW d, NEW n, n => d = "approved"
  PROVE  RowOK(r, call, d, n)
BY DEF RowOK, Past, Calling

LEMMA FailedFields ==
  ASSUME InfraInv, NEW j \in InfraJobs
  PROVE  RowShape(FailedRow(j)) /\ FailedRow(j).pc \in {"queued", "jobs_exhausted"}
<1> DEFINE pc == IF infra[j].attempt < job[j].maxAttempts THEN "queued" ELSE "jobs_exhausted"
<1>1. RowShape(infra[j])
  BY DEF InfraInv, JobOK, RowOK
<1>2. FailedRow(j) = AtPlace(infra[j], pc)
  BY DEF FailedRow, AtPlace
<1>3. pc \in {"queued", "jobs_exhausted"}
  OBVIOUS
<1> HIDE DEF pc
<1> QED
  BY <1>1, <1>2, <1>3, AtPlaceFields

\* What the row and its call are worth before a step.
LEMMA RowFacts ==
  ASSUME InfraInv, NEW j \in InfraJobs
  PROVE  /\ RowShape(infra[j])
         /\ infra[j].pc \in {"gate", "waiting"} \cup Past => infra[j].policy = "allowed"
         /\ infra[j].pc \in Past => (NeedsApproval(j) => decisions[j] = "approved")
         /\ infra[j].pc \notin Calling => gitCall[j].pc = "idle"
BY DEF InfraInv, JobOK, RowOK

After(j) == RowOK(infra'[j], gitCall'[j], decisions'[j], NeedsApproval(j))

LEMMA FailsStep ==
  ASSUME InfraInv, NEW j \in InfraJobs, Fails(j), gitCall'[j].pc = "idle"
  PROVE  After(j) /\ infra'[j].pc \in Free
<1>1. infra'[j] = FailedRow(j)
  BY SetInfraSets DEF Fails
<1> QED
  BY <1>1, FailedFields, ParkedRow DEF Free, After

LEMMA MoveStep ==
  ASSUME InfraInv, NEW j \in InfraJobs, NEW pc, MoveTo(j, pc)
  PROVE  LET g == infra'[j] IN
         /\ RowShape(g) /\ g.pc = pc /\ g.policy = infra[j].policy /\ g.changed = infra[j].changed
         /\ g.commitSHA = infra[j].commitSHA /\ g.newSHA = infra[j].newSHA /\ g.outcome = infra[j].outcome
<1>1. infra'[j] = AtPlace(infra[j], pc)
  BY SetInfraSets DEF MoveTo, AtPlace
<1> QED
  BY <1>1, RowFacts, AtPlaceFields

LEMMA StartStep ==
  ASSUME InfraInv, NEW j \in InfraJobs, Start(j)
  PROVE  After(j) /\ infra'[j].pc \in Free
<1> DEFINE n == infra[j].attempt + (IF At(j, "queued") THEN 1 ELSE 0)
           run == FreshRun("policy", n)
           pc == IF job[j].params \in Explosive THEN "lost"
                 ELSE IF run.attempt < job[j].maxAttempts THEN "queued" ELSE "jobs_exhausted"
<1>1. infra[j].pc \notin Calling /\ gitCall' = gitCall
  BY DEF Start, At, Calling, NoGit, gitVars
<1>2. SetInfra(j, IF job[j].params \in Renderable THEN run ELSE AtPlace(run, pc))
  BY DEF Start, FreshRun, AtPlace
<1>3. RowShape(run) /\ run.pc = "policy"
  BY FreshRunFields
<1>4. pc \in {"lost", "queued", "jobs_exhausted"}
  OBVIOUS
<1> HIDE DEF run, pc
<1>5. RowShape(AtPlace(run, pc)) /\ AtPlace(run, pc).pc = pc
  BY <1>3, AtPlaceFields
<1>6. infra'[j] = run \/ infra'[j] = AtPlace(run, pc)
  BY <1>2, SetInfraSets
<1>7. gitCall'[j].pc = "idle"
  BY <1>1, RowFacts
<1> QED
  BY <1>3, <1>4, <1>5, <1>6, <1>7, ParkedRow DEF Free, After

LEMMA EvaluatePolicyStep ==
  ASSUME InfraInv, NEW j \in InfraJobs, EvaluatePolicy(j)
  PROVE  After(j) /\ infra'[j].pc \in Free
<1>1. infra[j].pc \notin Calling /\ gitCall' = gitCall /\ decisions' = decisions
  BY DEF EvaluatePolicy, At, Calling, gitVars
<1>2. gitCall'[j].pc = "idle" /\ RowShape(infra[j])
  BY <1>1, RowFacts
<1>3. CASE SetInfra(j, [infra[j] EXCEPT !.pc = "gate", !.policy = "allowed"])
  <2> DEFINE at == AtPlace(infra[j], "gate")
             g == WithPolicy(at, "allowed")
  <2>1. RowShape(at) /\ at.pc = "gate"
    BY <1>2, AtPlaceFields
  <2>2. infra'[j] = g
    BY <1>3, SetInfraSets DEF WithPolicy, AtPlace
  <2> HIDE DEF at
  <2>3. RowShape(g) /\ g.pc = "gate" /\ g.policy = "allowed"
    BY <2>1, WithPolicyFields
  <2> QED
    BY <1>2, <2>2, <2>3 DEF Free, After, RowOK, Past, Calling
<1>4. CASE SetInfra(j, [FailedRow(j) EXCEPT !.policy = "denied"])
  <2>1. infra'[j] = WithPolicy(FailedRow(j), "denied")
    BY <1>4, SetInfraSets DEF WithPolicy
  <2>2. RowShape(infra'[j]) /\ infra'[j].pc \in {"queued", "jobs_exhausted"}
    BY <2>1, FailedFields, WithPolicyFields
  <2> QED
    BY <1>2, <2>2, ParkedRow DEF Free, After
<1>5. CASE Fails(j)
  BY <1>2, <1>5, FailsStep
<1> QED
  BY <1>3, <1>4, <1>5 DEF EvaluatePolicy

LEMMA GateStep ==
  ASSUME InfraInv, NEW j \in InfraJobs, ApprovalGate(j)
  PROVE  After(j) /\ infra'[j].pc \in Free
<1>1. /\ infra[j].pc = "gate" /\ gitCall' = gitCall /\ decisions' = decisions
      /\ MoveTo(j, IF NeedsApproval(j) THEN "waiting" ELSE "commit")
  BY DEF ApprovalGate, At, NoGit, gitVars
<1>2. gitCall'[j].pc = "idle" /\ infra[j].policy = "allowed"
  BY <1>1, RowFacts DEF Calling
<1>3. CASE NeedsApproval(j)
  <2>1. RowShape(infra'[j]) /\ infra'[j].pc = "waiting" /\ infra'[j].policy = "allowed"
    BY <1>1, <1>2, <1>3, MoveStep
  <2> QED
    BY <1>2, <2>1 DEF Free, After, RowOK, Past, Calling
<1>4. CASE ~NeedsApproval(j)
  <2>1. RowShape(infra'[j]) /\ infra'[j].pc = "commit" /\ infra'[j].policy = "allowed"
    BY <1>1, <1>2, <1>4, MoveStep
  <2> QED
    BY <1>2, <1>4, <2>1 DEF Free, After, RowOK, Past, Calling
<1> QED
  BY <1>3, <1>4

LEMMA DecideStep ==
  ASSUME InfraInv, NEW j \in InfraJobs, Decide(j)
  PROVE  After(j)
<1>1. infra[j].pc = "waiting" /\ gitCall' = gitCall /\ infra' = infra
  BY DEF Decide, At, NoGit, gitVars
<1> QED
  BY <1>1, RowFacts DEF After, RowOK, Past, Calling

LEMMA TakeDecisionStep ==
  ASSUME InfraInv, NEW j \in InfraJobs, TakeDecision(j)
  PROVE  After(j) /\ infra'[j].pc \in Free
<1>1. infra[j].pc = "waiting" /\ gitCall' = gitCall /\ decisions' = decisions
  BY DEF TakeDecision, At, NoGit, gitVars
<1>2. gitCall'[j].pc = "idle" /\ infra[j].policy = "allowed"
  BY <1>1, RowFacts DEF Calling
<1>3. CASE Approved(j) /\ MoveTo(j, "commit")
  <2>1. RowShape(infra'[j]) /\ infra'[j].pc = "commit" /\ infra'[j].policy = "allowed"
    BY <1>2, <1>3, MoveStep
  <2> QED
    BY <1>1, <1>2, <1>3, <2>1 DEF Free, After, RowOK, Past, Calling, Approved
<1>4. CASE Fails(j)
  BY <1>2, <1>4, FailsStep
<1> QED
  BY <1>3, <1>4 DEF TakeDecision

LEMMA OpenCommitStep ==
  ASSUME InfraInv, GitInv, NEW j \in InfraJobs, GitCommit(j) \/ Remediate(j)
  PROVE  After(j)
<1>1. infra[j].pc \in Past /\ decisions' = decisions /\ \E pc \in Calling : MoveTo(j, pc)
  BY DEF GitCommit, Remediate, At, Past, Calling
<1>2. RowShape(infra'[j]) /\ infra'[j].pc \in Calling /\ infra'[j].policy = infra[j].policy
  BY <1>1, MoveStep
<1>3. infra[j].policy = "allowed" /\ (NeedsApproval(j) => decisions[j] = "approved")
  BY <1>1, RowFacts
<1> QED
  BY <1>1, <1>2, <1>3, ClearedRow DEF After, Past, Calling

LEMMA ClosedCall ==
  ASSUME GitInv, NEW j \in InfraJobs, TakeResult(j) \/ SetCall(j, NoCall)
  PROVE  gitCall'[j].pc = "idle"
<1>1. j \in GitClients
  BY InfraBounds
<1>2. gitCall'[j] = NoCall
  BY <1>1, SetCallSets DEF TakeResult
<1> QED
  BY <1>2, NoCallFields

LEMMA TakeCommitStep ==
  ASSUME InfraInv, GitInv, NEW j \in InfraJobs, TakeCommit(j)
  PROVE  After(j)
<1> DEFINE result == gitCall[j]
           row == WithCommit(infra[j], result.sha, result.changed)
<1>1. infra[j].pc = "committing" /\ decisions' = decisions /\ gitCall'[j].pc = "idle"
  BY ClosedCall DEF TakeCommit, At
<1>2. /\ RowShape(infra[j]) /\ infra[j].policy = "allowed"
      /\ NeedsApproval(j) => decisions[j] = "approved"
  BY <1>1, RowFacts DEF Past, Calling
<1>3. RowShape(row) /\ row.policy = "allowed" /\ row.changed = result.changed
  BY <1>2, WithCommitFields
<1>4. CASE MoveTo(j, "jobs_exhausted")
  BY <1>1, <1>4, MoveStep, ParkedRow DEF After
<1>5. CASE Fails(j)
  BY <1>1, <1>5, FailsStep
<1>6. CASE /\ ~result.changed \/ job[j].skipHealth
           /\ infra'[j] = WithOutcome(row, "callback", "succeeded")
  <2>1. /\ RowShape(infra'[j]) /\ infra'[j].pc = "callback" /\ infra'[j].policy = "allowed"
        /\ infra'[j].changed = result.changed
    BY <1>3, <1>6, WithOutcomeFields
  <2> QED
    BY <1>1, <1>2, <1>6, <2>1 DEF After, RowOK, Past, Calling
<1>7. CASE infra'[j] = AtPlace(row, "poll")
  <2>1. RowShape(infra'[j]) /\ infra'[j].pc = "poll" /\ infra'[j].policy = "allowed"
    BY <1>3, <1>7, AtPlaceFields
  <2> QED
    BY <1>1, <1>2, <2>1, ClearedRow DEF After, Past
<1> QED
  <2>1. \/ MoveTo(j, "jobs_exhausted") \/ Fails(j)
        \/ (~result.changed \/ job[j].skipHealth) /\ SetInfra(j, WithOutcome(row, "callback", "succeeded"))
        \/ SetInfra(j, AtPlace(row, "poll"))
    BY DEF TakeCommit, WithOutcome, AtPlace, WithCommit
  <2> QED
    BY <1>4, <1>5, <1>6, <1>7, <2>1, SetInfraSets

LEMMA HealthyStep ==
  ASSUME InfraInv, NEW j \in InfraJobs, Healthy(j)
  PROVE  After(j)
<1> DEFINE g == WithOutcome(infra[j], "callback", "succeeded")
<1>1. infra[j].pc \in {"poll", "repoll"} /\ decisions' = decisions /\ gitCall' = gitCall
  BY DEF Healthy, At, NoGit, gitVars
<1>2. /\ RowShape(infra[j]) /\ infra[j].policy = "allowed" /\ gitCall'[j].pc = "idle"
      /\ NeedsApproval(j) => decisions[j] = "approved"
  BY <1>1, RowFacts DEF Past, Calling
<1>3. infra'[j] = g
  BY SetInfraSets DEF Healthy, WithOutcome
<1>4. RowShape(g) /\ g.pc = "callback" /\ g.policy = "allowed"
  BY <1>2, WithOutcomeFields
<1> HIDE DEF g
<1> QED
  BY <1>1, <1>2, <1>3, <1>4, ClearedRow DEF After, Past

LEMMA PollFailsStep ==
  ASSUME InfraInv, NEW j \in InfraJobs, infra[j].pc \in {"poll", "repoll"}, PollFails(j),
         gitCall' = gitCall, decisions' = decisions
  PROVE  After(j)
<1>1. /\ RowShape(infra[j]) /\ infra[j].policy = "allowed" /\ gitCall'[j].pc = "idle"
      /\ NeedsApproval(j) => decisions[j] = "approved"
  BY RowFacts DEF Past, Calling
<1>2. CASE MoveTo(j, "remediation")
  <2>1. RowShape(infra'[j]) /\ infra'[j].pc = "remediation" /\ infra'[j].policy = "allowed"
    BY <1>1, <1>2, MoveStep
  <2> QED
    BY <1>1, <2>1, ClearedRow DEF After, Past
<1>3. CASE SetInfra(j, WithOutcome(infra[j], "callback", "failed"))
  <2>1. infra'[j] = WithOutcome(infra[j], "callback", "failed")
    BY <1>3, SetInfraSets
  <2>2. RowShape(infra'[j]) /\ infra'[j].pc = "callback" /\ infra'[j].policy = "allowed"
    BY <1>1, <2>1, WithOutcomeFields
  <2> QED
    BY <1>1, <2>2, ClearedRow DEF After, Past
<1> QED
  BY <1>2, <1>3 DEF PollFails, WithOutcome

LEMMA TakeRecommitStep ==
  ASSUME InfraInv, GitInv, NEW j \in InfraJobs, TakeRecommit(j)
  PROVE  After(j)
<1>1. infra[j].pc = "recommitting" /\ decisions' = decisions /\ gitCall'[j].pc = "idle"
  BY ClosedCall DEF TakeRecommit, At
<1>2. /\ RowShape(infra[j]) /\ infra[j].policy = "allowed"
      /\ NeedsApproval(j) => decisions[j] = "approved"
  BY <1>1, RowFacts DEF Past, Calling
<1>3. \/ SetInfra(j, WithNew(infra[j], "repoll", gitCall[j].sha))
      \/ SetInfra(j, WithOutcome(infra[j], "callback", "failed"))
  BY DEF TakeRecommit, WithNew, WithOutcome
<1>4. \/ infra'[j] = WithNew(infra[j], "repoll", gitCall[j].sha)
      \/ infra'[j] = WithOutcome(infra[j], "callback", "failed")
  BY <1>3, SetInfraSets
<1>5. RowShape(infra'[j]) /\ infra'[j].pc \in {"repoll", "callback"} /\ infra'[j].policy = "allowed"
  BY <1>2, <1>4, WithNewFields, WithOutcomeFields
<1> QED
  BY <1>1, <1>2, <1>5, ClearedRow DEF After, Past

LEMMA PostCallbackStep ==
  ASSUME InfraInv, NEW j \in InfraJobs, PostCallback(j)
  PROVE  After(j)
<1>1. infra[j].pc = "callback" /\ decisions' = decisions /\ gitCall' = gitCall
  BY DEF PostCallback, At
<1>2. gitCall'[j].pc = "idle"
  BY <1>1, RowFacts DEF Calling
<1>3. CASE MoveTo(j, "succeeded")
  <2>1. RowShape(infra'[j]) /\ infra'[j].pc = "succeeded"
    BY <1>3, MoveStep
  <2> QED
    BY <1>2, <2>1 DEF After, RowOK, Past, Calling
<1>4. CASE Fails(j)
  BY <1>2, <1>4, FailsStep
<1> QED
  BY <1>3, <1>4 DEF PostCallback

LEMMA LostStep ==
  ASSUME InfraInv, GitInv, NEW j \in InfraJobs, Panic(j) \/ Crash(j)
  PROVE  After(j) /\ infra'[j].pc \in Free
<1>1. MoveTo(j, "lost")
  BY DEF Panic, Crash
<1>2. RowShape(infra'[j]) /\ infra'[j].pc = "lost"
  BY <1>1, MoveStep
<1>3. CASE Panic(j)
  <2>1. infra[j].pc = "callback" /\ gitCall' = gitCall
    BY <1>3 DEF Panic, At, NoGit, gitVars
  <2>2. gitCall'[j].pc = "idle"
    BY <2>1, RowFacts DEF Calling
  <2> QED
    BY <1>2, <2>2, ParkedRow DEF Free, After
<1>4. CASE Crash(j)
  <2>1. gitCall'[j].pc = "idle"
    BY <1>4, ClosedCall DEF Crash
  <2> QED
    BY <1>2, <2>1, ParkedRow DEF Free, After
<1> QED
  BY <1>3, <1>4

LEMMA RowFramed ==
  ASSUME InfraInv, job' = job, NEW k \in InfraJobs,
         infra'[k] = infra[k], decisions'[k] = decisions[k],
         gitCall'[k].pc # "idle" => infra[k].pc \in Calling
  PROVE  JobOK(k)'
<1>1. RowOK(infra[k], gitCall[k], decisions[k], NeedsApproval(k))
  BY DEF InfraInv, JobOK
<1>2. NeedsApproval(k)' = NeedsApproval(k)
  BY DEF NeedsApproval, Item
<1> QED
  BY <1>1, <1>2 DEF JobOK, RowOK

\* An action of Execute touches the row, the decision and the call of its job.
Own(j) ==
  /\ history' = history /\ job' = job
  /\ infra' = infra \/ \E r : SetInfra(j, r)
  /\ decisions' = decisions \/ \E d : decisions' = [decisions EXCEPT ![j] = d]
  /\ gitCall' = gitCall \/ \E r : SetCall(j, r)

Acts(j) ==
  \/ Start(j) \/ EvaluatePolicy(j) \/ ApprovalGate(j) \/ TakeDecision(j)
  \/ GitCommit(j) \/ TakeCommit(j) \/ Healthy(j) \/ Unreadable(j) \/ PollTimeout(j)
  \/ Remediate(j) \/ TakeRecommit(j) \/ PostCallback(j) \/ Panic(j)
  \/ Decide(j) \/ Crash(j)

LEMMA ActsAreOwn ==
  ASSUME NEW j, Acts(j)
  PROVE  Own(j)
<1>1. CASE Start(j)
  BY <1>1, Zenon DEF Start, Own, Elsewhere, NoGit, gitVars
<1>2. CASE EvaluatePolicy(j)
  BY <1>2, Zenon DEF EvaluatePolicy, Own, Elsewhere, Fails, gitVars
<1>3. CASE ApprovalGate(j)
  BY <1>3, Zenon DEF ApprovalGate, Own, Elsewhere, MoveTo, NoGit, gitVars
<1>4. CASE TakeDecision(j)
  BY <1>4, Zenon DEF TakeDecision, Own, Elsewhere, MoveTo, Fails, NoGit, gitVars
<1>5. CASE GitCommit(j)
  BY <1>5, Zenon DEF GitCommit, CommitFiles, Own, Elsewhere, MoveTo
<1>6. CASE TakeCommit(j)
  BY <1>6, Zenon DEF TakeCommit, TakeResult, Own, Elsewhere, MoveTo, Fails
<1>7. CASE Healthy(j)
  BY <1>7, Zenon DEF Healthy, Own, Elsewhere, NoGit, gitVars
<1>8. CASE Unreadable(j)
  BY <1>8, Zenon DEF Unreadable, PollFails, Own, Elsewhere, MoveTo, gitVars
<1>9. CASE PollTimeout(j)
  BY <1>9, Zenon DEF PollTimeout, PollFails, Own, Elsewhere, MoveTo, NoGit, gitVars
<1>10. CASE Remediate(j)
  BY <1>10, Zenon DEF Remediate, CommitFiles, Own, Elsewhere, MoveTo
<1>11. CASE TakeRecommit(j)
  BY <1>11, Zenon DEF TakeRecommit, TakeResult, Own, Elsewhere
<1>12. CASE PostCallback(j)
  BY <1>12, Zenon DEF PostCallback, Own, Elsewhere, MoveTo, Fails
<1>13. CASE Panic(j)
  BY <1>13, Zenon DEF Panic, Own, Elsewhere, MoveTo, NoGit, gitVars
<1>14. CASE Decide(j)
  BY <1>14, Zenon DEF Decide, Own, Elsewhere, NoGit, gitVars
<1>15. CASE Crash(j)
  BY <1>15, Zenon DEF Crash, Own, MoveTo
<1> QED
  BY <1>1, <1>2, <1>3, <1>4, <1>5, <1>6, <1>7, <1>8, <1>9, <1>10, <1>11, <1>12, <1>13, <1>14, <1>15 DEF Acts

LEMMA ActsKeepRow ==
  ASSUME InfraInv, GitInv, NEW j \in InfraJobs, Acts(j)
  PROVE  After(j)
<1>1. CASE Unreadable(j) \/ PollTimeout(j)
  <2>1. /\ infra[j].pc \in {"poll", "repoll"} /\ PollFails(j)
        /\ gitCall' = gitCall /\ decisions' = decisions
    BY <1>1 DEF Unreadable, PollTimeout, At, NoGit, gitVars
  <2> QED
    BY <2>1, PollFailsStep
<1> QED
  BY <1>1, StartStep, EvaluatePolicyStep, GateStep, DecideStep, TakeDecisionStep, OpenCommitStep,
     TakeCommitStep, HealthyStep, TakeRecommitStep, PostCallbackStep, LostStep DEF Acts

LEMMA InfraInvKept ==
  GitInv /\ InfraInv /\ [ProvisionNext]_<<gitVars, infraVars>> => InfraInv'
<1> SUFFICES ASSUME GitInv, InfraInv, [ProvisionNext]_<<gitVars, infraVars>> PROVE InfraInv'
  OBVIOUS
<1>2. CASE UNCHANGED <<infra, decisions, job>> /\ gitCall' = gitCall
  <2>1. ASSUME NEW k \in InfraJobs PROVE JobOK(k)'
    BY <1>2, RowFramed, RowFacts
  <2> QED
    BY <1>2, <2>1 DEF InfraInv
<1>3. ASSUME NEW c \in GitClients, CallStep(c), UNCHANGED infraVars,
             c \in InfraJobs => gitCall[c].pc # "idle"
      PROVE  InfraInv'
  <2>1. infra' = infra /\ decisions' = decisions /\ job' = job
    BY <1>3 DEF infraVars
  <2>2. \A d \in GitClients \ {c} : gitCall'[d] = gitCall[d]
    BY <1>3, CallsKept DEF CallStep
  <2>3. ASSUME NEW k \in InfraJobs PROVE JobOK(k)'
    <3>1. gitCall'[k].pc # "idle" => infra[k].pc \in Calling
      BY <1>3, <2>2, RowFacts, InfraBounds
    <3> QED
      BY <2>1, <3>1, RowFramed
  <2> QED
    BY <2>1, <2>3 DEF InfraInv
<1>4. ASSUME NEW j \in InfraJobs, Acts(j)
      PROVE  InfraInv'
  <2>1. Own(j) /\ After(j)
    BY <1>4, ActsAreOwn, ActsKeepRow
  <2>2. /\ infra' = [k \in InfraJobs |-> infra'[k]] /\ decisions' = [k \in InfraJobs |-> decisions'[k]]
        /\ \A k \in InfraJobs \ {j} : infra'[k] = infra[k] /\ decisions'[k] = decisions[k]
    BY <2>1 DEF InfraInv, Own, SetInfra
  <2>3. \A k \in InfraJobs \ {j} : gitCall'[k] = gitCall[k]
    BY <2>1, InfraBounds DEF GitInv, Own, SetCall
  <2>4. ASSUME NEW k \in InfraJobs \ {j} PROVE JobOK(k)'
    <3>1. gitCall'[k].pc # "idle" => infra[k].pc \in Calling
      BY <2>3, RowFacts
    <3> QED
      BY <2>1, <2>2, <3>1, RowFramed DEF Own
  <2>5. JobOK(j)'
    <3>1. NeedsApproval(j)' = NeedsApproval(j) /\ job' = job
      BY <2>1 DEF Own, NeedsApproval, Item
    <3> QED
      BY <2>1, <3>1 DEF After, JobOK
  <2> QED
    BY <2>2, <2>4, <2>5 DEF InfraInv
<1>5. CASE UNCHANGED <<gitVars, infraVars>>
  BY <1>2, <1>5 DEF gitVars, infraVars
<1>6. CASE WriteStatus
  BY <1>2, <1>6 DEF WriteStatus
<1>7. ASSUME NEW j \in InfraJobs, GitStep(j), UNCHANGED infraVars PROVE InfraInv'
  <2>1. j \in GitClients
    BY InfraBounds
  <2>2. CallStep(j)
    BY <1>7, <2>1, ConnectorStep
  <2>3. gitCall[j].pc # "idle"
    BY <1>7, <2>1, GitStepMoves DEF Goes, Moves, Turns, Finds, Answers, Lands, Spoils, Under
  <2> QED
    BY <1>3, <1>7, <2>1, <2>2, <2>3
<1>8. ASSUME NEW c \in GitClients \ InfraJobs, ClientStep(c), UNCHANGED infraVars PROVE InfraInv'
  <2>1. CallStep(c)
    BY <1>8, OpeningStep, ConnectorStep, ClosingStep DEF ClientStep, TakeResult
  <2> QED
    BY <1>3, <1>8, <2>1
<1> QED
  BY <1>4, <1>5, <1>6, <1>7, <1>8 DEF ProvisionNext, InfraNext, InfraStep, Acts

LEMMA ProvisionKeepsInvs == ProvisionSpec => [](GitInv /\ InfraInv)
<1>1. GitInit /\ InfraInit => GitInv /\ InfraInv
  BY GitInvStarts, InfraInvStarts
<1>2. GitInv /\ InfraInv /\ [ProvisionNext]_<<gitVars, infraVars>> => (GitInv /\ InfraInv)'
  BY GitInvKept, InfraInvKept
<1> QED
  BY <1>1, <1>2, PTL DEF ProvisionSpec

\* A job commits only in a run whose policy evaluation allowed it and whose own
\* approval, where the catalogue item asks for one, was granted (Execute).
THEOREM CommitsHaveLeave == ProvisionSpec => CommitsAreCleared
<1> DEFINE Cleared(j) ==
             Len(history') > Len(history) /\ Tip'.by = j =>
               infra[j].policy = "allowed" /\ (NeedsApproval(j) => decisions[j] = "approved")
<1>1. ASSUME GitInv, InfraInv, [ProvisionNext]_<<gitVars, infraVars>>, NEW j \in InfraJobs,
             Len(history') > Len(history), Tip'.by = j
      PROVE  infra[j].policy = "allowed" /\ (NeedsApproval(j) => decisions[j] = "approved")
  <2>1. history' # history /\ j \in GitClients
    BY <1>1, InfraBounds DEF GitInv, Branch
  <2>2. CASE ArgoCommits
    <3> PICK status : history' = Append(history, Commit(Tip.tree, status, "argocd"))
      BY <2>2 DEF ArgoCommits
    <3>1. Tip'.by = "argocd"
      BY <1>1, TipOfAppend DEF Commit
    <3> QED
      BY <1>1, <2>1, <3>1, GitNames
  <2>3. ASSUME NEW c \in GitClients, CallStep(c)
        PROVE  gitCall[j].pc # "idle"
    <3> PICK files, set : Puts(c, files, set) /\ gitCall[c].pc \in Under
      BY <2>1, <2>3, OnlyPutsCommit
    <3>1. c = j
      BY <1>1, TipOfAppend DEF Puts, Commit
    <3> QED
      BY <3>1 DEF Under
  <2>4. gitCall[j].pc # "idle" => infra[j].pc \in Calling
    BY <1>1, RowFacts
  <2> QED
    BY <1>1, <2>1, <2>2, <2>3, <2>4, RowFacts, ProvisionStepKinds DEF Quiet, Past
<1>2. GitInv /\ InfraInv /\ [ProvisionNext]_<<gitVars, infraVars>> => [\A j \in InfraJobs : Cleared(j)]_history
  BY <1>1
<1> QED
  BY <1>2, ProvisionKeepsInvs, PTL DEF ProvisionSpec, CommitsAreCleared

-----------------------------------------------------------------------------
(* A run succeeds only on a commit of its own that came to be healthy.      *)

Grown == Len(history') >= Len(history) /\ \A i \in 1..Len(history) : history'[i] = history[i]

LEMMA HistoryGrows ==
  ASSUME GitInv, [ProvisionNext]_<<gitVars, infraVars>>
  PROVE  Grown
<1>1. history' = history \/ \E x : history' = Append(history, x)
  <2>1. CASE Quiet
    BY <2>1 DEF Quiet
  <2>2. CASE ArgoCommits
    BY <2>2 DEF ArgoCommits
  <2>3. ASSUME NEW c \in GitClients, CallStep(c) PROVE history' = history \/ \E x : history' = Append(history, x)
    BY <2>3, OnlyPutsCommit DEF Puts
  <2> QED
    BY <2>1, <2>2, <2>3, ProvisionStepKinds
<1>2. Len(history) \in Nat
  BY DEF GitInv, Branch
<1>3. CASE \E x : history' = Append(history, x)
  BY <1>2, <1>3, BranchGrows DEF GitInv, Grown
<1> QED
  BY <1>1, <1>2, <1>3 DEF Grown

\* Commit k of h is not older than lo, is of job j and holds the manifest m.
OwnCommit(j, m, k, lo, h) ==
  /\ k \in lo..Len(h) /\ h[k].by = j
  /\ \A p \in Paths \cap DOMAIN m : h[k].tree[p] = m[p]

SeenHealthy(k, h) ==
  \E i \in 1..Len(h) : h[i].status.state = "healthy" /\ h[i].status.sha \in k..(i - 1)

Polling == {"poll", "remediation", "recommitting", "repoll"}

Succeeding(r) == r.pc = "succeeded" \/ (r.pc = "callback" /\ r.outcome = "succeeded")

\* A call of the remediation knows of no commit older than the first one.
From(r) == IF r.pc = "recommitting" THEN r.commitSHA ELSE 1

CallSound(j, m, w, f, lo, h) ==
  f.pc # "idle" =>
    /\ f.files = m /\ f.flavour = w
    /\ w # "file" =>
         /\ f.pc \in Under \ {"getRef"} => f.base \in lo..Len(h)
         /\ f.pc \in Under /\ f.changed => OwnCommit(j, m, f.sha, lo, h)
         /\ f.pc = "done" /\ f.status = "success" /\ f.changed => OwnCommit(j, m, f.sha, lo, h)
         /\ f.pc = "done" /\ f.status = "success" => f.sha = Blank \/ f.sha \in lo..Len(h)

RowSound(j, m, s, r, h) ==
  s.flavour # "file" =>
    /\ r.pc \in Polling => OwnCommit(j, m, r.commitSHA, 1, h)
    /\ r.pc = "repoll" => r.newSHA \in r.commitSHA..Len(h)
    /\ Succeeding(r) /\ r.changed /\ ~s.skipHealth =>
         OwnCommit(j, m, r.commitSHA, 1, h) /\ SeenHealthy(r.commitSHA, h)

Sound(j) ==
  /\ CallSound(j, Manifest(j), job[j].flavour, gitCall[j], From(infra[j]), history)
  /\ RowSound(j, Manifest(j), job[j], infra[j], history)

\* A status is about an older commit than the one it comes with, or about none.
LedgerOK(h) ==
  /\ Len(h) \in Nat /\ Len(h) <= MaxCommits
  /\ \A i \in 1..Len(h) : h[i].status.sha \in Nat /\ (h[i].status.sha < i \/ h[i].status.sha >= 100)

HealthInv == LedgerOK(history) /\ \A j \in InfraJobs : Sound(j)

LEMMA LedgerGrows ==
  ASSUME GitInv, LedgerOK(history), NEW x, history' = Append(history, x), Len(history) < MaxCommits,
         x.status.sha \in 1..Len(history) \cup {MockSha(0), MockSha(1)} \/ x.status = Tip.status
  PROVE  LedgerOK(history')
<1>1. /\ Len(history') = Len(history) + 1 /\ history'[Len(history) + 1] = x
      /\ \A i \in 1..Len(history) : history'[i] = history[i]
      /\ Len(history) \in Nat /\ Len(history) >= 1
  BY BranchGrows DEF GitInv, Branch
<1>2. x.status.sha \in Nat /\ (x.status.sha < Len(history) + 1 \/ x.status.sha >= 100)
  BY <1>1 DEF LedgerOK, Tip, MockSha
<1>3. Len(history') <= MaxCommits
  BY <1>1, GitBounds
<1> QED
  BY <1>1, <1>2, <1>3 DEF LedgerOK

LEMMA LedgerKept ==
  ASSUME GitInv, LedgerOK(history), [ProvisionNext]_<<gitVars, infraVars>>
  PROVE  LedgerOK(history')
<1>1. CASE Quiet
  BY <1>1 DEF Quiet
<1>2. CASE ArgoCommits
  <2> PICK status : /\ status.sha \in 1..Len(history) \cup {MockSha(0), MockSha(1)}
                    /\ history' = Append(history, Commit(Tip.tree, status, "argocd"))
    BY <1>2 DEF ArgoCommits
  <2> DEFINE x == Commit(Tip.tree, status, "argocd")
  <2>1. x.status = status
    BY DEF Commit
  <2> HIDE DEF x
  <2> QED
    BY <1>2, <2>1, LedgerGrows DEF ArgoCommits, x
<1>3. ASSUME NEW c \in GitClients, CallStep(c), history' # history PROVE LedgerOK(history')
  <2> PICK files, set : Puts(c, files, set)
    BY <1>3, OnlyPutsCommit
  <2> DEFINE x == Commit(Overlay(Tip.tree, files, set), Tip.status, c)
  <2>1. x.status = Tip.status
    BY DEF Commit
  <2>2. history' = Append(history, x) /\ Len(history) < MaxCommits
    BY DEF Puts
  <2> HIDE DEF x
  <2> QED
    BY <2>1, <2>2, LedgerGrows
<1> QED
  BY <1>1, <1>2, <1>3, ProvisionStepKinds

\* What is known stays known as the branch grows.
LEMMA OwnGrows ==
  ASSUME NEW j, NEW m, NEW k, NEW lo \in Nat \ {0}, OwnCommit(j, m, k, lo, history),
         Len(history) \in Nat, Len(history') \in Nat, Grown
  PROVE  OwnCommit(j, m, k, lo, history')
BY DEF OwnCommit, Grown

LEMMA SeenGrows ==
  ASSUME NEW k, SeenHealthy(k, history), Len(history) \in Nat, Len(history') \in Nat, Grown
  PROVE  SeenHealthy(k, history')
BY DEF SeenHealthy, Grown

LEMMA CallGrows ==
  ASSUME NEW j, NEW m, NEW w, NEW f, NEW lo \in Nat \ {0}, CallSound(j, m, w, f, lo, history),
         Len(history) \in Nat, Len(history') \in Nat, Grown
  PROVE  CallSound(j, m, w, f, lo, history')
<1>1. \A x \in lo..Len(history) : x \in lo..Len(history')
  BY DEF Grown
<1>2. OwnCommit(j, m, f.sha, lo, history) => OwnCommit(j, m, f.sha, lo, history')
  BY OwnGrows
<1> QED
  BY <1>1, <1>2, Zenon DEF CallSound

LEMMA RowGrows ==
  ASSUME NEW j, NEW m, NEW s, NEW r, RowSound(j, m, s, r, history),
         Len(history) \in Nat, Len(history') \in Nat, Grown
  PROVE  RowSound(j, m, s, r, history')
<1>1. OwnCommit(j, m, r.commitSHA, 1, history) => OwnCommit(j, m, r.commitSHA, 1, history')
  BY OwnGrows
<1>2. SeenHealthy(r.commitSHA, history) => SeenHealthy(r.commitSHA, history')
  BY SeenGrows
<1>3. OwnCommit(j, m, r.commitSHA, 1, history) => r.commitSHA \in Nat
  BY DEF OwnCommit
<1>4. r.commitSHA \in Nat /\ r.newSHA \in r.commitSHA..Len(history) => r.newSHA \in r.commitSHA..Len(history')
  BY DEF Grown
<1> QED
  BY <1>1, <1>2, <1>3, <1>4, Zenon DEF RowSound, Polling

LEMMA SoundFacts ==
  ASSUME HealthInv, InfraInv, GitInv, NEW j \in InfraJobs
  PROVE  /\ CallSound(j, Manifest(j), job[j].flavour, gitCall[j], From(infra[j]), history)
         /\ RowSound(j, Manifest(j), job[j], infra[j], history)
         /\ job[j].flavour # "file" => From(infra[j]) \in 1..Len(history)
         /\ Len(history) \in Nat /\ Len(history) >= 1 /\ j \in GitClients
<1>1. /\ CallSound(j, Manifest(j), job[j].flavour, gitCall[j], From(infra[j]), history)
      /\ RowSound(j, Manifest(j), job[j], infra[j], history)
  BY DEF HealthInv, Sound
<1>2. Len(history) \in Nat /\ Len(history) >= 1 /\ j \in GitClients
  BY InfraBounds DEF GitInv, Branch
<1>3. CASE infra[j].pc = "recommitting" /\ job[j].flavour # "file"
  <2>1. OwnCommit(j, Manifest(j), infra[j].commitSHA, 1, history)
    BY <1>1, <1>3 DEF RowSound, Polling
  <2> QED
    BY <1>1, <1>2, <1>3, <2>1 DEF OwnCommit, From
<1> QED
  BY <1>1, <1>2, <1>3 DEF From

\* The calls and rows of jobs that a step does not touch.
LEMMA SoundFramed ==
  ASSUME HealthInv, InfraInv, GitInv, GitInv', Grown, job' = job, NEW j \in InfraJobs,
         infra'[j] = infra[j], gitCall'[j] = gitCall[j]
  PROVE  Sound(j)'
<1> DEFINE m == Manifest(j)
           w == job[j].flavour
           lo == From(infra[j])
<1>1. /\ CallSound(j, m, w, gitCall[j], lo, history) /\ RowSound(j, m, job[j], infra[j], history)
      /\ w # "file" => lo \in 1..Len(history)
      /\ Len(history) \in Nat
  BY SoundFacts
<1>2. Len(history') \in Nat
  BY DEF GitInv, Branch
<1>3. Manifest(j)' = m
  BY DEF Manifest, Item
<1> HIDE DEF m, w, lo
<1>4. RowSound(j, m, job[j], infra[j], history')
  BY <1>1, <1>2, RowGrows
<1>5. CallSound(j, m, w, gitCall[j], lo, history')
  <2>1. CASE w # "file"
    BY <1>1, <1>2, <2>1, CallGrows
  <2>2. CASE w = "file"
    BY <1>1, <2>2 DEF CallSound
  <2> QED
    BY <2>1, <2>2
<1> QED
  BY <1>3, <1>4, <1>5 DEF Sound, m, w, lo

\* A step of the connector at work for the job.
LEMMA SoundConnector ==
  ASSUME HealthInv, InfraInv, GitInv, GitInv', Grown, job' = job, infra' = infra,
         NEW j \in InfraJobs, Goes(j)
  PROVE  Sound(j)'
<1> DEFINE m == Manifest(j)
           w == job[j].flavour
           lo == From(infra[j])
           f == gitCall[j]
           g == gitCall'[j]
<1>1. /\ CallSound(j, m, w, f, lo, history) /\ RowSound(j, m, job[j], infra[j], history)
      /\ w # "file" => lo \in 1..Len(history)
      /\ Len(history) \in Nat /\ j \in GitClients
  BY SoundFacts
<1>2. Len(history') \in Nat /\ Branch(history)
  BY DEF GitInv, Branch
<1>3. Manifest(j)' = m
  BY DEF Manifest, Item
<1>4. Moves(j, f, g) /\ Learns(j, f, g)
  BY DEF Goes
<1> HIDE DEF m, w, lo, f, g
<1>5. RowSound(j, m, job[j], infra[j], history')
  BY <1>1, <1>2, RowGrows
<1>6. f.pc \in Under /\ g.files = f.files /\ g.flavour = f.flavour
  BY <1>4 DEF Moves, Turns, Finds, Answers, Lands, Spoils
<1>7. f.files = m /\ f.flavour = w
  BY <1>1, <1>6 DEF CallSound, Under
<1>8. CASE w # "file"
  <2> SUFFICES CallSound(j, m, w, g, lo, history')
    BY <1>3, <1>5 DEF Sound, m, w, lo, g
  <2>1. lo \in Nat \ {0} /\ lo <= Len(history)
    BY <1>1, <1>8
  <2>2. CallSound(j, m, w, f, lo, history')
    BY <1>1, <1>2, <2>1, CallGrows
  <2>3. /\ f.pc \in Under \ {"getRef"} => f.base \in lo..Len(history) /\ f.base \in lo..Len(history')
        /\ f.changed => OwnCommit(j, m, f.sha, lo, history')
    BY <1>1, <1>6, <1>8, <2>2 DEF CallSound, Under
  <2>4. Len(history') >= Len(history)
    BY DEF Grown
  <2>5. CASE /\ history' = history /\ f.pc # "getRef" /\ g.pc \in Under \ {"getRef"}
             /\ g.base = f.base /\ g.sha = f.sha /\ g.changed = f.changed
    BY <1>6, <1>7, <2>3, <2>5 DEF CallSound, Under
  <2>6. CASE /\ history' = history /\ g.pc = "compare" /\ g.base = Len(history)
             /\ g.sha = f.sha /\ g.changed = f.changed
    <3>1. g.base \in lo..Len(history')
      BY <1>1, <2>1, <2>6
    <3> QED
      BY <1>6, <1>7, <2>3, <2>6, <3>1 DEF CallSound, Under
  <2>7. CASE g.pc = "done" /\ g.status # "success"
    BY <1>6, <1>7, <2>7 DEF CallSound, Under
  <2>8. CASE /\ history' = history /\ f.pc = "compare" /\ g.pc = "done"
             /\ g.changed = FALSE /\ g.sha \in {f.base, Len(history), Blank}
    <3>1. f.base \in lo..Len(history)
      BY <2>3, <2>8 DEF Under
    <3>2. g.sha = Blank \/ g.sha \in lo..Len(history')
      BY <1>1, <2>1, <2>8, <3>1
    <3> QED
      BY <1>6, <1>7, <2>8, <3>2 DEF CallSound, Under
  <2>9. CASE /\ history' = history /\ f.pc = "compare" /\ g.pc = "done"
             /\ f.changed /\ g.sha = f.sha
    <3>1. OwnCommit(j, m, g.sha, lo, history')
      BY <2>3, <2>9
    <3>2. g.sha \in lo..Len(history')
      BY <3>1 DEF OwnCommit
    <3> QED
      BY <1>6, <1>7, <2>9, <3>1, <3>2 DEF CallSound, Under
  <2>10. CASE /\ f.pc \in {"write", "updateRef"} /\ g.pc \in {"compare", "done"}
              /\ g.base = f.base /\ g.sha = Len(history) + 1
              /\ \E set \in SUBSET DOMAIN f.files : set # {} /\ Puts(j, f.files, set)
    <3> PICK set \in SUBSET DOMAIN f.files : set # {} /\ Puts(j, f.files, set)
      BY <2>10
    <3> DEFINE tree == Overlay(Tip.tree, f.files, set)
               x == Commit(tree, Tip.status, j)
    <3>1. x.by = j /\ x.tree = tree
      BY DEF Commit
    <3>2. \A p \in Paths \cap set : tree[p] = m[p]
      BY <1>7 DEF Overlay
    <3>3. history' = Append(history, x)
      BY DEF Puts
    <3> HIDE DEF tree, x
    <3>4. Len(history') = Len(history) + 1 /\ history'[Len(history) + 1] = x
      BY <1>2, <3>3, BranchGrows
    <3>5. DOMAIN m = {Item(j)}
      BY DEF m, Manifest
    <3>6. set = DOMAIN m
      BY <1>7, <3>5
    <3>7. f.base \in lo..Len(history) /\ f.base \in lo..Len(history')
      BY <2>3, <2>10 DEF Under
    <3>8. g.sha \in lo..Len(history')
      BY <1>1, <2>1, <2>10, <3>4, <3>7
    <3>9. OwnCommit(j, m, g.sha, lo, history')
      BY <2>10, <3>1, <3>2, <3>4, <3>6, <3>8 DEF OwnCommit
    <3> QED
      BY <1>6, <1>7, <2>10, <3>7, <3>8, <3>9 DEF CallSound, Under
  <2> QED
    BY <1>4, <1>7, <1>8, <2>5, <2>6, <2>7, <2>8, <2>9, <2>10 DEF Learns
<1>9. CASE w = "file"
  <2>1. CallSound(j, m, w, g, lo, history')
    BY <1>6, <1>7, <1>9 DEF CallSound
  <2> QED
    BY <1>3, <1>5, <2>1 DEF Sound, m, w, lo, g
<1> QED
  BY <1>8, <1>9

-----------------------------------------------------------------------------
(* The actions of Execute keep it.                                          *)

SoundAfter(j) ==
  /\ CallSound(j, Manifest(j), job[j].flavour, gitCall'[j], From(infra'[j]), history)
  /\ RowSound(j, Manifest(j), job[j], infra'[j], history)

LEMMA IdleSound ==
  ASSUME NEW j, NEW m, NEW w, NEW f, NEW lo, NEW h, f.pc = "idle"
  PROVE  CallSound(j, m, w, f, lo, h)
BY DEF CallSound

LEMMA FreeSound ==
  ASSUME NEW j, NEW m, NEW s, NEW r, NEW h,
         r.pc \in Free \cup {"committing"} \/ (r.pc = "callback" /\ r.outcome # "succeeded")
  PROVE  RowSound(j, m, s, r, h)
BY DEF RowSound, Free, Polling, Succeeding

\* After an action that leaves no call under way, the call owes nothing.
LEMMA NoCallSound ==
  ASSUME NEW j \in InfraJobs, After(j), infra'[j].pc \notin Calling,
         RowSound(j, Manifest(j), job[j], infra'[j], history)
  PROVE  SoundAfter(j)
BY IdleSound DEF After, RowOK, SoundAfter

LEMMA FreedSound ==
  ASSUME NEW j \in InfraJobs, After(j), infra'[j].pc \in Free
  PROVE  SoundAfter(j)
<1>1. RowSound(j, Manifest(j), job[j], infra'[j], history)
  BY FreeSound
<1> QED
  BY <1>1, NoCallSound DEF Free, Calling

LEMMA OpenSound ==
  ASSUME HealthInv, InfraInv, GitInv, NEW j \in InfraJobs, GitCommit(j) \/ Remediate(j)
  PROVE  SoundAfter(j)
<1> DEFINE w == job[j].flavour
           m == Manifest(j)
           pc == IF w = "file" THEN "compare" ELSE "getRef"
           g == gitCall'[j]
<1>1. SetCall(j, Opened(pc, w, m)) /\ j \in GitClients
  BY InfraBounds DEF GitCommit, Remediate, CommitFiles, Opened
<1>2. g = Opened(pc, w, m)
  BY <1>1, SetCallSets
<1>3. w # "file" => pc = "getRef"
  OBVIOUS
<1> HIDE DEF w, m, pc
<1>4. g.pc = pc /\ g.flavour = w /\ g.files = m
  BY <1>2, OpenedFields
<1>5. g.changed = FALSE
  BY <1>2, OpenedUnchanged
<1>6. pc # "done"
  BY DEF pc
<1> HIDE DEF g
<1>7. CallSound(j, m, w, g, From(infra'[j]), history)
  BY <1>3, <1>4, <1>5, <1>6 DEF CallSound
<1>8. RowSound(j, m, job[j], infra'[j], history)
  <2>1. CASE GitCommit(j)
    <3>1. infra'[j].pc = "committing"
      BY <2>1, MoveStep DEF GitCommit
    <3> QED
      BY <3>1, FreeSound
  <2>2. CASE Remediate(j)
    <3>1. /\ infra[j].pc = "remediation" /\ infra'[j].pc = "recommitting"
          /\ infra'[j].commitSHA = infra[j].commitSHA
      BY <2>2, MoveStep DEF Remediate, At
    <3>2. RowSound(j, m, job[j], infra[j], history)
      BY SoundFacts DEF m
    <3> QED
      BY <3>1, <3>2 DEF RowSound, Polling, Succeeding
  <2> QED
    BY <2>1, <2>2
<1> QED
  BY <1>7, <1>8 DEF SoundAfter, m, w, g

LEMMA CommitTakenSound ==
  ASSUME HealthInv, InfraInv, GitInv, NEW j \in InfraJobs, TakeCommit(j)
  PROVE  SoundAfter(j)
<1> DEFINE result == gitCall[j]
           row == WithCommit(infra[j], result.sha, result.changed)
           g == WithOutcome(row, "callback", "succeeded")
           p == AtPlace(row, "poll")
<1>1. /\ infra[j].pc = "committing" /\ result.pc = "done" /\ After(j) /\ gitCall'[j].pc = "idle"
  BY TakeCommitStep, ClosedCall DEF TakeCommit, TakeResult, At
<1>2. RowShape(row) /\ row.commitSHA = result.sha /\ row.changed = result.changed
  BY RowFacts, WithCommitFields
<1>3. \/ MoveTo(j, "jobs_exhausted") \/ Fails(j)
      \/ SetInfra(j, g) /\ (~result.changed \/ job[j].skipHealth)
      \/ /\ SetInfra(j, p) /\ result.changed
         /\ result.status # "terminal_error" /\ result.status # "error"
  BY DEF TakeCommit, WithOutcome, AtPlace, WithCommit
<1> HIDE DEF row
<1>4. /\ g.pc = "callback" /\ g.changed = result.changed
      /\ p.pc = "poll" /\ p.commitSHA = result.sha
  BY <1>2, WithOutcomeFields, AtPlaceFields
<1> HIDE DEF g, p
<1>5. CASE MoveTo(j, "jobs_exhausted") \/ Fails(j)
  <2>1. infra'[j].pc \in Free
    BY <1>1, <1>5, MoveStep, FailsStep DEF Free
  <2> QED
    BY <1>1, <2>1, FreedSound
<1>6. CASE SetInfra(j, g) /\ (~result.changed \/ job[j].skipHealth)
  <2>1. infra'[j] = g
    BY <1>6, SetInfraSets
  <2>2. RowSound(j, Manifest(j), job[j], infra'[j], history)
    BY <1>4, <1>6, <2>1 DEF RowSound, Polling, Succeeding
  <2> QED
    BY <1>1, <1>4, <2>1, <2>2, NoCallSound DEF Calling
<1>7. CASE /\ SetInfra(j, p) /\ result.changed
           /\ result.status # "terminal_error" /\ result.status # "error"
  <2>1. infra'[j] = p
    BY <1>7, SetInfraSets
  <2>2. CallOK(result) /\ CallSound(j, Manifest(j), job[j].flavour, result, From(infra[j]), history)
    BY SoundFacts DEF GitInv
  <2>3. From(infra[j]) = 1 /\ result.status = "success"
    BY <1>1, <1>7, <2>2 DEF CallOK, Results, From
  <2>4. job[j].flavour # "file" => OwnCommit(j, Manifest(j), p.commitSHA, 1, history)
    BY <1>1, <1>4, <1>7, <2>2, <2>3 DEF CallSound
  <2>5. RowSound(j, Manifest(j), job[j], infra'[j], history)
    BY <1>4, <2>1, <2>4 DEF RowSound, Polling, Succeeding
  <2> QED
    BY <1>1, <1>4, <2>1, <2>5, NoCallSound DEF Calling
<1> QED
  BY <1>3, <1>5, <1>6, <1>7

\* The status that ends a poll is about the commit of the run or a later one,
\* and it came with a later one still.
LEMMA HealthySound ==
  ASSUME HealthInv, InfraInv, GitInv, NEW j \in InfraJobs, Healthy(j)
  PROVE  SoundAfter(j)
<1> DEFINE g == WithOutcome(infra[j], "callback", "succeeded")
           k == infra[j].commitSHA
           n == Len(history)
<1>1. /\ infra[j].pc \in {"poll", "repoll"} /\ After(j) /\ RowShape(infra[j])
      /\ Tip.status.state = "healthy"
      /\ Tip.status.sha = IF infra[j].pc = "poll" THEN infra[j].commitSHA ELSE infra[j].newSHA
  BY HealthyStep, RowFacts DEF Healthy, At, Matches, Expected
<1>2. infra'[j] = g
  BY SetInfraSets DEF Healthy, WithOutcome
<1>3. g.pc = "callback" /\ g.commitSHA = k
  BY <1>1, WithOutcomeFields
<1> HIDE DEF g
<1>4. ASSUME job[j].flavour # "file"
      PROVE  OwnCommit(j, Manifest(j), k, 1, history) /\ SeenHealthy(k, history)
  <2>1. RowSound(j, Manifest(j), job[j], infra[j], history) /\ n \in Nat /\ n >= 1
    BY SoundFacts
  <2>2. OwnCommit(j, Manifest(j), k, 1, history)
    BY <1>1, <1>4, <2>1 DEF RowSound, Polling
  <2>3. k \in 1..n
    BY <2>2 DEF OwnCommit
  <2>4. Tip.status.sha \in k..n
    BY <1>1, <1>4, <2>1, <2>3 DEF RowSound
  <2>5. Tip.status.sha < n \/ Tip.status.sha >= 100
    BY <2>1 DEF HealthInv, LedgerOK, Tip
  <2>6. n <= MaxCommits /\ MaxCommits \in Nat /\ MaxCommits < 100
    BY GitBounds, MockNames DEF HealthInv, LedgerOK
  <2>7. Tip.status.sha \in k..(n - 1)
    BY <2>1, <2>3, <2>4, <2>5, <2>6
  <2>8. n \in 1..Len(history) /\ history[n].status.state = "healthy" /\ history[n].status.sha \in k..(n - 1)
    BY <1>1, <2>1, <2>7 DEF Tip
  <2>9. SeenHealthy(k, history)
    BY <2>8 DEF SeenHealthy
  <2> QED
    BY <2>2, <2>9
<1>5. RowSound(j, Manifest(j), job[j], infra'[j], history)
  BY <1>2, <1>3, <1>4 DEF RowSound, Polling
<1> QED
  BY <1>1, <1>2, <1>3, <1>5, NoCallSound DEF Calling

LEMMA PollFailedSound ==
  ASSUME HealthInv, InfraInv, GitInv, NEW j \in InfraJobs, infra[j].pc \in {"poll", "repoll"}, PollFails(j),
         gitCall' = gitCall, decisions' = decisions
  PROVE  SoundAfter(j)
<1> DEFINE g == WithOutcome(infra[j], "callback", "failed")
<1>1. After(j) /\ RowShape(infra[j])
  BY PollFailsStep, RowFacts
<1>2. (infra[j].pc = "poll" /\ MoveTo(j, "remediation")) \/ SetInfra(j, g)
  BY DEF PollFails, At, WithOutcome
<1>3. g.pc = "callback" /\ g.outcome = "failed"
  BY <1>1, WithOutcomeFields
<1> HIDE DEF g
<1>4. CASE infra[j].pc = "poll" /\ MoveTo(j, "remediation")
  <2>1. infra'[j].pc = "remediation" /\ infra'[j].commitSHA = infra[j].commitSHA
    BY <1>4, MoveStep
  <2>2. RowSound(j, Manifest(j), job[j], infra[j], history)
    BY SoundFacts
  <2>3. RowSound(j, Manifest(j), job[j], infra'[j], history)
    BY <1>4, <2>1, <2>2 DEF RowSound, Polling, Succeeding
  <2> QED
    BY <1>1, <2>1, <2>3, NoCallSound DEF Calling
<1>5. CASE SetInfra(j, g)
  <2>1. infra'[j] = g
    BY <1>5, SetInfraSets
  <2>2. RowSound(j, Manifest(j), job[j], infra'[j], history)
    BY <1>3, <2>1, FreeSound
  <2> QED
    BY <1>1, <1>3, <2>1, <2>2, NoCallSound DEF Calling
<1> QED
  BY <1>2, <1>4, <1>5

LEMMA RecommitTakenSound ==
  ASSUME HealthInv, InfraInv, GitInv, NEW j \in InfraJobs, TakeRecommit(j)
  PROVE  SoundAfter(j)
<1> DEFINE sha == gitCall[j].sha
           n == WithNew(infra[j], "repoll", sha)
           g == WithOutcome(infra[j], "callback", "failed")
<1>1. /\ infra[j].pc = "recommitting" /\ gitCall[j].pc = "done" /\ After(j) /\ RowShape(infra[j])
  BY TakeRecommitStep, RowFacts DEF TakeRecommit, TakeResult, At
<1>2. \/ SetInfra(j, n) /\ gitCall[j].status = "success" /\ sha # Blank
      \/ SetInfra(j, g)
  BY DEF TakeRecommit, WithNew, WithOutcome
<1> HIDE DEF sha
<1>3. /\ n.pc = "repoll" /\ n.commitSHA = infra[j].commitSHA /\ n.newSHA = sha
      /\ g.pc = "callback" /\ g.outcome = "failed"
  BY <1>1, WithNewFields, WithOutcomeFields
<1> HIDE DEF n, g
<1>4. CASE SetInfra(j, n) /\ gitCall[j].status = "success" /\ sha # Blank
  <2>1. infra'[j] = n
    BY <1>4, SetInfraSets
  <2>2. /\ RowSound(j, Manifest(j), job[j], infra[j], history)
        /\ CallSound(j, Manifest(j), job[j].flavour, gitCall[j], From(infra[j]), history)
    BY SoundFacts
  <2>3. From(infra[j]) = infra[j].commitSHA
    BY <1>1 DEF From
  <2>4. job[j].flavour # "file" => sha \in infra[j].commitSHA..Len(history)
    BY <1>1, <1>4, <2>2, <2>3 DEF CallSound, sha
  <2>5. RowSound(j, Manifest(j), job[j], infra'[j], history)
    BY <1>1, <1>3, <2>1, <2>2, <2>4 DEF RowSound, Polling, Succeeding
  <2> QED
    BY <1>1, <1>3, <2>1, <2>5, NoCallSound DEF Calling
<1>5. CASE SetInfra(j, g)
  <2>1. infra'[j] = g
    BY <1>5, SetInfraSets
  <2>2. RowSound(j, Manifest(j), job[j], infra'[j], history)
    BY <1>3, <2>1, FreeSound
  <2> QED
    BY <1>1, <1>3, <2>1, <2>2, NoCallSound DEF Calling
<1> QED
  BY <1>2, <1>4, <1>5

LEMMA CallbackSound ==
  ASSUME HealthInv, InfraInv, GitInv, NEW j \in InfraJobs, PostCallback(j)
  PROVE  SoundAfter(j)
<1>1. infra[j].pc = "callback" /\ After(j) /\ gitCall'[j].pc = "idle"
  <2>1. infra[j].pc = "callback" /\ gitCall' = gitCall
    BY DEF PostCallback, At
  <2> QED
    BY <2>1, PostCallbackStep, RowFacts DEF Calling
<1>2. CASE infra[j].outcome = "succeeded" /\ MoveTo(j, "succeeded")
  <2>1. /\ infra'[j].pc = "succeeded" /\ infra'[j].changed = infra[j].changed
        /\ infra'[j].commitSHA = infra[j].commitSHA
    BY <1>2, MoveStep
  <2>2. RowSound(j, Manifest(j), job[j], infra[j], history)
    BY SoundFacts
  <2>3. RowSound(j, Manifest(j), job[j], infra'[j], history)
    BY <1>1, <1>2, <2>1, <2>2 DEF RowSound, Polling, Succeeding
  <2> QED
    BY <1>1, <2>1, <2>3, NoCallSound DEF Calling
<1>3. CASE Fails(j)
  BY <1>1, <1>3, FailsStep, FreedSound
<1> QED
  BY <1>2, <1>3 DEF PostCallback

LEMMA ActsSound ==
  ASSUME HealthInv, InfraInv, GitInv, NEW j \in InfraJobs, Acts(j)
  PROVE  SoundAfter(j)
<1>1. CASE Start(j) \/ EvaluatePolicy(j) \/ ApprovalGate(j) \/ TakeDecision(j) \/ Panic(j) \/ Crash(j)
  BY <1>1, StartStep, EvaluatePolicyStep, GateStep, TakeDecisionStep, LostStep, FreedSound
<1>2. CASE Decide(j)
  <2>1. infra' = infra /\ gitCall' = gitCall
    BY <1>2 DEF Decide, NoGit, gitVars
  <2> QED
    BY <2>1, SoundFacts DEF SoundAfter
<1>3. CASE Unreadable(j) \/ PollTimeout(j)
  <2>1. /\ infra[j].pc \in {"poll", "repoll"} /\ PollFails(j)
        /\ gitCall' = gitCall /\ decisions' = decisions
    BY <1>3 DEF Unreadable, PollTimeout, At, NoGit, gitVars
  <2> QED
    BY <2>1, PollFailedSound
<1> QED
  BY <1>1, <1>2, <1>3, OpenSound, CommitTakenSound, HealthySound, RecommitTakenSound, CallbackSound DEF Acts

LEMMA HealthInvStarts == GitInit /\ InfraInit => HealthInv
<1> SUFFICES ASSUME GitInit, InfraInit PROVE HealthInv
  OBVIOUS
<1>1. LedgerOK(history)
  <2> PICK tree \in Trees : history = <<Commit(tree, NoStatus, "argocd")>>
    BY DEF GitInit
  <2>1. Len(history) = 1 /\ history[1].status.sha = 0
    BY DEF Commit, NoStatus
  <2> QED
    BY <2>1, GitBounds DEF LedgerOK
<1> PICK pc \in {"queued", "unsubmitted"} : infra = [j \in InfraJobs |-> [Queued EXCEPT !.pc = pc]]
  BY DEF InfraInit
<1>2. ASSUME NEW j \in InfraJobs PROVE Sound(j)
  <2>1. infra[j] = FreshRun(pc, Queued.attempt)
    BY DEF FreshRun, Queued
  <2>2. infra[j].pc = pc
    BY <2>1, FreshRunFields
  <2>3. gitCall[j].pc = "idle"
    BY InfraBounds, NoCallFields DEF GitInit
  <2>4. RowSound(j, Manifest(j), job[j], infra[j], history)
    BY <2>2 DEF RowSound, Polling, Succeeding
  <2> QED
    BY <2>3, <2>4, IdleSound DEF Sound
<1> QED
  BY <1>1, <1>2 DEF HealthInv

LEMMA HealthInvKept ==
  GitInv /\ GitInv' /\ InfraInv /\ HealthInv /\ [ProvisionNext]_<<gitVars, infraVars>> => HealthInv'
<1> SUFFICES ASSUME GitInv, GitInv', InfraInv, HealthInv, [ProvisionNext]_<<gitVars, infraVars>>
             PROVE  HealthInv'
  OBVIOUS
<1>0. LedgerOK(history')
  BY LedgerKept DEF HealthInv
<1> SUFFICES \A j \in InfraJobs : Sound(j)'
  BY <1>0 DEF HealthInv
<1>1. Grown
  BY HistoryGrows
<1>2. CASE infra' = infra /\ job' = job /\ gitCall' = gitCall
  BY <1>1, <1>2, SoundFramed
<1>3. ASSUME NEW j \in InfraJobs, Acts(j) PROVE \A k \in InfraJobs : Sound(k)'
  <2>1. Own(j) /\ SoundAfter(j)
    BY <1>3, ActsAreOwn, ActsSound
  <2>2. \A k \in InfraJobs \ {j} : infra'[k] = infra[k] /\ gitCall'[k] = gitCall[k]
    BY <2>1, InfraBounds DEF InfraInv, GitInv, Own, SetInfra, SetCall
  <2>3. \A k \in InfraJobs \ {j} : Sound(k)'
    BY <1>1, <2>1, <2>2, SoundFramed DEF Own
  <2>4. Manifest(j)' = Manifest(j) /\ job' = job /\ history' = history
    BY <2>1 DEF Own, Manifest, Item
  <2>5. Sound(j)'
    BY <2>1, <2>4 DEF SoundAfter, Sound
  <2> QED
    BY <2>3, <2>5
<1>4. ASSUME NEW j \in InfraJobs, GitStep(j), UNCHANGED infraVars PROVE \A k \in InfraJobs : Sound(k)'
  <2>1. j \in GitClients /\ infra' = infra /\ job' = job
    BY <1>4, InfraBounds DEF infraVars
  <2>2. Goes(j) /\ Single(j)
    BY <1>4, <2>1, GitStepMoves, GitStepIsSingle
  <2>3. \A k \in InfraJobs \ {j} : gitCall'[k] = gitCall[k]
    BY <2>1, <2>2, CallsKept, InfraBounds
  <2> QED
    BY <1>1, <2>1, <2>2, <2>3, SoundConnector, SoundFramed
<1>5. ASSUME NEW c \in GitClients \ InfraJobs, ClientStep(c), UNCHANGED infraVars
      PROVE  \A k \in InfraJobs : Sound(k)'
  <2>1. infra' = infra /\ job' = job
    BY <1>5 DEF infraVars
  <2>2. CallStep(c)
    BY <1>5, OpeningStep, ConnectorStep, ClosingStep DEF ClientStep, TakeResult
  <2>3. \A k \in InfraJobs : gitCall'[k] = gitCall[k]
    BY <2>2, CallsKept, InfraBounds DEF CallStep
  <2> QED
    BY <1>1, <2>1, <2>3, SoundFramed
<1>6. CASE UNCHANGED <<gitVars, infraVars>>
  BY <1>2, <1>6 DEF gitVars, infraVars
<1>7. CASE WriteStatus
  BY <1>2, <1>7 DEF WriteStatus
<1> QED
  BY <1>3, <1>4, <1>5, <1>6, <1>7 DEF ProvisionNext, InfraNext, InfraStep, Acts

LEMMA ProvisionKeepsHealth == ProvisionSpec => []HealthInv
<1>1. GitInit /\ InfraInit => HealthInv
  BY HealthInvStarts
<1>2. GitInv /\ GitInv' /\ InfraInv /\ HealthInv /\ [ProvisionNext]_<<gitVars, infraVars>> => HealthInv'
  BY HealthInvKept
<1> QED
  BY <1>1, <1>2, ProvisionKeepsInvs, PTL DEF ProvisionSpec

\* A job that changed something through a hosting service, and did not ask to
\* skip the check, succeeds only with a commit of its own that holds its manifest,
\* and only after a status said "healthy" of that commit or of one on top of it,
\* for any number of jobs, retries, remediations, crashes and status files
\* (TakeCommit, pollHealthStatus, remediationRecommit).
THEOREM SuccessMeansHealthy == ProvisionSpec => []HealthIsOfThisRun
<1>1. HealthInv => HealthIsOfThisRun
  <2> SUFFICES ASSUME HealthInv, NEW j \in InfraJobs,
                      At(j, "succeeded"), infra[j].changed, ~job[j].skipHealth, job[j].flavour # "file"
               PROVE  /\ OwnCommit(j, Manifest(j), infra[j].commitSHA, 1, history)
                      /\ SeenHealthy(infra[j].commitSHA, history)
    BY DEF HealthIsOfThisRun, OwnCommit, SeenHealthy
  <2>1. RowSound(j, Manifest(j), job[j], infra[j], history)
    BY DEF HealthInv, Sound
  <2> QED
    BY <2>1 DEF RowSound, Succeeding, At
<1> QED
  BY <1>1, ProvisionKeepsHealth, PTL

-----------------------------------------------------------------------------
(* Runs come to an end.                                                     *)

\* The places that are at most ahead of a run of Execute.
Ahead(pc) ==
  CASE pc = "policy" -> 10 [] pc = "gate" -> 9 [] pc = "waiting" -> 8 [] pc = "commit" -> 7
    [] pc = "committing" -> 6 [] pc = "poll" -> 5 [] pc = "remediation" -> 4
    [] pc = "recommitting" -> 3 [] pc = "repoll" -> 2 [] pc = "callback" -> 1 [] OTHER -> 0

\* A place further on, the next attempt, or a crash and what repeats it; a row
\* is back in the queue only while attempts are left.
Onward(s, r, max) ==
  /\ s.pc = "queued" => s.attempt < max
  /\ \/ s.attempt = r.attempt /\ Ahead(s.pc) < Ahead(r.pc)
     \/ s.attempt = r.attempt + 1 /\ r.pc = "queued"
     \/ s.attempt = r.attempt /\ (s.pc = "lost" \/ r.pc = "lost")

GoesOnward(j) == Onward(infra'[j], infra[j], job[j].maxAttempts)

LEMMA AttemptKept ==
  ASSUME NEW r, RowShape(r), NEW pc, NEW x, NEW y
  PROVE  /\ AtPlace(r, pc).attempt = r.attempt /\ WithPolicy(r, x).attempt = r.attempt
         /\ WithOutcome(r, pc, x).attempt = r.attempt /\ WithNew(r, pc, x).attempt = r.attempt
         /\ WithCommit(r, x, y).attempt = r.attempt
BY DEF RowShape, RowFields, AtPlace, WithPolicy, WithOutcome, WithNew, WithCommit

LEMMA FreshAttempt ==
  ASSUME NEW pc, NEW attempt
  PROVE  FreshRun(pc, attempt).attempt = attempt
<1> DEFINE r == Queued
           g == [r EXCEPT !.pc = pc, !.attempt = attempt]
<1>1. RowShape(r)
  BY Zenon DEF RowShape, RowFields, Queued
<1> HIDE DEF r
<1>2. g.attempt = attempt
  BY <1>1 DEF RowShape, RowFields
<1>3. FreshRun(pc, attempt) = g
  BY DEF FreshRun, r
<1> HIDE DEF g
<1> QED
  BY <1>2, <1>3

\* Places of a run, and what comes after each.
UnderWay == {"policy", "gate", "waiting", "commit", "committing", "poll", "remediation", "recommitting", "repoll",
             "callback"}

LEMMA PlacesAhead ==
  /\ \A pc \in UnderWay : Ahead(pc) \in 1..10
  /\ \A pc \in {"queued", "succeeded", "jobs_exhausted", "lost"} : Ahead(pc) = 0
  /\ Ahead("policy") = 10 /\ Ahead("gate") = 9 /\ Ahead("waiting") = 8 /\ Ahead("commit") = 7
  /\ Ahead("committing") = 6 /\ Ahead("poll") = 5 /\ Ahead("remediation") = 4
  /\ Ahead("recommitting") = 3 /\ Ahead("repoll") = 2 /\ Ahead("callback") = 1
BY DEF Ahead, UnderWay

LEMMA MoveOnward ==
  ASSUME InfraInv, NEW j \in InfraJobs, NEW pc, MoveTo(j, pc), pc # "queued",
         Ahead(pc) < Ahead(infra[j].pc) \/ pc = "lost"
  PROVE  GoesOnward(j)
<1>1. infra'[j] = AtPlace(infra[j], pc) /\ RowShape(infra[j])
  BY SetInfraSets, RowFacts DEF MoveTo, AtPlace
<1>2. infra'[j].pc = pc /\ infra'[j].attempt = infra[j].attempt
  BY <1>1, AtPlaceFields, AttemptKept
<1> QED
  BY <1>2 DEF GoesOnward, Onward

LEMMA FailedGoes ==
  ASSUME InfraInv, NEW j \in InfraJobs
  PROVE  LET f == FailedRow(j) IN
         /\ RowShape(f) /\ f.attempt = infra[j].attempt /\ f.pc \in {"queued", "jobs_exhausted"}
         /\ f.pc = "queued" => infra[j].attempt < job[j].maxAttempts
<1> DEFINE pc == IF infra[j].attempt < job[j].maxAttempts THEN "queued" ELSE "jobs_exhausted"
<1>1. RowShape(infra[j])
  BY RowFacts
<1>2. FailedRow(j) = AtPlace(infra[j], pc)
  BY DEF FailedRow, AtPlace
<1>3. pc = "queued" => infra[j].attempt < job[j].maxAttempts
  OBVIOUS
<1> HIDE DEF pc
<1>4. FailedRow(j).pc = pc /\ FailedRow(j).attempt = infra[j].attempt
  BY <1>1, <1>2, AtPlaceFields, AttemptKept
<1> QED
  BY <1>3, <1>4, FailedFields

LEMMA FailsOnward ==
  ASSUME InfraInv, NEW j \in InfraJobs, Fails(j), infra[j].pc \in UnderWay
  PROVE  GoesOnward(j)
<1>1. infra'[j] = FailedRow(j)
  BY SetInfraSets DEF Fails
<1> DEFINE f == FailedRow(j)
<1>2. /\ f.attempt = infra[j].attempt /\ f.pc \in {"queued", "jobs_exhausted"}
      /\ f.pc = "queued" => infra[j].attempt < job[j].maxAttempts
  BY FailedGoes
<1> HIDE DEF f
<1>3. Ahead(f.pc) < Ahead(infra[j].pc)
  <2>1. Ahead(f.pc) = 0 /\ Ahead(infra[j].pc) \in 1..10
    BY <1>2, PlacesAhead
  <2> QED
    BY <2>1
<1> QED
  BY <1>1, <1>2, <1>3 DEF GoesOnward, Onward, f

LEMMA StartOnward ==
  ASSUME InfraInv, NEW j \in InfraJobs, Start(j), infra[j].attempt \in Nat
  PROVE  GoesOnward(j)
<1> DEFINE n == infra[j].attempt + (IF At(j, "queued") THEN 1 ELSE 0)
           run == FreshRun("policy", n)
           pc == IF job[j].params \in Explosive THEN "lost"
                 ELSE IF run.attempt < job[j].maxAttempts THEN "queued" ELSE "jobs_exhausted"
<1>1. SetInfra(j, IF job[j].params \in Renderable THEN run ELSE AtPlace(run, pc))
  BY DEF Start, FreshRun, AtPlace
<1>2. RowShape(run) /\ run.pc = "policy" /\ run.attempt = n
  BY FreshRunFields, FreshAttempt
<1>3. pc = "queued" => n < job[j].maxAttempts
  BY <1>2
<1>4. \/ infra[j].pc = "queued" /\ n = infra[j].attempt + 1
      \/ infra[j].pc = "lost" /\ n = infra[j].attempt
  BY DEF Start, At
<1> HIDE DEF run, pc, n
<1>5. infra'[j] = run \/ infra'[j] = AtPlace(run, pc)
  BY <1>1, SetInfraSets
<1>6. infra'[j].attempt = n /\ (infra'[j].pc = "queued" => n < job[j].maxAttempts)
  BY <1>2, <1>3, <1>5, AtPlaceFields, AttemptKept
<1> QED
  BY <1>4, <1>6 DEF GoesOnward, Onward

LEMMA PolicyOnward ==
  ASSUME InfraInv, NEW j \in InfraJobs, EvaluatePolicy(j)
  PROVE  GoesOnward(j)
<1>1. infra[j].pc = "policy" /\ RowShape(infra[j])
  BY RowFacts DEF EvaluatePolicy, At
<1> DEFINE g == WithPolicy(AtPlace(infra[j], "gate"), "allowed")
           d == WithPolicy(FailedRow(j), "denied")
<1>2. SetInfra(j, g) \/ SetInfra(j, d) \/ Fails(j)
  BY DEF EvaluatePolicy, WithPolicy, AtPlace
<1>3. g.pc = "gate" /\ g.attempt = infra[j].attempt
  BY <1>1, AtPlaceFields, WithPolicyFields, AttemptKept
<1>4. /\ d.attempt = infra[j].attempt /\ d.pc \in {"queued", "jobs_exhausted"}
      /\ d.pc = "queued" => infra[j].attempt < job[j].maxAttempts
  BY FailedGoes, WithPolicyFields, AttemptKept
<1> HIDE DEF g, d
<1>5. Ahead(g.pc) < Ahead(infra[j].pc) /\ Ahead(d.pc) < Ahead(infra[j].pc)
  BY <1>1, <1>3, <1>4, PlacesAhead
<1>6. CASE SetInfra(j, g)
  BY <1>3, <1>5, <1>6, SetInfraSets DEF GoesOnward, Onward
<1>7. CASE SetInfra(j, d)
  BY <1>4, <1>5, <1>7, SetInfraSets DEF GoesOnward, Onward
<1> QED
  BY <1>1, <1>2, <1>6, <1>7, FailsOnward DEF UnderWay

\* From a place to the next.
LEMMA GateOnward ==
  ASSUME InfraInv, NEW j \in InfraJobs, ApprovalGate(j)
  PROVE  GoesOnward(j)
<1>1. infra[j].pc = "gate" /\ (MoveTo(j, "waiting") \/ MoveTo(j, "commit"))
  BY DEF ApprovalGate, At
<1> QED
  BY <1>1, MoveOnward, PlacesAhead

LEMMA DecisionOnward ==
  ASSUME InfraInv, NEW j \in InfraJobs, TakeDecision(j)
  PROVE  GoesOnward(j)
<1>1. infra[j].pc = "waiting" /\ (MoveTo(j, "commit") \/ Fails(j))
  BY DEF TakeDecision, At
<1> QED
  BY <1>1, MoveOnward, FailsOnward, PlacesAhead DEF UnderWay

LEMMA CommitOnward ==
  ASSUME InfraInv, NEW j \in InfraJobs, GitCommit(j) \/ Remediate(j)
  PROVE  GoesOnward(j)
<1>1. \/ infra[j].pc = "commit" /\ MoveTo(j, "committing")
      \/ infra[j].pc = "remediation" /\ MoveTo(j, "recommitting")
  BY DEF GitCommit, Remediate, At
<1> QED
  BY <1>1, MoveOnward, PlacesAhead

LEMMA ResultOnward ==
  ASSUME InfraInv, NEW j \in InfraJobs, TakeCommit(j)
  PROVE  GoesOnward(j)
<1> DEFINE result == gitCall[j]
           row == WithCommit(infra[j], result.sha, result.changed)
           g == WithOutcome(row, "callback", "succeeded")
           p == AtPlace(row, "poll")
<1>1. infra[j].pc = "committing" /\ RowShape(infra[j])
  BY RowFacts DEF TakeCommit, At
<1>2. RowShape(row) /\ row.attempt = infra[j].attempt
  BY <1>1, WithCommitFields, AttemptKept
<1>3. MoveTo(j, "jobs_exhausted") \/ Fails(j) \/ SetInfra(j, g) \/ SetInfra(j, p)
  BY DEF TakeCommit, WithOutcome, AtPlace, WithCommit
<1> HIDE DEF row
<1>4. /\ g.pc = "callback" /\ g.attempt = infra[j].attempt
      /\ p.pc = "poll" /\ p.attempt = infra[j].attempt
  BY <1>2, WithOutcomeFields, AtPlaceFields, AttemptKept
<1> HIDE DEF g, p
<1>5. CASE MoveTo(j, "jobs_exhausted") \/ Fails(j)
  BY <1>1, <1>5, MoveOnward, FailsOnward, PlacesAhead DEF UnderWay
<1>6. CASE SetInfra(j, g)
  BY <1>1, <1>4, <1>6, SetInfraSets, PlacesAhead DEF GoesOnward, Onward
<1>7. CASE SetInfra(j, p)
  BY <1>1, <1>4, <1>7, SetInfraSets, PlacesAhead DEF GoesOnward, Onward
<1> QED
  BY <1>3, <1>5, <1>6, <1>7

LEMMA PollOnward ==
  ASSUME InfraInv, NEW j \in InfraJobs, Healthy(j) \/ Unreadable(j) \/ PollTimeout(j)
  PROVE  GoesOnward(j)
<1> DEFINE Done(outcome) == WithOutcome(infra[j], "callback", outcome)
<1>1. infra[j].pc \in {"poll", "repoll"} /\ RowShape(infra[j])
  BY RowFacts DEF Healthy, Unreadable, PollTimeout, At
<1>2. (infra[j].pc = "poll" /\ MoveTo(j, "remediation")) \/ \E outcome : SetInfra(j, Done(outcome))
  BY DEF Healthy, Unreadable, PollTimeout, PollFails, At, WithOutcome
<1>3. \A outcome : Done(outcome).pc = "callback" /\ Done(outcome).attempt = infra[j].attempt
  BY <1>1, WithOutcomeFields, AttemptKept
<1> HIDE DEF Done
<1>4. ASSUME NEW outcome, SetInfra(j, Done(outcome)) PROVE GoesOnward(j)
  BY <1>1, <1>3, <1>4, SetInfraSets, PlacesAhead DEF GoesOnward, Onward
<1> QED
  BY <1>2, <1>4, MoveOnward, PlacesAhead

LEMMA RecommitOnward ==
  ASSUME InfraInv, NEW j \in InfraJobs, TakeRecommit(j)
  PROVE  GoesOnward(j)
<1> DEFINE n == WithNew(infra[j], "repoll", gitCall[j].sha)
           g == WithOutcome(infra[j], "callback", "failed")
<1>1. infra[j].pc = "recommitting" /\ RowShape(infra[j])
  BY RowFacts DEF TakeRecommit, At
<1>2. SetInfra(j, n) \/ SetInfra(j, g)
  BY DEF TakeRecommit, WithNew, WithOutcome
<1>3. /\ n.pc = "repoll" /\ n.attempt = infra[j].attempt
      /\ g.pc = "callback" /\ g.attempt = infra[j].attempt
  <2>1. \A sha : LET r == WithNew(infra[j], "repoll", sha) IN r.pc = "repoll" /\ r.attempt = infra[j].attempt
    BY <1>1, WithNewFields, AttemptKept
  <2>2. g.pc = "callback" /\ g.attempt = infra[j].attempt
    BY <1>1, WithOutcomeFields, AttemptKept
  <2> QED
    BY <2>1, <2>2
<1> HIDE DEF n, g
<1> QED
  BY <1>1, <1>2, <1>3, SetInfraSets, PlacesAhead DEF GoesOnward, Onward

LEMMA CallbackOnward ==
  ASSUME InfraInv, NEW j \in InfraJobs, PostCallback(j)
  PROVE  GoesOnward(j)
<1>1. infra[j].pc = "callback" /\ (MoveTo(j, "succeeded") \/ Fails(j))
  BY DEF PostCallback, At
<1> QED
  BY <1>1, MoveOnward, FailsOnward, PlacesAhead DEF UnderWay

LEMMA ActsOnward ==
  ASSUME InfraInv, NEW j \in InfraJobs, Acts(j), infra[j].attempt \in Nat, infra'[j] # infra[j]
  PROVE  GoesOnward(j)
<1>1. CASE Panic(j) \/ Crash(j)
  <2>1. MoveTo(j, "lost")
    BY <1>1 DEF Panic, Crash
  <2> QED
    BY <2>1, MoveOnward
<1>2. CASE Decide(j)
  BY <1>2 DEF Decide
<1> QED
  BY <1>1, <1>2, StartOnward, PolicyOnward, GateOnward, DecisionOnward, CommitOnward, ResultOnward, PollOnward,
     RecommitOnward, CallbackOnward DEF Acts

\* Attempts are counted, and a job in the queue has one left or never had one.
AttemptsInv ==
  /\ job \in JobSets
  /\ \A j \in InfraJobs :
       LET n == infra[j].attempt IN
         n \in Nat /\ (n <= 1 \/ n <= job[j].maxAttempts)
         /\ (infra[j].pc = "queued" => n = 0 \/ n < job[j].maxAttempts)

\* What a step makes of the rows and of the jobs.
LEMMA StepsOnward ==
  ASSUME InfraInv, AttemptsInv, [ProvisionNext]_<<gitVars, infraVars>>
  PROVE  /\ job' = job
         /\ \A k \in InfraJobs : infra'[k] = infra[k] \/ GoesOnward(k)
<1>1. CASE UNCHANGED <<infra, job>>
  BY <1>1
<1>2. ASSUME NEW j \in InfraJobs, Acts(j)
      PROVE  job' = job /\ \A k \in InfraJobs : infra'[k] = infra[k] \/ GoesOnward(k)
  <2>1. Own(j)
    BY <1>2, ActsAreOwn
  <2>2. \A k \in InfraJobs \ {j} : infra'[k] = infra[k]
    BY <2>1 DEF InfraInv, Own, SetInfra
  <2>3. infra'[j] = infra[j] \/ GoesOnward(j)
    BY <1>2, ActsOnward DEF AttemptsInv
  <2> QED
    BY <2>1, <2>2, <2>3 DEF Own
<1>3. CASE WriteStatus
  BY <1>1, <1>3 DEF WriteStatus
<1>4. CASE UNCHANGED infraVars
  BY <1>1, <1>4 DEF infraVars
<1> QED
  BY <1>2, <1>3, <1>4 DEF ProvisionNext, InfraNext, InfraStep, Acts

LEMMA AttemptsInvKept ==
  InfraInv /\ AttemptsInv /\ [ProvisionNext]_<<gitVars, infraVars>> => AttemptsInv'
<1> SUFFICES ASSUME InfraInv, AttemptsInv, [ProvisionNext]_<<gitVars, infraVars>> PROVE AttemptsInv'
  OBVIOUS
<1>1. job' = job /\ \A k \in InfraJobs : infra'[k] = infra[k] \/ GoesOnward(k)
  BY StepsOnward
<1>2. ASSUME NEW k \in InfraJobs
      PROVE  LET n == infra'[k].attempt IN
             n \in Nat /\ (n <= 1 \/ n <= job[k].maxAttempts)
             /\ (infra'[k].pc = "queued" => n = 0 \/ n < job[k].maxAttempts)
  <2> DEFINE m == infra[k].attempt
             n == infra'[k].attempt
             max == job[k].maxAttempts
  <2>1. m \in Nat /\ max \in Int /\ (m <= 1 \/ m <= max) /\ (infra[k].pc = "queued" => m = 0 \/ m < max)
    BY JobSetsAssumption DEF AttemptsInv
  <2>2. CASE infra'[k] = infra[k]
    BY <2>1, <2>2
  <2>3. CASE GoesOnward(k)
    <3>1. /\ n = m \/ (n = m + 1 /\ infra[k].pc = "queued")
          /\ infra'[k].pc = "queued" => n < max
      BY <2>3 DEF GoesOnward, Onward
    <3> HIDE DEF m, n, max
    <3>2. n \in Nat /\ (n <= 1 \/ n <= max)
      BY <2>1, <3>1
    <3> QED
      BY <3>1, <3>2 DEF m, n, max
  <2> QED
    BY <1>1, <2>2, <2>3
<1> QED
  BY <1>1, <1>2 DEF AttemptsInv

LEMMA AttemptsInvStarts == InfraInit => AttemptsInv
<1> SUFFICES ASSUME InfraInit PROVE AttemptsInv
  OBVIOUS
<1> PICK pc \in {"queued", "unsubmitted"} : infra = [j \in InfraJobs |-> [Queued EXCEPT !.pc = pc]]
  BY DEF InfraInit
<1>1. ASSUME NEW j \in InfraJobs PROVE infra[j].attempt = 0
  <2>1. infra[j] = FreshRun(pc, Queued.attempt)
    BY DEF FreshRun, Queued
  <2>2. Queued.attempt = 0
    BY DEF Queued
  <2> QED
    BY <2>1, <2>2, FreshAttempt
<1> QED
  BY <1>1 DEF InfraInit, AttemptsInv

LEMMA AttemptsKeepInvs == ProvisionSpec => [](InfraInv /\ AttemptsInv)
<1>1. GitInit /\ InfraInit => AttemptsInv
  BY AttemptsInvStarts
<1> QED
  BY <1>1, AttemptsInvKept, ProvisionKeepsInvs, PTL DEF ProvisionSpec

\* No job has more attempts than it was given, or the one that every job gets.
AttemptsBounded ==
  \A j \in InfraJobs : infra[j].attempt <= 1 \/ infra[j].attempt <= job[j].maxAttempts

RunsGoOnward ==
  [][\A j \in InfraJobs : infra'[j] # infra[j] => Onward(infra'[j], infra[j], job[j].maxAttempts)]_<<gitVars, infraVars>>

\* No run of Execute goes in circles, whatever the policy engine, Argo CD and the
\* git service do: each step takes a job to a later one of ten places or to its
\* next attempt, of which it has no more than max_attempts, or one. Only a crash
\* or a panic repeats an attempt (the phases of Execute, the remediation that is
\* tried once, finaliseFailure and the lease that runs out).
THEOREM RunsComeToAnEnd == ProvisionSpec => []AttemptsBounded /\ RunsGoOnward
<1>1. InfraInv /\ AttemptsInv => AttemptsBounded
  BY DEF AttemptsInv, AttemptsBounded
<1>2. InfraInv /\ AttemptsInv /\ [ProvisionNext]_<<gitVars, infraVars>> =>
        [\A j \in InfraJobs : infra'[j] # infra[j] => Onward(infra'[j], infra[j], job[j].maxAttempts)]_<<gitVars, infraVars>>
  BY StepsOnward DEF GoesOnward
<1> QED
  BY <1>1, <1>2, AttemptsKeepInvs, PTL DEF ProvisionSpec, RunsGoOnward

=============================================================================
