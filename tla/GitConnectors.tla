---------------------------- MODULE GitConnectors ----------------------------
(***************************************************************************)
(* commit_files of the three git connectors at work on one branch:         *)
(* internal/connector/github/github.go, internal/connector/gitea/gitea.go  *)
(* and internal/connector/testing/filegit.go, called through CallConnector *)
(* of internal/runner/step_api.go. One step stands for the requests to the *)
(* hosting service between which another client can get in. The service    *)
(* itself is external: objects are immutable, a reference moves only       *)
(* forward, a file is replaced only by who names the blob it replaces, and *)
(* the answer to a request can get lost after it took effect. The file     *)
(* connector works on a directory: what it does to a file is a commit here *)
(* because a reader of the directory sees it.                              *)
(***************************************************************************)
EXTENDS Naturals, Sequences, FiniteSets

CONSTANTS
  GitClients,    \* concurrent callers of commit_files
  Paths,         \* files of the repository
  Absent,        \* content of a file that is not there
  Blank,         \* the empty string
  Torn,          \* content of a file that was written in part, or over another
  Flavours,      \* the connectors in use, of "github", "gitea" and "file"
  FileSets,      \* what a caller other than a provisioning job wants committed
  Trees,         \* what the branch may hold at the start
  MaxGitFaults,  \* bound: requests that fail, and processes that stop
  MaxCommits     \* bound: commits of one behaviour

ASSUME GitBounds == MaxGitFaults \in Nat /\ MaxCommits \in Nat \ {0}

\* Argo CD commits too, under a name of its own.
ASSUME GitNames == "argocd" \notin GitClients

VARIABLES
  history,    \* commits of the branch, oldest first: tree, status file, author
  gitCall,    \* per client: its call and the locals of commitFiles
  gitFaults   \* requests that failed, and processes that stopped

gitVars == <<history, gitCall, gitFaults>>

NoStatus == [sha |-> 0, state |-> "absent"]

NoCall ==
  [pc |-> "idle", flavour |-> "none", files |-> << >>, todo |-> {}, entries |-> {},
   base |-> 0, path |-> Blank, seen |-> Blank, written |-> 0,
   rootOpen |-> TRUE, status |-> "none", sha |-> Blank, changed |-> FALSE]

Tip == history[Len(history)]

Overlay(tree, files, entries) ==
  [p \in Paths |-> IF p \in entries THEN files[p] ELSE tree[p]]

\* A commit is named by its place in the history.
Commit(tree, status, by) == [tree |-> tree, status |-> status, by |-> by]

\* The names that the file connector makes up: repo, branch and files written.
MockSha(n) == 100 + n

ASSUME MockNames == MaxCommits < 100

GitInit ==
  /\ \E tree \in Trees : history = <<Commit(tree, NoStatus, "argocd")>>
  /\ gitCall = [c \in GitClients |-> NoCall]
  /\ gitFaults = 0

SetCall(c, r) == gitCall' = [gitCall EXCEPT ![c] = r]

\* The result of commitFiles, as CallConnector hands it on.
Answer(c, status, sha, changed) ==
  SetCall(c, [gitCall[c] EXCEPT !.pc = "done", !.status = status, !.sha = sha, !.changed = changed])

TerminalError(c) == Answer(c, "terminal_error", Blank, TRUE)

RequestFails == gitFaults < MaxGitFaults /\ gitFaults' = gitFaults + 1

\* CallConnector, up to the connector's first request.
CommitFiles(c, flavour, files) ==
  /\ gitCall[c].pc = "idle"
  /\ SetCall(c, [NoCall EXCEPT !.pc = IF flavour = "file" THEN "compare" ELSE "getRef",
                               !.flavour = flavour, !.files = files, !.todo = DOMAIN files])
  /\ UNCHANGED <<history, gitFaults>>

\* CallConnector returns before Execute: no connector, a field that is missing,
\* no vault or no token. Its status is "error", never a Go error.
Refuse(c) ==
  /\ gitCall[c].pc \in {"getRef", "compare"} /\ gitCall[c].todo = DOMAIN gitCall[c].files
  /\ RequestFails
  /\ Answer(c, "error", Blank, TRUE)
  /\ UNCHANGED history

\* GitHub: GetRef and GetCommit. Gitea: getBranch, of which only the success counts.
GetRef(c) ==
  /\ gitCall[c].pc = "getRef"
  /\ \/ /\ SetCall(c, [gitCall[c] EXCEPT !.pc = "compare", !.base = Len(history)])
        /\ UNCHANGED gitFaults
     \/ RequestFails /\ TerminalError(c)
  /\ UNCHANGED history

\* The loop over the files compares with the branch as it is now, not with base.
Identical(c, p) == Tip.tree[p] = gitCall[c].files[p]

\* readFileSafe closes the root that the whole of commitFiles goes through: only
\* the first file that is there is ever read.
SkipFile(c, p) ==
  /\ Identical(c, p) /\ gitCall[c].rootOpen
  /\ SetCall(c, [gitCall[c] EXCEPT !.todo = @ \ {p}, !.rootOpen = (gitCall[c].flavour # "file")])
  /\ UNCHANGED gitFaults

\* GitHub: CreateBlob for a file that differs or that could not be read.
AddEntry(c, p) ==
  /\ gitCall[c].flavour = "github"
  /\ \/ /\ ~Identical(c, p) /\ UNCHANGED gitFaults
        /\ SetCall(c, [gitCall[c] EXCEPT !.todo = @ \ {p}, !.entries = @ \cup {p}])
     \/ /\ RequestFails
        /\ \/ SetCall(c, [gitCall[c] EXCEPT !.todo = @ \ {p}, !.entries = @ \cup {p}])
           \/ ~Identical(c, p) /\ TerminalError(c)

GoWrite(c, p) == SetCall(c, [gitCall[c] EXCEPT !.pc = "write", !.path = p, !.seen = Tip.tree[p]])

\* Gitea: a file that differs is written at once; one that cannot be read ends it.
ReadFile(c, p) ==
  /\ gitCall[c].flavour = "gitea"
  /\ \/ ~Identical(c, p) /\ GoWrite(c, p) /\ UNCHANGED gitFaults
     \/ RequestFails /\ TerminalError(c)

\* File: a file that is not there, or that cannot be opened, is written. One that
\* was opened has cost the root, and with a closed root no file can be written.
ReadSafe(c, p) ==
  LET open == gitCall[c].rootOpen
      there == Tip.tree[p] # Absent
  IN /\ gitCall[c].flavour = "file"
     /\ \/ open /\ (RequestFails \/ (~there /\ UNCHANGED gitFaults)) /\ GoWrite(c, p)
        \/ (open => there /\ ~Identical(c, p)) /\ TerminalError(c) /\ UNCHANGED gitFaults
        \/ open /\ there /\ RequestFails /\ TerminalError(c)

\* One round of the loop; Go ranges over a map in any order.
Compare(c) ==
  /\ gitCall[c].pc = "compare"
  /\ \E p \in gitCall[c].todo : SkipFile(c, p) \/ AddEntry(c, p) \/ ReadFile(c, p) \/ ReadSafe(c, p)
  /\ UNCHANGED history

\* Mutant of Unlocked: updateFile does not name the blob it replaces.
AlwaysUnlocked(c) == TRUE

\* The service accepts createFile for a file that is absent and updateFile for
\* the blob it names.
Unlocked(c) == Tip.tree[gitCall[c].path] = gitCall[c].seen

\* The path being written goes over to what a client makes of it.
Overwritten(c, content) ==
  LET p == gitCall[c].path
  IN Append(history, Commit(Overlay(Tip.tree, [q \in {p} |-> content], {p}), Tip.status, c))

FileDone(c) ==
  SetCall(c, [gitCall[c] EXCEPT !.pc = "compare", !.todo = @ \ {gitCall[c].path}, !.path = Blank, !.seen = Blank,
                                !.changed = TRUE, !.sha = Len(history) + 1, !.written = @ + 1])

\* Gitea: createFile and updateFile; each file is a commit of its own.
WriteFile(c) ==
  LET written == Overwritten(c, gitCall[c].files[gitCall[c].path])
  IN /\ gitCall[c].pc = "write" /\ gitCall[c].flavour = "gitea" /\ Len(history) < MaxCommits
     /\ \/ Unlocked(c) /\ history' = written /\ FileDone(c) /\ UNCHANGED gitFaults
        \/ ~Unlocked(c) /\ TerminalError(c) /\ UNCHANGED <<history, gitFaults>>
        \/ /\ RequestFails /\ TerminalError(c)
           /\ history' \in {history} \cup {h \in {written} : Unlocked(c)}

\* File: writeFileSafe opens with O_TRUNC, whoever wrote the file in between.
Truncate(c) ==
  /\ gitCall[c].pc = "write" /\ gitCall[c].flavour = "file" /\ Len(history) < MaxCommits
  /\ \/ /\ history' = Overwritten(c, Blank)
        /\ SetCall(c, [gitCall[c] EXCEPT !.pc = "fill"]) /\ UNCHANGED gitFaults
     \/ RequestFails /\ TerminalError(c) /\ UNCHANGED history

\* File: then it writes, in part when the write fails. What another writer put
\* there since is overwritten only as far as the content reaches.
Fill(c) ==
  LET p == gitCall[c].path
      wanted == gitCall[c].files[p]
  IN /\ gitCall[c].pc = "fill" /\ Len(history) < MaxCommits
     /\ \/ /\ \/ history' = Overwritten(c, wanted)
              \/ Tip.tree[p] \notin {Blank, wanted} /\ history' = Overwritten(c, Torn)
           /\ FileDone(c) /\ UNCHANGED gitFaults
        \/ /\ RequestFails /\ TerminalError(c)
           /\ history' \in {history, Overwritten(c, Torn)}

\* Nothing changed on GitHub: the answer is the commit read first. On Gitea it is
\* the head, or no commit at all when getBranch fails.
NothingToCommit(c) ==
  /\ gitCall[c].flavour = "github" /\ gitCall[c].entries = {}
  /\ Answer(c, "success", gitCall[c].base, FALSE)
  /\ UNCHANGED gitFaults

FilesWritten(c) ==
  /\ gitCall[c].flavour # "github"
  /\ \/ /\ gitCall[c].flavour = "file"
        /\ Answer(c, "success", MockSha(gitCall[c].written), gitCall[c].written > 0)
        /\ UNCHANGED gitFaults
     \/ /\ gitCall[c].flavour = "gitea" /\ gitCall[c].changed
        /\ Answer(c, "success", gitCall[c].sha, TRUE)
        /\ UNCHANGED gitFaults
     \/ /\ gitCall[c].flavour = "gitea" /\ ~gitCall[c].changed
        /\ \/ Answer(c, "success", Len(history), FALSE) /\ UNCHANGED gitFaults
           \/ RequestFails /\ Answer(c, "success", Blank, FALSE)

\* GitHub: CreateTree and CreateCommit make objects that nobody sees yet.
CreateCommit(c) ==
  /\ gitCall[c].flavour = "github" /\ gitCall[c].entries # {}
  /\ \/ SetCall(c, [gitCall[c] EXCEPT !.pc = "updateRef"]) /\ UNCHANGED gitFaults
     \/ RequestFails /\ TerminalError(c)

EndOfFiles(c) ==
  /\ gitCall[c].pc = "compare" /\ gitCall[c].todo = {}
  /\ NothingToCommit(c) \/ FilesWritten(c) \/ CreateCommit(c)
  /\ UNCHANGED history

BaseCommit(c) == history[gitCall[c].base]

\* Mutant of NewTree: a tree without base_tree holds the entries and nothing else.
NewTreeOfEntries(c) ==
  Overlay([p \in Paths |-> Absent], gitCall[c].files, gitCall[c].entries)

\* base_tree and the entries on top.
NewTree(c) == Overlay(BaseCommit(c).tree, gitCall[c].files, gitCall[c].entries)

\* The service moves the reference only to a commit that descends from it.
FastForward(c) == Len(history) = gitCall[c].base

UpdateRef(c) ==
  LET moved == Append(history, Commit(NewTree(c), BaseCommit(c).status, c))
  IN /\ gitCall[c].pc = "updateRef" /\ Len(history) < MaxCommits
     /\ \/ /\ FastForward(c)
           /\ history' = moved
           /\ Answer(c, "success", Len(history) + 1, TRUE)
           /\ UNCHANGED gitFaults
        \/ ~FastForward(c) /\ TerminalError(c) /\ UNCHANGED <<history, gitFaults>>
        \/ /\ RequestFails /\ TerminalError(c)
           /\ history' \in {history} \cup {h \in {moved} : FastForward(c)}

GitStep(c) ==
  \/ Refuse(c) \/ GetRef(c) \/ Compare(c) \/ WriteFile(c) \/ Truncate(c) \/ Fill(c)
  \/ EndOfFiles(c) \/ UpdateRef(c)

\* The caller takes the result; its locals are gone.
TakeResult(c) == gitCall[c].pc = "done" /\ SetCall(c, NoCall)

\* A caller of its own, with as many calls as it likes.
ClientStep(c) ==
  \/ \E flavour \in Flavours, files \in FileSets : CommitFiles(c, flavour, files)
  \/ GitStep(c)
  \/ TakeResult(c) /\ UNCHANGED <<history, gitFaults>>

-----------------------------------------------------------------------------
(* What commit_files promises, whichever connector serves it.              *)

Store == INSTANCE FileStore WITH
  Clients <- GitClients,
  Empty <- Blank,
  files <- Tip.tree,
  calls <- [c \in GitClients |->
              [wanted |-> gitCall[c].files,
               pending |-> gitCall[c].todo \cup gitCall[c].entries,
               atomic |-> gitCall[c].flavour # "file",
               state |-> IF gitCall[c].pc = "idle" THEN "none"
                         ELSE IF gitCall[c].pc # "done" THEN "open"
                         ELSE IF gitCall[c].status = "success" THEN "ok" ELSE "failed"]]

\* Every step of the branch's tip is a write of files some call asked for, and
\* a call that answers success found or wrote every one of its files at some
\* instant of the call, other clients' commits and lost answers notwithstanding
\* (the comparisons and the writes of commitFiles, in all three connectors). The
\* file connector alone may do harm, and only to files of its own call: it leaves
\* one empty when it stops between O_TRUNC and Write, cut short when Write fails,
\* and mixed, under an answer of success, when another call wrote in between.
FilesLand == Store!Spec

\* A commit through a hosting service never replaces a version of a file that
\* its call did not start from: no update of another client is lost between the
\* read and the write (UpdateRef without force, updateFile with the blob's sha).
NoLostUpdate ==
  [][\A c \in GitClients : Len(history') > Len(history) /\ Tip'.by = c /\ gitCall[c].flavour # "file" =>
       \A p \in Paths : Tip'.tree[p] # Tip.tree[p] =>
         Tip.tree[p] = (IF gitCall[c].flavour = "github" THEN BaseCommit(c).tree[p] ELSE gitCall[c].seen)]_history
==============================================================================
