------------------------------ MODULE Worktrees ------------------------------
(***************************************************************************)
(* Worktree Projects: one half is a Project of the Workspace, the other a  *)
(* worktree linked in Git.  The core (server/worktree.rs) checks a request *)
(* when it starts and changes its Projects when the answer comes; the      *)
(* runtime (runtime.rs, worktree.rs) runs one Git operation at a time in   *)
(* between, and humans edit, commit, delete and close things all the time. *)
(* Changing a plain Project's directory (server/project_directory.rs) has  *)
(* the same shape and is here too.                                         *)
(*                                                                         *)
(* The list operation and the reply to the requester change nothing and    *)
(* are left out; so are requests the core rejects at once.  Request        *)
(* numbers are only compared, so the smallest free one is taken.           *)
(***************************************************************************)
EXTENDS Naturals, FiniteSets, FiniteSetsExt, Sequences, SequencesExt

CONSTANTS Names,      \* Project names a human may ask for
          Slug,       \* name -> branch, the outcome of branch_name
          Paths,      \* where worktrees may be put
          Roots,      \* directories of plain Projects
          MaxId,      \* Project ids handed out
          Runners,    \* ids of Projects in which runs start
          Forks,      \* whether worktrees are made for forked runs, too
          MaxJobs,    \* requests in flight
          MaxChecks   \* directory changes in flight

VARIABLES projects,   \* set of [id, name, root, branch]; branch None: a plain Project
          nextId,     \* next_project_id
          busy,       \* ids of Projects with an active run
          sent,       \* jobs on their way to the runtime, in order
          queued,     \* jobs that wait for the runtime's worktree lock
          answers,    \* [job, ok] on their way back, in order
          checking,   \* directory changes being validated: [id, root]
          git,        \* [linked: set of [path, branch], branches]
          disk,       \* path -> "absent" | "clean" | "dirty"
          log,        \* the event stream: "sound", "failed", or "reported" to the core
          released    \* history: entries of Git that a crash, a closed Project or a
                      \* failed rollback left to Git alone

vars == <<projects, nextId, busy, sent, queued, answers, checking, git, disk, log, released>>

None == "none"

Branches == {Slug[n] : n \in Names}

Ids(ps) == {p.id : p \in ps}

Pending == ToSet(sent) \cup queued \cup {answers[i].job : i \in DOMAIN answers}

FreeRequest == Min((1 .. MaxJobs) \ {j.req : j \in Pending})

Job(op, project, force, fork) ==
    [req |-> FreeRequest, op |-> op, project |-> project, force |-> force, fork |-> fork]

-----------------------------------------------------------------------------
(* What Git and the file system do for one job.  g is [linked, branches,   *)
(* disk]; each operator gives the set of outcomes [g, ok].                 *)

Out(g, ok) == [g |-> g, ok |-> ok]

Entry(p) == [path |-> p.root, branch |-> p.branch]

EntryAt(g, path) == {e \in g.linked : e.path = path}

Prunable(g) == {e \in g.linked : g.disk[e.path] = "absent"}

Unlink(g, path) == [g EXCEPT !.linked = @ \ EntryAt(g, path), !.disk[path] = "absent"]

\* rollback_add: remove the worktree by force, then the branch; each may fail.
RollbackAdd(g, p) ==
    LET bare == Unlink(g, p.root)
    IN  {Out(g, FALSE), Out(bare, FALSE),
         Out([bare EXCEPT !.branches = @ \ {p.branch}], TRUE)}

\* add: git refuses a branch, a directory or an entry that exists.  A worktree
\* that was made but cannot be verified is rolled back.
Add(g, p) ==
    LET made == [linked   |-> g.linked \cup {Entry(p)},
                 branches |-> g.branches \cup {p.branch},
                 disk     |-> [g.disk EXCEPT ![p.root] = "clean"]]
        free == p.branch \notin g.branches /\ g.disk[p.root] = "absent" /\ EntryAt(g, p.root) = {}
    IN  {Out(g, FALSE)} \cup
        (IF free THEN {Out(made, TRUE)} \cup {Out(o.g, FALSE) : o \in RollbackAdd(made, p)} ELSE {})

Open(g, p) == {Out(g, EntryAt(g, p.root) # {} /\ g.disk[p.root] # "absent"), Out(g, FALSE)}

\* Slip: uncommitted changes are not looked for.
RefusesNever(g, p, force) == EntryAt(g, p.root) = {}
\* A missing worktree is not removed, nor a dirty one unless forced.
Refuses(g, p, force) == EntryAt(g, p.root) = {} \/ (~force /\ g.disk[p.root] = "dirty")

\* remove; git itself may refuse, too.  The branch stays.
RemoveWorktree(g, p, force) ==
    {Out(g, FALSE)} \cup
    (IF Refuses(g, p, force) THEN {} ELSE {Out(Unlink(g, p.root), TRUE)})

\* cleanup_registration: git prunes every worktree whose directory is gone.
Cleanup(g, p) ==
    LET pruned == [g EXCEPT !.linked = @ \ Prunable(g)]
    IN  {Out(g, FALSE)} \cup
        (IF EntryAt(g, p.root) \subseteq Prunable(g) THEN {Out(pruned, TRUE)} ELSE {})

\* worktree::run
Outcomes(g, j) ==
    CASE j.op = "add"      -> Add(g, j.project)
      [] j.op = "rollback" -> RollbackAdd(g, j.project)
      [] j.op = "open"     -> Open(g, j.project)
      [] j.op = "remove"   -> RemoveWorktree(g, j.project, j.force)
      [] j.op = "cleanup"  -> Cleanup(g, j.project)

-----------------------------------------------------------------------------
(* The core starts an operation. *)

Room == Cardinality(Pending) < MaxJobs

\* start_worktree_operation, Add; for a fork, start_run_fork, whose parent run
\* must be active.
StartAdd(name, path, fork) ==
    /\ Room /\ nextId <= MaxId
    /\ \A p \in projects : p.name # name
    /\ fork => busy # {}
    /\ nextId' = nextId + 1
    /\ sent' = Append(sent, Job("add", [id |-> nextId, name |-> name, root |-> path,
                                        branch |-> Slug[name]], FALSE, fork))
    /\ UNCHANGED <<projects, busy, queued, answers, checking, git, disk, log, released>>

\* start_worktree_operation, Open, Remove and Cleanup
StartOn(p, op, force) ==
    /\ Room /\ p.branch # None
    /\ op = "open" \/ Cardinality(projects) > 1
    /\ force => op = "remove"
    /\ sent' = Append(sent, Job(op, p, force, FALSE))
    /\ UNCHANGED <<projects, nextId, busy, queued, answers, checking, git, disk, log, released>>

\* The runtime takes a request: refused once the event stream has failed,
\* unless it undoes a creation; else it waits for the lock.
Dispatch ==
    /\ sent # <<>>
    /\ LET job == Head(sent)
           refused == log # "sound" /\ job.op # "rollback"
       IN  /\ queued' = IF refused THEN queued ELSE queued \cup {job}
           /\ answers' = IF refused THEN Append(answers, [job |-> job, ok |-> FALSE]) ELSE answers
    /\ sent' = Tail(sent)
    /\ UNCHANGED <<projects, nextId, busy, checking, git, disk, log, released>>

\* One job has the lock, runs and answers.  An add that fails and cannot be
\* undone leaves its worktree to Git.
Run(job) ==
    \E out \in Outcomes([linked |-> git.linked, branches |-> git.branches, disk |-> disk], job) :
        /\ git' = [linked |-> out.g.linked, branches |-> out.g.branches]
        /\ disk' = out.g.disk
        /\ answers' = Append(answers, [job |-> job, ok |-> out.ok])
        /\ queued' = queued \ {job}
        /\ released' = IF job.op \in {"add", "rollback"} /\ ~out.ok
                       THEN released \cup (out.g.linked \cap {Entry(job.project)})
                       ELSE released
        /\ UNCHANGED <<projects, nextId, busy, sent, checking, log>>

-----------------------------------------------------------------------------
(* The core handles the answer (finish_worktree_operation). *)

Answered(op) == answers # <<>> /\ Head(answers).job.op = op

\* Slip: a refused creation is rolled back, too.
UndoAlways(answer, done) ==
    IF ~done THEN <<[answer.job EXCEPT !.op = "rollback", !.fork = FALSE]>> ELSE <<>>

\* The rollback of a creation that Git made and the core could not finish.
Undo(answer, done) ==
    IF answer.ok /\ ~done THEN <<[answer.job EXCEPT !.op = "rollback", !.fork = FALSE]>>
    ELSE <<>>

\* The answer to an add: a first Pane is spawned, or the child run launched,
\* and the Project registered; if that fails (opened is FALSE), or the id was
\* taken, the creation is rolled back.
FinishAdd(opened) ==
    /\ Answered("add")
    /\ LET answer == Head(answers)
           p      == answer.job.project
           done   == answer.ok /\ opened /\ p.id \notin Ids(projects)
       IN  /\ projects' = IF done THEN projects \cup {p} ELSE projects
           /\ busy' = IF done /\ answer.job.fork THEN busy \cup {p.id} ELSE busy
           /\ sent' = sent \o Undo(answer, done)
    /\ answers' = Tail(answers)
    /\ UNCHANGED <<nextId, queued, checking, git, disk, log, released>>

\* The Projects after a removal's or cleanup's answer; remove_project leaves
\* the final Project alone.
Forget(answer) ==
    LET id == answer.job.project.id
    IN  IF answer.ok /\ Cardinality(projects) > 1
        THEN {p \in projects : p.id # id} ELSE projects

FinishRemoval ==
    /\ Answered("remove") \/ Answered("cleanup")
    /\ projects' = Forget(Head(answers))
    /\ busy' = busy \cap Ids(projects')
    /\ answers' = Tail(answers)
    /\ UNCHANGED <<nextId, sent, queued, checking, git, disk, log, released>>

\* Open selects the Project (see Hierarchy); a rollback only reports.
FinishOther ==
    /\ Answered("open") \/ Answered("rollback")
    /\ answers' = Tail(answers)
    /\ UNCHANGED <<projects, nextId, busy, sent, queued, checking, git, disk, log, released>>

-----------------------------------------------------------------------------
(* The directory of a plain Project. *)

\* directory_change_allowed
DirectoryChangeAllowed(id) ==
    /\ log # "reported"
    /\ \E p \in projects : p.id = id /\ p.branch = None
    /\ id \notin busy

StartDirectory(id, root) ==
    /\ Cardinality(checking) < MaxChecks
    /\ DirectoryChangeAllowed(id)
    /\ \A c \in checking : c.id # id
    /\ checking' = checking \cup {[id |-> id, root |-> root]}
    /\ UNCHANGED <<projects, nextId, busy, sent, queued, answers, git, disk, log, released>>

\* finish_project_directory, for a directory that was or was not valid
FinishDirectory(c, valid) ==
    /\ checking' = checking \ {c}
    /\ projects' = IF valid /\ DirectoryChangeAllowed(c.id)
                   THEN {IF p.id = c.id THEN [p EXCEPT !.root = c.root] ELSE p : p \in projects}
                   ELSE projects
    /\ UNCHANGED <<nextId, busy, sent, queued, answers, git, disk, log, released>>

-----------------------------------------------------------------------------
(* Everything else that happens meanwhile. *)

\* A run starts or ends in a Project.
ToggleRun(id) ==
    /\ busy' = SymDiff(busy, {id})
    /\ UNCHANGED <<projects, nextId, sent, queued, answers, checking, git, disk, log, released>>

\* The last Pane of a Project closes, or a plain Project is removed; the final
\* Project stays.
CloseProject(p) ==
    /\ Cardinality(projects) > 1
    /\ projects' = projects \ {p}
    /\ busy' = busy \ {p.id}
    /\ released' = released \cup (git.linked \cap {Entry(p)})
    /\ UNCHANGED <<nextId, sent, queued, answers, checking, git, disk, log>>

\* The server dies and a new one restores the registrations from the stream;
\* an id given out since the last checkpoint may be given out again.  What a
\* crash loses after the stream failed is Durability's subject.
Crash(next) ==
    /\ log = "sound"
    /\ next \in {nextId, 1 + Max(Ids(projects))}
    /\ nextId' = next
    /\ sent' = <<>> /\ queued' = {} /\ answers' = <<>> /\ checking' = {}
    /\ released' = released \cup (git.linked \ {Entry(p) : p \in projects})
    /\ UNCHANGED <<projects, busy, git, disk, log>>

\* An append fails, and later the core hears of it.
LogFails ==
    /\ log # "reported"
    /\ log' = IF log = "sound" THEN "failed" ELSE "reported"
    /\ UNCHANGED <<projects, nextId, busy, sent, queued, answers, checking, git, disk, released>>

\* Humans and agents edit, commit and delete.
Touch(path, state) ==
    /\ disk[path] # "absent" /\ disk[path] # state
    /\ disk' = [disk EXCEPT ![path] = state]
    /\ UNCHANGED <<projects, nextId, busy, sent, queued, answers, checking, git, log, released>>

-----------------------------------------------------------------------------
Init ==
    /\ projects = {[id |-> 1, name |-> "first", root |-> CHOOSE r \in Roots : TRUE,
                     branch |-> None]}
    /\ nextId = 2 /\ busy = {} /\ sent = <<>> /\ queued = {} /\ answers = <<>> /\ checking = {}
    /\ git = [linked |-> {}, branches |-> {}]
    /\ disk = [p \in Paths |-> "absent"]
    /\ log = "sound" /\ released = {}

Next ==
    \/ \E name \in Names, path \in Paths, fork \in Forks : StartAdd(name, path, fork)
    \/ \E p \in projects, op \in {"open", "remove", "cleanup"}, force \in BOOLEAN :
          StartOn(p, op, force)
    \/ Dispatch
    \/ \E job \in queued : Run(job)
    \/ \E opened \in BOOLEAN : FinishAdd(opened)
    \/ FinishRemoval
    \/ FinishOther
    \/ \E p \in projects, root \in Roots : StartDirectory(p.id, root)
    \/ \E c \in checking, valid \in BOOLEAN : FinishDirectory(c, valid)
    \/ \E id \in Ids(projects) \cap Runners : ToggleRun(id)
    \/ \E p \in projects : CloseProject(p)
    \/ \E next \in 2 .. MaxId + 1 : Crash(next)
    \/ LogFails
    \/ \E path \in Paths, state \in {"absent", "clean", "dirty"} : Touch(path, state)

Spec == Init /\ [][Next]_vars

-----------------------------------------------------------------------------
(* Properties. *)

TypeOK ==
    /\ projects \subseteq [id : 1 .. MaxId, name : Names \cup {"first"}, root : Paths \cup Roots,
                           branch : Branches \cup {None}]
    /\ busy \subseteq Ids(projects)
    /\ git.linked \subseteq [path : Paths, branch : git.branches]
    /\ Cardinality({j.req : j \in Pending}) = Cardinality(Pending)

\* No creation is forgotten half-way: a worktree that Git has linked belongs to
\* a Project, or its creation or rollback is still on the way, or a crash, a
\* closed Project or a rollback reported as failed released it
\* (finish_worktree_operation: "Git creation was rolled back").
NothingOrphaned ==
    \A e \in git.linked \ released :
        \/ \E p \in projects : Entry(p) = e
        \/ \E j \in Pending : j.op \in {"add", "rollback"} /\ Entry(j.project) = e

\* One Project per branch and per id, although names are checked only when a
\* creation starts and two names may have the same branch name (branch_name).
BranchHasOneProject ==
    \A p, q \in projects : p # q => p.id # q.id /\ (p.branch # q.branch \/ p.branch = None)

\* Uncommitted work in a worktree is destroyed by a forced removal or by the
\* rollback of a creation, and by no other operation (remove: "worktree has
\* uncommitted changes; removal was refused").
UncommittedWorkKept ==
    \A path \in Paths :
        disk[path] = "dirty" /\ disk'[path] = "absent" /\ git' # git =>
            \E j \in queued \ queued' : j.op = "rollback" \/ (j.op = "remove" /\ j.force)

\* The core forgets a worktree Project only when its last Pane closes or when
\* Git no longer has its worktree ("changes its Project projection only after
\* Git confirms the side effect", worktree.rs:5).
ForgottenAfterGit ==
    \A p \in projects : p.branch # None /\ p.id \notin Ids(projects') =>
        answers' = answers \/ Entry(p) \notin git.linked

\* A Project's directory never changes under an active run, after the core
\* knows that the stream failed, or for a worktree, although the request waited
\* for the file system in between (finish_project_directory: "Recheck ownership
\* before committing").
DirectoryIsStable ==
    \A p \in projects, q \in projects' :
        p.id = q.id /\ p.root # q.root =>
            p.branch = None /\ p.id \notin busy /\ log # "reported"

=============================================================================
