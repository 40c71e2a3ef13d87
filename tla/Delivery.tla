------------------------------- MODULE Delivery -------------------------------
(***************************************************************************)
(* Where a turn's work ends up (runtime/turn.py: Places, _workspace_lock,  *)
(* _deliver_workspace, _finish, publish).  Several queues may dispatch     *)
(* turns to one workspace; each queue has one turn at a time (TurnCycle).  *)
(* A turn commits its claim, locks the workspace, lets the agent commit    *)
(* there, marks the commit the gate certified by amending it, writes its   *)
(* spend row and its record, commits both in the queue and pushes.         *)
(*                                                                         *)
(* A repository is the sequence of its commits, and a commit's sha stands  *)
(* for the history up to it: head_before is a copy of the history.         *)
(***************************************************************************)
EXTENDS Naturals, Sequences, SequencesExt

CONSTANTS
    Queues,            \* the backlogs whose turns use this workspace
    SameTree,          \* Places.local/nested: the only queue lies in the workspace
    PublishWorkspace,  \* Places.publish_workspace
    PublishQueue,      \* Places.publish_queue
    Unreachable,       \* repositories whose remote may refuse a push
    \* Bounds on the instance:
    MaxTurns,          \* turns in all
    MaxWork,           \* commits an agent makes in one turn
    MaxOthers,         \* commits the board and the loop make in queues meanwhile
    MaxCrashes         \* turns that may be killed, or end in an error

None == "none"
Workspace == "workspace"

ASSUME DeliveryAssumption ==
    /\ None \notin Queues /\ Workspace \notin Queues
    /\ SameTree \in BOOLEAN
    /\ SameTree => \E q \in Queues : Queues = {q}
    /\ PublishWorkspace \in BOOLEAN /\ PublishQueue \in BOOLEAN
    /\ Unreachable \subseteq Queues \cup {Workspace}
    /\ MaxTurns \in Nat /\ MaxWork \in Nat /\ MaxOthers \in Nat /\ MaxCrashes \in Nat

Repos == Queues \cup {Workspace}
RepoOf(q) == IF SameTree THEN Workspace ELSE q

VARIABLES
    hist,     \* the commits of each repository
    remote,   \* those of its origin
    holder,   \* the queue whose turn holds the workspace's flock
    turn,     \* what the process of each queue holds in memory
    begun,    \* turns each queue has begun; the latest is the one that runs
    unsaved,  \* rows of ledger/spend.jsonl that no commit has yet
    spent,    \* history: runs whose agent was started
    others,   \* commits made by the board and the loop so far
    crashes   \* turns killed, or ended by an error, so far

vars == <<hist, remote, holder, turn, begun, unsaved, spent, others, crashes>>

-----------------------------------------------------------------------------
(* Runs, commits and the process of a queue.                               *)

Runs == Queues \X Nat
NoRun == <<None, 0>>

Kinds == {"opened", "work", "record", "other"}

\* `marks` are the Yosefactory-Run trailers.  Of a record: `rows` are the spend
\* rows in the same commit, `names` the place of the workspace commit it names (0
\* for ""), `priced` that the row could be written.
Commits == [kind : Kinds, by : Runs \cup {NoRun}, marks : SUBSET Runs,
            rows : SUBSET Runs, names : Nat, priced : BOOLEAN]

Plain(kind, run, marks) ==
    [kind |-> kind, by |-> run, marks |-> marks, rows |-> {}, names |-> 0,
     priced |-> FALSE]

PCs == {"idle", "lock", "head", "agent", "gate", "deliver", "apply", "price",
        "finish", "publish"}

\* What the turn has found to do: an item, planning, or nothing.
Acts == {"item", "plan", "nothing"}

\* publish asks for `advanced` alone: blocked, failed and nothing_ready are "other".
Outcomes == {"none", "advanced", "other"}

Turns == [pc : PCs, act : Acts, before : Seq(Commits), certified : Seq(Commits),
          names : Nat, outcome : Outcomes, priced : BOOLEAN, asked : {0, 1}]

NoTurn == [pc |-> "idle", act |-> "nothing", before |-> <<>>, certified |-> <<>>,
           names |-> 0, outcome |-> "none", priced |-> FALSE, asked |-> 0]

At(q, pc) == turn[q].pc = pc
Goto(q, pc) == turn' = [turn EXCEPT ![q].pc = pc]

Run(q) == <<q, begun[q]>>

Write(repo, commit) == hist' = [hist EXCEPT ![repo] = Append(@, commit)]

\* The turn is over, however it ended: the flock goes with the context manager or
\* with the process.
Exit(q) == /\ turn' = [turn EXCEPT ![q] = NoTurn]
           /\ holder' = IF holder = q THEN None ELSE holder

-----------------------------------------------------------------------------
Init == /\ hist = [r \in Repos |-> <<>>]
        /\ remote = [r \in Repos |-> <<>>]
        /\ holder = None
        /\ turn = [q \in Queues |-> NoTurn]
        /\ begun = [q \in Queues |-> 0]
        /\ unsaved = [q \in Queues |-> {}]
        /\ spent = {}
        /\ others = 0
        /\ crashes = 0

(***************************************************************************)
(* The commits before the agent (declared, swept, claimed) as one, and what*)
(* the turn found to do.                                                   *)
(***************************************************************************)
Open(q, act) ==
    /\ At(q, "idle") /\ SumFunction(begun) < MaxTurns
    /\ begun' = [begun EXCEPT ![q] = @ + 1]
    /\ Write(RepoOf(q), Plain("opened", Run(q)', {Run(q)'}))
    /\ turn' = [turn EXCEPT ![q] = [NoTurn EXCEPT
           !.act = act,
           !.pc = IF act = "nothing" THEN "finish" ELSE "lock",
           !.outcome = IF act = "nothing" THEN "other" ELSE "none"]]
    /\ UNCHANGED <<remote, holder, unsaved, spent, others, crashes>>

\* _workspace_lock: no second flock if the queue's covers the tree.
Lock(q) ==
    /\ At(q, "lock") /\ (SameTree \/ holder = None)
    /\ holder' = IF SameTree THEN holder ELSE q
    /\ Goto(q, IF turn[q].act = "item" THEN "head" ELSE "agent")
    /\ UNCHANGED <<hist, remote, begun, unsaved, spent, others, crashes>>

\* single_flight does not wait: LockBusy leaves the turn, its claim committed.
LockBusy(q) ==
    /\ At(q, "lock") /\ ~SameTree /\ holder # None
    /\ Exit(q)
    /\ UNCHANGED <<hist, remote, begun, unsaved, spent, others, crashes>>

\* Mutant: the HEAD that was there before the agent is not kept.
ReadNothing(q) ==
    /\ At(q, "head")
    /\ Goto(q, "agent")
    /\ UNCHANGED <<hist, remote, holder, begun, unsaved, spent, others, crashes>>

\* Read under the lock, and for an item only.
ReadHead(q) ==
    /\ At(q, "head")
    /\ turn' = [turn EXCEPT ![q].before = hist[Workspace], ![q].pc = "agent"]
    /\ UNCHANGED <<hist, remote, holder, begun, unsaved, spent, others, crashes>>

\* The agent commits in the workspace.
Work(q) ==
    /\ At(q, "agent")
    /\ Cardinality({i \in DOMAIN hist[Workspace] :
                      hist[Workspace][i].kind = "work" /\ hist[Workspace][i].by = Run(q)}) < MaxWork
    /\ Write(Workspace, Plain("work", Run(q), {}))
    /\ spent' = spent \cup {Run(q)}
    /\ UNCHANGED <<remote, holder, turn, begun, unsaved, others, crashes>>

\* The agent is over.  `done` goes to the gate; every other ending of the run, and
\* every other event, sets the outcome (_dispose).
AgentEnds(q, ending) ==
    /\ At(q, "agent")
    /\ ending = "done" => turn[q].act = "item"
    /\ turn' = [turn EXCEPT ![q].pc = IF ending = "done" THEN "gate" ELSE "price",
                            ![q].outcome = IF ending = "done" THEN @ ELSE ending]
    /\ spent' = spent \cup {Run(q)}
    /\ UNCHANGED <<hist, remote, holder, begun, unsaved, others, crashes>>

\* may_write_done on the tree as HEAD has it.
GatePasses(q) ==
    /\ At(q, "gate")
    /\ turn' = [turn EXCEPT ![q].certified = hist[Workspace], ![q].pc = "deliver"]
    /\ UNCHANGED <<hist, remote, holder, begun, unsaved, spent, others, crashes>>

GateRejects(q) ==
    /\ At(q, "gate")
    /\ turn' = [turn EXCEPT ![q].outcome = "other", ![q].pc = "price"]
    /\ UNCHANGED <<hist, remote, holder, begun, unsaved, spent, others, crashes>>

Top(repo) == Len(hist[repo])

\* `git commit --amend`: a new commit in the place of HEAD, with the run's trailer.
Amended(run) == [hist[Workspace] EXCEPT ![Top(Workspace)].marks = @ \cup {run}]

\* Mutant: HEAD is amended whether it moved or not.
DeliverAlways(q) ==
    /\ At(q, "deliver") /\ hist[Workspace] # <<>>
    /\ hist' = [hist EXCEPT ![Workspace] = Amended(Run(q))]
    /\ turn' = [turn EXCEPT ![q].names = Top(Workspace), ![q].pc = "apply"]
    /\ UNCHANGED <<remote, holder, begun, unsaved, spent, others, crashes>>

\* _deliver_workspace.
Deliver(q) ==
    /\ At(q, "deliver")
    /\ IF hist[Workspace] \in {<<>>, turn[q].before}
       THEN hist' = hist /\ Goto(q, "apply")
       ELSE /\ hist' = [hist EXCEPT ![Workspace] = Amended(Run(q))]
            /\ turn' = [turn EXCEPT ![q].names = Top(Workspace), ![q].pc = "apply"]
    /\ UNCHANGED <<remote, holder, begun, unsaved, spent, others, crashes>>

\* The log takes `done`.
Applied(q) ==
    /\ At(q, "apply")
    /\ turn' = [turn EXCEPT ![q].outcome = "advanced", ![q].pc = "price"]
    /\ UNCHANGED <<hist, remote, holder, begun, unsaved, spent, others, crashes>>

\* The fold refuses `done`, because the board closed the item meanwhile: failed()
\* is not told of the commit that was delivered.
Refused(q) ==
    /\ At(q, "apply")
    /\ turn' = [turn EXCEPT ![q].outcome = "other", ![q].names = 0, ![q].pc = "price"]
    /\ UNCHANGED <<hist, remote, holder, begun, unsaved, spent, others, crashes>>

\* spend.record: a row, or an OSError that the record's note tells of.
Price(q, written) ==
    /\ At(q, "price")
    /\ unsaved' = IF written THEN [unsaved EXCEPT ![q] = @ \cup {Run(q)}] ELSE unsaved
    /\ turn' = [turn EXCEPT ![q].priced = written, ![q].pc = "finish"]
    /\ UNCHANGED <<hist, remote, holder, begun, spent, others, crashes>>

Record(q, rows) == [Plain("record", Run(q), {Run(q)}) EXCEPT
    !.rows = rows, !.names = turn[q].names, !.priced = turn[q].priced]

\* publish() goes on for `advanced` alone; otherwise the turn is over.
EndTurn(q) == IF turn[q].outcome = "advanced"
              THEN Goto(q, "publish") /\ UNCHANGED holder
              ELSE Exit(q)

\* Mutants: the last commit does not name the spend log; the workspace is given
\* back before the pushes.
FinishUnpriced(q) ==
    /\ At(q, "finish")
    /\ Write(RepoOf(q), Record(q, {}))
    /\ EndTurn(q)
    /\ UNCHANGED <<remote, begun, unsaved, spent, others, crashes>>

FinishUnlocked(q) ==
    /\ At(q, "finish")
    /\ Write(RepoOf(q), Record(q, unsaved[q]))
    /\ unsaved' = [unsaved EXCEPT ![q] = {}]
    /\ Goto(q, IF turn[q].outcome = "advanced" THEN "publish" ELSE "idle")
    /\ holder' = IF holder = q THEN None ELSE holder
    /\ UNCHANGED <<remote, begun, spent, others, crashes>>

\* The end of _finish: the record, its marker and every row on disk in one commit
\* of the queue.
Finish(q) ==
    /\ At(q, "finish")
    /\ Write(RepoOf(q), Record(q, unsaved[q]))
    /\ unsaved' = [unsaved EXCEPT ![q] = {}]
    /\ EndTurn(q)
    /\ UNCHANGED <<remote, begun, spent, others, crashes>>

\* push_repo: no force, so the remote takes it only as a fast-forward.
Push(repo) == \/ /\ IsPrefix(remote[repo], hist[repo])
                 /\ remote' = [remote EXCEPT ![repo] = hist[repo]]
              \/ /\ repo \in Unreachable \/ ~IsPrefix(remote[repo], hist[repo])
                 /\ UNCHANGED remote

\* Mutant: the queue is pushed first.
QueueFirst == <<"queue", "workspace">>

Order == <<"workspace", "queue">>

\* publish: each place in turn, unless it is declined; a refusal is a warning.
Publish(q) ==
    LET place == Order[turn[q].asked + 1]
        repo == IF place = "queue" THEN RepoOf(q) ELSE Workspace
        declined == IF place = "queue" THEN ~PublishQueue ELSE ~PublishWorkspace
    IN /\ At(q, "publish")
       /\ IF declined THEN UNCHANGED remote ELSE Push(repo)
       /\ IF turn[q].asked + 1 = Len(Order)
          THEN Exit(q)
          ELSE turn' = [turn EXCEPT ![q].asked = @ + 1] /\ UNCHANGED holder
       /\ UNCHANGED <<hist, begun, unsaved, spent, others, crashes>>

\* The board's commands and the wake sidecars: commits in a queue, no lock held.
Other(q) ==
    /\ others < MaxOthers
    /\ others' = others + 1
    /\ Write(RepoOf(q), Plain("other", NoRun, {}))
    /\ UNCHANGED <<remote, holder, turn, begun, unsaved, spent, crashes>>

\* A kill, or what nothing catches: a commit git refuses (TurnError), a note no
\* record may carry (RecordError), tests that cannot be started (VerificationError).
Crash(q) ==
    /\ ~At(q, "idle") /\ crashes < MaxCrashes
    /\ crashes' = crashes + 1
    /\ Exit(q)
    /\ UNCHANGED <<hist, remote, begun, unsaved, spent, others>>

Endings == {"done", "advanced", "other"}

Next == \E q \in Queues :
    \/ \E act \in Acts : Open(q, act)
    \/ Lock(q) \/ LockBusy(q) \/ ReadHead(q)
    \/ Work(q) \/ \E ending \in Endings : AgentEnds(q, ending)
    \/ GatePasses(q) \/ GateRejects(q) \/ Deliver(q) \/ Applied(q) \/ Refused(q)
    \/ \E written \in BOOLEAN : Price(q, written)
    \/ Finish(q) \/ Publish(q)
    \/ Other(q) \/ Crash(q)

Spec == Init /\ [][Next]_vars
-----------------------------------------------------------------------------
\* Every variable has its type; only a queue of another tree holds the flock.
TypeOK ==
    /\ hist \in [Repos -> Seq(Commits)] /\ remote \in [Repos -> Seq(Commits)]
    /\ holder \in Queues \cup {None} /\ (SameTree => holder = None)
    /\ turn \in [Queues -> Turns]
    /\ unsaved \in [Queues -> SUBSET Runs] /\ spent \subseteq Runs
    /\ begun \in [Queues -> Nat] /\ others \in Nat /\ crashes \in Nat

\* The agent or the harness of q's turn is at work in the workspace.
InTree(q) == turn[q].act # "nothing" /\ turn[q].pc \notin {"idle", "lock"}

\* Turns of different queues never work in one tree at once ("Different queues
\* targeting the same workspace still serialize").
OneAgentPerTree == \A q, r \in Queues : InTree(q) /\ InTree(r) => q = r

\* Between the gate and the amendment nobody moves HEAD: the commit that gets the
\* run's trailer is the one the gate certified (_deliver_workspace).
TheMarkIsOnWhatTheGateSaw ==
    \A q \in Queues : At(q, "deliver") => hist[Workspace] = turn[q].certified

\* A commit carries the trailer of the run that made it and of no other, in every
\* repository, however turns of several queues follow each other ("SHALL NOT
\* amend or rewrite any commit other than the one at HEAD").
MarkedCommitsAreTheRunsOwn ==
    \A r \in Repos : \A i \in DOMAIN hist[r] :
        LET c == hist[r][i] IN c.marks \subseteq {c.by}

\* The platform's amendments never touch what is public: whatever it pushed stays a
\* prefix of what it has, so no push of its own is ever a non-fast-forward.
OwnPushesFastForward == \A r \in Repos : IsPrefix(remote[r], hist[r])

RecordsOf(h) == {i \in DOMAIN h : h[i].kind = "record"}

\* What a record names is in the workspace under the run's trailer, whatever later
\* turns did there; and a trailer in the workspace leads to a record, unless the
\* run is still under way or was killed ("The join resolves in both directions").
TheJoinResolves ==
    /\ \A q \in Queues : \A i \in RecordsOf(hist[RepoOf(q)]) :
          LET c == hist[RepoOf(q)][i] IN c.names > 0 =>
              /\ c.names <= Top(Workspace)
              /\ hist[Workspace][c.names].marks = {c.by}
    /\ crashes = 0 => \A q \in Queues, i \in DOMAIN hist[Workspace] :
          LET c == hist[Workspace][i] IN c.kind = "work" /\ c.marks # {} /\ c.by[1] = q =>
              \/ c.by = Run(q) /\ ~At(q, "idle")
              \/ \E j \in RecordsOf(hist[RepoOf(q)]) : hist[RepoOf(q)][j].by = c.by

\* A public record never names a commit that is not public, unless the workspace's
\* remote refuses (publish: "Workspace before queue").
PublishedRecordsNamePublicCommits ==
    PublishWorkspace /\ Workspace \notin Unreachable =>
        \A q \in Queues : \A i \in RecordsOf(remote[RepoOf(q)]) :
            remote[RepoOf(q)][i].names <= Len(remote[Workspace])

\* Every run whose agent was started, and that was not killed, has one record, with
\* its spend row in the same commit unless the record says there is none; and
\* no row of another run rides along unless one was killed (_finish, "either both
\* land in this commit or neither does").
TheLedgerAccountsForEveryRun ==
    \A q \in Queues :
        LET h == hist[RepoOf(q)]
            mine == {i \in RecordsOf(h) : h[i].by[1] = q} IN
        /\ \A i \in mine : h[i].priced => h[i].by \in h[i].rows
        /\ \A i, j \in mine : i # j => h[i].by # h[j].by /\ h[i].rows \cap h[j].rows = {}
        /\ crashes = 0 =>
              /\ \A i \in mine : h[i].rows \subseteq {h[i].by}
              /\ At(q, "idle") => \A run \in spent : run[1] = q =>
                     \E i \in mine : h[i].by = run

=============================================================================
