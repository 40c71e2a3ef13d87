------------------------------ MODULE TurnCycle ------------------------------
(***************************************************************************)
(* One turn of the factory (runtime/turn.py, take_turn): acquire the queue *)
(* lock, declare the run, sweep the backlog, classify, do exactly one item *)
(* through the agent, dispose of its one proposed event, record, commit.   *)
(*                                                                         *)
(* Every write of an item or question log is a step of its own, because a  *)
(* turn can die between any two of them and the board's inbox writes the   *)
(* same logs without the lock.  What a dead turn leaves is what is on disk:*)
(* `uncommitted` is the set of files whose content git does not have.      *)
(***************************************************************************)
EXTENDS Backlog, Question, FiniteSets

CONSTANTS
    Items,          \* item ids, ordered as the sorted file names are
    Questions,      \* question ids, ordered likewise
    Workers,        \* processes that may take a turn on this queue
    MaxAttempts,    \* Guardrails.max_attempts
    LeaseTicks,     \* Guardrails.wall_clock_seconds, the lease, in ticks
    DeadlineTicks,  \* the longest bound a question, block or snooze carries
    SameTree,       \* Places.local/nested: queue and workspace share one tree
    \* What agents put in their proposals:
    Proposals,      \* the events they may name besides `done`
    ReturnTargets,  \* what they write in awaiting.return_to
    BlockPolicies,  \* on_timeout of their `kind: item` blocks ("none": no bound)
    BlockRefs,      \* questions their `kind: question` blocks may name
    Misreports,     \* values of failed.attempt other than the lease's own
    Priorities,     \* what the board's /priority may set
    \* Bounds on the instance:
    ClaimCap,       \* claims are counted up to this
    MaxCrashes      \* turns that may be killed, or end in an error

None == 0
Ledger == 0    \* the running turn's own files: .start, .json, spend row
Files == Items \cup Questions \cup {Ledger}

ASSUME TurnAssumption ==
    /\ Items \subseteq Nat \ {None} /\ IsFiniteSet(Items)
    /\ Questions \subseteq Nat \ {None} /\ IsFiniteSet(Questions)
    /\ Items \cap Questions = {}
    /\ MaxAttempts \in Nat \ {0}
    /\ LeaseTicks \in Nat \ {0} /\ DeadlineTicks \in Nat
    /\ SameTree \in BOOLEAN
    /\ Proposals \subseteq Events \ {"done", "created"}
    /\ BlockPolicies \subseteq Policies \cup {"none"}
    /\ BlockRefs \subseteq Questions \cup {NoRef}
    /\ Misreports \subseteq Nat /\ Priorities \subseteq Nat
    /\ ClaimCap \in Nat /\ ClaimCap > MaxAttempts
    /\ MaxCrashes \in Nat

ASSUME NoWorkerAssumption == None \notin Workers

VARIABLES
    item,         \* the view of each item's log
    quest,        \* the view of each question's log
    uncommitted,  \* files whose content on disk is not in a commit
    orphaned,     \* those of them that a turn which died left behind
    mess,         \* the agent's own work lies uncommitted in the workspace
    lock,         \* who holds the queue's flock
    turn,         \* what each worker's process holds in memory
    losses,       \* history: leases that expired or were reported failed, see Lost
    crashes       \* turns killed so far

vars == <<item, quest, uncommitted, orphaned, mess, lock, turn, losses, crashes>>

-----------------------------------------------------------------------------
(* The process: where it is, the sweep's position, the item it holds, the  *)
(* paths its next commit names, and the record it will write.              *)

Sweeps == {"answers", "reclaim", "wake", "deadlines", "retry"}

\* Mutants: a sweep is not called.
NoDeadlines == [answers |-> "reclaim", reclaim |-> "wake", wake |-> "retry",
                deadlines |-> "retry", retry |-> "commit_sweep"]
NoRetry == [answers |-> "reclaim", reclaim |-> "wake", wake |-> "deadlines",
            deadlines |-> "commit_sweep", retry |-> "commit_sweep"]

Following == [answers |-> "reclaim", reclaim |-> "wake", wake |-> "deadlines",
              deadlines |-> "retry", retry |-> "commit_sweep"]

\* sweep_deadlines is about to append one of these to the item it resolves.
Resolutions == {"abandoned", "unblocked"}

Steps == Sweeps \cup Resolutions \cup
    {"idle", "declare", "poison_lease", "commit_sweep", "classify",
     "claim", "start", "commit_claim", "agent", "suspend", "plan", "gate",
     "done", "propose", "poison", "reload", "finish", "commit_turn"}

Outcomes == {"none", "advanced", "blocked", "failed", "nothing_ready"}

NoTurn == [pc |-> "idle", cursor |-> 0, target |-> None, paths |-> {},
           returned |-> {}, outcome |-> "none", dirty |-> FALSE]

NoQuestionAsked == [state |-> NotAsked, item |-> None, ttl |-> 0,
                    policy |-> "return"]

At(w, p) == turn[w].pc = p
Goto(w, p) == turn' = [turn EXCEPT ![w].pc = p]

\* append(): the candidate log replaced file x on disk; no commit yet.
Append(i, v) == /\ item' = [item EXCEPT ![i] = v]
                /\ uncommitted' = uncommitted \cup {i}

\* commit(): exactly the named paths.  A dead turn's ledger files are named by
\* no later turn's commit.
Commit(P) == LET named == P \ (IF Ledger \in orphaned THEN {Ledger} ELSE {})
             IN /\ uncommitted' = uncommitted \ named
                /\ orphaned' = orphaned \ named

\* git refuses a commit of files that are as HEAD has them already.
Differs(P) == P \cap uncommitted # {}

-----------------------------------------------------------------------------
(* What each sweep acts on.                                                *)

\* The bound of a blocked item: in the question it names, else in the block.
OnQuestion(v) == v.block.kind = "question"
Bound(v) == IF OnQuestion(v) THEN quest[v.block.ref].policy ELSE v.block.policy

\* Mutant: only the bound in the block itself is swept.
OwnBoundElapsed(v) ==
    v.state = "blocked" /\ ~OnQuestion(v) /\ v.block.policy # "none" /\ v.block.ttl = 0

BoundElapsed(v) ==
    /\ v.state = "blocked"
    /\ IF OnQuestion(v)
       THEN /\ v.block.ref \in Questions
            /\ quest[v.block.ref].state = Awaiting
            /\ quest[v.block.ref].ttl = 0
       ELSE v.block.policy # "none" /\ v.block.ttl = 0

Answered(q) == /\ quest[q].state \in Closed
               /\ item[quest[q].item].state = "blocked"

\* Mutant: a started item's lease is not looked at.
UnstartedLeaseExpired(v) == v.state = "claimed" /\ v.ttl = 0

LeaseExpired(v) == v.state \in Leased /\ v.ttl = 0

\* Mutant: the cap is not asked for again; a turn that dies between `failed` and
\* `poisoned` leaves an exhausted item behind.
RetryableUncapped(v) == v.state = "failed" /\ v.failure.retryable

Retryable(v) == /\ v.state = "failed"
                /\ v.failure.retryable
                /\ v.failure.attempt < MaxAttempts

\* scheduled_for has passed.
Elapsed == 1

Due(sweep) ==
    CASE sweep = "answers" -> {q \in Questions : Answered(q)}
      [] sweep = "reclaim" -> {i \in Items : LeaseExpired(item[i])}
      [] sweep = "wake" -> {i \in Items : item[i].state = "snoozed" /\ item[i].wake = Elapsed}
      [] sweep = "deadlines" -> {i \in Items : BoundElapsed(item[i])}
      [] sweep = "retry" -> {i \in Items : Retryable(item[i])}

\* The sweep goes through the sorted files once; x is the next it acts on.
Ahead(w) == {x \in Due(turn[w].pc) : x > turn[w].cursor}
NextUp(w, x) == x \in Ahead(w) /\ \A y \in Ahead(w) : x <= y

Eligible(v) == v.state = "ready" \/ v.resumable

\* Mutant: only a claim not yet started counts as being worked on.
Unstarted(v) == v.state = "claimed"

InFlight(v) == v.state \in Leased

\* pick(): highest priority, then lowest id.
Picked(i) == /\ Eligible(item[i])
             /\ \A j \in Items : Eligible(item[j]) =>
                    \/ item[i].prio > item[j].prio
                    \/ item[i].prio = item[j].prio /\ i <= j

OutcomeFor(state) == CASE state = "blocked" -> "blocked"
                       [] state \in {"failed", "poison"} -> "failed"
                       [] OTHER -> "advanced"

TreeClean == ~mess /\ (SameTree => uncommitted = {})

-----------------------------------------------------------------------------
Init ==
    /\ item = [i \in Items |-> NoItem]
    /\ quest = [q \in Questions |-> NoQuestionAsked]
    /\ uncommitted = {} /\ orphaned = {}
    /\ mess = FALSE
    /\ lock = None
    /\ turn = [w \in Workers |-> NoTurn]
    /\ losses = [i \in Items |-> 0]
    /\ crashes = 0

\* A lease of i expired, or its attempt was reported failed.  Not counted is the
\* failure whose record names an earlier attempt: nobody tells the agent which it
\* is, and its number is the one compared with the cap from then on.
Lost(i) == losses' = [losses EXCEPT ![i] = @ + 1]
Reported(i, attempt) == IF attempt >= item[i].attempt THEN Lost(i) ELSE UNCHANGED losses

(***************************************************************************)
(* Acquire: single_flight never waits, then open_run writes the marker and *)
(* the "declared" commit makes it durable.                                 *)
(***************************************************************************)
\* Mutant: the lock is taken without asking whether it is free.
StartTurnUnlocked(w) ==
    /\ At(w, "idle")
    /\ lock' = w
    /\ turn' = [turn EXCEPT ![w] = [NoTurn EXCEPT !.pc = "declare"]]
    /\ uncommitted' = uncommitted \cup {Ledger}
    /\ UNCHANGED <<item, quest, orphaned, mess, losses, crashes>>

StartTurn(w) ==
    /\ At(w, "idle") /\ lock = None
    /\ lock' = w
    /\ turn' = [turn EXCEPT ![w] = [NoTurn EXCEPT !.pc = "declare"]]
    /\ uncommitted' = uncommitted \cup {Ledger}
    /\ UNCHANGED <<item, quest, orphaned, mess, losses, crashes>>

Declare(w) ==
    /\ At(w, "declare")
    /\ Commit({Ledger})
    /\ Goto(w, "answers")
    /\ UNCHANGED <<item, quest, mess, lock, losses, crashes>>

(***************************************************************************)
(* The five sweeps.  Each step is one append.                              *)
(***************************************************************************)
\* The sweep wrote file x and goes on behind position c.
Swept(w, x, c) ==
    turn' = [turn EXCEPT ![w].cursor = c, ![w].paths = @ \cup {x}]

\* Mutant: the items apply_answers moved are not named in the sweep's commit.
ApplyAnswerUnnamed(w, q) ==
    LET i == quest[q].item IN
    /\ At(w, "answers") /\ NextUp(w, q)
    /\ Accepts(item[i], "unblocked")
    /\ Append(i, After(item[i], "unblocked"))
    /\ turn' = [turn EXCEPT ![w].cursor = q]
    /\ UNCHANGED <<quest, orphaned, mess, lock, losses, crashes>>

ApplyAnswer(w, q) ==
    LET i == quest[q].item IN
    /\ At(w, "answers") /\ NextUp(w, q)
    /\ Accepts(item[i], "unblocked")
    /\ Append(i, After(item[i], "unblocked"))
    /\ Swept(w, i, q)
    /\ UNCHANGED <<quest, orphaned, mess, lock, losses, crashes>>

\* Mutant: off by one at the cap.
ReclaimOnceMore(w, i) ==
    /\ At(w, "reclaim") /\ NextUp(w, i)
    /\ item[i].attempt <= MaxAttempts
    /\ Append(i, After(item[i], "reclaimed"))
    /\ Swept(w, i, i)
    /\ Lost(i)
    /\ UNCHANGED <<quest, orphaned, mess, lock, crashes>>

Reclaim(w, i) ==
    /\ At(w, "reclaim") /\ NextUp(w, i)
    /\ item[i].attempt < MaxAttempts
    /\ Append(i, After(item[i], "reclaimed"))
    /\ Swept(w, i, i)
    /\ Lost(i)
    /\ UNCHANGED <<quest, orphaned, mess, lock, crashes>>

\* Mutant: the exhausted lease is failed and never poisoned.
FailLeaseOnly(w, i) ==
    /\ At(w, "reclaim") /\ NextUp(w, i)
    /\ item[i].attempt >= MaxAttempts
    /\ Append(i, AfterFailed(item[i], item[i].attempt, FALSE))
    /\ Swept(w, i, i)
    /\ Lost(i)
    /\ UNCHANGED <<quest, orphaned, mess, lock, crashes>>

\* The exhausted lease: `failed`, then `poisoned` by PoisonLease.
FailLease(w, i) ==
    /\ At(w, "reclaim") /\ NextUp(w, i)
    /\ item[i].attempt >= MaxAttempts
    /\ Append(i, AfterFailed(item[i], item[i].attempt, FALSE))
    /\ turn' = [turn EXCEPT ![w].pc = "poison_lease", ![w].target = i,
                            ![w].cursor = i, ![w].paths = @ \cup {i}]
    /\ Lost(i)
    /\ UNCHANGED <<quest, orphaned, mess, lock, crashes>>

PoisonLease(w) ==
    LET i == turn[w].target IN
    /\ At(w, "poison_lease")
    /\ Accepts(item[i], "poisoned")
    /\ Append(i, After(item[i], "poisoned"))
    /\ turn' = [turn EXCEPT ![w].pc = "reclaim", ![w].target = None]
    /\ UNCHANGED <<quest, orphaned, mess, lock, losses, crashes>>

Wake(w, i) ==
    /\ At(w, "wake") /\ NextUp(w, i)
    /\ Append(i, After(item[i], "woke"))
    /\ Swept(w, i, i)
    /\ UNCHANGED <<quest, orphaned, mess, lock, losses, crashes>>

\* What an elapsed bound makes of the item it bounds.
Resolution(v) == IF Bound(v) = "abandon" THEN "abandoned" ELSE "unblocked"

\* sweep_deadlines closes the question of the block first, if it has one.
TimeOut(w, i) ==
    LET q == item[i].block.ref
        closes == IF OnQuestion(item[i]) THEN {q} ELSE {} IN
    /\ At(w, "deadlines") /\ NextUp(w, i)
    /\ quest' = [x \in Questions |-> IF x \in closes
                                     THEN QuestionAfter(quest[x], "timed_out")
                                     ELSE quest[x]]
    /\ uncommitted' = uncommitted \cup closes
    /\ turn' = [turn EXCEPT ![w].pc = Resolution(item[i]), ![w].cursor = i,
                            ![w].target = i, ![w].paths = @ \cup closes]
    /\ UNCHANGED <<item, orphaned, mess, lock, losses, crashes>>

Resolve(w) ==
    LET i == turn[w].target IN
    /\ turn[w].pc \in Resolutions
    /\ Accepts(item[i], turn[w].pc)
    /\ Append(i, After(item[i], turn[w].pc))
    /\ turn' = [turn EXCEPT ![w].pc = "deadlines", ![w].target = None,
                            ![w].paths = @ \cup {i},
                            ![w].returned = IF turn[w].pc = "unblocked" THEN @ \cup {i} ELSE @]
    /\ UNCHANGED <<quest, orphaned, mess, lock, losses, crashes>>

Retry(w, i) ==
    /\ At(w, "retry") /\ NextUp(w, i)
    /\ Append(i, After(item[i], "retried"))
    /\ Swept(w, i, i)
    /\ UNCHANGED <<quest, orphaned, mess, lock, losses, crashes>>

EndSweep(w) ==
    /\ turn[w].pc \in Sweeps /\ Ahead(w) = {}
    /\ turn' = [turn EXCEPT ![w].pc = Following[@], ![w].cursor = 0]
    /\ UNCHANGED <<item, quest, uncommitted, orphaned, mess, lock, losses, crashes>>

CommitSweep(w) ==
    /\ At(w, "commit_sweep")
    /\ turn[w].paths = {} \/ Differs(turn[w].paths)
    /\ Commit(turn[w].paths)
    /\ turn' = [turn EXCEPT ![w].pc = "classify", ![w].paths = {}]
    /\ UNCHANGED <<item, quest, mess, lock, losses, crashes>>

(***************************************************************************)
(* Classify: resume or claim the picked item, plan, or nothing-ready.      *)
(***************************************************************************)
Pick(w, i) ==
    /\ At(w, "classify") /\ Picked(i)
    /\ turn' = [turn EXCEPT
            ![w].pc = IF item[i].state = "doing" THEN "agent" ELSE "claim",
            ![w].target = i, ![w].paths = {i}, ![w].returned = {}]
    /\ UNCHANGED <<item, quest, uncommitted, orphaned, mess, lock, losses, crashes>>

NothingEligible == \A i \in Items : ~Eligible(item[i])
ShouldPlan == \A i \in Items : ~InFlight(item[i])

Plan(w) ==
    /\ At(w, "classify") /\ NothingEligible /\ ShouldPlan
    /\ turn' = [turn EXCEPT ![w].pc = "agent", ![w].returned = {}]
    /\ UNCHANGED <<item, quest, uncommitted, orphaned, mess, lock, losses, crashes>>

NothingReady(w) ==
    /\ At(w, "classify") /\ NothingEligible /\ ~ShouldPlan
    /\ turn' = [turn EXCEPT ![w].pc = "finish", ![w].returned = {},
                            ![w].outcome = "nothing_ready"]
    /\ UNCHANGED <<item, quest, uncommitted, orphaned, mess, lock, losses, crashes>>

(***************************************************************************)
(* Claim: `claimed`, `started`, and a commit before the agent runs.        *)
(***************************************************************************)
NextClaim(v) == IF v.claims < ClaimCap THEN v.claims + 1 ELSE ClaimCap

\* Mutant: the attempt is read off the lease, which a ready item has lost.
ClaimFromLease(w) ==
    LET i == turn[w].target IN
    /\ At(w, "claim")
    /\ Accepts(item[i], "claimed")
    /\ Append(i, AfterClaimed(item[i], NextClaim(item[i]), item[i].attempt + 1, LeaseTicks))
    /\ Goto(w, "start")
    /\ UNCHANGED <<quest, orphaned, mess, lock, losses, crashes>>

Claim(w) ==
    LET i == turn[w].target IN
    /\ At(w, "claim")
    /\ Accepts(item[i], "claimed")
    /\ Append(i, AfterClaimed(item[i], NextClaim(item[i]), NextClaim(item[i]), LeaseTicks))
    /\ Goto(w, "start")
    /\ UNCHANGED <<quest, orphaned, mess, lock, losses, crashes>>

\* Mutant: the agent runs before the claim is committed.
StartAtOnce(w) ==
    LET i == turn[w].target IN
    /\ At(w, "start")
    /\ Accepts(item[i], "started")
    /\ Append(i, After(item[i], "started"))
    /\ Goto(w, "agent")
    /\ UNCHANGED <<quest, orphaned, mess, lock, losses, crashes>>

Start(w) ==
    LET i == turn[w].target IN
    /\ At(w, "start")
    /\ Accepts(item[i], "started")
    /\ Append(i, After(item[i], "started"))
    /\ Goto(w, "commit_claim")
    /\ UNCHANGED <<quest, orphaned, mess, lock, losses, crashes>>

CommitClaim(w) ==
    /\ At(w, "commit_claim") /\ Differs(turn[w].paths)
    /\ Commit(turn[w].paths)
    /\ Goto(w, "agent")
    /\ UNCHANGED <<item, quest, mess, lock, losses, crashes>>

(***************************************************************************)
(* The agent.  It changes no log: it returns a verdict and one proposal,   *)
(* and leaves its workspace clean or not.                                  *)
(***************************************************************************)
\* The turn's verdict is already known; only the record is left to write.
Conclude(w, outcome) ==
    turn' = [turn EXCEPT ![w].pc = "finish", ![w].outcome = outcome]

\* Every non-success verdict but a denial of an acting turn, and a success
\* whose proposal is missing, unreadable or not one event.
AgentEnds(w) ==
    /\ At(w, "agent")
    /\ \E outcome \in {"failed", "blocked"} : Conclude(w, outcome)
    /\ mess' \in BOOLEAN
    /\ UNCHANGED <<item, quest, uncommitted, orphaned, lock, losses, crashes>>

\* A permission denial: the question is asked here, the item blocks in Suspend.
AgentDenied(w, q) ==
    /\ At(w, "agent") /\ turn[w].target # None
    /\ quest[q].state = NotAsked
    /\ quest' = [quest EXCEPT ![q] = [state |-> Awaiting, item |-> turn[w].target,
                                      ttl |-> DeadlineTicks, policy |-> "return"]]
    /\ uncommitted' = uncommitted \cup {q}
    /\ mess' \in BOOLEAN
    /\ turn' = [turn EXCEPT ![w].pc = "suspend", ![w].paths = @ \cup {q}]
    /\ UNCHANGED <<item, orphaned, lock, losses, crashes>>

\* The question this turn has just asked.
AskedNow(w) == CHOOSE q \in Questions : q \in turn[w].paths

Suspend(w) ==
    LET i == turn[w].target IN
    /\ At(w, "suspend")
    /\ Accepts(item[i], "blocked")
    /\ Append(i, AfterBlocked(item[i], [kind |-> "question", ref |-> AskedNow(w),
                                        ret |-> "doing", ttl |-> 0,
                                        policy |-> "none"]))
    /\ Conclude(w, "blocked")
    /\ UNCHANGED <<quest, orphaned, mess, lock, losses, crashes>>

AgentProposes(w) ==
    /\ At(w, "agent")
    /\ \E next \in IF turn[w].target = None THEN {"plan"} ELSE {"gate", "propose"} :
           Goto(w, next)
    /\ mess' \in BOOLEAN
    /\ UNCHANGED <<item, quest, uncommitted, orphaned, lock, losses, crashes>>

(***************************************************************************)
(* Dispose of a planning proposal: the items are appended one by one, and  *)
(* a refused one takes those already written with it.                      *)
(***************************************************************************)
PlanItem(w, i) ==
    /\ At(w, "plan")
    /\ item[i].state = Absent
    /\ Append(i, After(item[i], "created"))
    /\ turn' = [turn EXCEPT ![w].paths = @ \cup {i}]
    /\ UNCHANGED <<quest, orphaned, mess, lock, losses, crashes>>

PlanDone(w) ==
    /\ At(w, "plan") /\ turn[w].paths # {}
    /\ Conclude(w, "advanced")
    /\ UNCHANGED <<item, quest, uncommitted, orphaned, mess, lock, losses, crashes>>

PlanRefused(w) ==
    /\ At(w, "plan")
    /\ item' = [i \in Items |-> IF i \in turn[w].paths THEN NoItem ELSE item[i]]
    /\ uncommitted' = uncommitted \ turn[w].paths
    /\ turn' = [turn EXCEPT ![w].pc = "finish", ![w].paths = {},
                            ![w].outcome = "failed"]
    /\ UNCHANGED <<quest, orphaned, mess, lock, losses, crashes>>

(***************************************************************************)
(* Dispose of `done`: the gate, then the workspace's delivery (its HEAD is *)
(* not modelled; a delivery git refuses ends the turn like a crash).       *)
(***************************************************************************)
GatePasses(w) ==
    /\ At(w, "gate") /\ TreeClean
    /\ Goto(w, "done")
    /\ UNCHANGED <<item, quest, uncommitted, orphaned, mess, lock, losses, crashes>>

\* The tests failed, or the tree is not clean.
GateRejects(w) ==
    LET i == turn[w].target IN
    /\ At(w, "gate")
    /\ Accepts(item[i], "gate_rejected")
    /\ Append(i, After(item[i], "gate_rejected"))
    /\ Conclude(w, "failed")
    /\ UNCHANGED <<quest, orphaned, mess, lock, losses, crashes>>

AppendDone(w) ==
    LET i == turn[w].target IN
    /\ At(w, "done")
    /\ Accepts(item[i], "done")
    /\ Append(i, After(item[i], "done"))
    /\ Conclude(w, "advanced")
    /\ UNCHANGED <<quest, orphaned, mess, lock, losses, crashes>>

(***************************************************************************)
(* Dispose of any other event: append it, escalate an exhausted failure.   *)
(***************************************************************************)
\* The awaiting objects agents write: on a question they have seen, or on one
\* that does not exist, or `kind: item` with a bound of its own or without.
Nameable == {q \in BlockRefs : q = NoRef \/ quest[q].state # NotAsked}
AgentBlocks ==
    [kind : {"question"}, ref : Nameable, ret : ReturnTargets, ttl : {0},
     policy : {"none"}]
    \cup
    [kind : {"item"}, ref : {NoRef}, ret : ReturnTargets, ttl : {DeadlineTicks},
     policy : BlockPolicies]

\* Mutant: `done` is appended like any other proposal.
ProposeUngated(w) ==
    LET i == turn[w].target IN
    /\ At(w, "propose")
    /\ \E e \in (Proposals \cup {"done"}) \ {"failed", "blocked"} :
           /\ Accepts(item[i], e)
           /\ Append(i, After(item[i], e))
    /\ Goto(w, "reload")
    /\ UNCHANGED <<quest, orphaned, mess, lock, losses, crashes>>

ProposePlain(w) ==
    LET i == turn[w].target IN
    /\ At(w, "propose")
    /\ \E e \in Proposals \ {"failed", "blocked"} :
           /\ Accepts(item[i], e)
           /\ Append(i, After(item[i], e))
    /\ Goto(w, "reload")
    /\ UNCHANGED <<quest, orphaned, mess, lock, losses, crashes>>

ProposeBlocked(w) ==
    LET i == turn[w].target IN
    /\ At(w, "propose")
    /\ "blocked" \in Proposals /\ Accepts(item[i], "blocked")
    /\ \E b \in AgentBlocks : Append(i, AfterBlocked(item[i], b))
    /\ Goto(w, "reload")
    /\ UNCHANGED <<quest, orphaned, mess, lock, losses, crashes>>

\* _poison_if_exhausted decides on the record just appended.
ProposeFailed(w) ==
    LET i == turn[w].target IN
    /\ At(w, "propose")
    /\ "failed" \in Proposals /\ Accepts(item[i], "failed")
    /\ \E attempt \in {item[i].attempt} \cup Misreports, retryable \in BOOLEAN :
           /\ Append(i, AfterFailed(item[i], attempt, retryable))
           /\ Goto(w, IF ~retryable \/ attempt >= MaxAttempts THEN "poison"
                                                             ELSE "reload")
           /\ Reported(i, attempt)
    /\ UNCHANGED <<quest, orphaned, mess, lock, crashes>>

Poison(w) ==
    LET i == turn[w].target IN
    /\ At(w, "poison")
    /\ Accepts(item[i], "poisoned")
    /\ Append(i, After(item[i], "poisoned"))
    /\ Goto(w, "reload")
    /\ UNCHANGED <<quest, orphaned, mess, lock, losses, crashes>>

Reload(w) ==
    /\ At(w, "reload")
    /\ Conclude(w, OutcomeFor(item[turn[w].target].state))
    /\ UNCHANGED <<item, quest, uncommitted, orphaned, mess, lock, losses, crashes>>

\* The fold refuses the proposal, or it lacks a field; the log is untouched.
ProposalRefused(w) ==
    /\ At(w, "propose") \/ At(w, "done")
    /\ Conclude(w, "failed")
    /\ UNCHANGED <<item, quest, uncommitted, orphaned, mess, lock, losses, crashes>>

(***************************************************************************)
(* Record and commit.  `dirty` is read before the record is written.       *)
(***************************************************************************)
Finish(w) ==
    /\ At(w, "finish")
    /\ turn' = [turn EXCEPT ![w].pc = "commit_turn",
            ![w].dirty = mess \/ (SameTree /\ uncommitted \ {Ledger} # {})]
    /\ uncommitted' = uncommitted \cup {Ledger}
    /\ UNCHANGED <<item, quest, orphaned, mess, lock, losses, crashes>>

CommitTurn(w) ==
    /\ At(w, "commit_turn")
    /\ Commit(turn[w].paths \cup {Ledger})
    /\ lock' = None
    /\ turn' = [turn EXCEPT ![w] = NoTurn]
    /\ UNCHANGED <<item, quest, mess, losses, crashes>>

(***************************************************************************)
(* A turn that ends early.  The flock dies with the process or is released *)
(* by the exception; whatever is on disk stays there.                      *)
(***************************************************************************)
\* Mutant: the lock outlives the turn.
DropKeepingLock(w) ==
    /\ turn' = [turn EXCEPT ![w] = NoTurn]
    /\ orphaned' = orphaned \cup uncommitted
    /\ UNCHANGED <<item, quest, uncommitted, mess, lock, losses>>

Drop(w) ==
    /\ lock' = None
    /\ turn' = [turn EXCEPT ![w] = NoTurn]
    /\ orphaned' = orphaned \cup uncommitted
    /\ UNCHANGED <<item, quest, uncommitted, mess, losses>>

\* append() raises LogError, or commit() TurnError, where no caller catches it.
Refused(w) ==
    LET i == turn[w].target IN
    \/ /\ At(w, "answers")
       /\ \E q \in Questions : NextUp(w, q) /\ ~Accepts(item[quest[q].item], "unblocked")
    \/ turn[w].pc \in Resolutions /\ ~Accepts(item[i], turn[w].pc)
    \/ turn[w].pc \in {"poison_lease", "poison"} /\ ~Accepts(item[i], "poisoned")
    \/ At(w, "claim") /\ ~Accepts(item[i], "claimed")
    \/ At(w, "start") /\ ~Accepts(item[i], "started")
    \/ At(w, "suspend") /\ ~Accepts(item[i], "blocked")
    \/ At(w, "gate") /\ ~Accepts(item[i], "gate_rejected")
    \* commit() raises TurnError: the board has committed the same files since.
    \/ At(w, "commit_sweep") /\ turn[w].paths # {} /\ ~Differs(turn[w].paths)
    \/ At(w, "commit_claim") /\ ~Differs(turn[w].paths)

Raise(w) == Refused(w) /\ Drop(w) /\ UNCHANGED crashes

\* A kill, a container that stops, or what nothing catches: a commit git refuses
\* (TurnError), a note no record may carry (RecordError), tests that cannot be
\* started (VerificationError).
Crash(w) == /\ ~At(w, "idle") /\ crashes < MaxCrashes
            /\ crashes' = crashes + 1
            /\ Drop(w)

(***************************************************************************)
(* The other writers of the same logs.  The inbox (board/inbox.py) appends *)
(* without the queue lock and commits what it wrote; an append the fold    *)
(* refuses is recorded as rejected and changes nothing here.               *)
(***************************************************************************)
BoardAnswers(i) ==
    LET q == item[i].block.ref IN
    /\ item[i].state = "blocked" /\ OnQuestion(item[i]) /\ q \in Questions
    /\ QuestionAccepts(quest[q], "answered")
    /\ quest' = [quest EXCEPT ![q] = QuestionAfter(@, "answered")]
    /\ Commit({q})
    /\ UNCHANGED <<item, mess, lock, turn, losses, crashes>>

BoardAppends(i, v) ==
    /\ item' = [item EXCEPT ![i] = v]
    /\ Commit({i})
    /\ UNCHANGED <<quest, mess, lock, turn, losses, crashes>>

BoardCancels(i) == /\ Accepts(item[i], "cancelled")
                   /\ BoardAppends(i, After(item[i], "cancelled"))

BoardSetsPriority(i, p) == /\ Accepts(item[i], "priority_set")
                           /\ BoardAppends(i, AfterPrioritySet(item[i], p))

BoardCreates(i) == /\ Accepts(item[i], "created")
                   /\ BoardAppends(i, After(item[i], "created"))

\* Nothing under src/ proposes `snoozed`: an operator appends and commits it.
OperatorSnoozes(i) ==
    /\ Accepts(item[i], "snoozed")
    /\ BoardAppends(i, AfterSnoozed(item[i], DeadlineTicks + Elapsed))

\* Nobody comments on an item whose issue cannot exist yet: a planning turn is
\* still between two of its appends.
BeingPlanned(i) == \E w \in Workers : At(w, "plan") /\ i \in turn[w].paths

Board == \E i \in Items :
    /\ ~BeingPlanned(i)
    /\ \/ BoardAnswers(i) \/ BoardCancels(i)
       \/ BoardCreates(i) \/ OperatorSnoozes(i)
       \/ \E p \in Priorities : BoardSetsPriority(i, p)

(***************************************************************************)
(* Time.  Clocks are ticks left, 0 once elapsed.  The harness's own steps  *)
(* take no time next to a lease or a deadline, so that `started`, which    *)
(* every comparison uses, is the time of the sweep; time passes between    *)
(* turns and while an agent runs.                                          *)
(***************************************************************************)
Less(t) == IF t > 0 THEN t - 1 ELSE 0
Nearer(t) == IF t > Elapsed THEN t - 1 ELSE t

Tick ==
    /\ \A w \in Workers : turn[w].pc \in {"idle", "agent"}
    /\ item' = [i \in Items |-> [item[i] EXCEPT !.ttl = Less(@), !.wake = Nearer(@),
                                                !.block.ttl = Less(@)]]
    /\ quest' = [q \in Questions |-> [quest[q] EXCEPT !.ttl = Less(@)]]
    /\ UNCHANGED <<uncommitted, orphaned, mess, lock, turn, losses, crashes>>

-----------------------------------------------------------------------------
Sweep(w) ==
    \/ \E q \in Questions : ApplyAnswer(w, q)
    \/ \E i \in Items : Reclaim(w, i) \/ FailLease(w, i) \/ Wake(w, i)
                           \/ TimeOut(w, i) \/ Retry(w, i)
    \/ PoisonLease(w) \/ Resolve(w) \/ EndSweep(w) \/ CommitSweep(w)

Classify(w) == (\E i \in Items : Pick(w, i)) \/ Plan(w) \/ NothingReady(w)

Agent(w) == \/ AgentEnds(w) \/ AgentProposes(w)
            \/ \E q \in Questions : AgentDenied(w, q)

Dispose(w) ==
    \/ Suspend(w)
    \/ (\E i \in Items : PlanItem(w, i)) \/ PlanDone(w) \/ PlanRefused(w)
    \/ GatePasses(w) \/ GateRejects(w) \/ AppendDone(w)
    \/ ProposePlain(w) \/ ProposeBlocked(w) \/ ProposeFailed(w)
    \/ Poison(w) \/ Reload(w) \/ ProposalRefused(w)

\* What a worker does, whatever happens to it.
TakeTurn(w) == \/ StartTurn(w) \/ Declare(w) \/ Sweep(w) \/ Classify(w)
               \/ Claim(w) \/ Start(w) \/ CommitClaim(w)
               \/ Agent(w) \/ Dispose(w) \/ Finish(w) \/ CommitTurn(w)
               \/ Raise(w)

Next == \/ \E w \in Workers : TakeTurn(w) \/ Crash(w)
        \/ Board
        \/ Tick

Spec == Init /\ [][Next]_vars

(***************************************************************************)
(* Fairness: some process keeps taking turns (run_loop wakes on a heartbeat*)
(* and its caller restarts it), an agent returns (govern() kills it at the *)
(* wall clock), and time passes.  Crashes and the board owe nothing.  Tick *)
(* is disabled during the harness's own steps, which is the model's doing  *)
(* and not the clock's: hence strong fairness for it.                      *)
(***************************************************************************)
Fairness == /\ WF_vars(\E w \in Workers : TakeTurn(w))
            /\ SF_vars(Tick)

FairSpec == Spec /\ Fairness
-----------------------------------------------------------------------------
(* Correctness.                                                            *)

Block == [kind : {"none", "question", "item"}, ref : Questions \cup {NoRef},
          ret : ReturnTargets \cup {"none", "doing"}, ttl : Nat,
          policy : Policies \cup {"none"}]

ItemView == [state : States \cup {Absent}, resumable : BOOLEAN, claims : Nat,
             attempt : Nat, ttl : Nat, block : Block,
             failure : [recorded : BOOLEAN, attempt : Nat, retryable : BOOLEAN],
             wake : Nat, prio : Nat]

QuestionView == [state : QuestionStates \cup {NotAsked},
                 item : Items \cup {None}, ttl : Nat, policy : Policies]

TurnState == [pc : Steps, cursor : Nat, target : Items \cup {None}, paths : SUBSET Files,
              returned : SUBSET Items, outcome : Outcomes, dirty : BOOLEAN]

\* Every variable has its type; in particular the fold never leaves an item in
\* an undeclared state, whatever return_to an agent wrote (eventlog._fold).
TypeOK ==
    /\ item \in [Items -> ItemView]
    /\ quest \in [Questions -> QuestionView]
    /\ uncommitted \subseteq Files /\ orphaned \subseteq Files
    /\ mess \in BOOLEAN
    /\ lock \in Workers \cup {None}
    /\ turn \in [Workers -> TurnState]
    /\ losses \in [Items -> Nat]
    /\ crashes \in Nat

Active(w) == turn[w].pc # "idle"

\* No two turns are under way on one queue, and the lock is held exactly while
\* one is: a crash or an exception never leaves it held (single_flight).
SingleFlight ==
    /\ \A v, w \in Workers : Active(v) /\ Active(w) => v = w
    /\ \A w \in Workers : Active(w) <=> lock = w

\* An agent acting on a freshly claimed item acts on a claim git already has,
\* so that a crash reads back as claimed-and-abandoned (take_turn's claim commit).
AgentActsOnCommittedClaim ==
    \A w \in Workers : LET i == turn[w].target IN
        At(w, "agent") /\ i # None /\ item[i].state = "doing" /\ ~item[i].resumable
            => i \notin uncommitted

\* While an agent acts on an item, the item is still leased to that turn unless
\* somebody made it terminal: no sweep, pick or other worker takes it away.
AgentKeepsItsItem ==
    \A w \in Workers : LET i == turn[w].target IN
        At(w, "agent") /\ i # None => item[i].state \in {"doing"} \cup Terminal

\* A planning agent runs only while no item is being worked on (should_plan),
\* including the items of turns that died.
PlansOnlyAroundStuckItems ==
    \A w \in Workers : At(w, "agent") /\ turn[w].target = None
        => \A i \in Items : item[i].state \notin Leased

\* One number caps crash loops, expired leases and failed proposals alike: an
\* item never loses more than max_attempts leases (backlog-item-format, "A lease
\* is reclaimable, and reclaiming is bounded by the attempt counter").  Whatever
\* attempts agents report, one number is enough to stay under it: the only way past
\* is a report below the lease's own attempt, and no such failure is counted.
AttemptsAreCapped == \A i \in Items : losses[i] <= MaxAttempts

\* The lease in force is the item's latest claim, however often the item has
\* been back in ready ("The attempt count survives a return to `ready`").
LeaseCountsEveryClaim ==
    \A i \in Items : item[i].state \in Leased => item[i].attempt = item[i].claims

\* Between turns, the only uncommitted files are those a dead turn left: each
\* commit of a turn names every file it wrote (turn-cycle, "Every event the
\* sweep step writes is committed with the turn, not left on disk").
TurnsCommitWhatTheyWrite == lock = None => uncommitted \subseteq orphaned

\* An item becomes done only by a turn that has just passed the gate on it
\* (verify.may_write_done, "The only door to `done`"), or at the end of a block that
\* its agent told to return there: the fold takes any state, and nothing gates that.
DoneOnlyThroughTheGate ==
    [][\A i \in Items : item[i].state # "done" /\ item'[i].state = "done"
           => \/ \E w \in Workers : At(w, "done") /\ turn[w].target = i
              \/ item[i].state = "blocked" /\ item[i].block.ret = "done"]_vars

\* Terminal is forever: also when the board cancels an item under a turn that
\* read it before, and goes on to dispose of it.
TerminalIsFinal ==
    [][\A i \in Items : item[i].state \in Terminal
           => item'[i].state = item[i].state]_vars

\* The sweeps leave nothing due behind them, whatever each made of an item the
\* next one looks at (turn-cycle, "Three more dead ends are swept before
\* classification"), but for one case: what the deadlines' sweep has itself put back
\* into snoozed or blocked, which the sweep of that state has already passed.
NothingDueIsLeft ==
    \A w \in Workers : At(w, "classify") =>
        /\ Due("retry") = {}
        /\ Due("wake") \cup Due("deadlines") \subseteq turn[w].returned

\* Unless a turn was killed between `failed` and `poisoned`, an item in `failed`
\* between turns is retryable and under the cap: whatever raises, whatever the board
\* does in between, and whatever failure a block returns it to, no other item is left
\* there (retry_failed, "by construction") but one that a block returned to `failed`
\* before it ever failed.
FailedMeansRetryable ==
    lock = None /\ crashes = 0 =>
        \A i \in Items : item[i].state = "failed" => Retryable(item[i]) \/ ~item[i].failure.recorded

\* A block is lifted by the sweeps only when what it waits for has resolved.
UnblockedOnlyWhenResolved ==
    [][\A i \in Items :
           /\ item[i].state = "blocked" /\ item'[i].state \notin {"blocked", "snoozed"}
           /\ OnQuestion(item[i]) /\ item'[i].state \notin Terminal
           => quest[item[i].block.ref].state \in Closed]_vars

\* Whatever turns, sweeps, crashes and the board do to an item, in whatever
\* order, the item only takes the steps of its lifecycle: attempts are spent by
\* lost leases alone, and nothing takes it up again once they are gone.
Lifecycle == INSTANCE ItemLifecycle WITH
    state <- [i \in Items |-> item[i].state],
    claims <- [i \in Items |-> item[i].claims],
    lost <- losses,
    reported <- [i \in Items |-> item[i].failure.attempt]

ImplementsLifecycle == Lifecycle!Spec

\* Why the cap holds: the losses never outrun the claims, and only an item with
\* attempts left is anything but closed or failed, whichever of the three doors
\* it came through (reclaim_expired, _poison_if_exhausted, retry_failed).
LossesFollowClaims == Lifecycle!LossesFollowClaims

-----------------------------------------------------------------------------
(* Liveness.                                                               *)

\* Nothing stays claimed or doing: a dead turn's item is reclaimed or poisoned
\* (S1021), a rejected one is resumed until its lease runs out.
NothingStaysInFlight ==
    \A i \in Items : item[i].state \in Leased ~> item[i].state \notin Leased

\* The block carries a bound, or the question it names does.
Bounded(v) == IF OnQuestion(v)
              THEN v.block.ref \in Questions /\ quest[v.block.ref].state # NotAsked
              ELSE v.block.policy # "none"

\* A block with a bound ends, answered or timed out (S172, every loop must close).
BoundedBlocksEnd ==
    \A i \in Items : (item[i].state = "blocked" /\ Bounded(item[i]))
                         ~> item[i].state # "blocked"

\* A failed item under the cap is worked on again or closed.
FailuresAreRetried ==
    \A i \in Items : Retryable(item[i]) ~> item[i].state # "failed"

\* Once the board is quiet, no item keeps the factory from classifying its
\* backlog ("one stuck item could not freeze the factory", ADR-0012).
TheFactoryKeepsClassifying ==
    <>[][~Board]_vars => []<>(\E w \in Workers : At(w, "classify"))

=============================================================================
