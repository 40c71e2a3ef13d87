# yosefactory in TLA+

A verification development for the turn engine of yosefactory: what one turn
does to the backlog, what the board does to it meanwhile, where the work of its agent is committed and
pushed, when the loop starts the next turn, how a run of an agent
is governed, and what the stall detector makes of the result. TLC checks the
modules on small instances; TLAPS proves the central results for every value of
the constants. `src/` below is the repository.

## 1. The system

yosefactory runs coding agents unattended. Everything it knows is files in git:

| component | source (`src/src/yosefactory/`) | state | operations |
|---|---|---|---|
| event log | `protocol/eventlog.py` | one `.jsonl` per item and question | append, dedup, fold |
| backlog item | `protocol/backlog.py` | state and views folded from a log: lease, claims, awaiting, failure, wake time, priority | 22 events |
| question | `protocol/question.py` | state, deadline, policy | asked, answered, timed_out, withdrawn |
| turn | `runtime/turn.py` | queue lock, run ledger, the item claimed | acquire, declare, five sweeps, classify, claim, agent, dispose, record, commit |
| delivery | `runtime/turn.py` (`Places`, `_workspace_lock`, `_deliver_workspace`, `publish`) | two repositories, their origins, the workspace's lock | lock, amend, name, push |
| spend ledger | `runtime/spend.py` | rows of `ledger/spend.jsonl` | record, total |
| gate | `runtime/verify.py` | none | terminal verdict, tests, clean tree |
| supervision | `runtime/supervise.py`, `executor/` | one process, its transcript, the reader's position | launch, poll, terminate, kill, classify |
| turn-record stream | `runtime/runs.py`, `protocol/turn.py` | markers and records, one pair per run | open_run, append, read_window |
| stall detector | `runtime/stall.py` | none | evaluate, detect |
| board | `board/github.py`, `inbox.py`, `projection.py` | issues and comments; the consumed-log | open, project, close, comment, list_events, ingest |
| loop | `runtime/loop.py` | last head, last heartbeat, last board poll, the wake sidecar | refuse a dirty workspace, project, poll, wake, turn |
| configuration, trace, containers | `runtime/config.py`, `executor/trace.py`, `board/trace_comment.py`, `Dockerfile` | constants and reports | parse, render |

**How they interact.** The loop calls the board projection, the board inbox and
`take_turn` in one process. Turns of several processes exclude one another by a
`flock` on the queue, and by a second one on the workspace. The inbox appends to
the same item and question logs *without* the queue lock. A turn hands the item
to an agent process, which answers with one proposed event; the harness appends
that event, `done` only behind the gate. Every write is an append to a log
(candidate, fold, rename) followed, later, by a git commit of named paths; a
process may die between any two of them, and what it leaves is what is on disk.

**What is hard.** Turns that die between two appends; the board's writes between
a turn's read and its append; the same number of attempts counted through three
doors (expired lease, reported failure, retry); sweeps whose order matters;
agents that put any return state into a block; the consumed-log against the log
it protects; a cursor with the resolution of a second; a verdict flushed while
the run is being killed; a directory of records read while it is written; an
amendment of HEAD in a tree several queues share; two pushes of which either may
be refused; a loop that must not wake itself and must not sleep through a commit
that landed during its turn. The
list with a line for each is `hazards` in `PROJECT.json`.

**What correct means, by component.** Event log: the same lines give the same
state, whatever order they were merged in. Item: the lifecycle is respected, a
closed item stays closed, attempts are capped. Turn: one at a time, on a
committed claim, committing exactly what it wrote, never stuck behind one item.
Gate: the one door to `done` besides a block that says so. Supervision: every run ends, and the last whole
terminal event is the verdict. Stream and detector: silence means progress,
"wait" means every recent run starved. Board: a command is applied once, is
answered when rejected, and the threads show the items. Delivery: a run's trailer
is on that run's commits alone, nothing public is amended, records, spend rows and
commits lead to one another. Loop: every commit is followed by a turn, none of its
own by one.

## 2. The modules

There are two layers: small modules of *rules* (no variables), and modules of *processes*.

| module | models | checked by | proofs |
|---|---|---|---|
| `EventLog` | `eventlog.py`: dedup into (ts, id) order, the choice of a rule, the fold with its dynamic target | `ItemTrail` | `ItemTrailProofs` |
| `ItemLog` | views of an item computed from the whole log (`backlog.py`) | `ItemTrail` | `ItemTrailProofs` |
| `Backlog` | the same views as a record of constant size, updated event by event | `ItemTrail` relates it to `ItemLog` | `ItemTrailProofs` |
| `Question` | a question's record: accepted events and their effect | `TurnCycle` | |
| `ItemTrail` | any log a writer may build, one event a step, then clones that append and merge | `MCItemTrail` | `ItemTrailProofs` |
| `TurnCycle` | `turn.py`: turns of several workers, the board, the clock, crashes | `MCTurnCycle` | `TurnCycleProofs`, which also proves that it implements `ItemLifecycle` |
| `ItemLifecycle` | abstract: what the turn cycle promises about an item | `MCTurnCycle`, by refinement | `ItemLifecycleProofs` |
| `Delivery` | `turn.py`, `spend.py`: locks, amendment, spend row, last commit, pushes, for several queues | `MCDelivery` | `DeliveryProofs` |
| `Loop` | `loop.py`: wake reasons, sidecar, bounds, refusal of a dirty workspace | `MCLoop` | `LoopProofs` |
| `Supervision` | `supervise.py`, `claude.py`, `stream.py`, `outcome.py` | `MCSupervision` | `SupervisionProofs` |
| `RunStream` | `runs.py`, `stall.py`, the record's classification | `MCRunStream` | `RunStreamProofs` |
| `BoardInbox` | `github.py`, `inbox.py`, `projection.py`, their calls in `loop.py` | `MCBoardInbox` | `BoardInboxProofs` |

Operators whose comment begins with *Mutant* are faulty variants of the one that
follows; no specification uses them. They are what the properties are tested
against.

### Backlog, ItemLog, EventLog

An item's log is unbounded, so `TurnCycle` keeps a *view*: state, whether it is
resumable, number of claims, the lease's attempt and time left, the block, the
failure, time to wake, priority. A block may return an item to any state, so a failure and
a schedule are kept until the item is closed: an item may be back in `failed` long after
the failure, or in `snoozed` with a schedule that passed. `Accepts(v, e)` and `After(v, e)` are the fold's
rule for one more event. That this is faithful is itself checked, and
proved: `ItemTrail` builds every log an item can have and compares each view with the one
that `ItemLog` computes from the whole log through `EventLog!Fold`. The records of a log are
kept in order as the lines come (`Keep`), where the code sorts first and drops
repetitions afterwards: the result is the same, since lines that share an id are equal
or make the read fail.
Field types and patterns of payloads are abstracted to legal bodies; return
states are not, since the fold resolves them when the block ends: an agent may write any
of the thirteen, or a word that is none. An item that returns to `blocked` itself has no
stored return any more (`Awaited`), and the fold refuses to unblock it again.

`ItemTrail` then clones the queue behind a started item: each clone's writers
append under a clock of their own, and `Merge` interleaves the lines of two files
as git's line merge does, possibly repeating them. What the fold makes of the
result is the question (`SameLinesSameState`, `ClosedStaysClosed`). No clone writes a block,
so every block is known to all of them (`TrailAssumption`).

### TurnCycle

`item`, `quest`: the views of the logs on disk. `uncommitted`: files whose
content git lacks; `orphaned`: those a dead turn left; `mess`: uncommitted work
of the agent. `lock`: the flock. `turn[w]`: what the process of worker *w* holds
in memory: where it is, the sweep's position, its target, the paths its next
commit names, the items its deadline sweep has put back (`returned`). `losses` is a
history variable: leases of an item that expired or were reported failed under their own
attempt number or a later one (`Reported`).

Each append of the code is an action, each commit another. `StartTurn`/`Declare`
are `single_flight` and `open_run`; the five sweeps go through the sorted files
once, like the loops of the code; `Pick`, `Plan` and `NothingReady` classify;
`Claim`, `Start`, `CommitClaim` the claim; `AgentEnds`, `AgentProposes`,
`AgentDenied` the results an executor returns; the rest is `_dispose`, `_finish`
and the last commit. `Raise` is an exception nobody catches, `Crash` a kill;
both release the flock and leave the disk as it is. The board's four commands and
an operator's snooze are actions on the same logs, committed at once.

Time is a number of ticks left on each clock. Time passes while an agent runs and
between turns, not between two steps of the harness, because the code compares
every deadline with the one `started` of its turn.

### ItemLifecycle

Per item: state, claims, lost attempts and the attempt its last failure reported. It
knows no turns, sweeps, locks or crashes. `TurnCycle!ImplementsLifecycle` is the
refinement, under the mapping *state, claims* from the views, *lost* from
`losses`, *reported* from the failure. Discarding (a planning turn that takes
back what it created) acts on a set of items, every other action on one.

### Delivery

A repository is the sequence of its commits, since a sha stands for a history:
`head_before` is a copy of it. `TurnCycle` shows that a queue runs one turn at a
time, so each queue has one process here; `holder` is the second lock, on the workspace,
which several queues share and which is no lock at all when the queue lies in the
same tree. `Open` puts the commits before the agent into one. The agent commits in
the workspace (`Work`), the gate certifies HEAD, `Deliver` amends it if it moved
since `ReadHead`, `Price` is the spend row or its failure, `Finish` the last commit
of the queue, and `Publish` pushes the workspace, then the queue. A push without
force is taken only as a fast-forward. `Other` is a commit in a queue
under no lock: the board's commands, the wake sidecars, a person.

### Loop

`pc` follows `run_loop`: start (and refusal), projection, board, the check of the
wake reasons, sleep, turn, sidecar written, sidecar committed, HEAD read again. The
loop only compares HEAD with its last reading, so the model keeps *whose* commits
came since (`news`). `ready` is what `is_eligible` says of the queue, and
changes with any commit. The clocks count up to the bound
they are compared with. `unmet` and `slept` are history variables.

### Supervision

One run after another: the agent writes lines (a turn, a rate-limit notice, an
initialisation, a terminal event of each kind) piece by piece and may end, ignore
SIGTERM or hang; the supervisor polls, counts, terminates, waits, kills and
classifies; `Dispose` is the record the turn makes of the result. The reader
consumes whole lines from where it stopped, so a line half written is met again.

### RunStream

A run is `new`, `open` (marker), `writing` (record begun), `ended` or `dead`.
The detector has no state: its verdict is an operator of the directory, and the
properties compare it with what the runs did. It judges the last `Window` positions and
looks for the last advance in the last `max(Window, Reach)`, `Reach` being 10,000.

### BoardInbox

The board's threads and comments with a clock in seconds, the items' states, the
consumed-log, and one process with what it listed and has still to do. Reads of
the board, changes to it, and each write to disk are separate steps, with people
writing, deleting and erasing in between. Events are sorted as `list_events`
sorts them. `Turn` is a whole turn seen from the board (any non-closed item moves,
or one is planned). A process ends early by a `Fault` (a kill, a failing call) or by `Raise`
(a thread deleted since it was listed); what it wrote stays on disk. The next one
begins with a projection, unless the queue lies in the workspace (`shared`) and something is
uncommitted: then `_refuse_if_dirty` comes first, and every start is refused until
a person commits (`CleanUp`). `torn`, `muted` and `abandoned` are history: the events such
an end left half applied or unanswered, and the files it left uncommitted.

## 3. The runs

Passing runs. Deadlock is checked except where a model ends with its bound:
`ItemTrail` (the file is `MaxLength` lines long), `RunStream` (the last run is over)
and `Delivery` (no turn begins after `MaxTurns`).

| run | question | bounds, and why they suffice |
|---|---|---|
| `one_item` | exclusion, claims, cap, planning, sweeps, gate, commits and the refinement under two workers | one item, one question, two workers, 2 attempts, one crash: two workers are what exclusion is about, two attempts tell "the last" from "another", and one crash between any two appends leaves every kind of half-done work. Claims are counted up to 3, above the cap; agents may misreport an attempt as 0 or 2, below the lease's and at the cap; a block returns to any kind of state (leased, waiting, closed, undeclared). One priority, since one item has no rival. A planning turn finds the item absent, stuck or closed. 0.8 million states |
| `liveness` | leases, blocks and failures are resolved; the factory goes on | one item, one worker, one crash; agents block only with a bound, report their lease's attempt, and return to `doing`, `failed` or `snoozed`; see below for the others |
| `delivery` | who marks, amends, names and publishes what | two queues of another tree, three turns, so that one queue has two with the other's between them; one agent commit a turn (amendment touches only HEAD), one commit of the board, one crash; the queues' remotes may refuse. 2.1 million states |
| `loop` | every commit is met, no turn is taken for one's own | heartbeat 5, poll 2, board 3, no two of which divide each other, so that their ticks meet in every order; two iterations, one that starts and one that waits; a shared tree, where a stray sidecar matters; one death |
| `item_trail` | is the view the fold? what does a merge make of it? | all events, logs of up to 6 lines: a second claim behind a second block takes 6; returns to leased, waiting, closed and undeclared states. Two clones from a started item, three writes in all: a third line from either clone is what puts two of one around one of the other |
| `board_inbox` | committed, answered; no issue passed over | one comment, one issue and one planned item, allowed authors and strangers, two seconds (the cursor's resolution is one), shared tree or not, one process that ends at any point |
| `board_faults` | applied how often, threads and consumed rows under faults; convergence | one process that ends at any point, one deletion or erasure (which ends others), a comment, an item created twice, shared tree or not |
| `supervision` | the verdict, who is stopped, starvation; every run ends | three lines, one more than a turn at the ceiling takes and a verdict; a wall clock of two ticks and a grace of one, so that each bound is met before, at and after |
| `run_stream` | the detector | four runs, a window of two, a reach of three, two seconds: more runs than the reach, more reach than window, and runs of one second |

Every property of a passing run has a mutant of the code's model that violates it
(`mutants` in `PROJECT.json`): a sweep that is not called, a lock taken without
asking, a claim counted from the lease, a HEAD read before the sidecar is committed, the
queue pushed before the workspace, a reader that consumes half a line.

### Where the code and its documents disagree

Three disagreements are kept as runs that TLC must find violated; the sentence of
the repository that each contradicts is in `findings`.

| run | what happens |
|---|---|
| `stale_answer` | the answer to an earlier question releases a later block |
| `flushed_verdict` | a verdict flushed by a run that was stopped becomes the turn's outcome |
| `lost_command` | a command posted in the second of the cursor is never read |

The passing runs avoid others by the values of their constants. A property fails as
soon as the constant, or the property itself, is changed:

| property | fails with | because |
|---|---|---|
| `AttemptsAreCapped` | every failure counted (`Reported` is `Lost`) | `failed.attempt` is compared with the cap as the agent wrote it, and nobody tells the agent which attempt it is on (`turn.py:411-424`); against "capped by one number" there, and "an item that has exhausted its budget must not become eligible again by another door" (`retry_failed`) |
| `DoneOnlyThroughTheGate` | without its second disjunct | the fold returns a block to any declared state, `done` among them; against "The only door to `done`" (`verify.py`) |
| `NothingDueIsLeft` | without `returned` | the deadlines' sweep returns a block to `snoozed` or `blocked` behind the sweep that looks at it; the next turn meets it |
| `FailedMeansRetryable` | without `~recorded` | a block returned to `failed` by an agent that never failed: no record, so it is neither retried nor poisoned, for ever |
| `BoundedBlocksEnd`, `TheFactoryKeepsClassifying` | `"blocked"` in `ReturnTargets` | the second end of such a block finds no stored return: the fold refuses, in every later sweep |
| `TheFactoryKeepsClassifying` | `"nowhere"` in `ReturnTargets` | the fold refuses the return when the block ends, in every later sweep |
| `BoundedBlocksEnd` | two items, `BlockRefs = {11}` | a block on another item's closed question is left by each sweep to the other |
| `AppliedOnce`, `NeverSilent` | without `torn`, `muted` | the consumed row comes after the append, and before the reply: a process that ends between them applies the event again, or leaves its author without an answer |
| `EffectsAreCommitted`, `TheBoardCatchesUp` | without `abandoned`, `refused` | what a process left uncommitted is nobody's, and in a shared tree keeps every later loop from projecting; against "Projection is re-derivable from git alone" |
| `SilenceMeansProgress` | `SurelyLast(Reach)` replaced by `Started` | `stall.py:104` reads the last 10,000 positions and calls them everything; against run-guardrails/stall-detection, "the position of the most recent `advanced` record if one exists outside the window" |
| `MarkedCommitsAreTheRunsOwn`, `TheMarkIsOnWhatTheGateSaw` | `SameTree = TRUE`, one queue | in a shared tree a commit of the board between the gate and the amendment is HEAD, and gets the run's trailer |
| `PublishedRecordsNamePublicCommits` | its antecedent dropped, `Unreachable = {Workspace}` | a refused push of the workspace is a warning, and the queue is pushed all the same |

More behaviours are in the models without a property that forbids them:

* A turn killed between `failed` and `poisoned` strands the item (hence
  `crashes = 0` in `FailedMeansRetryable`).
* An item may return to `doing` with an expired lease after the sweep for leases,
  and is reclaimed one turn later (hence no `reclaim` in `NothingDueIsLeft`).
* In a shared tree the turn's own append makes `dirty` true (`TurnCycle!Finish`;
  `supervise.py:110` reads a tree it may share with the queue).
* Two clones that reclaim one lease merge into a log that the fold refuses
  (`ItemTrail`), and a death inside a record makes the stream unreadable (hence
  `Readable` in the properties of `RunStream`).
* `LockBusy` on the workspace comes after the claim is committed: the attempt is
  spent, no record is written and the exception ends the loop (`turn.py:979`).
* Only an item's `done` passes the gate. A turn that advanced otherwise (falsified,
  released, planned) publishes whatever the agent committed in the workspace.
* A `done` that the fold refuses after the amendment leaves a record that names no
  commit, beside a marked one.
* A crash between the spend row and the last commit leaves the row to a later
  turn's commit; between `done` and that commit it leaves `done` in the working tree.
* With one tree, `publish_workspace = False` and `publish_queue = True` push the
  workspace, which is the queue.
* What nothing catches ends a turn without a record: a commit git refuses
  (`TurnError`), a note with a home-rooted path (`RecordError`), tests that cannot be
  started (`VerificationError`).
* A tree the gate found dirty, or a sidecar left uncommitted in a shared tree, makes
  every later start of the loop refuse until a person cleans up: the `refused` of
  `EveryCommitIsMet`. A commit that lands during a turn is met by the next
  heartbeat only, since HEAD is read again behind it. A turn that raises ends
  the loop before the sidecar of its wake is written.

## 4. Fairness

*TurnCycle*: some worker keeps taking steps (`WF` of the disjunction over all
workers: the loop wakes on its heartbeat, and an agent is killed at the wall
clock, which `EveryRunEnds` shows), and time passes. `Tick` is disabled during the harness's steps, which
is the model's doing and not the clock's; hence strong fairness for it. Crashes
and the board owe nothing. `TheFactoryKeepsClassifying` asks for a board that
falls silent eventually, since a command to cancel may always meet a turn that is
about to append.

*BoardInbox*: the process goes on with what it began (`WF`), and neither the poll
nor the turn waits for ever (`SF`, both intervals of the loop are finite and both
are enabled only between passes). A process that ended is started again, as its supervisor
does, and projects first if it is not refused. People and faults owe nothing, and nobody has to clean up.

*Loop*: the process goes on with its next step, a turn among them, since the wall
clock bounds it; the scheduler starts the loop again when it is down and not refused;
time passes (all `WF`). Commands and commits come when they like, deaths are
bounded, and nobody is obliged to clean up.

*Supervision*: time and the supervisor's own process. Nothing is assumed of the
agent.

## 5. The proofs

All proofs are for every value of the constants that satisfies the module's
assumption (`TurnAssumption`, `TrailAssumption`, `DeliveryAssumption`, `LoopAssumption`,
`StreamAssumption`, `BoardAssumption`, `SupervisionAssumption`): any sets of items, questions,
workers, clones, queues and runs, logs of any length, any cap, window, ceiling and durations. The type invariants that are proved are not model-checked again.

* `TurnCycleProofs!TypeCorrect`: `Spec => []TypeOK`. `TypeOK` is not inductive:
  what `Suspend`, `AppendDone`, `Poison` and the planning steps do with
  `turn.target` depends on where the turn is. The strengthening `TurnShapes` says which target and
  outcome go with each step.
* `TurnCycleProofs!OneTurnAtATime`: `Spec => []SingleFlight`. Inductive with
  `TypeOK`: whoever moves is active, hence the holder of the lock.
* `TurnCycleProofs!Implementation`: `Spec => Lifecycle!Spec`. The invariant is
  `Inv`: the two above, and `LifeInv`. Of the items: the lease of a leased item is its latest claim, a closed
  item has no failure to ask for, an absent item was never claimed. Of the
  turns: the items of a planning turn are new, and the target of a turn past its
  claim is leased or closed. The last needs single flight (no other worker's
  sweep touches it) and that the turn's own sweeps are over. Each event that
  spends no attempt is handled by one lemma, `PlainStep`; claims, failures,
  reclaims, retries and discards have one each.
* `LeasesCountClaims`, `AgentsKeepTheirItems`, `ClosedIsClosed`: consequences of
  the same invariant.
* `ItemLifecycleProofs!AttemptCap`: losses are capped in the abstract, by
  `LossesFollowClaims`, whatever agents report and wherever blocks return to: the losses
  never outrun the claims; a failure that is counted reports no less than the claims, so it is either
  below the cap, and so are the losses, or never retried. A failure under an earlier
  number is no loss by definition, which is what the code makes of it. Its
  assumption on the constants is a hypothesis of the theorem, since the module states none.
* `TurnCycleProofs!AttemptsRunOut`: the two together; `TurnCycle` itself
  loses no more than `MaxAttempts` leases of an item, and never more than its claims.
* The second half of `TurnCycleProofs` proves the rest of what `one_item` checks, for any number
  of items, questions and workers. `CommitInv`: what is uncommitted, and no dead turn's, is
  named by the running turn's paths, which hold its target while it still writes
  (`TurnsLeaveNothing`); an agent starts on a committed claim or resumes, and the
  board commits whatever it appends (`ClaimsAreCommitted`). `TurnMoves` says which
  events each step appends and to which item; from it follow `TheGateIsTheDoor`,
  `FailuresAreRetryable` (`FailuresInHand`: an item whose failure is spent is
  still in `failed`, and the turn in hand is about to poison it; so no block ever
  returns an item to such a failure), `PlanningIsAlone` and `SweepsLeaveNothingDue` (`SweptInv`: what is
  due is ahead of the sweep's cursor, in the turn's hand or in `returned`; hypothesis: a
  snooze is longer than nothing). No theorem assumes anything of the return states or the
  attempts agents write.

`ClaimCap` bounds the count of claims in the model. It is assumed above the cap
on attempts, and the count stays at it: no guard of the code distinguishes
counts beyond the cap.

* `ItemTrailProofs`, about the fold itself. It is recursive over the log, and no library
  induction theorem can be instantiated, so the module has its own: of a set of numbers
  (`Induction`, from the well-foundedness of `<`), and the community modules' `FoldLeft` is
  unfolded into its values after each prefix (`FoldedIsDefined`, `RecordsStepwise`,
  `FoldStepwise`). Three arguments rest on that.
  `MergeOrderIsIrrelevant`: the records are the lines, each once, sorted
  (`RecordsAreTheLines`), a set has one such order (`OneOrder`), and across clones an id is
  one line (`LogInv`, which follows each merge line by line).
  `TheViewIsTheFold`: one record more is one step more (`FoldAppends`) and the last of its event
  (`LastIsAppended`); `Shows` relates the view to the fold, with the one fact a reader does
  not ask for, that the block of a blocked item names what the fold stored; the guards then agree
  (`GuardsAgree`) and each field is the new record's or was shown before (`ShownAfter`).
  This discharges what `TurnCycle` takes for granted when it replaces the log by its view.
  `NoMergeReopens`: a log that reads is closed exactly if one of its lines closes it
  (`ClosedByALine`): a closing event, or the end of a block that stored a closed state. Which
  lines do is a matter of the set of lines and of the blocks before them, and merges add lines
  but no block (`FilesOnlyGrow`, `NoNewBlocks`).
* `DeliveryProofs`. `TypeCorrect` holds the types; `holder` is `None` throughout in one tree.
  `TurnsSerialize`: a turn in the workspace holds the flock, or there is but one
  queue. For queues that lie outside the workspace, `TreeInvariant` adds what an
  amendment rests on: HEAD is what the gate certified from the gate to the
  amendment (`TheGateSawTheMarkedCommit`); what came behind `before` is the running
  turn's own work, unmarked or marked by it alone (`MarksAreTheRunsOwn`); and
  what is public is a prefix of `before`, so an amendment never touches it
  (`AmendmentsStayPrivate`). Each needs the lock: no other
  turn commits in or pushes the workspace meanwhile. The hypothesis `~SameTree` is
  needed for the marks, as section 3 shows.
* `DeliveryProofs`, on what the runs leave behind, in three layers on top of those.
  `LedgerInv` needs no more than the types and holds in one tree as in several, since an
  amendment leaves the records of a commit alone: a run has at most one record and one row;
  the run under way has neither in a commit; a row that waits in the working tree is that
  of the turn about to finish, or a turn was killed. `TheLedgerIsComplete` follows.
  `JoinInv` is about names: what a record names bears its run's mark and no other; so does
  what the turn in hand is about to record; and the run of a marked commit
  has a record, or is about to write one, or a turn was killed.
  With `TreeInvariant`, which keeps earlier commits out of an amendment's reach,
  `RecordsAndCommitsJoin` follows. `PublicInv` adds that a turn about to push its queue
  has pushed the whole of the workspace, so what its record names is public
  (`PublicRecordsResolve`, also for the records of turns killed before their pushes); that the
  push was taken is `AmendmentsStayPrivate` again: what is public is a prefix of what is
  pushed, and a reachable remote accepts that.
* `LoopProofs`. The invariant relates the clocks: since the last turn the loop has
  slept no longer than `waited`, which is below the heartbeat whenever it falls
  asleep, and a nap is one poll (`SleepIsBounded`); while a check for an
  external event is due, `news` without a foreign commit is empty
  (`OwnCommitsDoNotWake`), because HEAD is read again behind the sidecar's commit.
* `RunStreamProofs`. `StreamInvariant`: a run has a marker exactly if it was started, and a
  record as far as its writer came. `PositionsAreKept`: an action property, no marker
  and no whole record is ever taken back. `SilenceIsProgress` and `WaitingIsSound` relate
  the verdict, which is computed from names on disk, to the runs themselves. A window is
  the set of runs with fewer than `Window` newer ones, so both are arguments about cardinalities:
  the runs newer by name lie between those that started later and those
  that did not start earlier; the window of a directory that names a run is not empty,
  because the names are totally ordered and a latest one exists; likewise there is a latest one
  among those that advanced, which is the one the alarm names if it is within the reach.
* `SupervisionProofs`. `IInv` says, beside the types, that the reader is what the first
  `reader.at` lines say (`ReaderIsPrefix`, in terms of `Heard`): its count is the cardinality of
  the turns among them, its terminal event the last of theirs. Two lemmas carry it: a prefix
  still says the same when the stream grows (`HeardStands`), and a poll extends
  what was heard to the lines there are (`PollHears`), whatever was read before. A process that
  is gone writes nothing more (`NothingIsAddedLate`), so after the last poll the reader is the whole
  stream, the result is `Verdict` of it, and the record tells the result
  (`VerdictIsTheStreams`, `StarvationIsRecorded`). `StopsAreEarned`: the reason of a stop was true
  when it was given, the clock does not go back and the count only grows.
* `BoardInboxProofs`. `IInv` says what the process may rely on although people change the
  board under it: the thread in hand is the only one that carries, or is to carry,
  its item; markers name only items that exist; what is read or applied belongs to a
  thread that was listed with its marker; an event in hand has no consumed row.
  `ThreadsAreUnique` and `ConsumedOnce` hold with any number of faults and deletions.
  `NoneAppliedTwice`, `NoneIgnored` and `NoneUncommitted` hold likewise and rest on `Bookkeeping`,
  which follows each event through the processes that dealt with it: it was applied as often as
  processes ended between its line and its row (`torn`), and once more if it has its row or is in
  hand; what has its row, but no effect, is in hand, was answered, or its process ended on it
  (`muted`); what is not in a commit is the item in hand or was left by a process that ended
  (`abandoned`), and in a shared tree no process goes on beside such a file.

**Only model-checked.** All liveness, which is `EveryCommitIsMet`, `IssuesBecomeItems`,
`TheBoardCatchesUp`, `EveryRunEnds` and the four of `liveness`: the prover has no rule for
fairness and `ENABLED`.
Every other property of a passing run has a theorem.
The theorems of `DeliveryProofs` about the workspace's commits have the hypothesis `~SameTree`,
`SweepsLeaveNothingDue` has that a snooze lasts: these are
the values of the runs, and section 3 says what happens without the first.

## 6. Abstractions and what is not modelled

* Payloads, prompts, titles and comment texts are members of small sets. Comments
  that do not parse as a command are left out: `list_events` passes over them.
* The rejection of a creation (`inbox.py:189-196`): `_apply_create` writes the first line of
  a new log with its frame filled in, which the fold has no reason to refuse. Were it refused, it
  would be recorded, committed and answered like any other command.
* The two locks of a turn are one in `TurnCycle`, which has one queue; they are two
  in `Delivery`, which has no items. Neither is a refinement of the other: they
  share the order of a turn's steps, which both take from `take_turn`.
* Each append is one step. The read and the rename inside `append()`, between
  which the inbox could write to the same log, are not told apart: both write the
  same `<name>.candidate`, and a line that lands between read and rename is lost,
  against the specification's "Writers SHALL only append". Telling them apart
  would need a state of the log for each writer at every append of `TurnCycle`.
* The lines of an agent's stream are whole. `stream.py:157` counts its position in
  re-encoded bytes, which differ from the file's when a line is not UTF-8.
* A change of the board's allowlist while comments wait behind the cursor
  (`inbox.py:180`).
* Not modelled, with nothing for a checker in it: `main` of the loop (parsing,
  building the adapters), configuration, the trace and its comment, `total_since`,
  prompts, argument vectors and the preflight of the executor,
  `ensure_transcripts_ignored`, reading of foreign records, the pagination of GitHub's lists,
  `propose` (nothing calls it), packaging and hooks.
* External: git (commit of named paths, refused without a difference; amendment;
  push), the operating system's flock and signals, the people at the board, the agent.

## 7. What a next step would be

1. `LogAppend`: `append()` split into read, fold and rename, a turn against the inbox.
2. Blocks written in a clone: two of them, merged, may exchange what they return to.
3. Proofs: the marks and the join of `Delivery` in one tree nobody else commits to (one
   queue, no board, no person): there the order of the turn's own steps has to do the lock's work.
