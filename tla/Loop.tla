-------------------------------- MODULE Loop --------------------------------
(***************************************************************************)
(* One loop over a queue (runtime/loop.py: run_loop, _await_wake): when it *)
(* calls take_turn again, and what it knows of the queue meanwhile.  A     *)
(* scheduler starts it; others commit in the same queue and post commands  *)
(* to the board; the process may die anywhere.                             *)
(*                                                                         *)
(* HEAD is only ever compared with what it was at the last reading, so the *)
(* model keeps whose commits there have been since then.  Clocks count up  *)
(* to the bound they are compared with and stay there.                     *)
(***************************************************************************)
EXTENDS Naturals

CONSTANTS
    HeartbeatSeconds,   \* WakeConfig.heartbeat_seconds
    PollSeconds,        \* WakeConfig.poll_seconds
    BoardSeconds,       \* BoardConfig.poll_seconds
    MaxIterations,      \* LoopBound.max_iterations
    SameTree,           \* the queue lies in the workspace (Places.local, nested)
    MaxDeaths           \* bound: processes that die outside a turn

ASSUME LoopAssumption ==
    /\ HeartbeatSeconds \in Nat \ {0} /\ PollSeconds \in Nat \ {0}
    /\ BoardSeconds \in Nat \ {0} /\ MaxIterations \in Nat \ {0}
    /\ SameTree \in BOOLEAN /\ MaxDeaths \in Nat

VARIABLES
    pc, iteration, reason,
    news,       \* whose commits have moved HEAD since last_head was read
    waited,     \* now - last_heartbeat
    polled,     \* now - last_board_poll; as long as the interval at the start
    nap,        \* what is left of sleep_fn
    ready,      \* some item of the queue is eligible
    asked,      \* the board holds a command nobody applied
    mess,       \* the agent left uncommitted work in the workspace
    stray,      \* a wake sidecar lies in the queue uncommitted
    unmet,      \* history: somebody committed since the last turn began
    slept,      \* history: seconds slept since the last turn
    deaths

loop == <<pc, iteration, reason, waited, polled, nap, slept>>
queue == <<news, ready, unmet>>
vars == <<loop, queue, asked, mess, stray, deaths>>

PCs == {"down", "project", "board", "check", "asleep", "turn", "record", "commit", "again"}
Reasons == {"startup", "ready_item", "external_event", "heartbeat"}

Init == /\ pc = "down" /\ iteration = 0 /\ reason = "startup"
        /\ news = {} /\ ready \in BOOLEAN /\ unmet \in BOOLEAN
        /\ waited = 0 /\ polled = BoardSeconds /\ nap = 0 /\ slept = 0
        /\ asked \in BOOLEAN /\ mess = FALSE /\ stray = FALSE /\ deaths = 0

-----------------------------------------------------------------------------
(* The queue and its surroundings.                                         *)

\* Another loop, the CLI or a person commits in the queue.
Elsewhere ==
    /\ news' = news \cup {"foreign"} /\ unmet' = TRUE
    /\ ready' \in BOOLEAN
    /\ UNCHANGED <<loop, asked, mess, stray, deaths>>

Post == asked' = TRUE /\ UNCHANGED <<loop, queue, mess, stray, deaths>>

\* A person commits or discards what lies about.
CleanUp == /\ mess \/ stray
           /\ mess' = FALSE /\ stray' = FALSE
           /\ UNCHANGED <<loop, queue, asked, deaths>>

\* `slept` stops where WaitsAreBounded no longer holds.
Longest == HeartbeatSeconds + PollSeconds

Count(clock, bound) == IF clock < bound THEN clock + 1 ELSE clock

\* Time passes while the loop sleeps, while it talks to the board, and during a
\* turn, whose length nothing here depends on.
Tick ==
    /\ pc = "board" \/ (pc = "asleep" /\ nap > 0)
    /\ waited' = Count(waited, HeartbeatSeconds) /\ polled' = Count(polled, BoardSeconds)
    /\ IF pc = "asleep" THEN nap' = nap - 1 /\ slept' = Count(slept, Longest) ELSE UNCHANGED <<nap, slept>>
    /\ UNCHANGED <<pc, iteration, reason, queue, asked, mess, stray, deaths>>

-----------------------------------------------------------------------------
(* run_loop.                                                               *)

\* _refuse_if_dirty: somebody's uncommitted work is in the workspace.
Dirty == mess \/ (SameTree /\ stray)

\* The scheduler starts a process, which refuses a dirty workspace, reads HEAD and
\* the clock, and projects what the queue holds.
Start ==
    /\ pc = "down" /\ ~Dirty
    /\ pc' = "project" /\ iteration' = 0 /\ news' = {}
    /\ waited' = 0 /\ polled' = BoardSeconds /\ slept' = 0
    /\ UNCHANGED <<reason, nap, ready, unmet, asked, mess, stray, deaths>>

\* The head of `while True`: the bound, then the board.
Bound == pc' = IF iteration >= MaxIterations THEN "down" ELSE "board"

Project == /\ pc = "project"
           /\ Bound
           /\ UNCHANGED <<iteration, reason, waited, polled, nap, slept, queue, asked,
                          mess, stray, deaths>>

\* take_turn is called: from here on it reads whatever has been committed.
Begin(why) == pc' = "turn" /\ reason' = why /\ unmet' = FALSE

\* poll_board_if_due, at the start and in every pass of _await_wake.
PollBoard ==
    /\ pc = "board"
    /\ LET due == polled >= BoardSeconds
           applied == due /\ asked
       IN /\ polled' = IF due THEN 0 ELSE polled
          /\ asked' = (asked /\ ~applied)
          /\ news' = IF applied THEN news \cup {"foreign"} ELSE news
          /\ ready' \in IF applied THEN BOOLEAN ELSE {ready}
          /\ IF iteration = 0 THEN Begin("startup")
             ELSE /\ pc' = "check" /\ unmet' = (unmet \/ applied)
                  /\ UNCHANGED reason
    /\ UNCHANGED <<iteration, waited, nap, slept, mess, stray, deaths>>

\* Mutant: without a heartbeat.
CheckWithoutHeartbeat ==
    /\ pc = "check"
    /\ IF ready THEN Begin("ready_item") /\ UNCHANGED nap
       ELSE IF news # {} THEN Begin("external_event") /\ UNCHANGED nap
       ELSE pc' = "asleep" /\ nap' = PollSeconds /\ UNCHANGED <<reason, unmet>>
    /\ UNCHANGED <<iteration, waited, polled, slept, news, ready, asked, mess, stray, deaths>>

\* _await_wake: ready item, external event, heartbeat, in this order, or sleep.
Check ==
    /\ pc = "check"
    /\ \/ ready /\ Begin("ready_item") /\ UNCHANGED nap
       \/ ~ready /\ news # {} /\ Begin("external_event") /\ UNCHANGED nap
       \/ /\ ~ready /\ news = {} /\ waited >= HeartbeatSeconds
          /\ Begin("heartbeat") /\ UNCHANGED nap
       \/ /\ ~ready /\ news = {} /\ waited < HeartbeatSeconds
          /\ pc' = "asleep" /\ nap' = PollSeconds /\ UNCHANGED <<reason, unmet>>
    /\ UNCHANGED <<iteration, waited, polled, slept, news, ready, asked, mess, stray, deaths>>

Awake == /\ pc = "asleep" /\ nap = 0
         /\ pc' = "board"
         /\ UNCHANGED <<iteration, reason, waited, polled, nap, slept, queue, asked,
                        mess, stray, deaths>>

\* take_turn returns: it has committed its record, and may leave work about.
TurnReturns ==
    /\ pc = "turn"
    /\ pc' = "record" /\ news' = news \cup {"own"}
    /\ ready' \in BOOLEAN /\ mess' \in BOOLEAN
    /\ UNCHANGED <<iteration, reason, waited, polled, nap, slept, unmet, asked, stray, deaths>>

\* LockBusy, a refused commit, a fold that fails: nothing in run_loop catches it.
TurnRaises ==
    /\ pc = "turn"
    /\ pc' = "down" /\ news' = news \cup {"own"}
    /\ ready' \in BOOLEAN /\ mess' \in BOOLEAN
    /\ UNCHANGED <<iteration, reason, waited, polled, nap, slept, unmet, asked, stray, deaths>>

\* _record_wake: the sidecar is written, then committed.
WriteWake == /\ pc = "record"
             /\ pc' = "commit" /\ stray' = TRUE
             /\ UNCHANGED <<iteration, reason, waited, polled, nap, slept, queue, asked,
                            mess, deaths>>

CommitWake == /\ pc = "commit"
              /\ pc' = "again" /\ stray' = FALSE /\ news' = news \cup {"own"}
              /\ UNCHANGED <<iteration, reason, waited, polled, nap, slept, ready, unmet,
                             asked, mess, deaths>>

\* Mutant: HEAD is read before the sidecar is committed.
AgainFromRecord ==
    /\ pc = "again"
    /\ iteration' = iteration + 1 /\ news' = {"own"}
    /\ waited' = 0 /\ slept' = 0
    /\ pc' = IF iteration' >= MaxIterations THEN "down" ELSE "board"
    /\ UNCHANGED <<reason, polled, nap, ready, unmet, asked, mess, stray, deaths>>

\* After the projection: the iteration is counted, HEAD and the clock are read.
Again ==
    /\ pc = "again"
    /\ iteration' = iteration + 1 /\ news' = {}
    /\ waited' = 0 /\ slept' = 0
    /\ pc' = IF iteration' >= MaxIterations THEN "down" ELSE "board"
    /\ UNCHANGED <<reason, polled, nap, ready, unmet, asked, mess, stray, deaths>>

\* A kill, or an error of the board's that ingest or project_all lets through.
Die == /\ pc \notin {"down", "turn"} /\ deaths < MaxDeaths
       /\ pc' = "down" /\ deaths' = deaths + 1
       /\ UNCHANGED <<iteration, reason, waited, polled, nap, slept, queue, asked, mess, stray>>

Step == Project \/ PollBoard \/ Check \/ Awake \/ TurnReturns \/ TurnRaises
        \/ WriteWake \/ CommitWake \/ Again

Next == Step \/ Start \/ Die \/ Tick \/ Elsewhere \/ Post \/ CleanUp

Spec == Init /\ [][Next]_vars

\* The loop's process goes on, a turn comes back (it is bounded by the wall clock),
\* the scheduler starts the loop again, and time passes.  Nobody has to clean up.
Fairness == WF_vars(Step) /\ WF_vars(Start) /\ WF_vars(Tick)

FairSpec == Spec /\ Fairness

-----------------------------------------------------------------------------
TypeOK ==
    /\ pc \in PCs /\ iteration \in 0 .. MaxIterations /\ reason \in Reasons
    /\ news \subseteq {"own", "foreign"}
    /\ waited \in 0 .. HeartbeatSeconds /\ polled \in 0 .. BoardSeconds
    /\ nap \in 0 .. PollSeconds /\ slept \in 0 .. Longest
    /\ ready \in BOOLEAN /\ asked \in BOOLEAN /\ unmet \in BOOLEAN
    /\ mess \in BOOLEAN /\ stray \in BOOLEAN /\ deaths \in 0 .. MaxDeaths

\* A turn taken for an external event has one: neither the turn's own commits nor
\* the sidecar that follows them ever wake the loop, which would go on by itself
\* without end (_await_wake; last_head is read behind _record_wake).
NeverWakesItself ==
    pc = "turn" /\ reason = "external_event" => "foreign" \in news

\* Between two turns the loop sleeps less than a heartbeat and one poll together,
\* however the board's interval falls (_await_wake).
WaitsAreBounded == slept < Longest

\* Whatever is committed in the queue, also while a turn runs and just before HEAD
\* is read again, is followed by a turn, and whatever is posted is applied; the one
\* thing that ends this is a workspace in which every start is refused until a
\* person has cleaned up (_refuse_if_dirty, _await_wake's heartbeat).
EveryCommitIsMet ==
    LET refused == pc = "down" /\ Dirty
    IN (unmet ~> (~unmet \/ refused)) /\ (asked ~> (~asked \/ refused))

=============================================================================
